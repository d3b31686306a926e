SPECIFICATION SignOutSpec
CONSTANTS
  setup1 = setup1
  setup2 = setup2
  use1 = use1
  Setup <- MCSetup
  Use <- MCUse
  None = None
INVARIANTS
  SignOutTypeOK
  
  
  
SYMMETRY MCSymmetry
CHECK_DEADLOCK FALSE
