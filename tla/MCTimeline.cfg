SPECIFICATION TimelineSpec
CONSTANTS
  Message <- MCMessage
  Snapshots <- MCSnapshots
  DayLength = 2
  CalendarDays <- MCCalendarDays
INVARIANTS
  TimelineTypeOK
  MessagesInOrder
  StoreShowsDays
  GroupsAreWhole
  LabelsAreDates
PROPERTY
  EffectNamesRow
