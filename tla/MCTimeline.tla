------------------------------ MODULE MCTimeline ------------------------------
(* A timeline of up to three messages around midnight: times -1 and 0 are  *)
(* on two sides of the epoch, 0 and 1 on the same day.  The dates are      *)
(* checked from before March of the year -400, where the days that         *)
(* CivilDate has shifted are negative and turn 400 years, to 2372.         *)
EXTENDS Timeline

MCSender == <<"me", "me", "you">>
MCMessage ==
  [id : {1}, sent : -1..2, sender : {"me"}, version : {1, 2}]
    \union {[id |-> i, sent |-> t, sender |-> MCSender[i], version |-> 1] : i \in 2..3, t \in -1..2}
MCSnapshots ==
  {<<>>, <<[id |-> 3, sent |-> 1, sender |-> "you", version |-> 1],
           [id |-> 1, sent |-> 0, sender |-> "me", version |-> 1]>>}

MCCalendarDays == -866000..147000
=============================================================================
