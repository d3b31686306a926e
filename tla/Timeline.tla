------------------------------- MODULE Timeline -------------------------------
(***************************************************************************)
(* The timeline of one conversation (crates/app/src/timeline.rs): the      *)
(* messages, the rows made of them, and the list store the view binds to.  *)
(* Events of other conversations are ignored and are stuttering steps.     *)
(*                                                                         *)
(* A message is its id, its time, its sender and a version, which stands   *)
(* for everything else an update may change.  Times are counted so that a  *)
(* UTC day has DayLength of them; a day's label is its date.               *)
(***************************************************************************)
EXTENDS Integers, Sequences, SequencesExt

CONSTANTS
  Message,     \* records with id, sent, sender and version
  Snapshots,   \* the histories a timeline may be filled with, in any order
  DayLength,   \* times in a day, 86 400 000 milliseconds in the code
  CalendarDays \* the days whose dates are checked

ASSUME TimelineAssumption ==
  /\ DayLength \in Nat \ {0}
  /\ \A m \in Message : m.id \in Int /\ m.sent \in Int
  /\ Snapshots \subseteq Seq(Message)
  /\ \A ms \in Snapshots : \A i, j \in DOMAIN ms : ms[i].id = ms[j].id => i = j

VARIABLES
  messages, rows, loadState,
  store,      \* the rows the list view shows
  effect      \* the TimelineEventEffect of the last event

timelineVars == <<messages, rows, loadState, store, effect>>

MessageIds == {m.id : m \in Message}

-----------------------------------------------------------------------------
(* Dates of the proleptic Gregorian calendar.                              *)

QuotientToZero(a, b) == IF a >= 0 THEN a \div b ELSE -((-a) \div b)

Bug_CivilDateShortLeap(days) ==
  LET z == days + 719468
      e == QuotientToZero(IF z >= 0 THEN z ELSE z - 146096, 146097)
      doe == z - e * 146097
      yoe == (doe - doe \div 1460 + doe \div 36524) \div 365
      doy == doe - (365 * yoe + yoe \div 4 - yoe \div 100)
      mp == (5 * doy + 2) \div 153
      m == mp + (IF mp < 10 THEN 3 ELSE -9)
  IN  <<yoe + e * 400 + (IF m <= 2 THEN 1 ELSE 0), m, doy - (153 * mp + 2) \div 5 + 1>>

CivilDate(days) ==
  LET z == days + 719468
      e == QuotientToZero(IF z >= 0 THEN z ELSE z - 146096, 146097)
      doe == z - e * 146097
      yoe == (doe - doe \div 1460 + doe \div 36524 - doe \div 146096) \div 365
      doy == doe - (365 * yoe + yoe \div 4 - yoe \div 100)
      mp == (5 * doy + 2) \div 153
      m == mp + (IF mp < 10 THEN 3 ELSE -9)
  IN  <<yoe + e * 400 + (IF m <= 2 THEN 1 ELSE 0), m, doy - (153 * mp + 2) \div 5 + 1>>

Day(m) == m.sent \div DayLength
Label(m) == CivilDate(Day(m))

-----------------------------------------------------------------------------
(* rebuild_rows                                                            *)

Before(m, n) == m.sent < n.sent \/ (m.sent = n.sent /\ m.id < n.id)

(* sort is stable: what compares equal stays as it was.                    *)
GoesBefore(ms, i, j) == Before(ms[i], ms[j]) \/ (~Before(ms[j], ms[i]) /\ i < j)
Ranks(ms) == [j \in DOMAIN ms |-> 1 + Cardinality({i \in DOMAIN ms : GoesBefore(ms, i, j)})]
Sorted(ms) ==
  LET ranks == Ranks(ms)
  IN  [k \in DOMAIN ms |-> ms[CHOOSE i \in DOMAIN ms : ranks[i] = k]]

Joined(ms, i, j) ==
  /\ {i, j} \subseteq DOMAIN ms
  /\ Label(ms[i]) = Label(ms[j]) /\ ms[i].sender = ms[j].sender

GroupPosition(ms, i) ==
  IF Joined(ms, i, i - 1)
  THEN IF Joined(ms, i, i + 1) THEN "Middle" ELSE "Last"
  ELSE IF Joined(ms, i, i + 1) THEN "First" ELSE "Single"

DaySeparator(label) == [row |-> "day", label |-> label]
MessageRow(m, position) == [row |-> "message", message |-> m, position |-> position]

(* A message whose label is not that of the one before it has a separator  *)
(* pushed first, so its row comes after i messages' and as many            *)
(* separators' as days have begun.                                         *)
DayStarts(ms) == {i \in DOMAIN ms : i > 1 => Label(ms[i]) # Label(ms[i - 1])}
RowPlaces(ms) ==
  LET starts == DayStarts(ms)
  IN  [i \in DOMAIN ms |-> i + Cardinality({j \in starts : j <= i})]

(* The first message whose place is not before row k.                      *)
MessageFrom(places, k) ==
  CHOOSE i \in DOMAIN places :
    k <= places[i] /\ \A j \in DOMAIN places : j < i => places[j] < k

RowsOf(ms) ==
  LET places == RowPlaces(ms)
  IN  [k \in 1..(Len(ms) + Cardinality(DayStarts(ms))) |->
         LET i == MessageFrom(places, k)
         IN  IF places[i] = k THEN MessageRow(ms[i], GroupPosition(ms, i))
             ELSE DaySeparator(Label(ms[i]))]

RowOf(rs, id) ==
  SelectInSeq(rs, LAMBDA r : r.row = "message" /\ r.message.id = id) - 1

-----------------------------------------------------------------------------
Bug_SameMessageId(shown, row) ==
  IF shown.row = "message" /\ row.row = "message" THEN shown.message.id = row.message.id
  ELSE shown = row

Bug_SameMessage(shown, row) ==
  IF shown.row = "message" /\ row.row = "message" THEN shown.message = row.message
  ELSE shown = row

(* The equality that is derived for TimelineRow, over all of its fields.   *)
SameRow(shown, row) == shown = row

(* sync_store keeps a row of the store that is the same as the new one in  *)
(* its place and replaces it otherwise; the rest of the store is dropped,  *)
(* or the rest of the rows appended.                                       *)
SyncStore(rs) ==
  [i \in DOMAIN rs |->
     IF i \in DOMAIN store /\ SameRow(store[i], rs[i]) THEN store[i] ELSE rs[i]]

Show(ms) ==
  /\ messages' = Sorted(ms)
  /\ rows' = RowsOf(messages')
  /\ store' = SyncStore(rows')

Bug_EffectAfterRemoval(kind, id) == [kind |-> kind, index |-> RowOf(rows', id)]

Effect(kind, id) == [kind |-> kind, index |-> RowOf(IF kind = "Removed" THEN rows ELSE rows', id)]
Ignored == [kind |-> "Ignored", index |-> 0]

Ignore == effect' = Ignored /\ UNCHANGED <<messages, rows, loadState, store>>

Position(id) == SelectInSeq(messages, LAMBDA m : m.id = id)

(* upsert_message, for a message the timeline has.                         *)
Replace(m) ==
  /\ Show(ReplaceAt(messages, Position(m.id), m))
  /\ effect' = Effect("Updated", m.id)
  /\ loadState' = "Ready"

(* upsert_message, for one it has not: the search finds the place that     *)
(* keeps the messages in order.                                            *)
Bug_InsertAppendedEarly(m) ==
  LET place == Cardinality({i \in DOMAIN messages : Before(messages[i], m)}) + 1
  IN  /\ Show(InsertAt(messages, place, m))
      /\ effect' = Effect(IF place >= Len(messages) THEN "Appended" ELSE "Inserted", m.id)
      /\ loadState' = "Ready"

Insert(m) ==
  LET place == Cardinality({i \in DOMAIN messages : Before(messages[i], m)}) + 1
  IN  /\ Show(InsertAt(messages, place, m))
      /\ effect' = Effect(IF place = Len(messages) + 1 THEN "Appended" ELSE "Inserted", m.id)
      /\ loadState' = "Ready"

MessageAdded(m) ==
  IF Position(m.id) = 0 THEN Insert(m)
  ELSE IF messages[Position(m.id)] = m THEN Ignore
  ELSE Replace(m)

Bug_ChangedAlwaysInserts(m) == Insert(m)

MessageChanged(m) ==
  IF Position(m.id) = 0 THEN Insert(m) ELSE Replace(m)

MessageRemoved(id) ==
  IF Position(id) = 0 THEN Ignore
  ELSE /\ Show(RemoveAt(messages, Position(id)))
       /\ effect' = Effect("Removed", id)
       /\ loadState' = "Ready"

-----------------------------------------------------------------------------
(* replace_messages: when the view is built, and set_ready, whose rows are *)
(* rebuilt from the same messages.                                         *)
TimelineInit ==
  /\ \E ms \in Snapshots : messages = Sorted(ms)
  /\ rows = RowsOf(messages) /\ store = rows
  /\ loadState = "Ready"
  /\ effect = Ignored

SetLoading ==
  /\ loadState' = "Loading"
  /\ UNCHANGED <<messages, rows, store, effect>>

SetError ==
  /\ loadState' = "Error"
  /\ UNCHANGED <<messages, rows, store, effect>>

SetReady ==
  /\ loadState' = "Ready"
  /\ Show(messages)
  /\ UNCHANGED effect

TimelineNext ==
  \/ \E m \in Message : MessageAdded(m) \/ MessageChanged(m)
  \/ \E id \in MessageIds : MessageRemoved(id)
  \/ SetLoading \/ SetError \/ SetReady

TimelineSpec == TimelineInit /\ [][TimelineNext]_timelineVars

-----------------------------------------------------------------------------
TimelineTypeOK ==
  /\ messages \in Seq(Message)
  /\ loadState \in {"Loading", "Ready", "Error"}
  /\ Len(rows) <= 2 * Len(messages)
  /\ effect.kind \in {"Ignored", "Inserted", "Appended", "Updated", "Removed"}
  /\ effect.index \in Nat

(* One row per message id, oldest first, whatever order events come in and *)
(* whatever times an update moves a message to.                            *)
MessagesInOrder ==
  \A i, j \in DOMAIN messages :
    i < j => Before(messages[i], messages[j]) /\ messages[i].id # messages[j].id

(* What the list view shows is the messages, with one separator before the *)
(* first message of each UTC day and nowhere else.                         *)
StoreShowsDays ==
  /\ SelectSeq(store, LAMBDA r : r.row = "message") = SelectSeq(rows, LAMBDA r : r.row = "message")
  /\ Len(store) = Len(messages) + Cardinality({Day(messages[i]) : i \in DOMAIN messages})
  /\ \A i \in DOMAIN store :
       store[i].row = "day" =>
         /\ i < Len(store) /\ store[i + 1].row = "message"
         /\ \A j \in 1..i : store[j].row = "message" =>
              Day(store[j].message) < Day(store[i + 1].message)

(* The bubbles of a group join up: First is followed, within the same day  *)
(* and sender, by Middle or Last, and only then.                           *)
GroupsAreWhole ==
  \A i \in DOMAIN store :
    LET opens(j) == j \in DOMAIN store /\ store[j].row = "message"
                    /\ store[j].position \in {"First", "Middle"}
        continues(j) == j \in DOMAIN store /\ store[j].row = "message"
                        /\ store[j].position \in {"Middle", "Last"}
    IN  /\ opens(i) <=> continues(i + 1)
        /\ opens(i) => store[i].message.sender = store[i + 1].message.sender

(* The effect an event returns names the row of its message: the new row,  *)
(* which is the last one exactly when the message was appended.            *)
EffectNamesRow ==
  [][\A m \in Message :
       effect' # Ignored /\ (MessageAdded(m) \/ MessageChanged(m)) =>
         /\ rows'[effect'.index + 1].row = "message"
         /\ rows'[effect'.index + 1].message = m
         /\ effect'.kind # "Updated" =>
              (effect'.kind = "Appended" <=> effect'.index + 1 = Len(rows'))]_timelineVars

(* The calendar, as everyone learns it.                                    *)
IsLeap(y) == y % 4 = 0 /\ (y % 100 = 0 => y % 400 = 0)
DaysIn(y, m) ==
  CASE m = 2 -> IF IsLeap(y) THEN 29 ELSE 28
    [] m \in {4, 6, 9, 11} -> 30
    [] OTHER -> 31
NextDate(date) ==
  LET y == date[1] m == date[2] d == date[3]
  IN  IF d < DaysIn(y, m) THEN <<y, m, d + 1>>
      ELSE IF m < 12 THEN <<y, m + 1, 1>>
      ELSE <<y + 1, 1, 1>>

WrongDates == {d \in CalendarDays : CivilDate(d + 1) # NextDate(CivilDate(d))}

(* A separator's label is its day's date: day 0 is 1970-01-01 and from day *)
(* to day the date is the calendar's next, so no two days share a label    *)
(* and no day has two.                                                     *)
LabelsAreDates ==
  /\ CivilDate(0) = <<1970, 1, 1>> /\ WrongDates = {}
  /\ \A i \in DOMAIN messages : Day(messages[i]) \in CalendarDays
=============================================================================
