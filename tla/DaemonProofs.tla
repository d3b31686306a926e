---------------------------- MODULE DaemonProofs ----------------------------
(* What DaemonService promises about its event queue, for any number of    *)
(* calls and restarts.                                                     *)
EXTENDS DaemonService, FiniteSetTheorems, SequenceTheorems, TLAPS

(* The invariant needs nothing but the places of the calls.                *)
QueueInv == pc \in [Call -> Places] /\ QueueWillBeDrained

(* The invariant of the queues holds when the daemon starts.               *)
LEMMA QueueInit == DaemonInit => QueueInv
BY DEF DaemonInit, QueueInv, QueueWillBeDrained, Places

(* A call's own steps: only the call that drains leaves "drain", and it    *)
(* leaves an empty queue; only a call that goes to "drain" fills it.       *)
LEMMA QueueTask ==
  ASSUME QueueInv, NEW c \in Call, Dispatch(c) \/ Work(c)
  PROVE  QueueInv'
<1> USE DEF QueueInv, QueueWillBeDrained, Places, Goto
<1>1. CASE Refresh(c)
  BY <1>1 DEF Refresh
<1>2. ASSUME NEW asked, Handle(c, asked) PROVE QueueInv'
  BY <1>2 DEF Handle
<1>3. ASSUME NEW ok, AdapterAnswers(c, ok) PROVE QueueInv'
  BY <1>3 DEF AdapterAnswers
<1>4. CASE PushEvent(c)
  BY <1>4 DEF PushEvent
<1>5. CASE DrainEvents(c)
  BY <1>5 DEF DrainEvents
<1>6. CASE EmitEvent(c)
  BY <1>6 DEF EmitEvent
<1>7. CASE EmitFails(c)
  BY <1>7 DEF EmitFails
<1>8. CASE Return(c)
  BY <1>8 DEF Return
<1> QED
  BY <1>1, <1>2, <1>3, <1>4, <1>5, <1>6, <1>7, <1>8 DEF Dispatch, Work

(* Every step keeps it.                                                    *)
LEMMA QueueStep == QueueInv /\ [DaemonNext]_daemonVars => QueueInv'
<1> SUFFICES ASSUME QueueInv, [DaemonNext]_daemonVars PROVE QueueInv'
  OBVIOUS
<1>1. ASSUME NEW c \in Call, Dispatch(c) \/ Work(c) PROVE QueueInv'
  BY <1>1, QueueTask
<1>2. CASE Restart
  BY <1>2 DEF Restart, QueueInv, QueueWillBeDrained, Places
<1>3. CASE UNCHANGED daemonVars
  BY <1>3 DEF daemonVars, QueueInv, QueueWillBeDrained
<1> QED
  BY <1>1, <1>2, <1>3 DEF DaemonNext

(* However many calls there are, and however often the daemon restarts, an *)
(* event in the queue of crates/daemon/src/lib.rs is always one that a     *)
(* call in progress has still to drain.                                    *)
THEOREM QueueAlwaysDrained == DaemonSpec => []QueueWillBeDrained
<1>1. QueueInv => QueueWillBeDrained
  BY DEF QueueInv
<1> QED
  BY <1>1, QueueInit, QueueStep, PTL DEF DaemonSpec

-----------------------------------------------------------------------------
(* Sequences of events.                                                    *)

(* What one queue after another holds, and when it holds nothing twice.    *)
LEMMA ConcatHolds ==
  ASSUME NEW S, NEW s \in Seq(S), NEW t \in Seq(S)
  PROVE  /\ s \o t \in Seq(S)
         /\ ToSet(s \o t) = ToSet(s) \union ToSet(t)
         /\ IsInjective(s \o t) <=> /\ IsInjective(s) /\ IsInjective(t)
                                    /\ ToSet(s) \intersect ToSet(t) = {}
<1>1. /\ Len(s) \in Nat /\ DOMAIN s = 1..Len(s)
      /\ Len(t) \in Nat /\ DOMAIN t = 1..Len(t)
  BY LenProperties
<1>2. /\ s \o t \in Seq(S)
      /\ DOMAIN (s \o t) = 1..(Len(s) + Len(t))
      /\ \A i \in 1..(Len(s) + Len(t)) :
           (s \o t)[i] = IF i <= Len(s) THEN s[i] ELSE t[i - Len(s)]
  BY ConcatProperties, LenProperties
<1>3. /\ \A i \in 1..Len(s) : i \in 1..(Len(s) + Len(t)) /\ (s \o t)[i] = s[i]
      /\ \A i \in 1..Len(t) : Len(s) + i \in 1..(Len(s) + Len(t)) /\ (s \o t)[Len(s) + i] = t[i]
  BY <1>1, <1>2
<1>4. ASSUME NEW i \in 1..(Len(s) + Len(t))
      PROVE  i \in 1..Len(s) \/ \E j \in 1..Len(t) : i = Len(s) + j
  <2>1. CASE i <= Len(s)
    BY <1>1, <2>1
  <2>2. CASE Len(s) < i
    <3>1. i - Len(s) \in 1..Len(t) /\ i = Len(s) + (i - Len(s))
      BY <1>1, <2>2
    <3>. QED
      BY <3>1
  <2>. QED
    BY <1>1, <2>1, <2>2
<1>5. ToSet(s \o t) = ToSet(s) \union ToSet(t)
  <2>1. ASSUME NEW e \in ToSet(s \o t) PROVE e \in ToSet(s) \union ToSet(t)
    <3>1. PICK i \in 1..(Len(s) + Len(t)) : (s \o t)[i] = e
      BY <1>2 DEF ToSet
    <3>. QED
      BY <1>1, <1>3, <1>4, <3>1 DEF ToSet
  <2>2. ASSUME NEW e \in ToSet(s) PROVE e \in ToSet(s \o t)
    <3>1. PICK i \in 1..Len(s) : s[i] = e
      BY <1>1, <2>2 DEF ToSet
    <3>. QED
      BY <1>2, <1>3, <3>1 DEF ToSet
  <2>3. ASSUME NEW e \in ToSet(t) PROVE e \in ToSet(s \o t)
    <3>1. PICK i \in 1..Len(t) : t[i] = e
      BY <1>1, <2>3 DEF ToSet
    <3>. QED
      BY <1>2, <1>3, <3>1 DEF ToSet
  <2>. QED
    BY <2>1, <2>2, <2>3
<1>6. ASSUME IsInjective(s \o t)
      PROVE  IsInjective(s) /\ IsInjective(t) /\ ToSet(s) \intersect ToSet(t) = {}
  <2>1. ASSUME NEW i \in 1..Len(s), NEW j \in 1..Len(s), s[i] = s[j] PROVE i = j
    BY <1>2, <1>3, <1>6, <2>1 DEF IsInjective
  <2>2. ASSUME NEW i \in 1..Len(t), NEW j \in 1..Len(t), t[i] = t[j] PROVE i = j
    <3>1. Len(s) + i = Len(s) + j
      <4>1. (s \o t)[Len(s) + i] = (s \o t)[Len(s) + j]
        BY <1>3, <2>2, Zenon
      <4>. QED
        BY <1>2, <1>3, <1>6, <4>1, Zenon DEF IsInjective
    <3>. QED
      BY <1>1, <3>1
  <2>3. ASSUME NEW i \in 1..Len(s), NEW j \in 1..Len(t), s[i] = t[j] PROVE FALSE
    <3>1. i = Len(s) + j
      BY <1>2, <1>3, <1>6, <2>3 DEF IsInjective
    <3>. QED
      BY <1>1, <3>1
  <2>. QED
    BY <1>1, <2>1, <2>2, <2>3 DEF IsInjective, ToSet
<1>7. ASSUME IsInjective(s), IsInjective(t), ToSet(s) \intersect ToSet(t) = {}
      PROVE  IsInjective(s \o t)
  <2> SUFFICES ASSUME NEW i \in 1..(Len(s) + Len(t)), NEW j \in 1..(Len(s) + Len(t)),
                      (s \o t)[i] = (s \o t)[j]
               PROVE  i = j
    BY <1>2 DEF IsInjective
  <2>1. CASE i \in 1..Len(s) /\ j \in 1..Len(s)
    BY <1>1, <1>3, <1>7, <2>1 DEF IsInjective
  <2>2. ASSUME NEW k \in 1..Len(t), NEW l \in 1..Len(t), i = Len(s) + k, j = Len(s) + l
        PROVE  i = j
    <3>1. t[k] = t[l]
      BY <1>3, <2>2
    <3>. QED
      BY <1>1, <1>7, <2>2, <3>1 DEF IsInjective
  <2>3. ASSUME NEW k \in 1..Len(s), NEW l \in 1..Len(t),
               (s \o t)[k] = (s \o t)[Len(s) + l]
        PROVE  FALSE
    <3>1. s[k] = t[l]
      BY <1>3, <2>3
    <3>2. s[k] \in ToSet(s) /\ t[l] \in ToSet(t)
      BY <1>1 DEF ToSet
    <3>. QED
      BY <1>7, <3>1, <3>2
  <2>. QED
    BY <1>4, <2>1, <2>2, <2>3
<1>. QED
  BY <1>2, <1>5, <1>6, <1>7

(* Taking the first event of a queue.                                      *)
LEMMA TakeFirst ==
  ASSUME NEW S, NEW s \in Seq(S), s # <<>>
  PROVE  /\ Head(s) \in S /\ Tail(s) \in Seq(S)
         /\ ToSet(s) = {Head(s)} \union ToSet(Tail(s))
         /\ IsInjective(s) => IsInjective(Tail(s)) /\ Head(s) \notin ToSet(Tail(s))
<1>1. Head(s) \in S /\ Tail(s) \in Seq(S) /\ <<Head(s)>> \in Seq(S)
  BY HeadTailProperties
<1>2. s = <<Head(s)>> \o Tail(s)
  BY SMT
<1>3. ToSet(<<Head(s)>>) = {Head(s)}
  BY DEF ToSet
<1> DEFINE first == <<Head(s)>>
           rest == Tail(s)
<1> HIDE DEF first, rest
<1>4. /\ ToSet(first \o rest) = ToSet(first) \union ToSet(rest)
      /\ IsInjective(first \o rest) =>
           IsInjective(rest) /\ ToSet(first) \intersect ToSet(rest) = {}
  <2>1. first \in Seq(S) /\ rest \in Seq(S)
    BY <1>1 DEF first, rest
  <2>2. /\ ToSet(first \o rest) = ToSet(first) \union ToSet(rest)
        /\ IsInjective(first \o rest) <=> /\ IsInjective(first) /\ IsInjective(rest)
                                          /\ ToSet(first) \intersect ToSet(rest) = {}
    BY <2>1, ConcatHolds, Zenon
  <2>. QED
    BY <2>2, Zenon
<1>. QED
  BY <1>1, <1>2, <1>3, <1>4 DEF first, rest

(* A sequence of one event.                                                *)
LEMMA OneEvent ==
  ASSUME NEW e
  PROVE  ToSet(<<e>>) = {e} /\ IsInjective(<<e>>)
  BY DEF ToSet, IsInjective

(* The empty queue holds nothing.                                          *)
LEMMA NoEvent == ToSet(<<>>) = {} /\ IsInjective(<<>>)
  BY DEF ToSet, IsInjective

-----------------------------------------------------------------------------
(* The inductive invariant.                                                *)

AllEvents == Raised \union ToSet(wire) \union lost

(* What a call has where it is.                                            *)
CallInv ==
  \A c \in Call :
    /\ pc[c] = "idle" => operation[c] = <<>> /\ change[c] = NoChange
    /\ pc[c] \in {"idle", "adapter", "drain", "replied", "gone"} => outgoing[c] = <<>>
    /\ pc[c] = "adapter" => operation[c] # <<>> /\ operation[c][1] = run

(* An operation id names one call, and the next one is new.                *)
OperationInv ==
  \A c \in Call : operation[c] # <<>> =>
    /\ operation[c][1] <= run /\ (operation[c][1] = run => operation[c][2] < nextOperation)
    /\ \A d \in Call : operation[d] = operation[c] => d = c

(* An event id names one event, the next one is new, and an event tells    *)
(* how the operation of its call ended.                                    *)
EventInv ==
  \A e \in AllEvents :
    /\ e.id[1] <= run /\ (e.id[1] = run => e.id[2] < nextEvent)
    /\ \A f \in AllEvents : f.id = e.id => f = e
    /\ \E c \in Call :
         /\ e.op = operation[c] /\ pc[c] # "adapter"
         /\ reply[c] \in {"Complete", "Failed"} => e.connected = (reply[c] = "Complete")

(* The counters count the operations, and the answers, of this run: they   *)
(* do not run out of ids.                                                  *)
Started == {c \in Call : operation[c] # <<>> /\ operation[c][1] = run}
Answered == {c \in Started : pc[c] # "adapter"}

CountInv ==
  /\ nextOperation = Cardinality(Started) + 1
  /\ nextEvent = Cardinality(Answered) + 1

(* EventInOnePlace, place by place.                                        *)
PlaceInv ==
  /\ IsInjective(events) /\ IsInjective(wire)
  /\ ToSet(events) \intersect ToSet(wire) = {}
  /\ (ToSet(events) \union ToSet(wire)) \intersect lost = {}
  /\ \A c \in Call :
       /\ IsInjective(outgoing[c])
       /\ ToSet(outgoing[c]) \intersect (ToSet(events) \union ToSet(wire) \union lost) = {}
       /\ \A d \in Call \ {c} : ToSet(outgoing[c]) \intersect ToSet(outgoing[d]) = {}

DaemonInv ==
  /\ DaemonTypeOK
  /\ CallInv
  /\ OperationInv
  /\ EventInv
  /\ CountInv
  /\ PlaceInv

(* The invariant holds when the daemon starts.                             *)
LEMMA DaemonInitial == DaemonInit => DaemonInv
<1> SUFFICES ASSUME DaemonInit PROVE DaemonInv
  OBVIOUS
<1>1. DaemonTypeOK
  BY SettingsAssumption, BoundsAssumption, EmptySeq DEF DaemonInit, DaemonTypeOK, Places, Replies
<1>2. CallInv
  BY DEF DaemonInit, CallInv
<1>3. OperationInv
  BY DEF DaemonInit, OperationInv
<1>4. AllEvents = {}
  BY NoEvent DEF DaemonInit, AllEvents, Raised
<1>5. EventInv
  BY <1>4 DEF EventInv
<1>6. Started = {} /\ Answered = {}
  BY DEF DaemonInit, Started, Answered
<1>7. CountInv
  BY <1>6, FS_EmptySet DEF DaemonInit, CountInv
<1>8. PlaceInv
  BY NoEvent DEF DaemonInit, PlaceInv
<1>. QED
  BY <1>1, <1>2, <1>3, <1>5, <1>7, <1>8 DEF DaemonInv

(* Every event anywhere is one.                                            *)
LEMMA EventsTyped ==
  ASSUME DaemonTypeOK
  PROVE  /\ AllEvents \subseteq Event
         /\ \A c \in Call : outgoing[c] \in Seq(Event)
<1>1. \A s \in Seq(Event) : ToSet(s) \subseteq Event
  BY ElementOfSeq, LenProperties DEF ToSet
<1>2. /\ ToSet(events) \subseteq Event /\ ToSet(wire) \subseteq Event /\ lost \subseteq Event
      /\ \A c \in Call : outgoing[c] \in Seq(Event) /\ ToSet(outgoing[c]) \subseteq Event
  BY <1>1 DEF DaemonTypeOK
<1>. QED
  BY <1>2 DEF AllEvents, Raised

(* An id is not the mark that there is none.                               *)
LEMMA IdIsSome ==
  ASSUME NEW id \in Ids
  PROVE  id # <<>>
<1>1. PICK i \in 1..MaxRuns, j \in 1..Cardinality(Call) : id = <<i, j>>
  BY DEF Ids
<1>. QED
  BY <1>1

(* Some calls are fewer than all of them while one is left out.            *)
LEMMA RoomForOne ==
  ASSUME NEW S \in SUBSET Call, NEW c \in Call, c \notin S
  PROVE  /\ Cardinality(S) + 1 \in 1..Cardinality(Call)
         /\ Cardinality(S \union {c}) = Cardinality(S) + 1
<1>1. IsFiniteSet(S) /\ Cardinality(S) \in Nat /\ Cardinality(Call) \in Nat
  BY BoundsAssumption, FS_Subset, FS_CardinalityType
<1>2. IsFiniteSet(S \union {c}) /\ Cardinality(S \union {c}) = Cardinality(S) + 1
  BY <1>1, FS_AddElement
<1>3. Cardinality(S \union {c}) <= Cardinality(Call)
  BY BoundsAssumption, FS_Subset
<1>. QED
  BY <1>1, <1>2, <1>3

(* A handler that takes an operation id.                                   *)
LEMMA RefreshStep ==
  ASSUME DaemonInv, NEW c \in Call, Refresh(c)
  PROVE  DaemonInv'
<1>1. /\ pc[c] = "idle" /\ pc' = [pc EXCEPT ![c] = "adapter"]
      /\ operation' = [operation EXCEPT ![c] = <<run, nextOperation>>]
      /\ nextOperation' = nextOperation + 1
      /\ UNCHANGED <<change, outgoing, reply, events, wire, lost, nextEvent, settings, run>>
  BY DEF Refresh, Goto
<1>2. DaemonTypeOK /\ operation[c] = <<>>
  BY <1>1 DEF DaemonInv, CallInv
<1>3. /\ c \notin Started
      /\ Started \in SUBSET Call /\ Answered \in SUBSET Started
      /\ Started' = Started \union {c} /\ Answered' = Answered
  BY <1>1, <1>2 DEF DaemonTypeOK, Started, Answered
<1>4. nextOperation \in 1..Cardinality(Call) /\ Cardinality(Started') = nextOperation
  BY <1>3, RoomForOne DEF DaemonInv, CountInv
<1>5. <<run, nextOperation>> \in Ids
  BY <1>2, <1>4 DEF DaemonTypeOK, Ids
<1>6. DaemonTypeOK'
  BY <1>1, <1>2, <1>4, <1>5 DEF DaemonTypeOK, Places
<1>7. CallInv'
  BY <1>1, <1>2 DEF DaemonInv, CallInv, DaemonTypeOK
<1>8. ASSUME NEW d \in Call, operation[d] = <<run, nextOperation>> PROVE FALSE
  <2>1. operation[d] # <<>> /\ operation[d][1] = run /\ operation[d][2] = nextOperation
    BY <1>8
  <2>2. nextOperation < nextOperation
    BY <2>1 DEF DaemonInv, OperationInv
  <2>. QED
    BY <1>2, <2>2 DEF DaemonTypeOK
<1>9. OperationInv'
  <2>1. /\ operation'[c] = <<run, nextOperation>> /\ run \in Nat /\ nextOperation \in Nat
        /\ \A d \in Call : d # c => operation'[d] = operation[d]
    BY <1>1, <1>2 DEF DaemonTypeOK
  <2> SUFFICES ASSUME NEW d \in Call, operation'[d] # <<>>
               PROVE  /\ operation'[d][1] <= run
                      /\ operation'[d][1] = run => operation'[d][2] < nextOperation'
                      /\ \A b \in Call : operation'[b] = operation'[d] => b = d
    BY <1>1 DEF OperationInv
  <2>2. CASE d = c
    BY <1>1, <1>8, <2>1, <2>2
  <2>3. CASE d # c
    <3>1. /\ operation[d] \in Ids /\ operation[d][1] <= run
          /\ operation[d][1] = run => operation[d][2] < nextOperation
          /\ \A b \in Call : operation[b] = operation[d] => b = d
      BY <1>2, <2>1, <2>3 DEF DaemonInv, OperationInv, DaemonTypeOK
    <3>2. operation[d][2] \in Nat
      BY <3>1 DEF Ids
    <3>. QED
      BY <1>1, <1>8, <2>1, <2>3, <3>1, <3>2
  <2>. QED
    BY <2>2, <2>3
<1>10. AllEvents' = AllEvents /\ AllEvents \subseteq Event
  BY <1>1, <1>2, EventsTyped DEF AllEvents, Raised
<1>11. EventInv'
  <2> SUFFICES ASSUME NEW e \in AllEvents
               PROVE  /\ e.id[1] <= run /\ (e.id[1] = run => e.id[2] < nextEvent)
                      /\ \A f \in AllEvents : f.id = e.id => f = e
                      /\ \E d \in Call :
                           /\ e.op = operation'[d] /\ pc'[d] # "adapter"
                           /\ reply[d] \in {"Complete", "Failed"} =>
                                e.connected = (reply[d] = "Complete")
    BY <1>1, <1>10 DEF EventInv
  <2>1. /\ e.id[1] <= run /\ (e.id[1] = run => e.id[2] < nextEvent)
        /\ \A f \in AllEvents : f.id = e.id => f = e
    BY DEF DaemonInv, EventInv
  <2>2. PICK d \in Call :
          /\ e.op = operation[d] /\ pc[d] # "adapter"
          /\ reply[d] \in {"Complete", "Failed"} => e.connected = (reply[d] = "Complete")
    BY DEF DaemonInv, EventInv
  <2>3. e.op # <<>>
    BY <1>10 DEF Event, Ids
  <2>4. d # c
    BY <1>2, <2>2, <2>3
  <2>5. operation'[d] = operation[d] /\ pc'[d] = pc[d]
    BY <1>1, <1>2, <2>4 DEF DaemonTypeOK
  <2>. QED
    BY <2>1, <2>2, <2>5
<1>12. CountInv'
  BY <1>1, <1>3, <1>4 DEF DaemonInv, CountInv
<1>13. PlaceInv'
  BY <1>1 DEF DaemonInv, PlaceInv
<1>. QED
  BY <1>6, <1>7, <1>9, <1>11, <1>12, <1>13 DEF DaemonInv

(* The steps that follow the answer move events, but raise none, and leave *)
(* the operations and the counters alone.                                  *)
LEMMA MoveKeeps ==
  ASSUME DaemonInv, AllEvents' = AllEvents,
         UNCHANGED <<operation, nextEvent, nextOperation, run>>,
         \A d \in Call : pc'[d] = "adapter" <=> pc[d] = "adapter",
         \A d \in Call : reply'[d] = reply[d] \/ reply'[d] \notin {"Complete", "Failed"}
  PROVE  OperationInv' /\ EventInv' /\ CountInv'
<1>1. OperationInv'
  BY DEF DaemonInv, OperationInv
<1>2. EventInv'
  <2> SUFFICES ASSUME NEW e \in AllEvents
               PROVE  /\ e.id[1] <= run /\ (e.id[1] = run => e.id[2] < nextEvent)
                      /\ \A f \in AllEvents : f.id = e.id => f = e
                      /\ \E d \in Call :
                           /\ e.op = operation[d] /\ pc'[d] # "adapter"
                           /\ reply'[d] \in {"Complete", "Failed"} =>
                                e.connected = (reply'[d] = "Complete")
    BY DEF EventInv
  <2>1. /\ e.id[1] <= run /\ (e.id[1] = run => e.id[2] < nextEvent)
        /\ \A f \in AllEvents : f.id = e.id => f = e
    BY DEF DaemonInv, EventInv
  <2>2. PICK d \in Call :
          /\ e.op = operation[d] /\ pc[d] # "adapter"
          /\ reply[d] \in {"Complete", "Failed"} => e.connected = (reply[d] = "Complete")
    BY DEF DaemonInv, EventInv
  <2>. QED
    BY <2>1, <2>2
<1>3. Started' = Started /\ Answered' = Answered
  BY DEF Started, Answered
<1>. QED
  BY <1>1, <1>2, <1>3 DEF DaemonInv, CountInv

(* Events on their way, when only one call's hands and the queue change.   *)
OthersHold(c) == UNION {ToSet(outgoing[d]) : d \in Call \ {c}}

(* What is raised is queued, in the hands of one call or of the others.    *)
LEMMA HandsChange ==
  ASSUME NEW c \in Call, \A d \in Call \ {c} : outgoing'[d] = outgoing[d]
  PROVE  /\ Raised = ToSet(events) \union ToSet(outgoing[c]) \union OthersHold(c)
         /\ Raised' = ToSet(events') \union ToSet(outgoing'[c]) \union OthersHold(c)
<1>1. UNION {ToSet(outgoing[d]) : d \in Call} = OthersHold(c) \union ToSet(outgoing[c])
  BY DEF OthersHold
<1>2. UNION {ToSet(outgoing'[d]) : d \in Call} = OthersHold(c) \union ToSet(outgoing'[c])
  BY DEF OthersHold
<1>. QED
  BY <1>1, <1>2 DEF Raised

(* What moves from one place to another is still somewhere.                *)
LEMMA EventsMove ==
  ASSUME NEW c \in Call, \A d \in Call \ {c} : outgoing'[d] = outgoing[d]
  PROVE  /\ ToSet(events') \union ToSet(outgoing'[c]) = ToSet(events) \union ToSet(outgoing[c])
              => Raised' = Raised
         /\ ToSet(events') \union ToSet(outgoing'[c]) \union ToSet(wire') \union lost' =
              ToSet(events) \union ToSet(outgoing[c]) \union ToSet(wire) \union lost
              => AllEvents' = AllEvents
<1>1. /\ Raised = ToSet(events) \union ToSet(outgoing[c]) \union OthersHold(c)
      /\ Raised' = ToSet(events') \union ToSet(outgoing'[c]) \union OthersHold(c)
  BY HandsChange
<1>2. /\ AllEvents = ToSet(events) \union ToSet(outgoing[c]) \union OthersHold(c)
                     \union ToSet(wire) \union lost
      /\ AllEvents' = ToSet(events') \union ToSet(outgoing'[c]) \union OthersHold(c)
                      \union ToSet(wire') \union lost'
  BY <1>1 DEF AllEvents
<1>. QED
  BY <1>1, <1>2

(* A call that pushes what it holds on the queue.                          *)
LEMMA PushStep ==
  ASSUME DaemonInv, NEW c \in Call, PushEvent(c)
  PROVE  DaemonInv' /\ Raised' = Raised
<1>1. /\ pc[c] = "push" /\ pc' = [pc EXCEPT ![c] = "drain"]
      /\ events' = events \o outgoing[c] /\ outgoing' = [outgoing EXCEPT ![c] = <<>>]
      /\ UNCHANGED <<wire, lost, change, operation, reply>>
      /\ UNCHANGED <<nextEvent, nextOperation, settings, run>>
  BY DEF PushEvent, Goto, taskVars, serviceVars
<1>2. DaemonTypeOK /\ outgoing[c] \in Seq(Event) /\ events \in Seq(Event)
  BY DEF DaemonInv, DaemonTypeOK
<1>3. /\ pc'[c] = "drain" /\ outgoing'[c] = <<>>
      /\ \A d \in Call \ {c} : pc'[d] = pc[d] /\ outgoing'[d] = outgoing[d]
  BY <1>1, <1>2 DEF DaemonTypeOK
<1>4. /\ events' \in Seq(Event)
      /\ ToSet(events') = ToSet(events) \union ToSet(outgoing[c])
      /\ IsInjective(events) /\ IsInjective(outgoing[c])
           /\ ToSet(events) \intersect ToSet(outgoing[c]) = {} => IsInjective(events')
  BY <1>1, <1>2, ConcatHolds
<1>5. Raised' = Raised /\ AllEvents' = AllEvents
  BY <1>1, <1>3, <1>4, EventsMove, NoEvent
<1>6. DaemonTypeOK'
  BY <1>1, <1>2, <1>4, EmptySeq DEF DaemonTypeOK, Places
<1>7. CallInv'
  BY <1>1, <1>3 DEF DaemonInv, CallInv
<1>8. OperationInv' /\ EventInv' /\ CountInv'
  BY <1>1, <1>3, <1>5, MoveKeeps
<1>9. PlaceInv'
  <2>1. /\ IsInjective(events') /\ IsInjective(wire')
        /\ ToSet(events') \intersect ToSet(wire') = {}
        /\ (ToSet(events') \union ToSet(wire')) \intersect lost' = {}
    BY <1>1, <1>4 DEF DaemonInv, PlaceInv
  <2>2. ASSUME NEW d \in Call
        PROVE  /\ IsInjective(outgoing'[d])
               /\ ToSet(outgoing'[d]) \intersect (ToSet(events') \union ToSet(wire') \union lost') = {}
               /\ \A e \in Call \ {d} : ToSet(outgoing'[d]) \intersect ToSet(outgoing'[e]) = {}
    <3>1. CASE d = c
      BY <1>3, <3>1, NoEvent
    <3>2. CASE d # c
      BY <1>1, <1>3, <1>4, <3>2, NoEvent DEF DaemonInv, PlaceInv
    <3>. QED
      BY <3>1, <3>2
  <2>. QED
    BY <2>1, <2>2, Zenon DEF PlaceInv
<1>. QED
  BY <1>5, <1>6, <1>7, <1>8, <1>9 DEF DaemonInv

(* A call that takes the whole queue.                                      *)
LEMMA DrainStep ==
  ASSUME DaemonInv, NEW c \in Call, DrainEvents(c)
  PROVE  DaemonInv' /\ Raised' = Raised
<1>1. /\ pc[c] = "drain" /\ pc' = [pc EXCEPT ![c] = "emit"]
      /\ events' = <<>> /\ outgoing' = [outgoing EXCEPT ![c] = events]
      /\ UNCHANGED <<wire, lost, change, operation, reply>>
      /\ UNCHANGED <<nextEvent, nextOperation, settings, run>>
  BY DEF DrainEvents, Goto, taskVars, serviceVars
<1>2. DaemonTypeOK /\ outgoing[c] = <<>> /\ events \in Seq(Event)
  BY <1>1 DEF DaemonInv, DaemonTypeOK, CallInv
<1>3. /\ pc'[c] = "emit" /\ outgoing'[c] = events
      /\ \A d \in Call \ {c} : pc'[d] = pc[d] /\ outgoing'[d] = outgoing[d]
  BY <1>1, <1>2 DEF DaemonTypeOK
<1>4. Raised' = Raised /\ AllEvents' = AllEvents
  BY <1>1, <1>2, <1>3, EventsMove
<1>5. DaemonTypeOK'
  BY <1>1, <1>2, EmptySeq DEF DaemonTypeOK, Places
<1>6. CallInv'
  BY <1>1, <1>3 DEF DaemonInv, CallInv
<1>7. OperationInv' /\ EventInv' /\ CountInv'
  BY <1>1, <1>3, <1>4, MoveKeeps
<1>8. PlaceInv'
  BY <1>1, <1>2, <1>3, NoEvent DEF DaemonInv, PlaceInv
<1>. QED
  BY <1>4, <1>5, <1>6, <1>7, <1>8 DEF DaemonInv

(* A call that signals the first event it holds.                           *)
LEMMA EmitStep ==
  ASSUME DaemonInv, NEW c \in Call, EmitEvent(c)
  PROVE  DaemonInv'
<1>1. /\ pc[c] = "emit" /\ outgoing[c] # <<>>
      /\ wire' = Append(wire, Head(outgoing[c]))
      /\ outgoing' = [outgoing EXCEPT ![c] = Tail(outgoing[c])]
      /\ UNCHANGED <<pc, events, lost, change, operation, reply>>
      /\ UNCHANGED <<nextEvent, nextOperation, settings, run>>
  BY DEF EmitEvent, taskVars, serviceVars
<1>2. DaemonTypeOK /\ outgoing[c] \in Seq(Event) /\ wire \in Seq(Event)
  BY DEF DaemonInv, DaemonTypeOK
<1> DEFINE sent == Head(outgoing[c])
           rest == Tail(outgoing[c])
<1>3. /\ sent \in Event /\ rest \in Seq(Event)
      /\ ToSet(outgoing[c]) = {sent} \union ToSet(rest)
      /\ IsInjective(outgoing[c]) => IsInjective(rest) /\ sent \notin ToSet(rest)
  BY <1>1, <1>2, TakeFirst
<1> HIDE DEF sent, rest
<1> DEFINE one == <<sent>>
<1>4. one \in Seq(Event) /\ ToSet(one) = {sent} /\ IsInjective(one)
  BY <1>3, OneEvent
<1>5. wire' = wire \o one
  BY <1>1, <1>2, <1>3, AppendIsConcat DEF sent
<1> HIDE DEF one
<1>6. /\ wire' \in Seq(Event) /\ ToSet(wire') = ToSet(wire) \union {sent}
      /\ IsInjective(wire) /\ sent \notin ToSet(wire) => IsInjective(wire')
  BY <1>2, <1>4, <1>5, ConcatHolds
<1>7. /\ outgoing' = [outgoing EXCEPT ![c] = rest] /\ outgoing'[c] = rest
      /\ \A d \in Call \ {c} : outgoing'[d] = outgoing[d]
  BY <1>1, <1>2 DEF DaemonTypeOK, rest
<1>8. AllEvents' = AllEvents
  BY <1>1, <1>3, <1>6, <1>7, EventsMove
<1>9. DaemonTypeOK'
  BY <1>1, <1>2, <1>3, <1>6, <1>7 DEF DaemonTypeOK
<1>10. CallInv'
  BY <1>1, <1>7 DEF DaemonInv, CallInv
<1>11. OperationInv' /\ EventInv' /\ CountInv'
  BY <1>1, <1>8, MoveKeeps
<1>12. PlaceInv'
  <2>1. PlaceInv
    BY DEF DaemonInv
  <2>2. ToSet(rest) \subseteq ToSet(outgoing[c]) /\ sent \in ToSet(outgoing[c])
    BY <1>3
  <2>3. /\ sent \notin ToSet(events) \union ToSet(wire) \union lost \union ToSet(rest)
        /\ \A d \in Call \ {c} : sent \notin ToSet(outgoing[d])
        /\ IsInjective(rest)
    BY <1>3, <2>1, <2>2 DEF PlaceInv
  <2>4. /\ IsInjective(events') /\ IsInjective(wire')
        /\ ToSet(events') \intersect ToSet(wire') = {}
        /\ (ToSet(events') \union ToSet(wire')) \intersect lost' = {}
    BY <1>1, <1>6, <2>1, <2>3 DEF PlaceInv
  <2>5. ASSUME NEW b \in Call
        PROVE  /\ IsInjective(outgoing'[b]) /\ ToSet(outgoing'[b]) \subseteq ToSet(outgoing[b])
               /\ sent \notin ToSet(outgoing'[b])
    BY <1>7, <2>1, <2>2, <2>3 DEF PlaceInv
  <2>6. ASSUME NEW b \in Call
        PROVE  ToSet(outgoing'[b]) \intersect
                 (ToSet(events') \union ToSet(wire') \union lost') = {}
    <3>1. ToSet(outgoing[b]) \intersect (ToSet(events) \union ToSet(wire) \union lost) = {}
      BY <2>1 DEF PlaceInv
    <3>2. ToSet(events') = ToSet(events) /\ lost' = lost
      BY <1>1
    <3>3. ToSet(wire') = ToSet(wire) \union {sent}
      BY <1>6
    <3>4. ToSet(outgoing'[b]) \subseteq ToSet(outgoing[b]) /\ sent \notin ToSet(outgoing'[b])
      BY <2>5
    <3>. QED
      BY <3>1, <3>2, <3>3, <3>4
  <2>7. ASSUME NEW b \in Call, NEW d \in Call \ {b}
        PROVE  ToSet(outgoing'[b]) \intersect ToSet(outgoing'[d]) = {}
    BY <2>1, <2>5 DEF PlaceInv
  <2>. QED
    BY <2>4, <2>5, <2>6, <2>7 DEF PlaceInv
<1>. QED
  BY <1>9, <1>10, <1>11, <1>12 DEF DaemonInv

(* A call whose signal fails loses what it still holds.                    *)
LEMMA FailStep ==
  ASSUME DaemonInv, NEW c \in Call, EmitFails(c)
  PROVE  DaemonInv'
<1>1. /\ pc[c] = "emit" /\ pc' = [pc EXCEPT ![c] = "replied"]
      /\ lost' = lost \union ToSet(outgoing[c])
      /\ outgoing' = [outgoing EXCEPT ![c] = <<>>]
      /\ reply' = [reply EXCEPT ![c] = "ZBusError"]
      /\ UNCHANGED <<change, operation, events, wire>>
      /\ UNCHANGED <<nextEvent, nextOperation, settings, run>>
  BY DEF EmitFails, Goto, serviceVars
<1>2. DaemonTypeOK /\ AllEvents \subseteq Event
  BY EventsTyped DEF DaemonInv
<1>3. ToSet(outgoing[c]) \subseteq Event
  BY <1>2 DEF AllEvents, Raised
<1>4. /\ pc'[c] = "replied" /\ outgoing'[c] = <<>> /\ reply'[c] = "ZBusError"
      /\ \A d \in Call \ {c} :
           pc'[d] = pc[d] /\ outgoing'[d] = outgoing[d] /\ reply'[d] = reply[d]
  BY <1>1, <1>2 DEF DaemonTypeOK
<1>5. AllEvents' = AllEvents
  BY <1>1, <1>4, EventsMove, NoEvent
<1>6. DaemonTypeOK'
  BY <1>1, <1>2, <1>3, EmptySeq DEF DaemonTypeOK, Places, Replies
<1>7. CallInv'
  BY <1>1, <1>4 DEF DaemonInv, CallInv
<1>8. OperationInv' /\ EventInv' /\ CountInv'
  BY <1>1, <1>4, <1>5, MoveKeeps
<1>9. PlaceInv'
  BY <1>1, <1>4, NoEvent DEF DaemonInv, PlaceInv
<1>. QED
  BY <1>6, <1>7, <1>8, <1>9 DEF DaemonInv

(* A call that has nothing left to signal.                                 *)
LEMMA ReturnStep ==
  ASSUME DaemonInv, NEW c \in Call, Return(c)
  PROVE  DaemonInv'
<1>1. /\ pc[c] = "emit" /\ outgoing[c] = <<>> /\ pc' = [pc EXCEPT ![c] = "replied"]
      /\ UNCHANGED <<outgoing, events, wire, lost, change, operation, reply>>
      /\ UNCHANGED <<nextEvent, nextOperation, settings, run>>
  BY DEF Return, Goto, taskVars, serviceVars
<1>2. DaemonTypeOK
  BY DEF DaemonInv
<1>3. pc'[c] = "replied" /\ \A d \in Call \ {c} : pc'[d] = pc[d]
  BY <1>1, <1>2 DEF DaemonTypeOK
<1>4. AllEvents' = AllEvents
  BY <1>1 DEF AllEvents, Raised
<1>5. DaemonTypeOK'
  BY <1>1, <1>2 DEF DaemonTypeOK, Places
<1>6. CallInv'
  BY <1>1, <1>3 DEF DaemonInv, CallInv
<1>7. OperationInv' /\ EventInv' /\ CountInv'
  BY <1>1, <1>3, <1>4, MoveKeeps
<1>8. PlaceInv'
  BY <1>1 DEF DaemonInv, PlaceInv
<1>. QED
  BY <1>5, <1>6, <1>7, <1>8 DEF DaemonInv

(* Merged settings are settings.                                           *)
LEMMA MergedTyped ==
  ASSUME NEW old \in [Fields -> Values], NEW asked \in Changes \union {NoChange}
  PROVE  Merged(old, asked) \in [Fields -> Values]
<1>1. \A f \in DOMAIN asked : f \in Fields => asked[f] \in Values
  <2>1. CASE asked = NoChange
    BY <2>1 DEF NoChange
  <2>2. CASE asked \in Changes
    <3>1. PICK names \in SUBSET Fields : asked \in [names -> Values]
      BY <2>2, SettingsAssumption
    <3>. QED
      BY <3>1
  <2>. QED
    BY <2>1, <2>2
<1>. QED
  BY <1>1 DEF Merged

(* A method that takes no operation id.                                    *)
LEMMA HandleStep ==
  ASSUME DaemonInv, NEW c \in Call, NEW asked \in Changes \union {NoChange}, Handle(c, asked)
  PROVE  DaemonInv'
<1>1. /\ pc[c] = "idle" /\ pc' = [pc EXCEPT ![c] = "drain"]
      /\ change' = [change EXCEPT ![c] = asked]
      /\ settings' = Merged(settings, asked)
      /\ reply' = [reply EXCEPT ![c] = "Result"]
      /\ UNCHANGED <<operation, outgoing, events, wire, lost>>
      /\ UNCHANGED <<nextEvent, nextOperation, run>>
  BY DEF Handle, Goto
<1>2. DaemonTypeOK
  BY DEF DaemonInv
<1>3. settings' \in [Fields -> Values]
  BY <1>1, <1>2, MergedTyped DEF DaemonTypeOK
<1>4. /\ pc'[c] = "drain" /\ reply'[c] = "Result"
      /\ \A d \in Call \ {c} :
           pc'[d] = pc[d] /\ change'[d] = change[d] /\ reply'[d] = reply[d]
  BY <1>1, <1>2 DEF DaemonTypeOK
<1>5. AllEvents' = AllEvents
  BY <1>1 DEF AllEvents, Raised
<1>6. DaemonTypeOK'
  BY <1>1, <1>2, <1>3 DEF DaemonTypeOK, Places, Replies
<1>7. CallInv'
  BY <1>1, <1>4 DEF DaemonInv, CallInv
<1>8. OperationInv' /\ EventInv' /\ CountInv'
  BY <1>1, <1>4, <1>5, MoveKeeps
<1>9. PlaceInv'
  BY <1>1 DEF DaemonInv, PlaceInv
<1>. QED
  BY <1>6, <1>7, <1>8, <1>9 DEF DaemonInv

(* The adapter answers, and an event is raised that there was not.         *)
LEMMA AnswerStep ==
  ASSUME DaemonInv, NEW c \in Call, NEW ok \in BOOLEAN, AdapterAnswers(c, ok)
  PROVE  /\ DaemonInv'
         /\ \E e \in Event :
              /\ e.id \notin Names(AllEvents)
              /\ Raised' = Raised \union {e}
              /\ UNCHANGED <<wire, lost>>
<1> DEFINE new == [id |-> <<run, nextEvent>>, op |-> operation[c], connected |-> ok]
           one == <<new>>
<1>1. /\ pc[c] = "adapter" /\ pc' = [pc EXCEPT ![c] = "push"]
      /\ reply' = [reply EXCEPT ![c] = IF ok THEN "Complete" ELSE "Failed"]
      /\ outgoing' = [outgoing EXCEPT ![c] = one]
      /\ nextEvent' = nextEvent + 1
      /\ UNCHANGED <<change, operation, events, wire, lost, nextOperation, settings, run>>
  BY DEF AdapterAnswers, Goto
<1>2. /\ DaemonTypeOK /\ AllEvents \subseteq Event
      /\ outgoing[c] = <<>> /\ operation[c] # <<>> /\ operation[c][1] = run
  BY <1>1, EventsTyped DEF DaemonInv, CallInv
<1>3. /\ run \in Nat /\ nextEvent \in Nat /\ run \in 1..MaxRuns
      /\ operation[c] \in Ids
  BY <1>2, BoundsAssumption DEF DaemonTypeOK
<1>4. /\ pc'[c] = "push" /\ reply'[c] = (IF ok THEN "Complete" ELSE "Failed")
      /\ outgoing'[c] = one
      /\ \A d \in Call \ {c} :
           pc'[d] = pc[d] /\ outgoing'[d] = outgoing[d] /\ reply'[d] = reply[d]
  BY <1>1, <1>2 DEF DaemonTypeOK
<1>5. /\ c \in Started /\ c \notin Answered /\ Answered \in SUBSET Call
      /\ Started' = Started /\ Answered' = Answered \union {c}
  BY <1>1, <1>2, <1>4 DEF Started, Answered
<1>6. nextEvent \in 1..Cardinality(Call) /\ Cardinality(Answered') = nextEvent
  BY <1>5, RoomForOne DEF DaemonInv, CountInv
<1>7. /\ new \in Event /\ new.id = <<run, nextEvent>>
      /\ new.op = operation[c] /\ new.connected = ok
  BY <1>3, <1>6 DEF Event, Ids
<1>8. ASSUME NEW e \in AllEvents PROVE e.id # <<run, nextEvent>>
  <2>1. e.id[1] = run => e.id[2] < nextEvent
    BY DEF DaemonInv, EventInv
  <2>. QED
    BY <1>3, <2>1
<1> HIDE DEF new
<1>9. one \in Seq(Event) /\ ToSet(one) = {new} /\ IsInjective(one)
  BY <1>7, OneEvent
<1> HIDE DEF one
<1>10. /\ new \notin AllEvents
       /\ Raised' = Raised \union {new} /\ AllEvents' = AllEvents \union {new}
  <2>1. new \notin AllEvents
    BY <1>7, <1>8
  <2>2. ToSet(outgoing[c]) = {} /\ ToSet(outgoing'[c]) = {new}
    BY <1>2, <1>4, <1>9, NoEvent
  <2>3. /\ Raised = ToSet(events) \union ToSet(outgoing[c]) \union OthersHold(c)
        /\ Raised' = ToSet(events') \union ToSet(outgoing'[c]) \union OthersHold(c)
    BY <1>4, HandsChange
  <2>4. ToSet(events') = ToSet(events)
    BY <1>1
  <2>5. Raised' = Raised \union {new}
    BY <2>2, <2>3, <2>4
  <2>. QED
    BY <1>1, <2>1, <2>5 DEF AllEvents
<1>11. DaemonTypeOK'
  BY <1>1, <1>2, <1>3, <1>9 DEF DaemonTypeOK, Places, Replies
<1>12. CallInv'
  BY <1>1, <1>2, <1>4 DEF DaemonInv, CallInv
<1>13. OperationInv'
  BY <1>1 DEF DaemonInv, OperationInv
<1>14. EventInv'
  <2>1. ASSUME NEW e \in AllEvents
        PROVE  /\ e.id[1] <= run /\ (e.id[1] = run => e.id[2] < nextEvent + 1)
               /\ e.id # new.id
               /\ \A f \in AllEvents : f.id = e.id => f = e
               /\ \E d \in Call :
                    /\ e.op = operation[d] /\ pc'[d] # "adapter"
                    /\ reply'[d] \in {"Complete", "Failed"} =>
                         e.connected = (reply'[d] = "Complete")
    <3>1. /\ e.id[1] <= run /\ (e.id[1] = run => e.id[2] < nextEvent)
          /\ \A f \in AllEvents : f.id = e.id => f = e
      BY DEF DaemonInv, EventInv
    <3>2. e.id \in Ids /\ e.id[2] \in Nat
      BY <1>2 DEF Event, Ids
    <3>3. PICK d \in Call :
            /\ e.op = operation[d] /\ pc[d] # "adapter"
            /\ reply[d] \in {"Complete", "Failed"} => e.connected = (reply[d] = "Complete")
      BY DEF DaemonInv, EventInv
    <3>4. d # c /\ pc'[d] = pc[d] /\ reply'[d] = reply[d]
      BY <1>1, <1>4, <3>3
    <3>5. e.id[1] = run => e.id[2] < nextEvent + 1
      BY <1>3, <3>1, <3>2
    <3>. QED
      BY <1>7, <1>8, <3>1, <3>3, <3>4, <3>5
  <2>2. /\ new.id[1] <= run /\ new.id[2] < nextEvent + 1
        /\ new.op = operation[c] /\ pc'[c] # "adapter"
        /\ new.connected = (reply'[c] = "Complete")
    BY <1>3, <1>4, <1>7
  <2>3. \A e \in AllEvents' : e \in AllEvents \/ e = new
    BY <1>10
  <2> SUFFICES ASSUME NEW e \in AllEvents'
               PROVE  /\ e.id[1] <= run' /\ (e.id[1] = run' => e.id[2] < nextEvent')
                      /\ \A f \in AllEvents' : f.id = e.id => f = e
                      /\ \E d \in Call :
                           /\ e.op = operation'[d] /\ pc'[d] # "adapter"
                           /\ reply'[d] \in {"Complete", "Failed"} =>
                                e.connected = (reply'[d] = "Complete")
    BY DEF EventInv
  <2>4. CASE e \in AllEvents
    BY <1>1, <2>1, <2>3, <2>4
  <2>5. CASE e = new
    BY <1>1, <2>1, <2>2, <2>3, <2>5
  <2>. QED
    BY <2>3, <2>4, <2>5
<1>15. CountInv'
  BY <1>1, <1>5, <1>6 DEF DaemonInv, CountInv
<1>16. PlaceInv'
  <2>1. PlaceInv /\ ToSet(outgoing[c]) = {}
    BY <1>2, NoEvent DEF DaemonInv
  <2>2. /\ new \notin ToSet(events) \union ToSet(wire) \union lost
        /\ \A d \in Call : new \notin ToSet(outgoing[d])
    BY <1>10 DEF AllEvents, Raised
  <2>3. \A d \in Call :
          /\ IsInjective(outgoing'[d])
          /\ ToSet(outgoing'[d]) = IF d = c THEN {new} ELSE ToSet(outgoing[d])
    BY <1>4, <1>9, <2>1 DEF PlaceInv
  <2>4. ASSUME NEW b \in Call
        PROVE  ToSet(outgoing'[b]) \intersect (ToSet(events) \union ToSet(wire) \union lost) = {}
    BY <2>1, <2>2, <2>3 DEF PlaceInv
  <2>5. ASSUME NEW b \in Call, NEW d \in Call \ {b}
        PROVE  ToSet(outgoing'[b]) \intersect ToSet(outgoing'[d]) = {}
    BY <2>1, <2>2, <2>3 DEF PlaceInv
  <2>. QED
    BY <1>1, <2>1, <2>3, <2>4, <2>5 DEF PlaceInv
<1>17. new.id \notin Names(AllEvents)
  BY <1>7, <1>8 DEF Names
<1>. QED
  BY <1>1, <1>7, <1>10, <1>11, <1>12, <1>13, <1>14, <1>15, <1>16, <1>17 DEF DaemonInv

(* A restart loses what was on its way; the ids of the next run are new.   *)
LEMMA RestartStep ==
  ASSUME DaemonInv, Restart
  PROVE  DaemonInv' /\ Raised' = {}
<1>1. /\ run < MaxRuns /\ run' = run + 1
      /\ pc' = [c \in Call |-> IF c \in InFlight THEN "gone" ELSE pc[c]]
      /\ outgoing' = [c \in Call |-> <<>>] /\ events' = <<>>
      /\ lost' = lost \union Raised
      /\ nextEvent' = 1 /\ nextOperation' = 1
      /\ settings' = DefaultSettings
      /\ change' = [c \in Call |-> NoChange]
      /\ UNCHANGED <<wire, operation, reply>>
  BY DEF Restart
<1>2. /\ DaemonTypeOK /\ AllEvents \subseteq Event
      /\ run \in Nat /\ MaxRuns \in Nat /\ run' \in 1..MaxRuns /\ run < run'
  BY <1>1, EventsTyped, BoundsAssumption DEF DaemonInv, DaemonTypeOK
<1>3. \A c \in Call :
        /\ pc'[c] \in {"idle", "replied", "gone"}
        /\ pc'[c] = "idle" => pc[c] = "idle"
        /\ outgoing'[c] = <<>> /\ change'[c] = NoChange
  BY <1>1, <1>2 DEF InFlight, DaemonTypeOK, Places
<1>4. Raised' = {} /\ AllEvents' = AllEvents
  <2>1. ToSet(events') = {} /\ \A c \in Call : ToSet(outgoing'[c]) = {}
    BY <1>1, <1>3, NoEvent
  <2>2. Raised' = {}
    BY <2>1 DEF Raised
  <2>. QED
    BY <1>1, <2>2 DEF AllEvents
<1>5. DaemonTypeOK'
  <2>1. pc' \in [Call -> Places] /\ outgoing' \in [Call -> Seq(Event)] /\ events' \in Seq(Event)
    BY <1>1, <1>2, EmptySeq DEF DaemonTypeOK, Places
  <2>2. lost' \in SUBSET Event
    BY <1>1, <1>2 DEF AllEvents
  <2>. QED
    BY <1>1, <1>2, <2>1, <2>2, SettingsAssumption DEF DaemonTypeOK
<1>6. CallInv'
  BY <1>1, <1>3 DEF DaemonInv, CallInv
<1>7. \A c \in Call : operation[c] # <<>> => operation[c][1] <= run /\ operation[c][1] \in Nat
  BY <1>2 DEF DaemonInv, OperationInv, DaemonTypeOK, Ids
<1>8. OperationInv'
  BY <1>1, <1>2, <1>7 DEF DaemonInv, OperationInv
<1>9. EventInv'
  <2> SUFFICES ASSUME NEW e \in AllEvents
               PROVE  /\ e.id[1] <= run' /\ e.id[1] # run'
                      /\ \A f \in AllEvents : f.id = e.id => f = e
                      /\ \E d \in Call :
                           /\ e.op = operation[d] /\ pc'[d] # "adapter"
                           /\ reply[d] \in {"Complete", "Failed"} =>
                                e.connected = (reply[d] = "Complete")
    BY <1>1, <1>4 DEF EventInv
  <2>1. /\ e.id[1] <= run /\ e.id[1] \in Nat
        /\ \A f \in AllEvents : f.id = e.id => f = e
    BY <1>2 DEF DaemonInv, EventInv, Event, Ids
  <2>2. PICK d \in Call :
          /\ e.op = operation[d] /\ pc[d] # "adapter"
          /\ reply[d] \in {"Complete", "Failed"} => e.connected = (reply[d] = "Complete")
    BY DEF DaemonInv, EventInv
  <2>3. e.id[1] <= run' /\ e.id[1] # run'
    BY <1>2, <2>1
  <2>. QED
    BY <1>3, <2>1, <2>2, <2>3
<1>10. Started' = {} /\ Answered' = {}
  <2>1. \A c \in Call : operation[c] # <<>> => operation[c][1] # run'
    BY <1>2, <1>7
  <2>. QED
    BY <1>1, <2>1 DEF Started, Answered
<1>11. CountInv'
  BY <1>1, <1>10, FS_EmptySet DEF CountInv
<1>12. PlaceInv'
  <2>1. ToSet(wire) \intersect Raised = {} /\ PlaceInv
    BY DEF DaemonInv, PlaceInv, Raised
  <2>. QED
    BY <1>1, <1>3, <2>1, NoEvent DEF PlaceInv
<1>. QED
  BY <1>4, <1>5, <1>6, <1>8, <1>9, <1>11, <1>12 DEF DaemonInv

(* Every step keeps the invariant.                                         *)
LEMMA DaemonStep == DaemonInv /\ [DaemonNext]_daemonVars => DaemonInv'
<1> SUFFICES ASSUME DaemonInv, [DaemonNext]_daemonVars PROVE DaemonInv'
  OBVIOUS
<1>1. ASSUME NEW c \in Call, Dispatch(c) PROVE DaemonInv'
  BY <1>1, RefreshStep, HandleStep DEF Dispatch
<1>2. ASSUME NEW c \in Call, Work(c) PROVE DaemonInv'
  BY <1>2, AnswerStep, PushStep, DrainStep, EmitStep, FailStep, ReturnStep DEF Work
<1>3. CASE Restart
  BY <1>3, RestartStep
<1>4. CASE UNCHANGED daemonVars
  <2> USE <1>4 DEF daemonVars
  <2>1. DaemonTypeOK' = DaemonTypeOK
    BY DEF DaemonTypeOK
  <2>2. CallInv' = CallInv /\ OperationInv' = OperationInv /\ PlaceInv' = PlaceInv
    BY DEF CallInv, OperationInv, PlaceInv
  <2>3. AllEvents' = AllEvents
    BY DEF AllEvents, Raised
  <2>4. EventInv' = EventInv
    BY <2>3 DEF EventInv
  <2>5. CountInv' = CountInv
    BY DEF CountInv, Started, Answered
  <2>. QED
    BY <2>1, <2>2, <2>4, <2>5 DEF DaemonInv
<1>. QED
  BY <1>1, <1>2, <1>3, <1>4 DEF DaemonNext

(* The invariant is one of the daemon.                                     *)
LEMMA DaemonAlways == DaemonSpec => []DaemonInv
  BY DaemonInitial, DaemonStep, PTL DEF DaemonSpec

-----------------------------------------------------------------------------
(* What follows from it.                                                   *)

(* The state of crates/daemon/src/lib.rs is well formed, and its two       *)
(* counters never run past the calls there have been.                      *)
THEOREM DaemonTypeCorrect == DaemonSpec => []DaemonTypeOK
<1>1. DaemonInv => DaemonTypeOK
  BY DEF DaemonInv
<1>. QED
  BY <1>1, DaemonAlways, PTL

(* However many calls run at once, and wherever one of them fails or the   *)
(* daemon stops, an event of queue_event is in one place only: it is never *)
(* signalled twice, nor signalled after it was lost.                       *)
THEOREM EventAlwaysInOnePlace == DaemonSpec => []EventInOnePlace
<1>1. ASSUME DaemonInv PROVE EventInOnePlace
  <2>1. events \in Seq(Event) /\ wire \in Seq(Event)
    BY <1>1 DEF DaemonInv, DaemonTypeOK
  <2>2. /\ ToSet(events \o wire) = ToSet(events) \union ToSet(wire)
        /\ IsInjective(events) /\ IsInjective(wire)
             /\ ToSet(events) \intersect ToSet(wire) = {} => IsInjective(events \o wire)
    BY <2>1, ConcatHolds
  <2>3. PlaceInv
    BY <1>1 DEF DaemonInv
  <2>. QED
    BY <2>2, <2>3 DEF PlaceInv, EventInOnePlace
<1>. QED
  BY <1>1, DaemonAlways, PTL

(* The signal of a Refresh and its reply agree, though another call may    *)
(* have taken the event from the queue and signalled it.                   *)
THEOREM SignalAlwaysAgrees == DaemonSpec => []SignalAgreesWithReply
<1>1. ASSUME DaemonInv PROVE SignalAgreesWithReply
  <2> SUFFICES ASSUME NEW c \in Call, NEW i \in DOMAIN wire,
                      operation[c] = wire[i].op, reply[c] \in {"Complete", "Failed"}
               PROVE  wire[i].connected = (reply[c] = "Complete")
    BY DEF SignalAgreesWithReply
  <2>1. wire[i] \in AllEvents /\ AllEvents \subseteq Event
    BY <1>1, EventsTyped DEF DaemonInv, AllEvents, ToSet
  <2>2. PICK d \in Call :
          /\ wire[i].op = operation[d]
          /\ reply[d] \in {"Complete", "Failed"} =>
               wire[i].connected = (reply[d] = "Complete")
    BY <1>1, <2>1 DEF DaemonInv, EventInv
  <2>3. operation[c] # <<>>
    <3>1. wire[i].op \in Ids
      BY <2>1 DEF Event
    <3>. QED
      BY <3>1, IdIsSome
  <2>4. d = c
    BY <1>1, <2>2, <2>3 DEF DaemonInv, OperationInv
  <2>. QED
    BY <2>2, <2>4
<1>. QED
  BY <1>1, DaemonAlways, PTL

(* Partial updates of the settings never undo one another, whatever the    *)
(* order in which update_settings of any number of clients run.            *)
THEOREM UpdatesAlwaysKept == DaemonSpec => []UpdatesAreKept
<1>1. DaemonInit => UpdatesAreKept
  BY DEF DaemonInit, UpdatesAreKept, NoChange
<1>2. UpdatesAreKept /\ DaemonInv /\ [DaemonNext]_daemonVars => UpdatesAreKept'
  <2> SUFFICES ASSUME UpdatesAreKept, DaemonInv, [DaemonNext]_daemonVars
               PROVE  UpdatesAreKept'
    OBVIOUS
  <2>1. ASSUME NEW c \in Call, NEW asked \in Changes \union {NoChange}, Handle(c, asked)
        PROVE  UpdatesAreKept'
    <3>1. /\ change' = [change EXCEPT ![c] = asked] /\ settings' = Merged(settings, asked)
          /\ DaemonTypeOK /\ change[c] = NoChange
      BY <2>1 DEF Handle, DaemonInv, CallInv
    <3>2. /\ change'[c] = asked /\ DOMAIN change[c] = {}
          /\ \A d \in Call \ {c} : change'[d] = change[d]
      BY <3>1 DEF DaemonTypeOK, NoChange
    <3>3. \A f \in Fields : settings'[f] = IF f \in DOMAIN asked THEN asked[f] ELSE settings[f]
      BY <3>1 DEF Merged, DaemonTypeOK
    <3> SUFFICES ASSUME NEW b \in Call, NEW f \in Fields, f \in DOMAIN change'[b],
                        \A d \in Call \ {b} : f \notin DOMAIN change'[d]
                 PROVE  settings'[f] = change'[b][f]
      BY DEF UpdatesAreKept
    <3>4. CASE b = c
      BY <3>2, <3>3, <3>4
    <3>5. CASE b # c
      <4>1. /\ f \notin DOMAIN asked /\ f \in DOMAIN change[b] /\ change'[b] = change[b]
            /\ \A d \in Call \ {b} : f \notin DOMAIN change[d]
        BY <3>2, <3>5
      <4>. QED
        BY <3>3, <4>1 DEF UpdatesAreKept
    <3>. QED
      BY <3>4, <3>5
  <2>2. CASE Restart
    BY <2>2 DEF Restart, UpdatesAreKept, NoChange
  <2>3. CASE UNCHANGED <<change, settings>>
    BY <2>3 DEF UpdatesAreKept
  <2>4. ASSUME NEW c \in Call, Refresh(c) \/ Work(c) PROVE UNCHANGED <<change, settings>>
    BY <2>4 DEF Refresh, Work, AdapterAnswers, PushEvent, DrainEvents, EmitEvent, EmitFails,
                Return, taskVars, serviceVars
  <2>. QED
    BY <2>1, <2>2, <2>3, <2>4 DEF DaemonNext, Dispatch, daemonVars
<1>3. DaemonInit /\ [][DaemonNext]_daemonVars => [](UpdatesAreKept /\ DaemonInv)
  BY <1>1, <1>2, DaemonInitial, DaemonStep, PTL
<1>. QED
  BY <1>3, PTL DEF DaemonSpec

-----------------------------------------------------------------------------
(* The daemon implements EventDelivery, step by step.                      *)

(* What is left when events known by their id are taken away.              *)
LEMMA NamesTaken ==
  ASSUME NEW S, NEW T, T \subseteq S, \A e, f \in S : e.id = f.id => e = f
  PROVE  Names(S \ T) = Names(S) \ Names(T)
  BY DEF Names

(* The names of two sequences joined are those of both.                    *)
LEMMA NamesJoined ==
  ASSUME NEW S, NEW T
  PROVE  Names(S \union T) = Names(S) \union Names(T)
  BY DEF Names

(* A step that signals an event takes it off its way.                      *)
LEMMA EmitDelivers ==
  ASSUME DaemonInv, NEW c \in Call, EmitEvent(c)
  PROVE  \E e \in Raised :
           /\ Raised' = Raised \ {e}
           /\ ToSet(wire') = ToSet(wire) \union {e}
           /\ lost' = lost
<1>1. /\ outgoing[c] # <<>> /\ wire' = Append(wire, Head(outgoing[c]))
      /\ outgoing' = [outgoing EXCEPT ![c] = Tail(outgoing[c])]
      /\ UNCHANGED <<events, lost>>
  BY DEF EmitEvent
<1>2. /\ outgoing \in [Call -> Seq(Event)] /\ outgoing[c] \in Seq(Event) /\ wire \in Seq(Event)
      /\ PlaceInv
  BY DEF DaemonInv, DaemonTypeOK
<1> DEFINE sent == Head(outgoing[c])
           rest == Tail(outgoing[c])
           one == <<sent>>
<1>3. /\ sent \in Event
      /\ ToSet(outgoing[c]) = {sent} \union ToSet(rest)
      /\ sent \notin ToSet(rest)
  BY <1>1, <1>2, TakeFirst DEF PlaceInv
<1>4. one \in Seq(Event) /\ ToSet(one) = {sent} /\ wire' = wire \o one
  BY <1>1, <1>2, <1>3, OneEvent, AppendIsConcat
<1>5. /\ outgoing'[c] = rest
      /\ \A d \in Call \ {c} : outgoing'[d] = outgoing[d]
  BY <1>1, <1>2
<1> HIDE DEF sent, rest, one
<1>6. ToSet(wire') = ToSet(wire) \union {sent}
  BY <1>2, <1>4, ConcatHolds
<1>7. /\ Raised = ToSet(events) \union ToSet(outgoing[c]) \union OthersHold(c)
      /\ Raised' = ToSet(events') \union ToSet(rest) \union OthersHold(c)
  BY <1>5, HandsChange
<1>8. sent \in ToSet(outgoing[c])
  BY <1>3
<1>9. sent \notin ToSet(events) /\ sent \notin OthersHold(c)
  BY <1>2, <1>8 DEF PlaceInv, OthersHold
<1>. QED
  BY <1>1, <1>3, <1>6, <1>7, <1>8, <1>9

(* A step whose signal fails loses events on their way.                    *)
LEMMA FailLoses ==
  ASSUME DaemonInv, NEW c \in Call, EmitFails(c)
  PROVE  \E E \in SUBSET Raised :
           /\ E # {}
           /\ Raised' = Raised \ E
           /\ lost' = lost \union E
           /\ wire' = wire
<1>1. /\ outgoing[c] # <<>> /\ lost' = lost \union ToSet(outgoing[c])
      /\ outgoing' = [outgoing EXCEPT ![c] = <<>>]
      /\ UNCHANGED <<events, wire>>
  BY DEF EmitFails
<1>2. outgoing \in [Call -> Seq(Event)] /\ outgoing[c] \in Seq(Event) /\ PlaceInv
  BY DEF DaemonInv, DaemonTypeOK
<1>3. /\ ToSet(outgoing'[c]) = {}
      /\ \A d \in Call \ {c} : outgoing'[d] = outgoing[d]
  BY <1>1, <1>2, NoEvent
<1>4. /\ Raised = ToSet(events) \union ToSet(outgoing[c]) \union OthersHold(c)
      /\ Raised' = ToSet(events') \union ToSet(outgoing'[c]) \union OthersHold(c)
  BY <1>3, HandsChange
<1> DEFINE held == outgoing[c]
<1> HIDE DEF held
<1>5. ToSet(held) # {}
  <2>1. held \in Seq(Event) /\ held # <<>>
    BY <1>1, <1>2 DEF held
  <2>2. ToSet(held) = {Head(held)} \union ToSet(Tail(held))
    BY <2>1, TakeFirst
  <2>. QED
    BY <2>2
<1>6. ToSet(outgoing[c]) \intersect (ToSet(events) \union OthersHold(c)) = {}
  BY <1>2 DEF PlaceInv, OthersHold
<1>7. Raised' = Raised \ ToSet(outgoing[c]) /\ ToSet(outgoing[c]) \in SUBSET Raised
  BY <1>1, <1>3, <1>4, <1>6
<1>. QED
  BY <1>1, <1>5, <1>7 DEF held

(* Every step is one of the abstract delivery or none.                     *)
LEMMA DeliveryStep ==
  DaemonInv /\ [DaemonNext]_daemonVars => [Delivery!DeliveryNext]_(Delivery!deliveryVars)
<1> SUFFICES ASSUME DaemonInv, [DaemonNext]_daemonVars
             PROVE  [Delivery!DeliveryNext]_(Delivery!deliveryVars)
  OBVIOUS
<1> DEFINE Goal == [Delivery!DeliveryNext]_(Delivery!deliveryVars)
<1>1. ASSUME UNCHANGED <<Raised, wire, lost>> PROVE Goal
  BY <1>1 DEF Delivery!deliveryVars
<1>2. \A e, f \in AllEvents : e.id = f.id => e = f
  BY DEF DaemonInv, EventInv
<1>3. AllEvents \subseteq Event
  BY EventsTyped DEF DaemonInv
<1>4. ASSUME NEW E \in SUBSET Raised, E # {}, Raised' = Raised \ E,
             lost' = lost \union E, wire' = wire
      PROVE  Goal
  <2>1. /\ Names(Raised)' = Names(Raised) \ Names(E)
        /\ Names(lost)' = Names(lost) \union Names(E)
    <3>1. \A e, f \in Raised : e.id = f.id => e = f
      BY <1>2 DEF AllEvents
    <3>. QED
      BY <1>4, <3>1, NamesTaken, NamesJoined
  <2>2. Names(E) # {} /\ Names(E) \in SUBSET Names(Raised)
    BY <1>4 DEF Names
  <2>. QED
    BY <1>4, <2>1, <2>2 DEF Delivery!DeliveryNext, Delivery!Lose
<1>5. ASSUME NEW c \in Call, Dispatch(c) PROVE Goal
  <2>1. UNCHANGED <<outgoing, events, wire, lost>>
    BY <1>5 DEF Dispatch, Refresh, Handle
  <2>. QED
    BY <1>1, <2>1 DEF Raised
<1>6. ASSUME NEW c \in Call, NEW ok \in BOOLEAN, AdapterAnswers(c, ok) PROVE Goal
  <2>1. PICK e \in Event : /\ e.id \notin Names(AllEvents)
                           /\ Raised' = Raised \union {e}
                           /\ UNCHANGED <<wire, lost>>
    BY <1>6, AnswerStep
  <2>2. /\ Names(AllEvents) = Names(Raised) \union Names(ToSet(wire)) \union Names(lost)
        /\ Names(Raised)' = Names(Raised) \union {e.id} /\ e.id \in Ids
    BY <2>1 DEF AllEvents, Names, Event
  <2>. QED
    BY <2>1, <2>2 DEF Delivery!DeliveryNext, Delivery!Raise
<1>7. ASSUME NEW c \in Call, PushEvent(c) PROVE Goal
  <2>1. UNCHANGED <<wire, lost>>
    BY <1>7 DEF PushEvent
  <2>. QED
    BY <1>1, <1>7, <2>1, PushStep
<1>8. ASSUME NEW c \in Call, DrainEvents(c) PROVE Goal
  <2>1. UNCHANGED <<wire, lost>>
    BY <1>8 DEF DrainEvents
  <2>. QED
    BY <1>1, <1>8, <2>1, DrainStep
<1>9. ASSUME NEW c \in Call, EmitEvent(c) PROVE Goal
  <2>1. PICK e \in Raised : /\ Raised' = Raised \ {e}
                            /\ ToSet(wire') = ToSet(wire) \union {e}
                            /\ lost' = lost
    BY <1>9, EmitDelivers
  <2>2. \A g, f \in Raised : g.id = f.id => g = f
    BY <1>2 DEF AllEvents
  <2>3. /\ Names(Raised)' = Names(Raised) \ {e.id}
        /\ Names(ToSet(wire))' = Names(ToSet(wire)) \union {e.id}
        /\ e.id \in Names(Raised)
    BY <2>1, <2>2 DEF Names
  <2>. QED
    BY <2>1, <2>3 DEF Delivery!DeliveryNext, Delivery!Deliver
<1>10. ASSUME NEW c \in Call, EmitFails(c) PROVE Goal
  BY <1>4, <1>10, FailLoses
<1>11. ASSUME NEW c \in Call, Return(c) PROVE Goal
  BY <1>1, <1>11 DEF Return, Raised
<1>12. CASE Restart
  <2>1. Raised' = {} /\ lost' = lost \union Raised /\ wire' = wire
    BY <1>12, RestartStep DEF Restart
  <2>2. CASE Raised = {}
    BY <1>1, <2>1, <2>2
  <2>3. CASE Raised # {}
    BY <1>4, <2>1, <2>3
  <2>. QED
    BY <2>2, <2>3
<1>13. CASE UNCHANGED daemonVars
  BY <1>1, <1>13 DEF daemonVars, Raised
<1>. QED
  BY <1>5, <1>6, <1>7, <1>8, <1>9, <1>10, <1>11, <1>12, <1>13 DEF DaemonNext, Work

(* Every step of the daemon is one EventDelivery allows or leaves its      *)
(* state alone: what queue_event and emit_pending do between them is to    *)
(* raise an event, signal it, or lose it with the connection.  That every  *)
(* raised event is in the end signalled or lost is left to TLC.            *)
THEOREM DaemonImplementsDelivery ==
  DaemonSpec => Delivery!DeliveryInit /\ [][Delivery!DeliveryNext]_(Delivery!deliveryVars)
<1>1. DaemonInit => Delivery!DeliveryInit
  BY NoEvent DEF DaemonInit, Delivery!DeliveryInit, Raised, Names
<1>. QED
  BY <1>1, DaemonInitial, DaemonStep, DeliveryStep, PTL DEF DaemonSpec
=============================================================================
