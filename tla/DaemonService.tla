---------------------------- MODULE DaemonService ----------------------------
(***************************************************************************)
(* The daemon's D-Bus service, ServiceState and DbusService of             *)
(* crates/daemon/src/lib.rs.  Every method call is a task: the handler,    *)
(* then emit_pending, which drains the shared event queue and signals what *)
(* it took, then the reply.  A step of a task ends where a lock or an      *)
(* atomic counter is released or where the task awaits (lib.rs:366-367     *)
(* promises that calls may be dispatched concurrently).                    *)
(*                                                                         *)
(* What the other handlers read from the store, and whether they answer    *)
(* with a result or an error, is not modelled here: they raise no event.   *)
(***************************************************************************)
EXTENDS Naturals, FiniteSets, Sequences, SequencesExt

CONSTANTS
  RefreshCall,  \* method calls, by all clients, that may be a Refresh
  OtherCall,    \* those that are not
  Values,       \* values of a setting
  Fields,       \* the settings
  DefaultSettings,
  Changes,      \* the partial updates clients ask for
  MaxRuns       \* bound on the number of times the daemon is started

Call == RefreshCall \union OtherCall
None == "None"

VARIABLES
  pc,             \* where each call's task is
  change,         \* UpdateSettings: the settings it changes
  operation,      \* Refresh: its operation id, <<>> for none
  outgoing,       \* the event being built, then the events emit_pending took
  reply,          \* what the handler, and in the end the caller, gets
  events,         \* ServiceInner.events
  nextEvent, nextOperation, settings,
  run,            \* which start of the daemon this is
  wire, lost      \* history: signals sent, in order; events never sent

daemonVars == <<pc, change, operation, outgoing, reply, events, nextEvent,
                nextOperation, settings, run, wire, lost>>

taskVars == <<change, operation, reply>>
serviceVars == <<nextEvent, nextOperation, settings, run>>

Places == {"idle", "adapter", "push", "drain", "emit", "replied", "gone"}
Replies == {None, "Result", "Complete", "Failed", "ZBusError"}

ASSUME SettingsAssumption ==
  /\ DefaultSettings \in [Fields -> Values]
  /\ Changes \subseteq UNION {[names -> Values] : names \in SUBSET Fields}

ASSUME BoundsAssumption ==
  /\ IsFiniteSet(Call)
  /\ MaxRuns \in Nat \ {0}

(* An id is unique while the daemon runs; across runs it needs the run.    *)
Ids == (1..MaxRuns) \X (1..Cardinality(Call))
Event == [id : Ids, op : Ids, connected : BOOLEAN]
NoChange == [f \in {} |-> None]

DaemonTypeOK ==
  /\ pc \in [Call -> Places]
  /\ change \in [Call -> Changes \union {NoChange}]
  /\ operation \in [Call -> Ids \union {<<>>}]
  /\ outgoing \in [Call -> Seq(Event)]
  /\ reply \in [Call -> Replies]
  /\ events \in Seq(Event)
  /\ nextEvent \in Nat \ {0} /\ nextOperation \in Nat \ {0}
  /\ settings \in [Fields -> Values]
  /\ run \in 1..MaxRuns
  /\ wire \in Seq(Event)
  /\ lost \in SUBSET Event

DaemonInit ==
  /\ pc = [c \in Call |-> "idle"]
  /\ change = [c \in Call |-> NoChange]
  /\ operation = [c \in Call |-> <<>>]
  /\ outgoing = [c \in Call |-> <<>>]
  /\ reply = [c \in Call |-> None]
  /\ events = <<>>
  /\ nextEvent = 1 /\ nextOperation = 1
  /\ settings = DefaultSettings
  /\ run = 1
  /\ wire = <<>> /\ lost = {}

Goto(c, place) == pc' = [pc EXCEPT ![c] = place]

-----------------------------------------------------------------------------
(* Handlers.                                                               *)

Bug_RefreshTakesNoOperation(c) ==
  /\ pc[c] = "idle"
  /\ Goto(c, "adapter")
  /\ UNCHANGED <<change, operation, outgoing, reply, events, wire, lost>> /\ UNCHANGED serviceVars

Bug_OperationNotCounted(c) ==
  /\ pc[c] = "idle"
  /\ Goto(c, "adapter")
  /\ operation' = [operation EXCEPT ![c] = <<run, nextOperation>>]
  /\ UNCHANGED <<change, outgoing, reply, events, wire, lost>> /\ UNCHANGED serviceVars

(* refresh takes its operation id and awaits the adapter.  The time it     *)
(* also takes only goes into the event's data.                             *)
Refresh(c) ==
  /\ pc[c] = "idle"
  /\ Goto(c, "adapter")
  /\ operation' = [operation EXCEPT ![c] = <<run, nextOperation>>]
  /\ nextOperation' = nextOperation + 1
  /\ UNCHANGED <<change, outgoing, reply, events, wire, lost, nextEvent, settings, run>>

(* The adapter answers; sync_event takes the event id.                     *)
AdapterAnswers(c, ok) ==
  /\ pc[c] = "adapter"
  /\ Goto(c, "push")
  /\ reply' = [reply EXCEPT ![c] = IF ok THEN "Complete" ELSE "Failed"]
  /\ outgoing' = [outgoing EXCEPT ![c] =
       <<[id |-> <<run, nextEvent>>, op |-> operation[c], connected |-> ok]>>]
  /\ nextEvent' = nextEvent + 1
  /\ UNCHANGED <<change, operation, events, wire, lost, nextOperation, settings, run>>

Bug_PushSkipsDrain(c) ==
  /\ pc[c] = "push"
  /\ Goto(c, "emit")
  /\ events' = events \o outgoing[c]
  /\ outgoing' = [outgoing EXCEPT ![c] = <<>>]
  /\ UNCHANGED <<wire, lost>> /\ UNCHANGED taskVars /\ UNCHANGED serviceVars

(* queue_event                                                             *)
PushEvent(c) ==
  /\ pc[c] = "push"
  /\ Goto(c, "drain")
  /\ events' = events \o outgoing[c]
  /\ outgoing' = [outgoing EXCEPT ![c] = <<>>]
  /\ UNCHANGED <<wire, lost>> /\ UNCHANGED taskVars /\ UNCHANGED serviceVars

(* The settings a partial update names take its values.                    *)
Merged(old, asked) ==
  [f \in DOMAIN old |-> IF f \in DOMAIN asked THEN asked[f] ELSE old[f]]

Bug_UpdateResetsOthers(c, asked) ==
  /\ pc[c] = "idle"
  /\ Goto(c, "drain")
  /\ change' = [change EXCEPT ![c] = asked]
  /\ settings' = Merged(DefaultSettings, asked)
  /\ reply' = [reply EXCEPT ![c] = "Result"]
  /\ UNCHANGED <<operation, outgoing, events, wire, lost>>
  /\ UNCHANGED <<nextEvent, nextOperation, run>>

(* Any other method.  update_settings merges the change under one lock;    *)
(* the others change nothing, and so does refresh of an unknown account.   *)
Handle(c, asked) ==
  /\ pc[c] = "idle"
  /\ Goto(c, "drain")
  /\ change' = [change EXCEPT ![c] = asked]
  /\ settings' = Merged(settings, asked)
  /\ reply' = [reply EXCEPT ![c] = "Result"]
  /\ UNCHANGED <<operation, outgoing, events, wire, lost>>
  /\ UNCHANGED <<nextEvent, nextOperation, run>>

-----------------------------------------------------------------------------
(* emit_pending, after every handler.                                      *)

Bug_DrainCopies(c) ==
  /\ pc[c] = "drain"
  /\ Goto(c, "emit")
  /\ outgoing' = [outgoing EXCEPT ![c] = events]
  /\ UNCHANGED <<events, wire, lost>> /\ UNCHANGED taskVars /\ UNCHANGED serviceVars

DrainEvents(c) ==
  /\ pc[c] = "drain"
  /\ Goto(c, "emit")
  /\ outgoing' = [outgoing EXCEPT ![c] = events]
  /\ events' = <<>>
  /\ UNCHANGED <<wire, lost>> /\ UNCHANGED taskVars /\ UNCHANGED serviceVars

EmitEvent(c) ==
  /\ pc[c] = "emit" /\ outgoing[c] # <<>>
  /\ wire' = Append(wire, Head(outgoing[c]))
  /\ outgoing' = [outgoing EXCEPT ![c] = Tail(@)]
  /\ UNCHANGED <<pc, events, lost>> /\ UNCHANGED taskVars /\ UNCHANGED serviceVars

(* A failed signal ends the loop, with the events not yet sent, and is     *)
(* what the caller gets instead of the handler's result.                   *)
EmitFails(c) ==
  /\ pc[c] = "emit" /\ outgoing[c] # <<>>
  /\ lost' = lost \union ToSet(outgoing[c])
  /\ outgoing' = [outgoing EXCEPT ![c] = <<>>]
  /\ reply' = [reply EXCEPT ![c] = "ZBusError"]
  /\ Goto(c, "replied")
  /\ UNCHANGED <<change, operation, events, wire>> /\ UNCHANGED serviceVars

Return(c) ==
  /\ pc[c] = "emit" /\ outgoing[c] = <<>>
  /\ Goto(c, "replied")
  /\ UNCHANGED <<outgoing, events, wire, lost>> /\ UNCHANGED taskVars /\ UNCHANGED serviceVars

-----------------------------------------------------------------------------
(* run_daemon drops the connection, and with it every task and the queue;  *)
(* the service starts again with new counters and default settings.        *)
InFlight == {c \in Call : pc[c] \notin {"idle", "replied", "gone"}}

(* Events that were raised and are neither sent nor lost.                  *)
Raised ==
  ToSet(events) \union UNION {ToSet(outgoing[c]) : c \in Call}

Restart ==
  /\ run < MaxRuns
  /\ run' = run + 1
  /\ pc' = [c \in Call |-> IF c \in InFlight THEN "gone" ELSE pc[c]]
  /\ outgoing' = [c \in Call |-> <<>>]
  /\ events' = <<>>
  /\ lost' = lost \union Raised
  /\ nextEvent' = 1 /\ nextOperation' = 1
  /\ settings' = DefaultSettings
  /\ change' = [c \in Call |-> NoChange]
  /\ UNCHANGED <<wire, operation, reply>>

-----------------------------------------------------------------------------
Dispatch(c) ==
  \/ c \in RefreshCall /\ Refresh(c)
  \/ \E asked \in Changes \union {NoChange} : Handle(c, asked)

Work(c) ==
  \/ \E ok \in BOOLEAN : AdapterAnswers(c, ok)
  \/ PushEvent(c)
  \/ DrainEvents(c)
  \/ EmitEvent(c)
  \/ EmitFails(c)
  \/ Return(c)

DaemonNext == (\E c \in Call : Dispatch(c) \/ Work(c)) \/ Restart

(* The shipped adapter answers at once, and a signal is sent or fails.     *)
DaemonSpec ==
  /\ DaemonInit /\ [][DaemonNext]_daemonVars
  /\ \A c \in Call : WF_daemonVars(Work(c))

-----------------------------------------------------------------------------
(* No event is left behind when the bus goes quiet: a queue that is not    *)
(* empty will still be drained by a call in progress, although a call may  *)
(* find that another one has already taken its own event.                  *)
QueueWillBeDrained == events # <<>> => \E c \in Call : pc[c] = "drain"

(* An event is in one place only: the queue, the hands of one call, the    *)
(* bus, or lost.                                                           *)
EventInOnePlace ==
  /\ IsInjective(events \o wire)
  /\ ToSet(events \o wire) \intersect lost = {}
  /\ \A c \in Call :
       /\ IsInjective(outgoing[c])
       /\ ToSet(outgoing[c]) \intersect (ToSet(events \o wire) \union lost) = {}
       /\ \A d \in Call \ {c} : ToSet(outgoing[c]) \intersect ToSet(outgoing[d]) = {}

(* The caller of Refresh and the readers of the bus hear the same outcome, *)
(* whichever call sent the signal.                                         *)
SignalAgreesWithReply ==
  \A c \in Call, i \in DOMAIN wire :
    pc[c] = "replied" /\ operation[c] = wire[i].op /\ reply[c] \in {"Complete", "Failed"}
    => wire[i].connected = (reply[c] = "Complete")

(* A partial update is never undone by another client's: a setting that    *)
(* one call changed since the daemon started has the value it gave.        *)
UpdatesAreKept ==
  \A c \in Call, f \in Fields :
    /\ f \in DOMAIN change[c]
    /\ \A d \in Call \ {c} : f \notin DOMAIN change[d]
    => settings[f] = change[c][f]

(* The daemon does what EventDelivery promises, events known by their id.  *)
Names(S) == {e.id : e \in S}

Delivery == INSTANCE EventDelivery
              WITH Event <- Ids, raised <- Names(Raised),
                   delivered <- Names(ToSet(wire)), lost <- Names(lost)

EventsAreDelivered == Delivery!DeliverySpec
=============================================================================
