----------------------------- MODULE SecretService -----------------------------
(***************************************************************************)
(* GnomeSecretService of crates/storage/src/state.rs:307-524: the secrets  *)
(* of LiteBubbles as items of the desktop's Secret Service.  An operation  *)
(* searches the items with the attributes of its key and then, in a call   *)
(* of its own, reads, changes or removes the item it found, or makes one;  *)
(* other processes may act between the two.                                *)
(*                                                                         *)
(* The service is external: it has one collection, which the user may lock *)
(* at any time.  Then a search still finds the items, reading or changing  *)
(* one is an error, and making or removing one returns a prompt.  Opening  *)
(* and closing the session that secrets pass through is left out.          *)
(***************************************************************************)
EXTENDS Naturals

CONSTANTS
  Client, Key, Value, None,
  MaxItems      \* bound on the items ever made

VARIABLES
  items,        \* the items of the collection
  made,         \* how many were ever made: a path is not used again
  locked,
  request, answer,
  pc,           \* the call each client has under way
  found         \* the path of the item it has found

serviceVars == <<items, made, locked, request, answer, pc, found>>

ItemRecord == [path : Nat, key : Key, value : Value]

EntryIn(S, k) ==
  IF \E i \in S : i.key = k THEN (CHOOSE i \in S : i.key = k).value ELSE None

(* The table of secrets that the items stand for.                          *)
Store == INSTANCE SecretStore WITH entries <- [k \in Key |-> EntryIn(items, k)]

ASSUME ServiceAssumption ==
  /\ MaxItems \in Nat
  /\ None \notin Value \union Store!Outcomes /\ Value \intersect Store!Outcomes = {}

ServiceTypeOK ==
  /\ items \subseteq ItemRecord
  /\ made \in 0..MaxItems
  /\ locked \in BOOLEAN
  /\ request \in [Client -> Store!Request \union {None}]
  /\ answer \in [Client -> Store!Outcomes \union Value \union {None}]
  /\ pc \in [Client -> {"idle", "search", "get", "set", "create", "delete"}]
  /\ found \in [Client -> 0..MaxItems]
  /\ \A c \in Client :
       /\ answer[c] = "pending" <=> pc[c] # "idle"
       /\ pc[c] # "idle" => request[c] \in Store!Request
       /\ pc[c] \in {"get", "set", "delete"} => request[c].op = pc[c]
       /\ pc[c] = "create" => request[c].op = "set"

ServiceInit ==
  /\ items = {} /\ made = 0
  /\ locked \in BOOLEAN
  /\ request = [c \in Client |-> None]
  /\ answer = [c \in Client |-> "idle"]
  /\ pc = [c \in Client |-> "idle"]
  /\ found = [c \in Client |-> 0]

-----------------------------------------------------------------------------
Ask(c, r) ==
  /\ pc[c] = "idle"
  /\ pc' = [pc EXCEPT ![c] = "search"]
  /\ request' = [request EXCEPT ![c] = r]
  /\ answer' = [answer EXCEPT ![c] = "pending"]
  /\ UNCHANGED <<items, made, locked, found>>

Answer(c, a) ==
  /\ pc' = [pc EXCEPT ![c] = "idle"]
  /\ answer' = [answer EXCEPT ![c] = a]
  /\ found' = [found EXCEPT ![c] = 0]
  /\ UNCHANGED <<locked, request>>

Matching(c) == {i \in items : i.key = request[c].key}

(* What the operation is about is there: the first item found is taken.    *)
Search(c) ==
  /\ pc[c] = "search"
  /\ \E i \in Matching(c) : found' = [found EXCEPT ![c] = i.path]
  /\ pc' = [pc EXCEPT ![c] = request[c].op]
  /\ UNCHANGED <<items, made, locked, request, answer>>

Bug_AbsentIsDeleted(c) ==
  /\ pc[c] = "search" /\ Matching(c) = {}
  /\ request[c].op # "set"
  /\ Answer(c, IF request[c].op = "get" THEN None ELSE "deleted")
  /\ UNCHANGED <<items, made>>

(* It is not there.                                                        *)
SearchIsEmpty(c) ==
  /\ pc[c] = "search" /\ Matching(c) = {}
  /\ request[c].op # "set"
  /\ Answer(c, IF request[c].op = "get" THEN None ELSE "absent")
  /\ UNCHANGED <<items, made>>

(* The default collection is looked up, for a new item.                    *)
ReadAlias(c) ==
  /\ pc[c] = "search" /\ Matching(c) = {}
  /\ request[c].op = "set"
  /\ pc' = [pc EXCEPT ![c] = "create"]
  /\ UNCHANGED <<items, made, locked, request, answer, found>>

GetSecret(c) ==
  /\ pc[c] = "get" /\ ~locked
  /\ \E i \in items : i.path = found[c] /\ Answer(c, i.value)
  /\ UNCHANGED <<items, made>>

(* In this step and the next two the answer of the service may be lost.    *)
SetSecret(c) ==
  /\ pc[c] = "set" /\ ~locked
  /\ \E i \in items :
       /\ i.path = found[c]
       /\ items' = (items \ {i}) \union {[i EXCEPT !.value = request[c].value]}
  /\ \E a \in {"saved", "error"} : Answer(c, a)
  /\ UNCHANGED made

NewItem(c) == [path |-> made + 1, key |-> request[c].key, value |-> request[c].value]

Bug_CreateBeside(c) ==
  /\ pc[c] = "create" /\ ~locked
  /\ made < MaxItems
  /\ items' = items \union {NewItem(c)}
  /\ made' = made + 1
  /\ \E a \in {"saved", "error"} : Answer(c, a)

(* With "replace": an item with these attributes, if one has been made     *)
(* since the search, gets the value.                                       *)
CreateItem(c) ==
  /\ pc[c] = "create" /\ ~locked
  /\ \/ \E i \in Matching(c) :
          /\ items' = (items \ {i}) \union {[i EXCEPT !.value = request[c].value]}
          /\ UNCHANGED made
     \/ /\ Matching(c) = {} /\ made < MaxItems
        /\ items' = items \union {NewItem(c)}
        /\ made' = made + 1
  /\ \E a \in {"saved", "error"} : Answer(c, a)

DeleteItem(c) ==
  /\ pc[c] = "delete" /\ ~locked
  /\ \E i \in items : i.path = found[c] /\ items' = items \ {i}
  /\ \E a \in {"deleted", "error"} : Answer(c, a)
  /\ UNCHANGED made

(* The path of a prompt is returned, and is not looked at.                 *)
CreatePrompted(c) ==
  /\ pc[c] = "create" /\ locked
  /\ Answer(c, "saved")
  /\ UNCHANGED <<items, made>>

DeletePrompted(c) ==
  /\ pc[c] = "delete" /\ locked
  /\ \E i \in items : i.path = found[c]
  /\ Answer(c, "deleted")
  /\ UNCHANGED <<items, made>>

(* No bus, no service, no such item any more, an item that is locked.      *)
Rejected(c) ==
  /\ pc[c] # "idle"
  /\ Answer(c, "error")
  /\ UNCHANGED <<items, made>>

Lock ==
  /\ locked' = ~locked
  /\ UNCHANGED <<items, made, request, answer, pc, found>>

Operates(c) ==
  \/ Search(c) \/ SearchIsEmpty(c) \/ ReadAlias(c)
  \/ GetSecret(c) \/ SetSecret(c) \/ CreateItem(c) \/ DeleteItem(c)
  \/ CreatePrompted(c) \/ DeletePrompted(c) \/ Rejected(c)

ServiceNext ==
  \/ \E c \in Client : Operates(c)
  \/ \E c \in Client, r \in Store!Request : Ask(c, r)
  \/ Lock

ServiceSpec == ServiceInit /\ [][ServiceNext]_serviceVars

-----------------------------------------------------------------------------
(* Two processes that store a secret under the same key for the first time *)
(* both find nothing and both make an item (state.rs:447-470): there is    *)
(* one all the same, or the next search would take either.                 *)
OneItemPerKey == \A i, j \in items : i.key = j.key => i = j

(* The operations of several processes, interleaved call by call, have the *)
(* effects and the answers of one table whose operations are atomic, the   *)
(* SecretStore that the tests run against (state.rs:255-303); a success    *)
(* without the effect is answered only while the collection is locked.     *)
ImplementsSecretStore == Store!StoreSpec
=============================================================================
