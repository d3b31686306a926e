------------------------------ MODULE SecretStore ------------------------------
(***************************************************************************)
(* What the trait SecretStore of crates/storage/src/state.rs promises its  *)
(* callers: a table from keys to secrets, whose operations take effect one *)
(* by one.  MemorySecretStore (state.rs:257-303), a hash map under a       *)
(* mutex, is this module but for "Fail" with an effect and "Prompted",     *)
(* which only the Secret Service of the desktop brings; SecretService      *)
(* implements it with all of them.                                         *)
(***************************************************************************)
CONSTANTS
  Client, Key, Value,
  None          \* no secret, no request; neither a value nor an outcome

Outcomes == {"idle", "pending", "saved", "deleted", "absent", "error"}

VARIABLES
  entries,      \* the secret under each key
  locked,       \* the collection of the desktop is locked
  request,      \* what each client has asked for last
  answer        \* and the answer it has got

storeVars == <<entries, locked, request, answer>>

(* A value is given to set, and to no other operation.                     *)
Request ==
  [op : {"get", "delete"}, key : Key, value : {None}] \union
  [op : {"set"}, key : Key, value : Value]

StoreInit ==
  /\ entries = [k \in Key |-> None]
  /\ locked \in BOOLEAN
  /\ request = [c \in Client |-> None]
  /\ answer = [c \in Client |-> "idle"]

Ask(c, r) ==
  /\ answer[c] # "pending"
  /\ request' = [request EXCEPT ![c] = r]
  /\ answer' = [answer EXCEPT ![c] = "pending"]
  /\ UNCHANGED <<entries, locked>>

Effect(r) == IF r.op = "get" THEN entries ELSE [entries EXCEPT ![r.key] = r.value]

Result(r) ==
  CASE r.op = "get" -> entries[r.key]
    [] r.op = "set" -> "saved"
    [] r.op = "delete" -> IF entries[r.key] = None THEN "absent" ELSE "deleted"

Perform(c) ==
  /\ answer[c] = "pending"
  /\ entries' = Effect(request[c])
  /\ answer' = [answer EXCEPT ![c] = Result(request[c])]
  /\ UNCHANGED <<locked, request>>

(* An error says nothing about the effect: the answer may be what was lost.*)
Fail(c) ==
  /\ answer[c] = "pending"
  /\ entries' \in {entries, Effect(request[c])}
  /\ answer' = [answer EXCEPT ![c] = "error"]
  /\ UNCHANGED <<locked, request>>

(* A locked collection wants a prompt before it makes or removes an item.  *)
(* Nobody shows it, and the operation is answered as done.                 *)
Prompted(c) ==
  /\ answer[c] = "pending" /\ locked
  /\ request[c].op # "get"
  /\ answer' = [answer EXCEPT ![c] = Result(request[c])]
  /\ UNCHANGED <<entries, locked, request>>

(* The user locks the collection, or unlocks it.                           *)
Lock ==
  /\ locked' = ~locked
  /\ UNCHANGED <<entries, request, answer>>

StoreNext ==
  \/ \E c \in Client : Perform(c) \/ Fail(c) \/ Prompted(c)
  \/ \E c \in Client, r \in Request : Ask(c, r)
  \/ Lock

StoreSpec == StoreInit /\ [][StoreNext]_storeVars
=============================================================================
