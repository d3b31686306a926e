------------------------------ MODULE SecretProofs ------------------------------
(* The Secret Service, used by any number of processes for any keys and    *)
(* values, is one table of secrets with atomic operations.                 *)
EXTENDS SecretService, TLAPS

(* The table that a set of items stands for.                               *)
Unique(S) == \A i, j \in S : i.key = j.key => i = j
Replaced(S, i, v) == (S \ {i}) \union {[i EXCEPT !.value = v]}

(* The entry of a key with an item is the value of that item.              *)
LEMMA EntryThere ==
  ASSUME NEW S, NEW i \in S, Unique(S)
  PROVE  EntryIn(S, i.key) = i.value
<1>1. \A j \in S : j.key = i.key <=> j = i
  BY DEF Unique
<1>2. (CHOOSE j \in S : j.key = i.key) = i
  BY <1>1
<1> QED
  BY <1>2 DEF EntryIn

(* A key without an item has no entry.                                     *)
LEMMA EntryAbsent ==
  ASSUME NEW S, NEW k, \A i \in S : i.key # k
  PROVE  EntryIn(S, k) = None
BY DEF EntryIn

(* Items of other keys do not change an entry.                             *)
LEMMA EntrySame ==
  ASSUME NEW S, NEW T, NEW k, Unique(S), Unique(T),
         \A i : i.key = k => (i \in S <=> i \in T)
  PROVE  EntryIn(T, k) = EntryIn(S, k)
<1>1. CASE \E i \in S : i.key = k
  <2>1. PICK i \in S : i.key = k
    BY <1>1
  <2>2. i \in T
    BY <2>1
  <2> QED
    BY <2>1, <2>2, EntryThere
<1>2. CASE \A i \in S : i.key # k
  <2>1. \A i \in T : i.key # k
    BY <1>2
  <2> QED
    BY <1>2, <2>1, EntryAbsent
<1> QED
  BY <1>1, <1>2

(* Replacing an item changes the entry of its key only.                    *)
LEMMA ReplacedEntry ==
  ASSUME NEW S \in SUBSET ItemRecord, Unique(S), NEW i \in S, NEW v \in Value
  PROVE  /\ Replaced(S, i, v) \in SUBSET ItemRecord
         /\ Unique(Replaced(S, i, v))
         /\ EntryIn(Replaced(S, i, v), i.key) = v
         /\ \A k \in Key : k # i.key => EntryIn(Replaced(S, i, v), k) = EntryIn(S, k)
<1> DEFINE new == [i EXCEPT !.value = v]
           T == Replaced(S, i, v)
<1>1. new \in ItemRecord /\ new.key = i.key /\ new.value = v
  BY DEF ItemRecord
<1>2. T \in SUBSET ItemRecord /\ new \in T /\ \A j \in T : j = new \/ (j \in S /\ j # i)
  BY <1>1 DEF Replaced
<1>3. Unique(T)
  BY <1>1, <1>2 DEF Unique
<1>4. EntryIn(T, i.key) = v
  BY <1>1, <1>2, <1>3, EntryThere
<1>5. ASSUME NEW k \in Key, k # i.key PROVE EntryIn(T, k) = EntryIn(S, k)
  <2>1. \A j : j.key = k => (j \in S <=> j \in T)
    BY <1>1, <1>5 DEF Replaced
  <2> QED
    BY <2>1, <1>3, EntrySame
<1> QED
  BY <1>2, <1>3, <1>4, <1>5

(* Removing an item clears the entry of its key only.                      *)
LEMMA RemovedEntry ==
  ASSUME NEW S, Unique(S), NEW i \in S
  PROVE  /\ Unique(S \ {i})
         /\ EntryIn(S \ {i}, i.key) = None
         /\ \A k \in Key : k # i.key => EntryIn(S \ {i}, k) = EntryIn(S, k)
<1>1. Unique(S \ {i})
  BY DEF Unique
<1>2. EntryIn(S \ {i}, i.key) = None
  BY EntryAbsent DEF Unique
<1>3. ASSUME NEW k \in Key, k # i.key PROVE EntryIn(S \ {i}, k) = EntryIn(S, k)
  BY <1>1, <1>3, EntrySame
<1> QED
  BY <1>1, <1>2, <1>3

(* Adding an item of a key without one sets the entry of that key only.    *)
LEMMA AddedEntry ==
  ASSUME NEW S, Unique(S), NEW i, \A j \in S : j.key # i.key
  PROVE  /\ Unique(S \union {i})
         /\ EntryIn(S \union {i}, i.key) = i.value
         /\ \A k \in Key : k # i.key => EntryIn(S \union {i}, k) = EntryIn(S, k)
<1>1. Unique(S \union {i})
  BY DEF Unique
<1>2. EntryIn(S \union {i}, i.key) = i.value
  BY <1>1, EntryThere
<1>3. ASSUME NEW k \in Key, k # i.key PROVE EntryIn(S \union {i}, k) = EntryIn(S, k)
  BY <1>1, <1>3, EntrySame
<1> QED
  BY <1>1, <1>2, <1>3
-----------------------------------------------------------------------------
(* Paths name items, and are not used again: an item that a client has     *)
(* found is gone or still the one for its key.                             *)
PathInv ==
  /\ \A i \in items : i.path <= made
  /\ \A i, j \in items : i.path = j.path => i = j
  /\ \A c \in Client :
       pc[c] \in {"get", "set", "delete"} =>
         /\ found[c] <= made
         /\ \A i \in items : i.path = found[c] => i.key = request[c].key

ServiceInv == ServiceTypeOK /\ PathInv /\ OneItemPerKey

(* What a request of the abstract store holds.                             *)
LEMMA RequestFields ==
  ASSUME NEW r \in Store!Request
  PROVE  /\ r.key \in Key
         /\ r.op \in {"get", "set", "delete"}
         /\ r.op = "set" => r.value \in Value
         /\ r.op # "set" => r.value = None
BY DEF Store!Request

(* The invariant holds at the start.                                       *)
LEMMA ServiceInitInv == ServiceInit => ServiceInv
BY ServiceAssumption
   DEF ServiceInit, ServiceInv, ServiceTypeOK, PathInv, OneItemPerKey, Store!Outcomes

(* A client changes its own call; the items change as one of three ways.   *)
LEMMA AnswerKeeps ==
  ASSUME ServiceInv, NEW c \in Client, NEW a \in Store!Outcomes \union Value \union {None},
         Answer(c, a), a # "pending"
  PROVE  /\ locked' \in BOOLEAN
         /\ request' \in [Client -> Store!Request \union {None}]
         /\ answer' \in [Client -> Store!Outcomes \union Value \union {None}]
         /\ pc' \in [Client -> {"idle", "search", "get", "set", "create", "delete"}]
         /\ found' \in [Client -> 0..MaxItems]
         /\ \A d \in Client :
              /\ answer'[d] = "pending" <=> pc'[d] # "idle"
              /\ pc'[d] # "idle" => pc'[d] = pc[d] /\ found'[d] = found[d] /\ d # c
         /\ request' = request
BY ServiceAssumption DEF Answer, ServiceInv, ServiceTypeOK

(* What an answer leaves of the invariant, given what it did to the items. *)
LEMMA AnswerStep ==
  ASSUME ServiceInv, NEW c \in Client, NEW a \in Store!Outcomes \union Value \union {None},
         Answer(c, a), a # "pending",
         items' \subseteq ItemRecord, made' \in 0..MaxItems, made <= made',
         Unique(items'),
         \A i \in items' : i.path <= made',
         \A i, j \in items' : i.path = j.path => i = j,
         \A i \in items' : i.path <= made => \E j \in items : j.path = i.path /\ j.key = i.key
  PROVE  ServiceInv'
<1> USE AnswerKeeps
<1>1. ServiceTypeOK'
  <2>1. \A d \in Client :
          /\ answer'[d] = "pending" <=> pc'[d] # "idle"
          /\ pc'[d] # "idle" => request'[d] \in Store!Request
          /\ pc'[d] \in {"get", "set", "delete"} => request'[d].op = pc'[d]
          /\ pc'[d] = "create" => request'[d].op = "set"
    BY DEF ServiceInv, ServiceTypeOK
  <2> QED
    BY <2>1 DEF ServiceTypeOK
<1>2. PathInv'
  <2>1. ASSUME NEW d \in Client, pc'[d] \in {"get", "set", "delete"}
        PROVE  /\ found'[d] <= made'
               /\ \A i \in items' : i.path = found'[d] => i.key = request'[d].key
    <3>1. pc'[d] = pc[d] /\ found'[d] = found[d] /\ request' = request
      BY <2>1
    <3>2. /\ found[d] <= made /\ found[d] \in Nat /\ made \in Nat /\ made' \in Nat
          /\ \A i \in items : i.path = found[d] => i.key = request[d].key
      BY <2>1, <3>1, ServiceAssumption DEF ServiceInv, ServiceTypeOK, PathInv
    <3> QED
      BY <3>1, <3>2
  <2> QED
    BY <2>1 DEF PathInv
<1>3. OneItemPerKey'
  BY DEF OneItemPerKey, Unique
<1> QED
  BY <1>1, <1>2, <1>3 DEF ServiceInv

(* Every step keeps it.                                                    *)
LEMMA ServiceStep == ServiceInv /\ [ServiceNext]_serviceVars => ServiceInv'
<1> SUFFICES ASSUME ServiceInv, [ServiceNext]_serviceVars PROVE ServiceInv'
  OBVIOUS
<1>0. /\ items \subseteq ItemRecord /\ made \in Nat /\ MaxItems \in Nat /\ made <= MaxItems
      /\ Unique(items) /\ \A i \in items : i.path <= made /\ i.path \in Nat
      /\ \A i, j \in items : i.path = j.path => i = j
  BY ServiceAssumption DEF ServiceInv, ServiceTypeOK, PathInv, OneItemPerKey, Unique, ItemRecord
<1>1. CASE UNCHANGED serviceVars
  BY <1>1 DEF serviceVars, ServiceInv, ServiceTypeOK, PathInv, OneItemPerKey
<1>2. CASE Lock
  BY <1>2 DEF Lock, ServiceInv, ServiceTypeOK, PathInv, OneItemPerKey
<1>3. ASSUME NEW c \in Client, NEW r \in Store!Request, Ask(c, r) PROVE ServiceInv'
  BY <1>3 DEF Ask, ServiceInv, ServiceTypeOK, PathInv, OneItemPerKey, Store!Outcomes
<1>4. ASSUME NEW c \in Client, Operates(c) PROVE ServiceInv'
  <2>0. CASE pc[c] = "idle"
    BY <1>4, <2>0 DEF Operates, Search, SearchIsEmpty, ReadAlias, GetSecret, SetSecret,
       CreateItem, DeleteItem, CreatePrompted, DeletePrompted, Rejected
  <2> SUFFICES ASSUME pc[c] # "idle" PROVE ServiceInv'
    BY <2>0
  <2>r. request[c] \in Store!Request
    BY DEF ServiceInv, ServiceTypeOK
  <2>1. CASE Search(c)
    <3>1. PICK i \in Matching(c) : found' = [found EXCEPT ![c] = i.path]
      BY <2>1 DEF Search
    <3>2. i \in items /\ i.key = request[c].key /\ i.path \in 0..MaxItems
      BY <1>0, <3>1 DEF Matching
    <3>3. ServiceTypeOK'
      BY <2>1, <2>r, <3>1, <3>2, RequestFields DEF Search, ServiceInv, ServiceTypeOK
    <3>4. PathInv'
      BY <1>0, <2>1, <3>1, <3>2 DEF Search, ServiceInv, ServiceTypeOK, PathInv
    <3> QED
      BY <2>1, <3>3, <3>4 DEF Search, ServiceInv, OneItemPerKey
  <2>2. CASE ReadAlias(c)
    BY <2>2 DEF ReadAlias, ServiceInv, ServiceTypeOK, PathInv, OneItemPerKey
  <2>a. ASSUME NEW a \in Store!Outcomes \union Value \union {None}, a # "pending",
               Answer(c, a), UNCHANGED <<items, made>>
        PROVE  ServiceInv'
    BY <1>0, <2>a, AnswerStep
  <2>3. CASE SearchIsEmpty(c) \/ CreatePrompted(c) \/ DeletePrompted(c) \/ Rejected(c)
    BY <2>3, <2>a, ServiceAssumption
       DEF SearchIsEmpty, CreatePrompted, DeletePrompted, Rejected, Store!Outcomes
  <2>4. CASE GetSecret(c)
    <3>1. PICK i \in items : Answer(c, i.value)
      BY <2>4 DEF GetSecret
    <3>2. i.value \in Value /\ i.value # "pending"
      BY <1>0, <3>1, ServiceAssumption DEF ItemRecord, Store!Outcomes
    <3> QED
      BY <2>4, <2>a, <3>1, <3>2 DEF GetSecret
  <2>s. PICK saved \in {"saved", "deleted", "error"} :
          SetSecret(c) \/ CreateItem(c) \/ DeleteItem(c) => Answer(c, saved)
    BY DEF SetSecret, CreateItem, DeleteItem
  <2>5. ASSUME NEW i \in items, i.key = request[c].key, request[c].value \in Value,
               items' = Replaced(items, i, request[c].value), made' = made,
               Answer(c, saved)
        PROVE  ServiceInv'
    <3>1. \A j \in items' : \E k \in items : j.path = k.path /\ j.key = k.key
      BY <1>0, <2>5 DEF Replaced, ItemRecord
    <3>2. \A j, k \in items' : j.path = k.path => j = k
      BY <1>0, <2>5 DEF Replaced, ItemRecord
    <3> QED
      BY <1>0, <2>5, <3>1, <3>2, ReplacedEntry, AnswerStep DEF Store!Outcomes
  <2>6. CASE SetSecret(c)
    <3>1. PICK i \in items : i.path = found[c] /\ items' = Replaced(items, i, request[c].value)
      BY <2>6 DEF SetSecret, Replaced
    <3>2. i.key = request[c].key /\ request[c].value \in Value
      BY <2>6, <2>r, <3>1, RequestFields DEF SetSecret, ServiceInv, ServiceTypeOK, PathInv
    <3> QED
      BY <2>5, <2>6, <2>s, <3>1, <3>2 DEF SetSecret
  <2>7. CASE CreateItem(c)
    <3>1. request[c].value \in Value
      BY <2>7, <2>r, RequestFields DEF CreateItem, ServiceInv, ServiceTypeOK
    <3>2. ASSUME NEW i \in Matching(c), items' = Replaced(items, i, request[c].value), made' = made
          PROVE  ServiceInv'
      BY <2>5, <2>7, <2>s, <3>1, <3>2 DEF Matching
    <3>3. ASSUME Matching(c) = {}, made < MaxItems, items' = items \union {NewItem(c)},
                 made' = made + 1
          PROVE  ServiceInv'
      <4>1. NewItem(c) \in ItemRecord /\ NewItem(c).path = made + 1
        BY <1>0, <2>r, <3>1, RequestFields DEF NewItem, ItemRecord
      <4>2. \A j \in items : j.key # NewItem(c).key
        BY <3>3 DEF Matching, NewItem
      <4>3. Unique(items')
        BY <1>0, <3>3, <4>2, AddedEntry
      <4>4. /\ \A j \in items' : j.path <= made'
            /\ \A j, k \in items' : j.path = k.path => j = k
            /\ \A j \in items' : j.path <= made => j \in items
        BY <1>0, <3>3, <4>1
      <4>5. items' \subseteq ItemRecord /\ made' \in 0..MaxItems /\ made <= made'
        BY <1>0, <3>3, <4>1
      <4>6. Answer(c, saved) /\ saved \in Store!Outcomes /\ saved # "pending"
        BY <2>7, <2>s DEF Store!Outcomes
      <4> QED
        BY <4>3, <4>4, <4>5, <4>6, AnswerStep
    <3> QED
      BY <2>7, <3>2, <3>3 DEF CreateItem, Replaced
  <2>8. CASE DeleteItem(c)
    <3>1. PICK i \in items : items' = items \ {i}
      BY <2>8 DEF DeleteItem
    <3>2. Unique(items') /\ items' \subseteq items /\ made' = made
      BY <1>0, <2>8, <3>1, RemovedEntry DEF DeleteItem
    <3> QED
      BY <1>0, <2>8, <2>s, <3>2, AnswerStep DEF Store!Outcomes
  <2> QED
    BY <1>4, <2>1, <2>2, <2>3, <2>4, <2>6, <2>7, <2>8 DEF Operates
<1> QED
  BY <1>1, <1>2, <1>3, <1>4 DEF ServiceNext

(* However many processes store secrets at once: one item for each key.    *)
THEOREM OneItemForEachKey == ServiceSpec => []OneItemPerKey
<1>1. ServiceInv => OneItemPerKey
  BY DEF ServiceInv
<1> QED
  BY <1>1, ServiceInitInv, ServiceStep, PTL DEF ServiceSpec
-----------------------------------------------------------------------------
(* The refinement: each step of the service is one of the table, or none.  *)
Table == [k \in Key |-> EntryIn(items, k)]

(* Changing or removing a key's item does to the table what is asked.      *)
LEMMA TableSteps ==
  ASSUME ServiceInv, NEW c \in Client, request[c] \in Store!Request,
         NEW i \in items, i.key = request[c].key
  PROVE  /\ Table[request[c].key] = i.value
         /\ request[c].op = "set" /\ items' = Replaced(items, i, request[c].value)
              => Table' = Store!Effect(request[c])
         /\ request[c].op = "delete" /\ items' = items \ {i}
              => Table' = Store!Effect(request[c])
<1>1. items \in SUBSET ItemRecord /\ Unique(items) /\ request[c].key \in Key
  BY RequestFields DEF ServiceInv, ServiceTypeOK, OneItemPerKey, Unique
<1>2. Table[request[c].key] = i.value
  BY <1>1, EntryThere DEF Table
<1>3. ASSUME request[c].op = "set", items' = Replaced(items, i, request[c].value)
      PROVE  Table' = Store!Effect(request[c])
  <2>1. request[c].value \in Value
    BY <1>3, RequestFields
  <2>2. \A k \in Key : EntryIn(items', k) =
          IF k = request[c].key THEN request[c].value ELSE EntryIn(items, k)
    BY <1>1, <1>3, <2>1, ReplacedEntry
  <2> QED
    BY <1>1, <1>3, <2>2 DEF Table, Store!Effect
<1>4. ASSUME request[c].op = "delete", items' = items \ {i}
      PROVE  Table' = Store!Effect(request[c])
  <2>1. request[c].value = None
    BY <1>4, RequestFields
  <2>2. \A k \in Key : EntryIn(items', k) = IF k = request[c].key THEN None ELSE EntryIn(items, k)
    BY <1>1, <1>4, RemovedEntry
  <2> QED
    BY <1>1, <1>4, <2>1, <2>2 DEF Table, Store!Effect
<1> QED
  BY <1>2, <1>3, <1>4

(* So does adding an item of a key without one.                            *)
LEMMA TableGrows ==
  ASSUME ServiceInv, NEW c \in Client, request[c] \in Store!Request, request[c].op = "set",
         Matching(c) = {}, items' = items \union {NewItem(c)}
  PROVE  Table' = Store!Effect(request[c])
<1>1. /\ Unique(items) /\ request[c].key \in Key
      /\ NewItem(c).key = request[c].key /\ NewItem(c).value = request[c].value
      /\ \A j \in items : j.key # NewItem(c).key
  BY RequestFields DEF ServiceInv, OneItemPerKey, Unique, NewItem, Matching
<1> DEFINE new == NewItem(c)
<1>2. /\ EntryIn(items \union {new}, new.key) = new.value
      /\ \A k \in Key : k # new.key => EntryIn(items \union {new}, k) = EntryIn(items, k)
  <2> HIDE DEF new
  <2>1. \A j \in items : j.key # new.key
    BY <1>1 DEF new
  <2> QED
    BY <1>1, <2>1, AddedEntry
<1>3. \A k \in Key : EntryIn(items', k) =
        IF k = request[c].key THEN request[c].value ELSE EntryIn(items, k)
  BY <1>1, <1>2
<1> QED
  BY <1>1, <1>3 DEF Table, Store!Effect

(* Every step is one of the abstract store or none.                        *)
LEMMA StepRefines ==
  ServiceInv /\ [ServiceNext]_serviceVars => [Store!StoreNext]_(Store!storeVars)
<1> SUFFICES ASSUME ServiceInv, [ServiceNext]_serviceVars
             PROVE  Store!StoreNext \/ UNCHANGED Store!storeVars
  OBVIOUS
<1>0. items' = items => Table' = Table
  BY DEF Table
<1>1. CASE UNCHANGED serviceVars
  BY <1>0, <1>1 DEF serviceVars, Store!storeVars, Table
<1>2. CASE Lock
  BY <1>0, <1>2 DEF Lock, Store!Lock, Store!StoreNext, Table
<1>3. ASSUME NEW c \in Client, NEW r \in Store!Request, Ask(c, r)
      PROVE  Store!StoreNext
  <2>1. answer[c] # "pending"
    BY <1>3 DEF Ask, ServiceInv, ServiceTypeOK
  <2>2. Store!Ask(c, r)
    BY <1>0, <1>3, <2>1 DEF Ask, Store!Ask, Table
  <2> QED
    BY <2>2 DEF Store!StoreNext
<1>4. ASSUME NEW c \in Client, Operates(c)
      PROVE  Store!StoreNext \/ UNCHANGED Store!storeVars
  <2>1. CASE Search(c) \/ ReadAlias(c)
    BY <1>0, <2>1 DEF Search, ReadAlias, Store!storeVars, Table
  <2>2. CASE Rejected(c)
    <3>1. Store!Fail(c)
      BY <1>0, <2>2 DEF Rejected, Answer, Store!Fail, Table, ServiceInv, ServiceTypeOK
    <3> QED
      BY <3>1 DEF Store!StoreNext
  <2>3. ASSUME pc[c] # "idle", NEW a, Answer(c, a),
               a = "error" \/ a = Store!Result(request[c]),
               Table' = Store!Effect(request[c])
        PROVE  Store!StoreNext
    <3>1. /\ answer[c] = "pending" /\ answer' = [answer EXCEPT ![c] = a]
          /\ UNCHANGED <<locked, request>>
      BY <2>3 DEF Answer, ServiceInv, ServiceTypeOK
    <3>2. Store!Perform(c) \/ Store!Fail(c)
      BY <2>3, <3>1 DEF Store!Perform, Store!Fail, Table
    <3> QED
      BY <3>2 DEF Store!StoreNext
  <2>4. ASSUME pc[c] # "idle" PROVE request[c] \in Store!Request /\ request[c].key \in Key
    BY <2>4, RequestFields DEF ServiceInv, ServiceTypeOK
  <2>5. ASSUME NEW i \in items, i.path = found[c], pc[c] \in {"get", "set", "delete"}
        PROVE  i.key = request[c].key /\ request[c].op = pc[c] /\ Table[request[c].key] = i.value
    BY <2>4, <2>5, TableSteps DEF ServiceInv, ServiceTypeOK, PathInv
  <2>6. CASE SearchIsEmpty(c)
    <3>1. Table[request[c].key] = None
      BY <2>4, <2>6, EntryAbsent DEF SearchIsEmpty, Matching, Table
    <3>2. request[c].op = "get" \/ (request[c].op = "delete" /\ request[c].value = None)
      BY <2>4, <2>6, RequestFields DEF SearchIsEmpty
    <3>3. Table' = Store!Effect(request[c])
      BY <1>0, <2>6, <3>1, <3>2 DEF SearchIsEmpty, Store!Effect, Table
    <3>4. Store!Result(request[c]) = IF request[c].op = "get" THEN None ELSE "absent"
      BY <3>1, <3>2 DEF Store!Result, Table
    <3> QED
      BY <2>3, <2>6, <3>3, <3>4 DEF SearchIsEmpty
  <2>7. CASE GetSecret(c)
    <3>1. PICK i \in items : i.path = found[c] /\ Answer(c, i.value)
      BY <2>7 DEF GetSecret
    <3>2. request[c].op = "get" /\ Table[request[c].key] = i.value
      BY <2>5, <2>7, <3>1 DEF GetSecret
    <3>3. Table' = Store!Effect(request[c]) /\ Store!Result(request[c]) = i.value
      BY <1>0, <2>7, <3>2 DEF GetSecret, Store!Effect, Store!Result, Table
    <3> QED
      BY <2>3, <2>7, <3>1, <3>3 DEF GetSecret
  <2>8. CASE SetSecret(c)
    <3>1. PICK i \in items : i.path = found[c] /\ items' = Replaced(items, i, request[c].value)
      BY <2>8 DEF SetSecret, Replaced
    <3>2. i.key = request[c].key /\ request[c].op = "set"
      BY <2>5, <2>8, <3>1 DEF SetSecret
    <3>3. Table' = Store!Effect(request[c])
      BY <2>4, <2>8, <3>1, <3>2, TableSteps DEF SetSecret
    <3>4. Store!Result(request[c]) = "saved"
      BY <3>2 DEF Store!Result
    <3> QED
      BY <2>3, <2>8, <3>3, <3>4 DEF SetSecret
  <2>9. CASE CreateItem(c)
    <3>1. request[c].op = "set"
      BY <2>9 DEF CreateItem, ServiceInv, ServiceTypeOK
    <3>2. ASSUME NEW i \in Matching(c), items' = Replaced(items, i, request[c].value)
          PROVE  Table' = Store!Effect(request[c])
      BY <2>4, <2>9, <3>1, <3>2, TableSteps DEF CreateItem, Matching
    <3>3. ASSUME Matching(c) = {}, items' = items \union {NewItem(c)}
          PROVE  Table' = Store!Effect(request[c])
      BY <2>4, <2>9, <3>1, <3>3, TableGrows DEF CreateItem
    <3>4. Table' = Store!Effect(request[c])
      BY <2>9, <3>2, <3>3 DEF CreateItem, Replaced
    <3>5. Store!Result(request[c]) = "saved"
      BY <3>1 DEF Store!Result
    <3> QED
      BY <2>3, <2>9, <3>4, <3>5 DEF CreateItem
  <2>10. CASE DeleteItem(c)
    <3>1. PICK i \in items : i.path = found[c] /\ items' = items \ {i}
      BY <2>10 DEF DeleteItem
    <3>2. /\ i.key = request[c].key /\ request[c].op = "delete"
          /\ Table[request[c].key] = i.value /\ i.value # None
      BY <2>5, <2>10, <3>1, ServiceAssumption
         DEF DeleteItem, ServiceInv, ServiceTypeOK, ItemRecord
    <3>3. Table' = Store!Effect(request[c])
      BY <2>4, <2>10, <3>1, <3>2, TableSteps DEF DeleteItem
    <3>4. Store!Result(request[c]) = "deleted"
      BY <3>2 DEF Store!Result, Table
    <3> QED
      BY <2>3, <2>10, <3>3, <3>4 DEF DeleteItem
  <2>11. ASSUME pc[c] # "idle", request[c].op # "get", locked,
                Answer(c, Store!Result(request[c])), UNCHANGED items
         PROVE  Store!StoreNext
    <3>1. Store!Prompted(c)
      BY <1>0, <2>11 DEF Answer, Store!Prompted, Table, ServiceInv, ServiceTypeOK
    <3> QED
      BY <3>1 DEF Store!StoreNext
  <2>12. CASE CreatePrompted(c)
    <3>1. request[c].op = "set"
      BY <2>12 DEF CreatePrompted, ServiceInv, ServiceTypeOK
    <3>2. Store!Result(request[c]) = "saved"
      BY <3>1 DEF Store!Result
    <3> QED
      BY <2>11, <2>12, <3>1, <3>2 DEF CreatePrompted
  <2>13. CASE DeletePrompted(c)
    <3>1. PICK i \in items : i.path = found[c]
      BY <2>13 DEF DeletePrompted
    <3>2. request[c].op = "delete" /\ Table[request[c].key] = i.value /\ i.value # None
      BY <2>5, <2>13, <3>1, ServiceAssumption
         DEF DeletePrompted, ServiceInv, ServiceTypeOK, ItemRecord
    <3>3. Store!Result(request[c]) = "deleted"
      BY <3>2 DEF Store!Result, Table
    <3> QED
      BY <2>11, <2>13, <3>2, <3>3 DEF DeletePrompted
  <2> QED
    BY <1>4, <2>1, <2>2, <2>6, <2>7, <2>8, <2>9, <2>10, <2>12, <2>13 DEF Operates
<1> QED
  BY <1>1, <1>2, <1>3, <1>4 DEF ServiceNext

(* The service starts as the abstract store does.                          *)
LEMMA InitRefines == ServiceInit => Store!StoreInit
BY DEF ServiceInit, Store!StoreInit, EntryIn

(* For any number of processes, keys and values, interleaved call by call: *)
(* the Secret Service behaves as one table with atomic operations.         *)
THEOREM ServiceRefinesStore == ServiceSpec => ImplementsSecretStore
BY InitRefines, ServiceInitInv, ServiceStep, StepRefines, PTL
   DEF ServiceSpec, Store!StoreSpec, ImplementsSecretStore
=============================================================================
