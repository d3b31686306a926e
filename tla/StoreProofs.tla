----------------------------- MODULE StoreProofs -----------------------------
(***************************************************************************)
(* Reading the store by pages while it changes, for every set of           *)
(* conversations, messages, times and page sizes.                          *)
(*                                                                         *)
(* Sorting needs no induction: that one place precedes another makes the   *)
(* rank of the first smaller, so that rank is an injection of the places   *)
(* into as many positions, and hence onto them.  A page is the beginning   *)
(* of the sorted rest; the invariant says what lies before the cursor was  *)
(* read and what was not lies after it.                                    *)
(***************************************************************************)
EXTENDS Store, FiniteSetTheorems, FunctionTheorems, SequenceTheorems, TLAPS

Places == Nat \X Nat

-----------------------------------------------------------------------------
(* Sorting.                                                                *)

(* Precedes orders the places strictly and totally.                        *)
LEMMA PrecedesOrders ==
  ASSUME NEW p \in Places, NEW q \in Places, NEW r \in Places
  PROVE  /\ ~Precedes(p, p)
         /\ Precedes(p, q) /\ Precedes(q, r) => Precedes(p, r)
         /\ p = q \/ Precedes(p, q) \/ Precedes(q, p)
<1>1. PICK p1 \in Nat, p2 \in Nat : p = <<p1, p2>>
  BY DEF Places
<1>2. PICK q1 \in Nat, q2 \in Nat : q = <<q1, q2>>
  BY DEF Places
<1>3. PICK r1 \in Nat, r2 \in Nat : r = <<r1, r2>>
  BY DEF Places
<1>. QED
  BY <1>1, <1>2, <1>3 DEF Precedes

(* Among finitely many places one that precedes another has fewer before   *)
(* it, and every place has fewer before it than there are.                 *)
LEMMA RankIncreases ==
  ASSUME NEW S \in SUBSET Places, IsFiniteSet(S), NEW p \in S
  PROVE  /\ Rank(S, p) \in 0..(Cardinality(S) - 1)
         /\ \A q \in S : Precedes(p, q) => Rank(S, p) < Rank(S, q)
<1> DEFINE Before(q) == {r \in S : Precedes(r, q)}
<1>1. ASSUME NEW q \in S
      PROVE  IsFiniteSet(Before(q)) /\ Cardinality(Before(q)) \in Nat
  BY <1>1, FS_Subset, FS_CardinalityType
<1>2. Cardinality(S) \in Nat
  BY FS_CardinalityType
<1>3. ~Precedes(p, p)
  BY PrecedesOrders
<1>4. Before(p) \in SUBSET S /\ Before(p) # S
  BY <1>3
<1>5. Cardinality(Before(p)) <= Cardinality(S) /\ Cardinality(Before(p)) # Cardinality(S)
  BY <1>4, FS_Subset, Zenon
<1>6. ASSUME NEW q \in S, Precedes(p, q)
      PROVE  Cardinality(Before(p)) < Cardinality(Before(q))
  <2>1. Before(p) \in SUBSET Before(q)
    BY <1>6, PrecedesOrders
  <2>2. p \in Before(q) /\ p \notin Before(p)
    BY <1>3, <1>6
  <2>3. Cardinality(Before(p)) <= Cardinality(Before(q))
        /\ (Cardinality(Before(q)) = Cardinality(Before(p)) => Before(q) = Before(p))
    BY <1>1, <2>1, FS_Subset
  <2>. QED
    BY <1>1, <2>2, <2>3
<1>. QED
  BY <1>1, <1>2, <1>5, <1>6 DEF Rank

(* InOrder lists each place once, at its rank.                             *)
LEMMA InOrderSorts ==
  ASSUME NEW S \in SUBSET Places, IsFiniteSet(S)
  PROVE  /\ InOrder(S) \in Seq(S)
         /\ Len(InOrder(S)) = Cardinality(S)
         /\ \A p \in S : InOrder(S)[Rank(S, p) + 1] = p
         /\ \A i \in 1..Cardinality(S) : Rank(S, InOrder(S)[i]) = i - 1
<1> DEFINE n == Cardinality(S)
           rank == [p \in S |-> Rank(S, p) + 1]
<1>1. n \in Nat
  BY FS_CardinalityType
<1>2. \A p \in S : rank[p] \in 1..n
  BY <1>1, RankIncreases
<1>3. \A p, q \in S : rank[p] = rank[q] => p = q
  <2> TAKE p, q \in S
  <2>1. p = q \/ Precedes(p, q) \/ Precedes(q, p)
    BY PrecedesOrders
  <2>. QED
    BY <1>1, <2>1, RankIncreases
<1>4. rank \in Injection(S, 1..n)
  BY <1>2, <1>3, Fun_IsInj
<1>5. IsFiniteSet(1..n) /\ Cardinality(1..n) = n
  BY <1>1, FS_Interval
<1>6. rank \in Surjection(S, 1..n)
  BY <1>4, <1>5, FS_Injection
<1> HIDE DEF rank
<1>7. \A i \in 1..n : \E p \in S : rank[p] = i
  BY <1>6, Fun_SurjectionProperties
<1> USE DEF rank
<1>8. ASSUME NEW i \in 1..n
      PROVE  InOrder(S)[i] \in S /\ Rank(S, InOrder(S)[i]) = i - 1
  <2>1. PICK p \in S : rank[p] = i
    BY <1>7
  <2>2. Rank(S, p) = i - 1
    BY <1>1, <2>1, RankIncreases
  <2>3. InOrder(S)[i] = CHOOSE q \in S : Rank(S, q) = i - 1
    BY DEF InOrder
  <2>. QED
    BY <2>2, <2>3
<1>9. InOrder(S) \in [1..n -> S]
  BY <1>8 DEF InOrder
<1>10. InOrder(S) \in Seq(S) /\ Len(InOrder(S)) = n
  BY <1>1, <1>9
<1>11. ASSUME NEW p \in S PROVE InOrder(S)[Rank(S, p) + 1] = p
  <2>1. rank[p] \in 1..n
    BY <1>2
  <2>2. InOrder(S)[rank[p]] \in S /\ Rank(S, InOrder(S)[rank[p]]) = Rank(S, p)
    BY <1>1, <1>8, <2>1, RankIncreases
  <2>. QED
    BY <1>3, <2>2
<1>. QED
  BY <1>8, <1>10, <1>11

(* InOrder is sorted.                                                      *)
LEMMA InOrderIncreases ==
  ASSUME NEW S \in SUBSET Places, IsFiniteSet(S)
  PROVE  \A i, j \in 1..Cardinality(S) : i < j => Precedes(InOrder(S)[i], InOrder(S)[j])
<1>1. Cardinality(S) \in Nat
  BY FS_CardinalityType
<1>2. ASSUME NEW i \in 1..Cardinality(S), NEW j \in 1..Cardinality(S), i < j
      PROVE  Precedes(InOrder(S)[i], InOrder(S)[j])
  <2> DEFINE p == InOrder(S)[i]
             q == InOrder(S)[j]
  <2>1. p \in S /\ q \in S /\ Rank(S, p) = i - 1 /\ Rank(S, q) = j - 1
    BY <1>1, InOrderSorts, ElementOfSeq
  <2> HIDE DEF p, q
  <2>2. p = q \/ Precedes(p, q) \/ Precedes(q, p)
    BY <2>1, PrecedesOrders
  <2>3. Precedes(q, p) => Rank(S, q) < Rank(S, p)
    BY <2>1, RankIncreases
  <2>4. Precedes(p, q)
    BY <1>2, <2>1, <2>2, <2>3
  <2>. QED
    BY <2>4 DEF p, q
<1>. QED
  BY <1>2

(* A page is the sorted beginning of what is left, and unless it is full   *)
(* it is all of it: what it leaves out comes after its last place.         *)
LEMMA PageIsBeginning ==
  ASSUME NEW S \in SUBSET Places, IsFiniteSet(S), NEW limit \in Nat \ {0},
         NEW page, page = UpTo(limit, InOrder(S))
  PROVE  /\ page \in Seq(S)
         /\ \A i, j \in 1..Len(page) : i < j => Precedes(page[i], page[j])
         /\ \A p \in S : \/ \E i \in 1..Len(page) : page[i] = p
                         \/ Len(page) = limit /\ Precedes(page[limit], p)
<1> DEFINE n == Cardinality(S)
           k == IF limit < n THEN limit ELSE n
<1>1. n \in Nat /\ k \in 0..n /\ k <= limit /\ (k < n => k = limit)
  BY FS_CardinalityType
<1>2. /\ InOrder(S) \in Seq(S) /\ Len(InOrder(S)) = n
      /\ \A p \in S : InOrder(S)[Rank(S, p) + 1] = p
  BY InOrderSorts
<1>3. page = SubSeq(InOrder(S), 1, k)
  BY <1>2 DEF UpTo
<1> HIDE DEF k
<1>4. \A i \in 1..k : InOrder(S)[i] \in S
  BY <1>1, <1>2, ElementOfSeq
<1>5. page \in Seq(S) /\ Len(page) = k /\ \A i \in 1..k : page[i] = InOrder(S)[i]
  BY <1>1, <1>3, <1>4, SubSeqProperties
<1>6. \A i, j \in 1..Len(page) : i < j => Precedes(page[i], page[j])
  BY <1>1, <1>5, InOrderIncreases
<1>7. ASSUME NEW p \in S
      PROVE  \/ \E i \in 1..Len(page) : page[i] = p
             \/ Len(page) = limit /\ Precedes(page[limit], p)
  <2>1. Rank(S, p) + 1 \in 1..n /\ InOrder(S)[Rank(S, p) + 1] = p
    BY <1>1, <1>2, RankIncreases
  <2>2. CASE Rank(S, p) + 1 <= k
    BY <1>1, <1>5, <2>1, <2>2
  <2>3. CASE k < Rank(S, p) + 1
    <3>1. k = limit /\ limit \in 1..n /\ Len(page) = limit
      BY <1>1, <1>5, <2>1, <2>3
    <3>2. Precedes(InOrder(S)[limit], p)
      BY <1>1, <2>1, <2>3, <3>1, InOrderIncreases
    <3>. QED
      BY <1>5, <3>1, <3>2
  <2>. QED
    BY <1>1, <2>1, <2>2, <2>3
<1>. QED
  BY <1>5, <1>6, <1>7

(* A rank does not fall when places are added.                             *)
LEMMA RankGrows ==
  ASSUME NEW T, IsFiniteSet(T), NEW S \in SUBSET T, NEW p
  PROVE  /\ Rank(S, p) \in Nat /\ Rank(T, p) \in Nat
         /\ Rank(S, p) <= Rank(T, p)
<1> DEFINE Before(U) == {q \in U : Precedes(q, p)}
<1>1. IsFiniteSet(Before(T))
  BY FS_Subset
<1>2. Before(S) \in SUBSET Before(T)
  OBVIOUS
<1>3. IsFiniteSet(Before(S)) /\ Cardinality(Before(S)) <= Cardinality(Before(T))
  BY <1>1, <1>2, FS_Subset
<1>. QED
  BY <1>1, <1>3, FS_CardinalityType DEF Rank

-----------------------------------------------------------------------------
(* The inductive invariant.                                                *)

(* What was read lies at or before the cursor: the next page, which starts *)
(* after it, continues the order.  What was there from the start belongs   *)
(* to the conversation that is read.                                       *)
HistoryInv ==
  /\ HistoryInOrder
  /\ historyCursor = First => historyRead = <<>> /\ historyKept = {}
  /\ historyCursor \in Time \X Message =>
       \A i \in DOMAIN historyRead :
         historyRead[i] = historyCursor \/ Precedes(historyRead[i], historyCursor)
  /\ HistoryComplete
  /\ \A m \in historyKept : messages[m].conversation = Chat

PlacesOf(rows) == {<<rows[c], c>> : c \in DOMAIN rows}

(* While nothing moved, what is not read yet stands in the list at or      *)
(* after the index the client asks for next.                               *)
ListInv ==
  /\ listCursor = 0 => listKept = {}
  /\ ~listMoved =>
       \A c \in listKept :
         \/ c \in ToSet(listRead)
         \/ listCursor # End /\ listCursor <= Rank(PlacesOf(conversations), <<conversations[c], c>>)

StoreInv ==
  /\ StoreTypeOK
  /\ IsFiniteSet(DOMAIN conversations) /\ IsFiniteSet(DOMAIN messages)
  /\ HistoryInv
  /\ ListInv

(* The history, and the list, are finite sets of places.                   *)
LEMMA HistoryPlaces ==
  ASSUME StoreTypeOK, IsFiniteSet(DOMAIN messages)
  PROVE  /\ History \in SUBSET (Time \X Message)
         /\ History \in SUBSET Places
         /\ IsFiniteSet(History)
<1>1. History \in SUBSET (Time \X Message)
  BY DEF StoreTypeOK, History
<1>2. History \in SUBSET Places
  BY <1>1, StoreAssumption DEF Places
<1> DEFINE id == [p \in History |-> p[2]]
<1>3. id \in [History -> DOMAIN messages]
  BY DEF History
<1>4. \A p, q \in History : id[p] = id[q] => p = q
  BY DEF History
<1> HIDE DEF id
<1>5. id \in Injection(History, DOMAIN messages)
  BY <1>3, <1>4, Fun_IsInj
<1>. QED
  BY <1>1, <1>2, <1>5, FS_Injection

(* The places of finitely many rows are finitely many places.              *)
LEMMA RowPlaces ==
  ASSUME NEW rows, IsFiniteSet(DOMAIN rows),
         DOMAIN rows \subseteq Conversation, \A c \in DOMAIN rows : rows[c] \in Time
  PROVE  /\ PlacesOf(rows) \in SUBSET Places
         /\ IsFiniteSet(PlacesOf(rows))
<1>1. PlacesOf(rows) \in SUBSET Places
  <2>1. ASSUME NEW c \in DOMAIN rows PROVE rows[c] \in Nat /\ c \in Nat
    BY StoreAssumption
  <2>. QED
    BY <2>1 DEF Places, PlacesOf
<1> DEFINE id == [p \in PlacesOf(rows) |-> p[2]]
<1>2. id \in [PlacesOf(rows) -> DOMAIN rows]
  BY DEF PlacesOf
<1>3. \A p, q \in PlacesOf(rows) : id[p] = id[q] => p = q
  BY DEF PlacesOf
<1> HIDE DEF id
<1>4. id \in Injection(PlacesOf(rows), DOMAIN rows)
  BY <1>2, <1>3, Fun_IsInj
<1>. QED
  BY <1>1, <1>4, FS_Injection

(* The store starts empty and unread.                                      *)
LEMMA StoreInitial == StoreInit => StoreInv
<1> SUFFICES ASSUME StoreInit PROVE StoreInv
  OBVIOUS
<1>1. DOMAIN conversations = {} /\ DOMAIN messages = {}
  BY DEF StoreInit
<1>2. IsFiniteSet(DOMAIN conversations) /\ IsFiniteSet(DOMAIN messages)
  BY <1>1, FS_EmptySet
<1>3. StoreTypeOK
  BY <1>1, EmptySeq DEF StoreInit, StoreTypeOK
<1>4. HistoryInv
  BY StoreAssumption DEF StoreInit, HistoryInv, HistoryInOrder, HistoryComplete
<1>5. ListInv
  BY DEF StoreInit, ListInv
<1>. QED
  BY <1>2, <1>3, <1>4, <1>5 DEF StoreInv

(* Saving a row leaves finitely many of them.                              *)
LEMMA PutFinite ==
  ASSUME NEW rows, NEW id, NEW row, IsFiniteSet(DOMAIN rows)
  PROVE  IsFiniteSet(DOMAIN Put(rows, id, row))
<1>1. DOMAIN Put(rows, id, row) = DOMAIN rows \union {id}
  BY DEF Put
<1>. QED
  BY <1>1, FS_AddElement

(* Saving a message keeps the invariant: a kept one that moves is no       *)
(* longer kept.                                                            *)
LEMMA SaveMessageStep ==
  ASSUME StoreInv, NEW m \in Message, NEW c \in Conversation, NEW time \in Time,
         SaveMessage(m, c, time)
  PROVE  StoreInv'
<1> DEFINE place == [conversation |-> c, sent |-> time]
<1>0. IsFiniteSet(DOMAIN messages)
  BY DEF StoreInv
<1>1. /\ c \in DOMAIN conversations
      /\ messages' = Put(messages, m, place)
      /\ historyKept' =
           IF m \in historyKept /\ messages[m] # place THEN historyKept \ {m} ELSE historyKept
      /\ UNCHANGED <<reader, conversations, historyCursor, historyRead, listVars>>
  BY DEF SaveMessage
<1>2. /\ DOMAIN messages' = DOMAIN messages \union {m}
      /\ IsFiniteSet(DOMAIN messages')
      /\ messages'[m] = place
      /\ \A k \in DOMAIN messages : k # m => messages'[k] = messages[k]
  <2>1. IsFiniteSet(DOMAIN messages')
    BY <1>0, <1>1, PutFinite
  <2>. QED
    BY <1>1, <2>1 DEF Put
<1>3. \A k \in historyKept' : k \in historyKept /\ messages'[k] = messages[k]
  BY <1>1, <1>2 DEF StoreInv, StoreTypeOK
<1>4. StoreTypeOK'
  <2>1. \A k \in DOMAIN messages' :
          messages'[k].conversation \in DOMAIN conversations /\ messages'[k].sent \in Time
    BY <1>1, <1>2 DEF StoreInv, StoreTypeOK
  <2>2. historyKept' \subseteq DOMAIN messages'
    BY <1>2, <1>3 DEF StoreInv, StoreTypeOK
  <2>. QED
    BY <1>1, <1>2, <2>1, <2>2 DEF StoreInv, StoreTypeOK, listVars
<1>5. HistoryInv'
  BY <1>1, <1>3 DEF StoreInv, HistoryInv, HistoryInOrder, HistoryComplete
<1>6. ListInv'
  BY <1>1 DEF StoreInv, ListInv, listVars
<1>. QED
  BY <1>1, <1>2, <1>4, <1>5, <1>6 DEF StoreInv

(* Saving a conversation keeps the invariant: a new one moves the others   *)
(* only further from the cursor.                                           *)
LEMMA SaveConversationStep ==
  ASSUME StoreInv, NEW c \in Conversation, NEW time \in Time, SaveConversation(c, time)
  PROVE  StoreInv'
<1>0. IsFiniteSet(DOMAIN conversations)
  BY DEF StoreInv
<1>1. /\ conversations' = Put(conversations, c, time)
      /\ listMoved' = (listMoved \/ (listCursor # 0 /\ c \in DOMAIN conversations
                                    /\ conversations[c] # time))
      /\ UNCHANGED <<reader, messages, historyVars, listCursor, listRead, listKept>>
  BY DEF SaveConversation
<1>2. /\ DOMAIN conversations' = DOMAIN conversations \union {c}
      /\ IsFiniteSet(DOMAIN conversations')
      /\ conversations'[c] = time
      /\ \A k \in DOMAIN conversations : k # c => conversations'[k] = conversations[k]
  <2>1. IsFiniteSet(DOMAIN conversations')
    BY <1>0, <1>1, PutFinite
  <2>. QED
    BY <1>1, <2>1 DEF Put
<1>3. StoreTypeOK'
  BY <1>1, <1>2 DEF StoreInv, StoreTypeOK, historyVars
<1>4. HistoryInv'
  BY <1>1 DEF StoreInv, HistoryInv, HistoryInOrder, HistoryComplete, historyVars
<1>5. ListInv'
  <2>1. CASE listCursor = 0
    BY <1>1, <2>1 DEF StoreInv, ListInv
  <2>2. CASE listMoved' \/ listCursor = End
    BY <1>1, <2>2, StoreAssumption DEF StoreInv, ListInv, StoreTypeOK
  <2>3. CASE ~listMoved' /\ listCursor # 0 /\ listCursor # End
    <3>1. ~listMoved /\ \A k \in DOMAIN conversations : conversations'[k] = conversations[k]
      BY <1>1, <1>2, <2>3 DEF StoreInv, StoreTypeOK
    <3>2. PlacesOf(conversations) \subseteq PlacesOf(conversations')
      BY <1>2, <3>1 DEF PlacesOf
    <3>3. /\ PlacesOf(conversations') \in SUBSET Places
          /\ IsFiniteSet(PlacesOf(conversations'))
      BY <1>2, <1>3, RowPlaces DEF StoreTypeOK
    <3>4. ASSUME NEW k \in DOMAIN conversations
          PROVE  LET p == <<conversations[k], k>>
                 IN  /\ conversations'[k] = conversations[k]
                     /\ Rank(PlacesOf(conversations), p) \in Nat
                     /\ Rank(PlacesOf(conversations'), p) \in Nat
                     /\ Rank(PlacesOf(conversations), p) <= Rank(PlacesOf(conversations'), p)
      BY <3>1, <3>2, <3>3, RankGrows
    <3>5. listCursor \in Nat
      BY <2>3 DEF StoreInv, StoreTypeOK
    <3>. QED
      BY <1>1, <2>3, <3>1, <3>4, <3>5 DEF StoreInv, StoreTypeOK, ListInv
  <2>. QED
    BY <2>1, <2>2, <2>3
<1>. QED
  BY <1>1, <1>2, <1>3, <1>4, <1>5 DEF StoreInv

(* One sequence after another: what is in either is in both.               *)
LEMMA ConcatMembers ==
  ASSUME NEW S, NEW s \in Seq(S), NEW t \in Seq(S)
  PROVE  /\ s \o t \in Seq(S)
         /\ Len(s \o t) = Len(s) + Len(t)
         /\ \A i \in 1..Len(s) : (s \o t)[i] = s[i]
         /\ \A i \in 1..Len(t) : (s \o t)[Len(s) + i] = t[i]
         /\ ToSet(s \o t) = ToSet(s) \union ToSet(t)
<1>1. /\ Len(s) \in Nat /\ DOMAIN s = 1..Len(s)
      /\ Len(t) \in Nat /\ DOMAIN t = 1..Len(t)
  BY LenProperties
<1>2. /\ s \o t \in Seq(S)
      /\ Len(s \o t) = Len(s) + Len(t)
      /\ \A i \in 1..(Len(s) + Len(t)) :
           (s \o t)[i] = IF i <= Len(s) THEN s[i] ELSE t[i - Len(s)]
  BY ConcatProperties
<1>3. DOMAIN (s \o t) = 1..(Len(s) + Len(t))
  BY <1>2, LenProperties
<1>4. /\ \A i \in 1..Len(s) : (s \o t)[i] = s[i]
      /\ \A i \in 1..Len(t) : (s \o t)[Len(s) + i] = t[i]
  BY <1>1, <1>2
<1>5. ASSUME NEW e \in ToSet(s \o t) PROVE e \in ToSet(s) \union ToSet(t)
  <2>1. PICK i \in 1..(Len(s) + Len(t)) : (s \o t)[i] = e
    BY <1>3 DEF ToSet
  <2>2. CASE i <= Len(s)
    BY <1>1, <1>2, <2>1, <2>2 DEF ToSet
  <2>3. CASE i > Len(s)
    <3>1. i - Len(s) \in 1..Len(t) /\ t[i - Len(s)] = e
      BY <1>1, <1>2, <2>1, <2>3
    <3>. QED
      BY <1>1, <3>1 DEF ToSet
  <2>. QED
    BY <1>1, <2>1, <2>2, <2>3
<1>6. ASSUME NEW e \in ToSet(s) \union ToSet(t) PROVE e \in ToSet(s \o t)
  <2>1. CASE e \in ToSet(s)
    <3>1. PICK i \in 1..Len(s) : s[i] = e
      BY <1>1, <2>1 DEF ToSet
    <3>. QED
      BY <1>1, <1>3, <1>4, <3>1 DEF ToSet
  <2>2. CASE e \in ToSet(t)
    <3>1. PICK i \in 1..Len(t) : t[i] = e
      BY <1>1, <2>2 DEF ToSet
    <3>2. Len(s) + i \in 1..(Len(s) + Len(t)) /\ (s \o t)[Len(s) + i] = e
      BY <1>1, <1>4, <3>1
    <3>. QED
      BY <1>3, <3>2 DEF ToSet
  <2>. QED
    BY <2>1, <2>2
<1>. QED
  BY <1>2, <1>4, <1>5, <1>6

(* Reading a page of the history keeps the invariant.                      *)
LEMMA GetHistoryStep ==
  ASSUME StoreInv, NEW limit \in Limits, GetHistory(limit)
  PROVE  StoreInv'
<1> DEFINE S == After(historyCursor)
           page == UpTo(limit, InOrder(S))
           n == Len(historyRead)
<1>1. /\ historyCursor # End
      /\ UNCHANGED <<reader, contents, listVars>>
      /\ historyRead' = historyRead \o page
      /\ historyCursor' = NextPage(page, limit)
      /\ historyKept' = IF historyCursor = First THEN {p[2] : p \in History} ELSE historyKept
  BY DEF GetHistory
<1>2. limit \in Nat \ {0}
  BY StoreAssumption
<1>3. /\ History \in SUBSET (Time \X Message)
      /\ History \in SUBSET Places
      /\ IsFiniteSet(History)
  BY HistoryPlaces DEF StoreInv
<1>4. S \in SUBSET History
  BY DEF After
<1>5. S \in SUBSET Places /\ IsFiniteSet(S)
  BY <1>3, <1>4, FS_Subset
<1>6. /\ page \in Seq(S)
      /\ \A i, j \in 1..Len(page) : i < j => Precedes(page[i], page[j])
      /\ \A p \in S : \/ \E i \in 1..Len(page) : page[i] = p
                      \/ Len(page) = limit /\ Precedes(page[limit], p)
  BY <1>2, <1>5, PageIsBeginning
<1> HIDE DEF page, S
<1>7. /\ page \in Seq(Time \X Message)
      /\ Len(page) \in Nat
      /\ \A i \in 1..Len(page) : page[i] \in S /\ page[i] \in Time \X Message
  BY <1>3, <1>4, <1>6, SeqMonotonic, LenProperties, ElementOfSeq
<1>8. historyRead \in Seq(Time \X Message) /\ n \in Nat /\ DOMAIN historyRead = 1..n
  BY LenProperties DEF StoreInv, StoreTypeOK
<1>9. /\ historyRead' \in Seq(Time \X Message)
      /\ Len(historyRead') = n + Len(page) /\ DOMAIN historyRead' = 1..(n + Len(page))
      /\ \A i \in 1..n : historyRead'[i] = historyRead[i]
      /\ \A i \in 1..Len(page) : historyRead'[n + i] = page[i]
      /\ ToSet(historyRead') = ToSet(historyRead) \union ToSet(page)
  BY <1>1, <1>7, <1>8, ConcatMembers, LenProperties
<1> HIDE DEF n
<1>10. ASSUME NEW i \in 1..Len(page), historyCursor # First
       PROVE  Precedes(historyCursor, page[i])
  BY <1>7, <1>10 DEF S, After
<1>11. historyCursor # First => historyCursor \in Time \X Message
  BY <1>1 DEF StoreInv, StoreTypeOK
<1>12. Time \X Message \subseteq Places
  BY StoreAssumption DEF Places
<1>13. HistoryInOrder'
  <2> SUFFICES ASSUME NEW i \in 1..(n + Len(page)), NEW j \in 1..(n + Len(page)), i < j
               PROVE  Precedes(historyRead'[i], historyRead'[j])
    BY <1>9 DEF HistoryInOrder
  <2>1. CASE j <= n
    <3>1. i \in 1..n /\ j \in 1..n
      BY <1>7, <1>8, <2>1
    <3>. QED
      BY <1>8, <1>9, <3>1 DEF StoreInv, HistoryInv, HistoryInOrder
  <2>2. CASE i <= n /\ n < j
    <3>0. i \in 1..n /\ j - n \in 1..Len(page) /\ n + (j - n) = j
      BY <1>7, <1>8, <2>2
    <3>1. /\ i \in 1..n /\ j - n \in 1..Len(page)
          /\ historyRead'[i] = historyRead[i] /\ historyRead'[j] = page[j - n]
      BY <1>9, <3>0
    <3>2. historyCursor # First
      BY <1>8, <3>1 DEF StoreInv, HistoryInv, n
    <3>3. Precedes(historyCursor, page[j - n])
      BY <1>10, <3>1, <3>2
    <3>4. historyRead[i] = historyCursor \/ Precedes(historyRead[i], historyCursor)
      BY <1>8, <1>11, <3>1, <3>2 DEF StoreInv, HistoryInv
    <3>5. historyRead[i] \in Places /\ historyCursor \in Places /\ page[j - n] \in Places
      BY <1>7, <1>8, <1>11, <1>12, <3>1, <3>2, ElementOfSeq DEF n
    <3>. QED
      BY <3>1, <3>3, <3>4, <3>5, PrecedesOrders
  <2>3. CASE n < i
    <3>0. /\ i - n \in 1..Len(page) /\ j - n \in 1..Len(page) /\ i - n < j - n
          /\ n + (i - n) = i /\ n + (j - n) = j
      BY <1>7, <1>8, <2>3
    <3>1. historyRead'[i] = page[i - n] /\ historyRead'[j] = page[j - n]
      BY <1>9, <3>0
    <3>. QED
      BY <1>6, <3>0, <3>1
  <2>. QED
    BY <1>7, <1>8, <2>1, <2>2, <2>3
<1>14. /\ Len(page) = limit => /\ historyCursor' = page[limit]
                               /\ historyCursor' \in Time \X Message
                               /\ historyCursor' # End
       /\ Len(page) # limit => historyCursor' = End
       /\ historyCursor' # First
       /\ End \notin Time \X Message
  BY <1>1, <1>2, <1>7, StoreAssumption DEF NextPage, Last
<1>15. historyCursor' \in Time \X Message =>
         \A i \in DOMAIN historyRead' :
           historyRead'[i] = historyCursor' \/ Precedes(historyRead'[i], historyCursor')
  <2>1. SUFFICES ASSUME historyCursor' \in Time \X Message, NEW i \in 1..(n + Len(page))
                 PROVE  historyRead'[i] = historyCursor' \/ Precedes(historyRead'[i], historyCursor')
    BY <1>9
  <2>2. Len(page) = limit /\ n + limit \in 1..(n + Len(page))
        /\ historyRead'[n + limit] = historyCursor'
    BY <1>2, <1>7, <1>8, <1>9, <1>14, <2>1
  <2>3. i = n + limit \/ i < n + limit
    BY <1>2, <1>8, <2>2
  <2>. QED
    BY <1>9, <1>13, <2>2, <2>3 DEF HistoryInOrder
<1>16. ASSUME NEW m \in historyKept'
       PROVE  /\ messages[m].conversation = Chat
              /\ m \in DOMAIN messages
              /\ <<messages[m].sent, m>> \in History
              /\ \/ <<messages[m].sent, m>> \in ToSet(historyRead')
                 \/ historyCursor' # End /\ Precedes(historyCursor', <<messages[m].sent, m>>)
  <2> DEFINE p == <<messages[m].sent, m>>
  <2>1. m \in DOMAIN messages /\ messages[m].conversation = Chat
    <3>1. CASE historyCursor = First
      BY <1>1, <1>16, <3>1 DEF History
    <3>2. CASE historyCursor # First
      BY <1>1, <1>16, <3>2 DEF StoreInv, StoreTypeOK, HistoryInv
    <3>. QED
      BY <3>1, <3>2
  <2>2. p \in History
    BY <2>1 DEF History
  <2>3. CASE p \in S
    <3>1. CASE \E i \in 1..Len(page) : page[i] = p
      <4>1. p \in ToSet(page)
        BY <1>7, <3>1, LenProperties DEF ToSet
      <4>. QED
        BY <1>9, <2>1, <2>2, <4>1
    <3>2. CASE Len(page) = limit /\ Precedes(page[limit], p)
      BY <1>14, <2>1, <2>2, <3>2
    <3>. QED
      BY <1>6, <2>3, <3>1, <3>2
  <2>4. CASE p \notin S
    <3>1. historyCursor # First /\ ~Precedes(historyCursor, p)
      BY <2>2, <2>4 DEF S, After
    <3>2. p \in ToSet(historyRead)
      BY <1>1, <1>16, <3>1 DEF StoreInv, HistoryInv, HistoryComplete
    <3>. QED
      BY <1>9, <2>1, <2>2, <3>2
  <2>. QED
    BY <2>3, <2>4
<1>17. HistoryInv'
  <2>1. messages' = messages
    BY <1>1 DEF contents
  <2>. QED
    BY <1>13, <1>14, <1>15, <1>16, <2>1 DEF HistoryInv, HistoryComplete
<1>18. StoreTypeOK'
  BY <1>1, <1>9, <1>14, <1>16 DEF StoreInv, StoreTypeOK, contents, listVars
<1>19. ListInv'
  BY <1>1 DEF StoreInv, ListInv, contents, listVars
<1>. QED
  BY <1>1, <1>17, <1>18, <1>19 DEF StoreInv, contents

(* The list has each stored conversation once, at its rank.                *)
LEMMA ListedSorts ==
  ASSUME StoreInv
  PROVE  /\ Listed \in Seq(DOMAIN conversations)
         /\ Len(Listed) = Cardinality(PlacesOf(conversations))
         /\ \A c \in DOMAIN conversations :
              LET k == Rank(PlacesOf(conversations), <<conversations[c], c>>)
              IN  k \in 0..(Len(Listed) - 1) /\ Listed[k + 1] = c
<1> DEFINE S == PlacesOf(conversations)
           order == InOrder(S)
<1>1. S \in SUBSET Places /\ IsFiniteSet(S)
  BY RowPlaces DEF StoreInv, StoreTypeOK
<1>2. /\ order \in Seq(S) /\ Len(order) = Cardinality(S) /\ Cardinality(S) \in Nat
      /\ \A p \in S : order[Rank(S, p) + 1] = p
  BY <1>1, InOrderSorts, FS_CardinalityType
<1>3. /\ Listed = [i \in DOMAIN order |-> order[i][2]]
      /\ \A c \in DOMAIN conversations : <<conversations[c], c>> \in S
      /\ \A p \in S : p[2] \in DOMAIN conversations
  BY DEF Listed, PlacesOf
<1> HIDE DEF order, S
<1>4. DOMAIN order = 1..Cardinality(S) /\ \A i \in 1..Cardinality(S) : order[i] \in S
  BY <1>2, LenProperties, ElementOfSeq
<1>5. Listed \in [1..Cardinality(S) -> DOMAIN conversations]
  BY <1>3, <1>4
<1>6. Listed \in Seq(DOMAIN conversations) /\ Len(Listed) = Cardinality(S)
  BY <1>2, <1>5
<1>7. ASSUME NEW c \in DOMAIN conversations
      PROVE  /\ Rank(S, <<conversations[c], c>>) \in 0..(Len(Listed) - 1)
             /\ Listed[Rank(S, <<conversations[c], c>>) + 1] = c
  <2> DEFINE p == <<conversations[c], c>>
  <2>1. p \in S /\ p[2] = c
    BY <1>3
  <2>2. Rank(S, p) \in 0..(Cardinality(S) - 1)
    BY <1>1, <2>1, RankIncreases
  <2>3. Rank(S, p) + 1 \in DOMAIN order /\ order[Rank(S, p) + 1] = p
    BY <1>2, <1>4, <2>1, <2>2
  <2>4. Listed[Rank(S, p) + 1] = order[Rank(S, p) + 1][2]
    BY <1>3, <2>3, Zenon
  <2>. QED
    BY <1>6, <2>1, <2>2, <2>3, <2>4
<1>. QED
  BY <1>6, <1>7 DEF S

(* Reading a page of the list keeps the invariant.                         *)
LEMMA GetConversationsStep ==
  ASSUME StoreInv, NEW limit \in Limits, GetConversations(limit)
  PROVE  StoreInv'
<1> DEFINE length == Len(Listed)
           end == IF listCursor + limit < length THEN listCursor + limit ELSE length
           page == SubSeq(Listed, listCursor + 1, end)
           rank(c) == Rank(PlacesOf(conversations), <<conversations[c], c>>)
<1>1. /\ listCursor # End /\ listCursor <= length
      /\ UNCHANGED <<reader, contents, historyVars, listMoved>>
      /\ listRead' = listRead \o page
      /\ listCursor' = NextCursor(end, length)
      /\ listKept' = IF listCursor = 0 THEN DOMAIN conversations ELSE listKept
  BY DEF GetConversations
<1>2. limit \in Nat \ {0} /\ listCursor \in Nat
  BY <1>1, StoreAssumption DEF StoreInv, StoreTypeOK
<1>3. /\ Listed \in Seq(DOMAIN conversations) /\ length \in Nat
      /\ \A c \in DOMAIN conversations : rank(c) \in 0..(length - 1) /\ Listed[rank(c) + 1] = c
  BY ListedSorts, LenProperties
<1>4. /\ end \in Nat /\ listCursor <= end /\ end <= length
      /\ listCursor' = IF end < length THEN end ELSE End
      /\ end < length => end > 0
  BY <1>1, <1>2, <1>3 DEF NextCursor
<1> HIDE DEF end, length, rank
<1>5. \A i \in (listCursor + 1)..end : Listed[i] \in DOMAIN conversations
  <2> SUFFICES ASSUME NEW i \in (listCursor + 1)..end PROVE i \in 1..Len(Listed)
    BY <1>3, ElementOfSeq
  <2>. QED
    BY <1>2, <1>3, <1>4 DEF length
<1>6. /\ page \in Seq(DOMAIN conversations)
      /\ \A i \in 1..(end - (listCursor + 1) + 1) : page[i] = Listed[listCursor + 1 + i - 1]
      /\ Len(page) = IF listCursor + 1 <= end THEN end - (listCursor + 1) + 1 ELSE 0
  BY <1>2, <1>4, <1>5, SubSeqProperties
<1> HIDE DEF page
<1>7. page \in Seq(Conversation) /\ listRead \in Seq(Conversation)
  BY <1>6, SeqMonotonic DEF StoreInv, StoreTypeOK
<1>8. listRead' \in Seq(Conversation) /\ ToSet(listRead') = ToSet(listRead) \union ToSet(page)
  BY <1>1, <1>7, ConcatMembers
<1>9. listKept' \subseteq DOMAIN conversations
  BY <1>1 DEF StoreInv, StoreTypeOK
<1>10. StoreTypeOK'
  BY <1>1, <1>4, <1>8, <1>9 DEF StoreInv, StoreTypeOK, contents, historyVars
<1>11. ASSUME NEW c \in DOMAIN conversations, listCursor <= rank(c)
       PROVE  c \in ToSet(listRead') \/ (listCursor' # End /\ listCursor' <= rank(c))
  <2>1. rank(c) \in Nat /\ rank(c) < length /\ Listed[rank(c) + 1] = c
    BY <1>3
  <2>2. CASE rank(c) < end
    <3> DEFINE i == rank(c) + 1 - listCursor
    <3>1. /\ i \in 1..(end - (listCursor + 1) + 1) /\ listCursor + 1 + i - 1 = rank(c) + 1
          /\ i \in 1..Len(page)
      <4>1. listCursor \in Nat /\ end \in Nat /\ rank(c) \in Nat /\ listCursor <= rank(c)
        BY <1>2, <1>4, <1>11, <2>1
      <4>2. Len(page) = IF listCursor + 1 <= end THEN end - (listCursor + 1) + 1 ELSE 0
        BY <1>6
      <4>. QED
        BY <2>2, <4>1, <4>2
    <3>2. page[i] = c
      BY <1>6, <2>1, <3>1, Zenon
    <3>3. c \in ToSet(page)
      BY <1>6, <3>1, <3>2, LenProperties DEF ToSet
    <3>. QED
      BY <1>8, <3>3
  <2>3. CASE end <= rank(c)
    BY <1>2, <1>3, <1>4, <2>1, <2>3, StoreAssumption
  <2>. QED
    BY <1>4, <2>1, <2>2, <2>3
<1>12. ASSUME ~listMoved', NEW c \in listKept'
       PROVE  c \in ToSet(listRead') \/ (listCursor' # End /\ listCursor' <= rank(c))
  <2>1. c \in DOMAIN conversations
    BY <1>9, <1>12
  <2>2. CASE listCursor = 0
    BY <1>3, <1>11, <2>1, <2>2
  <2>3. CASE listCursor # 0
    <3>1. c \in ToSet(listRead) \/ listCursor <= rank(c)
      BY <1>1, <1>12, <2>3 DEF StoreInv, ListInv, rank
    <3>. QED
      BY <1>8, <1>11, <2>1, <3>1
  <2>. QED
    BY <2>2, <2>3
<1>13. listCursor' # 0
  BY <1>4, StoreAssumption
<1>14. ListInv'
  <2>1. conversations' = conversations
    BY <1>1 DEF contents
  <2>. QED
    BY <1>12, <1>13, <2>1 DEF ListInv, rank
<1>15. HistoryInv'
  BY <1>1 DEF StoreInv, HistoryInv, HistoryInOrder, HistoryComplete, contents, historyVars
<1>. QED
  BY <1>1, <1>10, <1>14, <1>15 DEF StoreInv, contents

(* The invariant holds in every reachable state of the store and reader.   *)
LEMMA StoreInvariant == StoreSpec => []StoreInv
<1>1. StoreInv /\ [StoreNext]_storeVars => StoreInv'
  <2> SUFFICES ASSUME StoreInv, [StoreNext]_storeVars PROVE StoreInv'
    OBVIOUS
  <2>1. CASE Reads
    BY <2>1, GetHistoryStep, GetConversationsStep DEF Reads
  <2>2. ASSUME NEW c \in Conversation, NEW time \in Time, SaveConversation(c, time)
        PROVE  StoreInv'
    BY <2>2, SaveConversationStep
  <2>3. ASSUME NEW m \in Message, NEW c \in Conversation, NEW time \in Time,
               SaveMessage(m, c, time)
        PROVE  StoreInv'
    BY <2>3, SaveMessageStep
  <2>4. CASE UNCHANGED storeVars
    BY <2>4 DEF storeVars, contents, historyVars, listVars, StoreInv, StoreTypeOK, HistoryInv,
                HistoryInOrder, HistoryComplete, ListInv
  <2>. QED
    BY <2>1, <2>2, <2>3, <2>4 DEF StoreNext
<1>. QED
  BY <1>1, StoreInitial, PTL DEF StoreSpec

(* Rows, cursors and what was read keep their types: in particular every   *)
(* message belongs to a stored conversation, as the foreign key asks       *)
(* (storage lib.rs).                                                       *)
THEOREM StoreTypeCorrect == StoreSpec => []StoreTypeOK
  BY StoreInvariant, PTL DEF StoreInv

(* Pages of history come oldest first and repeat nothing, for any page     *)
(* sizes and whatever is saved between two pages (list_messages).          *)
THEOREM HistoryAlwaysInOrder == StoreSpec => []HistoryInOrder
  BY StoreInvariant, PTL DEF StoreInv, HistoryInv

(* No message that was there and stayed is skipped at the seam of two      *)
(* pages (list_messages, get_history).                                     *)
THEOREM HistoryAlwaysComplete == StoreSpec => []HistoryComplete
  BY StoreInvariant, PTL DEF StoreInv, HistoryInv

(* A reader of the list misses a conversation only if one changed place    *)
(* meanwhile (get_conversations).                                          *)
THEOREM ListSkipsOnlyAfterMove == StoreSpec => []SkippedOnlyAfterMove
<1>1. StoreInv => SkippedOnlyAfterMove
  BY DEF StoreInv, ListInv, SkippedOnlyAfterMove
<1>. QED
  BY <1>1, StoreInvariant, PTL

==============================================================================
