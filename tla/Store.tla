--------------------------------- MODULE Store ---------------------------------
(***************************************************************************)
(* Reading the store page by page while it changes: save_conversation,     *)
(* save_message, list_conversations and list_messages of                   *)
(* crates/storage/src/lib.rs behind get_conversations and get_history of   *)
(* crates/daemon/src/lib.rs.  Each is one step: a save is one transaction  *)
(* and a listing holds the store's lock.                                   *)
(*                                                                         *)
(* A client reads everything there is, of the history of the conversation  *)
(* Chat or of the conversations, asking for the next page with the cursor  *)
(* it got with the last; readers do not disturb each other, so there is    *)
(* one.  A save that breaks a foreign key (a message of an unknown         *)
(* conversation, a reply to an unknown message) is rolled back and is a    *)
(* stuttering step.                                                        *)
(***************************************************************************)
EXTENDS Naturals, FiniteSets, Sequences, SequencesExt

CONSTANTS
  Conversation, Chat,  \* conversation ids, and the one that is read
  Message,             \* message ids, ordered as SQLite orders the text
  Time,
  Limits,              \* page sizes clients ask for
  First, End           \* no cursor: before the first page, after the last

ASSUME StoreAssumption ==
  /\ Chat \in Conversation
  /\ Conversation \subseteq Nat /\ Message \subseteq Nat /\ Time \subseteq Nat
  /\ Limits \subseteq Nat \ {0}
  /\ First # End /\ End \notin Nat /\ {First, End} \intersect (Time \X Message) = {}

VARIABLES
  conversations,    \* COALESCE(updated_at, created_at, 0) of the stored ones
  messages,         \* conversation and sent_at of the stored ones
  reader,           \* whether the client reads the history or the list
  historyCursor,    \* what the client asks for next
  historyRead,      \* places <<sent_at, id>> it was given
  historyKept,      \* stored when it began and not moved since
  listCursor, listRead, listKept,
  listMoved         \* some conversation changed place since it began

contents == <<conversations, messages>>
historyVars == <<historyCursor, historyRead, historyKept>>
listVars == <<listCursor, listRead, listKept, listMoved>>
storeVars == <<reader, contents, historyVars, listVars>>

StoreTypeOK ==
  /\ DOMAIN conversations \subseteq Conversation
  /\ \A c \in DOMAIN conversations : conversations[c] \in Time
  /\ DOMAIN messages \subseteq Message
  /\ \A m \in DOMAIN messages :
       /\ messages[m].conversation \in DOMAIN conversations
       /\ messages[m].sent \in Time
  /\ historyCursor \in (Time \X Message) \union {First, End}
  /\ historyRead \in Seq(Time \X Message)
  /\ historyKept \subseteq DOMAIN messages
  /\ listCursor \in Nat \union {End}
  /\ listRead \in Seq(Conversation)
  /\ listKept \subseteq DOMAIN conversations /\ listMoved \in BOOLEAN
  /\ reader \in {"history", "list"}

StoreInit ==
  /\ conversations = << >> /\ messages = << >>
  /\ historyCursor = First /\ historyRead = <<>> /\ historyKept = {}
  /\ listCursor = 0 /\ listRead = <<>> /\ listKept = {} /\ listMoved = FALSE
  /\ reader \in {"history", "list"}

-----------------------------------------------------------------------------
Precedes(p, q) == p[1] < q[1] \/ (p[1] = q[1] /\ p[2] < q[2])

(* ORDER BY: a place comes right after all the places that precede it.     *)
Rank(places, p) == Cardinality({q \in places : Precedes(q, p)})
InOrder(places) ==
  [i \in 1..Cardinality(places) |-> CHOOSE p \in places : Rank(places, p) = i - 1]

UpTo(limit, places) == SubSeq(places, 1, IF limit < Len(places) THEN limit ELSE Len(places))

History ==
  {<<messages[m].sent, m>> : m \in {n \in DOMAIN messages : messages[n].conversation = Chat}}

(* list_messages with a cursor takes what comes after it.                  *)
Bug_AfterOrAt(cursor) ==
  IF cursor = First THEN History
  ELSE {p \in History : p = cursor \/ Precedes(cursor, p)}

Bug_AfterByTime(cursor) ==
  IF cursor = First THEN History
  ELSE {p \in History : cursor[1] < p[1]}

After(cursor) ==
  IF cursor = First THEN History
  ELSE {p \in History : Precedes(cursor, p)}

Bug_NextWhileAny(page, limit) == IF page = <<>> THEN historyCursor ELSE Last(page)

(* There is a next page if this one is full.                               *)
NextPage(page, limit) == IF Len(page) = limit THEN Last(page) ELSE End

(* get_history                                                             *)
GetHistory(limit) ==
  LET page == UpTo(limit, InOrder(After(historyCursor)))
  IN  /\ reader = "history" /\ historyCursor # End
      /\ Chat \in DOMAIN conversations
      /\ UNCHANGED <<reader, contents, listVars>>
      /\ historyRead' = historyRead \o page
      /\ historyCursor' = NextPage(page, limit)
      /\ historyKept' = IF historyCursor = First THEN {p[2] : p \in History} ELSE historyKept

(* list_conversations                                                      *)
Listed ==
  LET order == InOrder({<<conversations[c], c>> : c \in DOMAIN conversations})
  IN  [i \in DOMAIN order |-> order[i][2]]

Bug_CursorSkipsOne(end, length) == IF end + 1 < length THEN end + 1 ELSE End

NextCursor(end, length) == IF end < length THEN end ELSE End

(* get_conversations: the cursor is an index into the list as it is now;   *)
(* an index past the list's end is refused.                                *)
GetConversations(limit) ==
  LET length == Len(Listed)
      end == IF listCursor + limit < length THEN listCursor + limit ELSE length
  IN  /\ reader = "list" /\ listCursor # End /\ listCursor <= length
      /\ UNCHANGED <<reader, contents, historyVars, listMoved>>
      /\ listRead' = listRead \o SubSeq(Listed, listCursor + 1, end)
      /\ listCursor' = NextCursor(end, length)
      /\ listKept' = IF listCursor = 0 THEN DOMAIN conversations ELSE listKept

-----------------------------------------------------------------------------
(* A row is inserted, or takes the place of the one with its id.           *)
Put(rows, id, row) ==
  [key \in DOMAIN rows \union {id} |-> IF key = id THEN row ELSE rows[key]]

SaveConversation(c, time) ==
  /\ conversations' = Put(conversations, c, time)
  /\ listMoved' = (listMoved \/ (listCursor # 0 /\ c \in DOMAIN conversations /\ conversations[c] # time))
  /\ UNCHANGED <<reader, messages, historyVars, listCursor, listRead, listKept>>

Bug_SaveOrphan(m, c, time) ==
  /\ messages' = Put(messages, m, [conversation |-> c, sent |-> time])
  /\ UNCHANGED <<reader, conversations, historyVars, listVars>>

SaveMessage(m, c, time) ==
  LET place == [conversation |-> c, sent |-> time]
  IN  /\ c \in DOMAIN conversations
      /\ messages' = Put(messages, m, place)
      /\ historyKept' = IF m \in historyKept /\ messages[m] # place THEN historyKept \ {m} ELSE historyKept
      /\ UNCHANGED <<reader, conversations, historyCursor, historyRead, listVars>>

Reads == \E limit \in Limits : GetHistory(limit) \/ GetConversations(limit)

StoreNext ==
  \/ Reads
  \/ \E c \in Conversation, time \in Time : SaveConversation(c, time)
  \/ \E m \in Message, c \in Conversation, time \in Time : SaveMessage(m, c, time)

(* A client that has not come to the end asks again.                       *)
StoreSpec ==
  /\ StoreInit /\ [][StoreNext]_storeVars
  /\ WF_storeVars(Reads)

-----------------------------------------------------------------------------
(* A client reads history oldest first and nothing twice, whatever is      *)
(* saved between its pages: a message comes again only if it moved to a    *)
(* later time.                                                             *)
HistoryInOrder ==
  \A i, j \in DOMAIN historyRead : i < j => Precedes(historyRead[i], historyRead[j])

(* No message is skipped at the seam of two pages: one that was there from *)
(* the start and never moved has been read when the cursor is past it, and *)
(* at the end all of them have.                                            *)
HistoryComplete ==
  \A m \in historyKept :
    \/ <<messages[m].sent, m>> \in ToSet(historyRead)
    \/ historyCursor # End /\ Precedes(historyCursor, <<messages[m].sent, m>>)

(* Conversations are read by index, so one can be skipped, but only when   *)
(* another has changed place meanwhile; new ones are no reason.            *)
SkippedOnlyAfterMove ==
  listCursor = End /\ ~listMoved => listKept \subseteq ToSet(listRead)

(* Reading comes to its end while messages are saved and moved between its *)
(* pages: the cursor never stands still or goes back, whatever the limits  *)
(* and however full the last page was.                                     *)
ReadingEnds ==
  /\ (reader = "history" /\ Chat \in DOMAIN conversations) ~> (historyCursor = End)
  /\ (reader = "list") ~> (listCursor = End)
=============================================================================
