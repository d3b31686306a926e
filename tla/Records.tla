-------------------------------- MODULE Records --------------------------------
(***************************************************************************)
(* The repositories of crates/storage/src/lib.rs over the tables of        *)
(* migrations/0001_initial.sql: how an account, a conversation or a        *)
(* message is taken apart into rows by one transaction, which constraints  *)
(* refuse it, and how it is put together again.                            *)
(*                                                                         *)
(* What is abstracted:                                                     *)
(*   - lists that SQL sorts by id or by participant are sets; parts keep   *)
(*     their order;                                                        *)
(*   - the service extensions of one owner are one value, None when the    *)
(*     list is empty;                                                      *)
(*   - rows of persons are made and never read: they are left out, and so  *)
(*     are columns that no constraint and no condition looks at;           *)
(*   - one message brings each attachment once.                            *)
(***************************************************************************)
EXTENDS Integers, FiniteSets, Sequences

CONSTANTS
  AccountIds, ConversationIds, MessageIds, AttachmentIds,
  Keys,                \* deduplication keys
  MaxInteger,          \* the largest integer of SQLite
  Corrupt,             \* StorageError::Corrupt
  None

VARIABLE db            \* the tables: sets of rows

NoRows ==
  [accounts |-> {}, identities |-> {}, devices |-> {},
   conversations |-> {}, participants |-> {}, groups |-> {}, attachments |-> {},
   messages |-> {}, parts |-> {}, mutations |-> {}, reactions |-> {}, receipts |-> {},
   unread |-> {}, extensions |-> {}, sync |-> {}, claims |-> {}]

Ids(rows) == {r.id : r \in rows}
Row(rows, id) == CHOOSE r \in rows : r.id = id

-----------------------------------------------------------------------------
(* What crates/core refuses before a transaction begins.                   *)

EnsureUnique(values) == \A v, w \in values : v.id = w.id => v = w

AccountIsValid(a) ==
  /\ EnsureUnique(a.identities) /\ EnsureUnique(a.devices)
  /\ \A d \in a.devices : d.account = a.id

ConversationIsValid(c) ==
  /\ EnsureUnique(c.participants)
  /\ c.group # None => c.group.owner \in Ids(c.participants) \union {None}

TextIsValid(p) == p.range # None => p.range[1] <= p.range[2] /\ p.range[2] <= p.length

PartIsValid(p) == p.kind \in {"text", "attachment"} => TextIsValid(p)

MessageIsValid(m) ==
  /\ EnsureUnique(m.mutations) /\ EnsureUnique(m.reactions)
  /\ \A r, s \in m.receipts : r.table = s.table /\ r.by = s.by => r = s
  /\ \A i \in DOMAIN m.parts : PartIsValid(m.parts[i])
  /\ \A u \in m.mutations :
       u.message = m.id /\ \A i \in DOMAIN u.parts : PartIsValid(u.parts[i])
  /\ \A r \in m.reactions : r.message = m.id

-----------------------------------------------------------------------------
(* What the schema refuses: keys that are taken and references to nothing. *)

UniqueRows(t) ==
  /\ \A rows \in {t.identities, t.devices, t.participants, t.mutations, t.reactions} :
       EnsureUnique(rows)
  /\ \A r, s \in t.receipts :
       r.message = s.message /\ r.table = s.table /\ r.by = s.by => r = s
  \* Only an "other" address has no NULL in its key.
  /\ \A i, j \in t.identities :
       i.account = j.account /\ i.address = j.address /\ i.address.kind = "other" => i = j

ReferencesHold(t) ==
  /\ \A d \in t.devices : d.link \in Ids(t.identities) \union {None}
  /\ \A g \in t.groups : g.owner \in Ids(t.participants) \union {None}
  /\ \A m \in t.messages : /\ m.conversation \in Ids(t.conversations)
                           /\ m.reply \in Ids(t.messages) \union {None}
  /\ \A u \in t.unread : u.conversation \in Ids(t.conversations)

Fits(n) == n <= MaxInteger

(* A value that is invalid or refused leaves every table as it was.        *)
Transaction(isValid, new) ==
  db' = IF isValid /\ UniqueRows(new) /\ ReferencesHold(new) THEN new ELSE db

-----------------------------------------------------------------------------
(* save_extensions: the rows of an owner are replaced; those of an owner   *)
(* that is gone stay.                                                      *)
Bug_OnlyOwnersWithExtensions(rows, kind, owners) ==
  LET some == {o \in owners : o.extension # None}
  IN  {r \in rows : r.kind # kind \/ r.owner \notin Ids(some)} \union
      {[kind |-> kind, owner |-> o.id, value |-> o.extension] : o \in some}

SaveExtensions(rows, kind, owners) ==
  {r \in rows : r.kind # kind \/ r.owner \notin Ids(owners)} \union
  {[kind |-> kind, owner |-> o.id, value |-> o.extension] :
     o \in {p \in owners : p.extension # None}}

LoadExtension(t, kind, id) ==
  LET own == {r \in t.extensions : r.kind = kind /\ r.owner = id}
  IN  IF own = {} THEN None ELSE (CHOOSE r \in own : TRUE).value

(* save_attachment                                                         *)
SaveAttachments(t, brought) ==
  [t EXCEPT
     !.attachments = {r \in @ : r.id \notin Ids(brought)} \union
        {[id |-> x.id, size |-> x.size, content |-> x.content] : x \in brought},
     !.extensions = SaveExtensions(@, "attachment", brought)]

LoadAttachment(t, id) ==
  IF id \notin Ids(t.attachments) THEN None
  ELSE LET r == Row(t.attachments, id)
       IN  [id |-> id, size |-> r.size, content |-> r.content,
            extension |-> LoadExtension(t, "attachment", id)]

SizesFit(brought) == \A x \in brought : Fits(x.size)

-----------------------------------------------------------------------------
(* Deleting the identities of an account takes the link of every device    *)
(* that pointed to one (ON DELETE SET NULL), those of other accounts too.  *)
DevicesOfOthers(t, a) ==
  LET gone == Ids({i \in t.identities : i.account = a.id})
  IN  {[d EXCEPT !.link = IF @ \in gone THEN None ELSE @] :
         d \in {e \in t.devices : e.account # a.id}}

(* save_account                                                            *)
AccountRows(t, a) ==
  [t EXCEPT
     !.accounts = {r \in @ : r.id # a.id} \union {[id |-> a.id, name |-> a.name]},
     !.identities = {i \in @ : i.account # a.id} \union
        {[id |-> i.id, account |-> a.id, address |-> i.address] : i \in a.identities},
     !.devices = DevicesOfOthers(t, a) \union
        {[id |-> d.id, account |-> a.id, link |-> d.link] : d \in a.devices},
     !.extensions = SaveExtensions(SaveExtensions(SaveExtensions(@,
        "account", {a}), "identity", a.identities), "device", a.devices)]

SaveAccount(a) == Transaction(AccountIsValid(a), AccountRows(db, a))

GetAccount(t, id) ==
  IF id \notin Ids(t.accounts) THEN None
  ELSE [id |-> id, name |-> Row(t.accounts, id).name,
        identities |->
          {[id |-> i.id, address |-> i.address, extension |-> LoadExtension(t, "identity", i.id)] :
             i \in {j \in t.identities : j.account = id}},
        devices |->
          {[id |-> d.id, account |-> id, link |-> d.link,
            extension |-> LoadExtension(t, "device", d.id)] :
             d \in {e \in t.devices : e.account = id}},
        extension |-> LoadExtension(t, "account", id)]

ListAccounts(t) == {GetAccount(t, id) : id \in Ids(t.accounts)}

-----------------------------------------------------------------------------
(* save_conversation: a direct conversation has no row of group metadata.  *)
Avatars(c) == IF c.group = None THEN {} ELSE {c.group.avatar} \ {None}

Bug_MetadataStays(t, c) ==
  IF c.group = None THEN t.groups
  ELSE {g \in t.groups : g.id # c.id} \union
       {[id |-> c.id, owner |-> c.group.owner,
         avatar |-> IF Avatars(c) = {} THEN None ELSE c.group.avatar.id]}

GroupRows(t, c) ==
  {g \in t.groups : g.id # c.id} \union
  IF c.group = None THEN {}
  ELSE {[id |-> c.id, owner |-> c.group.owner,
         avatar |-> IF Avatars(c) = {} THEN None ELSE c.group.avatar.id]}

ConversationRows(t, c) ==
  LET new == [t EXCEPT
        !.conversations = {r \in @ : r.id # c.id} \union
           {[id |-> c.id, kind |-> IF c.group = None THEN "direct" ELSE "group"]},
        !.participants = {p \in @ : p.conversation # c.id} \union
           {[id |-> p.id, conversation |-> c.id, identity |-> p.identity] : p \in c.participants},
        !.groups = GroupRows(t, c),
        !.extensions = SaveExtensions(SaveExtensions(@,
           "conversation", {c}), "participant", c.participants)]
  IN  SaveAttachments(new, Avatars(c))

SaveConversation(c) ==
  Transaction(ConversationIsValid(c) /\ SizesFit(Avatars(c)), ConversationRows(db, c))

GetGroup(t, id) ==
  LET g == Row(t.groups, id)
  IN  [owner |-> g.owner,
       avatar |-> IF g.avatar = None THEN None ELSE LoadAttachment(t, g.avatar)]

GetConversation(t, id) ==
  IF id \notin Ids(t.conversations) THEN None
  ELSE LET isGroup == Row(t.conversations, id).kind = "group"
       IN  IF isGroup /\ id \notin Ids(t.groups) THEN Corrupt
           ELSE [id |-> id,
                 group |-> IF isGroup THEN GetGroup(t, id) ELSE None,
                 participants |->
                   {[id |-> p.id, identity |-> p.identity,
                     extension |-> LoadExtension(t, "participant", p.id)] :
                      p \in {q \in t.participants : q.conversation = id}},
                 extension |-> LoadExtension(t, "conversation", id)]

ListConversations(t) == {GetConversation(t, id) : id \in Ids(t.conversations)}

-----------------------------------------------------------------------------
(* save_message: the parts, those of an edit too, bring their attachments. *)
PartAttachments(parts) == {parts[i].attachment : i \in DOMAIN parts} \ {None}

Brought(m) ==
  PartAttachments(m.parts) \union UNION {PartAttachments(u.parts) : u \in m.mutations}

Bug_UpdateForgetsTime(rows, m) ==
  {r \in rows : r.id # m.id} \union
  {[id |-> m.id, conversation |-> m.conversation, reply |-> m.reply,
    readState |-> IF m.read = None THEN "unread" ELSE "read",
    readAt |-> IF m.id \in Ids(rows) THEN Row(rows, m.id).readAt ELSE m.read]}

Upserted(rows, m) ==
  {r \in rows : r.id # m.id} \union
  {[id |-> m.id, conversation |-> m.conversation, reply |-> m.reply,
    readState |-> IF m.read = None THEN "unread" ELSE "read", readAt |-> m.read]}

Children(rows, m, new) == {r \in rows : r.message # m.id} \union new

MessageRows(t, m) ==
  SaveAttachments([t EXCEPT
        !.messages = Upserted(@, m),
        !.parts = Children(@, m,
           {[message |-> m.id, index |-> i, part |-> m.parts[i]] : i \in DOMAIN m.parts}),
        !.mutations = Children(@, m, m.mutations),
        !.reactions = Children(@, m, m.reactions),
        !.receipts = Children(@, m,
           {[message |-> m.id, table |-> r.table, by |-> r.by, at |-> r.at] : r \in m.receipts}),
        !.extensions = SaveExtensions(@, "message", {m})], Brought(m))

SaveMessage(m) ==
  Transaction(MessageIsValid(m) /\ SizesFit(Brought(m)), MessageRows(db, m))

GetParts(t, id) ==
  LET own == {r \in t.parts : r.message = id}
  IN  [i \in 1..Cardinality(own) |->
         (CHOOSE r \in own : Cardinality({s \in own : s.index < r.index}) = i - 1).part]

(* load_delivery_receipts, load_read_receipts                              *)
GetReceipts(t, id) ==
  {[table |-> r.table, by |-> r.by, at |-> r.at] : r \in {s \in t.receipts : s.message = id}}

GetMessage(t, id) ==
  IF id \notin Ids(t.messages) THEN None
  ELSE LET r == Row(t.messages, id)
       IN  IF r.readState = "read" /\ r.readAt = None THEN Corrupt
           ELSE [id |-> id, conversation |-> r.conversation, reply |-> r.reply,
                 read |-> IF r.readState = "unread" THEN None ELSE r.readAt,
                 parts |-> GetParts(t, id),
                 mutations |-> {u \in t.mutations : u.message = id},
                 reactions |-> {x \in t.reactions : x.message = id},
                 receipts |-> GetReceipts(t, id),
                 extension |-> LoadExtension(t, "message", id)]

-----------------------------------------------------------------------------
SetUnreadState(c, count) ==
  Transaction(Fits(count),
    [db EXCEPT !.unread = {u \in @ : u.conversation # c} \union
       {[conversation |-> c, count |-> count]}])

UnreadState(t, c) ==
  LET own == {u \in t.unread : u.conversation = c}
  IN  IF own = {} THEN None ELSE (CHOOSE u \in own : TRUE).count

(* save_sync_metadata and save_service_sync_state: without an account the  *)
(* key is the empty text, which is no account's id.                        *)
SaveSync(table, account, value) ==
  Transaction(TRUE,
    [db EXCEPT !.sync = {s \in @ : s.table # table \/ s.account # account} \union
       {[table |-> table, account |-> account, value |-> value]}])

SyncState(t, table, account) ==
  LET own == {s \in t.sync : s.table = table /\ s.account = account}
  IN  IF own = {} THEN None ELSE (CHOOSE s \in own : TRUE).value

ClaimDeduplicationKey(k, object) ==
  Transaction(TRUE,
    IF \E r \in db.claims : r.key = k THEN db
    ELSE [db EXCEPT !.claims = @ \union {[key |-> k, object |-> object]}])

Claimed(t, k) ==
  LET own == {r \in t.claims : r.key = k}
  IN  IF own = {} THEN None ELSE (CHOOSE r \in own : TRUE).object
=============================================================================
