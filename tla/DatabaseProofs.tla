----------------------------- MODULE DatabaseProofs -----------------------------
(***************************************************************************)
(* That the file is migrated once and in order, for any number of          *)
(* processes and of builds.  The version is read before the transactions,  *)
(* so what a process is about to run can be out of date; the invariant     *)
(* says in which direction: it is never past the first migration that is   *)
(* missing.                                                                *)
(*                                                                         *)
(* That the rows of one value stay complete; that whatever is loaded from  *)
(* them would be accepted and loaded again; and that the tables implement  *)
(* the archive, in which a save replaces one value.                        *)
(***************************************************************************)
EXTENDS Database, FiniteSetTheorems, TLAPS

MigrationInv ==
  /\ MigratedOnce
  /\ schema \in Seq(Nat)
  /\ build \in [Opener -> Nat]
  /\ opening \in [Opener -> Steps]
  /\ next \in [Opener -> Nat]
  /\ \A o \in Opener : opening[o] = "migrating" => next[o] \in 1..(Len(schema) + 1)

(* The version that is read is that of the last migration.                 *)
LEMMA CurrentIsLength ==
  ASSUME NEW n \in Nat, recorded = 1..n
  PROVE  Current = n
<1>1. \A w \in recorded \union {0} : w <= n
  OBVIOUS
<1>2. n \in recorded \union {0}
  OBVIOUS
<1>3. \A v \in recorded \union {0} : (\A w \in recorded \union {0} : w <= v) => v = n
  BY <1>1, <1>2
<1> QED
  BY <1>1, <1>2, <1>3 DEF Current

(* The migration invariant holds of a file that is not there yet.          *)
LEMMA MigrationStarts == MigrationInit => MigrationInv
<1> SUFFICES ASSUME MigrationInit PROVE MigrationInv
  OBVIOUS
<1> USE DEF MigrationInit, Steps
<1>1. schema \in Seq(Nat) /\ Len(schema) = 0 /\ recorded = 1..Len(schema)
  OBVIOUS
<1>2. /\ build \in [Opener -> Nat] /\ next \in [Opener -> Nat]
      /\ opening \in [Opener -> Steps] /\ \A o \in Opener : opening[o] = "closed"
  BY MigrationAssumption
<1> QED
  BY <1>1, <1>2 DEF MigrationInv, MigratedOnce

(* A process that opens the file keeps it.                                 *)
LEMMA StepKeepsMigrationInv ==
  ASSUME MigrationInv, NEW o \in Opener, MigrationStep(o)
  PROVE  MigrationInv'
<1> USE DEF MigrationInv, MigratedOnce, Steps, MoveTo
<1>1. CASE Open(o)
  BY <1>1, MigrationAssumption DEF Open
<1>2. CASE ReadVersion(o)
  <2>1. Len(schema) \in Nat /\ Current = Len(schema)
    BY CurrentIsLength
  <2>2. CASE Current > build[o]
    BY <1>2, <2>2 DEF ReadVersion
  <2>3. CASE ~(Current > build[o])
    <3>1. /\ opening' = [opening EXCEPT ![o] = "migrating"]
          /\ next' = [next EXCEPT ![o] = Len(schema) + 1]
          /\ UNCHANGED <<schema, recorded, build>>
      BY <1>2, <2>1, <2>3 DEF ReadVersion
    <3> QED
      BY <2>1, <3>1
  <2> QED
    BY <2>2, <2>3
<1>3. CASE Migrate(o)
  <2> DEFINE n == Len(schema)
  <2>1. /\ n \in Nat /\ DOMAIN schema = 1..n /\ next[o] \in 1..(n + 1)
        /\ \A i \in 1..n : schema[i] = i
    BY <1>3 DEF Migrate
  <2>2. next[o] = n + 1
    <3>1. \A i \in 1..n : next[o] # i
      BY <1>3, <2>1 DEF Migrate
    <3> HIDE DEF n
    <3> QED
      BY <3>1, <2>1
  <2>3. schema' = Append(schema, n + 1)
    BY <1>3, <2>2 DEF Migrate
  <2>4. /\ schema' \in Seq(Nat) /\ Len(schema') = n + 1
        /\ \A i \in 1..n : schema'[i] = schema[i]
        /\ schema'[n + 1] = n + 1
    BY <2>1, <2>3
  <2>5. recorded' = 1..(n + 1)
    BY <1>3, <2>2 DEF Migrate
  <2>6. \A i \in DOMAIN schema' : schema'[i] = i
    BY <2>1, <2>4
  <2> QED
    BY <1>3, <2>1, <2>4, <2>5, <2>6 DEF Migrate
<1>4. CASE MigrationFails(o)
  BY <1>4 DEF MigrationFails
<1>5. CASE IsOpen(o)
  BY <1>5 DEF IsOpen
<1> QED
  BY <1>1, <1>2, <1>3, <1>4, <1>5 DEF MigrationStep

(* A process that closes the file keeps it.                                *)
LEMMA CloseKeepsMigrationInv ==
  ASSUME MigrationInv, NEW o \in Opener, Close(o)
  PROVE  MigrationInv'
  BY DEF MigrationInv, MigratedOnce, Steps, MoveTo, Close

(* Steps that leave the migrations alone keep it.                          *)
LEMMA UnchangedKeepsMigrationInv ==
  ASSUME MigrationInv, UNCHANGED migrationVars
  PROVE  MigrationInv'
  BY DEF MigrationInv, MigratedOnce, migrationVars

(* Every step keeps the migration invariant.                               *)
LEMMA MigrationKept == MigrationInv /\ [DatabaseNext]_databaseVars => MigrationInv'
<1> SUFFICES ASSUME MigrationInv, [DatabaseNext]_databaseVars PROVE MigrationInv'
  OBVIOUS
<1>1. ASSUME NEW d \in Opener, MigrationStep(d) PROVE MigrationInv'
  BY <1>1, StepKeepsMigrationInv
<1>2. ASSUME NEW d \in Opener, Close(d) PROVE MigrationInv'
  BY <1>2, CloseKeepsMigrationInv
<1>3. ASSUME UNCHANGED migrationVars PROVE MigrationInv'
  BY <1>3, UnchangedKeepsMigrationInv
<1>4. \/ UNCHANGED migrationVars
      \/ \E d \in Opener : MigrationStep(d) \/ Close(d)
  BY DEF DatabaseNext, databaseVars, RequestName, Stop, Saving
<1> QED
  BY <1>1, <1>2, <1>3, <1>4

(* The migration invariant is one of the database.                         *)
LEMMA MigrationAlways == DatabaseSpec => []MigrationInv
  BY MigrationStarts, MigrationKept, PTL DEF DatabaseSpec, DatabaseInit

(* Two daemons that open one file, of the same build or of two, never run  *)
(* a migration twice nor leave one out, wherever they are killed, and a    *)
(* daemon that serves has the tables of its build.                         *)
THEOREM FileIsMigratedOnce == DatabaseSpec => []MigratedOnce
<1>1. MigrationInv => MigratedOnce
  BY DEF MigrationInv
<1> QED
  BY <1>1, MigrationAlways, PTL

-----------------------------------------------------------------------------
(* The tables.                                                             *)

Tables == DOMAIN NoRows

(* A conversation is there once, and what has rows of its own never        *)
(* outlives what it belongs to.                                            *)
RowsHold(t) ==
  /\ DOMAIN t = Tables
  /\ UniqueRows(t) /\ ReferencesHold(t)
  /\ EnsureUnique(t.conversations)
  /\ \A d \in t.devices : {"account", "link"} \subseteq DOMAIN d
  /\ \A i \in t.identities : i.account \in Ids(t.accounts)
  /\ \A d \in t.devices : d.account \in Ids(t.accounts)
  /\ \A p \in t.participants : p.conversation \in Ids(t.conversations)
  /\ \A g \in t.groups :
       /\ \E c \in t.conversations : c.id = g.id /\ c.kind = "group"
       /\ g.avatar \in Ids(t.attachments) \union {None}
  /\ \A rows \in {t.parts, t.mutations, t.reactions, t.receipts} :
       \A r \in rows : r.message \in Ids(t.messages)

(* The rows of a new file are right.                                       *)
LEMMA RowsStart == RowsHold(NoRows)
  BY DEF RowsHold, Tables, NoRows, UniqueRows, ReferencesHold, EnsureUnique, Ids

(* What a save replaces keeps every other id.                              *)
LEMMA IdsGrow ==
  ASSUME NEW rows, NEW id, NEW row, row.id = id
  PROVE  Ids({r \in rows : r.id # id} \union {row}) = Ids(rows) \union {id}
  BY DEF Ids

(* Saving and deleting accounts keeps the rows right.                      *)
LEMMA AccountRowsHold ==
  ASSUME NEW t, RowsHold(t), NEW a,
         UniqueRows(AccountRows(t, a)), ReferencesHold(AccountRows(t, a))
  PROVE  RowsHold(AccountRows(t, a))
<1> DEFINE new == AccountRows(t, a)
           row == [id |-> a.id, name |-> a.name]
<1>1. /\ DOMAIN t = Tables /\ DOMAIN new = Tables
      /\ \A table \in Tables \ {"accounts", "identities", "devices", "extensions"} :
           new[table] = t[table]
      /\ new.accounts = {r \in t.accounts : r.id # a.id} \union {row}
      /\ new.identities = {i \in t.identities : i.account # a.id} \union
           {[id |-> i.id, account |-> a.id, address |-> i.address] : i \in a.identities}
      /\ new.devices = DevicesOfOthers(t, a) \union
           {[id |-> d.id, account |-> a.id, link |-> d.link] : d \in a.devices}
  BY DEF RowsHold, AccountRows, Tables, NoRows
<1>2. Ids(new.accounts) = Ids(t.accounts) \union {a.id}
  <2>1. row.id = a.id
    OBVIOUS
  <2> HIDE DEF row, new
  <2>. QED
    BY <1>1, <2>1, IdsGrow
<1>3. \A i \in new.identities : i.account \in Ids(new.accounts)
  BY <1>1, <1>2 DEF RowsHold
<1>4. ASSUME NEW d \in new.devices
      PROVE  d.account \in Ids(new.accounts) /\ {"account", "link"} \subseteq DOMAIN d
  <2>1. CASE d \in DevicesOfOthers(t, a)
    <3>1. PICK e \in t.devices : \E link : d = [e EXCEPT !.link = link]
      BY <2>1 DEF DevicesOfOthers
    <3>2. {"account", "link"} \subseteq DOMAIN e /\ e.account \in Ids(t.accounts)
      BY DEF RowsHold
    <3>. QED
      BY <1>2, <3>1, <3>2
  <2>2. CASE d \in {[id |-> e.id, account |-> a.id, link |-> e.link] : e \in a.devices}
    BY <1>2, <2>2
  <2>. QED
    BY <1>1, <2>1, <2>2
<1>5. /\ new.conversations = t.conversations /\ new.participants = t.participants
      /\ new.groups = t.groups /\ new.attachments = t.attachments
      /\ new.parts = t.parts /\ new.mutations = t.mutations /\ new.reactions = t.reactions
      /\ new.receipts = t.receipts /\ new.messages = t.messages
  BY <1>1 DEF Tables, NoRows
<1> HIDE DEF new
<1>6. /\ UniqueRows(new) /\ ReferencesHold(new) /\ EnsureUnique(new.conversations)
      /\ \A p \in new.participants : p.conversation \in Ids(new.conversations)
  BY <1>5 DEF RowsHold, new
<1>7. /\ \A g \in new.groups :
           /\ \E c \in new.conversations : c.id = g.id /\ c.kind = "group"
           /\ g.avatar \in Ids(new.attachments) \union {None}
      /\ \A rows \in {new.parts, new.mutations, new.reactions, new.receipts} :
           \A r \in rows : r.message \in Ids(new.messages)
  BY <1>5 DEF RowsHold
<1>8. RowsHold(new)
  BY <1>1, <1>3, <1>4, <1>6, <1>7, Zenon DEF RowsHold
<1>. QED
  BY <1>8 DEF new

(* The attachments that a save brings are there afterwards, with all those *)
(* there were.                                                             *)
LEMMA AttachmentsStay ==
  ASSUME NEW t, DOMAIN t = Tables, NEW brought
  PROVE  /\ DOMAIN SaveAttachments(t, brought) = Tables
         /\ \A table \in Tables \ {"attachments", "extensions"} :
              SaveAttachments(t, brought)[table] = t[table]
         /\ Ids(SaveAttachments(t, brought).attachments) = Ids(t.attachments) \union Ids(brought)
<1> DEFINE new == SaveAttachments(t, brought)
           Kept == {r \in t.attachments : r.id \notin Ids(brought)}
           Made == {[id |-> x.id, size |-> x.size, content |-> x.content] : x \in brought}
<1>1. /\ DOMAIN new = Tables
      /\ \A table \in Tables \ {"attachments", "extensions"} : new[table] = t[table]
      /\ new.attachments = Kept \union Made
  BY DEF SaveAttachments, Tables, NoRows
<1>2. Ids(Made) = Ids(brought)
  <2>1. ASSUME NEW x \in brought PROVE \E r \in Made : r.id = x.id
    <3>1. [id |-> x.id, size |-> x.size, content |-> x.content] \in Made
      OBVIOUS
    <3>. QED
      BY <3>1
  <2>2. ASSUME NEW r \in Made PROVE \E x \in brought : r.id = x.id
    OBVIOUS
  <2> HIDE DEF Made
  <2>. QED
    BY <2>1, <2>2 DEF Ids
<1>3. Ids(Kept \union Made) = Ids(t.attachments) \union Ids(brought)
  BY <1>2 DEF Ids
<1>. QED
  BY <1>1, <1>3

(* Saving and deleting conversations keeps the rows right.                 *)
LEMMA ConversationRowsHold ==
  ASSUME NEW t, RowsHold(t), NEW c,
         UniqueRows(ConversationRows(t, c)), ReferencesHold(ConversationRows(t, c))
  PROVE  RowsHold(ConversationRows(t, c))
<1> DEFINE new == ConversationRows(t, c)
           row == [id |-> c.id, kind |-> IF c.group = None THEN "direct" ELSE "group"]
           made == [id |-> c.id, owner |-> c.group.owner,
                    avatar |-> IF Avatars(c) = {} THEN None ELSE c.group.avatar.id]
           mid == [t EXCEPT
             !.conversations = {r \in @ : r.id # c.id} \union {row},
             !.participants = {p \in @ : p.conversation # c.id} \union
               {[id |-> p.id, conversation |-> c.id, identity |-> p.identity] : p \in c.participants},
             !.groups = GroupRows(t, c),
             !.extensions = SaveExtensions(SaveExtensions(@,
               "conversation", {c}), "participant", c.participants)]
<1>1. new = SaveAttachments(mid, Avatars(c))
  BY DEF ConversationRows
<1>2. /\ DOMAIN mid = Tables
      /\ \A table \in Tables \ {"conversations", "participants", "groups", "extensions"} :
           mid[table] = t[table]
      /\ mid.conversations = {r \in t.conversations : r.id # c.id} \union {row}
      /\ mid.participants = {p \in t.participants : p.conversation # c.id} \union
           {[id |-> p.id, conversation |-> c.id, identity |-> p.identity] : p \in c.participants}
      /\ mid.groups = GroupRows(t, c)
  BY DEF RowsHold, Tables, NoRows
<1> HIDE DEF mid
<1> DEFINE avatars == Avatars(c)
<1> HIDE DEF new, avatars
<1>3. /\ DOMAIN new = Tables
      /\ \A table \in Tables \ {"attachments", "extensions"} : new[table] = mid[table]
      /\ Ids(new.attachments) = Ids(mid.attachments) \union Ids(avatars)
  <2>1. DOMAIN mid = Tables /\ new = SaveAttachments(mid, avatars)
    BY <1>1, <1>2 DEF avatars
  <2>2. /\ DOMAIN SaveAttachments(mid, avatars) = Tables
        /\ \A table \in Tables \ {"attachments", "extensions"} :
             SaveAttachments(mid, avatars)[table] = mid[table]
        /\ Ids(SaveAttachments(mid, avatars).attachments) = Ids(mid.attachments) \union Ids(avatars)
    BY <2>1, AttachmentsStay
  <2>. QED
    BY <2>1, <2>2
<1>4. /\ DOMAIN new = Tables
      /\ new.conversations = mid.conversations /\ new.participants = mid.participants
      /\ new.groups = mid.groups /\ new.accounts = t.accounts
      /\ new.identities = t.identities /\ new.devices = t.devices
      /\ new.parts = t.parts /\ new.mutations = t.mutations /\ new.reactions = t.reactions
      /\ new.receipts = t.receipts /\ new.messages = t.messages
      /\ Ids(new.attachments) = Ids(t.attachments) \union Ids(Avatars(c))
  BY <1>2, <1>3 DEF Tables, NoRows, avatars
<1>5. Ids(new.conversations) = Ids(t.conversations) \union {c.id}
  <2>1. row.id = c.id
    OBVIOUS
  <2> HIDE DEF row
  <2>. QED
    BY <1>2, <1>4, <2>1, IdsGrow
<1>6. EnsureUnique(new.conversations)
  BY <1>2, <1>4 DEF RowsHold, EnsureUnique
<1>7. \A p \in new.participants : p.conversation \in Ids(new.conversations)
  BY <1>2, <1>4, <1>5 DEF RowsHold
<1>8. ASSUME NEW g \in new.groups
      PROVE  /\ \E d \in new.conversations : d.id = g.id /\ d.kind = "group"
             /\ g.avatar \in Ids(new.attachments) \union {None}
  <2>1. CASE g \in t.groups /\ g.id # c.id
    BY <1>2, <1>4, <2>1 DEF RowsHold
  <2>2. CASE c.group # None /\ g = made
    <3>1. row.kind = "group" /\ row.id = g.id /\ row \in new.conversations
      BY <1>2, <1>4, <2>2
    <3>2. Avatars(c) # {} => c.group.avatar \in Avatars(c)
      BY DEF Avatars
    <3>3. g.avatar \in Ids(Avatars(c)) \union {None}
      BY <2>2, <3>2 DEF Ids
    <3>. QED
      BY <1>4, <3>1, <3>3
  <2>. QED
    BY <1>2, <1>4, <2>1, <2>2 DEF GroupRows
<1>. QED
  BY <1>4, <1>5, <1>6, <1>7, <1>8 DEF RowsHold, new

(* Saving and deleting messages keeps the rows right.                      *)
LEMMA MessageRowsHold ==
  ASSUME NEW t, RowsHold(t), NEW m, MessageIsValid(m),
         UniqueRows(MessageRows(t, m)), ReferencesHold(MessageRows(t, m))
  PROVE  RowsHold(MessageRows(t, m))
<1> DEFINE new == MessageRows(t, m)
           row == [id |-> m.id, conversation |-> m.conversation, reply |-> m.reply,
                   readState |-> IF m.read = None THEN "unread" ELSE "read", readAt |-> m.read]
           parts == {[message |-> m.id, index |-> i, part |-> m.parts[i]] : i \in DOMAIN m.parts}
           receipts == {[message |-> m.id, table |-> r.table, by |-> r.by, at |-> r.at] :
                          r \in m.receipts}
           mid == [t EXCEPT
             !.messages = Upserted(@, m),
             !.parts = Children(@, m, parts),
             !.mutations = Children(@, m, m.mutations),
             !.reactions = Children(@, m, m.reactions),
             !.receipts = Children(@, m, receipts),
             !.extensions = SaveExtensions(@, "message", {m})]
           brought == Brought(m)
<1>1. new = SaveAttachments(mid, brought)
  BY DEF MessageRows
<1>2. /\ DOMAIN mid = Tables
      /\ \A table \in Tables \ {"messages", "parts", "mutations", "reactions", "receipts",
                                 "extensions"} : mid[table] = t[table]
      /\ mid.messages = {r \in t.messages : r.id # m.id} \union {row}
      /\ mid.parts = Children(t.parts, m, parts)
      /\ mid.mutations = Children(t.mutations, m, m.mutations)
      /\ mid.reactions = Children(t.reactions, m, m.reactions)
      /\ mid.receipts = Children(t.receipts, m, receipts)
  BY DEF RowsHold, Tables, NoRows, Upserted
<1> HIDE DEF mid, new, brought
<1>3. /\ DOMAIN new = Tables
      /\ \A table \in Tables \ {"attachments", "extensions"} : new[table] = mid[table]
      /\ Ids(new.attachments) = Ids(mid.attachments) \union Ids(brought)
  <2>1. DOMAIN mid = Tables /\ new = SaveAttachments(mid, brought)
    BY <1>1, <1>2
  <2>2. /\ DOMAIN SaveAttachments(mid, brought) = Tables
        /\ \A table \in Tables \ {"attachments", "extensions"} :
             SaveAttachments(mid, brought)[table] = mid[table]
        /\ Ids(SaveAttachments(mid, brought).attachments) = Ids(mid.attachments) \union Ids(brought)
    BY <2>1, AttachmentsStay
  <2>. QED
    BY <2>1, <2>2
<1>4. /\ new.messages = mid.messages /\ new.parts = mid.parts
      /\ new.mutations = mid.mutations /\ new.reactions = mid.reactions
      /\ new.receipts = mid.receipts
      /\ new.accounts = t.accounts /\ new.identities = t.identities /\ new.devices = t.devices
      /\ new.conversations = t.conversations /\ new.participants = t.participants
      /\ new.groups = t.groups
      /\ Ids(t.attachments) \subseteq Ids(new.attachments)
  BY <1>2, <1>3 DEF Tables, NoRows
<1>5. Ids(new.messages) = Ids(t.messages) \union {m.id}
  <2>1. row.id = m.id
    OBVIOUS
  <2> HIDE DEF row
  <2>. QED
    BY <1>2, <1>4, <2>1, IdsGrow
<1>6. ASSUME NEW rows, NEW made, \A r \in rows : r.message \in Ids(t.messages),
             \A r \in made : r.message = m.id
      PROVE  \A r \in Children(rows, m, made) : r.message \in Ids(new.messages)
  BY <1>5, <1>6 DEF Children
<1>7. /\ \A r \in parts \union receipts : r.message = m.id
      /\ \A r \in m.mutations \union m.reactions : r.message = m.id
  BY DEF MessageIsValid
<1>8. \A rows \in {t.parts, t.mutations, t.reactions, t.receipts} :
        \A r \in rows : r.message \in Ids(t.messages)
  BY DEF RowsHold
<1> HIDE DEF parts, receipts
<1>9. \A rows \in {new.parts, new.mutations, new.reactions, new.receipts} :
        \A r \in rows : r.message \in Ids(new.messages)
  BY <1>2, <1>4, <1>6, <1>7, <1>8
<1>. QED
  BY <1>3, <1>4, <1>9 DEF RowsHold, new

(* The tables of counters, sync state and keys are no part of it.          *)
LEMMA OtherRowsHold ==
  ASSUME NEW t, RowsHold(t), NEW new, DOMAIN new = Tables,
         \A table \in Tables \ {"unread", "sync", "claims"} : new[table] = t[table],
         UniqueRows(new), ReferencesHold(new)
  PROVE  RowsHold(new)
<1>1. /\ new.accounts = t.accounts /\ new.identities = t.identities /\ new.devices = t.devices
      /\ new.conversations = t.conversations /\ new.participants = t.participants
      /\ new.groups = t.groups /\ new.attachments = t.attachments
      /\ new.parts = t.parts /\ new.mutations = t.mutations /\ new.reactions = t.reactions
      /\ new.receipts = t.receipts /\ new.messages = t.messages
  BY DEF Tables, NoRows
<1>. QED
  BY <1>1 DEF RowsHold

RowsInv == RowsHold(db)

OwnerInv == owner \in Opener \union {None}

(* Every step keeps the rows right.                                        *)
LEMMA RowsKept == RowsInv /\ [DatabaseNext]_databaseVars => RowsInv'
<1> SUFFICES ASSUME RowsInv, [DatabaseNext]_databaseVars PROVE RowsHold(db')
  BY DEF RowsInv
<1>1. RowsHold(db) /\ DOMAIN db = Tables
  BY DEF RowsInv, RowsHold
<1>2. CASE db' = db
  BY <1>1, <1>2
<1>3. ASSUME NEW a, SaveAccount(a) PROVE RowsHold(db')
  BY <1>1, <1>3, AccountRowsHold DEF SaveAccount, Transaction
<1>4. ASSUME NEW c, SaveConversation(c) PROVE RowsHold(db')
  BY <1>1, <1>4, ConversationRowsHold DEF SaveConversation, Transaction
<1>5. ASSUME NEW m, SaveMessage(m) PROVE RowsHold(db')
  BY <1>1, <1>5, MessageRowsHold DEF SaveMessage, Transaction
<1>6. ASSUME NEW c, NEW n, SetUnreadState(c, n) PROVE RowsHold(db')
  <2> DEFINE new == [db EXCEPT !.unread = {u \in @ : u.conversation # c} \union
                       {[conversation |-> c, count |-> n]}]
  <2>1. DOMAIN new = Tables /\ \A table \in Tables \ {"unread"} : new[table] = db[table]
    BY <1>1
  <2>2. (db' = new /\ UniqueRows(new) /\ ReferencesHold(new)) \/ db' = db
    BY <1>6 DEF SetUnreadState, Transaction
  <2> HIDE DEF new
  <2>. QED
    BY <1>1, <2>1, <2>2, OtherRowsHold
<1>7. ASSUME NEW table, NEW account, NEW value, SaveSync(table, account, value)
      PROVE  RowsHold(db')
  <2> DEFINE new == [db EXCEPT !.sync = {s \in @ : s.table # table \/ s.account # account} \union
                       {[table |-> table, account |-> account, value |-> value]}]
  <2>1. DOMAIN new = Tables /\ \A tb \in Tables \ {"sync"} : new[tb] = db[tb]
    BY <1>1
  <2>2. (db' = new /\ UniqueRows(new) /\ ReferencesHold(new)) \/ db' = db
    BY <1>7 DEF SaveSync, Transaction
  <2> HIDE DEF new
  <2>. QED
    BY <1>1, <2>1, <2>2, OtherRowsHold
<1>8. ASSUME NEW k, NEW object, ClaimDeduplicationKey(k, object) PROVE RowsHold(db')
  <2> DEFINE new == [db EXCEPT !.claims = @ \union {[key |-> k, object |-> object]}]
  <2>1. DOMAIN new = Tables /\ \A table \in Tables \ {"claims"} : new[table] = db[table]
    BY <1>1
  <2>2. (db' = new /\ UniqueRows(new) /\ ReferencesHold(new)) \/ db' = db
    BY <1>8 DEF ClaimDeduplicationKey, Transaction
  <2> HIDE DEF new
  <2>. QED
    BY <1>1, <2>1, <2>2, OtherRowsHold
<1>. QED
  BY <1>2, <1>3, <1>4, <1>5, <1>6, <1>7, <1>8
     DEF DatabaseNext, databaseVars, RequestName, Stop, Saving

(* Whatever is saved, in whatever order, and whoever opens the file beside *)
(* it: no row of the schema outlives the row it belongs to, and a group    *)
(* has its metadata under a conversation that is one.                      *)
THEOREM DatabaseTypeCorrect == DatabaseSpec => []DatabaseTypeOK
<1>1. DatabaseInit => RowsInv
  BY RowsStart DEF DatabaseInit, RowsInv
<1>2. DatabaseInit => OwnerInv
  BY DEF DatabaseInit, OwnerInv
<1>3. OwnerInv /\ [DatabaseNext]_databaseVars => OwnerInv'
  BY DEF OwnerInv, DatabaseNext, databaseVars, RequestName, Stop, Saving
<1>4. RowsInv /\ MigrationInv /\ OwnerInv => DatabaseTypeOK
  <2> SUFFICES ASSUME RowsInv, MigrationInv, OwnerInv PROVE DatabaseTypeOK
    OBVIOUS
  <2>1. \A g \in db.groups : Row(db.conversations, g.id).kind = "group"
    <3> SUFFICES ASSUME NEW g \in db.groups PROVE Row(db.conversations, g.id).kind = "group"
      OBVIOUS
    <3>1. PICK c \in db.conversations : c.id = g.id /\ c.kind = "group"
      BY DEF RowsInv, RowsHold
    <3>2. \A d \in db.conversations : d.id = g.id => d = c
      BY <3>1 DEF RowsInv, RowsHold, EnsureUnique
    <3>3. Row(db.conversations, g.id) = c
      BY <3>1, <3>2 DEF Row
    <3>. QED
      BY <3>1, <3>3
  <2>2. opening \in [Opener -> Steps]
    BY DEF MigrationInv
  <2>. QED
    BY <2>1, <2>2 DEF RowsInv, RowsHold, OwnerInv, DatabaseTypeOK
<1>. QED
  BY <1>1, <1>2, <1>3, <1>4, RowsKept, MigrationAlways, PTL DEF DatabaseSpec

(***************************************************************************)
(* What is loaded.  A save touches rows of other values: an account        *)
(* deletes identities that devices of others link to, and an attachment    *)
(* can be the avatar of a conversation that is not saved.  Each save is    *)
(* described by the rows it leaves (AccountRows, ConversationTables,       *)
(* MessageTables), then by what is loaded from them (the effects), and     *)
(* the invariant and the archive follow from the effects alone.            *)
(***************************************************************************)

(* The extensions of one owner, read from their table.                     *)
ExtensionIn(rows, kind, id) ==
  LET own == {r \in rows : r.kind = kind /\ r.owner = id}
  IN  IF own = {} THEN None ELSE (CHOOSE r \in own : TRUE).value

(* Saving the extensions of some owners leaves those of the others.        *)
LEMMA ExtensionKept ==
  ASSUME NEW rows, NEW kind, NEW owners, NEW k, NEW id, k # kind \/ id \notin Ids(owners)
  PROVE  ExtensionIn(SaveExtensions(rows, kind, owners), k, id) = ExtensionIn(rows, k, id)
<1> DEFINE new == SaveExtensions(rows, kind, owners)
           own(table) == {r \in table : r.kind = k /\ r.owner = id}
<1>1. \A r : r \in own(new) <=> r \in own(rows)
  BY DEF SaveExtensions, Ids
<1>2. /\ ExtensionIn(new, k, id) =
           IF own(new) = {} THEN None ELSE (CHOOSE r \in own(new) : TRUE).value
      /\ ExtensionIn(rows, k, id) =
           IF own(rows) = {} THEN None ELSE (CHOOSE r \in own(rows) : TRUE).value
  BY DEF ExtensionIn
<1> HIDE DEF new, own
<1>3. own(new) = own(rows)
  BY <1>1
<1>. QED
  BY <1>2, <1>3 DEF new

(* They are the ones that were saved.                                      *)
LEMMA ExtensionSaved ==
  ASSUME NEW rows, NEW kind, NEW owners, EnsureUnique(owners), NEW o \in owners
  PROVE  ExtensionIn(SaveExtensions(rows, kind, owners), kind, o.id) = o.extension
<1> DEFINE new == SaveExtensions(rows, kind, owners)
           own == {r \in new : r.kind = kind /\ r.owner = o.id}
           row == [kind |-> kind, owner |-> o.id, value |-> o.extension]
<1>1. \A p \in owners : p.id = o.id => p = o
  BY DEF EnsureUnique
<1>2. o.id \in Ids(owners)
  BY DEF Ids
<1>3. \A r \in own : o.extension # None /\ r = row
  BY <1>1, <1>2 DEF SaveExtensions
<1>4. o.extension # None => row \in own
  BY DEF SaveExtensions
<1>5. ExtensionIn(new, kind, o.id) = IF own = {} THEN None ELSE (CHOOSE r \in own : TRUE).value
  BY DEF ExtensionIn
<1>6. row.value = o.extension
  OBVIOUS
<1> HIDE DEF new, own, row
<1>7. CASE o.extension = None
  <2>1. own = {}
    BY <1>3, <1>7
  <2>. QED
    BY <1>5, <1>7, <2>1 DEF new
<1>8. CASE o.extension # None
  <2>1. own = {row}
    BY <1>3, <1>4, <1>8
  <2>2. own # {} /\ (CHOOSE r \in own : TRUE) = row
    BY <2>1
  <2>. QED
    BY <1>5, <1>6, <2>2, Zenon DEF new
<1>. QED
  BY <1>7, <1>8

(* What is stored under an id is what is chosen.                           *)
LEMMA RowChosen ==
  ASSUME NEW rows, EnsureUnique(rows), NEW r \in rows
  PROVE  Row(rows, r.id) = r
  BY DEF EnsureUnique, Row

(* A table in which rows were replaced by id.                              *)
LEMMA RowsReplaced ==
  ASSUME NEW rows, EnsureUnique(rows), NEW made, EnsureUnique(made), NEW new,
         \A r : r \in new <=> (r \in rows /\ r.id \notin Ids(made)) \/ r \in made
  PROVE  /\ EnsureUnique(new)
         /\ \A id : id \in Ids(new) <=> id \in Ids(rows) \/ id \in Ids(made)
         /\ \A r \in made : Row(new, r.id) = r
         /\ \A id \in Ids(rows) : id \notin Ids(made) => Row(new, id) = Row(rows, id)
<1>1. EnsureUnique(new)
  BY DEF EnsureUnique, Ids
<1>2. \A id : id \in Ids(new) <=> id \in Ids(rows) \/ id \in Ids(made)
  BY DEF Ids
<1>3. \A r \in made : Row(new, r.id) = r
  BY <1>1, RowChosen
<1>4. ASSUME NEW id \in Ids(rows), id \notin Ids(made) PROVE Row(new, id) = Row(rows, id)
  <2>1. PICK r \in rows : r.id = id
    BY DEF Ids
  <2>2. r \in new
    BY <1>4, <2>1
  <2>. QED
    BY <1>1, <2>1, <2>2, RowChosen
<1>. QED
  BY <1>1, <1>2, <1>3, <1>4

(* The rows that an attachment is stored as.                               *)
AttachmentRows(brought) ==
  {[id |-> x.id, size |-> x.size, content |-> x.content] : x \in brought}

(* The fields of an attachment.                                            *)
AttachmentShape(x) ==
  x = [id |-> x.id, size |-> x.size, content |-> x.content, extension |-> x.extension]

(* Of the attachments that a save brings the last is loaded; the others    *)
(* are as they were.                                                       *)
LEMMA AttachmentsLoaded ==
  ASSUME NEW t, DOMAIN t = Tables, EnsureUnique(t.attachments),
         NEW brought, EnsureUnique(brought), \A x \in brought : AttachmentShape(x)
  PROVE  LET new == SaveAttachments(t, brought)
         IN  /\ EnsureUnique(new.attachments)
             /\ \A x \in brought : LoadAttachment(new, x.id) = x
             /\ \A id : id \notin Ids(brought) => LoadAttachment(new, id) = LoadAttachment(t, id)
             /\ \A k, id : k # "attachment" => LoadExtension(new, k, id) = LoadExtension(t, k, id)
<1> DEFINE new == SaveAttachments(t, brought)
           made == AttachmentRows(brought)
<1>1. /\ new.attachments = {r \in t.attachments : r.id \notin Ids(brought)} \union made
      /\ new.extensions = SaveExtensions(t.extensions, "attachment", brought)
  BY DEF SaveAttachments, Tables, NoRows, AttachmentRows
<1>2. EnsureUnique(made)
  BY DEF EnsureUnique, AttachmentRows
<1>3. \A id : id \in Ids(made) <=> id \in Ids(brought)
  <2>1. ASSUME NEW x \in brought PROVE \E r \in made : r.id = x.id
    <3>1. [id |-> x.id, size |-> x.size, content |-> x.content] \in made
      BY DEF AttachmentRows
    <3>. QED
      BY <3>1
  <2>2. \A r \in made : \E x \in brought : r.id = x.id
    BY DEF AttachmentRows
  <2>. QED
    BY <2>1, <2>2 DEF Ids
<1>4. \A k, id : /\ LoadExtension(new, k, id) = ExtensionIn(new.extensions, k, id)
                 /\ LoadExtension(t, k, id) = ExtensionIn(t.extensions, k, id)
  BY DEF LoadExtension, ExtensionIn
<1> HIDE DEF new, made
<1>5. \A r : r \in new.attachments <=>
        (r \in t.attachments /\ r.id \notin Ids(made)) \/ r \in made
  BY <1>1, <1>3
<1>6. /\ EnsureUnique(new.attachments)
      /\ \A id : id \in Ids(new.attachments) <=> id \in Ids(t.attachments) \/ id \in Ids(made)
      /\ \A r \in made : Row(new.attachments, r.id) = r
      /\ \A id \in Ids(t.attachments) :
           id \notin Ids(made) => Row(new.attachments, id) = Row(t.attachments, id)
  BY <1>2, <1>5, RowsReplaced
<1>7. ASSUME NEW x \in brought PROVE LoadAttachment(new, x.id) = x
  <2> DEFINE r == [id |-> x.id, size |-> x.size, content |-> x.content]
  <2>1. r \in made /\ r.id = x.id
    BY DEF made, AttachmentRows
  <2>2. x.id \in Ids(new.attachments) /\ Row(new.attachments, x.id) = r
    BY <1>6, <2>1 DEF Ids
  <2>3. LoadExtension(new, "attachment", x.id) = x.extension
    BY <1>1, <1>4, ExtensionSaved
  <2>4. LoadAttachment(new, x.id) = [id |-> x.id, size |-> x.size, content |-> x.content,
                                     extension |-> x.extension]
    BY <2>2, <2>3 DEF LoadAttachment
  <2>. QED
    BY <2>4 DEF AttachmentShape
<1>8. ASSUME NEW id, id \notin Ids(brought)
      PROVE  LoadAttachment(new, id) = LoadAttachment(t, id)
  <2>1. id \in Ids(new.attachments) <=> id \in Ids(t.attachments)
    BY <1>3, <1>6, <1>8
  <2>2. id \in Ids(t.attachments) => Row(new.attachments, id) = Row(t.attachments, id)
    BY <1>3, <1>6, <1>8
  <2>3. LoadExtension(new, "attachment", id) = LoadExtension(t, "attachment", id)
    BY <1>1, <1>4, <1>8, ExtensionKept
  <2>. QED
    BY <2>1, <2>2, <2>3 DEF LoadAttachment
<1>9. ASSUME NEW k, NEW id, k # "attachment"
      PROVE  LoadExtension(new, k, id) = LoadExtension(t, k, id)
  BY <1>1, <1>4, <1>9, ExtensionKept
<1>. QED
  BY <1>6, <1>7, <1>8, <1>9 DEF new

(* The rows of a table, by what identifies them and by whose they are.     *)
TablesHold(t) ==
  /\ \A rows \in {t.accounts, t.conversations, t.groups, t.attachments, t.messages} :
       EnsureUnique(rows)
  /\ \A r \in t.accounts : r = [id |-> r.id, name |-> r.name]
  /\ \A r \in t.identities : r = [id |-> r.id, account |-> r.account, address |-> r.address]
  /\ \A r \in t.devices : r = [id |-> r.id, account |-> r.account, link |-> r.link]
  /\ \A r \in t.participants :
       r = [id |-> r.id, conversation |-> r.conversation, identity |-> r.identity]
  /\ \A r \in t.receipts :
       r = [message |-> r.message, table |-> r.table, by |-> r.by, at |-> r.at]
  /\ \A c \in t.conversations :
       c.kind = "direct" \/ (c.kind = "group" /\ c.id \in Ids(t.groups))
  /\ \A g \in t.groups :
       g.owner \in Ids({p \in t.participants : p.conversation = g.id}) \union {None}

(* What is loaded has the types of crates/core.                            *)
LoadedHold(t) ==
  /\ \A id \in Ids(t.accounts) : GetAccount(t, id) \in Accounts
  /\ \A id \in Ids(t.conversations) : GetConversation(t, id) \in Conversations
  /\ \A id \in Ids(t.groups) : GetGroup(t, id) \in Groups
  /\ \A id \in Ids(t.messages) :
       GetMessage(t, id) \in MessageValues /\ MessageIsValid(GetMessage(t, id))
  /\ \A id \in Ids(t.attachments) : LoadAttachment(t, id) \in Attachments

-----------------------------------------------------------------------------
(* Accounts.                                                               *)

(* The fields of an account and of what it contains.                       *)
IdentityShape(i) == i = [id |-> i.id, address |-> i.address, extension |-> i.extension]
DeviceShape(d) ==
  d = [id |-> d.id, account |-> d.account, link |-> d.link, extension |-> d.extension]
AccountShape(a) ==
  /\ a = [id |-> a.id, name |-> a.name, identities |-> a.identities, devices |-> a.devices,
          extension |-> a.extension]
  /\ \A i \in a.identities : IdentityShape(i)
  /\ \A d \in a.devices : DeviceShape(d)

(* An account has the fields of its type, also when it lost a link.        *)
LEMMA AccountShaped == \A a \in Accounts : AccountShape(a) /\ a.id \in AccountIds
<1> SUFFICES ASSUME NEW a \in Accounts PROVE AccountShape(a) /\ a.id \in AccountIds
  OBVIOUS
<1>1. \A i \in Identities : IdentityShape(i)
  BY ValuesAssumption DEF IdentityShape
<1>2. \A d \in Devices : DeviceShape(d)
  BY ValuesAssumption DEF DeviceShape
<1>3. /\ a = [id |-> a.id, name |-> a.name, identities |-> a.identities, devices |-> a.devices,
              extension |-> a.extension]
      /\ a.id \in AccountIds /\ a.identities \subseteq Identities /\ a.devices \subseteq Devices
  BY DEF Accounts
<1>. QED
  BY <1>1, <1>2, <1>3 DEF AccountShape

(* Whose extensions are replaced when an account is saved.                 *)
LEMMA AccountExtensions ==
  ASSUME NEW t, DOMAIN t = Tables, NEW a, EnsureUnique(a.identities), EnsureUnique(a.devices)
  PROVE  LET new == AccountRows(t, a)
         IN  /\ LoadExtension(new, "account", a.id) = a.extension
             /\ \A i \in a.identities : LoadExtension(new, "identity", i.id) = i.extension
             /\ \A d \in a.devices : LoadExtension(new, "device", d.id) = d.extension
             /\ \A k, id :
                  \/ k = "account" /\ id # a.id
                  \/ k = "identity" /\ id \notin Ids(a.identities)
                  \/ k = "device" /\ id \notin Ids(a.devices)
                  \/ k \notin {"account", "identity", "device"}
                  => LoadExtension(new, k, id) = LoadExtension(t, k, id)
<1> DEFINE new == AccountRows(t, a)
           rows1 == SaveExtensions(t.extensions, "account", {a})
           rows2 == SaveExtensions(rows1, "identity", a.identities)
           rows3 == SaveExtensions(rows2, "device", a.devices)
<1>1. new.extensions = rows3
  BY DEF AccountRows, Tables, NoRows
<1>2. \A k, id : /\ LoadExtension(new, k, id) = ExtensionIn(rows3, k, id)
                 /\ LoadExtension(t, k, id) = ExtensionIn(t.extensions, k, id)
  BY <1>1 DEF LoadExtension, ExtensionIn
<1>3. \A k, id : k # "account" \/ id # a.id =>
        ExtensionIn(rows1, k, id) = ExtensionIn(t.extensions, k, id)
  BY ExtensionKept DEF Ids
<1>4. \A k, id : k # "identity" \/ id \notin Ids(a.identities) =>
        ExtensionIn(rows2, k, id) = ExtensionIn(rows1, k, id)
  BY ExtensionKept
<1>5. \A k, id : k # "device" \/ id \notin Ids(a.devices) =>
        ExtensionIn(rows3, k, id) = ExtensionIn(rows2, k, id)
  BY ExtensionKept
<1>6. ExtensionIn(rows1, "account", a.id) = a.extension
  <2>1. EnsureUnique({a}) /\ a \in {a}
    BY DEF EnsureUnique
  <2>. QED
    BY <2>1, ExtensionSaved
<1>7. \A i \in a.identities : ExtensionIn(rows2, "identity", i.id) = i.extension
  BY ExtensionSaved
<1>8. \A d \in a.devices : ExtensionIn(rows3, "device", d.id) = d.extension
  BY ExtensionSaved
<1> HIDE DEF new, rows1, rows2, rows3
<1>9. /\ LoadExtension(new, "account", a.id) = a.extension
      /\ \A i \in a.identities : LoadExtension(new, "identity", i.id) = i.extension
      /\ \A d \in a.devices : LoadExtension(new, "device", d.id) = d.extension
      /\ \A k, id :
           \/ k = "account" /\ id # a.id
           \/ k = "identity" /\ id \notin Ids(a.identities)
           \/ k = "device" /\ id \notin Ids(a.devices)
           \/ k \notin {"account", "identity", "device"}
           => LoadExtension(new, k, id) = LoadExtension(t, k, id)
  BY <1>2, <1>3, <1>4, <1>5, <1>6, <1>7, <1>8
<1>. QED
  BY <1>9 DEF new

(* A device row of another account after the identities in gone were       *)
(* replaced: the foreign key sets its link to null.                        *)
Kept(d, gone) ==
  [id |-> d.id, account |-> d.account, link |-> IF d.link \in gone THEN None ELSE d.link]

(* The devices of other accounts stay, but for links to the account.       *)
LEMMA DevicesStay ==
  ASSUME NEW t, TablesHold(t), NEW a
  PROVE  LET gone == Ids({i \in t.identities : i.account = a.id})
         IN  /\ \A d \in DevicesOfOthers(t, a) :
                  \E e \in t.devices : e.account # a.id /\ d = Kept(e, gone)
             /\ \A e \in t.devices : e.account # a.id => Kept(e, gone) \in DevicesOfOthers(t, a)
             /\ \A d \in DevicesOfOthers(t, a) : d.account # a.id
<1> DEFINE gone == Ids({i \in t.identities : i.account = a.id})
           Cut(d) == [d EXCEPT !.link = IF @ \in gone THEN None ELSE @]
<1>1. DevicesOfOthers(t, a) = {Cut(d) : d \in {e \in t.devices : e.account # a.id}}
  BY DEF DevicesOfOthers
<1> HIDE DEF gone
<1>2. \A d \in t.devices : Cut(d) = Kept(d, gone)
  <2> SUFFICES ASSUME NEW d \in t.devices PROVE Cut(d) = Kept(d, gone)
    OBVIOUS
  <2>1. d = [id |-> d.id, account |-> d.account, link |-> d.link]
    BY DEF TablesHold
  <2>. QED
    BY <2>1 DEF Kept
<1> HIDE DEF Cut
<1>3. \A d \in t.devices : Kept(d, gone).account = d.account
  BY DEF Kept
<1>4. /\ \A d \in DevicesOfOthers(t, a) :
           \E e \in t.devices : e.account # a.id /\ d = Kept(e, gone)
      /\ \A e \in t.devices : e.account # a.id => Kept(e, gone) \in DevicesOfOthers(t, a)
      /\ \A d \in DevicesOfOthers(t, a) : d.account # a.id
  BY <1>1, <1>2, <1>3
<1>. QED
  BY <1>4 DEF gone

(* An account that was saved is loaded as it was.                          *)
LEMMA AccountSaved ==
  ASSUME NEW t, DOMAIN t = Tables, TablesHold(t), NEW a, AccountShape(a), AccountIsValid(a)
  PROVE  GetAccount(AccountRows(t, a), a.id) = a
<1> DEFINE new == AccountRows(t, a)
           identities == {[id |-> i.id, account |-> a.id, address |-> i.address] : i \in a.identities}
           devices == {[id |-> d.id, account |-> a.id, link |-> d.link] : d \in a.devices}
           LoadI(i) == [id |-> i.id, address |-> i.address,
                        extension |-> LoadExtension(new, "identity", i.id)]
           LoadD(d) == [id |-> d.id, account |-> a.id, link |-> d.link,
                        extension |-> LoadExtension(new, "device", d.id)]
<1>1. EnsureUnique(a.identities) /\ EnsureUnique(a.devices) /\ \A d \in a.devices : d.account = a.id
  BY DEF AccountIsValid
<1>2. /\ LoadExtension(new, "account", a.id) = a.extension
      /\ \A i \in a.identities : LoadExtension(new, "identity", i.id) = i.extension
      /\ \A d \in a.devices : LoadExtension(new, "device", d.id) = d.extension
  BY <1>1, AccountExtensions
<1>3. /\ new.accounts = {r \in t.accounts : r.id # a.id} \union {[id |-> a.id, name |-> a.name]}
      /\ new.identities = {i \in t.identities : i.account # a.id} \union identities
      /\ new.devices = DevicesOfOthers(t, a) \union devices
  BY DEF AccountRows, Tables, NoRows
<1>4. \A d \in DevicesOfOthers(t, a) : d.account # a.id
  BY DevicesStay
<1> HIDE DEF new
<1>5. a.id \in Ids(new.accounts) /\ Row(new.accounts, a.id).name = a.name
  <2>1. [id |-> a.id, name |-> a.name] \in new.accounts /\ EnsureUnique(new.accounts)
    BY <1>3 DEF EnsureUnique, TablesHold
  <2>2. Row(new.accounts, a.id) = [id |-> a.id, name |-> a.name]
    BY <2>1, RowChosen
  <2>. QED
    BY <2>1, <2>2 DEF Ids
<1>6. {j \in new.identities : j.account = a.id} = identities
  BY <1>3
<1>7. {e \in new.devices : e.account = a.id} = devices
  BY <1>3, <1>4
<1>8. {LoadI(i) : i \in identities} = a.identities
  <2>1. ASSUME NEW i \in a.identities
        PROVE  LoadI([id |-> i.id, account |-> a.id, address |-> i.address]) = i
    BY <1>2 DEF AccountShape, IdentityShape
  <2> HIDE DEF LoadI
  <2>2. a.identities \subseteq {LoadI(i) : i \in identities}
    BY <2>1
  <2>3. {LoadI(i) : i \in identities} \subseteq a.identities
    BY <2>1
  <2>. QED
    BY <2>2, <2>3
<1>9. {LoadD(d) : d \in devices} = a.devices
  <2>1. ASSUME NEW d \in a.devices
        PROVE  LoadD([id |-> d.id, account |-> a.id, link |-> d.link]) = d
    BY <1>1, <1>2 DEF AccountShape, DeviceShape
  <2> HIDE DEF LoadD
  <2>2. a.devices \subseteq {LoadD(d) : d \in devices}
    BY <2>1
  <2>3. {LoadD(d) : d \in devices} \subseteq a.devices
    BY <2>1
  <2>. QED
    BY <2>2, <2>3
<1>10. GetAccount(new, a.id) =
         [id |-> a.id, name |-> a.name, identities |-> a.identities, devices |-> a.devices,
          extension |-> a.extension]
  <2>1. GetAccount(new, a.id) =
          [id |-> a.id, name |-> Row(new.accounts, a.id).name,
           identities |-> {LoadI(i) : i \in {j \in new.identities : j.account = a.id}},
           devices |-> {LoadD(d) : d \in {e \in new.devices : e.account = a.id}},
           extension |-> LoadExtension(new, "account", a.id)]
    BY <1>5 DEF GetAccount
  <2> HIDE DEF LoadI, LoadD, identities, devices
  <2>. QED
    BY <1>2, <1>5, <1>6, <1>7, <1>8, <1>9, <2>1
<1>. QED
  BY <1>10 DEF AccountShape, new

(* The identities whose rows saving an account deletes first.              *)
Gone(t, a) == Ids({i \in t.identities : i.account = a.id})

(* The accounts that were not saved are loaded as they were, but for the   *)
(* links to the identities that were replaced.                             *)
LEMMA OtherAccountsStay ==
  ASSUME NEW t, RowsHold(t), TablesHold(t), LoadedHold(t), NEW a, AccountIsValid(a),
         UniqueRows(AccountRows(t, a)), NEW id, id # a.id
  PROVE  GetAccount(AccountRows(t, a), id) = Promised!Unlinked(GetAccount(t, id), Gone(t, a))
<1> DEFINE new == AccountRows(t, a)
           gone == Gone(t, a)
           Identity(table, i) == [id |-> i.id, address |-> i.address,
                        extension |-> LoadExtension(table, "identity", i.id)]
           Device(table, d) == [id |-> d.id, account |-> id, link |-> d.link,
                        extension |-> LoadExtension(table, "device", d.id)]
           Unlink(d) == IF d.link \in gone THEN [d EXCEPT !.link = None] ELSE d
           identities(table) == {j \in table.identities : j.account = id}
           devices(table) == {e \in table.devices : e.account = id}
<1>1. EnsureUnique(a.identities) /\ EnsureUnique(a.devices) /\ DOMAIN t = Tables
  BY DEF AccountIsValid, RowsHold
<1>2. \A k, w :
        \/ k = "account" /\ w # a.id
        \/ k = "identity" /\ w \notin Ids(a.identities)
        \/ k = "device" /\ w \notin Ids(a.devices)
        => LoadExtension(new, k, w) = LoadExtension(t, k, w)
  BY <1>1, AccountExtensions
<1>3. /\ new.accounts = {r \in t.accounts : r.id # a.id} \union {[id |-> a.id, name |-> a.name]}
      /\ new.identities = {i \in t.identities : i.account # a.id} \union
           {[id |-> i.id, account |-> a.id, address |-> i.address] : i \in a.identities}
      /\ new.devices = DevicesOfOthers(t, a) \union
           {[id |-> d.id, account |-> a.id, link |-> d.link] : d \in a.devices}
  BY <1>1 DEF AccountRows, Tables, NoRows
<1>4. EnsureUnique(new.identities) /\ EnsureUnique(new.devices)
  BY DEF UniqueRows
<1>5. /\ \A d \in DevicesOfOthers(t, a) :
           \E e \in t.devices : e.account # a.id /\ d = Kept(e, gone)
      /\ \A e \in t.devices : e.account # a.id => Kept(e, gone) \in DevicesOfOthers(t, a)
  BY DevicesStay DEF Gone
<1> HIDE DEF new, gone
<1>6. id \in Ids(new.accounts) <=> id \in Ids(t.accounts)
  BY <1>3 DEF Ids
<1>7. id \in Ids(t.accounts) => Row(new.accounts, id) = Row(t.accounts, id)
  <2> SUFFICES ASSUME id \in Ids(t.accounts) PROVE Row(new.accounts, id) = Row(t.accounts, id)
    OBVIOUS
  <2>1. PICK r \in t.accounts : r.id = id
    BY DEF Ids
  <2>2. r \in new.accounts /\ EnsureUnique(new.accounts) /\ EnsureUnique(t.accounts)
    BY <1>3, <2>1 DEF TablesHold, EnsureUnique
  <2>. QED
    BY <2>1, <2>2, RowChosen
<1>8. \A i : i \in identities(new) <=> i \in identities(t)
  BY <1>3
<1>9. \A i \in identities(t) : Identity(new, i) = Identity(t, i)
  <2> SUFFICES ASSUME NEW i \in t.identities, i.account = id PROVE i.id \notin Ids(a.identities)
    BY <1>2
  <2> SUFFICES ASSUME NEW j \in a.identities, j.id = i.id PROVE FALSE
    BY DEF Ids
  <2> DEFINE row == [id |-> j.id, account |-> a.id, address |-> j.address]
  <2>1. row \in new.identities /\ row.id = i.id /\ row.account # i.account /\ i \in new.identities
    BY <1>3
  <2> HIDE DEF row
  <2>. QED
    BY <1>4, <2>1 DEF EnsureUnique
<1>10. \A e \in devices(t) : LoadExtension(new, "device", e.id) = LoadExtension(t, "device", e.id)
  <2> SUFFICES ASSUME NEW e \in t.devices, e.account = id PROVE e.id \notin Ids(a.devices)
    BY <1>2
  <2> SUFFICES ASSUME NEW j \in a.devices, j.id = e.id PROVE FALSE
    BY DEF Ids
  <2> DEFINE row == [id |-> j.id, account |-> a.id, link |-> j.link]
             old == Kept(e, gone)
  <2>1. row \in new.devices /\ row.id = e.id /\ row.account # e.account
    BY <1>3
  <2>2. old \in new.devices /\ old.id = e.id /\ old.account = e.account
    BY <1>3, <1>5 DEF Kept
  <2> HIDE DEF row, old
  <2>. QED
    BY <1>4, <2>1, <2>2 DEF EnsureUnique
<1>11. ASSUME NEW e \in devices(t) PROVE Device(new, Kept(e, gone)) = Unlink(Device(t, e))
  BY <1>10 DEF Kept
<1>12. /\ \A d \in devices(new) : \E e \in devices(t) : d = Kept(e, gone)
       /\ \A e \in devices(t) : Kept(e, gone) \in devices(new)
  BY <1>3, <1>5 DEF Kept
<1>13. \A table : GetAccount(table, id) =
         IF id \notin Ids(table.accounts) THEN None
         ELSE [id |-> id, name |-> Row(table.accounts, id).name,
               identities |-> {Identity(table, i) : i \in identities(table)},
               devices |-> {Device(table, d) : d \in devices(table)},
               extension |-> LoadExtension(table, "account", id)]
  BY DEF GetAccount
<1>14. {Device(new, d) : d \in devices(new)} = {Unlink(d) : d \in {Device(t, e) : e \in devices(t)}}
  <2> HIDE DEF Device, Unlink, devices
  <2>. QED
    BY <1>11, <1>12
<1>15. {Identity(new, i) : i \in identities(new)} = {Identity(t, i) : i \in identities(t)}
  <2> HIDE DEF Identity, identities
  <2>. QED
    BY <1>8, <1>9
<1>16. LoadExtension(new, "account", id) = LoadExtension(t, "account", id)
  BY <1>2
<1> DEFINE all == {Device(t, e) : e \in devices(t)}
           given == {Identity(t, i) : i \in identities(t)}
           old == [id |-> id, name |-> Row(t.accounts, id).name, identities |-> given,
                   devices |-> all, extension |-> LoadExtension(t, "account", id)]
<1>17. CASE id \in Ids(t.accounts)
  <2>1. GetAccount(t, id) = old
    BY <1>13, <1>17
  <2>2. old # None
    BY <1>17, <2>1, NothingAssumption DEF LoadedHold
  <2>3. GetAccount(new, id) =
          [id |-> id, name |-> Row(t.accounts, id).name, identities |-> given,
           devices |-> {Unlink(d) : d \in all}, extension |-> LoadExtension(t, "account", id)]
    BY <1>6, <1>7, <1>13, <1>14, <1>15, <1>16, <1>17
  <2> HIDE DEF all, given
  <2>4. Promised!Unlinked(old, gone) =
          [id |-> id, name |-> Row(t.accounts, id).name, identities |-> given,
           devices |-> {Unlink(d) : d \in all}, extension |-> LoadExtension(t, "account", id)]
    BY <2>2 DEF Promised!Unlinked
  <2>. QED
    BY <2>1, <2>3, <2>4 DEF new, gone
<1>18. CASE id \notin Ids(t.accounts)
  BY <1>6, <1>13, <1>18 DEF Promised!Unlinked, new
<1>. QED
  BY <1>17, <1>18

(* The fields of a conversation, of its group and of its participants.     *)
ConversationShape(c) ==
  /\ c = [id |-> c.id, group |-> c.group, participants |-> c.participants, extension |-> c.extension]
  /\ c.group # None => c.group = [owner |-> c.group.owner, avatar |-> c.group.avatar]
  /\ \A p \in c.participants : p = [id |-> p.id, identity |-> p.identity, extension |-> p.extension]
  /\ \A x \in Avatars(c) : AttachmentShape(x) /\ x.id # None

(* A conversation has the fields of its type, also when its avatar is not  *)
(* the one that it was saved with.                                         *)
LEMMA ConversationShaped ==
  \A c \in Conversations : /\ ConversationShape(c) /\ c.id \in ConversationIds
                           /\ c.group \in Groups \union {None}
                           /\ Avatars(c) \subseteq Attachments
<1> SUFFICES ASSUME NEW c \in Conversations
             PROVE  /\ ConversationShape(c) /\ c.id \in ConversationIds
                    /\ c.group \in Groups \union {None}
                    /\ Avatars(c) \subseteq Attachments
  OBVIOUS
<1>1. /\ c = [id |-> c.id, group |-> c.group, participants |-> c.participants,
              extension |-> c.extension]
      /\ c.id \in ConversationIds /\ c.group \in Groups \union {None}
      /\ c.participants \subseteq Participants
  BY DEF Conversations
<1>2. c.group # None => /\ c.group = [owner |-> c.group.owner, avatar |-> c.group.avatar]
                        /\ c.group.avatar \in Attachments \union {None}
  BY <1>1 DEF Groups
<1>3. \A p \in Participants : p = [id |-> p.id, identity |-> p.identity, extension |-> p.extension]
  BY ValuesAssumption
<1>4. \A x \in Attachments : AttachmentShape(x) /\ x.id # None
  BY ValuesAssumption, NothingAssumption DEF AttachmentShape
<1>5. Avatars(c) \subseteq Attachments
  BY <1>2 DEF Avatars
<1>. QED
  BY <1>1, <1>2, <1>3, <1>4, <1>5 DEF ConversationShape

(* A conversation whose rows were left alone is loaded as it was, but for  *)
(* an avatar that was brought meanwhile.                                   *)
LEMMA ConversationStays ==
  ASSUME NEW t, RowsHold(t), TablesHold(t), LoadedHold(t), NEW new, NEW id,
         id \in Ids(new.conversations) <=> id \in Ids(t.conversations),
         id \in Ids(t.conversations) => Row(new.conversations, id) = Row(t.conversations, id),
         id \in Ids(new.groups) <=> id \in Ids(t.groups),
         id \in Ids(t.groups) => Row(new.groups, id) = Row(t.groups, id),
         \A q : q \in new.participants /\ q.conversation = id <=>
                q \in t.participants /\ q.conversation = id,
         \A q \in t.participants : q.conversation = id =>
           LoadExtension(new, "participant", q.id) = LoadExtension(t, "participant", q.id),
         LoadExtension(new, "conversation", id) = LoadExtension(t, "conversation", id),
         NEW brought, EnsureUnique(brought),
         \A x \in brought : LoadAttachment(new, x.id) = x,
         \A x : x \notin Ids(brought) => LoadAttachment(new, x) = LoadAttachment(t, x)
  PROVE  GetConversation(new, id) = Promised!Redrawn(GetConversation(t, id), brought)
<1> DEFINE Participant(table, p) == [id |-> p.id, identity |-> p.identity,
                                     extension |-> LoadExtension(table, "participant", p.id)]
           people(table) == {q \in table.participants : q.conversation = id}
           isGroup == Row(t.conversations, id).kind = "group"
<1>1. CASE id \notin Ids(t.conversations)
  BY <1>1 DEF GetConversation, Promised!Redrawn
<1>2. CASE id \in Ids(t.conversations)
  <2>1. GetConversation(t, id) \in Conversations
    BY <1>2 DEF LoadedHold
  <2>2. GetConversation(t, id) # None /\ GetConversation(t, id) # Corrupt
    BY <2>1, NothingAssumption
  <2>3. ~(isGroup /\ id \notin Ids(t.groups))
    BY <1>2, <2>2 DEF GetConversation
  <2>4. {Participant(new, p) : p \in people(new)} = {Participant(t, p) : p \in people(t)}
    <3>1. \A p : p \in people(new) <=> p \in people(t)
      OBVIOUS
    <3>2. \A p \in people(t) : Participant(new, p) = Participant(t, p)
      OBVIOUS
    <3> HIDE DEF people, Participant
    <3>. QED
      BY <3>1, <3>2
  <2> DEFINE all == {Participant(t, p) : p \in people(t)}
             old == [id |-> id, group |-> IF isGroup THEN GetGroup(t, id) ELSE None,
                     participants |-> all,
                     extension |-> LoadExtension(t, "conversation", id)]
             now == [id |-> id, group |-> IF isGroup THEN GetGroup(new, id) ELSE None,
                     participants |-> all,
                     extension |-> LoadExtension(t, "conversation", id)]
  <2>5. GetConversation(t, id) = old
    BY <1>2, <2>3 DEF GetConversation
  <2>6. GetConversation(new, id) =
          [id |-> id, group |-> IF isGroup THEN GetGroup(new, id) ELSE None,
           participants |-> {Participant(new, p) : p \in people(new)},
           extension |-> LoadExtension(new, "conversation", id)]
    BY <1>2, <2>3 DEF GetConversation
  <2> HIDE DEF people, Participant
  <2>7. GetConversation(new, id) = now
    BY <2>4, <2>6
  <2>8. CASE ~isGroup
    BY <2>5, <2>7, <2>8 DEF Promised!Redrawn
  <2>9. CASE isGroup
    <3> DEFINE g == Row(t.groups, id)
               group == GetGroup(t, id)
    <3>1. /\ group = [owner |-> g.owner,
                      avatar |-> IF g.avatar = None THEN None ELSE LoadAttachment(t, g.avatar)]
          /\ GetGroup(new, id) =
               [owner |-> g.owner,
                avatar |-> IF g.avatar = None THEN None ELSE LoadAttachment(new, g.avatar)]
      BY <2>3, <2>9 DEF GetGroup
    <3>2. group # None /\ old.group = group
      BY <2>3, <2>9, NothingAssumption DEF LoadedHold
    <3>3. CASE g.avatar = None
      BY <2>5, <2>7, <2>9, <3>1, <3>2, <3>3 DEF Promised!Redrawn
    <3>4. CASE g.avatar # None
      <4>1. g.avatar \in Ids(t.attachments)
        <5>1. PICK row \in t.groups : row.id = id
          BY <2>3, <2>9 DEF Ids
        <5>2. g = row
          BY <5>1, RowChosen DEF TablesHold
        <5>. QED
          BY <3>4, <5>1, <5>2 DEF RowsHold
      <4>2. LoadAttachment(t, g.avatar) # None /\ LoadAttachment(t, g.avatar).id = g.avatar
        BY <4>1, NothingAssumption DEF LoadedHold, LoadAttachment
      <4> DEFINE x == LoadAttachment(t, g.avatar)
      <4>3. Promised!Latest(x, brought) = LoadAttachment(new, g.avatar)
        <5>1. CASE \E b \in brought : b.id = g.avatar
          <6>1. PICK b \in brought : b.id = g.avatar
            BY <5>1
          <6>2. \A w \in brought : w.id = g.avatar => w = b
            BY <6>1 DEF EnsureUnique
          <6>3. (CHOOSE w \in brought : w.id = g.avatar) = b
            BY <6>1, <6>2
          <6>4. LoadAttachment(new, g.avatar) = b
            BY <6>1
          <6>. QED
            BY <4>2, <5>1, <6>3, <6>4 DEF Promised!Latest
        <5>2. CASE ~\E b \in brought : b.id = g.avatar
          <6>1. g.avatar \notin Ids(brought)
            BY <5>2 DEF Ids
          <6>. QED
            BY <4>2, <5>2, <6>1 DEF Promised!Latest
        <5>. QED
          BY <5>1, <5>2
      <4>4. group = [owner |-> g.owner, avatar |-> x]
            /\ GetGroup(new, id) = [owner |-> g.owner, avatar |-> Promised!Latest(x, brought)]
        BY <3>1, <3>4, <4>3
      <4>5. x # None
        BY <4>2
      <4> HIDE DEF x, g, group
      <4>6. Promised!Redrawn(old, brought) =
              [old EXCEPT !.group.avatar = Promised!Latest(@, brought)]
        BY <2>2, <2>5, <3>2, <4>4, <4>5 DEF Promised!Redrawn
      <4>7. [old EXCEPT !.group.avatar = Promised!Latest(@, brought)] = now
        <5>1. old.group.avatar = x
          BY <3>2, <4>4
        <5>2. [old.group EXCEPT !.avatar = Promised!Latest(x, brought)] = GetGroup(new, id)
          BY <3>2, <4>4
        <5>3. now = [old EXCEPT !.group = GetGroup(new, id)]
          <6> HIDE DEF all, isGroup
          <6>. QED
            BY <2>9
        <5> HIDE DEF old, now
        <5>. QED
          BY <5>1, <5>2, <5>3
      <4>. QED
        BY <2>5, <2>7, <4>6, <4>7
    <3>. QED
      BY <3>3, <3>4
  <2>. QED
    BY <2>8, <2>9
<1>. QED
  BY <1>1, <1>2

(* Where nothing was brought, no avatar changes.                           *)
LEMMA RedrawnWithNothing ==
  ASSUME NEW c, c \in Conversations \union {None}
  PROVE  Promised!Redrawn(c, {}) = c
<1>1. CASE c = None
  BY <1>1 DEF Promised!Redrawn
<1>2. CASE c \in Conversations
  <2>1. ConversationShape(c)
    BY <1>2, ConversationShaped
  <2>2. \A x : Promised!Latest(x, {}) = x
    BY DEF Promised!Latest
  <2>. QED
    BY <2>1, <2>2 DEF Promised!Redrawn, ConversationShape
<1>. QED
  BY <1>1, <1>2

(* The parts of one message, put in order by their indexes.                *)
Before(own, r) == {s \in own : s.index < r.index}

PartAt(own, i) == CHOOSE r \in own : Cardinality(Before(own, r)) = i - 1

PartsOf(own) == [i \in 1..Cardinality(own) |-> PartAt(own, i).part]

(* The rows of the parts, each made with its index; and how they are read. *)
Numbered(own, f, n) ==
  /\ \A i \in 1..n : f[i].index = i
  /\ \A r : r \in own <=> \E i \in 1..n : r = f[i]

InOrder(own, f, n) == Cardinality(own) = n /\ \A i \in 1..n : PartAt(own, i) = f[i]

(* Rows with the indexes from 1 are as many, and each is found by its      *)
(* place.                                                                  *)
LEMMA PartsCounted ==
  ASSUME NEW n \in Nat, NEW f, NEW own, Numbered(own, f, n)
  PROVE  InOrder(own, f, n)
<1> USE DEF Numbered
<1> DEFINE First(k) == {f[i] : i \in 1..k}
<1>1. ASSUME NEW k \in 0..n PROVE Cardinality(First(k)) = k
  <2> DEFINE g == [i \in 1..k |-> f[i]]
  <2>1. g \in Surjection(1..k, First(k))
    BY DEF Surjection
  <2>2. g \in Injection(1..k, First(k))
    <3>1. \A i, j \in 1..k : f[i] = f[j] => i = j
      OBVIOUS
    <3>2. g \in [1..k -> First(k)]
      OBVIOUS
    <3>. QED
      BY <3>1, <3>2 DEF Injection, IsInjective
  <2>3. IsFiniteSet(1..k) /\ Cardinality(1..k) = k
    BY FS_Interval
  <2> HIDE DEF g
  <2>4. Cardinality(First(k)) = Cardinality(1..k)
    BY <2>1, <2>2, <2>3, FS_Surjection
  <2>. QED
    BY <2>3, <2>4
<1>2. ASSUME NEW j \in 1..n PROVE Cardinality(Before(own, f[j])) = j - 1
  <2>1. Before(own, f[j]) = First(j - 1)
    BY DEF Before
  <2> HIDE DEF First
  <2>. QED
    BY <1>1, <2>1
<1>3. own = First(n) /\ Cardinality(own) = n
  BY <1>1
<1>4. ASSUME NEW i \in 1..n PROVE PartAt(own, i) = f[i]
  <2>1. f[i] \in own /\ Cardinality(Before(own, f[i])) = i - 1
    BY <1>2
  <2>2. ASSUME NEW r \in own, Cardinality(Before(own, r)) = i - 1 PROVE r = f[i]
    <3>1. PICK j \in 1..n : r = f[j]
      OBVIOUS
    <3>. QED
      BY <1>2, <2>2, <3>1
  <2>. QED
    BY <2>1, <2>2 DEF PartAt
<1>. QED
  BY <1>3, <1>4 DEF InOrder

(* So the parts come back in the order in which they were saved.           *)
LEMMA PartsInOrder ==
  ASSUME NEW T, NEW parts \in Seq(T), NEW n \in Nat, Len(parts) = n,
         NEW own, NEW f, InOrder(own, f, n), \A i \in 1..n : f[i].part = parts[i]
  PROVE  PartsOf(own) = parts
  BY DEF PartsOf, InOrder

(* The fields of a message and of what it brings.                          *)
MessageShape(m) ==
  /\ m = [id |-> m.id, conversation |-> m.conversation, reply |-> m.reply, read |-> m.read,
          parts |-> m.parts, mutations |-> m.mutations, reactions |-> m.reactions,
          receipts |-> m.receipts, extension |-> m.extension]
  /\ m.parts \in Seq({m.parts[i] : i \in DOMAIN m.parts})
  /\ \A r \in m.receipts : r = [table |-> r.table, by |-> r.by, at |-> r.at]
  /\ EnsureUnique(Brought(m)) /\ \A x \in Brought(m) : AttachmentShape(x) /\ x.id # None

(* A message has the fields of its type.                                   *)
LEMMA MessageShaped ==
  \A m \in MessageValues :
    MessageShape(m) /\ m.id \in MessageIds /\ Brought(m) \subseteq Attachments
<1> SUFFICES ASSUME NEW m \in MessageValues
             PROVE  MessageShape(m) /\ m.id \in MessageIds /\ Brought(m) \subseteq Attachments
  OBVIOUS
<1>1. Brought(m) \subseteq Attachments
  BY DEF Attachments
<1>2. \A x \in Attachments : AttachmentShape(x) /\ x.id # None
  BY ValuesAssumption, NothingAssumption DEF AttachmentShape
<1>. QED
  BY <1>1, <1>2, ValuesAssumption DEF MessageShape

(* The tables after a message was saved, but for the attachments.          *)
MessageTables(t, new, m) ==
  /\ DOMAIN new = Tables
  /\ \A r : r \in new.messages <=>
       \/ r \in t.messages /\ r.id # m.id
       \/ r = [id |-> m.id, conversation |-> m.conversation, reply |-> m.reply,
               readState |-> IF m.read = None THEN "unread" ELSE "read", readAt |-> m.read]
  /\ \A r : r \in new.parts <=>
       \/ r \in t.parts /\ r.message # m.id
       \/ \E i \in DOMAIN m.parts : r = [message |-> m.id, index |-> i, part |-> m.parts[i]]
  /\ \A r : r \in new.mutations <=>
       \/ r \in t.mutations /\ r.message # m.id
       \/ r \in m.mutations
  /\ \A r : r \in new.reactions <=>
       \/ r \in t.reactions /\ r.message # m.id
       \/ r \in m.reactions
  /\ \A r : r \in new.receipts <=>
       \/ r \in t.receipts /\ r.message # m.id
       \/ \E s \in m.receipts : r = [message |-> m.id, table |-> s.table, by |-> s.by, at |-> s.at]
  /\ new.accounts = t.accounts /\ new.identities = t.identities /\ new.devices = t.devices
  /\ new.conversations = t.conversations /\ new.participants = t.participants
  /\ new.groups = t.groups
  /\ new.unread = t.unread /\ new.sync = t.sync /\ new.claims = t.claims
  /\ LoadExtension(new, "message", m.id) = m.extension
  /\ \A k, id : k \notin {"message", "attachment"} \/ (k = "message" /\ id # m.id) =>
       LoadExtension(new, k, id) = LoadExtension(t, k, id)

(* The attachments after a save that brought some.                         *)
AttachmentTables(t, new, brought) ==
  /\ EnsureUnique(new.attachments)
  /\ Ids(new.attachments) = Ids(t.attachments) \union Ids(brought)
  /\ \A x \in brought : LoadAttachment(new, x.id) = x
  /\ \A x : x \notin Ids(brought) => LoadAttachment(new, x) = LoadAttachment(t, x)

(* Saving a message changes these tables alone.                            *)
LEMMA MessageTablesMade ==
  ASSUME NEW t, RowsHold(t), TablesHold(t), NEW m, MessageShape(m)
  PROVE  /\ MessageTables(t, MessageRows(t, m), m)
         /\ AttachmentTables(t, MessageRows(t, m), Brought(m))
<1> DEFINE new == MessageRows(t, m)
           parts == {[message |-> m.id, index |-> i, part |-> m.parts[i]] : i \in DOMAIN m.parts}
           receipts == {[message |-> m.id, table |-> r.table, by |-> r.by, at |-> r.at] :
                          r \in m.receipts}
           mid == [t EXCEPT
             !.messages = Upserted(@, m),
             !.parts = Children(@, m, parts),
             !.mutations = Children(@, m, m.mutations),
             !.reactions = Children(@, m, m.reactions),
             !.receipts = Children(@, m, receipts),
             !.extensions = SaveExtensions(@, "message", {m})]
           brought == Brought(m)
<1>1. new = SaveAttachments(mid, brought)
  BY DEF MessageRows
<1>2. /\ DOMAIN mid = Tables
      /\ \A table \in Tables \ {"messages", "parts", "mutations", "reactions", "receipts",
                                 "extensions"} : mid[table] = t[table]
      /\ mid.messages = Upserted(t.messages, m)
      /\ mid.parts = Children(t.parts, m, parts)
      /\ mid.mutations = Children(t.mutations, m, m.mutations)
      /\ mid.reactions = Children(t.reactions, m, m.reactions)
      /\ mid.receipts = Children(t.receipts, m, receipts)
      /\ mid.extensions = SaveExtensions(t.extensions, "message", {m})
  BY DEF RowsHold, Tables, NoRows
<1> HIDE DEF mid, new, brought
<1>3. /\ DOMAIN new = Tables
      /\ \A table \in Tables \ {"attachments", "extensions"} : new[table] = mid[table]
      /\ Ids(new.attachments) = Ids(mid.attachments) \union Ids(brought)
  <2>1. /\ DOMAIN SaveAttachments(mid, brought) = Tables
        /\ \A table \in Tables \ {"attachments", "extensions"} :
             SaveAttachments(mid, brought)[table] = mid[table]
        /\ Ids(SaveAttachments(mid, brought).attachments) = Ids(mid.attachments) \union Ids(brought)
    BY <1>2, AttachmentsStay
  <2>. QED
    BY <1>1, <2>1
<1>4. /\ mid.attachments = t.attachments
      /\ EnsureUnique(mid.attachments) /\ EnsureUnique(brought)
      /\ \A x \in brought : AttachmentShape(x)
  BY <1>2 DEF TablesHold, MessageShape, brought, Tables, NoRows
<1>5. /\ EnsureUnique(new.attachments)
      /\ \A x \in brought : LoadAttachment(new, x.id) = x
      /\ \A id : id \notin Ids(brought) => LoadAttachment(new, id) = LoadAttachment(mid, id)
      /\ \A k, id : k # "attachment" => LoadExtension(new, k, id) = LoadExtension(mid, k, id)
  BY <1>1, <1>2, <1>4, AttachmentsLoaded
<1>6. \A k, id : /\ LoadExtension(mid, k, id) = ExtensionIn(mid.extensions, k, id)
                 /\ LoadExtension(t, k, id) = ExtensionIn(t.extensions, k, id)
  BY DEF LoadExtension, ExtensionIn
<1>7. \A k, id : k # "message" \/ id # m.id => LoadExtension(mid, k, id) = LoadExtension(t, k, id)
  BY <1>2, <1>6, ExtensionKept DEF Ids
<1>8. LoadExtension(mid, "message", m.id) = m.extension
  <2>1. EnsureUnique({m}) /\ m \in {m}
    BY DEF EnsureUnique
  <2>2. ExtensionIn(SaveExtensions(t.extensions, "message", {m}), "message", m.id) = m.extension
    BY <2>1, ExtensionSaved
  <2>. QED
    BY <1>2, <1>6, <2>2
<1>9. \A id : LoadAttachment(mid, id) = LoadAttachment(t, id)
  BY <1>4, <1>7 DEF LoadAttachment
<1>10. /\ new.messages = Upserted(t.messages, m)
       /\ new.parts = Children(t.parts, m, parts)
       /\ new.mutations = Children(t.mutations, m, m.mutations)
       /\ new.reactions = Children(t.reactions, m, m.reactions)
       /\ new.receipts = Children(t.receipts, m, receipts)
       /\ new.accounts = t.accounts /\ new.identities = t.identities /\ new.devices = t.devices
       /\ new.conversations = t.conversations /\ new.participants = t.participants
       /\ new.groups = t.groups
       /\ new.unread = t.unread /\ new.sync = t.sync /\ new.claims = t.claims
  BY <1>2, <1>3 DEF Tables, NoRows
<1>11. AttachmentTables(t, new, brought)
  BY <1>3, <1>4, <1>5, <1>9 DEF AttachmentTables
<1>12. MessageTables(t, new, m)
  BY <1>3, <1>5, <1>7, <1>8, <1>10 DEF MessageTables, Upserted, Children
<1>. QED
  BY <1>11, <1>12 DEF new, brought

(* A message that was saved is loaded as it was.                           *)
LEMMA MessageSaved ==
  ASSUME NEW t, TablesHold(t), NEW m, MessageShape(m), MessageIsValid(m),
         NEW new, MessageTables(t, new, m)
  PROVE  GetMessage(new, m.id) = m
<1> DEFINE row == [id |-> m.id, conversation |-> m.conversation, reply |-> m.reply,
                   readState |-> IF m.read = None THEN "unread" ELSE "read", readAt |-> m.read]
<1>1. m.id \in Ids(new.messages) /\ Row(new.messages, m.id) = row
  <2>1. row \in new.messages /\ row.id = m.id /\ EnsureUnique(new.messages)
    BY DEF MessageTables, EnsureUnique, TablesHold
  <2> HIDE DEF row
  <2>. QED
    BY <2>1, RowChosen DEF Ids
<1>2. GetParts(new, m.id) = m.parts
  <2> DEFINE n == Len(m.parts)
             f == [i \in 1..n |-> [message |-> m.id, index |-> i, part |-> m.parts[i]]]
             own == {r \in new.parts : r.message = m.id}
  <2>1. n \in Nat /\ DOMAIN m.parts = 1..n
    BY DEF MessageShape
  <2>2. GetParts(new, m.id) = PartsOf(own)
    BY DEF GetParts, PartsOf, PartAt, Before
  <2>3. \A i \in 1..n : f[i].index = i /\ f[i].part = m.parts[i]
    OBVIOUS
  <2>4. \A r : r \in own <=> \E i \in 1..n : r = f[i]
    <3> DEFINE Made(i) == [message |-> m.id, index |-> i, part |-> m.parts[i]]
    <3>1. \A r : r \in own <=> r \in new.parts /\ r.message = m.id
      OBVIOUS
    <3>2. \A r : r \in new.parts <=>
            (r \in t.parts /\ r.message # m.id) \/ \E i \in 1..n : r = Made(i)
      BY <2>1 DEF MessageTables
    <3>3. \A i \in 1..n : f[i] = Made(i) /\ Made(i).message = m.id
      OBVIOUS
    <3> HIDE DEF f, own, Made, n
    <3>. QED
      BY <3>1, <3>2, <3>3
  <2> HIDE DEF own, f
  <2>5. Numbered(own, f, n)
    BY <2>3, <2>4 DEF Numbered
  <2>6. InOrder(own, f, n)
    BY <2>1, <2>5, PartsCounted
  <2>7. m.parts \in Seq({m.parts[i] : i \in DOMAIN m.parts})
    BY DEF MessageShape
  <2>. QED
    BY <2>1, <2>2, <2>3, <2>6, <2>7, PartsInOrder
<1>3. {u \in new.mutations : u.message = m.id} = m.mutations
  BY DEF MessageTables, MessageIsValid
<1>4. {x \in new.reactions : x.message = m.id} = m.reactions
  BY DEF MessageTables, MessageIsValid
<1>5. GetReceipts(new, m.id) = m.receipts
  <2> DEFINE Load(r) == [table |-> r.table, by |-> r.by, at |-> r.at]
             Make(s) == [message |-> m.id, table |-> s.table, by |-> s.by, at |-> s.at]
             own == {s \in new.receipts : s.message = m.id}
  <2>1. \A s \in m.receipts : Load(Make(s)) = s /\ Make(s) \in own
    BY DEF MessageTables, MessageShape
  <2>2. \A r \in own : \E s \in m.receipts : r = Make(s)
    BY DEF MessageTables
  <2>3. GetReceipts(new, m.id) = {Load(r) : r \in own}
    BY DEF GetReceipts
  <2> HIDE DEF Load, Make, own
  <2>. QED
    BY <2>1, <2>2, <2>3
<1>6. LoadExtension(new, "message", m.id) = m.extension
  BY DEF MessageTables
<1>. QED
  BY <1>1, <1>2, <1>3, <1>4, <1>5, <1>6 DEF GetMessage, MessageShape

(* Messages that were not saved are loaded as they were.                   *)
LEMMA OtherMessagesStay ==
  ASSUME NEW t, TablesHold(t), NEW m, MessageIsValid(m), NEW new, MessageTables(t, new, m),
         NEW id, id # m.id
  PROVE  GetMessage(new, id) = GetMessage(t, id)
<1>1. id \in Ids(new.messages) <=> id \in Ids(t.messages)
  BY DEF MessageTables, Ids
<1>2. id \in Ids(t.messages) => Row(new.messages, id) = Row(t.messages, id)
  <2> SUFFICES ASSUME id \in Ids(t.messages) PROVE Row(new.messages, id) = Row(t.messages, id)
    OBVIOUS
  <2>1. PICK r \in t.messages : r.id = id
    BY DEF Ids
  <2>2. r \in new.messages /\ EnsureUnique(new.messages) /\ EnsureUnique(t.messages)
    BY <2>1 DEF MessageTables, TablesHold, EnsureUnique
  <2>. QED
    BY <2>1, <2>2, RowChosen
<1> DEFINE own(table) == {r \in table : r.message = id}
<1>3. /\ \A r : r \in own(new.parts) <=> r \in own(t.parts)
      /\ \A r : r \in own(new.mutations) <=> r \in own(t.mutations)
      /\ \A r : r \in own(new.reactions) <=> r \in own(t.reactions)
      /\ \A r : r \in own(new.receipts) <=> r \in own(t.receipts)
  BY DEF MessageTables, MessageIsValid
<1>4. \A table : /\ GetParts(table, id) = PartsOf(own(table.parts))
                 /\ GetReceipts(table, id) =
                      {[table |-> r.table, by |-> r.by, at |-> r.at] : r \in own(table.receipts)}
  BY DEF GetParts, PartsOf, PartAt, Before, GetReceipts
<1>5. \A table : GetMessage(table, id) =
        IF id \notin Ids(table.messages) THEN None
        ELSE LET r == Row(table.messages, id)
             IN  IF r.readState = "read" /\ r.readAt = None THEN Corrupt
                 ELSE [id |-> id, conversation |-> r.conversation, reply |-> r.reply,
                       read |-> IF r.readState = "unread" THEN None ELSE r.readAt,
                       parts |-> GetParts(table, id),
                       mutations |-> own(table.mutations),
                       reactions |-> own(table.reactions),
                       receipts |-> GetReceipts(table, id),
                       extension |-> LoadExtension(table, "message", id)]
  BY DEF GetMessage
<1> HIDE DEF own
<1>6. /\ own(new.parts) = own(t.parts) /\ own(new.mutations) = own(t.mutations)
      /\ own(new.reactions) = own(t.reactions) /\ own(new.receipts) = own(t.receipts)
  BY <1>3
<1>7. GetParts(new, id) = GetParts(t, id) /\ GetReceipts(new, id) = GetReceipts(t, id)
  BY <1>4, <1>6
<1>8. LoadExtension(new, "message", id) = LoadExtension(t, "message", id)
  BY DEF MessageTables
<1>. QED
  BY <1>1, <1>2, <1>5, <1>6, <1>7, <1>8

(* The row of a group: its avatar is a reference to an attachment.         *)
GroupRow(c) ==
  [id |-> c.id, owner |-> c.group.owner,
   avatar |-> IF Avatars(c) = {} THEN None ELSE c.group.avatar.id]

(* The tables after a conversation was saved, but for the attachments.     *)
ConversationTables(t, new, c) ==
  /\ DOMAIN new = Tables
  /\ \A r : r \in new.conversations <=>
       \/ r \in t.conversations /\ r.id # c.id
       \/ r = [id |-> c.id, kind |-> IF c.group = None THEN "direct" ELSE "group"]
  /\ \A r : r \in new.participants <=>
       \/ r \in t.participants /\ r.conversation # c.id
       \/ \E p \in c.participants : r = [id |-> p.id, conversation |-> c.id, identity |-> p.identity]
  /\ \A r : r \in new.groups <=>
       \/ r \in t.groups /\ r.id # c.id
       \/ c.group # None /\ r = GroupRow(c)
  /\ new.accounts = t.accounts /\ new.identities = t.identities /\ new.devices = t.devices
  /\ new.messages = t.messages /\ new.parts = t.parts /\ new.mutations = t.mutations
  /\ new.reactions = t.reactions /\ new.receipts = t.receipts
  /\ new.unread = t.unread /\ new.sync = t.sync /\ new.claims = t.claims
  /\ LoadExtension(new, "conversation", c.id) = c.extension
  /\ \A p \in c.participants : LoadExtension(new, "participant", p.id) = p.extension
  /\ \A k, id :
       \/ k = "conversation" /\ id # c.id
       \/ k = "participant" /\ id \notin Ids(c.participants)
       \/ k \notin {"conversation", "participant", "attachment"}
       => LoadExtension(new, k, id) = LoadExtension(t, k, id)

(* Saving a conversation changes these tables alone.                       *)
LEMMA ConversationTablesMade ==
  ASSUME NEW t, RowsHold(t), TablesHold(t), NEW c, ConversationShape(c), ConversationIsValid(c)
  PROVE  /\ ConversationTables(t, ConversationRows(t, c), c)
         /\ AttachmentTables(t, ConversationRows(t, c), Avatars(c))
<1> DEFINE new == ConversationRows(t, c)
           row == [id |-> c.id, kind |-> IF c.group = None THEN "direct" ELSE "group"]
           people == {[id |-> p.id, conversation |-> c.id, identity |-> p.identity] :
                        p \in c.participants}
           rows1 == SaveExtensions(t.extensions, "conversation", {c})
           rows2 == SaveExtensions(rows1, "participant", c.participants)
           mid == [t EXCEPT
             !.conversations = {r \in @ : r.id # c.id} \union {row},
             !.participants = {p \in @ : p.conversation # c.id} \union people,
             !.groups = GroupRows(t, c),
             !.extensions = SaveExtensions(SaveExtensions(@,
               "conversation", {c}), "participant", c.participants)]
           avatars == Avatars(c)
<1>1. new = SaveAttachments(mid, avatars)
  BY DEF ConversationRows
<1>2. /\ DOMAIN mid = Tables
      /\ \A table \in Tables \ {"conversations", "participants", "groups", "extensions"} :
           mid[table] = t[table]
      /\ mid.conversations = {r \in t.conversations : r.id # c.id} \union {row}
      /\ mid.participants = {p \in t.participants : p.conversation # c.id} \union people
      /\ mid.groups = GroupRows(t, c)
      /\ mid.extensions = rows2
  BY DEF RowsHold, Tables, NoRows
<1> HIDE DEF mid, new, avatars
<1>3. /\ DOMAIN new = Tables
      /\ \A table \in Tables \ {"attachments", "extensions"} : new[table] = mid[table]
      /\ Ids(new.attachments) = Ids(mid.attachments) \union Ids(avatars)
  <2>1. /\ DOMAIN SaveAttachments(mid, avatars) = Tables
        /\ \A table \in Tables \ {"attachments", "extensions"} :
             SaveAttachments(mid, avatars)[table] = mid[table]
        /\ Ids(SaveAttachments(mid, avatars).attachments) = Ids(mid.attachments) \union Ids(avatars)
    BY <1>2, AttachmentsStay
  <2>. QED
    BY <1>1, <2>1
<1>4. /\ mid.attachments = t.attachments
      /\ EnsureUnique(mid.attachments) /\ EnsureUnique(avatars)
      /\ \A x \in avatars : AttachmentShape(x)
  <2>1. EnsureUnique(avatars)
    BY DEF avatars, Avatars, EnsureUnique
  <2>. QED
    BY <1>2, <2>1 DEF TablesHold, ConversationShape, avatars, Tables, NoRows
<1>5. /\ EnsureUnique(new.attachments)
      /\ \A x \in avatars : LoadAttachment(new, x.id) = x
      /\ \A id : id \notin Ids(avatars) => LoadAttachment(new, id) = LoadAttachment(mid, id)
      /\ \A k, id : k # "attachment" => LoadExtension(new, k, id) = LoadExtension(mid, k, id)
  BY <1>1, <1>2, <1>4, AttachmentsLoaded
<1>6. \A k, id : /\ LoadExtension(mid, k, id) = ExtensionIn(rows2, k, id)
                 /\ LoadExtension(t, k, id) = ExtensionIn(t.extensions, k, id)
  BY <1>2 DEF LoadExtension, ExtensionIn
<1>7. /\ \A k, id : k # "conversation" \/ id # c.id =>
           ExtensionIn(rows1, k, id) = ExtensionIn(t.extensions, k, id)
      /\ \A k, id : k # "participant" \/ id \notin Ids(c.participants) =>
           ExtensionIn(rows2, k, id) = ExtensionIn(rows1, k, id)
  BY ExtensionKept DEF Ids
<1>8. ExtensionIn(rows1, "conversation", c.id) = c.extension
  <2>1. EnsureUnique({c}) /\ c \in {c}
    BY DEF EnsureUnique
  <2>. QED
    BY <2>1, ExtensionSaved
<1>9. \A p \in c.participants : ExtensionIn(rows2, "participant", p.id) = p.extension
  BY ExtensionSaved DEF ConversationIsValid
<1> HIDE DEF rows1, rows2
<1>10. \A id : LoadAttachment(mid, id) = LoadAttachment(t, id)
  BY <1>4, <1>6, <1>7 DEF LoadAttachment
<1>11. /\ new.conversations = {r \in t.conversations : r.id # c.id} \union {row}
       /\ new.participants = {p \in t.participants : p.conversation # c.id} \union people
       /\ new.groups = GroupRows(t, c)
       /\ new.accounts = t.accounts /\ new.identities = t.identities /\ new.devices = t.devices
       /\ new.messages = t.messages /\ new.parts = t.parts /\ new.mutations = t.mutations
       /\ new.reactions = t.reactions /\ new.receipts = t.receipts
       /\ new.unread = t.unread /\ new.sync = t.sync /\ new.claims = t.claims
  BY <1>2, <1>3 DEF Tables, NoRows
<1>12. AttachmentTables(t, new, avatars)
  BY <1>3, <1>4, <1>5, <1>10 DEF AttachmentTables
<1>13. /\ LoadExtension(new, "conversation", c.id) = c.extension
       /\ \A p \in c.participants : LoadExtension(new, "participant", p.id) = p.extension
       /\ \A k, id :
            \/ k = "conversation" /\ id # c.id
            \/ k = "participant" /\ id \notin Ids(c.participants)
            \/ k \notin {"conversation", "participant", "attachment"}
            => LoadExtension(new, k, id) = LoadExtension(t, k, id)
  BY <1>5, <1>6, <1>7, <1>8, <1>9
<1>14. ConversationTables(t, new, c)
  BY <1>3, <1>11, <1>13 DEF ConversationTables, GroupRows, GroupRow
<1>. QED
  BY <1>12, <1>14 DEF new, avatars

(* A conversation that was saved is loaded as it was.                      *)
LEMMA ConversationSaved ==
  ASSUME NEW t, TablesHold(t), NEW c, ConversationShape(c),
         NEW new, ConversationTables(t, new, c), AttachmentTables(t, new, Avatars(c))
  PROVE  /\ GetConversation(new, c.id) = c
         /\ c.group # None => GetGroup(new, c.id) = c.group
<1> DEFINE row == [id |-> c.id, kind |-> IF c.group = None THEN "direct" ELSE "group"]
<1>1. c.id \in Ids(new.conversations) /\ Row(new.conversations, c.id) = row
  <2>1. row \in new.conversations /\ row.id = c.id /\ EnsureUnique(new.conversations)
    BY DEF ConversationTables, EnsureUnique, TablesHold
  <2> HIDE DEF row
  <2>. QED
    BY <2>1, RowChosen DEF Ids
<1> DEFINE people ==
             {[id |-> p.id, identity |-> p.identity,
               extension |-> LoadExtension(new, "participant", p.id)] :
                p \in {q \in new.participants : q.conversation = c.id}}
<1>2. people = c.participants
  <2> DEFINE Load(p) == [id |-> p.id, identity |-> p.identity,
                         extension |-> LoadExtension(new, "participant", p.id)]
             Make(p) == [id |-> p.id, conversation |-> c.id, identity |-> p.identity]
             own == {q \in new.participants : q.conversation = c.id}
  <2>1. \A p \in c.participants : Load(Make(p)) = p /\ Make(p) \in own
    BY DEF ConversationTables, ConversationShape
  <2>2. \A r \in own : \E p \in c.participants : r = Make(p)
    BY DEF ConversationTables
  <2> HIDE DEF Load, Make, own
  <2>3. {Load(p) : p \in own} = c.participants
    BY <2>1, <2>2
  <2>. QED
    BY <2>3 DEF Load, own
<1>3. ASSUME c.group # None PROVE c.id \in Ids(new.groups) /\ GetGroup(new, c.id) = c.group
  <2> DEFINE g == GroupRow(c)
  <2>1. g \in new.groups /\ g.id = c.id /\ EnsureUnique(new.groups)
    BY <1>3 DEF ConversationTables, EnsureUnique, TablesHold, GroupRow
  <2>2. Row(new.groups, c.id) = g
    <3> HIDE DEF g
    <3>. QED
      BY <2>1, RowChosen
  <2>3. (IF g.avatar = None THEN None ELSE LoadAttachment(new, g.avatar)) = c.group.avatar
    <3>1. CASE c.group.avatar = None
      BY <1>3, <3>1 DEF GroupRow, Avatars
    <3>2. CASE c.group.avatar # None
      <4>1. c.group.avatar \in Avatars(c)
        BY <1>3, <3>2 DEF Avatars
      <4>2. g.avatar = c.group.avatar.id
        BY <4>1 DEF GroupRow
      <4>. QED
        BY <4>1, <4>2 DEF ConversationShape, AttachmentTables
    <3>. QED
      BY <3>1, <3>2
  <2>4. g.owner = c.group.owner
    BY DEF GroupRow
  <2> HIDE DEF g
  <2>5. GetGroup(new, c.id) = [owner |-> c.group.owner, avatar |-> c.group.avatar]
    BY <2>2, <2>3, <2>4 DEF GetGroup
  <2>. QED
    BY <1>3, <2>1, <2>5 DEF ConversationShape, Ids
<1>4. LoadExtension(new, "conversation", c.id) = c.extension
  BY DEF ConversationTables
<1>5. GetConversation(new, c.id) =
        [id |-> c.id, group |-> c.group, participants |-> c.participants,
         extension |-> c.extension]
  <2> DEFINE isGroup == Row(new.conversations, c.id).kind = "group"
  <2>1. isGroup <=> c.group # None
    BY <1>1
  <2>2. GetConversation(new, c.id) =
          IF c.id \notin Ids(new.conversations) THEN None
          ELSE IF isGroup /\ c.id \notin Ids(new.groups) THEN Corrupt
          ELSE [id |-> c.id, group |-> IF isGroup THEN GetGroup(new, c.id) ELSE None,
                participants |-> people,
                extension |-> LoadExtension(new, "conversation", c.id)]
    BY DEF GetConversation
  <2> HIDE DEF people, isGroup
  <2>. QED
    BY <1>1, <1>2, <1>3, <1>4, <2>1, <2>2
<1>. QED
  BY <1>3, <1>5 DEF ConversationShape

(* Conversations that were not saved are loaded as they were, but for an   *)
(* avatar that was brought.                                                *)
LEMMA OtherConversationsStay ==
  ASSUME NEW t, RowsHold(t), TablesHold(t), LoadedHold(t), NEW c, ConversationShape(c),
         NEW new, ConversationTables(t, new, c), AttachmentTables(t, new, Avatars(c)),
         UniqueRows(new), NEW id, id # c.id
  PROVE  GetConversation(new, id) = Promised!Redrawn(GetConversation(t, id), Avatars(c))
<1>1. id \in Ids(new.conversations) <=> id \in Ids(t.conversations)
  BY DEF ConversationTables, Ids
<1>2. id \in Ids(t.conversations) => Row(new.conversations, id) = Row(t.conversations, id)
  <2> SUFFICES ASSUME id \in Ids(t.conversations)
               PROVE Row(new.conversations, id) = Row(t.conversations, id)
    OBVIOUS
  <2>1. PICK r \in t.conversations : r.id = id
    BY DEF Ids
  <2>2. r \in new.conversations /\ EnsureUnique(new.conversations) /\ EnsureUnique(t.conversations)
    BY <2>1 DEF ConversationTables, TablesHold, EnsureUnique
  <2>. QED
    BY <2>1, <2>2, RowChosen
<1>3. id \in Ids(new.groups) <=> id \in Ids(t.groups)
  BY DEF ConversationTables, Ids, GroupRow
<1>4. id \in Ids(t.groups) => Row(new.groups, id) = Row(t.groups, id)
  <2> SUFFICES ASSUME id \in Ids(t.groups) PROVE Row(new.groups, id) = Row(t.groups, id)
    OBVIOUS
  <2>1. PICK r \in t.groups : r.id = id
    BY DEF Ids
  <2>2. r \in new.groups /\ EnsureUnique(new.groups) /\ EnsureUnique(t.groups)
    BY <2>1 DEF ConversationTables, TablesHold, EnsureUnique, GroupRow
  <2>. QED
    BY <2>1, <2>2, RowChosen
<1>5. \A q : q \in new.participants /\ q.conversation = id <=>
             q \in t.participants /\ q.conversation = id
  BY DEF ConversationTables
<1>6. \A q \in t.participants : q.conversation = id =>
        LoadExtension(new, "participant", q.id) = LoadExtension(t, "participant", q.id)
  <2> SUFFICES ASSUME NEW q \in t.participants, q.conversation = id
               PROVE  q.id \notin Ids(c.participants)
    BY DEF ConversationTables
  <2> SUFFICES ASSUME NEW p \in c.participants, p.id = q.id PROVE FALSE
    BY DEF Ids
  <2> DEFINE row == [id |-> p.id, conversation |-> c.id, identity |-> p.identity]
  <2>1. row \in new.participants /\ q \in new.participants /\ row.id = q.id
        /\ row.conversation # q.conversation
    BY DEF ConversationTables
  <2> HIDE DEF row
  <2>. QED
    BY <2>1 DEF UniqueRows, EnsureUnique
<1>7. LoadExtension(new, "conversation", id) = LoadExtension(t, "conversation", id)
  BY DEF ConversationTables
<1>8. /\ EnsureUnique(Avatars(c))
      /\ \A x \in Avatars(c) : LoadAttachment(new, x.id) = x
      /\ \A x : x \notin Ids(Avatars(c)) => LoadAttachment(new, x) = LoadAttachment(t, x)
  BY DEF AttachmentTables, Avatars, EnsureUnique
<1>. QED
  BY <1>1, <1>2, <1>3, <1>4, <1>5, <1>6, <1>7, <1>8, ConversationStays

(* What a save does to everything that can be loaded.                      *)
SameCounts(t, new) == new.unread = t.unread /\ new.sync = t.sync /\ new.claims = t.claims

AccountEffect(t, new, a) ==
  /\ \A id : GetAccount(new, id) =
       IF id = a.id THEN a ELSE Promised!Unlinked(GetAccount(t, id), Gone(t, a))
  /\ \A id : GetConversation(new, id) = GetConversation(t, id)
  /\ \A id : GetMessage(new, id) = GetMessage(t, id)
  /\ \A id : LoadAttachment(new, id) = LoadAttachment(t, id)
  /\ SameCounts(t, new)

ConversationEffect(t, new, c) ==
  /\ \A id : GetAccount(new, id) = GetAccount(t, id)
  /\ \A id : GetConversation(new, id) =
       IF id = c.id THEN c ELSE Promised!Redrawn(GetConversation(t, id), Avatars(c))
  /\ \A id : GetMessage(new, id) = GetMessage(t, id)
  /\ AttachmentTables(t, new, Avatars(c))
  /\ SameCounts(t, new)

MessageEffect(t, new, m) ==
  /\ \A id : GetAccount(new, id) = GetAccount(t, id)
  /\ \A id : GetConversation(new, id) = Promised!Redrawn(GetConversation(t, id), Brought(m))
  /\ \A id : GetMessage(new, id) = IF id = m.id THEN m ELSE GetMessage(t, id)
  /\ AttachmentTables(t, new, Brought(m))
  /\ SameCounts(t, new)

(* What is loaded from tables that a save left alone.                      *)
LEMMA AccountsAlone ==
  ASSUME NEW t, NEW new, new.accounts = t.accounts, new.identities = t.identities,
         new.devices = t.devices,
         \A k, id : k \in {"account", "identity", "device"} =>
           LoadExtension(new, k, id) = LoadExtension(t, k, id)
  PROVE  \A id : GetAccount(new, id) = GetAccount(t, id)
<1> SUFFICES ASSUME NEW id PROVE GetAccount(new, id) = GetAccount(t, id)
  OBVIOUS
<1> DEFINE Identity(table, i) == [id |-> i.id, address |-> i.address,
                                  extension |-> LoadExtension(table, "identity", i.id)]
           Device(table, d) == [id |-> d.id, account |-> id, link |-> d.link,
                                extension |-> LoadExtension(table, "device", d.id)]
           identities == {j \in t.identities : j.account = id}
           devices == {e \in t.devices : e.account = id}
<1>1. \A table : table.identities = t.identities /\ table.devices = t.devices =>
        GetAccount(table, id) =
         IF id \notin Ids(table.accounts) THEN None
         ELSE [id |-> id, name |-> Row(table.accounts, id).name,
               identities |-> {Identity(table, i) : i \in identities},
               devices |-> {Device(table, d) : d \in devices},
               extension |-> LoadExtension(table, "account", id)]
  BY DEF GetAccount
<1>2. /\ \A i : Identity(new, i) = Identity(t, i)
      /\ \A d : Device(new, d) = Device(t, d)
      /\ LoadExtension(new, "account", id) = LoadExtension(t, "account", id)
  OBVIOUS
<1> HIDE DEF Identity, Device, identities, devices
<1>3. /\ {Identity(new, i) : i \in identities} = {Identity(t, i) : i \in identities}
      /\ {Device(new, d) : d \in devices} = {Device(t, d) : d \in devices}
  BY <1>2
<1>. QED
  BY <1>1, <1>2, <1>3

(* Messages whose rows a save left alone are loaded as they were.          *)
LEMMA MessagesAlone ==
  ASSUME NEW t, NEW new, new.messages = t.messages, new.parts = t.parts,
         new.mutations = t.mutations, new.reactions = t.reactions, new.receipts = t.receipts,
         \A id : LoadExtension(new, "message", id) = LoadExtension(t, "message", id)
  PROVE  \A id : GetMessage(new, id) = GetMessage(t, id)
<1> SUFFICES ASSUME NEW id PROVE GetMessage(new, id) = GetMessage(t, id)
  OBVIOUS
<1>1. GetParts(new, id) = GetParts(t, id)
  BY DEF GetParts
<1>2. GetReceipts(new, id) = GetReceipts(t, id)
  BY DEF GetReceipts
<1>. QED
  BY <1>1, <1>2 DEF GetMessage

(* Conversations whose rows a save left alone are loaded as they were, but *)
(* for an avatar that the save brought again.                              *)
LEMMA ConversationsAlone ==
  ASSUME NEW t, RowsHold(t), TablesHold(t), LoadedHold(t), NEW new,
         new.conversations = t.conversations,
         new.participants = t.participants, new.groups = t.groups,
         \A k, id : k \in {"conversation", "participant"} =>
           LoadExtension(new, k, id) = LoadExtension(t, k, id),
         NEW brought, EnsureUnique(brought), AttachmentTables(t, new, brought)
  PROVE  \A id : GetConversation(new, id) = Promised!Redrawn(GetConversation(t, id), brought)
<1> SUFFICES ASSUME NEW id
             PROVE GetConversation(new, id) = Promised!Redrawn(GetConversation(t, id), brought)
  OBVIOUS
<1>1. /\ \A q \in t.participants : q.conversation = id =>
           LoadExtension(new, "participant", q.id) = LoadExtension(t, "participant", q.id)
      /\ LoadExtension(new, "conversation", id) = LoadExtension(t, "conversation", id)
  OBVIOUS
<1>2. /\ \A x \in brought : LoadAttachment(new, x.id) = x
      /\ \A x : x \notin Ids(brought) => LoadAttachment(new, x) = LoadAttachment(t, x)
  BY DEF AttachmentTables
<1>. QED
  BY <1>1, <1>2, ConversationStays

(* A group has the type of one in each table that has the types.           *)
LEMMA GroupsHold ==
  ASSUME NEW t, LoadedHold(t), NEW new, RowsHold(new), TablesHold(new),
         \A id \in Ids(new.attachments) : LoadAttachment(new, id) \in Attachments,
         NEW id, id \in Ids(t.groups), id \in Ids(new.groups),
         Row(new.groups, id) = Row(t.groups, id)
  PROVE  GetGroup(new, id) \in Groups
<1> DEFINE g == Row(t.groups, id)
<1>1. GetGroup(t, id) \in Groups /\ GetGroup(t, id).owner = g.owner
  BY DEF LoadedHold, GetGroup
<1>2. g.avatar # None => LoadAttachment(new, g.avatar) \in Attachments
  <2>1. PICK r \in new.groups : r.id = id
    BY DEF Ids
  <2>2. g = r
    BY <2>1, RowChosen DEF TablesHold
  <2>. QED
    BY <2>1, <2>2 DEF RowsHold
<1>. QED
  BY <1>1, <1>2 DEF GetGroup, Groups

(* What an accepted account does.                                          *)
LEMMA AccountEffects ==
  ASSUME NEW t, RowsHold(t), TablesHold(t), LoadedHold(t), NEW a, AccountShape(a),
         AccountIsValid(a), UniqueRows(AccountRows(t, a))
  PROVE  AccountEffect(t, AccountRows(t, a), a)
<1> DEFINE new == AccountRows(t, a)
<1>1. DOMAIN t = Tables /\ EnsureUnique(a.identities) /\ EnsureUnique(a.devices)
  BY DEF RowsHold, AccountIsValid
<1>2. \A k, id : k \notin {"account", "identity", "device"} =>
        LoadExtension(new, k, id) = LoadExtension(t, k, id)
  BY <1>1, AccountExtensions
<1>3. /\ new.conversations = t.conversations /\ new.participants = t.participants
      /\ new.groups = t.groups /\ new.attachments = t.attachments
      /\ new.parts = t.parts /\ new.mutations = t.mutations
      /\ new.reactions = t.reactions /\ new.receipts = t.receipts
      /\ new.messages = t.messages
      /\ new.unread = t.unread /\ new.sync = t.sync /\ new.claims = t.claims
  BY <1>1 DEF AccountRows, Tables, NoRows
<1>4. GetAccount(new, a.id) = a
  BY <1>1, AccountSaved
<1>5. \A id : id # a.id =>
        GetAccount(new, id) = Promised!Unlinked(GetAccount(t, id), Gone(t, a))
  BY OtherAccountsStay
<1> HIDE DEF new
<1>6. \A id : LoadAttachment(new, id) = LoadAttachment(t, id)
  BY <1>2, <1>3 DEF LoadAttachment
<1>7. \A id : GetMessage(new, id) = GetMessage(t, id)
  BY <1>2, <1>3, MessagesAlone
<1>8. \A id : GetConversation(new, id) = GetConversation(t, id)
  <2>1. EnsureUnique({}) /\ AttachmentTables(t, new, {})
    BY <1>3, <1>6 DEF EnsureUnique, AttachmentTables, Ids, TablesHold
  <2>2. \A id : GetConversation(new, id) = Promised!Redrawn(GetConversation(t, id), {})
    BY <1>2, <1>3, <2>1, ConversationsAlone
  <2>3. \A id : GetConversation(t, id) \in Conversations \union {None}
    BY DEF LoadedHold, GetConversation
  <2>. QED
    BY <2>2, <2>3, RedrawnWithNothing
<1>. QED
  BY <1>3, <1>4, <1>5, <1>6, <1>7, <1>8 DEF AccountEffect, SameCounts, new

(* What an accepted conversation does.                                     *)
LEMMA ConversationEffects ==
  ASSUME NEW t, RowsHold(t), TablesHold(t), LoadedHold(t), NEW c, ConversationShape(c),
         ConversationIsValid(c), UniqueRows(ConversationRows(t, c))
  PROVE  ConversationEffect(t, ConversationRows(t, c), c)
<1> DEFINE new == ConversationRows(t, c)
<1>1. ConversationTables(t, new, c) /\ AttachmentTables(t, new, Avatars(c)) /\ UniqueRows(new)
  BY ConversationTablesMade
<1> HIDE DEF new
<1>2. GetConversation(new, c.id) = c
  BY <1>1, ConversationSaved
<1>3. \A id : id # c.id =>
        GetConversation(new, id) = Promised!Redrawn(GetConversation(t, id), Avatars(c))
  BY <1>1, OtherConversationsStay
<1>4. \A id : GetAccount(new, id) = GetAccount(t, id)
  BY <1>1, AccountsAlone DEF ConversationTables
<1>5. \A id : GetMessage(new, id) = GetMessage(t, id)
  BY <1>1, MessagesAlone DEF ConversationTables
<1>6. SameCounts(t, new)
  BY <1>1 DEF ConversationTables, SameCounts
<1>. QED
  BY <1>1, <1>2, <1>3, <1>4, <1>5, <1>6 DEF ConversationEffect, new

(* What an accepted message does.                                          *)
LEMMA MessageEffects ==
  ASSUME NEW t, RowsHold(t), TablesHold(t), LoadedHold(t), NEW m, MessageShape(m),
         MessageIsValid(m)
  PROVE  MessageEffect(t, MessageRows(t, m), m)
<1> DEFINE new == MessageRows(t, m)
<1>1. MessageTables(t, new, m) /\ AttachmentTables(t, new, Brought(m))
  BY MessageTablesMade
<1> HIDE DEF new
<1>2. GetMessage(new, m.id) = m
  BY <1>1, MessageSaved
<1>3. \A id : id # m.id => GetMessage(new, id) = GetMessage(t, id)
  BY <1>1, OtherMessagesStay
<1>4. \A id : GetAccount(new, id) = GetAccount(t, id)
  BY <1>1, AccountsAlone DEF MessageTables
<1>5. \A id : GetConversation(new, id) = Promised!Redrawn(GetConversation(t, id), Brought(m))
  <2>1. /\ new.conversations = t.conversations
        /\ new.participants = t.participants /\ new.groups = t.groups
        /\ \A k, id : k \in {"conversation", "participant"} =>
             LoadExtension(new, k, id) = LoadExtension(t, k, id)
    BY <1>1 DEF MessageTables
  <2>2. EnsureUnique(Brought(m))
    BY DEF MessageShape
  <2>. QED
    BY <1>1, <2>1, <2>2, ConversationsAlone
<1>6. SameCounts(t, new)
  BY <1>1 DEF MessageTables, SameCounts
<1>. QED
  BY <1>1, <1>2, <1>3, <1>4, <1>5, <1>6 DEF MessageEffect, new

(* Accounts stay accounts when they lose links.                            *)
LEMMA UnlinkedIsAccount ==
  ASSUME NEW a \in Accounts, NEW gone
  PROVE  Promised!Unlinked(a, gone) \in Accounts
<1> DEFINE Cut(d) == IF d.link \in gone THEN [d EXCEPT !.link = None] ELSE d
           devices == {Cut(d) : d \in a.devices}
<1>1. a # None
  BY NothingAssumption
<1>2. /\ a = [id |-> a.id, name |-> a.name, identities |-> a.identities, devices |-> a.devices,
              extension |-> a.extension]
      /\ a.devices \subseteq Devices
  BY DEF Accounts
<1>3. \A d \in Devices : Cut(d) \in Devices
  <2> SUFFICES ASSUME NEW d \in Devices PROVE [d EXCEPT !.link = None] \in Devices
    OBVIOUS
  <2> DEFINE given == UNION {b.devices : b \in AccountValues}
  <2>1. Devices = given \union {[e EXCEPT !.link = None] : e \in given}
    BY DEF Devices
  <2> HIDE DEF given
  <2>2. CASE d \in given
    BY <2>1, <2>2
  <2>3. CASE d \in {[e EXCEPT !.link = None] : e \in given}
    <3>1. PICK e \in given : d = [e EXCEPT !.link = None]
      BY <2>3
    <3>2. e = [id |-> e.id, account |-> e.account, link |-> e.link, extension |-> e.extension]
      BY <2>1, ValuesAssumption
    <3>3. [d EXCEPT !.link = None] = [e EXCEPT !.link = None]
      BY <3>1, <3>2
    <3>. QED
      BY <2>1, <3>3
  <2>. QED
    BY <2>1, <2>2, <2>3
<1>4. devices \subseteq Devices
  <2> HIDE DEF Cut
  <2>. QED
    BY <1>2, <1>3
<1>5. Promised!Unlinked(a, gone) = [a EXCEPT !.devices = devices]
  BY <1>1 DEF Promised!Unlinked
<1> HIDE DEF devices
<1>. QED
  BY <1>4, <1>5 DEF Accounts

(* Conversations stay conversations when their avatar is brought again.    *)
LEMMA RedrawnIsConversation ==
  ASSUME NEW c \in Conversations, NEW brought, brought \subseteq Attachments
  PROVE  Promised!Redrawn(c, brought) \in Conversations
<1>1. CASE c.group = None \/ c.group.avatar = None
  BY <1>1 DEF Promised!Redrawn
<1>2. CASE c.group # None /\ c.group.avatar # None
  <2> DEFINE x == c.group.avatar
             y == Promised!Latest(x, brought)
             group == [c.group EXCEPT !.avatar = y]
  <2>1. c.group \in Groups /\ x \in Attachments
    BY <1>2 DEF Conversations, Groups
  <2>2. y \in Attachments
    <3>1. CASE \E b \in brought : b.id = x.id
      <4>1. (CHOOSE b \in brought : b.id = x.id) \in brought
        BY <3>1
      <4>. QED
        BY <3>1, <4>1 DEF Promised!Latest
    <3>2. CASE ~\E b \in brought : b.id = x.id
      BY <2>1, <3>2 DEF Promised!Latest
    <3>. QED
      BY <3>1, <3>2
  <2> HIDE DEF y
  <2>3. group \in Groups
    BY <2>1, <2>2 DEF Groups
  <2>4. c # None
    BY NothingAssumption
  <2>5. Promised!Redrawn(c, brought) = [c EXCEPT !.group = group]
    BY <1>2, <2>4 DEF Promised!Redrawn, y
  <2> HIDE DEF group
  <2>. QED
    BY <2>3, <2>5 DEF Conversations
<1>. QED
  BY <1>1, <1>2

(* What is there afterwards when attachments were brought.                 *)
LEMMA BroughtAttachments ==
  ASSUME NEW t, LoadedHold(t), NEW new, NEW brought, brought \subseteq Attachments,
         AttachmentTables(t, new, brought)
  PROVE  \A id \in Ids(new.attachments) : LoadAttachment(new, id) \in Attachments
<1> SUFFICES ASSUME NEW id \in Ids(new.attachments) PROVE LoadAttachment(new, id) \in Attachments
  OBVIOUS
<1>1. CASE id \in Ids(brought)
  <2>1. PICK x \in brought : x.id = id
    BY <1>1 DEF Ids
  <2>. QED
    BY <2>1 DEF AttachmentTables
<1>2. CASE id \notin Ids(brought)
  BY <1>2 DEF AttachmentTables, LoadedHold
<1>. QED
  BY <1>1, <1>2

(* Saving an account keeps the tables and what is loaded in their types.   *)
LEMMA AccountHolds ==
  ASSUME NEW t, RowsHold(t), TablesHold(t), LoadedHold(t), NEW a \in Accounts,
         AccountIsValid(a), UniqueRows(AccountRows(t, a)), ReferencesHold(AccountRows(t, a))
  PROVE  TablesHold(AccountRows(t, a)) /\ LoadedHold(AccountRows(t, a))
<1> DEFINE new == AccountRows(t, a)
           gone == Gone(t, a)
<1>1. AccountShape(a) /\ DOMAIN t = Tables
  BY AccountShaped DEF RowsHold
<1>2. AccountEffect(t, new, a)
  BY <1>1, AccountEffects
<1>3. /\ new.conversations = t.conversations /\ new.participants = t.participants
      /\ new.groups = t.groups /\ new.attachments = t.attachments
      /\ new.receipts = t.receipts /\ new.messages = t.messages
      /\ new.accounts = {r \in t.accounts : r.id # a.id} \union {[id |-> a.id, name |-> a.name]}
      /\ new.identities = {i \in t.identities : i.account # a.id} \union
           {[id |-> i.id, account |-> a.id, address |-> i.address] : i \in a.identities}
      /\ new.devices = DevicesOfOthers(t, a) \union
           {[id |-> d.id, account |-> a.id, link |-> d.link] : d \in a.devices}
  BY <1>1 DEF AccountRows, Tables, NoRows
<1>4. \A d \in DevicesOfOthers(t, a) : \E e \in t.devices : d = Kept(e, gone)
  BY DevicesStay DEF Gone
<1> HIDE DEF new, gone
<1>5. TablesHold(new)
  <2>1. EnsureUnique(new.accounts)
    BY <1>3 DEF TablesHold, EnsureUnique
  <2>2. \A r \in new.accounts : r = [id |-> r.id, name |-> r.name]
    BY <1>3 DEF TablesHold
  <2>3. \A r \in new.identities : r = [id |-> r.id, account |-> r.account, address |-> r.address]
    BY <1>3 DEF TablesHold
  <2>4. \A r \in new.devices : r = [id |-> r.id, account |-> r.account, link |-> r.link]
    BY <1>3, <1>4 DEF Kept
  <2>. QED
    BY <1>3, <2>1, <2>2, <2>3, <2>4 DEF TablesHold
<1>6. \A id \in Ids(new.accounts) : id = a.id \/ id \in Ids(t.accounts)
  BY <1>3 DEF Ids
<1>7. \A id \in Ids(new.accounts) : GetAccount(new, id) \in Accounts
  BY <1>2, <1>6, UnlinkedIsAccount DEF AccountEffect, LoadedHold
<1>8. \A id : GetGroup(new, id) = GetGroup(t, id)
  BY <1>2, <1>3 DEF GetGroup, AccountEffect
<1>9. LoadedHold(new)
  BY <1>2, <1>3, <1>7, <1>8 DEF LoadedHold, AccountEffect
<1>. QED
  BY <1>5, <1>9 DEF new

(* Saving a conversation keeps them.                                       *)
LEMMA ConversationHolds ==
  ASSUME NEW t, RowsHold(t), TablesHold(t), LoadedHold(t), NEW c \in Conversations,
         ConversationIsValid(c), UniqueRows(ConversationRows(t, c)),
         ReferencesHold(ConversationRows(t, c))
  PROVE  TablesHold(ConversationRows(t, c)) /\ LoadedHold(ConversationRows(t, c))
<1> DEFINE new == ConversationRows(t, c)
<1>1. ConversationShape(c) /\ c.group \in Groups \union {None} /\ Avatars(c) \subseteq Attachments
  BY ConversationShaped
<1>2. /\ ConversationEffect(t, new, c) /\ ConversationTables(t, new, c)
      /\ AttachmentTables(t, new, Avatars(c)) /\ RowsHold(new)
  BY <1>1, ConversationEffects, ConversationTablesMade, ConversationRowsHold
<1> HIDE DEF new
<1>3. TablesHold(new)
  <2>1. /\ EnsureUnique(new.accounts) /\ EnsureUnique(new.conversations) /\ EnsureUnique(new.groups)
        /\ EnsureUnique(new.attachments) /\ EnsureUnique(new.messages)
    BY <1>2 DEF ConversationTables, AttachmentTables, TablesHold, EnsureUnique, GroupRow
  <2>2. /\ \A r \in new.accounts : r = [id |-> r.id, name |-> r.name]
        /\ \A r \in new.identities :
             r = [id |-> r.id, account |-> r.account, address |-> r.address]
        /\ \A r \in new.devices : r = [id |-> r.id, account |-> r.account, link |-> r.link]
        /\ \A r \in new.receipts :
             r = [message |-> r.message, table |-> r.table, by |-> r.by, at |-> r.at]
    BY <1>2 DEF ConversationTables, TablesHold
  <2>3. \A r \in new.participants :
          r = [id |-> r.id, conversation |-> r.conversation, identity |-> r.identity]
    BY <1>2 DEF ConversationTables, TablesHold
  <2>4. ASSUME NEW d \in new.conversations
        PROVE  d.kind = "direct" \/ (d.kind = "group" /\ d.id \in Ids(new.groups))
    <3>1. CASE d \in t.conversations /\ d.id # c.id
      BY <1>2, <3>1 DEF ConversationTables, TablesHold, Ids
    <3>2. CASE d = [id |-> c.id, kind |-> IF c.group = None THEN "direct" ELSE "group"]
      <4>1. c.group # None => GroupRow(c) \in new.groups /\ GroupRow(c).id = c.id
        BY <1>2 DEF ConversationTables, GroupRow
      <4>. QED
        BY <3>2, <4>1 DEF Ids
    <3>. QED
      BY <1>2, <3>1, <3>2 DEF ConversationTables
  <2>5. ASSUME NEW g \in new.groups
        PROVE  g.owner \in Ids({p \in new.participants : p.conversation = g.id}) \union {None}
    <3>1. CASE g \in t.groups /\ g.id # c.id
      <4>1. \A p \in t.participants : p.conversation = g.id => p \in new.participants
        BY <1>2, <3>1 DEF ConversationTables
      <4>. QED
        BY <3>1, <4>1 DEF TablesHold, Ids
    <3>2. CASE c.group # None /\ g = GroupRow(c)
      <4>1. g.id = c.id /\ g.owner \in Ids(c.participants) \union {None}
        BY <3>2 DEF GroupRow, ConversationIsValid
      <4>2. ASSUME NEW p \in c.participants
            PROVE \E q \in new.participants : q.conversation = c.id /\ q.id = p.id
        <5> DEFINE q == [id |-> p.id, conversation |-> c.id, identity |-> p.identity]
        <5>1. q \in new.participants /\ q.conversation = c.id /\ q.id = p.id
          BY <1>2 DEF ConversationTables
        <5> HIDE DEF q
        <5>. QED
          BY <5>1
      <4>. QED
        BY <4>1, <4>2 DEF Ids
    <3>. QED
      BY <1>2, <3>1, <3>2 DEF ConversationTables
  <2>. QED
    BY <2>1, <2>2, <2>3, <2>4, <2>5 DEF TablesHold
<1>4. \A id \in Ids(new.attachments) : LoadAttachment(new, id) \in Attachments
  BY <1>1, <1>2, BroughtAttachments
<1>5. \A id \in Ids(new.accounts) : GetAccount(new, id) \in Accounts
  BY <1>2 DEF ConversationTables, ConversationEffect, LoadedHold
<1>6. \A id \in Ids(new.messages) :
        GetMessage(new, id) \in MessageValues /\ MessageIsValid(GetMessage(new, id))
  BY <1>2 DEF ConversationTables, ConversationEffect, LoadedHold
<1>7. \A id \in Ids(new.conversations) : GetConversation(new, id) \in Conversations
  <2>1. \A id \in Ids(new.conversations) : id = c.id \/ id \in Ids(t.conversations)
    BY <1>2 DEF ConversationTables, Ids
  <2>. QED
    BY <1>1, <1>2, <2>1, RedrawnIsConversation DEF ConversationEffect, LoadedHold
<1>8. ASSUME NEW id \in Ids(new.groups) PROVE GetGroup(new, id) \in Groups
  <2>1. PICK g \in new.groups : g.id = id
    BY DEF Ids
  <2>2. CASE g \in t.groups /\ g.id # c.id
    <3>1. EnsureUnique(new.groups) /\ EnsureUnique(t.groups)
      BY <1>3 DEF TablesHold
    <3>2. id \in Ids(t.groups) /\ Row(new.groups, id) = g /\ Row(t.groups, id) = g
      BY <2>1, <2>2, <3>1, RowChosen DEF Ids
    <3>. QED
      BY <1>2, <1>3, <1>4, <3>2, GroupsHold
  <2>3. CASE c.group # None /\ g = GroupRow(c)
    <3>1. id = c.id
      BY <2>1, <2>3 DEF GroupRow
    <3>2. GetGroup(new, c.id) = c.group
      BY <1>1, <1>2, <2>3, ConversationSaved
    <3>. QED
      BY <1>1, <2>3, <3>1, <3>2
  <2>. QED
    BY <1>2, <2>2, <2>3 DEF ConversationTables
<1>. QED
  BY <1>3, <1>4, <1>5, <1>6, <1>7, <1>8 DEF LoadedHold, new

(* Saving a message keeps them.                                            *)
LEMMA MessageHolds ==
  ASSUME NEW t, RowsHold(t), TablesHold(t), LoadedHold(t), NEW m \in MessageValues,
         MessageIsValid(m), UniqueRows(MessageRows(t, m)), ReferencesHold(MessageRows(t, m))
  PROVE  TablesHold(MessageRows(t, m)) /\ LoadedHold(MessageRows(t, m))
<1> DEFINE new == MessageRows(t, m)
<1>1. MessageShape(m) /\ Brought(m) \subseteq Attachments
  BY MessageShaped
<1>2. /\ MessageEffect(t, new, m) /\ MessageTables(t, new, m)
      /\ AttachmentTables(t, new, Brought(m)) /\ RowsHold(new)
  BY <1>1, MessageEffects, MessageTablesMade, MessageRowsHold
<1> HIDE DEF new
<1>3. TablesHold(new)
  <2>1. /\ EnsureUnique(new.accounts) /\ EnsureUnique(new.conversations) /\ EnsureUnique(new.groups)
        /\ EnsureUnique(new.attachments) /\ EnsureUnique(new.messages)
    BY <1>2 DEF MessageTables, AttachmentTables, TablesHold, EnsureUnique
  <2>2. \A r \in new.receipts :
          r = [message |-> r.message, table |-> r.table, by |-> r.by, at |-> r.at]
    BY <1>2 DEF MessageTables, TablesHold
  <2>. QED
    BY <1>2, <2>1, <2>2 DEF TablesHold, MessageTables
<1>4. \A id \in Ids(new.attachments) : LoadAttachment(new, id) \in Attachments
  BY <1>1, <1>2, BroughtAttachments
<1>5. \A id \in Ids(new.accounts) : GetAccount(new, id) \in Accounts
  BY <1>2 DEF MessageTables, MessageEffect, LoadedHold
<1>6. \A id \in Ids(new.messages) :
        GetMessage(new, id) \in MessageValues /\ MessageIsValid(GetMessage(new, id))
  <2>1. \A id \in Ids(new.messages) : id = m.id \/ id \in Ids(t.messages)
    BY <1>2 DEF MessageTables, Ids
  <2>. QED
    BY <1>2, <2>1 DEF MessageEffect, LoadedHold
<1>7. \A id \in Ids(new.conversations) : GetConversation(new, id) \in Conversations
  BY <1>1, <1>2, RedrawnIsConversation DEF MessageTables, MessageEffect, LoadedHold
<1>8. \A id \in Ids(new.groups) : GetGroup(new, id) \in Groups
  <2>1. new.groups = t.groups
    BY <1>2 DEF MessageTables
  <2>. QED
    BY <1>2, <1>3, <1>4, <2>1, GroupsHold
<1>. QED
  BY <1>3, <1>4, <1>5, <1>6, <1>7, <1>8 DEF LoadedHold, new

(* Whatever is loaded by an id is the same of both.                        *)
SameValues(t, new) ==
  /\ \A id : GetAccount(new, id) = GetAccount(t, id)
  /\ \A id : GetConversation(new, id) = GetConversation(t, id)
  /\ \A id : GetMessage(new, id) = GetMessage(t, id)
  /\ \A id : LoadAttachment(new, id) = LoadAttachment(t, id)

(* Where no other table changes, all that is loaded stays, and its types.  *)
LEMMA OtherTablesHold ==
  ASSUME NEW t, RowsHold(t), TablesHold(t), LoadedHold(t), NEW new,
         \A table \in Tables \ {"unread", "sync", "claims"} : new[table] = t[table]
  PROVE  TablesHold(new) /\ LoadedHold(new) /\ SameValues(t, new)
<1>1. /\ new.accounts = t.accounts /\ new.identities = t.identities /\ new.devices = t.devices
      /\ new.conversations = t.conversations /\ new.participants = t.participants
      /\ new.groups = t.groups /\ new.attachments = t.attachments
      /\ new.parts = t.parts /\ new.mutations = t.mutations /\ new.reactions = t.reactions
      /\ new.receipts = t.receipts /\ new.messages = t.messages
      /\ new.extensions = t.extensions
  BY DEF Tables, NoRows
<1>2. \A k, id : LoadExtension(new, k, id) = LoadExtension(t, k, id)
  BY <1>1 DEF LoadExtension
<1>3. \A id : LoadAttachment(new, id) = LoadAttachment(t, id)
  BY <1>1, <1>2 DEF LoadAttachment
<1>4. \A id : GetMessage(new, id) = GetMessage(t, id)
  BY <1>1, <1>2, MessagesAlone
<1>5. \A id : GetAccount(new, id) = GetAccount(t, id)
  BY <1>1, <1>2, AccountsAlone
<1>6. \A id : GetConversation(new, id) = GetConversation(t, id)
  <2>1. EnsureUnique({}) /\ AttachmentTables(t, new, {})
    BY <1>1, <1>3 DEF EnsureUnique, AttachmentTables, Ids, TablesHold
  <2>2. \A id : GetConversation(new, id) = Promised!Redrawn(GetConversation(t, id), {})
    BY <1>1, <1>2, <2>1, ConversationsAlone
  <2>3. \A id : GetConversation(t, id) \in Conversations \union {None}
    BY DEF LoadedHold, GetConversation
  <2>. QED
    BY <2>2, <2>3, RedrawnWithNothing
<1>7. \A id : GetGroup(new, id) = GetGroup(t, id)
  BY <1>1, <1>3 DEF GetGroup
<1>8. TablesHold(new)
  BY <1>1 DEF TablesHold
<1>9. LoadedHold(new)
  BY <1>1, <1>3, <1>4, <1>5, <1>6, <1>7 DEF LoadedHold
<1>. QED
  BY <1>3, <1>4, <1>5, <1>6, <1>8, <1>9 DEF SameValues

(* Nothing is in the tables of a new file.                                 *)
LEMMA NothingHolds == TablesHold(NoRows) /\ LoadedHold(NoRows)
<1>1. /\ NoRows.accounts = {} /\ NoRows.conversations = {} /\ NoRows.groups = {}
      /\ NoRows.attachments = {} /\ NoRows.messages = {} /\ NoRows.identities = {}
      /\ NoRows.devices = {} /\ NoRows.participants = {} /\ NoRows.receipts = {}
  BY DEF NoRows
<1>2. Ids({}) = {} /\ EnsureUnique({})
  BY DEF Ids, EnsureUnique
<1>. QED
  BY <1>1, <1>2 DEF TablesHold, LoadedHold

(* The invariant: the rows belong together, their tables have keys, and    *)
(* what is loaded from them has the types of crates/core.                  *)
StoredHold(t) == RowsHold(t) /\ TablesHold(t) /\ LoadedHold(t)

StoredInv == StoredHold(db)

(* The tables after the saves of a counter, of sync state and of a key.    *)
Counted(t, new) ==
  DOMAIN new = Tables /\ \A table \in Tables \ {"unread", "sync", "claims"} : new[table] = t[table]

UnreadRows(t, c, n) ==
  [t EXCEPT !.unread = {u \in @ : u.conversation # c} \union {[conversation |-> c, count |-> n]}]

SyncRows(t, table, account, value) ==
  [t EXCEPT !.sync = {s \in @ : s.table # table \/ s.account # account} \union
     {[table |-> table, account |-> account, value |-> value]}]

ClaimRows(t, k, object) == [t EXCEPT !.claims = @ \union {[key |-> k, object |-> object]}]

(* The tables of one accepted save, all of it.                             *)
SaveAccepted(t, new) ==
  \/ \E a \in AccountValues : AccountIsValid(a) /\ new = AccountRows(t, a)
  \/ \E c \in ConversationValues : ConversationIsValid(c) /\ new = ConversationRows(t, c)
  \/ \E m \in MessageValues : MessageIsValid(m) /\ new = MessageRows(t, m)
  \/ \E c \in ConversationIds, n \in Counts : new = UnreadRows(t, c, n)
  \/ \E s \in Syncs, cursor \in Cursors : new = SyncRows(t, s.table, s.account, cursor)
  \/ \E k \in Keys, x \in Objects : ~(\E r \in t.claims : r.key = k) /\ new = ClaimRows(t, k, x)

(* A step writes nothing, or all of one save that the domain and the       *)
(* constraints of the schema accept.                                       *)
LEMMA StepSaves ==
  ASSUME [DatabaseNext]_databaseVars
  PROVE  \/ db' = db
         \/ UniqueRows(db') /\ ReferencesHold(db') /\ SaveAccepted(db, db')
<1>1. CASE UNCHANGED db
  BY <1>1
<1>2. CASE \E a \in AccountValues : SaveAccount(a)
  BY <1>2 DEF SaveAccount, Transaction, SaveAccepted
<1>3. CASE \E c \in ConversationValues : SaveConversation(c)
  BY <1>3 DEF SaveConversation, Transaction, SaveAccepted
<1>4. CASE \E m \in MessageValues : SaveMessage(m)
  BY <1>4 DEF SaveMessage, Transaction, SaveAccepted
<1>5. CASE \E c \in ConversationIds, n \in Counts : SetUnreadState(c, n)
  BY <1>5 DEF SetUnreadState, Transaction, SaveAccepted, UnreadRows
<1>6. CASE \E s \in Syncs, cursor \in Cursors : SaveSync(s.table, s.account, cursor)
  BY <1>6 DEF SaveSync, Transaction, SaveAccepted, SyncRows
<1>7. CASE \E k \in Keys, x \in Objects : ClaimDeduplicationKey(k, x)
  BY <1>7 DEF ClaimDeduplicationKey, Transaction, SaveAccepted, ClaimRows
<1>. QED
  BY <1>1, <1>2, <1>3, <1>4, <1>5, <1>6, <1>7
     DEF DatabaseNext, databaseVars, RequestName, Stop

(* The saves without a value change one table each.                        *)
LEMMA CountedSaves ==
  ASSUME NEW t, DOMAIN t = Tables
  PROVE  /\ \A c, n : Counted(t, UnreadRows(t, c, n))
         /\ \A table, account, value : Counted(t, SyncRows(t, table, account, value))
         /\ \A k, object : Counted(t, ClaimRows(t, k, object))
  BY DEF Counted, UnreadRows, SyncRows, ClaimRows

(* An accepted save keeps everything that holds of the tables.             *)
LEMMA SaveKeepsStored ==
  ASSUME NEW t, StoredHold(t), NEW new, SaveAccepted(t, new), UniqueRows(new), ReferencesHold(new)
  PROVE  StoredHold(new)
<1>1. RowsHold(t) /\ TablesHold(t) /\ LoadedHold(t) /\ DOMAIN t = Tables
  BY DEF StoredHold, RowsHold
<1>2. ASSUME NEW a \in AccountValues, AccountIsValid(a), new = AccountRows(t, a)
      PROVE  StoredHold(new)
  <2>1. a \in Accounts
    BY ValuesAssumption
  <2>. QED
    BY <1>1, <1>2, <2>1, AccountHolds, AccountRowsHold DEF StoredHold
<1>3. ASSUME NEW c \in ConversationValues, ConversationIsValid(c), new = ConversationRows(t, c)
      PROVE  StoredHold(new)
  <2>1. c \in Conversations
    BY ValuesAssumption
  <2>. QED
    BY <1>1, <1>3, <2>1, ConversationHolds, ConversationRowsHold DEF StoredHold
<1>4. ASSUME NEW m \in MessageValues, MessageIsValid(m), new = MessageRows(t, m)
      PROVE  StoredHold(new)
  BY <1>1, <1>4, MessageHolds, MessageRowsHold DEF StoredHold
<1>5. ASSUME Counted(t, new) PROVE StoredHold(new)
  BY <1>1, <1>5, OtherRowsHold, OtherTablesHold DEF StoredHold, Counted
<1>. QED
  BY <1>1, <1>2, <1>3, <1>4, <1>5, CountedSaves DEF SaveAccepted

(* The tables are right and can be loaded in every state: no sequence of   *)
(* saves, whatever rows they share, leaves a value that does not load.     *)
LEMMA StoredAlways == DatabaseSpec => []StoredInv
<1>1. DatabaseInit => StoredInv
  BY RowsStart, NothingHolds DEF DatabaseInit, StoredInv, StoredHold
<1>2. StoredInv /\ [DatabaseNext]_databaseVars => StoredInv'
  <2> SUFFICES ASSUME StoredInv, [DatabaseNext]_databaseVars PROVE StoredHold(db')
    BY DEF StoredInv
  <2>1. CASE db' = db
    BY <2>1 DEF StoredInv
  <2>2. CASE UniqueRows(db') /\ ReferencesHold(db') /\ SaveAccepted(db, db')
    BY <2>2, SaveKeepsStored DEF StoredInv
  <2>. QED
    BY <2>1, <2>2, StepSaves
<1>. QED
  BY <1>1, <1>2, PTL DEF DatabaseSpec

(* A value that can be saved again, and is loaded again.                   *)
AccountAgain(t, a) ==
  /\ AccountIsValid(a) /\ UniqueRows(AccountRows(t, a)) /\ ReferencesHold(AccountRows(t, a))
  /\ GetAccount(AccountRows(t, a), a.id) = a

ConversationAgain(t, c) ==
  /\ ConversationIsValid(c)
  /\ UniqueRows(ConversationRows(t, c)) /\ ReferencesHold(ConversationRows(t, c))
  /\ c # Corrupt /\ GetConversation(ConversationRows(t, c), c.id) = c

MessageAgain(t, m) ==
  /\ MessageIsValid(m) /\ UniqueRows(MessageRows(t, m)) /\ ReferencesHold(MessageRows(t, m))
  /\ m # Corrupt /\ GetMessage(MessageRows(t, m), m.id) = m

(* An account that is loaded passes the checks again: its rows are those   *)
(* that are there.                                                         *)
LEMMA LoadedAccount ==
  ASSUME NEW t, StoredHold(t), NEW id, id \in Ids(t.accounts)
  PROVE  AccountAgain(t, GetAccount(t, id))
<1> DEFINE a == GetAccount(t, id)
           new == AccountRows(t, a)
           Load(i) == [id |-> i.id, address |-> i.address,
                       extension |-> LoadExtension(t, "identity", i.id)]
           LoadD(d) == [id |-> d.id, account |-> id, link |-> d.link,
                        extension |-> LoadExtension(t, "device", d.id)]
           identities == {j \in t.identities : j.account = id}
           devices == {e \in t.devices : e.account = id}
           Make(i) == [id |-> i.id, account |-> id, address |-> i.address]
           MakeD(d) == [id |-> d.id, account |-> id, link |-> d.link]
<1>1. RowsHold(t) /\ TablesHold(t) /\ LoadedHold(t) /\ DOMAIN t = Tables /\ UniqueRows(t)
      /\ ReferencesHold(t)
  BY DEF StoredHold, RowsHold
<1>2. a \in Accounts /\ AccountShape(a)
  BY <1>1, AccountShaped DEF LoadedHold
<1>3. /\ a.id = id /\ a.identities = {Load(i) : i \in identities}
      /\ a.devices = {LoadD(d) : d \in devices}
  BY DEF GetAccount
<1>4. /\ EnsureUnique(t.identities) /\ EnsureUnique(t.devices)
  BY <1>1 DEF UniqueRows
<1>5. /\ \A i \in identities : i \in t.identities /\ Load(i).id = i.id /\ Make(Load(i)) = i
      /\ \A d \in devices : d \in t.devices /\ LoadD(d).id = d.id /\ LoadD(d).account = id /\ MakeD(LoadD(d)) = d
  BY <1>1 DEF TablesHold
<1> HIDE DEF a
<1>6. AccountIsValid(a)
  <2> HIDE DEF Load, LoadD, identities, devices
  <2>. QED
    BY <1>3, <1>4, <1>5 DEF AccountIsValid, EnsureUnique
<1>7. /\ new.identities = {i \in t.identities : i.account # a.id} \union {Make(i) : i \in a.identities}
      /\ new.devices = DevicesOfOthers(t, a) \union {MakeD(d) : d \in a.devices}
      /\ new.participants = t.participants /\ new.mutations = t.mutations
      /\ new.reactions = t.reactions /\ new.receipts = t.receipts
      /\ new.groups = t.groups /\ new.messages = t.messages
      /\ new.conversations = t.conversations /\ new.unread = t.unread
  BY <1>1, <1>3 DEF AccountRows, Tables, NoRows
<1>8. /\ \A d \in DevicesOfOthers(t, a) :
           \E e \in t.devices : e.account # a.id /\ d = Kept(e, Gone(t, a))
  BY <1>1, DevicesStay DEF Gone
<1>9. new.identities = t.identities
  <2>1. {Make(i) : i \in a.identities} = identities
    <3> HIDE DEF Load, Make, identities, new
    <3>. QED
      BY <1>3, <1>5
  <2>. QED
    BY <1>3, <1>7, <2>1
<1>10. {MakeD(d) : d \in a.devices} = devices
    <2> HIDE DEF LoadD, MakeD, devices, new
    <2>. QED
      BY <1>3, <1>5
<1> HIDE DEF new
<1>11. \A d \in new.devices : \E e \in t.devices :
         /\ d.id = e.id /\ (d.link = e.link \/ d.link = None)
         /\ d = IF e.account = id THEN e ELSE Kept(e, Gone(t, a))
  BY <1>3, <1>7, <1>8, <1>10 DEF Kept
<1>12. EnsureUnique(new.devices)
  BY <1>4, <1>11 DEF EnsureUnique
<1>13. UniqueRows(new)
  BY <1>1, <1>7, <1>9, <1>12 DEF UniqueRows
<1>14. ReferencesHold(new)
  BY <1>1, <1>7, <1>9, <1>11 DEF ReferencesHold
<1>15. GetAccount(new, a.id) = a
  BY <1>1, <1>2, <1>6, AccountSaved DEF new
<1>. QED
  BY <1>6, <1>13, <1>14, <1>15 DEF AccountAgain, a, new

(* So does a conversation, with the avatar that it has by now.            *)
LEMMA LoadedConversation ==
  ASSUME NEW t, StoredHold(t), NEW id, id \in Ids(t.conversations)
  PROVE  ConversationAgain(t, GetConversation(t, id))
<1> DEFINE c == GetConversation(t, id)
           new == ConversationRows(t, c)
           Load(p) == [id |-> p.id, identity |-> p.identity,
                       extension |-> LoadExtension(t, "participant", p.id)]
           people == {q \in t.participants : q.conversation = id}
           Make(p) == [id |-> p.id, conversation |-> id, identity |-> p.identity]
           isGroup == Row(t.conversations, id).kind = "group"
<1>1. RowsHold(t) /\ TablesHold(t) /\ LoadedHold(t) /\ UniqueRows(t) /\ ReferencesHold(t)
  BY DEF StoredHold, RowsHold
<1>2. c \in Conversations /\ ConversationShape(c) /\ c # Corrupt
  BY <1>1, ConversationShaped, NothingAssumption DEF LoadedHold
<1>3. /\ c.id = id /\ c.participants = {Load(p) : p \in people}
      /\ c.group = IF isGroup THEN GetGroup(t, id) ELSE None
      /\ isGroup => id \in Ids(t.groups)
  <2>1. ~(isGroup /\ id \notin Ids(t.groups))
    BY <1>2 DEF GetConversation
  <2>. QED
    BY <2>1 DEF GetConversation
<1> HIDE DEF c, new
<1>4. \A p \in people : Load(p).id = p.id /\ Make(Load(p)) = p
  BY <1>1 DEF TablesHold
<1>5. EnsureUnique(c.participants)
  <2>1. EnsureUnique(people)
    BY <1>1 DEF UniqueRows, EnsureUnique
  <2> HIDE DEF Load, people
  <2>. QED
    BY <1>3, <1>4, <2>1 DEF EnsureUnique
<1>6. \A p \in people : p.id \in Ids(c.participants)
  <2>1. \A p \in people : Load(p) \in c.participants
    BY <1>3
  <2> HIDE DEF Load, people
  <2>. QED
    BY <1>4, <2>1 DEF Ids
<1>7. c.group # None => c.group.owner \in Ids(c.participants) \union {None}
  <2> SUFFICES ASSUME c.group # None PROVE c.group.owner \in Ids(c.participants) \union {None}
    OBVIOUS
  <2>1. isGroup /\ id \in Ids(t.groups)
    BY <1>3
  <2>2. PICK g \in t.groups : g.id = id
    BY <2>1 DEF Ids
  <2>3. Row(t.groups, id) = g
    BY <1>1, <2>2, RowChosen DEF TablesHold
  <2>4. c.group.owner = g.owner
    BY <1>3, <2>1, <2>3 DEF GetGroup
  <2>5. g.owner \in Ids({p \in t.participants : p.conversation = id}) \union {None}
    BY <1>1, <2>2 DEF TablesHold
  <2>. QED
    BY <1>6, <2>4, <2>5 DEF Ids
<1>8. ConversationIsValid(c)
  BY <1>5, <1>7 DEF ConversationIsValid
<1>9. ConversationTables(t, new, c) /\ AttachmentTables(t, new, Avatars(c))
  BY <1>1, <1>2, <1>8, ConversationTablesMade DEF new
<1>10. \A r : r \in new.participants <=> r \in t.participants
  <2>1. \A r : r \in new.participants <=>
          (r \in t.participants /\ r.conversation # id) \/ \E p \in c.participants : r = Make(p)
    BY <1>3, <1>9 DEF ConversationTables
  <2>2. \A r : r \in people <=> r \in t.participants /\ r.conversation = id
    OBVIOUS
  <2>3. \A p \in c.participants : \E q \in people : Make(p) = q
    <3> HIDE DEF Load, Make, people
    <3>. QED
      BY <1>3, <1>4
  <2>4. \A q \in people : \E p \in c.participants : q = Make(p)
    <3> HIDE DEF Load, Make, people
    <3>. QED
      BY <1>3, <1>4
  <2> HIDE DEF Make, people
  <2>. QED
    BY <2>1, <2>2, <2>3, <2>4
<1>11. new.participants = t.participants
  BY <1>10
<1>12. UniqueRows(new)
  BY <1>1, <1>9, <1>11 DEF UniqueRows, ConversationTables
<1>13. \A p \in c.participants : p.id \in Ids(new.participants)
  <2>1. \A p \in c.participants : Make(p) \in new.participants /\ Make(p).id = p.id
    BY <1>3, <1>9 DEF ConversationTables
  <2> HIDE DEF Make
  <2>. QED
    BY <2>1 DEF Ids
<1>14. Ids(t.conversations) \subseteq Ids(new.conversations)
  <2>1. \E r \in new.conversations : r.id = c.id
    <3> DEFINE row == [id |-> c.id, kind |-> IF c.group = None THEN "direct" ELSE "group"]
    <3>1. row \in new.conversations /\ row.id = c.id
      BY <1>9 DEF ConversationTables
    <3> HIDE DEF row
    <3>. QED
      BY <3>1
  <2>. QED
    BY <1>9, <2>1 DEF ConversationTables, Ids
<1>15. \A g \in new.groups : g.owner \in Ids(new.participants) \union {None}
  <2>1. GroupRow(c).owner = c.group.owner
    BY DEF GroupRow
  <2>2. \A g \in t.groups : g.owner \in Ids(new.participants) \union {None}
    BY <1>1, <1>11 DEF ReferencesHold
  <2>3. c.group # None => c.group.owner \in Ids(new.participants) \union {None}
    BY <1>7, <1>13 DEF Ids
  <2>. QED
    BY <1>9, <2>1, <2>2, <2>3 DEF ConversationTables
<1>16. ReferencesHold(new)
  BY <1>1, <1>9, <1>14, <1>15 DEF ReferencesHold, ConversationTables
<1>17. GetConversation(new, c.id) = c
  BY <1>1, <1>2, <1>9, ConversationSaved
<1>. QED
  BY <1>2, <1>8, <1>12, <1>16, <1>17 DEF ConversationAgain, c, new

(* So does a message.                                                      *)
LEMMA LoadedMessage ==
  ASSUME NEW t, StoredHold(t), NEW id, id \in Ids(t.messages)
  PROVE  MessageAgain(t, GetMessage(t, id))
<1> DEFINE m == GetMessage(t, id)
           new == MessageRows(t, m)
           own(table) == {r \in table : r.message = id}
           Load(r) == [table |-> r.table, by |-> r.by, at |-> r.at]
           Make(r) == [message |-> id, table |-> r.table, by |-> r.by, at |-> r.at]
           row == Row(t.messages, id)
<1>1. RowsHold(t) /\ TablesHold(t) /\ LoadedHold(t) /\ UniqueRows(t) /\ ReferencesHold(t)
  BY DEF StoredHold, RowsHold
<1>2. m \in MessageValues /\ MessageIsValid(m) /\ MessageShape(m) /\ m # Corrupt
  BY <1>1, MessageShaped, NothingAssumption DEF LoadedHold
<1>3. /\ m.id = id /\ m.conversation = row.conversation /\ m.reply = row.reply
      /\ m.mutations = own(t.mutations) /\ m.reactions = own(t.reactions)
      /\ m.receipts = {Load(r) : r \in own(t.receipts)}
  <2>1. ~(row.readState = "read" /\ row.readAt = None)
    BY <1>2 DEF GetMessage
  <2>. QED
    BY <2>1 DEF GetMessage, GetReceipts
<1> HIDE DEF m, new
<1>4. MessageTables(t, new, m)
  BY <1>1, <1>2, MessageTablesMade DEF new
<1>5. new.mutations = t.mutations /\ new.reactions = t.reactions
  BY <1>3, <1>4 DEF MessageTables
<1>6. \A r \in own(t.receipts) : Make(Load(r)) = r
  BY <1>1 DEF TablesHold
<1>7. new.receipts = t.receipts
  <2>1. \A r : r \in new.receipts <=>
          (r \in t.receipts /\ r.message # id) \/ \E s \in m.receipts : r = Make(s)
    BY <1>3, <1>4 DEF MessageTables
  <2> DEFINE mine == own(t.receipts)
  <2>2. \A r : r \in mine <=> r \in t.receipts /\ r.message = id
    OBVIOUS
  <2>3. /\ \A s \in m.receipts : \E r \in mine : Make(s) = r
        /\ \A r \in mine : \E s \in m.receipts : r = Make(s)
    <3> HIDE DEF Load, Make, mine
    <3>. QED
      BY <1>3, <1>6 DEF mine
  <2> HIDE DEF Make, mine
  <2>4. \A r : r \in new.receipts <=> r \in t.receipts
    BY <2>1, <2>2, <2>3
  <2>. QED
    BY <2>4
<1>8. UniqueRows(new)
  BY <1>1, <1>4, <1>5, <1>7 DEF UniqueRows, MessageTables
<1>9. row \in t.messages /\ row.id = id
  BY DEF Ids, Row
<1>10. Ids(t.messages) \subseteq Ids(new.messages)
  <2>1. \E r \in new.messages : r.id = m.id
    <3> DEFINE saved == [id |-> m.id, conversation |-> m.conversation, reply |-> m.reply,
                         readState |-> IF m.read = None THEN "unread" ELSE "read",
                         readAt |-> m.read]
    <3>1. saved \in new.messages /\ saved.id = m.id
      BY <1>4 DEF MessageTables
    <3> HIDE DEF saved
    <3>. QED
      BY <3>1
  <2>. QED
    BY <1>4, <2>1 DEF MessageTables, Ids
<1>11. \A r \in new.messages : \E s \in t.messages :
         r.conversation = s.conversation /\ r.reply = s.reply
  BY <1>3, <1>4, <1>9 DEF MessageTables
<1>12. ReferencesHold(new)
  BY <1>1, <1>4, <1>10, <1>11 DEF ReferencesHold, MessageTables
<1>13. GetMessage(new, m.id) = m
  BY <1>1, <1>2, <1>4, MessageSaved
<1>. QED
  BY <1>2, <1>8, <1>12, <1>13 DEF MessageAgain, m, new

(* Whatever the file holds is loaded as a value that validate accepts, that *)
(* the constraints let through again and that comes back the same.         *)
THEOREM LoadedIsAlwaysAccepted == DatabaseSpec => []LoadedIsAccepted
<1>1. StoredInv => LoadedIsAccepted
  <2> SUFFICES ASSUME StoredHold(db) PROVE LoadedIsAccepted
    BY DEF StoredInv
  <2>1. ASSUME NEW a \in ListAccounts(db)
        PROVE  StaysLoaded(AccountIsValid(a), AccountRows(db, a),
                           LAMBDA t : GetAccount(t, a.id), a)
    <3>1. PICK id \in Ids(db.accounts) : a = GetAccount(db, id)
      BY DEF ListAccounts
    <3>. QED
      BY <3>1, LoadedAccount DEF StaysLoaded, AccountAgain
  <2>2. ASSUME NEW c \in ListConversations(db)
        PROVE  /\ c # Corrupt
               /\ StaysLoaded(ConversationIsValid(c), ConversationRows(db, c),
                              LAMBDA t : GetConversation(t, c.id), c)
    <3>1. PICK id \in Ids(db.conversations) : c = GetConversation(db, id)
      BY DEF ListConversations
    <3>. QED
      BY <3>1, LoadedConversation DEF StaysLoaded, ConversationAgain
  <2>3. ASSUME NEW m \in {GetMessage(db, id) : id \in Ids(db.messages)}
        PROVE  /\ m # Corrupt
               /\ StaysLoaded(MessageIsValid(m), MessageRows(db, m),
                              LAMBDA t : GetMessage(t, m.id), m)
    <3>1. PICK id \in Ids(db.messages) : m = GetMessage(db, id)
      OBVIOUS
    <3>. QED
      BY <3>1, LoadedMessage DEF StaysLoaded, MessageAgain
  <2>. QED
    BY <2>1, <2>2, <2>3 DEF LoadedIsAccepted
<1>. QED
  BY <1>1, StoredAlways, PTL

(* What the archive calls gone are the identities whose rows are replaced. *)
LEMMA GoneIsLoaded ==
  ASSUME NEW t, StoredHold(t), NEW a
  PROVE  Gone(t, a) = IF GetAccount(t, a.id) = None THEN {}
                      ELSE {i.id : i \in GetAccount(t, a.id).identities}
<1> DEFINE old == GetAccount(t, a.id)
           own == {j \in t.identities : j.account = a.id}
           Load(i) == [id |-> i.id, address |-> i.address,
                       extension |-> LoadExtension(t, "identity", i.id)]
<1>1. a.id \in Ids(t.accounts) <=> old # None
  BY NothingAssumption DEF StoredHold, LoadedHold, GetAccount
<1>2. Gone(t, a) = {i.id : i \in own}
  BY DEF Gone, Ids
<1>3. CASE old = None
  <2>1. own = {}
    BY <1>1, <1>3 DEF StoredHold, RowsHold
  <2>. QED
    BY <1>2, <1>3, <2>1
<1>4. CASE old # None
  <2>1. old.identities = {Load(i) : i \in own}
    BY <1>1, <1>4 DEF GetAccount
  <2>2. \A i : Load(i).id = i.id
    OBVIOUS
  <2> HIDE DEF Load, own, old
  <2>3. {i.id : i \in old.identities} = {i.id : i \in own}
    BY <2>1, <2>2
  <2>. QED
    BY <1>2, <1>4, <2>3 DEF old
<1>. QED
  BY <1>3, <1>4

(* What is read of counters, sync state and keys.                          *)
LEMMA CountsAlone ==
  ASSUME NEW t, NEW new, SameCounts(t, new)
  PROVE  /\ \A c : UnreadState(new, c) = UnreadState(t, c)
         /\ \A table, account : SyncState(new, table, account) = SyncState(t, table, account)
         /\ \A k : Claimed(new, k) = Claimed(t, k)
  BY DEF SameCounts, UnreadState, SyncState, Claimed

(* An accepted account is a step of the archive.                           *)
LEMMA AccountIsArchived ==
  ASSUME StoredInv, NEW a \in AccountValues, AccountIsValid(a), db' = AccountRows(db, a),
         UniqueRows(db')
  PROVE  Promised!Save(a)
<1>1. a \in Accounts /\ AccountShape(a) /\ a.id \in AccountIds
  BY ValuesAssumption, AccountShaped
<1>2. StoredHold(db)
  BY DEF StoredInv
<1>3. AccountEffect(db, db', a)
  BY <1>1, <1>2, AccountEffects DEF StoredHold
<1> DEFINE gone == Gone(db, a)
<1>4. gone = IF GetAccount(db, a.id) = None THEN {}
             ELSE {i.id : i \in GetAccount(db, a.id).identities}
  BY <1>2, GoneIsLoaded
<1>5. /\ \A c : UnreadState(db', c) = UnreadState(db, c)
      /\ \A table, account : SyncState(db', table, account) = SyncState(db, table, account)
      /\ \A k : Claimed(db', k) = Claimed(db, k)
  BY <1>3, CountsAlone DEF AccountEffect
<1>. QED
  BY <1>1, <1>3, <1>4, <1>5 DEF Promised!Save, AccountEffect

(* The attachments after a save are those that the archive names.          *)
LEMMA AttachmentsAreArchived ==
  ASSUME NEW t, NEW new, NEW brought, EnsureUnique(brought), AttachmentTables(t, new, brought)
  PROVE  \A id : LoadAttachment(new, id) =
           IF \E b \in brought : b.id = id THEN CHOOSE b \in brought : b.id = id
           ELSE LoadAttachment(t, id)
<1> SUFFICES ASSUME NEW id
             PROVE  LoadAttachment(new, id) =
                      IF \E b \in brought : b.id = id THEN CHOOSE b \in brought : b.id = id
                      ELSE LoadAttachment(t, id)
  OBVIOUS
<1>1. CASE \E b \in brought : b.id = id
  <2>1. PICK b \in brought : b.id = id
    BY <1>1
  <2>2. \A w \in brought : w.id = id => w = b
    BY <2>1 DEF EnsureUnique
  <2>3. (CHOOSE w \in brought : w.id = id) = b
    BY <2>1, <2>2
  <2>4. LoadAttachment(new, id) = b
    BY <2>1 DEF AttachmentTables
  <2>. QED
    BY <1>1, <2>3, <2>4
<1>2. CASE ~\E b \in brought : b.id = id
  BY <1>2 DEF AttachmentTables, Ids
<1>. QED
  BY <1>1, <1>2

(* An accepted conversation is a step of the archive.                      *)
LEMMA ConversationIsArchived ==
  ASSUME StoredInv, NEW c \in ConversationValues, ConversationIsValid(c),
         db' = ConversationRows(db, c), UniqueRows(db')
  PROVE  Promised!Converse(c)
<1>1. ConversationShape(c) /\ c.id \in ConversationIds
  BY ValuesAssumption, ConversationShaped
<1>2. ConversationEffect(db, db', c)
  BY <1>1, ConversationEffects DEF StoredInv, StoredHold
<1>3. /\ \A x : UnreadState(db', x) = UnreadState(db, x)
      /\ \A table, account : SyncState(db', table, account) = SyncState(db, table, account)
      /\ \A k : Claimed(db', k) = Claimed(db, k)
  BY <1>2, CountsAlone DEF ConversationEffect
<1>4. EnsureUnique(Avatars(c))
  BY DEF EnsureUnique, Avatars
<1>5. \A id : LoadAttachment(db', id) =
        IF \E b \in Avatars(c) : b.id = id THEN CHOOSE b \in Avatars(c) : b.id = id
        ELSE LoadAttachment(db, id)
  BY <1>2, <1>4, AttachmentsAreArchived DEF ConversationEffect
<1>6. Promised!Attach(Avatars(c))
  BY <1>5 DEF Promised!Attach
<1>7. [id \in ConversationIds |-> GetConversation(db', id)] =
        [id \in ConversationIds |->
           IF id = c.id THEN c ELSE Promised!Redrawn(GetConversation(db, id), Avatars(c))]
  BY <1>2 DEF ConversationEffect
<1>8. Avatars(c) = IF c.group = None THEN {} ELSE {c.group.avatar} \ {None}
  BY DEF Avatars
<1> DEFINE avatars == Avatars(c)
<1> HIDE DEF avatars
<1>. QED
  BY <1>2, <1>3, <1>6, <1>7, <1>8 DEF Promised!Converse, ConversationEffect

(* An accepted message is a step of the archive.                           *)
LEMMA MessageIsArchived ==
  ASSUME StoredInv, NEW m \in MessageValues, MessageIsValid(m), db' = MessageRows(db, m)
  PROVE  Promised!Write(m)
<1>1. MessageShape(m) /\ m.id \in MessageIds
  BY MessageShaped
<1>2. MessageEffect(db, db', m)
  BY <1>1, MessageEffects DEF StoredInv, StoredHold
<1>3. /\ \A x : UnreadState(db', x) = UnreadState(db, x)
      /\ \A table, account : SyncState(db', table, account) = SyncState(db, table, account)
      /\ \A k : Claimed(db', k) = Claimed(db, k)
  BY <1>2, CountsAlone DEF MessageEffect
<1>4. \A id : LoadAttachment(db', id) =
        IF \E b \in Brought(m) : b.id = id THEN CHOOSE b \in Brought(m) : b.id = id
        ELSE LoadAttachment(db, id)
  BY <1>1, <1>2, AttachmentsAreArchived DEF MessageEffect, MessageShape
<1>5. Promised!Attach(Brought(m))
  BY <1>4 DEF Promised!Attach
<1>6. [id \in ConversationIds |-> GetConversation(db', id)] =
        [id \in ConversationIds |-> Promised!Redrawn(GetConversation(db, id), Brought(m))]
  BY <1>2 DEF MessageEffect
<1>7. [id \in MessageIds |-> GetMessage(db', id)] =
        [[id \in MessageIds |-> GetMessage(db, id)] EXCEPT ![m.id] = m]
  BY <1>1, <1>2 DEF MessageEffect
<1>8. Brought(m) = Promised!Shown(m.parts) \union UNION {Promised!Shown(u.parts) : u \in m.mutations}
  BY DEF Brought, PartAttachments, Promised!Shown
<1>. QED
  BY <1>2, <1>3, <1>5, <1>6, <1>7, <1>8 DEF Promised!Write, MessageEffect

(* So are the saves of counters, sync state and keys.                      *)
LEMMA UnreadIsArchived ==
  ASSUME StoredInv, NEW c \in ConversationIds, NEW n, db' = UnreadRows(db, c, n)
  PROVE  Promised!Count(c, n)
<1>1. DOMAIN db = Tables
  BY DEF StoredInv, StoredHold, RowsHold
<1>2. Counted(db, db')
  BY <1>1, CountedSaves
<1>3. SameValues(db, db')
  BY <1>2, OtherTablesHold DEF StoredInv, StoredHold, Counted
<1>4. /\ db'.sync = db.sync /\ db'.claims = db.claims
      /\ db'.unread = {u \in db.unread : u.conversation # c} \union
                        {[conversation |-> c, count |-> n]}
  BY <1>1 DEF UnreadRows, Tables, NoRows
<1>5. /\ \A table, account : SyncState(db', table, account) = SyncState(db, table, account)
      /\ \A k : Claimed(db', k) = Claimed(db, k)
  BY <1>4 DEF SyncState, Claimed
<1> DEFINE own(table, x) == {u \in table : u.conversation = x}
           row == [conversation |-> c, count |-> n]
<1>6. \A t, x : UnreadState(t, x) =
        IF own(t.unread, x) = {} THEN None ELSE (CHOOSE u \in own(t.unread, x) : TRUE).count
  BY DEF UnreadState
<1>7. own(db'.unread, c) = {row} /\ \A x : x # c => own(db'.unread, x) = own(db.unread, x)
  BY <1>4
<1>8. UnreadState(db', c) = n
  <2>1. (CHOOSE u \in {row} : TRUE) = row /\ row.count = n /\ {row} # {}
    OBVIOUS
  <2> HIDE DEF own, row
  <2>. QED
    BY <1>6, <1>7, <2>1
<1>9. \A x : x # c => UnreadState(db', x) = UnreadState(db, x)
  <2> HIDE DEF own
  <2>. QED
    BY <1>6, <1>7
<1>10. [x \in ConversationIds |-> UnreadState(db', x)] =
         [[x \in ConversationIds |-> UnreadState(db, x)] EXCEPT ![c] = n]
  BY <1>8, <1>9
<1>. QED
  BY <1>3, <1>5, <1>10 DEF Promised!Count, SameValues

(* Saving sync state replaces that of one table and account.               *)
LEMMA SyncIsArchived ==
  ASSUME StoredInv, NEW s \in Syncs, NEW cursor, db' = SyncRows(db, s.table, s.account, cursor)
  PROVE  Promised!Sync(s, cursor)
<1>1. DOMAIN db = Tables
  BY DEF StoredInv, StoredHold, RowsHold
<1>2. Counted(db, db')
  BY <1>1, CountedSaves
<1>3. SameValues(db, db')
  BY <1>2, OtherTablesHold DEF StoredInv, StoredHold, Counted
<1> DEFINE row == [table |-> s.table, account |-> s.account, value |-> cursor]
           own(table, q) == {r \in table : r.table = q.table /\ r.account = q.account}
<1>4. /\ db'.unread = db.unread /\ db'.claims = db.claims
      /\ db'.sync = {r \in db.sync : r.table # s.table \/ r.account # s.account} \union {row}
  BY <1>1 DEF SyncRows, Tables, NoRows
<1>5. /\ \A c : UnreadState(db', c) = UnreadState(db, c)
      /\ \A k : Claimed(db', k) = Claimed(db, k)
  BY <1>4 DEF UnreadState, Claimed
<1>6. \A t, q : SyncState(t, q.table, q.account) =
        IF own(t.sync, q) = {} THEN None ELSE (CHOOSE r \in own(t.sync, q) : TRUE).value
  BY DEF SyncState
<1>7. /\ own(db'.sync, s) = {row}
      /\ \A q \in Syncs : q # s => own(db'.sync, q) = own(db.sync, q)
  <2>1. \A q \in Syncs : q # s => q.table # s.table \/ q.account # s.account
    BY ValuesAssumption
  <2>. QED
    BY <1>4, <2>1
<1>8. SyncState(db', s.table, s.account) = cursor
  <2>1. (CHOOSE r \in {row} : TRUE) = row /\ row.value = cursor /\ {row} # {}
    OBVIOUS
  <2> HIDE DEF own, row
  <2>. QED
    BY <1>6, <1>7, <2>1
<1>9. \A q \in Syncs : q # s => SyncState(db', q.table, q.account) = SyncState(db, q.table, q.account)
  <2> SUFFICES ASSUME NEW q \in Syncs, q # s
               PROVE SyncState(db', q.table, q.account) = SyncState(db, q.table, q.account)
    OBVIOUS
  <2>1. own(db'.sync, q) = own(db.sync, q)
    BY <1>7
  <2>2. \A t : SyncState(t, q.table, q.account) =
          IF own(t.sync, q) = {} THEN None ELSE (CHOOSE r \in own(t.sync, q) : TRUE).value
    BY DEF SyncState
  <2> HIDE DEF own
  <2>. QED
    BY <2>1, <2>2
<1>10. [q \in Syncs |-> SyncState(db', q.table, q.account)] =
         [[q \in Syncs |-> SyncState(db, q.table, q.account)] EXCEPT ![s] = cursor]
  BY <1>8, <1>9
<1>. QED
  BY <1>3, <1>5, <1>10 DEF Promised!Sync, SameValues

(* Claiming a key that nothing claimed names one object for it.            *)
LEMMA ClaimIsArchived ==
  ASSUME StoredInv, NEW k \in Keys, NEW object, ~\E r \in db.claims : r.key = k,
         db' = ClaimRows(db, k, object)
  PROVE  Promised!Claim(k, object)
<1>1. DOMAIN db = Tables
  BY DEF StoredInv, StoredHold, RowsHold
<1>2. Counted(db, db')
  BY <1>1, CountedSaves
<1>3. SameValues(db, db')
  BY <1>2, OtherTablesHold DEF StoredInv, StoredHold, Counted
<1> DEFINE row == [key |-> k, object |-> object]
           own(table, x) == {r \in table : r.key = x}
<1>4. /\ db'.unread = db.unread /\ db'.sync = db.sync /\ db'.claims = db.claims \union {row}
  BY <1>1 DEF ClaimRows, Tables, NoRows
<1>5. /\ \A c : UnreadState(db', c) = UnreadState(db, c)
      /\ \A table, account : SyncState(db', table, account) = SyncState(db, table, account)
  BY <1>4 DEF UnreadState, SyncState
<1>6. \A t, x : Claimed(t, x) =
        IF own(t.claims, x) = {} THEN None ELSE (CHOOSE r \in own(t.claims, x) : TRUE).object
  BY DEF Claimed
<1>7. /\ own(db'.claims, k) = {row} /\ own(db.claims, k) = {}
      /\ \A x : x # k => own(db'.claims, x) = own(db.claims, x)
  BY <1>4
<1>8. Claimed(db', k) = object /\ Claimed(db, k) = None
  <2>1. (CHOOSE r \in {row} : TRUE) = row /\ row.object = object /\ {row} # {}
    OBVIOUS
  <2> HIDE DEF own, row
  <2>. QED
    BY <1>6, <1>7, <2>1
<1>9. \A x : x # k => Claimed(db', x) = Claimed(db, x)
  <2> HIDE DEF own
  <2>. QED
    BY <1>6, <1>7
<1>10. [x \in Keys |-> Claimed(db', x)] =
         [[x \in Keys |-> Claimed(db, x)] EXCEPT ![k] = object]
  BY <1>8, <1>9
<1>. QED
  BY <1>3, <1>5, <1>8, <1>10 DEF Promised!Claim, SameValues

-----------------------------------------------------------------------------
(* Nothing is archived of a new file.                                      *)
LEMMA ArchiveStarts == DatabaseInit => Promised!ArchiveInit
<1> SUFFICES ASSUME db = NoRows PROVE Promised!ArchiveInit
  BY DEF DatabaseInit
<1>1. Ids({}) = {}
  BY DEF Ids
<1>2. /\ db.accounts = {} /\ db.conversations = {} /\ db.messages = {} /\ db.attachments = {}
      /\ db.unread = {} /\ db.sync = {} /\ db.claims = {}
  BY DEF NoRows
<1>3. \A id : /\ GetAccount(db, id) = None /\ GetConversation(db, id) = None
              /\ GetMessage(db, id) = None /\ LoadAttachment(db, id) = None
  BY <1>1, <1>2 DEF GetAccount, GetConversation, GetMessage, LoadAttachment
<1>4. /\ \A c : UnreadState(db, c) = None
      /\ \A table, account : SyncState(db, table, account) = None
      /\ \A k : Claimed(db, k) = None
  BY <1>2 DEF UnreadState, SyncState, Claimed
<1>. QED
  BY <1>3, <1>4 DEF Promised!ArchiveInit, Promised!IsEmpty

(* Every step of the database is one of the archive, or none.              *)
LEMMA StepIsArchived ==
  StoredInv /\ [DatabaseNext]_databaseVars => [Promised!ArchiveNext]_(Promised!archiveVars)
<1> SUFFICES ASSUME StoredInv, [DatabaseNext]_databaseVars
             PROVE  Promised!ArchiveNext \/ UNCHANGED Promised!archiveVars
  OBVIOUS
<1>1. CASE db' = db
  BY <1>1 DEF Promised!archiveVars
<1>2. CASE UniqueRows(db') /\ SaveAccepted(db, db')
  BY <1>2, AccountIsArchived, ConversationIsArchived, MessageIsArchived,
     UnreadIsArchived, SyncIsArchived, ClaimIsArchived
     DEF SaveAccepted, Promised!ArchiveNext
<1>. QED
  BY <1>1, <1>2, StepSaves

(* What a client loads is what was saved last under the same id, but for   *)
(* what the archive names.                                                 *)
THEOREM DatabaseRefinesArchive == DatabaseSpec => ImplementsArchive
  BY ArchiveStarts, StepIsArchived, StoredAlways, PTL
     DEF DatabaseSpec, ImplementsArchive, Promised!ArchiveSpec
=============================================================================
