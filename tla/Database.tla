-------------------------------- MODULE Database --------------------------------
(***************************************************************************)
(* The database under the daemon: run_daemon of crates/daemon/src/lib.rs   *)
(* opens the file, migrating it, before it asks for the name on the bus,   *)
(* so a second daemon works on the file of the first until it learns that  *)
(* the name is taken.  The daemon that has the name is the one that saves. *)
(*                                                                         *)
(* "saves" counts the saves of a behaviour, up to MaxSaves.                *)
(***************************************************************************)
EXTENDS Records, Migration

CONSTANTS
  AccountValues, ConversationValues, MessageValues, Counts, Objects,
  Syncs, Cursors,      \* the keys of the two tables of sync state; what they hold
  MaxSaves

-----------------------------------------------------------------------------
(* The types of crates/core over the given values.  A loaded account may   *)
(* have lost a link, and a loaded group have another avatar, by what else  *)
(* was saved.  A message names each attachment as one value: of two the    *)
(* code keeps that of the later part, an order that Brought does not have. *)

Attachments ==
  UNION {Brought(m) : m \in MessageValues} \union UNION {Avatars(c) : c \in ConversationValues}

Identities == UNION {a.identities : a \in AccountValues}
Devices ==
  LET given == UNION {a.devices : a \in AccountValues}
  IN  given \union {[d EXCEPT !.link = None] : d \in given}
Accounts ==
  [id : AccountIds, name : {a.name : a \in AccountValues},
   identities : SUBSET Identities, devices : SUBSET Devices,
   extension : {a.extension : a \in AccountValues}]

Participants == UNION {c.participants : c \in ConversationValues}
Groups ==
  [owner : {c.group.owner : c \in {d \in ConversationValues : d.group # None}},
   avatar : Attachments \union {None}]
Conversations ==
  [id : ConversationIds, group : Groups \union {None}, participants : SUBSET Participants,
   extension : {c.extension : c \in ConversationValues}]

ASSUME ValuesAssumption ==
  /\ AccountValues \subseteq Accounts /\ ConversationValues \subseteq Conversations
  /\ \A i \in Identities : i = [id |-> i.id, address |-> i.address, extension |-> i.extension]
  /\ \A d \in Devices :
       d = [id |-> d.id, account |-> d.account, link |-> d.link, extension |-> d.extension]
  /\ \A p \in Participants : p = [id |-> p.id, identity |-> p.identity, extension |-> p.extension]
  /\ \A x \in Attachments :
       /\ x = [id |-> x.id, size |-> x.size, content |-> x.content, extension |-> x.extension]
       /\ x.id \in AttachmentIds
  /\ \A m \in MessageValues :
       /\ m = [id |-> m.id, conversation |-> m.conversation, reply |-> m.reply, read |-> m.read,
               parts |-> m.parts, mutations |-> m.mutations, reactions |-> m.reactions,
               receipts |-> m.receipts, extension |-> m.extension]
       /\ m.id \in MessageIds /\ m.parts \in Seq({m.parts[i] : i \in DOMAIN m.parts})
       /\ \A r \in m.receipts : r = [table |-> r.table, by |-> r.by, at |-> r.at]
       /\ EnsureUnique(Brought(m))
  /\ \A s \in Syncs : s = [table |-> s.table, account |-> s.account]

(* None and Corrupt are nothing that can be saved.                         *)
ASSUME NothingAssumption ==
  /\ None \notin AttachmentIds
  /\ \A type \in {Accounts, Conversations, MessageValues, Attachments, Groups} : None \notin type
  /\ Corrupt \notin Conversations /\ Corrupt \notin MessageValues

VARIABLES
  owner,               \* the daemon that has the name
  saves

databaseVars == <<db, migrationVars, owner, saves>>

DatabaseInit ==
  /\ db = NoRows /\ MigrationInit
  /\ owner = None /\ saves = 0

(* The name is free, or the second daemon ends with an error.              *)
RequestName(d) ==
  /\ opening[d] = "open" /\ owner # d
  /\ IF owner = None THEN owner' = d /\ UNCHANGED migrationVars
     ELSE Close(d) /\ UNCHANGED owner
  /\ UNCHANGED <<db, saves>>

Stop(d) ==
  /\ Close(d)
  /\ owner' = IF owner = d THEN None ELSE owner
  /\ UNCHANGED <<db, saves>>

Saving ==
  /\ owner # None /\ saves < MaxSaves
  /\ saves' = saves + 1
  /\ UNCHANGED <<migrationVars, owner>>

DatabaseNext ==
  \/ \E d \in Opener : \/ MigrationStep(d) /\ UNCHANGED <<db, owner, saves>>
                       \/ RequestName(d)
                       \/ Stop(d)
  \/ Saving /\ \E a \in AccountValues : SaveAccount(a)
  \/ Saving /\ \E c \in ConversationValues : SaveConversation(c)
  \/ Saving /\ \E m \in MessageValues : SaveMessage(m)
  \/ Saving /\ \E c \in ConversationIds, n \in Counts : SetUnreadState(c, n)
  \/ Saving /\ \E s \in Syncs, cursor \in Cursors : SaveSync(s.table, s.account, cursor)
  \/ Saving /\ \E k \in Keys, x \in Objects : ClaimDeduplicationKey(k, x)

DatabaseSpec == DatabaseInit /\ [][DatabaseNext]_databaseVars

-----------------------------------------------------------------------------
(* The rows of one value are complete: a device, a part, a reaction or a   *)
(* row of metadata never outlives what it belongs to.                      *)
DatabaseTypeOK ==
  /\ opening \in [Opener -> Steps] /\ owner \in Opener \union {None}
  /\ UniqueRows(db) /\ ReferencesHold(db)
  /\ \A rows \in {db.identities, db.devices} : \A r \in rows : r.account \in Ids(db.accounts)
  /\ \A p \in db.participants : p.conversation \in Ids(db.conversations)
  /\ \A g \in db.groups :
       /\ Row(db.conversations, g.id).kind = "group"
       /\ g.avatar \in Ids(db.attachments) \union {None}
  /\ \A rows \in {db.parts, db.mutations, db.reactions, db.receipts} :
       \A r \in rows : r.message \in Ids(db.messages)

(* Whatever is loaded would be accepted again, from the domain's checks to *)
(* the last constraint of the schema, and come back the same: no value is  *)
(* stuck in the tables, however the saves of others touched its rows.      *)
StaysLoaded(isValid, new, load(_), value) ==
  isValid /\ UniqueRows(new) /\ ReferencesHold(new) /\ load(new) = value

LoadedIsAccepted ==
  /\ \A a \in ListAccounts(db) :
       StaysLoaded(AccountIsValid(a), AccountRows(db, a),
                   LAMBDA t : GetAccount(t, a.id), a)
  /\ \A c \in ListConversations(db) :
       /\ c # Corrupt
       /\ StaysLoaded(ConversationIsValid(c), ConversationRows(db, c),
                      LAMBDA t : GetConversation(t, c.id), c)
  /\ \A m \in {GetMessage(db, id) : id \in Ids(db.messages)} :
       /\ m # Corrupt
       /\ StaysLoaded(MessageIsValid(m), MessageRows(db, m),
                      LAMBDA t : GetMessage(t, m.id), m)

-----------------------------------------------------------------------------
(* The tables implement the archive: what a client loads is what was saved *)
(* last under the same id, but for the links and the avatars that the      *)
(* archive names.                                                          *)
Promised == INSTANCE Archive WITH
  Conversation <- ConversationIds, Key <- Keys,
  accounts <- [id \in AccountIds |-> GetAccount(db, id)],
  conversations <- [id \in ConversationIds |-> GetConversation(db, id)],
  messages <- [id \in MessageIds |-> GetMessage(db, id)],
  attachments <- [id \in AttachmentIds |-> LoadAttachment(db, id)],
  unread <- [c \in ConversationIds |-> UnreadState(db, c)],
  sync <- [s \in Syncs |-> SyncState(db, s.table, s.account)],
  claims <- [k \in Keys |-> Claimed(db, k)]

ImplementsArchive == Promised!ArchiveSpec
=============================================================================
