-------------------------------- MODULE Archive --------------------------------
(***************************************************************************)
(* What the repositories of crates/storage/src/lib.rs promise over their   *)
(* tables: one value for each account, conversation and message, the one   *)
(* that was saved last; a save that is refused changes nothing.            *)
(*                                                                         *)
(* The schema makes two exceptions.  A device that is linked to an         *)
(* identity of another account loses the link when that other account is   *)
(* saved (0001_initial.sql:25).  And there is one content for each         *)
(* attachment: the avatar of a group changes with whatever save brings an  *)
(* attachment of that id, while a message keeps what it was saved with.    *)
(***************************************************************************)
CONSTANTS
  AccountValues, ConversationValues, MessageValues,   \* what may be saved
  Conversation, Counts,
  Key, Objects,
  Syncs, Cursors,
  None

VARIABLES
  accounts, conversations, messages,   \* the value under each id, or None
  attachments,                         \* the content under each id, or None
  unread, sync, claims                 \* None where there is nothing

archiveVars == <<accounts, conversations, messages, attachments, unread, sync, claims>>

IsEmpty(f) == \A x \in DOMAIN f : f[x] = None

ArchiveInit ==
  /\ IsEmpty(accounts) /\ IsEmpty(conversations) /\ IsEmpty(messages)
  /\ IsEmpty(attachments)
  /\ IsEmpty(unread) /\ IsEmpty(sync) /\ IsEmpty(claims)

Unlinked(account, gone) ==
  IF account = None THEN None
  ELSE [account EXCEPT !.devices =
         {IF d.link \in gone THEN [d EXCEPT !.link = None] ELSE d : d \in @}]

Save(a) ==
  LET gone == IF accounts[a.id] = None THEN {} ELSE {i.id : i \in accounts[a.id].identities}
  IN  /\ accounts' = [id \in DOMAIN accounts |->
                        IF id = a.id THEN a ELSE Unlinked(accounts[id], gone)]
      /\ UNCHANGED <<conversations, messages, attachments, unread, sync, claims>>

(* The content of an attachment is that of the last save that brought it,  *)
(* wherever it is shown as an avatar.                                      *)
Latest(x, brought) ==
  IF \E b \in brought : b.id = x.id THEN CHOOSE b \in brought : b.id = x.id ELSE x

Redrawn(c, brought) ==
  IF c = None \/ c.group = None \/ c.group.avatar = None THEN c
  ELSE [c EXCEPT !.group.avatar = Latest(@, brought)]

Attach(brought) ==
  attachments' = [id \in DOMAIN attachments |->
    IF \E b \in brought : b.id = id THEN CHOOSE b \in brought : b.id = id
    ELSE attachments[id]]

Converse(c) ==
  LET brought == IF c.group = None THEN {} ELSE {c.group.avatar} \ {None}
  IN  /\ conversations' = [id \in DOMAIN conversations |->
                             IF id = c.id THEN c ELSE Redrawn(conversations[id], brought)]
      /\ Attach(brought)
      /\ UNCHANGED <<accounts, messages, unread, sync, claims>>

Shown(parts) == {parts[i].attachment : i \in DOMAIN parts} \ {None}

Write(m) ==
  LET brought == Shown(m.parts) \union UNION {Shown(u.parts) : u \in m.mutations}
  IN  /\ messages' = [messages EXCEPT ![m.id] = m]
      /\ conversations' = [id \in DOMAIN conversations |-> Redrawn(conversations[id], brought)]
      /\ Attach(brought)
      /\ UNCHANGED <<accounts, unread, sync, claims>>

Count(c, n) ==
  /\ unread' = [unread EXCEPT ![c] = n]
  /\ UNCHANGED <<accounts, conversations, messages, attachments, sync, claims>>

Sync(s, cursor) ==
  /\ sync' = [sync EXCEPT ![s] = cursor]
  /\ UNCHANGED <<accounts, conversations, messages, attachments, unread, claims>>

(* The first claim of a key stands.                                        *)
Claim(k, object) ==
  /\ claims[k] = None
  /\ claims' = [claims EXCEPT ![k] = object]
  /\ UNCHANGED <<accounts, conversations, messages, attachments, unread, sync>>

ArchiveNext ==
  \/ \E a \in AccountValues : Save(a)
  \/ \E c \in ConversationValues : Converse(c)
  \/ \E m \in MessageValues : Write(m)
  \/ \E c \in Conversation, n \in Counts : Count(c, n)
  \/ \E s \in Syncs, cursor \in Cursors : Sync(s, cursor)
  \/ \E k \in Key, object \in Objects : Claim(k, object)

ArchiveSpec == ArchiveInit /\ [][ArchiveNext]_archiveVars
=============================================================================
