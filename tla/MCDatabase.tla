------------------------------ MODULE MCDatabase ------------------------------
(***************************************************************************)
(* Values that meet: two accounts with a device linked across them and an  *)
(* identity both may claim, two conversations that may claim one           *)
(* participant and share an avatar, messages that reply to each other,     *)
(* bring the avatar's attachment and claim one reaction.                   *)
(***************************************************************************)
EXTENDS Database, TLC

CONSTANTS a1, a2, i1, i2, d1, d2, c1, c2, p1, p2, m1, m2, x1, r1, u1,
          ext, home, one, two

Email(v) == [kind |-> "email", value |-> v]
Other(v) == [kind |-> "other", value |-> v]
Identity(i, address, extension) == [id |-> i, address |-> address, extension |-> extension]
Device(d, account, link) == [id |-> d, account |-> account, link |-> link, extension |-> None]
Account(id, identities, devices, extension) ==
  [id |-> id, name |-> None, identities |-> identities, devices |-> devices,
   extension |-> extension]

MCAccounts ==
  {Account(a1, {Identity(i1, Email(home), ext)}, {Device(d1, a1, i1)}, None),
   Account(a1, {Identity(i1, Other(home), None)}, {}, ext),
   Account(a1, {Identity(i1, Other(home), None), Identity(i2, Other(home), None)}, {}, None),
   Account(a2, {}, {Device(d2, a2, i1)}, None),
   Account(a2, {Identity(i1, Email(home), None)}, {Device(d2, a1, None)}, None),
   Account(a2, {Identity(i1, Email(home), None), Identity(i2, Email(home), None)},
           {Device(d1, a2, i2)}, None)}

Attachment(content, size, extension) ==
  [id |-> x1, size |-> size, content |-> content, extension |-> extension]

Participant(p, extension) == [id |-> p, identity |-> i1, extension |-> extension]
Conversation(id, group, participants) ==
  [id |-> id, group |-> group, participants |-> participants, extension |-> None]

MCConversations ==
  {Conversation(c1, [owner |-> p1, avatar |-> Attachment(one, 1, None)], {Participant(p1, ext)}),
   Conversation(c1, None, {Participant(p1, None)}),
   Conversation(c1, [owner |-> p1, avatar |-> None], {Participant(p2, None)}),
   Conversation(c2, [owner |-> None, avatar |-> Attachment(two, 1, ext)], {Participant(p2, None)}),
   Conversation(c2, None, {Participant(p1, None)})}

Text(length, range) ==
  [kind |-> "text", length |-> length, range |-> range, attachment |-> None]
Picture(attachment) ==
  [kind |-> "attachment", length |-> 0, range |-> None, attachment |-> attachment]
Message(id, conversation, reply, read, parts) ==
  [id |-> id, conversation |-> conversation, reply |-> reply, read |-> read,
   parts |-> parts, mutations |-> {}, reactions |-> {}, receipts |-> {}, extension |-> None]

MCMessages ==
  {Message(m1, c1, None, None, <<Picture(Attachment(two, 1, None)), Text(2, <<0, 2>>)>>),
   [Message(m1, c1, None, 1, <<>>) EXCEPT !.reactions = {[id |-> r1, message |-> m1]}],
   [Message(m2, c1, m1, None, <<>>) EXCEPT
      !.reactions = {[id |-> r1, message |-> m2]},
      !.receipts = {[table |-> "read", by |-> p1, at |-> 1]}],
   [Message(m2, c2, m2, None, <<>>) EXCEPT
      !.mutations = {[id |-> u1, message |-> m2, kind |-> "edit",
                      parts |-> <<Picture(Attachment(one, 1, ext))>>]}],
   Message(m2, c1, None, None, <<Text(1, <<0, 2>>)>>),
   Message(m2, c1, None, None, <<Picture(Attachment(one, MaxInteger + 1, None))>>)}

MCSyncs == [table : {"metadata"}, account : {None, a1}] \union [table : {"state"}, account : {a1}]

(* The openers are alike, and no liveness is checked.                      *)
MCSymmetry == Permutations(Opener)
=============================================================================
