------------------------------- MODULE Composer -------------------------------
(***************************************************************************)
(* The message composer (crates/app/src/composer.rs) and the send callback *)
(* a conversation page gives it (crates/app/src/main.rs:434-448).          *)
(*                                                                         *)
(* GTK runs every handler on one thread, and runs the buffer's "changed"   *)
(* handler inside the call that changes the text.  The model is a RefCell: *)
(* borrowing it while it is mutably borrowed is a panic, which aborts the  *)
(* application because it happens in a callback from C.                    *)
(***************************************************************************)
EXTENDS Sequences, SequencesExt

CONSTANTS
  Text,        \* texts a user may enter, the empty text among them
  Blank        \* those of only white space, the empty text among them

VARIABLES
  text,          \* what the text view shows
  draft, sending,\* ComposerModel
  sensitive,     \* whether the send button can be clicked
  submitted,     \* the OutgoingMessageDrafts handed to the callback
  aborted

composerVars == <<text, draft, sending, sensitive, submitted, aborted>>

ComposerInit ==
  /\ text = "" /\ draft = "" /\ sending = FALSE
  /\ sensitive = FALSE
  /\ submitted = <<>>
  /\ aborted = FALSE

Enabled(d, s) == ~s /\ d \notin Blank

(* The user edits the text: the changed handler, with nothing borrowed.    *)
Edit(t) ==
  /\ ~aborted /\ t # text
  /\ text' = t /\ draft' = t
  /\ sensitive' = Enabled(t, sending)
  /\ UNCHANGED <<sending, submitted, aborted>>

(* connect_send.  The RefMut of model.borrow_mut().take_draft() is a       *)
(* temporary of the "if let" and lives to the end of its block, and the    *)
(* block empties the buffer: the changed handler borrows the model again,  *)
(* and neither the rest of that handler nor the callback runs.             *)
ClickSend ==
  /\ ~aborted /\ sensitive
  /\ IF Enabled(text, sending)
       THEN text' = "" /\ draft' = "" /\ aborted' = TRUE
       ELSE draft' = text /\ UNCHANGED <<text, aborted>>
  /\ UNCHANGED <<sending, sensitive, submitted>>

ComposerNext == (\E t \in Text : Edit(t)) \/ ClickSend

ComposerSpec == ComposerInit /\ [][ComposerNext]_composerVars

-----------------------------------------------------------------------------
(* composer.rs:59 "A backend-neutral message submission produced by the    *)
(* composer.": a click on the enabled button produces one, of the text     *)
(* that was there.                                                         *)
SendSubmitsDraft ==
  [][ClickSend /\ Enabled(text, sending) => submitted' = Append(submitted, text)]_composerVars
=============================================================================
