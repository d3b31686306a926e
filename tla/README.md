# LiteBubbles: a TLA+ model

LiteBubbles is a GTK client for iMessage and the daemon it talks to over the session D-Bus.
This directory models what the two do that a unit test hardly reaches: the setup reducer
against an adapter that answers late, the daemon's shared event queue, paging through a store
that changes meanwhile, values that are taken apart into rows and put together again, a database file
that several processes migrate, secrets that several processes change, production commands and a
sign-out that are killed half-way, the validation helper's pipes and deadlines, and the shell and
timeline that show it all. TLC checks every module on a
small instance; TLAPS proves the theorems listed below for every value of the constants.

`PROJECT.json` has, for every definition, the lines of the source it stands for, and for every
property a mutant: a plausible bug (an operator named `Bug_...`, defined just before the
definition it would replace and used by nothing else) under which TLC finds the property violated.

    tlc -config MCShell.cfg MCShell     # one run
    tlapm AppProofs.tla                 # one module of proofs

## The system

| Component | Keeps | Does | Talks to |
| --- | --- | --- | --- |
| Setup reducer, `app/src/setup.rs` | stage, error, retry stage, offered and selected identity, connection | view events and backend updates to a new state and at most one effect | its view and an adapter, through `SetupController` |
| Setup view, `setup.rs`, `main.rs` | widgets of the visible page | the controls each page offers; hands effects to an adapter | reducer; a mock adapter on a glib timer, or none |
| Shell, `app/src/main.rs` | transport status, sidebar model, selection, visible pages | retry, select, search, Ctrl+N, open and leave setup | transport (a future of the main thread), sidebar widgets |
| Timeline, `app/src/timeline.rs` | messages in order, rows, load state | applies added, changed and removed messages, patches the list store | backend events |
| Composer, `app/src/composer.rs` | draft | edit, attach, send | its own text buffer, whose signal calls back |
| App transport, `app/src/transport.rs` | D-Bus proxy, negotiated version | hello, then typed calls | daemon |
| Daemon service, `daemon/src/lib.rs` | settings, event queue, counters | D-Bus methods; every one drains the queue and signals what it took | store, adapter, bus |
| Store, `storage/src/lib.rs` | SQLite: accounts, conversations, messages, unread counts, sync state, deduplication keys, the migrations done | opens and migrates the file; saves and listings, one transaction or lock each | daemon |
| Local state, `storage/src/state.rs` | Secret Service items, private directories | set, get, delete; sign out, purge | production commands |
| Production commands, `daemon/src/lib.rs:72-247`, `rustpush-backend` | three secrets, the keystore file of rustpush | setup, send, listen, each a process | Secret Service, Apple through rustpush, file system |
| Validation provider, `validation-provider` | the installed component; a child process for each request | install, remove, begin, finish | helper over pipes, file system |
| Validation helper, `validation-helper` | the foreign library's session | reads, calls the library, answers | provider |
| Mock backend, packaging, docs | – | fixture, build | not modelled |

What is hard, and where: an answer that names no request (`setup.rs:667`); a queue shared by
concurrent calls, one of which fails while it holds the events of another (`daemon/src/lib.rs:844`);
cursors into lists that move (`daemon/src/lib.rs:543`, `storage/src/lib.rs:874`); a process killed
between two writes (`daemon/src/lib.rs:166-178`, `live.rs:396-410`, `validation-provider/src/lib.rs:835-867`);
read-then-write of a secret by two processes (`daemon/src/lib.rs:95-112`), and search-then-act
inside each operation on one (`storage/src/state.rs:424-480`); a version that is read before the
transactions that migrate (`storage/src/lib.rs:360-383`), in a daemon that asks for its name only
after that (`daemon/src/lib.rs:963`); rows without a foreign key, and links that a save of another
value sets to NULL (`storage/src/lib.rs:154`, `421`); a child that hangs,
crashes or talks nonsense (`validation-provider/src/lib.rs:440-640`); GTK signals that call back into
code that still holds a borrow (`composer.rs:108`); patched, not rebuilt, lists (`timeline.rs:611`).
`PROJECT.json` lists every hazard at its line, with the properties that watch it or the reason none does.

## Modules

**SetupFlow** is `SetupState::transition`: an action for each view event and each `BackendUpdate`,
with the guards in the order of the code. Forms count as valid or not. `effect` is what the last
transition returned. It is checked under SetupSession, and proved about on its own, for any order of
events, and under it.

**SetupSession** adds the view and the adapter. The view offers only the controls of the visible
page (`UserActs`); an effect waits in `pending` until the adapter answers it (`Deliver`), refuses it
(`Refuse`), in any order, or reports progress (`ReportProgress`); it may report a lost connection.
The adapter that ships answers favourably on a timer; the module allows every adapter that answers
the kind of operation it was asked. `linked` remembers whose confirmation was answered last.

**DaemonService** has a task for each method call: handler, drain, signals, reply. A step ends
where a lock or atomic is released or the task awaits; `lib.rs:366-367` says the calls may run
concurrently. `run_daemon` itself installs an adapter that is unavailable; the model admits every
adapter, since the service is written for any (`with_adapter_and_clock`). **EventDelivery** is the
abstract promise (an event is raised once, then delivered once or lost, and never left behind) and
`EventsAreDelivered` says that the service implements it, events known by their ids.

**Store** is one client that reads history or the conversation list page by page while
conversations and messages are saved and moved. Nothing in the repository but tests writes to the
store yet; the writer here is everything `save_conversation` and `save_message` permit.

**Records** is the rest of the repositories: how one transaction takes an account, a conversation or
a message apart into rows, which checks and constraints refuse it as a whole, and how the value is
put together again. `db` is a record of sets of rows, one field for each table or group of tables;
`AccountRows`, `ConversationRows` and `MessageRows` are the tables a save wants, and `Transaction`
takes them if every constraint holds. **Migration** is opening the file: the version is read outside
of any transaction and each migration runs in its own. **Database** puts the two under `run_daemon`:
processes open the file, then one gets the bus name (`RequestName`) and saves. **Archive** is what a
client of the repositories may rely on, one value under each id, the last one saved, with the two
exceptions the schema makes; `ImplementsArchive` maps the tables to it by loading everything.
Database also names the types of crates/core over the values given (`Accounts`, `Conversations`,
`Attachments` and what they contain), larger than those values: an account that is loaded may have
lost a link, and a group have an avatar that another save brought.

**SecretStore** is the trait of that name as a table with atomic operations, which `MemorySecretStore`
is; **SecretService** is `GnomeSecretService`: each operation searches and then, in a call of its
own, reads, changes, makes or removes an item, while other processes do the same and the user
locks the collection. `ImplementsSecretStore` maps the items to the table. So SignOut and
ProductionSession may treat one operation on a secret as one step.

**ProductionSession** has the three commands as processes that stop at every call of the Secret
Service, Apple or the file system, run side by side, and are killed anywhere. rustpush is
external: a registration makes key material that it encrypts with the keystore key and keeps in
the keystore file, which is truncated and then written. One account is modelled; a registration
writes the keystore once. **SignOut** adds `sign_out_account` beside the commands: two secrets, then
the data and the cache directory, each a step after which it may stop; a command makes the
directories again, and one that has the keystore open writes into a file that is gone.

**ValidationComponent** is install and remove on a file system where a directory tree is unlinked
file by file; **ValidationHelper** a request, its child process and the pipes between them, beside
those commands. The foreign library may hang, crash, or make the helper answer anything.

**Shell** is the GTK main thread, so a handler is one step; the handshake is a future and ends in a
step of its own, in which the application and the daemon on the bus, which may be of another build,
agree on the highest protocol version of both or fail. (Both are built with version 1 only today;
`negotiate_version` is written for any range.) GTK filters incrementally, so a search handler may
see the new rows or none yet.

**Timeline** keeps the messages, the rows built from them, and the list store that `sync_store`
patches; each event also reports the row it changed. The date arithmetic of the day separators is
in the same module as operators. A day is `DayLength` time units. `Sorted` and `RowsOf` say where a
message and a row come to stand (a stable sort by ranks; a row for each message and each day begun)
instead of building the lists by a loop, as `Rank` and `Put` of Store and `Merged` of DaemonService
do: the library's `SortSeq`, folds, `:>` and `@@` are opaque to the provers.

**Composer** is the draft, its editor and the send button. A click empties the buffer while the model
is mutably borrowed, and the handler this runs borrows it again: the click ends with `aborted`.

Modules named `MC...` give the constants values; modules named `...Proofs` hold theorems.

## Runs

| Run | Question | Instance |
| --- | --- | --- |
| `setup_session` | Is a waiting page owed exactly one answer, does it get it, is the connected identity the selected one, and that one of those last offered? | two identities, up to 3 operations in flight (the property says 1), losses reported only between operations |
| `daemon` | Are events delivered once, never forgotten, and settings kept? | 3 calls at once, two of them refreshes, 2 settings; a restart. Two refreshes and one bystander are the smallest case where a call drains another's event and a third one's too |
| `store` | Does paging read all that stayed, in order, and end? | 3 conversations, 2 messages, 2 times (so that times tie), pages of 1 and 2 |
| `production` | What do commands find that others, or a sign-out, were killed in? | 2 setups, 1 send or listen, 1 sign-out; setups are interchangeable, no liveness is checked, so symmetry is sound |
| `secrets` | Do operations that search and then act have the effect of atomic ones? | 2 processes, 2 keys, 2 values, 3 items ever made (`MaxItems`): two processes race for one key, and an item is made, removed and made again |
| `records` | Is a file migrated once, and is what is loaded what was saved last? | 2 processes of builds 1 and 2, so that a newer and an older one meet (they are alike, no liveness is checked: symmetry); 3 saves (`MaxSaves`) of values chosen to meet: a device linked across accounts, a participant two conversations claim, a shared avatar, replies before their message, a reaction claimed twice, numbers above the largest integer |
| `validation` | Does a request end, reap its helper, and find a whole component? | 2 installs, 1 removal, 1 request |
| `shell` | Do status, page, selection and protocol version agree? | fixture with 3 conversations; an app with versions 2 and 3 and daemons with every range of 1 to 4: older, newer, overlapping on either side, apart |
| `timeline` | Do the patched rows equal what the messages say? | 3 messages at 4 times around midnight, one with a second version; dates from the year -402 to 2372, on every side of the arithmetic's turns of 400 years |

Three saves let a value be saved, disturbed by another and then saved again. The properties of
`records` and `secrets` hold beyond these bounds, by proof: for any number of saves of any values.

Runs that stop (`CHECK_DEADLOCK FALSE`) are those where every process may be done: `daemon`,
`production`, `signed_out`, `validation`, `composer`.

Three runs show that the code does something other than what it says:

- `setup_stale`: when a loss is reported while a confirmation is owed, the late answer completes the
  flow for another identity than the one it confirms.
- `signed_out`: `sign_out_account` deletes the secret `apple`, which no command sets, and leaves
  `apple-session`, which all of them use; `storage/src/state.rs:662-663` says "Sign out and remove both
  Apple credentials and the matching hardware activation payload."
- `composer`: Send holds the model's `RefMut` through the `if let` (`composer.rs:108`) and clears the
  buffer in it, whose handler borrows again: the draft is never handed over.

## Properties that need a word

- `WaitingHasOperation` speaks of busy pages whose connection is "Connecting". Back on the error page
  of a finished setup leads to the other case: Connecting with no control and nothing in flight, though
  `setup.rs:404` says "Returns to the previous user-input page."
- `ConnectedIsSelected` holds when losses come between operations (`setup_session`) and not when one
  comes during an operation (`setup_stale`).
- `QueueWillBeDrained` is why no event stays queued: whoever pushes has a drain ahead.
- `HistoryComplete` and `SkippedOnlyAfterMove` compare what was read with what was stored when the
  client began; history survives any insertion, the conversation list does not survive a move.
- `KeysAreReadable` and `AccountIsUsable` are conditional on commands that ran one by one: two
  that find no key write one each. `AccountIsUsable` also needs that no command ran while the account
  was signed out, and a file system that lost no write, since `update_state` returns nothing: without
  that the message of `daemon/src/main.rs:109` ("The daemon can now use this local session.") is not
  true. It speaks of an account whose hardware payload is there, or whose setup completed.
- `LoadedIsAccepted` is about every value in the tables, however the saves of others touched its rows:
  it can be loaded, passes the domain's checks and the constraints, and comes back the same.
- `ImplementsSecretStore` allows one answer that the trait does not speak of: success without the
  effect, while the collection is locked, because the prompt that the service returns is dropped.
- `HelperIsReaped` names its two exceptions, an oversized session info (`lib.rs:492`) and the death of
  the process that asked.
- `WaitingEnds` needs a first message that fits the pipe: its write has no deadline. Nor has that of
  Apple's response (`lib.rs:525`), which ends because a helper that has answered only reads.
- `StoreShowsDays` and `GroupsAreWhole` speak of the patched store: a row is kept where it is the
  same in every field, and comparing less than that shows an old message or an old group position.

## Fairness

Only steps the program owes are fair. `SessionSpec`: the adapter's timer or task answers
(`Reply`); the user owes nothing. `DaemonSpec`: a call's task goes on (`Work`), that is, the adapter
answers and a signal is sent or fails. `StoreSpec`: a client that is not at the end asks again.
`ValidationSpec`: the provider's thread runs and its deadlines pass (`ProviderStep`, which holds
`Timeout`), and a read that has input returns (`HelperReadsInput`); nothing is assumed of the library,
Apple or the user. `ShellSpec` has none: `DbusTransport::connect` has no timeout, so a handshake may
stay open. `ProductionSpec` and `SignOutSpec` have none: a listen waits as long as it takes.
`ServiceSpec` and `DatabaseSpec` are about safety alone.

## Proofs

| Module | Theorems | Argument |
| --- | --- | --- |
| SetupProofs | `FlowInvariant`, `FlowTypeCorrect`, `ErrorAlwaysExplained`, `SelectionAlwaysOffered`, `CompletionAlwaysHasIdentity`, `SelectionAlwaysHasChoices` | the invariants of the reducer are inductive together (`FlowInv`): an error remembers a stage, so that Retry restores the preconditions of that stage must be known when the error is shown |
| | `SessionTypeCorrect`, `SessionImplementsFlow` | each step of the session is one of the reducer or leaves it alone, so `FlowInv` holds there too |
| | `SessionOneOperation`, `SessionConnectsSelected`, `SessionWaitsForOperation`, for `~LossDuringOperation` | `SessionInv`: an operation in flight is the one the visible busy page waits for, for the identity selected; busy pages have no control (`ControlsWhenIdle`), so no second one joins it |
| DaemonProofs | `QueueAlwaysDrained` | `QueueInv`: with the places of the tasks, pushing puts the task before its drain |
| | `DaemonTypeCorrect`, `EventAlwaysInOnePlace`, `SignalAlwaysAgrees`, `UpdatesAlwaysKept` | `DaemonInv`: an operation id names one call and an event id one event, the counters are one more than what they counted, in this run, so the next id is new and there is one; an event tells how the operation of its call ended |
| | `DaemonImplementsDelivery` | every event raised is in a queue, on the wire or lost, and these change as EventDelivery says; the safety part of `EventsAreDelivered` |
| StoreProofs | `StoreTypeCorrect`, `HistoryAlwaysInOrder`, `HistoryAlwaysComplete`, `ListSkipsOnlyAfterMove` | a place's rank, the number of places before it, is injective and below their number, hence onto, so a page is the places at or after a cursor in order and a later one has the rest; `HistoryInv`: what was read is not after the cursor; `ListInv`: while nothing moved, what is not read has a rank at or above the index asked for next |
| ProductionProofs | `ProductionTypeCorrect`, `KeysAlwaysReadable`, `SessionNeverMissing`, `SignOutKeepsKeys`, `SignOutKeepsSession`, `SignOutTypeCorrect` | `KeyInv`: a command that is alone either makes the first key, when no entry exists, or works with the one that is there; `SessionInv`: hardware is saved only after a session; both are carried over to a sign-out beside the commands |
| | `AccountAlwaysUsable` | `UsableInv`: place by place, what an undisturbed command has read is what the file has, and the hardware payload, saved last and deleted before the keystore file, means that the session and its key material are there |
| SecretProofs | `OneItemForEachKey`, `ServiceRefinesStore` | a new item has a new path and is made only if there is none of its key; with that, the call that acts on an item is the step of the table, and searching is a stutter or, when it finds nothing, the whole operation |
| DatabaseProofs | `FileIsMigratedOnce` | `MigrationInv`: a process that is migrating is never past the first migration that is missing; one that is behind fails on the tables that exist, so what is done next is always what is missing |
| | `DatabaseTypeCorrect` | `RowsHold`: a save replaces the rows of one value as a whole, and `Transaction` takes the result only if its constraints hold; what has no foreign key belongs to a row that no save removes |
| | `LoadedIsAlwaysAccepted` | `StoredInv`, below; saving what was loaded replaces the rows of a value by the rows that are there, so they pass every constraint that they passed before |
| | `DatabaseRefinesArchive` | loading undoes saving, value by value (`AccountSaved`, `ConversationSaved`, `MessageSaved`), and changes of the others what Archive says: links to replaced identities (`OtherAccountsStay`) and avatars (`ConversationStays`) |
| ValidationProofs | `InstalledAlwaysWhole`, `HelperAlwaysReaped`, `ValidationTypeCorrect` | `ComponentInv`: a rename needs a free name, so nobody installed before; `HelperInv`: nothing starts the helper of a request that has ended |
| AppProofs | `HandshakeAlwaysAlone`, `ConnectedAlwaysHasDaemon`, `ShellTypeCorrect`, `PageAlwaysSelected` | Retry needs the error page, the error page means Recoverable, and then no handshake is open; the version is the highest of both by arithmetic on the ranges (`NegotiatedIsHighest`); `PageInv`: with the fixture every handler that moves the selection moves the page |
| | `TimelineTypeCorrect`, `MessagesAlwaysInOrder`, `StoreAlwaysShowsDays`, `GroupsAlwaysWhole`, `EffectAlwaysNamesRow` | `TimelineInv`: the messages are sorted with one of each id, the rows are made of them and the store has the rows. Ranks are a permutation (`SortingPermutes`) that sorts (`SortingSorts`); the places of rows rise by one, or by two where a day begins (`RowsStand`); days rise with the messages, and two days never have one label (`LabelsDiffer`), so separators are days (`DaysCounted`) |
| | `LabelsAlwaysDates`, for days that are integers and include every day a message was sent | division by 400, 100 and 4 years and by the 153 days of five months, part by part (`CivilParts`), and what the next day does to each part (`DatesFollow`) |

`StoredInv` has three parts. `RowsHold` says which rows belong together; alone it does not say that
a value can be put together again. `TablesHold` adds that a table has one row for each key, that
every group conversation has its row of details, and that the owner of a group is one of its
participants: without it a load could be `Corrupt` or take either of two rows. `LoadedHold` adds that
what is loaded has the types of crates/core and passes `validate`: after a save of another account a
loaded one is none of the values ever saved, and only its type says that it would be accepted. The
parts of a message are rows with an index; that they come back in order is counted: the rows before
the one of index i are i - 1 (`PartsCounted`).

The theorems assume the `ASSUME`s of their modules, which TLC evaluates in the runs: commands of
different kinds are different, conversations are not named like status pages, ids and times are
numbers, a day has a length, a snapshot has no id twice (message ids are the primary key of the
table they come from), and so on. `ValuesAssumption` of Database says that the values have the
fields of their types in crates/core, and that a message names each attachment as one value:
`save_attachment` runs part by part, so of two versions under one id the later part's stays, and
`Brought`, a set, has no order of parts. A message with two such versions is not modelled.
`NothingAssumption` keeps None and Corrupt apart from values. Two groups have a hypothesis of their own. `SessionOneOperation`,
`SessionConnectsSelected` and `SessionWaitsForOperation` assume `~LossDuringOperation`, the constant
that is FALSE in `setup_session` and TRUE in `setup_stale`, which shows that `ConnectedIsSelected`
needs it. `LabelsAlwaysDates` assumes that `CalendarDays`, the days the run checks, is any set of
integers that has the days of the messages.

Only model-checked: liveness (`AnswerEndsWaiting`, `ReadingEnds`, `WaitingEnds`) and the fairness
part of `EventsAreDelivered`, which are out of the prover's reach; and `SignOutRemovesCredentials`
and `SendSubmitsDraft`, which the code violates.
The other invariants of the setup reducer, `HandshakeIsAlone` and `SessionImplementsFlow` are only
proved.

## Not modelled

Widgets, wording and layout; the contents of messages, forms and pages; `rustpush`, the foreign
library, D-Bus, GTK, SQLite and the Secret Service themselves (external, as the code uses them); the
XDG paths, file modes and redaction of `storage/src/state.rs`; checks of single texts and the D-Bus
shapes of values; more than one account at a time under the production commands; the mock backend
(Timeline takes any events); packaging. Ctrl+N on the shell's error page takes away the only retry
button (`main.rs:1143`): Shell does this, and no property speaks of it.

## Plan

Done: SetupFlow and SetupSession, DaemonService with EventDelivery, Shell, Timeline, Composer, Store,
ProductionSession, the validation modules; then SecretStore and SecretService, SignOut, and Records,
Migration, Database and Archive.

To extend the model:

1. **Transport**: the calls behind `ensure_negotiated` and `negotiate` racing one of them on the
   same transport (`transport.rs:322`), when the shell begins to make calls.
2. **Accounts**: a second account in ProductionSession, which shares the keystore file and not its
   key (`daemon/src/lib.rs:99`, `125`).
3. **Composer** with the mock send and its timer (`main.rs:285-334`, `434-448`).

To prove more: every safety property of the runs that the code keeps is proved; the properties of
the modules above as they come.
