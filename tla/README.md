# Specifications of meerail

TLA+ models of meerail's core, the TLC configurations that check them on small
instances, and TLAPS proofs of the theorems that matter most. Paths are relative
to the repository; `file.py:12` is a line of it.

    tlc -workers 2 -config MCOutbox.cfg MCOutbox      # check one configuration
    tlapm OutboxProofs.tla                            # check the proofs of a module

## The system

meerail is a mail client in three processes that share nothing but one Postgres:

| part | where | state it keeps | operations |
| --- | --- | --- | --- |
| **server** | `app/` | rows of the database, browser sessions | HTTP requests; the loops of `app/workers.py` (reminders, journal, indexing) |
| **agent** | `agent/` | one IMAP/SMTP connection per account, rows | `run_account_forever`: drain the action queue, sync folders, IDLE |
| **core** | `core/` | the schema and the rules both use | ingest, placement, threading, outbox, undo |
| **journal server** | `journal/` | a numbered log of sealed records per space | append, read, prune |

The server never speaks IMAP or SMTP. What a user does is written down at once,
optimistically, and a `PendingAction` row is queued; the agent leases due rows,
talks to the mail server outside any transaction and settles the outcome. The
agent's sync then brings back what the mail server made of it. Several installs
may share a journal, from which each learns what the others decided about things
IMAP has no place for (reminders, footers).

The components, the modules that model them, and what makes them correct:

| component | source | module | what makes it correct |
| --- | --- | --- | --- |
| outbox and delivery | `core/outbox.py`, `app/routers/outbox.py`, `agent/actions.py`, `agent/smtp.py` | `Outbox` | nothing waiting is lost; nothing goes out twice by itself; a cancelled or discarded message does not go out; "sent" is true |
| the copy in Sent | `agent/actions.py`, `tools/file_sent.py` | `SentCopy` | it is there, and once |
| journal (client, server) | `app/journal.py`, `journal/server.py` | `Journal` | everybody reads everything, in one order, and ends with the same reminders; a due reminder is fired by one install |
| reminders, threading | `app/reminders.py`, `core/mail/threading.py`, `core/mail/rethread.py` | `Threads` | the same mail in any order makes the same conversations; what a reminder parks it brings back, once |
| two-way sync, undo, the moves of the queue | `agent/sync.py`, `core/ingest.py`, `core/mail/store.py`, `app/mailops.py`, `core/undo.py`, `agent/actions.py` | `Placement` | a local move is not undone by a sweep before it lands, nor believed for ever when it never will; nothing is lost on the way; the agent moves what it was told to; reading is not forgotten |
| folders | `core/ingest.py`, `app/routers/mailboxes.py`, `tools/import_mbox.py` | `Folders` | a partial LIST deletes nothing; a real deletion is noticed; no mail is left in no folder |
| stored content | `core/mail/store.py`, `agent/sync.py`, `core/ingest.py` | `Content` | a mail is shown with its own content, whole, and is one row |
| drafts | `app/static/js/app.compose.js`, `app/routers/compose.py`, `app/staging.py` | `Drafts` | no words are lost or overwritten; nothing sent or thrown away comes back |
| attachment text | `core/ingest.py`, `core/mail/tika.py` | `Indexer` | no file is given up for another's fault; a search finds what was read |
| search index | `core/searchindex.py`, `core/bodysig.py`, `app/routers/search.py` | `Backfill` | an index is trusted only once it is complete |
| agent loop, commands, watchdog | `agent/sync.py`, `agent/commands.py`, `agent/imap.py`, `app/routers/sync.py` | `AgentLoop`, `Watchdog` | a button is answered, whatever is dropped; a silent server does not hold the thread |
| grammar and dictation | `app/grammar.py`, `app/dictation.py` and their routers | `SettingsRow`, `Guard`, `Segments` | settings lose no change; a text goes to a private host; an underline is where it belongs |
| repair tool | `tools/repair_placements.py` | `Repair` | it takes out nothing that anything still waits on |
| sessions | `app/sessions.py` | none | the lockout holds and ends |

The rest (parsing of MIME, lists, contacts, calendar, AI, most of the browser code,
packaging) keeps no state of its own that others depend on, or is a conversion;
`PROJECT.json` lists each with the reason.

**What is hard.** Three habits of the code decide most of the interesting cases,
and the modules model them as they are:

* *A session does not re-read what it has loaded.* SQLAlchemy's identity map keeps
  a loaded row as it was until the session commits, and a later
  `SELECT ... FOR UPDATE` locks the row without refreshing it, unless it says
  `populate_existing`. A flush writes the columns that differ from the loaded copy,
  so an assignment of the loaded value writes nothing. Hence the snapshots in each
  process's frame and the operators `Kept` and `Written` (and `Merged`) that say
  what a commit stores. The agent's `_lease` is the case that matters most: it judges
  the row as the pass had read it, so a cancel, another agent's lease or an undo that
  commits in between is overwritten (`Lease` of `Outbox` and of `Placement`).
* *Sessions do not flush by themselves* (`autoflush=False`, `core/database.py:106`):
  a query does not see what the same session has just added.
* *Network calls are made outside transactions*, so that a crash, a lost answer or
  another process may come between a call and the row that records it.

## Modules

| module | models |
| --- | --- |
| `Outbox` | a message from "Send" to the SMTP server: agents and Outbox screens on one queue |
| `OutboxProofs` | "sent means accepted"; for one agent: at most one delivery, a discard is final, what is queued has a row |
| `SentCopy` | the copy of a sent mail in the Sent folder |
| `Journal` | several installs agreeing on reminders through one log |
| `Placement` | filing mail, and the mirror of an account's folders |
| `PlacementProofs` | that no mail is lost, that the agent moves the mail the press was on, and that what was read stays read |
| `FilingProofs` | that filed mail stays filed, that the last wish wins, and that no placement ahead of the server is left over |
| `Folders` | the folder tree, the server's and the one made here |
| `FoldersProofs` | that imported mail stays filed, and that a folder goes only on evidence |
| `Threads` | conversations, and the reminders that park them |
| `Content` | what is stored of a mail, and which row it is |
| `ContentProofs` | that a mail shows its own content, and what was kept can be read |
| `Drafts` | browser tabs, the server and the disk while mail is written |
| `DraftsProofs` | that no word is lost or overwritten unseen, that files stay while a row names them, and that what is done with does not come back |
| `Indexer` | the queue of attachments and Tika |
| `SettingsRow`, `AtomicSettings` | a settings row, and what it promises |
| `Guard`, `Segments` | where a text may be sent, and where its mistakes are |
| `AgentLoop`, `Watchdog` | the account's thread: what wakes it, and what unblocks it |
| `Backfill` | the columns an upgrade fills in the background |
| `Repair` | the repair tool beside a running agent |
| `MCOutbox`, `MCJournal`, `MCPlacement`, `MCDrafts`, `MCTwins`, `MCRepair` | instances of one module |
| `MCMailbox`, `MCUpkeep` | instances of several, each by itself: see below |
| `MailboxProofs` | of `MCMailbox`: one copy in Sent, whole conversations, kept promises, rows accounted for |
| `UpkeepProofs` | of `MCUpkeep`: settings serialised, fresh verdicts, an honest index, no bystander given up, search by what was read, underlines in place |

Some definitions are preceded by a *variant*: the same operator with a bug the code
could plausibly have had. Nothing uses the variants; each shows, put in place of its
original, that a property can tell the difference.

### Outbox

`outbound` is `Outbound.state` of each message, `action` the `PendingAction` rows of
type `send` (a message may come to have several: `Slot`), `copies` the `save_sent`
rows. An agent's frame is what `drain_actions` and the functions under it hold: the
due rows it read (`queue`), the row in hand (`cur`) with the copy its session has
loaded (`seen`, `state`), and what the SMTP conversation came to (`answer`). `win` is
a request of the Outbox screen between its two reads and its commit, and the row
locks it holds.

| actions | code |
| --- | --- |
| `Send` | `send`, `app/routers/compose.py` |
| `Load`, `Claim`, `Retry`, `Cancel`, `Discard` | `_load`, `_claim` and the three handlers of `app/routers/outbox.py` |
| `DueQueue`, `Reload`, `Lease`, `Begin`, `Converse`, `Settle` | `due_queue`, `_drain_one`, `_lease`, `apply_action`, `smtp.send_raw`, `_settle` and its helpers |
| `PassDies`, `Crash` | an exception that ends the pass; a killed agent |
| `RequeueAbandoned` | `requeue_abandoned`, an operator's command |
| `WaitEnds`, `LeaseLapses` | the clocks: scheduled time or backoff, `_LEASE_TTL` |

The order of the queue is left out (any due row may be next), and a clock is reduced
to whether it still runs. The lease of a living agent does not lapse: the keeper
thread renews it.

### Journal

`log` and `floor` are the server's records and the first it still holds. Each install
has its reminders (`rows`, a table per conversation, since nothing keeps a
conversation from having two), its `outbox`, `deferred` records and `cursor`, and
what its own mail sync has brought of each conversation (`ready`: nothing, the
message, or also the folder it is parked in). Two threads of an install use them: the
journal loop and the reminder tick; `frame` is where each is, with the tables as its
transaction read them (`base`) and as it will write them (`next`).

| actions | code |
| --- | --- |
| `SetReminder`, `ClearReminder` | the routes of `app/routers/reminders.py`, and `_cancel_reminder` of the undo |
| `Drain`, `DrainForgotten`, `Snapshot` | `drain` and a lost answer to it, `snapshot` |
| `Retry`/`CommitRetry`, `Fetch`, `ReadPage`/`CommitPage` | the three parts of `pull`: deferred records, the request, the page |
| `Claim`, `ClaimFails`, `RecordClaim`, `Judge`, `Fire` | `claim`, step by step, and the rest of `run_due` |
| `Prune` | the server's `_prune` |
| `Tick`, `Arrive`, `ClaimLapses` | time, mail sync, `CLAIM_TTL` |

`word` marks a record that is a user's (or a tick's) own, the first time it is
posted. The code has no such mark; the properties use it to say what the users said,
as against what snapshots and repeated posts restate.

Constants that choose what a run looks at: `Worker` (which threads run), `Overlap`
(may another transaction of the install commit between a pull's reads and its
commit), `Ready` (what has synced at first), `Parked` (a reminder is already set and
known everywhere), `Faults` (outages, lost answers, stale claims, pruning). The
other bounds are counts. A second conversation changes nothing between two threads
of work on the first, so runs have one.

### Placement

`server` is what the IMAP folders hold, under UIDs given out by `uidnext` in an `epoch`
(UIDVALIDITY); `place` the `message_locations`, those with a negative UID being ahead of
the server; `queue` the move and flag rows; `mailbox` each folder's epoch as last seen,
and its cursor. `agent` is one account's pass: it drains the queue row by row, then walks
the folders, then, on a full pass, sweeps each.

| actions | code |
| --- | --- |
| `Move`, `Purge`, `set_seen` | `_message_move` of `app/routers/actions.py` with `move_to`, `_retarget_pending` and `_undo_pending` of `app/mailops.py`; `purge`; `set_seen` |
| `CancelMove`, `ReverseMove` | `_cancel` and `_reverse` of `app/routers/undo.py`, with `core/undo.py` `restore` |
| `request_recheck`, `Begin`, `EndPass` | a recheck asked for, and the pass that serves it |
| `NextRow`, `Reload`, `Lease`, `Select`, `Apply`, `RemoveSource`, `Applied`, `Refusal`, `Fail`, `Crash` | `due_queue` to `_settle`: the row is read and judged (`picked`), then locked and leased as it was read; a move is SELECT with its epoch check, COPY or MOVE, the check that the copy landed, a second SELECT, removal, each a step of its own |
| `FetchNew`, `StoreNew` | `_sync_new`, `_store_chunk`, `upsert_location`, `_queue_flag_catchup` |
| `ListFolder`, `Sweep` | `_reconcile`: the SEARCH, and then in one commit `update_flags`, `_restore_unplaced`, `prune_vanished` and what they leave alone |
| `MoveElsewhere`, `ExpungeElsewhere`, `Rebuild`, `GraceEnds` | other clients, a server that renumbers a folder, `SETTLE_GRACE` |

The agent reads a row in one step (`Begin` for the first of the pass, which `due_queue` has
loaded, `Reload` for the next, which the last commit expired) and leases it in another, on
what it read. An undo in between is answered as done and its "undone" overwritten: the move
is made. `Lease` puts the message of such a row in `doubt`.

The properties speak of what the user wished (`wish`, `word`) except where somebody else
interfered with the mail (`doubt`). `word` is "read" from the first mark that reaches every
unread copy the server has (`Reaches`), and "mixed" once something was said, or happened,
after which the code promises nothing of the flag: see `ReadStays` below.

### Folders

`exists` and `held` are the server, `row` the `Mailbox` rows, `place` where mail is shown,
`asks` the `create_folder` rows and `moves` the moves waiting. `create_mailbox`,
`delete_mailbox`, `import` (the mbox tool), `File` are the user; `list_folders`, `walk`,
`create_folder`, `apply_move`, `prune` the agent's pass; `Elsewhere` and `Loaded` the
server. An imported account has no agent until `Restarts` configures one, and its folders
then meet the server's. Time is counted in ticks up to each grace.

### SentCopy

A send that has settled queues a `save_sent` row unless the server files what it relays;
`Take`, `Decide`, `Search`, `AppendCopy` and `Settle` are `_save_sent_copy` and the row's
outcome, with commands that fail and appends whose answer is lost. `ToolScan` and
`ToolCommit` are `tools/file_sent.py` run beside it. `passed` remembers the mail whose
copy was passed over on purpose: a setting changed, or its bytes gone.

### Threads

`assign_thread` as an operator on the thread ids of what is stored, `ingest_raw` for each
mail in any order, `rethread_account` for the tool. A reminder holds a thread id, the mails
it parked and where from; `set_reminder`, `ReadClear`/`CommitClear`, `Touch` (a press that
takes the mail elsewhere) are requests, `ReadDue` and `FireDue` a tick of `run_due`, which
reads all that is due and then fires one at a time under `FOR UPDATE SKIP LOCKED`.

### Content

`copies` are the server's, `stage` how much of a mail the server serves while it is still
putting it together, `rows` what is stored: full, headers only, or pruned, with the key it
was filed under and the hash of what was fetched. `ingest_raw` is the whole decision
(`same_message`, `shared_id`, the second lookup by content, `fill_in`); `Walk`, `Recheck`,
`FindShort`/`Refetch` are the three ways bytes come in, `Slide`, `Prune`, `Collect` the
ways they go.

### Drafts

The browser's code and the server's together, since the protocol is between them: `held`,
`screen`, `local` (localStorage) and `gone` are the tabs', `row` and `disk` the server's,
`reqs`, `deletes`, `post` and `listing` what is on the wire. A draft is the set of words
typed into it, and of the files staged for it, each named by the draft's key. A page may
load with the server's list or, offline, from localStorage alone (`LoadPage`). `letGo` says
which draft has done with which file, and `shared` the files that a fork (409) left two
drafts with: the code copies the list of chips and not the files. `overrun` collects the words the code knowingly gives up (an entry of
localStorage that another tab's clean copy deletes, and a revision adopted without its
text, which `Blind` allows), so that the properties are about the rest. `own` remembers, for
each page, which rows it was the last to save, and `unsure` the drafts of which a request or
an answer was lost: `StaysGone` speaks of a page's own rows and of drafts it is sure of.

### Indexer

A drain (`extract_pending`) reads a batch and puts one file at a time to Tika, which may
be up, down or hung; `Files` says which file is good, slow, unreadable or kills. `Answer`,
`timed_out`, `crashed`, `AskAgain`, `GiveUp` are the branches of `_extract_one` and
`wait_for_health`; `rebuild` the rollup at the end of a batch. `Replace` and `Strip` are a
mail stored anew or pruned meanwhile.

### SettingsRow and AtomicSettings

`_save` and `_write` of `app/routers/grammar.py` (and, line for line the same,
`dictation.py`): the row is read `FOR UPDATE`, which locks nothing while there is none.
`AtomicSettings` is what that must amount to: requests change the value one at a time, each
from what the one before left, and each is answered once. `Atomic` instantiates it with
the value the row says, and `Serialised` is its specification: `SettingsRow` implements it.

### Guard and Segments

`Guard` is the cache of verdicts shared by threads (`Ask`, `Lookup`, `Store`, `Done`) with a
DNS that changes. `Segments` is a pure function checked against its definition: every
list of paragraphs within the bounds, and every match, one step each.

### AgentLoop and Watchdog

`AgentLoop` follows `run_account_forever`: clear the wake-up, pass, IDLE or wait, backoff
after a failure, a kill and a restart at any step; a pass is `take_recheck`, LIST, the
folders, `clear_recheck`. The two buttons differ in that a recheck is also a column.
`Watchdog` follows one connection through its calls, and the second thread that shuts the
socket down under a call that has outlived its deadline.

### Backfill

The trigger and the background loop that fill `search_tsv`, and `_index_built`, by which a
server once convinced trusts the column for good; `body_sig` beside it, which code, and not
a trigger, keeps.

### Repair

The tool's phases (`group`, `merge`, `find_placeholders`, `drop`, and asking the server
about mail in no folder) with the ids each has read, between the steps of presses, the
agent's moves, walks, reminders and a server where mail comes and goes. `Starts` are the
states earlier versions left, which the tool is for.

### Several components in one run

`MCMailbox` and `MCUpkeep` put modules side by side: `MCMailbox` extends `Folders` and
`MCUpkeep` extends `Content`, and both instantiate the others. The constants of the parts
that are proved about are constants of the combined module too (renamed where two parts
would share a name: `Letters` for the `Mail` of `SentCopy`), and its configuration gives them
the small values of the run, so that `MailboxProofs` and `UpkeepProofs` prove of any values
what the run checks of these. `AgentLoop` and `Watchdog`, which are not proved about, have
theirs in `INSTANCE ... WITH`. `part` chooses in the initial state which of them runs, and the
variables of the others stay as they are (an instance's 0, `Folders`' an empty tree,
`Content`'s an empty account). The components in them do not interact: the run is the union
of their behaviours. Each component states its own `Spec`, `Fairness` and properties; the
combined module restates those of its instances for their part, under the same name. Fairness there is the antecedent of each temporal property
(`FoldersFair => ...`) and no part of `Spec`: every property is then checked under the
fairness of its own component only.

## Runs

| run | shows | bounds |
| --- | --- | --- |
| `outbox` | `NoSpontaneousDuplicate`: a message goes out again only if it was resent by hand or a crash lost the record of it. `SentMeansAccepted`. `QueuedIsLive`: a queued message has a row an agent will take. `DiscardIsFinal`: after a discard is answered, never | 2 messages, 1 agent, 2 windows, 2 presses, a failure and a crash |
| `outbox_live` | `QueuedLeaves`: a queued message leaves the queue; with messages that had no queue row, and up to two rows | 1 message, 2 windows, 2 failures, 2 crashes, 3 presses |
| `journal` | `LastWordWins`: an install that has read the whole log, with nothing owed, holds what the last word of the users says | 2 installs, 3 verbs, deadlines 1 and 2, an outage |
| `journal_claims` | `FiredOnce`: a due reminder is fired once, and each fault costs at most one firing more | 3 installs, one of: outage, lost answer, stale claim |
| `journal_live` | `EverybodyHears`: every record owed goes up, is read by all, and waits only for mail that is not there | 2 installs, 1 verb, 2 snapshots, one of: outage, lost answer, prune; mail arrives late |
| `placement` | `RightMessage`: the agent moves the mail the press was on, whatever has been renumbered. `FiledStaysFiled`: no sweep brings filed mail back while its move is on its way. `ReadSticks`: what was read stays read, through moves and sweeps | 2 messages, 2 folders, a press, a mark, a change elsewhere, a renumbering or recheck |
| `placement_live` | `NothingLost`: at no instant is a mail in no folder of the server. `LastWishWins`: with nothing on its way it is where it was put last, but for an undo that the lease overwrites. `NoGhost`: no placement is left that nothing backs. `Converges`: what is shown comes to agree with the server | 1 message, 3 folders, 2 presses, an undo, a failure, refusals; servers with and without MOVE, databases with and without hashes |
| `drafts` | `WordsKept`: words nobody threw away are in a tab, on disk, on the wire or in a row. `SavesKeep`: no save takes words out of a row that its tab has not seen. `FilesKept`: neither the sweep nor another draft's end takes a file a draft names, unless the two share it since a fork. `StaysGone`: what a page sent or threw away, and was the last to save, does not come back | 2 tabs (alike: symmetry), 4 rows, nine budgets of words, files, composers, forks, sends, throws, lost answers, reloads with the server and without, restarts |
| `mailbox`: Folders | `NothingUnfiled`, `PrunedOnEvidence`: a folder goes only after LISTs left it out for the whole grace, `TreeSettles` | 4 folders with a nested one and All Mail, 1 mail, graces of a tick, four budgets |
| `mailbox`: SentCopy | `OneCopy`: a mail is in Sent once, whoever files it. `Filed`: it gets there | 2 mails, a failure, a change of setting, a run of the tool |
| `mailbox`: Threads | `Grouped`: what references tie is one conversation and what only a worn id ties is not. `Promise`: a reminder that is over has brought back all it parked. `ComesBack` | 4 mails, two with one id, a reply to both kinds, six budgets |
| `mailbox`: Repair | `Accounted`: a row taken out is nothing's to wait on, and its mail is in the backup or the keeper | five starts, five budgets |
| `upkeep`: Content | `OwnContent`, `Readable`: mail the window has kept since it was walked can be read; `Repaired`: mail stored short is whole in the end | 2 mails with one id in 2 folders, three budgets |
| `upkeep`: Indexer | `NoBystander`, `Searchable`, `Drained`: the queue runs empty | 4 attachments of 2 mails (good, slow, a killer), batches of two, three budgets |
| `upkeep`: SettingsRow, Guard, Segments | `Serialised` (a refinement), `FreshVerdict`, `Underlined` | 5 requests; 2 threads and a clock of 3; up to 3 paragraphs of up to 2 units |
| `upkeep`: AgentLoop, Watchdog, Backfill | `Heard`: a press is answered by a pass that began after it; `Unparked`; `IndexHonest` | 2 folders, 2 presses, four budgets; 3 connections; 3 mails in batches of two |
| `outbox_cancel`, `content_twins` | violations, below | |

Each bound is the least at which the cases that the property is about happen: two windows
to race, two deadlines to disagree on, three installs for a claim that is neither first nor
last, three folders for a move to be re-aimed, two mails to wear one id. *Budgets* are
alternatives: a behaviour takes one of a set of records that say how often each kind of
disturbance may happen, so that the pairs that interact are covered without their product.
Deadlock checking is off everywhere: users may stop, and then the system rightly does.

### What TLC refutes

Two runs end in a counterexample, each against a sentence of the repository that
`PROJECT.json` quotes.

* `outbox_cancel`, `CancelHonoured`. A cancel between the agent's read of the queue and its
  lease is answered "held", and the message is sent: the lease judges the copy loaded
  before the lock (`agent/actions.py:1234`).
* `content_twins`, `OneRow`. A mail stored in full leaves the window; a recheck fetches its
  headers alone, whose hash is another, so the mail is taken for a different one wearing
  its id and becomes a second row, to which the placement now points
  (`core/mail/store.py:442`).

More configurations end in counterexamples when run by hand
(`tlc -config <name>.cfg MCOutbox`, `MCJournal`, `MCPlacement` or `MCRepair`):

| configuration | what happens |
| --- | --- |
| `MCOutboxLease` | two agents lease one row, for the reason of `outbox_cancel` |
| `MCOutboxHeld` | a retry of a queued message assigns the value it loaded, which writes nothing: after a concurrent cancel the message is held and its row pending (`app/routers/outbox.py:320`). With `MaxPress = 3` and `CancelledIsParked`, the other way round: a cancel judges the message as it was before it waited for the lock, and answers "held" with the send pending |
| `MCOutboxRow` | two retries of a message without a queue row make one each: two deliveries (`app/routers/outbox.py:304`) |
| `MCJournalClaimLost` | the tick's write of its own claim goes over a competitor's earlier one the loop has just applied: both fire (`app/journal.py:582`) |
| `MCJournalEcho` | an install reads its own set back after its user has cancelled it, and makes the reminder again until the cancel has come round |
| `MCJournalBatch` | a drain posts up to 500 records, the server takes 200: a backlog in between blocks publishing and reading for ever (`app/journal.py:213`) |
| `MCJournalDefer` | a cancel read in a later page overtakes the deferred set it cancels (`app/journal.py:273`) |
| `MCJournalReply` | a set posted again after a lost answer is later than another install's cancel |
| `MCJournalSnapshot` | a snapshot, queued before the pull, restates what others have taken back |
| `MCJournalPrune` | the server prunes a reminder behind the snapshot of an install that never read it |
| `MCJournalThreads` | a request and the pull each find no reminder and make one: a cancel closes only one |
| `MCPlacementEarly` | a press between a renumbered folder's SELECT and the walk queues an old UID under the new epoch, and another message is moved (`app/mailops.py:101`) |
| `MCRepair` | the repair tool lists an old placeholder, a move queued meanwhile reuses that row, and the tool deletes it (`tools/repair_placements.py:456`), though it says that the agent can keep running (`:42`): `LeavesQueued` fails |

The modules also state properties that are left out of every configuration because the
code does not keep them; an instance that shows each is easily made. Some rows are of
properties that the modules state in a narrower form, for the reason given.

| property | what happens |
| --- | --- |
| `Folders!MovesItsOwn` | with `SameNames`, mail imported into a folder whose name the server has too: invented UIDs meet the server's, and a move takes another mail. The first sweep also deletes such mail as vanished |
| `Placement!OneMove` | with `StuckAfter = 1` in `MCPlacementLive`: a move given up on stays queued, its message is restored and filed again, and two rows compete (`app/mailops.py:402`, `core/mail/store.py:213`) |
| `Placement!ReadSticks` without `Reaches` | with `StuckAfter = 1`: a move is given up on, the sweep restores the placement it took away, the message is marked read there, and the move is made after all before the mark: the flag is written to a folder where the mail no longer is, and lost (`app/routers/actions.py`, `set_seen`) |
| `Placement!UndoneStays` | with the constants of `MCPlacementLive`, in five states: a press, the pass reads its row, the undo is answered and marks it "undone", the lease overwrites that and the move is made, against `app/routers/undo.py:518` ("The agent never selects it again"): `_lease` locks the row without reading it again (`agent/actions.py:1234`). The message counts as interfered with in `LastWishWins` and its kin |
| `Drafts!ForkKeepsFiles` | a word, a file, a composer, a fork, a chip or draft thrown away and a lost answer, one each: a saved draft whose answer was lost is saved again, refused and forks (`app.compose.js:1099`); both rows name the file, and the × of a chip of one half, its sending or its discarding (`compose.py:190`, `:525`, `:773`) unlinks it under the other, against `app/staging.py:91` (a draft's files are left alone and "go when the draft is sent or discarded"). `FilesKept` leaves shared files out |
| `Drafts!StaysGone` of all rows under a key | two words, a composer opened, a draft thrown away, a page gone: another tab saves the draft again and closes, and the delete, which names the revision its own page saw, leaves that row |
| `Drafts!OthersLeftBe` | a tab whose copy is clean deletes another tab's entry of localStorage under its key, against the comment above `persistLocal` |
| `Threads!StaysApart` | with a run of the rethread tool, two mails that share only an id end in one conversation (`core/mail/rethread.py:78`) |
| `Threads!OnePromise` | merged conversations may have a pending reminder each (`app/reminders.py:126`) |
| `Threads!NothingRetires` | a reminder whose mail is re-listed under a new Archive row is over without moving anything |
| `AgentLoop!ServedInFull` | with `Partial`, a recheck during a LIST that leaves folders out is marked as served (`agent/sync.py:975`) |
| `Watchdog` with `Early` | a call that blocks before the socket is held is out of the watchdog's reach (`agent/imap.py:374`): `Unparked` fails |
| `Backfill!PrintsHonest` | `bodysig.build_batch` writes the fingerprint of a body read earlier over that of one stored meanwhile, and nothing repairs it |
| `Indexer!Searchable` with two drains | an import's drain and the agent's each rebuild the rollup from what they read |

Seen while modelling, and outside the models' properties: an undo or a re-aim after a
half-made move leaves the first copy; a failed flag row overtaken by a sweep and a move
loses the read flag; any refusal into All Mail is taken for permanent
(`agent/actions.py:299`); a folder made here that the server lacks after adoption makes
moves into it retry for ever; `delete_orphan_messages` goes by `updated_at` and not by how
long mail has been unplaced; a repair fetch answered short at full size is not repeated
until the agent restarts, and its memo outlives a change of UIDVALIDITY; `/send` and the ×
of a stale tab delete a newer saved row; a lost answer to a first save makes the draft
twice; after an outage of the event stream the browser refreshes drafts and not the list
(`app.shell.js:592`).

## Fairness

`Outbox`: an agent's pass goes on (`run_account_forever` runs passes for ever, and
catches what a pass raises), a request that has begun finishes, and clocks run out.
Weak fairness of `AgentStep(a)`, `WindowStep(w)` and the two clocks. No user, crash
or operator is obliged to do anything.

`Journal`: `journal_loop` runs a pass every few seconds and survives any exception:
weak fairness of `Drain(i)` and of `Pull(i, "loop")`. The server is not down for ever:
outages are bounded by `MaxFault`. Mail need not arrive.

`Placement`: the pass goes on (`Drain`, `Walk`), and full passes come again and again
between partial ones (strong fairness: the loop sweeps every few minutes, and anything may
wake it in between). Graces end.

`Folders`, `SentCopy`: the pass goes on and time passes; an action that is retried on every
pass, and enabled again and again between failures, is taken in the end (strong fairness of
applying a move, of a row being taken, of making a folder the server accepts); LIST answers
in full again and again. A server that files what it relays does so. Failures are bounded.

`Threads`: the tick runs (`reminders_loop` survives any exception), and deadlines come.
`Content`: sweeps come round, and a server finishes putting a mail together. `Indexer`: its
thread goes on, and Tika is restarted by its container. `AgentLoop`, `Watchdog`: threads run, the
listener reconnects, and a poll comes when a notification was lost; the user presses or not.

## Proofs

Every theorem holds for any sets the constants stand for and any bounds, under the
assumptions its module names and those said here. Each rests on an inductive invariant,
and what it states of a run's property TLC has checked on that run.

Where a property is about a recursive definition, a fold or a closure, its proof is an
induction over data. The library's induction theorems take a predicate as parameter and
cannot be used, so three modules prove one about sets instead: `Least`, that a set of naturals
has a least member (from the well-foundedness of `<`), and `Induct`, that a set with 0 and
the successor of each of its members has all of them. A predicate is then the set of the
numbers that it holds of.

### Outbox (`OutboxProofs`)

* `TypeCorrect`: `Spec => []TypeOK`. One lemma each for the windows' steps, the
  agents' and the rest.
* `SentCorrect`: `Spec => []SentMeansAccepted`. The property alone is not inductive:
  a step that settles an answer needs to know where the answer came from. `SentInv`
  adds `AnswersAreHonest`, that an agent told "accepted" has it from the server. No
  assumption on the number of agents: even a row leased twice is settled honestly.
* `AtMostOnce`: with one agent and one queue row a message,
  `Spec => []NoSpontaneousDuplicate`. Both assumptions are needed (`MCOutboxLease`,
  `MCOutboxRow`). The invariant `AtMostOnceInv` is in five parts. `SpareToSend` is the
  argument: a row that will be sent without anybody being asked, and the agent about to
  send it, have a delivery to spare, that is, fewer were made than resends and crashes
  account for. To keep that through a step one must know that the row an agent has
  leased stays as it loaded it (`LeaseLasts`), which holds because requests refuse
  leased rows and judge them under a lock with a current copy (`ClaimIsCurrent`), and
  that nothing touches a message before it is written (`UnwrittenIsUntouched`).
* `QueuedLives` and `DiscardFinal`: `Spec => []QueuedIsLive` and `Spec => DiscardIsFinal`,
  for one agent, one row a message and no message from before messages had rows
  (`NoneRowless`). `QueueInv` ties the two tables: a message that is there has its row and
  the other way about (`RowWithMessage`), a request past its lock holds a row that is there
  and judges the state it has now (`ClaimHasRow`, `StateIsCurrent`), and what was answered
  "discarded" is gone (`DiscardedIsGone`). With a message from before the rows
  `DiscardIsFinal` fails even with one slot, as TLC shows (`MCOutbox` with `Legacy =
  {"rowless"}`): a discard that found no row to lock takes the message away while an agent
  sends it by the row that a retry has written meanwhile. `QueuedIsLive` holds there too in TLC, and is proved only
  without.

### Placement (`PlacementProofs`)

All three assume `~EarlyPress`, that no key is pressed on a placement whose folder has been
renumbered and not walked since; `MCPlacementEarly` shows another message moved otherwise.
The number of messages, folders, presses, failures and renumberings, servers with MOVE and
without, databases with hashes and without, are arbitrary.

* `UidsStand`: `Spec => []IInv`. A UID *stands* for a message when the folder's UIDVALIDITY
  is not older than the one it was read under and, while it is the same, no other message
  has it and none will get it (`Stands`, `Names`). `IInv` says that of every placement, every
  queue row and everything the agent holds, wherever in its pass it is: past its SELECT the
  row's epoch is the folder's, after COPY another copy of the message exists, and what FETCH
  has answered is named as the folder has it. Each action is a lemma; `Sweep` and `StoreNew`
  have one for each of the four things they do.
* `MailKept`: `Spec => []NothingLost`. Not inductive alone: the removal after COPY needs the
  copy elsewhere, which is the agent's part of `IInv`, and a delete that its row is a
  user's word about the message that the UID stands for.
* `RightMessageTaken`: `Spec => RightMessage`, the action property, from the same invariant.
* `ReadStays`: `Spec => []ReadSticks`. `ReadInv` says of a message read here, and not in doubt,
  that each copy of it on the server is read, or that a row of the queue `Means` that very
  copy and will come to it (`Said`): the row waits, was never tried, comes before any live
  row that files the message, and is ahead of the agent (`Waiting`); or the agent has leased
  it and is about to write it (`InHand`). `OnlyRead`: no flag row of such a message says
  unread. What may move the copy away is a live row of the message before the mark, which
  `Waiting` excludes, so a copy that is filed is read already, and COPY keeps the flag. The
  order within the queue is all there is to it: `due_queue` goes by id, and a row that has
  to be tried again comes later than those after it. So a mark that failed, or whose agent
  died, is "mixed" from then on (`Unsaid`), and so is a message read before a folder with a
  copy of it was renumbered. A mark set while a row that was given up on may still move the
  message (`Rivalled`), or on a placement of an earlier epoch, does not count as reaching it
  (`Reaches`). The property was first stated of every mark; it holds within the bounds of the
  run, and trying to prove it showed the case above.

### Filing (`FilingProofs`)

What becomes of mail that is filed, under the same assumption, and of messages whose filing
was not interfered with (`doubt`); what counts as interference is said below.

* `FilingStands`: `Spec => [](IInv /\ FInv)`. `FInv` says of such a message (`Clear`) that a
  row at work on it is the last that files it (`LastWorks`); that what a believed row takes
  away is not placed in its folder (`StaysFiled`); that the server has it once, but between
  a COPY and the removal of its source (`OneCopyThere`, `Copied`); that a row at work leads
  where its user wants it, and with none it is there (`WishHeld`); that a move which was
  refused or taken back left it where it was (`ShelvedHome`), without which an undo could
  put a placement back where the server has nothing; and of placements ahead of the server
  that they stand beside no other in their folder, nor in a folder a row takes the message
  out of, nor without reason (`Apart`, `NoneHome`, `Backed`). `Held` says the same of the row
  in the agent's hands, at each stage of its move.
* The proof has two kinds of step. A step that leaves a message alone (`RowsSame`, `UidsSame`,
  `PlaceSame`) leaves it `Clear`, whatever it does to others: `QuietClear`, which carries
  walks, sweeps, flags, failures, crashes and renumbered folders. A step about the message
  itself is a press, an undo or a settled row: `AppendedClear`, `AimedClear`, `SettledClear` and
  `ServerClear` say what each may do, and `MoveToF` applies them to every branch of `move_to`,
  `_retarget_pending` and `_undo_pending`.
* `FiledStays`, `WishWins`, `GhostsBacked`: `FiledStaysFiled`, `LastWishWins` and `NoGhost` from it.

What is interfered with: mail that another client moved or expunged; mail whose rows a sweep
dropped with its last placement; a press or an undo while a move of the message is half made
(`HalfMade`), cannot be passed on, or revokes what has been done (`Misled`); an undo between
the agent's read of the row and its lease, which takes the row all the same (`Lease`); a COPY made twice
for want of a hash; and a message that has come to have two rows at work (`Rivalled`). The last
was found by the proof: `LastWorks` is not inductive without it. A row that has failed
`STUCK_AFTER` times is no longer believed, so the sweep puts its message back where it was
(`move_in_flight`, `core/mail/store.py:178`), but it stays in the queue; filed again, the
message has two rows, and whichever the agent makes last decides, though
`_retarget_pending` (`app/mailops.py:402`) promises one move (`OneMove`, above). With
`StuckAfter = 1` and three presses TLC shows both `FiledStaysFiled` and `LastWishWins` violated
when such a message is not counted as interfered with.

### Folders (`FoldersProofs`)

* `TreeStands`: `Spec => []FInv`: the foreign keys (a placement is of stored mail in a folder
  with a row, a queued move of stored mail), that `missing` of a row is at most the time
  LIST has left it out, that an imported account has no agent, and `NothingUnfiled`.
* `TypesStand`: `Spec => []TypeOK`, from it.
* `MailIsFiled`: `Spec => []NothingUnfiled`. `import` files what it stores; `delete_mailbox`
  purges what its subtree was the last home of; a press on an account without a server
  writes the placement it takes away somewhere else.
* `PruneIsEvident`: `Spec => PrunedOnEvidence`, from `missing <= unlisted` (`MarksOK`): the
  clock of the code starts when a pass sees the folder missing and so never before it went,
  and stops when one sees it again.

### Content (`ContentProofs`)

All three assume `HeadersTell`: two mails that wear one Message-ID differ in sender, subject
or time. Of a row whose content was never fetched the code has nothing else
(`same_message`), so two mails that agree in all would be one row to it.

* `RowsStayOwn`: `Spec => []CInv`: a row's key and hash are its mail's (`RowOwn`), a placement
  points to a live row of its mail (`PlacedOwn`), what is kept is placed against a row with
  content (`KeptFull`), and is not over the cap.
* `ContentIsOwn`, `KeptIsReadable`: `OwnContent` and `Readable` from it. The lemma that carries
  them is `FoundOwn`: whatever row `ingest_raw` finds for a mail, by the Message-ID or by
  content, is a row of that mail. `kept` forgets a mail when the window leaves it, when a cap
  set later excludes it, and when the server drops it.

### Drafts (`DraftsProofs`)

For any number of tabs, drafts and budgets, four theorems, each on top of what the one
before it needs. Every step either leaves the server's rows alone, and then does to each
part of the state one of the few things that `Moves` lists (`StepMoves` proves it, once,
for every handler of the page), or is one of the server's four (`ServerWrites`). The
invariants are proved against these two and not against the handlers.

* The base is `Typed(K)`: there is a `K` that says for each row id, whatever has become of the
  row, which draft's key it was given out for, and every part that mentions an id mentions
  it under that key. A tab has one live request a draft.
* `RowFilesKept`: `Spec => []FilesKept`. `FilesKnown`: a file that a row, a page, a request, a
  send, a list or localStorage names for a draft was staged for that draft, and is on disk or
  was let go of by it (`Stands`); or two drafts share it since a fork, and then it is on disk or
  one of them let go of it. So what a draft's end takes off the disk was staged for it, or is
  shared (`Unlinks`). The budgets of the run make forks of drafts with files but never end a
  half of one (the space of those that do is too large); that case rests on the proof.
* `NothingUnseenOverwritten`: `Spec => SavesKeep`. `Revs`: a page, a save on the wire or a list
  that states a row's current revision has all of that row's words, unless it took the
  revision over without its text (`HeldRevs`, `ReqRevs`, `ListRevs`), and so has a copy in
  localStorage, which a page that loads offline takes as it is (`LocalRevs`); and a save that is out is
  behind the draft that it is of (`ReqsHeld`).
* `NoWordLost`: `Spec => []WordsKept`. `WordsIn`: the signature by which a page takes its draft to
  be saved is of words that are on the *shelf* (in a row, sent, thrown away or overrun), as are
  those of an answered save; a row that is to be deleted at the revision it has holds
  nothing that is not over with; and what is being sent is what its draft says.
* `NothingComesBack`: `Spec => []StaysGone`. `Sure`: where nothing of a draft was lost on the
  wire, the row its page was the last to save is the row its draft names, or the save that
  is out, at the revision it knows (`HeldSure`); a save of a draft that is done with is of a
  row on its way out (`ReqGone`); a send names its page's own row, and one that succeeded has
  taken it (`PostSure`). As first stated, of every row under the key, the property was false
  beyond the bounds of the run, as the attempt to prove it showed: see the table above.

### Mailbox (`MailboxProofs`)

Of the components of the run `mailbox` beside `Folders`, under `MailboxSpec`.

* `FiledOnce`: `MailboxSpec => []OneCopy`, for finitely many mails. Either the server files what
  it relays, and then the agent never gets as far as to look (`ServerFilesAlone`), or it has
  nothing to file, and an agent about to append has just seen that there is no copy
  (`AgentFilesAlone`); `file_sent.py` only queues what the agent then looks for.
* `ConversationsWhole`: `MailboxSpec => [](part = "threads" => T!Whole)`, from `ThreadInv`: a message
  and one it names, under an id nobody else wears, are in one conversation. Through
  `rethread_account` it is an induction over the messages that were threaded anew.
  `ThreadConstants` says that Message-IDs are not the keys of other messages' bytes.
* `MailGrouped`: `MailboxSpec => []Grouped`, where one Message-ID is worn twice (`OneWorn`). The
  other half of `Grouped` says that the two that wear it are in one conversation only if
  references or subjects tie them, through any number of messages: a closure (`Reach`),
  of which the proof needs that it contains its message, is closed and is least, each by
  induction. `ApartInv`: every conversation is named after a message to which all its
  members are tied (`Labels`), and of two that share an id the first is filed under it and
  the second not (`OwnIds`, `LaterTwo`). The assumption is needed as `Kin` is defined: it lets a
  reference to a worn id tie only to the two that it compares, so mail tied through the
  wearers of a second one would not count as tied.
* `PromiseKept`: `MailboxSpec => Promise`, unless the message a waiting
  reminder was set on may be deleted for good (`~AnchorsToo`), which takes the reminder along. `ReminderInv`: what a waiting reminder parked came from
  elsewhere than Archive, so `fire` has somewhere to put it.
* `RowsAccounted`: `MailboxSpec => Accounted`, for any starts whose rows keep the unique key of
  the table (`RepairConstants`). `RepairInv`: between `group` and `merge` each set of twins is of one
  letter and no other's (`Disjoint`), its keeper is complete if any member is, and if none
  is they are of the same bytes and the keeper is the one the walk will find (`Sound`).

### Upkeep (`UpkeepProofs`)

Of the components of the run `upkeep` beside `Content`, under `UpkeepSpec`.

* `SettingsSerialised`: `UpkeepSpec => Serialised`, that `SettingsRow` implements `AtomicSettings`
  by the refinement mapping `value <- parse_stored(row)`, for requests of the three kinds
  and a limit of at least one word (`Requests`). `Read` maps to a stutter and `Write` to
  `Answer` or a stutter. `RowInv` says why: whoever has read a row holds it and read it as
  it is (`ReadIsCurrent`), and whoever lost the race to insert it finds it the second time
  (`SecondTimeFinds`). A request that was refused on no row would be refused on any
  (`RefusedFromNothing`), so it does not matter that it read nothing.
* `VerdictsFresh`: `UpkeepSpec => []FreshVerdict` for positive TTLs. `KeptInTime`: a verdict in
  the cache was true no longer than its TTL before it expires, which holds because the TTL
  counts from before the lookup (`LookedUp`).
* `IndexTrusted`: `UpkeepSpec => []IndexHonest`. A column says what the text says now or nothing
  (`NeverStale`), for the trigger and the backfill both take the text as the row has it; so
  once none says nothing all are right, and stay so, since the trigger precedes the
  question (`ReadyLast`).
* `BystandersSpared`: `UpkeepSpec => []NoBystander`, for any number of drains. `QueueInv`: a file that
  waits for a second try, or is on it, took Tika with it once (`SecondTry`), so what is given
  up took it twice, or it hung on that file (`GivenUp`).
* `TextsFound`: `UpkeepSpec => []Searchable`, for the agent's drain alone (`OneDrainOnly`; two that
  cross write over each other's text). `Written`: what a drain has flushed and not committed
  is what a search will then find by.
* `UnderlinesMeant`: `UpkeepSpec => []Underlined`. The joined text is laid out paragraph by paragraph
  (`Layout`, an induction over them), each unit in its place; so the units of a match are in
  the paragraph whose bounds `_locate` finds, and in none where it finds none.

### Only model-checked

* Everything that is live (`QueuedLeaves`, `EverybodyHears`, `Converges`, `TreeSettles`,
  `Filed`, `ComesBack`, `Repaired`, `Drained`, `Heard`, `Unparked`): fairness and ENABLED are
  beyond TLAPS. For `AgentLoop` and `Watchdog` that is all they state.
* `LastWordWins` and `FiredOnce` of `Journal`. Both compare installs with a log that pages and
  drains fold into tables, and hold only with what the configurations exclude (see the
  table of what TLC refutes), so an invariant would have to say of every prefix that an
  install may have read what it has made of it.

## Plan

Done: the components of the table at the top, and the proofs of the section above. Next:

1. `FiredOnce` of `Journal` for ticks alone, then `LastWordWins`.
2. Batches: a delete of many rows that fails half way, fifty rows a pass, sends first.
3. A journal on Postgres, whose numbers are allocated before the commit.
4. Sessions and the login window.

## Not modelled

Sealing and spaces of the journal, message text, MIME, conversions of all kinds; queries
and lists; the browser beyond its drafts, which appears as requests that may come at any
time; the queues of the event stream; proxies, TLS and configuration; deadlocks inside
Postgres, which abort a transaction that is then retried or reported.

Within the components: labels (a server where one copy shows in several folders) in
`Placement`, and operations over several rows at once (a batch of deletes is taken as
deletes one by one); a row that the lease skips because a request has it locked at that
instant, which the next pass takes; UIDPLUS being absent; renames of
folders; expiry of unsent mail; a user who goes on typing while a send is out; a moody
Tika file that fails now and then; flags in `Repair`; give-ups by count in the journal
(`MAX_TRIES`, `DEFER_BATCH`).
