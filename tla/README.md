# A TLA+ model of the Codex–Feishu bridge

This directory holds a formal model of the program in `src/codex_feishu_bridge`: a
service that mirrors the tasks of a local Codex installation into Feishu/Lark topics and
hands messages written there back to Codex.  The modules are written from the source; the
map from every definition to the lines it stands for is in `PROJECT.json` (`map`), and so
are the runs, the mutants that show each property can fail, the hazards and the findings.

    tlc -config Outbox.cfg MCOutbox          # model-check one instance
    tlapm OutboxProofs.tla                   # check the proofs

## 1. The system

One process, one SQLite database.  Three kinds of activity interleave:

* the **main loop** (`service.py`, `_run_main_loop`), one thread that reads the rollouts,
  drains the outbox, reconciles, cleans up and processes the inbox, one after the other;
* the **callback threads**: the long connection to Feishu, which stores incoming messages,
  and the reader of the App Server, which queues its requests and notifications;
* **other processes**: Feishu, Codex (its App Server, its desktop application, and the CLI
  children the bridge starts, which outlive it), and the user who types in Codex.

Every statement commits on its own unless it is inside `storage.immediate()`.  Any of
these may be the last before the process dies.

| Component | State | Operations | Hard part | What makes it correct |
|---|---|---|---|---|
| Outbox delivery (`runtime_storage.py`, `feishu/outbound.py`, `feishu/reconciliation.py`, `feishu/cleanup.py`) | `provider_outbox`, `transient_messages`, `message_ancestry` | ingest, lease, upload, send, confirm, retry, reconcile, clean up | answers lost, late or wrong; UUID windows; death between the provider's act and our record | order within a turn; no duplicate inside the window; settled stays settled; every row settles |
| Ingress and CLI dispatch (`service.py`, `feishu/inbound.py`, `codex/cli_dispatch.py`, `codex/cli_gateway.py`) | `ingress_messages`, `dispatch_records`, tombstones, the child processes | accept, select, expire, hand over, confirm, defer, recover, acknowledge | children outlive the bridge; a turn appears after we stopped waiting; identity by text | one message, at most one turn; what was given up stays so; every message ends |
| Echo suppression (`feishu/inbound.py`, `feishu/user_cli.py`) | ancestry, pending rows | match a callback to our own message | the callback overtakes the confirmation | nothing we sent is dispatched |
| App Server dispatch (`codex/controller.py`, `codex/connection.py`, `codex/app_server_client.py`) | dispatch records, pending and expired request ids | request, response, queue, reconcile by list | a response after its timeout; reconnection | one turn per message; no answer to the wrong request |
| Desktop and relay dispatch | dispatch records, the application's window | submit through the UI, confirm from the rollout | no acknowledgement at all | a late item is claimed once |
| Task anchors and titles (`feishu/tasks.py`, `codex/thread_titles.py`) | `task_bindings` | create, confirm, archive, reactivate, retitle | the anchor's answer is lost | one anchor per task; the last title wins |
| Approvals (`codex/approval_gateway.py`, `security/approvals.py`) | approvals, tokens, cards | publish, decide, expire, respond | a decision races expiry, kill and disconnection | a token is used once, for the request it was made for |
| Controls and execution profile | profile epochs | change, freeze, resume | a command is repeated | each command acts once |
| Project groups | `project_groups` | create through a UUID | the answer of the creation is lost | one group per project |
| Service fence and lifecycle | fencing token, grants, kill generation | acquire, revoke, quiesce, hard stop | an older process goes on | nothing is authorised by an older start |
| Rollout reader and cursor | source cursors | read, rewind, replace | partial lines, replaced files | each item is delivered once |
| Rate limiter | three buckets | acquire | one critical section under a lock | not modelled: nothing interleaves |
| Long connection, attachments, client | – | transport, upload, classification | – | modelled where its effect is |
| Backup, recovery, update gate, audit | files, chain | operator commands | restored databases | not modelled |
| Formatting, discovery, configuration, health, Windows automation | – | – | – | not modelled: layout, pure I/O, other programs |

How they interact: the reader turns rollout items into outbox rows in one transaction with
its cursor; the outbox turns rows into messages and writes the tables by which the ingress
recognises replies and echoes; the ingress turns messages into dispatches; a dispatch
returns as a rollout item, which the outbox must recognise and not mirror.  That ring is
why the two modules written first are the outbox and the ingress.  Beside it runs the
second dialogue: a request of Codex becomes a row and a card in the outbox, a click on the
card a response to Codex; there two threads write the same rows.  The topic in which all
of it happens has a life of its own, from the group of the project to the grant by which a
message in it may reach Codex at all.

## 2. Modules

| Module | Models | State |
|---|---|---|
| `Outbox` | rows of rollout events: enqueue, lease, uploads, send, answers, follow-ups, reconciliation, cleanup, start-up suppression, crashes | done |
| `Delivery` | what the outbox promises, without leases, retries or a clock; `Outbox` implements it (`DeliveryPromise`) | done |
| `MCOutbox` | the events of the runs | done |
| `OutboxProofs` | the outbox's inductive invariant and its theorems; `Outbox` implements `Delivery` | done |
| `IngressDispatch` | from a message of a topic to a turn of Codex through the CLI, and the item that comes back | done |
| `MCIngressDispatch` | the texts of the runs: all the same | done |
| `IngressProofs` | the ingress's inductive invariant and its theorems | done |
| `Approvals` | from a request of Codex to its answer: publication, card, click, response, resolution, hard stop, on the main and the callback thread | done |
| `MCApprovals` | the requests of the runs: one number on the wire, two connections | done |
| `ApprovalsProofs` | the approvals' inductive invariant and its theorems | done |
| `ProjectGroup` | the private group of a project: creation under a UUID, lost answers, the configured chat | done |
| `TaskTopic` | a task's topic in its group: anchor, titles, archive, directory, grant, fence; it EXTENDS `ProjectGroup`, whose actions are part of its main loop | done |
| `MCTaskTopic` | the instance for its two runs | done |
| `TaskTopicProofs` | the inductive invariant of topic and group, and their theorems | done |
| `Rollout` | the rollout file of a task and its incremental reader, with the committed cursor | done |
| `Connection` | requests, responses and timeouts of two threads on the connection to the App Server | done |
| `Uplink` | the deliveries by App Server, desktop and relay, what they return through the rollout, the notifications; it composes `Rollout` and `Connection` | done |
| `MCUplink` | the messages and texts of its run | done |
| `UplinkProofs` | the types of `Uplink` and what its parts keep: the file, the reader, the connection | done |
| `HandOverProofs` | what is handed over to Codex and what is recorded of it: its inductive invariant and theorems | done |
| `ReaderProofs` | what the reader passes is in the topic or in a record, in its turn: its inductive invariant and theorems | done |
| `EchoSuppression` | what the bridge writes in the owner's name, and its callback | done |
| `MCEchoSuppression` | the texts of its runs | done |
| `EchoProofs` | its inductive invariant and its theorems | done |

### How `Outbox` corresponds to the code

`col` holds what a row is inserted with; `state`, `wait`, `lease`, `age` are the columns
`state`, `next_attempt_at`, `lease_expires_at`, `first_attempt_at`; clocks are relative
and saturate, so time needs no bound.  `life` is `transient_messages.lifecycle_state`,
`ancestry` the outbound rows of `message_ancestry`.  `chat`, `gone`, `posted` and `seen`
are the provider: the messages that ever appeared, those that disappeared, and what it
remembers under each UUID.  `worker` is the main thread's place inside an operation: every
statement that commits separately is an action of its own, so `Crash` falls between any
two.  `Crash` stands for a death, a stop and an exception that leaves the loop (a timeout
the client does not catch); `_shutdown` drains the outbox, which is an immediate restart.
The conversation is folded into the turn: the code orders rows by thread and turn, and no
turn belongs to two threads.  The order in which the cleaner takes messages is left open.
The uploads of a rich card are one: the lease between two uploads is the same step again.
The circuit breakers are written and reported, never consulted by the worker, so they are
not in the model.

### How `IngressDispatch` corresponds to the code

One task.  `routing`, `seq`, `hold` and `age` are columns of `ingress_messages`; `record`,
`request`, `touched`, `created` and `turn` those of `dispatch_records`; `rollout` is the
sequence of user items of the task, by who typed them; `cursor` and `mirrored` are what
the reader has seen and what it has queued for the topic; `cli` is the child of each
message; `main` is the main loop's place, the row it holds, the rest of its batch and the
size of the rollout before the hand-over.  The recovery compares timestamps with the
record's, two seconds back: the model lets one item stand in that slack.  A child may land
its item at any time while it runs, whether anybody waits or not.  That Codex, refusing a
second writer, has not begun a turn is an assumption about Codex (`Busy` ends the child).
Attachments differ from text only by being awaited (`AwaitAttachment`); the acknowledgement
of a control is one status of the code and two of the model (`refused`, `discarded`).

### How `Approvals` corresponds to the code

The requests of one task.  `codex` is the App Server's view of each request, `conn` the
start of the bridge on whose connection it came, `queue` and `resolved` the two queues of
`AppServerConnection`.  `state` is `approval_requests.state`; `token`, `decision` and
`context` are columns of `approval_actions`, where the service's fencing token, the server
and connection epoch and the session, which every start renews together, are one number.
`card` is the outbox row of the card and the binding of its message; `hand` is where each
thread is between two statements and what it has read.  `Look` is the reading of the
bindings before the transaction of `Commit`, so that everything may happen in between.
`service` has the process state, the fence and the kill generation.  The owner's grant of
the task and the ownership of its thread are one flag (`task.authorised`), which `Authorise`
and `Revoke` set as `_ensure_task_bindings` and the archive do.  `Fall` is `_shutdown`,
by a stop or by an exception in the main loop, its intermediate states merged as nothing is
decided in them but the last drain of the outbox (`Deliver` at `end`).  `Start` merges
`starting` with `running`: while it starts the service is not authorised to do anything.
The outbox binds a delivered card by its own compare-and-swap (`outbound.py:1150`);
`bind_delivered_card` has no caller.  Audit entries and the two texts of a successful click
are left out; a request that comes with an old identity and other content, and a request
without any decision, are not modelled (Codex sends neither).

### How `TaskTopic` and `ProjectGroup` correspond to the code

One task of one project.  `binding` is the row of `task_bindings` (its three titles are
`anchor_title_hash`, `pending_title_hash` and `blocked_title_hash`, where a hash is a name
and whether it is marked as archived), `grant` that of `remote_task_grants`, `group` that of
`project_groups`; `anchor` and `rows` are the outbox rows of the anchor and of the titles,
`root` is what the root message shows.  `main` walks through one pass of `_run_main_loop`
in the order of the code, one action per statement that commits: the archived tasks, the
catalogue with the call for the group (`call`), the binding, the title, the authorisation,
the outbox.  `seen` is what the pass holds in memory of Codex, which may change (`Change`)
at any moment after it was read; a pass that cannot read it goes on with what it had
(`SkipRefresh`).  `ConfirmAnchor` and `BindAnchor` are two steps, as `finish_outbox` commits
before the binding is written, while a title and its binding are one transaction
(`ConfirmTitle`); a death between the two leaves the binding pending for good, as does the
reconciler, which settles the row alone (section 6).  `Start` covers the repairs at a start:
titles that failed are cleared, the fence is raised and every grant revoked.  The provider
keeps the topic single by the anchor's UUID (that is `Outbox`'s subject); the group's UUID,
whose window the code itself watches, is modelled in `ProjectGroup`.  One task decides for
the group in the model; in the code the project's tasks do so one after the other, in the same thread.  `Dispatchable` is
`require_dispatchable` without its exemption for a bridge-owned thread
(`controller.py:76-89`), which needs no grant.  Remote input requires the mode "outbound"
(`runtime_config.py:302`), in which a new thread is recorded as `desktop_mirror_only`
(`service.py:834`), and nothing changes that later (`transition_ownership` has no caller); a
database in which the mode "inbound" left bridge-owned threads is not modelled.

### How `Rollout`, `Connection` and `Uplink` correspond to the code

`Rollout`: a line is a JSONL record, an offset the number of lines before it, the hash of a
record the record.  `disk` is the file Codex appends to, `tail` a record whose newline is
not there yet; `cursor` is the row of `source_cursors`, `cache` the reader's memory, which
a restart loses and `_state_before_offset` rebuilds.  `Refused` collects the ways in which
`read` raises.  `Connection`: a request is registered, written, answered, timed out
(`TimeOut`) and only then remembered as expired (`Expire`), so that an answer may come
between the two; an answer nobody remembers ends the connection.  Request ids are taken
atomically: between `app_server_client.py:230` and 231 CPython switches no thread.
`Uplink`: one task, one delivery per behaviour (`mode`).  `main` is the place in the main
loop and its dispatcher, `record` the row of `dispatch_records`, `queue` the task's durable
queue in the App Server, `desk` and `relay` what the desktop and the relay task were given
and have not done, `notes` the notifications.  `Ingest` is one transaction, as in the code:
rows, claims and cursor.  The dispatchers write a record before they act, so that `Crash`,
which may fall between any two steps, finds it there.  The notifications are drained as with
approvals enabled.  A user item that is an internal envelope (`outbound.py:247`: a subagent's
notification, the environment) ends before any claim and makes no row.  For the reader it
is a record passed over, as the preview of an answer is, which the model has
(`agent_message`), so `Visible` means the other items.  Left out: the comparison of
profiles and the circuit breaker it opens, `turn/steer`, the notifications of the
desktop deliveries.

### How `EchoSuppression` corresponds to the code

The rows the bridge sends through `lark-cli` in one topic, the messages the provider makes of
them and the owner's own.  `ancestry` and `routing` are the columns by which the callback
thread (`Ingest`) and the main thread (`SuppressIfOutboundEcho`) recognise an echo; `Confirm`
and `RecordAncestry` are two statements, and what `lark-cli` was given may arrive after the
call was given up (`ArriveLate`).  `lost` remembers the messages whose answer the bridge did
not keep.  Ages are kept only while something asks for them.  What follows a dispatch is
`IngressDispatch`.

## 3. Runs

| Run | Question | Instance |
|---|---|---|
| `Outbox` | order, duplicates, settled rows, `Delivery` | one turn: process message, answer with an upload, cue; one crash |
| `OutboxLive` | does every row settle, every cleanup end | two rows, one crash, with fairness |
| `OutboxDuplicate` | finding, section 6 | one turn, no crash |
| `Ingress` | at most one turn, no confirmed item mirrored, rejected for good, every message ends | two messages and a local item with one text, one attachment, one crash, with fairness |
| `IngressMirrored` | finding, section 6 | one message, no crash |
| `Approvals` | the right answer, once; nothing after a hard stop; nothing forgotten | a command and an unserved call with one number, two starts, one binding epoch |
| `ApprovalsRejected` | finding, section 6 | one form, one start |
| `TaskTopic` | one group; a grant of this start only, never for an archived task; no loop over a refused title; an archived task is closed in the end | two starts, two changes in Codex, a second group possible |
| `TopicRename` | finding, section 6 | two starts, one rename, with the help of provider and Codex |
| `Uplink` | every item mirrored or recognised, once, with its turn; one hand-over per message; the connection ends only for a reason; messages and items end | each delivery in turn, two messages and a local text all equal, three items, one death, with fairness |
| `Echo` | no echo handed to Codex unless its answer was lost; nothing of the owner's kept | a mirrored text, the subscribing reply, the owner's equal text; two messages of rows, one death |
| `EchoSubscription` | finding, section 6 | the same, no death |

Bounds and why they suffice.  `MaxRows = 3` is the smallest turn with a head, a middle that
is uploaded and an end, hence all the ways one row can wait for another; `MaxChat = 4`
lets one row be shown twice; one crash reaches every window between two
statements.  `Window`, `Lease` and `Backoff` are one tick (`OutboxLive` has no window, so
that every row may outlive it): what matters is which of two clocks runs out first, and a
tick may come between any two steps.  `Deadline = 1 < RecoverAfter = 2` keeps the order of
the 60 s and the 120 s of the code; all texts are equal because the code recognises its
own turns by their text, and unequal texts only remove behaviours.  In `Approvals`, two
requests with one number meet only over two connections, hence two starts; the one of them
that the bridge does not serve is open without a row, so that a stale answer would find
it.  One binding epoch is enough there, as a drift of the epoch does no more than the
revocation that comes with it; `ApprovalsRejected` has two.  In `TaskTopic` two changes
suffice for a task that is renamed and archived, or archived and restored, around any
step; `MaxRows = 6` title rows are never all used.  `ProviderWindow` exceeds `Window` by
the duration of a call: the contract states the provider's window, and the code counts it
from before its first call.  In `Uplink` the three items are a message, its answer or a
local text, and one more; a file is replaced once; one expired id is remembered and two
requests time out, so that one is forgotten.  To keep one run, each delivery meets what
concerns it: assistant items, empty and incomplete lines and replaced files only with
"observe", where nothing else happens; the title reader sends requests only in the last
life of the process, while the main loop waits too; with App Server the user queues a text
once, before the messages.  Every text is the same there, too.  In `Echo` two rows and two
messages made of them give a row that is made twice, or one message of each. Deadlock is
not checked where the system may stop for good (nothing left to send, all clocks
saturated).

Fairness.  `Outbox`: the main loop calls the lease, the reconciler and the cleaner in every
pass whatever the others did, hence strong fairness of each; what it began it goes on with
(weak fairness); a supervisor restarts the process; time passes.  Of the provider only that
a row that is tried for ever is some day answered definitely: without that no outbox could
settle it.  `IngressDispatch`: weak fairness of the main loop, the restart and the clock,
because every wait in the loop has a timeout; of Codex and of the callbacks nothing.
`TaskTopic`: weak fairness of the loop, strong fairness of the refresh, which the code
makes every two seconds and which fails only while Codex cannot be read, and of the end of
a pass, which hands out at most twenty rows.  `TopicRename` assumes more (`HelpfulSpec`:
names are read, rows sent, answers definite, again and again), because it shows that even
then the title stays; a finding needs strong assumptions, not weak ones.  `Uplink`: weak
fairness of the main loop and the restart, of the completion of a line, of the clocks, and
of `Settle`, as every request is answered or times out; of the App Server, the desktop and
the relay nothing. `Approvals`: strong fairness of `Publish`, which every pass of the loop
calls whatever else it did, and weak fairness of what a thread has begun; of Codex, the
user, the outbox and the clock nothing.

## 4. Proofs

The proof modules prove `Spec => []P` from an inductive invariant `IInv`, which TLC
checked first.  The theorems hold for every value of the constants under the named
assumptions `BoundsAssumption`, `EventsAssumption`, `IngressAssumption`,
`ApprovalsAssumption`, `EchoAssumption`, `GroupAssumption`, `TopicAssumption`,
`RolloutAssumption`, `ConnectionAssumption` and `UplinkAssumption`.  They type the
constants and say that the bounds are not empty; what goes beyond that is named below.

`OutboxProofs`: `TypeCorrect`, `TurnOrder`, `NoDuplicateInWindow`, `SettledRowsStay`.
`VisibleInOrder` is about the chat, but rests on the rows, so `IInv` adds: what is not
there was never touched (`RowsInv`); the worker holds a row only while it is leased
(`WorkerInv`); a row starts only when the rows before it in its turn are settled
(`TurnInv`); what is visible was started, and the provider's clock is never ahead of ours
(`ChatInv`) – the last is what makes our window a safe bound for the provider's.  The steps
of `Next` are first sorted into a few kinds by what they do to rows, and each conjunct is
then proved once per kind.

`IngressProofs`: `TypeCorrect`, `RunsOnce`, `ConfirmedStaysOut`, `RejectedStays`,
`AcceptedStays`.  At most one turn needs that a message without a record was never handed
over or is past its deadline (`MessageInv`): `Busy` removes the record of a child that is
gone, and `RecoverNothing` one that is `RecoverAfter` old, hence by
`Deadline <= RecoverAfter` of a message that can no longer be taken (`TakeRow` asks the
clock again).  The theorem is false without that assumption, which is the only link between
the two constants in the code.  That the main loop's batch holds no message it has begun
(`BatchInv`), what it knows of the row it holds (`RowInv`), and that only a landed child is
in the rollout (`RolloutInv`) complete the invariant.

`ApprovalsProofs`: `TypeCorrect`, `AnswersAreRight`, `AnswersAreSingle`, `ResolvedByCodex`,
`KillFenceHolds`, `TableHolds`.  That an answer reaches its own request needs that numbers
are unique within a connection and nothing is open without one (`ConnInv`, where the first
is what the guard of `Ask` assumes of the App Server), and that a thread about to prepare,
send or record holds a request of the living connection (`HandInv`, through the context of
the row in `RowInv`).  `SentInv` says that nothing is sent before the response is prepared,
hence once.  The queues hold a request at most once, and only closed ones wait to be
observed (`QueueInv`).  After the hard stop no approval is open and the main loop only ends
(`KillInv`), so the callback thread finds nothing that it may commit or prepare.  The
theorems cover any number of binding epochs and starts; the run has one epoch and two
starts.

`EchoProofs`: `TypeCorrect`, `EchoesStayOut`.  That an echo handed to Codex is one whose
answer was lost needs three facts: a message that is stored was posted (`PostedInv`); a
posted message of a row has its ancestry, or is lost, or is the one the main thread is about
to record, and nothing of the owner's ever gets an outbound ancestry (`AncestryInv`); and the
main thread holds a message only between the call and the ancestry, hence not while it
processes the inbox (`MainInv`).  An outbound ancestry is never overwritten, as `Ingest`
stores nothing that has one.  The theorem holds for any rows, texts and bounds.

And `ImplementsDelivery`, that is `Spec => DeliveryPromise`.  With the
outbox's `IInv`, each step of `Outbox` shows one row whose turn has come, queues the rows of
an event, settles rows, hides one message that may be hidden, or leaves alone what
`Delivery` speaks of (`MessageKinds`).  That a shown row's turn has come is `TurnInv` of the
outbox.  Hiding needs more (`DInv`): the provider answers a UUID with the message of its
own row (`AnswerInv`); what has a lifecycle is commentary that is in the chat and no part of
a final answer (`ProcessInv`); and what is queued for cleanup has a visible final answer
in its turn (`CueInv`).  Neither fact can become false, though rows are still being queued.

`TaskTopicProofs`: `TypeCorrect`, `OneGroup`, `GrantsOfThisStart`, `ClosedWhileArchived`,
`RejectedNotRetried`.  One group per project is about the provider's memory of the UUID
against the age of our row: while the row is "creating" the memory is never older than the
row, and a call without an answer that could still make a second group is younger than the
window (`MemoryInv`).  The grant of a start is that of the process that lives (`GrantInv`).
An archived task is closed because the pass of the main loop that saw the archive never
reaches the steps that open it again (`ArchiveInv`).  That a refused title is not sent again
needs the history of a topic's titles: the newest one is confirmed, awaited, or the last one
shown or refused (`TitleInv`).

`UplinkProofs`: `TypeCorrect`, `ForgottenOnly`, `RefusedOnlyReplaced`.  A request without a
response has its waiter, or is remembered as expired, or so many have expired since that it
is forgotten (`AskedInv`), hence only a forgotten one ends the connection.  The reader's
cursor stands at a line of the first file with the record of that line (`ReadInv`), so a
source is refused only after a replacement or for an empty line.  A batch of the reader is
applied line by line; `Ingested` is a recursive function over its events, and the lemma
`Folding` says what holds after each line from what holds before it, by the principle of
the least number: a recursive function is within reach where a RECURSIVE operator is not.

`HandOverProofs`: `HandedOverOnce`, `ItemsNotShared`, `ReturnsKnown`, `AcceptedHasItem`.
A message that was handed to Codex is in one place and there once: asked for, queued,
at the desktop, in the file, or in its incomplete last line; and one that was not is
nowhere (`PlaceInv`).  This is what lets the dispatcher's record say whether it may be sent
again.  It needs what the loop knows of its row at each step (`RowInv`), that the response it
waits for is its own and true (`AnswerInv`), and which steps the mode excludes (`ModeInv`).
An item of a record is a line of the file, written by its message with the delivery by the
App Server, and of the same text with the desktop, in the turn of the record, and
no later than the length the loop measured before it submitted (`RecordInv`); items grow
along the file (`LineInv`), so no two records share one.  A batch is taken line by line
(`AfterLine`): every intermediate state keeps the invariant, which is why the whole
transaction does.  `ItemsNotShared` and `ReturnsKnown` hold with one text for everything.
`UplinkAssumption` also says that nothing is sent with delivery "observe", which starts no
ingress (`service.py:446`), and that the two callers of the connection are the main loop and
the title thread.

`ReaderProofs`: `CursorCovers`, `TurnsHold`.  Either the cursor stands in the file it was
committed for, what it passed since the activation is in the topic or in a record, in its
turn, what follows it is newer, and what the reader remembers is the turn of that place
(`Good`); or another file took the path, and then it is refused for good (`Stale`): an
identity that is used again does not help, as every line of the new file has a greater turn
or a greater item than the record the cursor remembers.  Without `Stale` the invariant is not
inductive: the first replacement leaves a cursor that names no line.  The file is looked at
with its incomplete line (`Whole`), so that whatever the writer does adds lines that are
newer (`Adds`) or begins a file (`Replaces`), and completing a line changes nothing.  The
turn of a place is that of the last turn_context before it, and the lemmas on `ContextAt`
say that a longer file has the same ones, and that the context of some lines read after
those before them is that of all (`ContextJoins`), which is why the restarts do not matter.
A batch is taken line by line here too (`Covered`), over the records of `HandOverProofs`:
an item goes to a record that had none, is known from one, or is queued.  A dispatcher that
confirms a hand-over from the file meanwhile takes an item behind the cursor (`FarInv`), so
that nothing queued becomes a record's.  `MirrorInv`, which joins these, was checked by TLC
as an invariant of the run `Uplink`'s instance before it was proved.

Every invariant and every safety property of an action that a passing run checks is a
theorem.  Only model-checked are the liveness properties, which are out of the proof
system's reach (`Published`, `GoesOn`, `EveryRowSettles`, `CleanupEnds`, `EveryMessageEnds`,
`EveryItemShown`, `ArchivedCloses`).

## 5. Plan

What is left, in this order:

1. An abstract specification of the hand-over – a message is stored, given to Codex at most
   once, recorded or refused – which `IngressDispatch` and `Uplink` implement, with the
   step simulation proved from `IInv` and `HandInv`.
2. Control commands and the execution profile: epochs, tombstones, `turn/steer`.

## 6. Findings

Each is a run whose property is a sentence of the repository and is violated by the code.

* `OutboxDuplicate` – a row that is sent again after its UUID window appears twice
  (README: at-most-once visible delivery).
* `IngressMirrored` – a turn that comes late is mirrored into the topic it came from
  (README: identity prevents the Feishu-origin item from appearing twice).
* `ApprovalsRejected` – a form answer that does not fit is reported as rejected after its
  token was consumed and its action committed; the request stays open for ever
  (`events.py`: invalid actions "are rejected").
* `TopicRename` – a title whose sending died is settled by the reconciler in the outbox
  alone; the binding waits for it, so that until the next start the topic is neither renamed
  nor marked as archived (README: a renaming "updates the existing … topic root in place").
* `EchoSubscription` – the reply that subscribes the owner is handed to Codex when its
  callback comes after its row was settled without an ancestry, or after two minutes
  (`inbound.py:208`: "must never become a Codex instruction").

Met while modelling, without a run of their own:

* `rollout_observer.py:77` – an empty line before the cursor makes `_state_before_offset`
  raise after every restart: the source is refused for ever.  The model has it;
  `RefusedIsReplaced` names it as its exception.
* `outbound.py:1071` – only the cue has operation "final": process messages are archived with
  the text that the final result is kept although parts of the answer were never delivered
  (`FinalResultRemains` in `Outbox` is false).
* `reconciliation.py:145` – the history search takes another row's message when both have
  the same text, as two cues have (`ConfirmedIsOwn` in `Outbox` is false).
* `cli_dispatch.py`, `service.py` – "submitted" is reported of a message whose turn was not
  found (`SubmittedIsConfirmed` in `IngressDispatch` is false; README: "only after the exact
  Codex user turn is confirmed").
* `inbound.py:191` – the echo of a mirrored text whose answer was lost is handed to Codex two
  seconds later, in the same pass of the loop; the retry of the row comes in the next one.
  `EchoesAndNothingElse` says that this is the only way.
* `service.py:998` – the deadline is applied before the ancestry is asked: an echo that waited
  for a minute behind slow sends is answered with a notice that it was discarded.
* `desktop_relay_dispatch.py:307` – an item the relay shows after five seconds is given to
  the task twice.
* `cli_dispatch.py:163` – the user's own new item with the text of a message is taken for its
  turn, as the first one whose text has its hash is (README: source de-duplication "never
  depends on equal message bodies").  It may be typed while the bridge waits for the child;
  or after a death, before the recovery searches: then a message that was never given to a
  child is held for executed.  `AcceptedIsOwn` in `IngressDispatch` is false;
  `ConfirmedNotMirrored` holds in spite of it, as it speaks of the item that was recorded.
* `outbound.py:1091` – an anchor's row is confirmed before its binding: a death in between, or
  the reconciler, leaves the task without a topic; no later start repairs it, as `opt_in`
  keeps the confirmed row and `TaskAnchorManager.confirm` has no caller.
* `desktop_dispatch.py:139` – a text the user typed in Codex is taken for a message with the
  same text (README: "never depends on equal message bodies").
* `service.py:960` – a `turn/completed` that is drained before its item was claimed leaves the
  record accepted for ever.
* `service.py:990` – an error of `thread/resume` ends the main loop; `connection.py:119` – a
  failed connection is never replaced while the process lives.
* `inbound.py:450` – `stable_uuid` is not defined in this module.

## 7. Not modelled, and why

Selections (they exist only in the p2p conversation), control commands and the execution
profile, the operator's commands on a stopped service (backup, restore, promotion, update
gate), the audit chain, and the offline store of `storage.py`, through which the running
service does not go.  The rate limiter takes from its three buckets in one critical section:
no interleaving changes it.  Formatting, Markdown, canonical JSON, file validation and
image extraction are pure functions of content.  Source discovery, version checks and
configuration read other programs' files.  The Windows automation is system calls.  Details
per component: `components` in `PROJECT.json`; hazards not yet covered: `hazards` with a
note.
