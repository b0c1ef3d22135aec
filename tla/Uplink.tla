------------------------------- MODULE Uplink -------------------------------
(***************************************************************************)
(* The three ways of delivery that do not start a child of the Codex CLI,  *)
(* for the messages of one task: "app_server" (codex/controller.py over    *)
(* the Connection), "desktop" (codex/desktop_dispatch.py) and              *)
(* "desktop_relay" (codex/desktop_relay_dispatch.py); and what the main    *)
(* loop does around them: it reads the Rollout, recognises there the items *)
(* of messages it handed over, mirrors the others into the topic, drains   *)
(* the notifications of App Server and gives up what comes too late.       *)
(* With "observe" nothing is delivered and the rollout is only mirrored.   *)
(***************************************************************************)
EXTENDS Rollout, Connection, FiniteSets

CONSTANTS
  Modes,       \* the ways of delivery, one of which is configured
  Messages,    \* what may be sent in the topic of the task
  Sent,        \* bound: the messages that are sent, in each mode
  TextOf,      \* the text of each message, and of what the user types
  MaxRelayed,  \* bound: instructions the relay task takes
  MaxStarts    \* bound: starts of the process

ASSUME UplinkAssumption ==
  /\ Modes \subseteq {"observe", "app_server", "desktop", "desktop_relay"}
  /\ Messages \cap {"local", "codex", "none"} = {}
  /\ \A d \in Modes : Sent[d] \subseteq Messages
  /\ "observe" \in Modes => Sent["observe"] = {}   \* no router: service.py:446
  /\ DOMAIN TextOf = Messages \cup {"local"}
  /\ Callers = {"main", "title"}
  /\ MaxStarts \in Nat \ {0}

VARIABLES
  mode,      \* config.remote.delivery
  starts,    \* starts of the process so far
  main,      \* the main loop: where it is, its row, the rows after it, the
             \* lengths of the rollouts before the hand-over
  inbox,     \* ingress_messages, in the order of ingest_seq
  routing,   \* ingress_messages.routing_state
  age,       \* received_at: 0 fresh, 1 over 60 s ago, 2 over 2 h ago
  held,      \* the messages whose dispatch_not_before is not reached
  record,    \* dispatch_records: state, request_id, turn_id, user_item_id
  tombstone, \* executed_command_tombstones
  mirrored,  \* the items queued for the topic, with their turns
  queue,     \* App Server: the durable queue of the task
  notes,     \* AppServerConnection.notifications: turn/completed
  desk,      \* Codex Desktop: the submissions its task will take up
  relay      \* the relay task: instructions to come, its rollout, how much is done

bridgeVars == <<starts, main, inbox, routing, age, held, record, tombstone, mirrored>>
codexVars  == <<queue, notes, desk, relay>>
vars == <<mode, rolloutVars, connectionVars, bridgeVars, codexVars>>

NoRecord == [state |-> "none", request |-> "-", made |-> 0, turn |-> 0, item |-> 0]
Loop(pc) == [pc |-> pc, row |-> "none", rest |-> {}, size |-> 0, relaySize |-> 0]

Init ==
  /\ RolloutInit /\ ConnectionInit
  /\ mode \in Modes
  /\ starts = 1
  /\ main = Loop("read")
  /\ inbox = <<>>
  /\ routing = [m \in Messages |-> "absent"]
  /\ age = [m \in Messages |-> 0]
  /\ held = {}
  /\ record = [m \in Messages |-> NoRecord]
  /\ tombstone = {}
  /\ mirrored = {}
  /\ queue = <<>> /\ notes = <<>> /\ desk = {}
  /\ relay = [log |-> <<>>, done |-> 0, inbox |-> <<>>]

Up == main.pc # "down"
At(pc) == main.pc = pc
Go(pc) == main' = [main EXCEPT !.pc = pc]
Down == Loop("down")
\* Mutation: the loop looks for messages again, before it reads.
RestAtInput(rest) ==
  IF rest = {} THEN Loop("input") ELSE [Loop("row") EXCEPT !.rest = rest]
Rest(rest) == IF rest = {} THEN Loop("read") ELSE [Loop("row") EXCEPT !.rest = rest]
NextRow == Rest(main.rest)

SetState(m, s) == record' = [record EXCEPT ![m].state = s]
-----------------------------------------------------------------------------
\* The callback thread stores a message.
Receive(m) ==
  /\ Up /\ m \in Sent[mode] /\ routing[m] = "absent"
  /\ routing' = [routing EXCEPT ![m] = "routed"]
  /\ inbox' = Append(inbox, m)
  /\ UNCHANGED <<mode, rolloutVars, connectionVars, codexVars, starts, main, age, held,
                 record, tombstone, mirrored>>

\* Time: the deadline of a message, and the two hours of a late item.
GrowOld(m) ==
  /\ routing[m] # "absent" /\ record[m].state \notin {"accepted", "completed"}
  /\ \/ age[m] = 0 /\ routing[m] = "routed"
     \/ age[m] = 1 /\ record[m].state = "outcome_unknown" /\ record[m].request = "submitted"
  /\ age' = [age EXCEPT ![m] = @ + 1]
  /\ UNCHANGED <<mode, rolloutVars, connectionVars, codexVars, starts, main, inbox, routing, held,
                 record, tombstone, mirrored>>

\* dispatch_not_before of a deferred message is reached.
Release(m) ==
  /\ m \in held
  /\ held' = held \ {m}
  /\ UNCHANGED <<mode, rolloutVars, connectionVars, codexVars, starts, main, inbox, routing, age,
                 record, tombstone, mirrored>>
-----------------------------------------------------------------------------
\* Reading the rollout.

\* Mutation: what was given up does not return.
ClaimableUnlessUnknown == {"bytes_sending", "accepted"}
Claimable == {"bytes_sending", "accepted", "outcome_unknown"}

\* The item returns under the clientUserMessageId of its hand-over.
ByClient(rec, e) ==
  {m \in Messages : mode = "app_server" /\ e.by = m /\ rec[m].state \in Claimable}

\* Mutations: no item is known, every item of a recorded turn is.
KnownNever(rec, e) == FALSE
KnownTurn(rec, e) ==
  \E m \in Messages : /\ rec[m].state \in {"accepted", "completed"}
                      /\ rec[m].turn = e.turn

\* The item was recorded when its turn was confirmed.
Known(rec, e) ==
  \E m \in Messages : /\ rec[m].state \in {"accepted", "completed"}
                      /\ rec[m].turn = e.turn /\ rec[m].item = e.item

\* The text in the rollout is the one that was handed over; a delegation
\* also names the relay task, so that what the user types never is.
SameText(m, by) ==
  /\ by # "codex"
  /\ TextOf[by] = TextOf[m]
  /\ mode = "desktop_relay" => by # "local"

Oldest(rec, ms) == CHOOSE m \in ms : \A n \in ms : rec[m].made <= rec[n].made

\* A late item of a submission that was not confirmed in time.
Delayed(rec, e) ==
  {m \in Messages : /\ rec[m].state = "outcome_unknown" /\ rec[m].request = "submitted"
                    /\ age[m] < 2 /\ SameText(m, e.by)}

Claimed(rec, m, e) ==
  [rec EXCEPT ![m].state = "accepted", ![m].turn = e.turn, ![m].item = e.item]

\* What one event of a batch leads to: it is claimed for a record, known, or
\* mirrored.  One that is not visible leads to nothing, nor does an internal envelope.
IngestEvent(acc, e) ==
  LET claim == ByClient(acc.rec, e)
      late  == Delayed(acc.rec, e)
      Claim(m) == [acc EXCEPT !.rec = Claimed(@, m, e), !.tomb = @ \cup {m}]
  IN CASE ~ e.visible -> acc
       [] e.visible /\ e.by # "codex" /\ claim # {} -> Claim(Oldest(acc.rec, claim))
       [] e.visible /\ e.by # "codex" /\ claim = {} /\ Known(acc.rec, e) -> acc
       [] e.visible /\ e.by # "codex" /\ claim = {} /\ ~Known(acc.rec, e) /\ late # {} ->
            Claim(Oldest(acc.rec, late))
       [] OTHER -> [acc EXCEPT !.out = @ \cup {[item |-> e.item, turn |-> e.turn]}]

\* The events of a batch, one after the other.
Ingested(events) ==
  LET after[k \in 0..Len(events)] ==
        IF k = 0 THEN {[rec |-> record, tomb |-> tombstone, out |-> mirrored]}
        ELSE {IngestEvent(acc, events[k]) : acc \in after[k - 1]}
  IN after[Len(events)]

AfterRead == IF mode = "app_server" THEN Loop("drain") ELSE Loop("input")

Activate ==
  /\ At("read")
  /\ Checkpoint
  /\ main' = AfterRead
  /\ UNCHANGED <<mode, connectionVars, codexVars, starts, inbox, routing, age, held,
                 record, tombstone, mirrored>>

\* ingest_rollout_batch: rows, claims and cursor in one transaction.
Ingest ==
  /\ At("read")
  /\ cursor # NoCursor /\ ~Refused
  /\ main' = AfterRead
  /\ \E batch \in {Batch(cursor.at)} : \E end \in Ingested(batch.events) :
       /\ Commit(batch)
       /\ record' = end.rec /\ tombstone' = end.tomb /\ mirrored' = end.out
  /\ UNCHANGED <<mode, connectionVars, codexVars, starts, inbox, routing, age, held>>

\* The process ends: by itself, or in the middle of anything.
Die ==
  /\ main' = Down
  /\ ForgetCache /\ Reconnect /\ notes' = <<>>
  /\ UNCHANGED <<mode, starts, inbox, routing, age, held, record, tombstone, mirrored,
                 queue, desk, relay>>

\* SourceReplacedError and RolloutReadError leave the main loop.
RefuseSource == At("read") /\ cursor # NoCursor /\ Refused /\ Die
-----------------------------------------------------------------------------
\* The rows of the inbox.

\* Mutation: what has a record does not expire.
ExpiringUnrecorded(m) ==
  /\ routing[m] = "routed" /\ age[m] > 0
  /\ m \notin tombstone /\ record[m].state = "none"

Expiring(m) ==
  /\ routing[m] = "routed" /\ age[m] > 0
  /\ m \notin tombstone
  /\ record[m].state \notin {"accepted", "completed"}

\* Mutation: what is not accepted is tried again.
EligibleUntilAccepted(m) ==
  /\ routing[m] = "routed" /\ m \notin held
  /\ m \notin tombstone /\ record[m].state \notin {"accepted", "completed"}

Eligible(m) ==
  /\ routing[m] = "routed" /\ m \notin held
  /\ m \notin tombstone /\ record[m].state = "none"

\* _expire_stale_ingress, and the rows of this pass.
Select ==
  /\ At("input")
  /\ LET late == {m \in Messages : Expiring(m)}
         todo == {m \in Messages \ late : Eligible(m)}
     IN /\ routing' = [m \in Messages |-> IF m \in late THEN "rejected" ELSE routing[m]]
        /\ held' = held \ late
        /\ main' = Rest(todo)
  /\ UNCHANGED <<mode, rolloutVars, connectionVars, codexVars, starts, inbox, age,
                 record, tombstone, mirrored>>

\* The next row: its deadline is read again, its dispatch may be refused
\* for want of a grant, or it is handed to the dispatcher.
ExpireRow(m) ==
  /\ age[m] > 0
  /\ routing' = [routing EXCEPT ![m] = "rejected"]
  /\ main' = Rest(main.rest \ {m})
  /\ UNCHANGED record

RefuseRow(m) ==
  /\ age[m] = 0
  /\ routing' = [routing EXCEPT ![m] = "rejected"]
  /\ main' = Rest(main.rest \ {m})
  /\ UNCHANGED record

First(ms) == CHOOSE m \in ms :
  \A n \in ms : \E i, j \in DOMAIN inbox : i <= j /\ inbox[i] = m /\ inbox[j] = n

\* The record is inserted, after those that exist.
Made == 1 + Cardinality({n \in Messages : record[n] # NoRecord})
Prepare(m, pc) ==
  /\ record' = [record EXCEPT ![m] = [NoRecord EXCEPT !.state = "prepared", !.made = Made]]
  /\ main' = [main EXCEPT !.pc = pc, !.row = m, !.rest = @ \ {m}]

TakeRow(m) ==
  /\ age[m] = 0
  /\ IF mode = "app_server"
     THEN /\ main' = [main EXCEPT !.pc = "requirements", !.row = m, !.rest = @ \ {m}]
          /\ UNCHANGED record
     ELSE Prepare(m, "snapshot")
  /\ UNCHANGED routing

Row ==
  /\ At("row")
  /\ LET m == First(main.rest) IN ExpireRow(m) \/ RefuseRow(m) \/ TakeRow(m)
  /\ UNCHANGED <<mode, rolloutVars, connectionVars, codexVars, starts, inbox, age, held,
                 tombstone, mirrored>>

\* The message stays in the inbox: _defer_ingress, or an unavailable server.
DeferRow(m) ==
  /\ held' = held \cup {m}
  /\ main' = NextRow

\* The record of the hand-over is accepted, with its tombstone.
Accept(m, turn, item) ==
  /\ record' = [record EXCEPT ![m].state = "accepted", ![m].turn = turn, ![m].item = item]
  /\ tombstone' = tombstone \cup {m}
  /\ main' = NextRow
-----------------------------------------------------------------------------
\* Delivery through App Server: CodexController.dispatch.

\* The user's own text is in the queue of the task or in its rollout.
LocalSent == "local" \in ToSet(queue) \cup {line.by : line \in ToSet(disk.lines)}

row == main.row
Idling == waiting["main"] = Idle
Reply == waiting["main"].reply

\* configRequirements/read: nothing is recorded yet, the row may come again.
AskRequirements ==
  /\ At("requirements")
  /\ Request("main", "requirements", row)
  /\ UNCHANGED <<mode, rolloutVars, bridgeVars, codexVars>>

NoRequirements ==
  /\ At("requirements") /\ Idling /\ ~Usable
  /\ DeferRow(row)
  /\ UNCHANGED <<mode, rolloutVars, connectionVars, codexVars, starts, inbox, routing, age,
                 record, tombstone, mirrored>>

GotRequirements ==
  /\ At("requirements") /\ Returned("main")
  /\ Leave("main")
  /\ IF Reply = "ok" THEN Prepare(row, "add") /\ UNCHANGED held
     ELSE DeferRow(row) /\ UNCHANGED record
  /\ UNCHANGED <<mode, rolloutVars, asked, served, expired, timeouts, failure, codexVars,
                 starts, inbox, routing, age, tombstone, mirrored>>

\* thread/queue/add: the record says so before the bytes are written.
AskAdd ==
  /\ At("add") /\ record[row].state = "prepared"
  /\ Request("main", "add", row)
  /\ record' = [record EXCEPT ![row].state = "bytes_sending", ![row].request = "rpc"]
  /\ UNCHANGED <<mode, rolloutVars, codexVars, starts, main, inbox, routing, age, held,
                 tombstone, mirrored>>

\* The connection has failed: no bytes were sent, the record stays prepared.
NoAdd ==
  /\ At("add") /\ Idling /\ ~Usable
  /\ Go("list")
  /\ UNCHANGED <<mode, rolloutVars, connectionVars, codexVars, starts, inbox, routing, age,
                 held, record, tombstone, mirrored>>

GotAdd ==
  /\ At("add") /\ Returned("main")
  /\ Leave("main")
  /\ IF Reply = "ok" THEN Accept(row, record[row].turn, record[row].item)
     ELSE SetState(row, "outcome_unknown") /\ Go("list") /\ UNCHANGED tombstone
  /\ UNCHANGED <<mode, rolloutVars, asked, served, expired, timeouts, failure, codexVars,
                 starts, inbox, routing, age, held, mirrored>>

\* thread/queue/list: is the submission there under its client id?
AskList ==
  /\ At("list")
  /\ Request("main", "list", row)
  /\ UNCHANGED <<mode, rolloutVars, bridgeVars, codexVars>>

NoList ==
  /\ At("list") /\ Idling /\ ~Usable
  /\ main' = NextRow
  /\ UNCHANGED <<mode, rolloutVars, connectionVars, codexVars, starts, inbox, routing, age,
                 held, record, tombstone, mirrored>>

GotList ==
  /\ At("list") /\ Returned("main")
  /\ Leave("main")
  /\ IF Reply = "found" THEN Accept(row, record[row].turn, record[row].item)
     ELSE main' = NextRow /\ UNCHANGED <<record, tombstone>>
  /\ UNCHANGED <<mode, rolloutVars, asked, served, expired, timeouts, failure, codexVars,
                 starts, inbox, routing, age, held, mirrored>>

\* _drain_codex_notifications: a turn that ended is that of an accepted
\* record, or of somebody else.
DrainNote ==
  /\ At("drain") /\ notes # <<>>
  /\ notes' = Tail(notes)
  /\ LET note == Head(notes)
         own == {m \in Messages : record[m].state = "accepted" /\ record[m].turn = note.turn}
     IN IF own = {}
        THEN UNCHANGED <<record, main>>
        ELSE LET m == CHOOSE n \in own : TRUE
             IN /\ SetState(m, "completed")
                /\ IF note.failed THEN UNCHANGED main ELSE Go("resume")
  /\ UNCHANGED <<mode, rolloutVars, connectionVars, queue, desk, relay, starts, inbox,
                 routing, age, held, tombstone, mirrored>>

Drained ==
  /\ At("drain") /\ notes = <<>>
  /\ main' = Loop("input")
  /\ UNCHANGED <<mode, rolloutVars, connectionVars, codexVars, starts, inbox, routing, age,
                 held, record, tombstone, mirrored>>

\* reconcile_profile: thread/resume reads the profile back.  An error here
\* leaves the main loop.
AskResume ==
  /\ At("resume")
  /\ Request("main", "resume", "none")
  /\ UNCHANGED <<mode, rolloutVars, bridgeVars, codexVars>>

GotResume ==
  /\ At("resume") /\ Returned("main") /\ Reply = "ok"
  /\ Leave("main")
  /\ Go("drain")
  /\ UNCHANGED <<mode, rolloutVars, asked, served, expired, timeouts, failure, codexVars,
                 starts, inbox, routing, age, held, record, tombstone, mirrored>>

ResumeRaises ==
  /\ At("resume")
  /\ (Idling /\ ~Usable) \/ (Returned("main") /\ Reply # "ok")
  /\ Die

\* The title reader: thread/read on its own thread, over the same connection,
\* while the main loop waits on it too, first in the last life of the process: bound.
AskTitle ==
  /\ starts = MaxStarts /\ timeouts = <<>> /\ ~LocalSent
  /\ At("requirements") /\ ~Idling
  /\ Request("title", "read", "none")
  /\ UNCHANGED <<mode, rolloutVars, bridgeVars, codexVars>>

GotTitle ==
  /\ Returned("title")
  /\ Leave("title")
  /\ UNCHANGED <<mode, rolloutVars, asked, served, expired, timeouts, failure,
                 bridgeVars, codexVars>>
-----------------------------------------------------------------------------
\* Codex App Server.

\* Where a record is seen without its newline: bound.
Partial == IF mode = "observe" THEN BOOLEAN ELSE {FALSE}

\* A submission is appended to the queue of the task.
Enqueue ==
  /\ \E call \in asked : /\ call.method = "add"
                         /\ Serve(call)
                         /\ queue' = Append(queue, call.msg)
  /\ UNCHANGED <<mode, rolloutVars, bridgeVars, notes, desk, relay>>

Entries(m) == Cardinality({i \in DOMAIN queue : queue[i] = m})

\* The responses it may give: an error means that nothing was carried out.
Replies(call) ==
  CASE call.method = "add"  -> IF call \in served THEN {"ok"} ELSE {"error"}
    [] call.method = "list" -> {"error", IF Entries(call.msg) = 1 THEN "found" ELSE "absent"}
    [] OTHER -> {"ok", "error"}

Respond ==
  /\ \E call \in asked :
       \/ \E reply \in Replies(call) : Answer(call, reply)
       \/ DropLate(call)
       \/ RejectAnswer(call)
  /\ UNCHANGED <<mode, rolloutVars, bridgeVars, codexVars>>

EndOfOutput ==
  /\ mode = "app_server" /\ Up
  /\ CloseOutput
  /\ UNCHANGED <<mode, rolloutVars, bridgeVars, codexVars>>

Impatience ==
  /\ \E c \in Callers : TimeOut(c) \/ Expire(c)
  /\ UNCHANGED <<mode, rolloutVars, bridgeVars, codexVars>>

\* An idle task takes the next submission of its queue.
TakeQueued ==
  /\ queue # <<>> /\ Running = {}
  /\ \E partial \in Partial : WriteUser(Head(queue), partial)
  /\ queue' = Tail(queue)
  /\ UNCHANGED <<mode, connectionVars, bridgeVars, notes, desk, relay>>

\* A turn ends; a reader that still runs queues the notification.
FinishTurn ==
  /\ mode \in {"observe", "app_server"}
  /\ EndTurn
  /\ IF mode = "app_server" /\ Up /\ Usable
     THEN \E failed \in BOOLEAN :
            notes' = Append(notes, [turn |-> LastTurn, failed |-> failed])
     ELSE UNCHANGED notes
  /\ UNCHANGED <<mode, connectionVars, bridgeVars, queue, desk, relay>>

\* The user types at the desktop, Codex answers.  Answers, empty lines,
\* other files and a second text of the user are left to "observe": bound.
Writes ==
  /\ \/ mode # "app_server" /\ (mode = "observe" \/ ~LocalSent)
        /\ \E partial \in Partial : WriteUser("local", partial)
     \/ mode = "observe" /\ \E partial \in Partial : WriteAssistant(partial)
     \/ mode = "observe" /\ (WriteBlank \/ ReplaceFile)
     \/ CompleteLine
  /\ UNCHANGED <<mode, connectionVars, bridgeVars, codexVars>>

\* With App Server the user may queue a submission too: once, before the
\* messages: bound.
QueueLocal ==
  /\ mode = "app_server" /\ starts = 1 /\ inbox = <<>> /\ ~LocalSent
  /\ queue' = Append(queue, "local")
  /\ UNCHANGED <<mode, rolloutVars, connectionVars, bridgeVars, notes, desk, relay>>
-----------------------------------------------------------------------------
\* Delivery through the user interface of the desktop.

\* The bytes of the rollouts before the hand-over.
FileSize == Len(disk.lines) + IF disk.tail = NoLine THEN 0 ELSE 1

Snapshot ==
  /\ At("snapshot")
  /\ record' = [record EXCEPT ![row].state = "bytes_sending", ![row].request = "ui"]
  /\ main' = [main EXCEPT !.pc = "submit", !.size = FileSize, !.relaySize = Len(relay.log)]
  /\ UNCHANGED <<mode, rolloutVars, connectionVars, codexVars, starts, inbox, routing, age,
                 held, tombstone, mirrored>>

\* The helper types and sends: the desktop takes the input or not, and the
\* helper reports a submission or an error, rightly or not.
Taken(m) ==
  IF mode = "desktop" THEN desk' = desk \cup {m} /\ UNCHANGED relay
  ELSE relay' = [relay EXCEPT !.inbox = Append(@, m)] /\ UNCHANGED desk

Submit ==
  /\ At("submit")
  /\ \E taken, reported \in BOOLEAN :
       /\ taken => Len(relay.log) + Len(relay.inbox) < MaxRelayed
       /\ IF taken THEN Taken(row) ELSE UNCHANGED <<desk, relay>>
       /\ IF mode = "desktop_relay"
          THEN Go("relayed") /\ UNCHANGED record
          ELSE IF reported
          THEN /\ record' = [record EXCEPT ![row].request = "submitted"]
               /\ Go("confirm")
          ELSE SetState(row, "outcome_unknown") /\ main' = NextRow
  /\ UNCHANGED <<mode, rolloutVars, connectionVars, queue, notes, starts, inbox, routing,
                 age, held, tombstone, mirrored>>

\* The relay task shows the instruction: a new item with its exact text.
RelayShows(m) ==
  \E i \in DOMAIN relay.log : i > main.relaySize /\ TextOf[relay.log[i]] = TextOf[m]

FindRelay ==
  /\ At("relayed") /\ RelayShows(row)
  /\ record' = [record EXCEPT ![row].request = "submitted"]
  /\ Go("confirm")
  /\ UNCHANGED <<mode, rolloutVars, connectionVars, codexVars, starts, inbox, routing, age,
                 held, tombstone, mirrored>>

\* Five seconds without it: the attempt is taken back and will be repeated.
MissRelay ==
  /\ At("relayed")
  /\ record' = [record EXCEPT ![row] = NoRecord]
  /\ DeferRow(row)
  /\ UNCHANGED <<mode, rolloutVars, connectionVars, codexVars, starts, inbox, routing, age,
                 tombstone, mirrored>>

\* Mutation: the text is not compared.
NewItemsOfAnyone(m) ==
  {i \in DOMAIN disk.lines : /\ m \in Messages /\ i > main.size
                             /\ disk.lines[i].type = "user"}

\* The new user items of the task that hold the text; a record that was
\* incomplete at the snapshot is not among them.
NewItems(m) ==
  {i \in DOMAIN disk.lines : /\ i > main.size /\ disk.lines[i].type = "user"
                             /\ SameText(m, disk.lines[i].by)}

FindTurn ==
  /\ At("confirm") /\ NewItems(row) # {}
  /\ LET line == disk.lines[CHOOSE i \in NewItems(row) : \A j \in NewItems(row) : i <= j]
     IN Accept(row, line.turn, line.item)
  /\ UNCHANGED <<mode, rolloutVars, connectionVars, codexVars, starts, inbox, routing, age,
                 held, mirrored>>

\* 20 s or 45 s without it: submitted, not confirmed.
GiveUp ==
  /\ At("confirm")
  /\ SetState(row, "outcome_unknown")
  /\ main' = NextRow
  /\ UNCHANGED <<mode, rolloutVars, connectionVars, codexVars, starts, inbox, routing, age,
                 held, tombstone, mirrored>>

\* Codex Desktop writes a submission into its task.
TakeSubmission ==
  /\ \E m \in desk : /\ \E partial \in Partial : WriteUser(m, partial)
                     /\ desk' = desk \ {m}
  /\ UNCHANGED <<mode, connectionVars, bridgeVars, queue, notes, relay>>

\* The relay task takes an instruction, and then calls its tool, once, with
\* or without success.
TakeInstruction ==
  /\ relay.inbox # <<>>
  /\ relay' = [relay EXCEPT !.inbox = Tail(@), !.log = Append(@, Head(relay.inbox))]
  /\ UNCHANGED <<mode, rolloutVars, connectionVars, bridgeVars, queue, notes, desk>>

Delegate ==
  /\ relay.done < Len(relay.log)
  /\ \/ \E partial \in Partial : WriteUser(relay.log[relay.done + 1], partial)
     \/ UNCHANGED rolloutVars
  /\ relay' = [relay EXCEPT !.done = @ + 1]
  /\ UNCHANGED <<mode, connectionVars, bridgeVars, queue, notes, desk>>
-----------------------------------------------------------------------------
Crash == Up /\ starts < MaxStarts /\ Die

Start ==
  /\ At("down") /\ starts < MaxStarts
  /\ starts' = starts + 1
  /\ main' = Loop("read")
  /\ UNCHANGED <<mode, rolloutVars, connectionVars, codexVars, inbox, routing, age, held,
                 record, tombstone, mirrored>>

AppServerStep ==
  \/ AskRequirements \/ NoRequirements \/ GotRequirements
  \/ AskAdd \/ NoAdd \/ GotAdd
  \/ AskList \/ NoList \/ GotList
  \/ DrainNote \/ Drained \/ AskResume \/ GotResume \/ ResumeRaises

DesktopStep == Snapshot \/ Submit \/ FindRelay \/ MissRelay \/ FindTurn \/ GiveUp

MainStep ==
  \/ Activate \/ Ingest \/ RefuseSource \/ Select \/ Row
  \/ AppServerStep \/ DesktopStep

CodexStep == Enqueue \/ QueueLocal \/ TakeQueued \/ FinishTurn \/ Writes \/ TakeSubmission
             \/ TakeInstruction \/ Delegate

Time == \E m \in Messages : GrowOld(m) \/ Release(m)

Next ==
  \/ \E m \in Messages : Receive(m)
  \/ Time \/ MainStep \/ CodexStep
  \/ Respond \/ EndOfOutput \/ Impatience \/ AskTitle \/ GotTitle
  \/ Crash \/ Start

Spec == Init /\ [][Next]_vars

\* The request of the main loop is answered, or its wait ends.
Settle ==
  /\ \/ \E call \in asked : Waits("main", call) /\ \E reply \in Replies(call) : Answer(call, reply)
     \/ TimeOut("main") /\ ~Usable
     \/ Expire("main")
  /\ UNCHANGED <<mode, rolloutVars, bridgeVars, codexVars>>

\* The loop and the supervisor go on, a line is completed, a deadline and the
\* end of a deferral come, and a request is answered or given up.
Fairness ==
  /\ WF_vars(MainStep) /\ WF_vars(Start)
  /\ WF_vars(CompleteLine /\ UNCHANGED <<mode, connectionVars, bridgeVars, codexVars>>)
  /\ \A m \in Messages :
       WF_vars(age[m] = 0 /\ GrowOld(m)) /\ WF_vars(Release(m))
  /\ WF_vars(Settle)

FairSpec == Spec /\ Fairness
-----------------------------------------------------------------------------
TypeOK ==
  /\ RolloutTypeOK
  /\ mode \in Modes /\ starts \in 1..MaxStarts
  /\ \A m \in Messages :
       /\ routing[m] \in {"absent", "routed", "rejected"}
       /\ age[m] \in 0..2
       /\ record[m].state \in {"none", "prepared", "bytes_sending", "outcome_unknown",
                               "accepted", "completed"}
  /\ waiting["main"] # Idle => main.pc \in {"requirements", "add", "list", "resume"}

ClaimedItems == {record[m].item : m \in Messages} \ {0}
Shown == {e.item : e \in mirrored}

\* What the cursor has passed since the source was activated has been queued
\* for the topic or recognised as a message of the bridge, never both and
\* never neither: the cursor moves with the rows (outbound.py:174), nothing
\* written before the activation is replayed (service.py:103), and an
\* incomplete record waits.
CursorCoversItems ==
  cursor # NoCursor /\ ~Replaced =>
    LET passed == {i \in ItemsUpTo(cursor.at) : i > since}
    IN /\ passed \subseteq Shown \cup ClaimedItems
       /\ Shown \subseteq passed
       /\ Shown \cap ClaimedItems = {}

\* An item is queued with the turn it was written in, however the reads and
\* the restarts fell between its turn_context and itself
\* (rollout_observer.py:57).
TurnsAreTrue ==
  \A i \in DOMAIN disk.lines : \A e \in mirrored :
    Visible(disk.lines[i]) /\ disk.lines[i].item = e.item =>
      e.turn = ContextOf(0, SubSeq(disk.lines, 1, i))

\* A source is refused only because another file took its path, or because an
\* empty line is decoded again after a restart: what the reader commits, an
\* empty line included, it recognises the next time (rollout_observer.py:136).
RefusedIsReplaced ==
  cursor # NoCursor /\ Refused =>
    \/ disk.nth > 1
    \/ cache = NoCache /\ Blank \in ToSet(disk.lines)

\* With App Server a message that returns through the rollout is known by its
\* client id, before and after its record is accepted, completed or given up:
\* it is never mirrored into the topic it came from, and its record names its
\* turn (outbound.py:248).
ReturnsAreKnown ==
  mode = "app_server" /\ cursor # NoCursor =>
    \A i \in 1..cursor.at : disk.lines[i].by \in Messages =>
      LET rec == record[disk.lines[i].by]
      IN /\ rec.state \in {"accepted", "completed"}
         /\ rec.item = disk.lines[i].item /\ rec.turn = disk.lines[i].turn

\* How often Codex was given a message, at the desktop or through App Server.
Given(m) ==
  Entries(m) + Cardinality(desk \cap {m})
    + Cardinality({i \in DOMAIN disk.lines : disk.lines[i].by = m})
    + IF disk.tail.by = m THEN 1 ELSE 0

\* Except through the relay, whose attempt is taken back after five seconds, a
\* message reaches Codex at most once, whatever times out, fails or dies
\* between its selection and its record (controller.py:188).
GivenOnce == mode # "desktop_relay" => \A m \in Messages : Given(m) <= 1

\* Two records never stand for the same item, though their texts are equal and
\* the item of the first comes while the second waits for its own
\* (outbound.py:287).
OneItemOneRecord ==
  \A m, n \in Messages :
    m # n /\ record[m].item # 0 => record[m].item # record[n].item

\* What is recorded as accepted is in the queue of the task or in its rollout:
\* under its own name with App Server, with its text at the desktop
\* (controller.py:295, desktop_dispatch.py:291).
AcceptedIsReal ==
  \A m \in Messages : record[m].state \in {"accepted", "completed"} =>
    IF mode = "app_server" THEN Given(m) = 1
    ELSE \E i \in DOMAIN disk.lines : /\ disk.lines[i].item = record[m].item
                                     /\ SameText(m, disk.lines[i].by)

\* A response ends the connection only when its request expired so long ago
\* that as many have expired since as are remembered; one that comes between
\* the two steps of a caller giving up does not (connection.py:56, 97).
OnlyForgottenFail ==
  [][failure' # failure /\ failure' \notin {NoCall, Lost} =>
       \E i \in DOMAIN timeouts : /\ timeouts[i] = failure'
                                  /\ Len(timeouts) - i >= Remembered]_failure

\* Bound: it is down and will not be started again.
Stopped == At("down") /\ starts = MaxStarts

\* Every message that was stored is accepted, or the user is told that it was
\* not, unless the service stays down: also one whose record a dead process,
\* a failed connection or a timeout left behind (service.py:1179).
EveryMessageEnds ==
  []<>(Stopped \/ \A m \in Messages :
         routing[m] = "routed" => record[m].state \in {"accepted", "completed"})

\* Every item Codex writes after the activation is mirrored or recognised,
\* unless the file was replaced or the service stays down, as it does when
\* the source is refused (service.py:640).
EveryItemShown ==
  []<>(\/ Stopped \/ disk.nth > 1
       \/ cursor # NoCursor /\ (since + 1)..written \subseteq Shown \cup ClaimedItems)
=============================================================================
