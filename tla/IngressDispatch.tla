-------------------------- MODULE IngressDispatch --------------------------
(***************************************************************************)
(* From a message in a topic to a turn of Codex, with delivery = "cli":    *)
(* the callback thread stores the message (IngressRouter), the main loop   *)
(* (service.py) selects it, hands it to a child process of the Codex CLI   *)
(* (CodexCliDispatcher), looks for its turn in the rollout, acknowledges   *)
(* it or gives it up at the deadline, and mirrors what the rollout holds.  *)
(*                                                                         *)
(* Three parties interleave with the main loop: the callback thread, the   *)
(* child processes, which outlive it, and the user who types in Codex.     *)
(* The module is about one task; its rollout is a sequence of user items.  *)
(***************************************************************************)
EXTENDS Naturals, Sequences

CONSTANTS
  Messages,     \* the messages sent in the topic of the task
  Locals,       \* the items the user types in Codex itself
  TextOf,       \* the text of each of them
  Attached,     \* the messages with an attachment, to be downloaded first
  Deadline,     \* _INGRESS_DELIVERY_TIMEOUT_SECONDS, in ticks
  RecoverAfter, \* older_than_seconds of recover_abandoned_prestarts, in ticks
  Hold,         \* the 15 s of a deferred message, in ticks
  MaxCrashes,   \* bound: deaths of the process
  None          \* no message

Origins == Messages \cup Locals

ASSUME IngressAssumption ==
  /\ Messages \cap Locals = {} /\ None \notin Origins
  /\ Attached \subseteq Messages
  /\ DOMAIN TextOf = Origins
  /\ Deadline \in Nat /\ RecoverAfter \in Nat /\ Hold \in Nat /\ MaxCrashes \in Nat
  /\ 0 < Deadline
  /\ Deadline <= RecoverAfter     \* 60 s and 120 s

VARIABLES
  routing,   \* ingress_messages.routing_state
  seq,       \* ingest_seq
  nextSeq,   \* chat_sequences.next_ingest_seq
  age,       \* received_at, ticks ago
  hold,      \* dispatch_not_before, ticks from now
  record,    \* dispatch_records.state, "none" without a record
  request,   \* dispatch_records.request_id
  touched,   \* dispatch_records.updated_at, ticks ago, while it is read
  created,   \* dispatch_records.created_at, as the items the rollout held then
  turn,      \* dispatch_records.turn_id and user_item_id: a place in the rollout
  tombstone, \* the messages with a row in executed_command_tombstones
  acks,      \* the statuses queued for each message
  rollout,   \* Codex: who typed each user item of the task
  cursor,    \* the user items the bridge has read
  mirrored,  \* the user items queued for the topic
  cli,       \* the child process of each message
  main,      \* the main loop: where it is, in which row, the rows after it,
             \* and the size of the rollout before the hand-over
  crashes    \* deaths of the process so far

ingressVars  == <<routing, seq, nextSeq, age, hold>>
dispatchVars == <<record, request, touched, created, turn, tombstone>>
codexVars    == <<rollout, cli>>
mirrorVars   == <<cursor, mirrored>>
vars == <<ingressVars, dispatchVars, acks, codexVars, mirrorVars, main, crashes>>

Statuses == {"pending", "unconfirmed", "submitted", "refused", "discarded"}

Loop(pc) == [pc |-> pc, row |-> None, batch |-> {}, snap |-> 0]

\* The rest of the batch, or the end of the pass.
NextRow == IF main.batch = {} THEN Loop("ingest") ELSE [main EXCEPT !.pc = "row", !.row = None]
-----------------------------------------------------------------------------
Init ==
  /\ routing = [m \in Messages |-> "absent"]
  /\ seq = [m \in Messages |-> 0]
  /\ nextSeq = 1
  /\ age = [m \in Messages |-> 0]
  /\ hold = [m \in Messages |-> 0]
  /\ record = [m \in Messages |-> "none"]
  /\ request = [m \in Messages |-> "none"]
  /\ touched = [m \in Messages |-> 0]
  /\ created = [m \in Messages |-> 0]
  /\ turn = [m \in Messages |-> 0]
  /\ tombstone = {}
  /\ acks = [m \in Messages |-> {}]
  /\ rollout = << >>
  /\ cursor = 0
  /\ mirrored = {}
  /\ cli = [m \in Messages |-> "none"]
  /\ main = Loop("ingest")
  /\ crashes = 0

(***************************************************************************)
(* The callback thread.  A message it knows is a duplicate and changes     *)
(* nothing; one without a known root and parent is never dispatched.       *)
(***************************************************************************)
Accept(m, state) ==
  /\ main.pc # "down"
  /\ routing[m] = "absent"
  /\ state \in {"routed", "indeterminate"}
  /\ routing' = [routing EXCEPT ![m] = state]
  /\ seq' = [seq EXCEPT ![m] = nextSeq]
  /\ nextSeq' = nextSeq + 1
  /\ UNCHANGED <<age, hold, dispatchVars, acks, codexVars, mirrorVars, main, crashes>>
-----------------------------------------------------------------------------
(***************************************************************************)
(* Codex: the child process of a message adds its user item to the rollout *)
(* at any time, or ends without, whether the bridge still waits or not.    *)
(***************************************************************************)
Land(m) ==
  /\ cli[m] = "running"
  /\ rollout' = Append(rollout, m)
  /\ cli' = [cli EXCEPT ![m] = "landed"]
  /\ UNCHANGED <<ingressVars, dispatchVars, acks, mirrorVars, main, crashes>>

Exit(m) ==
  /\ cli[m] = "running"
  /\ cli' = [cli EXCEPT ![m] = "gone"]
  /\ UNCHANGED <<ingressVars, dispatchVars, acks, rollout, mirrorVars, main, crashes>>

Type(l) ==
  /\ \A p \in DOMAIN rollout : rollout[p] # l
  /\ rollout' = Append(rollout, l)
  /\ UNCHANGED <<ingressVars, dispatchVars, acks, cli, mirrorVars, main, crashes>>
-----------------------------------------------------------------------------
(***************************************************************************)
(* A pass of the main loop first reads the rollout and mirrors every user  *)
(* item that no accepted dispatch has for its own.                         *)
(***************************************************************************)
Returning(p) == \E m \in Messages : record[m] = "accepted" /\ turn[m] = p

ReadRollout ==
  /\ main.pc = "ingest"
  /\ cursor' = Len(rollout)
  /\ mirrored' = mirrored \cup {p \in cursor + 1 .. Len(rollout) : ~ Returning(p)}
  /\ main' = Loop("recover")
  /\ UNCHANGED <<ingressVars, dispatchVars, acks, codexVars, crashes>>

\* Mutation: any record the CLI did not acknowledge.
AbandonedNow(m) ==
  record[m] = "bytes_sending" /\ request[m] = "codex-cli"

\* recover_abandoned_prestarts: a hand-over whose start was never acknowledged.
Abandoned(m) ==
  record[m] = "bytes_sending" /\ request[m] = "codex-cli" /\ touched[m] >= RecoverAfter

\* The first item with the text of the message among those after a place.
FirstMatch(m, from, p) ==
  /\ p \in from + 1 .. Len(rollout)
  /\ TextOf[rollout[p]] = TextOf[m]
  /\ \A q \in from + 1 .. p - 1 : TextOf[rollout[q]] # TextOf[m]

\* Mutation: the tombstone is left to a later statement.
AcceptedOnly(m, p) ==
  /\ record' = [record EXCEPT ![m] = "accepted"]
  /\ request' = [request EXCEPT ![m] = "codex-cli-started"]
  /\ touched' = [touched EXCEPT ![m] = 0]
  /\ turn' = [turn EXCEPT ![m] = p]
  /\ UNCHANGED <<created, tombstone>>

\* The acceptance and the tombstone are one transaction.
Accepted(m, p) ==
  /\ record' = [record EXCEPT ![m] = "accepted"]
  /\ request' = [request EXCEPT ![m] = "codex-cli-started"]
  /\ touched' = [touched EXCEPT ![m] = 0]
  /\ turn' = [turn EXCEPT ![m] = p]
  /\ tombstone' = tombstone \cup {m}
  /\ UNCHANGED created

\* The search goes back two seconds before the record: an item may stand there.
RecoverTurn(m) ==
  /\ main.pc = "recover"
  /\ Abandoned(m)
  /\ \E from \in {created[m], created[m] - 1} \cap Nat :
       \E p \in DOMAIN rollout : FirstMatch(m, from, p) /\ Accepted(m, p)
  /\ UNCHANGED <<ingressVars, acks, codexVars, mirrorVars, main, crashes>>

RecoverNothing(m) ==
  /\ main.pc = "recover"
  /\ Abandoned(m)
  /\ \A p \in DOMAIN rollout : ~ FirstMatch(m, created[m], p)
  /\ record' = [record EXCEPT ![m] = "none"]
  /\ request' = [request EXCEPT ![m] = "none"]
  /\ touched' = [touched EXCEPT ![m] = 0]
  /\ created' = [created EXCEPT ![m] = 0]
  /\ hold' = [hold EXCEPT ![m] = 0]
  /\ UNCHANGED <<routing, seq, nextSeq, age, turn, tombstone,
                 acks, codexVars, mirrorVars, main, crashes>>

RecoverDone ==
  /\ main.pc = "recover"
  /\ \A m \in Messages : ~ Abandoned(m)
  /\ main' = Loop("expire")
  /\ UNCHANGED <<ingressVars, dispatchVars, acks, codexVars, mirrorVars, crashes>>
-----------------------------------------------------------------------------
(***************************************************************************)
(* The deadline.  The row is rejected first, the notice queued afterwards. *)
(***************************************************************************)
Late(m) == routing[m] = "routed" /\ age[m] >= Deadline

\* Mutation: nothing tells an executed message from one that is not.
ExpiringAnyway(m) == Late(m)

\* Mutation: a message that was handed over is no longer watched.
ExpiringUndispatched(m) == Late(m) /\ record[m] = "none" /\ m \notin tombstone

Expiring(m) == Late(m) /\ record[m] # "accepted" /\ m \notin tombstone

\* A control acknowledgement of the message is queued at most once.
Control(m, status) ==
  acks' = IF acks[m] \cap {"refused", "discarded"} = {}
          THEN [acks EXCEPT ![m] = @ \cup {status}] ELSE acks

RejectRow(m) == routing' = [routing EXCEPT ![m] = "rejected"]

ExpireStale(m) ==
  /\ main.pc = "expire"
  /\ Expiring(m)
  /\ RejectRow(m)
  /\ main' = [main EXCEPT !.pc = "notice", !.row = m]
  /\ hold' = [hold EXCEPT ![m] = 0]
  /\ UNCHANGED <<seq, nextSeq, age, dispatchVars, acks, codexVars, mirrorVars, crashes>>

\* The end of the first notice of the pass: the next stale message.
NoticeStale(m) ==
  /\ main.pc = "notice" /\ main.row = m
  /\ Control(m, "discarded")
  /\ main' = Loop("expire")
  /\ UNCHANGED <<ingressVars, dispatchVars, codexVars, mirrorVars, crashes>>
-----------------------------------------------------------------------------
(***************************************************************************)
(* The rows of the pass, selected at once and taken in their order.        *)
(***************************************************************************)
\* Mutation: what was rejected is not left out.
EligibleAgain(m) ==
  /\ routing[m] \in {"routed", "rejected"}
  /\ record[m] = "none"
  /\ m \notin tombstone
  /\ hold[m] = 0

Eligible(m) ==
  /\ routing[m] = "routed"
  /\ record[m] = "none"
  /\ m \notin tombstone
  /\ hold[m] = 0

Select ==
  /\ main.pc = "expire"
  /\ \A m \in Messages : ~ Expiring(m)
  /\ main' = IF \E m \in Messages : Eligible(m)
             THEN [Loop("row") EXCEPT !.batch = {m \in Messages : Eligible(m)}]
             ELSE Loop("ingest")
  /\ UNCHANGED <<ingressVars, dispatchVars, acks, codexVars, mirrorVars, crashes>>

First(m) == m \in main.batch /\ \A q \in main.batch : seq[m] <= seq[q]

\* The deadline is checked again: the rows before may have taken minutes.
ExpireRow(m) ==
  /\ main.pc = "row"
  /\ First(m)
  /\ Late(m)
  /\ RejectRow(m)
  /\ hold' = [hold EXCEPT ![m] = 0]
  /\ main' = [main EXCEPT !.pc = "late", !.row = m, !.batch = @ \ {m}]
  /\ UNCHANGED <<seq, nextSeq, age, dispatchVars, acks, codexVars, mirrorVars, crashes>>

TakeRow(m) ==
  /\ main.pc = "row"
  /\ First(m)
  /\ ~ Late(m)
  /\ main' = [main EXCEPT !.pc = "taken", !.row = m, !.batch = @ \ {m}]
  /\ UNCHANGED <<ingressVars, dispatchVars, acks, codexVars, mirrorVars, crashes>>

\* The attachment cannot be downloaded yet: the row is left for a later pass.
AwaitAttachment(m) ==
  /\ main.pc = "taken" /\ main.row = m
  /\ m \in Attached
  /\ main' = NextRow
  /\ UNCHANGED <<ingressVars, dispatchVars, acks, codexVars, mirrorVars, crashes>>

\* The task, the identity or the grant does not allow it, or the attachment failed.
Refuse(m) ==
  /\ main.pc = "taken" /\ main.row = m
  /\ RejectRow(m)
  /\ main' = [main EXCEPT !.pc = "refused"]
  /\ UNCHANGED <<seq, nextSeq, age, hold, dispatchVars, acks, codexVars, mirrorVars, crashes>>

NoticeRow(m, status) ==
  /\ main.row = m
  /\ main.pc = IF status = "refused" THEN "refused" ELSE "late"
  /\ status \in {"refused", "discarded"}
  /\ Control(m, status)
  /\ main' = NextRow
  /\ UNCHANGED <<ingressVars, dispatchVars, codexVars, mirrorVars, crashes>>
-----------------------------------------------------------------------------
(***************************************************************************)
(* CodexCliDispatcher.dispatch and the acknowledgement of its result.      *)
(***************************************************************************)
Prepare(m) ==
  /\ main.pc = "taken" /\ main.row = m
  /\ record' = [record EXCEPT ![m] = "prepared"]
  /\ created' = [created EXCEPT ![m] = Len(rollout)]
  /\ touched' = [touched EXCEPT ![m] = 0]
  /\ main' = [main EXCEPT !.pc = "prepared"]
  /\ UNCHANGED <<ingressVars, request, turn, tombstone, acks, codexVars, mirrorVars, crashes>>

\* Mutation: the whole rollout is searched for the turn.
SnapshotNothing == 0

\* _rollout_snapshots: what the rollout holds before the hand-over.
Snapshot == Len(rollout)

Begin(m) ==
  /\ main.pc = "prepared" /\ main.row = m
  /\ record' = [record EXCEPT ![m] = "bytes_sending"]
  /\ request' = [request EXCEPT ![m] = "codex-cli"]
  /\ touched' = [touched EXCEPT ![m] = 0]
  /\ main' = [main EXCEPT !.pc = "sending", !.snap = Snapshot]
  /\ UNCHANGED <<ingressVars, created, turn, tombstone, acks, codexVars, mirrorVars, crashes>>

Spawn(m) ==
  /\ main.pc = "sending" /\ main.row = m
  /\ cli' = [cli EXCEPT ![m] = "running"]
  /\ main' = [main EXCEPT !.pc = "starting"]
  /\ UNCHANGED <<ingressVars, dispatchVars, acks, rollout, mirrorVars, crashes>>

\* Codex refuses a second writer before there is a turn: the record is removed.
Busy(m) ==
  /\ main.pc = "starting" /\ main.row = m
  /\ cli[m] = "running"
  /\ cli' = [cli EXCEPT ![m] = "gone"]
  /\ record' = [record EXCEPT ![m] = "none"]
  /\ request' = [request EXCEPT ![m] = "none"]
  /\ touched' = [touched EXCEPT ![m] = 0]
  /\ created' = [created EXCEPT ![m] = 0]
  /\ main' = [main EXCEPT !.pc = "busy"]
  /\ UNCHANGED <<ingressVars, turn, tombstone, acks, rollout, mirrorVars, crashes>>

Defer(m) ==
  /\ main.pc = "busy" /\ main.row = m
  /\ acks' = [acks EXCEPT ![m] = @ \cup {"pending"}]
  /\ hold' = [hold EXCEPT ![m] = Hold]
  /\ main' = NextRow
  /\ UNCHANGED <<routing, seq, nextSeq, age, dispatchVars, codexVars, mirrorVars, crashes>>

\* thread.started and turn.started were read from the child
Started(m) ==
  /\ main.pc = "starting" /\ main.row = m
  /\ cli[m] \in {"running", "landed"}
  /\ request' = [request EXCEPT ![m] = "codex-cli-started"]
  /\ touched' = [touched EXCEPT ![m] = 0]
  /\ main' = [main EXCEPT !.pc = "confirming"]
  /\ UNCHANGED <<ingressVars, record, created, turn, tombstone, acks,
                 codexVars, mirrorVars, crashes>>

\* The child ended early, named another task, or said nothing for 30 s; or its
\* start is known and no turn was found for 30 s.
GiveUp(m) ==
  /\ main.pc \in {"starting", "confirming"} /\ main.row = m
  /\ record' = [record EXCEPT ![m] = "outcome_unknown"]
  /\ touched' = [touched EXCEPT ![m] = 0]
  /\ main' = [main EXCEPT !.pc = IF @ = "starting" THEN "unsure" ELSE "sent"]
  /\ UNCHANGED <<ingressVars, request, created, turn, tombstone, acks,
                 codexVars, mirrorVars, crashes>>

Confirm(m) ==
  /\ main.pc = "confirming" /\ main.row = m
  /\ \E p \in DOMAIN rollout : FirstMatch(m, main.snap, p) /\ Accepted(m, p)
  /\ main' = [main EXCEPT !.pc = "sent"]
  /\ UNCHANGED <<ingressVars, acks, codexVars, mirrorVars, crashes>>

\* Both a confirmed turn and one that was not found are reported as submitted.
Acknowledge(m) ==
  /\ main.pc \in {"unsure", "sent"} /\ main.row = m
  /\ acks' = [acks EXCEPT ![m] =
                @ \cup {IF main.pc = "sent" THEN "submitted" ELSE "unconfirmed"}]
  /\ main' = NextRow
  /\ UNCHANGED <<ingressVars, dispatchVars, codexVars, mirrorVars, crashes>>
-----------------------------------------------------------------------------
\* The process dies, is stopped, or an exception leaves the main loop.  The
\* child processes go on.
Crash ==
  /\ main.pc # "down"
  /\ crashes < MaxCrashes
  /\ crashes' = crashes + 1
  /\ main' = Loop("down")
  /\ UNCHANGED <<ingressVars, dispatchVars, acks, codexVars, mirrorVars>>

Restart ==
  /\ main.pc = "down"
  /\ main' = Loop("ingest")
  /\ UNCHANGED <<ingressVars, dispatchVars, acks, codexVars, mirrorVars, crashes>>

Down(n) == IF n = 0 THEN 0 ELSE n - 1
Up(n, bound) == IF n < bound THEN n + 1 ELSE n

Tick ==
  /\ age' = [m \in Messages |-> IF routing[m] = "absent" THEN 0 ELSE Up(age[m], Deadline)]
  /\ hold' = [m \in Messages |-> Down(hold[m])]
  /\ touched' = [m \in Messages |->
                   IF record[m] = "bytes_sending" THEN Up(touched[m], RecoverAfter) ELSE touched[m]]
  /\ UNCHANGED <<routing, seq, nextSeq, record, request, created, turn, tombstone,
                 acks, codexVars, mirrorVars, main, crashes>>

Recover(m) == RecoverTurn(m) \/ RecoverNothing(m)
Expire(m) == ExpireStale(m) \/ NoticeStale(m) \/ ExpireRow(m)
Row(m) ==
  \/ TakeRow(m) \/ AwaitAttachment(m) \/ Refuse(m)
  \/ \E status \in Statuses : NoticeRow(m, status)
Dispatch(m) ==
  \/ Prepare(m) \/ Begin(m) \/ Spawn(m) \/ Busy(m) \/ Defer(m)
  \/ Started(m) \/ GiveUp(m) \/ Confirm(m) \/ Acknowledge(m)

MainLoop ==
  \/ ReadRollout
  \/ RecoverDone
  \/ Select
  \/ \E m \in Messages : Recover(m) \/ Expire(m) \/ Row(m) \/ Dispatch(m)

Codex ==
  \/ \E m \in Messages : Land(m) \/ Exit(m)
  \/ \E l \in Locals : Type(l)

Next ==
  \/ MainLoop
  \/ \E m \in Messages : \E state \in {"routed", "indeterminate"} : Accept(m, state)
  \/ Codex
  \/ Crash
  \/ Restart
  \/ Tick

Spec == Init /\ [][Next]_vars

\* The main loop goes on, every wait in it being bounded; the supervisor starts
\* a dead process again; time passes.  Of Codex nothing is assumed.
FairSpec == Spec /\ WF_vars(MainLoop) /\ WF_vars(Restart) /\ WF_vars(Tick)
-----------------------------------------------------------------------------
PCs == {"down", "ingest", "recover", "expire", "notice", "row", "late", "taken",
        "refused", "prepared", "sending", "starting", "busy", "confirming",
        "unsure", "sent"}

IngressTypes ==
  /\ routing \in [Messages -> {"absent", "routed", "indeterminate", "rejected"}]
  /\ seq \in [Messages -> Nat] /\ nextSeq \in Nat \ {0}
  /\ \A m \in Messages : seq[m] < nextSeq
  /\ age \in [Messages -> 0 .. Deadline]
  /\ hold \in [Messages -> 0 .. Hold]

DispatchTypes ==
  /\ record \in [Messages -> {"none", "prepared", "bytes_sending", "accepted", "outcome_unknown"}]
  /\ request \in [Messages -> {"none", "codex-cli", "codex-cli-started"}]
  /\ touched \in [Messages -> 0 .. RecoverAfter]
  /\ created \in [Messages -> 0 .. Len(rollout)]
  /\ turn \in [Messages -> 0 .. Len(rollout)]
  /\ tombstone = {m \in Messages : record[m] = "accepted"}

CodexTypes ==
  /\ rollout \in Seq(Origins)
  /\ cli \in [Messages -> {"none", "running", "landed", "gone"}]
  /\ cursor \in 0 .. Len(rollout)
  /\ mirrored \subseteq 1 .. cursor

LoopTypes ==
  /\ acks \in [Messages -> SUBSET Statuses]
  /\ main \in [pc : PCs, row : Messages \cup {None}, batch : SUBSET Messages,
                snap : 0 .. Len(rollout)]
  /\ crashes \in 0 .. MaxCrashes

TypeOK == IngressTypes /\ DispatchTypes /\ CodexTypes /\ LoopTypes

\* A message of the topic becomes at most one turn of Codex, whatever dies, is
\* late or is tried again: a record keeps it from being selected, and one that
\* the recovery removes belongs to a message that is past its deadline.
RunAtMostOnce ==
  \A p, q \in DOMAIN rollout : p # q => rollout[p] # rollout[q]

\* What the user was told is submitted, and has a turn, is never mirrored back
\* into the topic it came from.
ConfirmedNotMirrored ==
  \A m \in Messages :
    record[m] = "accepted" /\ "submitted" \in acks[m] => turn[m] \notin mirrored

\* A message that was given up or refused is never handed to Codex again, though
\* the recovery may still remove its record.
RejectedForGood ==
  [][\A m \in Messages :
       routing[m] = "rejected" => /\ routing'[m] = "rejected"
                                  /\ cli'[m] = "running" => cli[m] = "running"]_vars

\* The user is never asked to send a message again whose turn was found.
AcceptedNotDiscarded ==
  [][\A m \in tombstone : acks'[m] \cap {"discarded"} \subseteq acks[m]]_vars

\* Every message that can be routed is accepted or given up some day, also when
\* the process dies in the middle of its hand-over.
EveryMessageEnds ==
  \A m \in Messages : routing[m] = "routed" ~> m \in tombstone \/ routing[m] = "rejected"
-----------------------------------------------------------------------------
(***************************************************************************)
(* What the repository says and the code does not keep; see the findings.  *)
(***************************************************************************)

\* "Submitted" is reported only of a message whose turn was found.
SubmittedIsConfirmed ==
  \A m \in Messages : "submitted" \in acks[m] => m \in tombstone

\* README, line 23: "source de-duplication never depends on equal message bodies".  The
\* turn of an accepted message, which the reader of the rollout leaves out of the topic,
\* is the one the message made: not one of the user's, nor that of another message.
AcceptedIsOwn ==
  \A m \in Messages : record[m] = "accepted" => rollout[turn[m]] = m

\* What came from the topic is never mirrored back into it.
NeverMirroredBack ==
  \A p \in mirrored : rollout[p] \notin Messages
=============================================================================
