------------------------------- MODULE Outbox -------------------------------
(***************************************************************************)
(* The durable outbox of the bridge (runtime_storage.py), the worker that  *)
(* sends its rows to Feishu (OutboxWorker), the reconciler of uncertain    *)
(* sends (SendReconciler) and the cleaner of process messages              *)
(* (CleanupWorker), against a provider that may answer anything and a      *)
(* process that may die between any two statements.                        *)
(*                                                                         *)
(* One thread runs all of them: the main loop of service.py calls them one *)
(* after the other, so an ingest, a lease, a reconciliation or a cleanup   *)
(* starts only when the previous one is over ("idle").  What interleaves   *)
(* with the thread is the provider, the clock and the death of the process.*)
(*                                                                         *)
(* Clocks are relative and saturate, so that time itself needs no bound:   *)
(* wait and lease count down to 0, age and seen count up to Window + 1.    *)
(***************************************************************************)
EXTENDS Naturals, Sequences

CONSTANTS
  Events,      \* the rollout events that the source may deliver
  Bodies,      \* the message bodies that the properties tell apart
  Cue,         \* the body of the "waiting for your reply" message
  MaxRows,     \* bound: rows of provider_outbox
  MaxChat,     \* bound: messages that ever become visible in the chat
  MaxCrashes,  \* bound: deaths of the process
  Window,      \* uuid_window_seconds of the endpoint, in ticks
  Lease,       \* the 30 s of a lease, in ticks
  Backoff      \* the longest delay before a retry, in ticks

Kinds == {"user_message", "commentary", "final"}

Unit == [body : Bodies, uploads : {0, 1}]

ASSUME BoundsAssumption ==
  /\ MaxRows \in Nat /\ MaxChat \in Nat /\ MaxCrashes \in Nat
  /\ Window \in Nat /\ Lease \in Nat /\ Backoff \in Nat

ASSUME EventsAssumption ==
  /\ Cue \in Bodies
  /\ \A e \in Events :
       /\ e.kind \in Kinds
       /\ e.units \in Seq(Unit)

Rows == 1 .. MaxRows
Positions == 1 .. MaxChat

\* The states of a row: settled ones are those lease_outbox does not wait for.
SettledStates == {"confirmed", "permanent", "delivery_indeterminate",
                  "retention_policy_blocked", "final_undelivered"}
LiveStates == {"pending", "leased", "retryable", "unknown"}
RowStates == {"absent"} \cup LiveStates \cup SettledStates

Lifecycles == {"none", "transient_active", "cleanup_queued", "withdrawn",
               "archived", "retention_policy_blocked"}

NotYet == Window + 2    \* the row was never leased: first_attempt_at is NULL

VARIABLES
  col,        \* the columns a row is inserted with: its event and its place in it
  last,       \* the number of rows
  state,      \* provider_outbox.state
  wait,       \* next_attempt_at, ticks from now
  lease,      \* lease_expires_at, ticks from now
  age,        \* first_attempt_at, ticks ago
  since,      \* the messages visible at the first attempt (created_at of the history search)
  staged,     \* the uploads whose provider key is stored
  providerId, \* provider_message_id, 0 when NULL
  life,       \* transient_messages.lifecycle_state, by message
  ancestry,   \* the messages with an 'outbound' row in message_ancestry
  chat,       \* provider: the row of every message, in the order they appeared
  gone,       \* provider: the messages withdrawn, or overwritten by the archive text
  posted,     \* provider: the message it remembers for the row's UUID, 0 if none
  seen,       \* provider: when it first accepted that UUID, ticks ago
  worker,     \* the thread: where it is, in which row, with which message
  crashes     \* deaths of the process so far

rowVars      == <<col, last, state, wait, lease, age, since, staged, providerId>>
projections  == <<life, ancestry>>
providerVars == <<chat, gone, posted, seen>>
vars == <<rowVars, projections, providerVars, worker, crashes>>
-----------------------------------------------------------------------------
Idle == [pc |-> "idle", row |-> 0, msg |-> 0]
At(pc, r, m) == [pc |-> pc, row |-> r, msg |-> m]

NoColumns == [item |-> "none", turn |-> "none", kind |-> "none", op |-> "none",
              body |-> Cue, uploads |-> 0]

\* The provider messages of an event: a final answer ends with the waiting cue.
UnitsOf(e) ==
  IF e.kind = "final" THEN Append(e.units, [body |-> Cue, uploads |-> 0]) ELSE e.units

\* operation: only the cue is 'final', the content before it is 'commentary'.
OperationOf(e, i) ==
  IF e.kind = "final" /\ i # Len(UnitsOf(e)) THEN "commentary" ELSE e.kind

Columns(e, i) ==
  [item |-> e.item, turn |-> e.turn, kind |-> e.kind, op |-> OperationOf(e, i),
   body |-> UnitsOf(e)[i].body, uploads |-> UnitsOf(e)[i].uploads]

Priority(r) == IF col[r].kind = "final" THEN 100 ELSE 10

\* Mutation: nothing is looked up.
PartOfNothing(r) == FALSE

\* A part of a final answer: its item has a final row, looked up by turn and item.
PartOfFinal(r) ==
  \E f \in 1 .. last : /\ col[f].turn = col[r].turn
                       /\ col[f].item = col[r].item
                       /\ col[f].op = "final"

\* Mutation: the staged key is not found again.
ReadyNever(r) == FALSE

\* Nothing is left to upload before the message can be sent.
Ready(r) == staged[r] = col[r].uploads
-----------------------------------------------------------------------------
Init ==
  /\ col = [r \in Rows |-> NoColumns]
  /\ last = 0
  /\ state = [r \in Rows |-> "absent"]
  /\ wait = [r \in Rows |-> 0]
  /\ lease = [r \in Rows |-> 0]
  /\ age = [r \in Rows |-> NotYet]
  /\ since = [r \in Rows |-> 0]
  /\ staged = [r \in Rows |-> 0]
  /\ providerId = [r \in Rows |-> 0]
  /\ life = [m \in Positions |-> "none"]
  /\ ancestry = {}
  /\ chat = << >>
  /\ gone = {}
  /\ posted = [r \in Rows |-> 0]
  /\ seen = [r \in Rows |-> 0]
  /\ worker = Idle
  /\ crashes = 0

(***************************************************************************)
(* ingest_rollout_batch: the items, their rows and the cursor of the       *)
(* source commit together.  An item already stored is skipped.             *)
(***************************************************************************)
Ingest(e) ==
  LET n == Len(UnitsOf(e)) IN
  /\ worker.pc = "idle"
  /\ \A r \in 1 .. last : col[r].item # e.item
  /\ last + n <= MaxRows
  /\ last' = last + n
  /\ col' = [r \in Rows |-> IF r \in last + 1 .. last + n
                            THEN Columns(e, r - last) ELSE col[r]]
  /\ state' = [r \in Rows |-> IF r \in last + 1 .. last + n THEN "pending" ELSE state[r]]
  /\ UNCHANGED <<wait, lease, age, since, staged, providerId,
                 projections, providerVars, worker, crashes>>

(***************************************************************************)
(* lease_outbox, one transaction: every expired lease becomes an unknown   *)
(* send, then the best row whose turn is settled before it is leased.      *)
(***************************************************************************)
\* Mutation: a lease that expired is left alone.
SweptNothing == state

Swept == [r \in Rows |->
            IF state[r] = "leased" /\ lease[r] = 0 THEN "unknown" ELSE state[r]]

\* Mutation: only the rows that are still queued hold back the next one.
LeasablePastUnknown(r) ==
  /\ Swept[r] \in {"pending", "retryable"}
  /\ wait[r] = 0
  /\ \A q \in 1 .. r - 1 :
       col[q].turn = col[r].turn => Swept[q] \notin {"pending", "retryable", "leased"}

Leasable(r) ==
  /\ Swept[r] \in {"pending", "retryable"}
  /\ wait[r] = 0
  /\ \A q \in 1 .. r - 1 :
       col[q].turn = col[r].turn => Swept[q] \in SettledStates

\* ORDER BY priority DESC, outbox_id LIMIT 1
Best(r) ==
  \A q \in Rows : Leasable(q) => \/ Priority(r) > Priority(q)
                                 \/ Priority(r) = Priority(q) /\ r <= q

\* Mutation: every lease starts the clock of the row's UUID again.
AttemptedNow(r) == 0

\* COALESCE(first_attempt_at, now)
FirstAttempt(r) == IF age[r] = NotYet THEN 0 ELSE age[r]

LeaseRow(r) ==
  /\ worker.pc = "idle"
  /\ Leasable(r)
  /\ Best(r)
  /\ state' = [Swept EXCEPT ![r] = "leased"]
  /\ lease' = [lease EXCEPT ![r] = Lease]
  /\ age' = [age EXCEPT ![r] = FirstAttempt(r)]
  /\ since' = [since EXCEPT ![r] = IF age[r] = NotYet THEN Len(chat) ELSE @]
  /\ worker' = At("leased", r, 0)
  /\ UNCHANGED <<col, last, wait, staged, providerId, projections, providerVars, crashes>>

\* The same transaction when no row can be leased: the expired leases still change.
SweepLeases ==
  /\ worker.pc = "idle"
  /\ \A r \in Rows : ~ Leasable(r)
  /\ Swept # state
  /\ state' = Swept
  /\ UNCHANGED <<col, last, wait, lease, age, since, staged, providerId,
                 projections, providerVars, worker, crashes>>

\* finish_outbox, for a row that is still leased by this worker.
FinishOutbox(r, s, delay) ==
  /\ state[r] = "leased"
  /\ state' = [state EXCEPT ![r] = s]
  /\ wait' = [wait EXCEPT ![r] = delay]
  /\ lease' = [lease EXCEPT ![r] = 0]

\* A row that failed for good; a final answer gets a state of its own.
TerminalState(r) == IF col[r].op = "final" THEN "final_undelivered" ELSE "permanent"

\* The checks of run_once before it calls the provider: an invalid body, a task
\* that is no longer bound, a reply target that is missing or in another chat.
Reject(r, s) ==
  /\ worker = At("leased", r, 0)
  /\ s \in {"permanent", TerminalState(r)}
  /\ FinishOutbox(r, s, 0)
  /\ worker' = Idle
  /\ UNCHANGED <<col, last, age, since, staged, providerId,
                 projections, providerVars, crashes>>

-----------------------------------------------------------------------------
(***************************************************************************)
(* The upload phase of an image, a file or a rich card: the provider key   *)
(* is staged and the row goes back to the queue for its next phase.        *)
(***************************************************************************)
StageUpload(r) ==
  /\ worker = At("leased", r, 0)
  /\ ~ Ready(r)
  /\ FinishOutbox(r, "retryable", 0)
  /\ staged' = [staged EXCEPT ![r] = @ + 1]
  /\ worker' = Idle
  /\ UNCHANGED <<col, last, age, since, providerId,
                 projections, providerVars, crashes>>

\* An upload that was throttled, or whose outcome is unknown, is tried again:
\* nothing of it is visible.
RetryUpload(r, delay) ==
  /\ worker = At("leased", r, 0)
  /\ ~ Ready(r)
  /\ FinishOutbox(r, "retryable", delay)
  /\ worker' = Idle
  /\ UNCHANGED <<col, last, age, since, staged, providerId,
                 projections, providerVars, crashes>>

FailUpload(r) ==
  /\ worker = At("leased", r, 0)
  /\ ~ Ready(r)
  /\ FinishOutbox(r, TerminalState(r), 0)
  /\ worker' = Idle
  /\ UNCHANGED <<col, last, age, since, staged, providerId,
                 projections, providerVars, crashes>>

(***************************************************************************)
(* The send itself: the provider acts, then answers.  A UUID it remembers  *)
(* is answered with the message it already has.                            *)
(***************************************************************************)
Remembered(r) == posted[r] # 0 /\ seen[r] <= Window

\* A first sight of the UUID, or one after the provider forgot it.
PostMessage(r) ==
  /\ worker = At("leased", r, 0)
  /\ Ready(r)
  /\ ~ Remembered(r)
  /\ Len(chat) < MaxChat
  /\ chat' = Append(chat, r)
  /\ posted' = [posted EXCEPT ![r] = Len(chat) + 1]
  /\ seen' = [seen EXCEPT ![r] = 0]
  /\ worker' = At("answer", r, Len(chat) + 1)
  /\ UNCHANGED <<rowVars, projections, gone, crashes>>

RepeatMessage(r) ==
  /\ worker = At("leased", r, 0)
  /\ Ready(r)
  /\ Remembered(r)
  /\ worker' = At("answer", r, posted[r])
  /\ UNCHANGED <<rowVars, projections, providerVars, crashes>>

\* The request never reached the provider, or the provider refused it.
LoseRequest(r) ==
  /\ worker = At("leased", r, 0)
  /\ Ready(r)
  /\ worker' = At("answer", r, 0)
  /\ UNCHANGED <<rowVars, projections, providerVars, crashes>>

\* CONFIRMED: finish_outbox commits before any of the writes that follow it.
Confirm(r) ==
  /\ worker.pc = "answer" /\ worker.row = r /\ worker.msg # 0
  /\ FinishOutbox(r, "confirmed", 0)
  /\ providerId' = [providerId EXCEPT ![r] = worker.msg]
  /\ worker' = At("ancestry", r, worker.msg)
  /\ UNCHANGED <<col, last, age, since, staged, projections, providerVars, crashes>>

\* RETRYABLE (429, 5xx): the message may be visible all the same.
Retry(r, delay) ==
  /\ worker.pc = "answer" /\ worker.row = r
  /\ FinishOutbox(r, "retryable", delay)
  /\ worker' = Idle
  /\ UNCHANGED <<col, last, age, since, staged, providerId,
                 projections, providerVars, crashes>>

\* UNKNOWN (connection or read error): likewise.
Unsure(r) ==
  /\ worker.pc = "answer" /\ worker.row = r
  /\ FinishOutbox(r, "unknown", 0)
  /\ worker' = Idle
  /\ UNCHANGED <<col, last, age, since, staged, providerId,
                 projections, providerVars, crashes>>

\* PERMANENT: a 4xx, or a success without a usable message id; the message may
\* be visible in the second case.
Fail(r) ==
  /\ worker.pc = "answer" /\ worker.row = r
  /\ FinishOutbox(r, TerminalState(r), 0)
  /\ worker' = Idle
  /\ UNCHANGED <<col, last, age, since, staged, providerId,
                 projections, providerVars, crashes>>

\* The first statement after a confirmation: the message is one of our own.
RecordAncestry(r) ==
  /\ worker.pc = "ancestry" /\ worker.row = r
  /\ ancestry' = ancestry \cup {worker.msg}
  /\ worker' = [worker EXCEPT !.pc = "projection"]
  /\ UNCHANGED <<rowVars, life, providerVars, crashes>>

\* Mutation: the process messages of every turn.
TransientAnywhere(r) == {m \in Positions : life[m] = "transient_active"}

TransientOf(r) ==
  {m \in Positions : life[m] = "transient_active" /\ col[chat[m]].turn = col[r].turn}

\* The second: the final cue queues the process messages of its turn for
\* cleanup, a process message that is no part of a final answer is registered.
Project(r) ==
  /\ worker.pc = "projection" /\ worker.row = r
  /\ life' =
       CASE col[r].op = "final" ->
              [m \in Positions |-> IF m \in TransientOf(r) THEN "cleanup_queued" ELSE life[m]]
         [] col[r].op = "commentary" /\ ~ PartOfFinal(r) /\ life[worker.msg] = "none" ->
              [life EXCEPT ![worker.msg] = "transient_active"]
         [] OTHER -> life
  /\ worker' = Idle
  /\ UNCHANGED <<rowVars, ancestry, providerVars, crashes>>
-----------------------------------------------------------------------------
(***************************************************************************)
(* SendReconciler.reconcile.  While the UUID window is open the row is     *)
(* sent again; after it the chat's history is searched for the body.       *)
(***************************************************************************)
\* Mutation: a send that was given up is taken up again.
ReconcilableAgain(r) ==
  worker.pc = "idle" /\ state[r] \in {"unknown", "delivery_indeterminate"}

Reconcilable(r) == worker.pc = "idle" /\ state[r] = "unknown"

ReconcileByRetry(r) ==
  /\ Reconcilable(r)
  /\ age[r] <= Window
  /\ state' = [state EXCEPT ![r] = "retryable"]
  /\ wait' = [wait EXCEPT ![r] = 0]
  /\ UNCHANGED <<col, last, lease, age, since, staged, providerId,
                 projections, providerVars, worker, crashes>>

\* The messages with the row's body and kind of sender that the search returns:
\* it starts a minute before the first attempt, so an earlier one (from) may be
\* among them.
Matches(r, from) ==
  {m \in from + 1 .. Len(chat) :
     /\ m \notin gone
     /\ col[chat[m]].body = col[r].body
     /\ (col[chat[m]].op = "user_message") = (col[r].op = "user_message")}

ReconcileByHistory(r) ==
  \E from \in 0 .. since[r] :
    /\ Reconcilable(r)
    /\ age[r] > Window
    /\ \/ \E m \in Matches(r, from) :
            /\ Matches(r, from) = {m}
            /\ state' = [state EXCEPT ![r] = "confirmed"]
            /\ providerId' = [providerId EXCEPT ![r] = m]
       \/ /\ \A m \in Matches(r, from) : Matches(r, from) # {m}
          /\ state' = [state EXCEPT ![r] = "delivery_indeterminate"]
          /\ UNCHANGED providerId
    /\ UNCHANGED <<col, last, wait, lease, age, since, staged,
                   projections, providerVars, worker, crashes>>

\* The search is disabled, unavailable, malformed, or the task is unbound.
ReconcileInVain(r) ==
  /\ Reconcilable(r)
  /\ age[r] > Window
  /\ state' = [state EXCEPT ![r] = "delivery_indeterminate"]
  /\ UNCHANGED <<col, last, wait, lease, age, since, staged, providerId,
                 projections, providerVars, worker, crashes>>
-----------------------------------------------------------------------------
(***************************************************************************)
(* CleanupWorker.run_once: delete the message, else overwrite it, else     *)
(* leave it.  The provider acts (CleanMessage) before the row does         *)
(* (FinishCleanup), and the process may die between the two.               *)
(***************************************************************************)
Owned(m) == \E r \in 1 .. last : providerId[r] = m /\ state[r] = "confirmed"

CleanMessage(m, effect) ==
  /\ worker.pc = "idle"
  /\ life[m] = "cleanup_queued"
  /\ gone' = IF Owned(m) /\ effect THEN gone \cup {m} ELSE gone
  /\ life' = IF Owned(m) THEN life ELSE [life EXCEPT ![m] = "retention_policy_blocked"]
  /\ worker' = IF Owned(m) THEN At("cleaning", 0, m) ELSE worker
  /\ UNCHANGED <<rowVars, ancestry, chat, posted, seen, crashes>>

\* Mutation: a message that cannot be cleaned stays queued.
FinishOrKeep(m, outcome) ==
  /\ worker = At("cleaning", 0, m)
  /\ outcome # "retention_policy_blocked" => m \in gone
  /\ life' = IF outcome = "retention_policy_blocked" THEN life ELSE [life EXCEPT ![m] = outcome]
  /\ worker' = Idle
  /\ UNCHANGED <<rowVars, ancestry, providerVars, crashes>>

\* A confirmed deletion or update says so; any other answer blocks the message.
FinishCleanup(m, outcome) ==
  /\ worker = At("cleaning", 0, m)
  /\ outcome # "retention_policy_blocked" => m \in gone
  /\ life' = [life EXCEPT ![m] = outcome]
  /\ worker' = Idle
  /\ UNCHANGED <<rowVars, ancestry, providerVars, crashes>>
-----------------------------------------------------------------------------
\* The process dies, is stopped, or an exception leaves the main loop (a timeout
\* the client does not catch): what it knew is lost, the tables remain.
Crash ==
  /\ worker.pc # "down"
  /\ crashes < MaxCrashes
  /\ crashes' = crashes + 1
  /\ worker' = At("down", 0, 0)
  /\ UNCHANGED <<rowVars, projections, providerVars>>

\* The rows a start retires: user messages that turn out to be internal, and
\* every queued row of a task that the configuration has made internal.
Retirable(retired) ==
  \A r \in retired :
    /\ state[r] \in {"pending", "retryable"}
    /\ \/ col[r].op = "user_message"
       \/ {q \in Rows : /\ col[q].turn = col[r].turn
                        /\ state[q] \in {"pending", "retryable"}} \subseteq retired

Restart(retired) ==
  /\ worker.pc = "down"
  /\ Retirable(retired)
  /\ state' = [r \in Rows |-> IF r \in retired THEN "permanent" ELSE state[r]]
  /\ worker' = Idle
  /\ UNCHANGED <<col, last, wait, lease, age, since, staged, providerId,
                 projections, providerVars, crashes>>

Down(n) == IF n = 0 THEN 0 ELSE n - 1
Up(n) == IF n <= Window THEN n + 1 ELSE n

Tick ==
  /\ wait' = [r \in Rows |-> Down(wait[r])]
  /\ lease' = [r \in Rows |-> Down(lease[r])]
  /\ age' = [r \in Rows |-> Up(age[r])]
  /\ seen' = [r \in Rows |-> IF posted[r] = 0 THEN 0 ELSE Up(seen[r])]
  /\ UNCHANGED <<col, last, state, since, staged, providerId,
                 projections, chat, gone, posted, worker, crashes>>

Upload(r) == StageUpload(r) \/ FailUpload(r) \/ \E d \in 1 .. Backoff : RetryUpload(r, d)
Send(r) == PostMessage(r) \/ RepeatMessage(r) \/ LoseRequest(r)
Answer(r) == Confirm(r) \/ Unsure(r) \/ Fail(r) \/ \E d \in 1 .. Backoff : Retry(r, d)
FollowUp(r) == RecordAncestry(r) \/ Project(r)
Reconcile(r) == ReconcileByRetry(r) \/ ReconcileByHistory(r) \/ ReconcileInVain(r)
Cleanup(m) ==
  \/ \E effect \in BOOLEAN : CleanMessage(m, effect)
  \/ \E outcome \in {"withdrawn", "archived", "retention_policy_blocked"} :
       FinishCleanup(m, outcome)

Next ==
  \/ \E e \in Events : Ingest(e)
  \/ SweepLeases
  \/ \E r \in Rows : \/ LeaseRow(r)
                     \/ \E s \in SettledStates : Reject(r, s)
                     \/ Upload(r)
                     \/ Send(r)
                     \/ Answer(r)
                     \/ FollowUp(r)
                     \/ Reconcile(r)
  \/ \E m \in Positions : Cleanup(m)
  \/ Crash
  \/ \E retired \in SUBSET Rows : Restart(retired)
  \/ Tick

Spec == Init /\ [][Next]_vars

(***************************************************************************)
(* Fairness.  Every pass of the main loop calls lease_outbox, the          *)
(* reconciler and the cleaner, whatever the others did before (SF); what   *)
(* the thread started it goes on with (WF); the supervisor starts a dead   *)
(* process again; time passes.  Of the provider nothing is assumed but     *)
(* that a row it is asked about again and again is some day answered with  *)
(* a definite outcome.                                                     *)
(***************************************************************************)
Fairness ==
  /\ WF_vars(Tick)
  /\ WF_vars(\E retired \in SUBSET Rows : Restart(retired))
  /\ SF_vars(SweepLeases)
  /\ SF_vars(\E r \in Rows : LeaseRow(r))
  /\ \A r \in Rows :
       /\ WF_vars(Upload(r) \/ Send(r) \/ Answer(r) \/ FollowUp(r))
       /\ SF_vars(Reconcile(r))
       /\ SF_vars(StageUpload(r) \/ FailUpload(r))
       /\ SF_vars(Confirm(r) \/ Fail(r))
  /\ \A m \in Positions : SF_vars(Cleanup(m))

FairSpec == Spec /\ Fairness
-----------------------------------------------------------------------------
Threads == {"down", "idle", "leased", "answer", "ancestry", "projection", "cleaning"}

TypeOK ==
  /\ last \in 0 .. MaxRows
  /\ state \in [Rows -> RowStates]
  /\ \A r \in Rows : state[r] = "absent" <=> r > last
  /\ wait \in [Rows -> 0 .. Backoff]
  /\ lease \in [Rows -> 0 .. Lease]
  /\ age \in [Rows -> 0 .. NotYet]
  /\ since \in [Rows -> 0 .. MaxChat]
  /\ staged \in [Rows -> {0, 1}]
  /\ providerId \in [Rows -> 0 .. MaxChat]
  /\ life \in [Positions -> Lifecycles]
  /\ ancestry \subseteq Positions
  /\ chat \in Seq(Rows) /\ Len(chat) <= MaxChat
  /\ gone \subseteq Positions
  /\ posted \in [Rows -> 0 .. Len(chat)]
  /\ seen \in [Rows -> 0 .. Window + 1]
  /\ worker \in [pc : Threads, row : 0 .. MaxRows, msg : 0 .. MaxChat]
  /\ crashes \in 0 .. MaxCrashes

Settled(r) == state[r] \in SettledStates
SameTurn(q, r) == col[q].turn = col[r].turn

\* The messages of one turn stand in the chat in the order in which the rollout
\* produced them, through retries, crashes and expired leases (the NOT EXISTS
\* of lease_outbox).
VisibleInOrder ==
  \A p, q \in DOMAIN chat :
    p < q /\ SameTurn(chat[p], chat[q]) => chat[p] <= chat[q]

\* A row is made visible twice only when its UUID window, measured from the
\* first attempt the outbox recorded, is over: retries, crashes and expired
\* leases inside it never duplicate a message.
AtMostOnceInWindow ==
  \A p, q \in DOMAIN chat :
    p # q /\ chat[p] = chat[q] => age[chat[p]] > Window

\* The outbox keeps what it promises: see the module Delivery.
Promise == INSTANCE Delivery WITH
             Says <- UNION {{NoColumns},
                               UNION {{Columns(e, i) : i \in DOMAIN UnitsOf(e)} : e \in Events}},
             queued <- last,
             settled <- {r \in Rows : Settled(r)},
             shown <- chat,
             hidden <- gone
DeliveryPromise == Promise!DeliverySpec

\* A row outside the queue's own states is final: no late answer, expired lease
\* or reconciliation ever brings it back.
SettledForGood ==
  [][\A r \in Rows : Settled(r) => state'[r] = state[r]]_vars

\* Every row that is queued is settled some day: no head of a turn, expired
\* lease or uncertain send blocks what follows it for ever.
EveryRowSettles ==
  \A r \in Rows : state[r] = "pending" ~> Settled(r)

\* A process message queued for cleanup does not stay queued.
CleanupEnds ==
  \A m \in Positions : life[m] = "cleanup_queued" ~> life[m] # "cleanup_queued"
-----------------------------------------------------------------------------
(***************************************************************************)
(* What the repository says and the code does not keep; see the findings.  *)
(***************************************************************************)

\* A message is visible at most once across retries and restarts.
AtMostOnceVisible ==
  \A p, q \in DOMAIN chat : p # q => chat[p] # chat[q]

\* A message the outbox takes for its row's is the one that was sent for it.
ConfirmedIsOwn ==
  \A r \in Rows : state[r] = "confirmed" => chat[providerId[r]] = r

\* When a process message of a turn is archived as "the final result remains",
\* every part of that final answer was delivered.
FinalResultRemains ==
  \A m \in Positions : life[m] = "archived" =>
    \A r \in 1 .. last :
      SameTurn(r, chat[m]) /\ col[r].kind = "final" => \E p \in DOMAIN chat : chat[p] = r
=============================================================================
