---------------------------- MODULE OutboxProofs ----------------------------
(***************************************************************************)
(* What holds of the outbox for every set of events and every bound.       *)
(*                                                                         *)
(* The order of a turn and the uniqueness of its messages are about the    *)
(* chat, but rest on the rows: a row is started (leased for the first      *)
(* time) only when every earlier row of its turn is settled, and settled   *)
(* rows stay so; the worker holds a row only while it is leased; and the   *)
(* clock that the outbox keeps for a row is never behind the provider's.   *)
(***************************************************************************)
EXTENDS Outbox, SequenceTheorems, TLAPS

Started(r) == age[r] # NotYet

\* The rows: what is not there was never touched, and uploads are staged once.
RowsInv ==
  \A r \in Rows :
    /\ col[r].uploads \in {0, 1}
    /\ staged[r] <= col[r].uploads
    /\ state[r] = "absent" => staged[r] = 0 /\ age[r] = NotYet

\* The worker holds a row only while it is leased, and a message that is there.
WorkerInv ==
  /\ worker.pc \in {"leased", "answer"} =>
       worker.row \in Rows /\ state[worker.row] = "leased" /\ Started(worker.row)
  /\ worker.pc \in {"projection", "ancestry", "cleaning"} => worker.msg # 0

\* A turn is worked off in the order of its rows.
TurnInv ==
  \A q, r \in Rows :
    q < r /\ SameTurn(q, r) /\ Started(r) => Settled(q)

\* What is in the chat was started, and the provider's clock runs after ours.
ChatInv ==
  /\ \A p \in DOMAIN chat : Started(chat[p]) /\ posted[chat[p]] # 0
  /\ \A r \in Rows : posted[r] # 0 => Started(r) /\ seen[r] <= age[r]

IInv ==
  /\ TypeOK
  /\ RowsInv
  /\ WorkerInv
  /\ TurnInv
  /\ ChatInv
  /\ VisibleInOrder
  /\ AtMostOnceInWindow
-----------------------------------------------------------------------------
(***************************************************************************)
(* The steps, by what they do to the rows.  Every step of Next is one of   *)
(* Ingest, SweepLeases, LeaseRow, PostMessage, Restart, Tick and these     *)
(* three.                                                                  *)
(***************************************************************************)

\* The worker lets go of its row.
Finished(r) ==
  /\ worker.pc \in {"leased", "answer"} /\ worker.row = r
  /\ state' \in [Rows -> RowStates]
  /\ state'[r] \notin {"absent", "leased"}
  /\ \A q \in Rows : q # r => state'[q] = state[q]
  /\ wait' \in [Rows -> 0 .. Backoff]
  /\ lease' \in [Rows -> 0 .. Lease]
  /\ providerId' \in [Rows -> 0 .. MaxChat]
  /\ \/ staged' = staged
     \/ /\ staged[r] # col[r].uploads
        /\ staged' = [staged EXCEPT ![r] = @ + 1]
  /\ \/ worker' = Idle
     \/ /\ worker.msg # 0
        /\ worker' = At("ancestry", r, worker.msg)
  /\ UNCHANGED <<col, last, age, since, projections, providerVars, crashes>>

\* The reconciler settles an unknown row, or gives it back to the queue.
Reconciled(r) ==
  /\ worker.pc = "idle" /\ state[r] = "unknown"
  /\ state' \in [Rows -> RowStates]
  /\ state'[r] \notin {"absent", "leased"}
  /\ \A q \in Rows : q # r => state'[q] = state[q]
  /\ wait' \in [Rows -> 0 .. Backoff]
  /\ providerId' \in [Rows -> 0 .. MaxChat]
  /\ UNCHANGED <<col, last, lease, age, since, staged, projections, providerVars,
                 worker, crashes>>

\* Neither the rows nor what the provider remembers of them change.
Quiet ==
  /\ UNCHANGED <<rowVars, chat, posted, seen>>
  /\ life' \in [Positions -> Lifecycles]
  /\ ancestry' \subseteq Positions
  /\ gone' \subseteq Positions
  /\ crashes' \in 0 .. MaxCrashes
  /\ worker' \in [pc : Threads, row : 0 .. MaxRows, msg : 0 .. MaxChat]
  /\ worker'.pc \in {"leased", "answer"} =>
       worker.pc \in {"leased", "answer"} /\ worker'.row = worker.row
  /\ worker'.pc \in {"ancestry", "projection", "cleaning"} => worker'.msg # 0

\* Which lease, upload or answer ends how does not matter to the rows' order.
LEMMA FinishKinds ==
  ASSUME TypeOK, RowsInv, WorkerInv, NEW r \in Rows,
         \/ \E s \in SettledStates : Reject(r, s)
         \/ Upload(r)
         \/ Answer(r)
  PROVE  Finished(r)
<1>0. /\ state \in [Rows -> RowStates] /\ wait \in [Rows -> 0 .. Backoff]
      /\ lease \in [Rows -> 0 .. Lease] /\ providerId \in [Rows -> 0 .. MaxChat]
      /\ worker.msg \in 0 .. MaxChat /\ Lease \in Nat /\ Backoff \in Nat
  BY BoundsAssumption DEF TypeOK
<1> USE <1>0 DEF Finished, FinishOutbox, At, Idle, RowStates, LiveStates, SettledStates,
        TerminalState
<1>1. ASSUME NEW s \in SettledStates, Reject(r, s)
      PROVE  Finished(r)
  BY <1>1 DEF Reject
<1>2. ASSUME StageUpload(r)
      PROVE  Finished(r)
  BY <1>2 DEF StageUpload, Ready
<1>3. ASSUME FailUpload(r)
      PROVE  Finished(r)
  BY <1>3 DEF FailUpload
<1>4. ASSUME NEW d \in 1 .. Backoff, RetryUpload(r, d)
      PROVE  Finished(r)
  BY <1>4 DEF RetryUpload
<1>5. ASSUME Confirm(r)
      PROVE  Finished(r)
  BY <1>5 DEF Confirm
<1>6. ASSUME Unsure(r)
      PROVE  Finished(r)
  BY <1>6 DEF Unsure
<1>7. ASSUME Fail(r)
      PROVE  Finished(r)
  BY <1>7 DEF Fail
<1>8. ASSUME NEW d \in 1 .. Backoff, Retry(r, d)
      PROVE  Finished(r)
  BY <1>8 DEF Retry
<1>9. QED
  BY <1>1, <1>2, <1>3, <1>4, <1>5, <1>6, <1>7, <1>8 DEF Upload, Answer

\* Whatever the reconciler finds, it touches one unknown row and no other.
LEMMA ReconcileKinds ==
  ASSUME TypeOK, NEW r \in Rows, Reconcile(r)
  PROVE  Reconciled(r)
<1>0. /\ state \in [Rows -> RowStates] /\ wait \in [Rows -> 0 .. Backoff]
      /\ providerId \in [Rows -> 0 .. MaxChat] /\ Backoff \in Nat
      /\ Len(chat) \in Nat /\ Len(chat) <= MaxChat /\ MaxChat \in Nat
  BY BoundsAssumption, SMTT(30) DEF TypeOK
<1> USE <1>0 DEF Reconciled, Reconcilable, RowStates, LiveStates, SettledStates
<1>1. ASSUME ReconcileByRetry(r)
      PROVE  Reconciled(r)
  BY <1>1 DEF ReconcileByRetry
<1>2. ASSUME ReconcileByHistory(r)
      PROVE  Reconciled(r)
  <2>1. PICK from \in 0 .. since[r] :
          \/ \E m \in Matches(r, from) :
                /\ state' = [state EXCEPT ![r] = "confirmed"]
                /\ providerId' = [providerId EXCEPT ![r] = m]
          \/ /\ state' = [state EXCEPT ![r] = "delivery_indeterminate"]
             /\ UNCHANGED providerId
    BY <1>2 DEF ReconcileByHistory
  <2>2. from \in Nat /\ \A m \in Matches(r, from) : m \in 0 .. MaxChat
    BY DEF TypeOK, Matches
  <2>3. providerId' \in [Rows -> 0 .. MaxChat]
    BY <2>1, <2>2
  <2>4. /\ state' \in [Rows -> RowStates] /\ state'[r] \notin {"absent", "leased"}
        /\ \A q \in Rows : q # r => state'[q] = state[q]
    BY <2>1
  <2>5. QED
    BY <1>2, <2>3, <2>4 DEF ReconcileByHistory
<1>3. ASSUME ReconcileInVain(r)
      PROVE  Reconciled(r)
  BY <1>3 DEF ReconcileInVain
<1>4. QED
  BY <1>1, <1>2, <1>3, Reconcile(r) DEF Reconcile

\* A lost or repeated send, the writes after a confirmation, the cleaner and a crash
\* leave the rows alone.
LEMMA QuietKinds ==
  ASSUME TypeOK, WorkerInv,
         \/ UNCHANGED vars \/ Crash
         \/ \E r \in Rows : RepeatMessage(r) \/ LoseRequest(r) \/ FollowUp(r)
         \/ \E m \in Positions : Cleanup(m)
  PROVE  Quiet
<1>0. /\ life \in [Positions -> Lifecycles] /\ ancestry \subseteq Positions
      /\ gone \subseteq Positions /\ crashes \in 0 .. MaxCrashes
      /\ worker \in [pc : Threads, row : 0 .. MaxRows, msg : 0 .. MaxChat]
      /\ MaxRows \in Nat /\ MaxChat \in Nat /\ MaxCrashes \in Nat
      /\ Len(chat) \in Nat /\ Len(chat) <= MaxChat
  BY BoundsAssumption DEF TypeOK
<1> USE <1>0 DEF Quiet, At, Idle, Threads, Lifecycles, Rows, Positions
<1>1. ASSUME UNCHANGED vars
      PROVE  Quiet
  BY <1>1 DEF vars, projections, providerVars, WorkerInv
<1>2. ASSUME Crash
      PROVE  Quiet
  BY <1>2 DEF Crash, projections, providerVars
<1>3. ASSUME NEW r \in Rows, RepeatMessage(r)
      PROVE  Quiet
  <2> posted \in [Rows -> 0 .. Len(chat)]
    BY DEF TypeOK
  <2>1. posted[r] \in 0 .. MaxChat
    OBVIOUS
  <2>2. QED
    BY <1>3, <2>1 DEF RepeatMessage, projections, providerVars
<1>4. ASSUME NEW r \in Rows, LoseRequest(r)
      PROVE  Quiet
  BY <1>4 DEF LoseRequest, projections, providerVars
<1>5. ASSUME NEW r \in Rows, RecordAncestry(r)
      PROVE  Quiet
  BY <1>5 DEF RecordAncestry, providerVars, WorkerInv
<1>6. ASSUME NEW r \in Rows, Project(r)
      PROVE  Quiet
  <2>1. life' \in [Positions -> Lifecycles]
    BY <1>6 DEF Project
  <2>2. QED
    BY <1>6, <2>1 DEF Project, providerVars
<1>7. ASSUME NEW m \in Positions, NEW effect \in BOOLEAN, CleanMessage(m, effect)
      PROVE  Quiet
  <2>1. /\ life' \in [Positions -> Lifecycles] /\ gone' \subseteq Positions
    BY <1>7 DEF CleanMessage
  <2>2. worker.pc = "idle" /\ (worker' = At("cleaning", 0, m) \/ worker' = worker)
    BY <1>7 DEF CleanMessage
  <2>3. UNCHANGED <<rowVars, ancestry, chat, posted, seen, crashes>>
    BY <1>7 DEF CleanMessage
  <2>4. m # 0
    OBVIOUS
  <2>5. QED
    BY <2>1, <2>2, <2>3, <2>4
<1>8. ASSUME NEW m \in Positions,
             NEW outcome \in {"withdrawn", "archived", "retention_policy_blocked"},
             FinishCleanup(m, outcome)
      PROVE  Quiet
  BY <1>8 DEF FinishCleanup, providerVars
<1>9. QED
  BY <1>1, <1>2, <1>3, <1>4, <1>5, <1>6, <1>7, <1>8 DEF FollowUp, Cleanup

\* The steps of the specification, one of these kinds each.
StepKind ==
  \/ \E e \in Events : Ingest(e)
  \/ SweepLeases
  \/ \E r \in Rows : LeaseRow(r) \/ Finished(r) \/ PostMessage(r) \/ Reconciled(r)
  \/ \E retired \in SUBSET Rows : Restart(retired)
  \/ Tick
  \/ Quiet

\* The split is complete.
LEMMA StepKinds ==
  ASSUME TypeOK, RowsInv, WorkerInv, [Next]_vars
  PROVE  StepKind
<1>1. ASSUME Next
      PROVE  StepKind
  BY <1>1, FinishKinds, ReconcileKinds, QuietKinds DEF Next, Send, StepKind
<1>2. QED
  BY <1>1, QuietKinds DEF StepKind
-----------------------------------------------------------------------------
(***************************************************************************)
(* What every step does to a row, whatever the step.                       *)
(***************************************************************************)

\* Settled rows are final.
LEMMA SettledStep ==
  ASSUME TypeOK, RowsInv, WorkerInv, [Next]_vars, NEW r \in Rows, Settled(r)
  PROVE  state'[r] = state[r]
<1>0. state \in [Rows -> RowStates] /\ last \in Nat /\ (state[r] = "absent" <=> r > last)
  BY BoundsAssumption DEF TypeOK
<1> USE <1>0 DEF Settled, SettledStates
<1>1. ASSUME NEW e \in Events, Ingest(e)
      PROVE  state'[r] = state[r]
  BY <1>1 DEF Ingest, Rows
<1>2. ASSUME SweepLeases
      PROVE  state'[r] = state[r]
  BY <1>2 DEF SweepLeases, Swept
<1>3. ASSUME NEW q \in Rows, LeaseRow(q)
      PROVE  state'[r] = state[r]
  BY <1>3 DEF LeaseRow, Leasable, Swept
<1>4. ASSUME NEW q \in Rows, Finished(q) \/ PostMessage(q) \/ Reconciled(q)
      PROVE  state'[r] = state[r]
  BY <1>4 DEF Finished, PostMessage, Reconciled, rowVars, WorkerInv
<1>5. ASSUME NEW retired \in SUBSET Rows, Restart(retired)
      PROVE  state'[r] = state[r]
  BY <1>5 DEF Restart, Retirable
<1>6. ASSUME Tick \/ Quiet
      PROVE  state'[r] = state[r]
  BY <1>6 DEF Tick, Quiet, rowVars
<1>7. QED
  BY <1>1, <1>2, <1>3, <1>4, <1>5, <1>6, StepKinds DEF StepKind

\* The columns of a row never change once it is there.
LEMMA ColumnsStep ==
  ASSUME TypeOK, RowsInv, WorkerInv, [Next]_vars, NEW r \in Rows, r <= last
  PROVE  col'[r] = col[r]
<1>1. ASSUME NEW e \in Events, Ingest(e)
      PROVE  col'[r] = col[r]
  <2>1. last \in Nat
    BY BoundsAssumption DEF TypeOK
  <2>2. QED
    BY <1>1, <2>1 DEF Ingest, Rows
<1>2. ASSUME ~ \E e \in Events : Ingest(e)
      PROVE  col' = col
  BY <1>2, StepKinds DEF StepKind, SweepLeases, LeaseRow, Finished, PostMessage, Reconciled,
     Restart, Tick, Quiet, rowVars
<1>3. QED
  BY <1>1, <1>2

\* A row's clock never goes back, and starts only when the row can be leased.
LEMMA ClockStep ==
  ASSUME TypeOK, RowsInv, WorkerInv, [Next]_vars, NEW r \in Rows
  PROVE  /\ age'[r] \in 0 .. NotYet
         /\ Started(r) => age'[r] # NotYet /\ age[r] <= age'[r]
         /\ ~ Started(r) => \/ age'[r] = NotYet
                            \/ Leasable(r) /\ col' = col
<1>0. age \in [Rows -> 0 .. NotYet] /\ Window \in Nat
  BY BoundsAssumption DEF TypeOK
<1> USE <1>0 DEF Started, NotYet
<1>1. ASSUME NEW q \in Rows, LeaseRow(q)
      PROVE  age' = [age EXCEPT ![q] = IF @ = NotYet THEN 0 ELSE @] /\ Leasable(q) /\ col' = col
  BY <1>1 DEF LeaseRow, FirstAttempt
<1>2. CASE Tick
  <2>1. age'[r] = Up(age[r])
    BY <1>2 DEF Tick
  <2>2. QED
    BY <2>1 DEF Up
<1>3. ASSUME ~ Tick, \A q \in Rows : ~ LeaseRow(q)
      PROVE  age' = age
  BY <1>3, StepKinds DEF StepKind, Ingest, SweepLeases, Finished, PostMessage, Reconciled,
     Restart, Quiet, rowVars
<1>4. QED
  BY <1>1, <1>2, <1>3

\* Only a send adds to the chat.
LEMMA ChatStep ==
  ASSUME TypeOK, RowsInv, WorkerInv, [Next]_vars
  PROVE  \/ UNCHANGED <<chat, posted>>
         \/ \E r \in Rows : PostMessage(r)
BY StepKinds DEF StepKind, Ingest, SweepLeases, LeaseRow, Finished, Reconciled, Restart, Tick,
   Quiet, rowVars, providerVars
-----------------------------------------------------------------------------
(***************************************************************************)
(* The inductive invariant, one conjunct after the other.                  *)
(***************************************************************************)
\* An empty outbox satisfies the invariant.
LEMMA InitInv == Init => IInv
<1> SUFFICES ASSUME Init
             PROVE  IInv
  OBVIOUS
<1> USE BoundsAssumption DEF Init
<1>1. TypeOK
  BY DEF TypeOK, RowStates, Lifecycles, Threads, Idle, NotYet, Rows
<1>2. RowsInv
  BY DEF RowsInv, NoColumns
<1>3. WorkerInv
  BY DEF WorkerInv, Idle
<1>4. TurnInv /\ ChatInv /\ VisibleInOrder /\ AtMostOnceInWindow
  BY DEF TurnInv, ChatInv, VisibleInOrder, AtMostOnceInWindow, Started
<1>5. QED
  BY <1>1, <1>2, <1>3, <1>4 DEF IInv

\* A turn is worked off in order: a row starts when the rows before it are settled,
\* and they stay so; rows that are added have not started.
LEMMA TurnStep ==
  ASSUME IInv, [Next]_vars
  PROVE  TurnInv'
<1> USE DEF IInv
<1> SUFFICES ASSUME NEW q \in Rows, NEW r \in Rows, q < r, SameTurn(q, r)', Started(r)'
             PROVE  Settled(q)'
  BY DEF TurnInv
<1>1. CASE ~ Started(r)
  <2>1. Leasable(r) /\ col' = col
    BY <1>1, ClockStep DEF Started
  <2>2. Swept[q] \in SettledStates
    BY <2>1 DEF Leasable, SameTurn, Rows
  <2>3. Settled(q)
    BY <2>2 DEF Swept, Settled, SettledStates
  <2>4. QED
    BY <2>3, SettledStep DEF Settled
<1>2. CASE Started(r)
  <2>1. q \in Nat /\ r \in Nat /\ last \in Nat /\ r <= last
    BY <1>2, BoundsAssumption DEF TypeOK, RowsInv, Started, Rows
  <2>2. col'[q] = col[q] /\ col'[r] = col[r]
    BY <2>1, ColumnsStep
  <2>3. Settled(q)
    BY <1>2, <2>2 DEF SameTurn, TurnInv
  <2>4. QED
    BY <2>3, SettledStep DEF Settled
<1>3. QED
  BY <1>1, <1>2

\* What a send adds to the chat, and what it may rely on.
LEMMA PostFacts ==
  ASSUME IInv, NEW r \in Rows, PostMessage(r)
  PROVE  /\ chat \in Seq(Rows) /\ chat' = Append(chat, r) /\ UNCHANGED <<age, col>>
         /\ state[r] = "leased" /\ Started(r)
         /\ \A p \in DOMAIN chat : chat[p] = r => age[r] > Window
<1>1. /\ chat \in Seq(Rows) /\ chat' = Append(chat, r) /\ UNCHANGED <<age, col>>
      /\ state[r] = "leased" /\ Started(r)
  BY DEF PostMessage, IInv, TypeOK, WorkerInv, At, rowVars
<1>2. ASSUME NEW p \in DOMAIN chat, chat[p] = r
      PROVE  age[r] > Window
  <2>1. posted[r] # 0 /\ seen[r] <= age[r]
    BY <1>2 DEF IInv, ChatInv
  <2>2. seen[r] > Window
    BY <2>1, BoundsAssumption, SMTT(30) DEF PostMessage, Remembered, IInv, TypeOK
  <2>3. QED
    BY <2>1, <2>2, BoundsAssumption, SMTT(30) DEF IInv, TypeOK, NotYet
<1>3. QED
  BY <1>1, <1>2

\* The chat only grows, and a message that is added comes after the messages of its
\* turn and after the window of an earlier message of the same row.
LEMMA VisibleStep ==
  ASSUME IInv, [Next]_vars
  PROVE  VisibleInOrder' /\ AtMostOnceInWindow'
<1> chat \in Seq(Rows) /\ last \in Nat /\ Window \in Nat /\ age \in [Rows -> 0 .. NotYet]
  BY BoundsAssumption DEF IInv, TypeOK
<1>0. \A r \in Rows : r \in Nat /\ (Started(r) => r <= last)
  <2>1. \A r \in Rows : r \in Nat
    BY BoundsAssumption DEF Rows
  <2>2. \A r \in Rows : Started(r) => ~ (r > last)
    BY DEF IInv, RowsInv, TypeOK, Started
  <2>3. QED
    BY <2>1, <2>2
\* The messages already there keep their order and their clocks run on.
<1>1. ASSUME NEW p \in DOMAIN chat, NEW q \in DOMAIN chat
      PROVE  /\ p < q /\ col'[chat[p]].turn = col'[chat[q]].turn => chat[p] <= chat[q]
             /\ p # q /\ chat[p] = chat[q] => age'[chat[p]] > Window
  <2>1. chat[p] \in Rows /\ chat[q] \in Rows /\ Started(chat[p]) /\ Started(chat[q])
    BY DEF IInv, ChatInv
  <2>2. chat[p] <= last /\ chat[q] <= last
    BY <1>0, <2>1
  <2>3. col'[chat[p]] = col[chat[p]] /\ col'[chat[q]] = col[chat[q]]
    BY <2>1, <2>2, ColumnsStep DEF IInv
  <2>4. age[chat[p]] <= age'[chat[p]] /\ age'[chat[p]] \in Nat
    BY <2>1, ClockStep DEF IInv, NotYet
  <2>5. QED
    BY <2>1, <2>3, <2>4 DEF IInv, VisibleInOrder, AtMostOnceInWindow, SameTurn
<1>2. CASE UNCHANGED <<chat, posted>>
  BY <1>1, <1>2 DEF VisibleInOrder, AtMostOnceInWindow, SameTurn
\* A new message is the last of its turn: a later row has not started before it.
<1>3. ASSUME NEW r \in Rows, PostMessage(r)
      PROVE  VisibleInOrder' /\ AtMostOnceInWindow'
  <2>1. chat' = Append(chat, r) /\ age' = age /\ col' = col
    BY <1>3, PostFacts
  <2>2. /\ Len(chat) \in Nat /\ DOMAIN chat = 1 .. Len(chat)
        /\ DOMAIN chat' = 1 .. Len(chat) + 1 /\ chat'[Len(chat) + 1] = r
        /\ \A p \in DOMAIN chat : chat'[p] = chat[p] /\ chat[p] \in Rows
    BY <2>1
  <2>3. ASSUME NEW p \in DOMAIN chat, SameTurn(chat[p], r)
        PROVE  chat[p] <= r
    <3>1. state[r] = "leased"
      BY <1>3, PostFacts
    <3>2. CASE r < chat[p]
      <4>1. Settled(r)
        BY <2>3, <3>2 DEF IInv, TurnInv, ChatInv, SameTurn
      <4>2. QED
        BY <3>1, <4>1 DEF Settled, SettledStates
    <3>3. QED
      BY <3>2
  <2>4. \A p \in DOMAIN chat : chat[p] = r => age[r] > Window
    BY <1>3, PostFacts
  <2>5. ASSUME NEW p \in DOMAIN chat', NEW q \in DOMAIN chat'
        PROVE  /\ p < q /\ col[chat'[p]].turn = col[chat'[q]].turn => chat'[p] <= chat'[q]
               /\ p # q /\ chat'[p] = chat'[q] => age[chat'[p]] > Window
    <3>1. CASE p \in DOMAIN chat /\ q \in DOMAIN chat
      BY <1>1, <2>1, <2>2, <3>1
    <3>2. CASE p \in DOMAIN chat /\ q = Len(chat) + 1
      BY <2>2, <2>3, <2>4, <3>2 DEF SameTurn
    <3>3. CASE p = Len(chat) + 1
      <4>1. ~ (p < q)
        BY <2>2, <3>3
      <4>2. chat'[p] = chat'[q] /\ p # q => age[r] > Window
        BY <2>2, <2>4, <3>3
      <4>3. QED
        BY <2>2, <3>3, <4>1, <4>2
    <3>4. QED
      BY <2>2, <3>1, <3>2, <3>3
  <2>6. QED
    BY <2>1, <2>5 DEF VisibleInOrder, AtMostOnceInWindow, SameTurn
<1>4. QED
  BY <1>2, <1>3, ChatStep DEF IInv

\* The rows of a new event have the columns of its units.
LEMMA IngestUploads ==
  ASSUME NEW e \in Events, NEW i \in 1 .. Len(UnitsOf(e))
  PROVE  Columns(e, i).uploads \in {0, 1}
<1>1. e.units \in Seq(Unit) /\ [body |-> Cue, uploads |-> 0] \in Unit
  BY EventsAssumption DEF Unit
<1>2. UnitsOf(e) \in Seq(Unit)
  BY <1>1 DEF UnitsOf
<1>3. UnitsOf(e)[i] \in Unit
  BY <1>2
<1>4. QED
  BY <1>3 DEF Columns, Unit

\* Uploads are staged at most once, and a row that is added is untouched.
LEMMA RowsStep ==
  ASSUME IInv, [Next]_vars
  PROVE  RowsInv'
<1> state \in [Rows -> RowStates] /\ staged \in [Rows -> {0, 1}] /\ last \in 0 .. MaxRows
  BY DEF IInv, TypeOK
<1> USE BoundsAssumption DEF RowsInv, IInv
<1>1. ASSUME NEW e \in Events, Ingest(e)
      PROVE  RowsInv'
  <2> SUFFICES ASSUME NEW r \in Rows
               PROVE  /\ col'[r].uploads \in {0, 1}
                      /\ staged[r] <= col'[r].uploads
                      /\ state'[r] = "absent" => staged[r] = 0 /\ age[r] = NotYet
    BY <1>1 DEF Ingest
  <2> DEFINE n == Len(UnitsOf(e))
  <2>1. n \in Nat
    BY EventsAssumption DEF UnitsOf, Unit
  <2>2. CASE r \in last + 1 .. last + n
    <3>1. r - last \in 1 .. n /\ col'[r] = Columns(e, r - last) /\ state'[r] = "pending"
      BY <1>1, <2>1, <2>2 DEF Ingest, Rows
    <3>2. col'[r].uploads \in {0, 1}
      BY <3>1, IngestUploads
    <3>3. staged[r] = 0
      BY <2>1, <2>2 DEF TypeOK, Rows
    <3>4. QED
      BY <3>1, <3>2, <3>3
  <2>3. CASE r \notin last + 1 .. last + n
    BY <1>1, <2>3 DEF Ingest
  <2>4. QED
    BY <2>2, <2>3
<1>2. ASSUME NEW r \in Rows, LeaseRow(r)
      PROVE  RowsInv'
  BY <1>2 DEF LeaseRow, FirstAttempt, Leasable, Swept
<1>3. ASSUME NEW r \in Rows, Finished(r)
      PROVE  RowsInv'
  BY <1>3 DEF Finished, WorkerInv
<1>4. ASSUME NEW r \in Rows, PostMessage(r) \/ Reconciled(r)
      PROVE  RowsInv'
  BY <1>4 DEF PostMessage, Reconciled, rowVars
<1>5. CASE SweepLeases
  BY <1>5 DEF SweepLeases, Swept
<1>6. CASE Tick
  BY <1>6 DEF Tick, Up, NotYet
<1>7. CASE Quiet
  BY <1>7 DEF Quiet, rowVars
<1>8. ASSUME NEW retired \in SUBSET Rows, Restart(retired)
      PROVE  RowsInv'
  BY <1>8 DEF Restart, Retirable
<1>9. QED
  BY <1>1, <1>2, <1>3, <1>4, <1>5, <1>6, <1>7, <1>8, StepKinds DEF StepKind

\* The worker holds the row it leased: nothing else changes a leased row while it
\* works, since the reconciler and the sweep run only between its calls.
LEMMA WorkerStep ==
  ASSUME IInv, [Next]_vars
  PROVE  WorkerInv'
<1> state \in [Rows -> RowStates] /\ age \in [Rows -> 0 .. NotYet] /\ Len(chat) \in Nat
  BY DEF IInv, TypeOK
<1> USE BoundsAssumption DEF WorkerInv, IInv, Started, At, Idle
<1>1. ASSUME NEW e \in Events, Ingest(e)
      PROVE  WorkerInv'
  BY <1>1 DEF Ingest
<1>2. ASSUME NEW r \in Rows, LeaseRow(r)
      PROVE  WorkerInv'
  <2>1. state'[r] = "leased" /\ age'[r] # NotYet /\ worker' = At("leased", r, 0)
    BY <1>2 DEF LeaseRow, FirstAttempt, Swept, NotYet
  <2>2. QED
    BY <2>1
<1>3. ASSUME NEW r \in Rows, Finished(r)
      PROVE  WorkerInv'
  BY <1>3 DEF Finished
<1>4. ASSUME NEW r \in Rows, PostMessage(r)
      PROVE  WorkerInv'
  BY <1>4 DEF PostMessage, rowVars
<1>5. ASSUME NEW r \in Rows, Reconciled(r)
      PROVE  WorkerInv'
  BY <1>5 DEF Reconciled
<1>6. CASE SweepLeases
  BY <1>6 DEF SweepLeases
<1>7. CASE Tick
  BY <1>7 DEF Tick, Up, NotYet
<1>8. CASE Quiet
  BY <1>8 DEF Quiet, rowVars
<1>9. ASSUME NEW retired \in SUBSET Rows, Restart(retired)
      PROVE  WorkerInv'
  BY <1>9 DEF Restart
<1>10. QED
  BY <1>1, <1>2, <1>3, <1>4, <1>5, <1>6, <1>7, <1>8, <1>9, StepKinds DEF StepKind

\* A message in the chat was leased first, and the provider saw it no earlier.
LEMMA ChatInvStep ==
  ASSUME IInv, [Next]_vars
  PROVE  ChatInv'
<1> /\ chat \in Seq(Rows) /\ posted \in [Rows -> 0 .. Len(chat)]
    /\ seen \in [Rows -> 0 .. Window + 1] /\ age \in [Rows -> 0 .. NotYet]
  BY DEF IInv, TypeOK
<1> USE BoundsAssumption DEF IInv
<1>1. \A r \in Rows : Started(r) => Started(r)' /\ age[r] <= age'[r] /\ age'[r] \in Nat
  BY ClockStep DEF Started, NotYet
<1>2. ASSUME UNCHANGED <<chat, posted, seen>>
      PROVE  ChatInv'
  BY <1>1, <1>2, SMTT(30) DEF ChatInv
<1>3. ASSUME NEW r \in Rows, PostMessage(r)
      PROVE  ChatInv'
  <2>1. /\ chat' = Append(chat, r) /\ posted' = [posted EXCEPT ![r] = Len(chat) + 1]
        /\ seen' = [seen EXCEPT ![r] = 0] /\ age' = age /\ Started(r)
    BY <1>3, PostFacts DEF PostMessage
  <2>2. \A p \in DOMAIN chat' : chat'[p] = r \/ (p \in DOMAIN chat /\ chat'[p] = chat[p])
    <3>1. Len(chat) \in Nat /\ DOMAIN chat = 1 .. Len(chat) /\ DOMAIN chat' = 1 .. Len(chat) + 1
      BY <2>1
    <3>2. chat'[Len(chat) + 1] = r /\ \A p \in DOMAIN chat : chat'[p] = chat[p]
      BY <2>1, SMTT(30)
    <3>3. QED
      BY <3>1, <3>2
  <2>3. Len(chat) + 1 # 0
    OBVIOUS
  <2>4. \A p \in DOMAIN chat' : Started(chat'[p]) /\ posted'[chat'[p]] # 0
    <3>1. ASSUME NEW p \in DOMAIN chat
          PROVE  chat[p] \in Rows /\ Started(chat[p]) /\ posted[chat[p]] # 0
      BY DEF ChatInv
    <3>2. posted'[r] # 0 /\ \A q \in Rows : posted[q] # 0 => posted'[q] # 0
      BY <2>1, <2>3
    <3>3. QED
      BY <2>1, <2>2, <3>1, <3>2
  <2>5. \A q \in Rows : posted'[q] # 0 => Started(q) /\ seen'[q] <= age[q]
    BY <2>1 DEF ChatInv, NotYet
  <2>6. QED
    BY <2>1, <2>4, <2>5 DEF ChatInv, Started
<1>4. CASE Tick
  <2>1. UNCHANGED <<chat, posted>>
    BY <1>4 DEF Tick
  <2>2. ASSUME NEW r \in Rows, posted[r] # 0
        PROVE  seen'[r] <= age'[r]
    <3>1. seen'[r] = Up(seen[r]) /\ age'[r] = Up(age[r])
      BY <1>4, <2>2 DEF Tick
    <3>2. seen[r] <= age[r] /\ seen[r] \in Nat /\ age[r] \in Nat
      BY <2>2 DEF ChatInv, NotYet
    <3>3. QED
      BY <3>1, <3>2 DEF Up
  <2>3. QED
    BY <1>1, <2>1, <2>2 DEF ChatInv
<1>5. QED
  BY <1>2, <1>3, <1>4, StepKinds DEF StepKind, Ingest, SweepLeases, LeaseRow, Finished,
     Reconciled, Restart, Quiet, providerVars

\* The saturating clocks stay in their ranges.
LEMMA ClocksBounded ==
  /\ \A m \in Nat : \A n \in 0 .. m : Down(n) \in 0 .. m
  /\ \A n \in 0 .. NotYet : Up(n) \in 0 .. NotYet
  /\ \A n \in 0 .. Window + 1 : Up(n) \in 0 .. Window + 1
BY BoundsAssumption DEF Down, Up, NotYet

\* Every step keeps the types.
LEMMA TypeStep ==
  ASSUME IInv, [Next]_vars
  PROVE  TypeOK'
<1>0. /\ last \in 0 .. MaxRows /\ state \in [Rows -> RowStates]
      /\ \A r \in Rows : state[r] = "absent" <=> r > last
      /\ wait \in [Rows -> 0 .. Backoff] /\ lease \in [Rows -> 0 .. Lease]
      /\ age \in [Rows -> 0 .. NotYet] /\ since \in [Rows -> 0 .. MaxChat]
      /\ staged \in [Rows -> {0, 1}] /\ providerId \in [Rows -> 0 .. MaxChat]
      /\ chat \in Seq(Rows) /\ Len(chat) \in Nat /\ Len(chat) <= MaxChat
      /\ posted \in [Rows -> 0 .. Len(chat)] /\ seen \in [Rows -> 0 .. Window + 1]
  BY DEF IInv, TypeOK
<1>t. /\ life \in [Positions -> Lifecycles] /\ ancestry \subseteq Positions
      /\ gone \subseteq Positions /\ crashes \in 0 .. MaxCrashes
      /\ worker \in [pc : Threads, row : 0 .. MaxRows, msg : 0 .. MaxChat]
  BY DEF IInv, TypeOK
<1> USE BoundsAssumption
<1>1. ASSUME NEW e \in Events, Ingest(e)
      PROVE  TypeOK'
  <2> DEFINE n == Len(UnitsOf(e))
  <2>1. n \in Nat
    BY EventsAssumption DEF UnitsOf, Unit
  <2>2. last' \in 0 .. MaxRows /\ last' = last + n
    BY <1>0, <1>1, <2>1 DEF Ingest
  <2>3. state' \in [Rows -> RowStates]
    BY <1>0, <1>1 DEF Ingest, RowStates, LiveStates
  <2>4. \A r \in Rows : state'[r] = "absent" <=> r > last'
    BY <1>0, <1>1, <2>1, <2>2 DEF Ingest, Rows
  <2>5. QED
    BY <1>0, <1>t, <1>1, <2>2, <2>3, <2>4 DEF Ingest, TypeOK, projections, providerVars
<1>2. ASSUME NEW r \in Rows, LeaseRow(r)
      PROVE  TypeOK'
  <2>1. /\ state' \in [Rows -> RowStates]
        /\ \A q \in Rows : state'[q] = "absent" <=> q > last
    BY <1>0, <1>2 DEF LeaseRow, Leasable, Swept, RowStates, LiveStates
  <2>2. /\ lease' \in [Rows -> 0 .. Lease] /\ age' \in [Rows -> 0 .. NotYet]
        /\ since' \in [Rows -> 0 .. MaxChat]
    BY <1>0, <1>2 DEF LeaseRow, FirstAttempt, NotYet
  <2>3. worker' \in [pc : Threads, row : 0 .. MaxRows, msg : 0 .. MaxChat]
    BY <1>2 DEF LeaseRow, At, Threads, Rows
  <2>4. QED
    BY <1>0, <1>t, <1>2, <2>1, <2>2, <2>3 DEF LeaseRow, TypeOK, projections, providerVars
<1>3. ASSUME NEW r \in Rows, Finished(r)
      PROVE  TypeOK'
  <2>1. state[r] = "leased"
    BY <1>3 DEF Finished, IInv, WorkerInv
  <2>2. \A q \in Rows : state'[q] = "absent" <=> q > last
    BY <1>0, <1>3, <2>1 DEF Finished
  <2>3. staged' \in [Rows -> {0, 1}]
    <3>1. col[r].uploads \in {0, 1} /\ staged[r] <= col[r].uploads /\ staged[r] \in {0, 1}
      BY <1>0 DEF IInv, RowsInv
    <3>2. staged[r] # col[r].uploads => staged[r] + 1 = 1
      BY <3>1
    <3>3. QED
      BY <1>0, <1>3, <3>2 DEF Finished
  <2>4. worker' \in [pc : Threads, row : 0 .. MaxRows, msg : 0 .. MaxChat]
    BY <1>t, <1>3 DEF Finished, At, Idle, Threads, Rows
  <2>5. QED
    BY <1>0, <1>t, <1>3, <2>2, <2>3, <2>4 DEF Finished, TypeOK, projections, providerVars
<1>4. ASSUME NEW r \in Rows, PostMessage(r)
      PROVE  TypeOK'
  <2>1. /\ chat' \in Seq(Rows) /\ Len(chat') = Len(chat) + 1 /\ Len(chat') <= MaxChat
    BY <1>0, <1>4 DEF PostMessage
  <2>2. /\ posted' \in [Rows -> 0 .. Len(chat')] /\ seen' \in [Rows -> 0 .. Window + 1]
    <3>1. posted' = [posted EXCEPT ![r] = Len(chat')] /\ seen' = [seen EXCEPT ![r] = 0]
      BY <1>4, <2>1 DEF PostMessage
    <3>2. \A q \in Rows : posted'[q] \in 0 .. Len(chat')
      <4>1. posted'[r] \in 0 .. Len(chat')
        BY <1>0, <2>1, <3>1
      <4>2. ASSUME NEW q \in Rows
            PROVE  posted[q] \in 0 .. Len(chat')
        <5>1. posted[q] \in 0 .. Len(chat)
          BY <1>0
        <5>2. Len(chat') = Len(chat) + 1 /\ Len(chat) \in Nat
          BY <1>0, <2>1
        <5>3. QED
          BY <5>1, <5>2
      <4>3. QED
        BY <3>1, <4>1, <4>2
    <3>3. posted' = [q \in Rows |-> posted'[q]]
      BY <1>0, <3>1
    <3>4. posted' \in [Rows -> 0 .. Len(chat')]
      BY <3>2, <3>3
    <3>5. seen' \in [Rows -> 0 .. Window + 1]
      BY <1>0, <3>1
    <3>6. QED
      BY <3>4, <3>5
  <2>3. worker' \in [pc : Threads, row : 0 .. MaxRows, msg : 0 .. MaxChat]
    BY <1>0, <1>4, SMTT(30) DEF PostMessage, At, Threads, Rows
  <2>4. QED
    BY <1>0, <1>t, <1>4, <2>1, <2>2, <2>3 DEF PostMessage, TypeOK, rowVars, projections
<1>5. ASSUME NEW r \in Rows, Reconciled(r)
      PROVE  TypeOK'
  <2>1. \A q \in Rows : state'[q] = "absent" <=> q > last
    BY <1>0, <1>5 DEF Reconciled
  <2>2. QED
    BY <1>0, <1>t, <1>5, <2>1 DEF Reconciled, TypeOK, projections, providerVars
<1>6. CASE SweepLeases
  <2>1. /\ state' \in [Rows -> RowStates]
        /\ \A q \in Rows : state'[q] = "absent" <=> q > last
    BY <1>0, <1>6 DEF SweepLeases, Swept, RowStates, LiveStates
  <2>2. QED
    BY <1>0, <1>t, <1>6, <2>1 DEF SweepLeases, TypeOK, projections, providerVars
<1>7. CASE Tick
  <2>1. /\ wait' \in [Rows -> 0 .. Backoff] /\ lease' \in [Rows -> 0 .. Lease]
    <3>1. \A r \in Rows : Down(wait[r]) \in 0 .. Backoff /\ Down(lease[r]) \in 0 .. Lease
      BY <1>0, ClocksBounded
    <3>2. QED
      BY <1>7, <3>1 DEF Tick
  <2>2. /\ age' \in [Rows -> 0 .. NotYet] /\ seen' \in [Rows -> 0 .. Window + 1]
    <3>1. \A r \in Rows : Up(age[r]) \in 0 .. NotYet /\ Up(seen[r]) \in 0 .. Window + 1
      BY <1>0, ClocksBounded
    <3>2. QED
      BY <1>7, <3>1 DEF Tick
  <2>3. QED
    BY <1>0, <1>t, <1>7, <2>1, <2>2 DEF Tick, TypeOK, projections
<1>8. CASE Quiet
  BY <1>0, <1>8 DEF Quiet, TypeOK, rowVars
<1>9. ASSUME NEW retired \in SUBSET Rows, Restart(retired)
      PROVE  TypeOK'
  <2>1. /\ state' \in [Rows -> RowStates]
        /\ \A q \in Rows : state'[q] = "absent" <=> q > last
    BY <1>0, <1>9 DEF Restart, Retirable, RowStates, SettledStates
  <2>2. worker' \in [pc : Threads, row : 0 .. MaxRows, msg : 0 .. MaxChat]
    BY <1>9 DEF Restart, Idle, Threads
  <2>3. QED
    BY <1>0, <1>t, <1>9, <2>1, <2>2 DEF Restart, TypeOK, projections, providerVars
<1>10. QED
  BY <1>1, <1>2, <1>3, <1>4, <1>5, <1>6, <1>7, <1>8, <1>9, StepKinds DEF StepKind, IInv
-----------------------------------------------------------------------------
\* The invariant is inductive.
LEMMA InvariantHolds == Spec => []IInv
<1>1. IInv /\ [Next]_vars => IInv'
  BY TypeStep, RowsStep, WorkerStep, TurnStep, ChatInvStep, VisibleStep DEF IInv
<1>2. QED
  BY InitInv, <1>1, PTL DEF Spec

\* Every row, clock and message of the outbox keeps its type, for any events and bounds.
THEOREM TypeCorrect == Spec => []TypeOK
<1>1. IInv => TypeOK
  BY DEF IInv
<1>2. QED
  BY InvariantHolds, <1>1, PTL

\* The messages of a turn appear in the order of the rollout: the head-of-line guard
\* of lease_outbox is enough, whatever the provider answers and whenever the process dies.
THEOREM TurnOrder == Spec => []VisibleInOrder
<1>1. IInv => VisibleInOrder
  BY DEF IInv
<1>2. QED
  BY InvariantHolds, <1>1, PTL

\* Inside the UUID window counted from first_attempt_at no message appears twice: the
\* outbox's clock of a row started no later than the provider's.
THEOREM NoDuplicateInWindow == Spec => []AtMostOnceInWindow
<1>1. IInv => AtMostOnceInWindow
  BY DEF IInv
<1>2. QED
  BY InvariantHolds, <1>1, PTL

\* No late answer, expired lease or reconciliation brings a settled row back.
THEOREM SettledRowsStay == Spec => SettledForGood
<1>1. IInv /\ [Next]_vars => [\A r \in Rows : Settled(r) => state'[r] = state[r]]_vars
  BY SettledStep DEF IInv
<1>2. QED
  BY InvariantHolds, <1>1, PTL DEF Spec, SettledForGood

-----------------------------------------------------------------------------
(***************************************************************************)
(* The outbox implements Delivery, for every set of events and every       *)
(* bound: each of its steps shows one row whose turn has come, queues the  *)
(* rows of an event, settles rows, hides a message that may be hidden, or  *)
(* changes nothing of what Delivery speaks of.                             *)
(*                                                                         *)
(* Showing follows from the order of a turn (OutboxProofs).  Hiding needs  *)
(* more: a message is registered as transient when its row turned out to   *)
(* be no part of a final answer, and queued for cleanup by the cue of its  *)
(* turn; neither ever becomes false, though rows are still being queued.   *)
(***************************************************************************)

Says == UNION {{NoColumns}, UNION {{Columns(e, i) : i \in DOMAIN UnitsOf(e)} : e \in Events}}

ColumnsInv == col \in [Rows -> Says]

\* The provider answers a UUID with the message of its row, and the worker has it from there.
AnswerInv ==
  /\ \A r \in Rows : posted[r] # 0 => posted[r] \in DOMAIN chat /\ chat[posted[r]] = r
  /\ \/ worker.pc \in {"ancestry", "projection"}
     \/ worker.pc = "answer" /\ worker.msg # 0
     => worker.msg \in DOMAIN chat /\ chat[worker.msg] = worker.row
  /\ worker.pc = "cleaning" => worker.msg \in Positions /\ life[worker.msg] = "cleanup_queued"

\* What has a lifecycle is a process message that is in the chat.
ProcessInv ==
  /\ \A m \in Positions : life[m] # "none" =>
       m \in DOMAIN chat /\ col[chat[m]].op = "commentary" /\ ~ PartOfFinal(chat[m])
  /\ \A m \in gone : life[m] # "none"

Cued(m) ==
  \E c \in DOMAIN chat : SameTurn(chat[c], chat[m]) /\ col[chat[c]].op = "final"

CueInv ==
  \A m \in Positions : life[m] \notin {"none", "transient_active"} => Cued(m)

DInv == IInv /\ ColumnsInv /\ AnswerInv /\ ProcessInv /\ CueInv

\* What is shown is one of the rows.
LEMMA ShownRows ==
  ASSUME IInv, NEW p \in DOMAIN chat
  PROVE  chat[p] \in Rows /\ chat[p] \in 1 .. last
<1>1. chat[p] \in Rows
  BY ElementOfSeq, LenProperties DEF IInv, TypeOK
<1>2. state[chat[p]] # "absent"
  BY <1>1 DEF IInv, ChatInv, RowsInv, Started
<1> QED
  BY <1>1, <1>2, BoundsAssumption DEF IInv, TypeOK, Rows
-----------------------------------------------------------------------------
(***************************************************************************)
(* The steps, by what they do to the messages.                             *)
(***************************************************************************)
Calm ==
  /\ UNCHANGED <<col, last, life, chat, gone, posted>>
  /\ \/ worker' = worker
     \/ worker'.pc \notin {"answer", "ancestry", "projection", "cleaning"}
     \/ worker'.pc = "answer" /\ worker'.msg = 0
     \/ \E r \in Rows : posted[r] # 0 /\ worker' = At("answer", r, posted[r])
     \/ /\ worker'.pc \in {"ancestry", "projection"}
        /\ worker.pc \in {"answer", "ancestry"} /\ worker.msg # 0
        /\ worker'.row = worker.row /\ worker'.msg = worker.msg

MessageKind ==
  \/ \E e \in Events : Ingest(e)
  \/ \E r \in Rows : PostMessage(r) \/ Project(r)
  \/ \E m \in Positions : Cleanup(m)
  \/ Calm

\* Every step is of one of these kinds.
LEMMA MessageKinds ==
  ASSUME IInv, [Next]_vars
  PROVE  MessageKind
<1> USE DEF MessageKind, Calm
<1>0. worker \in [pc : Threads, row : 0 .. MaxRows, msg : 0 .. MaxChat]
  BY DEF IInv, TypeOK
<1>i. Idle.pc = "idle" /\ \A pc, r, m : /\ At(pc, r, m).pc = pc /\ At(pc, r, m).row = r
                                        /\ At(pc, r, m).msg = m
  BY DEF Idle, At
<1>1. ASSUME SweepLeases \/ Tick \/ UNCHANGED vars
      PROVE  MessageKind
  BY <1>1 DEF SweepLeases, Tick, vars, rowVars, projections, providerVars
<1>2. ASSUME Crash \/ \E retired \in SUBSET Rows : Restart(retired)
      PROVE  MessageKind
  BY <1>2, <1>i DEF Crash, Restart, rowVars, projections, providerVars
<1>3. ASSUME NEW r \in Rows, LeaseRow(r) \/ (\E s \in SettledStates : Reject(r, s)) \/ Upload(r)
      PROVE  MessageKind
  BY <1>3, <1>i DEF LeaseRow, Reject, Upload, StageUpload, FailUpload, RetryUpload, projections,
     providerVars
<1>4. ASSUME NEW r \in Rows, RepeatMessage(r) \/ LoseRequest(r)
      PROVE  MessageKind
  BY <1>4, <1>i DEF RepeatMessage, LoseRequest, Remembered, rowVars, projections, providerVars
<1>5. ASSUME NEW r \in Rows, Answer(r)
      PROVE  MessageKind
  BY <1>5, <1>i DEF Answer, Confirm, Retry, Unsure, Fail, projections, providerVars
<1>6. ASSUME NEW r \in Rows, RecordAncestry(r)
      PROVE  MessageKind
  BY <1>6, <1>0 DEF RecordAncestry, rowVars, providerVars, IInv, WorkerInv
<1>7. ASSUME NEW r \in Rows, Reconcile(r)
      PROVE  MessageKind
  BY <1>7 DEF Reconcile, ReconcileByRetry, ReconcileByHistory, ReconcileInVain, projections,
     providerVars
<1> QED
  BY <1>1, <1>2, <1>3, <1>4, <1>5, <1>6, <1>7 DEF Next, Send, FollowUp

\* A new event has an item of its own: what was no part of a final answer stays none.
LEMMA PartStep ==
  ASSUME IInv, [Next]_vars, NEW r \in Rows, r <= last, ~ PartOfFinal(r)
  PROVE  ~ PartOfFinal(r)' /\ col'[r] = col[r]
<1>0. last \in 0 .. MaxRows /\ MaxRows \in Nat
  BY BoundsAssumption DEF IInv, TypeOK
<1>c. \A q \in 1 .. last : col'[q] = col[q]
  BY <1>0, ColumnsStep DEF IInv, Rows
<1>1. ASSUME NEW e \in Events, Ingest(e)
      PROVE  ~ PartOfFinal(r)'
  <2> DEFINE n == Len(UnitsOf(e))
  <2>1. n \in Nat
    BY EventsAssumption DEF UnitsOf, Unit
  <2>2. \A q \in last + 1 .. last + n : col'[q].item = e.item
    <3> SUFFICES ASSUME NEW q \in last + 1 .. last + n PROVE col'[q].item = e.item
      OBVIOUS
    <3>1. col'[q] = Columns(e, q - last)
      BY <1>0, <1>1, <2>1 DEF Ingest, Rows
    <3> QED
      BY <3>1 DEF Columns
  <2>3. col[r].item # e.item /\ last' = last + n
    BY <1>0, <1>1 DEF Ingest, Rows
  <2> QED
    BY <1>0, <1>c, <2>1, <2>2, <2>3 DEF PartOfFinal, Rows
<1>2. ASSUME ~ \E e \in Events : Ingest(e)
      PROVE  UNCHANGED last
  BY <1>2, MessageKinds DEF MessageKind, PostMessage, Project, Cleanup, CleanMessage,
     FinishCleanup, Calm, rowVars
<1> QED
  BY <1>0, <1>1, <1>2, <1>c DEF PartOfFinal, Rows

\* What is in the chat stays there, with what is said of it.
LEMMA ChatGrows ==
  ASSUME IInv, [Next]_vars, NEW p \in DOMAIN chat
  PROVE  /\ p \in DOMAIN chat' /\ chat'[p] = chat[p]
         /\ col'[chat[p]] = col[chat[p]]
         /\ ~ PartOfFinal(chat[p]) => ~ PartOfFinal(chat[p])'
<1>0. chat \in Seq(Rows) /\ last \in Nat
  BY BoundsAssumption DEF IInv, TypeOK
<1>1. p \in DOMAIN chat' /\ chat'[p] = chat[p]
  <2>1. ASSUME NEW r \in Rows, PostMessage(r)
        PROVE  p \in DOMAIN chat' /\ chat'[p] = chat[p]
    BY <1>0, <2>1, AppendProperties, LenProperties DEF PostMessage
  <2> QED
    BY <2>1, ChatStep DEF IInv
<1>2. chat[p] \in Rows /\ chat[p] <= last
  BY <1>0, ShownRows
<1> QED
  BY <1>1, <1>2, PartStep, ColumnsStep DEF IInv

\* A message whose turn has a visible final answer keeps it.
LEMMA CuedStays ==
  ASSUME IInv, [Next]_vars, NEW m \in DOMAIN chat, Cued(m)
  PROVE  Cued(m)'
<1>1. PICK c \in DOMAIN chat : SameTurn(chat[c], chat[m]) /\ col[chat[c]].op = "final"
  BY DEF Cued
<1> QED
  BY <1>1, ChatGrows DEF Cued, SameTurn
-----------------------------------------------------------------------------

\* Every step keeps the columns of the rows.
LEMMA ColumnsInvStep ==
  ASSUME IInv, ColumnsInv, [Next]_vars
  PROVE  ColumnsInv'
<1>0. last \in Nat
  BY BoundsAssumption DEF IInv, TypeOK
<1>1. ASSUME NEW e \in Events, Ingest(e)
      PROVE  ColumnsInv'
  <2> DEFINE n == Len(UnitsOf(e))
             cols == [r \in Rows |-> IF r \in last + 1 .. last + n
                                     THEN Columns(e, r - last) ELSE col[r]]
  <2>1. UnitsOf(e) \in Seq(Unit) /\ n \in Nat /\ DOMAIN UnitsOf(e) = 1 .. n
    <3>1. UnitsOf(e) \in Seq(Unit)
      <4>1. e.units \in Seq(Unit) /\ [body |-> Cue, uploads |-> 0] \in Unit
        BY EventsAssumption DEF Unit
      <4> QED
        BY <4>1, AppendProperties DEF UnitsOf
    <3> QED
      BY <3>1, LenProperties
  <2>2. \A i \in 1 .. n : Columns(e, i) \in Says
    BY <2>1 DEF Says
  <2>3. \A r \in last + 1 .. last + n : r - last \in 1 .. n
    BY <1>0, <2>1
  <2>4. cols \in [Rows -> Says]
    BY <2>2, <2>3 DEF ColumnsInv
  <2>5. col' = cols
    BY <1>1 DEF Ingest
  <2> QED
    BY <2>4, <2>5 DEF ColumnsInv
<1>2. ASSUME ~ \E e \in Events : Ingest(e)
      PROVE  ColumnsInv'
  BY <1>2, MessageKinds DEF MessageKind, PostMessage, Project, Cleanup, CleanMessage,
     FinishCleanup, Calm, rowVars, ColumnsInv
<1> QED
  BY <1>1, <1>2

\* Every answer the worker gets names a message of its own row.
LEMMA AnswerInvStep ==
  ASSUME IInv, AnswerInv, [Next]_vars
  PROVE  AnswerInv'
<1>0. /\ chat \in Seq(Rows) /\ posted \in [Rows -> 0 .. Len(chat)]
      /\ worker \in [pc : Threads, row : 0 .. MaxRows, msg : 0 .. MaxChat]
  BY DEF IInv, TypeOK
<1>n. \A m \in DOMAIN chat : m \in DOMAIN chat' /\ chat'[m] = chat[m]
  BY ChatGrows
<1>i. Idle.pc = "idle" /\ \A pc, r, m : /\ At(pc, r, m).pc = pc /\ At(pc, r, m).row = r
                                        /\ At(pc, r, m).msg = m
  BY DEF Idle, At
<1>1. ASSUME NEW e \in Events, Ingest(e)
      PROVE  AnswerInv'
  BY <1>1 DEF Ingest, AnswerInv, providerVars, projections
<1>2. ASSUME NEW r \in Rows, PostMessage(r)
      PROVE  AnswerInv'
  <2>1. Len(chat) + 1 \in DOMAIN chat' /\ chat'[Len(chat) + 1] = r
    BY <1>0, <1>2, AppendProperties, LenProperties DEF PostMessage
  <2> QED
    BY <1>0, <1>2, <1>i, <1>n, <2>1 DEF PostMessage, AnswerInv, projections
<1>3. ASSUME NEW r \in Rows, Project(r)
      PROVE  AnswerInv'
  BY <1>3, <1>i DEF Project, AnswerInv, rowVars, providerVars
<1>4. ASSUME NEW m \in Positions, Cleanup(m)
      PROVE  AnswerInv'
  <2>1. ASSUME NEW effect \in BOOLEAN, CleanMessage(m, effect)
        PROVE  AnswerInv'
    BY <1>i, <2>1 DEF CleanMessage, AnswerInv
  <2>2. ASSUME NEW outcome, FinishCleanup(m, outcome)
        PROVE  AnswerInv'
    BY <1>i, <2>2 DEF FinishCleanup, AnswerInv, providerVars
  <2> QED
    BY <1>4, <2>1, <2>2 DEF Cleanup
<1>5. ASSUME Calm
      PROVE  AnswerInv'
  <2>1. \A r \in Rows : posted'[r] # 0 => posted'[r] \in DOMAIN chat' /\ chat'[posted'[r]] = r
    BY <1>5 DEF Calm, AnswerInv
  <2>2. CASE worker' = worker
    BY <1>5, <2>1, <2>2 DEF Calm, AnswerInv
  <2>3. CASE worker'.pc \notin {"answer", "ancestry", "projection", "cleaning"}
    BY <2>1, <2>3 DEF AnswerInv
  <2>4. CASE worker'.pc = "answer" /\ worker'.msg = 0
    BY <2>1, <2>4 DEF AnswerInv
  <2>5. ASSUME NEW r \in Rows, posted[r] # 0, worker' = At("answer", r, posted[r])
        PROVE  AnswerInv'
    BY <1>i, <1>n, <2>1, <2>5 DEF AnswerInv
  <2>6. CASE /\ worker'.pc \in {"ancestry", "projection"}
             /\ worker.pc \in {"answer", "ancestry"} /\ worker.msg # 0
             /\ worker'.row = worker.row /\ worker'.msg = worker.msg
    BY <1>n, <2>1, <2>6 DEF AnswerInv
  <2> QED
    BY <1>5, <2>2, <2>3, <2>4, <2>5, <2>6 DEF Calm
<1> QED
  BY <1>1, <1>2, <1>3, <1>4, <1>5, MessageKinds DEF MessageKind
-----------------------------------------------------------------------------
(***************************************************************************)
(* The lifecycle of the process messages.                                  *)
(***************************************************************************)
\* The message of the row whose projection is written.
LEMMA ProjectedRow ==
  ASSUME IInv, AnswerInv, NEW r \in Rows, Project(r)
  PROVE  worker.msg \in DOMAIN chat /\ worker.msg \in Positions /\ chat[worker.msg] = r
<1>1. worker.msg \in DOMAIN chat /\ chat[worker.msg] = r
  BY DEF Project, AnswerInv
<1> QED
  BY <1>1, LenProperties, BoundsAssumption, SMTT(30) DEF IInv, TypeOK, Positions

\* A lifecycle is begun by the registration of a process message, and by nothing else.
LEMMA Registered ==
  ASSUME IInv, AnswerInv, ProcessInv, [Next]_vars,
         NEW m \in Positions, life[m] = "none", life'[m] # "none"
  PROVE  m \in DOMAIN chat /\ col[chat[m]].op = "commentary" /\ ~ PartOfFinal(chat[m])
<1>0. life \in [Positions -> Lifecycles]
  BY DEF IInv, TypeOK
<1>1. ASSUME NEW r \in Rows, Project(r)
      PROVE  m = worker.msg /\ col[r].op = "commentary" /\ ~ PartOfFinal(r)
  <2>1. CASE col[r].op = "final"
    BY <1>0, <1>1, <2>1 DEF Project, TransientOf
  <2>2. CASE col[r].op # "final"
    BY <1>0, <1>1, <2>2 DEF Project
  <2> QED
    BY <2>1, <2>2
<1>2. ASSUME NEW n \in Positions, Cleanup(n)
      PROVE  FALSE
  <2>1. ASSUME NEW effect \in BOOLEAN, CleanMessage(n, effect)
        PROVE  FALSE
    BY <1>0, <2>1 DEF CleanMessage
  <2>2. ASSUME NEW outcome, FinishCleanup(n, outcome)
        PROVE  FALSE
    <3>1. life[n] = "cleanup_queued"
      BY <2>2 DEF FinishCleanup, AnswerInv, At
    <3> QED
      BY <1>0, <2>2, <3>1 DEF FinishCleanup
  <2> QED
    BY <1>2, <2>1, <2>2 DEF Cleanup
<1>3. PICK r \in Rows : Project(r)
  BY <1>2, MessageKinds DEF MessageKind, Ingest, PostMessage, Calm, projections
<1> QED
  BY <1>1, <1>3, ProjectedRow

\* Only the cleaner hides a message, and one that is queued for it.
LEMMA HiddenQueued ==
  ASSUME IInv, [Next]_vars, NEW m \in gone', m \notin gone
  PROVE  /\ m \in Positions /\ life[m] = "cleanup_queued"
         /\ gone' = gone \cup {m} /\ UNCHANGED <<col, last, state, chat>>
<1>1. gone' # gone
  OBVIOUS
<1>2. PICK n \in Positions : Cleanup(n)
  BY <1>1, MessageKinds DEF MessageKind, Ingest, PostMessage, Project, Calm, providerVars
<1>3. PICK effect \in BOOLEAN : CleanMessage(n, effect)
  BY <1>1, <1>2 DEF Cleanup, FinishCleanup, providerVars
<1> QED
  BY <1>1, <1>3 DEF CleanMessage, rowVars

\* A message that has a lifecycle keeps it.
LEMMA LifeStays ==
  ASSUME IInv, AnswerInv, [Next]_vars, NEW m \in Positions, life[m] # "none"
  PROVE  life'[m] # "none"
<1>0. life \in [Positions -> Lifecycles]
  BY DEF IInv, TypeOK
<1>1. ASSUME NEW r \in Rows, Project(r)
      PROVE  life'[m] # "none"
  <2>1. CASE col[r].op = "final"
    BY <1>0, <1>1, <2>1 DEF Project
  <2>2. CASE col[r].op # "final"
    BY <1>0, <1>1, <2>2 DEF Project
  <2> QED
    BY <2>1, <2>2
<1>2. ASSUME NEW n \in Positions, Cleanup(n)
      PROVE  life'[m] # "none"
  BY <1>0, <1>2 DEF Cleanup, CleanMessage, FinishCleanup
<1> QED
  BY <1>1, <1>2, MessageKinds DEF MessageKind, Ingest, PostMessage, Calm, projections

\* What has a lifecycle is commentary in the chat, and no part of a final answer.
LEMMA ProcessInvStep ==
  ASSUME IInv, AnswerInv, ProcessInv, [Next]_vars
  PROVE  ProcessInv'
<1>1. ASSUME NEW m \in Positions, life'[m] # "none"
      PROVE  /\ m \in DOMAIN chat' /\ col'[chat'[m]].op = "commentary"
             /\ ~ PartOfFinal(chat[m])' /\ chat'[m] = chat[m]
  <2>1. m \in DOMAIN chat /\ col[chat[m]].op = "commentary" /\ ~ PartOfFinal(chat[m])
    BY <1>1, Registered DEF ProcessInv
  <2> QED
    BY <2>1, ChatGrows
<1>2. ASSUME NEW m \in gone'
      PROVE  life'[m] # "none"
  <2>1. m \in Positions /\ life[m] # "none"
    BY HiddenQueued DEF ProcessInv, IInv, TypeOK
  <2> QED
    BY <2>1, LifeStays
<1> QED
  BY <1>1, <1>2 DEF ProcessInv, PartOfFinal

\* A message leaves "transient_active" by the cue of its turn.
LEMMA CueStep ==
  ASSUME IInv, AnswerInv, ProcessInv, [Next]_vars,
         NEW m \in Positions, life[m] \in {"none", "transient_active"},
         life'[m] \notin {"none", "transient_active"}
  PROVE  m \in DOMAIN chat /\ Cued(m)
<1>0. life \in [Positions -> Lifecycles]
  BY DEF IInv, TypeOK
<1>1. ASSUME NEW n \in Positions, Cleanup(n)
      PROVE  FALSE
  <2>1. ASSUME NEW effect \in BOOLEAN, CleanMessage(n, effect)
        PROVE  FALSE
    BY <1>0, <2>1 DEF CleanMessage
  <2>2. ASSUME NEW outcome, FinishCleanup(n, outcome)
        PROVE  FALSE
    <3>1. life[n] = "cleanup_queued"
      BY <2>2 DEF FinishCleanup, AnswerInv, At
    <3> QED
      BY <1>0, <2>2, <3>1 DEF FinishCleanup
  <2> QED
    BY <1>1, <2>1, <2>2 DEF Cleanup
<1>2. PICK r \in Rows : Project(r)
  BY <1>1, MessageKinds DEF MessageKind, Ingest, PostMessage, Calm, projections
<1>3. CASE col[r].op = "final"
  <2>1. life[m] = "transient_active" /\ col[chat[m]].turn = col[r].turn
    BY <1>0, <1>2, <1>3 DEF Project, TransientOf
  <2>2. worker.msg \in DOMAIN chat /\ chat[worker.msg] = r
    BY <1>2, ProjectedRow
  <2> QED
    BY <1>3, <2>1, <2>2 DEF Cued, SameTurn, ProcessInv
<1>4. CASE col[r].op # "final"
  BY <1>0, <1>2, <1>4 DEF Project
<1> QED
  BY <1>3, <1>4

\* What is queued for cleanup has a visible final answer in its turn.
LEMMA CueInvStep ==
  ASSUME IInv, AnswerInv, ProcessInv, CueInv, [Next]_vars
  PROVE  CueInv'
<1>0. life \in [Positions -> Lifecycles]
  BY DEF IInv, TypeOK
<1> SUFFICES ASSUME NEW m \in Positions, life'[m] \notin {"none", "transient_active"}
             PROVE  Cued(m)'
  BY DEF CueInv
<1>1. m \in DOMAIN chat /\ Cued(m)
  BY <1>0, CueStep DEF CueInv, ProcessInv
<1> QED
  BY <1>1, CuedStays
-----------------------------------------------------------------------------

\* The invariant of the refinement holds at first.
LEMMA InitDInv == Init => DInv
<1> SUFFICES ASSUME Init PROVE DInv
  OBVIOUS
<1>1. ColumnsInv
  BY DEF Init, ColumnsInv, Says
<1>2. AnswerInv /\ ProcessInv /\ CueInv
  BY DEF Init, AnswerInv, ProcessInv, CueInv, Idle
<1> QED
  BY <1>1, <1>2, InitInv DEF DInv

\* Every step keeps it.
LEMMA NextDInv == DInv /\ [Next]_vars => DInv'
<1> SUFFICES ASSUME DInv, [Next]_vars PROVE DInv'
  OBVIOUS
<1>1. IInv'
  BY TypeStep, RowsStep, WorkerStep, TurnStep, ChatInvStep, VisibleStep DEF DInv, IInv
<1> QED
  BY <1>1, ColumnsInvStep, AnswerInvStep, ProcessInvStep, CueInvStep DEF DInv
-----------------------------------------------------------------------------
(***************************************************************************)
(* The refinement: every step is one of Delivery's, or none.               *)
(***************************************************************************)
SettledRows == {r \in Rows : Settled(r)}

\* Only rows that were queued are settled.
LEMMA SettledAre == IInv => SettledRows \subseteq 1 .. last
<1> SUFFICES ASSUME IInv, NEW r \in Rows, Settled(r) PROVE r \in 1 .. last
  BY DEF SettledRows
<1>1. last \in 0 .. MaxRows /\ (state[r] = "absent" <=> r > last)
  BY DEF IInv, TypeOK
<1>2. state[r] # "absent"
  BY DEF Settled, SettledStates
<1> QED
  BY <1>1, <1>2, BoundsAssumption DEF Rows

\* A settled row stays settled.
LEMMA SettledGrows ==
  ASSUME IInv, [Next]_vars
  PROVE  SettledRows \subseteq SettledRows'
BY SettledStep DEF IInv, SettledRows, Settled

\* The outbox begins as Delivery does.
LEMMA InitPromise == Init => Promise!DeliveryInit
<1> SUFFICES ASSUME Init PROVE Promise!DeliveryInit
  OBVIOUS
<1>1. col \in [Rows -> Says] /\ last = 0 /\ chat = << >> /\ gone = {}
  BY DEF Init, Says
<1>2. {r \in Rows : Settled(r)} = {}
  BY DEF Init, Settled, SettledStates
<1> QED
  BY <1>1, <1>2 DEF Promise!DeliveryInit, Says

\* A row that is posted may be shown.
LEMMA ShowStep ==
  ASSUME DInv, NEW r \in Rows, PostMessage(r)
  PROVE  Promise!Show(r)
<1>1. state[r] = "leased" /\ Started(r)
  BY PostFacts DEF DInv
<1>2. r \in 1 .. last /\ r \notin SettledRows
  <2>1. last \in 0 .. MaxRows /\ ~ r > last
    BY <1>1 DEF DInv, IInv, TypeOK
  <2> QED
    BY <1>1, <2>1, BoundsAssumption DEF SettledRows, Settled, SettledStates, Rows
<1>3. \A q \in Rows : q < r /\ SameTurn(q, r) => q \in SettledRows
  BY <1>1 DEF DInv, IInv, TurnInv, SettledRows
<1>4. chat' = Append(chat, r) /\ UNCHANGED <<last, col, gone>> /\ SettledRows' = SettledRows
  BY DEF PostMessage, rowVars, SettledRows, Settled
<1> QED
  BY <1>2, <1>3, <1>4 DEF Promise!Show, Promise!Open, Promise!EarlierSettled, Promise!SameTurn,
     SameTurn, SettledRows

\* A message that is removed may be hidden.
LEMMA HideStep ==
  ASSUME DInv, [Next]_vars, NEW m \in gone', m \notin gone
  PROVE  m \in DOMAIN chat /\ Promise!Hide(m)
<1>1. /\ m \in Positions /\ life[m] = "cleanup_queued" /\ gone' = gone \cup {m}
      /\ UNCHANGED <<col, last, state, chat>>
  BY HiddenQueued DEF DInv
<1>2. m \in DOMAIN chat /\ ~ PartOfFinal(chat[m]) /\ Cued(m)
  BY <1>1 DEF DInv, ProcessInv, CueInv
<1>3. PICK c \in DOMAIN chat : SameTurn(chat[c], chat[m]) /\ col[chat[c]].op = "final"
  BY <1>2 DEF Cued
<1>4. c \notin gone
  BY <1>3 DEF DInv, IInv, TypeOK, ProcessInv
<1>5. SettledRows' = SettledRows
  BY <1>1 DEF SettledRows, Settled
<1> QED
  BY <1>1, <1>2, <1>3, <1>4, <1>5 DEF Promise!Hide, Promise!SameTurn, PartOfFinal, SameTurn,
     SettledRows

\* The rows of an event are queued in the order Delivery asks for, or were there before.
LEMMA QueueStep ==
  ASSUME DInv, DInv', NEW e \in Events, Ingest(e)
  PROVE  Promise!Queue \/ (UNCHANGED <<last, col, chat, gone>> /\ SettledRows' = SettledRows)
<1>0. last \in Nat /\ last' \in 0 .. MaxRows /\ MaxRows \in Nat
  BY BoundsAssumption DEF DInv, IInv, TypeOK
<1> DEFINE n == Len(UnitsOf(e))
<1>1. n \in Nat
  BY EventsAssumption DEF UnitsOf, Unit
<1>2. UNCHANGED <<chat, gone>>
  BY DEF Ingest, providerVars
<1>3. \A r \in Rows : r <= last => col'[r] = col[r]
  BY <1>0, <1>1 DEF Ingest
<1>4. SettledRows' = SettledRows
  <2>1. \A r \in Rows : r \in last + 1 .. last + n => state[r] = "absent" /\ state'[r] = "pending"
    BY <1>0, <1>1 DEF Ingest, DInv, IInv, TypeOK, Rows
  <2>2. \A r \in Rows : r \notin last + 1 .. last + n => state'[r] = state[r]
    BY DEF Ingest
  <2> QED
    BY <2>1, <2>2 DEF SettledRows, Settled, SettledStates
<1>5. CASE n = 0
  <2>1. last' = last /\ col' = [r \in Rows |-> col[r]]
    BY <1>0, <1>5 DEF Ingest
  <2> QED
    BY <1>2, <1>4, <2>1 DEF DInv, ColumnsInv
<1>6. CASE n > 0
  <2>1. last' > last /\ last' \in Rows
    BY <1>0, <1>6 DEF Ingest, Rows
  <2>2. col' \in [Rows -> Says]
    BY DEF DInv, ColumnsInv
  <2>3. \A r \in 1 .. last : col'[r] = col[r]
    BY <1>0, <1>3, <2>1 DEF Rows
  <2> QED
    BY <1>2, <1>4, <2>1, <2>2, <2>3 DEF Promise!Queue, Says, SettledRows
<1> QED
  BY <1>1, <1>5, <1>6

\* What neither queues, shows nor hides settles rows, or nothing.
LEMMA SettleStep ==
  ASSUME DInv, DInv', [Next]_vars, UNCHANGED <<last, col, chat, gone>>
  PROVE  Promise!Settle
<1>1. SettledRows \subseteq SettledRows' /\ SettledRows' \subseteq 1 .. last
  <2>1. IInv' => (SettledRows \subseteq 1 .. last)'
    BY SettledAre, PTL
  <2>2. SettledRows \subseteq SettledRows'
    BY SettledGrows DEF DInv
  <2>3. last' = last /\ IInv'
    BY DEF DInv
  <2> QED
    BY <2>1, <2>2, <2>3
<1> QED
  BY <1>1 DEF Promise!Settle, SettledRows

\* Every step of the outbox is one of Delivery, or none.
LEMMA PromiseStep ==
  ASSUME DInv, DInv', [Next]_vars
  PROVE  [Promise!DeliveryNext]_(Promise!deliveryVars)
<1>1. ASSUME NEW e \in Events, Ingest(e)
      PROVE  [Promise!DeliveryNext]_(Promise!deliveryVars)
  BY <1>1, QueueStep DEF Promise!DeliveryNext, Promise!deliveryVars, SettledRows
<1>2. ASSUME NEW r \in Rows, PostMessage(r)
      PROVE  [Promise!DeliveryNext]_(Promise!deliveryVars)
  BY <1>2, ShowStep DEF Promise!DeliveryNext
<1>3. ASSUME UNCHANGED <<last, col, chat, gone>>
      PROVE  [Promise!DeliveryNext]_(Promise!deliveryVars)
  BY <1>3, SettleStep DEF Promise!DeliveryNext
<1>4. ASSUME NEW m \in Positions, Cleanup(m)
      PROVE  [Promise!DeliveryNext]_(Promise!deliveryVars)
  <2>1. UNCHANGED <<last, col, chat>> /\ gone \subseteq gone'
    BY <1>4 DEF Cleanup, CleanMessage, FinishCleanup, rowVars, providerVars
  <2>2. ASSUME NEW h \in gone', h \notin gone
        PROVE  [Promise!DeliveryNext]_(Promise!deliveryVars)
    BY <2>2, HideStep DEF Promise!DeliveryNext
  <2> QED
    BY <1>3, <2>1, <2>2
<1>5. ASSUME Calm \/ \E r \in Rows : Project(r)
      PROVE  UNCHANGED <<last, col, chat, gone>>
  BY <1>5 DEF Calm, Project, rowVars, providerVars
<1> QED
  BY <1>1, <1>2, <1>3, <1>4, <1>5, MessageKinds DEF MessageKind, DInv

\* The outbox keeps the promise of Delivery, for every set of events and every bound: only a
\* row whose turn has come is shown, a settled row is never shown nor unsettled, and a
\* message is hidden only when it is no part of a final answer and the cue of its turn stays.
THEOREM ImplementsDelivery == Spec => DeliveryPromise
<1>1. DInv /\ DInv' /\ [Next]_vars => [Promise!DeliveryNext]_(Promise!deliveryVars)
  BY PromiseStep
<1> QED
  BY InitDInv, NextDInv, InitPromise, <1>1, PTL DEF Spec, DeliveryPromise,
     Promise!DeliverySpec
=============================================================================
