---------------------------- MODULE UplinkProofs ----------------------------
(***************************************************************************)
(* Proofs about Uplink: its types, and what its three parts keep.          *)
(*                                                                         *)
(* The rollout, the connection and the bridge are sorted out first: a      *)
(* step of the system is one of a few kinds for the rollout (RolloutStep)  *)
(* and for the connection (ConnectionStep), and what one part keeps is     *)
(* proved once per kind.  A batch of the reader is taken event by event    *)
(* (Folding).                                                              *)
(*                                                                         *)
(* AskedInv: a request without a response has its waiter in place, or is   *)
(* remembered as expired, or is forgotten; hence only a forgotten one can  *)
(* end the connection.  ReadInv: in the first file the cursor stands at a  *)
(* line with the record of that line; hence a source is refused only       *)
(* after a replacement, or for an empty line that is decoded again.        *)
(***************************************************************************)
EXTENDS Uplink, SequenceTheorems, FiniteSetTheorems, WellFoundedInduction, TLAPS

-----------------------------------------------------------------------------
(* Numbers, sequences and sets.                                            *)

\* A set of numbers has a least one.
LEMMA LeastOf ==
  ASSUME NEW S \in SUBSET Nat, S # {}
  PROVE  \E n \in S : \A k \in S : n <= k
<1> DEFINE R == {ss \in Nat \X Nat : ss[1] < ss[2]}
<1>1. IsWellFoundedOn(R, Nat)
  BY NatLessThanWellFounded DEF OpToRel
<1> HIDE DEF R
<1>2. PICK n \in S : \A k \in S : ~ (<<k, n>> \in R)
  BY <1>1, WFMin
<1>3. ASSUME NEW k \in S PROVE n <= k
  <2>1. <<k, n>> \notin R
    BY <1>2
  <2>2. ~(k < n)
    BY <2>1, k \in Nat, n \in Nat DEF R
  <2> QED BY <2>2, k \in Nat, n \in Nat
<1> QED BY <1>3

\* Induction, for sets.
LEMMA EveryNumber ==
  ASSUME NEW S, 0 \in S, \A n \in Nat : n \in S => n + 1 \in S
  PROVE  \A n \in Nat : n \in S
<1> SUFFICES ASSUME Nat \ S # {} PROVE FALSE
  OBVIOUS
<1>1. PICK n \in Nat \ S : \A k \in Nat \ S : n <= k
  <2> DEFINE T == Nat \ S
  <2>1. T \in SUBSET Nat /\ T # {}
    OBVIOUS
  <2> HIDE DEF T
  <2>2. \E n \in T : \A k \in T : n <= k
    BY <2>1, LeastOf
  <2> QED BY <2>2 DEF T
<1>2. n # 0 /\ n - 1 \in Nat /\ n - 1 < n
  BY <1>1
<1>3. n - 1 \in S
  BY <1>1, <1>2
<1>4. (n - 1) + 1 \in S
  BY <1>2, <1>3
<1> QED BY <1>1, <1>2, <1>4

\* A bounded set of numbers has a greatest one, and Max is it.
LEMMA GreatestOf ==
  ASSUME NEW S \in SUBSET Nat, S # {}, NEW n \in Nat, \A k \in S : k <= n
  PROVE  Max(S) \in S /\ \A k \in S : k <= Max(S)
<1> DEFINE T == {n - k : k \in S}
<1>1. T \in SUBSET Nat /\ T # {}
  <2>1. ASSUME NEW k \in S PROVE n - k \in Nat
    BY k \in Nat, k <= n
  <2> QED BY <2>1
<1>2. PICK d \in T : \A e \in T : d <= e
  <2> HIDE DEF T
  <2> QED BY <1>1, LeastOf
<1>3. PICK x \in S : d = n - x
  OBVIOUS
<1>4. \A k \in S : x >= k
  BY <1>2, <1>3
<1>5. \E y \in S : \A k \in S : y >= k
  BY <1>4
<1>6. Max(S) \in S /\ \A k \in S : Max(S) >= k
  BY <1>5 DEF Max
<1> QED BY <1>6

\* A batch is taken event by event: what holds of the rows before it, and is
\* handed on by each event, holds of the rows after it.
LEMMA Folding ==
  ASSUME NEW events, Len(events) \in Nat, NEW G,
         [rec |-> record, tomb |-> tombstone, out |-> mirrored] \in G[0],
         \A k \in 1..Len(events) : \A acc \in G[k - 1] : IngestEvent(acc, events[k]) \in G[k]
  PROVE  Ingested(events) \subseteq G[Len(events)]
<1> DEFINE base == {[rec |-> record, tomb |-> tombstone, out |-> mirrored]}
           step(f, k) == IF k = 0 THEN base
                         ELSE {IngestEvent(acc, events[k]) : acc \in f[k - 1]}
           Fold(f, n) == f = [k \in 0..n |-> step(f, k)]
           S == {n \in Nat : \E f : Fold(f, n)}
<1>1. 0 \in S
  <2> DEFINE f == [k \in 0..0 |-> base]
  <2>1. [k \in 0..0 |-> step(f, k)] = f
    OBVIOUS
  <2> QED BY <2>1
<1>2. ASSUME NEW n \in Nat, n \in S PROVE n + 1 \in S
  <2>1. PICK f : Fold(f, n)
    BY <1>2
  <2> DEFINE g == [k \in 0..(n + 1) |-> IF k = n + 1 THEN step(f, n + 1) ELSE f[k]]
  <2>2. \A k \in 0..n : g[k] = f[k] /\ f[k] = step(f, k)
    <3> HIDE DEF step
    <3> QED BY <2>1, SMTT(30)
  <2>3. \A k \in 0..(n + 1) : step(g, k) = step(f, k)
    <3> SUFFICES ASSUME NEW k \in 0..(n + 1), k # 0 PROVE g[k - 1] = f[k - 1]
      OBVIOUS
    <3> k - 1 \in 0..n
      OBVIOUS
    <3> QED BY <2>2
  <2>4. \A k \in 0..(n + 1) : g[k] = step(g, k)
    <3> TAKE k \in 0..(n + 1)
    <3>1. CASE k = n + 1
      <4> HIDE DEF step
      <4> QED BY <3>1, <2>3
    <3>2. CASE k \in 0..n
      <4> HIDE DEF step, g
      <4> QED BY <3>2, <2>2, <2>3
    <3> QED BY <3>1, <3>2
  <2>5. g = [k \in 0..(n + 1) |-> step(g, k)]
    <3> HIDE DEF step
    <3> QED BY <2>4
  <2>6. \E h : Fold(h, n + 1)
    <3> HIDE DEF g, step
    <3> QED BY <2>5
  <2> HIDE DEF Fold
  <2> QED BY <2>6
<1>3. Len(events) \in S
  <2> HIDE DEF S
  <2> QED BY <1>1, <1>2, EveryNumber
<1> DEFINE after == CHOOSE f : Fold(f, Len(events))
<1>4. Fold(after, Len(events))
  BY <1>3
<1>5. Ingested(events) = after[Len(events)]
  BY DEF Ingested
<1> HIDE DEF after
<1> DEFINE T == {n \in Nat : n <= Len(events) => after[n] \subseteq G[n]}
<1>6. 0 \in T
  <2>1. after[0] = base
    BY <1>4
  <2> QED BY <2>1
<1>7. ASSUME NEW n \in Nat, n \in T PROVE n + 1 \in T
  <2> SUFFICES ASSUME n + 1 <= Len(events) PROVE after[n + 1] \subseteq G[n + 1]
    OBVIOUS
  <2>1. after[n + 1] = {IngestEvent(acc, events[n + 1]) : acc \in after[n]}
    <3>1. after[n + 1] = step(after, n + 1)
      <4> HIDE DEF step
      <4> QED BY <1>4
    <3> QED BY <3>1
  <2>2. after[n] \subseteq G[n]
    BY <1>7
  <2> QED BY <2>1, <2>2
<1>8. Len(events) \in T
  <2> HIDE DEF T
  <2> QED BY <1>6, <1>7, EveryNumber
<1> QED BY <1>5, <1>8

-----------------------------------------------------------------------------
(* The types of the variables.                                             *)

Owners == Messages \cup {"local", "codex"}
LineSet == [type : Types, turn : Nat, item : Nat, by : Owners]
RecordSet ==
  [state : {"none", "prepared", "bytes_sending", "outcome_unknown", "accepted", "completed"},
   request : {"-", "rpc", "ui", "submitted"}, made : Nat, turn : Nat, item : Nat]
ItemSet == [item : Nat, turn : Nat]
CallSet ==
  [who : Callers \cup {"none"}, msg : Messages \cup {"none"}, nth : Nat,
   method : {"none", "stdout closed", "requirements", "add", "list", "resume", "read"}]
WaitSet ==
  [stage : {"idle", "waiting", "has", "empty", "expired"}, call : CallSet,
   reply : {"none", "ok", "error", "found", "absent", "timeout"}]
MainSet ==
  [pc : {"down", "read", "drain", "resume", "input", "row", "requirements", "add", "list",
         "snapshot", "submit", "relayed", "confirm"},
   row : Messages \cup {"none"}, rest : SUBSET Messages, size : Nat, relaySize : Nat]

RolloutTypes ==
  /\ disk \in [nth : Nat, turns : Nat, id : Nat, lines : Seq(LineSet), tail : LineSet]
  /\ cursor \in [id : Nat, at : Nat, last : LineSet]
  /\ cache \in [id : Nat, at : Nat, context : Nat, active : SUBSET Nat]
  /\ written \in 0..MaxItems /\ since \in 0..written

ConnectionTypes ==
  /\ asked \in SUBSET CallSet /\ served \in SUBSET CallSet /\ expired \in SUBSET CallSet
  /\ waiting \in [Callers -> WaitSet]
  /\ timeouts \in Seq(CallSet)
  /\ failure \in CallSet

BridgeTypes ==
  /\ mode \in Modes /\ starts \in 1..MaxStarts
  /\ main \in MainSet
  /\ inbox \in Seq(Messages)
  /\ routing \in [Messages -> {"absent", "routed", "rejected"}]
  /\ age \in [Messages -> 0..2]
  /\ held \in SUBSET Messages
  /\ record \in [Messages -> RecordSet]
  /\ tombstone \in SUBSET Messages
  /\ mirrored \in SUBSET ItemSet

CodexTypes ==
  /\ queue \in Seq(Messages \cup {"local"})
  /\ notes \in Seq([turn : Nat, failed : BOOLEAN])
  /\ desk \in SUBSET Messages
  /\ relay \in [log : Seq(Messages), done : Nat, inbox : Seq(Messages)]
  /\ relay.done <= Len(relay.log)

\* The last line: what a record without its newline is, and its item.
TailInv ==
  /\ disk.tail = NoLine \/ disk.tail.type \in {"user", "assistant"}
  /\ Visible(disk.tail) => disk.tail.item = written /\ written > 0
  /\ \A i \in DOMAIN disk.lines : disk.lines[i].type # "none"

\* The file: numbered, and its identity not above its number.
FileInv ==
  /\ disk.id \in 1..disk.nth /\ disk.nth <= MaxFiles
  /\ cursor.id <= disk.id

\* Who is in the inbox: every message with a row, a turn to come or a record.
InboxInv ==
  /\ \A m \in Messages : routing[m] # "absent" => m \in ToSet(inbox)
  /\ \A m \in Messages : record[m] # NoRecord => m \in ToSet(inbox)
  /\ main.rest \subseteq ToSet(inbox)
  /\ main.pc = "row" => main.rest # {}
  /\ main.pc \in {"requirements", "add", "list", "snapshot", "submit", "relayed", "confirm"} =>
       main.row \in ToSet(inbox)

\* Where the main loop waits for a response.
WaitInv ==
  waiting["main"] # Idle => main.pc \in {"requirements", "add", "list", "resume"}

\* A submission names its message.
CallInv == \A call \in asked : call.method = "add" => call.msg \in Messages

TypeInv ==
  /\ RolloutTypes /\ ConnectionTypes /\ BridgeTypes /\ CodexTypes
  /\ TailInv /\ FileInv /\ InboxInv /\ WaitInv /\ CallInv

\* What a step does to the rollout and its reader, and to the connection.
RolloutStep ==
  \/ \E by \in Messages \cup {"local"}, partial \in BOOLEAN : WriteUser(by, partial)
  \/ \E partial \in BOOLEAN : WriteAssistant(partial)
  \/ EndTurn \/ CompleteLine
  \/ mode = "observe" /\ (WriteBlank \/ ReplaceFile)
  \/ At("read") /\ Checkpoint
  \/ At("read") /\ cursor # NoCursor /\ ~Refused /\ Commit(Batch(cursor.at))
  \/ ForgetCache \/ UNCHANGED rolloutVars

ConnectionStep ==
  \/ \E c \in Callers, method \in {"requirements", "add", "list", "resume", "read"},
        msg \in Messages \cup {"none"} :
          (method = "add" => msg \in Messages) /\ Request(c, method, msg)
  \/ \E call \in asked : \/ Serve(call) \/ DropLate(call) \/ RejectAnswer(call)
                         \/ \E reply \in Replies(call) : Answer(call, reply)
  \/ CloseOutput
  \/ \E c \in Callers : \/ TimeOut(c) \/ Expire(c)
                        \/ /\ Returned(c) /\ Leave(c)
                           /\ UNCHANGED <<asked, served, expired, timeouts, failure>>
  \/ Reconnect \/ UNCHANGED connectionVars

\* A step of the system is one of these for the rollout.
LEMMA RolloutSteps ==
  ASSUME BridgeTypes, CodexTypes, [Next]_vars
  PROVE  RolloutStep
<1> USE DEF RolloutStep
<1>1. CASE UNCHANGED vars
  BY <1>1 DEF vars
<1>2. CASE Activate
  BY <1>2 DEF Activate
<1>3. CASE Ingest
  BY <1>3 DEF Ingest
<1>4. CASE RefuseSource \/ ResumeRaises \/ Crash
  BY <1>4 DEF RefuseSource, ResumeRaises, Crash, Die
<1>5. CASE TakeQueued
  <2>1. Head(queue) \in Messages \cup {"local"}
    BY <1>5 DEF TakeQueued, CodexTypes
  <2> QED BY <1>5, <2>1 DEF TakeQueued, Partial
<1>6. CASE FinishTurn \/ QueueLocal \/ TakeInstruction \/ Enqueue
  BY <1>6 DEF FinishTurn, QueueLocal, TakeInstruction, Enqueue
<1>7. CASE Writes
  BY <1>7 DEF Writes, Partial
<1>8. CASE TakeSubmission
  BY <1>8 DEF TakeSubmission, Partial, CodexTypes
<1>9. CASE Delegate
  <2>1. relay.log[relay.done + 1] \in Messages
    BY <1>9 DEF Delegate, CodexTypes
  <2> QED BY <1>9, <2>1 DEF Delegate, Partial
<1>10. CASE Select \/ Row \/ Start \/ Time \/ \E m \in Messages : Receive(m)
  BY <1>10 DEF Select, Row, Start, Time, GrowOld, Release, Receive
<1>11. CASE AppServerStep
  BY <1>4, <1>11 DEF AppServerStep, AskRequirements, NoRequirements, GotRequirements, AskAdd,
     NoAdd, GotAdd, AskList, NoList, GotList, DrainNote, Drained, AskResume, GotResume
<1>12. CASE DesktopStep
  BY <1>12 DEF DesktopStep, Snapshot, Submit, FindRelay, MissRelay, FindTurn, GiveUp
<1>13. CASE Respond \/ EndOfOutput \/ Impatience \/ AskTitle \/ GotTitle
  BY <1>13 DEF Respond, EndOfOutput, Impatience, AskTitle, GotTitle
<1> QED
  BY <1>1, <1>2, <1>3, <1>4, <1>5, <1>6, <1>7, <1>8, <1>9, <1>10, <1>11, <1>12, <1>13
  DEF Next, MainStep, CodexStep

\* And one of these for the connection.
LEMMA ConnectionSteps ==
  ASSUME BridgeTypes, InboxInv, [Next]_vars
  PROVE  ConnectionStep
<1> USE DEF ConnectionStep
<1> row \in Messages \cup {"none"} /\ {"main", "title"} = Callers
  BY UplinkAssumption DEF BridgeTypes, MainSet, row
<1>1. CASE UNCHANGED vars
  BY <1>1 DEF vars
<1>2. CASE AskRequirements \/ AskAdd \/ AskList \/ AskResume \/ AskTitle
  <2>1. AskAdd => row \in Messages
    BY DEF AskAdd, At, row, InboxInv, ToSet, BridgeTypes
  <2> QED BY <1>2, <2>1 DEF AskRequirements, AskAdd, AskList, AskResume, AskTitle
<1>3. CASE GotRequirements \/ GotAdd \/ GotList \/ GotResume \/ GotTitle
  BY <1>3 DEF GotRequirements, GotAdd, GotList, GotResume, GotTitle
<1>4. CASE RefuseSource \/ ResumeRaises \/ Crash
  BY <1>4 DEF RefuseSource, ResumeRaises, Crash, Die
<1>5. CASE Enqueue \/ Respond \/ EndOfOutput \/ Impatience
  BY <1>5 DEF Enqueue, Respond, EndOfOutput, Impatience
<1>6. CASE NoRequirements \/ NoAdd \/ NoList \/ DrainNote \/ Drained
  BY <1>6 DEF NoRequirements, NoAdd, NoList, DrainNote, Drained
<1>7. CASE DesktopStep
  BY <1>7 DEF DesktopStep, Snapshot, Submit, FindRelay, MissRelay, FindTurn, GiveUp
<1>8. CASE Activate \/ Ingest \/ Select \/ Row \/ Start \/ Time \/ \E m \in Messages : Receive(m)
  BY <1>8 DEF Activate, Ingest, Select, Row, Start, Time, GrowOld, Release, Receive
<1>9. CASE TakeQueued \/ FinishTurn \/ Writes \/ QueueLocal \/ TakeSubmission \/ TakeInstruction
           \/ Delegate
  BY <1>9 DEF TakeQueued, FinishTurn, Writes, QueueLocal, TakeSubmission, TakeInstruction, Delegate
<1> QED
  BY <1>1, <1>2, <1>3, <1>4, <1>5, <1>6, <1>7, <1>8, <1>9
  DEF Next, MainStep, CodexStep, AppServerStep

-----------------------------------------------------------------------------
(* The connection.                                                         *)

\* The connection keeps its types.
LEMMA ConnectionTyped ==
  ASSUME ConnectionTypes, ConnectionStep
  PROVE  ConnectionTypes'
<1> USE DEF ConnectionTypes
<1> NoCall \in CallSet /\ Lost \in CallSet /\ Idle \in WaitSet
  BY DEF NoCall, Lost, Idle, CallSet, WaitSet
<1>1. ASSUME NEW c \in Callers, NEW msg \in Messages \cup {"none"},
             NEW method \in {"requirements", "add", "list", "resume", "read"},
             Request(c, method, msg)
      PROVE  ConnectionTypes'
  <2>1. Call(c, method, msg) \in CallSet
    <3>1. Len(timeouts) \in Nat
      OBVIOUS
    <3> QED BY <3>1 DEF Call, CallSet
  <2>2. [stage |-> "waiting", call |-> Call(c, method, msg), reply |-> "none"] \in WaitSet
    BY <2>1 DEF WaitSet
  <2> QED BY <1>1, <2>1, <2>2 DEF Request
<1>2. ASSUME NEW call \in asked, Serve(call) \/ DropLate(call) \/ RejectAnswer(call)
      PROVE  ConnectionTypes'
  BY <1>2 DEF Serve, DropLate, RejectAnswer, Resolve
<1>3. ASSUME NEW call \in asked, NEW reply \in Replies(call), Answer(call, reply)
      PROVE  ConnectionTypes'
  <2>1. reply \in {"ok", "error", "found", "absent"}
    BY DEF Replies
  <2>2. PICK c \in Callers :
          waiting' = [waiting EXCEPT ![c] =
            IF @.stage = "waiting" THEN [@ EXCEPT !.stage = "has", !.reply = reply] ELSE @]
    BY <1>3 DEF Answer
  <2>3. waiting[c] \in WaitSet
    OBVIOUS
  <2>4. [waiting[c] EXCEPT !.stage = "has", !.reply = reply] \in WaitSet
    BY <2>1, <2>3 DEF WaitSet
  <2> QED BY <1>3, <2>2, <2>4 DEF Answer, Resolve
<1>4. CASE CloseOutput
  BY <1>4 DEF CloseOutput
<1>5. ASSUME NEW c \in Callers,
             \/ TimeOut(c) \/ Expire(c)
             \/ Leave(c) /\ UNCHANGED <<asked, served, expired, timeouts, failure>>
      PROVE  ConnectionTypes'
  <2>1. waiting[c] \in WaitSet /\ waiting[c].call \in CallSet
    BY DEF WaitSet
  <2>2. /\ [waiting[c] EXCEPT !.stage = "empty"] \in WaitSet
        /\ [waiting[c] EXCEPT !.stage = "expired", !.reply = "timeout"] \in WaitSet
    BY <2>1 DEF WaitSet
  <2>3. CASE TimeOut(c)
    BY <2>3, <2>2 DEF TimeOut
  <2>4. CASE Expire(c)
    BY <2>4, <2>1, <2>2 DEF Expire
  <2>5. CASE Leave(c) /\ UNCHANGED <<asked, served, expired, timeouts, failure>>
    BY <2>5 DEF Leave
  <2> QED BY <1>5, <2>3, <2>4, <2>5
<1>6. CASE Reconnect
  BY <1>6 DEF Reconnect
<1>7. CASE UNCHANGED connectionVars
  BY <1>7 DEF connectionVars
<1> QED
  BY <1>1, <1>2, <1>3, <1>4, <1>5, <1>6, <1>7 DEF ConnectionStep

\* Only a submission with its message is asked for.
LEMMA AddNamesMessage ==
  ASSUME ConnectionTypes, CallInv, ConnectionStep
  PROVE  CallInv'
<1>1. \/ asked' \subseteq asked
      \/ \E c, method, msg : (method = "add" => msg \in Messages) /\ Request(c, method, msg)
  BY DEF ConnectionStep, Serve, DropLate, RejectAnswer, Answer, Resolve, CloseOutput, TimeOut, Expire,
     Reconnect, connectionVars
<1>2. CASE asked' \subseteq asked
  BY <1>2 DEF CallInv
<1>3. ASSUME NEW c, NEW method, NEW msg, method = "add" => msg \in Messages, Request(c, method, msg)
      PROVE  CallInv'
  <2>1. asked' = asked \cup {Call(c, method, msg)}
    BY <1>3 DEF Request
  <2>2. Call(c, method, msg).method = method /\ Call(c, method, msg).msg = msg
    BY DEF Call
  <2> QED BY <1>3, <2>1, <2>2 DEF CallInv
<1> QED BY <1>1, <1>2, <1>3

\* The requests since which as many have expired as are remembered.
Forgotten ==
  {timeouts[i] : i \in {j \in DOMAIN timeouts : Len(timeouts) - j >= Remembered}}

\* A request without a response has its waiter in place, or is remembered as
\* expired, or is forgotten; before the waiter goes, its request has the
\* response or is one of the others.
AskedInv ==
  /\ \A c \in Callers :
       /\ waiting[c] # Idle => waiting[c].call.who = c
       /\ waiting[c].stage = "idle" => waiting[c] = Idle
       /\ waiting[c].stage = "has" => waiting[c].call \notin asked
       /\ waiting[c].stage = "expired" =>
            \/ waiting[c].call \notin asked \/ waiting[c].call \in expired
            \/ waiting[c].call \in Forgotten
  /\ \A call \in asked : call.who \in Callers
  /\ \A call \in asked :
       \/ \E c \in Callers : Waits(c, call)
       \/ call \in expired \/ call \in Forgotten

\* What is forgotten stays so while the connection lives, and what is evicted
\* is forgotten.
LEMMA Forgetting ==
  ASSUME ConnectionTypes, NEW last \in CallSet, timeouts' = Append(timeouts, last)
  PROVE  /\ Forgotten \subseteq Forgotten'
         /\ Evicted(timeouts') \subseteq Forgotten'
<1>0. timeouts \in Seq(CallSet) /\ Remembered \in Nat \ {0}
  BY ConnectionAssumption DEF ConnectionTypes
<1>1. /\ Len(timeouts') = Len(timeouts) + 1 /\ Len(timeouts) \in Nat
      /\ DOMAIN timeouts = 1..Len(timeouts) /\ DOMAIN timeouts' = 1..Len(timeouts')
      /\ \A i \in 1..Len(timeouts) : timeouts'[i] = timeouts[i]
  BY <1>0
<1>2. ASSUME NEW call \in Forgotten PROVE call \in Forgotten'
  <2>1. PICK i \in DOMAIN timeouts : timeouts[i] = call /\ Len(timeouts) - i >= Remembered
    BY <1>2 DEF Forgotten
  <2>2. i \in DOMAIN timeouts' /\ timeouts'[i] = call /\ Len(timeouts') - i >= Remembered
    BY <2>1, <1>0, <1>1
  <2> QED BY <2>2 DEF Forgotten
<1>3. ASSUME NEW call \in Evicted(timeouts') PROVE call \in Forgotten'
  <2> DEFINE i == Len(timeouts') - Remembered
  <2>1. i \in DOMAIN timeouts' /\ timeouts'[i] = call /\ Len(timeouts') - i >= Remembered
    BY <1>0, <1>1, <1>3 DEF Evicted
  <2> QED BY <2>1 DEF Forgotten
<1> QED BY <1>2, <1>3

\* A response that nobody waits for is expected, or forgotten, after a step.
LEMMA AskedKept ==
  ASSUME ConnectionTypes, AskedInv, ConnectionStep
  PROVE  AskedInv'
<1> USE DEF AskedInv, Waits
<1>0. /\ \A c \in Callers : waiting[c] \in WaitSet /\ c # "none"
      /\ DOMAIN waiting = Callers
  BY UplinkAssumption DEF ConnectionTypes
<1>1. ASSUME NEW c \in Callers, NEW method, NEW msg, Request(c, method, msg)
      PROVE  AskedInv'
  <2> DEFINE call == Call(c, method, msg)
             wait == [stage |-> "waiting", call |-> call, reply |-> "none"]
  <2>1. waiting' = [waiting EXCEPT ![c] = wait] /\ asked' = asked \cup {call}
        /\ waiting[c] = Idle /\ UNCHANGED <<expired, timeouts>> /\ call.who = c
    BY <1>1 DEF Request, Call
  <2>2. Forgotten' = Forgotten
    BY <2>1 DEF Forgotten
  <2> HIDE DEF call
  <2>3. \A d \in Callers : d # c => waiting'[d] = waiting[d]
    BY <2>1, <1>0
  <2>4. waiting'[c] = wait
    BY <2>1, <1>0
  <2>5. ASSUME NEW d \in Callers, d # c, waiting[d] # Idle PROVE waiting[d].call # call
    BY <2>1, <2>5
  <2>6. \A d \in Callers : waiting[d] = Idle => waiting[d].stage = "idle" /\ waiting[d].call = NoCall
    BY DEF Idle
  <2>7. \A q \in asked : ~ Waits(c, q)
    BY <2>1, <2>6, <1>0 DEF NoCall
  <2>8. ASSUME NEW d \in Callers
        PROVE  /\ waiting'[d] # Idle => waiting'[d].call.who = d
               /\ waiting'[d].stage = "idle" => waiting'[d] = Idle
               /\ waiting'[d].stage = "has" => waiting'[d].call \notin asked'
               /\ waiting'[d].stage = "expired" =>
                   \/ waiting'[d].call \notin asked' \/ waiting'[d].call \in expired'
                   \/ waiting'[d].call \in Forgotten'
    <3>1. CASE d = c
      BY <3>1, <2>1, <2>4
    <3>2. CASE d # c /\ waiting[d] = Idle
      <4>1. waiting'[d] = Idle /\ Idle.stage = "idle"
        BY <3>2, <2>3 DEF Idle
      <4> QED BY <4>1
    <3>3. CASE d # c /\ waiting[d] # Idle
      BY <3>3, <2>1, <2>2, <2>3, <2>5
    <3> QED BY <3>1, <3>2, <3>3
  <2>9. ASSUME NEW q \in asked' 
        PROVE  \/ \E d \in Callers : Waits(d, q)'
               \/ q \in expired' \/ q \in Forgotten'
    <3>1. CASE q = call
      BY <3>1, <2>4
    <3>2. CASE q \in asked
      BY <3>2, <2>1, <2>2, <2>3, <2>7
    <3> QED BY <2>1, <3>1, <3>2
  <2>10. \A q \in asked' : q.who \in Callers
    BY <2>1
  <2> QED BY <2>8, <2>9, <2>10
<1>2. ASSUME NEW call \in asked, Serve(call) \/ DropLate(call) \/ RejectAnswer(call)
      PROVE  AskedInv'
  <2>1. /\ UNCHANGED <<waiting, timeouts>> /\ asked' \subseteq asked
        /\ \A q \in asked' : q \in expired => q \in expired'
    BY <1>2 DEF Serve, DropLate, RejectAnswer, Resolve
  <2>2. Forgotten' = Forgotten
    BY <2>1 DEF Forgotten
  <2> QED BY <2>1, <2>2
<1>3. ASSUME NEW call \in asked, NEW reply, Answer(call, reply)
      PROVE  AskedInv'
  <2>1. PICK c \in Callers :
          /\ waiting[c].call = call
          /\ waiting' = [waiting EXCEPT ![c] =
            IF @.stage = "waiting" THEN [@ EXCEPT !.stage = "has", !.reply = reply] ELSE @]
    BY <1>3 DEF Answer
  <2>2. /\ asked' = asked \ {call} /\ UNCHANGED timeouts /\ expired' = expired \ {call}
    BY <1>3 DEF Answer, Resolve
  <2>3. Forgotten' = Forgotten
    BY <2>2 DEF Forgotten
  <2>4. \A d \in Callers : d # c => waiting'[d] = waiting[d]
    BY <2>1, <1>0
  <2>5. waiting'[c] = waiting[c] \/ /\ waiting'[c].stage = "has" /\ waiting[c].stage = "waiting"
                                    /\ waiting'[c].call = call
    <3>1. waiting[c] \in WaitSet
      BY <1>0
    <3> QED BY <2>1, <3>1, <1>0 DEF WaitSet
  <2>6. call.who = c /\ waiting[c] # Idle
    BY <2>1, <1>0 DEF Idle, NoCall
  <2>7. ASSUME NEW d \in Callers
        PROVE  /\ waiting'[d] # Idle => waiting'[d].call.who = d
               /\ waiting'[d].stage = "idle" => waiting'[d] = Idle
               /\ waiting'[d].stage = "has" => waiting'[d].call \notin asked'
               /\ waiting'[d].stage = "expired" =>
                   \/ waiting'[d].call \notin asked' \/ waiting'[d].call \in expired'
                   \/ waiting'[d].call \in Forgotten'
    BY <2>2, <2>3, <2>4, <2>5, <2>6
  <2>8. ASSUME NEW d \in Callers, NEW q \in asked', Waits(d, q) PROVE Waits(d, q)'
    <3>1. d # c
      BY <2>1, <2>2, <2>8
    <3> QED BY <2>4, <2>8, <3>1
  <2>9. \A q \in asked' : \/ \E d \in Callers : Waits(d, q)'
                          \/ q \in expired' \/ q \in Forgotten'
    BY <2>2, <2>3, <2>8
  <2> QED BY <2>2, <2>7, <2>9
<1>4. ASSUME NEW c \in Callers, TimeOut(c)
      PROVE  AskedInv'
  <2>1. /\ waiting[c].stage = "waiting" /\ UNCHANGED <<asked, expired, timeouts>>
        /\ waiting' = [waiting EXCEPT ![c].stage = "empty"]
    BY <1>4 DEF TimeOut
  <2>2. Forgotten' = Forgotten
    BY <2>1 DEF Forgotten
  <2>3. waiting'[c].stage = "empty" /\ waiting'[c].call = waiting[c].call /\ waiting[c] # Idle
    BY <2>1, <1>0 DEF WaitSet, Idle
  <2>4. \A d \in Callers : d # c => waiting'[d] = waiting[d]
    BY <2>1, <1>0
  <2> QED BY <2>1, <2>2, <2>3, <2>4
<1>5. ASSUME NEW c \in Callers, Expire(c)
      PROVE  AskedInv'
  <2> DEFINE call == waiting[c].call
  <2>1. /\ waiting[c].stage = "empty" /\ UNCHANGED asked
        /\ timeouts' = Append(timeouts, call)
        /\ expired' = (expired \cup {call}) \ Evicted(timeouts')
        /\ waiting' = [waiting EXCEPT ![c].stage = "expired", ![c].reply = "timeout"]
    BY <1>5 DEF Expire
  <2>2. call \in CallSet
    BY <1>0 DEF WaitSet
  <2>3. Forgotten \subseteq Forgotten' /\ Evicted(timeouts') \subseteq Forgotten'
    BY <2>1, <2>2, Forgetting
  <2>4. \A q \in expired \cup {call} : q \in expired' \/ q \in Forgotten'
    BY <2>1, <2>3
  <2>5. waiting'[c].stage = "expired" /\ waiting'[c].call = call /\ waiting[c] # Idle
    BY <2>1, <1>0 DEF WaitSet, Idle
  <2>6. \A d \in Callers : d # c => waiting'[d] = waiting[d]
    BY <2>1, <1>0
  <2>7. ASSUME NEW d \in Callers
        PROVE  /\ waiting'[d] # Idle => waiting'[d].call.who = d
               /\ waiting'[d].stage = "idle" => waiting'[d] = Idle
               /\ waiting'[d].stage = "has" => waiting'[d].call \notin asked'
               /\ waiting'[d].stage = "expired" =>
                   \/ waiting'[d].call \notin asked' \/ waiting'[d].call \in expired'
                   \/ waiting'[d].call \in Forgotten'
    <3>1. CASE d = c
      <4>1. call.who = c /\ (call \in expired' \/ call \in Forgotten')
        BY <2>4, <2>5
      <4>2. waiting'[c] # Idle
        BY <2>5 DEF Idle
      <4> HIDE DEF call
      <4> QED BY <3>1, <4>1, <4>2, <2>5
    <3>2. CASE d # c
      <4>1. waiting'[d] = waiting[d] /\ asked' = asked
        BY <3>2, <2>1, <2>6
      <4>2. waiting[d].call \in expired \/ waiting[d].call \in Forgotten =>
              waiting[d].call \in expired' \/ waiting[d].call \in Forgotten'
        <5> HIDE DEF call
        <5> QED BY <2>3, <2>4
      <4> HIDE DEF call
      <4> QED BY <4>1, <4>2
    <3> QED BY <3>1, <3>2
  <2>8. ASSUME NEW q \in asked'
        PROVE  \/ \E d \in Callers : Waits(d, q)'
               \/ q \in expired' \/ q \in Forgotten'
    <3>1. CASE \E d \in Callers : Waits(d, q)
      BY <3>1, <2>5, <2>6
    <3>2. CASE q \in expired \/ q \in Forgotten
      BY <3>2, <2>3, <2>4
    <3> QED BY <2>1, <3>1, <3>2
  <2> QED BY <2>1, <2>7, <2>8
<1>6. ASSUME NEW c \in Callers, Returned(c), Leave(c),
             UNCHANGED <<asked, served, expired, timeouts, failure>>
      PROVE  AskedInv'
  <2>1. waiting'[c] = Idle /\ \A d \in Callers : d # c => waiting'[d] = waiting[d]
    BY <1>6, <1>0 DEF Leave
  <2>2. Forgotten' = Forgotten
    BY <1>6 DEF Forgotten
  <2>3. Idle.stage = "idle"
    BY DEF Idle
  <2>4. \A q \in asked : Waits(c, q) => q \in expired \/ q \in Forgotten
    BY <1>6 DEF Returned
  <2> QED BY <1>6, <2>1, <2>2, <2>3, <2>4
<1>7. CASE CloseOutput \/ UNCHANGED connectionVars
  <2>1. UNCHANGED <<asked, waiting, expired, timeouts>>
    BY <1>7 DEF CloseOutput, connectionVars
  <2>2. Forgotten' = Forgotten
    BY <2>1 DEF Forgotten
  <2> QED BY <2>1, <2>2
<1>8. CASE Reconnect
  <2>1. asked' = {} /\ \A c \in Callers : waiting'[c] = Idle
    BY <1>8 DEF Reconnect
  <2>2. Idle.stage = "idle"
    BY DEF Idle
  <2> QED BY <2>1, <2>2
<1> QED
  BY <1>1, <1>2, <1>3, <1>4, <1>5, <1>6, <1>7, <1>8 DEF ConnectionStep

-----------------------------------------------------------------------------
(* The rollout: what is written and what is read.                          *)

\* A line of Codex.
LEMMA LineTyped ==
  ASSUME NEW type \in Types, NEW turn \in Nat, NEW item \in Nat, NEW by \in Owners
  PROVE  /\ Line(type, turn, item, by) \in LineSet
         /\ Line(type, turn, item, by).type = type /\ Line(type, turn, item, by).turn = turn
         /\ Line(type, turn, item, by).item = item /\ Line(type, turn, item, by).by = by
BY DEF Line, LineSet

\* The turn of the last turn_context is a turn.
LEMMA ContextTyped ==
  ASSUME NEW turn \in Nat, NEW lines \in Seq(LineSet)
  PROVE  ContextOf(turn, lines) \in Nat
<1> DEFINE at == {i \in DOMAIN lines : lines[i].type = "turn_context"}
<1>1. at \in SUBSET Nat /\ \A i \in at : i <= Len(lines)
  OBVIOUS
<1>2. ASSUME at # {} PROVE Max(at) \in DOMAIN lines
  <2>1. Max(at) \in at
    <3>1. Len(lines) \in Nat
      OBVIOUS
    <3> HIDE DEF at
    <3> QED BY <1>1, <1>2, <3>1, GreatestOf
  <2> QED BY <2>1
<1>3. at # {} => lines[Max(at)] \in LineSet
  BY <1>2
<1> QED BY <1>3 DEF ContextOf, LineSet

\* The turns that run are numbers.
LEMMA ActiveTyped ==
  ASSUME NEW turns \in SUBSET Nat, NEW lines \in Seq(LineSet)
  PROVE  ActiveOf(turns, lines) \in SUBSET Nat
<1>1. \A l \in ToSet(lines) : l \in LineSet
  BY DEF ToSet
<1>2. \A l \in LineSet : l.turn \in Nat
  BY DEF LineSet
<1> QED BY <1>1, <1>2 DEF ActiveOf

\* What is left of two sequences put together without the last element, and
\* that element.
LEMMA FrontOfAppend ==
  ASSUME NEW S, NEW s \in Seq(S), NEW e \in S
  PROVE  Front(s \o <<e>>) = s /\ Last(s \o <<e>>) = e
<1>1. s \o <<e>> \in Seq(S) /\ Len(s \o <<e>>) = Len(s) + 1
  OBVIOUS
<1>2. Last(s \o <<e>>) = e
  BY <1>1 DEF Last
<1>3. Front(s \o <<e>>) = s
  <2>1. Front(s \o <<e>>) \in Seq(S) /\ Len(Front(s \o <<e>>)) = Len(s)
    BY <1>1 DEF Front
  <2>2. \A i \in 1..Len(s) : Front(s \o <<e>>)[i] = s[i]
    BY <1>1 DEF Front
  <2> QED BY <2>1, <2>2, SeqEqual
<1> QED BY <1>2, <1>3

\* The elements of a sequence after one place up to another.
LEMMA PartOf ==
  ASSUME NEW S, NEW s \in Seq(S), NEW a \in Nat, NEW b \in Nat, a <= b, b <= Len(s)
  PROVE  /\ SubSeq(s, a + 1, b) \in Seq(S)
         /\ Len(SubSeq(s, a + 1, b)) = b - a
         /\ \A j \in 1..(b - a) : SubSeq(s, a + 1, b)[j] = s[a + j]
OBVIOUS

\* The lines after a write, with their newlines or the last one without it.
Grown(lines, e, turns) ==
  \/ disk' = [disk EXCEPT !.lines = Append(lines, e), !.tail = NoLine, !.turns = turns]
  \/ disk' = [disk EXCEPT !.lines = lines, !.tail = e, !.turns = turns]

\* What Write does, with the newline of its last line or without.
LEMMA Written ==
  ASSUME NEW start \in Seq(LineSet), NEW e \in LineSet, NEW partial \in BOOLEAN,
         RolloutTypes, Write(start \o <<e>>, partial),
         NEW turns,
         turns = IF \E l \in ToSet(start \o <<e>>) : l.type = "task_started"
                 THEN disk.turns + 1 ELSE disk.turns
  PROVE  Grown(disk.lines \o start, e, turns)
<1> DEFINE lines == start \o <<e>>
<1>1. Front(lines) = start /\ Last(lines) = e
  BY FrontOfAppend
<1>2. disk.lines \o lines = Append(disk.lines \o start, e)
  <2>1. disk.lines \in Seq(LineSet) /\ <<e>> \in Seq(LineSet)
    BY DEF RolloutTypes
  <2>2. disk.lines \o start \in Seq(LineSet)
    BY <2>1
  <2>3. disk.lines \o (start \o <<e>>) = (disk.lines \o start) \o <<e>>
    <3> DEFINE a == disk.lines  b == <<e>>
    <3>1. a \in Seq(LineSet) /\ b \in Seq(LineSet)
      BY <2>1
    <3> HIDE DEF a, b
    <3>2. (a \o start) \o b = a \o (start \o b)
      BY <3>1, ConcatAssociative
    <3> QED BY <3>2 DEF a, b
  <2> QED BY <2>2, <2>3, AppendIsConcat
<1>3. CASE partial = TRUE
  BY <1>1, <1>3 DEF Write, Grown
<1>4. CASE partial = FALSE
  BY <1>2, <1>4 DEF Write, Grown
<1> QED BY <1>3, <1>4

\* What a user item adds: its turn runs already, or begins.
UserItem(turn, by) == Line("user", turn, written + 1, by)
Began(turn) ==
  Append(Append(disk.lines, Line("task_started", turn, 0, "codex")),
         Line("turn_context", turn, 0, "codex"))

\* The lines that start a turn.
LEMMA BeganLines ==
  ASSUME NEW lines \in Seq(LineSet), NEW a \in LineSet, NEW b \in LineSet
  PROVE  lines \o <<a, b>> = Append(Append(lines, a), b)
<1>1. <<a, b>> = <<a>> \o <<b>>
  <2>1. <<a>> \in Seq(LineSet) /\ <<a, b>> = Append(<<a>>, b)
    OBVIOUS
  <2> QED BY <2>1, AppendIsConcat
<1>2. lines \o (<<a>> \o <<b>>) = (lines \o <<a>>) \o <<b>>
  <2> DEFINE x == <<a>>  y == <<b>>
  <2>1. x \in Seq(LineSet) /\ y \in Seq(LineSet)
    OBVIOUS
  <2> HIDE DEF x, y
  <2>2. (lines \o x) \o y = lines \o (x \o y)
    BY <2>1, ConcatAssociative
  <2> QED BY <2>2 DEF x, y
<1>3. Append(lines, a) = lines \o <<a>> /\ Append(lines, a) \in Seq(LineSet)
  BY AppendIsConcat
<1>4. Append(Append(lines, a), b) = Append(lines, a) \o <<b>>
  BY <1>3, AppendIsConcat
<1> QED BY <1>1, <1>2, <1>3, <1>4

\* What a user item adds to the file.
LEMMA UserWritten ==
  ASSUME RolloutTypes, NEW by \in Messages \cup {"local"}, NEW partial \in BOOLEAN,
         WriteUser(by, partial)
  PROVE  \E turn \in Nat :
           /\ UserItem(turn, by) \in LineSet
           /\ \/ /\ Running # {} /\ turn = LastTurn
                 /\ Grown(disk.lines, UserItem(turn, by), disk.turns)
              \/ /\ Running = {} /\ turn = disk.turns + 1 /\ Began(turn) \in Seq(LineSet)
                 /\ Grown(Began(turn), UserItem(turn, by), disk.turns + 1)
<1>0. disk.lines \in Seq(LineSet) /\ disk.turns \in Nat /\ written \in Nat
  BY RolloutAssumption DEF RolloutTypes
<1>1. LastTurn \in Nat
  BY <1>0, ContextTyped DEF LastTurn
<1>2. CASE Running # {}
  <2> DEFINE e == UserItem(LastTurn, by)
  <2>1. e \in LineSet /\ e.type = "user"
    BY <1>0, <1>1, LineTyped DEF UserItem, Types, Owners
  <2>2. Write(<<>> \o <<e>>, partial)
    BY <1>2 DEF WriteUser, UserItem
  <2> HIDE DEF e
  <2>3. \A l \in ToSet(<<>> \o <<e>>) : l.type # "task_started"
    BY <2>1 DEF ToSet
  <2>4. Grown(disk.lines \o <<>>, e, disk.turns)
    <3>1. disk.turns = IF \E l \in ToSet(<<>> \o <<e>>) : l.type = "task_started"
                       THEN disk.turns + 1 ELSE disk.turns
      BY <2>3
    <3>2. <<>> \in Seq(LineSet)
      OBVIOUS
    <3> QED BY <2>1, <2>2, <3>1, <3>2, Written
  <2>5. disk.lines \o <<>> = disk.lines
    BY <1>0
  <2> QED BY <1>1, <1>2, <2>1, <2>4, <2>5 DEF e
<1>3. CASE Running = {}
  <2> DEFINE turn == disk.turns + 1
             started == Line("task_started", turn, 0, "codex")
             context == Line("turn_context", turn, 0, "codex")
             e == UserItem(turn, by)
  <2>1. /\ e \in LineSet /\ started \in LineSet /\ context \in LineSet
        /\ started.type = "task_started"
    BY <1>0, LineTyped DEF UserItem, Types, Owners
  <2>2. Write(<<started, context>> \o <<e>>, partial)
    BY <1>3 DEF WriteUser, UserItem
  <2>3. disk.lines \o <<started, context>> = Began(turn)
    BY <1>0, <2>1, BeganLines DEF Began
  <2>4. Began(turn) \in Seq(LineSet)
    BY <1>0, <2>1 DEF Began
  <2> HIDE DEF e, started, context
  <2>5. \E l \in ToSet(<<started, context>> \o <<e>>) : l.type = "task_started"
    <3>1. /\ (<<started, context>> \o <<e>>)[1] = started
          /\ 1 \in DOMAIN (<<started, context>> \o <<e>>)
      BY <2>1
    <3> QED BY <2>1, <3>1 DEF ToSet
  <2>6. Grown(disk.lines \o <<started, context>>, e, turn)
    <3>1. <<started, context>> \in Seq(LineSet)
      BY <2>1
    <3> QED BY <2>1, <2>2, <2>5, <3>1, Written
  <2>7. Grown(Began(turn), UserItem(turn, by), turn)
    BY <2>3, <2>6 DEF e
  <2>8. turn \in Nat /\ UserItem(turn, by) \in LineSet
    BY <1>0, <2>1 DEF e
  <2> QED BY <1>3, <2>4, <2>7, <2>8
<1> QED BY <1>2, <1>3

\* What an answer adds, after its preview, and a line of its own.
Preview == Line("agent_message", 0, written + 1, "codex")
Assistant == Line("assistant", 0, written + 1, "codex")

\* What an answer adds to the file.
LEMMA AssistantWritten ==
  ASSUME RolloutTypes, NEW partial \in BOOLEAN, WriteAssistant(partial)
  PROVE  /\ Preview \in LineSet /\ Assistant \in LineSet
         /\ Append(disk.lines, Preview) \in Seq(LineSet)
         /\ Grown(Append(disk.lines, Preview), Assistant, disk.turns)
<1>0. disk.lines \in Seq(LineSet) /\ disk.turns \in Nat /\ written \in Nat
  BY RolloutAssumption DEF RolloutTypes
<1>1. /\ Preview \in LineSet /\ Preview.type # "task_started"
      /\ Assistant \in LineSet /\ Assistant.type # "task_started"
  BY <1>0, LineTyped DEF Preview, Assistant, Types, Owners
<1>2. Write(<<Preview, Assistant>>, partial)
  BY DEF WriteAssistant, Preview, Assistant
<1>3. <<Preview, Assistant>> = <<Preview>> \o <<Assistant>>
  <2>1. <<Preview>> \in Seq(LineSet) /\ <<Preview, Assistant>> = Append(<<Preview>>, Assistant)
    BY <1>1
  <2> QED BY <1>1, <2>1, AppendIsConcat
<1>4. \A l \in ToSet(<<Preview>> \o <<Assistant>>) : l.type # "task_started"
  <2>1. \A l \in ToSet(<<Preview, Assistant>>) : l.type # "task_started"
    BY <1>1 DEF ToSet
  <2> QED BY <1>3, <2>1
<1>5. disk.turns = IF \E l \in ToSet(<<Preview>> \o <<Assistant>>) : l.type = "task_started"
                   THEN disk.turns + 1 ELSE disk.turns
  BY <1>4
<1>6. Grown(disk.lines \o <<Preview>>, Assistant, disk.turns)
  <2>1. <<Preview>> \in Seq(LineSet)
    BY <1>1
  <2> QED BY <1>1, <1>2, <1>3, <1>5, <2>1, Written
<1>7. disk.lines \o <<Preview>> = Append(disk.lines, Preview)
  BY <1>0, <1>1, AppendIsConcat
<1>8. Append(disk.lines, Preview) \in Seq(LineSet)
  BY <1>0, <1>1
<1> QED
  <2> HIDE DEF Preview, Assistant
  <2> QED BY <1>1, <1>6, <1>7, <1>8

\* What the end of a turn and an empty line add to it.
LEMMA LineWritten ==
  ASSUME RolloutTypes, NEW e \in LineSet, e.type # "task_started", Write(<<e>>, FALSE)
  PROVE  disk' = [disk EXCEPT !.lines = Append(@, e), !.tail = NoLine]
<1>1. \A l \in ToSet(<<e>>) : l.type # "task_started"
  BY DEF ToSet
<1>2. disk.lines \o <<e>> = Append(disk.lines, e)
  BY AppendIsConcat DEF RolloutTypes
<1>3. disk' = [disk EXCEPT !.lines = @ \o <<e>>, !.tail = NoLine, !.turns = @]
  BY <1>1 DEF Write
<1> QED BY <1>2, <1>3 DEF RolloutTypes

\* Any step of the writer: whole lines follow, and one more with its newline
\* or without.
Ended == Line("task_complete", LastTurn, 0, "codex")
WriterStep ==
  \/ \E by \in Messages \cup {"local"}, turn \in Nat :
       /\ disk.tail = NoLine /\ written < MaxItems /\ written' = written + 1
       /\ UNCHANGED <<cursor, cache, since>>
       /\ UserItem(turn, by) \in LineSet
       /\ \/ /\ Running # {} /\ turn = LastTurn
             /\ Grown(disk.lines, UserItem(turn, by), disk.turns)
          \/ /\ Running = {} /\ turn = disk.turns + 1 /\ Began(turn) \in Seq(LineSet)
             /\ Grown(Began(turn), UserItem(turn, by), disk.turns + 1)
  \/ /\ disk.tail = NoLine /\ Running # {} /\ written < MaxItems /\ written' = written + 1
     /\ UNCHANGED <<cursor, cache, since>>
     /\ Preview \in LineSet /\ Assistant \in LineSet
     /\ Append(disk.lines, Preview) \in Seq(LineSet)
     /\ Grown(Append(disk.lines, Preview), Assistant, disk.turns)
  \/ /\ disk.tail = NoLine
     /\ \/ Running # {} /\ disk' = [disk EXCEPT !.lines = Append(@, Ended)]
        \/ mode = "observe" /\ disk.nth = 1 /\ disk' = [disk EXCEPT !.lines = Append(@, Blank)]
     /\ UNCHANGED <<written, cursor, cache, since>>
  \/ CompleteLine
  \/ mode = "observe" /\ ReplaceFile

ReaderStep ==
  \/ At("read") /\ Checkpoint
  \/ At("read") /\ cursor # NoCursor /\ ~Refused /\ Commit(Batch(cursor.at))
  \/ ForgetCache
  \/ UNCHANGED rolloutVars

\* A step is of the writer, which leaves cursor and memory alone, or of the reader,
\* which leaves the file alone.
LEMMA WriterAndReader ==
  ASSUME RolloutTypes, RolloutStep
  PROVE  WriterStep \/ ReaderStep
<1>0. disk.lines \in Seq(LineSet) /\ written \in Nat
  BY RolloutAssumption DEF RolloutTypes
<1>1. LastTurn \in Nat
  BY <1>0, ContextTyped DEF LastTurn
<1>2. /\ Ended \in LineSet /\ Ended.type # "task_started"
      /\ Blank \in LineSet /\ Blank.type # "task_started"
  BY <1>1, LineTyped DEF Ended, Blank, Types, Owners
<1>3. disk.tail = NoLine => [disk EXCEPT !.tail = NoLine] = disk
  BY DEF RolloutTypes
<1>4. ASSUME NEW by \in Messages \cup {"local"}, NEW partial \in BOOLEAN, WriteUser(by, partial)
      PROVE  WriterStep
  <2>1. PICK turn \in Nat :
           /\ UserItem(turn, by) \in LineSet
           /\ \/ /\ Running # {} /\ turn = LastTurn
                 /\ Grown(disk.lines, UserItem(turn, by), disk.turns)
              \/ /\ Running = {} /\ turn = disk.turns + 1 /\ Began(turn) \in Seq(LineSet)
                 /\ Grown(Began(turn), UserItem(turn, by), disk.turns + 1)
    BY <1>4, UserWritten
  <2>2. /\ disk.tail = NoLine /\ written < MaxItems /\ written' = written + 1
        /\ UNCHANGED <<cursor, cache, since>>
    BY <1>4 DEF WriteUser
  <2> QED BY <2>1, <2>2 DEF WriterStep
<1>5. ASSUME NEW partial \in BOOLEAN, WriteAssistant(partial) PROVE WriterStep
  <2>1. /\ Preview \in LineSet /\ Assistant \in LineSet
        /\ Append(disk.lines, Preview) \in Seq(LineSet)
        /\ Grown(Append(disk.lines, Preview), Assistant, disk.turns)
    BY <1>5, AssistantWritten
  <2>2. /\ disk.tail = NoLine /\ Running # {} /\ written < MaxItems /\ written' = written + 1
        /\ UNCHANGED <<cursor, cache, since>>
    BY <1>5 DEF WriteAssistant
  <2> QED BY <2>1, <2>2 DEF WriterStep
<1>6. CASE EndTurn
  <2>1. disk.tail = NoLine /\ Running # {} /\ Write(<<Ended>>, FALSE)
        /\ UNCHANGED <<cursor, cache, written, since>>
    BY <1>6 DEF EndTurn, Ended
  <2>2. disk' = [disk EXCEPT !.lines = Append(@, Ended), !.tail = NoLine]
    BY <1>2, <2>1, LineWritten
  <2>3. disk' = [disk EXCEPT !.lines = Append(@, Ended)]
    BY <1>3, <2>1, <2>2 DEF RolloutTypes
  <2> QED BY <2>1, <2>3 DEF WriterStep
<1>7. CASE mode = "observe" /\ WriteBlank
  <2>1. disk.tail = NoLine /\ disk.nth = 1 /\ Write(<<Blank>>, FALSE)
        /\ UNCHANGED <<cursor, cache, written, since>>
    BY <1>7 DEF WriteBlank
  <2>2. disk' = [disk EXCEPT !.lines = Append(@, Blank), !.tail = NoLine]
    BY <1>2, <2>1, LineWritten
  <2>3. disk' = [disk EXCEPT !.lines = Append(@, Blank)]
    BY <1>3, <2>1, <2>2 DEF RolloutTypes
  <2> QED BY <1>7, <2>1, <2>3 DEF WriterStep
<1> QED BY <1>4, <1>5, <1>6, <1>7 DEF RolloutStep, WriterStep, ReaderStep

\* What one read returns, line by line.
EventSet == [visible : BOOLEAN, item : Nat, turn : Nat, by : Owners]
TurnOf(at, i) ==
  IF disk.lines[i].turn # 0 THEN disk.lines[i].turn
  ELSE ContextOf(Before(at).context, SubSeq(disk.lines, at + 1, i))

\* What a batch is, line by line.
LEMMA BatchLines ==
  ASSUME RolloutTypes, NEW at \in Nat, at <= Len(disk.lines)
  PROVE  /\ Len(Batch(at).events) = Len(disk.lines) - at
         /\ \A i \in 1..(Len(disk.lines) - at) :
              /\ Batch(at).events[i] \in EventSet
              /\ Batch(at).events[i] =
                   [visible |-> Visible(disk.lines[at + i]), item |-> disk.lines[at + i].item,
                    turn |-> TurnOf(at, at + i), by |-> disk.lines[at + i].by]
         /\ Batch(at).cursor = [id |-> disk.id, at |-> Len(disk.lines),
                                last |-> IF at = Len(disk.lines) THEN cursor.last
                                         ELSE disk.lines[Len(disk.lines)]]
         /\ Batch(at).cache.id = disk.id /\ Batch(at).cache.at = Len(disk.lines)
         /\ Batch(at).cache.context =
              ContextOf(Before(at).context, SubSeq(disk.lines, at + 1, Len(disk.lines)))
         /\ Batch(at).cache \in [id : Nat, at : Nat, context : Nat, active : SUBSET Nat]
<1> DEFINE n == Len(disk.lines)
           new == SubSeq(disk.lines, at + 1, n)
           ev(i) == [visible |-> Visible(disk.lines[at + i]), item |-> disk.lines[at + i].item,
                     turn |-> TurnOf(at, at + i), by |-> disk.lines[at + i].by]
<1>0. disk.lines \in Seq(LineSet) /\ n \in Nat /\ disk.id \in Nat
      /\ \A i \in 1..n : disk.lines[i] \in LineSet
  BY DEF RolloutTypes
<1>1. /\ new \in Seq(LineSet) /\ Len(new) = n - at /\ DOMAIN new = 1..(n - at)
      /\ \A i \in 1..(n - at) : new[i] = disk.lines[at + i]
  BY <1>0
<1>2. Before(at).context \in Nat /\ Before(at).active \in SUBSET Nat
  <2>1. SubSeq(disk.lines, 1, at) \in Seq(LineSet)
    BY <1>0
  <2> QED BY <2>1, ContextTyped, ActiveTyped DEF Before, RolloutTypes, Readable
<1>3. ASSUME NEW i \in 1..(n - at)
      PROVE  /\ SubSeq(new, 1, i) = SubSeq(disk.lines, at + 1, at + i)
             /\ ContextOf(Before(at).context, SubSeq(disk.lines, at + 1, at + i)) \in Nat
  <2> HIDE DEF new
  <2>0. at + 1 \in Int /\ at + i \in Int /\ i \in Int /\ (at + i) - (at + 1) + 1 = i
        /\ \A j \in 1..i : new[j] \in LineSet
        /\ \A k \in (at + 1)..(at + i) : disk.lines[k] \in LineSet
    BY <1>0, <1>1
  <2>1. /\ SubSeq(new, 1, i) \in Seq(LineSet) /\ Len(SubSeq(new, 1, i)) = i
        /\ \A j \in 1..i : SubSeq(new, 1, i)[j] = new[j]
    BY <2>0, SubSeqProperties
  <2>2. /\ SubSeq(disk.lines, at + 1, at + i) \in Seq(LineSet)
        /\ Len(SubSeq(disk.lines, at + 1, at + i)) = i
        /\ \A j \in 1..i : SubSeq(disk.lines, at + 1, at + i)[j] = disk.lines[at + j]
    <3> DEFINE lines == disk.lines
    <3>1. lines \in Seq(LineSet) /\ at + i \in Nat /\ at <= at + i /\ at + i <= Len(lines)
          /\ (at + i) - at = i
      BY <1>0
    <3> HIDE DEF lines
    <3>2. /\ SubSeq(lines, at + 1, at + i) \in Seq(LineSet)
          /\ Len(SubSeq(lines, at + 1, at + i)) = (at + i) - at
          /\ \A j \in 1..((at + i) - at) : SubSeq(lines, at + 1, at + i)[j] = lines[at + j]
      BY <3>1, PartOf
    <3> QED BY <3>1, <3>2 DEF lines
  <2>3. SubSeq(new, 1, i) = SubSeq(disk.lines, at + 1, at + i)
    <3>1. \A j \in 1..i : SubSeq(new, 1, i)[j] = SubSeq(disk.lines, at + 1, at + i)[j]
      BY <1>1, <2>1, <2>2
    <3> QED BY <2>1, <2>2, <3>1, SeqEqual
  <2> QED BY <1>2, <2>2, <2>3, ContextTyped
<1>4. Batch(at).events = [i \in 1..(n - at) |-> ev(i)]
  BY <1>1, <1>3 DEF Batch, TurnOf, Readable
<1>5. ASSUME NEW i \in 1..(n - at) PROVE ev(i) \in EventSet
  <2>1. disk.lines[at + i] \in LineSet
    BY <1>0
  <2>2. TurnOf(at, at + i) \in Nat
    BY <1>3, <2>1 DEF TurnOf, LineSet
  <2> QED BY <2>1, <2>2 DEF EventSet, LineSet, Visible
<1>6. Len(Batch(at).events) = n - at
  <2> HIDE DEF ev
  <2>1. n - at \in Nat
    BY <1>0
  <2> HIDE DEF n
  <2>2. [i \in 1..(n - at) |-> ev(i)] \in [1..(n - at) -> EventSet]
    BY <1>5
  <2>3. \A k \in Nat : \A f \in [1..k -> EventSet] : Len(f) = k
    OBVIOUS
  <2> QED BY <1>4, <2>1, <2>2, <2>3
<1>7. Batch(at).cursor = [id |-> disk.id, at |-> n,
                          last |-> IF at = n THEN cursor.last ELSE disk.lines[n]]
  <2>1. new = <<>> <=> at = n
    <3> HIDE DEF new
    <3> QED BY <1>0, <1>1
  <2>2. at # n => LastOf(new) = disk.lines[n]
    <3>1. LastOf(new) = new[n - at]
      BY <1>1 DEF LastOf, Last
    <3> HIDE DEF new
    <3> QED BY <1>0, <1>1, <3>1
  <2>3. Batch(at).cursor = [id |-> disk.id, at |-> n,
                            last |-> IF new = <<>> THEN cursor.last ELSE LastOf(new)]
    BY DEF Batch, Readable
  <2> HIDE DEF new
  <2> QED BY <2>1, <2>2, <2>3
<1>8. /\ Batch(at).cache.id = disk.id /\ Batch(at).cache.at = n
      /\ Batch(at).cache.context = ContextOf(Before(at).context, new)
      /\ Batch(at).cache \in [id : Nat, at : Nat, context : Nat, active : SUBSET Nat]
  <2>1. ContextOf(Before(at).context, new) \in Nat /\ ActiveOf(Before(at).active, new) \in SUBSET Nat
    BY <1>1, <1>2, ContextTyped, ActiveTyped
  <2> QED BY <1>0, <2>1 DEF Batch, Readable
<1> QED BY <1>4, <1>5, <1>6, <1>7, <1>8

\* The file after lines that end with this one.
LEMMA GrownTyped ==
  ASSUME RolloutTypes, NEW lines \in Seq(LineSet), NEW e \in LineSet, NEW turns \in Nat,
         Grown(lines, e, turns)
  PROVE  /\ disk' \in [nth : Nat, turns : Nat, id : Nat, lines : Seq(LineSet), tail : LineSet]
         /\ disk'.nth = disk.nth /\ disk'.id = disk.id /\ disk'.turns = turns
         /\ \/ disk'.lines = Append(lines, e) /\ disk'.tail = NoLine
            \/ disk'.lines = lines /\ disk'.tail = e
<1>1. NoLine \in LineSet
  BY LineTyped DEF NoLine, Types, Owners
<1>2. Append(lines, e) \in Seq(LineSet)
  OBVIOUS
<1>3. CASE disk' = [disk EXCEPT !.lines = Append(lines, e), !.tail = NoLine, !.turns = turns]
  BY <1>1, <1>2, <1>3 DEF RolloutTypes
<1>4. CASE disk' = [disk EXCEPT !.lines = lines, !.tail = e, !.turns = turns]
  BY <1>4 DEF RolloutTypes
<1> QED BY <1>3, <1>4 DEF Grown

\* Every line has a type of its own.
Typed(lines) == \A i \in DOMAIN lines : lines[i].type # "none"

\* A typed line on typed lines.
LEMMA AppendTyped ==
  ASSUME NEW lines \in Seq(LineSet), NEW e \in LineSet, e.type # "none", Typed(lines)
  PROVE  Typed(Append(lines, e)) /\ Append(lines, e) \in Seq(LineSet)
BY DEF Typed

\* The rollout keeps its types.
LEMMA RolloutTyped ==
  ASSUME RolloutTypes, TailInv, FileInv, RolloutStep
  PROVE  RolloutTypes' /\ TailInv' /\ FileInv'
<1>0. /\ disk.lines \in Seq(LineSet) /\ written \in Nat /\ MaxItems \in Nat /\ since \in Nat
      /\ written <= MaxItems /\ since <= written
      /\ disk.turns \in Nat /\ disk.id \in Nat /\ disk.nth \in Nat /\ MaxFiles \in Nat
      /\ NoLine \in LineSet /\ Meta \in LineSet /\ NoLine.type = "none"
      /\ Typed(disk.lines)
  BY RolloutAssumption, LineTyped DEF RolloutTypes, Types, Owners, NoLine, Meta, TailInv, Typed
<1>1. LastTurn \in Nat
  BY <1>0, ContextTyped DEF LastTurn
<1>2. ASSUME NEW lines \in Seq(LineSet), NEW e \in LineSet, NEW turns \in Nat,
             Typed(lines), e.type \in {"user", "assistant"}, e.item = written + 1,
             Grown(lines, e, turns), written < MaxItems, written' = written + 1,
             UNCHANGED <<cursor, cache, since>>
      PROVE  RolloutTypes' /\ TailInv' /\ FileInv'
  <2>1. /\ disk' \in [nth : Nat, turns : Nat, id : Nat, lines : Seq(LineSet), tail : LineSet]
        /\ disk'.nth = disk.nth /\ disk'.id = disk.id
        /\ \/ disk'.lines = Append(lines, e) /\ disk'.tail = NoLine
           \/ disk'.lines = lines /\ disk'.tail = e
    BY <1>2, GrownTyped
  <2>2. RolloutTypes'
    BY <1>0, <1>2, <2>1 DEF RolloutTypes
  <2>3. Typed(disk'.lines)
    BY <1>2, <2>1, AppendTyped
  <2>4. TailInv'
    BY <1>0, <1>2, <2>1, <2>3 DEF TailInv, Typed, Visible
  <2> QED BY <1>2, <2>1, <2>2, <2>4 DEF FileInv
<1>3. CASE WriterStep
  <2>1. ASSUME NEW by \in Messages \cup {"local"}, NEW turn \in Nat,
               written < MaxItems, written' = written + 1, UNCHANGED <<cursor, cache, since>>,
               UserItem(turn, by) \in LineSet,
               \/ Grown(disk.lines, UserItem(turn, by), disk.turns)
               \/ /\ turn = disk.turns + 1 /\ Began(turn) \in Seq(LineSet)
                  /\ Grown(Began(turn), UserItem(turn, by), disk.turns + 1)
        PROVE  RolloutTypes' /\ TailInv' /\ FileInv'
    <3>1. UserItem(turn, by).type = "user" /\ UserItem(turn, by).item = written + 1
      BY DEF UserItem, Line
    <3>2. Typed(Began(turn))
      <4> DEFINE a == Line("task_started", turn, 0, "codex")
                 b == Line("turn_context", turn, 0, "codex")
      <4>1. a \in LineSet /\ a.type # "none" /\ b \in LineSet /\ b.type # "none"
        BY LineTyped DEF Types, Owners
      <4> HIDE DEF a, b
      <4>2. Typed(Append(Append(disk.lines, a), b))
        BY <1>0, <4>1, AppendTyped
      <4> QED BY <4>2 DEF a, b, Began
    <3>3. CASE Grown(disk.lines, UserItem(turn, by), disk.turns)
      BY <1>0, <1>2, <2>1, <3>1, <3>3
    <3>4. CASE /\ Began(turn) \in Seq(LineSet)
               /\ Grown(Began(turn), UserItem(turn, by), disk.turns + 1)
      <4>1. disk.turns + 1 \in Nat
        BY <1>0
      <4> QED BY <1>2, <2>1, <3>1, <3>2, <3>4, <4>1
    <3> QED BY <2>1, <3>3, <3>4
  <2>2. ASSUME written < MaxItems, written' = written + 1, UNCHANGED <<cursor, cache, since>>,
               Preview \in LineSet, Assistant \in LineSet,
               Append(disk.lines, Preview) \in Seq(LineSet),
               Grown(Append(disk.lines, Preview), Assistant, disk.turns)
        PROVE  RolloutTypes' /\ TailInv' /\ FileInv'
    <3>1. Assistant.type = "assistant" /\ Assistant.item = written + 1 /\ Preview.type # "none"
      BY <1>0, LineTyped DEF Preview, Assistant, Types, Owners
    <3>2. Typed(Append(disk.lines, Preview))
      BY <1>0, <2>2, <3>1, AppendTyped
    <3> QED BY <1>0, <1>2, <2>2, <3>1, <3>2
  <2>3. ASSUME NEW e \in LineSet, e.type # "none", disk.tail = NoLine,
               disk' = [disk EXCEPT !.lines = Append(@, e)],
               UNCHANGED <<written, cursor, cache, since>>
        PROVE  RolloutTypes' /\ TailInv' /\ FileInv'
    <3>1. Typed(Append(disk.lines, e)) /\ Append(disk.lines, e) \in Seq(LineSet)
      BY <1>0, <2>3, AppendTyped
    <3>2. RolloutTypes'
      BY <1>0, <2>3, <3>1 DEF RolloutTypes
    <3>3. disk'.lines = Append(disk.lines, e) /\ disk'.tail = disk.tail /\ disk'.nth = disk.nth
          /\ disk'.id = disk.id
      BY <2>3 DEF RolloutTypes
    <3>4. TailInv'
      BY <2>3, <3>1, <3>3 DEF TailInv, Typed
    <3> QED BY <2>3, <3>2, <3>3, <3>4 DEF FileInv
  <2>4. Ended \in LineSet /\ Ended.type # "none" /\ Blank \in LineSet /\ Blank.type # "none"
    BY <1>1, LineTyped DEF Ended, Blank, Types, Owners
  <2>5. CASE CompleteLine
    <3>1. disk.tail \in LineSet /\ disk.tail.type # "none"
      BY <2>5 DEF CompleteLine, TailInv, RolloutTypes
    <3>2. Typed(Append(disk.lines, disk.tail)) /\ Append(disk.lines, disk.tail) \in Seq(LineSet)
      BY <1>0, <3>1, AppendTyped
    <3>3. /\ disk' = [disk EXCEPT !.lines = Append(@, disk.tail), !.tail = NoLine]
          /\ UNCHANGED <<cursor, cache, written, since>>
      BY <2>5 DEF CompleteLine
    <3>4. RolloutTypes'
      BY <1>0, <3>2, <3>3 DEF RolloutTypes
    <3>5. disk'.lines = Append(disk.lines, disk.tail) /\ disk'.tail = NoLine
          /\ disk'.nth = disk.nth /\ disk'.id = disk.id
      BY <3>3 DEF RolloutTypes
    <3>6. TailInv'
      BY <1>0, <3>2, <3>5 DEF TailInv, Typed, Visible
    <3> QED BY <3>3, <3>4, <3>5, <3>6 DEF FileInv
  <2>6. CASE ReplaceFile
    <3>1. PICK id \in {disk.id, disk.id + 1} :
            disk' = [nth |-> disk.nth + 1, turns |-> disk.turns, id |-> id, lines |-> <<Meta>>,
                     tail |-> NoLine]
      BY <2>6 DEF ReplaceFile
    <3>2. disk.nth < MaxFiles /\ UNCHANGED <<cursor, cache, written, since>>
      BY <2>6 DEF ReplaceFile
    <3>3. RolloutTypes'
      BY <1>0, <3>1, <3>2 DEF RolloutTypes
    <3>4. Typed(disk'.lines)
      BY <3>1 DEF Typed, Meta, Line
    <3>5. TailInv'
      BY <1>0, <3>1, <3>4 DEF TailInv, Typed, Visible
    <3>6. FileInv'
      <4>1. cursor.id \in Nat
        BY DEF RolloutTypes
      <4> QED BY <1>0, <3>1, <3>2, <4>1 DEF FileInv
    <3> QED BY <3>3, <3>5, <3>6
  <2> QED BY <1>3, <2>1, <2>2, <2>3, <2>4, <2>5, <2>6 DEF WriterStep
<1>4. ASSUME NEW at \in Nat, at <= Len(disk.lines), UNCHANGED <<disk, written>>,
             cursor' = Batch(at).cursor, cache' = Batch(at).cache, since' \in 0..written
      PROVE  RolloutTypes' /\ TailInv' /\ FileInv'
  <2>1. /\ cursor' = [id |-> disk.id, at |-> Len(disk.lines),
                      last |-> IF at = Len(disk.lines) THEN cursor.last
                               ELSE disk.lines[Len(disk.lines)]]
        /\ cache' \in [id : Nat, at : Nat, context : Nat, active : SUBSET Nat]
    BY <1>4, BatchLines
  <2>2. (IF at = Len(disk.lines) THEN cursor.last ELSE disk.lines[Len(disk.lines)]) \in LineSet
    BY <1>0, <1>4 DEF RolloutTypes
  <2>3. RolloutTypes'
    BY <1>0, <1>4, <2>1, <2>2, SMTT(30) DEF RolloutTypes
  <2> QED BY <1>0, <1>4, <2>1, <2>3 DEF TailInv, FileInv
<1>5. CASE ReaderStep
  <2>1. CASE Checkpoint
    <3>1. since' \in 0..written
      BY <1>0, <2>1 DEF Checkpoint, TailInv
    <3> QED BY <1>0, <1>4, <2>1, <3>1 DEF Checkpoint
  <2>2. CASE ~Refused /\ Commit(Batch(cursor.at))
    <3>1. cursor.at \in Nat /\ cursor.at <= Len(disk.lines)
      BY <1>0, <2>2 DEF Refused, Replaced, Readable, RolloutTypes
    <3> QED BY <1>0, <1>4, <2>2, <3>1 DEF Commit
  <2>3. CASE ForgetCache
    <3>1. NoCache \in [id : Nat, at : Nat, context : Nat, active : SUBSET Nat]
      BY DEF NoCache
    <3> QED BY <2>3, <3>1 DEF ForgetCache, RolloutTypes, TailInv, FileInv
  <2>4. CASE UNCHANGED rolloutVars
    BY <2>4 DEF rolloutVars, RolloutTypes, TailInv, FileInv
  <2> QED BY <1>5, <2>1, <2>2, <2>3, <2>4 DEF ReaderStep
<1> QED BY <1>3, <1>5, WriterAndReader

-----------------------------------------------------------------------------
(* A batch: what its events lead to.                                       *)

AccSet == [rec : [Messages -> RecordSet], tomb : SUBSET Messages, out : SUBSET ItemSet]
ClaimFor(acc, m, e) == [acc EXCEPT !.rec = Claimed(@, m, e), !.tomb = @ \cup {m}]
Show(acc, e) == [acc EXCEPT !.out = @ \cup {[item |-> e.item, turn |-> e.turn]}]

\* The oldest of some records is one of them.
LEMMA OldestIn ==
  ASSUME NEW rec \in [Messages -> RecordSet], NEW ms \in SUBSET Messages, ms # {}
  PROVE  Oldest(rec, ms) \in ms
<1> DEFINE mades == {rec[m].made : m \in ms}
<1>1. \A m \in ms : rec[m].made \in Nat
  BY DEF RecordSet
<1>2. mades \in SUBSET Nat /\ mades # {}
  BY <1>1
<1>3. PICK k \in mades : \A j \in mades : k <= j
  <2> HIDE DEF mades
  <2> QED BY <1>2, LeastOf
<1>4. \E m \in ms : \A n \in ms : rec[m].made <= rec[n].made
  BY <1>3
<1> QED BY <1>4 DEF Oldest

\* What an event leads to, case by case.
LEMMA EventCases ==
  ASSUME NEW acc \in AccSet, NEW e \in EventSet
  PROVE  \/ /\ IngestEvent(acc, e) = acc
            /\ \/ e.visible = FALSE
               \/ /\ e.visible = TRUE /\ e.by # "codex" /\ Known(acc.rec, e)
                  /\ ByClient(acc.rec, e) = {}
         \/ /\ e.visible = TRUE /\ e.by # "codex"
            /\ \E m \in ByClient(acc.rec, e) : IngestEvent(acc, e) = ClaimFor(acc, m, e)
         \/ /\ e.visible = TRUE /\ e.by # "codex" /\ ~ Known(acc.rec, e)
            /\ ByClient(acc.rec, e) = {}
            /\ \E m \in Delayed(acc.rec, e) : IngestEvent(acc, e) = ClaimFor(acc, m, e)
         \/ /\ e.visible = TRUE
            /\ e.by # "codex" => ByClient(acc.rec, e) = {} /\ ~ Known(acc.rec, e)
            /\ IngestEvent(acc, e) = Show(acc, e)
<1> DEFINE claim == ByClient(acc.rec, e)
           late == Delayed(acc.rec, e)
<1>0. acc.rec \in [Messages -> RecordSet] /\ e.visible \in BOOLEAN
  BY DEF AccSet, EventSet
<1>1. claim # {} => Oldest(acc.rec, claim) \in claim
  <2>1. claim \in SUBSET Messages
    BY DEF ByClient
  <2> HIDE DEF claim
  <2> QED BY <1>0, <2>1, OldestIn
<1>2. late # {} => Oldest(acc.rec, late) \in late
  <2>1. late \in SUBSET Messages
    BY DEF Delayed
  <2> HIDE DEF late
  <2> QED BY <1>0, <2>1, OldestIn
<1>3. CASE e.visible = FALSE
  <2>1. IngestEvent(acc, e) = acc
    BY <1>3 DEF IngestEvent
  <2> QED BY <1>3, <2>1
<1>4. CASE e.visible = TRUE /\ e.by # "codex" /\ claim # {}
  <2>1. IngestEvent(acc, e) = ClaimFor(acc, Oldest(acc.rec, claim), e)
    BY <1>4 DEF IngestEvent, ClaimFor
  <2> QED BY <1>1, <1>4, <2>1
<1>5. CASE e.visible = TRUE /\ e.by # "codex" /\ claim = {} /\ Known(acc.rec, e)
  <2>1. IngestEvent(acc, e) = acc
    BY <1>5 DEF IngestEvent
  <2> QED BY <1>5, <2>1
<1>6. CASE e.visible = TRUE /\ e.by # "codex" /\ claim = {} /\ ~ Known(acc.rec, e) /\ late # {}
  <2>1. IngestEvent(acc, e) = ClaimFor(acc, Oldest(acc.rec, late), e)
    BY <1>6 DEF IngestEvent, ClaimFor
  <2> QED BY <1>2, <1>6, <2>1
<1>7. CASE e.visible = TRUE /\ e.by = "codex"
  <2>1. IngestEvent(acc, e) = Show(acc, e)
    BY <1>7 DEF IngestEvent, Show
  <2> QED BY <1>7, <2>1
<1>8. CASE e.visible = TRUE /\ e.by # "codex" /\ claim = {} /\ ~ Known(acc.rec, e) /\ late = {}
  <2>1. IngestEvent(acc, e) = Show(acc, e)
    BY <1>8 DEF IngestEvent, Show
  <2> QED BY <1>8, <2>1
<1> QED BY <1>0, <1>3, <1>4, <1>5, <1>6, <1>7, <1>8

\* The record of a message whose item came back.
CameBack(r, e) == [r EXCEPT !.state = "accepted", !.turn = e.turn, !.item = e.item]

\* A claim keeps the types of the rows.
LEMMA ClaimTyped ==
  ASSUME NEW acc \in AccSet, NEW e \in EventSet, NEW m \in Messages
  PROVE  /\ ClaimFor(acc, m, e) \in AccSet
         /\ ClaimFor(acc, m, e).tomb = acc.tomb \cup {m} /\ ClaimFor(acc, m, e).out = acc.out
         /\ \A n \in Messages :
              ClaimFor(acc, m, e).rec[n] =
                IF n = m THEN CameBack(acc.rec[m], e) ELSE acc.rec[n]
<1>1. acc.rec \in [Messages -> RecordSet] /\ e.turn \in Nat /\ e.item \in Nat
  BY DEF AccSet, EventSet
<1>2. acc.rec[m] \in RecordSet
  BY <1>1
<1>3. CameBack(acc.rec[m], e) \in RecordSet
  BY <1>1, <1>2 DEF RecordSet, CameBack
<1>4. Claimed(acc.rec, m, e) = [acc.rec EXCEPT ![m] = CameBack(acc.rec[m], e)]
  BY <1>1 DEF Claimed, CameBack
<1>5. Claimed(acc.rec, m, e) \in [Messages -> RecordSet]
  BY <1>1, <1>3, <1>4
<1> QED BY <1>1, <1>4, <1>5 DEF ClaimFor, AccSet

\* So does an item for the topic.
LEMMA ShowTyped ==
  ASSUME NEW acc \in AccSet, NEW e \in EventSet
  PROVE  /\ Show(acc, e) \in AccSet
         /\ Show(acc, e).rec = acc.rec /\ Show(acc, e).tomb = acc.tomb
         /\ Show(acc, e).out = acc.out \cup {[item |-> e.item, turn |-> e.turn]}
BY DEF Show, AccSet, EventSet, ItemSet

\* The event of a line, and the rows a batch leaves: what holds of those before
\* its first line, and is handed on from line to line, holds of them.
EventOf(at, i) ==
  [visible |-> Visible(disk.lines[i]), item |-> disk.lines[i].item, turn |-> TurnOf(at, i),
   by |-> disk.lines[i].by]

\* What holds before a batch and is kept by each of its lines holds after it.
LEMMA BatchTaken ==
  ASSUME RolloutTypes, NEW at \in Nat, at <= Len(disk.lines),
         NEW end \in Ingested(Batch(at).events),
         NEW good \in [Nat -> SUBSET AccSet],
         [rec |-> record, tomb |-> tombstone, out |-> mirrored] \in good[at],
         \A i \in (at + 1)..Len(disk.lines) : EventOf(at, i) \in EventSet =>
           \A acc \in good[i - 1] : IngestEvent(acc, EventOf(at, i)) \in good[i]
  PROVE  end \in good[Len(disk.lines)]
<1> DEFINE events == Batch(at).events
           n == Len(disk.lines) - at
           G == [k \in Nat |-> good[at + k]]
<1>0. Len(disk.lines) \in Nat /\ n \in Nat /\ at + n = Len(disk.lines)
  BY DEF RolloutTypes
<1>1. /\ Len(events) = n
      /\ \A i \in 1..n : events[i] \in EventSet /\ events[i] = EventOf(at, at + i)
  BY BatchLines DEF EventOf
<1> HIDE DEF events
<1>2. ASSUME NEW k \in 1..n, NEW acc \in good[at + k - 1]
      PROVE  IngestEvent(acc, events[k]) \in good[at + k]
  <2>1. at + k \in (at + 1)..Len(disk.lines)
    BY <1>0
  <2>2. events[k] = EventOf(at, at + k) /\ EventOf(at, at + k) \in EventSet
    BY <1>1
  <2> QED BY <2>1, <2>2
<1>3. Ingested(events) \subseteq G[Len(events)]
  <2> HIDE DEF n
  <2>1. ASSUME NEW k \in 1..Len(events), NEW acc \in G[k - 1]
        PROVE  IngestEvent(acc, events[k]) \in G[k]
    <3>1. k \in Nat /\ k - 1 \in Nat /\ at + (k - 1) = at + k - 1 /\ k \in 1..n
      BY <1>0, <1>1
    <3>2. G[k - 1] = good[at + k - 1] /\ G[k] = good[at + k]
      BY <3>1
    <3> HIDE DEF G
    <3> QED BY <1>2, <2>1, <3>1, <3>2
  <2>2. [rec |-> record, tomb |-> tombstone, out |-> mirrored] \in G[0] /\ Len(events) \in Nat
    BY <1>0, <1>1
  <2> HIDE DEF G
  <2> QED BY <2>1, <2>2, Folding
<1>4. G[Len(events)] = good[Len(disk.lines)]
  BY <1>0, <1>1
<1>5. end \in Ingested(events)
  BY DEF events
<1> QED BY <1>3, <1>4, <1>5

-----------------------------------------------------------------------------
(* The bridge: types, and who is in the inbox.                             *)

\* The places of the loop.
LEMMA LoopTyped ==
  /\ \A pc \in {"down", "read", "drain", "input", "row"} :
       Loop(pc) \in MainSet /\ Loop(pc).pc = pc /\ Loop(pc).rest = {} /\ Loop(pc).row = "none"
  /\ \A rest \in SUBSET Messages :
       /\ Rest(rest) \in MainSet /\ Rest(rest).rest = rest /\ Rest(rest).row = "none"
       /\ \/ Rest(rest).pc = "row" /\ rest # {}
          \/ Rest(rest).pc = "read" /\ rest = {}
BY DEF Loop, Rest, MainSet

\* The inbox holds finitely many messages.
LEMMA InboxFinite ==
  ASSUME NEW seq \in Seq(Messages)
  PROVE  IsFiniteSet(ToSet(seq))
<1>1. Len(seq) \in Nat /\ DOMAIN seq = 1..Len(seq) /\ seq \in [1..Len(seq) -> Messages]
  OBVIOUS
<1>2. IsFiniteSet(1..Len(seq))
  BY <1>1, FS_Interval
<1>3. seq \in Surjection(1..Len(seq), ToSet(seq))
  BY <1>1 DEF Surjection, ToSet
<1> QED BY <1>2, <1>3, FS_Surjection

\* The number a new record gets.
LEMMA MadeTyped ==
  ASSUME BridgeTypes, InboxInv
  PROVE  Made \in Nat
<1> DEFINE made == {n \in Messages : record[n] # NoRecord}
<1>1. made \subseteq ToSet(inbox)
  BY DEF InboxInv
<1>2. IsFiniteSet(ToSet(inbox))
  BY InboxFinite DEF BridgeTypes
<1>3. IsFiniteSet(made)
  <2> HIDE DEF made
  <2> QED BY <1>1, <1>2, FS_Subset
<1>4. Cardinality(made) \in Nat
  <2> HIDE DEF made
  <2> QED BY <1>3, FS_CardinalityType
<1> QED BY <1>4 DEF Made

\* The first of the rows that are left is one of them.
LEMMA FirstIn ==
  ASSUME BridgeTypes, NEW ms \in SUBSET Messages, ms # {}, ms \subseteq ToSet(inbox)
  PROVE  First(ms) \in ms
<1> DEFINE at == {i \in DOMAIN inbox : inbox[i] \in ms}
<1>0. DOMAIN inbox \in SUBSET Nat
  BY DEF BridgeTypes
<1>1. at \in SUBSET Nat /\ at # {}
  BY <1>0 DEF ToSet
<1>2. PICK i \in at : \A j \in at : i <= j
  <2> HIDE DEF at
  <2> QED BY <1>1, LeastOf
<1>3. ASSUME NEW n \in ms
      PROVE  \E k, j \in DOMAIN inbox : k <= j /\ inbox[k] = inbox[i] /\ inbox[j] = n
  <2>1. PICK j \in DOMAIN inbox : inbox[j] = n
    BY DEF ToSet
  <2> QED BY <1>2, <2>1
<1>4. \E m \in ms : \A n \in ms : \E k, j \in DOMAIN inbox : k <= j /\ inbox[k] = m /\ inbox[j] = n
  BY <1>2, <1>3
<1> QED BY <1>4 DEF First

\* The rows of a batch, and the records that exist after it.
LEMMA IngestTyped ==
  ASSUME RolloutTypes, BridgeTypes, NEW at \in Nat, at <= Len(disk.lines),
         NEW end \in Ingested(Batch(at).events)
  PROVE  end \in AccSet /\ \A m \in Messages : end.rec[m] # NoRecord => record[m] # NoRecord
<1> DEFINE S == {acc \in AccSet : \A m \in Messages : acc.rec[m] # NoRecord => record[m] # NoRecord}
           good == [i \in Nat |-> S]
           base == [rec |-> record, tomb |-> tombstone, out |-> mirrored]
<1>1. base \in S
  BY DEF AccSet, BridgeTypes
<1>2. ASSUME NEW e \in EventSet, NEW acc \in S PROVE IngestEvent(acc, e) \in S
  <2>1. acc \in AccSet /\ \A m \in Messages : acc.rec[m] # NoRecord => record[m] # NoRecord
    OBVIOUS
  <2>2. ASSUME NEW m \in Messages, acc.rec[m].state # "none" PROVE ClaimFor(acc, m, e) \in S
    <3>1. record[m] # NoRecord
      BY <2>1, <2>2 DEF NoRecord
    <3>2. ClaimFor(acc, m, e) \in AccSet
      BY <2>1, ClaimTyped
    <3>3. \A n \in Messages : n # m => ClaimFor(acc, m, e).rec[n] = acc.rec[n]
      <4> HIDE DEF S
      <4>1. \A n \in Messages :
              ClaimFor(acc, m, e).rec[n] =
                IF n = m THEN CameBack(acc.rec[m], e) ELSE acc.rec[n]
        BY <2>1, ClaimTyped
      <4> QED BY <4>1
    <3> QED BY <2>1, <3>1, <3>2, <3>3
  <2>3. Show(acc, e) \in S
    BY <2>1, ShowTyped
  <2>4. \A m \in ByClient(acc.rec, e) \cup Delayed(acc.rec, e) :
          m \in Messages /\ acc.rec[m].state # "none"
    BY DEF ByClient, Delayed, Claimable
  <2> HIDE DEF S
  <2> QED BY <2>1, <2>2, <2>3, <2>4, EventCases
<1>3. end \in S
  <2>0. Len(disk.lines) \in Nat
    BY DEF RolloutTypes
  <2>1. good \in [Nat -> SUBSET AccSet]
    OBVIOUS
  <2>2. base \in good[at]
    BY <1>1
  <2>3. \A i \in (at + 1)..Len(disk.lines) : good[i - 1] = S /\ good[i] = S
    <3> TAKE i \in (at + 1)..Len(disk.lines)
    <3>1. i - 1 \in Nat /\ i \in Nat
      BY <2>0
    <3> QED BY <3>1
  <2>4. good[Len(disk.lines)] = S
    BY <2>0
  <2> HIDE DEF S, good
  <2>5. \A i \in (at + 1)..Len(disk.lines) : EventOf(at, i) \in EventSet =>
           \A acc \in good[i - 1] : IngestEvent(acc, EventOf(at, i)) \in good[i]
    BY <1>2, <2>3
  <2> QED BY <2>1, <2>2, <2>4, <2>5, BatchTaken
<1> QED BY <1>3

\* Only the loop and its records change in most steps: what they must be then.
RowSteps == {"requirements", "add", "list", "snapshot", "submit", "relayed", "confirm"}

\* One record changes.
LEMMA RecordChange ==
  ASSUME BridgeTypes, InboxInv, UNCHANGED <<mode, starts, inbox, routing, age, mirrored>>,
         held' \in SUBSET Messages, tombstone' \in SUBSET Messages,
         record' \in [Messages -> RecordSet],
         \A m \in Messages : record'[m] # NoRecord => m \in ToSet(inbox),
         main' \in MainSet, main'.rest \subseteq main.rest,
         main'.pc = "row" => main'.rest # {},
         main'.pc \in RowSteps => main'.row \in ToSet(inbox)
  PROVE  BridgeTypes' /\ InboxInv'
<1>1. BridgeTypes'
  BY DEF BridgeTypes
<1>2. InboxInv'
  BY DEF InboxInv, RowSteps
<1> QED BY <1>1, <1>2

\* The bridge keeps its types, and the inbox every message it should.
LEMMA BridgeTyped ==
  ASSUME TypeInv, [Next]_vars
  PROVE  BridgeTypes' /\ InboxInv'
<1> USE DEF TypeInv
<1>0. /\ main \in MainSet /\ main.rest \in SUBSET Messages /\ main.rest \subseteq ToSet(inbox)
      /\ record \in [Messages -> RecordSet] /\ \A m \in Messages : record[m] \in RecordSet
      /\ held \in SUBSET Messages /\ tombstone \in SUBSET Messages
      /\ inbox \in Seq(Messages) /\ ToSet(inbox) \subseteq Messages
      /\ \A m \in Messages : record[m] # NoRecord => m \in ToSet(inbox)
      /\ main.pc \in RowSteps => row \in ToSet(inbox) /\ row \in Messages
      /\ NoRecord \in RecordSet
  BY DEF BridgeTypes, MainSet, InboxInv, ToSet, RowSteps, row, NoRecord, RecordSet
<1>1. /\ NextRow \in MainSet /\ NextRow.rest = main.rest /\ NextRow.pc \notin RowSteps
      /\ NextRow.pc = "row" => main.rest # {}
  BY <1>0, LoopTyped DEF NextRow, RowSteps
<1>2. CASE UNCHANGED <<bridgeVars, mode>>
  BY <1>2 DEF bridgeVars, BridgeTypes, InboxInv
<1>3. ASSUME NEW m \in Messages, Receive(m) PROVE BridgeTypes' /\ InboxInv'
  <2>1. inbox' = Append(inbox, m) /\ routing' = [routing EXCEPT ![m] = "routed"]
        /\ UNCHANGED <<mode, starts, main, age, held, record, tombstone, mirrored>>
    BY <1>3 DEF Receive
  <2>2. ToSet(inbox') = ToSet(inbox) \cup {m} /\ inbox' \in Seq(Messages)
    <3>1. inbox' \in Seq(Messages) /\ Len(inbox') = Len(inbox) + 1 /\ Len(inbox) \in Nat
          /\ DOMAIN inbox = 1..Len(inbox) /\ DOMAIN inbox' = 1..Len(inbox')
          /\ inbox'[Len(inbox) + 1] = m /\ \A i \in 1..Len(inbox) : inbox'[i] = inbox[i]
      BY <1>0, <2>1
    <3>2. 1..Len(inbox') = 1..Len(inbox) \cup {Len(inbox) + 1}
      BY <3>1
    <3> QED BY <3>1, <3>2 DEF ToSet
  <2>3. BridgeTypes'
    BY <2>1, <2>2 DEF BridgeTypes
  <2>4. InboxInv'
    BY <2>1, <2>2 DEF InboxInv, BridgeTypes
  <2> QED BY <2>3, <2>4
<1>4. ASSUME NEW m \in Messages, GrowOld(m) \/ Release(m) PROVE BridgeTypes' /\ InboxInv'
  <2>1. UNCHANGED <<mode, starts, main, inbox, routing, record, tombstone, mirrored>>
        /\ held' \in SUBSET Messages /\ age' \in [Messages -> 0..2]
    BY <1>4, <1>0 DEF GrowOld, Release, BridgeTypes
  <2> QED BY <2>1 DEF BridgeTypes, InboxInv
<1>5. ASSUME NEW pc \in {"down", "read", "drain", "input"}, main' = Loop(pc),
             starts' \in 1..MaxStarts, UNCHANGED <<mode, inbox, routing, age, held>>,
             record' \in [Messages -> RecordSet], tombstone' \in SUBSET Messages,
             mirrored' \in SUBSET ItemSet,
             \A m \in Messages : record'[m] # NoRecord => m \in ToSet(inbox)
      PROVE  BridgeTypes' /\ InboxInv'
  <2>1. main' \in MainSet /\ main'.rest = {} /\ main'.pc \notin RowSteps \cup {"row"}
    BY <1>5, LoopTyped DEF RowSteps
  <2>2. BridgeTypes'
    BY <1>5, <2>1 DEF BridgeTypes
  <2>3. InboxInv'
    BY <1>5, <2>1 DEF InboxInv, RowSteps
  <2> QED BY <2>2, <2>3
<1>6. CASE Activate \/ Drained
  BY <1>0, <1>5, <1>6 DEF Activate, Drained, AfterRead, BridgeTypes
<1>7. CASE Ingest
  <2>1. PICK end \in Ingested(Batch(cursor.at).events) :
          record' = end.rec /\ tombstone' = end.tomb /\ mirrored' = end.out
    BY <1>7 DEF Ingest
  <2>2. cursor.at \in Nat /\ cursor.at <= Len(disk.lines)
    BY <1>7 DEF Ingest, Refused, Replaced, Readable, RolloutTypes
  <2>3. end \in AccSet /\ \A m \in Messages : end.rec[m] # NoRecord => record[m] # NoRecord
    BY <2>2, IngestTyped
  <2>4. record' \in [Messages -> RecordSet] /\ tombstone' \in SUBSET Messages
        /\ mirrored' \in SUBSET ItemSet
        /\ \A m \in Messages : record'[m] # NoRecord => m \in ToSet(inbox)
    BY <1>0, <2>1, <2>3 DEF AccSet
  <2> QED BY <1>5, <1>7, <2>4 DEF Ingest, AfterRead, BridgeTypes
<1>8. CASE RefuseSource \/ ResumeRaises \/ Crash
  BY <1>0, <1>5, <1>8 DEF RefuseSource, ResumeRaises, Crash, Die, Down, BridgeTypes
<1>9. CASE Start
  <2>1. starts' \in 1..MaxStarts
    BY <1>9, UplinkAssumption DEF Start, BridgeTypes
  <2> QED BY <1>0, <1>5, <1>9, <2>1 DEF Start, BridgeTypes
<1>10. CASE Select
  <2> DEFINE late == {m \in Messages : Expiring(m)}
             todo == {m \in Messages \ late : Eligible(m)}
  <2>1. /\ routing' = [m \in Messages |-> IF m \in late THEN "rejected" ELSE routing[m]]
        /\ held' = held \ late /\ main' = Rest(todo)
        /\ UNCHANGED <<mode, starts, inbox, age, record, tombstone, mirrored>>
    BY <1>10 DEF Select
  <2>2. todo \subseteq ToSet(inbox) /\ \A m \in late : routing[m] # "absent"
    BY DEF Eligible, Expiring, InboxInv
  <2> HIDE DEF late, todo
  <2>3. routing' \in [Messages -> {"absent", "routed", "rejected"}]
    BY <2>1 DEF BridgeTypes
  <2>4. todo \in SUBSET Messages
    BY DEF todo
  <2>5. /\ main' \in MainSet /\ main'.rest = todo /\ main'.pc \notin RowSteps
        /\ main'.pc = "row" => todo # {}
    BY <2>1, <2>4, LoopTyped DEF RowSteps
  <2>6. BridgeTypes'
    BY <1>0, <2>1, <2>3, <2>5 DEF BridgeTypes
  <2>7. \A m \in Messages : routing'[m] # "absent" => routing[m] # "absent"
    BY <2>1, <2>2
  <2>8. InboxInv'
    BY <2>1, <2>2, <2>5, <2>7 DEF InboxInv, RowSteps
  <2> QED BY <2>6, <2>8
<1>11. CASE Row
  <2> DEFINE m == First(main.rest)
  <2>1. m \in main.rest
    BY <1>0, <1>11, FirstIn DEF Row, At, InboxInv
  <2>2. /\ ExpireRow(m) \/ RefuseRow(m) \/ TakeRow(m)
        /\ UNCHANGED <<mode, starts, inbox, age, held, tombstone, mirrored>>
    BY <1>11 DEF Row
  <2> HIDE DEF m
  <2>3. m \in Messages /\ m \in ToSet(inbox) /\ main.rest \ {m} \in SUBSET Messages
    BY <1>0, <2>1
  <2>4. CASE ExpireRow(m) \/ RefuseRow(m)
    <3>1. routing' = [routing EXCEPT ![m] = "rejected"] /\ record' = record
          /\ main' = Rest(main.rest \ {m})
      BY <2>4 DEF ExpireRow, RefuseRow
    <3>2. /\ main' \in MainSet /\ main'.rest = main.rest \ {m} /\ main'.pc \notin RowSteps
          /\ main'.pc = "row" => main'.rest # {}
      BY <2>3, <3>1, LoopTyped DEF RowSteps
    <3>3. BridgeTypes'
      BY <2>2, <2>3, <3>1, <3>2 DEF BridgeTypes
    <3>4. InboxInv'
      BY <1>0, <2>2, <2>3, <3>1, <3>2 DEF InboxInv, RowSteps, BridgeTypes
    <3> QED BY <3>3, <3>4
  <2>5. CASE TakeRow(m)
    <3>1. /\ routing' = routing
          /\ \E pc \in {"requirements", "snapshot"} :
               main' = [main EXCEPT !.pc = pc, !.row = m, !.rest = @ \ {m}]
          /\ \/ record' = record
             \/ record' = [record EXCEPT ![m] = [NoRecord EXCEPT !.state = "prepared", !.made = Made]]
      BY <2>5 DEF TakeRow, Prepare
    <3>2. [NoRecord EXCEPT !.state = "prepared", !.made = Made] \in RecordSet
      BY MadeTyped DEF NoRecord, RecordSet
    <3>3. record' \in [Messages -> RecordSet]
          /\ \A n \in Messages : record'[n] # NoRecord => n \in ToSet(inbox)
      BY <1>0, <2>3, <3>1, <3>2
    <3>4. main' \in MainSet /\ main'.rest \subseteq main.rest /\ main'.pc # "row" /\ main'.row = m
      BY <1>0, <2>3, <3>1 DEF MainSet
    <3> QED BY <1>0, <2>2, <2>3, <3>1, <3>3, <3>4, RecordChange
  <2> QED BY <2>2, <2>4, <2>5
<1>12. ASSUME main.pc \in RowSteps, NEW v \in RecordSet, record' = [record EXCEPT ![row] = v]
       PROVE  /\ record' \in [Messages -> RecordSet]
              /\ \A m \in Messages : record'[m] # NoRecord => m \in ToSet(inbox)
  BY <1>0, <1>12
<1>13. /\ \A pc \in {"add", "list", "resume", "drain", "submit", "relayed", "confirm"} :
            /\ [main EXCEPT !.pc = pc] \in MainSet
            /\ [main EXCEPT !.pc = pc].rest = main.rest
            /\ [main EXCEPT !.pc = pc].row = main.row
            /\ [main EXCEPT !.pc = pc].pc = pc
       /\ row = main.row
  BY <1>0 DEF MainSet, row
<1>14. CASE NoRequirements
  <2>1. main.pc \in RowSteps /\ held' = held \cup {row} /\ main' = NextRow /\ record' = record
        /\ UNCHANGED <<mode, starts, inbox, routing, age, tombstone, mirrored>>
    BY <1>14 DEF NoRequirements, At, DeferRow, RowSteps
  <2> QED BY <1>0, <1>1, <2>1, RecordChange
<1>15. CASE GotRequirements
  <2>1. main.pc \in RowSteps /\ UNCHANGED <<mode, starts, inbox, routing, age, tombstone, mirrored>>
    BY <1>15 DEF GotRequirements, At, RowSteps
  <2>2. CASE held' = held /\ Prepare(row, "add")
    <3>1. [NoRecord EXCEPT !.state = "prepared", !.made = Made] \in RecordSet
      BY MadeTyped DEF NoRecord, RecordSet
    <3>2. /\ record' \in [Messages -> RecordSet]
          /\ \A m \in Messages : record'[m] # NoRecord => m \in ToSet(inbox)
      BY <2>1, <2>2, <3>1, <1>12 DEF Prepare
    <3>3. main' \in MainSet /\ main'.rest \subseteq main.rest /\ main'.pc = "add" /\ main'.row = row
      BY <1>0, <2>1, <2>2 DEF MainSet, Prepare
    <3> QED BY <1>0, <2>1, <2>2, <3>2, <3>3, RecordChange
  <2>3. CASE record' = record /\ held' = held \cup {row} /\ main' = NextRow
    BY <1>0, <1>1, <2>1, <2>3, RecordChange
  <2> QED BY <1>15, <2>2, <2>3 DEF GotRequirements, DeferRow
<1>16. CASE AskAdd
  <2> DEFINE v == [record[row] EXCEPT !.state = "bytes_sending", !.request = "rpc"]
  <2>1. main.pc \in RowSteps /\ main' = main /\ main.pc # "row"
        /\ record' = [record EXCEPT ![row].state = "bytes_sending", ![row].request = "rpc"]
        /\ UNCHANGED <<mode, starts, inbox, routing, age, held, tombstone, mirrored>>
    BY <1>16 DEF AskAdd, At, RowSteps
  <2>2. v \in RecordSet
    BY <1>0, <2>1 DEF RecordSet
  <2>3. record' = [record EXCEPT ![row] = v]
    BY <1>0, <2>1
  <2> HIDE DEF v
  <2> QED BY <1>0, <1>12, <1>13, <2>1, <2>2, <2>3, RecordChange
<1>17. CASE NoAdd
  <2>1. main.pc \in RowSteps /\ main' = [main EXCEPT !.pc = "list"]
        /\ UNCHANGED <<mode, starts, inbox, routing, age, held, record, tombstone, mirrored>>
    BY <1>17 DEF NoAdd, At, RowSteps, Go
  <2> QED BY <1>0, <1>13, <2>1, RecordChange
\* The record of the row changes to v; the loop goes on with it or the next.
<1>18. ASSUME main.pc \in RowSteps, NEW v \in RecordSet, record' = [record EXCEPT ![row] = v],
              \/ main' = NextRow
              \/ \E pc \in {"list", "confirm", "relayed"} : main' = [main EXCEPT !.pc = pc],
              tombstone' \in {tombstone, tombstone \cup {row}}, held' \in {held, held \cup {row}},
              UNCHANGED <<mode, starts, inbox, routing, age, mirrored>>
       PROVE  BridgeTypes' /\ InboxInv'
  <2>1. /\ record' \in [Messages -> RecordSet]
        /\ \A m \in Messages : record'[m] # NoRecord => m \in ToSet(inbox)
    BY <1>12, <1>18
  <2>2. /\ tombstone' \in SUBSET Messages /\ held' \in SUBSET Messages
    BY <1>0, <1>18
  <2>3. CASE main' = NextRow
    BY <1>0, <1>1, <1>18, <2>1, <2>2, <2>3, RecordChange
  <2>4. ASSUME NEW pc \in {"list", "confirm", "relayed"}, main' = [main EXCEPT !.pc = pc]
        PROVE  BridgeTypes' /\ InboxInv'
    <3>1. main' \in MainSet /\ main'.rest = main.rest /\ main'.row = main.row /\ main'.pc # "row"
      BY <1>13, <2>4
    <3> QED BY <1>0, <1>13, <1>18, <2>1, <2>2, <3>1, RecordChange
  <2> QED BY <1>18, <2>3, <2>4
<1>19. ASSUME main.pc \in RowSteps, NEW s \in {"outcome_unknown"}, SetState(row, s)
       PROVE  \E v \in RecordSet : record' = [record EXCEPT ![row] = v]
  <2> DEFINE v == [record[row] EXCEPT !.state = s]
  <2>1. v \in RecordSet
    BY <1>0, <1>19 DEF RecordSet
  <2>2. record' = [record EXCEPT ![row] = v]
    BY <1>0, <1>19 DEF SetState
  <2> HIDE DEF v
  <2> QED BY <2>1, <2>2
<1>20. ASSUME main.pc \in RowSteps, NEW turn \in Nat, NEW item \in Nat, Accept(row, turn, item),
              UNCHANGED <<mode, starts, inbox, routing, age, held, mirrored>>
       PROVE  BridgeTypes' /\ InboxInv'
  <2> DEFINE v == [record[row] EXCEPT !.state = "accepted", !.turn = turn, !.item = item]
  <2>1. v \in RecordSet
    BY <1>0, <1>20 DEF RecordSet
  <2>2. /\ record' = [record EXCEPT ![row] = v]
        /\ tombstone' = tombstone \cup {row} /\ main' = NextRow
    BY <1>0, <1>20 DEF Accept
  <2> HIDE DEF v
  <2> QED BY <1>18, <1>20, <2>1, <2>2
<1>21. main.pc \in RowSteps => record[row] \in RecordSet /\ record[row].turn \in Nat
                              /\ record[row].item \in Nat /\ record = [record EXCEPT ![row] = record[row]]
  BY <1>0 DEF RecordSet
<1>22. CASE GotAdd
  <2>1. main.pc \in RowSteps /\ UNCHANGED <<mode, starts, inbox, routing, age, held, mirrored>>
    BY <1>22 DEF GotAdd, At, RowSteps
  <2>2. CASE Accept(row, record[row].turn, record[row].item)
    BY <1>20, <1>21, <2>1, <2>2
  <2>3. CASE SetState(row, "outcome_unknown") /\ Go("list") /\ UNCHANGED tombstone
    <3>1. main' = [main EXCEPT !.pc = "list"] /\ tombstone' = tombstone
      BY <2>3 DEF Go
    <3> QED BY <1>18, <1>19, <2>1, <2>3, <3>1
  <2> QED BY <1>22, <2>2, <2>3 DEF GotAdd
<1>23. CASE NoList
  <2>1. main.pc \in RowSteps /\ main' = NextRow
        /\ UNCHANGED <<mode, starts, inbox, routing, age, held, record, tombstone, mirrored>>
    BY <1>23 DEF NoList, At, RowSteps
  <2> QED BY <1>0, <1>1, <2>1, RecordChange
<1>24. CASE GotList
  <2>1. main.pc \in RowSteps /\ UNCHANGED <<mode, starts, inbox, routing, age, held, mirrored>>
    BY <1>24 DEF GotList, At, RowSteps
  <2>2. CASE Accept(row, record[row].turn, record[row].item)
    BY <1>20, <1>21, <2>1, <2>2
  <2>3. CASE main' = NextRow /\ UNCHANGED <<record, tombstone>>
    BY <1>0, <1>1, <2>1, <2>3, RecordChange
  <2> QED BY <1>24, <2>2, <2>3 DEF GotList
<1>25. CASE DrainNote
  <2>1. main.pc = "drain" /\ UNCHANGED <<mode, starts, inbox, routing, age, held, tombstone, mirrored>>
    BY <1>25 DEF DrainNote, At
  <2>2. main' = main \/ main' = [main EXCEPT !.pc = "resume"]
    BY <1>25 DEF DrainNote, Go
  <2>3. main' \in MainSet /\ main'.rest = main.rest /\ main'.pc \notin RowSteps \cup {"row"}
    BY <1>0, <1>13, <2>1, <2>2 DEF RowSteps
  <2>4. \/ record' = record
        \/ \E m \in Messages : record[m].state = "accepted" /\ SetState(m, "completed")
    <3> DEFINE own == {m \in Messages : record[m].state = "accepted" /\ record[m].turn = Head(notes).turn}
    <3>1. CASE own = {}
      BY <1>25, <3>1 DEF DrainNote
    <3>2. CASE own # {}
      <4>1. (CHOOSE n \in own : TRUE) \in own
        BY <3>2
      <4> QED BY <1>25, <3>2, <4>1 DEF DrainNote
    <3> QED BY <3>1, <3>2
  <2>5. ASSUME NEW m \in Messages, record[m].state = "accepted", SetState(m, "completed")
        PROVE  /\ record' \in [Messages -> RecordSet]
               /\ \A n \in Messages : record'[n] # NoRecord => n \in ToSet(inbox)
    <3> DEFINE v == [record[m] EXCEPT !.state = "completed"]
    <3>1. v \in RecordSet /\ record[m] # NoRecord
      BY <1>0, <2>5 DEF RecordSet, NoRecord
    <3>2. record' = [record EXCEPT ![m] = v]
      BY <1>0, <2>5 DEF SetState
    <3> HIDE DEF v
    <3> QED BY <1>0, <3>1, <3>2
  <2>6. /\ record' \in [Messages -> RecordSet]
        /\ \A n \in Messages : record'[n] # NoRecord => n \in ToSet(inbox)
    BY <1>0, <2>4, <2>5
  <2> QED BY <1>0, <2>1, <2>3, <2>6, RecordChange
<1>26. CASE GotResume
  <2>1. main' = [main EXCEPT !.pc = "drain"]
        /\ UNCHANGED <<mode, starts, inbox, routing, age, held, record, tombstone, mirrored>>
    BY <1>26 DEF GotResume, Go
  <2>2. main' \in MainSet /\ main'.rest = main.rest /\ main'.pc \notin RowSteps \cup {"row"}
    BY <1>13, <2>1 DEF RowSteps
  <2> QED BY <1>0, <2>1, <2>2, RecordChange
<1>27. CASE Snapshot
  <2> DEFINE v == [record[row] EXCEPT !.state = "bytes_sending", !.request = "ui"]
  <2>1. main.pc \in RowSteps
        /\ record' = [record EXCEPT ![row].state = "bytes_sending", ![row].request = "ui"]
        /\ main' = [main EXCEPT !.pc = "submit", !.size = FileSize, !.relaySize = Len(relay.log)]
        /\ UNCHANGED <<mode, starts, inbox, routing, age, held, tombstone, mirrored>>
    BY <1>27 DEF Snapshot, At, RowSteps
  <2>2. v \in RecordSet
    BY <1>0, <2>1 DEF RecordSet
  <2>3. record' = [record EXCEPT ![row] = v]
    BY <1>0, <2>1
  <2>4. FileSize \in Nat /\ Len(relay.log) \in Nat
    BY SMTT(30) DEF FileSize, RolloutTypes, CodexTypes
  <2>5. main' \in MainSet /\ main'.rest = main.rest /\ main'.row = main.row /\ main'.pc = "submit"
    BY <1>0, <2>1, <2>4 DEF MainSet
  <2> HIDE DEF v
  <2> QED BY <1>0, <1>12, <1>13, <2>1, <2>2, <2>3, <2>5, RecordChange
<1>28. CASE Submit
  <2>1. main.pc \in RowSteps /\ UNCHANGED <<mode, starts, inbox, routing, age, held, tombstone, mirrored>>
    BY <1>28 DEF Submit, At, RowSteps
  <2>2. CASE Go("relayed") /\ UNCHANGED record
    <3>1. main' = [main EXCEPT !.pc = "relayed"]
      BY <2>2 DEF Go
    <3> QED BY <1>18, <1>21, <2>1, <2>2, <3>1
  <2>3. CASE record' = [record EXCEPT ![row].request = "submitted"] /\ Go("confirm")
    <3> DEFINE v == [record[row] EXCEPT !.request = "submitted"]
    <3>1. v \in RecordSet
      BY <1>0, <2>1 DEF RecordSet
    <3>2. record' = [record EXCEPT ![row] = v] /\ main' = [main EXCEPT !.pc = "confirm"]
      BY <1>0, <2>1, <2>3 DEF Go
    <3> HIDE DEF v
    <3> QED BY <1>18, <2>1, <3>1, <3>2
  <2>4. CASE SetState(row, "outcome_unknown") /\ main' = NextRow
    BY <1>18, <1>19, <2>1, <2>4
  <2> QED BY <1>28, <2>2, <2>3, <2>4 DEF Submit
<1>29. CASE FindRelay
  <2> DEFINE v == [record[row] EXCEPT !.request = "submitted"]
  <2>1. main.pc \in RowSteps /\ UNCHANGED <<mode, starts, inbox, routing, age, held, tombstone, mirrored>>
        /\ record' = [record EXCEPT ![row].request = "submitted"]
        /\ main' = [main EXCEPT !.pc = "confirm"]
    BY <1>29 DEF FindRelay, At, RowSteps, Go
  <2>2. v \in RecordSet
    BY <1>0, <2>1 DEF RecordSet
  <2>3. record' = [record EXCEPT ![row] = v]
    BY <1>0, <2>1
  <2> HIDE DEF v
  <2> QED BY <1>18, <2>1, <2>2, <2>3
<1>30. CASE MissRelay
  <2>1. main.pc \in RowSteps /\ UNCHANGED <<mode, starts, inbox, routing, age, tombstone, mirrored>>
        /\ record' = [record EXCEPT ![row] = NoRecord] /\ held' = held \cup {row} /\ main' = NextRow
    BY <1>30 DEF MissRelay, At, RowSteps, DeferRow
  <2> QED BY <1>0, <1>18, <2>1
<1>31. CASE FindTurn
  <2> DEFINE i == CHOOSE k \in NewItems(row) : \A j \in NewItems(row) : k <= j
  <2>1. main.pc \in RowSteps /\ UNCHANGED <<mode, starts, inbox, routing, age, held, mirrored>>
    BY <1>31 DEF FindTurn, At, RowSteps
  <2>2. i \in NewItems(row)
    <3>1. NewItems(row) \in SUBSET Nat /\ NewItems(row) # {}
      BY <1>31, SMTT(30) DEF NewItems, FindTurn, RolloutTypes
    <3> QED BY <3>1, LeastOf
  <2>3. disk.lines[i] \in LineSet
    BY <2>2, SMTT(30) DEF NewItems, RolloutTypes
  <2>4. Accept(row, disk.lines[i].turn, disk.lines[i].item)
    BY <1>31 DEF FindTurn
  <2>5. disk.lines[i].turn \in Nat /\ disk.lines[i].item \in Nat
    BY <2>3 DEF LineSet
  <2> HIDE DEF i
  <2> QED BY <1>20, <2>1, <2>4, <2>5
<1>32. CASE GiveUp
  <2>1. main.pc \in RowSteps /\ UNCHANGED <<mode, starts, inbox, routing, age, held, tombstone, mirrored>>
        /\ SetState(row, "outcome_unknown") /\ main' = NextRow
    BY <1>32 DEF GiveUp, At, RowSteps
  <2> QED BY <1>18, <1>19, <2>1
<1>33. CASE AppServerStep
  BY <1>2, <1>6, <1>8, <1>14, <1>15, <1>16, <1>17, <1>22, <1>23, <1>24, <1>25, <1>26, <1>33
  DEF AppServerStep, AskRequirements, AskList, AskResume
<1>34. CASE CodexStep
  BY <1>2, <1>34 DEF CodexStep, Enqueue, QueueLocal, TakeQueued, FinishTurn, Writes, TakeSubmission,
     TakeInstruction, Delegate
<1>35. CASE Respond \/ EndOfOutput \/ Impatience \/ AskTitle \/ GotTitle \/ UNCHANGED vars
  BY <1>2, <1>35 DEF Respond, EndOfOutput, Impatience, AskTitle, GotTitle, vars
<1> QED
  BY <1>3, <1>4, <1>6, <1>7, <1>8, <1>9, <1>10, <1>11, <1>27, <1>28, <1>29, <1>30, <1>31, <1>32,
     <1>33, <1>34, <1>35
  DEF Next, MainStep, DesktopStep, Time

\* Codex keeps its types.
LEMMA CodexTyped ==
  ASSUME TypeInv, [Next]_vars
  PROVE  CodexTypes'
<1> USE DEF TypeInv
<1>0. /\ queue \in Seq(Messages \cup {"local"}) /\ desk \in SUBSET Messages
      /\ notes \in Seq([turn : Nat, failed : BOOLEAN])
      /\ relay \in [log : Seq(Messages), done : Nat, inbox : Seq(Messages)]
      /\ relay.done <= Len(relay.log)
  BY DEF CodexTypes
<1>1. CASE UNCHANGED codexVars
  BY <1>1 DEF codexVars, CodexTypes
<1>2. CASE RefuseSource \/ ResumeRaises \/ Crash
  <2>1. notes' = <<>> /\ UNCHANGED <<queue, desk, relay>>
    BY <1>2 DEF RefuseSource, ResumeRaises, Crash, Die
  <2>2. notes' \in Seq([turn : Nat, failed : BOOLEAN])
    BY <2>1
  <2> QED BY <1>0, <2>1, <2>2 DEF CodexTypes
<1>3. CASE DrainNote
  <2>1. notes' = Tail(notes) /\ notes # <<>> /\ UNCHANGED <<queue, desk, relay>>
    BY <1>3 DEF DrainNote
  <2> QED BY <1>0, <2>1 DEF CodexTypes
<1>4. CASE Enqueue
  <2>1. PICK call \in asked : call.method = "add" /\ queue' = Append(queue, call.msg)
    BY <1>4 DEF Enqueue
  <2>2. call.msg \in Messages \cup {"local"}
    BY <2>1 DEF CallInv
  <2>3. queue' \in Seq(Messages \cup {"local"})
    BY <1>0, <2>1, <2>2
  <2>4. UNCHANGED <<notes, desk, relay>>
    BY <1>4 DEF Enqueue
  <2> QED BY <2>3, <2>4 DEF CodexTypes
<1>5. CASE QueueLocal
  BY <1>0, <1>5 DEF QueueLocal, CodexTypes
<1>6. CASE TakeQueued
  <2>1. queue' = Tail(queue) /\ queue # <<>> /\ UNCHANGED <<notes, desk, relay>>
    BY <1>6 DEF TakeQueued
  <2> QED BY <1>0, <2>1 DEF CodexTypes
<1>7. CASE FinishTurn
  <2>1. LastTurn \in Nat
    BY ContextTyped DEF LastTurn, RolloutTypes
  <2>2. \A failed \in BOOLEAN : Append(notes, [turn |-> LastTurn, failed |-> failed])
                                  \in Seq([turn : Nat, failed : BOOLEAN])
    BY <1>0, <2>1
  <2>3. notes' \in Seq([turn : Nat, failed : BOOLEAN]) /\ UNCHANGED <<queue, desk, relay>>
    BY <1>0, <1>7, <2>2 DEF FinishTurn
  <2> QED BY <2>3 DEF CodexTypes
<1>8. CASE TakeSubmission
  <2>1. desk' \in SUBSET Messages /\ UNCHANGED <<queue, notes, relay>>
    BY <1>0, <1>8 DEF TakeSubmission
  <2> QED BY <2>1 DEF CodexTypes
<1>9. CASE TakeInstruction
  <2>1. relay.inbox # <<>>
        /\ relay' = [relay EXCEPT !.inbox = Tail(@), !.log = Append(@, Head(relay.inbox))]
        /\ UNCHANGED <<queue, notes, desk>>
    BY <1>9 DEF TakeInstruction
  <2>2. /\ Tail(relay.inbox) \in Seq(Messages) /\ Head(relay.inbox) \in Messages
        /\ Append(relay.log, Head(relay.inbox)) \in Seq(Messages)
        /\ Len(Append(relay.log, Head(relay.inbox))) = Len(relay.log) + 1
        /\ Len(relay.log) \in Nat
    BY <1>0, <2>1
  <2>3. /\ relay' \in [log : Seq(Messages), done : Nat, inbox : Seq(Messages)]
        /\ relay'.done = relay.done /\ relay'.log = Append(relay.log, Head(relay.inbox))
    BY <1>0, <2>1, <2>2
  <2>4. relay'.done <= Len(relay'.log)
    BY <1>0, <2>2, <2>3
  <2> QED BY <2>1, <2>3, <2>4 DEF CodexTypes
<1>10. CASE Delegate
  <2>1. relay.done < Len(relay.log) /\ relay' = [relay EXCEPT !.done = @ + 1]
        /\ UNCHANGED <<queue, notes, desk>>
    BY <1>10 DEF Delegate
  <2>0. relay.done \in Nat /\ relay.log \in Seq(Messages) /\ Len(relay.log) \in Nat
        /\ relay.done + 1 \in Nat
    BY <1>0
  <2>2. /\ relay' \in [log : Seq(Messages), done : Nat, inbox : Seq(Messages)]
        /\ relay'.done = relay.done + 1 /\ relay'.log = relay.log
    <3> DEFINE n == relay.done + 1
    <3>1. n \in Nat /\ relay' = [relay EXCEPT !.done = n]
      BY <2>0, <2>1
    <3> HIDE DEF n
    <3>2. relay' \in [log : Seq(Messages), done : Nat, inbox : Seq(Messages)]
          /\ relay'.done = n /\ relay'.log = relay.log
      BY <1>0, <3>1
    <3> QED BY <3>2 DEF n
  <2>3. relay'.done <= Len(relay'.log)
    BY <2>0, <2>1, <2>2
  <2> QED BY <1>0, <2>1, <2>2, <2>3 DEF CodexTypes
<1>11. CASE Submit
  <2>0. row \in Messages
    BY <1>11 DEF Submit, At, row, InboxInv, ToSet, BridgeTypes
  <2>1. UNCHANGED <<queue, notes>> /\ (UNCHANGED <<desk, relay>> \/ Taken(row))
    BY <1>11 DEF Submit
  <2>2. CASE Taken(row)
    <3>1. Append(relay.inbox, row) \in Seq(Messages)
      BY <1>0, <2>0
    <3>2. CASE desk' = desk \cup {row} /\ relay' = relay
      <4>1. desk' \in SUBSET Messages
        BY <1>0, <2>0, <3>2
      <4> QED BY <1>0, <2>1, <3>2, <4>1 DEF CodexTypes
    <3>3. CASE desk' = desk /\ relay' = [relay EXCEPT !.inbox = Append(@, row)]
      <4>1. /\ relay' \in [log : Seq(Messages), done : Nat, inbox : Seq(Messages)]
            /\ relay'.done = relay.done /\ relay'.log = relay.log
        BY <1>0, <3>1, <3>3
      <4>2. relay'.done <= Len(relay'.log)
        BY <1>0, <4>1
      <4> QED BY <2>1, <3>3, <4>1, <4>2 DEF CodexTypes
    <3> QED BY <2>2, <3>2, <3>3 DEF Taken
  <2> QED BY <2>1, <2>2 DEF CodexTypes
<1>12. CASE AppServerStep
  BY <1>1, <1>2, <1>3, <1>12 DEF AppServerStep, AskRequirements, NoRequirements, GotRequirements,
     AskAdd, NoAdd, GotAdd, AskList, NoList, GotList, Drained, AskResume, GotResume, codexVars
<1>13. CASE DesktopStep
  BY <1>1, <1>11, <1>13 DEF DesktopStep, Snapshot, FindRelay, MissRelay, FindTurn, GiveUp, codexVars
<1>14. CASE Activate \/ Ingest \/ Select \/ Row \/ Start \/ Time \/ Writes
            \/ \E m \in Messages : Receive(m)
  BY <1>1, <1>14 DEF Activate, Ingest, Select, Row, Start, Time, GrowOld, Release, Receive, Writes,
     codexVars
<1>15. CASE Respond \/ EndOfOutput \/ Impatience \/ AskTitle \/ GotTitle \/ UNCHANGED vars
  BY <1>1, <1>15 DEF Respond, EndOfOutput, Impatience, AskTitle, GotTitle, codexVars, vars
<1> QED
  BY <1>2, <1>4, <1>5, <1>6, <1>7, <1>8, <1>9, <1>10, <1>12, <1>13, <1>14, <1>15
  DEF Next, MainStep, CodexStep

\* While the main loop waits for a response it is at a request.
LEMMA WaitKept ==
  ASSUME TypeInv, [Next]_vars
  PROVE  WaitInv'
<1> DEFINE four == {"requirements", "add", "list", "resume"}
<1>0. /\ "main" \in Callers /\ "title" \in Callers /\ "main" # "title"
      /\ DOMAIN waiting = Callers /\ main \in MainSet
  BY UplinkAssumption DEF TypeInv, ConnectionTypes, BridgeTypes
<1>1. waiting["main"] # Idle => main.pc \in four
  BY DEF TypeInv, WaitInv
\* The loop goes on or not, and nobody asks anything for it.
<1>2. CASE waiting'["main"] = Idle
  BY <1>2 DEF WaitInv
<1>3. CASE waiting' = waiting /\ (main' = main \/ waiting["main"] = Idle)
  BY <1>1, <1>3 DEF WaitInv
<1>4. CASE main' = main /\ main.pc \in four
  BY <1>4 DEF WaitInv
<1>5. CASE main' = main /\ (waiting["main"] = Idle => waiting'["main"] = Idle)
  BY <1>1, <1>5 DEF WaitInv
<1>6. CASE AskRequirements \/ AskAdd \/ AskList \/ AskResume
  BY <1>4, <1>6 DEF AskRequirements, AskAdd, AskList, AskResume, bridgeVars, At
<1>7. CASE GotRequirements \/ GotAdd \/ GotList \/ GotResume
  <2>1. Leave("main")
    BY <1>7 DEF GotRequirements, GotAdd, GotList, GotResume
  <2> QED BY <1>0, <1>2, <2>1 DEF Leave
<1>8. CASE NoRequirements \/ NoAdd \/ NoList
  BY <1>3, <1>8 DEF NoRequirements, NoAdd, NoList, Idling, connectionVars
<1>9. CASE RefuseSource \/ ResumeRaises \/ Crash
  <2>1. Reconnect
    BY <1>9 DEF RefuseSource, ResumeRaises, Crash, Die
  <2> QED BY <1>0, <1>2, <2>1 DEF Reconnect
<1>10. CASE DrainNote \/ Drained \/ Activate \/ Ingest \/ Select \/ Row \/ Start
  <2>1. main.pc \notin four
    BY <1>10 DEF DrainNote, Drained, Activate, Ingest, Select, Row, Start, At
  <2>2. waiting' = waiting
    BY <1>10 DEF DrainNote, Drained, Activate, Ingest, Select, Row, Start, connectionVars
  <2> QED BY <1>1, <1>3, <2>1, <2>2
<1>11. CASE DesktopStep
  <2>1. main.pc \notin four
    BY <1>11 DEF DesktopStep, Snapshot, Submit, FindRelay, MissRelay, FindTurn, GiveUp, At
  <2>2. waiting' = waiting
    BY <1>11 DEF DesktopStep, Snapshot, Submit, FindRelay, MissRelay, FindTurn, GiveUp, connectionVars
  <2> QED BY <1>1, <1>3, <2>1, <2>2
<1>12. CASE CodexStep \/ Time \/ (\E m \in Messages : Receive(m)) \/ UNCHANGED vars
  <2>1. waiting' = waiting /\ main' = main
    BY <1>12 DEF CodexStep, Enqueue, Serve, QueueLocal, TakeQueued, FinishTurn, Writes, TakeSubmission,
       TakeInstruction, Delegate, Time, GrowOld, Release, Receive, vars, connectionVars, bridgeVars
  <2> QED BY <1>3, <2>1
<1>13. CASE AskTitle \/ GotTitle
  <2>1. main' = main
    BY <1>13 DEF AskTitle, GotTitle, bridgeVars
  <2>2. waiting'["main"] = waiting["main"]
    BY <1>0, <1>13 DEF AskTitle, GotTitle, Request, Leave
  <2> QED BY <1>5, <2>1, <2>2
<1>14. CASE Respond \/ EndOfOutput \/ Impatience
  <2>1. main' = main
    BY <1>14 DEF Respond, EndOfOutput, Impatience, bridgeVars
  <2>2. waiting["main"] = Idle => waiting'["main"] = Idle
    <3>1. Idle.stage = "idle"
      BY DEF Idle
    <3>2. CASE Respond
      <4>1. PICK call \in asked : \/ \E reply \in Replies(call) : Answer(call, reply)
                                 \/ DropLate(call) \/ RejectAnswer(call)
        BY <3>2 DEF Respond
      <4>2. CASE DropLate(call) \/ RejectAnswer(call)
        BY <4>2 DEF DropLate, RejectAnswer
      <4>3. ASSUME NEW reply, Answer(call, reply), waiting["main"] = Idle
            PROVE  waiting'["main"] = Idle
        <5>1. PICK c \in Callers : waiting' = [waiting EXCEPT ![c] =
                 IF @.stage = "waiting" THEN [@ EXCEPT !.stage = "has", !.reply = reply] ELSE @]
          BY <4>3 DEF Answer
        <5>2. CASE c = "main"
          BY <1>0, <3>1, <4>3, <5>1, <5>2
        <5>3. CASE c # "main"
          BY <1>0, <4>3, <5>1, <5>3
        <5> QED BY <5>2, <5>3
      <4> QED BY <4>1, <4>2, <4>3
    <3>3. CASE EndOfOutput
      BY <3>3 DEF EndOfOutput, CloseOutput
    <3>4. CASE Impatience
      BY <1>0, <3>1, <3>4 DEF Impatience, TimeOut, Expire
    <3> QED BY <1>14, <3>2, <3>3, <3>4
  <2> QED BY <1>5, <2>1, <2>2
<1> QED
  BY <1>6, <1>7, <1>8, <1>9, <1>10, <1>11, <1>12, <1>13, <1>14
  DEF Next, MainStep, AppServerStep

\* At first the types hold.
LEMMA TypedAtFirst ==
  ASSUME Init
  PROVE  TypeInv /\ AskedInv
<1> USE DEF Init
<1>0. NoCursor.last = NoLine /\ NoLine \in LineSet /\ Meta \in LineSet /\ Idle \in WaitSet
      /\ NoCall \in CallSet /\ NoRecord \in RecordSet /\ Loop("read") \in MainSet
      /\ Loop("read").pc = "read" /\ Loop("read").rest = {}
  BY LineTyped, LoopTyped DEF NoCursor, NoLine, Meta, Idle, NoCall, NoRecord, LineSet, WaitSet, CallSet,
     RecordSet, Line, Types, Owners
<1>1. RolloutTypes
  BY <1>0, RolloutAssumption DEF RolloutInit, RolloutTypes, NoCursor, NoCache
<1>2. ConnectionTypes
  BY <1>0 DEF ConnectionInit, ConnectionTypes
<1>3. BridgeTypes
  BY <1>0, UplinkAssumption DEF BridgeTypes
<1>4. CodexTypes
  BY DEF CodexTypes
<1>5. TailInv
  BY DEF TailInv, RolloutInit, Visible, NoLine, Meta, Line
<1>6. FileInv
  BY RolloutAssumption DEF FileInv, RolloutInit, NoCursor
<1>7. InboxInv
  BY <1>0 DEF InboxInv
<1>8. WaitInv /\ CallInv
  BY UplinkAssumption DEF WaitInv, CallInv, ConnectionInit
<1>9. AskedInv
  BY DEF AskedInv, ConnectionInit, Idle
<1> QED BY <1>1, <1>2, <1>3, <1>4, <1>5, <1>6, <1>7, <1>8, <1>9 DEF TypeInv

\* Every step keeps them.
LEMMA TypedKept ==
  ASSUME TypeInv, AskedInv, [Next]_vars
  PROVE  TypeInv' /\ AskedInv'
<1>0. RolloutTypes /\ ConnectionTypes /\ BridgeTypes /\ CodexTypes /\ TailInv /\ FileInv /\ InboxInv
      /\ CallInv
  BY DEF TypeInv
<1>1. RolloutStep /\ ConnectionStep
  BY <1>0, RolloutSteps, ConnectionSteps
<1>2. RolloutTypes' /\ TailInv' /\ FileInv'
  BY <1>0, <1>1, RolloutTyped
<1>3. ConnectionTypes' /\ CallInv' /\ AskedInv'
  BY <1>0, <1>1, ConnectionTyped, AddNamesMessage, AskedKept
<1>4. BridgeTypes' /\ InboxInv' /\ CodexTypes' /\ WaitInv'
  BY BridgeTyped, CodexTyped, WaitKept
<1> QED BY <1>2, <1>3, <1>4 DEF TypeInv


\* The types and the requests, the invariant the proofs below rest on.
THEOREM Typing == Spec => [](TypeInv /\ AskedInv)
<1>1. Init => TypeInv /\ AskedInv
  BY TypedAtFirst
<1>2. TypeInv /\ AskedInv /\ [Next]_vars => (TypeInv /\ AskedInv)'
  BY TypedKept
<1> QED BY <1>1, <1>2, PTL DEF Spec

\* The types hold, and while the main loop waits for a response it is at one of
\* the four requests of controller.py.
THEOREM TypeCorrect == Spec => []TypeOK
<1>1. TypeInv => TypeOK
  <2> SUFFICES ASSUME TypeInv PROVE TypeOK
    OBVIOUS
  <2>1. RolloutTypeOK
    <3>1. disk.id \in 1..MaxFiles /\ cursor.id \in 0..MaxFiles
      <4>1. disk.id \in Nat /\ disk.nth \in Nat /\ cursor.id \in Nat /\ MaxFiles \in Nat
        BY RolloutAssumption DEF TypeInv, RolloutTypes
      <4> QED BY <4>1 DEF TypeInv, FileInv
    <3>2. \A i \in DOMAIN disk.lines : disk.lines[i].type \in Types \ {"none"}
      <4>1. disk.lines \in Seq(LineSet) /\ \A i \in DOMAIN disk.lines : disk.lines[i].type # "none"
        BY DEF TypeInv, RolloutTypes, TailInv
      <4>2. \A i \in DOMAIN disk.lines : disk.lines[i] \in LineSet
        BY <4>1
      <4>3. \A i \in DOMAIN disk.lines : disk.lines[i].type \in Types
        BY <4>2 DEF LineSet
      <4> QED BY <4>1, <4>3
    <3> QED BY <3>1, <3>2 DEF RolloutTypeOK, TypeInv, RolloutTypes
  <2>2. \A m \in Messages : record[m] \in RecordSet
    BY DEF TypeInv, BridgeTypes
  <2>3. \A m \in Messages :
          record[m].state \in {"none", "prepared", "bytes_sending", "outcome_unknown",
                               "accepted", "completed"}
    BY <2>2 DEF RecordSet
  <2> QED BY <2>1, <2>3 DEF TypeOK, TypeInv, BridgeTypes, WaitInv
<1> QED BY <1>1, Typing, PTL

\* A response ends the connection only when its request expired so long ago that
\* it is forgotten; one that comes between the two steps of a caller giving up
\* does not (connection.py:56, 97).
THEOREM ForgottenOnly == Spec => OnlyForgottenFail
<1>1. TypeInv /\ AskedInv /\ [Next]_vars =>
        [failure' # failure /\ failure' \notin {NoCall, Lost} =>
           \E i \in DOMAIN timeouts : /\ timeouts[i] = failure'
                                      /\ Len(timeouts) - i >= Remembered]_failure
  <2> SUFFICES ASSUME TypeInv, AskedInv, [Next]_vars,
                      failure' # failure, failure' \notin {NoCall, Lost}
               PROVE  \E i \in DOMAIN timeouts : /\ timeouts[i] = failure'
                                                 /\ Len(timeouts) - i >= Remembered
    OBVIOUS
  <2>1. ConnectionStep
    BY ConnectionSteps DEF TypeInv
  <2>2. PICK call \in asked : RejectAnswer(call)
    BY <2>1 DEF ConnectionStep, Request, Serve, DropLate, Answer, CloseOutput, TimeOut, Expire,
       Reconnect, connectionVars
  <2>3. failure' = call /\ call \notin expired /\ \A c \in Callers : ~ Waits(c, call)
    BY <2>2 DEF RejectAnswer
  <2>4. call \in Forgotten
    BY <2>3 DEF AskedInv
  <2> QED BY <2>3, <2>4 DEF Forgotten
<1> QED BY <1>1, Typing, PTL DEF Spec, OnlyForgottenFail

-----------------------------------------------------------------------------
(* The cursor.                                                             *)

\* The first file: the cursor stands at a line of it, with the record of that
\* line; and the reader remembers the same place, or nothing.
ReadInv ==
  /\ disk.lines # <<>>
  /\ disk.nth = 1 /\ cursor # NoCursor =>
       /\ cursor.id = disk.id
       /\ cursor.at \in DOMAIN disk.lines /\ cursor.last = disk.lines[cursor.at]
  /\ cache = NoCache \/ (cache.id = cursor.id /\ cache.at = cursor.at)

\* A file only grows, until another takes its path.
Extends(lines) ==
  /\ Len(disk.lines) <= Len(lines)
  /\ \A i \in DOMAIN disk.lines : lines[i] = disk.lines[i]

\* A longer file extends the shorter one.
LEMMA ExtendsAppend ==
  ASSUME RolloutTypes, NEW lines \in Seq(LineSet), Extends(lines), NEW e \in LineSet
  PROVE  Extends(Append(lines, e)) /\ Append(lines, e) \in Seq(LineSet)
<1>1. disk.lines \in Seq(LineSet)
  BY DEF RolloutTypes
<1>2. /\ Len(Append(lines, e)) = Len(lines) + 1 /\ Len(lines) \in Nat /\ Len(disk.lines) \in Nat
      /\ \A i \in 1..Len(lines) : Append(lines, e)[i] = lines[i]
      /\ DOMAIN disk.lines = 1..Len(disk.lines)
  BY <1>1
<1>3. \A i \in DOMAIN disk.lines : i \in 1..Len(lines)
  BY <1>2 DEF Extends
<1> QED BY <1>2, <1>3 DEF Extends

\* So does a file a turn was started in.
LEMMA BeganExtends ==
  ASSUME RolloutTypes, NEW turn \in Nat
  PROVE  Extends(Began(turn)) /\ Began(turn) \in Seq(LineSet)
<1> DEFINE a == Line("task_started", turn, 0, "codex")
           b == Line("turn_context", turn, 0, "codex")
<1>1. a \in LineSet /\ b \in LineSet
  BY LineTyped DEF Types, Owners
<1>2. Extends(disk.lines) /\ disk.lines \in Seq(LineSet)
  BY DEF Extends, RolloutTypes
<1> HIDE DEF a, b
<1>3. Extends(Append(disk.lines, a)) /\ Append(disk.lines, a) \in Seq(LineSet)
  BY <1>1, <1>2, ExtendsAppend
<1>4. Extends(Append(Append(disk.lines, a), b)) /\ Append(Append(disk.lines, a), b) \in Seq(LineSet)
  BY <1>1, <1>3, ExtendsAppend
<1> QED BY <1>4 DEF a, b, Began

\* The writer extends the file, or another one takes its path.
LEMMA WriterExtends ==
  ASSUME RolloutTypes, TailInv, WriterStep
  PROVE  /\ UNCHANGED <<cursor, cache, since>>
         /\ \/ Extends(disk'.lines) /\ disk'.nth = disk.nth /\ disk'.id = disk.id
            \/ mode = "observe" /\ disk'.nth = disk.nth + 1 /\ disk'.lines = <<Meta>>
<1>0. /\ disk.lines \in Seq(LineSet) /\ Extends(disk.lines) /\ disk.turns \in Nat
      /\ disk.turns + 1 \in Nat
  BY DEF Extends, RolloutTypes
<1>1. UNCHANGED <<cursor, cache, since>>
  BY DEF WriterStep, CompleteLine, ReplaceFile
<1>2. ASSUME NEW lines \in Seq(LineSet), NEW e \in LineSet, NEW turns \in Nat,
             Extends(lines), Grown(lines, e, turns)
      PROVE  Extends(disk'.lines) /\ disk'.nth = disk.nth /\ disk'.id = disk.id
  BY <1>2, GrownTyped, ExtendsAppend, ZenonT(30)
<1>3. ASSUME NEW e \in LineSet, disk'.lines = Append(disk.lines, e)
      PROVE  Extends(disk'.lines)
  BY <1>0, <1>3, ExtendsAppend
<1>4. ASSUME NEW by \in Messages \cup {"local"}, NEW turn \in Nat, UserItem(turn, by) \in LineSet,
             \/ Grown(disk.lines, UserItem(turn, by), disk.turns)
             \/ Grown(Began(turn), UserItem(turn, by), disk.turns + 1)
      PROVE  Extends(disk'.lines) /\ disk'.nth = disk.nth /\ disk'.id = disk.id
  BY <1>0, <1>2, <1>4, BeganExtends
<1>5. ASSUME Preview \in LineSet, Assistant \in LineSet,
             Grown(Append(disk.lines, Preview), Assistant, disk.turns)
      PROVE  Extends(disk'.lines) /\ disk'.nth = disk.nth /\ disk'.id = disk.id
  <2>1. Extends(Append(disk.lines, Preview)) /\ Append(disk.lines, Preview) \in Seq(LineSet)
    BY <1>0, <1>5, ExtendsAppend
  <2> QED BY <1>0, <1>2, <1>5, <2>1
<1>6. LastTurn \in Nat
  BY <1>0, ContextTyped DEF LastTurn
<1>7. Ended \in LineSet /\ Blank \in LineSet /\ disk.tail \in LineSet
  BY <1>6, LineTyped DEF Ended, Blank, Types, Owners, RolloutTypes
<1>8. CASE disk' = [disk EXCEPT !.lines = Append(@, Ended)]
  BY <1>1, <1>3, <1>7, <1>8 DEF RolloutTypes
<1>9. CASE disk' = [disk EXCEPT !.lines = Append(@, Blank)]
  BY <1>1, <1>3, <1>7, <1>9 DEF RolloutTypes
<1>10. CASE CompleteLine
  <2>1. disk' = [disk EXCEPT !.lines = Append(@, disk.tail), !.tail = NoLine]
    BY <1>10 DEF CompleteLine
  <2> QED BY <1>1, <1>3, <1>7, <2>1 DEF RolloutTypes
<1>11. CASE mode = "observe" /\ ReplaceFile
  BY <1>1, <1>11 DEF ReplaceFile
<1> QED BY <1>1, <1>4, <1>5, <1>8, <1>9, <1>10, <1>11 DEF WriterStep

\* Every step keeps the cursor in its line.
LEMMA ReadKept ==
  ASSUME RolloutTypes, TailInv, FileInv, ReadInv, RolloutStep
  PROVE  ReadInv'
<1>0. /\ disk.lines \in Seq(LineSet) /\ Len(disk.lines) \in Nat /\ Len(disk.lines) # 0
      /\ DOMAIN disk.lines = 1..Len(disk.lines) /\ Len(disk.lines) \in DOMAIN disk.lines
      /\ disk.nth \in Nat /\ disk.nth >= 1
  BY DEF RolloutTypes, FileInv, ReadInv
<1>1. CASE WriterStep
  <2>1. RolloutTypes'
    BY RolloutTyped
  <2>2. CASE Extends(disk'.lines) /\ disk'.nth = disk.nth /\ disk'.id = disk.id
    <3>1. disk'.lines \in Seq(LineSet) /\ Len(disk'.lines) \in Nat
          /\ DOMAIN (disk'.lines) = 1..Len(disk'.lines)
      BY <2>1 DEF RolloutTypes
    <3>2. /\ disk'.lines # <<>>
          /\ \A i \in DOMAIN disk.lines : i \in DOMAIN (disk'.lines) /\ disk'.lines[i] = disk.lines[i]
      BY <1>0, <2>2, <3>1 DEF Extends
    <3> QED BY <1>1, <2>2, <3>2, WriterExtends DEF ReadInv
  <2>3. CASE disk'.nth = disk.nth + 1 /\ disk'.lines = <<Meta>>
    <3>1. disk'.nth # 1 /\ disk'.lines # <<>>
      BY <1>0, <2>3
    <3> QED BY <1>1, <3>1, WriterExtends DEF ReadInv
  <2> QED BY <1>1, <2>2, <2>3, WriterExtends
<1>2. ASSUME NEW at \in Nat, at <= Len(disk.lines), UNCHANGED <<disk>>,
             cursor' = Batch(at).cursor, cache' = Batch(at).cache,
             disk.nth = 1 /\ at # 0 => at \in DOMAIN disk.lines /\ cursor.last = disk.lines[at]
      PROVE  ReadInv'
  <2>1. /\ cursor' = [id |-> disk.id, at |-> Len(disk.lines),
                      last |-> IF at = Len(disk.lines) THEN cursor.last
                               ELSE disk.lines[Len(disk.lines)]]
        /\ cache'.id = disk.id /\ cache'.at = Len(disk.lines)
    BY <1>2, BatchLines
  <2>2. disk.nth = 1 => cursor'.last = disk.lines[Len(disk.lines)]
    BY <1>0, <1>2, <2>1
  <2> QED BY <1>0, <1>2, <2>1, <2>2 DEF ReadInv
<1>3. CASE ReaderStep
  <2>1. CASE Checkpoint
    BY <1>0, <1>2, <2>1 DEF Checkpoint
  <2>2. CASE cursor # NoCursor /\ ~Refused /\ Commit(Batch(cursor.at))
    <3>1. cursor.at \in Nat /\ cursor.at <= Len(disk.lines)
      BY <1>0, <2>2 DEF Refused, Replaced, Readable, RolloutTypes
    <3> QED BY <1>2, <2>2, <3>1 DEF Commit, ReadInv
  <2>3. CASE ForgetCache \/ UNCHANGED rolloutVars
    BY <2>3 DEF ForgetCache, rolloutVars, ReadInv
  <2> QED BY <1>3, <2>1, <2>2, <2>3 DEF ReaderStep
<1> QED BY <1>1, <1>3, WriterAndReader

\* In the first file the cursor stands at a line of it.
THEOREM Reading == Spec => []ReadInv
<1>1. Init => ReadInv
  BY DEF Init, RolloutInit, ReadInv
<1>2. TypeInv /\ ReadInv /\ [Next]_vars => ReadInv'
  <2> SUFFICES ASSUME TypeInv, ReadInv, [Next]_vars PROVE ReadInv'
    OBVIOUS
  <2>1. RolloutStep
    BY RolloutSteps DEF TypeInv
  <2> QED BY <2>1, ReadKept DEF TypeInv
<1> QED BY <1>1, <1>2, Typing, PTL DEF Spec

\* A source is refused only because another file took its path, or because an
\* empty line is decoded again after a restart: what the reader commits, an
\* empty line included, it recognises the next time (rollout_observer.py:136).
THEOREM RefusedOnlyReplaced == Spec => []RefusedIsReplaced
<1>1. TypeInv /\ ReadInv => RefusedIsReplaced
  <2> SUFFICES ASSUME TypeInv, ReadInv, cursor # NoCursor, Refused, ~ (disk.nth > 1)
               PROVE  cache = NoCache /\ Blank \in ToSet(disk.lines)
    BY DEF RefusedIsReplaced
  <2>1. disk.nth = 1
    BY DEF TypeInv, RolloutTypes, FileInv
  <2>2. ~ Replaced
    BY <2>1 DEF ReadInv, Replaced, Readable, TypeInv, RolloutTypes
  <2>3. Unrecoverable
    BY <2>2 DEF Refused
  <2>4. cache = NoCache
    BY <2>1, <2>3 DEF ReadInv, Unrecoverable, Remembering
  <2> QED BY <2>3, <2>4 DEF Unrecoverable, Readable, ToSet
<1> QED BY <1>1, Typing, Reading, PTL

=============================================================================
