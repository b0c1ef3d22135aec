-------------------------- MODULE ApprovalsProofs --------------------------
(***************************************************************************)
(* What the approvals guarantee for any requests, numbers on the wire,     *)
(* offered decisions and number of starts.                                 *)
(***************************************************************************)
EXTENDS Approvals, TLAPS

\* A request belongs to the connection it came on, where its number is its own;
\* while the process is down there is no connection, and nobody at work.
ConnInv ==
  /\ \A r \in Requests : codex[r] = "quiet" <=> conn[r] = 0
  /\ \A r \in Requests : conn[r] <= service.start
  /\ \A q, r \in Requests : conn[q] = conn[r] /\ conn[q] # 0 /\ IdOf[q] = IdOf[r] => q = r
  /\ \A r \in Requests :
       codex[r] \in {"asked", "answered"} => conn[r] = service.start /\ service.alive
  /\ service.alive => service.start > 0
  /\ ~ service.alive => /\ server = "down" /\ queue = << >> /\ resolved = << >>
                        /\ \A t \in Threads : hand[t].pc = "idle"

\* The two queues hold requests of the living connection: each at most once in
\* the one, and only what Codex has closed in the other.
QueueInv ==
  /\ \A i \in DOMAIN queue : conn[queue[i]] = service.start
  /\ \A i, j \in DOMAIN queue : queue[i] = queue[j] => i = j
  /\ \A i \in DOMAIN queue : Offered[queue[i]] = {} => sent[queue[i]] = 0
  /\ \A i \in DOMAIN resolved : /\ conn[resolved[i]] = service.start
                                /\ codex[resolved[i]] \in {"closed", "withdrawn"}

\* A row is about a request that was asked, in the connection of its context.
RowInv ==
  \A r \in Requests :
    /\ state[r] # "none" => context[r].start = conn[r] /\ conn[r] # 0 /\ Offered[r] # {}
    /\ card[r] # "none" => state[r] # "none"

\* Nothing was sent before the response was prepared, nor while it is on its way.
SentInv ==
  \A r \in Requests :
    /\ sent[r] <= 1
    /\ Offered[r] # {} /\ state[r] \in {"none", "issued", "action_committed", "cancelled"}
         => sent[r] = 0
    /\ Offered[r] = {} /\ sent[r] # 0 => codex[r] \notin {"quiet", "asked"}

\* The threads hold different requests: a card is never made for one that is
\* decided automatically, and only a card can be clicked.
HandInv ==
  /\ \A t \in Threads :
       /\ hand[t].pc \notin {"idle", "terminate", "end"} => hand[t].req \in Requests
       /\ hand[t].pc \in {"prepare", "send", "record"} =>
            context[hand[t].req].start = service.start
       /\ hand[t].pc = "send" => /\ sent[hand[t].req] = 0
                                 /\ state[hand[t].req] \in {"response_sending", "resolved"}
  /\ hand["main"].pc # "look"
  /\ hand["callback"].pc \notin {"card", "grant", "terminate", "end"}
  /\ hand["callback"].pc # "idle" => card[hand["callback"].req] \in {"shown", "bound"}
  /\ hand["main"].pc \in {"card", "commit", "prepare", "send", "record"} =>
       card[hand["main"].req] = "none" /\ state[hand["main"].req] # "none"

\* After the hard stop the main loop does nothing but end, and nothing is open.
KillInv ==
  service.alive =>
    /\ service.state = "hard_stopping" <=> hand["main"].pc = "terminate"
    /\ service.state = "stopped" <=> hand["main"].pc = "end"
    /\ service.state \in {"hard_stopping", "stopped"} =>
         \A r \in Requests : state[r] \notin {"issued", "action_committed"}

IInv ==
  /\ TypeOK /\ ConnInv /\ QueueInv /\ RowInv /\ SentInv /\ HandInv /\ KillInv
  /\ RightAnswer /\ ResolvedIsClosed
-----------------------------------------------------------------------------
(***************************************************************************)
(* The steps, by what they do: the process ends for whatever reason, a     *)
(* click is refused, a click is looked at and goes on, and the rest.       *)
(***************************************************************************)
Gone ==
  /\ \E last \in {"running", "quiescing", "hard_stopping", "stopped"} : Leave(last)
  /\ UNCHANGED <<conn, tableVars, card, task, grants, historyVars>>

LookOn ==
  /\ At("callback", "look")
  /\ card[hand["callback"].req] = "bound" /\ Authorised
  /\ hand' = [hand EXCEPT !["callback"].pc = "commit",
                          !["callback"].kill = service.kill,
                          !["callback"].epoch = task.epoch]
  /\ UNCHANGED <<codexVars, tableVars, card, service, task, grants, historyVars>>

\* Every step is of one of these kinds.
LEMMA StepKinds ==
  ASSUME IInv, Next
  PROVE  \/ \E r \in Requests : \/ Ask(r) \/ AskAgain(r) \/ Withdraw(r) \/ Announce(r)
                                \/ Deliver(r) \/ Elapse(r) \/ Refuse(r) \/ Repeated(r)
                                \/ Issue(r)
         \/ \E r \in Requests, d \in Decisions, v \in BOOLEAN : Click(r, d, v)
         \/ ServerDies \/ Gone \/ Authorise \/ Revoke \/ Quiesce
         \/ \E a \in BOOLEAN : Start(a)
         \/ Observe \/ HardStop \/ QueueCard \/ Grant \/ Terminate \/ LookOn \/ Rejected
         \/ \E t \in Threads : Commit(t) \/ Prepare(t) \/ Send(t) \/ Record(t)
<1>1. Fall \/ Crash => Gone
  <2>1. service.state \in {"running", "quiescing", "hard_stopping", "stopped"}
    BY DEF IInv, TypeOK, ServiceTypes
  <2>2. QED
    BY <2>1 DEF Fall, Crash, Gone
<1>2. Shutdown \/ Crash => Gone
  BY <1>1 DEF Shutdown
<1>3. ASSUME NEW r \in Requests, Reject(r)
      PROVE  Gone
  BY <1>1, <1>3 DEF Reject
<1>4. ASSUME NEW t \in Threads, Refused(t)
      PROVE  Gone \/ Rejected
  BY <1>1, <1>4 DEF Refused, Fail
<1>5. Look => LookOn \/ Rejected
  BY DEF Look, LookOn
<1>6. Publish => \/ Gone
                 \/ \E r \in Requests : Refuse(r) \/ Repeated(r) \/ Issue(r)
  BY <1>3 DEF Publish
<1>7. ASSUME NEW t \in Threads, Decide(t)
      PROVE  Gone \/ Rejected \/ Commit(t) \/ Prepare(t) \/ Send(t) \/ Record(t)
  BY <1>4, <1>7 DEF Decide
<1>8. "main" \in Threads /\ "callback" \in Threads
  BY DEF Threads
<1>9. MainGoesOn => \/ QueueCard \/ Grant \/ Terminate \/ Gone \/ Rejected
                    \/ \E t \in Threads : Commit(t) \/ Prepare(t) \/ Send(t) \/ Record(t)
  BY <1>7, <1>8 DEF MainGoesOn
<1>10. CallbackGoesOn =>
         \/ LookOn \/ Gone \/ Rejected
         \/ \E t \in Threads : Commit(t) \/ Prepare(t) \/ Send(t) \/ Record(t)
  BY <1>5, <1>7, <1>8 DEF CallbackGoesOn
<1>11. QED
  BY <1>2, <1>6, <1>9, <1>10 DEF Next

(***************************************************************************)
(* The steps keep the invariant, one conjunct after the other.             *)
(***************************************************************************)
\* The App Server's side keeps its types.
LEMMA CodexTypesStep ==
  ASSUME IInv, Next
  PROVE  CodexTypes'
<1>a. CodexTypes /\ ServiceTypes
  BY DEF IInv, TypeOK
<1> USE <1>a, ApprovalsAssumption DEF CodexTypes, codexVars, tableVars, historyVars
<1>1. ASSUME NEW r \in Requests, Ask(r)
      PROVE  CodexTypes'
  BY <1>1 DEF Ask, ServiceTypes
<1>2. ASSUME NEW r \in Requests, AskAgain(r)
      PROVE  CodexTypes'
  BY <1>2 DEF AskAgain
<1>3. ASSUME NEW r \in Requests, Withdraw(r)
      PROVE  CodexTypes'
  BY <1>3 DEF Withdraw
<1>4. ASSUME NEW r \in Requests, Announce(r)
      PROVE  CodexTypes'
  BY <1>4 DEF Announce
<1>5. ASSUME NEW r \in Requests, Deliver(r) \/ Elapse(r)
      PROVE  CodexTypes'
  BY <1>5 DEF Deliver, Elapse
<1>6. ASSUME NEW r \in Requests, NEW d \in Decisions, NEW v \in BOOLEAN, Click(r, d, v)
      PROVE  CodexTypes'
  BY <1>6 DEF Click
<1>7. ASSUME ServerDies
      PROVE  CodexTypes'
  BY <1>7 DEF ServerDies, Lost
<1>8. ASSUME Gone
      PROVE  CodexTypes'
  BY <1>8 DEF Gone, Leave, Lost
<1>9. ASSUME Authorise \/ Revoke \/ Quiesce \/ HardStop \/ QueueCard \/ Grant \/
             LookOn \/ Rejected
      PROVE  CodexTypes'
  BY <1>9 DEF Authorise, Revoke, Quiesce, HardStop, QueueCard, Grant, LookOn, Rejected
<1>10. ASSUME NEW a \in BOOLEAN, Start(a)
      PROVE  CodexTypes'
  BY <1>10 DEF Start
<1>11. ASSUME NEW r \in Requests, Refuse(r)
      PROVE  CodexTypes'
  BY <1>11 DEF Refuse, Next_
<1>12. ASSUME NEW r \in Requests, Repeated(r)
      PROVE  CodexTypes'
  BY <1>12 DEF Repeated, Next_
<1>13. ASSUME NEW r \in Requests, Issue(r)
      PROVE  CodexTypes'
  BY <1>13 DEF Issue, Next_
<1>14. ASSUME Observe
      PROVE  CodexTypes'
  <2>1. /\ resolved # << >> /\ resolved' = Tail(resolved)
        /\ UNCHANGED <<codex, server, conn, queue>>
    BY <1>14 DEF Observe
  <2>2. QED
    BY <2>1
<1>15. ASSUME Terminate
      PROVE  CodexTypes'
  BY <1>15 DEF Terminate, Lost, Goto
<1>16. ASSUME NEW t \in Threads, Commit(t) \/ Prepare(t) \/ Record(t)
      PROVE  CodexTypes'
  BY <1>16 DEF Commit, Prepare, Record
<1>17. ASSUME NEW t \in Threads, Send(t)
      PROVE  CodexTypes'
  BY <1>17 DEF Send
<1> HIDE DEF CodexTypes, codexVars, tableVars, historyVars
<1>18. QED
  BY StepKinds, <1>1, <1>2, <1>3, <1>4, <1>5, <1>6, <1>7, <1>8, <1>9, <1>10, <1>11,
     <1>12, <1>13, <1>14, <1>15, <1>16, <1>17

\* The tables keep their types.
LEMMA TableTypesStep ==
  ASSUME IInv, Next
  PROVE  TableTypes'
<1>a. CodexTypes /\ TableTypes /\ ServiceTypes /\ HandInv
  BY DEF IInv, TypeOK
<1> USE <1>a, ApprovalsAssumption DEF TableTypes, tableVars, historyVars, codexVars
<1>1. ASSUME NEW r \in Requests, Ask(r) \/ AskAgain(r) \/ Withdraw(r) \/ Announce(r)
      PROVE  TableTypes'
  BY <1>1 DEF Ask, AskAgain, Withdraw, Announce
<1>2. ASSUME NEW r \in Requests, Deliver(r)
      PROVE  TableTypes'
  BY <1>2 DEF Deliver
<1>3. ASSUME NEW r \in Requests, Elapse(r)
      PROVE  TableTypes'
  BY <1>3 DEF Elapse
<1>4. ASSUME NEW r \in Requests, NEW d \in Decisions, NEW v \in BOOLEAN, Click(r, d, v)
      PROVE  TableTypes'
  BY <1>4 DEF Click
<1>5. ASSUME ServerDies \/ Gone \/ Authorise \/ Revoke \/ Quiesce
      PROVE  TableTypes'
  BY <1>5 DEF ServerDies, Gone, Authorise, Revoke, Quiesce
<1>6. ASSUME NEW a \in BOOLEAN, Start(a)
      PROVE  TableTypes'
  BY <1>6 DEF Start
<1>7. ASSUME NEW r \in Requests, Refuse(r)
      PROVE  TableTypes'
  BY <1>7, SMTT(30) DEF Refuse
<1>8. ASSUME NEW r \in Requests, Repeated(r)
      PROVE  TableTypes'
  BY <1>8 DEF Repeated
<1>9. ASSUME NEW r \in Requests, Issue(r)
      PROVE  TableTypes'
  BY <1>9 DEF Issue, States, ServiceTypes
<1>10. ASSUME Observe
      PROVE  TableTypes'
  <2>1. /\ state' \in [Requests -> States]
        /\ UNCHANGED <<token, decision, context, card, grants, sent, answer>>
    BY <1>10 DEF Observe, States
  <2>2. QED
    BY <2>1
<1>11. ASSUME HardStop
      PROVE  TableTypes'
  BY <1>11 DEF HardStop, Cancellable, States
<1>12. ASSUME QueueCard
      PROVE  TableTypes'
  BY <1>12 DEF QueueCard, At, HandInv, Threads
<1>13. ASSUME Grant
      PROVE  TableTypes'
  <2>1. hand["main"].req \in Requests
    BY <1>13 DEF Grant, At, HandInv, Threads
  <2>2. service.start \in 0 .. MaxStarts /\ service.kill \in Nat
    BY DEF ServiceTypes
  <2>3. grants' \subseteq [req : Requests, start : 0 .. MaxStarts, kill : Nat]
    BY <1>13, <2>1, <2>2 DEF Grant
  <2>4. QED
    BY <1>13, <2>3 DEF Grant
<1>14. ASSUME Terminate \/ LookOn \/ Rejected
      PROVE  TableTypes'
  BY <1>14 DEF Terminate, LookOn, Rejected
<1>15. ASSUME NEW t \in Threads, Commit(t)
      PROVE  TableTypes'
  BY <1>15 DEF Commit, At, HandInv, ServiceTypes, States
<1>16. ASSUME NEW t \in Threads, Prepare(t)
      PROVE  TableTypes'
  BY <1>16 DEF Prepare, At, HandInv, States
<1>17. ASSUME NEW t \in Threads, Send(t)
      PROVE  TableTypes'
  <2>1. hand[t].req \in Requests
    BY <1>17 DEF Send, At, HandInv
  <2>2. sent' \in [Requests -> Nat] /\ answer' \in [Requests -> Requests \cup {None}]
    BY <1>17, <2>1 DEF Send
  <2>3. QED
    BY <1>17, <2>2 DEF Send
<1>18. ASSUME NEW t \in Threads, Record(t)
      PROVE  TableTypes'
  BY <1>18 DEF Record, At, HandInv, States
<1> HIDE DEF TableTypes, tableVars, historyVars, codexVars
<1>19. QED
  BY StepKinds, <1>1, <1>2, <1>3, <1>4, <1>5, <1>6, <1>7, <1>8, <1>9, <1>10, <1>11,
     <1>12, <1>13, <1>14, <1>15, <1>16, <1>17, <1>18

\* ServiceTypes in three parts.
ServiceOK == service \in [alive : BOOLEAN, start : 0 .. MaxStarts, kill : Nat, auto : BOOLEAN,
                          state : {"running", "quiescing", "hard_stopping", "stopped"}]

TaskOK == task \in [epoch : Nat, authorised : BOOLEAN]

Pcs == {"idle", "card", "grant", "terminate", "end", "look", "commit", "prepare", "send", "record"}

HandType == [pc : Pcs, req : Requests \cup {None}, decision : Decisions \cup {None},
             valid : BOOLEAN, kill : Nat, epoch : Nat]

HandOK == hand \in [Threads -> HandType]

\* The three parts together.
LEMMA ServiceParts == ServiceTypes <=> ServiceOK /\ TaskOK /\ HandOK
BY DEF ServiceTypes, ServiceOK, TaskOK, HandOK, HandType, Pcs

\* A thread that does nothing is well formed.
LEMMA IdleType == Idle \in HandType
BY DEF Idle, HandType, Pcs

\* The process keeps its types.
LEMMA ServiceStep ==
  ASSUME IInv, Next
  PROVE  ServiceOK'
<1>a. ServiceTypes
  BY DEF IInv, TypeOK
<1> USE <1>a, ServiceParts, ApprovalsAssumption DEF ServiceOK, codexVars, tableVars,
        historyVars
<1>1. ASSUME NEW r \in Requests, Ask(r) \/ AskAgain(r) \/ Withdraw(r) \/ Announce(r)
             \/ Deliver(r) \/ Elapse(r) \/ Refuse(r) \/ Repeated(r) \/ Issue(r)
      PROVE  ServiceOK'
  BY <1>1 DEF Ask, AskAgain, Withdraw, Announce, Deliver, Elapse, Refuse, Repeated, Issue
<1>2. ASSUME NEW r \in Requests, NEW d \in Decisions, NEW v \in BOOLEAN, Click(r, d, v)
      PROVE  ServiceOK'
  BY <1>2 DEF Click, Idle
<1>3. ASSUME ServerDies \/ Observe \/ QueueCard \/ Grant \/ LookOn \/ Rejected \/
             Authorise \/ Revoke
      PROVE  ServiceOK'
  BY <1>3 DEF ServerDies, Observe, QueueCard, Grant, LookOn, Rejected, Authorise, Revoke
<1>4. ASSUME Gone
      PROVE  ServiceOK'
  BY <1>4 DEF Gone, Leave
<1>5. ASSUME Quiesce
      PROVE  ServiceOK'
  BY <1>5 DEF Quiesce
<1>6. ASSUME NEW a \in BOOLEAN, Start(a)
      PROVE  ServiceOK'
  BY <1>6 DEF Start
<1>7. ASSUME HardStop
      PROVE  ServiceOK'
  <2> DEFINE k == service.kill + 1
  <2>1. service' = [service EXCEPT !.state = "hard_stopping", !.kill = k]
    BY <1>7 DEF HardStop
  <2>2. k \in Nat
    OBVIOUS
  <2> HIDE DEF k
  <2>3. QED
    BY <2>1, <2>2
<1>8. ASSUME Terminate
      PROVE  ServiceOK'
  BY <1>8 DEF Terminate, Lost, Goto
<1>9. ASSUME NEW t \in Threads, Commit(t) \/ Prepare(t) \/ Send(t) \/ Record(t)
      PROVE  ServiceOK'
  BY <1>9 DEF Commit, Prepare, Send, Record
<1> HIDE DEF ServiceOK, codexVars, tableVars, historyVars
<1>10. QED
  BY StepKinds, <1>1, <1>2, <1>3, <1>4, <1>5, <1>6, <1>7, <1>8, <1>9

\* The task keeps its types.
LEMMA TaskStep ==
  ASSUME IInv, Next
  PROVE  TaskOK'
<1>a. ServiceTypes
  BY DEF IInv, TypeOK
<1> USE <1>a, ServiceParts, ApprovalsAssumption DEF TaskOK, codexVars, tableVars,
        historyVars
<1>1. ASSUME NEW r \in Requests, Ask(r) \/ AskAgain(r) \/ Withdraw(r) \/ Announce(r)
             \/ Deliver(r) \/ Elapse(r) \/ Refuse(r) \/ Repeated(r) \/ Issue(r)
      PROVE  TaskOK'
  BY <1>1 DEF Ask, AskAgain, Withdraw, Announce, Deliver, Elapse, Refuse, Repeated, Issue
<1>2. ASSUME NEW r \in Requests, NEW d \in Decisions, NEW v \in BOOLEAN, Click(r, d, v)
      PROVE  TaskOK'
  BY <1>2 DEF Click, Idle
<1>3. ASSUME ServerDies \/ Observe \/ QueueCard \/ Grant \/ LookOn \/ Rejected \/ Gone
             \/ Authorise \/ Quiesce \/ Terminate
      PROVE  TaskOK'
  BY <1>3 DEF ServerDies, Observe, QueueCard, Grant, LookOn, Rejected, Gone,
     Authorise, Quiesce, Terminate
<1>4. ASSUME Revoke
      PROVE  TaskOK'
  <2> DEFINE e == task.epoch + 1
  <2>1. \/ task' = [task EXCEPT !.authorised = FALSE]
        \/ task' = [epoch |-> e, authorised |-> FALSE]
    BY <1>4 DEF Revoke
  <2>2. e \in Nat
    OBVIOUS
  <2> HIDE DEF e
  <2>3. CASE task' = [task EXCEPT !.authorised = FALSE]
    BY <2>3
  <2>4. CASE task' = [epoch |-> e, authorised |-> FALSE]
    BY <2>2, <2>4
  <2>5. QED
    BY <2>1, <2>3, <2>4
<1>5. ASSUME NEW a \in BOOLEAN, Start(a)
      PROVE  TaskOK'
  BY <1>5 DEF Start
<1>6. ASSUME HardStop
      PROVE  TaskOK'
  BY <1>6 DEF HardStop, Goto, Cancellable
<1>7. ASSUME NEW t \in Threads, Commit(t) \/ Prepare(t) \/ Send(t) \/ Record(t)
      PROVE  TaskOK'
  BY <1>7 DEF Commit, Prepare, Send, Record
<1> HIDE DEF TaskOK, codexVars, tableVars, historyVars
<1>8. QED
  BY StepKinds, <1>1, <1>2, <1>3, <1>4, <1>5, <1>6, <1>7

\* The threads keep their types.
LEMMA HandOKStep ==
  ASSUME IInv, Next
  PROVE  HandOK'
<1>a. CodexTypes /\ ServiceTypes
  BY DEF IInv, TypeOK
<1> USE <1>a, ServiceParts, IdleType, ApprovalsAssumption DEF HandOK, Threads,
        codexVars, tableVars, historyVars
<1>1. ASSUME NEW r \in Requests, Ask(r) \/ AskAgain(r) \/ Withdraw(r) \/ Announce(r)
             \/ Deliver(r) \/ Elapse(r) \/ Refuse(r) \/ Repeated(r)
      PROVE  HandOK'
  BY <1>1 DEF Ask, AskAgain, Withdraw, Announce, Deliver, Elapse, Refuse, Repeated
<1>2. ASSUME NEW r \in Requests, NEW d \in Decisions, NEW v \in BOOLEAN, Click(r, d, v)
      PROVE  HandOK'
  BY <1>2 DEF Click, HandType, Pcs, Idle
<1>3. ASSUME ServerDies \/ Authorise \/ Revoke \/ Quiesce
      PROVE  HandOK'
  BY <1>3 DEF ServerDies, Authorise, Revoke, Quiesce
<1>4. ASSUME Gone
      PROVE  HandOK'
  BY <1>4 DEF Gone, Leave
<1>5. ASSUME NEW a \in BOOLEAN, Start(a)
      PROVE  HandOK'
  BY <1>5 DEF Start
<1>6. ASSUME NEW r \in Requests, Issue(r)
      PROVE  HandOK'
  <2>1. [pc |-> "commit", req |-> r, decision |-> Strongest(r), valid |-> TRUE,
         kill |-> service.kill, epoch |-> task.epoch] \in HandType
    BY DEF Strongest, Decisions, HandType, Pcs, ServiceOK, TaskOK
  <2>2. [Idle EXCEPT !.pc = "card", !.req = r] \in HandType
    BY DEF Idle, HandType, Pcs
  <2>3. QED
    BY <1>6, <2>1, <2>2 DEF Issue
<1>7. ASSUME Observe
      PROVE  HandOK'
  <2>1. hand' = hand \/ \E r \in Requests :
          hand' = [hand EXCEPT !["main"] = [Idle EXCEPT !.pc = "grant", !.req = r]]
    BY <1>7 DEF Observe, RowsOf
  <2>2. CASE hand' = hand
    BY <2>2
  <2>3. ASSUME NEW r \in Requests,
               hand' = [hand EXCEPT !["main"] = [Idle EXCEPT !.pc = "grant", !.req = r]]
        PROVE  HandOK'
    <3>1. [Idle EXCEPT !.pc = "grant", !.req = r] \in HandType
      BY DEF Idle, HandType, Pcs
    <3>2. QED
      BY <2>3, <3>1
  <2>4. QED
    BY <2>1, <2>2, <2>3
<1>8. ASSUME Terminate \/ HardStop
      PROVE  HandOK'
  BY <1>8 DEF Terminate, HardStop, Goto, HandType, Pcs
<1>9. ASSUME QueueCard \/ Grant \/ Rejected
      PROVE  HandOK'
  BY <1>9 DEF QueueCard, Grant, Rejected, Release
<1>10. ASSUME LookOn
      PROVE  HandOK'
  BY <1>10, ZenonT(30) DEF LookOn, HandType, Pcs, ServiceOK, TaskOK
<1>11. ASSUME NEW t \in Threads, Commit(t) \/ Prepare(t) \/ Send(t)
      PROVE  HandOK'
  BY <1>11 DEF Commit, Prepare, Send, Goto, HandType, Pcs
<1>12. ASSUME NEW t \in Threads, Record(t)
      PROVE  HandOK'
  BY <1>12 DEF Record, Release
<1> HIDE DEF HandOK, Threads, codexVars, tableVars, historyVars
<1>13. QED
  BY StepKinds, <1>1, <1>2, <1>3, <1>4, <1>5, <1>6, <1>7, <1>8, <1>9, <1>10, <1>11, <1>12

\* The process, the task and the threads together.
LEMMA ServiceTypesStep ==
  ASSUME IInv, Next
  PROVE  ServiceTypes'
<1>1. ServiceOK' /\ TaskOK' /\ HandOK'
  BY ServiceStep, TaskStep, HandOKStep
<1>2. QED
  BY <1>1 DEF ServiceTypes, ServiceOK, TaskOK, HandOK, HandType, Pcs

\* Connections end with the process, and numbers are unique within one.
LEMMA ConnStep ==
  ASSUME IInv, Next
  PROVE  ConnInv'
<1>a. CodexTypes /\ ServiceTypes /\ ConnInv
  BY DEF IInv, TypeOK
<1> USE <1>a, ApprovalsAssumption DEF ConnInv, codexVars, tableVars, historyVars
<1>1. ASSUME NEW r \in Requests, Ask(r)
      PROVE  ConnInv'
  BY <1>1 DEF Ask, CodexTypes, ServiceTypes
<1>2. ASSUME NEW r \in Requests, AskAgain(r) \/ Deliver(r) \/ Elapse(r) \/ Repeated(r)
      PROVE  ConnInv'
  BY <1>2 DEF AskAgain, Deliver, Elapse, Repeated, Next_, At
<1>3. ASSUME NEW r \in Requests, Withdraw(r) \/ Announce(r)
      PROVE  ConnInv'
  BY <1>3 DEF Withdraw, Announce, CodexTypes
<1>4. ASSUME NEW r \in Requests, NEW d \in Decisions, NEW v \in BOOLEAN, Click(r, d, v)
      PROVE  ConnInv'
  BY <1>4 DEF Click, At
<1>5. ASSUME ServerDies
      PROVE  ConnInv'
  BY <1>5 DEF ServerDies, Lost, CodexTypes, ServiceTypes
<1>6. ASSUME Gone
      PROVE  ConnInv'
  BY <1>6 DEF Gone, Leave, Lost, CodexTypes, ServiceTypes, Idle
<1>7. ASSUME Authorise \/ Revoke \/ Quiesce
      PROVE  ConnInv'
  BY <1>7 DEF Authorise, Revoke, Quiesce, At, ServiceTypes
<1>8. ASSUME NEW a \in BOOLEAN, Start(a)
      PROVE  ConnInv'
  BY <1>8 DEF Start, CodexTypes, ServiceTypes
<1>9. ASSUME NEW r \in Requests, Refuse(r)
      PROVE  ConnInv'
  BY <1>9 DEF Refuse, Next_, At, Open, CodexTypes
<1>10. ASSUME NEW r \in Requests, Issue(r)
      PROVE  ConnInv'
  BY <1>10 DEF Issue, Next_, At
<1>11. ASSUME Observe
      PROVE  ConnInv'
  <2>1. /\ service.alive
        /\ UNCHANGED <<codex, conn, service>>
    BY <1>11 DEF Observe, At
  <2>2. QED
    BY <2>1
<1>12. ASSUME HardStop
      PROVE  ConnInv'
  BY <1>12 DEF HardStop, At, ServiceTypes
<1>13. ASSUME QueueCard \/ Grant \/ LookOn \/ Rejected
      PROVE  ConnInv'
  BY <1>13 DEF QueueCard, Grant, LookOn, Rejected, At, Release, Idle, Threads, ServiceTypes
<1>14. ASSUME Terminate
      PROVE  ConnInv'
  BY <1>14 DEF Terminate, At, Lost, CodexTypes, ServiceTypes
<1>15. ASSUME NEW t \in Threads, Commit(t) \/ Prepare(t) \/ Record(t)
      PROVE  ConnInv'
  BY <1>15 DEF Commit, Prepare, Record, At
<1>16. ASSUME NEW t \in Threads, Send(t)
      PROVE  ConnInv'
  BY <1>16 DEF Send, At, Open, CodexTypes
<1> HIDE DEF ConnInv, codexVars, tableVars, historyVars
<1>17. QED
  BY StepKinds, <1>1, <1>2, <1>3, <1>4, <1>5, <1>6, <1>7, <1>8, <1>9, <1>10, <1>11,
     <1>12, <1>13, <1>14, <1>15, <1>16

\* What Append and Tail do to a queue of requests.
LEMMA AppendFacts ==
  ASSUME NEW s \in Seq(Requests), NEW r \in Requests
  PROVE  /\ Append(s, r) \in Seq(Requests)
         /\ DOMAIN Append(s, r) = 1 .. Len(s) + 1
         /\ DOMAIN s = 1 .. Len(s)
         /\ \A i \in DOMAIN s : s[i] \in Requests /\ Append(s, r)[i] = s[i]
         /\ Append(s, r)[Len(s) + 1] = r
OBVIOUS

\* And without its head.
LEMMA TailFacts ==
  ASSUME NEW s \in Seq(Requests), s # << >>
  PROVE  /\ Tail(s) \in Seq(Requests)
         /\ Head(s) = s[1] /\ 1 \in DOMAIN s /\ Head(s) \in Requests
         /\ DOMAIN s = 1 .. Len(s) /\ DOMAIN Tail(s) = 1 .. Len(s) - 1
         /\ \A i \in DOMAIN Tail(s) :
              i + 1 \in DOMAIN s /\ i + 1 # 1 /\ Tail(s)[i] = s[i + 1] /\ Tail(s)[i] \in Requests
OBVIOUS

\* The queues belong to the living connection.
LEMMA QueueStep ==
  ASSUME IInv, Next
  PROVE  QueueInv'
<1>a. CodexTypes /\ TableTypes /\ ServiceTypes /\ ConnInv /\ QueueInv /\ RowInv /\
      SentInv /\ HandInv
  BY DEF IInv, TypeOK
<1> USE <1>a, ApprovalsAssumption DEF QueueInv, CodexTypes, codexVars, tableVars,
        historyVars
<1>1. ASSUME NEW r \in Requests, Ask(r)
      PROVE  QueueInv'
  <2>1. /\ queue' = Append(queue, r) /\ codex[r] = "quiet"
        /\ codex' = [codex EXCEPT ![r] = "asked"]
        /\ conn' = [conn EXCEPT ![r] = service.start]
        /\ service.alive /\ UNCHANGED <<resolved, service, sent>>
    BY <1>1 DEF Ask
  <2>2. \A i \in DOMAIN queue : queue[i] # r
    BY <2>1 DEF ConnInv
  <2>3. \A i \in DOMAIN queue' : \/ i = Len(queue) + 1 /\ queue'[i] = r
                                 \/ /\ i \in DOMAIN queue /\ queue'[i] = queue[i]
                                    /\ queue[i] \in Requests
    BY <2>1, AppendFacts
  <2>4. Offered[r] = {} => sent[r] = 0
    BY <2>1 DEF SentInv
  <2>5. \A i \in DOMAIN queue' : conn'[queue'[i]] = service'.start
    BY <2>1, <2>3
  <2>6. \A i, j \in DOMAIN queue' : queue'[i] = queue'[j] => i = j
    BY <2>2, <2>3
  <2>7. \A i \in DOMAIN resolved : resolved[i] \in Requests
    OBVIOUS
  <2>8. QED
    BY <2>1, <2>3, <2>4, <2>5, <2>6, <2>7, SMTT(30)
<1>2. ASSUME NEW r \in Requests, AskAgain(r)
      PROVE  QueueInv'
  <2>1. /\ queue' = Append(queue, r) /\ codex[r] = "asked"
        /\ \A i \in DOMAIN queue : queue[i] # r
        /\ UNCHANGED <<codex, conn, resolved, service, sent>>
    BY <1>2 DEF AskAgain
  <2>2. conn[r] = service.start
    BY <2>1 DEF ConnInv
  <2>3. \A i \in DOMAIN queue' : \/ i = Len(queue) + 1 /\ queue'[i] = r
                                 \/ i \in DOMAIN queue /\ queue'[i] = queue[i]
    BY <2>1, AppendFacts
  <2>4. Offered[r] = {} => sent[r] = 0
    BY <2>1 DEF SentInv, TableTypes
  <2>5. QED
    BY <2>1, <2>2, <2>3, <2>4
<1>3. ASSUME NEW r \in Requests, Withdraw(r) \/ Announce(r)
      PROVE  QueueInv'
  <2>1. /\ resolved' = Append(resolved, r) /\ codex[r] \in {"asked", "answered"}
        /\ \E c \in {"closed", "withdrawn"} : codex' = [codex EXCEPT ![r] = c]
        /\ UNCHANGED <<queue, conn, service, sent>>
    BY <1>3 DEF Withdraw, Announce
  <2>2. conn[r] = service.start
    BY <2>1 DEF ConnInv
  <2>3. \A i \in DOMAIN resolved' : \/ resolved'[i] = r
                                    \/ i \in DOMAIN resolved /\ resolved'[i] = resolved[i]
                                       /\ resolved[i] \in Requests
    BY <2>1, AppendFacts
  <2>4. QED
    BY <2>1, <2>2, <2>3
<1>4. ASSUME NEW r \in Requests, Deliver(r) \/ Elapse(r)
      PROVE  QueueInv'
  BY <1>4 DEF Deliver, Elapse
<1>5. ASSUME NEW r \in Requests, NEW d \in Decisions, NEW v \in BOOLEAN, Click(r, d, v)
      PROVE  QueueInv'
  BY <1>5 DEF Click
<1>6. ASSUME ServerDies
      PROVE  QueueInv'
  <2>1. UNCHANGED <<queue, resolved, conn, service, sent>> /\ codex' = Lost
    BY <1>6 DEF ServerDies
  <2>2. \A i \in DOMAIN resolved : resolved[i] \in Requests
    OBVIOUS
  <2>3. QED
    BY <2>1, <2>2 DEF Lost
<1>7. ASSUME Gone
      PROVE  QueueInv'
  BY <1>7 DEF Gone, Leave
<1>8. ASSUME Authorise \/ Revoke \/ Quiesce \/ HardStop
      PROVE  QueueInv'
  <2>1. /\ UNCHANGED <<queue, resolved, conn, codex, sent>>
        /\ \/ service' = service
           \/ service' = [service EXCEPT !.state = "quiescing"]
           \/ service' = [service EXCEPT !.state = "hard_stopping", !.kill = service.kill + 1]
    BY <1>8 DEF Authorise, Revoke, Quiesce, HardStop
  <2>2. service'.start = service.start
    BY <2>1, ServiceParts DEF ServiceOK
  <2>3. QED
    BY <2>1, <2>2
<1>9. ASSUME NEW a \in BOOLEAN, Start(a)
      PROVE  QueueInv'
  BY <1>9 DEF Start, ConnInv
<1>10. ASSUME NEW r \in Requests, Refuse(r)
      PROVE  QueueInv'
  <2>1. /\ queue # << >> /\ r = Head(queue) /\ queue' = Tail(queue)
        /\ sent' = [sent EXCEPT ![r] = sent[r] + 1]
        /\ UNCHANGED <<resolved, conn, service>>
    BY <1>10 DEF Refuse, Next_
  <2>2. \A q \in Requests : codex[q] \in {"closed", "withdrawn"} => codex'[q] = codex[q]
    BY <1>10 DEF Refuse, Open
  <2>3. \A i \in DOMAIN queue' : i + 1 \in DOMAIN queue /\ queue'[i] = queue[i + 1]
                                 /\ queue'[i] \in Requests /\ queue'[i] # r
    BY <2>1, TailFacts
  <2>4. \A i \in DOMAIN queue' : sent'[queue'[i]] = sent[queue'[i]]
    BY <2>1, <2>3 DEF TableTypes
  <2>5. \A i, j \in DOMAIN queue' : queue'[i] = queue'[j] => i = j
    BY <2>3, TailFacts, <2>1
  <2>6. \A i \in DOMAIN resolved : resolved[i] \in Requests
    OBVIOUS
  <2>7. QED
    BY <2>1, <2>2, <2>3, <2>4, <2>5, <2>6
<1>11. ASSUME NEW r \in Requests, Repeated(r)
      PROVE  QueueInv'
  <2>1. /\ queue # << >> /\ queue' = Tail(queue)
        /\ UNCHANGED <<codex, resolved, conn, service, sent>>
    BY <1>11 DEF Repeated, Next_
  <2>2. \A i \in DOMAIN queue' : i + 1 \in DOMAIN queue /\ queue'[i] = queue[i + 1]
    BY <2>1, TailFacts
  <2>3. \A i, j \in DOMAIN queue' : queue'[i] = queue'[j] => i = j
    BY <2>1, <2>2, TailFacts
  <2>4. QED
    BY <2>1, <2>2, <2>3, SMTT(30)
<1>12. ASSUME NEW r \in Requests, Issue(r)
      PROVE  QueueInv'
  <2>1. /\ queue # << >> /\ queue' = Tail(queue)
        /\ UNCHANGED <<codex, resolved, conn, service, sent>>
    BY <1>12 DEF Issue, Next_
  <2>2. \A i \in DOMAIN queue' : i + 1 \in DOMAIN queue /\ queue'[i] = queue[i + 1]
    BY <2>1, TailFacts
  <2>3. \A i, j \in DOMAIN queue' : queue'[i] = queue'[j] => i = j
    BY <2>1, <2>2, TailFacts
  <2>4. QED
    BY <2>1, <2>2, <2>3, SMTT(30)
<1>13. ASSUME Observe
      PROVE  QueueInv'
  <2>1. /\ resolved # << >> /\ resolved' = Tail(resolved)
        /\ UNCHANGED <<codex, queue, conn, service, sent>>
    BY <1>13 DEF Observe
  <2>2. \A i \in DOMAIN resolved' : i + 1 \in DOMAIN resolved /\ resolved'[i] = resolved[i + 1]
    BY <2>1, TailFacts
  <2>3. QED
    BY <2>1, <2>2
<1>14. ASSUME QueueCard \/ Grant \/ LookOn \/ Rejected
      PROVE  QueueInv'
  BY <1>14 DEF QueueCard, Grant, LookOn, Rejected
<1>15. ASSUME Terminate
      PROVE  QueueInv'
  <2>1. /\ UNCHANGED <<queue, resolved, conn, sent>> /\ codex' = Lost
        /\ service'.start = service.start
    BY <1>15 DEF Terminate, ServiceTypes
  <2>2. \A i \in DOMAIN resolved : resolved[i] \in Requests
    OBVIOUS
  <2>3. QED
    BY <2>1, <2>2 DEF Lost
<1>16. ASSUME NEW t \in Threads, Commit(t) \/ Prepare(t) \/ Record(t)
      PROVE  QueueInv'
  BY <1>16 DEF Commit, Prepare, Record
<1>17. ASSUME NEW t \in Threads, Send(t)
      PROVE  QueueInv'
  <2>1. UNCHANGED <<queue, resolved, conn, service>>
    BY <1>17 DEF Send
  <2>2. \A q \in Requests : codex[q] \in {"closed", "withdrawn"} => codex'[q] = codex[q]
    BY <1>17 DEF Send, Open
  <2>3. \A i \in DOMAIN resolved : resolved[i] \in Requests
    OBVIOUS
  <2>4. hand[t].req \in Requests /\ Offered[hand[t].req] # {}
    BY <1>17 DEF Send, At, HandInv, RowInv
  <2>5. \A q \in Requests : Offered[q] = {} => sent'[q] = sent[q]
    BY <1>17, <2>4 DEF Send, TableTypes
  <2>6. \A i \in DOMAIN queue : queue[i] \in Requests
    OBVIOUS
  <2>7. QED
    BY <2>1, <2>2, <2>3, <2>5, <2>6
<1> HIDE DEF QueueInv, CodexTypes, codexVars, tableVars, historyVars
<1>18. QED
  BY StepKinds, <1>1, <1>2, <1>3, <1>4, <1>5, <1>6, <1>7, <1>8, <1>9, <1>10, <1>11,
     <1>12, <1>13, <1>14, <1>15, <1>16, <1>17

\* A request that is issued is new to the tables.
LEMMA IssueFacts ==
  ASSUME IInv, NEW r \in Requests, Issue(r)
  PROVE  /\ state[r] = "none" /\ card[r] = "none" /\ Offered[r] # {}
         /\ conn[r] = service.start /\ service.start # 0
         /\ At("main", "idle") /\ Authorised
         /\ state' = [state EXCEPT ![r] = "issued"]
         /\ context' = [context EXCEPT ![r] =
              [start |-> service.start, kill |-> service.kill, epoch |-> task.epoch]]
<1>a. CodexTypes /\ ServiceTypes /\ ConnInv /\ QueueInv /\ RowInv
  BY DEF IInv, TypeOK
<1>1. r = Head(queue) /\ queue # << >> /\ At("main", "idle") /\ Authorised /\ Offered[r] # {}
      /\ ~ Known(r)
  BY DEF Issue, Next_
<1>2. r = queue[1] /\ 1 \in DOMAIN queue
  BY <1>a, <1>1, TailFacts DEF CodexTypes
<1>3. conn[r] = service.start /\ service.start # 0
  BY <1>a, <1>1, <1>2 DEF At, ConnInv, QueueInv, ServiceTypes
<1>4. state[r] = "none"
  BY <1>a, <1>1, <1>3 DEF Known, RowsOf, RowInv
<1>5. card[r] = "none"
  BY <1>a, <1>4 DEF RowInv
<1>6. QED
  BY <1>1, <1>3, <1>4, <1>5 DEF Issue

\* What an observed resolution changes.
LEMMA ObserveFacts ==
  ASSUME IInv, Observe
  PROVE  /\ At("main", "idle") /\ resolved # << >> /\ resolved' = Tail(resolved)
         /\ \A r \in Requests :
              \/ state'[r] = state[r]
              \/ /\ state'[r] = "resolved"
                 /\ state[r] \in {"response_sending", "outcome_unknown"}
                 /\ IdOf[r] = IdOf[Head(resolved)] /\ context[r].start = service.start
         /\ \/ hand' = hand
            \/ \E r \in Requests :
                 /\ hand' = [hand EXCEPT !["main"] = [Idle EXCEPT !.pc = "grant", !.req = r]]
                 /\ decision[r] = "acceptForSession"
         /\ UNCHANGED <<codex, server, conn, queue, token, decision, context, card,
                        service, task, grants, sent, answer>>
<1> DEFINE rows == {r \in RowsOf(IdOf[Head(resolved)]) : Waiting(r)}
<1>1. \A r \in rows : /\ r \in Requests
                      /\ state[r] \in {"response_sending", "outcome_unknown"}
                      /\ IdOf[r] = IdOf[Head(resolved)] /\ context[r].start = service.start
  BY DEF RowsOf, Waiting
<1>2. /\ state' = [r \in Requests |-> IF r \in rows THEN "resolved" ELSE state[r]]
      /\ \/ UNCHANGED hand
         \/ \E r \in rows :
              /\ decision[r] = "acceptForSession"
              /\ hand' = [hand EXCEPT !["main"] = [Idle EXCEPT !.pc = "grant", !.req = r]]
  BY DEF Observe
<1>3. /\ At("main", "idle") /\ resolved # << >> /\ resolved' = Tail(resolved)
      /\ UNCHANGED <<codex, server, conn, queue, token, decision, context, card,
                     service, task, grants, sent, answer>>
  BY DEF Observe, historyVars
<1> HIDE DEF rows
<1>4. QED
  BY <1>1, <1>2, <1>3

\* A row is about a request that was asked.
LEMMA RowStep ==
  ASSUME IInv, Next
  PROVE  RowInv'
<1>a. CodexTypes /\ TableTypes /\ ServiceTypes /\ ConnInv /\ QueueInv /\ RowInv /\ HandInv
  BY DEF IInv, TypeOK
<1> USE <1>a, ApprovalsAssumption DEF RowInv, codexVars, tableVars, historyVars
<1>1. ASSUME NEW r \in Requests, Ask(r)
      PROVE  RowInv'
  BY <1>1 DEF Ask, ConnInv, CodexTypes
<1>2. ASSUME NEW r \in Requests, AskAgain(r) \/ Withdraw(r) \/ Announce(r) \/
             Refuse(r) \/ Repeated(r)
      PROVE  RowInv'
  BY <1>2 DEF AskAgain, Withdraw, Announce, Refuse, Repeated
<1>3. ASSUME NEW r \in Requests, Deliver(r)
      PROVE  RowInv'
  BY <1>3 DEF Deliver, TableTypes
<1>4. ASSUME NEW r \in Requests, Elapse(r)
      PROVE  RowInv'
  BY <1>4 DEF Elapse
<1>5. ASSUME NEW r \in Requests, NEW d \in Decisions, NEW v \in BOOLEAN, Click(r, d, v)
      PROVE  RowInv'
  BY <1>5 DEF Click
<1>6. ASSUME ServerDies \/ Gone \/ Authorise \/ Revoke \/ Quiesce \/ Grant \/
             Terminate \/ LookOn \/ Rejected
      PROVE  RowInv'
  BY <1>6 DEF ServerDies, Gone, Authorise, Revoke, Quiesce, Grant, Terminate, LookOn,
     Rejected
<1>7. ASSUME NEW a \in BOOLEAN, Start(a)
      PROVE  RowInv'
  BY <1>7 DEF Start
<1>8. ASSUME NEW r \in Requests, Issue(r)
      PROVE  RowInv'
  <2>1. UNCHANGED <<conn, card>>
    BY <1>8 DEF Issue
  <2>2. QED
    BY <1>8, <2>1, IssueFacts DEF TableTypes
<1>9. ASSUME Observe
      PROVE  RowInv'
  <2>1. /\ \A r \in Requests :
              \/ state'[r] = state[r]
              \/ state'[r] = "resolved" /\ state[r] \in {"response_sending", "outcome_unknown"}
        /\ UNCHANGED <<codex, conn, context, card, sent>>
    BY <1>9, ObserveFacts
  <2>2. QED
    BY <2>1
<1>10. ASSUME HardStop
      PROVE  RowInv'
  <2>1. /\ \A r \in Requests : state'[r] \in {state[r], "cancelled"}
        /\ \A r \in Requests : state[r] = "none" => state'[r] = "none"
        /\ UNCHANGED <<conn, context, card>>
    BY <1>10 DEF HardStop, Cancellable
  <2>2. QED
    BY <2>1
<1>11. ASSUME QueueCard
      PROVE  RowInv'
  BY <1>11 DEF QueueCard, At, HandInv, TableTypes
<1>12. ASSUME NEW t \in Threads, Commit(t) \/ Prepare(t) \/ Record(t)
      PROVE  RowInv'
  BY <1>12 DEF Commit, Prepare, Record, At, Acceptable, Preparable, Recordable,
     TableTypes, HandInv
<1>13. ASSUME NEW t \in Threads, Send(t)
      PROVE  RowInv'
  BY <1>13 DEF Send
<1> HIDE DEF RowInv, codexVars, tableVars, historyVars
<1>14. QED
  BY StepKinds, <1>1, <1>2, <1>3, <1>4, <1>5, <1>6, <1>7, <1>8, <1>9, <1>10, <1>11,
     <1>12, <1>13

\* Nothing is sent twice.
LEMMA SentStep ==
  ASSUME IInv, Next
  PROVE  SentInv'
<1>a. CodexTypes /\ TableTypes /\ ServiceTypes /\ ConnInv /\ QueueInv /\ RowInv /\
      SentInv /\ HandInv
  BY DEF IInv, TypeOK
<1> USE <1>a, ApprovalsAssumption DEF SentInv, codexVars, tableVars, historyVars
<1>1. ASSUME NEW r \in Requests, Ask(r)
      PROVE  SentInv'
  BY <1>1 DEF Ask, CodexTypes
<1>2. ASSUME NEW r \in Requests, AskAgain(r) \/ Deliver(r) \/ Elapse(r) \/ Repeated(r)
      PROVE  SentInv'
  BY <1>2 DEF AskAgain, Deliver, Elapse, Repeated
<1>3. ASSUME NEW r \in Requests, Withdraw(r) \/ Announce(r)
      PROVE  SentInv'
  BY <1>3 DEF Withdraw, Announce, CodexTypes
<1>4. ASSUME NEW r \in Requests, NEW d \in Decisions, NEW v \in BOOLEAN, Click(r, d, v)
      PROVE  SentInv'
  BY <1>4 DEF Click
<1>5. ASSUME ServerDies \/ Gone \/ Terminate
      PROVE  SentInv'
  BY <1>5 DEF ServerDies, Gone, Terminate, Leave, Lost, CodexTypes
<1>6. ASSUME Authorise \/ Revoke \/ Quiesce \/ QueueCard \/ Grant \/ LookOn \/ Rejected
      PROVE  SentInv'
  BY <1>6 DEF Authorise, Revoke, Quiesce, QueueCard, Grant, LookOn, Rejected
<1>7. ASSUME NEW a \in BOOLEAN, Start(a)
      PROVE  SentInv'
  BY <1>7 DEF Start
<1>8. ASSUME NEW r \in Requests, Refuse(r)
      PROVE  SentInv'
  <2>1. r = queue[1] /\ 1 \in DOMAIN queue
    BY <1>8, TailFacts DEF Refuse, Next_, CodexTypes
  <2>2. /\ conn[r] = service.start /\ conn[r] # 0
        /\ Offered[r] = {} /\ sent[r] = 0
    BY <1>8, <2>1 DEF Refuse, Next_, At, ConnInv, QueueInv, ServiceTypes
  <2>3. /\ sent' = [sent EXCEPT ![r] = sent[r] + 1]
        /\ codex' = [q \in Requests |-> IF q \in Open(IdOf[r]) THEN "refused" ELSE codex[q]]
        /\ UNCHANGED state
    BY <1>8 DEF Refuse
  <2>4. codex'[r] \notin {"quiet", "asked"}
    BY <2>2, <2>3 DEF Open, ConnInv
  <2>5. \A q \in Requests : codex'[q] = codex[q] \/ codex'[q] = "refused"
    BY <2>3
  <2>6. \A q \in Requests : sent'[q] = IF q = r THEN 1 ELSE sent[q]
    BY <2>2, <2>3 DEF TableTypes
  <2>7. QED
    BY <2>2, <2>3, <2>4, <2>5, <2>6
<1>9. ASSUME NEW r \in Requests, Issue(r)
      PROVE  SentInv'
  <2>1. UNCHANGED <<codex, sent>>
    BY <1>9 DEF Issue
  <2>2. QED
    BY <1>9, <2>1, IssueFacts DEF TableTypes
<1>10. ASSUME Observe
      PROVE  SentInv'
  <2>1. /\ \A r \in Requests :
              \/ state'[r] = state[r]
              \/ state'[r] = "resolved" /\ state[r] \in {"response_sending", "outcome_unknown"}
        /\ UNCHANGED <<codex, conn, context, card, sent>>
    BY <1>10, ObserveFacts
  <2>2. QED
    BY <2>1
<1>11. ASSUME HardStop
      PROVE  SentInv'
  BY <1>11 DEF HardStop, Cancellable, TableTypes
<1>12. ASSUME NEW t \in Threads, Commit(t) \/ Prepare(t) \/ Record(t)
      PROVE  SentInv'
  BY <1>12 DEF Commit, Prepare, Record, At, Acceptable, Preparable, Recordable,
     TableTypes, HandInv
<1>13. ASSUME NEW t \in Threads, Send(t)
      PROVE  SentInv'
  <2> DEFINE r == hand[t].req
  <2>1. /\ r \in Requests /\ sent[r] = 0 /\ state[r] \in {"response_sending", "resolved"}
        /\ Offered[r] # {}
    BY <1>13 DEF Send, At, HandInv, RowInv
  <2>2. /\ sent' = sent \/ sent' = [sent EXCEPT ![r] = sent[r] + 1]
        /\ UNCHANGED state
    BY <1>13 DEF Send
  <2>3. \A q \in Requests : codex'[q] = codex[q] \/ codex'[q] = "answered"
    BY <1>13 DEF Send, CodexTypes
  <2> HIDE DEF r
  <2>4. \A q \in Requests : sent'[q] = sent[q] \/ (q = r /\ sent'[q] = 1)
    BY <2>1, <2>2 DEF TableTypes
  <2>5. QED
    BY <2>1, <2>2, <2>3, <2>4
<1> HIDE DEF SentInv, codexVars, tableVars, historyVars
<1>14. QED
  BY StepKinds, <1>1, <1>2, <1>3, <1>4, <1>5, <1>6, <1>7, <1>8, <1>9, <1>10, <1>11,
     <1>12, <1>13

\* The threads hold different requests, each in the state its thread expects.
LEMMA HandStep ==
  ASSUME IInv, Next
  PROVE  HandInv'
<1>a. CodexTypes /\ TableTypes /\ ServiceTypes /\ ConnInv /\ QueueInv /\ RowInv /\
      SentInv /\ HandInv
  BY DEF IInv, TypeOK
<1> USE <1>a, ApprovalsAssumption DEF HandInv, Threads, codexVars, tableVars, historyVars
<1>1. ASSUME NEW r \in Requests, Ask(r) \/ AskAgain(r) \/ Withdraw(r) \/ Announce(r)
             \/ Repeated(r)
      PROVE  HandInv'
  BY <1>1 DEF Ask, AskAgain, Withdraw, Announce, Repeated
<1>2. ASSUME NEW r \in Requests, Deliver(r)
      PROVE  HandInv'
  BY <1>2 DEF Deliver, TableTypes
<1>3. ASSUME NEW r \in Requests, Elapse(r)
      PROVE  HandInv'
  BY <1>3 DEF Elapse
<1>4. ASSUME NEW r \in Requests, NEW d \in Decisions, NEW v \in BOOLEAN, Click(r, d, v)
      PROVE  HandInv'
  BY <1>4 DEF Click, ServiceTypes, Idle, At
<1>5. ASSUME ServerDies \/ Authorise \/ Revoke \/ Quiesce
      PROVE  HandInv'
  BY <1>5 DEF ServerDies, Authorise, Revoke, Quiesce, ServiceTypes
<1>6. ASSUME Gone
      PROVE  HandInv'
  BY <1>6 DEF Gone, Leave, Idle
<1>7. ASSUME NEW a \in BOOLEAN, Start(a)
      PROVE  HandInv'
  BY <1>7 DEF Start, ConnInv
<1>8. ASSUME NEW r \in Requests, Refuse(r)
      PROVE  HandInv'
  <2>1. /\ sent' = [sent EXCEPT ![r] = sent[r] + 1] /\ Offered[r] = {}
        /\ UNCHANGED <<hand, state, context, card, service>>
    BY <1>8 DEF Refuse
  <2>2. \A t \in Threads : hand[t].pc = "send" => /\ hand[t].req \in Requests /\ hand[t].req # r
    BY <2>1 DEF RowInv
  <2>3. QED
    BY <2>1, <2>2 DEF TableTypes
<1>9. ASSUME NEW r \in Requests, Issue(r)
      PROVE  HandInv'
  <2>1. /\ hand'["callback"] = hand["callback"]
        /\ hand'["main"].pc \in {"commit", "card"} /\ hand'["main"].req = r
        /\ UNCHANGED <<card, sent, service>>
    BY <1>9 DEF Issue, Idle, ServiceTypes
  <2>2. hand["callback"].pc # "idle" => hand["callback"].req # r
    BY <1>9, IssueFacts
  <2>3. /\ \A q \in Requests : q # r => state'[q] = state[q] /\ context'[q] = context[q]
        /\ state'[r] = "issued" /\ card[r] = "none"
    BY <1>9, IssueFacts DEF TableTypes
  <2>4. hand["callback"].pc \notin {"idle", "terminate", "end"} => hand["callback"].req \in Requests
    OBVIOUS
  <2>5. QED
    BY <2>1, <2>2, <2>3, <2>4
<1>10. ASSUME Observe
      PROVE  HandInv'
  <2>1. /\ \A r \in Requests :
              \/ state'[r] = state[r]
              \/ state'[r] = "resolved" /\ state[r] \in {"response_sending", "outcome_unknown"}
        /\ UNCHANGED <<context, card, service, sent>>
    BY <1>10, ObserveFacts
  <2>2. /\ hand'["callback"] = hand["callback"]
        /\ \/ hand'["main"] = hand["main"]
           \/ hand'["main"].pc = "grant" /\ hand'["main"].req \in Requests
    <3>1. \/ hand' = hand
          \/ \E r \in Requests :
               hand' = [hand EXCEPT !["main"] = [Idle EXCEPT !.pc = "grant", !.req = r]]
      BY <1>10, ObserveFacts
    <3>2. CASE hand' = hand
      BY <3>2
    <3>3. ASSUME NEW r \in Requests,
                 hand' = [hand EXCEPT !["main"] = [Idle EXCEPT !.pc = "grant", !.req = r]]
          PROVE  /\ hand'["callback"] = hand["callback"]
                 /\ hand'["main"].pc = "grant" /\ hand'["main"].req \in Requests
      BY <3>3 DEF Idle, ServiceTypes
    <3>4. QED
      BY <3>1, <3>2, <3>3
  <2>3. QED
    BY <2>1, <2>2
<1>11. ASSUME HardStop
      PROVE  HandInv'
  BY <1>11 DEF HardStop, Goto, Cancellable
<1>12. ASSUME QueueCard
      PROVE  HandInv'
  BY <1>12 DEF QueueCard, Release, Idle, At, TableTypes, ServiceTypes
<1>13. ASSUME Grant
      PROVE  HandInv'
  BY <1>13 DEF Grant, Release, Idle, At, ServiceTypes
<1>14. ASSUME Terminate
      PROVE  HandInv'
  BY <1>14 DEF Terminate, Goto, At, ServiceTypes
<1>15. ASSUME LookOn
      PROVE  HandInv'
  BY <1>15 DEF LookOn, At, ServiceTypes
<1>16. ASSUME Rejected
      PROVE  HandInv'
  BY <1>16 DEF Rejected, Release, Idle, ServiceTypes
<1>17. ASSUME NEW t \in Threads, Commit(t)
      PROVE  HandInv'
  BY <1>17 DEF Commit, Goto, At, Acceptable, Fits, TableTypes, ServiceTypes, SentInv, RowInv
<1>18. ASSUME NEW t \in Threads, Prepare(t)
      PROVE  HandInv'
  BY <1>18 DEF Prepare, Goto, At, Preparable, TableTypes, ServiceTypes, SentInv, RowInv
<1>19. ASSUME NEW t \in Threads, Send(t)
      PROVE  HandInv'
  <2> DEFINE r == hand[t].req
  <2>1. /\ hand' = [hand EXCEPT ![t].pc = "record"]
        /\ UNCHANGED <<state, context, card, service>>
        /\ hand[t].pc = "send" /\ r \in Requests
        /\ sent' = sent \/ sent' = [sent EXCEPT ![r] = sent[r] + 1]
    BY <1>19 DEF Send, Goto, At
  <2>2. \A u \in Threads : u # t => hand'[u] = hand[u]
    BY <2>1 DEF ServiceTypes
  <2>3. hand'[t].pc = "record" /\ hand'[t].req = r
    BY <2>1 DEF ServiceTypes
  <2>4. \A u \in Threads : u # t /\ hand[u].pc = "send" => hand[u].req # r
    BY <2>1
  <2>5. \A u \in Threads : u # t /\ hand[u].pc = "send" => sent'[hand[u].req] = 0
    BY <2>1, <2>4 DEF TableTypes
  <2> HIDE DEF r
  <2>6. QED
    BY <2>1, <2>2, <2>3, <2>5
<1>20. ASSUME NEW t \in Threads, Record(t)
      PROVE  HandInv'
  BY <1>20 DEF Record, Release, Idle, At, Recordable, TableTypes, ServiceTypes
<1> HIDE DEF HandInv, Threads, codexVars, tableVars, historyVars
<1>21. QED
  BY StepKinds, <1>1, <1>2, <1>3, <1>4, <1>5, <1>6, <1>7, <1>8, <1>9, <1>10, <1>11,
     <1>12, <1>13, <1>14, <1>15, <1>16, <1>17, <1>18, <1>19, <1>20

\* The hard stop closes everything.
LEMMA KillStep ==
  ASSUME IInv, Next
  PROVE  KillInv'
<1>a. TableTypes /\ ServiceTypes /\ ConnInv /\ HandInv /\ KillInv
  BY DEF IInv, TypeOK
<1> USE <1>a, ApprovalsAssumption DEF KillInv, Threads, codexVars, tableVars, historyVars
<1>1. ASSUME NEW r \in Requests, Ask(r) \/ AskAgain(r) \/ Withdraw(r) \/ Announce(r)
             \/ Deliver(r) \/ Elapse(r) \/ Refuse(r) \/ Repeated(r)
      PROVE  KillInv'
  BY <1>1 DEF Ask, AskAgain, Withdraw, Announce, Deliver, Elapse, Refuse, Repeated
<1>2. ASSUME NEW r \in Requests, NEW d \in Decisions, NEW v \in BOOLEAN, Click(r, d, v)
      PROVE  KillInv'
  BY <1>2 DEF Click, ServiceTypes, Idle, At
<1>3. ASSUME ServerDies \/ Authorise \/ Revoke \/ QueueCard \/ Grant \/ LookOn \/ Rejected
      PROVE  KillInv'
  BY <1>3 DEF ServerDies, Authorise, Revoke, QueueCard, Grant, LookOn, Rejected,
     Release, Idle, At, ServiceTypes, HandInv
<1>4. ASSUME Gone
      PROVE  KillInv'
  BY <1>4 DEF Gone, Leave, ServiceTypes
<1>5. ASSUME Quiesce
      PROVE  KillInv'
  BY <1>5 DEF Quiesce, At, ServiceTypes
<1>6. ASSUME NEW a \in BOOLEAN, Start(a)
      PROVE  KillInv'
  BY <1>6 DEF Start, ServiceTypes, ConnInv
<1>7. ASSUME NEW r \in Requests, Issue(r)
      PROVE  KillInv'
  <2>1. hand'["main"].pc \in {"commit", "card"} /\ UNCHANGED service
    BY <1>7 DEF Issue, Idle, ServiceTypes
  <2>2. service.state = "running"
    BY <1>7, IssueFacts DEF Authorised
  <2>3. QED
    BY <2>1, <2>2
<1>8. ASSUME Observe
      PROVE  KillInv'
  <2>1. /\ service.alive => service.state \notin {"hard_stopping", "stopped"}
        /\ UNCHANGED service
    BY <1>8, ObserveFacts DEF At
  <2>2. hand'["main"].pc \in {"idle", "grant"}
    <3>1. \/ hand' = hand
          \/ \E r \in Requests :
               hand' = [hand EXCEPT !["main"] = [Idle EXCEPT !.pc = "grant", !.req = r]]
      BY <1>8, ObserveFacts
    <3>2. CASE hand' = hand
      BY <1>8, <3>2, ObserveFacts DEF At
    <3>3. ASSUME NEW r \in Requests,
                 hand' = [hand EXCEPT !["main"] = [Idle EXCEPT !.pc = "grant", !.req = r]]
          PROVE  hand'["main"].pc = "grant"
      BY <3>3 DEF Idle, ServiceTypes
    <3>4. QED
      BY <3>1, <3>2, <3>3
  <2>3. QED
    BY <2>1, <2>2
<1>9. ASSUME HardStop
      PROVE  KillInv'
  BY <1>9 DEF HardStop, At, Goto, Cancellable, ServiceTypes
<1>10. ASSUME Terminate
      PROVE  KillInv'
  BY <1>10 DEF Terminate, At, Goto, ServiceTypes
<1>11. ASSUME NEW t \in Threads, Commit(t)
      PROVE  KillInv'
  <2>1. /\ service.alive /\ hand[t].pc = "commit" /\ state[hand[t].req] = "issued"
        /\ UNCHANGED service
    BY <1>11 DEF Commit, At, Acceptable
  <2>2. hand[t].req \in Requests
    BY <2>1 DEF HandInv
  <2>3. service.state \notin {"hard_stopping", "stopped"}
    BY <2>1, <2>2
  <2>4. hand'["main"].pc = hand["main"].pc \/ hand'["main"].pc = "prepare"
    BY <1>11 DEF Commit, Goto, ServiceTypes
  <2>5. t = "main" => hand'["main"].pc = "prepare"
    BY <1>11 DEF Commit, Goto, ServiceTypes
  <2>6. QED
    BY <2>1, <2>3, <2>4, <2>5
<1>12. ASSUME NEW t \in Threads, Prepare(t)
      PROVE  KillInv'
  <2>1. /\ service.alive /\ hand[t].pc = "prepare" /\ state[hand[t].req] = "action_committed"
        /\ UNCHANGED service
    BY <1>12 DEF Prepare, At, Preparable
  <2>2. hand[t].req \in Requests
    BY <2>1 DEF HandInv
  <2>3. service.state \notin {"hard_stopping", "stopped"}
    BY <2>1, <2>2
  <2>4. hand'["main"].pc = hand["main"].pc \/ hand'["main"].pc = "send"
    BY <1>12 DEF Prepare, Goto, ServiceTypes
  <2>5. t = "main" => hand'["main"].pc = "send"
    BY <1>12 DEF Prepare, Goto, ServiceTypes
  <2>6. QED
    BY <2>1, <2>3, <2>4, <2>5
<1>13. ASSUME NEW t \in Threads, Send(t) \/ Record(t)
      PROVE  KillInv'
  BY <1>13 DEF Send, Record, At, Goto, Release, Idle, ServiceTypes, TableTypes, HandInv
<1> HIDE DEF KillInv, Threads, codexVars, tableVars, historyVars
<1>14. QED
  BY StepKinds, <1>1, <1>2, <1>3, <1>4, <1>5, <1>6, <1>7, <1>8, <1>9, <1>10, <1>11,
     <1>12, <1>13

\* The answer is the one that was decided.
LEMMA AnswerStep ==
  ASSUME IInv, Next
  PROVE  RightAnswer'
<1>a. CodexTypes /\ TableTypes /\ ServiceTypes /\ ConnInv /\ RowInv /\ HandInv /\
      RightAnswer
  BY DEF IInv, TypeOK
<1> USE <1>a, ApprovalsAssumption DEF RightAnswer, codexVars, tableVars, historyVars
<1>1. ASSUME NEW r \in Requests, Ask(r) \/ AskAgain(r) \/ Withdraw(r) \/ Announce(r)
             \/ Deliver(r) \/ Elapse(r) \/ Refuse(r) \/ Repeated(r) \/ Issue(r)
      PROVE  RightAnswer'
  BY <1>1 DEF Ask, AskAgain, Withdraw, Announce, Deliver, Elapse, Refuse, Repeated, Issue
<1>2. ASSUME NEW r \in Requests, NEW d \in Decisions, NEW v \in BOOLEAN, Click(r, d, v)
      PROVE  RightAnswer'
  BY <1>2 DEF Click
<1>3. ASSUME ServerDies \/ Gone \/ Authorise \/ Revoke \/ Quiesce \/ Observe \/
             HardStop \/ QueueCard \/ Grant \/ Terminate \/ LookOn \/ Rejected
      PROVE  RightAnswer'
  BY <1>3 DEF ServerDies, Gone, Authorise, Revoke, Quiesce, Observe, HardStop,
     QueueCard, Grant, Terminate, LookOn, Rejected
<1>4. ASSUME NEW a \in BOOLEAN, Start(a)
      PROVE  RightAnswer'
  BY <1>4 DEF Start
<1>5. ASSUME NEW t \in Threads, Commit(t) \/ Prepare(t) \/ Record(t)
      PROVE  RightAnswer'
  BY <1>5 DEF Commit, Prepare, Record
<1>6. ASSUME NEW t \in Threads, Send(t)
      PROVE  RightAnswer'
  <2> DEFINE r == hand[t].req
             open == IF server = "up" THEN Open(IdOf[r]) ELSE {}
  <2>1. answer' = [q \in Requests |-> IF q \in open THEN r ELSE answer[q]]
    BY <1>6 DEF Send
  <2>2. r \in Requests /\ context[r].start = service.start /\ state[r] # "none"
    BY <1>6 DEF Send, At, HandInv
  <2>3. conn[r] = service.start /\ conn[r] # 0
    BY <2>2 DEF RowInv
  <2>4. \A q \in Requests : q \in open => q = r
    BY <2>2, <2>3 DEF Open, ConnInv
  <2> HIDE DEF r, open
  <2>5. QED
    BY <2>1, <2>4
<1> HIDE DEF RightAnswer, codexVars, tableVars, historyVars
<1>7. QED
  BY StepKinds, <1>1, <1>2, <1>3, <1>4, <1>5, <1>6

\* A resolved approval was closed by Codex.
LEMMA ResolvedStep ==
  ASSUME IInv, Next
  PROVE  ResolvedIsClosed'
<1>a. CodexTypes /\ TableTypes /\ ServiceTypes /\ ConnInv /\ QueueInv /\ RowInv /\
      ResolvedIsClosed
  BY DEF IInv, TypeOK
<1> USE <1>a, ApprovalsAssumption DEF ResolvedIsClosed, codexVars, tableVars, historyVars
<1>1. ASSUME NEW r \in Requests, Ask(r)
      PROVE  ResolvedIsClosed'
  BY <1>1 DEF Ask, CodexTypes
<1>2. ASSUME NEW r \in Requests, AskAgain(r) \/ Deliver(r) \/ Elapse(r) \/ Repeated(r)
      PROVE  ResolvedIsClosed'
  BY <1>2 DEF AskAgain, Deliver, Elapse, Repeated
<1>3. ASSUME NEW r \in Requests, Withdraw(r) \/ Announce(r)
      PROVE  ResolvedIsClosed'
  BY <1>3 DEF Withdraw, Announce, CodexTypes
<1>4. ASSUME NEW r \in Requests, NEW d \in Decisions, NEW v \in BOOLEAN, Click(r, d, v)
      PROVE  ResolvedIsClosed'
  BY <1>4 DEF Click
<1>5. ASSUME ServerDies \/ Gone \/ Terminate
      PROVE  ResolvedIsClosed'
  BY <1>5 DEF ServerDies, Gone, Terminate, Leave, Lost, CodexTypes
<1>6. ASSUME Authorise \/ Revoke \/ Quiesce \/ QueueCard \/ Grant \/ LookOn \/ Rejected
      PROVE  ResolvedIsClosed'
  BY <1>6 DEF Authorise, Revoke, Quiesce, QueueCard, Grant, LookOn, Rejected
<1>7. ASSUME NEW a \in BOOLEAN, Start(a)
      PROVE  ResolvedIsClosed'
  BY <1>7 DEF Start
<1>8. ASSUME NEW r \in Requests, Refuse(r)
      PROVE  ResolvedIsClosed'
  BY <1>8 DEF Refuse, Open, CodexTypes
<1>9. ASSUME NEW r \in Requests, Issue(r)
      PROVE  ResolvedIsClosed'
  BY <1>9 DEF Issue, TableTypes
<1>10. ASSUME Observe
      PROVE  ResolvedIsClosed'
  <2> DEFINE h == Head(resolved)
  <2>1. /\ \A r \in Requests :
              \/ state'[r] = state[r]
              \/ /\ state'[r] = "resolved" /\ state[r] # "none"
                 /\ IdOf[r] = IdOf[h] /\ context[r].start = service.start
        /\ resolved # << >> /\ UNCHANGED codex
    BY <1>10, ObserveFacts
  <2>2. /\ h = resolved[1] /\ 1 \in DOMAIN resolved /\ h \in Requests
    BY <2>1, TailFacts DEF CodexTypes
  <2>3. conn[h] = service.start /\ codex[h] \in {"closed", "withdrawn"}
    BY <2>2 DEF QueueInv
  <2>4. \A r \in Requests :
          state[r] # "none" /\ IdOf[r] = IdOf[h] /\ context[r].start = service.start => r = h
    BY <2>2, <2>3 DEF RowInv, ConnInv
  <2> HIDE DEF h
  <2>5. QED
    BY <2>1, <2>2, <2>3, <2>4
<1>11. ASSUME HardStop
      PROVE  ResolvedIsClosed'
  BY <1>11 DEF HardStop, Cancellable, TableTypes
<1>12. ASSUME NEW t \in Threads, Commit(t) \/ Prepare(t) \/ Record(t)
      PROVE  ResolvedIsClosed'
  BY <1>12 DEF Commit, Prepare, Record, TableTypes
<1>13. ASSUME NEW t \in Threads, Send(t)
      PROVE  ResolvedIsClosed'
  BY <1>13 DEF Send, Open, CodexTypes
<1> HIDE DEF ResolvedIsClosed, codexVars, tableVars, historyVars
<1>14. QED
  BY StepKinds, <1>1, <1>2, <1>3, <1>4, <1>5, <1>6, <1>7, <1>8, <1>9, <1>10, <1>11,
     <1>12, <1>13

-----------------------------------------------------------------------------
(***************************************************************************)
(* The theorems.                                                           *)
(***************************************************************************)
\* The initial state satisfies the invariant.
LEMMA InitInv == Init => IInv
<1> SUFFICES ASSUME Init
             PROVE  IInv
  OBVIOUS
<1> USE ApprovalsAssumption DEF Init
<1>1. CodexTypes
  BY DEF CodexTypes
<1>2. TableTypes
  BY DEF TableTypes, States
<1>3. ServiceTypes
  <2>1. ServiceOK /\ TaskOK
    BY DEF ServiceOK, TaskOK
  <2>2. HandOK
    BY IdleType DEF HandOK
  <2>3. QED
    BY <2>1, <2>2, ServiceParts
<1>4. ConnInv
  BY DEF ConnInv, Threads, Idle
<1>5. QueueInv /\ RowInv /\ SentInv
  BY DEF QueueInv, RowInv, SentInv
<1>6. HandInv
  BY DEF HandInv, Threads, Idle
<1>7. KillInv /\ RightAnswer /\ ResolvedIsClosed
  BY DEF KillInv, RightAnswer, ResolvedIsClosed
<1>8. QED
  BY <1>1, <1>2, <1>3, <1>4, <1>5, <1>6, <1>7 DEF IInv, TypeOK

\* Every step keeps it.
LEMMA StepInv == IInv /\ [Next]_vars => IInv'
<1>1. ASSUME IInv, Next
      PROVE  IInv'
  <2>1. TypeOK'
    BY <1>1, CodexTypesStep, TableTypesStep, ServiceTypesStep DEF TypeOK
  <2>2. ConnInv' /\ QueueInv' /\ RowInv' /\ SentInv' /\ HandInv' /\ KillInv'
    BY <1>1, ConnStep, QueueStep, RowStep, SentStep, HandStep, KillStep
  <2>3. RightAnswer' /\ ResolvedIsClosed'
    BY <1>1, AnswerStep, ResolvedStep
  <2>4. QED
    BY <2>1, <2>2, <2>3 DEF IInv
<1>2. ASSUME IInv, UNCHANGED vars
      PROVE  IInv'
  <2> USE <1>2 DEF vars, codexVars, tableVars, historyVars
  <2>1. TypeOK'
    BY DEF IInv, TypeOK, CodexTypes, TableTypes, ServiceTypes
  <2>2. ConnInv' /\ QueueInv'
    BY DEF IInv, ConnInv, QueueInv
  <2>3. RowInv' /\ SentInv'
    BY DEF IInv, RowInv, SentInv
  <2>4. HandInv' /\ KillInv'
    BY DEF IInv, HandInv, KillInv
  <2>5. RightAnswer' /\ ResolvedIsClosed'
    BY DEF IInv, RightAnswer, ResolvedIsClosed
  <2>6. QED
    BY <2>1, <2>2, <2>3, <2>4, <2>5 DEF IInv
<1>3. QED
  BY <1>1, <1>2

\* The invariant holds in every behaviour, fair or not.
THEOREM Invariant == Spec => []IInv
BY InitInv, StepInv, PTL DEF Spec

\* The App Server's side, the tables and the threads are well formed, for any requests.
THEOREM TypeCorrect == Spec => []TypeOK
<1>1. IInv => TypeOK
  BY DEF IInv
<1>2. QED
  BY <1>1, Invariant, PTL

\* Codex never takes a decision for the answer to another request, whatever the
\* numbers on the wire and however many connections there were.
THEOREM AnswersAreRight == Spec => []RightAnswer
<1>1. IInv => RightAnswer
  BY DEF IInv
<1>2. QED
  BY <1>1, Invariant, PTL

\* No request is answered twice by the bridge.
THEOREM AnswersAreSingle == Spec => []AnsweredOnce
<1>1. IInv => AnsweredOnce
  BY DEF IInv, SentInv, AnsweredOnce
<1>2. QED
  BY <1>1, Invariant, PTL

\* An approval that is recorded as resolved was closed by Codex.
THEOREM ResolvedByCodex == Spec => []ResolvedIsClosed
<1>1. IInv => ResolvedIsClosed
  BY DEF IInv
<1>2. QED
  BY <1>1, Invariant, PTL

\* What a step may do after the hard stop, and to the state of an approval.
AfterKill == /\ \A r \in Requests :
                  state'[r] \in {"issued", "action_committed", "response_sending"}
                    => state'[r] = state[r]
             /\ grants' \subseteq grants

Moves == \A r \in Requests : state'[r] \in Table[state[r]] \cup {state[r]}

\* After the hard stop no step opens anything.
LEMMA KillStepFence ==
  ASSUME IInv, Next, Killed
  PROVE  AfterKill
<1>a. TableTypes /\ ServiceTypes /\ HandInv /\ KillInv
  BY DEF IInv, TypeOK
<1> USE <1>a, ApprovalsAssumption DEF AfterKill, Killed, codexVars, tableVars, historyVars
<1>1. ASSUME NEW r \in Requests, Ask(r) \/ AskAgain(r) \/ Withdraw(r) \/ Announce(r)
             \/ Deliver(r) \/ Elapse(r) \/ Refuse(r) \/ Repeated(r)
      PROVE  AfterKill
  BY <1>1 DEF Ask, AskAgain, Withdraw, Announce, Deliver, Elapse, Refuse, Repeated
<1>2. ASSUME NEW r \in Requests, NEW d \in Decisions, NEW v \in BOOLEAN, Click(r, d, v)
      PROVE  AfterKill
  BY <1>2 DEF Click
<1>3. ASSUME ServerDies \/ Gone \/ Authorise \/ Revoke \/ Quiesce \/ QueueCard \/
             Terminate \/ LookOn \/ Rejected
      PROVE  AfterKill
  BY <1>3 DEF ServerDies, Gone, Authorise, Revoke, Quiesce, QueueCard, Terminate,
     LookOn, Rejected
<1>4. ASSUME NEW a \in BOOLEAN, Start(a)
      PROVE  AfterKill
  BY <1>4 DEF Start
<1>5. ASSUME NEW r \in Requests, Issue(r)
      PROVE  AfterKill
  <2>1. service.state = "running"
    BY <1>5, IssueFacts DEF Authorised
  <2>2. QED
    BY <2>1
<1>6. ASSUME Observe
      PROVE  AfterKill
  <2>1. /\ \A r \in Requests : state'[r] = state[r] \/ state'[r] = "resolved"
        /\ UNCHANGED grants
    BY <1>6, ObserveFacts
  <2>2. QED
    BY <2>1
<1>7. ASSUME HardStop
      PROVE  AfterKill
  BY <1>7 DEF HardStop
<1>8. ASSUME Grant
      PROVE  AfterKill
  BY <1>8 DEF Grant, At, KillInv
<1>9. ASSUME NEW t \in Threads, Commit(t)
      PROVE  AfterKill
  BY <1>9 DEF Commit, Acceptable, At, HandInv, KillInv
<1>10. ASSUME NEW t \in Threads, Prepare(t)
      PROVE  AfterKill
  BY <1>10 DEF Prepare, Preparable, At, HandInv, KillInv
<1>11. ASSUME NEW t \in Threads, Send(t) \/ Record(t)
      PROVE  AfterKill
  BY <1>11 DEF Send, Record, At, HandInv, TableTypes
<1> HIDE DEF AfterKill, Killed, codexVars, tableVars, historyVars
<1>12. QED
  BY StepKinds, <1>1, <1>2, <1>3, <1>4, <1>5, <1>6, <1>7, <1>8, <1>9, <1>10, <1>11

\* Every step moves an approval as the table allows.
LEMMA TableStep ==
  ASSUME IInv, Next
  PROVE  Moves
<1>a. TableTypes /\ HandInv
  BY DEF IInv, TypeOK
<1> USE <1>a, ApprovalsAssumption DEF Moves, Table, TableTypes, States, codexVars,
        tableVars, historyVars
<1>1. ASSUME NEW r \in Requests, Ask(r) \/ AskAgain(r) \/ Withdraw(r) \/ Announce(r)
             \/ Deliver(r) \/ Elapse(r) \/ Refuse(r) \/ Repeated(r)
      PROVE  Moves
  BY <1>1 DEF Ask, AskAgain, Withdraw, Announce, Deliver, Elapse, Refuse, Repeated
<1>2. ASSUME NEW r \in Requests, NEW d \in Decisions, NEW v \in BOOLEAN, Click(r, d, v)
      PROVE  Moves
  BY <1>2 DEF Click
<1>3. ASSUME ServerDies \/ Gone \/ Authorise \/ Revoke \/ Quiesce \/ QueueCard \/
             Grant \/ Terminate \/ LookOn \/ Rejected
      PROVE  Moves
  BY <1>3 DEF ServerDies, Gone, Authorise, Revoke, Quiesce, QueueCard, Grant,
     Terminate, LookOn, Rejected
<1>4. ASSUME NEW a \in BOOLEAN, Start(a)
      PROVE  Moves
  BY <1>4 DEF Start
<1>5. ASSUME NEW r \in Requests, Issue(r)
      PROVE  Moves
  <2>1. state[r] = "none" /\ state' = [state EXCEPT ![r] = "issued"]
    BY <1>5, IssueFacts
  <2>2. QED
    BY <2>1
<1>6. ASSUME Observe
      PROVE  Moves
  <2>1. \A r \in Requests :
          \/ state'[r] = state[r]
          \/ state'[r] = "resolved" /\ state[r] \in {"response_sending", "outcome_unknown"}
    BY <1>6, ObserveFacts
  <2>2. QED
    BY <2>1
<1>7. ASSUME HardStop
      PROVE  Moves
  BY <1>7 DEF HardStop, Cancellable
<1>8. ASSUME NEW t \in Threads, Commit(t)
      PROVE  Moves
  BY <1>8 DEF Commit, Acceptable, At, HandInv
<1>9. ASSUME NEW t \in Threads, Prepare(t)
      PROVE  Moves
  BY <1>9 DEF Prepare, Preparable, At, HandInv
<1>10. ASSUME NEW t \in Threads, Send(t)
      PROVE  Moves
  BY <1>10 DEF Send
<1>11. ASSUME NEW t \in Threads, Record(t)
      PROVE  Moves
  BY <1>11 DEF Record, Recordable, At, HandInv
<1> HIDE DEF Moves, Table, TableTypes, States, codexVars, tableVars, historyVars
<1>12. QED
  BY StepKinds, <1>1, <1>2, <1>3, <1>4, <1>5, <1>6, <1>7, <1>8, <1>9, <1>10, <1>11

\* Once the hard stop has committed, nothing is issued, committed, prepared or granted.
THEOREM KillFenceHolds == Spec => KillFence
<1>1. IInv /\ [Next]_vars => [Killed => AfterKill]_vars
  BY KillStepFence
<1>2. QED
  BY <1>1, Invariant, PTL DEF Spec, KillFence, AfterKill

\* Every approval moves as the table of BridgeStorage allows.
THEOREM TableHolds == Spec => FollowsTable
<1>1. IInv /\ [Next]_vars => [Moves]_vars
  BY TableStep
<1>2. QED
  BY <1>1, Invariant, PTL DEF Spec, FollowsTable, Moves

=============================================================================
