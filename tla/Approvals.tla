----------------------------- MODULE Approvals -----------------------------
(***************************************************************************)
(* What Codex asks its user before it acts, and how the bridge passes the  *)
(* question to Feishu and the decision back (ApprovalGateway,              *)
(* ApprovalBroker), under the owner's hard stop (EmergencyController).     *)
(*                                                                         *)
(* Two threads of the bridge work on the same rows: the main loop, which   *)
(* publishes the requests, observes the resolutions and stops; and the     *)
(* callback thread, on which a click on a card is decided.  A request      *)
(* belongs to one connection to the App Server, which dies with the        *)
(* bridge; its number on the wire comes again in the next connection.      *)
(* The module is about the requests of one task.                           *)
(***************************************************************************)
EXTENDS Naturals, Sequences

CONSTANTS
  Requests,     \* the requests of Codex, over all connections
  IdOf,         \* the number of each on the wire
  Offered,      \* the decisions of each; none: a method the bridge does not serve
  MaxStarts,    \* bound: starts of the bridge
  MaxEpoch,     \* bound: binding epochs of the task
  None          \* no request, no decision

Decisions == {"accept", "acceptForSession", "decline", "submit"}

ASSUME ApprovalsAssumption ==
  /\ None \notin Requests \cup Decisions
  /\ DOMAIN IdOf = Requests
  /\ Offered \in [Requests -> SUBSET Decisions]
  /\ MaxStarts \in Nat /\ MaxEpoch \in Nat

VARIABLES
  codex,    \* the App Server's view of each request
  server,   \* whether the App Server runs
  conn,     \* the start of the bridge whose connection the request came on
  queue,    \* AppServerConnection.server_requests
  resolved, \* AppServerConnection.notifications: serverRequest/resolved
  state,    \* approval_requests.state, "none" without a row
  token,    \* approval_actions: consumed_at, and expires_at until it is consumed
  decision, \* approval_actions.consumed_decision
  context,  \* approval_actions: fencing token (and with it the server and
            \* connection epoch and the session), kill generation, binding epoch
  card,     \* the card of each request: its outbox row and card_message_id
  service,  \* service_state, whether the process lives, remote.auto_approve
  task,     \* task_bindings.current_binding_epoch; grant active and opted in
  grants,   \* active_grants
  hand,     \* what each thread is doing
  sent,     \* the responses the bridge wrote for each request
  answer    \* the request whose decision Codex took as the answer to each

codexVars   == <<codex, server, conn, queue, resolved>>
tableVars   == <<state, token, decision, context>>
historyVars == <<sent, answer>>
vars == <<codexVars, tableVars, card, service, task, grants, hand,
          historyVars>>

Threads == {"main", "callback"}
Idle == [pc |-> "idle", req |-> None, decision |-> None, valid |-> TRUE,
         kill |-> 0, epoch |-> 0]

At(t, pc) == service.alive /\ hand[t].pc = pc
Goto(t, pc) == hand' = [hand EXCEPT ![t].pc = pc]
Release(t) == hand' = [hand EXCEPT ![t] = Idle]

\* The task has an active grant and the service is running.
Authorised == task.authorised /\ service.state = "running"

\* Mutation: the number without the connection.
RowsOfAny(id) == {r \in Requests : state[r] # "none" /\ IdOf[r] = id}

\* The row of this connection with a number of the wire.
RowsOf(id) == {r \in Requests : /\ state[r] # "none"
                                /\ context[r].start = service.start
                                /\ IdOf[r] = id}
-----------------------------------------------------------------------------
Init ==
  /\ codex = [r \in Requests |-> "quiet"]
  /\ server = "down"
  /\ conn = [r \in Requests |-> 0]
  /\ queue = << >>
  /\ resolved = << >>
  /\ state = [r \in Requests |-> "none"]
  /\ token = [r \in Requests |-> "none"]
  /\ decision = [r \in Requests |-> None]
  /\ context = [r \in Requests |-> [start |-> 0, kill |-> 0, epoch |-> 0]]
  /\ card = [r \in Requests |-> "none"]
  /\ service = [alive |-> FALSE, state |-> "stopped", start |-> 0, kill |-> 0, auto |-> FALSE]
  /\ task = [epoch |-> 1, authorised |-> FALSE]
  /\ grants = {}
  /\ hand = [t \in Threads |-> Idle]
  /\ sent = [r \in Requests |-> 0]
  /\ answer = [r \in Requests |-> None]
-----------------------------------------------------------------------------
(***************************************************************************)
(* Codex.  It asks, may deliver a request again, may withdraw it (its turn *)
(* ended), announces what is resolved, and may die; the bridge does not    *)
(* notice that.  Within a connection no number of the wire comes twice.    *)
(***************************************************************************)
Ask(r) ==
  /\ service.alive /\ server = "up"
  /\ codex[r] = "quiet"
  /\ \A q \in Requests : conn[q] = service.start => IdOf[q] # IdOf[r]
  /\ codex' = [codex EXCEPT ![r] = "asked"]
  /\ conn' = [conn EXCEPT ![r] = service.start]
  /\ queue' = Append(queue, r)
  /\ UNCHANGED <<server, resolved, tableVars, card, service, task, grants, hand,
                 historyVars>>

AskAgain(r) ==
  /\ service.alive
  /\ codex[r] = "asked"
  /\ \A i \in DOMAIN queue : queue[i] # r
  /\ queue' = Append(queue, r)
  /\ UNCHANGED <<codex, server, conn, resolved, tableVars, card, service, task,
                 grants, hand, historyVars>>

Withdraw(r) ==
  /\ codex[r] = "asked"
  /\ codex' = [codex EXCEPT ![r] = "withdrawn"]
  /\ resolved' = Append(resolved, r)
  /\ UNCHANGED <<server, conn, queue, tableVars, card, service, task, grants, hand,
                 historyVars>>

Announce(r) ==
  /\ codex[r] = "answered"
  /\ codex' = [codex EXCEPT ![r] = "closed"]
  /\ resolved' = Append(resolved, r)
  /\ UNCHANGED <<server, conn, queue, tableVars, card, service, task, grants, hand,
                 historyVars>>

\* What was open when the App Server ended will never be answered.
Lost == [r \in Requests |-> IF codex[r] \in {"asked", "answered"} THEN "lost" ELSE codex[r]]

ServerDies ==
  /\ server = "up"
  /\ server' = "down"
  /\ codex' = Lost
  /\ UNCHANGED <<conn, queue, resolved, tableVars, card, service, task, grants,
                 hand, historyVars>>
-----------------------------------------------------------------------------
(***************************************************************************)
(* The process: an exception in the main loop leaves it by _shutdown, just *)
(* as a stop does; a crash leaves the state of the service as it was, and  *)
(* the next start knows by it.                                             *)
(***************************************************************************)
Leave(last) ==
  /\ service' = [service EXCEPT !.alive = FALSE, !.state = last]
  /\ server' = "down"
  /\ codex' = Lost
  /\ queue' = << >>
  /\ resolved' = << >>
  /\ hand' = [t \in Threads |-> Idle]

Fall ==
  /\ Leave("stopped")
  /\ UNCHANGED <<conn, tableVars, card, task, grants, historyVars>>

Shutdown == (At("main", "idle") \/ At("main", "end")) /\ Fall

Crash ==
  /\ service.alive
  /\ Leave(service.state)
  /\ UNCHANGED <<conn, tableVars, card, task, grants, historyVars>>

\* _acquire_service_fence; the grants of the older start are revoked.
Start(auto) ==
  /\ ~ service.alive
  /\ service.start < MaxStarts
  /\ service' = [alive |-> TRUE, state |-> "running", start |-> service.start + 1,
                 kill |-> service.kill + (IF service.state = "stopped" THEN 0 ELSE 1),
                 auto |-> auto]
  /\ server' = "up"
  /\ task' = [task EXCEPT !.authorised = FALSE]
  /\ UNCHANGED <<codex, conn, queue, resolved, tableVars, card, grants, hand,
                 historyVars>>

\* The task is authorised again in each pass, archived, or bound anew.
Authorise ==
  /\ At("main", "idle") /\ service.state = "running"
  /\ ~ task.authorised
  /\ task' = [task EXCEPT !.authorised = TRUE]
  /\ UNCHANGED <<codexVars, tableVars, card, service, grants, hand,
                 historyVars>>

Revoke ==
  /\ At("main", "idle")
  /\ task.authorised
  /\ task' \in {[task EXCEPT !.authorised = FALSE],
                [epoch |-> task.epoch + 1, authorised |-> FALSE]}
  /\ task'.epoch <= MaxEpoch
  /\ UNCHANGED <<codexVars, tableVars, card, service, grants, hand,
                 historyVars>>

\* soft_quiesce; the pass of the loop that asked for it goes on to its end.
Quiesce ==
  /\ At("main", "idle") /\ service.state = "running"
  /\ service' = [service EXCEPT !.state = "quiescing"]
  /\ UNCHANGED <<codexVars, tableVars, card, task, grants, hand, historyVars>>
-----------------------------------------------------------------------------
(***************************************************************************)
(* publish_next_request.  The request leaves the queue before anything is  *)
(* known of it.                                                            *)
(***************************************************************************)
Next_(r) == At("main", "idle") /\ queue # << >> /\ r = Head(queue)

\* respond and respond_error reach the open request with that number.
Open(id) == {r \in Requests : codex[r] = "asked" /\ conn[r] = service.start /\ IdOf[r] = id}

Refuse(r) ==
  /\ Next_(r)
  /\ Offered[r] = {}
  /\ server = "up"
  /\ queue' = Tail(queue)
  /\ codex' = [q \in Requests |-> IF q \in Open(IdOf[r]) THEN "refused" ELSE codex[q]]
  /\ sent' = [sent EXCEPT ![r] = @ + 1]
  /\ UNCHANGED <<server, conn, resolved, tableVars, card, service, task, grants,
                 hand, answer>>

\* Mutation: the exception is swallowed and the loop goes on.
RejectQuietly(r) ==
  /\ Next_(r)
  /\ IF Offered[r] = {} THEN server = "down" ELSE ~ Authorised
  /\ queue' = Tail(queue)
  /\ UNCHANGED <<codex, server, conn, resolved, tableVars, card, service, task, grants,
                 hand, historyVars>>

\* The thread is not bound, or the pipe is closed: the exception ends the loop.
Reject(r) ==
  /\ Next_(r)
  /\ IF Offered[r] = {} THEN server = "down" ELSE ~ Authorised
  /\ Fall

\* Mutation: only a request that is not decided yet.
KnownIssued(r) == \E q \in RowsOf(IdOf[r]) : state[q] = "issued"

Known(r) == RowsOf(IdOf[r]) # {}

Repeated(r) ==
  /\ Next_(r)
  /\ Offered[r] # {} /\ Authorised
  /\ Known(r)
  /\ queue' = Tail(queue)
  /\ UNCHANGED <<codex, server, conn, resolved, tableVars, card, service, task,
                 grants, hand, historyVars>>

\* _automatic_decision: the strongest approval, never an answer to a question.
Automatic(r) == Offered[r] \cap {"accept", "acceptForSession"}

Strongest(r) == IF "acceptForSession" \in Offered[r] THEN "acceptForSession" ELSE "accept"

Issue(r) ==
  /\ Next_(r)
  /\ Offered[r] # {} /\ Authorised
  /\ ~ Known(r)
  /\ queue' = Tail(queue)
  /\ state' = [state EXCEPT ![r] = "issued"]
  /\ token' = [token EXCEPT ![r] = "fresh"]
  /\ context' = [context EXCEPT ![r] =
                   [start |-> service.start, kill |-> service.kill, epoch |-> task.epoch]]
  /\ hand' = [hand EXCEPT !["main"] =
       IF service.auto /\ Automatic(r) # {}
       THEN [pc |-> "commit", req |-> r, decision |-> Strongest(r), valid |-> TRUE,
             kill |-> service.kill, epoch |-> task.epoch]
       ELSE [Idle EXCEPT !.pc = "card", !.req = r]]
  /\ UNCHANGED <<codex, server, conn, resolved, decision, card, service, task,
                 grants, historyVars>>

QueueCard ==
  /\ At("main", "card")
  /\ card' = [card EXCEPT ![hand["main"].req] = "queued"]
  /\ Release("main")
  /\ UNCHANGED <<codexVars, tableVars, service, task, grants, historyVars>>

\* The outbox: the card appears, and only then its message is bound to the row.
\* A card that is never delivered stays queued; a stop drains the outbox once more.
Deliver(r) ==
  /\ At("main", "idle") \/ At("main", "end")
  /\ \/ card[r] = "queued" /\ card' = [card EXCEPT ![r] = "shown"]
     \/ card[r] = "shown" /\ card' = [card EXCEPT ![r] = "bound"]
  /\ UNCHANGED <<codexVars, tableVars, service, task, grants, hand,
                 historyVars>>

Elapse(r) ==
  /\ token[r] = "fresh"
  /\ token' = [token EXCEPT ![r] = "elapsed"]
  /\ UNCHANGED <<codexVars, state, decision, context, card, service, task, grants, hand, historyVars>>
-----------------------------------------------------------------------------
(***************************************************************************)
(* A decision.  A click is checked against the tables as they are (Look),  *)
(* then against the row of its token (Commit); an automatic decision       *)
(* starts at Commit, on the main thread.  A failure tells the user that    *)
(* the action was rejected, or ends the main loop.                         *)
(***************************************************************************)
Click(r, d, valid) ==
  /\ At("callback", "idle")
  /\ card[r] \in {"shown", "bound"}
  /\ d \in Offered[r]
  /\ valid \/ d = "submit"
  /\ hand' = [hand EXCEPT !["callback"] =
                [Idle EXCEPT !.pc = "look", !.req = r, !.decision = d, !.valid = valid]]
  /\ UNCHANGED <<codexVars, tableVars, card, service, task, grants, historyVars>>

Rejected ==
  /\ Release("callback")
  /\ UNCHANGED <<codexVars, tableVars, card, service, task, grants, historyVars>>

Fail(t) == IF t = "main" THEN Fall ELSE Rejected

Look ==
  /\ At("callback", "look")
  /\ IF card[hand["callback"].req] = "bound" /\ Authorised
     THEN /\ hand' = [hand EXCEPT !["callback"].pc = "commit",
                                  !["callback"].kill = service.kill,
                                  !["callback"].epoch = task.epoch]
          /\ UNCHANGED <<codexVars, tableVars, card, service, task, grants,
                         historyVars>>
     ELSE Rejected

\* Mutation: without the fencing token and the epochs of the connection.
FitsEpochs(t) == /\ context[hand[t].req].kill = hand[t].kill
                 /\ context[hand[t].req].epoch = hand[t].epoch

\* The context of the token is the one the thread has read.
Fits(t) == context[hand[t].req] =
             [start |-> service.start, kill |-> hand[t].kill, epoch |-> hand[t].epoch]

\* commit_card_action.  What it writes of an expired token is rolled back.
Acceptable(t) ==
  LET r == hand[t].req IN
  token[r] = "fresh" /\ Fits(t) /\ state[r] = "issued"

Commit(t) ==
  /\ At(t, "commit")
  /\ Acceptable(t)
  /\ LET r == hand[t].req IN
       /\ token' = [token EXCEPT ![r] = "consumed"]
       /\ decision' = [decision EXCEPT ![r] = hand[t].decision]
       /\ state' = [state EXCEPT ![r] = "action_committed"]
  /\ Goto(t, "prepare")
  /\ UNCHANGED <<codexVars, context, card, service, task, grants, historyVars>>

\* Mutation: compared with the state before the decision.
PreparableIssued(t) == hand[t].valid /\ state[hand[t].req] = "issued"

\* _resolve_dynamic_response, which a form can fail, and commit_exact_response.
Preparable(t) == hand[t].valid /\ state[hand[t].req] = "action_committed"

Prepare(t) ==
  /\ At(t, "prepare")
  /\ Preparable(t)
  /\ state' = [state EXCEPT ![hand[t].req] = "response_sending"]
  /\ Goto(t, "send")
  /\ UNCHANGED <<codexVars, token, decision, context, card, service, task, grants,
                 historyVars>>

\* A closed pipe raises, and the outcome is recorded as unknown all the same.
Send(t) ==
  /\ At(t, "send")
  /\ LET r == hand[t].req
         open == IF server = "up" THEN Open(IdOf[r]) ELSE {} IN
       /\ codex' = [q \in Requests |-> IF q \in open THEN "answered" ELSE codex[q]]
       /\ answer' = [q \in Requests |-> IF q \in open THEN r ELSE answer[q]]
       /\ sent' = IF server = "up" THEN [sent EXCEPT ![r] = @ + 1] ELSE sent
  /\ Goto(t, "record")
  /\ UNCHANGED <<server, conn, queue, resolved, tableVars, card, service, task,
                 grants>>

\* Mutation: recorded as refused by Codex.
RecordRejected(t) ==
  /\ At(t, "record")
  /\ state[hand[t].req] = "response_sending"
  /\ state' = [state EXCEPT ![hand[t].req] = "rejected"]
  /\ Release(t)
  /\ UNCHANGED <<codexVars, token, decision, context, card, service, task, grants,
                 historyVars>>

Recordable(t) == state[hand[t].req] = "response_sending"

Record(t) ==
  /\ At(t, "record")
  /\ Recordable(t)
  /\ state' = [state EXCEPT ![hand[t].req] = "outcome_unknown"]
  /\ Release(t)
  /\ UNCHANGED <<codexVars, token, decision, context, card, service, task, grants,
                 historyVars>>

Refused(t) ==
  /\ \/ At(t, "commit") /\ ~ Acceptable(t)
     \/ At(t, "prepare") /\ ~ Preparable(t)
     \/ At(t, "record") /\ ~ Recordable(t)
  /\ Fail(t)
-----------------------------------------------------------------------------
(***************************************************************************)
(* observe_resolution_notification, on the main thread.                    *)
(***************************************************************************)
Waiting(r) == state[r] \in {"response_sending", "outcome_unknown"}

Observe ==
  /\ At("main", "idle") /\ resolved # << >>
  /\ resolved' = Tail(resolved)
  /\ LET rows == {r \in RowsOf(IdOf[Head(resolved)]) : Waiting(r)} IN
       /\ state' = [r \in Requests |-> IF r \in rows THEN "resolved" ELSE state[r]]
       /\ \/ /\ \A r \in rows : decision[r] # "acceptForSession"
             /\ UNCHANGED hand
          \/ \E r \in rows :
               /\ decision[r] = "acceptForSession"
               /\ hand' = [hand EXCEPT !["main"] = [Idle EXCEPT !.pc = "grant", !.req = r]]
  /\ UNCHANGED <<codex, server, conn, queue, token, decision, context, card,
                 service, task, grants, historyVars>>

Grant ==
  /\ At("main", "grant")
  /\ grants' = grants \cup {[req |-> hand["main"].req, start |-> service.start,
                             kill |-> service.kill]}
  /\ Release("main")
  /\ UNCHANGED <<codexVars, tableVars, card, service, task, historyVars>>
-----------------------------------------------------------------------------
(***************************************************************************)
(* hard_stop: the tables in one transaction, then the App Server.          *)
(***************************************************************************)
\* Mutations: a decision that is committed goes on; one that is sent is cancelled.
CancelIssued == {"issued"}
CancelSending == {"issued", "action_committed", "response_sending"}

Cancellable == {"issued", "action_committed"}

HardStop ==
  /\ At("main", "idle") /\ service.state = "running"
  /\ service' = [service EXCEPT !.state = "hard_stopping", !.kill = @ + 1]
  /\ grants' = {}
  /\ task' = [task EXCEPT !.authorised = FALSE]
  /\ state' = [r \in Requests |->
       IF state[r] \in Cancellable THEN "cancelled" ELSE state[r]]
  /\ token' = [r \in Requests |-> IF token[r] # "none" THEN "consumed" ELSE token[r]]
  /\ Goto("main", "terminate")
  /\ UNCHANGED <<codexVars, decision, context, card, historyVars>>

Terminate ==
  /\ At("main", "terminate")
  /\ server' = "down"
  /\ codex' = Lost
  /\ service' = [service EXCEPT !.state = "stopped"]
  /\ Goto("main", "end")
  /\ UNCHANGED <<conn, queue, resolved, tableVars, card, task, grants,
                 historyVars>>
-----------------------------------------------------------------------------
Publish == \E r \in Requests : Refuse(r) \/ Reject(r) \/ Repeated(r) \/ Issue(r)
Decide(t) == Commit(t) \/ Prepare(t) \/ Send(t) \/ Record(t) \/ Refused(t)
MainGoesOn == QueueCard \/ Grant \/ Terminate \/ Decide("main")
CallbackGoesOn == Look \/ Decide("callback")

Next ==
  \/ \E r \in Requests :
       \/ Ask(r) \/ AskAgain(r) \/ Withdraw(r) \/ Announce(r)
       \/ Deliver(r) \/ Elapse(r)
       \/ \E d \in Decisions, valid \in BOOLEAN : Click(r, d, valid)
  \/ ServerDies \/ Shutdown \/ Crash \/ Authorise \/ Revoke \/ Quiesce
  \/ \E auto \in BOOLEAN : Start(auto)
  \/ Publish \/ Observe \/ HardStop
  \/ MainGoesOn \/ CallbackGoesOn

Spec == Init /\ [][Next]_vars

\* Each pass of the loop calls publish_next_request; a thread does not stop
\* between two statements.  Of Codex, the user and the outbox nothing.
FairSpec == Spec /\ SF_vars(Publish) /\ WF_vars(MainGoesOn) /\ WF_vars(CallbackGoesOn)
-----------------------------------------------------------------------------
States == {"none", "issued", "action_committed", "response_sending", "outcome_unknown",
           "resolved", "cancelled"}

CodexTypes ==
  /\ codex \in [Requests -> {"quiet", "asked", "answered", "closed", "refused",
                             "withdrawn", "lost"}]
  /\ server \in {"up", "down"}
  /\ conn \in [Requests -> 0 .. MaxStarts]
  /\ queue \in Seq(Requests) /\ resolved \in Seq(Requests)

TableTypes ==
  /\ state \in [Requests -> States]
  /\ token \in [Requests -> {"none", "fresh", "elapsed", "consumed"}]
  /\ decision \in [Requests -> Decisions \cup {None}]
  /\ context \in [Requests -> [start : 0 .. MaxStarts, kill : Nat, epoch : Nat]]
  /\ card \in [Requests -> {"none", "queued", "shown", "bound"}]
  /\ grants \subseteq [req : Requests, start : 0 .. MaxStarts, kill : Nat]
  /\ sent \in [Requests -> Nat]
  /\ answer \in [Requests -> Requests \cup {None}]

ServiceTypes ==
  /\ service \in [alive : BOOLEAN, start : 0 .. MaxStarts, kill : Nat, auto : BOOLEAN,
                  state : {"running", "quiescing", "hard_stopping", "stopped"}]
  /\ task \in [epoch : Nat, authorised : BOOLEAN]
  /\ hand \in [Threads -> [pc : {"idle", "card", "grant", "terminate", "end", "look",
                                 "commit", "prepare", "send", "record"},
                           req : Requests \cup {None}, decision : Decisions \cup {None},
                           valid : BOOLEAN, kill : Nat, epoch : Nat]]

\* The values each variable takes.
TypeOK == CodexTypes /\ TableTypes /\ ServiceTypes

\* What Codex takes for the answer to a request was decided for that request,
\* although a card of an earlier connection stays in the chat and its request
\* had the same number on the wire (test_approvals_audit_emergency.py: an
\* approval of a previous session cannot be consumed).
RightAnswer == \A r \in Requests : answer[r] \in {None, r}

\* However often Codex delivers a request and its card is clicked, by either
\* thread, the bridge answers it at most once (approvals.py: single-use).
AnsweredOnce == \A r \in Requests : sent[r] <= 1

\* An approval is only recorded as resolved when Codex has closed the request
\* it stands for, in its own connection (approval_gateway.py: resolution is
\* only promoted by serverRequest/resolved).
ResolvedIsClosed ==
  \A r \in Requests : state[r] = "resolved" => codex[r] \in {"closed", "withdrawn"}

\* Once hard_stop has committed, no request is issued, no decision committed
\* or prepared and no session granted, whatever the callback thread had read
\* before (emergency.py: the generation fence is durable first).
Killed == service.alive /\ service.state \in {"hard_stopping", "stopped"}

KillFence ==
  [][Killed => /\ \A r \in Requests :
                    state'[r] \in {"issued", "action_committed", "response_sending"}
                      => state'[r] = state[r]
               /\ grants' \subseteq grants]_vars

\* The approvals move as the table of BridgeStorage allows, which the broker,
\* the gateway and the hard stop each bypass with statements of their own.
Table ==
  [none |-> {"issued"},
   issued |-> {"action_committed", "rejected", "expired", "cancelled"},
   action_committed |-> {"response_sending", "cancelled"},
   response_sending |-> {"resolved", "rejected", "outcome_unknown"},
   outcome_unknown |-> {"resolved", "rejected"},
   resolved |-> {}, cancelled |-> {}]

FollowsTable ==
  [][\A r \in Requests : state'[r] \in Table[state[r]] \cup {state[r]}]_vars

\* A request Codex waits for gets its row, or Codex no longer waits for it:
\* no request is forgotten between the queue and the tables.
Published == \A r \in Requests : codex[r] = "asked" ~> (state[r] # "none" \/ codex[r] # "asked")

\* A decision that was accepted goes on: its response is prepared, a hard stop
\* cancels it, or the process ends.  Forms are exempt: see RejectedIsRejected.
GoesOn ==
  \A r \in Requests :
    (state[r] = "action_committed" /\ context[r].start = service.start
       /\ "submit" \notin Offered[r])
      ~> (state[r] # "action_committed" \/ ~ service.alive)

\* A click that is reported as rejected has done nothing (events.py: "Invalid,
\* expired, duplicate, or drifted actions are rejected").
RejectedIsRejected ==
  [][Refused("callback") => \/ hand["callback"].pc = "commit"
                           \/ state[hand["callback"].req] = "cancelled"]_vars
=============================================================================
