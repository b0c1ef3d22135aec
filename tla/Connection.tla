----------------------------- MODULE Connection -----------------------------
(***************************************************************************)
(* The connection to the Codex App Server (codex/connection.py over        *)
(* codex/app_server_client.py): callers on two threads, the main loop and  *)
(* the title reader, each send a request and wait for its response; one    *)
(* reader thread hands the responses out.  A response that comes after its *)
(* request timed out is dropped while its id is remembered; any other      *)
(* response nobody waits for ends the connection.                          *)
(***************************************************************************)
EXTENDS Naturals, Sequences

CONSTANTS
  Callers,     \* the threads that send requests
  Remembered,  \* the expired ids that are remembered: 1024
  MaxTimeouts  \* bound: requests that time out in the life of a connection

ASSUME ConnectionAssumption == Remembered \in Nat \ {0} /\ MaxTimeouts \in Nat

VARIABLES
  asked,     \* AppServerProtocol._outstanding, the requests without a response
  served,    \* App Server: those of them it has carried out
  waiting,   \* what each caller does with its request: idle, waits for the
             \* response, has it, has given up, has registered that
  expired,   \* AppServerConnection._expired_response_ids
  timeouts,  \* every request that expired, in order; the last `Remembered`
             \* of them are _expired_response_order
  failure    \* AppServerConnection._failure: none, the response, the end

connectionVars == <<asked, served, waiting, expired, timeouts, failure>>

NoCall == [who |-> "none", method |-> "none", msg |-> "none", nth |-> 0]
Lost   == [NoCall EXCEPT !.method = "stdout closed"]
Idle   == [stage |-> "idle", call |-> NoCall, reply |-> "none"]

ConnectionInit ==
  /\ asked = {} /\ served = {}
  /\ waiting = [c \in Callers |-> Idle]
  /\ expired = {} /\ timeouts = <<>>
  /\ failure = NoCall

\* The identity of a request: its number among those of the connection.
Call(c, method, msg) ==
  [who |-> c, method |-> method, msg |-> msg, nth |-> Len(timeouts)]

Usable == failure = NoCall

\* request: the waiter is registered, and then the bytes are written.
Request(c, method, msg) ==
  /\ Usable /\ waiting[c] = Idle
  /\ waiting' = [waiting EXCEPT ![c] =
                   [stage |-> "waiting", call |-> Call(c, method, msg), reply |-> "none"]]
  /\ asked' = asked \cup {Call(c, method, msg)}
  /\ UNCHANGED <<served, expired, timeouts, failure>>

\* App Server carries a request out, at its own time.
Serve(call) ==
  /\ call \in asked \ served
  /\ served' = served \cup {call}
  /\ UNCHANGED <<asked, waiting, expired, timeouts, failure>>

Resolve(call) == asked' = asked \ {call} /\ served' = served \ {call}

Waits(c, call) == waiting[c].call = call

\* The reader hands a response to its waiter.  One whose caller has given
\* up but is still registered is put in a queue nobody reads again.
Answer(call, reply) ==
  /\ Usable /\ call \in asked
  /\ \E c \in Callers :
       /\ Waits(c, call)
       /\ waiting' = [waiting EXCEPT ![c] =
            IF @.stage = "waiting" THEN [@ EXCEPT !.stage = "has", !.reply = reply] ELSE @]
  /\ Resolve(call)
  /\ expired' = expired \ {call}
  /\ UNCHANGED <<timeouts, failure>>

\* A late response: dropped if its id is remembered.
DropLate(call) ==
  /\ Usable /\ call \in asked
  /\ \A c \in Callers : ~Waits(c, call)
  /\ call \in expired
  /\ Resolve(call)
  /\ expired' = expired \ {call}
  /\ UNCHANGED <<waiting, timeouts, failure>>

\* A response that is not: the reader stops, and the connection with it.
RejectAnswer(call) ==
  /\ Usable /\ call \in asked
  /\ \A c \in Callers : ~Waits(c, call)
  /\ call \notin expired
  /\ Resolve(call)
  /\ failure' = call
  /\ UNCHANGED <<waiting, expired, timeouts>>

\* App Server's output ends.
CloseOutput ==
  /\ Usable
  /\ failure' = Lost
  /\ UNCHANGED <<asked, served, waiting, expired, timeouts>>

\* Mutation: one too early.
EvictedEarly(ids) ==
  IF Len(ids) >= Remembered THEN {ids[Len(ids) - Remembered + 1]} ELSE {}

\* What is evicted when one more id is remembered.
Evicted(ids) ==
  IF Len(ids) > Remembered THEN {ids[Len(ids) - Remembered]} ELSE {}

\* queue.Empty: nothing came in time.
TimeOut(c) ==
  /\ waiting[c].stage = "waiting"
  /\ Len(timeouts) < MaxTimeouts \/ ~Usable
  /\ waiting' = [waiting EXCEPT ![c].stage = "empty"]
  /\ UNCHANGED <<asked, served, expired, timeouts, failure>>

\* The caller registers the id, the waiter still in place ...
Expire(c) ==
  /\ waiting[c].stage = "empty"
  /\ timeouts' = Append(timeouts, waiting[c].call)
  /\ expired' = (expired \cup {waiting[c].call}) \ Evicted(timeouts')
  /\ waiting' = [waiting EXCEPT ![c].stage = "expired", ![c].reply = "timeout"]
  /\ UNCHANGED <<asked, served, failure>>

\* Mutation: the waiter stays.
LeaveNever(c) == c \in Callers /\ UNCHANGED waiting

\* ... and leaves with what it has: the finally clause removes the waiter.
Leave(c) == waiting' = [waiting EXCEPT ![c] = Idle]
Returned(c) == waiting[c].stage \in {"has", "expired"}

\* The connection and its App Server end with the process.
Reconnect ==
  /\ asked' = {} /\ served' = {}
  /\ waiting' = [c \in Callers |-> Idle]
  /\ expired' = {} /\ timeouts' = <<>>
  /\ failure' = NoCall
=============================================================================
