-------------------------- MODULE EchoSuppression --------------------------
(***************************************************************************)
(* What the bridge writes in a topic in the name of the owner, through     *)
(* lark-cli (feishu/user_cli.py), comes back to it as a message of the     *)
(* owner.  The row of message_ancestry by which the callback thread knows  *)
(* such an echo (feishu/inbound.py) is written by the main thread after    *)
(* the answer of the provider (feishu/outbound.py), so the echo may come   *)
(* first.  A row that may be its cause holds it back for two seconds, or,  *)
(* when the row is the reply that subscribes the owner to a topic, keeps   *)
(* it from Codex; and the main thread asks the ancestry once more before   *)
(* it hands a message to Codex (service.py).                               *)
(*                                                                         *)
(* One topic.  What Outbox and IngressDispatch say of rows and messages in *)
(* general is kept here only as far as an echo can tell.                   *)
(***************************************************************************)
EXTENDS Naturals, FiniteSets

CONSTANTS
  Rows,          \* the rows sent in the name of the owner
  Subscriptions, \* those with operation "subscription"; the others: "user_message"
  Typed,         \* the messages the owner writes in the topic
  TextOf,        \* the text of each row and each of them
  MaxCopies,     \* bound: messages the provider makes of one row,
  MaxMade,       \* and of all rows
  MaxCrashes,    \* bound: deaths of the process
  None           \* no row, no message

Echoes == Rows \X (1 .. MaxCopies)
Messages == Echoes \cup Typed

ASSUME EchoAssumption ==
  /\ Subscriptions \subseteq Rows
  /\ DOMAIN TextOf = Rows \cup Typed
  /\ MaxCopies \in Nat \ {0} /\ MaxMade \in Nat /\ MaxCrashes \in Nat
  /\ None \notin Rows \cup Messages
  /\ Typed \cap Echoes = {}

Text(m) == IF m \in Typed THEN TextOf[m] ELSE TextOf[m[1]]

VARIABLES
  state,     \* provider_outbox.state of each row
  aged,      \* the rows that were created two minutes ago, until they are settled
  expired,   \* those whose UUID window is over, at the provider and here
  ancestry,  \* message_ancestry.source of each message
  routing,   \* ingress_messages.routing_state
  held,      \* the messages with a dispatch_not_before, while they wait
  age,       \* of a message that waits: 1 after two seconds, 2 after a minute
  posted,    \* provider: the messages of the topic
  main,      \* the main thread: its place, its row, and the message the provider made
  lost,      \* history: the messages that were made without an answer the bridge kept
  crashes    \* deaths of the process so far

tableVars == <<ancestry, routing, held, age>>
vars == <<state, aged, expired, tableVars, posted, main, lost, crashes>>

RowStates == {"pending", "leased", "retryable", "unknown", "confirmed", "permanent",
              "delivery_indeterminate"}

At(pc) == main.pc = pc
Idle(pc) == [pc |-> pc, row |-> None, made |-> None]

Init ==
  /\ state = [r \in Rows |-> "pending"]
  /\ aged = {} /\ expired = {}
  /\ ancestry = [m \in Messages |-> "none"]
  /\ routing = [m \in Messages |-> "absent"]
  /\ held = {}
  /\ age = [m \in Messages |-> 0]
  /\ posted = {}
  /\ main = Idle("drain")
  /\ lost = {}
  /\ crashes = 0
-----------------------------------------------------------------------------
\* The owner writes in the topic.
Write(m) ==
  /\ m \in Typed \ posted
  /\ posted' = posted \cup {m}
  /\ UNCHANGED <<state, aged, expired, tableVars, main, lost, crashes>>

(***************************************************************************)
(* The callback thread: IngressRouter.ingest, one transaction.  A message  *)
(* with an outbound ancestry, or one that is stored, changes nothing.      *)
(***************************************************************************)
Open == {"pending", "leased", "retryable", "unknown"}
Unsettled(r) == state[r] \in Open

\* The rows an unknown message may be the echo of: unsettled, of its text, and young.
Causes(m) == {r \in Rows \ aged : Unsettled(r) /\ TextOf[r] = Text(m)}

\* The text of a subscription alone is enough to keep a message from Codex.
Settles(r) == r \in Subscriptions

\* The query takes one row, in no order.
Ingest(m) ==
  /\ ~ At("down")
  /\ m \in posted /\ routing[m] = "absent" /\ ancestry[m] # "outbound"
  /\ \/ /\ \E r \in Causes(m) : Settles(r)
        /\ routing' = [routing EXCEPT ![m] = "outbound_echo"]
        /\ UNCHANGED <<ancestry, held>>
     \/ /\ Causes(m) = {} \/ \E r \in Causes(m) : ~ Settles(r)
        /\ routing' = [routing EXCEPT ![m] = "routed_reply"]
        /\ ancestry' = [ancestry EXCEPT ![m] = "inbound"]
        /\ held' = IF Causes(m) = {} THEN held ELSE held \cup {m}
  /\ UNCHANGED <<state, aged, expired, age, posted, main, lost, crashes>>
-----------------------------------------------------------------------------
(***************************************************************************)
(* The main thread, first its outbox.                                      *)
(***************************************************************************)
\* Nothing asks for the age of a settled row.
SetState(r, s) ==
  /\ state' = [state EXCEPT ![r] = s]
  /\ aged' = IF s \in Open THEN aged ELSE aged \ {r}
  /\ expired' = IF s \in Open THEN expired ELSE expired \ {r}

Lease(r) ==
  /\ At("drain")
  /\ state[r] \in {"pending", "retryable"}
  /\ SetState(r, "leased")
  /\ main' = [Idle("send") EXCEPT !.row = r]
  /\ UNCHANGED <<tableVars, posted, lost, crashes>>

\* The lease of a process that is gone.
Sweep(r) ==
  /\ At("drain")
  /\ state[r] = "leased"
  /\ SetState(r, "unknown")
  /\ UNCHANGED <<tableVars, posted, main, lost, crashes>>

\* The provider recognises the UUID of the row while its window is open.
CopiesOf(r) == {m \in posted : m \in Echoes /\ m[1] = r}

Post(r) ==
  /\ At("send") /\ main.row = r /\ main.made = None
  /\ \E m \in Echoes :
       /\ m[1] = r
       /\ IF CopiesOf(r) # {} /\ r \notin expired
          THEN m \in CopiesOf(r)
          ELSE /\ Cardinality(posted \ Typed) < MaxMade
               /\ m[2] = Cardinality(CopiesOf(r)) + 1
       /\ posted' = posted \cup {m}
       /\ main' = [main EXCEPT !.made = m]
  /\ UNCHANGED <<state, aged, expired, tableVars, lost, crashes>>

\* lark-cli reports the message: the row is confirmed; its ancestry is a statement of
\* its own.
Confirm(r) ==
  /\ At("send") /\ main.row = r /\ main.made # None
  /\ SetState(r, "confirmed")
  /\ main' = [main EXCEPT !.pc = "ancestry"]
  /\ UNCHANGED <<tableVars, posted, lost, crashes>>

\* Mutation: a row that is there is left as it is.
RecordIfAbsent ==
  /\ At("ancestry")
  /\ ancestry' = [ancestry EXCEPT ![main.made] = IF @ = "none" THEN "outbound" ELSE @]
  /\ main' = Idle("drain")
  /\ UNCHANGED <<state, aged, expired, routing, held, age, posted, lost, crashes>>

RecordAncestry ==
  /\ At("ancestry")
  /\ ancestry' = [ancestry EXCEPT ![main.made] = "outbound"]
  /\ main' = Idle("drain")
  /\ UNCHANGED <<state, aged, expired, routing, held, age, posted, lost, crashes>>

\* The call ends without a message the bridge could record, whether it made one or not.
Unanswered == lost' = lost \cup ({main.made} \ {None})

\* Mutation: the terminal state of a final answer is every row's.
EndsAsFinal(r) ==
  {"unknown", "retryable", "final_undelivered"}
    \cup (IF r \in Subscriptions THEN {} ELSE {"confirmed"})

\* A timeout is unknown, an exit code retryable.  After a permanent error a text of the
\* user goes out once more in the name of the bot, whose messages do not come back, and
\* with any of the four outcomes; a subscription is permanent itself.
EndsAs(r) ==
  {"unknown", "retryable", "permanent"} \cup (IF r \in Subscriptions THEN {} ELSE {"confirmed"})

EndWithout(r) ==
  /\ At("send") /\ main.row = r
  /\ \E s \in EndsAs(r) : SetState(r, s)
  /\ Unanswered
  /\ main' = Idle("drain")
  /\ UNCHANGED <<tableVars, posted, crashes>>

\* lark-cli is a process of its own: what it sent may arrive after the call was given up,
\* or after the bridge died.
ArriveLate(r) ==
  /\ state[r] # "pending" /\ main.row # r
  /\ CopiesOf(r) = {} /\ Cardinality(posted \ Typed) < MaxMade
  /\ posted' = posted \cup {<<r, 1>>}
  /\ lost' = lost \cup {<<r, 1>>}
  /\ UNCHANGED <<state, aged, expired, tableVars, main, crashes>>

Drained ==
  /\ At("drain")
  /\ main' = Idle("reconcile")
  /\ UNCHANGED <<state, aged, expired, tableVars, posted, lost, crashes>>
-----------------------------------------------------------------------------
(***************************************************************************)
(* SendReconciler: the same UUID again while its window is open, then what *)
(* the history shows, where a subscription is looked for among the         *)
(* messages of the app.  It never writes an ancestry.                      *)
(***************************************************************************)
Matches(r) == IF r \in Subscriptions THEN {} ELSE {m \in posted : Text(m) = TextOf[r]}

Found(r) == {"delivery_indeterminate"} \cup
            (IF Cardinality(Matches(r)) = 1 THEN {"confirmed"} ELSE {})

Reconcile(r) ==
  /\ At("reconcile")
  /\ state[r] = "unknown"
  /\ \E s \in (IF r \in expired THEN Found(r) ELSE {"retryable"}) : SetState(r, s)
  /\ UNCHANGED <<tableVars, posted, main, lost, crashes>>

Reconciled ==
  /\ At("reconcile")
  /\ main' = Idle("ingress")
  /\ UNCHANGED <<state, aged, expired, tableVars, posted, lost, crashes>>
-----------------------------------------------------------------------------
(***************************************************************************)
(* _process_ingress: the deadline, the ancestry, Codex.                    *)
(***************************************************************************)
Waits(m) == routing[m] = "routed_reply"

Ends(m, r) ==
  /\ routing' = [routing EXCEPT ![m] = r]
  /\ held' = held \ {m}
  /\ age' = [age EXCEPT ![m] = 0]

Selected(m) ==
  /\ At("ingress")
  /\ Waits(m)
  /\ m \in held => age[m] > 0

Expire(m) ==
  /\ At("ingress")
  /\ Waits(m) /\ age[m] = 2
  /\ Ends(m, "dispatch_rejected")
  /\ UNCHANGED <<state, aged, expired, ancestry, posted, main, lost, crashes>>

Known(m) == ancestry[m] = "outbound"

SuppressIfOutboundEcho(m) ==
  /\ Selected(m) /\ age[m] < 2
  /\ Known(m)
  /\ Ends(m, "outbound_echo")
  /\ UNCHANGED <<state, aged, expired, ancestry, posted, main, lost, crashes>>

\* The dispatch record, which keeps the message from being selected again.
Dispatch(m) ==
  /\ Selected(m) /\ age[m] < 2
  /\ ~ Known(m)
  /\ Ends(m, "dispatched")
  /\ UNCHANGED <<state, aged, expired, ancestry, posted, main, lost, crashes>>

Processed ==
  /\ At("ingress")
  /\ main' = Idle("drain")
  /\ UNCHANGED <<state, aged, expired, tableVars, posted, lost, crashes>>
-----------------------------------------------------------------------------
\* The window of the UUID is longer than two minutes and opens with the first attempt.
RowAges(r) ==
  /\ r \notin aged /\ Unsettled(r)
  /\ aged' = aged \cup {r}
  /\ UNCHANGED <<state, expired, tableVars, posted, main, lost, crashes>>

WindowEnds(r) ==
  /\ r \in aged \ expired /\ state[r] \in {"leased", "retryable", "unknown"}
  /\ expired' = expired \cup {r}
  /\ UNCHANGED <<state, aged, tableVars, posted, main, lost, crashes>>

MessageAges(m) ==
  /\ Waits(m) /\ age[m] < 2
  /\ age' = [age EXCEPT ![m] = @ + 1]
  /\ UNCHANGED <<state, aged, expired, ancestry, routing, held, posted, main, lost, crashes>>

Crash ==
  /\ ~ At("down") /\ crashes < MaxCrashes
  /\ crashes' = crashes + 1
  /\ Unanswered
  /\ main' = Idle("down")
  /\ UNCHANGED <<state, aged, expired, tableVars, posted>>

Restart ==
  /\ At("down")
  /\ main' = Idle("drain")
  /\ UNCHANGED <<state, aged, expired, tableVars, posted, lost, crashes>>

Next ==
  \/ \E r \in Rows :
       \/ Lease(r) \/ Sweep(r) \/ Post(r) \/ Confirm(r) \/ EndWithout(r) \/ ArriveLate(r)
       \/ Reconcile(r) \/ RowAges(r) \/ WindowEnds(r)
  \/ \E m \in Messages :
       \/ Write(m) \/ Ingest(m) \/ Expire(m) \/ SuppressIfOutboundEcho(m) \/ Dispatch(m)
       \/ MessageAges(m)
  \/ RecordAncestry \/ Drained \/ Reconciled \/ Processed \/ Crash \/ Restart

Spec == Init /\ [][Next]_vars
-----------------------------------------------------------------------------
TypeOK ==
  /\ state \in [Rows -> RowStates]
  /\ expired \subseteq aged /\ aged \subseteq Rows
  /\ ancestry \in [Messages -> {"none", "inbound", "outbound"}]
  /\ routing \in [Messages -> {"absent", "routed_reply", "outbound_echo",
                               "dispatch_rejected", "dispatched"}]
  /\ held \subseteq Messages
  /\ age \in [Messages -> 0 .. 2]
  /\ posted \subseteq Messages
  /\ main \in [pc : {"down", "drain", "send", "ancestry", "reconcile", "ingress"},
               row : Rows \cup {None}, made : Echoes \cup {None}]
  /\ lost \subseteq Echoes
  /\ crashes \in 0 .. MaxCrashes

\* However callback and confirmation race, Codex is given a message of the bridge only
\* when an answer about it was lost: by a timeout, an error, or a death before its
\* ancestry was written.  And nothing the owner wrote is kept from Codex as an echo,
\* except the text of the subscription itself (inbound.py:191, 294).
EchoesAndNothingElse ==
  /\ \A m \in Echoes : routing[m] = "dispatched" => m \in lost
  /\ \A m \in Typed : routing[m] = "outbound_echo" => \E r \in Subscriptions : TextOf[r] = Text(m)

\* inbound.py, line 208: the reply that subscribes the owner "must never become a Codex
\* instruction, even when the CLI send result is unknown".
SubscriptionStaysOut ==
  \A m \in Echoes : m[1] \in Subscriptions => routing[m] # "dispatched"
=============================================================================
