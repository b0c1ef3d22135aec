----------------------------- MODULE EchoProofs -----------------------------
(***************************************************************************)
(* What keeps the bridge's own messages from Codex, for any rows, texts,   *)
(* copies and deaths of the process.                                       *)
(***************************************************************************)
EXTENDS EchoSuppression, TLAPS

\* A message that was stored, or has an ancestry, was posted.
PostedInv ==
  \A m \in Messages : routing[m] # "absent" \/ ancestry[m] # "none" => m \in posted

\* The main thread holds a message only from the call to the ancestry.
MainInv ==
  /\ main.made # None => main.pc \in {"send", "ancestry"} /\ main.made \in posted
  /\ main.pc = "ancestry" => main.made # None

\* What is posted for a row is known, lost, or about to be known; and nothing else is known.
AncestryInv ==
  /\ \A m \in Echoes : m \in posted => ancestry[m] = "outbound" \/ m \in lost \/ main.made = m
  /\ \A m \in Typed : ancestry[m] # "outbound"

IInv == TypeOK /\ PostedInv /\ MainInv /\ AncestryInv /\ EchoesAndNothingElse
-----------------------------------------------------------------------------
(***************************************************************************)
(* Types.                                                                  *)
(***************************************************************************)
RowTypes ==
  /\ state \in [Rows -> RowStates]
  /\ expired \subseteq aged /\ aged \subseteq Rows

TableTypes ==
  /\ ancestry \in [Messages -> {"none", "inbound", "outbound"}]
  /\ routing \in [Messages -> {"absent", "routed_reply", "outbound_echo",
                               "dispatch_rejected", "dispatched"}]
  /\ held \subseteq Messages
  /\ age \in [Messages -> 0 .. 2]

Mains == [pc : {"down", "drain", "send", "ancestry", "reconcile", "ingress"},
          row : Rows \cup {None}, made : Echoes \cup {None}]

\* The types, by the part of the state they are about.
LEMMA TypeParts ==
  TypeOK <=> /\ RowTypes /\ TableTypes
             /\ posted \subseteq Messages /\ main \in Mains
             /\ lost \subseteq Echoes /\ crashes \in 0 .. MaxCrashes
BY DEF TypeOK, RowTypes, TableTypes, Mains

\* The main thread with no row and no message in its hands.
LEMMA IdleType ==
  ASSUME NEW pc \in {"down", "drain", "send", "ancestry", "reconcile", "ingress"}
  PROVE  /\ Idle(pc) \in Mains
         /\ Idle(pc).pc = pc /\ Idle(pc).row = None /\ Idle(pc).made = None
BY DEF Idle, Mains

\* What the bridge posts and what the owner types are messages.
LEMMA Membership == Echoes \subseteq Messages /\ Typed \subseteq Messages
BY DEF Messages

\* A row that changes its state keeps its types.
LEMMA SetStateTypes ==
  ASSUME RowTypes, NEW r \in Rows, NEW s \in RowStates, SetState(r, s)
  PROVE  RowTypes'
<1>1. state' \in [Rows -> RowStates]
  BY DEF RowTypes, SetState
<1>2. CASE s \in Open
  BY <1>1, <1>2 DEF RowTypes, SetState
<1>3. CASE s \notin Open
  BY <1>1, <1>3 DEF RowTypes, SetState
<1> QED
  BY <1>2, <1>3

\* A message that ends keeps the types of its columns.
LEMMA EndsTypes ==
  ASSUME TableTypes, NEW m \in Messages,
         NEW r \in {"outbound_echo", "dispatch_rejected", "dispatched"},
         Ends(m, r), UNCHANGED ancestry
  PROVE  TableTypes'
BY DEF TableTypes, Ends

\* Every step keeps the types of the rows.
LEMMA RowTypesStep ==
  ASSUME RowTypes, Next
  PROVE  RowTypes'
<1>1. ASSUME NEW r \in Rows, NEW s \in RowStates, SetState(r, s)
      PROVE  RowTypes'
  BY <1>1, SetStateTypes
<1>2. ASSUME NEW r \in Rows, Lease(r) \/ Sweep(r) \/ Confirm(r)
      PROVE  RowTypes'
  BY <1>1, <1>2 DEF Lease, Sweep, Confirm, RowStates
<1>3. ASSUME NEW r \in Rows, EndWithout(r)
      PROVE  RowTypes'
  <2>1. PICK s \in EndsAs(r) : SetState(r, s)
    BY <1>3 DEF EndWithout
  <2>2. s \in RowStates
    BY DEF EndsAs, RowStates
  <2> QED
    BY <1>1, <2>1, <2>2
<1>4. ASSUME NEW r \in Rows, Reconcile(r)
      PROVE  RowTypes'
  <2>1. PICK s \in (IF r \in expired THEN Found(r) ELSE {"retryable"}) : SetState(r, s)
    BY <1>4 DEF Reconcile
  <2>2. s \in RowStates
    BY DEF Found, RowStates
  <2> QED
    BY <1>1, <2>1, <2>2
<1>5. ASSUME NEW r \in Rows, RowAges(r) \/ WindowEnds(r)
      PROVE  RowTypes'
  BY <1>5 DEF RowAges, WindowEnds, RowTypes
<1>6. ASSUME UNCHANGED <<state, aged, expired>>
      PROVE  RowTypes'
  BY <1>6 DEF RowTypes
<1>7. ASSUME NEW r \in Rows, Post(r) \/ ArriveLate(r)
      PROVE  RowTypes'
  BY <1>6, <1>7 DEF Post, ArriveLate
<1>8. ASSUME NEW m \in Messages,
             \/ Write(m) \/ Ingest(m) \/ Expire(m) \/ SuppressIfOutboundEcho(m) \/ Dispatch(m)
             \/ MessageAges(m)
      PROVE  RowTypes'
  BY <1>6, <1>8 DEF Write, Ingest, Expire, SuppressIfOutboundEcho, Dispatch, MessageAges
<1>9. ASSUME RecordAncestry \/ Drained \/ Reconciled \/ Processed \/ Crash \/ Restart
      PROVE  RowTypes'
  BY <1>6, <1>9 DEF RecordAncestry, Drained, Reconciled, Processed, Crash, Restart
<1> QED
  BY <1>2, <1>3, <1>4, <1>5, <1>7, <1>8, <1>9 DEF Next

\* Every step keeps the types of the tables; what is recorded was in the main thread's hands.
LEMMA TableTypesStep ==
  ASSUME TableTypes, MainInv, main \in Mains, Next
  PROVE  TableTypes'
<1>1. ASSUME UNCHANGED tableVars
      PROVE  TableTypes'
  BY <1>1 DEF tableVars, TableTypes
<1>2. ASSUME NEW r \in Rows,
             \/ Lease(r) \/ Sweep(r) \/ Post(r) \/ Confirm(r) \/ EndWithout(r) \/ ArriveLate(r)
             \/ Reconcile(r) \/ RowAges(r) \/ WindowEnds(r)
      PROVE  TableTypes'
  BY <1>1, <1>2 DEF Lease, Sweep, Post, Confirm, EndWithout, ArriveLate, Reconcile, RowAges,
     WindowEnds
<1>3. ASSUME NEW m \in Messages, Write(m)
      PROVE  TableTypes'
  BY <1>1, <1>3 DEF Write
<1>4. ASSUME Drained \/ Reconciled \/ Processed \/ Crash \/ Restart
      PROVE  TableTypes'
  BY <1>1, <1>4 DEF Drained, Reconciled, Processed, Crash, Restart
<1>5. ASSUME NEW m \in Messages, Ingest(m)
      PROVE  TableTypes'
  BY <1>5 DEF Ingest, TableTypes
<1>6. ASSUME NEW m \in Messages, Expire(m) \/ SuppressIfOutboundEcho(m) \/ Dispatch(m)
      PROVE  TableTypes'
  BY <1>6, EndsTypes DEF Expire, SuppressIfOutboundEcho, Dispatch
<1>7. ASSUME NEW m \in Messages, MessageAges(m)
      PROVE  TableTypes'
  BY <1>7 DEF MessageAges, TableTypes
<1>8. ASSUME RecordAncestry
      PROVE  TableTypes'
  <2>1. main.made \in Messages
    BY <1>8, Membership DEF RecordAncestry, At, MainInv, Mains
  <2> QED
    BY <1>8, <2>1 DEF RecordAncestry, TableTypes
<1> QED
  BY <1>2, <1>3, <1>4, <1>5, <1>6, <1>7, <1>8 DEF Next

\* The thread, the provider, the history and the deaths.
RestTypes ==
  /\ posted \subseteq Messages /\ main \in Mains
  /\ lost \subseteq Echoes /\ crashes \in 0 .. MaxCrashes

\* Every step keeps the types of what is left.
LEMMA RestTypesStep ==
  ASSUME RestTypes, Next
  PROVE  RestTypes'
<1> USE DEF RestTypes
<1>1. ASSUME NEW r \in Rows, Lease(r)
      PROVE  RestTypes'
  <2>1. [Idle("send") EXCEPT !.row = r] \in Mains
    BY DEF Idle, Mains
  <2> QED
    BY <1>1, <2>1 DEF Lease
<1>2. ASSUME NEW r \in Rows, Sweep(r) \/ Reconcile(r) \/ RowAges(r) \/ WindowEnds(r)
      PROVE  RestTypes'
  BY <1>2 DEF Sweep, Reconcile, RowAges, WindowEnds
<1>3. ASSUME NEW r \in Rows, Post(r)
      PROVE  RestTypes'
  <2>1. PICK m \in Echoes : posted' = posted \cup {m} /\ main' = [main EXCEPT !.made = m]
    BY <1>3 DEF Post
  <2>2. main' \in Mains
    BY <2>1 DEF Mains
  <2> QED
    BY <1>3, <2>1, <2>2, Membership DEF Post
<1>4. ASSUME NEW r \in Rows, Confirm(r)
      PROVE  RestTypes'
  <2>1. main' \in Mains
    BY <1>4 DEF Confirm, Mains
  <2> QED
    BY <1>4, <2>1 DEF Confirm
<1>5. ASSUME Unanswered
      PROVE  lost' \subseteq Echoes
  BY <1>5 DEF Unanswered, Mains
<1>6. ASSUME NEW r \in Rows, EndWithout(r)
      PROVE  RestTypes'
  BY <1>5, <1>6, IdleType DEF EndWithout
<1>7. ASSUME NEW r \in Rows, ArriveLate(r)
      PROVE  RestTypes'
  <2>1. <<r, 1>> \in Echoes
    BY EchoAssumption DEF Echoes
  <2> QED
    BY <1>7, <2>1, Membership DEF ArriveLate
<1>8. ASSUME NEW m \in Messages, Write(m)
      PROVE  RestTypes'
  BY <1>8 DEF Write
<1>9. ASSUME NEW m \in Messages,
             Ingest(m) \/ Expire(m) \/ SuppressIfOutboundEcho(m) \/ Dispatch(m) \/ MessageAges(m)
      PROVE  RestTypes'
  BY <1>9 DEF Ingest, Expire, SuppressIfOutboundEcho, Dispatch, MessageAges
<1>10. ASSUME RecordAncestry \/ Drained \/ Reconciled \/ Processed \/ Restart
       PROVE  RestTypes'
  BY <1>10, IdleType DEF RecordAncestry, Drained, Reconciled, Processed, Restart
<1>11. ASSUME Crash
       PROVE  RestTypes'
  <2>1. crashes' \in 0 .. MaxCrashes
    BY <1>11, EchoAssumption DEF Crash
  <2> QED
    BY <1>5, <1>11, <2>1, IdleType DEF Crash
<1> QED
  BY <1>1, <1>2, <1>3, <1>4, <1>6, <1>7, <1>8, <1>9, <1>10, <1>11 DEF Next

\* Every step keeps the types.
LEMMA TypeStep ==
  ASSUME TypeOK, MainInv, Next
  PROVE  TypeOK'
<1>1. RowTypes /\ TableTypes /\ RestTypes
  BY TypeParts DEF RestTypes
<1>2. RowTypes' /\ TableTypes' /\ RestTypes'
  BY <1>1, RowTypesStep, TableTypesStep, RestTypesStep DEF RestTypes
<1> QED
  BY <1>2 DEF TypeOK, RowTypes, TableTypes, RestTypes, Mains
-----------------------------------------------------------------------------
(***************************************************************************)
(* The invariants, one conjunct after the other.                           *)
(***************************************************************************)
LEMMA PostedStep ==
  ASSUME TypeOK, MainInv, PostedInv, Next
  PROVE  PostedInv'
<1> USE DEF PostedInv
<1>t. /\ routing \in [Messages -> {"absent", "routed_reply", "outbound_echo",
                                    "dispatch_rejected", "dispatched"}]
      /\ ancestry \in [Messages -> {"none", "inbound", "outbound"}]
  BY DEF TypeOK
<1>1. ASSUME UNCHANGED tableVars, posted \subseteq posted'
      PROVE  PostedInv'
  BY <1>1 DEF tableVars
<1>2. ASSUME NEW r \in Rows,
             \/ Lease(r) \/ Sweep(r) \/ Post(r) \/ Confirm(r) \/ EndWithout(r) \/ ArriveLate(r)
             \/ Reconcile(r) \/ RowAges(r) \/ WindowEnds(r)
      PROVE  PostedInv'
  <2>1. UNCHANGED tableVars
    BY <1>2 DEF Lease, Sweep, Post, Confirm, EndWithout, ArriveLate, Reconcile, RowAges,
       WindowEnds
  <2>2. posted \subseteq posted'
    BY <1>2 DEF Lease, Sweep, Post, Confirm, EndWithout, ArriveLate, Reconcile, RowAges,
       WindowEnds
  <2> QED
    BY <1>1, <2>1, <2>2
<1>3. ASSUME NEW m \in Messages, Write(m)
      PROVE  PostedInv'
  BY <1>1, <1>3 DEF Write
<1>4. ASSUME Drained \/ Reconciled \/ Processed \/ Crash \/ Restart
      PROVE  PostedInv'
  BY <1>1, <1>4 DEF Drained, Reconciled, Processed, Crash, Restart
<1>5. ASSUME NEW m \in Messages, Ingest(m)
      PROVE  PostedInv'
  BY <1>5, <1>t DEF Ingest
<1>6. ASSUME NEW m \in Messages, Expire(m) \/ SuppressIfOutboundEcho(m) \/ Dispatch(m)
      PROVE  PostedInv'
  BY <1>6, <1>t DEF Expire, SuppressIfOutboundEcho, Dispatch, Ends, Selected, Waits
<1>7. ASSUME NEW m \in Messages, MessageAges(m)
      PROVE  PostedInv'
  BY <1>7 DEF MessageAges
<1>8. ASSUME RecordAncestry
      PROVE  PostedInv'
  BY <1>8, <1>t DEF RecordAncestry, At, MainInv
<1> QED
  BY <1>2, <1>3, <1>4, <1>5, <1>6, <1>7, <1>8 DEF Next

\* A message the main thread holds was posted, and waits for its ancestry.
LEMMA MainStep ==
  ASSUME TypeOK, MainInv, Next
  PROVE  MainInv'
<1>t. main \in Mains /\ None \notin Echoes
  BY EchoAssumption, TypeParts, Membership
<1>1. ASSUME NEW pc \in {"down", "drain", "reconcile", "ingress"}, main' = Idle(pc)
      PROVE  MainInv'
  BY <1>1, IdleType DEF MainInv
<1>2. ASSUME NEW r \in Rows, EndWithout(r)
      PROVE  MainInv'
  BY <1>1, <1>2 DEF EndWithout
<1>3. ASSUME RecordAncestry \/ Drained \/ Reconciled \/ Processed \/ Crash \/ Restart
      PROVE  MainInv'
  BY <1>1, <1>3 DEF RecordAncestry, Drained, Reconciled, Processed, Crash, Restart
<1>4. ASSUME UNCHANGED main, posted \subseteq posted'
      PROVE  MainInv'
  BY <1>4 DEF MainInv
<1>5. ASSUME NEW r \in Rows,
             Sweep(r) \/ ArriveLate(r) \/ Reconcile(r) \/ RowAges(r) \/ WindowEnds(r)
      PROVE  MainInv'
  BY <1>4, <1>5 DEF Sweep, ArriveLate, Reconcile, RowAges, WindowEnds
<1>6. ASSUME NEW m \in Messages,
             \/ Write(m) \/ Ingest(m) \/ Expire(m) \/ SuppressIfOutboundEcho(m) \/ Dispatch(m)
             \/ MessageAges(m)
      PROVE  MainInv'
  BY <1>4, <1>6 DEF Write, Ingest, Expire, SuppressIfOutboundEcho, Dispatch, MessageAges
<1>7. ASSUME NEW r \in Rows, Lease(r)
      PROVE  MainInv'
  <2>1. main'.made = None /\ main'.pc = "send"
    BY <1>7 DEF Lease, Idle
  <2> QED
    BY <2>1 DEF MainInv
<1>8. ASSUME NEW r \in Rows, Post(r)
      PROVE  MainInv'
  <2>1. PICK m \in Echoes : posted' = posted \cup {m} /\ main' = [main EXCEPT !.made = m]
    BY <1>8 DEF Post
  <2>2. main'.pc = "send" /\ main'.made = m
    BY <1>8, <1>t, <2>1 DEF Post, At, Mains
  <2> QED
    BY <2>1, <2>2 DEF MainInv
<1>9. ASSUME NEW r \in Rows, Confirm(r)
      PROVE  MainInv'
  <2>1. main'.pc = "ancestry" /\ main'.made = main.made /\ main.made # None
    BY <1>9, <1>t DEF Confirm, Mains
  <2> QED
    BY <1>9, <2>1 DEF Confirm, MainInv
<1> QED
  BY <1>2, <1>3, <1>5, <1>6, <1>7, <1>8, <1>9 DEF Next

\* A step that posts nothing, forgets nothing and keeps what the main thread holds.
LEMMA AncestryKept ==
  ASSUME AncestryInv, ancestry' = ancestry, posted' \cap Echoes \subseteq posted,
         lost \subseteq lost', main.made \in lost' \cup {None, main'.made},
         None \notin Echoes
  PROVE  AncestryInv'
BY DEF AncestryInv

\* A posted message of a row keeps its ancestry, or is lost or still held.
LEMMA AncestryStep ==
  ASSUME TypeOK, MainInv, AncestryInv, Next
  PROVE  AncestryInv'
<1>t. main \in Mains /\ None \notin Echoes /\ Typed \cap Echoes = {}
  BY EchoAssumption, TypeParts, Membership
<1>a. ancestry \in [Messages -> {"none", "inbound", "outbound"}]
  BY DEF TypeOK
<1>1. ASSUME Unanswered
      PROVE  lost \subseteq lost' /\ main.made \in lost' \cup {None}
  BY <1>1 DEF Unanswered
<1>2. ASSUME NEW r \in Rows, EndWithout(r)
      PROVE  AncestryInv'
  BY <1>1, <1>2, <1>t, AncestryKept DEF EndWithout, tableVars
<1>3. ASSUME Crash
      PROVE  AncestryInv'
  BY <1>1, <1>3, <1>t, AncestryKept DEF Crash, tableVars
<1>4. ASSUME NEW r \in Rows,
             Sweep(r) \/ Reconcile(r) \/ RowAges(r) \/ WindowEnds(r)
      PROVE  AncestryInv'
  BY <1>4, <1>t, AncestryKept DEF Sweep, Reconcile, RowAges, WindowEnds, tableVars
<1>5. ASSUME Drained \/ Reconciled \/ Processed \/ Restart
      PROVE  AncestryInv'
  <2>1. main.made = None
    BY <1>5 DEF Drained, Reconciled, Processed, Restart, At, MainInv
  <2> QED
    BY <1>5, <1>t, <2>1, AncestryKept DEF Drained, Reconciled, Processed, Restart, tableVars
<1>6. ASSUME NEW r \in Rows, Lease(r)
      PROVE  AncestryInv'
  <2>1. main.made = None
    BY <1>6 DEF Lease, At, MainInv
  <2> QED
    BY <1>6, <1>t, <2>1, AncestryKept DEF Lease, tableVars
<1>7. ASSUME NEW r \in Rows, Confirm(r)
      PROVE  AncestryInv'
  <2>1. main'.made = main.made
    BY <1>7, <1>t DEF Confirm, Mains
  <2> QED
    BY <1>7, <1>t, <2>1, AncestryKept DEF Confirm, tableVars
<1>8. ASSUME NEW r \in Rows, Post(r)
      PROVE  AncestryInv'
  <2>1. PICK m \in Echoes : posted' = posted \cup {m} /\ main' = [main EXCEPT !.made = m]
    BY <1>8 DEF Post
  <2>2. main'.made = m /\ main.made = None
    BY <1>8, <1>t, <2>1 DEF Post, Mains
  <2> QED
    BY <1>8, <1>t, <2>1, <2>2 DEF Post, AncestryInv, tableVars
<1>9. ASSUME NEW r \in Rows, ArriveLate(r)
      PROVE  AncestryInv'
  BY <1>9 DEF ArriveLate, AncestryInv, tableVars
<1>10. ASSUME NEW m \in Messages, Write(m)
       PROVE  AncestryInv'
  BY <1>10, <1>t, AncestryKept DEF Write, tableVars
<1>11. ASSUME NEW m \in Messages, Ingest(m)
       PROVE  AncestryInv'
  <2>1. ancestry' = ancestry \/ ancestry' = [ancestry EXCEPT ![m] = "inbound"]
    BY <1>11 DEF Ingest
  <2>2. ancestry[m] # "outbound"
    BY <1>11 DEF Ingest
  <2>3. \A n \in Messages : ancestry[n] = "outbound" <=> ancestry'[n] = "outbound"
    BY <1>a, <2>1, <2>2
  <2> QED
    BY <1>11, <2>3, Membership DEF Ingest, AncestryInv
<1>12. ASSUME NEW m \in Messages,
              Expire(m) \/ SuppressIfOutboundEcho(m) \/ Dispatch(m) \/ MessageAges(m)
       PROVE  AncestryInv'
  BY <1>12, <1>t, AncestryKept DEF Expire, SuppressIfOutboundEcho, Dispatch, MessageAges
<1>13. ASSUME RecordAncestry
       PROVE  AncestryInv'
  <2>1. main.made \in Echoes
    BY <1>13, <1>t DEF RecordAncestry, At, MainInv, Mains
  <2>2. ancestry'[main.made] = "outbound"
        /\ \A n \in Messages \ {main.made} : ancestry'[n] = ancestry[n]
    BY <1>13, <1>a, <2>1, Membership DEF RecordAncestry
  <2> QED
    BY <1>13, <1>t, <2>1, <2>2, Membership DEF RecordAncestry, AncestryInv
<1> QED
  BY <1>2, <1>3, <1>4, <1>5, <1>6, <1>7, <1>8, <1>9, <1>10, <1>11, <1>12, <1>13 DEF Next

\* Only what becomes "dispatched" or "outbound_echo" can break the property.
LEMMA EchoesStep ==
  ASSUME IInv, Next
  PROVE  EchoesAndNothingElse'
<1>t. /\ main \in Mains /\ None \notin Echoes /\ Typed \cap Echoes = {}
      /\ routing \in [Messages -> {"absent", "routed_reply", "outbound_echo",
                                   "dispatch_rejected", "dispatched"}]
  BY EchoAssumption, TypeParts, Membership DEF IInv, TableTypes
<1>l. lost \subseteq lost'
  <2>1. ASSUME NEW r \in Rows,
               \/ Lease(r) \/ Sweep(r) \/ Post(r) \/ Confirm(r) \/ EndWithout(r) \/ ArriveLate(r)
               \/ Reconcile(r) \/ RowAges(r) \/ WindowEnds(r)
        PROVE  lost \subseteq lost'
    BY <2>1 DEF Lease, Sweep, Post, Confirm, EndWithout, ArriveLate, Reconcile, RowAges,
       WindowEnds, Unanswered
  <2>2. ASSUME NEW m \in Messages,
               \/ Write(m) \/ Ingest(m) \/ Expire(m) \/ SuppressIfOutboundEcho(m) \/ Dispatch(m)
               \/ MessageAges(m)
        PROVE  lost \subseteq lost'
    BY <2>2 DEF Write, Ingest, Expire, SuppressIfOutboundEcho, Dispatch, MessageAges
  <2>3. ASSUME RecordAncestry \/ Drained \/ Reconciled \/ Processed \/ Crash \/ Restart
        PROVE  lost \subseteq lost'
    BY <2>3 DEF RecordAncestry, Drained, Reconciled, Processed, Crash, Restart, Unanswered
  <2> QED
    BY <2>1, <2>2, <2>3 DEF Next
<1>1. ASSUME routing' = routing
      PROVE  EchoesAndNothingElse'
  BY <1>1, <1>l DEF IInv, EchoesAndNothingElse, Text
<1>2. ASSUME NEW r \in Rows,
             \/ Lease(r) \/ Sweep(r) \/ Post(r) \/ Confirm(r) \/ EndWithout(r) \/ ArriveLate(r)
             \/ Reconcile(r) \/ RowAges(r) \/ WindowEnds(r)
      PROVE  EchoesAndNothingElse'
  BY <1>1, <1>2 DEF Lease, Sweep, Post, Confirm, EndWithout, ArriveLate, Reconcile, RowAges,
     WindowEnds, tableVars
<1>3. ASSUME NEW m \in Messages, Write(m) \/ MessageAges(m)
      PROVE  EchoesAndNothingElse'
  BY <1>1, <1>3 DEF Write, MessageAges, tableVars
<1>4. ASSUME RecordAncestry \/ Drained \/ Reconciled \/ Processed \/ Crash \/ Restart
      PROVE  EchoesAndNothingElse'
  BY <1>1, <1>4 DEF RecordAncestry, Drained, Reconciled, Processed, Crash, Restart, tableVars
<1>5. ASSUME NEW m \in Messages, Expire(m)
      PROVE  EchoesAndNothingElse'
  <2>1. routing' = [routing EXCEPT ![m] = "dispatch_rejected"]
    BY <1>5 DEF Expire, Ends
  <2> QED
    BY <1>l, <1>t, <2>1, Membership DEF IInv, EchoesAndNothingElse, Text
<1>6. ASSUME NEW m \in Messages, SuppressIfOutboundEcho(m)
      PROVE  EchoesAndNothingElse'
  <2>1. routing' = [routing EXCEPT ![m] = "outbound_echo"]
    BY <1>6 DEF SuppressIfOutboundEcho, Ends
  <2>2. m \notin Typed
    BY <1>6 DEF SuppressIfOutboundEcho, Known, IInv, AncestryInv
  <2> QED
    BY <1>l, <1>t, <2>1, <2>2, Membership DEF IInv, EchoesAndNothingElse, Text
<1>7. ASSUME NEW m \in Messages, Dispatch(m)
      PROVE  EchoesAndNothingElse'
  <2>1. routing' = [routing EXCEPT ![m] = "dispatched"]
    BY <1>7 DEF Dispatch, Ends
  <2>2. m \in posted
    BY <1>7 DEF Dispatch, Selected, Waits, IInv, PostedInv
  <2>3. main.made = None
    BY <1>7 DEF Dispatch, Selected, At, IInv, MainInv
  <2>4. m \in Echoes => m \in lost
    BY <1>7, <1>t, <2>2, <2>3 DEF Dispatch, Known, IInv, AncestryInv
  <2> QED
    BY <1>l, <1>t, <2>1, <2>4, Membership DEF IInv, EchoesAndNothingElse, Text
<1>8. ASSUME NEW m \in Messages, Ingest(m)
      PROVE  EchoesAndNothingElse'
  <2>1. CASE routing' = [routing EXCEPT ![m] = "routed_reply"]
    BY <1>l, <1>t, <2>1, Membership DEF IInv, EchoesAndNothingElse, Text
  <2>2. CASE /\ routing' = [routing EXCEPT ![m] = "outbound_echo"]
             /\ \E r \in Causes(m) : Settles(r)
    <3>1. PICK r \in Causes(m) : Settles(r)
      BY <2>2
    <3>2. r \in Subscriptions /\ TextOf[r] = Text(m)
      BY <3>1 DEF Causes, Settles
    <3> QED
      BY <1>l, <1>t, <2>2, <3>2, Membership DEF IInv, EchoesAndNothingElse, Text
  <2> QED
    BY <1>8, <2>1, <2>2 DEF Ingest
<1> QED
  BY <1>2, <1>3, <1>4, <1>5, <1>6, <1>7, <1>8 DEF Next
-----------------------------------------------------------------------------

\* The invariant holds.
LEMMA Inductive == Spec => []IInv
<1>1. Init => IInv
  <2>1. ASSUME Init PROVE TypeOK
    <3>1. RowTypes
      BY <2>1 DEF Init, RowTypes, RowStates
    <3>2. TableTypes
      BY <2>1 DEF Init, TableTypes
    <3>3. main \in Mains
      BY <2>1, IdleType DEF Init
    <3>4. posted \subseteq Messages /\ lost \subseteq Echoes /\ crashes \in 0 .. MaxCrashes
      BY <2>1, EchoAssumption DEF Init
    <3> QED
      BY <3>1, <3>2, <3>3, <3>4, TypeParts
  <2>2. ASSUME Init PROVE PostedInv /\ AncestryInv /\ EchoesAndNothingElse
    BY <2>2, Membership DEF Init, PostedInv, AncestryInv, EchoesAndNothingElse
  <2>3. ASSUME Init PROVE MainInv
    BY <2>3, IdleType DEF Init, MainInv
  <2> QED
    BY <2>1, <2>2, <2>3 DEF IInv
<1>2. IInv /\ [Next]_vars => IInv'
  <2>1. ASSUME IInv, Next
        PROVE  IInv'
    BY <2>1, TypeStep, PostedStep, MainStep, AncestryStep, EchoesStep DEF IInv
  <2>2. ASSUME IInv, UNCHANGED vars
        PROVE  IInv'
    BY <2>2 DEF IInv, vars, tableVars, TypeOK, PostedInv, MainInv, AncestryInv,
       EchoesAndNothingElse, Text
  <2> QED
    BY <2>1, <2>2
<1> QED
  BY <1>1, <1>2, PTL DEF Spec

\* The rows, the messages and the main thread are well formed in every reachable state,
\* for any rows, texts and bounds.
THEOREM TypeCorrect == Spec => []TypeOK
BY Inductive, PTL DEF IInv

\* Callback, confirmation, reconciler and deaths in any order: the inbox hands Codex a
\* message of the bridge only when its answer was lost, and keeps from it nothing the
\* owner wrote but the text of a subscription.
THEOREM EchoesStayOut == Spec => []EchoesAndNothingElse
BY Inductive, PTL DEF IInv
=============================================================================
