--------------------------- MODULE IngressProofs ---------------------------
(***************************************************************************)
(* What the ingress guarantees for any messages, texts, deadlines (as long *)
(* as the recovery waits no shorter than the deadline) and crashes.        *)
(***************************************************************************)
EXTENDS IngressDispatch, TLAPS

\* A message that is or was in the hands of Codex.
Handed(m) == cli[m] \in {"running", "landed"}

\* Between passes nothing is selected; what is selected was not dispatched.
BatchInv ==
  /\ main.pc \in {"ingest", "recover", "expire", "notice", "down"} => main.batch = {}
  /\ \A m \in main.batch : routing[m] = "routed" /\ record[m] = "none" /\ m # main.row

\* What the main loop knows of the row it holds.
RowInv ==
  /\ main.pc \in {"taken", "prepared", "sending"} =>
       main.row \in Messages /\ routing[main.row] = "routed" /\ ~ Handed(main.row)
  /\ main.pc = "taken" => record[main.row] = "none"
  /\ main.pc = "prepared" => record[main.row] = "prepared"
  /\ main.pc \in {"sending", "starting", "confirming"} =>
       record[main.row] = "bytes_sending" /\ cursor <= main.snap
  /\ main.pc = "sent" =>
       /\ record[main.row] \in {"accepted", "outcome_unknown"}
       /\ record[main.row] = "accepted" => turn[main.row] \notin mirrored
  /\ main.pc \in {"notice", "late"} => main.row \notin tombstone

\* What the tables say of a message that was ever handed over: without a record
\* it is past its deadline.
MessageInv ==
  \A m \in Messages :
    /\ record[m] # "none" \/ cli[m] # "none" => routing[m] # "absent"
    /\ record[m] # "none" => age[m] = Deadline \/ touched[m] <= age[m]
    /\ Handed(m) => \/ record[m] \in {"bytes_sending", "accepted", "outcome_unknown"}
                    \/ record[m] = "none" /\ age[m] = Deadline
    /\ "submitted" \in acks[m] => record[m] \in {"accepted", "outcome_unknown"}

\* A message is in the rollout only when its last child put it there.
RolloutInv ==
  \A p \in DOMAIN rollout : rollout[p] \in Messages => cli[rollout[p]] = "landed"

IInv ==
  /\ TypeOK
  /\ BatchInv
  /\ RowInv
  /\ MessageInv
  /\ RolloutInv
  /\ RunAtMostOnce
  /\ ConfirmedNotMirrored
-----------------------------------------------------------------------------
(***************************************************************************)
(* The steps keep the invariant, one conjunct after the other, with the    *)
(* actions that do the same to it in one step.                             *)
(***************************************************************************)
\* The types that the invariants below need.
LEMMA TypeFacts ==
  ASSUME IInv
  PROVE  /\ routing \in [Messages -> {"absent", "routed", "indeterminate", "rejected"}]
         /\ record \in [Messages -> {"none", "prepared", "bytes_sending", "accepted", "outcome_unknown"}]
         /\ cli \in [Messages -> {"none", "running", "landed", "gone"}]
         /\ turn \in [Messages -> 0 .. Len(rollout)] /\ acks \in [Messages -> SUBSET Statuses]
         /\ tombstone = {m \in Messages : record[m] = "accepted"}
         /\ rollout \in Seq(Origins) /\ Len(rollout) \in Nat
         /\ cursor \in 0 .. Len(rollout) /\ mirrored \subseteq 1 .. cursor
         /\ main \in [pc : PCs, row : Messages \cup {None}, batch : SUBSET Messages,
                      snap : 0 .. Len(rollout)]
         /\ None \notin Messages
BY IngressAssumption DEF IInv, TypeOK, IngressTypes, DispatchTypes, CodexTypes,
   LoopTypes, Origins

\* And those of the clocks.
LEMMA ClockFacts ==
  ASSUME IInv
  PROVE  /\ age \in [Messages -> 0 .. Deadline] /\ touched \in [Messages -> 0 .. RecoverAfter]
         /\ Deadline \in Nat /\ RecoverAfter \in Nat /\ Deadline <= RecoverAfter
BY IngressAssumption DEF IInv, TypeOK, IngressTypes, DispatchTypes

\* The rows of ingress_messages stay what they are meant to be.
LEMMA IngressTypesStep ==
  ASSUME IInv, Next
  PROVE  IngressTypes'
<1>a. IngressTypes
  BY DEF IInv, TypeOK
<1> USE <1>a, IngressAssumption DEF IngressTypes, ingressVars
<1>1. ASSUME NEW m \in Messages, NEW st \in {"routed", "indeterminate"}, Accept(m, st)
      PROVE  IngressTypes'
  BY <1>1 DEF Accept
<1>2. ASSUME ReadRollout \/ RecoverDone \/ Select \/ Crash \/ Restart
      PROVE  IngressTypes'
  BY <1>2 DEF ReadRollout, RecoverDone, Select, Crash, Restart
<1>3. ASSUME Tick
      PROVE  IngressTypes'
  BY <1>3 DEF Tick, Up, Down
<1>4. ASSUME NEW m \in Messages, Land(m) \/ Exit(m)
      PROVE  IngressTypes'
  BY <1>4 DEF Land, Exit
<1>5. ASSUME NEW l \in Locals, Type(l)
      PROVE  IngressTypes'
  BY <1>5 DEF Type
<1>6. ASSUME NEW m \in Messages, RecoverTurn(m)
      PROVE  IngressTypes'
  BY <1>6 DEF RecoverTurn
<1>7. ASSUME NEW m \in Messages, RecoverNothing(m)
      PROVE  IngressTypes'
  BY <1>7 DEF RecoverNothing
<1>8. ASSUME NEW m \in Messages, ExpireStale(m)
      PROVE  IngressTypes'
  BY <1>8 DEF ExpireStale, RejectRow
<1>9. ASSUME NEW m \in Messages, ExpireRow(m)
      PROVE  IngressTypes'
  BY <1>9 DEF ExpireRow, RejectRow
<1>10. ASSUME NEW m \in Messages, Refuse(m)
      PROVE  IngressTypes'
  BY <1>10 DEF Refuse, RejectRow
<1>11. ASSUME NEW m \in Messages, NoticeStale(m) \/ TakeRow(m) \/ AwaitAttachment(m)
      PROVE  IngressTypes'
  BY <1>11 DEF NoticeStale, TakeRow, AwaitAttachment
<1>12. ASSUME NEW m \in Messages, NEW s \in Statuses, NoticeRow(m, s)
      PROVE  IngressTypes'
  BY <1>12 DEF NoticeRow, Control
<1>13. ASSUME NEW m \in Messages, Prepare(m) \/ Begin(m) \/ Spawn(m) \/ Busy(m)
      PROVE  IngressTypes'
  BY <1>13 DEF Prepare, Begin, Spawn, Busy
<1>14. ASSUME NEW m \in Messages, Started(m) \/ GiveUp(m) \/ Confirm(m) \/ Acknowledge(m)
      PROVE  IngressTypes'
  BY <1>14 DEF Started, GiveUp, Confirm, Acknowledge
<1>15. ASSUME NEW m \in Messages, Defer(m)
      PROVE  IngressTypes'
  BY <1>15 DEF Defer
<1> HIDE DEF IngressTypes, ingressVars
<1>16. QED
  BY <1>1, <1>2, <1>3, <1>4, <1>5, <1>6, <1>7, <1>8, <1>9, <1>10, <1>11, <1>12, <1>13,
     <1>14, <1>15
     DEF Next, MainLoop, Codex, Recover, Expire, Row, Dispatch

\* So do the dispatch records; the tombstones are those of the accepted ones.
LEMMA DispatchTypesStep ==
  ASSUME IInv, Next
  PROVE  DispatchTypes'
<1>a. DispatchTypes /\ rollout \in Seq(Origins) /\ Len(rollout) \in Nat
  BY DEF IInv, TypeOK, CodexTypes
<1>b. RowInv
  BY DEF IInv
<1> USE <1>a, <1>b, IngressAssumption DEF DispatchTypes, dispatchVars, codexVars
<1>1. ASSUME NEW m \in Messages, NEW st \in {"routed", "indeterminate"}, Accept(m, st)
      PROVE  DispatchTypes'
  BY <1>1 DEF Accept
<1>2. ASSUME ReadRollout \/ RecoverDone \/ Select \/ Crash \/ Restart
      PROVE  DispatchTypes'
  BY <1>2 DEF ReadRollout, RecoverDone, Select, Crash, Restart
<1>3. ASSUME Tick
      PROVE  DispatchTypes'
  BY <1>3 DEF Tick, Up
<1>4. ASSUME NEW m \in Messages, Land(m)
      PROVE  DispatchTypes'
  BY <1>4 DEF Land
<1>5. ASSUME NEW m \in Messages, Exit(m)
      PROVE  DispatchTypes'
  BY <1>5 DEF Exit
<1>6. ASSUME NEW l \in Locals, Type(l)
      PROVE  DispatchTypes'
  BY <1>6 DEF Type
<1>7. ASSUME NEW m \in Messages, RecoverTurn(m)
      PROVE  DispatchTypes'
  BY <1>7 DEF RecoverTurn, Accepted, FirstMatch
<1>8. ASSUME NEW m \in Messages, RecoverNothing(m)
      PROVE  DispatchTypes'
  BY <1>8 DEF RecoverNothing, Abandoned
<1>9. ASSUME NEW m \in Messages, ExpireStale(m) \/ ExpireRow(m) \/ Refuse(m)
      PROVE  DispatchTypes'
  BY <1>9 DEF ExpireStale, ExpireRow, Refuse
<1>10. ASSUME NEW m \in Messages, NoticeStale(m) \/ TakeRow(m) \/ AwaitAttachment(m)
      PROVE  DispatchTypes'
  BY <1>10 DEF NoticeStale, TakeRow, AwaitAttachment
<1>11. ASSUME NEW m \in Messages, NEW s \in Statuses, NoticeRow(m, s)
      PROVE  DispatchTypes'
  BY <1>11 DEF NoticeRow, Control
<1>12. ASSUME NEW m \in Messages, Prepare(m)
      PROVE  DispatchTypes'
  BY <1>12 DEF Prepare, RowInv
<1>13. ASSUME NEW m \in Messages, Begin(m)
      PROVE  DispatchTypes'
  BY <1>13 DEF Begin, RowInv
<1>14. ASSUME NEW m \in Messages, Spawn(m)
      PROVE  DispatchTypes'
  BY <1>14 DEF Spawn
<1>15. ASSUME NEW m \in Messages, Busy(m)
      PROVE  DispatchTypes'
  BY <1>15 DEF Busy, RowInv
<1>16. ASSUME NEW m \in Messages, Started(m)
      PROVE  DispatchTypes'
  BY <1>16 DEF Started
<1>17. ASSUME NEW m \in Messages, GiveUp(m)
      PROVE  DispatchTypes'
  BY <1>17 DEF GiveUp, RowInv
<1>18. ASSUME NEW m \in Messages, Confirm(m)
      PROVE  DispatchTypes'
  BY <1>18 DEF Confirm, Accepted, FirstMatch
<1>19. ASSUME NEW m \in Messages, Defer(m) \/ Acknowledge(m)
      PROVE  DispatchTypes'
  BY <1>19 DEF Defer, Acknowledge
<1> HIDE DEF DispatchTypes, dispatchVars, codexVars
<1>20. QED
  BY <1>1, <1>2, <1>3, <1>4, <1>5, <1>6, <1>7, <1>8, <1>9, <1>10, <1>11, <1>12, <1>13,
     <1>14, <1>15, <1>16, <1>17, <1>18, <1>19
     DEF Next, MainLoop, Codex, Recover, Expire, Row, Dispatch

\* The rollout holds known items, and the bridge has read no more than there is.
LEMMA CodexTypesStep ==
  ASSUME IInv, Next
  PROVE  CodexTypes'
<1>a. CodexTypes /\ Len(rollout) \in Nat
  BY DEF IInv, TypeOK, CodexTypes
<1> USE <1>a, IngressAssumption DEF CodexTypes, codexVars, mirrorVars, Origins
<1>1. ASSUME NEW m \in Messages, NEW st \in {"routed", "indeterminate"}, Accept(m, st)
      PROVE  CodexTypes'
  BY <1>1 DEF Accept
<1>2. ASSUME ReadRollout
      PROVE  CodexTypes'
  <2>1. cursor' = Len(rollout) /\ cursor <= Len(rollout) /\ cursor \in Nat
    BY <1>2 DEF ReadRollout
  <2>2. mirrored' \subseteq mirrored \cup (cursor + 1 .. Len(rollout))
    BY <1>2 DEF ReadRollout
  <2>3. mirrored' \subseteq 1 .. cursor'
    BY <2>1, <2>2
  <2>4. QED
    BY <1>2, <2>1, <2>3 DEF ReadRollout
<1>3. ASSUME RecoverDone \/ Select \/ Crash \/ Restart \/ Tick
      PROVE  CodexTypes'
  BY <1>3 DEF RecoverDone, Select, Crash, Restart, Tick
<1>4. ASSUME NEW m \in Messages, Land(m)
      PROVE  CodexTypes'
  BY <1>4 DEF Land
<1>5. ASSUME NEW m \in Messages, Exit(m)
      PROVE  CodexTypes'
  BY <1>5 DEF Exit
<1>6. ASSUME NEW l \in Locals, Type(l)
      PROVE  CodexTypes'
  BY <1>6 DEF Type
<1>7. ASSUME NEW m \in Messages,
             RecoverTurn(m) \/ RecoverNothing(m) \/ ExpireStale(m) \/ ExpireRow(m)
      PROVE  CodexTypes'
  BY <1>7 DEF RecoverTurn, RecoverNothing, ExpireStale, ExpireRow
<1>8. ASSUME NEW m \in Messages,
             Refuse(m) \/ NoticeStale(m) \/ TakeRow(m) \/ AwaitAttachment(m)
      PROVE  CodexTypes'
  BY <1>8 DEF Refuse, NoticeStale, TakeRow, AwaitAttachment
<1>9. ASSUME NEW m \in Messages, NEW s \in Statuses, NoticeRow(m, s)
      PROVE  CodexTypes'
  BY <1>9 DEF NoticeRow, Control
<1>10. ASSUME NEW m \in Messages, Prepare(m) \/ Begin(m) \/ Started(m)
      PROVE  CodexTypes'
  BY <1>10 DEF Prepare, Begin, Started
<1>11. ASSUME NEW m \in Messages, Spawn(m)
      PROVE  CodexTypes'
  BY <1>11 DEF Spawn
<1>12. ASSUME NEW m \in Messages, Busy(m)
      PROVE  CodexTypes'
  BY <1>12 DEF Busy
<1>13. ASSUME NEW m \in Messages, GiveUp(m) \/ Confirm(m) \/ Acknowledge(m) \/ Defer(m)
      PROVE  CodexTypes'
  BY <1>13 DEF GiveUp, Confirm, Acknowledge, Defer
<1> HIDE DEF CodexTypes, codexVars, mirrorVars, Origins
<1>14. QED
  BY <1>1, <1>2, <1>3, <1>4, <1>5, <1>6, <1>7, <1>8, <1>9, <1>10, <1>11, <1>12, <1>13
     DEF Next, MainLoop, Codex, Recover, Expire, Row, Dispatch

\* Nor does the main loop lose its place.
LEMMA LoopTypesStep ==
  ASSUME IInv, Next
  PROVE  LoopTypes'
<1>a. LoopTypes /\ rollout \in Seq(Origins) /\ Len(rollout) \in Nat
  BY DEF IInv, TypeOK, CodexTypes
<1>b. NextRow \in [pc : PCs, row : Messages \cup {None}, batch : SUBSET Messages,
                       snap : 0 .. Len(rollout)]
  <2>1. main \in [pc : PCs, row : Messages \cup {None}, batch : SUBSET Messages,
                   snap : 0 .. Len(rollout)] /\ Len(rollout) \in Nat
    BY DEF IInv, TypeOK, LoopTypes, CodexTypes
  <2>2. CASE main.batch = {}
    BY <2>1, <2>2 DEF NextRow, Loop, PCs
  <2>3. CASE main.batch # {}
    BY <2>1, <2>3 DEF NextRow, PCs
  <2>4. QED
    BY <2>2, <2>3
<1> USE <1>a, <1>b, IngressAssumption DEF LoopTypes, codexVars
<1>1. ASSUME NEW m \in Messages, NEW st \in {"routed", "indeterminate"}, Accept(m, st)
      PROVE  LoopTypes'
  BY <1>1 DEF Accept
<1>2. ASSUME ReadRollout \/ RecoverDone \/ Select
      PROVE  LoopTypes'
  BY <1>2 DEF ReadRollout, RecoverDone, Select, Loop, PCs
<1>3. ASSUME Crash \/ Restart \/ Tick
      PROVE  LoopTypes'
  BY <1>3 DEF Crash, Restart, Tick, Loop, PCs
<1>4. ASSUME NEW m \in Messages, Land(m)
      PROVE  LoopTypes'
  BY <1>4 DEF Land
<1>5. ASSUME NEW m \in Messages, Exit(m)
      PROVE  LoopTypes'
  BY <1>5 DEF Exit
<1>6. ASSUME NEW l \in Locals, Type(l)
      PROVE  LoopTypes'
  BY <1>6 DEF Type
<1>7. ASSUME NEW m \in Messages, RecoverTurn(m) \/ RecoverNothing(m)
      PROVE  LoopTypes'
  BY <1>7 DEF RecoverTurn, RecoverNothing
<1>8. ASSUME NEW m \in Messages, ExpireStale(m)
      PROVE  LoopTypes'
  BY <1>8 DEF ExpireStale, PCs
<1>9. ASSUME NEW m \in Messages, NoticeStale(m)
      PROVE  LoopTypes'
  BY <1>9 DEF NoticeStale, Loop, Control, PCs, Statuses
<1>10. ASSUME NEW m \in Messages, ExpireRow(m)
      PROVE  LoopTypes'
  BY <1>10 DEF ExpireRow, PCs
<1>11. ASSUME NEW m \in Messages, TakeRow(m)
      PROVE  LoopTypes'
  BY <1>11 DEF TakeRow, PCs
<1>12. ASSUME NEW m \in Messages, AwaitAttachment(m)
      PROVE  LoopTypes'
  BY <1>12 DEF AwaitAttachment
<1>13. ASSUME NEW m \in Messages, Refuse(m)
      PROVE  LoopTypes'
  BY <1>13 DEF Refuse, PCs
<1>14. ASSUME NEW m \in Messages, NEW s \in Statuses, NoticeRow(m, s)
      PROVE  LoopTypes'
  BY <1>14 DEF NoticeRow, Control
<1>15. ASSUME NEW m \in Messages, Prepare(m)
      PROVE  LoopTypes'
  BY <1>15 DEF Prepare, PCs
<1>16. ASSUME NEW m \in Messages, Begin(m)
      PROVE  LoopTypes'
  <2>1. main' = [main EXCEPT !.pc = "sending", !.snap = Len(rollout)]
    BY <1>16 DEF Begin, Snapshot
  <2>2. main' \in [pc : PCs, row : Messages \cup {None}, batch : SUBSET Messages,
                   snap : 0 .. Len(rollout)]
    <3>1. main \in [pc : PCs, row : Messages \cup {None}, batch : SUBSET Messages,
                     snap : 0 .. Len(rollout)]
      BY DEF LoopTypes
    <3>2. "sending" \in PCs /\ Len(rollout) \in 0 .. Len(rollout)
      BY DEF PCs
    <3>3. QED
      BY <2>1, <3>1, <3>2
  <2>3. QED
    BY <1>16, <2>2 DEF Begin
<1>17. ASSUME NEW m \in Messages, Spawn(m)
      PROVE  LoopTypes'
  BY <1>17 DEF Spawn, PCs
<1>18. ASSUME NEW m \in Messages, Busy(m)
      PROVE  LoopTypes'
  BY <1>18 DEF Busy, PCs
<1>19. ASSUME NEW m \in Messages, Defer(m)
      PROVE  LoopTypes'
  BY <1>19 DEF Defer, Statuses
<1>20. ASSUME NEW m \in Messages, Started(m)
      PROVE  LoopTypes'
  BY <1>20 DEF Started, PCs
<1>21. ASSUME NEW m \in Messages, GiveUp(m)
      PROVE  LoopTypes'
  BY <1>21 DEF GiveUp, PCs
<1>22. ASSUME NEW m \in Messages, Confirm(m)
      PROVE  LoopTypes'
  BY <1>22 DEF Confirm, PCs
<1>23. ASSUME NEW m \in Messages, Acknowledge(m)
      PROVE  LoopTypes'
  BY <1>23 DEF Acknowledge, Statuses
<1> HIDE DEF LoopTypes, codexVars
<1>24. QED
  BY <1>1, <1>2, <1>3, <1>4, <1>5, <1>6, <1>7, <1>8, <1>9, <1>10, <1>11, <1>12, <1>13,
     <1>14, <1>15, <1>16, <1>17, <1>18, <1>19, <1>20, <1>21, <1>22, <1>23
     DEF Next, MainLoop, Codex, Recover, Expire, Row, Dispatch

\* What is selected leaves the batch before anything is done with it.
LEMMA BatchStep ==
  ASSUME IInv, Next
  PROVE  BatchInv'
<1>a. None \notin Messages
  BY IngressAssumption DEF Origins
<1>b. BatchInv
  BY DEF IInv
<1> USE <1>a, <1>b, TypeFacts DEF BatchInv, ingressVars, dispatchVars
<1>1. ASSUME NEW m \in Messages, NEW st \in {"routed", "indeterminate"}, Accept(m, st)
      PROVE  BatchInv'
  BY <1>1 DEF Accept
<1>2. ASSUME NEW m \in Messages, Land(m) \/ Exit(m)
      PROVE  BatchInv'
  BY <1>2 DEF Land, Exit
<1>3. ASSUME NEW l \in Locals, Type(l)
      PROVE  BatchInv'
  BY <1>3 DEF Type
<1>4. ASSUME ReadRollout \/ RecoverDone \/ Crash \/ Restart \/ Tick
      PROVE  BatchInv'
  BY <1>4 DEF ReadRollout, RecoverDone, Crash, Restart, Tick, Loop
<1>5. ASSUME Select
      PROVE  BatchInv'
  BY <1>5 DEF Select, Loop, Eligible
<1>6. ASSUME NEW m \in Messages, RecoverTurn(m) \/ RecoverNothing(m)
      PROVE  BatchInv'
  BY <1>6 DEF RecoverTurn, RecoverNothing, Accepted
<1>7. ASSUME NEW m \in Messages, ExpireStale(m)
      PROVE  BatchInv'
  BY <1>7 DEF ExpireStale, RejectRow
<1>8. ASSUME NEW m \in Messages, NoticeStale(m)
      PROVE  BatchInv'
  BY <1>8 DEF NoticeStale, Loop
<1>9. ASSUME NEW m \in Messages, ExpireRow(m)
      PROVE  BatchInv'
  BY <1>9 DEF ExpireRow, RejectRow
<1>10. ASSUME NEW m \in Messages, TakeRow(m)
      PROVE  BatchInv'
  BY <1>10 DEF TakeRow
<1>11. ASSUME NEW m \in Messages, AwaitAttachment(m)
      PROVE  BatchInv'
  BY <1>11 DEF AwaitAttachment, NextRow, Loop
<1>12. ASSUME NEW m \in Messages, Refuse(m)
      PROVE  BatchInv'
  BY <1>12 DEF Refuse, RejectRow
<1>13. ASSUME NEW m \in Messages, NEW s \in Statuses, NoticeRow(m, s)
      PROVE  BatchInv'
  BY <1>13 DEF NoticeRow, NextRow, Loop
<1>14. ASSUME NEW m \in Messages, Prepare(m)
      PROVE  BatchInv'
  BY <1>14 DEF Prepare
<1>15. ASSUME NEW m \in Messages, Begin(m)
      PROVE  BatchInv'
  BY <1>15 DEF Begin
<1>16. ASSUME NEW m \in Messages, Spawn(m)
      PROVE  BatchInv'
  BY <1>16 DEF Spawn
<1>17. ASSUME NEW m \in Messages, Busy(m)
      PROVE  BatchInv'
  BY <1>17 DEF Busy
<1>18. ASSUME NEW m \in Messages, Defer(m)
      PROVE  BatchInv'
  BY <1>18 DEF Defer, NextRow, Loop
<1>19. ASSUME NEW m \in Messages, Acknowledge(m)
      PROVE  BatchInv'
  BY <1>19 DEF Acknowledge, NextRow, Loop
<1>20. ASSUME NEW m \in Messages, Started(m)
      PROVE  BatchInv'
  BY <1>20 DEF Started
<1>21. ASSUME NEW m \in Messages, GiveUp(m)
      PROVE  BatchInv'
  BY <1>21 DEF GiveUp
<1>22. ASSUME NEW m \in Messages, Confirm(m)
      PROVE  BatchInv'
  BY <1>22 DEF Confirm, Accepted
<1> HIDE DEF BatchInv, ingressVars, dispatchVars
<1>23. QED
  BY <1>1, <1>2, <1>3, <1>4, <1>5, <1>6, <1>7, <1>8, <1>9, <1>10, <1>11, <1>12, <1>13,
     <1>14, <1>15, <1>16, <1>17, <1>18, <1>19, <1>20, <1>21, <1>22
     DEF Next, MainLoop, Codex, Recover, Expire, Row, Dispatch

\* What the loop knows of its row stays true while it holds it, whatever the others do.
LEMMA RowStep ==
  ASSUME IInv, Next
  PROVE  RowInv'
<1>a. None \notin Messages
  BY IngressAssumption DEF Origins
<1>b. RowInv /\ BatchInv /\ MessageInv
  BY DEF IInv
<1> USE <1>a, <1>b, TypeFacts, ClockFacts DEF RowInv, Handed, ingressVars, dispatchVars,
   codexVars, mirrorVars
<1>1. ASSUME NEW m \in Messages, NEW st \in {"routed", "indeterminate"}, Accept(m, st)
      PROVE  RowInv'
  BY <1>1 DEF Accept
<1>2. ASSUME NEW m \in Messages, Land(m)
      PROVE  RowInv'
  BY <1>2 DEF Land
<1>3. ASSUME NEW m \in Messages, Exit(m)
      PROVE  RowInv'
  BY <1>3 DEF Exit
<1>4. ASSUME NEW l \in Locals, Type(l)
      PROVE  RowInv'
  BY <1>4 DEF Type
<1>5. ASSUME ReadRollout \/ RecoverDone
      PROVE  RowInv'
  BY <1>5 DEF ReadRollout, RecoverDone, Loop
<1>6. ASSUME Crash \/ Restart
      PROVE  RowInv'
  BY <1>6 DEF Crash, Restart, Loop
<1>7. ASSUME Select
      PROVE  RowInv'
  BY <1>7 DEF Select, Loop
<1>8. ASSUME Tick
      PROVE  RowInv'
  BY <1>8 DEF Tick
<1>9. ASSUME NEW m \in Messages, RecoverTurn(m)
      PROVE  RowInv'
  BY <1>9 DEF RecoverTurn, Accepted
<1>10. ASSUME NEW m \in Messages, RecoverNothing(m)
      PROVE  RowInv'
  BY <1>10 DEF RecoverNothing
<1>11. ASSUME NEW m \in Messages, ExpireStale(m)
      PROVE  RowInv'
  BY <1>11 DEF ExpireStale, Expiring, RejectRow
<1>12. ASSUME NEW m \in Messages, NoticeStale(m)
      PROVE  RowInv'
  BY <1>12 DEF NoticeStale, Loop
<1>13. ASSUME NEW m \in Messages, ExpireRow(m)
      PROVE  RowInv'
  BY <1>13 DEF ExpireRow, First, BatchInv
<1>14. ASSUME NEW m \in Messages, TakeRow(m)
      PROVE  RowInv'
  <2>1. routing[m] = "routed" /\ record[m] = "none" /\ m \in Messages
    BY <1>14 DEF TakeRow, First, BatchInv
  <2>2. age[m] # Deadline
    BY <1>14, <2>1 DEF TakeRow, Late
  <2>3. ~ Handed(m)
    BY <2>1, <2>2 DEF MessageInv
  <2>4. main'.pc = "taken" /\ main'.row = m /\ UNCHANGED <<routing, record, cli>>
    BY <1>14 DEF TakeRow, ingressVars, dispatchVars, codexVars
  <2>5. QED
    BY <2>1, <2>3, <2>4 DEF RowInv, Handed
<1>15. ASSUME NEW m \in Messages, AwaitAttachment(m)
      PROVE  RowInv'
  BY <1>15 DEF AwaitAttachment, NextRow, Loop
<1>16. ASSUME NEW m \in Messages, Refuse(m)
      PROVE  RowInv'
  BY <1>16 DEF Refuse, RejectRow
<1>17. ASSUME NEW m \in Messages, NEW s \in Statuses, NoticeRow(m, s)
      PROVE  RowInv'
  BY <1>17 DEF NoticeRow, NextRow, Loop
<1>18. ASSUME NEW m \in Messages, Prepare(m)
      PROVE  RowInv'
  BY <1>18 DEF Prepare
<1>19. ASSUME NEW m \in Messages, Begin(m)
      PROVE  RowInv'
  BY <1>19 DEF Begin, Snapshot
<1>20. ASSUME NEW m \in Messages, Spawn(m)
      PROVE  RowInv'
  BY <1>20 DEF Spawn
<1>21. ASSUME NEW m \in Messages, Busy(m)
      PROVE  RowInv'
  BY <1>21 DEF Busy
<1>22. ASSUME NEW m \in Messages, Defer(m)
      PROVE  RowInv'
  BY <1>22 DEF Defer, NextRow, Loop
<1>23. ASSUME NEW m \in Messages, Started(m)
      PROVE  RowInv'
  BY <1>23 DEF Started
<1>24. ASSUME NEW m \in Messages, GiveUp(m)
      PROVE  RowInv'
  BY <1>24 DEF GiveUp
<1>25. ASSUME NEW m \in Messages, Confirm(m)
      PROVE  RowInv'
  BY <1>25 DEF Confirm, Accepted, FirstMatch
<1>26. ASSUME NEW m \in Messages, Acknowledge(m)
      PROVE  RowInv'
  BY <1>26 DEF Acknowledge, NextRow, Loop
<1> HIDE DEF RowInv, Handed, ingressVars, dispatchVars, codexVars, mirrorVars
<1>27. QED
  BY <1>1, <1>2, <1>3, <1>4, <1>5, <1>6, <1>7, <1>8, <1>9, <1>10, <1>11, <1>12, <1>13,
     <1>14, <1>15, <1>16, <1>17, <1>18, <1>19, <1>20, <1>21, <1>22, <1>23, <1>24, <1>25,
     <1>26
     DEF Next, MainLoop, Codex, Recover, Expire, Row, Dispatch

\* A record is removed only for a message Codex refused, or after the deadline.
LEMMA MessageStep ==
  ASSUME IInv, Next
  PROVE  MessageInv'
<1>a. None \notin Messages
  BY IngressAssumption DEF Origins
<1>b. Deadline \in Nat /\ RecoverAfter \in Nat /\ Deadline <= RecoverAfter
  BY IngressAssumption
<1>c. RowInv /\ MessageInv
  BY DEF IInv
<1> USE <1>a, <1>b, <1>c, TypeFacts, ClockFacts DEF MessageInv, RowInv, Handed,
   ingressVars, dispatchVars, codexVars
<1>1. ASSUME NEW m \in Messages, NEW st \in {"routed", "indeterminate"}, Accept(m, st)
      PROVE  MessageInv'
  BY <1>1 DEF Accept
<1>2. ASSUME NEW m \in Messages, Land(m) \/ Exit(m)
      PROVE  MessageInv'
  BY <1>2, SMTT(30) DEF Land, Exit
<1>3. ASSUME NEW l \in Locals, Type(l)
      PROVE  MessageInv'
  BY <1>3 DEF Type
<1>4. ASSUME ReadRollout \/ RecoverDone \/ Select \/ Crash \/ Restart
      PROVE  MessageInv'
  BY <1>4 DEF ReadRollout, RecoverDone, Select, Crash, Restart
<1>5. ASSUME Tick
      PROVE  MessageInv'
  BY <1>5 DEF Tick, Up
<1>6. ASSUME NEW m \in Messages, RecoverTurn(m)
      PROVE  MessageInv'
  BY <1>6 DEF RecoverTurn, Accepted, Abandoned
<1>7. ASSUME NEW m \in Messages, RecoverNothing(m)
      PROVE  MessageInv'
  BY <1>7 DEF RecoverNothing, Abandoned
<1>8. ASSUME NEW m \in Messages, ExpireStale(m) \/ ExpireRow(m) \/ Refuse(m)
      PROVE  MessageInv'
  BY <1>8 DEF ExpireStale, ExpireRow, Refuse, RejectRow, Late, Expiring
<1>9. ASSUME NEW m \in Messages, NoticeStale(m)
      PROVE  MessageInv'
  BY <1>9 DEF NoticeStale, Control
<1>10. ASSUME NEW m \in Messages, TakeRow(m) \/ AwaitAttachment(m)
      PROVE  MessageInv'
  BY <1>10 DEF TakeRow, AwaitAttachment
<1>11. ASSUME NEW m \in Messages, NEW s \in Statuses, NoticeRow(m, s)
      PROVE  MessageInv'
  BY <1>11 DEF NoticeRow, Control
<1>12. ASSUME NEW m \in Messages, Prepare(m)
      PROVE  MessageInv'
  BY <1>12 DEF Prepare
<1>13. ASSUME NEW m \in Messages, Begin(m)
      PROVE  MessageInv'
  BY <1>13 DEF Begin
<1>14. ASSUME NEW m \in Messages, Spawn(m)
      PROVE  MessageInv'
  BY <1>14 DEF Spawn
<1>15. ASSUME NEW m \in Messages, Busy(m)
      PROVE  MessageInv'
  BY <1>15 DEF Busy
<1>16. ASSUME NEW m \in Messages, Defer(m)
      PROVE  MessageInv'
  BY <1>16 DEF Defer
<1>17. ASSUME NEW m \in Messages, Started(m)
      PROVE  MessageInv'
  BY <1>17 DEF Started
<1>18. ASSUME NEW m \in Messages, GiveUp(m)
      PROVE  MessageInv'
  BY <1>18 DEF GiveUp
<1>19. ASSUME NEW m \in Messages, Confirm(m)
      PROVE  MessageInv'
  BY <1>19 DEF Confirm, Accepted
<1>20. ASSUME NEW m \in Messages, Acknowledge(m)
      PROVE  MessageInv'
  BY <1>20 DEF Acknowledge
<1> HIDE DEF MessageInv, RowInv, Handed, ingressVars, dispatchVars, codexVars
<1>21. QED
  BY <1>1, <1>2, <1>3, <1>4, <1>5, <1>6, <1>7, <1>8, <1>9, <1>10, <1>11, <1>12, <1>13,
     <1>14, <1>15, <1>16, <1>17, <1>18, <1>19, <1>20
     DEF Next, MainLoop, Codex, Recover, Expire, Row, Dispatch

\* Only the child of a message adds it to the rollout, and no other is started after.
LEMMA RolloutStep ==
  ASSUME IInv, Next
  PROVE  RolloutInv' /\ RunAtMostOnce'
<1>a. None \notin Messages
  BY IngressAssumption DEF Origins
<1>b. RowInv /\ RolloutInv /\ RunAtMostOnce
  BY DEF IInv
<1> USE <1>a, <1>b, TypeFacts DEF RolloutInv, RunAtMostOnce, RowInv, Handed, codexVars
<1>1. ASSUME NEW m \in Messages, NEW st \in {"routed", "indeterminate"}, Accept(m, st)
      PROVE  RolloutInv' /\ RunAtMostOnce'
  BY <1>1 DEF Accept
<1>2. ASSUME NEW m \in Messages, Land(m)
      PROVE  RolloutInv' /\ RunAtMostOnce'
  BY <1>2 DEF Land
<1>3. ASSUME NEW m \in Messages, Exit(m)
      PROVE  RolloutInv' /\ RunAtMostOnce'
  BY <1>3 DEF Exit
<1>4. ASSUME NEW l \in Locals, Type(l)
      PROVE  RolloutInv' /\ RunAtMostOnce'
  <2>1. l \notin Messages /\ rollout' = Append(rollout, l) /\ UNCHANGED cli
    BY <1>4, IngressAssumption DEF Type
  <2>2. RolloutInv'
    BY <2>1
  <2>3. RunAtMostOnce'
    BY <1>4, <2>1 DEF Type
  <2>4. QED
    BY <2>2, <2>3
<1>5. ASSUME ReadRollout \/ RecoverDone \/ Select \/ Crash \/ Restart \/ Tick
      PROVE  RolloutInv' /\ RunAtMostOnce'
  BY <1>5 DEF ReadRollout, RecoverDone, Select, Crash, Restart, Tick
<1>6. ASSUME NEW m \in Messages, RecoverTurn(m) \/ RecoverNothing(m)
      PROVE  RolloutInv' /\ RunAtMostOnce'
  BY <1>6 DEF RecoverTurn, RecoverNothing
<1>7. ASSUME NEW m \in Messages, ExpireStale(m) \/ NoticeStale(m) \/ ExpireRow(m)
      PROVE  RolloutInv' /\ RunAtMostOnce'
  BY <1>7 DEF ExpireStale, NoticeStale, ExpireRow
<1>8. ASSUME NEW m \in Messages, TakeRow(m) \/ AwaitAttachment(m) \/ Refuse(m)
      PROVE  RolloutInv' /\ RunAtMostOnce'
  BY <1>8 DEF TakeRow, AwaitAttachment, Refuse
<1>9. ASSUME NEW m \in Messages, NEW s \in Statuses, NoticeRow(m, s)
      PROVE  RolloutInv' /\ RunAtMostOnce'
  BY <1>9 DEF NoticeRow, Control
<1>10. ASSUME NEW m \in Messages, Prepare(m) \/ Begin(m)
      PROVE  RolloutInv' /\ RunAtMostOnce'
  BY <1>10 DEF Prepare, Begin
<1>11. ASSUME NEW m \in Messages, Spawn(m)
      PROVE  RolloutInv' /\ RunAtMostOnce'
  BY <1>11 DEF Spawn
<1>12. ASSUME NEW m \in Messages, Busy(m)
      PROVE  RolloutInv' /\ RunAtMostOnce'
  BY <1>12 DEF Busy
<1>13. ASSUME NEW m \in Messages, Defer(m) \/ Started(m) \/ GiveUp(m)
      PROVE  RolloutInv' /\ RunAtMostOnce'
  BY <1>13 DEF Defer, Started, GiveUp
<1>14. ASSUME NEW m \in Messages, Confirm(m) \/ Acknowledge(m)
      PROVE  RolloutInv' /\ RunAtMostOnce'
  BY <1>14 DEF Confirm, Acknowledge
<1> HIDE DEF RolloutInv, RunAtMostOnce, RowInv, Handed, codexVars
<1>15. QED
  BY <1>1, <1>2, <1>3, <1>4, <1>5, <1>6, <1>7, <1>8, <1>9, <1>10, <1>11, <1>12, <1>13,
     <1>14
     DEF Next, MainLoop, Codex, Recover, Expire, Row, Dispatch

\* A turn that is confirmed is behind the cursor's back, and is not mirrored later.
LEMMA ConfirmedStep ==
  ASSUME IInv, Next
  PROVE  ConfirmedNotMirrored'
<1>a. None \notin Messages
  BY IngressAssumption DEF Origins
<1>b. RowInv /\ MessageInv /\ ConfirmedNotMirrored
  BY DEF IInv
<1> USE <1>a, <1>b, TypeFacts DEF ConfirmedNotMirrored, MessageInv, RowInv,
   dispatchVars, mirrorVars
<1>1. ASSUME NEW m \in Messages, NEW st \in {"routed", "indeterminate"}, Accept(m, st)
      PROVE  ConfirmedNotMirrored'
  BY <1>1 DEF Accept
<1>2. ASSUME NEW m \in Messages, Land(m) \/ Exit(m)
      PROVE  ConfirmedNotMirrored'
  BY <1>2 DEF Land, Exit
<1>3. ASSUME NEW l \in Locals, Type(l)
      PROVE  ConfirmedNotMirrored'
  BY <1>3 DEF Type
<1>4. ASSUME ReadRollout
      PROVE  ConfirmedNotMirrored'
  BY <1>4 DEF ReadRollout, Returning
<1>5. ASSUME RecoverDone \/ Select \/ Crash \/ Restart \/ Tick
      PROVE  ConfirmedNotMirrored'
  BY <1>5 DEF RecoverDone, Select, Crash, Restart, Tick
<1>6. ASSUME NEW m \in Messages, RecoverTurn(m) \/ RecoverNothing(m)
      PROVE  ConfirmedNotMirrored'
  BY <1>6 DEF RecoverTurn, RecoverNothing, Accepted, Abandoned
<1>7. ASSUME NEW m \in Messages, NoticeStale(m)
      PROVE  ConfirmedNotMirrored'
  BY <1>7 DEF NoticeStale, Control
<1>8. ASSUME NEW m \in Messages, ExpireStale(m) \/ ExpireRow(m)
      PROVE  ConfirmedNotMirrored'
  BY <1>8 DEF ExpireStale, ExpireRow
<1>9. ASSUME NEW m \in Messages, TakeRow(m) \/ AwaitAttachment(m) \/ Refuse(m)
      PROVE  ConfirmedNotMirrored'
  BY <1>9 DEF TakeRow, AwaitAttachment, Refuse
<1>10. ASSUME NEW m \in Messages, NEW s \in Statuses, NoticeRow(m, s)
      PROVE  ConfirmedNotMirrored'
  BY <1>10 DEF NoticeRow, Control
<1>11. ASSUME NEW m \in Messages, Prepare(m) \/ Begin(m)
      PROVE  ConfirmedNotMirrored'
  BY <1>11 DEF Prepare, Begin
<1>12. ASSUME NEW m \in Messages, Spawn(m) \/ Busy(m)
      PROVE  ConfirmedNotMirrored'
  BY <1>12 DEF Spawn, Busy
<1>13. ASSUME NEW m \in Messages, Defer(m)
      PROVE  ConfirmedNotMirrored'
  BY <1>13 DEF Defer
<1>14. ASSUME NEW m \in Messages, Started(m)
      PROVE  ConfirmedNotMirrored'
  BY <1>14 DEF Started
<1>15. ASSUME NEW m \in Messages, GiveUp(m)
      PROVE  ConfirmedNotMirrored'
  BY <1>15 DEF GiveUp
<1>16. ASSUME NEW m \in Messages, Confirm(m)
      PROVE  ConfirmedNotMirrored'
  BY <1>16 DEF Confirm, Accepted, FirstMatch
<1>17. ASSUME NEW m \in Messages, Acknowledge(m)
      PROVE  ConfirmedNotMirrored'
  BY <1>17 DEF Acknowledge
<1> HIDE DEF ConfirmedNotMirrored, MessageInv, RowInv, dispatchVars, mirrorVars
<1>18. QED
  BY <1>1, <1>2, <1>3, <1>4, <1>5, <1>6, <1>7, <1>8, <1>9, <1>10, <1>11, <1>12, <1>13,
     <1>14, <1>15, <1>16, <1>17
     DEF Next, MainLoop, Codex, Recover, Expire, Row, Dispatch
-----------------------------------------------------------------------------
\* Before the first message everything is empty.
LEMMA InitInv == Init => IInv
<1> SUFFICES ASSUME Init
             PROVE  IInv
  OBVIOUS
<1> USE IngressAssumption DEF Init
<1>1. IngressTypes /\ DispatchTypes
  BY DEF IngressTypes, DispatchTypes
<1>2. CodexTypes /\ LoopTypes
  BY DEF CodexTypes, LoopTypes, Loop, PCs
<1>3. BatchInv /\ RowInv /\ MessageInv
  BY DEF BatchInv, RowInv, MessageInv, Loop, Handed
<1>4. RolloutInv /\ RunAtMostOnce /\ ConfirmedNotMirrored
  BY DEF RolloutInv, RunAtMostOnce, ConfirmedNotMirrored
<1>5. QED
  BY <1>1, <1>2, <1>3, <1>4 DEF IInv, TypeOK

\* Every step keeps the invariant.
LEMMA NextInv ==
  ASSUME IInv, [Next]_vars
  PROVE  IInv'
<1>1. ASSUME Next
      PROVE  IInv'
  BY <1>1, IngressTypesStep, DispatchTypesStep, CodexTypesStep, LoopTypesStep, BatchStep,
     RowStep, MessageStep, RolloutStep, ConfirmedStep DEF IInv, TypeOK
<1>2. CASE UNCHANGED vars
  <2> USE <1>2 DEF vars, ingressVars, dispatchVars, codexVars, mirrorVars
  <2>1. IngressTypes' /\ DispatchTypes'
    BY DEF IInv, TypeOK, IngressTypes, DispatchTypes
  <2>2. CodexTypes' /\ LoopTypes'
    BY DEF IInv, TypeOK, CodexTypes, LoopTypes
  <2>3. BatchInv' /\ RowInv'
    BY DEF IInv, BatchInv, RowInv, Handed
  <2>4. MessageInv' /\ RolloutInv'
    BY DEF IInv, MessageInv, RolloutInv, Handed
  <2>5. RunAtMostOnce' /\ ConfirmedNotMirrored'
    BY DEF IInv, RunAtMostOnce, ConfirmedNotMirrored
  <2>6. QED
    BY <2>1, <2>2, <2>3, <2>4, <2>5 DEF IInv, TypeOK
<1>3. QED
  BY <1>1, <1>2

\* The invariant holds of the ingress for all messages, texts and deadlines.
THEOREM Invariant == Spec => []IInv
<1>1. QED
  BY InitInv, NextInv, PTL DEF Spec

\* The tables, the rollout and the main loop are well formed; in particular a tombstone
\* is there exactly for the accepted messages.
THEOREM TypeCorrect == Spec => []TypeOK
<1>1. IInv => TypeOK
  BY DEF IInv
<1>2. QED
  BY <1>1, Invariant, PTL

\* No message of the topic becomes two turns of Codex, whatever dies or is late.
THEOREM RunsOnce == Spec => []RunAtMostOnce
<1>1. IInv => RunAtMostOnce
  BY DEF IInv
<1>2. QED
  BY <1>1, Invariant, PTL

\* What was acknowledged as submitted and has its turn is not echoed into the topic.
THEOREM ConfirmedStaysOut == Spec => []ConfirmedNotMirrored
<1>1. IInv => ConfirmedNotMirrored
  BY DEF IInv
<1>2. QED
  BY <1>1, Invariant, PTL
-----------------------------------------------------------------------------
\* No step brings a rejected message back or starts a child for it.
LEMMA RejectedStep ==
  ASSUME IInv, [Next]_vars, NEW x \in Messages, routing[x] = "rejected"
  PROVE  routing'[x] = "rejected" /\ (cli'[x] = "running" => cli[x] = "running")
<1>a. RowInv
  BY DEF IInv
<1> USE <1>a, TypeFacts DEF RowInv, ingressVars, codexVars
<1>1. ASSUME NEW m \in Messages, NEW st \in {"routed", "indeterminate"}, Accept(m, st)
      PROVE  routing'[x] = "rejected" /\ (cli'[x] = "running" => cli[x] = "running")
  BY <1>1 DEF Accept
<1>2. ASSUME NEW m \in Messages, Land(m)
      PROVE  routing'[x] = "rejected" /\ (cli'[x] = "running" => cli[x] = "running")
  BY <1>2 DEF Land
<1>3. ASSUME NEW m \in Messages, Exit(m)
      PROVE  routing'[x] = "rejected" /\ (cli'[x] = "running" => cli[x] = "running")
  BY <1>3 DEF Exit
<1>4. ASSUME NEW l \in Locals, Type(l)
      PROVE  routing'[x] = "rejected" /\ (cli'[x] = "running" => cli[x] = "running")
  BY <1>4 DEF Type
<1>5. ASSUME ReadRollout \/ RecoverDone \/ Select \/ Crash \/ Restart \/ Tick
      PROVE  routing'[x] = "rejected" /\ (cli'[x] = "running" => cli[x] = "running")
  BY <1>5 DEF ReadRollout, RecoverDone, Select, Crash, Restart, Tick
<1>6. ASSUME NEW m \in Messages, RecoverTurn(m) \/ RecoverNothing(m)
      PROVE  routing'[x] = "rejected" /\ (cli'[x] = "running" => cli[x] = "running")
  BY <1>6 DEF RecoverTurn, RecoverNothing
<1>7. ASSUME NEW m \in Messages, ExpireStale(m)
      PROVE  routing'[x] = "rejected" /\ (cli'[x] = "running" => cli[x] = "running")
  BY <1>7 DEF ExpireStale, RejectRow
<1>8. ASSUME NEW m \in Messages, NoticeStale(m)
      PROVE  routing'[x] = "rejected" /\ (cli'[x] = "running" => cli[x] = "running")
  BY <1>8 DEF NoticeStale
<1>9. ASSUME NEW m \in Messages, ExpireRow(m)
      PROVE  routing'[x] = "rejected" /\ (cli'[x] = "running" => cli[x] = "running")
  BY <1>9 DEF ExpireRow, RejectRow
<1>10. ASSUME NEW m \in Messages, TakeRow(m) \/ AwaitAttachment(m)
      PROVE  routing'[x] = "rejected" /\ (cli'[x] = "running" => cli[x] = "running")
  BY <1>10 DEF TakeRow, AwaitAttachment
<1>11. ASSUME NEW m \in Messages, Refuse(m)
      PROVE  routing'[x] = "rejected" /\ (cli'[x] = "running" => cli[x] = "running")
  BY <1>11 DEF Refuse, RejectRow
<1>12. ASSUME NEW m \in Messages, NEW s \in Statuses, NoticeRow(m, s)
      PROVE  routing'[x] = "rejected" /\ (cli'[x] = "running" => cli[x] = "running")
  BY <1>12 DEF NoticeRow
<1>13. ASSUME NEW m \in Messages, Prepare(m) \/ Begin(m)
      PROVE  routing'[x] = "rejected" /\ (cli'[x] = "running" => cli[x] = "running")
  BY <1>13 DEF Prepare, Begin
<1>14. ASSUME NEW m \in Messages, Spawn(m)
      PROVE  routing'[x] = "rejected" /\ (cli'[x] = "running" => cli[x] = "running")
  BY <1>14 DEF Spawn
<1>15. ASSUME NEW m \in Messages, Busy(m)
      PROVE  routing'[x] = "rejected" /\ (cli'[x] = "running" => cli[x] = "running")
  BY <1>15 DEF Busy
<1>16. ASSUME NEW m \in Messages, Defer(m)
      PROVE  routing'[x] = "rejected" /\ (cli'[x] = "running" => cli[x] = "running")
  BY <1>16 DEF Defer
<1>17. ASSUME NEW m \in Messages, Started(m) \/ GiveUp(m)
      PROVE  routing'[x] = "rejected" /\ (cli'[x] = "running" => cli[x] = "running")
  BY <1>17 DEF Started, GiveUp
<1>18. ASSUME NEW m \in Messages, Confirm(m) \/ Acknowledge(m)
      PROVE  routing'[x] = "rejected" /\ (cli'[x] = "running" => cli[x] = "running")
  BY <1>18 DEF Confirm, Acknowledge
<1>19. ASSUME UNCHANGED vars
      PROVE  routing'[x] = "rejected" /\ (cli'[x] = "running" => cli[x] = "running")
  BY <1>19 DEF vars
<1> HIDE DEF RowInv, ingressVars, codexVars
<1>20. QED
  BY <1>1, <1>2, <1>3, <1>4, <1>5, <1>6, <1>7, <1>8, <1>9, <1>10, <1>11, <1>12, <1>13,
     <1>14, <1>15, <1>16, <1>17, <1>18, <1>19
     DEF Next, MainLoop, Codex, Recover, Expire, Row, Dispatch

\* What was given up stays so, and is never handed to Codex again.
THEOREM RejectedStays == Spec => RejectedForGood
<1>1. IInv /\ [Next]_vars =>
        [\A m \in Messages :
           routing[m] = "rejected" => /\ routing'[m] = "rejected"
                                      /\ cli'[m] = "running" => cli[m] = "running"]_vars
  BY RejectedStep
<1>2. QED
  BY <1>1, Invariant, PTL DEF Spec, RejectedForGood

\* Only the two notices add "discarded", and neither is about an accepted message.
LEMMA DiscardedStep ==
  ASSUME IInv, [Next]_vars, NEW x \in tombstone
  PROVE  acks'[x] \cap {"discarded"} \subseteq acks[x]
<1>a. RowInv /\ x \in Messages
  BY DEF IInv, TypeOK, DispatchTypes
<1> USE <1>a, TypeFacts DEF RowInv
<1>1. ASSUME NEW m \in Messages, NEW st \in {"routed", "indeterminate"}, Accept(m, st)
      PROVE  acks'[x] \cap {"discarded"} \subseteq acks[x]
  BY <1>1 DEF Accept
<1>2. ASSUME NEW m \in Messages, Land(m) \/ Exit(m)
      PROVE  acks'[x] \cap {"discarded"} \subseteq acks[x]
  BY <1>2 DEF Land, Exit
<1>3. ASSUME NEW l \in Locals, Type(l)
      PROVE  acks'[x] \cap {"discarded"} \subseteq acks[x]
  BY <1>3 DEF Type
<1>4. ASSUME ReadRollout \/ RecoverDone \/ Select \/ Crash \/ Restart \/ Tick
      PROVE  acks'[x] \cap {"discarded"} \subseteq acks[x]
  BY <1>4 DEF ReadRollout, RecoverDone, Select, Crash, Restart, Tick
<1>5. ASSUME NEW m \in Messages, RecoverTurn(m) \/ RecoverNothing(m)
      PROVE  acks'[x] \cap {"discarded"} \subseteq acks[x]
  BY <1>5 DEF RecoverTurn, RecoverNothing
<1>6. ASSUME NEW m \in Messages, ExpireStale(m) \/ ExpireRow(m) \/ Refuse(m)
      PROVE  acks'[x] \cap {"discarded"} \subseteq acks[x]
  BY <1>6 DEF ExpireStale, ExpireRow, Refuse
<1>7. ASSUME NEW m \in Messages, NoticeStale(m)
      PROVE  acks'[x] \cap {"discarded"} \subseteq acks[x]
  BY <1>7 DEF NoticeStale, Control
<1>8. ASSUME NEW m \in Messages, TakeRow(m) \/ AwaitAttachment(m)
      PROVE  acks'[x] \cap {"discarded"} \subseteq acks[x]
  BY <1>8 DEF TakeRow, AwaitAttachment
<1>9. ASSUME NEW m \in Messages, NEW s \in Statuses, NoticeRow(m, s)
      PROVE  acks'[x] \cap {"discarded"} \subseteq acks[x]
  BY <1>9 DEF NoticeRow, Control
<1>10. ASSUME NEW m \in Messages, Prepare(m) \/ Begin(m)
      PROVE  acks'[x] \cap {"discarded"} \subseteq acks[x]
  BY <1>10 DEF Prepare, Begin
<1>11. ASSUME NEW m \in Messages, Spawn(m) \/ Busy(m)
      PROVE  acks'[x] \cap {"discarded"} \subseteq acks[x]
  BY <1>11 DEF Spawn, Busy
<1>12. ASSUME NEW m \in Messages, Defer(m)
      PROVE  acks'[x] \cap {"discarded"} \subseteq acks[x]
  BY <1>12 DEF Defer
<1>13. ASSUME NEW m \in Messages, Started(m) \/ GiveUp(m) \/ Confirm(m)
      PROVE  acks'[x] \cap {"discarded"} \subseteq acks[x]
  BY <1>13 DEF Started, GiveUp, Confirm
<1>14. ASSUME NEW m \in Messages, Acknowledge(m)
      PROVE  acks'[x] \cap {"discarded"} \subseteq acks[x]
  BY <1>14 DEF Acknowledge
<1>15. ASSUME UNCHANGED vars
      PROVE  acks'[x] \cap {"discarded"} \subseteq acks[x]
  BY <1>15 DEF vars
<1> HIDE DEF RowInv
<1>16. QED
  BY <1>1, <1>2, <1>3, <1>4, <1>5, <1>6, <1>7, <1>8, <1>9, <1>10, <1>11, <1>12, <1>13,
     <1>14, <1>15
     DEF Next, MainLoop, Codex, Recover, Expire, Row, Dispatch

\* A message whose turn was found is not reported as discarded afterwards.
THEOREM AcceptedStays == Spec => AcceptedNotDiscarded
<1>1. IInv /\ [Next]_vars =>
        [\A m \in tombstone : acks'[m] \cap {"discarded"} \subseteq acks[m]]_vars
  BY DiscardedStep
<1>2. QED
  BY <1>1, Invariant, PTL DEF Spec, AcceptedNotDiscarded
=============================================================================
