---------------------------- MODULE HandOverProofs ---------------------------
(***************************************************************************)
(* Proofs about Uplink: what is handed over, and what is recorded of it.   *)
(*                                                                         *)
(* A message that was handed to Codex is in one place, and one that was    *)
(* not is nowhere (PlaceInv): this is why the dispatcher's record may say  *)
(* whether it is handed over.  It rests on what the loop knows of its row  *)
(* (RowInv), on the response it waits for being its own and true           *)
(* (AnswerInv), and on the steps each way of delivery leaves out           *)
(* (ModeInv).                                                              *)
(*                                                                         *)
(* An item of a record is a line of the file, of the turn of the record    *)
(* (RecordInv), and the items grow along the file (LineInv): no two        *)
(* records share one.  The dispatcher changes a record only as RecordMove  *)
(* says.  A batch of the reader does so line by line, and AfterLine holds  *)
(* of what each line leaves.                                               *)
(***************************************************************************)
EXTENDS UplinkProofs

-----------------------------------------------------------------------------
(* The invariant.                                                          *)

\* Where a message is with Codex: asked for, in the queue, at the desktop, in
\* the file, in its last, incomplete line.
Pending(m) == {call \in asked \ served : call.method = "add" /\ call.msg = m}
InQueue(m) == {i \in DOMAIN queue : queue[i] = m}
Of(lines, m) == {i \in DOMAIN lines : lines[i].by = m}
InFile(m)  == Of(disk.lines, m)
InTail(m)  == disk.tail.by = m

Nowhere(m) == Pending(m) = {} /\ InQueue(m) = {} /\ m \notin desk /\ InFile(m) = {} /\ ~ InTail(m)
Arrived(m) == InQueue(m) # {} \/ InFile(m) # {} \/ InTail(m)

Single(S) == \A x, y \in S : x = y

\* It is in one place, and once.
Once(m) ==
  /\ Single(Pending(m)) /\ Single(InQueue(m)) /\ Single(InFile(m))
  /\ Pending(m) # {} => InQueue(m) = {} /\ m \notin desk /\ InFile(m) = {} /\ ~ InTail(m)
  /\ InQueue(m) # {} => m \notin desk /\ InFile(m) = {} /\ ~ InTail(m)
  /\ m \in desk => InFile(m) = {} /\ ~ InTail(m)
  /\ InFile(m) # {} => ~ InTail(m)

\* What each way of delivery leaves alone.
ModeInv ==
  /\ mode # "app_server" =>
       /\ asked = {} /\ queue = <<>>
       /\ main.pc \notin {"requirements", "add", "list", "drain", "resume"}
  /\ mode # "desktop" => desk = {}
  /\ mode # "desktop_relay" => relay.log = <<>> /\ relay.inbox = <<>> /\ main.pc # "relayed"
  /\ mode \in {"observe", "app_server"} => main.pc \notin {"snapshot", "submit", "relayed", "confirm"}
  /\ mode = "observe" => inbox = <<>>
  /\ mode # "observe" => disk.nth = 1

\* The record of the row the loop is at, and of those that follow.
RowInv ==
  /\ \A m \in main.rest : record[m].state = "none"
  /\ main.pc \in RowSteps => main.row \notin main.rest
  /\ main.pc = "requirements" => record[main.row].state = "none"
  /\ main.pc = "add" => record[main.row].state \in {"prepared", "bytes_sending"}
  /\ main.pc = "list" => record[main.row].state \in {"prepared", "bytes_sending", "outcome_unknown"}
  /\ main.pc = "snapshot" => record[main.row].state = "prepared"
  /\ main.pc \in {"submit", "relayed", "confirm"} => record[main.row].state = "bytes_sending"

\* Before the source is activated nothing is recorded.
FirstInv ==
  cursor = NoCursor =>
    /\ main.pc \in {"read", "down"} /\ mirrored = {}
    /\ \A m \in Messages : record[m].state = "none"

\* The lines of the file: whose they are, their turns, and their items in order.
GoodLine(line) ==
  /\ line.by # "codex" => line.type = "user"
  /\ line.type = "user" => line.turn > 0
  /\ line.type = "turn_context" => line.turn > 0
  /\ Visible(line) => line.item > 0
GoodLines(lines, n) ==
  \A i \in DOMAIN lines :
    /\ GoodLine(lines[i])
    /\ Visible(lines[i]) =>
         /\ lines[i].item <= n
         /\ \A j \in DOMAIN lines : Visible(lines[j]) /\ j < i => lines[j].item < lines[i].item
\* A turn that was started has its context.
Contexts(lines) ==
  \A i \in DOMAIN lines : lines[i].type = "task_started" =>
    \E j \in DOMAIN lines : lines[j].type = "turn_context"
LineInv ==
  /\ GoodLines(disk.lines, IF Visible(disk.tail) THEN written - 1 ELSE written)
  /\ GoodLine(disk.tail)
  /\ Contexts(disk.lines)

NotesInv == \A k \in DOMAIN notes : notes[k].turn > 0

\* What was not handed over is nowhere, what was is in one place.
Unsent(m) ==
  \/ record[m].state \in {"none", "prepared"}
  \/ main.pc = "submit" /\ main.row = m
PlaceInv ==
  mode # "desktop_relay" => \A m \in Messages : Once(m) /\ (Unsent(m) => Nowhere(m))

\* The request the loop waits for is its own; what was carried out is with
\* Codex, and what the response says is so.
AnswerInv ==
  /\ served \subseteq asked
  /\ waiting["main"] # Idle =>
       /\ waiting["main"].call.method = main.pc
       /\ main.pc # "resume" => waiting["main"].call.msg = main.row
  /\ \A call \in served : call.method = "add" /\ Arrived(call.msg)
  /\ mode = "app_server" =>
       \A c \in Callers :
         \/ waiting[c].call.method = "add" /\ waiting[c].reply = "ok"
         \/ waiting[c].call.method = "list" /\ waiting[c].reply = "found"
         => Arrived(waiting[c].call.msg)

\* The line a record stands for.
OfLine(r, m, j) ==
  /\ disk.lines[j].type = "user" /\ disk.lines[j].item = r.item /\ disk.lines[j].turn = r.turn
  /\ IF mode = "app_server" THEN disk.lines[j].by = m ELSE SameText(m, disk.lines[j].by)

Accepted(r) == r.state \in {"accepted", "completed"}
HandSteps == {"submit", "relayed", "confirm"}
RecordOf(m) ==
  /\ record[m].item = 0 <=> record[m].turn = 0
  /\ record[m].item # 0 =>
       /\ Accepted(record[m])
       /\ \E j \in DOMAIN disk.lines :
            /\ OfLine(record[m], m, j)
            /\ mode = "app_server" => cursor # NoCursor /\ j <= cursor.at
            /\ main.pc \in HandSteps => j <= main.size
  /\ Accepted(record[m]) =>
       IF mode = "app_server" THEN Arrived(m) ELSE record[m].item # 0
  /\ record[m].state = "completed" => record[m].item # 0
  /\ mode = "app_server" => record[m].request # "submitted"
RecordInv == \A m \in Messages : RecordOf(m)

HandInv ==
  /\ ModeInv /\ RowInv /\ FirstInv /\ LineInv /\ NotesInv /\ PlaceInv /\ AnswerInv /\ RecordInv
  /\ OneItemOneRecord /\ ReturnsAreKnown

-----------------------------------------------------------------------------
(* The lines of the file.                                                  *)

\* A file that grows by a good line.
LEMMA GoodAppend ==
  ASSUME NEW lines \in Seq(LineSet), NEW e \in LineSet, NEW n \in Nat, NEW k \in Nat,
         GoodLines(lines, n), GoodLine(e), n <= k, Visible(e) => n < e.item /\ e.item <= k
  PROVE  GoodLines(Append(lines, e), k) /\ Append(lines, e) \in Seq(LineSet)
<1> DEFINE both == Append(lines, e)
<1>1. /\ both \in Seq(LineSet) /\ Len(both) = Len(lines) + 1 /\ Len(lines) \in Nat
      /\ DOMAIN both = 1..(Len(lines) + 1) /\ DOMAIN lines = 1..Len(lines)
      /\ both[Len(lines) + 1] = e /\ \A i \in 1..Len(lines) : both[i] = lines[i]
  OBVIOUS
<1>2. \A i \in DOMAIN lines : lines[i].item \in Nat
  <2>1. \A i \in DOMAIN lines : lines[i] \in LineSet
    OBVIOUS
  <2> QED BY <2>1 DEF LineSet
<1>3. e.item \in Nat
  BY DEF LineSet
<1> HIDE DEF both
<1>4. ASSUME NEW i \in DOMAIN both
      PROVE  /\ GoodLine(both[i])
             /\ Visible(both[i]) =>
                  /\ both[i].item <= k
                  /\ \A j \in DOMAIN both : Visible(both[j]) /\ j < i => both[j].item < both[i].item
  <2>1. CASE i \in DOMAIN lines
    <3>1. both[i] = lines[i] /\ lines[i].item \in Nat
      BY <1>1, <1>2, <2>1
    <3>2. \A j \in DOMAIN both : j < i => j \in DOMAIN lines /\ both[j] = lines[j]
      BY <1>1, <2>1
    <3>3. GoodLine(lines[i]) /\ (Visible(lines[i]) => lines[i].item <= n)
          /\ (Visible(lines[i]) => \A j \in DOMAIN lines :
                Visible(lines[j]) /\ j < i => lines[j].item < lines[i].item)
      BY <2>1 DEF GoodLines
    <3>4. Visible(lines[i]) => lines[i].item <= k
      BY <3>1, <3>3
    <3> QED BY <3>1, <3>2, <3>3, <3>4
  <2>2. CASE i = Len(lines) + 1
    <3>1. both[i] = e
      BY <1>1, <2>2
    <3>2. ASSUME NEW j \in DOMAIN both, Visible(both[j]), j < i, Visible(e) PROVE both[j].item < e.item
      <4>1. j \in DOMAIN lines /\ both[j] = lines[j]
        BY <1>1, <2>2, <3>2
      <4>2. lines[j].item <= n /\ lines[j].item \in Nat
        BY <1>2, <3>2, <4>1 DEF GoodLines
      <4> QED BY <1>3, <3>2, <4>1, <4>2
    <3> QED BY <3>1, <3>2
  <2> QED BY <1>1, <2>1, <2>2
<1> QED BY <1>1, <1>4 DEF GoodLines, both

\* So do the contexts of its turns.
LEMMA ContextsAppend ==
  ASSUME NEW lines \in Seq(LineSet), NEW e \in LineSet,
         \/ Contexts(lines) /\ e.type # "task_started"
         \/ e.type = "turn_context"
  PROVE  Contexts(Append(lines, e))
<1> DEFINE both == Append(lines, e)
<1>1. /\ DOMAIN both = 1..(Len(lines) + 1) /\ DOMAIN lines = 1..Len(lines) /\ Len(lines) \in Nat
      /\ both[Len(lines) + 1] = e /\ \A i \in 1..Len(lines) : both[i] = lines[i]
  OBVIOUS
<1> HIDE DEF both
<1>2. CASE Contexts(lines) /\ e.type # "task_started"
  <2>1. ASSUME NEW i \in DOMAIN both, both[i].type = "task_started"
        PROVE  \E j \in DOMAIN both : both[j].type = "turn_context"
    <3>1. i \in DOMAIN lines /\ lines[i].type = "task_started"
      BY <1>1, <1>2, <2>1
    <3>2. PICK j \in DOMAIN lines : lines[j].type = "turn_context"
      BY <1>2, <3>1 DEF Contexts
    <3>3. j \in DOMAIN both /\ both[j] = lines[j]
      BY <1>1, <3>2
    <3> QED BY <3>2, <3>3
  <2> QED BY <2>1 DEF Contexts, both
<1>3. CASE e.type = "turn_context"
  <2>1. Len(lines) + 1 \in DOMAIN both
    BY <1>1
  <2> QED BY <1>1, <1>3, <2>1 DEF Contexts, both
<1> QED BY <1>2, <1>3

\* While a turn runs, the last turn_context is that of a turn.
LEMMA RunningTurn ==
  ASSUME RolloutTypes, LineInv, Running # {}
  PROVE  LastTurn \in Nat /\ LastTurn > 0
<1> DEFINE at == {i \in DOMAIN disk.lines : disk.lines[i].type = "turn_context"}
<1>0. disk.lines \in Seq(LineSet) /\ Len(disk.lines) \in Nat /\ DOMAIN disk.lines = 1..Len(disk.lines)
  BY DEF RolloutTypes
<1>1. \E l \in ToSet(disk.lines) : l.type = "task_started"
  BY DEF Running, ActiveOf
<1>2. PICK i \in DOMAIN disk.lines : disk.lines[i].type = "task_started"
  BY <1>1 DEF ToSet
<1>3. at \in SUBSET Nat /\ at # {} /\ \A j \in at : j <= Len(disk.lines)
  BY <1>0, <1>2 DEF LineInv, Contexts
<1>4. Max(at) \in at
  <2> HIDE DEF at
  <2> QED BY <1>0, <1>3, GreatestOf
<1>5. LastTurn = disk.lines[Max(at)].turn
  BY <1>3 DEF LastTurn, ContextOf
<1>6. GoodLine(disk.lines[Max(at)]) /\ disk.lines[Max(at)].type = "turn_context"
  <2> DEFINE j == Max(at)
  <2>1. j \in DOMAIN disk.lines /\ disk.lines[j].type = "turn_context"
    BY <1>4
  <2> HIDE DEF j
  <2>2. GoodLine(disk.lines[j])
    BY <2>1 DEF LineInv, GoodLines
  <2> QED BY <2>1, <2>2 DEF j
<1>7. LastTurn \in Nat
  BY <1>0, ContextTyped DEF LastTurn
<1> QED BY <1>5, <1>6, <1>7 DEF GoodLine

\* The lines stay good, whoever writes.
LEMMA LinesKept ==
  ASSUME RolloutTypes, TailInv, LineInv, RolloutStep
  PROVE  LineInv'
<1>0. /\ disk.lines \in Seq(LineSet) /\ written \in Nat /\ written + 1 \in Nat /\ disk.turns \in Nat
      /\ Contexts(disk.lines) /\ GoodLine(disk.tail) /\ NoLine \in LineSet
      /\ GoodLine(NoLine) /\ ~ Visible(NoLine)
      /\ disk.tail = NoLine => GoodLines(disk.lines, written)
  BY RolloutAssumption, LineTyped DEF RolloutTypes, LineInv, NoLine, Types, Owners, GoodLine, Visible
<1>1. ASSUME NEW lines \in Seq(LineSet), NEW e \in LineSet, NEW turns \in Nat,
             GoodLines(lines, written), Contexts(lines), GoodLine(e), Visible(e),
             e.item = written + 1, Grown(lines, e, turns), written' = written + 1
      PROVE  LineInv'
  <2>1. \/ disk'.lines = Append(lines, e) /\ disk'.tail = NoLine
        \/ disk'.lines = lines /\ disk'.tail = e
    BY <1>1, GrownTyped
  <2>2. GoodLines(Append(lines, e), written + 1)
    <3>1. written <= written + 1 /\ written < e.item /\ e.item <= written + 1
      BY <1>0, <1>1
    <3> QED BY <1>0, <1>1, <3>1, GoodAppend
  <2>3. Contexts(Append(lines, e))
    BY <1>1, ContextsAppend DEF Visible
  <2>4. written' - 1 = written
    BY <1>0, <1>1
  <2>5. CASE disk'.lines = Append(lines, e) /\ disk'.tail = NoLine
    BY <1>0, <1>1, <2>2, <2>3, <2>5 DEF LineInv
  <2>6. CASE disk'.lines = lines /\ disk'.tail = e
    BY <1>1, <2>4, <2>6 DEF LineInv
  <2> QED BY <2>1, <2>5, <2>6
\* A line that is not visible.
<1>2. ASSUME NEW lines \in Seq(LineSet), NEW e \in LineSet, GoodLines(lines, written),
             GoodLine(e), ~ Visible(e)
      PROVE  GoodLines(Append(lines, e), written) /\ Append(lines, e) \in Seq(LineSet)
  <2>1. written <= written
    BY <1>0
  <2> QED BY <1>0, <1>2, <2>1, GoodAppend
<1>3. ASSUME NEW by \in Messages \cup {"local"}, NEW partial \in BOOLEAN, WriteUser(by, partial)
      PROVE  LineInv'
  <2>1. PICK turn \in Nat :
           /\ UserItem(turn, by) \in LineSet
           /\ \/ /\ Running # {} /\ turn = LastTurn
                 /\ Grown(disk.lines, UserItem(turn, by), disk.turns)
              \/ /\ Running = {} /\ turn = disk.turns + 1 /\ Began(turn) \in Seq(LineSet)
                 /\ Grown(Began(turn), UserItem(turn, by), disk.turns + 1)
    BY <1>3, UserWritten
  <2>2. disk.tail = NoLine /\ written' = written + 1 /\ GoodLines(disk.lines, written)
    BY <1>0, <1>3 DEF WriteUser
  <2>3. turn > 0
    BY <1>0, <2>1, RunningTurn
  <2>4. Visible(UserItem(turn, by)) /\ GoodLine(UserItem(turn, by))
        /\ UserItem(turn, by).item = written + 1
    BY <1>0, <2>3 DEF UserItem, Line, GoodLine, Visible
  <2>5. CASE Grown(disk.lines, UserItem(turn, by), disk.turns)
    BY <1>0, <1>1, <2>1, <2>2, <2>4, <2>5
  <2>6. CASE Grown(Began(turn), UserItem(turn, by), disk.turns + 1)
    <3> DEFINE a == Line("task_started", turn, 0, "codex")
               b == Line("turn_context", turn, 0, "codex")
    <3>1. /\ a \in LineSet /\ b \in LineSet /\ GoodLine(a) /\ GoodLine(b)
          /\ ~ Visible(a) /\ ~ Visible(b) /\ b.type = "turn_context"
      BY <2>3, LineTyped DEF Types, Owners, GoodLine, Visible
    <3> HIDE DEF a, b
    <3>2. GoodLines(Append(disk.lines, a), written) /\ Append(disk.lines, a) \in Seq(LineSet)
      BY <1>0, <1>2, <2>2, <3>1
    <3>3. /\ GoodLines(Append(Append(disk.lines, a), b), written)
          /\ Append(Append(disk.lines, a), b) \in Seq(LineSet)
      BY <1>2, <3>1, <3>2
    <3>4. Contexts(Append(Append(disk.lines, a), b))
      BY <3>1, <3>2, ContextsAppend
    <3>5. Began(turn) = Append(Append(disk.lines, a), b)
      BY DEF Began, a, b
    <3>6. disk.turns + 1 \in Nat
      BY <1>0
    <3> QED BY <1>1, <2>1, <2>2, <2>4, <2>6, <3>3, <3>4, <3>5, <3>6
  <2> QED BY <2>1, <2>5, <2>6
<1>4. ASSUME NEW partial \in BOOLEAN, WriteAssistant(partial) PROVE LineInv'
  <2>1. /\ Preview \in LineSet /\ Assistant \in LineSet
        /\ Append(disk.lines, Preview) \in Seq(LineSet)
        /\ Grown(Append(disk.lines, Preview), Assistant, disk.turns)
    BY <1>4, AssistantWritten
  <2>2. disk.tail = NoLine /\ written' = written + 1 /\ GoodLines(disk.lines, written)
    BY <1>0, <1>4 DEF WriteAssistant
  <2>3. /\ GoodLine(Preview) /\ ~ Visible(Preview) /\ Preview.type # "task_started"
        /\ GoodLine(Assistant) /\ Visible(Assistant) /\ Assistant.item = written + 1
    BY <1>0 DEF Preview, Assistant, Line, GoodLine, Visible
  <2>4. GoodLines(Append(disk.lines, Preview), written)
    BY <1>0, <1>2, <2>1, <2>2, <2>3
  <2>5. Contexts(Append(disk.lines, Preview))
    BY <1>0, <2>1, <2>3, ContextsAppend
  <2> QED BY <1>0, <1>1, <2>1, <2>2, <2>3, <2>4, <2>5
<1>5. ASSUME NEW e \in LineSet, GoodLine(e), ~ Visible(e), e.type # "task_started",
             disk.tail = NoLine, written' = written,
             disk'.lines = Append(disk.lines, e), disk'.tail = NoLine
      PROVE  LineInv'
  <2>1. GoodLines(Append(disk.lines, e), written)
    BY <1>0, <1>2, <1>5
  <2>2. Contexts(Append(disk.lines, e))
    BY <1>0, <1>5, ContextsAppend
  <2> QED BY <1>0, <1>5, <2>1, <2>2 DEF LineInv
<1>6. CASE EndTurn
  <2>1. Ended \in LineSet /\ Ended.type = "task_complete" /\ Ended.by = "codex"
    <3>1. LastTurn \in Nat
      BY <1>0, ContextTyped DEF LastTurn
    <3> QED BY <3>1, LineTyped DEF Ended, Types, Owners
  <2>2. disk.tail = NoLine /\ Write(<<Ended>>, FALSE) /\ written' = written
    BY <1>6 DEF EndTurn, Ended
  <2>3. disk' = [disk EXCEPT !.lines = Append(@, Ended), !.tail = NoLine]
    BY <2>1, <2>2, LineWritten
  <2>4. disk'.lines = Append(disk.lines, Ended) /\ disk'.tail = NoLine
    BY <2>3 DEF RolloutTypes
  <2> QED BY <1>5, <2>1, <2>2, <2>4 DEF GoodLine, Visible
<1>7. CASE WriteBlank
  <2>1. Blank \in LineSet /\ Blank.type = "blank" /\ Blank.by = "codex"
    BY LineTyped DEF Blank, Types, Owners
  <2>2. disk.tail = NoLine /\ Write(<<Blank>>, FALSE) /\ written' = written
    BY <1>7 DEF WriteBlank
  <2>3. disk' = [disk EXCEPT !.lines = Append(@, Blank), !.tail = NoLine]
    BY <2>1, <2>2, LineWritten
  <2>4. disk'.lines = Append(disk.lines, Blank) /\ disk'.tail = NoLine
    BY <2>3 DEF RolloutTypes
  <2> QED BY <1>5, <2>1, <2>2, <2>4 DEF GoodLine, Visible
<1>8. CASE CompleteLine
  <2>1. /\ disk.tail # NoLine /\ written' = written
        /\ disk' = [disk EXCEPT !.lines = Append(@, disk.tail), !.tail = NoLine]
    BY <1>8 DEF CompleteLine
  <2>2. disk'.lines = Append(disk.lines, disk.tail) /\ disk'.tail = NoLine
    BY <2>1 DEF RolloutTypes
  <2>3. /\ Visible(disk.tail) /\ disk.tail.item = written /\ written > 0 /\ disk.tail \in LineSet
        /\ disk.tail.type # "task_started"
    BY <2>1 DEF TailInv, Visible, RolloutTypes
  <2>4. GoodLines(Append(disk.lines, disk.tail), written)
    <3>1. written - 1 \in Nat /\ written - 1 <= written /\ written - 1 < disk.tail.item
          /\ disk.tail.item <= written
      BY <1>0, <2>3
    <3>2. GoodLines(disk.lines, written - 1)
      BY <2>3 DEF LineInv
    <3> QED BY <1>0, <2>3, <3>1, <3>2, GoodAppend
  <2>5. Contexts(Append(disk.lines, disk.tail))
    BY <1>0, <2>3, ContextsAppend
  <2> QED BY <1>0, <2>1, <2>2, <2>4, <2>5 DEF LineInv
<1>9. CASE ReplaceFile
  <2>1. disk'.lines = <<Meta>> /\ disk'.tail = NoLine /\ written' = written
    BY <1>9 DEF ReplaceFile
  <2>2. Meta.type = "session_meta" /\ Meta.by = "codex"
    BY DEF Meta, Line
  <2>3. DOMAIN <<Meta>> = {1} /\ <<Meta>>[1] = Meta
    OBVIOUS
  <2>4. GoodLines(<<Meta>>, written) /\ Contexts(<<Meta>>)
    BY <2>2, <2>3 DEF GoodLines, Contexts, GoodLine, Visible
  <2> QED BY <1>0, <2>1, <2>4 DEF LineInv
<1>10. CASE UNCHANGED <<disk, written>>
  BY <1>10 DEF LineInv
<1> QED
  BY <1>3, <1>4, <1>6, <1>7, <1>8, <1>9, <1>10
  DEF RolloutStep, Checkpoint, Commit, ForgetCache, rolloutVars

-----------------------------------------------------------------------------
(* The simple parts of the invariant.                                      *)

\* Where the loop goes from where it is.
Moves(from, to) == main.pc = from /\ main'.pc \in to
PcStep ==
  \/ main' = main
  \/ Moves("read", IF mode = "app_server" THEN {"drain"} ELSE {"input"})
  \/ main'.pc = "down" \/ Moves("down", {"read"})
  \/ Moves("drain", {"input", "resume"}) \/ Moves("resume", {"drain"})
  \/ Moves("input", {"row", "read"}) \/ Moves("row", {"row", "read"})
  \/ Moves("row", IF mode = "app_server" THEN {"requirements"} ELSE {"snapshot"})
  \/ Moves("requirements", {"row", "read", "add"})
  \/ Moves("add", {"row", "read", "list"}) \/ Moves("list", {"row", "read"})
  \/ Moves("snapshot", {"submit"})
  \/ Moves("submit", IF mode = "desktop_relay" THEN {"relayed"} ELSE {"confirm", "row", "read"})
  \/ Moves("relayed", {"confirm", "row", "read"}) \/ Moves("confirm", {"row", "read"})

\* The main loop goes on as PcStep says, and the way of delivery stays.
LEMMA PcSteps ==
  ASSUME TypeInv, [Next]_vars
  PROVE  PcStep /\ mode' = mode
<1>0. main \in MainSet
  BY DEF TypeInv, BridgeTypes
<1>1. /\ \A rest : Rest(rest).pc \in {"row", "read"}
      /\ NextRow.pc \in {"row", "read"}
      /\ AfterRead.pc = IF mode = "app_server" THEN "drain" ELSE "input"
      /\ Loop("down").pc = "down" /\ Loop("read").pc = "read" /\ Loop("input").pc = "input"
      /\ \A pc : Go(pc) => main'.pc = pc
      /\ \A m, pc : Prepare(m, pc) => main'.pc = pc
      /\ \A m : DeferRow(m) => main'.pc \in {"row", "read"}
      /\ \A m, turn, item : Accept(m, turn, item) => main'.pc \in {"row", "read"}
  <2>1. /\ \A rest : Rest(rest).pc \in {"row", "read"}
        /\ AfterRead.pc = IF mode = "app_server" THEN "drain" ELSE "input"
        /\ Loop("down").pc = "down" /\ Loop("read").pc = "read" /\ Loop("input").pc = "input"
    BY DEF Rest, Loop, AfterRead
  <2>2. NextRow.pc \in {"row", "read"}
    BY <2>1 DEF NextRow
  <2>3. /\ \A pc : Go(pc) => main'.pc = pc
        /\ \A m, pc : Prepare(m, pc) => main'.pc = pc
    BY <1>0 DEF Go, Prepare, MainSet
  <2> QED BY <2>1, <2>2, <2>3 DEF DeferRow, Accept
<1>2. mode' = mode
  BY DEF Next, vars, MainStep, AppServerStep, DesktopStep, CodexStep, Time, Receive, GrowOld, Release,
     Activate, Ingest, RefuseSource, Die, Select, Row, AskRequirements, NoRequirements, GotRequirements,
     AskAdd, NoAdd, GotAdd, AskList, NoList, GotList, DrainNote, Drained, AskResume, GotResume,
     ResumeRaises, Snapshot, Submit, FindRelay, MissRelay, FindTurn, GiveUp, Enqueue, QueueLocal,
     TakeQueued, FinishTurn, Writes, TakeSubmission, TakeInstruction, Delegate, Respond, EndOfOutput,
     Impatience, AskTitle, GotTitle, Crash, Start
<1> USE DEF PcStep, Moves, At
<1>3. CASE Activate \/ Ingest
  BY <1>1, <1>3 DEF Activate, Ingest
<1>4. CASE RefuseSource \/ ResumeRaises \/ Crash
  BY <1>1, <1>4 DEF RefuseSource, ResumeRaises, Crash, Die, Down
<1>5. CASE Start
  BY <1>1, <1>5 DEF Start
<1>6. CASE Select \/ Drained
  BY <1>1, <1>6 DEF Select, Drained
<1>7. CASE Row
  <2>1. PICK m : ExpireRow(m) \/ RefuseRow(m) \/ TakeRow(m)
    BY <1>7 DEF Row
  <2>2. main.pc = "row"
    BY <1>7 DEF Row
  <2>3. CASE ExpireRow(m) \/ RefuseRow(m)
    <3>1. main' = Rest(main.rest \ {m})
      BY <2>3 DEF ExpireRow, RefuseRow
    <3>2. main'.pc \in {"row", "read"}
      BY <3>1 DEF Rest, Loop
    <3> QED BY <1>2, <2>2, <3>2
  <2>4. CASE TakeRow(m)
    <3>1. CASE mode = "app_server"
      <4>1. main' = [main EXCEPT !.pc = "requirements", !.row = m, !.rest = @ \ {m}]
        BY <2>4, <3>1 DEF TakeRow
      <4>2. main'.pc = "requirements"
        BY <1>0, <4>1 DEF MainSet
      <4> QED BY <1>2, <2>2, <3>1, <4>2
    <3>2. CASE mode # "app_server"
      <4>1. main' = [main EXCEPT !.pc = "snapshot", !.row = m, !.rest = @ \ {m}]
        BY <2>4, <3>2 DEF TakeRow, Prepare
      <4>2. main'.pc = "snapshot"
        BY <1>0, <4>1 DEF MainSet
      <4> QED BY <1>2, <2>2, <3>2, <4>2
    <3> QED BY <3>1, <3>2
  <2> QED BY <2>1, <2>3, <2>4
<1>8. CASE NoRequirements \/ GotRequirements
  <2>1. main.pc = "requirements" /\ (DeferRow(row) \/ Prepare(row, "add"))
    BY <1>8 DEF NoRequirements, GotRequirements
  <2>2. DeferRow(row) => main'.pc \in {"row", "read"}
    BY <1>1
  <2>3. Prepare(row, "add") => main'.pc = "add"
    BY <1>1
  <2> QED BY <1>2, <2>1, <2>2, <2>3
<1>9. CASE NoAdd \/ GotAdd \/ NoList \/ GotList
  BY <1>1, <1>9 DEF NoAdd, GotAdd, NoList, GotList
<1>10. CASE DrainNote \/ GotResume
  BY <1>1, <1>10 DEF DrainNote, GotResume
<1>11. CASE DesktopStep
  <2>1. CASE Snapshot
    BY <1>0, <2>1 DEF Snapshot, MainSet
  <2>2. CASE Submit
    BY <1>1, <2>2 DEF Submit
  <2>3. CASE FindRelay \/ MissRelay \/ FindTurn \/ GiveUp
    BY <1>1, <2>3 DEF FindRelay, MissRelay, FindTurn, GiveUp
  <2> QED BY <1>11, <2>1, <2>2, <2>3 DEF DesktopStep
<1>12. CASE CodexStep \/ Time \/ (\E m \in Messages : Receive(m)) \/ UNCHANGED vars
  BY <1>12 DEF CodexStep, Enqueue, QueueLocal, TakeQueued, FinishTurn, Writes, TakeSubmission,
     TakeInstruction, Delegate, Time, GrowOld, Release, Receive, vars, bridgeVars
<1>13. CASE Respond \/ EndOfOutput \/ Impatience \/ AskTitle \/ GotTitle
            \/ AskRequirements \/ AskAdd \/ AskList \/ AskResume
  BY <1>13 DEF Respond, EndOfOutput, Impatience, AskTitle, GotTitle, AskRequirements, AskAdd, AskList,
     AskResume, bridgeVars
<1> QED
  BY <1>2, <1>3, <1>4, <1>5, <1>6, <1>7, <1>8, <1>9, <1>10, <1>11, <1>12, <1>13
  DEF Next, MainStep, AppServerStep

\* The variables of the connection and of Codex, and who changes them.
LEMMA CodexMoves ==
  ASSUME TypeInv, [Next]_vars
  PROVE  /\ \/ asked' \subseteq asked
            \/ main' = main /\ main.pc \in {"requirements", "add", "list", "resume"}
         /\ queue' = queue \/ Enqueue \/ QueueLocal \/ TakeQueued
         /\ desk' = desk \/ Submit \/ TakeSubmission
         /\ relay' = relay \/ Submit \/ TakeInstruction \/ Delegate
         /\ inbox' = inbox \/ \E m \in Messages : Receive(m)
<1>1. CASE Activate \/ Ingest \/ Select \/ Row \/ Start \/ Time \/ Writes \/ FinishTurn
           \/ NoRequirements \/ GotRequirements \/ NoAdd \/ GotAdd
           \/ NoList \/ GotList \/ DrainNote \/ Drained \/ GotResume
  BY <1>1 DEF Activate, Ingest, Select, Row, Start, Time, GrowOld, Release, Writes, FinishTurn,
     NoRequirements, GotRequirements, NoAdd, GotAdd, NoList, GotList, DrainNote,
     Drained, GotResume, connectionVars, codexVars, bridgeVars
<1>2. CASE AskRequirements \/ AskAdd \/ AskList \/ AskResume \/ AskTitle
  BY <1>2 DEF AskRequirements, AskAdd, AskList, AskResume, AskTitle, codexVars, bridgeVars, At
<1>3. CASE RefuseSource \/ ResumeRaises \/ Crash
  BY <1>3 DEF RefuseSource, ResumeRaises, Crash, Die, Reconnect
<1>4. CASE Respond \/ EndOfOutput \/ Impatience \/ GotTitle
  BY <1>4 DEF Respond, Answer, DropLate, RejectAnswer, Resolve, EndOfOutput, CloseOutput, Impatience,
     TimeOut, Expire, GotTitle, codexVars, bridgeVars
<1>5. CASE Snapshot \/ FindRelay \/ MissRelay \/ FindTurn \/ GiveUp \/ UNCHANGED vars
           \/ \E m \in Messages : Receive(m)
  BY <1>5 DEF Snapshot, FindRelay, MissRelay, FindTurn, GiveUp, Receive, vars, connectionVars, codexVars,
     bridgeVars
<1>6. CASE Enqueue \/ QueueLocal \/ TakeQueued \/ TakeSubmission \/ TakeInstruction \/ Delegate
           \/ Submit
  BY <1>6 DEF Enqueue, Serve, QueueLocal, TakeQueued, TakeSubmission, TakeInstruction, Delegate, Submit,
     connectionVars, bridgeVars, codexVars
<1> QED
  BY <1>1, <1>2, <1>3, <1>4, <1>5, <1>6
  DEF Next, MainStep, AppServerStep, DesktopStep, CodexStep

\* What a way of delivery leaves alone stays so.
LEMMA ModeKept ==
  ASSUME TypeInv, ModeInv, [Next]_vars
  PROVE  ModeInv'
<1>0. /\ mode \in {"observe", "app_server", "desktop", "desktop_relay"}
      /\ \A m \in Messages : m \in Sent[mode] => mode # "observe"
      /\ mode = "observe" => main.pc \notin RowSteps \cup {"row"}
  <2>1. mode \in {"observe", "app_server", "desktop", "desktop_relay"}
        /\ \A m \in Messages : m \in Sent[mode] => mode # "observe"
    BY UplinkAssumption DEF TypeInv, BridgeTypes
  <2>2. inbox = <<>> => ToSet(inbox) = {}
    BY DEF ToSet
  <2>3. mode = "observe" => main.pc \notin RowSteps \cup {"row"}
    BY <2>2 DEF ModeInv, TypeInv, InboxInv, RowSteps
  <2> QED BY <2>1, <2>3
<1>1. PcStep /\ mode' = mode
  BY PcSteps
<1>2. mode # "app_server" =>
        /\ asked' = {} /\ queue' = <<>>
        /\ main'.pc \notin {"requirements", "add", "list", "drain", "resume"}
  <2> SUFFICES ASSUME mode # "app_server"
               PROVE  /\ asked' = {} /\ queue' = <<>>
                      /\ main'.pc \notin {"requirements", "add", "list", "drain", "resume"}
    OBVIOUS
  <2>1. asked' = {}
    BY CodexMoves DEF ModeInv
  <2>2. queue' = <<>>
    BY CodexMoves DEF ModeInv, Enqueue, QueueLocal, TakeQueued
  <2>3. main'.pc \notin {"requirements", "add", "list", "drain", "resume"}
    BY <1>1 DEF ModeInv, PcStep, Moves
  <2> QED BY <2>1, <2>2, <2>3
<1>3. mode # "desktop" => desk' = {}
  BY CodexMoves DEF ModeInv, Submit, Taken, TakeSubmission
<1>4. mode # "desktop_relay" =>
        relay'.log = <<>> /\ relay'.inbox = <<>> /\ main'.pc # "relayed"
  <2> SUFFICES ASSUME mode # "desktop_relay"
               PROVE  relay'.log = <<>> /\ relay'.inbox = <<>> /\ main'.pc # "relayed"
    OBVIOUS
  <2>1. relay.done \in Nat /\ Len(<<>>) = 0
    BY DEF TypeInv, CodexTypes
  <2>2. ~ Delegate /\ ~ TakeInstruction
    BY <2>1 DEF ModeInv, Delegate, TakeInstruction
  <2>3. Submit => UNCHANGED relay
    BY <1>0 DEF ModeInv, Submit, Taken, At
  <2>4. relay' = relay
    BY <2>2, <2>3, CodexMoves
  <2>5. main'.pc # "relayed"
    BY <1>1 DEF ModeInv, PcStep, Moves
  <2> QED BY <2>4, <2>5 DEF ModeInv
<1>5. mode \in {"observe", "app_server"} =>
        main'.pc \notin {"snapshot", "submit", "relayed", "confirm"}
  BY <1>0, <1>1 DEF ModeInv, PcStep, Moves
<1>6. mode = "observe" => inbox' = <<>>
  BY <1>0, CodexMoves DEF ModeInv, Receive
<1>7. mode # "observe" => disk'.nth = 1
  <2>1. RolloutTypes /\ TailInv /\ (WriterStep \/ ReaderStep)
    BY RolloutSteps, WriterAndReader DEF TypeInv
  <2>2. ReaderStep => disk' = disk
    BY DEF ReaderStep, Checkpoint, Commit, ForgetCache, rolloutVars
  <2> QED BY <2>1, <2>2, WriterExtends DEF ModeInv
<1> QED BY <1>1, <1>2, <1>3, <1>4, <1>5, <1>6, <1>7 DEF ModeInv

\* The records of the rows of a pass stay what they were selected for.
LEMMA RowKept ==
  ASSUME TypeInv, RowInv, [Next]_vars
  PROVE  RowInv'
<1>0. /\ main \in MainSet /\ main.rest \subseteq ToSet(inbox) /\ row = main.row
      /\ record \in [Messages -> RecordSet] /\ main.rest \subseteq Messages
      /\ main.pc \in RowSteps => row \in Messages
      /\ NoRecord.state = "none"
  BY DEF TypeInv, BridgeTypes, MainSet, InboxInv, ToSet, RowSteps, row, NoRecord
<1>1. ASSUME main'.pc \notin RowSteps, \A n \in main'.rest : record'[n].state = "none"
      PROVE  RowInv'
  BY <1>1 DEF RowInv, RowSteps
<1>2. ASSUME NEW pc \in {"down", "read", "drain", "input"}, main' = Loop(pc) PROVE RowInv'
  <2>1. main'.rest = {} /\ main'.pc = pc
    BY <1>2 DEF Loop
  <2> QED BY <1>1, <2>1 DEF RowSteps
<1>3. ASSUME NEW rest, main' = Rest(rest), \A n \in rest : record'[n].state = "none" PROVE RowInv'
  <2>1. main'.rest = rest /\ main'.pc \notin RowSteps
    BY <1>3 DEF Rest, Loop, RowSteps
  <2> QED BY <1>1, <1>3, <2>1
\* Only the record of the row changes, or none.
<1>4. ASSUME main.pc \in RowSteps, \A n \in Messages : n # row => record'[n] = record[n]
      PROVE  /\ \A n \in main.rest : record'[n].state = "none"
             /\ main' = NextRow => RowInv'
  <2>1. \A n \in main.rest : record'[n].state = "none"
    BY <1>0, <1>4 DEF RowInv
  <2> QED BY <1>3, <2>1 DEF NextRow
<1>5. /\ \A m, s : SetState(m, s) => \A n \in Messages : n # m => record'[n] = record[n]
      /\ \A m, turn, item : Accept(m, turn, item) =>
           main' = NextRow /\ \A n \in Messages : n # m => record'[n] = record[n]
  BY <1>0 DEF SetState, Accept
<1>6. CASE UNCHANGED <<main, record>>
  BY <1>6 DEF RowInv, RowSteps
<1>7. CASE Activate \/ Ingest \/ RefuseSource \/ ResumeRaises \/ Crash \/ Start \/ Drained
  BY <1>2, <1>7 DEF Activate, Ingest, AfterRead, RefuseSource, ResumeRaises, Crash, Die, Down, Start,
     Drained
<1>8. CASE Select
  <2> DEFINE todo == {m \in Messages \ {n \in Messages : Expiring(n)} : Eligible(m)}
  <2>1. main' = Rest(todo) /\ record' = record
    BY <1>8 DEF Select
  <2>2. \A n \in todo : record[n].state = "none"
    BY DEF Eligible
  <2> HIDE DEF todo
  <2> QED BY <1>3, <2>1, <2>2
<1>9. CASE Row
  <2> DEFINE m == First(main.rest)
  <2>1. m \in main.rest
    BY <1>0, <1>9, FirstIn DEF Row, At, InboxInv, TypeInv
  <2>2. ExpireRow(m) \/ RefuseRow(m) \/ TakeRow(m)
    BY <1>9 DEF Row
  <2> HIDE DEF m
  <2>3. CASE ExpireRow(m) \/ RefuseRow(m)
    <3>1. main' = Rest(main.rest \ {m}) /\ record' = record
      BY <2>3 DEF ExpireRow, RefuseRow
    <3> QED BY <1>3, <3>1 DEF RowInv
  <2>4. CASE TakeRow(m)
    <3>1. /\ \E pc \in {"requirements", "snapshot"} :
               /\ main' = [main EXCEPT !.pc = pc, !.row = m, !.rest = @ \ {m}]
               /\ \/ pc = "requirements" /\ record' = record
                  \/ /\ pc = "snapshot"
                     /\ record' = [record EXCEPT ![m] = [NoRecord EXCEPT !.state = "prepared", !.made = Made]]
      BY <2>4 DEF TakeRow, Prepare
    <3>2. PICK pc \in {"requirements", "snapshot"} :
               /\ main' = [main EXCEPT !.pc = pc, !.row = m, !.rest = @ \ {m}]
               /\ \/ pc = "requirements" /\ record' = record
                  \/ /\ pc = "snapshot"
                     /\ record' = [record EXCEPT ![m] = [NoRecord EXCEPT !.state = "prepared", !.made = Made]]
      BY <3>1
    <3>3. main'.pc = pc /\ main'.row = m /\ main'.rest = main.rest \ {m}
      BY <1>0, <3>2 DEF MainSet
    <3>4. \A n \in main'.rest : record'[n] = record[n]
      BY <1>0, <3>2, <3>3
    <3>5. pc = "snapshot" => record'[m].state = "prepared"
      BY <1>0, <2>1, <3>2 DEF NoRecord
    <3> QED BY <2>1, <3>2, <3>3, <3>4, <3>5 DEF RowInv, RowSteps
  <2> QED BY <2>2, <2>3, <2>4
<1>10. CASE NoRequirements \/ NoList
  BY <1>4, <1>10 DEF NoRequirements, NoList, DeferRow, At, RowSteps
<1>11. CASE GotRequirements
  <2>1. main.pc = "requirements"
    BY <1>11 DEF GotRequirements, At
  <2>2. CASE DeferRow(row) /\ UNCHANGED record
    BY <1>4, <2>1, <2>2 DEF DeferRow, RowSteps
  <2>3. CASE Prepare(row, "add")
    <3>1. /\ record' = [record EXCEPT ![row] = [NoRecord EXCEPT !.state = "prepared", !.made = Made]]
          /\ main' = [main EXCEPT !.pc = "add", !.row = row, !.rest = @ \ {row}]
      BY <2>3 DEF Prepare
    <3>2. main'.pc = "add" /\ main'.row = row /\ main'.rest = main.rest \ {row}
      BY <1>0, <3>1 DEF MainSet
    <3>3. \A n \in main'.rest : record'[n] = record[n]
      BY <1>0, <3>1, <3>2
    <3>4. record'[row].state = "prepared"
      BY <1>0, <2>1, <3>1 DEF NoRecord, RowSteps
    <3> QED BY <3>2, <3>3, <3>4 DEF RowInv, RowSteps
  <2> QED BY <1>11, <2>2, <2>3 DEF GotRequirements
<1>12. CASE AskAdd
  <2>1. main.pc = "add" /\ main' = main
        /\ record' = [record EXCEPT ![row].state = "bytes_sending", ![row].request = "rpc"]
    BY <1>12 DEF AskAdd, At
  <2>2. record'[row].state = "bytes_sending" /\ \A n \in Messages : n # row => record'[n] = record[n]
    BY <1>0, <2>1 DEF RowSteps, RecordSet
  <2>3. \A n \in main.rest : record'[n].state = "none"
    BY <1>4, <2>1, <2>2 DEF RowSteps
  <2> QED BY <1>0, <2>1, <2>2, <2>3 DEF RowInv, RowSteps
\* The loop goes on with the same row.
<1>13. ASSUME main.pc \in RowSteps, NEW pc, Go(pc), NEW s, record'[row].state = s,
              \A n \in Messages : n # row => record'[n] = record[n],
              \/ pc = "list" /\ s \in {"prepared", "bytes_sending", "outcome_unknown"}
              \/ pc \in {"relayed", "confirm"} /\ s = "bytes_sending"
       PROVE  RowInv'
  <2>1. main'.pc = pc /\ main'.row = row /\ main'.rest = main.rest
    BY <1>0, <1>13 DEF Go, MainSet
  <2>2. \A n \in main.rest : record'[n].state = "none"
    BY <1>4, <1>13
  <2> QED BY <1>0, <1>13, <2>1, <2>2 DEF RowInv, RowSteps
<1>14. CASE NoAdd
  <2>1. main.pc = "add" /\ record' = record /\ Go("list")
    BY <1>14 DEF NoAdd, At
  <2> QED BY <1>0, <1>13, <2>1 DEF RowInv, RowSteps
<1>15. CASE GotAdd
  <2>1. main.pc = "add"
    BY <1>15 DEF GotAdd, At
  <2>2. CASE Accept(row, record[row].turn, record[row].item)
    BY <1>4, <1>5, <2>1, <2>2 DEF RowSteps
  <2>3. CASE SetState(row, "outcome_unknown") /\ Go("list")
    <3>1. record'[row].state = "outcome_unknown"
      BY <1>0, <2>1, <2>3 DEF SetState, RowSteps, RecordSet
    <3> QED BY <1>5, <1>13, <2>1, <2>3, <3>1 DEF RowSteps
  <2> QED BY <1>15, <2>2, <2>3 DEF GotAdd
<1>16. CASE GotList
  <2>1. main.pc = "list"
    BY <1>16 DEF GotList, At
  <2>2. CASE Accept(row, record[row].turn, record[row].item)
    BY <1>4, <1>5, <2>1, <2>2 DEF RowSteps
  <2>3. CASE main' = NextRow /\ record' = record
    BY <1>4, <2>1, <2>3 DEF RowSteps
  <2> QED BY <1>16, <2>2, <2>3 DEF GotList
<1>17. CASE DrainNote
  <2>1. main.pc = "drain" /\ (main' = main \/ Go("resume"))
    BY <1>17 DEF DrainNote, At
  <2>2. main'.rest = main.rest /\ main'.pc \notin RowSteps
    BY <1>0, <2>1 DEF Go, MainSet, RowSteps
  <2>3. \A n \in Messages : record[n].state = "none" => record'[n] = record[n]
    <3> DEFINE own == {m \in Messages : record[m].state = "accepted" /\ record[m].turn = Head(notes).turn}
    <3>1. CASE own = {}
      BY <1>17, <3>1 DEF DrainNote
    <3>2. CASE own # {}
      <4>1. PICK m \in own : SetState(m, "completed")
        BY <1>17, <3>2 DEF DrainNote
      <4>2. \A n \in Messages : n # m => record'[n] = record[n]
        BY <1>5, <4>1
      <4> QED BY <4>1, <4>2
    <3> QED BY <3>1, <3>2
  <2> QED BY <1>0, <1>1, <2>2, <2>3 DEF RowInv
<1>18. CASE GotResume
  <2>1. Go("drain") /\ record' = record
    BY <1>18 DEF GotResume
  <2>2. main'.rest = main.rest /\ main'.pc \notin RowSteps
    BY <1>0, <2>1 DEF Go, MainSet, RowSteps
  <2> QED BY <1>0, <1>1, <2>1, <2>2 DEF RowInv
<1>19. CASE Snapshot
  <2>1. /\ main.pc = "snapshot"
        /\ record' = [record EXCEPT ![row].state = "bytes_sending", ![row].request = "ui"]
        /\ main' = [main EXCEPT !.pc = "submit", !.size = FileSize, !.relaySize = Len(relay.log)]
    BY <1>19 DEF Snapshot, At
  <2>2. record'[row].state = "bytes_sending" /\ \A n \in Messages : n # row => record'[n] = record[n]
    BY <1>0, <2>1 DEF RowSteps, RecordSet
  <2>3. \A n \in main.rest : record'[n].state = "none"
    BY <1>4, <2>1, <2>2 DEF RowSteps
  <2>4. main'.pc = "submit" /\ main'.row = row /\ main'.rest = main.rest
    BY <1>0, <2>1 DEF MainSet
  <2> QED BY <1>0, <2>1, <2>2, <2>3, <2>4 DEF RowInv, RowSteps
<1>20. CASE Submit \/ FindRelay
  <2>1. main.pc \in {"submit", "relayed"} /\ main.pc \in RowSteps
    BY <1>20 DEF Submit, FindRelay, At, RowSteps
  <2>2. record[row].state = "bytes_sending"
    BY <1>0, <2>1 DEF RowInv
  <2>3. CASE Go("relayed") /\ UNCHANGED record
    BY <1>13, <2>1, <2>2, <2>3
  <2>4. CASE record' = [record EXCEPT ![row].request = "submitted"] /\ Go("confirm")
    <3>1. record'[row].state = "bytes_sending" /\ \A n \in Messages : n # row => record'[n] = record[n]
      BY <1>0, <2>1, <2>2, <2>4 DEF RecordSet
    <3> QED BY <1>13, <2>1, <2>4, <3>1
  <2>5. CASE SetState(row, "outcome_unknown") /\ main' = NextRow
    BY <1>4, <1>5, <2>1, <2>5
  <2> QED BY <1>20, <2>3, <2>4, <2>5 DEF Submit, FindRelay
<1>21. CASE MissRelay
  <2>1. main.pc \in RowSteps /\ main' = NextRow /\ record' = [record EXCEPT ![row] = NoRecord]
    BY <1>21 DEF MissRelay, At, DeferRow, RowSteps
  <2> QED BY <1>0, <1>4, <2>1
<1>22. CASE FindTurn
  <2>1. main.pc \in RowSteps /\ \E turn, item : Accept(row, turn, item)
    BY <1>22 DEF FindTurn, At, RowSteps
  <2> QED BY <1>4, <1>5, <2>1
<1>23. CASE GiveUp
  <2>1. main.pc \in RowSteps /\ main' = NextRow /\ SetState(row, "outcome_unknown")
    BY <1>23 DEF GiveUp, At, RowSteps
  <2> QED BY <1>4, <1>5, <2>1
<1>24. CASE CodexStep \/ Time \/ (\E m \in Messages : Receive(m)) \/ UNCHANGED vars
  BY <1>6, <1>24 DEF CodexStep, Enqueue, QueueLocal, TakeQueued, FinishTurn, Writes, TakeSubmission,
     TakeInstruction, Delegate, Time, GrowOld, Release, Receive, vars, bridgeVars
<1>25. CASE Respond \/ EndOfOutput \/ Impatience \/ AskTitle \/ GotTitle
            \/ AskRequirements \/ AskList \/ AskResume
  BY <1>6, <1>25 DEF Respond, EndOfOutput, Impatience, AskTitle, GotTitle, AskRequirements, AskList,
     AskResume, bridgeVars
<1> QED
  BY <1>7, <1>8, <1>9, <1>10, <1>11, <1>12, <1>14, <1>15, <1>16, <1>17, <1>18, <1>19, <1>20, <1>21,
     <1>22, <1>23, <1>24, <1>25
  DEF Next, MainStep, AppServerStep, DesktopStep


\* Nothing is recorded before the source is activated.
LEMMA FirstKept ==
  ASSUME TypeInv, FirstInv, [Next]_vars
  PROVE  FirstInv'
<1> SUFFICES ASSUME cursor' = NoCursor
             PROVE  /\ main'.pc \in {"read", "down"} /\ mirrored' = {}
                    /\ \A m \in Messages : record'[m].state = "none"
  BY DEF FirstInv
<1>0. disk.id # 0 /\ NoCursor.id = 0
  BY DEF TypeInv, FileInv, RolloutTypes, NoCursor
<1>1. cursor' = cursor
  <2>1. RolloutTypes /\ TailInv /\ (WriterStep \/ ReaderStep)
    BY RolloutSteps, WriterAndReader DEF TypeInv
  <2>2. WriterStep => cursor' = cursor
    BY <2>1, WriterExtends
  <2>3. ASSUME NEW at, cursor' = Batch(at).cursor PROVE FALSE
    BY <1>0, <2>3 DEF Batch
  <2> QED BY <2>1, <2>2, <2>3 DEF ReaderStep, Checkpoint, Commit, ForgetCache, rolloutVars
<1>2. /\ main.pc \in {"read", "down"} /\ mirrored = {}
      /\ \A m \in Messages : record[m].state = "none"
  BY <1>1 DEF FirstInv
<1>3. CASE UNCHANGED <<main, mirrored, record>>
  BY <1>2, <1>3
<1>4. CASE MainStep \/ AskTitle
  <2>1. Activate \/ Ingest \/ RefuseSource
    BY <1>2, <1>4 DEF MainStep, AppServerStep, DesktopStep, Select, Row, AskRequirements, NoRequirements,
       GotRequirements, AskAdd, NoAdd, GotAdd, AskList, NoList, GotList, DrainNote, Drained, AskResume,
       GotResume, ResumeRaises, Snapshot, Submit, FindRelay, MissRelay, FindTurn, GiveUp, AskTitle, At
  <2>2. Ingest \/ RefuseSource => cursor # NoCursor
    BY DEF Ingest, RefuseSource
  <2>3. Activate => cursor' = Batch(0).cursor
    BY DEF Activate, Checkpoint
  <2>4. cursor' # Batch(0).cursor
    BY <1>0 DEF Batch
  <2> QED BY <1>1, <2>1, <2>2, <2>3, <2>4
<1>5. CASE Crash \/ Start
  BY <1>2, <1>5 DEF Crash, Start, Die, Down, Loop
<1>6. CASE CodexStep \/ Time \/ (\E m \in Messages : Receive(m)) \/ UNCHANGED vars
  BY <1>3, <1>6 DEF CodexStep, Enqueue, QueueLocal, TakeQueued, FinishTurn, Writes, TakeSubmission,
     TakeInstruction, Delegate, Time, GrowOld, Release, Receive, vars, bridgeVars
<1>7. CASE Respond \/ EndOfOutput \/ Impatience \/ GotTitle
  BY <1>3, <1>7 DEF Respond, EndOfOutput, Impatience, GotTitle, bridgeVars
<1> QED BY <1>4, <1>5, <1>6, <1>7 DEF Next

\* A notification names a turn: a turn that ends has its context.
LEMMA NotesKept ==
  ASSUME TypeInv, LineInv, NotesInv, [Next]_vars
  PROVE  NotesInv'
<1>0. notes \in Seq([turn : Nat, failed : BOOLEAN]) /\ RolloutTypes
  BY DEF TypeInv, CodexTypes
<1>1. CASE notes' = notes
  BY <1>1 DEF NotesInv
<1>2. CASE notes' = <<>>
  BY <1>2 DEF NotesInv
<1>3. CASE DrainNote
  <2>1. notes # <<>> /\ notes' = Tail(notes)
    BY <1>3 DEF DrainNote
  <2>2. /\ DOMAIN notes = 1..Len(notes) /\ Len(notes) \in Nat /\ Len(notes) # 0
        /\ DOMAIN (notes') = 1..(Len(notes) - 1)
        /\ \A k \in 1..(Len(notes) - 1) : notes'[k] = notes[k + 1]
    BY <1>0, <2>1
  <2>3. ASSUME NEW k \in DOMAIN (notes') PROVE notes'[k].turn > 0
    <3>1. k + 1 \in DOMAIN notes /\ notes'[k] = notes[k + 1]
      BY <2>2
    <3> QED BY <3>1 DEF NotesInv
  <2> QED BY <2>3 DEF NotesInv
<1>4. CASE FinishTurn
  <2>1. Running # {}
    BY <1>4 DEF FinishTurn, EndTurn
  <2>2. LastTurn \in Nat /\ LastTurn > 0
    BY <1>0, <2>1, RunningTurn
  <2>3. ASSUME NEW failed \in BOOLEAN, notes' = Append(notes, [turn |-> LastTurn, failed |-> failed])
        PROVE  NotesInv'
    <3> DEFINE e == [turn |-> LastTurn, failed |-> failed]
    <3>1. e.turn > 0 /\ e \in [turn : Nat, failed : BOOLEAN]
      BY <2>2
    <3> HIDE DEF e
    <3>2. /\ DOMAIN notes = 1..Len(notes) /\ Len(notes) \in Nat
          /\ DOMAIN (notes') = 1..(Len(notes) + 1) /\ notes'[Len(notes) + 1] = e
          /\ \A k \in 1..Len(notes) : notes'[k] = notes[k]
      BY <1>0, <2>3, <3>1 DEF e
    <3>3. ASSUME NEW k \in DOMAIN (notes') PROVE notes'[k].turn > 0
      <4>1. CASE k = Len(notes) + 1
        BY <3>1, <3>2, <4>1
      <4>2. CASE k \in DOMAIN notes
        BY <3>2, <4>2 DEF NotesInv
      <4> QED BY <3>2, <4>1, <4>2
    <3> QED BY <3>3 DEF NotesInv
  <2> QED BY <1>1, <1>4, <2>3 DEF FinishTurn
<1>5. CASE RefuseSource \/ ResumeRaises \/ Crash
  BY <1>2, <1>5 DEF RefuseSource, ResumeRaises, Crash, Die
<1>6. CASE Activate \/ Ingest \/ Select \/ Row \/ Start \/ Time \/ Writes \/ UNCHANGED vars
           \/ Enqueue \/ QueueLocal \/ TakeQueued \/ TakeSubmission \/ TakeInstruction \/ Delegate
           \/ \E m \in Messages : Receive(m)
  BY <1>1, <1>6 DEF Activate, Ingest, Select, Row, Start, Time, GrowOld, Release, Receive, Writes, vars,
     codexVars, Enqueue, QueueLocal, TakeQueued, TakeSubmission, TakeInstruction, Delegate
<1>7. CASE AppServerStep
  BY <1>1, <1>3, <1>5, <1>7 DEF AppServerStep, AskRequirements, NoRequirements, GotRequirements,
     AskAdd, NoAdd, GotAdd, AskList, NoList, GotList, Drained, AskResume, GotResume, codexVars
<1>8. CASE DesktopStep
  BY <1>1, <1>8 DEF DesktopStep, Snapshot, Submit, FindRelay, MissRelay, FindTurn, GiveUp, codexVars
<1>9. CASE Respond \/ EndOfOutput \/ Impatience \/ AskTitle \/ GotTitle
  BY <1>1, <1>9 DEF Respond, EndOfOutput, Impatience, AskTitle, GotTitle, codexVars
<1> QED
  BY <1>4, <1>5, <1>6, <1>7, <1>8, <1>9
  DEF Next, MainStep, CodexStep

-----------------------------------------------------------------------------
(* Where a message is.                                                     *)

\* A line of somebody else, and one of the message.
LEMMA OfAppend ==
  ASSUME NEW lines \in Seq(LineSet), NEW e \in LineSet, NEW m
  PROVE  /\ e.by # m => Of(Append(lines, e), m) = Of(lines, m)
         /\ e.by = m => Of(Append(lines, e), m) = Of(lines, m) \cup {Len(lines) + 1}
<1>1. /\ DOMAIN Append(lines, e) = DOMAIN lines \cup {Len(lines) + 1} /\ Len(lines) \in Nat
      /\ Append(lines, e)[Len(lines) + 1] = e /\ DOMAIN lines = 1..Len(lines)
      /\ \A i \in DOMAIN lines : Append(lines, e)[i] = lines[i]
  OBVIOUS
<1> QED BY <1>1 DEF Of

\* The file of a message changes: it holds it as before, or its last line has
\* got its newline.
FileSame(m) == InFile(m)' = InFile(m) /\ (InTail(m)' <=> InTail(m))
FileGets(m) ==
  \/ ~ InTail(m)' /\ \E k : InFile(m)' = InFile(m) \cup {k}
  \/ InTail(m)' /\ InFile(m)' = InFile(m)

\* A user item is the only line a message gets.
LEMMA FileOfUser ==
  ASSUME RolloutTypes, NEW by \in Messages \cup {"local"}, NEW partial \in BOOLEAN,
         WriteUser(by, partial), NEW m \in Messages
  PROVE  /\ ~ InTail(m)
         /\ m # by => FileSame(m)
         /\ m = by => FileGets(m)
<1>0. disk.lines \in Seq(LineSet) /\ m # "codex" /\ NoLine.by = "codex" /\ disk.turns \in Nat
      /\ disk.turns + 1 \in Nat
  BY UplinkAssumption DEF RolloutTypes, NoLine, Line
<1>1. PICK turn \in Nat :
           /\ UserItem(turn, by) \in LineSet
           /\ \/ /\ Running # {} /\ turn = LastTurn
                 /\ Grown(disk.lines, UserItem(turn, by), disk.turns)
              \/ /\ Running = {} /\ turn = disk.turns + 1 /\ Began(turn) \in Seq(LineSet)
                 /\ Grown(Began(turn), UserItem(turn, by), disk.turns + 1)
  BY UserWritten
<1> DEFINE e == UserItem(turn, by)
<1>2. e \in LineSet /\ e.by = by
  BY <1>1 DEF UserItem, Line
<1>3. ~ InTail(m)
  BY <1>0 DEF WriteUser, InTail
<1> HIDE DEF e
<1>4. ASSUME NEW lines \in Seq(LineSet), NEW turns \in Nat, Of(lines, m) = InFile(m),
             Grown(lines, e, turns)
      PROVE  (m # by => FileSame(m)) /\ (m = by => FileGets(m))
  <2>1. \/ disk'.lines = Append(lines, e) /\ disk'.tail = NoLine
        \/ disk'.lines = lines /\ disk'.tail = e
    BY <1>2, <1>4, GrownTyped
  <2>2. CASE disk'.lines = Append(lines, e) /\ disk'.tail = NoLine
    <3>1. InFile(m)' = Of(Append(lines, e), m)
      BY <2>2 DEF InFile
    <3>2. m # by => InFile(m)' = InFile(m)
      BY <1>2, <1>4, <3>1, OfAppend
    <3>3. m = by => InFile(m)' = InFile(m) \cup {Len(lines) + 1}
      BY <1>2, <1>4, <3>1, OfAppend
    <3>4. ~ InTail(m)'
      BY <1>0, <2>2 DEF InTail
    <3> QED BY <1>3, <3>2, <3>3, <3>4 DEF FileSame, FileGets
  <2>3. CASE disk'.lines = lines /\ disk'.tail = e
    <3>1. InFile(m)' = InFile(m) /\ (InTail(m)' <=> by = m)
      BY <1>2, <1>4, <2>3 DEF InFile, InTail
    <3> QED BY <1>3, <3>1 DEF FileSame, FileGets
  <2> QED BY <2>1, <2>2, <2>3
<1>5. CASE Grown(disk.lines, e, disk.turns)
  BY <1>0, <1>3, <1>4, <1>5 DEF InFile
<1>6. CASE Began(turn) \in Seq(LineSet) /\ Grown(Began(turn), e, disk.turns + 1)
  <2> DEFINE a == Line("task_started", turn, 0, "codex")
             b == Line("turn_context", turn, 0, "codex")
  <2>1. a \in LineSet /\ b \in LineSet /\ a.by = "codex" /\ b.by = "codex"
    BY LineTyped DEF Types, Owners
  <2>2. Began(turn) = Append(Append(disk.lines, a), b)
    BY DEF Began
  <2> HIDE DEF a, b
  <2>3. Append(disk.lines, a) \in Seq(LineSet)
    BY <1>0, <2>1
  <2>4. Of(Append(disk.lines, a), m) = InFile(m)
    BY <1>0, <2>1, OfAppend DEF InFile
  <2>5. Of(Append(Append(disk.lines, a), b), m) = InFile(m)
    BY <1>0, <2>1, <2>3, <2>4, OfAppend
  <2>6. Of(Began(turn), m) = InFile(m)
    BY <2>2, <2>5
  <2> QED BY <1>0, <1>3, <1>4, <1>6, <2>6
<1> QED BY <1>1, <1>3, <1>5, <1>6 DEF e

\* What Codex writes of its own leaves the messages where they are; a last line
\* that is completed takes its message along.
LEMMA FileOfOthers ==
  ASSUME RolloutTypes, TailInv, NEW m \in Messages,
         \/ \E partial \in BOOLEAN : WriteAssistant(partial)
         \/ EndTurn \/ WriteBlank \/ CompleteLine \/ ReplaceFile
  PROVE  \/ FileSame(m)
         \/ InTail(m) /\ ~ InTail(m)' /\ \E k : InFile(m)' = InFile(m) \cup {k}
         \/ ReplaceFile /\ InFile(m)' = {} /\ ~ InTail(m)'
<1>0. disk.lines \in Seq(LineSet) /\ m # "codex" /\ NoLine.by = "codex" /\ disk.turns \in Nat
      /\ disk.tail \in LineSet
  BY UplinkAssumption DEF RolloutTypes, NoLine, Line
\* A line of Codex, with its newline.
<1>1. ASSUME NEW e \in LineSet, e.by = "codex", e.type # "task_started", disk.tail = NoLine,
             Write(<<e>>, FALSE)
      PROVE  FileSame(m)
  <2>1. disk' = [disk EXCEPT !.lines = Append(@, e), !.tail = NoLine]
    BY <1>1, LineWritten
  <2>2. disk'.lines = Append(disk.lines, e) /\ disk'.tail = NoLine
    BY <2>1 DEF RolloutTypes
  <2>3. InFile(m)' = InFile(m)
    BY <1>0, <1>1, <2>2, OfAppend DEF InFile
  <2> QED BY <1>0, <1>1, <2>2, <2>3 DEF FileSame, InTail
<1>2. ASSUME NEW partial \in BOOLEAN, WriteAssistant(partial) PROVE FileSame(m)
  <2>1. /\ Preview \in LineSet /\ Assistant \in LineSet
        /\ Append(disk.lines, Preview) \in Seq(LineSet)
        /\ Grown(Append(disk.lines, Preview), Assistant, disk.turns)
    BY <1>2, AssistantWritten
  <2>2. Preview.by = "codex" /\ Assistant.by = "codex"
    BY DEF Preview, Assistant, Line
  <2>3. disk.tail = NoLine
    BY <1>2 DEF WriteAssistant
  <2> DEFINE lines == Append(disk.lines, Preview)
  <2>4. lines \in Seq(LineSet) /\ Of(lines, m) = InFile(m)
    BY <1>0, <2>1, <2>2, OfAppend DEF InFile
  <2>5. Grown(lines, Assistant, disk.turns)
    BY <2>1
  <2> HIDE DEF lines
  <2>6. \/ disk'.lines = Append(lines, Assistant) /\ disk'.tail = NoLine
        \/ disk'.lines = lines /\ disk'.tail = Assistant
    BY <1>0, <2>1, <2>4, <2>5, GrownTyped
  <2>7. Of(Append(lines, Assistant), m) = InFile(m)
    BY <1>0, <2>1, <2>2, <2>4, OfAppend
  <2>8. InFile(m)' = InFile(m)
    BY <2>4, <2>6, <2>7 DEF InFile
  <2>9. ~ InTail(m)' /\ ~ InTail(m)
    BY <1>0, <2>2, <2>3, <2>6 DEF InTail
  <2> QED BY <2>8, <2>9 DEF FileSame
<1>3. CASE EndTurn
  <2>1. Ended \in LineSet /\ Ended.type = "task_complete" /\ Ended.by = "codex"
    <3>1. LastTurn \in Nat
      BY <1>0, ContextTyped DEF LastTurn
    <3> QED BY <3>1, LineTyped DEF Ended, Types, Owners
  <2> QED BY <1>1, <1>3, <2>1 DEF EndTurn, Ended
<1>4. CASE WriteBlank
  <2>1. Blank \in LineSet /\ Blank.type = "blank" /\ Blank.by = "codex"
    BY LineTyped DEF Blank, Types, Owners
  <2> QED BY <1>1, <1>4, <2>1 DEF WriteBlank
<1>5. CASE CompleteLine
  <2>1. disk' = [disk EXCEPT !.lines = Append(@, disk.tail), !.tail = NoLine]
    BY <1>5 DEF CompleteLine
  <2>2. disk'.lines = Append(disk.lines, disk.tail) /\ disk'.tail = NoLine
    BY <2>1 DEF RolloutTypes
  <2>3. InTail(m) => InFile(m)' = InFile(m) \cup {Len(disk.lines) + 1}
    <3>1. InFile(m)' = Of(Append(disk.lines, disk.tail), m)
      BY <2>2 DEF InFile
    <3> QED BY <1>0, <3>1, OfAppend DEF InFile, InTail
  <2>4. ~ InTail(m) => InFile(m)' = InFile(m)
    BY <1>0, <2>2, OfAppend DEF InFile, InTail
  <2>5. ~ InTail(m)'
    BY <1>0, <2>2 DEF InTail
  <2> QED BY <2>3, <2>4, <2>5 DEF FileSame
<1>6. CASE ReplaceFile
  <2>1. disk'.lines = <<Meta>> /\ disk'.tail = NoLine
    BY <1>6 DEF ReplaceFile
  <2>2. Meta.by = "codex" /\ DOMAIN <<Meta>> = {1} /\ <<Meta>>[1] = Meta
    BY DEF Meta, Line
  <2> QED BY <1>0, <1>6, <2>1, <2>2 DEF InFile, Of, InTail
<1> QED BY <1>2, <1>3, <1>4, <1>5, <1>6

-----------------------------------------------------------------------------
(* What a step does to the records.                                        *)

\* One record changes, that of the row or that of a turn that ended.
RecordMove(m) ==
  \/ /\ record[m].state = "none"
     /\ record' = [record EXCEPT ![m] = [NoRecord EXCEPT !.state = "prepared", !.made = Made]]
     /\ main'.pc \notin HandSteps /\ main.pc \in {"row", "requirements"}
  \/ /\ m = row /\ main.pc = "add" /\ main' = main /\ mode = "app_server" /\ AskAdd
     /\ record' = [record EXCEPT ![m].state = "bytes_sending", ![m].request = "rpc"]
  \/ /\ m = row /\ main.pc = "snapshot" /\ main'.pc = "submit" /\ main'.row = m /\ mode # "app_server"
     /\ record[m].state = "prepared" /\ main'.size = FileSize
     /\ record' = [record EXCEPT ![m].state = "bytes_sending", ![m].request = "ui"]
  \/ /\ m = row /\ main.pc \in {"add", "list"} /\ main'.pc \notin HandSteps
     /\ \/ waiting["main"].call.method = "add" /\ waiting["main"].reply = "ok"
        \/ waiting["main"].call.method = "list" /\ waiting["main"].reply = "found"
     /\ record' = [record EXCEPT ![m].state = "accepted"]
     /\ mode = "app_server" /\ waiting["main"].call.msg = m
  \/ /\ m = row /\ main.pc \in {"add", "submit", "confirm"} /\ main'.pc \notin HandSteps
     /\ record[m].state \in {"prepared", "bytes_sending"}
     /\ record' = [record EXCEPT ![m].state = "outcome_unknown"]
  \/ /\ m = row /\ main.pc = "relayed" /\ main'.pc \notin HandSteps
     /\ record' = [record EXCEPT ![m] = NoRecord]
  \/ /\ m = row /\ main.pc \in {"submit", "relayed"} /\ main'.pc = "confirm" /\ mode # "app_server"
     /\ record[m].state = "bytes_sending" /\ main'.size = main.size
     /\ record' = [record EXCEPT ![m].request = "submitted"]
  \/ m = row /\ FindTurn
  \/ /\ main.pc = "drain" /\ main'.pc \notin HandSteps
     /\ record[m].state = "accepted" /\ notes # <<>> /\ record[m].turn = Head(notes).turn
     /\ record' = [record EXCEPT ![m].state = "completed"]

\* Where the loop is when no record changes.
Waited ==
  main'.pc \in HandSteps =>
    main.pc \in HandSteps /\ main'.row = main.row /\ main'.size = main.size

\* A step is a batch, or it changes at most one record, in one of these ways.
LEMMA RecordMoves ==
  ASSUME TypeInv, ModeInv, RowInv, AnswerInv, [Next]_vars
  PROVE  \/ Ingest
         \/ record' = record /\ Waited
         \/ \E m \in Messages : RecordMove(m)
<1>0. /\ main \in MainSet /\ main.rest \subseteq ToSet(inbox) /\ row = main.row
      /\ record \in [Messages -> RecordSet] /\ main.rest \subseteq Messages
      /\ main.pc \in RowSteps => row \in Messages
  BY DEF TypeInv, BridgeTypes, MainSet, InboxInv, ToSet, RowSteps, row
<1>1. PcStep /\ mode' = mode
  BY PcSteps
<1>2. CASE UNCHANGED <<main, record>>
  BY <1>2 DEF Waited, HandSteps
<1>3. ASSUME record' = record, main'.pc \notin {"submit", "relayed", "confirm"}
      PROVE  record' = record /\ Waited
  BY <1>3 DEF Waited, HandSteps
<1>4. CASE Activate \/ RefuseSource \/ ResumeRaises \/ Crash \/ Start \/ Drained
  BY <1>3, <1>4 DEF Activate, Loop, AfterRead, RefuseSource, ResumeRaises, Crash, Die, Down, Start,
     Drained
<1>5. /\ NextRow.pc \in {"row", "read"} /\ \A rest : Rest(rest).pc \in {"row", "read"}
      /\ \A pc : Go(pc) => main'.pc = pc /\ main'.row = row /\ main'.size = main.size
  BY <1>0 DEF NextRow, Rest, Loop, Go, MainSet
<1>6. CASE Select
  BY <1>3, <1>5, <1>6 DEF Select
<1>7. CASE Row
  <2> DEFINE m == First(main.rest)
  <2>1. m \in main.rest /\ main.pc = "row"
    BY <1>0, <1>7, FirstIn DEF Row, At, InboxInv, TypeInv
  <2>2. ExpireRow(m) \/ RefuseRow(m) \/ TakeRow(m)
    BY <1>7 DEF Row
  <2> HIDE DEF m
  <2>3. CASE ExpireRow(m) \/ RefuseRow(m)
    BY <1>3, <1>5, <2>3 DEF ExpireRow, RefuseRow
  <2>4. CASE TakeRow(m) /\ mode = "app_server"
    <3>1. main' = [main EXCEPT !.pc = "requirements", !.row = m, !.rest = @ \ {m}] /\ record' = record
      BY <2>4 DEF TakeRow
    <3>2. main'.pc = "requirements"
      BY <1>0, <3>1 DEF MainSet
    <3> QED BY <1>3, <3>1, <3>2
  <2>5. CASE TakeRow(m) /\ mode # "app_server"
    <3>1. /\ main' = [main EXCEPT !.pc = "snapshot", !.row = m, !.rest = @ \ {m}]
          /\ record' = [record EXCEPT ![m] = [NoRecord EXCEPT !.state = "prepared", !.made = Made]]
      BY <2>5 DEF TakeRow, Prepare
    <3>2. main'.pc = "snapshot"
      BY <1>0, <3>1 DEF MainSet
    <3>3. record[m].state = "none" /\ m \in Messages
      BY <1>0, <2>1 DEF RowInv
    <3> QED BY <2>1, <3>1, <3>2, <3>3 DEF RecordMove, HandSteps
  <2> QED BY <2>2, <2>3, <2>4, <2>5
<1>8. CASE NoRequirements \/ NoList
  BY <1>3, <1>5, <1>8 DEF NoRequirements, NoList, DeferRow
<1>9. CASE GotRequirements
  <2>1. main.pc = "requirements"
    BY <1>9 DEF GotRequirements, At
  <2>2. CASE DeferRow(row) /\ UNCHANGED record
    BY <1>3, <1>5, <2>2 DEF DeferRow
  <2>3. CASE Prepare(row, "add")
    <3>1. /\ record' = [record EXCEPT ![row] = [NoRecord EXCEPT !.state = "prepared", !.made = Made]]
          /\ main' = [main EXCEPT !.pc = "add", !.row = row, !.rest = @ \ {row}]
      BY <2>3 DEF Prepare
    <3>2. main'.pc = "add"
      BY <1>0, <3>1 DEF MainSet
    <3>3. row \in Messages /\ record[row].state = "none"
      BY <1>0, <2>1 DEF RowInv, RowSteps
    <3> QED BY <2>1, <3>1, <3>2, <3>3 DEF RecordMove, HandSteps
  <2> QED BY <1>9, <2>2, <2>3 DEF GotRequirements
<1>10. CASE AskAdd
  <2>1. main.pc = "add" /\ main' = main /\ row \in Messages
        /\ record' = [record EXCEPT ![row].state = "bytes_sending", ![row].request = "rpc"]
    BY <1>0, <1>10 DEF AskAdd, At, RowSteps
  <2>2. mode = "app_server"
    BY <2>1 DEF ModeInv
  <2> QED BY <1>10, <2>1, <2>2 DEF RecordMove, HandSteps
<1>11. CASE NoAdd \/ GotResume
  BY <1>3, <1>5, <1>11 DEF NoAdd, GotResume
<1>12. ASSUME main.pc \in {"add", "list"}, Returned("main")
       PROVE  /\ waiting["main"].call.method = main.pc /\ waiting["main"].call.msg = row
              /\ row \in Messages /\ mode = "app_server"
  <2>1. waiting["main"] # Idle
    BY <1>12 DEF Returned, Idle
  <2> QED BY <1>0, <1>12, <2>1 DEF AnswerInv, RowSteps, ModeInv
<1>13. CASE GotAdd
  <2>1. main.pc = "add" /\ Returned("main")
    BY <1>13 DEF GotAdd, At
  <2>2. CASE Reply = "ok" /\ Accept(row, record[row].turn, record[row].item)
    <3>1. record' = [record EXCEPT ![row].state = "accepted", ![row].turn = record[row].turn,
                                   ![row].item = record[row].item] /\ main' = NextRow
      BY <2>2 DEF Accept
    <3>2. record' = [record EXCEPT ![row].state = "accepted"]
      BY <1>0, <1>12, <2>1, <3>1 DEF RecordSet
    <3> QED BY <1>5, <1>12, <2>1, <2>2, <3>1, <3>2 DEF RecordMove, HandSteps, Reply
  <2>3. CASE SetState(row, "outcome_unknown") /\ Go("list")
    <3>1. record[row].state \in {"prepared", "bytes_sending"}
      BY <1>0, <2>1 DEF RowInv
    <3>2. main'.pc = "list" /\ record' = [record EXCEPT ![row].state = "outcome_unknown"]
      BY <1>5, <2>3 DEF SetState
    <3>3. row \in Messages
      BY <1>12, <2>1
    <3> QED BY <2>1, <3>1, <3>2, <3>3 DEF RecordMove, HandSteps
  <2> QED BY <1>13, <2>2, <2>3 DEF GotAdd
<1>14. CASE GotList
  <2>1. main.pc = "list" /\ Returned("main")
    BY <1>14 DEF GotList, At
  <2>2. CASE Reply = "found" /\ Accept(row, record[row].turn, record[row].item)
    <3>1. record' = [record EXCEPT ![row].state = "accepted", ![row].turn = record[row].turn,
                                   ![row].item = record[row].item] /\ main' = NextRow
      BY <2>2 DEF Accept
    <3>2. record' = [record EXCEPT ![row].state = "accepted"]
      BY <1>0, <1>12, <2>1, <3>1 DEF RecordSet
    <3> QED BY <1>5, <1>12, <2>1, <2>2, <3>1, <3>2 DEF RecordMove, HandSteps, Reply
  <2>3. CASE main' = NextRow /\ record' = record
    BY <1>3, <1>5, <2>3
  <2> QED BY <1>14, <2>2, <2>3 DEF GotList
<1>15. CASE DrainNote
  <2>1. main.pc = "drain" /\ (main' = main \/ Go("resume")) /\ notes # <<>>
    BY <1>15 DEF DrainNote, At
  <2>2. main'.pc \in {"drain", "resume"}
    BY <1>5, <2>1
  <2> DEFINE own == {m \in Messages : record[m].state = "accepted" /\ record[m].turn = Head(notes).turn}
  <2>3. CASE own = {}
    BY <1>3, <1>15, <2>2, <2>3 DEF DrainNote
  <2>4. CASE own # {}
    <3>1. PICK m \in own : SetState(m, "completed")
      BY <1>15, <2>4 DEF DrainNote
    <3>2. record[m].state = "accepted" /\ record[m].turn = Head(notes).turn /\ m \in Messages
      OBVIOUS
    <3> HIDE DEF own
    <3> QED BY <2>1, <2>2, <3>1, <3>2 DEF RecordMove, HandSteps, SetState
  <2> QED BY <2>3, <2>4
<1>16. CASE Snapshot
  <2>1. /\ main.pc = "snapshot"
        /\ record' = [record EXCEPT ![row].state = "bytes_sending", ![row].request = "ui"]
        /\ main' = [main EXCEPT !.pc = "submit", !.size = FileSize, !.relaySize = Len(relay.log)]
    BY <1>16 DEF Snapshot, At
  <2>2. main'.pc = "submit" /\ main'.row = row /\ main'.size = FileSize
    BY <1>0, <2>1 DEF MainSet
  <2>3. row \in Messages /\ record[row].state = "prepared" /\ mode # "app_server"
    BY <1>0, <2>1 DEF RowInv, RowSteps, ModeInv
  <2> QED BY <2>1, <2>2, <2>3 DEF RecordMove, HandSteps
<1>17. CASE Submit \/ FindRelay
  <2>1. main.pc \in {"submit", "relayed"} /\ row \in Messages
        /\ record[row].state = "bytes_sending" /\ mode # "app_server"
    BY <1>0, <1>17 DEF Submit, FindRelay, At, RowSteps, RowInv, ModeInv
  <2>2. CASE Go("relayed") /\ UNCHANGED record /\ main.pc = "submit"
    BY <1>0, <1>5, <2>1, <2>2 DEF Waited, HandSteps
  <2>3. CASE record' = [record EXCEPT ![row].request = "submitted"] /\ Go("confirm")
    BY <1>5, <2>1, <2>3 DEF RecordMove, HandSteps
  <2>4. CASE SetState(row, "outcome_unknown") /\ main' = NextRow /\ main.pc = "submit"
    BY <1>5, <2>1, <2>4 DEF RecordMove, HandSteps, SetState
  <2> QED BY <1>17, <2>2, <2>3, <2>4 DEF Submit, FindRelay, At
<1>18. CASE MissRelay
  <2>1. main.pc = "relayed" /\ main' = NextRow /\ record' = [record EXCEPT ![row] = NoRecord]
        /\ row \in Messages
    BY <1>0, <1>18 DEF MissRelay, At, DeferRow, RowSteps
  <2> QED BY <1>5, <2>1 DEF RecordMove, HandSteps
<1>19. CASE FindTurn
  BY <1>0, <1>19 DEF FindTurn, At, RowSteps, RecordMove, HandSteps
<1>20. CASE GiveUp
  <2>1. main.pc = "confirm" /\ main' = NextRow /\ SetState(row, "outcome_unknown")
        /\ row \in Messages /\ record[row].state = "bytes_sending"
    BY <1>0, <1>20 DEF GiveUp, At, RowSteps, RowInv
  <2> QED BY <1>5, <2>1 DEF RecordMove, HandSteps, SetState
<1>21. CASE CodexStep \/ Time \/ (\E m \in Messages : Receive(m)) \/ UNCHANGED vars
  BY <1>2, <1>21 DEF CodexStep, Enqueue, QueueLocal, TakeQueued, FinishTurn, Writes, TakeSubmission,
     TakeInstruction, Delegate, Time, GrowOld, Release, Receive, vars, bridgeVars
<1>22. CASE Respond \/ EndOfOutput \/ Impatience \/ AskTitle \/ GotTitle
            \/ AskRequirements \/ AskList \/ AskResume
  BY <1>2, <1>22 DEF Respond, EndOfOutput, Impatience, AskTitle, GotTitle, AskRequirements, AskList,
     AskResume, bridgeVars
<1> QED
  BY <1>4, <1>6, <1>7, <1>8, <1>9, <1>10, <1>11, <1>13, <1>14, <1>15, <1>16, <1>17, <1>18, <1>19,
     <1>20, <1>21, <1>22
  DEF Next, MainStep, AppServerStep, DesktopStep

-----------------------------------------------------------------------------
(* What a batch does to the records.                                       *)

\* Two lines with the same item are the same line.
LEMMA ItemsDiffer ==
  ASSUME RolloutTypes, LineInv, NEW i \in DOMAIN disk.lines, NEW j \in DOMAIN disk.lines,
         Visible(disk.lines[i]), Visible(disk.lines[j]), disk.lines[i].item = disk.lines[j].item
  PROVE  i = j
<1>1. i \in Nat /\ j \in Nat /\ disk.lines[i] \in LineSet /\ disk.lines[j] \in LineSet
  BY DEF RolloutTypes
<1>2. disk.lines[i].item \in Nat
  BY <1>1 DEF LineSet
<1>3. ~ (j < i) /\ ~ (i < j)
  BY <1>2 DEF LineInv, GoodLines
<1> QED BY <1>1, <1>3

\* A record that a line of the batch has claimed.
CameWith(r, m, i) ==
  /\ r.state = "accepted" /\ r.item # 0 /\ r.turn # 0
  /\ \E j \in 1..i : OfLine(r, m, j)

\* The rows after the lines of a batch up to line i.
AfterLine(i) ==
  {acc \in AccSet :
    /\ \A m \in Messages :
         /\ acc.rec[m].request = record[m].request
         /\ \/ acc.rec[m] = record[m]
            \/ record[m].state \in Claimable /\ CameWith(acc.rec[m], m, i)
    /\ \A m, n \in Messages :
         m # n /\ acc.rec[m].item # 0 => acc.rec[m].item # acc.rec[n].item
    /\ mode = "app_server" =>
         \A j \in 1..i : disk.lines[j].by \in Messages =>
           LET rec == acc.rec[disk.lines[j].by]
           IN /\ Accepted(rec)
              /\ rec.item = disk.lines[j].item /\ rec.turn = disk.lines[j].turn}

\* What the lines of a batch are taken under.
BatchInv ==
  /\ TypeInv /\ ModeInv /\ LineInv /\ PlaceInv /\ RecordInv
  /\ OneItemOneRecord /\ ReturnsAreKnown
  /\ cursor # NoCursor /\ cursor.at <= Len(disk.lines)

\* The line a batch is at, and the records before it.
LEMMA LineFacts ==
  ASSUME BatchInv, NEW i \in (cursor.at + 1)..Len(disk.lines), NEW acc \in AfterLine(i - 1)
  PROVE  /\ i \in DOMAIN disk.lines /\ i - 1 \in Nat /\ i \in Nat /\ cursor.at \in Nat
         /\ 1..i = (1..(i - 1)) \cup {i} /\ disk.lines[i] \in LineSet
         /\ disk.lines \in Seq(LineSet) /\ DOMAIN disk.lines = 1..Len(disk.lines)
         /\ acc \in AccSet
         /\ \A m \in Messages :
              acc.rec[m].item # 0 =>
                /\ Accepted(acc.rec[m])
                /\ \E j \in DOMAIN disk.lines :
                     OfLine(acc.rec[m], m, j) /\ (mode = "app_server" => j <= i - 1)
<1>1. disk.lines \in Seq(LineSet) /\ Len(disk.lines) \in Nat /\ cursor.at \in Nat
  BY DEF BatchInv, TypeInv, RolloutTypes
<1>2. i \in DOMAIN disk.lines /\ i - 1 \in Nat /\ i \in Nat /\ cursor.at <= i - 1
      /\ 1..i = (1..(i - 1)) \cup {i} /\ disk.lines[i] \in LineSet
      /\ DOMAIN disk.lines = 1..Len(disk.lines)
  BY <1>1
<1>3. acc \in AccSet
  BY DEF AfterLine
<1>4. ASSUME NEW m \in Messages, acc.rec[m].item # 0
      PROVE  /\ Accepted(acc.rec[m])
             /\ \E j \in DOMAIN disk.lines :
                     OfLine(acc.rec[m], m, j) /\ (mode = "app_server" => j <= i - 1)
  <2>1. CASE acc.rec[m] = record[m]
    <3>1. record[m].item # 0
      BY <1>4, <2>1
    <3>2. Accepted(record[m])
      BY <3>1 DEF BatchInv, RecordInv, RecordOf
    <3>3. PICK j \in DOMAIN disk.lines :
            OfLine(record[m], m, j) /\ (mode = "app_server" => j <= cursor.at)
      BY <3>1 DEF BatchInv, RecordInv, RecordOf
    <3>4. j <= cursor.at => j <= i - 1
      BY <1>1, <1>2
    <3> QED BY <2>1, <3>2, <3>3, <3>4
  <2>2. CASE CameWith(acc.rec[m], m, i - 1)
    <3>1. PICK j \in 1..(i - 1) : OfLine(acc.rec[m], m, j)
      BY <2>2 DEF CameWith
    <3>2. j \in DOMAIN disk.lines /\ j <= i - 1
      BY <1>1, <1>2
    <3> QED BY <2>2, <3>1, <3>2 DEF CameWith, Accepted
  <2> QED BY <2>1, <2>2 DEF AfterLine
<1> QED BY <1>1, <1>2, <1>3, <1>4

\* With App Server the line of a message finds its record waiting for it.
LEMMA ReturnIsAwaited ==
  ASSUME BatchInv, NEW i \in (cursor.at + 1)..Len(disk.lines), NEW acc \in AfterLine(i - 1),
         mode = "app_server", disk.lines[i].by \in Messages
  PROVE  ByClient(acc.rec, EventOf(cursor.at, i)) # {}
<1> DEFINE m == disk.lines[i].by
<1>0. i \in DOMAIN disk.lines /\ i \in Nat /\ cursor.at \in Nat /\ i > cursor.at
  <2>1. i \in DOMAIN disk.lines /\ i \in Nat /\ cursor.at \in Nat
    BY LineFacts
  <2>2. Len(disk.lines) \in Nat
    BY DEF BatchInv, TypeInv, RolloutTypes
  <2> QED BY <2>1, <2>2
<1>1. i \in InFile(m)
  BY <1>0 DEF InFile, Of
<1>2. EventOf(cursor.at, i).by = m
  BY DEF EventOf
<1>3. m \in Messages /\ Once(m) /\ (Unsent(m) => Nowhere(m))
  BY DEF BatchInv, PlaceInv
<1> HIDE DEF m
<1>4. acc.rec[m].state \in Claimable
  <2> SUFFICES ASSUME acc.rec[m].state \notin Claimable PROVE FALSE
    OBVIOUS
  <2>1. acc.rec[m] = record[m]
    BY <1>3 DEF AfterLine, CameWith, Claimable
  <2>2. record[m] \in RecordSet
    BY <1>3 DEF BatchInv, TypeInv, BridgeTypes
  <2>3. record[m].state \in {"none", "prepared", "completed"}
    BY <2>1, <2>2 DEF Claimable, RecordSet
  <2>4. ~ Unsent(m)
    BY <1>1, <1>3 DEF Nowhere
  <2>5. record[m].state = "completed"
    BY <2>3, <2>4 DEF Unsent
  <2>6. record[m].item # 0
    BY <1>3, <2>5 DEF BatchInv, RecordInv, RecordOf
  <2>7. PICK j \in DOMAIN disk.lines : OfLine(record[m], m, j) /\ j <= cursor.at
    BY <1>3, <2>6 DEF BatchInv, RecordInv, RecordOf
  <2>8. j \in InFile(m)
    BY <2>7 DEF OfLine, InFile, Of
  <2>9. j = i
    BY <1>1, <1>3, <2>8 DEF Once, Single
  <2> QED BY <1>0, <2>7, <2>9
<1> QED BY <1>2, <1>3, <1>4 DEF ByClient

\* The record of m is claimed by line i, and no other has its item.
LEMMA LineClaims ==
  ASSUME BatchInv, NEW i \in (cursor.at + 1)..Len(disk.lines), NEW acc \in AfterLine(i - 1),
         EventOf(cursor.at, i) \in EventSet,
         NEW m \in Messages, acc.rec[m].state \in Claimable,
         disk.lines[i].type = "user",
         IF mode = "app_server" THEN disk.lines[i].by = m ELSE SameText(m, disk.lines[i].by),
         \A n \in Messages : n # m => acc.rec[n].item # disk.lines[i].item
  PROVE  ClaimFor(acc, m, EventOf(cursor.at, i)) \in AfterLine(i)
<1> DEFINE e == EventOf(cursor.at, i)
           new == ClaimFor(acc, m, e)
           r == CameBack(acc.rec[m], e)
<1>0. /\ i \in DOMAIN disk.lines /\ i - 1 \in Nat /\ i \in Nat /\ cursor.at \in Nat
      /\ 1..i = (1..(i - 1)) \cup {i} /\ disk.lines[i] \in LineSet
      /\ DOMAIN disk.lines = 1..Len(disk.lines)
      /\ acc \in AccSet
  BY LineFacts
<1>1. disk.lines[i].item # 0 /\ disk.lines[i].turn # 0
  <2>1. GoodLine(disk.lines[i])
    BY <1>0 DEF BatchInv, LineInv, GoodLines
  <2>2. disk.lines[i].item > 0 /\ disk.lines[i].turn > 0
    BY <2>1 DEF GoodLine, Visible
  <2> QED BY <1>0, <2>2 DEF LineSet
<1>2. e.item = disk.lines[i].item /\ e.turn = disk.lines[i].turn
  BY <1>1 DEF EventOf, TurnOf
<1>3. /\ new \in AccSet
      /\ \A n \in Messages : new.rec[n] = IF n = m THEN r ELSE acc.rec[n]
  <2> HIDE DEF e
  <2> QED BY <1>0, ClaimTyped DEF e
<1>4. acc.rec[m] \in RecordSet
  BY <1>0 DEF AccSet
<1> HIDE DEF e, new
<1>5. /\ r.state = "accepted" /\ r.item = disk.lines[i].item /\ r.turn = disk.lines[i].turn
      /\ r.request = acc.rec[m].request
  BY <1>2, <1>4 DEF CameBack, RecordSet
<1>6. OfLine(r, m, i)
  BY <1>5 DEF OfLine
<1> HIDE DEF r
<1>7. CameWith(r, m, i)
  BY <1>0, <1>1, <1>5, <1>6 DEF CameWith
<1>8. record[m].state \in Claimable
  BY DEF AfterLine, Claimable
<1>9. new.rec[m] = r /\ \A n \in Messages : n # m => new.rec[n] = acc.rec[n]
  BY <1>3
<1>10. \A n \in Messages :
         /\ new.rec[n].request = record[n].request
         /\ \/ new.rec[n] = record[n]
            \/ record[n].state \in Claimable /\ CameWith(new.rec[n], n, i)
  <2> TAKE n \in Messages
  <2>1. CASE n = m
    BY <1>5, <1>7, <1>8, <1>9, <2>1 DEF AfterLine
  <2>2. CASE n # m
    <3>1. CameWith(acc.rec[n], n, i - 1) => CameWith(acc.rec[n], n, i)
      BY <1>0 DEF CameWith
    <3> QED BY <1>9, <2>2, <3>1 DEF AfterLine
  <2> QED BY <2>1, <2>2
<1>11. \A k, n \in Messages : k # n /\ new.rec[k].item # 0 => new.rec[k].item # new.rec[n].item
  <2> TAKE k, n \in Messages
  <2>1. CASE k = m
    BY <1>5, <1>9, <2>1
  <2>2. CASE k # m /\ n = m
    BY <1>5, <1>9, <2>2
  <2>3. CASE k # m /\ n # m
    BY <1>9, <2>3 DEF AfterLine
  <2> QED BY <2>1, <2>2, <2>3
<1>12. ASSUME mode = "app_server", NEW j \in 1..i, disk.lines[j].by \in Messages
       PROVE  /\ Accepted(new.rec[disk.lines[j].by])
              /\ new.rec[disk.lines[j].by].item = disk.lines[j].item
              /\ new.rec[disk.lines[j].by].turn = disk.lines[j].turn
  <2>1. CASE j = i
    BY <1>5, <1>9, <1>12, <2>1 DEF Accepted
  <2>2. CASE j \in 1..(i - 1)
    <3>1. Single(InFile(m)) /\ j # i /\ j \in DOMAIN disk.lines
      BY <1>0, <1>12, <2>2 DEF BatchInv, PlaceInv, Once
    <3>2. disk.lines[j].by # m
      BY <1>0, <1>12, <3>1 DEF Single, InFile, Of
    <3> QED BY <1>9, <1>12, <2>2, <3>2 DEF AfterLine
  <2> QED BY <1>0, <2>1, <2>2
<1>13. new \in AfterLine(i)
  BY <1>3, <1>10, <1>11, <1>12 DEF AfterLine
<1> QED BY <1>13 DEF new, e

\* A line that claims nothing.
LEMMA LinePasses ==
  ASSUME BatchInv, NEW i \in (cursor.at + 1)..Len(disk.lines), NEW acc \in AfterLine(i - 1),
         NEW new \in AccSet, new.rec = acc.rec,
         mode = "app_server" => disk.lines[i].by \notin Messages
  PROVE  new \in AfterLine(i)
<1>0. i - 1 \in Nat /\ i \in Nat /\ 1..i = (1..(i - 1)) \cup {i}
  BY LineFacts
<1>1. \A n \in Messages : CameWith(acc.rec[n], n, i - 1) => CameWith(acc.rec[n], n, i)
  BY <1>0 DEF CameWith
<1>2. \A n \in Messages :
         /\ new.rec[n].request = record[n].request
         /\ \/ new.rec[n] = record[n]
            \/ record[n].state \in Claimable /\ CameWith(new.rec[n], n, i)
  BY <1>1 DEF AfterLine
<1>3. \A k, n \in Messages : k # n /\ new.rec[k].item # 0 => new.rec[k].item # new.rec[n].item
  BY DEF AfterLine
<1>4. ASSUME mode = "app_server", NEW j \in 1..i, disk.lines[j].by \in Messages
       PROVE  /\ Accepted(new.rec[disk.lines[j].by])
              /\ new.rec[disk.lines[j].by].item = disk.lines[j].item
              /\ new.rec[disk.lines[j].by].turn = disk.lines[j].turn
  <2>1. j \in 1..(i - 1)
    BY <1>0, <1>4
  <2> QED BY <1>4, <2>1 DEF AfterLine
<1> QED BY <1>2, <1>3, <1>4 DEF AfterLine

\* One line of a batch.
LEMMA LineTaken ==
  ASSUME BatchInv, NEW i \in (cursor.at + 1)..Len(disk.lines), NEW acc \in AfterLine(i - 1),
         EventOf(cursor.at, i) \in EventSet
  PROVE  IngestEvent(acc, EventOf(cursor.at, i)) \in AfterLine(i)
<1> DEFINE e == EventOf(cursor.at, i)
<1>0. /\ i \in DOMAIN disk.lines /\ i - 1 \in Nat /\ i \in Nat /\ cursor.at \in Nat
      /\ disk.lines[i] \in LineSet /\ acc \in AccSet
      /\ \A m \in Messages :
           acc.rec[m].item # 0 =>
             /\ Accepted(acc.rec[m])
             /\ \E j \in DOMAIN disk.lines :
                  OfLine(acc.rec[m], m, j) /\ (mode = "app_server" => j <= i - 1)
  BY LineFacts
<1>1. GoodLine(disk.lines[i]) /\ RolloutTypes /\ LineInv
  BY <1>0 DEF BatchInv, LineInv, GoodLines, TypeInv
<1>2. e.visible = Visible(disk.lines[i]) /\ e.item = disk.lines[i].item /\ e.by = disk.lines[i].by
      /\ (disk.lines[i].turn # 0 => e.turn = disk.lines[i].turn)
  BY DEF EventOf, TurnOf
<1>3. e.by # "codex" =>
        /\ disk.lines[i].type = "user" /\ Visible(disk.lines[i]) /\ disk.lines[i].item # 0
        /\ e.turn = disk.lines[i].turn
  <2>1. disk.lines[i].turn > 0 => disk.lines[i].turn # 0
    BY <1>0 DEF LineSet
  <2>2. disk.lines[i].item > 0 => disk.lines[i].item # 0
    BY <1>0 DEF LineSet
  <2> QED BY <1>1, <1>2, <2>1, <2>2 DEF GoodLine, Visible
<1>4. mode = "app_server" /\ disk.lines[i].by \in Messages => ByClient(acc.rec, e) # {}
  BY ReturnIsAwaited
<1>5. \A m \in Messages : m # "codex"
  BY UplinkAssumption
<1>6. e \in EventSet /\ e = EventOf(cursor.at, i)
  OBVIOUS
<1> HIDE DEF e
\* Whoever has the item of the line has it from the line.
<1>7. ASSUME NEW n \in Messages, acc.rec[n].item = e.item, e.by # "codex"
      PROVE  mode # "app_server" /\ Known(acc.rec, e)
  <2>1. acc.rec[n].item # 0
    BY <1>2, <1>3, <1>7
  <2>2. PICK j \in DOMAIN disk.lines :
          OfLine(acc.rec[n], n, j) /\ (mode = "app_server" => j <= i - 1)
    BY <1>0, <2>1
  <2>3. disk.lines[j].type = "user" /\ disk.lines[j].item = acc.rec[n].item
        /\ disk.lines[j].turn = acc.rec[n].turn
    BY <2>2 DEF OfLine
  <2>4. Visible(disk.lines[j])
    BY <2>3 DEF Visible
  <2>5. i = j
    BY <1>0, <1>1, <1>2, <1>3, <1>7, <2>3, <2>4, ItemsDiffer
  <2>6. ~ (i <= i - 1)
    BY <1>0
  <2>7. acc.rec[n].turn = e.turn
    BY <1>3, <1>7, <2>3, <2>5
  <2>8. Accepted(acc.rec[n])
    BY <1>0, <2>1
  <2> QED BY <1>7, <2>2, <2>5, <2>6, <2>7, <2>8 DEF Known, Accepted
<1>8. CASE IngestEvent(acc, e) = acc /\ (mode = "app_server" => disk.lines[i].by \notin Messages)
  BY <1>0, <1>6, <1>8, LinePasses
<1>9. CASE IngestEvent(acc, e) = Show(acc, e) /\ (mode = "app_server" => disk.lines[i].by \notin Messages)
  <2>1. Show(acc, e) \in AccSet /\ Show(acc, e).rec = acc.rec
    BY <1>0, <1>6, ShowTyped
  <2> QED BY <1>6, <1>9, <2>1, LinePasses
<1>10. ASSUME NEW m \in ByClient(acc.rec, e), e.by # "codex", IngestEvent(acc, e) = ClaimFor(acc, m, e)
       PROVE  IngestEvent(acc, e) \in AfterLine(i)
  <2>1. m \in Messages /\ mode = "app_server" /\ e.by = m /\ acc.rec[m].state \in Claimable
    BY DEF ByClient
  <2>2. \A n \in Messages : n # m => acc.rec[n].item # disk.lines[i].item
    BY <1>2, <1>7, <1>10, <2>1
  <2>3. disk.lines[i].type = "user" /\ disk.lines[i].by = m
    BY <1>2, <1>3, <1>10, <2>1
  <2> QED BY <1>6, <1>10, <2>1, <2>2, <2>3, LineClaims
<1>11. ASSUME NEW m \in Delayed(acc.rec, e), e.by # "codex", ~ Known(acc.rec, e),
              IngestEvent(acc, e) = ClaimFor(acc, m, e)
       PROVE  IngestEvent(acc, e) \in AfterLine(i)
  <2>1. m \in Messages /\ acc.rec[m].state = "outcome_unknown" /\ acc.rec[m].request = "submitted"
        /\ SameText(m, e.by)
    BY DEF Delayed
  <2>2. mode # "app_server"
    <3>1. record[m].request = "submitted"
      BY <2>1 DEF AfterLine
    <3> QED BY <2>1, <3>1 DEF BatchInv, RecordInv, RecordOf
  <2>3. \A n \in Messages : n # m => acc.rec[n].item # disk.lines[i].item
    BY <1>2, <1>7, <1>11
  <2>4. disk.lines[i].type = "user" /\ SameText(m, disk.lines[i].by)
    BY <1>2, <1>3, <1>11, <2>1
  <2>5. acc.rec[m].state \in Claimable
    BY <2>1 DEF Claimable
  <2> QED BY <1>6, <1>11, <2>1, <2>2, <2>3, <2>4, <2>5, LineClaims
\* An invisible line is not of a message.
<1>12. e.visible = FALSE => disk.lines[i].by \notin Messages
  BY <1>2, <1>3, <1>5
<1>13. \/ IngestEvent(acc, e) = acc /\ (mode = "app_server" => disk.lines[i].by \notin Messages)
       \/ /\ e.by # "codex"
          /\ \E m \in ByClient(acc.rec, e) : IngestEvent(acc, e) = ClaimFor(acc, m, e)
       \/ /\ e.by # "codex" /\ ~ Known(acc.rec, e)
          /\ \E m \in Delayed(acc.rec, e) : IngestEvent(acc, e) = ClaimFor(acc, m, e)
       \/ IngestEvent(acc, e) = Show(acc, e) /\ (mode = "app_server" => disk.lines[i].by \notin Messages)
  <2>1. /\ \/ /\ IngestEvent(acc, e) = acc
              /\ \/ e.visible = FALSE
                 \/ e.visible = TRUE /\ e.by # "codex" /\ ByClient(acc.rec, e) = {}
           \/ /\ e.visible = TRUE /\ e.by # "codex"
              /\ \E m \in ByClient(acc.rec, e) : IngestEvent(acc, e) = ClaimFor(acc, m, e)
           \/ /\ e.visible = TRUE /\ e.by # "codex" /\ ~ Known(acc.rec, e)
              /\ \E m \in Delayed(acc.rec, e) : IngestEvent(acc, e) = ClaimFor(acc, m, e)
           \/ /\ e.visible = TRUE
              /\ e.by # "codex" => ByClient(acc.rec, e) = {}
              /\ IngestEvent(acc, e) = Show(acc, e)
    BY <1>0, <1>6, EventCases
  <2>2. e.by = "codex" => disk.lines[i].by \notin Messages
    BY <1>2, <1>5
  <2> QED BY <1>4, <1>12, <2>1, <2>2
<1>14. IngestEvent(acc, e) \in AfterLine(i)
  <2>1. CASE e.by # "codex"
             /\ \E m \in ByClient(acc.rec, e) : IngestEvent(acc, e) = ClaimFor(acc, m, e)
    <3>1. PICK m \in ByClient(acc.rec, e) : IngestEvent(acc, e) = ClaimFor(acc, m, e)
      BY <2>1
    <3> QED BY <1>10, <2>1, <3>1
  <2>2. CASE e.by # "codex" /\ ~ Known(acc.rec, e)
             /\ \E m \in Delayed(acc.rec, e) : IngestEvent(acc, e) = ClaimFor(acc, m, e)
    <3>1. PICK m \in Delayed(acc.rec, e) : IngestEvent(acc, e) = ClaimFor(acc, m, e)
      BY <2>2
    <3> QED BY <1>11, <2>2, <3>1
  <2> QED BY <1>6, <1>8, <1>9, <1>13, <2>1, <2>2
<1> QED BY <1>6, <1>14

\* The rows before a batch.
LEMMA BatchBegins ==
  ASSUME BatchInv
  PROVE  [rec |-> record, tomb |-> tombstone, out |-> mirrored] \in AfterLine(cursor.at)
<1> DEFINE base == [rec |-> record, tomb |-> tombstone, out |-> mirrored]
<1>1. base \in AccSet
  BY DEF BatchInv, TypeInv, BridgeTypes, AccSet
<1>2. \A m, n \in Messages : m # n /\ record[m].item # 0 => record[m].item # record[n].item
  BY DEF BatchInv, OneItemOneRecord
<1>3. mode = "app_server" =>
       \A j \in 1..cursor.at : disk.lines[j].by \in Messages =>
         /\ Accepted(record[disk.lines[j].by])
         /\ record[disk.lines[j].by].item = disk.lines[j].item
         /\ record[disk.lines[j].by].turn = disk.lines[j].turn
  BY DEF BatchInv, ReturnsAreKnown, Accepted
<1>4. base.rec = record
  OBVIOUS
<1> HIDE DEF base
<1>5. base \in AfterLine(cursor.at)
  BY <1>1, <1>2, <1>3, <1>4 DEF AfterLine
<1> QED BY <1>5 DEF base

\* The records a batch leaves.
LEMMA BatchRecords ==
  ASSUME BatchInv, NEW end \in Ingested(Batch(cursor.at).events)
  PROVE  end \in AfterLine(Len(disk.lines))
<1> DEFINE good == [i \in Nat |-> AfterLine(i)]
           base == [rec |-> record, tomb |-> tombstone, out |-> mirrored]
           at == cursor.at
<1>0. RolloutTypes /\ at \in Nat /\ Len(disk.lines) \in Nat /\ at <= Len(disk.lines)
  BY DEF BatchInv, TypeInv, RolloutTypes
<1>1. base \in AfterLine(at)
  BY BatchBegins
<1>2. good \in [Nat -> SUBSET AccSet]
  BY DEF AfterLine
<1>3. base \in good[at]
  BY <1>0, <1>1
<1>4. \A i \in (at + 1)..Len(disk.lines) : good[i - 1] = AfterLine(i - 1) /\ good[i] = AfterLine(i)
  <2> TAKE i \in (at + 1)..Len(disk.lines)
  <2>1. i - 1 \in Nat /\ i \in Nat
    BY <1>0
  <2> QED BY <2>1
<1>5. good[Len(disk.lines)] = AfterLine(Len(disk.lines))
  BY <1>0
<1> HIDE DEF good
<1>6. \A i \in (at + 1)..Len(disk.lines) : EventOf(at, i) \in EventSet =>
        \A acc \in good[i - 1] : IngestEvent(acc, EventOf(at, i)) \in good[i]
  BY <1>4, LineTaken
<1>7. end \in good[Len(disk.lines)]
  <2>1. end \in Ingested(Batch(at).events)
    OBVIOUS
  <2> HIDE DEF at
  <2> QED BY <1>0, <1>2, <1>3, <1>6, <2>1, BatchTaken
<1> QED BY <1>5, <1>7

\* A batch: the cursor is at the end of the file, the records are those after
\* its last line.
LEMMA IngestMoves ==
  ASSUME TypeInv, HandInv, Ingest
  PROVE  /\ BatchInv /\ cursor' # NoCursor /\ cursor'.at = Len(disk.lines)
         /\ UNCHANGED <<mode, disk, written, connectionVars, codexVars>>
         /\ main.pc = "read" /\ main'.pc \in {"drain", "input"}
         /\ \E acc \in AfterLine(Len(disk.lines)) : record' = acc.rec
<1>0. RolloutTypes /\ Len(disk.lines) \in Nat /\ cursor.at \in Nat /\ disk.id # 0
  BY DEF TypeInv, RolloutTypes, FileInv
<1>1. /\ main.pc = "read" /\ cursor # NoCursor /\ ~ Refused /\ main' = AfterRead
      /\ UNCHANGED <<mode, connectionVars, codexVars>>
  BY DEF Ingest, At
<1>2. PICK end \in Ingested(Batch(cursor.at).events) : Commit(Batch(cursor.at)) /\ record' = end.rec
  BY DEF Ingest
<1>3. cursor.at <= Len(disk.lines)
  BY <1>0, <1>1 DEF Refused, Replaced, Readable
<1>4. BatchInv
  BY <1>1, <1>3 DEF BatchInv, HandInv
<1>5. end \in AfterLine(Len(disk.lines))
  BY <1>4, BatchRecords
<1>6. cursor' = Batch(cursor.at).cursor /\ UNCHANGED <<disk, written>>
  BY <1>2 DEF Commit
<1>7. cursor'.at = Len(disk.lines) /\ cursor'.id = disk.id
  <2>1. Batch(cursor.at).cursor = [id |-> disk.id, at |-> Len(disk.lines),
                                last |-> IF cursor.at = Len(disk.lines) THEN cursor.last
                                         ELSE disk.lines[Len(disk.lines)]]
    BY <1>0, <1>3, BatchLines
  <2> QED BY <1>6, <2>1
<1>8. cursor' # NoCursor
  BY <1>0, <1>7 DEF NoCursor
<1>9. main'.pc \in {"drain", "input"}
  BY <1>1 DEF AfterRead, Loop
<1> QED BY <1>1, <1>2, <1>4, <1>5, <1>6, <1>7, <1>8, <1>9

-----------------------------------------------------------------------------
(* Where a message is after a step.                                        *)

\* What was handed over stays so.
LEMMA SentStays ==
  ASSUME TypeInv, HandInv, [Next]_vars, mode # "desktop_relay", NEW m \in Messages, Unsent(m)'
  PROVE  Unsent(m)
<1>0. /\ record \in [Messages -> RecordSet] /\ record[m] \in RecordSet /\ row = main.row
      /\ main.pc \in RowSteps => row \in Messages
      /\ record'[m].state \in {"none", "prepared"} \/ (main'.pc = "submit" /\ main'.row = m)
  BY DEF TypeInv, BridgeTypes, InboxInv, ToSet, RowSteps, row, Unsent
<1>1. CASE Ingest
  <2>1. PICK acc \in AfterLine(Len(disk.lines)) : record' = acc.rec
    BY <1>1, IngestMoves
  <2>2. main'.pc # "submit"
    BY <1>1, IngestMoves
  <2>3. record'[m].state \in {"none", "prepared"}
    BY <1>0, <2>2
  <2>4. acc.rec[m] = record[m]
    BY <2>1, <2>3 DEF AfterLine, CameWith
  <2> QED BY <2>1, <2>3, <2>4 DEF Unsent
<1>2. CASE record' = record /\ Waited
  <2>1. CASE record[m].state \in {"none", "prepared"}
    BY <2>1 DEF Unsent
  <2>2. CASE main'.pc = "submit" /\ main'.row = m
    <3>1. main.pc \in {"submit", "relayed", "confirm"} /\ main.row = m
      BY <1>2, <2>2 DEF Waited, HandSteps
    <3>2. PcStep
      BY PcSteps
    <3>3. main.pc = "submit"
      BY <2>2, <3>1, <3>2 DEF PcStep, Moves
    <3> QED BY <3>1, <3>3 DEF Unsent
  <2> QED BY <1>0, <1>2, <2>1, <2>2
<1>3. CASE FindTurn
  <2>1. PICK turn, item : Accept(row, turn, item)
    BY <1>3 DEF FindTurn
  <2>2. main'.pc # "submit"
    BY <2>1 DEF Accept, NextRow, Rest, Loop
  <2>3. record'[m].state \in {"none", "prepared"}
    BY <1>0, <2>2
  <2>4. record' = [record EXCEPT ![row].state = "accepted", ![row].turn = turn, ![row].item = item]
    BY <2>1 DEF Accept
  <2>5. m # row
    BY <1>0, <2>3, <2>4 DEF RecordSet
  <2> QED BY <1>0, <2>3, <2>4, <2>5 DEF Unsent
<1>4. ASSUME NEW n \in Messages, RecordMove(n), ~ FindTurn PROVE Unsent(m)
  <2>1. CASE n # m
    <3>1. record'[m] = record[m]
      BY <1>0, <1>4, <2>1 DEF RecordMove, HandSteps
    <3>2. main'.pc = "submit" => main'.row = n \/ (main' = main /\ main.pc # "submit")
      BY <1>4 DEF RecordMove, HandSteps
    <3> QED BY <1>0, <2>1, <3>1, <3>2 DEF Unsent
  <2>2. CASE n = m /\ record[m].state \in {"none", "prepared"}
    BY <2>2 DEF Unsent
  <2>3. CASE n = m /\ record[m].state \notin {"none", "prepared"}
    <3>1. main.pc # "relayed"
      BY DEF HandInv, ModeInv
    <3>2. main'.pc # "submit"
      BY <1>4, <2>3 DEF RecordMove, HandSteps
    <3>3. record'[m].state \notin {"none", "prepared"}
      BY <1>0, <1>4, <2>3, <3>1 DEF RecordMove, HandSteps, RecordSet
    <3> QED BY <1>0, <3>2, <3>3
  <2> QED BY <2>1, <2>2, <2>3
<1> QED BY <1>1, <1>2, <1>3, <1>4, RecordMoves DEF HandInv

\* A step that moves the message nowhere new.
FileCalm(m) ==
  \/ FileSame(m)
  \/ InTail(m) /\ ~ InTail(m)' /\ \E k : InFile(m)' = InFile(m) \cup {k}
  \/ InFile(m)' = {} /\ ~ InTail(m)'
Calm(m) ==
  /\ Pending(m)' \subseteq Pending(m) /\ InQueue(m)' = InQueue(m)
  /\ m \in desk' => m \in desk
  /\ FileCalm(m)

\* Such a step keeps the message in one place.
LEMMA CalmKept ==
  ASSUME NEW m, Once(m), Calm(m)
  PROVE  Once(m)' /\ (Nowhere(m) => Nowhere(m)')
<1>1. Pending(m)' \subseteq Pending(m) /\ InQueue(m)' = InQueue(m) /\ (m \in desk' => m \in desk)
  BY DEF Calm
<1>2. Single(Pending(m)') /\ Single(InQueue(m)')
  BY <1>1 DEF Once, Single
<1>3. CASE FileSame(m)
  BY <1>1, <1>2, <1>3 DEF FileSame, Once, Nowhere
<1>4. CASE InTail(m) /\ ~ InTail(m)' /\ \E k : InFile(m)' = InFile(m) \cup {k}
  <2>1. InFile(m) = {} /\ Pending(m) = {} /\ InQueue(m) = {} /\ m \notin desk
    BY <1>4 DEF Once
  <2>2. PICK k : InFile(m)' = InFile(m) \cup {k}
    BY <1>4
  <2>3. Single(InFile(m)')
    BY <2>1, <2>2 DEF Single
  <2>4. ~ Nowhere(m)
    BY <1>4 DEF Nowhere
  <2>5. Pending(m)' = {} /\ InQueue(m)' = {} /\ m \notin desk'
    BY <1>1, <2>1
  <2> QED BY <1>2, <1>4, <2>3, <2>4, <2>5 DEF Once
<1>5. CASE InFile(m)' = {} /\ ~ InTail(m)'
  BY <1>1, <1>2, <1>5 DEF Once, Nowhere, Single
<1> QED BY <1>3, <1>4, <1>5 DEF Calm, FileCalm

\* The message comes to the file from the queue or from the desktop.
LEMMA FileTakes ==
  ASSUME NEW m, FileGets(m), ~ InTail(m), InFile(m) = {},
         Pending(m)' = {}, InQueue(m)' = {}, m \notin desk'
  PROVE  Once(m)'
<1>1. CASE ~ InTail(m)' /\ \E k : InFile(m)' = InFile(m) \cup {k}
  <2>1. Single(InFile(m)')
    BY <1>1 DEF Single
  <2> QED BY <1>1, <2>1 DEF Once, Single
<1>2. CASE InTail(m)' /\ InFile(m)' = InFile(m)
  BY <1>2 DEF Once, Single
<1> QED BY <1>1, <1>2 DEF FileGets

\* The queue after its first entry is taken, and after one is added.
LEMMA QueueTaken ==
  ASSUME CodexTypes, queue # <<>>, queue' = Tail(queue), NEW m, Once(m)
  PROVE  /\ m = Head(queue) => InQueue(m) # {} /\ InQueue(m)' = {}
         /\ Single(InQueue(m)') /\ (InQueue(m) = {} => InQueue(m)' = {})
<1>1. /\ DOMAIN queue = 1..Len(queue) /\ Len(queue) \in Nat /\ Len(queue) # 0
      /\ DOMAIN (queue') = 1..(Len(queue) - 1) /\ Head(queue) = queue[1]
      /\ \A k \in 1..(Len(queue) - 1) : queue'[k] = queue[k + 1]
  BY DEF CodexTypes
<1>2. \A k \in InQueue(m)' : k \in Nat /\ k # 0 /\ k + 1 \in InQueue(m)
  BY <1>1 DEF InQueue
<1>3. 1 \in DOMAIN queue
  BY <1>1
<1>4. Single(InQueue(m))
  BY DEF Once
<1>5. ASSUME NEW j \in InQueue(m)', NEW k \in InQueue(m)' PROVE j = k
  <2>1. j + 1 = k + 1 /\ j \in Nat /\ k \in Nat
    BY <1>2, <1>4 DEF Single
  <2> QED BY <2>1
<1>6. ASSUME m = Head(queue) PROVE InQueue(m) # {} /\ InQueue(m)' = {}
  <2>1. 1 \in InQueue(m)
    BY <1>1, <1>3, <1>6 DEF InQueue
  <2>2. ASSUME NEW k \in InQueue(m)' PROVE FALSE
    <3>1. k + 1 = 1 /\ k \in Nat /\ k # 0
      BY <1>2, <1>4, <2>1 DEF Single
    <3> QED BY <3>1
  <2> QED BY <2>1, <2>2
<1>7. InQueue(m) = {} => InQueue(m)' = {}
  BY <1>2
<1> QED BY <1>5, <1>6, <1>7 DEF Single

\* A submission that is appended to the queue.
LEMMA QueueGrown ==
  ASSUME CodexTypes, NEW e \in Messages \cup {"local"}, queue' = Append(queue, e), NEW m
  PROVE  /\ e # m => InQueue(m)' = InQueue(m)
         /\ e = m => InQueue(m)' = InQueue(m) \cup {Len(queue) + 1}
<1>1. /\ DOMAIN queue = 1..Len(queue) /\ Len(queue) \in Nat
      /\ DOMAIN (queue') = DOMAIN queue \cup {Len(queue) + 1}
      /\ queue'[Len(queue) + 1] = e
      /\ \A k \in DOMAIN queue : queue'[k] = queue[k]
  BY DEF CodexTypes
<1> QED BY <1>1 DEF InQueue

\* Every step keeps a message in one place, and what was not handed over nowhere.
LEMMA PlaceSteps ==
  ASSUME TypeInv, HandInv, [Next]_vars, mode # "desktop_relay", NEW m \in Messages
  PROVE  Once(m)' /\ (Unsent(m)' => Nowhere(m)')
<1>0. /\ Once(m) /\ (Unsent(m) => Nowhere(m)) /\ (Unsent(m)' => Unsent(m))
      /\ m \notin {"local", "codex"}
      /\ RolloutTypes /\ TailInv /\ CodexTypes /\ served \subseteq asked
      /\ queue \in Seq(Messages \cup {"local"})
      /\ main.pc \in RowSteps => row \in Messages
  BY SentStays, UplinkAssumption
  DEF HandInv, PlaceInv, TypeInv, InboxInv, BridgeTypes, ToSet, RowSteps, row, CodexTypes, AnswerInv
<1>1. ASSUME Calm(m) PROVE Once(m)' /\ (Unsent(m)' => Nowhere(m)')
  BY <1>0, <1>1, CalmKept
\* The parts that a step leaves alone.
<1>2. /\ UNCHANGED <<asked, served>> => Pending(m)' = Pending(m)
      /\ UNCHANGED queue => InQueue(m)' = InQueue(m)
      /\ UNCHANGED disk => FileSame(m)
  BY DEF Pending, InQueue, FileSame, InFile, InTail
<1>3. CASE UNCHANGED <<disk, asked, served, queue, desk>>
  BY <1>1, <1>2, <1>3 DEF Calm, FileCalm
<1>4. CASE RefuseSource \/ ResumeRaises \/ Crash
  <2>1. asked' = {} /\ UNCHANGED <<disk, queue, desk>>
    BY <1>4 DEF RefuseSource, ResumeRaises, Crash, Die, Reconnect, ForgetCache
  <2>2. Pending(m)' = {}
    BY <2>1 DEF Pending
  <2> QED BY <1>1, <1>2, <2>1, <2>2 DEF Calm, FileCalm
<1>5. CASE Respond
  <2>1. PICK call \in asked : Resolve(call)
    BY <1>5 DEF Respond, Answer, DropLate, RejectAnswer
  <2>2. Pending(m)' \subseteq Pending(m)
    BY <2>1 DEF Resolve, Pending
  <2>3. UNCHANGED <<disk, queue, desk>>
    BY <1>5 DEF Respond, rolloutVars, codexVars
  <2> QED BY <1>1, <1>2, <2>2, <2>3 DEF Calm, FileCalm
<1>6. CASE AskRequirements \/ AskList \/ AskResume \/ AskTitle
  <2>1. PICK call : asked' = asked \cup {call} /\ call.method # "add" /\ served' = served
    <3>1. PICK c, method, msg : Request(c, method, msg) /\ method # "add"
      BY <1>6 DEF AskRequirements, AskList, AskResume, AskTitle
    <3>2. Call(c, method, msg).method = method
      BY DEF Call
    <3> QED BY <3>1, <3>2 DEF Request
  <2>2. Pending(m)' \subseteq Pending(m)
    BY <2>1 DEF Pending
  <2>3. UNCHANGED <<disk, queue, desk>>
    BY <1>6 DEF AskRequirements, AskList, AskResume, AskTitle, rolloutVars, codexVars
  <2> QED BY <1>1, <1>2, <2>2, <2>3 DEF Calm, FileCalm
<1>7. CASE AskAdd
  <2>1. /\ main.pc = "add" /\ main' = main /\ record[row].state = "prepared"
        /\ record' = [record EXCEPT ![row].state = "bytes_sending", ![row].request = "rpc"]
        /\ UNCHANGED <<disk, queue, desk, served>>
    BY <1>7 DEF AskAdd, At, Request, rolloutVars, codexVars
  <2>2. PICK call : asked' = asked \cup {call} /\ call.msg = row /\ call.method = "add"
    <3>1. Request("main", "add", row)
      BY <1>7 DEF AskAdd
    <3>2. Call("main", "add", row).method = "add" /\ Call("main", "add", row).msg = row
      BY DEF Call
    <3> QED BY <3>1, <3>2 DEF Request
  <2>3. CASE m # row
    <3>1. Pending(m)' \subseteq Pending(m)
      BY <2>1, <2>2, <2>3 DEF Pending
    <3> QED BY <1>1, <1>2, <2>1, <3>1 DEF Calm, FileCalm
  <2>4. CASE m = row
    <3>1. Nowhere(m)
      BY <1>0, <2>1, <2>4 DEF Unsent
    <3>2. Pending(m)' \subseteq {call}
      BY <2>1, <2>2, <3>1 DEF Pending, Nowhere
    <3>3. Single(Pending(m)')
      BY <3>2 DEF Single
    <3>4. InQueue(m)' = {} /\ m \notin desk' /\ InFile(m)' = {} /\ ~ InTail(m)'
      BY <1>2, <2>1, <3>1 DEF Nowhere, FileSame
    <3>5. Once(m)'
      BY <3>3, <3>4 DEF Once, Single
    <3>6. ~ Unsent(m)'
      <4>1. record'[m].state = "bytes_sending" /\ main'.pc # "submit"
        BY <2>1, <2>4 DEF TypeInv, BridgeTypes, RecordSet
      <4> QED BY <4>1 DEF Unsent
    <3> QED BY <3>5, <3>6
  <2> QED BY <2>3, <2>4
<1>8. CASE Enqueue
  <2>1. PICK call \in asked : call.method = "add" /\ Serve(call) /\ queue' = Append(queue, call.msg)
    BY <1>8 DEF Enqueue
  <2>2. /\ call \in asked \ served /\ asked' = asked /\ served' = served \cup {call}
        /\ UNCHANGED <<disk, desk>> /\ call.msg \in Messages
    BY <1>8, <2>1 DEF Enqueue, Serve, rolloutVars, TypeInv, CallInv
  <2>3. Pending(m)' = Pending(m) \ {call}
    BY <2>1, <2>2 DEF Pending
  <2>4. CASE m # call.msg
    <3>1. InQueue(m)' = InQueue(m)
      BY <1>0, <2>1, <2>2, <2>4, QueueGrown
    <3> QED BY <1>1, <1>2, <2>2, <2>3, <3>1 DEF Calm, FileCalm
  <2>5. CASE m = call.msg
    <3>1. call \in Pending(m)
      BY <2>1, <2>2, <2>5 DEF Pending
    <3>2. /\ InQueue(m) = {} /\ m \notin desk /\ InFile(m) = {} /\ ~ InTail(m)
          /\ \A other \in Pending(m) : other = call
      BY <1>0, <3>1 DEF Once, Single
    <3>3. Pending(m)' = {}
      BY <2>3, <3>2
    <3>4. InQueue(m)' = InQueue(m) \cup {Len(queue) + 1}
      BY <1>0, <2>1, <2>2, <2>5, QueueGrown
    <3>5. Single(InQueue(m)')
      BY <3>2, <3>4 DEF Single
    <3>6. m \notin desk' /\ InFile(m)' = {} /\ ~ InTail(m)'
      BY <1>2, <2>2, <3>2 DEF FileSame
    <3>7. Once(m)'
      BY <3>3, <3>5, <3>6 DEF Once, Single
    <3>8. ~ Nowhere(m)
      BY <3>1 DEF Nowhere
    <3> QED BY <1>0, <3>7, <3>8
  <2> QED BY <2>4, <2>5
<1>9. CASE QueueLocal
  <2>1. queue' = Append(queue, "local") /\ UNCHANGED <<disk, asked, served, desk>>
    BY <1>9 DEF QueueLocal, rolloutVars, connectionVars
  <2>2. InQueue(m)' = InQueue(m)
    BY <1>0, <2>1, QueueGrown
  <2> QED BY <1>1, <1>2, <2>1, <2>2 DEF Calm, FileCalm
<1>10. CASE TakeQueued
  <2>1. /\ queue # <<>> /\ queue' = Tail(queue) /\ UNCHANGED <<asked, served, desk>>
        /\ Head(queue) \in Messages \cup {"local"}
    BY <1>0, <1>10 DEF TakeQueued, connectionVars
  <2>2. PICK partial \in BOOLEAN : WriteUser(Head(queue), partial)
    BY <1>10 DEF TakeQueued, Partial
  <2>3. /\ m = Head(queue) => InQueue(m) # {} /\ InQueue(m)' = {}
        /\ Single(InQueue(m)') /\ (InQueue(m) = {} => InQueue(m)' = {})
    BY <1>0, <2>1, QueueTaken
  <2>4. /\ ~ InTail(m)
        /\ m # Head(queue) => FileSame(m)
        /\ m = Head(queue) => FileGets(m)
    BY <1>0, <2>1, <2>2, FileOfUser
  <2>5. CASE m # Head(queue)
    <3>1. FileSame(m) /\ Pending(m)' = Pending(m) /\ desk' = desk
      BY <1>2, <2>1, <2>4, <2>5
    <3>2. Once(m)'
      BY <1>0, <2>3, <3>1 DEF Once, FileSame
    <3>3. Nowhere(m) => Nowhere(m)'
      BY <2>3, <3>1 DEF Nowhere, FileSame
    <3> QED BY <1>0, <3>2, <3>3
  <2>6. CASE m = Head(queue)
    <3>1. InQueue(m) # {} /\ InQueue(m)' = {} /\ FileGets(m) /\ Pending(m)' = Pending(m) /\ desk' = desk
      BY <1>2, <2>1, <2>3, <2>4, <2>6
    <3>2. Pending(m) = {} /\ m \notin desk /\ InFile(m) = {} /\ ~ InTail(m)
      BY <1>0, <3>1 DEF Once
    <3>3. Once(m)'
      BY <3>1, <3>2, FileTakes
    <3>4. ~ Nowhere(m)
      BY <3>1 DEF Nowhere
    <3> QED BY <1>0, <3>3, <3>4
  <2> QED BY <2>5, <2>6
<1>11. CASE TakeSubmission
  <2>1. PICK n \in desk : \E partial \in Partial : WriteUser(n, partial) /\ desk' = desk \ {n}
    BY <1>11 DEF TakeSubmission
  <2>2. PICK partial \in BOOLEAN : WriteUser(n, partial)
    BY <2>1 DEF Partial
  <2>3. /\ UNCHANGED <<asked, served, queue>> /\ n \in Messages \cup {"local"}
        /\ desk' = desk \ {n}
    BY <1>0, <1>11, <2>1 DEF TakeSubmission, connectionVars, CodexTypes
  <2>4. /\ ~ InTail(m)
        /\ m # n => FileSame(m)
        /\ m = n => FileGets(m)
    BY <1>0, <2>2, <2>3, FileOfUser
  <2>5. CASE m # n
    BY <1>1, <1>2, <2>3, <2>4, <2>5 DEF Calm, FileCalm
  <2>6. CASE m = n
    <3>1. m \in desk /\ m \notin desk' /\ FileGets(m) /\ Pending(m)' = Pending(m) /\ InQueue(m)' = InQueue(m)
      BY <1>2, <2>3, <2>4, <2>6
    <3>2. Pending(m) = {} /\ InQueue(m) = {} /\ InFile(m) = {} /\ ~ InTail(m)
      BY <1>0, <3>1 DEF Once
    <3>3. Once(m)'
      BY <3>1, <3>2, FileTakes
    <3>4. ~ Nowhere(m)
      BY <3>1 DEF Nowhere
    <3> QED BY <1>0, <3>3, <3>4
  <2> QED BY <2>5, <2>6
<1>12. CASE Submit
  <2>1. /\ main.pc = "submit" /\ row \in Messages /\ UNCHANGED <<disk, asked, served, queue>>
        /\ desk' = desk \/ desk' = desk \cup {row}
    BY <1>0, <1>12 DEF Submit, At, RowSteps, rolloutVars, connectionVars, Taken
  <2>2. CASE desk' = desk \/ m # row
    BY <1>1, <1>2, <2>1, <2>2 DEF Calm, FileCalm
  <2>3. CASE m = row /\ desk' = desk \cup {row}
    <3>1. Nowhere(m)
      BY <1>0, <2>1, <2>3 DEF Unsent, row
    <3>2. Pending(m)' = {} /\ InQueue(m)' = {} /\ InFile(m)' = {} /\ ~ InTail(m)'
      BY <1>2, <2>1, <3>1 DEF Nowhere, FileSame
    <3>3. Once(m)'
      BY <3>2 DEF Once, Single
    <3>4. ~ Unsent(m)'
      <4>1. record[m].state = "bytes_sending" /\ record[m] \in RecordSet
        BY <2>1, <2>3 DEF HandInv, RowInv, row, TypeInv, BridgeTypes
      <4>2. \/ record' = [record EXCEPT ![row].request = "submitted"] /\ Go("confirm")
            \/ SetState(row, "outcome_unknown") /\ main' = NextRow
        BY <1>12 DEF Submit
      <4>3. record'[m].state \in {"bytes_sending", "outcome_unknown"}
        BY <2>1, <2>3, <4>1, <4>2 DEF SetState, TypeInv, BridgeTypes, RecordSet
      <4>4. main'.pc # "submit"
        BY <4>2 DEF Go, NextRow, Rest, Loop, TypeInv, BridgeTypes, MainSet
      <4> QED BY <4>3, <4>4 DEF Unsent
    <3> QED BY <3>3, <3>4
  <2> QED BY <2>1, <2>2, <2>3
<1>13. CASE Writes \/ FinishTurn
  <2>1. UNCHANGED <<asked, served, queue, desk>>
    BY <1>13 DEF Writes, FinishTurn, connectionVars, codexVars
  <2>2. \/ \E partial \in BOOLEAN : WriteUser("local", partial)
        \/ \E partial \in BOOLEAN : WriteAssistant(partial)
        \/ EndTurn \/ WriteBlank \/ CompleteLine \/ ReplaceFile
    BY <1>13 DEF Writes, FinishTurn, Partial
  <2>3. FileCalm(m)
    <3>1. CASE \E partial \in BOOLEAN : WriteUser("local", partial)
      <4>1. PICK partial \in BOOLEAN : WriteUser("local", partial)
        BY <3>1
      <4> QED BY <1>0, <4>1, FileOfUser DEF FileCalm
    <3>2. CASE \/ \E partial \in BOOLEAN : WriteAssistant(partial)
               \/ EndTurn \/ WriteBlank \/ CompleteLine \/ ReplaceFile
      BY <1>0, <3>2, FileOfOthers DEF FileCalm
    <3> QED BY <2>2, <3>1, <3>2
  <2> QED BY <1>1, <1>2, <2>1, <2>3 DEF Calm
<1>14. CASE TakeInstruction \/ Delegate
  <2>1. relay.log = <<>> /\ relay.inbox = <<>> /\ relay.done \in Nat /\ Len(<<>>) = 0
    BY <1>0 DEF HandInv, ModeInv, CodexTypes
  <2> QED BY <1>14, <2>1 DEF TakeInstruction, Delegate
<1>15. CASE Activate \/ Ingest \/ Select \/ Row \/ Start \/ Time \/ UNCHANGED vars
            \/ \E n \in Messages : Receive(n)
  BY <1>3, <1>15 DEF Activate, Checkpoint, Ingest, Commit, Select, Row, Start, Time, GrowOld, Release,
     Receive, vars, rolloutVars, connectionVars, codexVars
<1>16. CASE NoRequirements \/ GotRequirements \/ NoAdd \/ GotAdd \/ NoList \/ GotList \/ DrainNote
            \/ Drained \/ GotResume
  BY <1>3, <1>16 DEF NoRequirements, GotRequirements, NoAdd, GotAdd, NoList, GotList, DrainNote,
     Drained, GotResume, rolloutVars, connectionVars, codexVars
<1>17. CASE Snapshot \/ FindRelay \/ MissRelay \/ FindTurn \/ GiveUp
  BY <1>3, <1>17 DEF Snapshot, FindRelay, MissRelay, FindTurn, GiveUp, rolloutVars, connectionVars,
     codexVars
<1>18. CASE EndOfOutput \/ Impatience \/ GotTitle
  BY <1>3, <1>18 DEF EndOfOutput, CloseOutput, Impatience, TimeOut, Expire, GotTitle, rolloutVars,
     codexVars
<1> QED
  BY <1>4, <1>5, <1>6, <1>7, <1>8, <1>9, <1>10, <1>11, <1>12, <1>13, <1>14, <1>15, <1>16, <1>17, <1>18
  DEF Next, MainStep, AppServerStep, DesktopStep, CodexStep

\* So PlaceInv is kept.
LEMMA PlaceKept ==
  ASSUME TypeInv, HandInv, [Next]_vars
  PROVE  PlaceInv'
<1>1. mode' = mode
  BY PcSteps
<1>2. mode # "desktop_relay" => \A m \in Messages : Once(m)' /\ (Unsent(m)' => Nowhere(m)')
  BY PlaceSteps
<1> QED BY <1>1, <1>2 DEF PlaceInv

-----------------------------------------------------------------------------
(* What the responses say.                                                 *)

\* An entry that is not the first stays in the queue.
LEMMA QueueKeeps ==
  ASSUME CodexTypes, queue # <<>>, queue' = Tail(queue), NEW m, m # Head(queue), InQueue(m) # {}
  PROVE  InQueue(m)' # {}
<1>1. /\ DOMAIN queue = 1..Len(queue) /\ Len(queue) \in Nat /\ Len(queue) # 0
      /\ DOMAIN (queue') = 1..(Len(queue) - 1) /\ Head(queue) = queue[1]
      /\ \A k \in 1..(Len(queue) - 1) : queue'[k] = queue[k + 1]
  BY DEF CodexTypes
<1>2. PICK j \in DOMAIN queue : queue[j] = m
  BY DEF InQueue
<1>3. j # 1 /\ j - 1 \in 1..(Len(queue) - 1) /\ (j - 1) + 1 = j
  BY <1>1, <1>2
<1>4. queue'[j - 1] = m /\ j - 1 \in DOMAIN (queue')
  BY <1>1, <1>2, <1>3
<1> QED BY <1>4 DEF InQueue

\* What App Server has taken stays with Codex.
LEMMA ArrivedStays ==
  ASSUME TypeInv, HandInv, [Next]_vars, mode = "app_server", NEW m \in Messages, Arrived(m)
  PROVE  Arrived(m)'
<1>0. /\ CodexTypes /\ RolloutTypes /\ TailInv /\ m # "local" /\ desk = {}
      /\ relay.log = <<>> /\ relay.inbox = <<>> /\ relay.done \in Nat /\ Len(<<>>) = 0
      /\ queue \in Seq(Messages \cup {"local"})
  BY UplinkAssumption DEF TypeInv, HandInv, ModeInv, CodexTypes
<1>1. /\ UNCHANGED queue => InQueue(m)' = InQueue(m)
      /\ UNCHANGED disk => FileSame(m)
  BY DEF InQueue, FileSame, InFile, InTail
<1>2. CASE UNCHANGED <<queue, disk>>
  BY <1>1, <1>2 DEF Arrived, FileSame
<1>3. CASE Enqueue \/ QueueLocal
  <2>1. PICK e \in Messages \cup {"local"} : queue' = Append(queue, e)
    BY <1>3 DEF Enqueue, QueueLocal, TypeInv, CallInv
  <2>2. InQueue(m) \subseteq InQueue(m)'
    BY <1>0, <2>1, QueueGrown
  <2>3. FileSame(m)
    BY <1>1, <1>3 DEF Enqueue, QueueLocal, rolloutVars
  <2> QED BY <2>2, <2>3 DEF Arrived, FileSame
<1>4. CASE TakeQueued
  <2>1. queue # <<>> /\ queue' = Tail(queue) /\ Head(queue) \in Messages \cup {"local"}
    BY <1>0, <1>4 DEF TakeQueued
  <2>2. PICK partial \in BOOLEAN : WriteUser(Head(queue), partial)
    BY <1>4 DEF TakeQueued, Partial
  <2>3. /\ m # Head(queue) => FileSame(m)
        /\ m = Head(queue) => FileGets(m)
    BY <1>0, <2>1, <2>2, FileOfUser
  <2>4. CASE m # Head(queue)
    <3>1. InQueue(m) # {} => InQueue(m)' # {}
      BY <1>0, <2>1, <2>4, QueueKeeps
    <3> QED BY <2>3, <2>4, <3>1 DEF Arrived, FileSame
  <2>5. CASE m = Head(queue)
    <3>1. InTail(m)' \/ InFile(m)' # {}
      BY <2>3, <2>5 DEF FileGets
    <3> QED BY <3>1 DEF Arrived
  <2> QED BY <2>4, <2>5
<1>5. CASE Writes \/ FinishTurn
  <2>1. (CompleteLine \/ EndTurn) /\ queue' = queue
    BY <1>5 DEF Writes, FinishTurn, codexVars
  <2>2. ~ ReplaceFile
    <3>1. ReplaceFile => disk'.nth = disk.nth + 1
      BY DEF ReplaceFile
    <3>2. CompleteLine \/ EndTurn => disk'.nth = disk.nth
      BY <1>0 DEF CompleteLine, EndTurn, Write, RolloutTypes
    <3> QED BY <1>0, <2>1, <3>1, <3>2 DEF RolloutTypes
  <2>3. \/ FileSame(m)
        \/ InTail(m) /\ ~ InTail(m)' /\ \E k : InFile(m)' = InFile(m) \cup {k}
    BY <1>0, <2>1, <2>2, FileOfOthers
  <2> QED BY <1>1, <2>1, <2>3 DEF Arrived, FileSame
<1>6. CASE TakeSubmission \/ TakeInstruction \/ Delegate
  BY <1>0, <1>6 DEF TakeSubmission, TakeInstruction, Delegate
<1>7. CASE Activate \/ Ingest \/ Select \/ Row \/ Start \/ Time \/ UNCHANGED vars
            \/ RefuseSource \/ ResumeRaises \/ Crash \/ (\E n \in Messages : Receive(n))
  BY <1>2, <1>7 DEF Activate, Checkpoint, Ingest, Commit, Select, Row, Start, Time, GrowOld, Release,
     Receive, vars, rolloutVars, codexVars, RefuseSource, ResumeRaises, Crash, Die, ForgetCache
<1>8. CASE AskRequirements \/ AskAdd \/ AskList \/ AskResume \/ AskTitle \/ NoRequirements
           \/ GotRequirements \/ NoAdd \/ GotAdd \/ NoList \/ GotList \/ DrainNote
           \/ Drained \/ GotResume
  BY <1>2, <1>8 DEF AskRequirements, AskAdd, AskList, AskResume, AskTitle, NoRequirements,
     GotRequirements, NoAdd, GotAdd, NoList, GotList, DrainNote, Drained, GotResume, rolloutVars, codexVars
<1>9. CASE Snapshot \/ FindRelay \/ MissRelay \/ FindTurn \/ GiveUp \/ Submit
  BY <1>2, <1>9 DEF Snapshot, FindRelay, MissRelay, FindTurn, GiveUp, Submit, rolloutVars, codexVars
<1>10. CASE Respond \/ EndOfOutput \/ Impatience \/ GotTitle
  BY <1>2, <1>10 DEF Respond, EndOfOutput, Impatience, GotTitle, rolloutVars, codexVars
<1> QED
  BY <1>3, <1>4, <1>5, <1>6, <1>7, <1>8, <1>9, <1>10
  DEF Next, MainStep, AppServerStep, DesktopStep, CodexStep

\* What becomes of the wait of a caller.
WaitMove(c) ==
  \/ waiting'[c] = Idle
  \/ /\ waiting'[c].call = waiting[c].call /\ waiting[c] # Idle
     /\ \/ waiting'[c].reply \in {waiting[c].reply, "timeout"}
        \/ waiting[c].call \in asked /\ waiting'[c].reply \in Replies(waiting[c].call)
  \/ waiting'[c].reply = "none"

\* A wait ends, times out, is answered, or begins.
LEMMA WaitMoves ==
  ASSUME TypeInv, [Next]_vars, NEW c \in Callers
  PROVE  WaitMove(c)
<1>0. /\ waiting \in [Callers -> WaitSet] /\ DOMAIN waiting = Callers /\ waiting[c] \in WaitSet
      /\ Idle.stage = "idle" /\ ConnectionStep
  BY ConnectionSteps DEF TypeInv, ConnectionTypes, Idle
<1>1. CASE waiting' = waiting \/ waiting'[c] = waiting[c]
  BY <1>1 DEF WaitMove
<1>2. ASSUME NEW d \in Callers, NEW method, NEW msg, Request(d, method, msg) PROVE WaitMove(c)
  <2>1. waiting' = [waiting EXCEPT ![d] =
                   [stage |-> "waiting", call |-> Call(d, method, msg), reply |-> "none"]]
    BY <1>2 DEF Request
  <2>2. c = d \/ waiting'[c] = waiting[c]
    BY <1>0, <2>1
  <2>3. c = d => waiting'[c].reply = "none"
    BY <1>0, <2>1
  <2> QED BY <1>1, <2>2, <2>3 DEF WaitMove
<1>3. ASSUME NEW call \in asked, NEW reply \in Replies(call), Answer(call, reply) PROVE WaitMove(c)
  <2>1. PICK d \in Callers :
           /\ waiting[d].call = call
           /\ waiting' = [waiting EXCEPT ![d] =
                IF @.stage = "waiting" THEN [@ EXCEPT !.stage = "has", !.reply = reply] ELSE @]
    BY <1>3 DEF Answer, Waits
  <2>2. c = d \/ waiting'[c] = waiting[c]
    BY <1>0, <2>1
  <2>3. CASE c = d /\ waiting[c].stage = "waiting"
    <3>1. waiting'[c] = [waiting[c] EXCEPT !.stage = "has", !.reply = reply]
      BY <1>0, <2>1, <2>3
    <3>2. waiting'[c].call = waiting[c].call /\ waiting'[c].reply = reply /\ waiting[c] # Idle
      BY <1>0, <2>3, <3>1 DEF WaitSet
    <3> QED BY <1>3, <2>1, <2>3, <3>2 DEF WaitMove
  <2>4. CASE c = d /\ waiting[c].stage # "waiting"
    <3>1. waiting'[c] = waiting[c]
      BY <1>0, <2>1, <2>4
    <3> QED BY <1>1, <3>1
  <2> QED BY <1>1, <2>2, <2>3, <2>4
<1>4. ASSUME NEW d \in Callers, TimeOut(d) \/ Expire(d) PROVE WaitMove(c)
  <2>1. /\ waiting[d].stage \in {"waiting", "empty"}
        /\ \/ waiting' = [waiting EXCEPT ![d].stage = "empty"]
           \/ waiting' = [waiting EXCEPT ![d].stage = "expired", ![d].reply = "timeout"]
    BY <1>4 DEF TimeOut, Expire
  <2>2. c = d \/ waiting'[c] = waiting[c]
    BY <1>0, <2>1
  <2>3. CASE c = d
    <3>1. \/ waiting'[c] = [waiting[c] EXCEPT !.stage = "empty"]
          \/ waiting'[c] = [waiting[c] EXCEPT !.stage = "expired", !.reply = "timeout"]
      BY <1>0, <2>1, <2>3
    <3>2. waiting'[c].call = waiting[c].call /\ waiting'[c].reply \in {waiting[c].reply, "timeout"}
      BY <1>0, <3>1 DEF WaitSet
    <3>3. waiting[c] # Idle
      BY <1>0, <2>1, <2>3
    <3> QED BY <3>2, <3>3 DEF WaitMove
  <2> QED BY <1>1, <2>2, <2>3
<1>5. ASSUME NEW d \in Callers, Leave(d) PROVE WaitMove(c)
  <2>1. waiting' = [waiting EXCEPT ![d] = Idle]
    BY <1>5 DEF Leave
  <2>2. waiting'[c] = Idle \/ waiting'[c] = waiting[c]
    BY <1>0, <2>1
  <2> QED BY <1>1, <2>2 DEF WaitMove
<1>6. CASE Reconnect
  BY <1>6 DEF Reconnect, WaitMove
<1> QED
  BY <1>0, <1>1, <1>2, <1>3, <1>4, <1>5, <1>6
  DEF ConnectionStep, Serve, DropLate, RejectAnswer, CloseOutput, connectionVars

\* An entry that is found is there.
LEMMA FoundIsThere ==
  ASSUME NEW call \in CallSet, "found" \in Replies(call), call.method = "list"
  PROVE  InQueue(call.msg) # {}
<1>1. Entries(call.msg) = 1
  BY DEF Replies
<1>2. Cardinality(InQueue(call.msg)) = 1
  BY <1>1 DEF Entries, InQueue
<1> QED BY <1>2, FS_EmptySet

\* Where the main loop waits, it stays there.
LEMMA MainWait ==
  ASSUME TypeInv, HandInv, [Next]_vars, waiting'["main"] # Idle
  PROVE  /\ waiting'["main"].call.method = main'.pc
         /\ main'.pc # "resume" => waiting'["main"].call.msg = main'.row
<1> DEFINE w == waiting["main"]
<1>0. /\ "main" \in Callers /\ waiting \in [Callers -> WaitSet] /\ w \in WaitSet
      /\ w # Idle => main.pc \in {"requirements", "add", "list", "resume"}
      /\ w # Idle => w.call.method = main.pc /\ (main.pc # "resume" => w.call.msg = main.row)
      /\ Idle.call = NoCall /\ Idle.stage = "idle" /\ row = main.row
  BY UplinkAssumption DEF TypeInv, ConnectionTypes, WaitInv, HandInv, AnswerInv, Idle, row
<1>1. CASE main' = main /\ waiting'["main"].call = w.call /\ w # Idle
  BY <1>0, <1>1
<1>2. ASSUME main' = main, NEW method, NEW msg, Request("main", method, msg), method = main.pc,
             main.pc # "resume" => msg = main.row
      PROVE  /\ waiting'["main"].call.method = main'.pc
             /\ main'.pc # "resume" => waiting'["main"].call.msg = main'.row
  <2>1. waiting'["main"].call = Call("main", method, msg)
    BY <1>0, <1>2 DEF Request
  <2> QED BY <1>2, <2>1 DEF Call
<1>3. CASE AskRequirements \/ AskAdd \/ AskList \/ AskResume
  <2>1. main' = main
    BY <1>3 DEF AskRequirements, AskAdd, AskList, AskResume, bridgeVars
  <2>2. \/ main.pc = "requirements" /\ Request("main", "requirements", row)
        \/ main.pc = "add" /\ Request("main", "add", row)
        \/ main.pc = "list" /\ Request("main", "list", row)
        \/ main.pc = "resume" /\ Request("main", "resume", "none")
    BY <1>3 DEF AskRequirements, AskAdd, AskList, AskResume, At
  <2> QED BY <1>0, <1>2, <2>1, <2>2
<1>4. CASE RefuseSource \/ ResumeRaises \/ Crash \/ GotRequirements \/ GotAdd \/ GotList \/ GotResume
  <2>1. waiting'["main"] = Idle
    BY <1>0, <1>4 DEF RefuseSource, ResumeRaises, Crash, Die, Reconnect, GotRequirements, GotAdd,
       GotList, GotResume, Leave
  <2> QED BY <2>1
<1>5. CASE NoRequirements \/ NoAdd \/ NoList
  BY <1>5 DEF NoRequirements, NoAdd, NoList, Idling, connectionVars
<1>6. CASE Activate \/ Ingest \/ Select \/ Row \/ DrainNote \/ Drained \/ DesktopStep \/ Start
  <2>1. waiting' = waiting
    BY <1>6 DEF Activate, Ingest, Select, Row, DrainNote, Drained, DesktopStep, Snapshot, Submit,
       FindRelay, MissRelay, FindTurn, GiveUp, Start, connectionVars
  <2>2. main.pc \notin {"requirements", "add", "list", "resume"}
    BY <1>6 DEF Activate, Ingest, Select, Row, DrainNote, Drained, DesktopStep, Snapshot, Submit,
       FindRelay, MissRelay, FindTurn, GiveUp, Start, At
  <2> QED BY <1>0, <2>1, <2>2
<1>7. CASE CodexStep \/ Time \/ (\E m \in Messages : Receive(m)) \/ UNCHANGED vars
  <2>1. UNCHANGED <<main, waiting>>
    BY <1>7 DEF CodexStep, Enqueue, Serve, QueueLocal, TakeQueued, FinishTurn, Writes, TakeSubmission,
       TakeInstruction, Delegate, Time, GrowOld, Release, Receive, vars, bridgeVars, connectionVars
  <2> QED BY <1>1, <2>1
<1>8. CASE AskTitle \/ GotTitle
  <2>1. main' = main
    BY <1>8 DEF AskTitle, GotTitle, bridgeVars
  <2>2. waiting'["main"] = waiting["main"]
    BY <1>0, <1>8 DEF AskTitle, GotTitle, Request, Leave
  <2> QED BY <1>1, <2>1, <2>2
<1>9. CASE Respond \/ EndOfOutput \/ Impatience
  <2>1. main' = main
    BY <1>9 DEF Respond, EndOfOutput, Impatience, bridgeVars
  <2>2. waiting'["main"].call = w.call /\ w # Idle
    <3>1. CASE waiting' = waiting
      BY <3>1
    <3>2. ASSUME NEW d \in Callers, TimeOut(d) \/ Expire(d) PROVE waiting'["main"].call = w.call /\ w # Idle
      <4>1. /\ waiting[d].stage \in {"waiting", "empty"}
            /\ \/ waiting' = [waiting EXCEPT ![d].stage = "empty"]
               \/ waiting' = [waiting EXCEPT ![d].stage = "expired", ![d].reply = "timeout"]
        BY <3>2 DEF TimeOut, Expire
      <4>2. CASE d # "main"
        BY <1>0, <4>1, <4>2
      <4>3. CASE d = "main"
        <5>1. \/ waiting'["main"] = [w EXCEPT !.stage = "empty"]
              \/ waiting'["main"] = [w EXCEPT !.stage = "expired", !.reply = "timeout"]
          BY <1>0, <4>1, <4>3
        <5> QED BY <1>0, <4>1, <4>3, <5>1 DEF WaitSet
      <4> QED BY <4>2, <4>3
    <3>3. ASSUME NEW call, NEW reply, Answer(call, reply) PROVE waiting'["main"].call = w.call /\ w # Idle
      <4>1. PICK d \in Callers :
               waiting' = [waiting EXCEPT ![d] =
                    IF @.stage = "waiting" THEN [@ EXCEPT !.stage = "has", !.reply = reply] ELSE @]
        BY <3>3 DEF Answer
      <4>2. CASE d # "main" \/ w.stage # "waiting"
        <5>1. waiting'["main"] = w
          BY <1>0, <4>1, <4>2
        <5> QED BY <5>1
      <4>3. CASE d = "main" /\ w.stage = "waiting"
        <5>1. waiting'["main"] = [w EXCEPT !.stage = "has", !.reply = reply]
          BY <1>0, <4>1, <4>3
        <5> QED BY <1>0, <4>3, <5>1 DEF WaitSet
      <4> QED BY <4>2, <4>3
    <3> QED BY <1>9, <3>1, <3>2, <3>3
       DEF Respond, EndOfOutput, Impatience, DropLate, RejectAnswer, CloseOutput
  <2> QED BY <1>1, <2>1, <2>2
<1> QED
  BY <1>3, <1>4, <1>5, <1>6, <1>7, <1>8, <1>9
  DEF Next, MainStep, AppServerStep

\* What a response says stays true until the loop has read it.
LEMMA AnswerKept ==
  ASSUME TypeInv, HandInv, [Next]_vars
  PROVE  AnswerInv'
<1>0. /\ served \subseteq asked /\ mode' = mode
      /\ mode # "app_server" => asked = {}
      /\ \A call \in served : call.method = "add" /\ Arrived(call.msg)
      /\ \A call \in asked : call.method = "add" => call.msg \in Messages
      /\ asked \subseteq CallSet
  BY PcSteps DEF HandInv, AnswerInv, ModeInv, TypeInv, CallInv, ConnectionTypes
<1>1. \A call \in served : call.msg \in Messages /\ Arrived(call.msg)'
  <2> TAKE call \in served
  <2>1. mode = "app_server" /\ call.msg \in Messages /\ Arrived(call.msg)
    BY <1>0
  <2> QED BY <2>1, ArrivedStays
<1>2. served' \subseteq asked' /\ \A call \in served' : call.method = "add" /\ Arrived(call.msg)'
  <2>1. CASE Enqueue
    <3>1. PICK call \in asked : call.method = "add" /\ Serve(call) /\ queue' = Append(queue, call.msg)
      BY <2>1 DEF Enqueue
    <3>2. served' = served \cup {call} /\ asked' = asked /\ call.msg \in Messages
      BY <1>0, <3>1 DEF Serve
    <3>3. InQueue(call.msg)' = InQueue(call.msg) \cup {Len(queue) + 1}
      BY <3>1, <3>2, QueueGrown DEF TypeInv
    <3>4. Arrived(call.msg)'
      BY <3>3 DEF Arrived
    <3> QED BY <1>0, <1>1, <3>1, <3>2, <3>4
  <2>2. ASSUME served' \subseteq served, served' \subseteq asked'
        PROVE  served' \subseteq asked' /\ \A call \in served' : call.method = "add" /\ Arrived(call.msg)'
    BY <1>0, <1>1, <2>2
  <2>3. CASE RefuseSource \/ ResumeRaises \/ Crash
    BY <2>2, <2>3 DEF RefuseSource, ResumeRaises, Crash, Die, Reconnect
  <2>4. CASE Respond
    <3>1. \E call \in asked : Resolve(call)
      BY <2>4 DEF Respond, Answer, DropLate, RejectAnswer
    <3> QED BY <1>0, <2>2, <3>1 DEF Resolve
  <2>5. CASE served' = served /\ asked \subseteq asked'
    BY <1>0, <2>2, <2>5
  <2>6. CASE AskRequirements \/ AskAdd \/ AskList \/ AskResume \/ AskTitle
    BY <2>5, <2>6 DEF AskRequirements, AskAdd, AskList, AskResume, AskTitle, Request
  <2>7. CASE CodexStep /\ ~ Enqueue
    BY <2>5, <2>7 DEF CodexStep, QueueLocal, TakeQueued, FinishTurn, Writes, TakeSubmission,
       TakeInstruction, Delegate, connectionVars
  <2>8. CASE Activate \/ Ingest \/ Select \/ Row \/ Start \/ Time \/ UNCHANGED vars
             \/ \E m \in Messages : Receive(m)
    BY <2>5, <2>8 DEF Activate, Ingest, Select, Row, Start, Time, GrowOld, Release, Receive, vars,
       connectionVars
  <2>9. CASE NoRequirements \/ GotRequirements \/ NoAdd \/ GotAdd \/ NoList \/ GotList
             \/ DrainNote \/ Drained \/ GotResume \/ DesktopStep
    BY <2>5, <2>9 DEF NoRequirements, GotRequirements, NoAdd, GotAdd, NoList, GotList, DrainNote,
       Drained, GotResume, DesktopStep, Snapshot, Submit, FindRelay, MissRelay, FindTurn, GiveUp,
       connectionVars
  <2>10. CASE EndOfOutput \/ Impatience \/ GotTitle
    BY <2>5, <2>10 DEF EndOfOutput, CloseOutput, Impatience, TimeOut, Expire, GotTitle
  <2> QED
    BY <2>1, <2>3, <2>4, <2>6, <2>7, <2>8, <2>9, <2>10
    DEF Next, MainStep, AppServerStep
<1>3. ASSUME mode = "app_server", NEW c \in Callers,
             \/ waiting'[c].call.method = "add" /\ waiting'[c].reply = "ok"
             \/ waiting'[c].call.method = "list" /\ waiting'[c].reply = "found"
      PROVE  Arrived(waiting[c].call.msg)'
  <2>1. WaitMove(c)
    BY WaitMoves
  <2>2. PICK call : call = waiting[c].call /\ waiting'[c].call = call
    BY <1>3, <2>1 DEF WaitMove, Idle, NoCall
  <2>3. call \in CallSet
    BY <2>2 DEF TypeInv, ConnectionTypes, WaitSet
  <2>4. Arrived(call.msg)
    <3>1. CASE waiting'[c].reply = waiting[c].reply
      BY <1>3, <2>2, <3>1 DEF HandInv, AnswerInv
    <3>2. CASE call \in asked /\ waiting'[c].reply \in Replies(call)
      <4>1. CASE call.method = "add"
        <5>1. call \in served
          BY <1>3, <2>2, <3>2, <4>1 DEF Replies
        <5> QED BY <1>0, <5>1
      <4>2. CASE call.method = "list" /\ waiting'[c].reply = "found"
        <5>1. InQueue(call.msg) # {}
          BY <1>0, <3>2, <4>2, FoundIsThere
        <5> QED BY <5>1 DEF Arrived
      <4> QED BY <1>3, <2>2, <3>2, <4>1, <4>2
    <3> QED BY <1>3, <2>1, <2>2, <3>1, <3>2 DEF WaitMove, Idle, NoCall
  <2>5. call.msg \in Messages
    <3>1. call.msg # "none"
      <4>1. InQueue("none") = {}
        <5>1. \A i \in DOMAIN queue : queue[i] \in Messages \cup {"local"}
          BY DEF TypeInv, CodexTypes
        <5> QED BY <5>1, UplinkAssumption DEF InQueue
      <4>2. InFile("none") = {} /\ ~ InTail("none")
        <5>1. \A i \in DOMAIN disk.lines : disk.lines[i] \in LineSet
          BY DEF TypeInv, RolloutTypes
        <5>2. disk.tail \in LineSet
          BY DEF TypeInv, RolloutTypes
        <5>3. "none" \notin Owners
          BY UplinkAssumption DEF Owners
        <5> QED BY <5>1, <5>2, <5>3 DEF InFile, Of, InTail, LineSet
      <4> QED BY <2>4, <4>1, <4>2 DEF Arrived
    <3> QED BY <2>3, <3>1 DEF CallSet
  <2>6. Arrived(call.msg)'
    BY <1>3, <2>4, <2>5, ArrivedStays
  <2> QED BY <2>2, <2>6 DEF Arrived, InQueue, InFile, Of, InTail
<1>4. waiting'["main"] # Idle =>
        /\ waiting'["main"].call.method = main'.pc
        /\ main'.pc # "resume" => waiting'["main"].call.msg = main'.row
  BY MainWait
<1> QED BY <1>0, <1>2, <1>3, <1>4 DEF AnswerInv

-----------------------------------------------------------------------------
(* What the records stand for.                                             *)

\* Lines stay where they are, and the cursor goes forward.
LEMMA LinesStay ==
  ASSUME TypeInv, AskedInv, HandInv, [Next]_vars
  PROVE  /\ mode # "observe" =>
              \A j \in DOMAIN disk.lines : j \in DOMAIN disk'.lines /\ disk'.lines[j] = disk.lines[j]
         /\ \/ cursor' = cursor
            \/ Ingest
            \/ cursor = NoCursor /\ cursor'.at = Len(disk.lines) /\ disk' = disk
<1>0. RolloutTypes /\ TailInv /\ (WriterStep \/ ReaderStep)
  BY RolloutSteps, WriterAndReader DEF TypeInv
<1>1. CASE WriterStep
  <2>1. /\ cursor' = cursor
        /\ mode # "observe" => Extends(disk'.lines)
    <3>1. /\ UNCHANGED <<cursor, cache, since>>
          /\ \/ Extends(disk'.lines) /\ disk'.nth = disk.nth /\ disk'.id = disk.id
             \/ mode = "observe" /\ disk'.nth = disk.nth + 1 /\ disk'.lines = <<Meta>>
      BY <1>0, <1>1, WriterExtends
    <3> QED BY <3>1
  <2>2. RolloutTypes'
    BY TypedKept DEF TypeInv
  <2>3. /\ DOMAIN disk.lines = 1..Len(disk.lines) /\ Len(disk.lines) \in Nat
        /\ DOMAIN disk'.lines = 1..Len(disk'.lines) /\ Len(disk'.lines) \in Nat
    <3>1. disk.lines \in Seq(LineSet)
      BY <1>0 DEF RolloutTypes
    <3>2. disk'.lines \in Seq(LineSet)
      BY <2>2 DEF RolloutTypes
    <3> QED BY <3>1, <3>2
  <2> QED BY <2>1, <2>3 DEF Extends
<1>2. CASE ReaderStep
  <2>1. disk' = disk
    BY <1>2 DEF ReaderStep, Checkpoint, Commit, ForgetCache, rolloutVars
  <2>2. CASE Ingest
    BY <2>1, <2>2
  <2>3. CASE Checkpoint
    <3>1. cursor = NoCursor /\ cursor' = Batch(0).cursor
      BY <2>3 DEF Checkpoint
    <3>2. Batch(0).cursor.at = Len(disk.lines)
      BY DEF Batch, Readable
    <3> QED BY <2>1, <3>1, <3>2
  <2>4. CASE cursor' = cursor
    BY <2>1, <2>4
  <2>5. Ingest \/ Checkpoint \/ cursor' = cursor
    BY DEF Next, vars, rolloutVars, MainStep, AppServerStep, DesktopStep, CodexStep, Time, Receive,
       GrowOld, Release, Activate, Ingest, RefuseSource, Die, ForgetCache, Select, Row, AskRequirements,
       NoRequirements, GotRequirements, AskAdd, NoAdd, GotAdd, AskList, NoList, GotList, DrainNote,
       Drained, AskResume, GotResume, ResumeRaises, Snapshot, Submit, FindRelay, MissRelay, FindTurn,
       GiveUp, Enqueue, QueueLocal, TakeQueued, FinishTurn, Writes, TakeSubmission, TakeInstruction,
       Delegate, Respond, EndOfOutput, Impatience, AskTitle, GotTitle, Crash, Start, WriteUser, EndTurn,
       CompleteLine, WriteBlank, ReplaceFile, WriteAssistant
  <2> QED BY <2>2, <2>3, <2>4, <2>5
<1> QED BY <1>0, <1>1, <1>2

\* A record without an item.
LEMMA RecordFresh ==
  ASSUME NEW m, record'[m].item = 0, record'[m].turn = 0, ~ Accepted(record'[m]),
         mode' = "app_server" => record'[m].request # "submitted"
  PROVE  RecordOf(m)'
BY DEF RecordOf, Accepted

\* With nothing in the inbox there is no record.
LEMMA NothingRecorded ==
  ASSUME TypeInv, HandInv, mode = "observe", NEW m \in Messages
  PROVE  record[m] = NoRecord
<1>1. inbox = <<>>
  BY DEF HandInv, ModeInv
<1>2. ToSet(inbox) = {}
  BY <1>1 DEF ToSet
<1> QED BY <1>2 DEF TypeInv, InboxInv

\* A record that still stands for the same line.
LEMMA RecordSame ==
  ASSUME TypeInv, AskedInv, HandInv, [Next]_vars, NEW m \in Messages,
         record'[m].item = record[m].item, record'[m].turn = record[m].turn,
         Accepted(record[m]) => Accepted(record'[m]),
         record'[m].state = "completed" => record[m].item # 0,
         Accepted(record'[m]) => IF mode = "app_server" THEN Arrived(m) ELSE record[m].item # 0,
         mode = "app_server" => record'[m].request # "submitted",
         \/ main'.pc \notin HandSteps
         \/ main.pc \in HandSteps /\ main'.size = main.size
         \/ Len(disk.lines) <= main'.size
  PROVE  RecordOf(m)'
<1>0. mode' = mode /\ RecordOf(m) /\ RolloutTypes
  BY PcSteps DEF HandInv, RecordInv, TypeInv
<1>1. Accepted(record'[m]) => IF mode = "app_server" THEN Arrived(m)' ELSE record[m].item # 0
  BY ArrivedStays
<1>2. ASSUME record[m].item # 0
      PROVE  \E j \in DOMAIN disk'.lines :
              /\ OfLine(record[m], m, j)'
              /\ mode = "app_server" => cursor' # NoCursor /\ j <= cursor'.at
              /\ main'.pc \in HandSteps => j <= main'.size
  <2>1. PICK j \in DOMAIN disk.lines :
              /\ OfLine(record[m], m, j)
              /\ mode = "app_server" => cursor # NoCursor /\ j <= cursor.at
              /\ main.pc \in HandSteps => j <= main.size
    BY <1>0, <1>2 DEF RecordOf
  <2>2. mode # "observe"
    BY <1>2, NothingRecorded DEF NoRecord
  <2>3. j \in DOMAIN disk'.lines /\ disk'.lines[j] = disk.lines[j]
    BY <2>2, LinesStay
  <2>4. j <= Len(disk.lines) /\ j \in Nat /\ Len(disk.lines) \in Nat
    BY <1>0 DEF RolloutTypes
  <2>5. mode = "app_server" => cursor' # NoCursor /\ j <= cursor'.at
    <3>1. CASE cursor' = cursor
      BY <2>1, <3>1
    <3>2. CASE Ingest
      BY <2>4, <3>2, IngestMoves
    <3> QED BY <2>1, <3>1, <3>2, LinesStay
  <2>6. main'.pc \in HandSteps => j <= main'.size
    <3>1. main.size \in Nat /\ main'.size \in Nat
      <4>1. TypeInv'
        BY TypedKept
      <4> QED BY <4>1 DEF TypeInv, BridgeTypes, MainSet
    <3> QED BY <2>1, <2>4, <3>1
  <2>7. OfLine(record[m], m, j)'
    BY <1>0, <2>1, <2>3 DEF OfLine, SameText
  <2> QED BY <2>3, <2>5, <2>6, <2>7
<1> QED BY <1>0, <1>1, <1>2 DEF RecordOf

\* A record that does not change.
LEMMA RecordStill ==
  ASSUME TypeInv, AskedInv, HandInv, [Next]_vars, NEW m \in Messages, record'[m] = record[m],
         \/ main'.pc \notin HandSteps
         \/ main.pc \in HandSteps /\ main'.size = main.size
         \/ Len(disk.lines) <= main'.size
  PROVE  RecordOf(m)'
<1>1. RecordOf(m)
  BY DEF HandInv, RecordInv
<1>2. /\ Accepted(record[m]) => IF mode = "app_server" THEN Arrived(m) ELSE record[m].item # 0
      /\ record[m].state = "completed" => record[m].item # 0
      /\ mode = "app_server" => record[m].request # "submitted"
  BY <1>1 DEF RecordOf
<1>3. Accepted(record[m]) => Accepted(record'[m])
  OBVIOUS
<1> HIDE DEF HandInv, TypeInv, AskedInv
<1> QED BY <1>2, <1>3, RecordSame

\* Where the loop goes when a record changes.
LEMMA MoveGoes ==
  ASSUME TypeInv, NEW n \in Messages, RecordMove(n)
  PROVE  \/ main'.pc \notin HandSteps
         \/ main.pc \in HandSteps /\ main'.size = main.size
         \/ Len(disk.lines) <= main'.size
<1>1. NextRow.pc \notin HandSteps
  BY DEF NextRow, Rest, Loop, HandSteps
<1>2. CASE FindTurn
  <2>1. main' = NextRow
    BY <1>2 DEF FindTurn, Accept
  <2> QED BY <1>1, <2>1
<1>3. Len(disk.lines) <= FileSize
  <2>1. Len(disk.lines) \in Nat
    BY DEF TypeInv, RolloutTypes
  <2>2. FileSize = Len(disk.lines) \/ FileSize = Len(disk.lines) + 1
    <3>1. CASE disk.tail = NoLine
      BY <2>1, <3>1 DEF FileSize
    <3>2. CASE disk.tail # NoLine
      BY <2>1, <3>2 DEF FileSize
    <3> QED BY <3>1, <3>2
  <2> QED BY <2>1, <2>2
<1> QED BY <1>2, <1>3 DEF RecordMove, HandSteps

\* The line that confirms a hand-over is newer than every other record's line.
LEMMA FoundLine ==
  ASSUME TypeInv, HandInv, FindTurn
  PROVE  \E i \in DOMAIN disk.lines :
           /\ i > main.size /\ disk.lines[i].type = "user" /\ SameText(row, disk.lines[i].by)
           /\ record' = [record EXCEPT ![row].state = "accepted", ![row].turn = disk.lines[i].turn,
                                       ![row].item = disk.lines[i].item]
           /\ disk.lines[i].item \in Nat \ {0} /\ disk.lines[i].turn \in Nat \ {0}
           /\ main.pc = "confirm" /\ mode # "app_server" /\ UNCHANGED <<disk, mode>>
           /\ main'.pc \notin HandSteps /\ row \in Messages
<1> DEFINE new == NewItems(row)
           i == CHOOSE k \in new : \A j \in new : k <= j
<1>0. DOMAIN disk.lines = 1..Len(disk.lines) /\ Len(disk.lines) \in Nat
      /\ \A k \in DOMAIN disk.lines : disk.lines[k] \in LineSet
  BY DEF TypeInv, RolloutTypes
<1>1. main.pc = "confirm" /\ new # {} /\ UNCHANGED rolloutVars /\ mode' = mode
      /\ Accept(row, disk.lines[i].turn, disk.lines[i].item)
  BY DEF FindTurn, At
<1>2. new \in SUBSET Nat
  BY <1>0 DEF NewItems
<1>3. i \in new
  <2> HIDE DEF new
  <2>1. \E k \in new : \A j \in new : k <= j
    BY <1>1, <1>2, LeastOf
  <2> QED BY <2>1
<1>4. i \in DOMAIN disk.lines /\ i > main.size /\ disk.lines[i].type = "user"
      /\ SameText(row, disk.lines[i].by)
  BY <1>3 DEF NewItems
<1>5. PICK k \in DOMAIN disk.lines : k = i
  BY <1>4
<1> HIDE DEF i
<1>6. GoodLine(disk.lines[k]) /\ disk.lines[k] \in LineSet /\ Visible(disk.lines[k])
  BY <1>0, <1>4, <1>5 DEF HandInv, LineInv, GoodLines, Visible
<1>7. disk.lines[k].item \in Nat \ {0} /\ disk.lines[k].turn \in Nat \ {0}
  BY <1>4, <1>5, <1>6 DEF GoodLine, LineSet
<1>8. main'.pc \notin HandSteps
  BY <1>1 DEF Accept, NextRow, Rest, Loop, HandSteps
<1>9. row \in Messages /\ mode # "app_server"
  BY <1>1 DEF TypeInv, BridgeTypes, InboxInv, ToSet, row, HandInv, ModeInv
<1>10. UNCHANGED disk
  BY <1>1 DEF rolloutVars
<1> QED BY <1>1, <1>4, <1>5, <1>7, <1>8, <1>9, <1>10 DEF Accept

\* A record that is inserted or taken back.
LEMMA EmptyRecord ==
  ASSUME NEW m \in Messages, record \in [Messages -> RecordSet],
         \/ record' = [record EXCEPT ![m] = [NoRecord EXCEPT !.state = "prepared", !.made = Made]]
         \/ record' = [record EXCEPT ![m] = NoRecord]
  PROVE  /\ record'[m].state \in {"none", "prepared"} /\ record'[m].request = "-"
         /\ record'[m].item = 0 /\ record'[m].turn = 0
<1>1. \/ record'[m] = [NoRecord EXCEPT !.state = "prepared", !.made = Made]
      \/ record'[m] = NoRecord
  OBVIOUS
<1>2. PICK n : n = Made
  OBVIOUS
<1>3. PICK r : r = record'[m]
  OBVIOUS
<1>4. CASE r = [NoRecord EXCEPT !.state = "prepared", !.made = n]
  BY <1>3, <1>4 DEF NoRecord
<1>5. CASE r = NoRecord
  BY <1>3, <1>5 DEF NoRecord
<1> QED BY <1>1, <1>2, <1>3, <1>4, <1>5

\* The record that changes stands for what it says.
LEMMA RecordMoved ==
  ASSUME TypeInv, AskedInv, HandInv, [Next]_vars, NEW m \in Messages, RecordMove(m)
  PROVE  RecordOf(m)'
<1>0. /\ record \in [Messages -> RecordSet] /\ record[m] \in RecordSet /\ RecordOf(m)
      /\ mode' = mode /\ RowInv /\ ModeInv /\ NotesInv /\ AnswerInv /\ row = main.row
  BY PcSteps DEF TypeInv, BridgeTypes, HandInv, RecordInv, row
<1>1. /\ ~ Accepted(record[m]) => record[m].item = 0 /\ record[m].turn = 0
      /\ Accepted(record[m]) => IF mode = "app_server" THEN Arrived(m) ELSE record[m].item # 0
      /\ record[m].item = 0 <=> record[m].turn = 0
      /\ mode = "app_server" => record[m].request # "submitted"
  BY <1>0 DEF RecordOf
<1>2. \/ main'.pc \notin HandSteps
      \/ main.pc \in HandSteps /\ main'.size = main.size
      \/ Len(disk.lines) <= main'.size
  BY MoveGoes
<1>3. /\ record[m].state \in {"none", "prepared", "bytes_sending", "outcome_unknown"} => ~ Accepted(record[m])
      /\ \A s \in {"none", "prepared", "bytes_sending", "outcome_unknown"} :
           s \notin {"accepted", "completed"}
  BY DEF Accepted
<1>4. ASSUME NEW s \in {"none", "prepared", "bytes_sending", "outcome_unknown"}, record'[m].state = s,
             record'[m].item = 0, record'[m].turn = 0,
             mode = "app_server" => record'[m].request # "submitted"
      PROVE  RecordOf(m)'
  BY <1>0, <1>3, <1>4, RecordFresh DEF Accepted
<1>5. CASE \/ record' = [record EXCEPT ![m] = [NoRecord EXCEPT !.state = "prepared", !.made = Made]]
           \/ record' = [record EXCEPT ![m] = NoRecord]
  <2>1. /\ record'[m].state \in {"none", "prepared"} /\ record'[m].request = "-"
        /\ record'[m].item = 0 /\ record'[m].turn = 0
    BY <1>0, <1>5, EmptyRecord
  <2> QED BY <1>4, <2>1
<1>6. CASE \/ main.pc = "add" /\ record' = [record EXCEPT ![m].state = "bytes_sending", ![m].request = "rpc"]
              /\ m = row
           \/ mode # "app_server" /\ record[m].state = "prepared"
              /\ record' = [record EXCEPT ![m].state = "bytes_sending", ![m].request = "ui"]
           \/ record[m].state \in {"prepared", "bytes_sending"}
              /\ record' = [record EXCEPT ![m].state = "outcome_unknown"]
           \/ mode # "app_server" /\ record[m].state = "bytes_sending"
              /\ record' = [record EXCEPT ![m].request = "submitted"]
  <2>1. record[m].state \in {"prepared", "bytes_sending"}
    BY <1>0, <1>6 DEF RowInv
  <2>2. record[m].item = 0 /\ record[m].turn = 0
    BY <1>1, <1>3, <2>1
  <2>3. /\ record'[m].state \in {"bytes_sending", "outcome_unknown"}
        /\ record'[m].item = 0 /\ record'[m].turn = 0
        /\ mode = "app_server" => record'[m].request # "submitted"
    BY <1>0, <1>1, <1>6, <2>1, <2>2 DEF RecordSet
  <2> QED BY <1>4, <2>3
<1>7. CASE /\ m = row /\ main.pc \in {"add", "list"} /\ mode = "app_server"
           /\ waiting["main"].call.msg = m
           /\ \/ waiting["main"].call.method = "add" /\ waiting["main"].reply = "ok"
              \/ waiting["main"].call.method = "list" /\ waiting["main"].reply = "found"
           /\ record' = [record EXCEPT ![m].state = "accepted"]
  <2>1. Arrived(m)
    BY <1>0, <1>7, UplinkAssumption DEF AnswerInv
  <2>2. record'[m].state = "accepted" /\ record'[m].item = record[m].item
        /\ record'[m].turn = record[m].turn /\ record'[m].request = record[m].request
    BY <1>0, <1>7 DEF RecordSet
  <2>3. Accepted(record'[m])
    BY <2>2 DEF Accepted
  <2> HIDE DEF HandInv, TypeInv
  <2> QED BY <1>1, <1>2, <1>7, <2>1, <2>2, <2>3, RecordSame
<1>8. CASE FindTurn /\ m = row
  <2>1. PICK i \in DOMAIN disk.lines :
           /\ i > main.size /\ disk.lines[i].type = "user" /\ SameText(row, disk.lines[i].by)
           /\ record' = [record EXCEPT ![row].state = "accepted", ![row].turn = disk.lines[i].turn,
                                       ![row].item = disk.lines[i].item]
           /\ disk.lines[i].item \in Nat \ {0} /\ disk.lines[i].turn \in Nat \ {0}
           /\ main.pc = "confirm" /\ mode # "app_server" /\ UNCHANGED <<disk, mode>>
           /\ main'.pc \notin HandSteps /\ row \in Messages
    BY <1>8, FoundLine
  <2>2. /\ record'[m].state = "accepted" /\ record'[m].item = disk.lines[i].item
        /\ record'[m].turn = disk.lines[i].turn
    BY <1>0, <1>8, <2>1 DEF RecordSet
  <2>3. OfLine(record[m], m, i)'
    BY <1>8, <2>1, <2>2 DEF OfLine, SameText
  <2>4. i \in DOMAIN disk'.lines
    BY <2>1
  <2>5. /\ record'[m].item # 0 /\ record'[m].turn # 0 /\ Accepted(record'[m]) /\ mode' # "app_server"
    BY <2>1, <2>2 DEF Accepted
  <2> QED BY <2>1, <2>2, <2>3, <2>4, <2>5 DEF RecordOf
<1>9. CASE /\ main.pc = "drain" /\ record[m].state = "accepted" /\ notes # <<>>
           /\ record[m].turn = Head(notes).turn
           /\ record' = [record EXCEPT ![m].state = "completed"]
  <2>1. Head(notes) = notes[1] /\ 1 \in DOMAIN notes
    <3>1. notes \in Seq([turn : Nat, failed : BOOLEAN])
      BY DEF TypeInv, CodexTypes
    <3> QED BY <1>9, <3>1
  <2>2. record[m].turn > 0
    BY <1>0, <1>9, <2>1 DEF NotesInv
  <2>3. record[m].item # 0
    BY <1>1, <2>2
  <2>4. record'[m].state = "completed" /\ record'[m].item = record[m].item
        /\ record'[m].turn = record[m].turn /\ record'[m].request = record[m].request
    BY <1>0, <1>9 DEF RecordSet
  <2>5. Accepted(record'[m]) /\ Accepted(record[m])
    BY <1>9, <2>4 DEF Accepted
  <2> HIDE DEF HandInv, TypeInv
  <2> QED BY <1>1, <1>2, <2>3, <2>4, <2>5, RecordSame
<1> QED BY <1>5, <1>6, <1>7, <1>8, <1>9 DEF RecordMove

\* The records after a batch.
LEMMA RecordTaken ==
  ASSUME TypeInv, AskedInv, HandInv, [Next]_vars, Ingest, NEW m \in Messages
  PROVE  RecordOf(m)'
<1>0. /\ UNCHANGED <<mode, disk>> /\ main'.pc \notin HandSteps
      /\ cursor' # NoCursor /\ cursor'.at = Len(disk.lines)
  BY IngestMoves DEF HandSteps
<1>1. PICK acc \in AfterLine(Len(disk.lines)) : record' = acc.rec
  BY IngestMoves
<1>2. DOMAIN disk.lines = 1..Len(disk.lines) /\ Len(disk.lines) \in Nat
  BY DEF TypeInv, RolloutTypes
<1>3. acc.rec[m] = record[m] \/ CameWith(acc.rec[m], m, Len(disk.lines))
  BY DEF AfterLine
<1>4. acc.rec[m].request = record[m].request
  BY DEF AfterLine
<1>5. CASE record'[m] = record[m]
  <2> HIDE DEF HandInv, TypeInv
  <2> QED BY <1>0, <1>5, RecordStill
<1>6. CASE CameWith(record'[m], m, Len(disk.lines))
  <2>1. PICK r : r = record'[m]
    OBVIOUS
  <2>2. PICK j \in 1..Len(disk.lines) : OfLine(r, m, j)
    BY <1>6, <2>1 DEF CameWith
  <2>3. r.state = "accepted" /\ r.item # 0 /\ r.turn # 0
    BY <1>6, <2>1 DEF CameWith
  <2>4. mode = "app_server" => Arrived(m)'
    <3>1. mode = "app_server" => j \in InFile(m)
      BY <1>2, <2>2 DEF OfLine, InFile, Of
    <3>2. InFile(m)' = InFile(m)
      BY <1>0 DEF InFile
    <3> QED BY <3>1, <3>2 DEF Arrived
  <2>5. mode = "app_server" => r.request # "submitted"
    BY <1>1, <1>4, <2>1 DEF HandInv, RecordInv, RecordOf
  <2>6. OfLine(r, m, j)'
    BY <1>0, <2>1, <2>2 DEF OfLine, SameText
  <2>7. j \in DOMAIN disk'.lines /\ j <= cursor'.at
    BY <1>0, <1>2, <2>2
  <2>8. \E k \in DOMAIN disk'.lines :
          /\ OfLine(record[m], m, k)'
          /\ mode' = "app_server" => cursor' # NoCursor /\ k <= cursor'.at
          /\ main'.pc \in HandSteps => k <= main'.size
    <3>1. OfLine(record[m], m, j)'
      BY <2>1, <2>6 DEF OfLine
    <3> QED BY <1>0, <2>7, <3>1
  <2>9. Accepted(record'[m]) /\ record'[m].item # 0 /\ record'[m].turn # 0
    BY <2>1, <2>3 DEF Accepted
  <2> QED BY <1>0, <2>1, <2>4, <2>5, <2>8, <2>9 DEF RecordOf
<1> QED BY <1>1, <1>3, <1>5, <1>6

\* Every record stands for what it says after a step.
LEMMA RecordKept ==
  ASSUME TypeInv, AskedInv, HandInv, [Next]_vars
  PROVE  RecordInv'
<1>0. ModeInv /\ RowInv /\ AnswerInv
  BY DEF HandInv
<1> SUFFICES ASSUME NEW m \in Messages PROVE RecordOf(m)'
  BY DEF RecordInv
<1>1. CASE Ingest
  BY <1>1, RecordTaken
<1>2. CASE record' = record /\ Waited
  <2>1. main'.pc \notin HandSteps \/ (main.pc \in HandSteps /\ main'.size = main.size)
    BY <1>2 DEF Waited
  <2> HIDE DEF HandInv, TypeInv
  <2> QED BY <1>2, <2>1, RecordStill
<1>3. ASSUME NEW n \in Messages, RecordMove(n) PROVE RecordOf(m)'
  <2>1. CASE n = m
    BY <1>3, <2>1, RecordMoved
  <2>2. CASE n # m
    <3>1. record'[m] = record[m]
      <4>1. record \in [Messages -> RecordSet]
        BY DEF TypeInv, BridgeTypes
      <4>2. FindTurn => \E t, i : Accept(row, t, i)
        BY DEF FindTurn
      <4>3. \A t, i : Accept(row, t, i) /\ n = row => record'[m] = record[m]
        BY <2>2, <4>1 DEF Accept
      <4> QED BY <1>3, <2>2, <4>1, <4>2, <4>3 DEF RecordMove
    <3>2. \/ main'.pc \notin HandSteps
          \/ main.pc \in HandSteps /\ main'.size = main.size
          \/ Len(disk.lines) <= main'.size
      BY <1>3, MoveGoes
    <3> HIDE DEF HandInv, TypeInv
    <3> QED BY <3>1, <3>2, RecordStill
  <2> QED BY <2>1, <2>2
<1> QED BY <1>0, <1>1, <1>2, <1>3, RecordMoves

\* No record gets the item of another.
LEMMA ItemsKept ==
  ASSUME TypeInv, AskedInv, HandInv, [Next]_vars
  PROVE  OneItemOneRecord'
<1>0. ModeInv /\ RowInv /\ AnswerInv /\ RecordInv /\ OneItemOneRecord /\ LineInv /\ RolloutTypes
      /\ record \in [Messages -> RecordSet] /\ main \in MainSet
  BY DEF HandInv, TypeInv, BridgeTypes
<1>1. CASE Ingest
  <2>1. PICK acc \in AfterLine(Len(disk.lines)) : record' = acc.rec
    BY <1>1, IngestMoves
  <2> QED BY <2>1 DEF AfterLine, OneItemOneRecord
<1>2. CASE record' = record
  BY <1>0, <1>2 DEF OneItemOneRecord
<1>3. ASSUME \A k \in Messages : record'[k].item \in {record[k].item, 0} PROVE OneItemOneRecord'
  BY <1>0, <1>3 DEF OneItemOneRecord
<1>4. CASE FindTurn
  <2>1. PICK i \in DOMAIN disk.lines :
           /\ i > main.size /\ disk.lines[i].type = "user" /\ SameText(row, disk.lines[i].by)
           /\ record' = [record EXCEPT ![row].state = "accepted", ![row].turn = disk.lines[i].turn,
                                       ![row].item = disk.lines[i].item]
           /\ disk.lines[i].item \in Nat \ {0} /\ disk.lines[i].turn \in Nat \ {0}
           /\ main.pc = "confirm" /\ mode # "app_server" /\ UNCHANGED <<disk, mode>>
           /\ main'.pc \notin HandSteps /\ row \in Messages
    BY <1>4, FoundLine
  <2>2. ASSUME NEW n \in Messages, n # row, record[n].item # 0
        PROVE  record[n].item # disk.lines[i].item
    <3>1. PICK j \in DOMAIN disk.lines : OfLine(record[n], n, j) /\ (main.pc \in HandSteps => j <= main.size)
      BY <1>0, <2>2 DEF RecordInv, RecordOf
    <3>2. j <= main.size /\ disk.lines[j].type = "user" /\ disk.lines[j].item = record[n].item
      BY <2>1, <3>1 DEF OfLine, HandSteps
    <3>3. i # j
      <4>1. i \in Nat /\ j \in Nat /\ main.size \in Nat
        BY <1>0 DEF RolloutTypes, MainSet
      <4> QED BY <2>1, <3>2, <4>1
    <3> QED BY <1>0, <2>1, <3>2, <3>3, ItemsDiffer DEF Visible
  <2>3. /\ record'[row].item = disk.lines[i].item /\ row \in Messages
        /\ \A n \in Messages : n # row => record'[n] = record[n]
    BY <1>0, <2>1 DEF RecordSet
  <2>4. disk.lines[i].item # 0
    BY <2>1
  <2> HIDE DEF row
  <2> QED BY <1>0, <2>2, <2>3, <2>4 DEF OneItemOneRecord
<1>5. ASSUME NEW n \in Messages, RecordMove(n), ~ FindTurn
      PROVE  \A k \in Messages : record'[k].item \in {record[k].item, 0}
  <2> TAKE k \in Messages
  <2>1. CASE k # n
    <3>1. record'[k] = record[k]
      BY <1>0, <1>5, <2>1 DEF RecordMove
    <3> QED BY <3>1
  <2>2. CASE k = n
    <3>1. record[n] \in RecordSet /\ DOMAIN record = Messages
      BY <1>0
    <3>2. CASE \/ record' = [record EXCEPT ![n] = [NoRecord EXCEPT !.state = "prepared", !.made = Made]]
               \/ record' = [record EXCEPT ![n] = NoRecord]
      BY <1>0, <2>2, <3>2, EmptyRecord
    <3>3. ASSUME NEW s, NEW r,
                 \/ record' = [record EXCEPT ![n].state = s, ![n].request = r]
                 \/ record' = [record EXCEPT ![n].state = s]
                 \/ record' = [record EXCEPT ![n].request = r]
          PROVE  record'[k].item = record[k].item
      <4>1. \/ record'[n] = [record[n] EXCEPT !.state = s, !.request = r]
            \/ record'[n] = [record[n] EXCEPT !.state = s]
            \/ record'[n] = [record[n] EXCEPT !.request = r]
        BY <3>1, <3>3
      <4> QED BY <2>2, <3>1, <4>1 DEF RecordSet
    <3>4. \/ /\ record' = [record EXCEPT ![n].state = "bytes_sending", ![n].request = "rpc"]
          \/ /\ record' = [record EXCEPT ![n].state = "bytes_sending", ![n].request = "ui"]
          \/ /\ record' = [record EXCEPT ![n].state = "accepted"]
          \/ /\ record' = [record EXCEPT ![n].state = "outcome_unknown"]
          \/ /\ record' = [record EXCEPT ![n].request = "submitted"]
          \/ /\ record' = [record EXCEPT ![n].state = "completed"]
          => record'[k].item = record[k].item
      BY <3>3
    <3> QED BY <1>5, <3>2, <3>4 DEF RecordMove
  <2> QED BY <2>1, <2>2
<1> QED BY <1>0, <1>1, <1>2, <1>3, <1>4, <1>5, RecordMoves

\* With App Server what is accepted stays so, with its item and its turn.
LEMMA AcceptedStays ==
  ASSUME TypeInv, HandInv, [Next]_vars, ~ Ingest, mode = "app_server",
         NEW m \in Messages, Accepted(record[m])
  PROVE  /\ Accepted(record'[m])
         /\ record'[m].item = record[m].item /\ record'[m].turn = record[m].turn
<1>0. ModeInv /\ RowInv /\ AnswerInv /\ record \in [Messages -> RecordSet] /\ record[m] \in RecordSet
  BY DEF HandInv, TypeInv, BridgeTypes
<1>1. record[m].state \in {"accepted", "completed"}
  BY DEF Accepted
<1>2. CASE record' = record
  BY <1>2
<1>3. ASSUME NEW n \in Messages, RecordMove(n) PROVE record'[m] = record[m] \/
         (n = m /\ \E s \in {"accepted", "completed"} : record' = [record EXCEPT ![m].state = s])
  <2>1. ~ FindTurn /\ main.pc # "relayed"
    BY <1>0 DEF FindTurn, At, ModeInv
  <2>2. CASE n # m
    BY <1>0, <1>3, <2>1, <2>2 DEF RecordMove
  <2>3. CASE n = m
    <3>1. ~ (AskAdd /\ m = row)
      BY <1>1 DEF AskAdd
    <3> QED BY <1>1, <1>3, <2>1, <2>3, <3>1 DEF RecordMove
  <2> QED BY <2>2, <2>3
<1>4. ASSUME NEW s \in {"accepted", "completed"}, record' = [record EXCEPT ![m].state = s]
      PROVE  /\ Accepted(record'[m])
             /\ record'[m].item = record[m].item /\ record'[m].turn = record[m].turn
  BY <1>0, <1>4 DEF RecordSet, Accepted
<1>5. record'[m] = record[m] =>
        /\ Accepted(record'[m])
        /\ record'[m].item = record[m].item /\ record'[m].turn = record[m].turn
  OBVIOUS
<1> QED BY <1>0, <1>2, <1>3, <1>4, <1>5, RecordMoves

\* What has returned is known after a step.
LEMMA ReturnsKept ==
  ASSUME TypeInv, AskedInv, ReadInv, HandInv, [Next]_vars
  PROVE  ReturnsAreKnown'
<1>0. mode' = mode /\ RolloutTypes /\ ReturnsAreKnown /\ ModeInv /\ LineInv
      /\ DOMAIN disk.lines = 1..Len(disk.lines) /\ Len(disk.lines) \in Nat /\ cursor.at \in Nat
  BY PcSteps DEF HandInv, TypeInv, RolloutTypes
<1> SUFFICES ASSUME mode = "app_server", cursor' # NoCursor,
                    NEW i \in 1..cursor'.at, disk'.lines[i].by \in Messages
             PROVE  LET rec == record'[disk'.lines[i].by]
                    IN /\ rec.state \in {"accepted", "completed"}
                       /\ rec.item = disk'.lines[i].item /\ rec.turn = disk'.lines[i].turn
  BY <1>0 DEF ReturnsAreKnown
<1>1. CASE Ingest
  <2>1. UNCHANGED disk /\ cursor'.at = Len(disk.lines)
    BY <1>1, IngestMoves
  <2>2. PICK acc \in AfterLine(Len(disk.lines)) : record' = acc.rec
    BY <1>1, IngestMoves
  <2> QED BY <2>1, <2>2 DEF AfterLine, Accepted
<1>2. CASE cursor' = cursor /\ ~ Ingest
  <2>1. cursor.at \in DOMAIN disk.lines
    BY <1>0, <1>2 DEF ReadInv, ModeInv
  <2>2. i \in DOMAIN disk.lines /\ i \in 1..cursor.at
    BY <1>0, <1>2, <2>1
  <2>3. disk'.lines[i] = disk.lines[i]
    BY <2>2, LinesStay
  <2>4. PICK m \in Messages : m = disk.lines[i].by
    BY <2>3
  <2>5. Accepted(record[m]) /\ record[m].item = disk.lines[i].item /\ record[m].turn = disk.lines[i].turn
    BY <1>0, <1>2, <2>2, <2>4 DEF ReturnsAreKnown, Accepted
  <2>6. /\ Accepted(record'[m])
        /\ record'[m].item = record[m].item /\ record'[m].turn = record[m].turn
    BY <1>2, <2>5, AcceptedStays
  <2> QED BY <2>3, <2>4, <2>5, <2>6 DEF Accepted
<1>3. CASE cursor = NoCursor /\ cursor'.at = Len(disk.lines) /\ disk' = disk
  <2>1. PICK m \in Messages : m = disk.lines[i].by
    BY <1>3
  <2>2. record[m].state = "none"
    BY <1>3 DEF HandInv, FirstInv
  <2>3. Nowhere(m)
    BY <2>2 DEF HandInv, PlaceInv, Unsent
  <2>4. i \in InFile(m)
    BY <1>0, <1>3, <2>1 DEF InFile, Of
  <2> QED BY <2>3, <2>4 DEF Nowhere
<1> QED BY <1>1, <1>2, <1>3, LinesStay

-----------------------------------------------------------------------------
(* The invariant holds.                                                    *)

\* At first nothing is recorded and nothing is with Codex.
LEMMA HandAtFirst ==
  ASSUME Init
  PROVE  HandInv
<1> USE DEF Init
<1>0. /\ main.pc = "read" /\ main.rest = {} /\ mode \in Modes
      /\ \A m \in Messages : record[m] = NoRecord
      /\ disk.lines = <<Meta>> /\ disk.tail = NoLine /\ disk.nth = 1
  BY DEF Loop, RolloutInit
<1>1. ModeInv
  BY <1>0 DEF ModeInv, ConnectionInit
<1>2. RowInv
  BY <1>0 DEF RowInv, RowSteps
<1>3. FirstInv
  BY <1>0 DEF FirstInv, NoRecord
<1>4. LineInv
  <2>1. DOMAIN disk.lines = {1} /\ disk.lines[1] = Meta
    BY <1>0
  <2>2. /\ Meta.type = "session_meta" /\ Meta.by = "codex" /\ ~ Visible(Meta)
        /\ NoLine.type = "none" /\ NoLine.by = "codex" /\ ~ Visible(NoLine)
    BY DEF Meta, NoLine, Line, Visible
  <2> QED BY <1>0, <2>1, <2>2 DEF LineInv, GoodLines, GoodLine, Contexts
<1>5. NotesInv
  BY DEF NotesInv
<1>6. PlaceInv
  <2> SUFFICES ASSUME NEW m \in Messages PROVE Nowhere(m) /\ Once(m)
    BY DEF PlaceInv
  <2>1. Pending(m) = {} /\ InQueue(m) = {} /\ m \notin desk
    BY DEF ConnectionInit, Pending, InQueue
  <2>2. InFile(m) = {} /\ ~ InTail(m)
    <3>1. DOMAIN disk.lines = {1} /\ disk.lines[1] = Meta /\ m # "codex"
      BY <1>0, UplinkAssumption
    <3> QED BY <1>0, <3>1 DEF InFile, Of, InTail, Meta, NoLine, Line
  <2> QED BY <2>1, <2>2 DEF Nowhere, Once, Single
<1>7. AnswerInv
  <2>1. \A c \in Callers : waiting[c] = Idle
    BY DEF ConnectionInit
  <2>2. "main" \in Callers /\ served = {}
    BY UplinkAssumption DEF ConnectionInit
  <2> QED BY <2>1, <2>2 DEF AnswerInv, Idle, NoCall
<1>8. RecordInv
  BY <1>0 DEF RecordInv, RecordOf, Accepted, NoRecord
<1>9. OneItemOneRecord
  BY <1>0 DEF OneItemOneRecord, NoRecord
<1>10. ReturnsAreKnown
  BY DEF ReturnsAreKnown, RolloutInit
<1> QED BY <1>1, <1>2, <1>3, <1>4, <1>5, <1>6, <1>7, <1>8, <1>9, <1>10 DEF HandInv

\* Every step keeps the invariant.
LEMMA HandKept ==
  ASSUME TypeInv, AskedInv, ReadInv, HandInv, [Next]_vars
  PROVE  HandInv'
<1>0. ModeInv /\ RowInv /\ FirstInv /\ LineInv /\ NotesInv /\ RolloutTypes /\ TailInv
  BY DEF HandInv, TypeInv
<1>1. RolloutStep
  BY RolloutSteps DEF TypeInv
<1>2. ModeInv' /\ RowInv' /\ FirstInv' /\ NotesInv'
  BY <1>0, ModeKept, RowKept, FirstKept, NotesKept
<1>3. LineInv'
  BY <1>0, <1>1, LinesKept
<1>4. PlaceInv' /\ AnswerInv' /\ RecordInv' /\ OneItemOneRecord' /\ ReturnsAreKnown'
  BY PlaceKept, AnswerKept, RecordKept, ItemsKept, ReturnsKept
<1> QED BY <1>2, <1>3, <1>4 DEF HandInv

\* The invariant of the hand-over: with it every property below follows from
\* the state.
THEOREM HandOver == Spec => [](TypeInv /\ AskedInv /\ ReadInv /\ HandInv)
<1>1. Init => HandInv
  BY HandAtFirst
<1>2. TypeInv /\ AskedInv /\ ReadInv /\ HandInv /\ [Next]_vars => HandInv'
  BY HandKept
<1> QED BY <1>1, <1>2, Typing, Reading, PTL DEF Spec


-----------------------------------------------------------------------------
(* The properties.                                                         *)

\* A set of one or no element.
LEMMA SingleSize ==
  ASSUME NEW S, Single(S)
  PROVE  \/ S = {} /\ Cardinality(S) = 0
         \/ S # {} /\ Cardinality(S) = 1
<1>1. CASE S = {}
  BY <1>1, FS_EmptySet
<1>2. CASE S # {}
  <2>1. PICK x : S = {x}
    BY <1>2 DEF Single
  <2> QED BY <2>1, FS_Singleton
<1> QED BY <1>1, <1>2

\* How often Codex has a message that is in one place: once or never.
LEMMA GivenSize ==
  ASSUME NEW m, Once(m)
  PROVE  /\ Given(m) \in {0, 1}
         /\ Arrived(m) => Given(m) = 1
<1> DEFINE d == desk \cap {m}
           t == IF disk.tail.by = m THEN 1 ELSE 0
<1>1. Given(m) = Cardinality(InQueue(m)) + Cardinality(d) + Cardinality(InFile(m)) + t
  BY DEF Given, Entries, InQueue, InFile, Of
<1>2. \/ InQueue(m) = {} /\ Cardinality(InQueue(m)) = 0
      \/ InQueue(m) # {} /\ Cardinality(InQueue(m)) = 1
  BY SingleSize DEF Once
<1>3. \/ InFile(m) = {} /\ Cardinality(InFile(m)) = 0
      \/ InFile(m) # {} /\ Cardinality(InFile(m)) = 1
  BY SingleSize DEF Once
<1>4. \/ m \notin desk /\ Cardinality(d) = 0
      \/ m \in desk /\ Cardinality(d) = 1
  <2>1. Single(d)
    BY DEF Single
  <2>2. d = {} <=> m \notin desk
    OBVIOUS
  <2> HIDE DEF d
  <2> QED BY <2>1, <2>2, SingleSize
<1>5. \/ ~ InTail(m) /\ t = 0
      \/ InTail(m) /\ t = 1
  BY DEF InTail
<1>6. /\ InQueue(m) # {} => m \notin desk /\ InFile(m) = {} /\ ~ InTail(m)
      /\ m \in desk => InFile(m) = {} /\ ~ InTail(m)
      /\ InFile(m) # {} => ~ InTail(m)
  BY DEF Once
<1> HIDE DEF d, t
<1> QED BY <1>1, <1>2, <1>3, <1>4, <1>5, <1>6 DEF Arrived

\* Except through the relay, whose attempt is taken back after five seconds, a
\* message reaches Codex at most once, whatever times out, fails or dies
\* between its selection and its record (controller.py:188).
THEOREM HandedOverOnce == Spec => []GivenOnce
<1>1. HandInv => GivenOnce
  <2> SUFFICES ASSUME HandInv, mode # "desktop_relay", NEW m \in Messages PROVE Given(m) <= 1
    BY DEF GivenOnce
  <2>1. Given(m) \in {0, 1}
    BY GivenSize DEF HandInv, PlaceInv
  <2> QED BY <2>1
<1> QED BY <1>1, HandOver, PTL

\* Two records never stand for the same item, though their texts are equal and
\* the item of the first comes while the second waits for its own
\* (outbound.py:287).
THEOREM ItemsNotShared == Spec => []OneItemOneRecord
<1>1. HandInv => OneItemOneRecord
  BY DEF HandInv
<1> QED BY <1>1, HandOver, PTL

\* With App Server a message that returns through the rollout is known by its
\* client id, before and after its record is accepted, completed or given up:
\* its record names its item and its turn (outbound.py:248).
THEOREM ReturnsKnown == Spec => []ReturnsAreKnown
<1>1. HandInv => ReturnsAreKnown
  BY DEF HandInv
<1> QED BY <1>1, HandOver, PTL

\* What is recorded as accepted is in the queue of the task or in its rollout:
\* under its own name with App Server, with its text at the desktop
\* (controller.py:295, desktop_dispatch.py:291).
THEOREM AcceptedHasItem == Spec => []AcceptedIsReal
<1>1. HandInv => AcceptedIsReal
  <2> SUFFICES ASSUME HandInv, NEW m \in Messages, Accepted(record[m])
               PROVE  IF mode = "app_server" THEN Given(m) = 1
                      ELSE \E i \in DOMAIN disk.lines : /\ disk.lines[i].item = record[m].item
                                                       /\ SameText(m, disk.lines[i].by)
    BY DEF AcceptedIsReal, Accepted
  <2>1. RecordOf(m)
    BY DEF HandInv, RecordInv
  <2>2. CASE mode = "app_server"
    <3>1. Arrived(m) /\ Once(m)
      BY <2>1, <2>2 DEF RecordOf, HandInv, PlaceInv
    <3> QED BY <2>2, <3>1, GivenSize
  <2>3. CASE mode # "app_server"
    <3>1. \E j \in DOMAIN disk.lines : OfLine(record[m], m, j)
      BY <2>1, <2>3 DEF RecordOf
    <3> QED BY <2>3, <3>1 DEF OfLine
  <2> QED BY <2>2, <2>3
<1> QED BY <1>1, HandOver, PTL

=============================================================================
