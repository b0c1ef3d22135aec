---------------------------- MODULE ReaderProofs ----------------------------
(***************************************************************************)
(* Proofs about Uplink: what the reader passes is mirrored or claimed, and *)
(* in the right turn.                                                      *)
(*                                                                         *)
(* Either the cursor stands in the file it was committed for, and then     *)
(* each item it passed since the activation is queued for the topic or is  *)
(* that of a record, and what follows is newer (Good); or another file     *)
(* took the path, and then the reader refuses it for good (Stale): every   *)
(* line of the new file has a greater turn or a greater item than the      *)
(* record the cursor remembers, so none is taken for it.                   *)
(*                                                                         *)
(* The file is looked at with its incomplete line (Whole): a line that is  *)
(* completed then changes nothing, and whatever the writer does only adds  *)
(* lines that are newer (Adds).                                            *)
(***************************************************************************)
EXTENDS HandOverProofs

Whole == IF disk.tail = NoLine THEN disk.lines ELSE Append(disk.lines, disk.tail)

\* The turn of the lines up to line i.
ContextAt(lines, i) == ContextOf(0, SubSeq(lines, 1, i))

\* The lines of a file that holds so many turns and items.
Sane(lines, turns, n) ==
  /\ lines \in Seq(LineSet) /\ lines # <<>> /\ lines[1] = Meta
  /\ \A i \in DOMAIN lines :
       /\ i > 1 => lines[i] # Meta
       /\ lines[i].turn <= turns /\ lines[i].item <= n
       /\ lines[i].type = "user" => lines[i].turn = ContextAt(lines, i)
       /\ lines[i].type = "assistant" => lines[i].turn = 0

\* An item of the topic, from a line the cursor has passed.
FromLine(e, lines, i) ==
  Visible(lines[i]) /\ lines[i].item = e.item /\ e.turn = ContextAt(lines, i)

\* The cursor and the file it was committed for.
Good ==
  /\ cursor.id = disk.id
  /\ cursor.at \in DOMAIN disk.lines /\ cursor.last = Whole[cursor.at]
  /\ cache # NoCache => cache.context = ContextAt(Whole, cursor.at)
  /\ \A i \in DOMAIN Whole : i > cursor.at /\ Visible(Whole[i]) => Whole[i].item > since
  /\ \A e \in mirrored :
       /\ e.item > since
       /\ \E i \in 1..cursor.at : FromLine(e, Whole, i)
  /\ \A i \in 1..cursor.at : Visible(Whole[i]) /\ Whole[i].item > since =>
       \/ \E e \in mirrored : e.item = Whole[i].item
       \/ \E m \in Messages : record[m].item = Whole[i].item
  /\ \A e \in mirrored, m \in Messages : record[m].item # e.item

\* The cursor and a file that took the path since.
Stale ==
  /\ disk.nth > 1
  /\ \/ cursor.id < disk.id
     \/ /\ cursor.at > 1 /\ cursor.last.turn <= disk.turns /\ cursor.last.item <= written
        /\ \A i \in DOMAIN Whole :
             /\ Whole[i] # cursor.last
             /\ Whole[i].type = "turn_context" => Whole[i].turn > cursor.last.turn
  /\ \A e \in mirrored :
       /\ e.item <= written
       /\ \A i \in DOMAIN Whole : Visible(Whole[i]) => e.item < Whole[i].item

\* While a hand-over is confirmed the cursor is before the lines that are new to it.
FarInv == main.pc \in HandSteps => cursor.at <= main.size

MirrorInv ==
  /\ Sane(Whole, disk.turns, written)
  /\ cursor # NoCursor => Good \/ Stale
  /\ FarInv

-----------------------------------------------------------------------------
(* The context of a line.                                                  *)

\* The last turn_context between two places, if there is one.
NoContext(lines, a, b) == \A j \in (a + 1)..b : lines[j].type # "turn_context"
IsLast(lines, a, b, k) ==
  /\ k \in (a + 1)..b /\ lines[k].type = "turn_context"
  /\ \A j \in (a + 1)..b : lines[j].type = "turn_context" => j <= k

\* Without one the context is that before the lines.
LEMMA ContextNone ==
  ASSUME NEW lines \in Seq(LineSet), NEW a \in Nat, NEW b \in Nat, a <= b, b <= Len(lines), NEW t,
         NoContext(lines, a, b)
  PROVE  ContextOf(t, SubSeq(lines, a + 1, b)) = t
<1> DEFINE part == SubSeq(lines, a + 1, b)
           at == {i \in DOMAIN part : part[i].type = "turn_context"}
<1>1. /\ part \in Seq(LineSet) /\ Len(part) = b - a /\ b - a \in Nat /\ DOMAIN part = 1..(b - a)
      /\ \A i \in 1..(b - a) : part[i] = lines[a + i] /\ a + i \in (a + 1)..b
  BY PartOf
<1> HIDE DEF part
<1>2. at = {}
  BY <1>1 DEF NoContext
<1>3. ContextOf(t, part) = t
  BY <1>2 DEF ContextOf
<1> QED BY <1>3 DEF part

\* Else it is that of the last one.
LEMMA ContextLast ==
  ASSUME NEW lines \in Seq(LineSet), NEW a \in Nat, NEW b \in Nat, a <= b, b <= Len(lines), NEW t,
         NEW k, IsLast(lines, a, b, k)
  PROVE  ContextOf(t, SubSeq(lines, a + 1, b)) = lines[k].turn
<1> DEFINE part == SubSeq(lines, a + 1, b)
           at == {i \in DOMAIN part : part[i].type = "turn_context"}
<1>0. k \in (a + 1)..b /\ lines[k].type = "turn_context"
      /\ \A j \in (a + 1)..b : lines[j].type = "turn_context" => j <= k
  BY DEF IsLast
<1>1. /\ part \in Seq(LineSet) /\ Len(part) = b - a /\ b - a \in Nat /\ DOMAIN part = 1..(b - a)
      /\ \A i \in 1..(b - a) : part[i] = lines[a + i] /\ a + i \in (a + 1)..b
  BY PartOf
<1> HIDE DEF part
<1>2. k - a \in 1..(b - a) /\ a + (k - a) = k
  BY <1>0
<1>3. part[k - a] = lines[k]
  BY <1>1, <1>2
<1>4. k - a \in at
  BY <1>0, <1>1, <1>2, <1>3
<1>5. \A i \in at : i <= k - a
  <2> TAKE i \in at
  <2>1. i \in 1..(b - a) /\ lines[a + i].type = "turn_context" /\ a + i \in (a + 1)..b
    BY <1>1
  <2>2. a + i <= k
    BY <1>0, <2>1
  <2> QED BY <1>0, <2>1, <2>2
<1>6. at \in SUBSET Nat /\ k - a \in Nat
  BY <1>1, <1>2
<1>7. Max(at) = k - a
  <2> HIDE DEF at
  <2>1. Max(at) \in at /\ \A i \in at : i <= Max(at)
    BY <1>4, <1>5, <1>6, GreatestOf
  <2> DEFINE top == Max(at)
  <2>2. top \in Nat /\ top <= k - a /\ k - a <= top
    BY <1>4, <1>5, <1>6, <2>1
  <2> HIDE DEF top
  <2>3. top = k - a
    BY <1>6, <2>2
  <2> QED BY <2>3 DEF top
<1>8. ContextOf(t, part) = part[Max(at)].turn
  BY <1>4 DEF ContextOf
<1> QED BY <1>3, <1>7, <1>8 DEF part

\* There is a last one, or none.
LEMMA LastContext ==
  ASSUME NEW lines \in Seq(LineSet), NEW a \in Nat, NEW b \in Nat, b <= Len(lines)
  PROVE  NoContext(lines, a, b) \/ \E k \in Nat : IsLast(lines, a, b, k)
<1> DEFINE at == {j \in (a + 1)..b : lines[j].type = "turn_context"}
<1>1. at \in SUBSET Nat /\ \A j \in at : j <= b
  OBVIOUS
<1>2. CASE at = {}
  BY <1>2 DEF NoContext
<1>3. CASE at # {}
  <2>1. Max(at) \in at /\ \A j \in at : j <= Max(at)
    <3> HIDE DEF at
    <3> QED BY <1>1, <1>3, GreatestOf
  <2> QED BY <2>1 DEF IsLast
<1> QED BY <1>2, <1>3

\* The same for the lines from the first one.
LEMMA ContextAtIs ==
  ASSUME NEW lines \in Seq(LineSet), NEW b \in Nat, b <= Len(lines)
  PROVE  /\ NoContext(lines, 0, b) => ContextAt(lines, b) = 0
         /\ \A k : IsLast(lines, 0, b, k) => ContextAt(lines, b) = lines[k].turn
         /\ NoContext(lines, 0, b) \/ \E k \in Nat : IsLast(lines, 0, b, k)
<1>1. PICK a \in Nat : a = 0
  OBVIOUS
<1>2. a + 1 = 1 /\ a <= b
  BY <1>1
<1>3. NoContext(lines, a, b) => ContextOf(0, SubSeq(lines, a + 1, b)) = 0
  BY <1>2, ContextNone
<1>4. \A k : IsLast(lines, a, b, k) => ContextOf(0, SubSeq(lines, a + 1, b)) = lines[k].turn
  BY <1>2, ContextLast
<1>5. NoContext(lines, a, b) \/ \E k \in Nat : IsLast(lines, a, b, k)
  BY LastContext
<1> QED BY <1>1, <1>2, <1>3, <1>4, <1>5 DEF ContextAt

\* A file that has grown.
Longer(lines, more) ==
  /\ Len(lines) <= Len(more) /\ \A i \in DOMAIN lines : more[i] = lines[i]

\* It has the same contexts where the shorter one had them.
LEMMA ContextSame ==
  ASSUME NEW lines \in Seq(LineSet), NEW more \in Seq(LineSet), Longer(lines, more),
         NEW i \in 0..Len(lines)
  PROVE  ContextAt(more, i) = ContextAt(lines, i)
<1>0. /\ i \in Nat /\ i <= Len(lines) /\ i <= Len(more)
      /\ \A j \in (0 + 1)..i : more[j] = lines[j]
  BY DEF Longer
<1>1. CASE NoContext(lines, 0, i)
  <2>1. NoContext(more, 0, i)
    BY <1>0, <1>1 DEF NoContext
  <2> QED BY <1>0, <1>1, <2>1, ContextAtIs
<1>2. ASSUME NEW k \in Nat, IsLast(lines, 0, i, k)
      PROVE  ContextAt(more, i) = ContextAt(lines, i)
  <2>1. IsLast(more, 0, i, k) /\ more[k] = lines[k]
    BY <1>0, <1>2 DEF IsLast
  <2>2. ContextAt(lines, i) = lines[k].turn
    BY <1>0, <1>2, ContextAtIs
  <2>3. ContextAt(more, i) = more[k].turn
    BY <1>0, <2>1, ContextAtIs
  <2> QED BY <2>1, <2>2, <2>3
<1> QED BY <1>0, <1>1, <1>2, ContextAtIs

\* The context of a line is its own turn, or that of the line before it.
LEMMA ContextNext ==
  ASSUME NEW lines \in Seq(LineSet), NEW i \in 1..Len(lines)
  PROVE  /\ lines[i].type = "turn_context" => ContextAt(lines, i) = lines[i].turn
         /\ lines[i].type # "turn_context" => ContextAt(lines, i) = ContextAt(lines, i - 1)
<1>0. /\ i \in Nat /\ i - 1 \in Nat /\ i <= Len(lines) /\ i - 1 <= Len(lines)
  OBVIOUS
<1>1. ASSUME lines[i].type = "turn_context" PROVE ContextAt(lines, i) = lines[i].turn
  <2>1. IsLast(lines, 0, i, i)
    BY <1>0, <1>1 DEF IsLast
  <2> QED BY <1>0, <2>1, ContextAtIs
<1>2. ASSUME lines[i].type # "turn_context" PROVE ContextAt(lines, i) = ContextAt(lines, i - 1)
  <2>1. CASE NoContext(lines, 0, i - 1)
    <3>1. NoContext(lines, 0, i)
      <4> SUFFICES ASSUME NEW j \in (0 + 1)..i PROVE lines[j].type # "turn_context"
        BY DEF NoContext
      <4>1. j = i \/ j \in (0 + 1)..(i - 1)
        BY <1>0
      <4> QED BY <1>2, <2>1, <4>1 DEF NoContext
    <3>2. ContextAt(lines, i) = 0
      BY <1>0, <3>1, ContextAtIs
    <3>3. ContextAt(lines, i - 1) = 0
      BY <1>0, <2>1, ContextAtIs
    <3> QED BY <3>2, <3>3
  <2>2. ASSUME NEW k \in Nat, IsLast(lines, 0, i - 1, k)
        PROVE  ContextAt(lines, i) = ContextAt(lines, i - 1)
    <3>1. IsLast(lines, 0, i, k)
      <4>1. k \in (0 + 1)..i /\ lines[k].type = "turn_context"
        BY <1>0, <2>2 DEF IsLast
      <4>2. ASSUME NEW j \in (0 + 1)..i, lines[j].type = "turn_context" PROVE j <= k
        <5>1. j \in (0 + 1)..(i - 1)
          BY <1>0, <1>2, <4>2
        <5> QED BY <2>2, <4>2, <5>1 DEF IsLast
      <4> QED BY <4>1, <4>2 DEF IsLast
    <3>2. ContextAt(lines, i) = lines[k].turn
      BY <1>0, <3>1, ContextAtIs
    <3>3. ContextAt(lines, i - 1) = lines[k].turn
      BY <1>0, <2>2, ContextAtIs
    <3> QED BY <3>2, <3>3
  <2> QED BY <1>0, <2>1, <2>2, ContextAtIs
<1> QED BY <1>1, <1>2

\* The context of some lines after those before them is that of all.
LEMMA ContextJoins ==
  ASSUME NEW lines \in Seq(LineSet), NEW a \in Nat, NEW b \in Nat, a <= b, b <= Len(lines)
  PROVE  ContextOf(ContextAt(lines, a), SubSeq(lines, a + 1, b)) = ContextAt(lines, b)
<1>0. /\ a <= Len(lines)
      /\ \A j \in (0 + 1)..b : j \in (a + 1)..b \/ j \in (0 + 1)..a
      /\ \A j \in (a + 1)..b : j \in (0 + 1)..b
      /\ \A j \in (0 + 1)..a : j \in (0 + 1)..b
      /\ \A k \in (a + 1)..b, j \in (0 + 1)..a : j <= k
  OBVIOUS
<1>1. CASE NoContext(lines, a, b)
  <2>1. ContextOf(ContextAt(lines, a), SubSeq(lines, a + 1, b)) = ContextAt(lines, a)
    BY <1>1, ContextNone
  <2>2. CASE NoContext(lines, 0, a)
    <3>1. NoContext(lines, 0, b)
      BY <1>0, <1>1, <2>2 DEF NoContext
    <3>2. ContextAt(lines, b) = 0
      BY <3>1, ContextAtIs
    <3>3. ContextAt(lines, a) = 0
      BY <1>0, <2>2, ContextAtIs
    <3> QED BY <2>1, <3>2, <3>3
  <2>3. ASSUME NEW k \in Nat, IsLast(lines, 0, a, k)
        PROVE  ContextAt(lines, a) = ContextAt(lines, b)
    <3>1. IsLast(lines, 0, b, k)
      BY <1>0, <1>1, <2>3 DEF IsLast, NoContext
    <3>2. ContextAt(lines, b) = lines[k].turn
      BY <3>1, ContextAtIs
    <3>3. ContextAt(lines, a) = lines[k].turn
      BY <1>0, <2>3, ContextAtIs
    <3> QED BY <3>2, <3>3
  <2> QED BY <1>0, <2>1, <2>2, <2>3, ContextAtIs
<1>2. ASSUME NEW k \in Nat, IsLast(lines, a, b, k)
      PROVE  ContextOf(ContextAt(lines, a), SubSeq(lines, a + 1, b)) = ContextAt(lines, b)
  <2>1. IsLast(lines, 0, b, k)
    BY <1>0, <1>2 DEF IsLast
  <2>2. ContextOf(ContextAt(lines, a), SubSeq(lines, a + 1, b)) = lines[k].turn
    BY <1>2, ContextLast
  <2>3. ContextAt(lines, b) = lines[k].turn
    BY <2>1, ContextAtIs
  <2> QED BY <2>2, <2>3
<1> QED BY <1>1, <1>2, LastContext

-----------------------------------------------------------------------------
(* The file grows by newer lines, or another takes its path.               *)

\* A line that cannot be taken for one of before.
Newer(e) ==
  \/ e.item > written
  \/ e.turn > disk.turns
  \/ \E k \in DOMAIN Whole : Whole[k].type = "turn_context" /\ e.turn = Whole[k].turn
  \/ e = Blank /\ disk.nth = 1

NewLine(e, context, turns, n) ==
  /\ e # Meta /\ e.turn <= turns /\ e.item <= n
  /\ Visible(e) => e.item > written
  /\ e.type = "user" => e.turn = context
  /\ e.type = "assistant" => e.turn = 0
  /\ e.type = "turn_context" => e.turn > disk.turns
  /\ Newer(e)

\* Lines that extend the file by such ones, up to a number of turns and items.
Added(lines, turns, n) ==
  /\ lines \in Seq(LineSet) /\ Longer(Whole, lines)
  /\ \A i \in DOMAIN lines : i > Len(Whole) => NewLine(lines[i], ContextAt(lines, i), turns, n)

Adds ==
  /\ Added(Whole', disk'.turns, written')
  /\ disk'.nth = disk.nth /\ disk'.id = disk.id
  /\ disk.turns <= disk'.turns /\ written <= written'
  /\ Len(disk.lines) <= Len(disk'.lines)

Replaces ==
  /\ disk'.nth = disk.nth + 1 /\ disk'.id \in {disk.id, disk.id + 1}
  /\ disk'.turns = disk.turns /\ written' = written
  /\ Whole' = <<Meta>> /\ disk'.lines = <<Meta>>

\* The file and its incomplete line.
LEMMA WholeLines ==
  ASSUME RolloutTypes
  PROVE  /\ Whole \in Seq(LineSet) /\ Longer(disk.lines, Whole) /\ Longer(Whole, Whole)
         /\ disk.lines \in Seq(LineSet) /\ Len(disk.lines) \in Nat /\ Len(Whole) \in Nat
         /\ DOMAIN disk.lines = 1..Len(disk.lines) /\ DOMAIN Whole = 1..Len(Whole)
         /\ Len(disk.lines) <= Len(Whole)
         /\ \A i \in DOMAIN Whole : i <= Len(disk.lines) \/ Whole[i] = disk.tail
<1>1. disk.lines \in Seq(LineSet) /\ disk.tail \in LineSet /\ Len(disk.lines) \in Nat
  BY DEF RolloutTypes
<1>2. CASE disk.tail = NoLine
  <2>1. Whole = disk.lines
    BY <1>2 DEF Whole
  <2> QED BY <1>1, <2>1 DEF Longer
<1>3. CASE disk.tail # NoLine
  <2> DEFINE lines == disk.lines  e == disk.tail
  <2>1. Whole = Append(lines, e)
    BY <1>3 DEF Whole
  <2>2. lines \in Seq(LineSet) /\ e \in LineSet
    BY <1>1
  <2> HIDE DEF lines, e
  <2>3. /\ Append(lines, e) \in Seq(LineSet) /\ Len(Append(lines, e)) = Len(lines) + 1
        /\ Len(lines) \in Nat /\ DOMAIN lines = 1..Len(lines)
        /\ DOMAIN Append(lines, e) = 1..(Len(lines) + 1)
        /\ Append(lines, e)[Len(lines) + 1] = e
        /\ \A i \in 1..Len(lines) : Append(lines, e)[i] = lines[i]
    BY <2>2
  <2>4. \A i \in 1..(Len(lines) + 1) : i <= Len(lines) \/ i = Len(lines) + 1
    BY <2>3
  <2> QED BY <2>1, <2>2, <2>3, <2>4 DEF Longer, lines, e
<1> QED BY <1>2, <1>3

\* One more line.
LEMMA AddLine ==
  ASSUME RolloutTypes, NEW lines, NEW turns, NEW n, Added(lines, turns, n),
         NEW e \in LineSet, NewLine(e, ContextAt(lines, Len(lines)), turns, n)
  PROVE  Added(Append(lines, e), turns, n)
<1> DEFINE more == Append(lines, e)
<1>1. /\ lines \in Seq(LineSet) /\ more \in Seq(LineSet) /\ Len(lines) \in Nat
      /\ Len(more) = Len(lines) + 1 /\ DOMAIN lines = 1..Len(lines)
      /\ DOMAIN more = 1..(Len(lines) + 1) /\ more[Len(lines) + 1] = e
      /\ \A i \in 1..Len(lines) : more[i] = lines[i]
  BY DEF Added
<1> HIDE DEF more
<1>2. Len(Whole) \in Nat /\ DOMAIN Whole = 1..Len(Whole)
  BY WholeLines
<1>3. Longer(lines, more)
  BY <1>1 DEF Longer
<1>4. Longer(Whole, more)
  BY <1>1, <1>2 DEF Added, Longer
<1>5. ASSUME NEW i \in DOMAIN more, i > Len(Whole)
      PROVE  NewLine(more[i], ContextAt(more, i), turns, n)
  <2>1. CASE i \in DOMAIN lines
    <3>1. i \in 0..Len(lines) /\ more[i] = lines[i]
      BY <1>1, <2>1
    <3>2. ContextAt(more, i) = ContextAt(lines, i)
      BY <1>1, <1>3, <3>1, ContextSame
    <3>3. NewLine(lines[i], ContextAt(lines, i), turns, n)
      BY <1>5, <2>1 DEF Added
    <3> QED BY <3>1, <3>2, <3>3
  <2>2. CASE i = Len(lines) + 1
    <3>1. e.type = "user" => ContextAt(more, i) = ContextAt(lines, Len(lines))
      <4> SUFFICES ASSUME e.type = "user" PROVE ContextAt(more, i) = ContextAt(lines, Len(lines))
        OBVIOUS
      <4>1. ContextAt(more, i) = ContextAt(more, i - 1)
        BY <1>1, <2>2, ContextNext
      <4>2. i - 1 = Len(lines) /\ Len(lines) \in 0..Len(lines)
        BY <1>1, <2>2
      <4>3. ContextAt(more, Len(lines)) = ContextAt(lines, Len(lines))
        BY <1>1, <1>3, <4>2, ContextSame
      <4> QED BY <4>1, <4>2, <4>3
    <3>2. more[i] = e
      BY <1>1, <2>2
    <3> QED BY <3>1, <3>2 DEF NewLine
  <2> QED BY <1>1, <2>1, <2>2
<1>6. Added(more, turns, n)
  BY <1>1, <1>4, <1>5 DEF Added
<1> QED BY <1>6 DEF more

\* While a turn runs, the context of the last line is that of a turn_context.
LEMMA RunningContext ==
  ASSUME RolloutTypes, LineInv, Running # {}
  PROVE  \E k \in DOMAIN disk.lines :
           disk.lines[k].type = "turn_context" /\ LastTurn = disk.lines[k].turn
<1>0. disk.lines \in Seq(LineSet) /\ Len(disk.lines) \in Nat /\ DOMAIN disk.lines = 1..Len(disk.lines)
  BY DEF RolloutTypes
<1>1. \E l \in ToSet(disk.lines) : l.type = "task_started"
  BY DEF Running, ActiveOf
<1>2. PICK i \in DOMAIN disk.lines : disk.lines[i].type = "task_started"
  BY <1>1 DEF ToSet
<1>3. PICK j \in DOMAIN disk.lines : disk.lines[j].type = "turn_context"
  BY <1>2 DEF LineInv, Contexts
<1>4. ~ NoContext(disk.lines, 0, Len(disk.lines))
  BY <1>0, <1>3 DEF NoContext
<1>5. PICK k \in Nat : IsLast(disk.lines, 0, Len(disk.lines), k)
  BY <1>0, <1>4, ContextAtIs
<1>6. ContextAt(disk.lines, Len(disk.lines)) = disk.lines[k].turn
  BY <1>0, <1>5, ContextAtIs
<1>7. SubSeq(disk.lines, 1, Len(disk.lines)) = disk.lines
  <2> DEFINE s == disk.lines
  <2>1. s \in Seq(LineSet)
    BY <1>0
  <2> HIDE DEF s
  <2>2. SubSeq(s, 1, Len(s)) = s
    BY <2>1
  <2> QED BY <2>2 DEF s
<1>8. k \in DOMAIN disk.lines /\ disk.lines[k].type = "turn_context"
  BY <1>0, <1>5 DEF IsLast
<1> QED BY <1>6, <1>7, <1>8 DEF ContextAt, LastTurn

\* The incomplete line and the complete ones it ends.
LEMMA WholeGrown ==
  ASSUME RolloutTypes, NEW lines \in Seq(LineSet), NEW e \in LineSet, NEW turns \in Nat,
         e.type # "none", Grown(lines, e, turns)
  PROVE  /\ Whole' = Append(lines, e)
         /\ disk'.nth = disk.nth /\ disk'.id = disk.id /\ disk'.turns = turns
         /\ Len(lines) <= Len(disk'.lines)
<1>1. /\ disk'.nth = disk.nth /\ disk'.id = disk.id /\ disk'.turns = turns
      /\ \/ disk'.lines = Append(lines, e) /\ disk'.tail = NoLine
         \/ disk'.lines = lines /\ disk'.tail = e
  BY GrownTyped
<1>2. Len(lines) \in Nat /\ Len(Append(lines, e)) = Len(lines) + 1
  OBVIOUS
<1>3. e # NoLine
  BY DEF NoLine, Line
<1> QED BY <1>1, <1>2, <1>3 DEF Whole

\* A write adds newer lines when each of its lines is one.
LEMMA GrownAdds ==
  ASSUME RolloutTypes, NEW lines, NEW e \in LineSet, NEW turns \in Nat, NEW n \in Nat,
         Added(lines, turns, n), NewLine(e, ContextAt(lines, Len(lines)), turns, n),
         e.type # "none", Grown(lines, e, turns),
         disk.turns <= turns, written <= n, written' = n
  PROVE  Adds
<1>1. lines \in Seq(LineSet) /\ Len(lines) \in Nat /\ Longer(Whole, lines)
  BY DEF Added
<1>2. Added(Append(lines, e), turns, n)
  BY AddLine
<1>3. /\ Whole' = Append(lines, e)
      /\ disk'.nth = disk.nth /\ disk'.id = disk.id /\ disk'.turns = turns
      /\ Len(lines) <= Len(disk'.lines)
  BY <1>1, WholeGrown
<1>4. /\ disk'.lines \in Seq(LineSet) /\ Len(disk'.lines) \in Nat
  <2>1. disk' \in [nth : Nat, turns : Nat, id : Nat, lines : Seq(LineSet), tail : LineSet]
    BY <1>1, GrownTyped
  <2> QED BY <2>1
<1>5. Len(disk.lines) <= Len(disk'.lines)
  <2>1. Len(disk.lines) \in Nat /\ Len(Whole) \in Nat /\ Len(disk.lines) <= Len(Whole)
    BY WholeLines
  <2>2. Len(Whole) <= Len(lines)
    BY <1>1 DEF Longer
  <2> QED BY <1>1, <1>3, <1>4, <2>1, <2>2
<1>6. Added(Whole', disk'.turns, written')
  BY <1>2, <1>3
<1> QED BY <1>3, <1>5, <1>6 DEF Adds

\* The file as it is.
LEMMA WholeAdded ==
  ASSUME RolloutTypes, NEW turns, NEW n
  PROVE  Added(Whole, turns, n)
<1>1. /\ Whole \in Seq(LineSet) /\ Longer(Whole, Whole)
      /\ Len(Whole) \in Nat /\ DOMAIN Whole = 1..Len(Whole)
  BY WholeLines
<1> HIDE DEF Whole
<1>2. \A i \in DOMAIN Whole : ~ (i > Len(Whole))
  BY <1>1
<1> QED BY <1>1, <1>2 DEF Added

\* What the writer finds when the last line is complete.
LEMMA WholeEnds ==
  ASSUME RolloutTypes, disk.tail = NoLine
  PROVE  /\ Whole = disk.lines /\ Whole \in Seq(LineSet) /\ Len(Whole) \in Nat
         /\ DOMAIN Whole = 1..Len(Whole) /\ ContextAt(Whole, Len(Whole)) = LastTurn
<1>1. Whole = disk.lines /\ disk.lines \in Seq(LineSet)
  BY DEF Whole, RolloutTypes
<1>2. SubSeq(disk.lines, 1, Len(disk.lines)) = disk.lines
  <2> DEFINE s == disk.lines
  <2>1. s \in Seq(LineSet)
    BY <1>1
  <2> HIDE DEF s
  <2>2. SubSeq(s, 1, Len(s)) = s
    BY <2>1
  <2> QED BY <2>2 DEF s
<1>3. Len(disk.lines) \in Nat /\ DOMAIN disk.lines = 1..Len(disk.lines)
  BY <1>1
<1> QED BY <1>1, <1>2, <1>3 DEF ContextAt, LastTurn

\* A user item of the turn that runs.
LEMMA SteerAdds ==
  ASSUME RolloutTypes, LineInv, Sane(Whole, disk.turns, written), disk.tail = NoLine, Running # {},
         NEW by, UserItem(LastTurn, by) \in LineSet,
         Grown(disk.lines, UserItem(LastTurn, by), disk.turns), written' = written + 1
  PROVE  Adds
<1> DEFINE e == UserItem(LastTurn, by)
<1>1. /\ Whole = disk.lines /\ ContextAt(Whole, Len(Whole)) = LastTurn
      /\ disk.turns \in Nat /\ written \in Nat /\ written + 1 \in Nat
  BY WholeEnds, RolloutAssumption DEF RolloutTypes
<1>2. LastTurn <= disk.turns
  BY <1>1, RunningContext DEF Sane
<1>3. e.type = "user" /\ e.turn = LastTurn /\ e.item = written + 1 /\ e # Meta /\ e \in LineSet
  BY DEF UserItem, Line, Meta
<1> HIDE DEF e
<1>4. NewLine(e, ContextAt(Whole, Len(Whole)), disk.turns, written + 1)
  BY <1>1, <1>2, <1>3 DEF NewLine, Newer
<1>5. Added(Whole, disk.turns, written + 1)
  BY WholeAdded
<1>6. Grown(Whole, e, disk.turns)
  BY <1>1 DEF e
<1>7. disk.turns <= disk.turns /\ written <= written + 1 /\ e.type # "none"
  BY <1>1, <1>3
<1> QED BY <1>1, <1>3, <1>4, <1>5, <1>6, <1>7, GrownAdds

\* A user item that starts a turn.
LEMMA StartAdds ==
  ASSUME RolloutTypes, disk.tail = NoLine, NEW by, NEW turn \in Nat, turn = disk.turns + 1,
         UserItem(turn, by) \in LineSet,
         Grown(Began(turn), UserItem(turn, by), disk.turns + 1), written' = written + 1
  PROVE  Adds
<1> DEFINE a == Line("task_started", turn, 0, "codex")
           b == Line("turn_context", turn, 0, "codex")
           e == UserItem(turn, by)
<1>1. /\ Whole = disk.lines /\ disk.turns \in Nat /\ written \in Nat /\ written + 1 \in Nat
      /\ disk.turns + 1 \in Nat
  BY WholeEnds, RolloutAssumption DEF RolloutTypes
<1>2. /\ e.type = "user" /\ e.turn = turn /\ e.item = written + 1 /\ e # Meta /\ e \in LineSet
      /\ e.type # "none"
  BY DEF UserItem, Line, Meta
<1>3. /\ a \in LineSet /\ a.type = "task_started" /\ a.turn = turn /\ a.item = 0
      /\ b \in LineSet /\ b.type = "turn_context" /\ b.turn = turn /\ b.item = 0
  BY LineTyped DEF Types, Owners
<1>4. a # Meta /\ b # Meta
  BY DEF Line, Meta
<1>5. Began(turn) = Append(Append(disk.lines, a), b)
  BY DEF Began
<1> HIDE DEF a, b, e
<1>6. /\ turn <= disk.turns + 1 /\ turn > disk.turns /\ 0 <= written + 1 /\ written <= written + 1
      /\ disk.turns <= disk.turns + 1 /\ written + 1 > written
  BY <1>1
<1>7. Added(Whole, disk.turns + 1, written + 1)
  BY WholeAdded
<1>8. \A context : NewLine(a, context, disk.turns + 1, written + 1)
  BY <1>3, <1>4, <1>6 DEF NewLine, Newer, Visible
<1>9. \A context : NewLine(b, context, disk.turns + 1, written + 1)
  BY <1>3, <1>4, <1>6 DEF NewLine, Newer, Visible
<1>10. Added(Append(Whole, a), disk.turns + 1, written + 1)
  BY <1>3, <1>7, <1>8, AddLine
<1>11. Added(Append(Append(Whole, a), b), disk.turns + 1, written + 1)
  BY <1>3, <1>9, <1>10, AddLine
<1> DEFINE lines == Append(Append(Whole, a), b)
<1>12. /\ lines \in Seq(LineSet) /\ Len(lines) \in 1..Len(lines) /\ lines[Len(lines)] = b
  <2> DEFINE x == Append(Whole, a)
  <2>1. x \in Seq(LineSet)
    BY <1>10 DEF Added
  <2> HIDE DEF x
  <2>2. /\ Append(x, b) \in Seq(LineSet) /\ Len(Append(x, b)) = Len(x) + 1 /\ Len(x) \in Nat
        /\ Append(x, b)[Len(x) + 1] = b
    BY <1>3, <2>1
  <2> QED BY <2>2 DEF x
<1> HIDE DEF lines
<1>13. ContextAt(lines, Len(lines)) = turn
  BY <1>3, <1>12, ContextNext
<1>14. NewLine(e, ContextAt(lines, Len(lines)), disk.turns + 1, written + 1)
  BY <1>2, <1>6, <1>13 DEF NewLine, Newer
<1>15. Added(lines, disk.turns + 1, written + 1) /\ Grown(lines, e, disk.turns + 1)
  BY <1>1, <1>5, <1>11 DEF lines, e
<1> QED BY <1>1, <1>2, <1>6, <1>14, <1>15, GrownAdds

\* An answer.
LEMMA AnswerAdds ==
  ASSUME RolloutTypes, disk.tail = NoLine, Preview \in LineSet, Assistant \in LineSet,
         Grown(Append(disk.lines, Preview), Assistant, disk.turns), written' = written + 1
  PROVE  Adds
<1>1. /\ Whole = disk.lines /\ disk.turns \in Nat /\ written \in Nat /\ written + 1 \in Nat
  BY WholeEnds, RolloutAssumption DEF RolloutTypes
<1>2. /\ Preview.type = "agent_message" /\ Preview.turn = 0 /\ Preview.item = written + 1
      /\ Assistant.type = "assistant" /\ Assistant.turn = 0 /\ Assistant.item = written + 1
      /\ Preview # Meta /\ Assistant # Meta /\ Assistant.type # "none"
  BY DEF Preview, Assistant, Line, Meta
<1>3. /\ 0 <= disk.turns /\ disk.turns <= disk.turns /\ written <= written + 1
      /\ written + 1 > written /\ written + 1 <= written + 1
  BY <1>1
<1>4. \A context : NewLine(Preview, context, disk.turns, written + 1)
  BY <1>2, <1>3 DEF NewLine, Newer, Visible
<1>5. \A context : NewLine(Assistant, context, disk.turns, written + 1)
  BY <1>2, <1>3 DEF NewLine, Newer, Visible
<1>6. Added(Whole, disk.turns, written + 1)
  BY WholeAdded
<1>7. Added(Append(Whole, Preview), disk.turns, written + 1)
  BY <1>4, <1>6, AddLine
<1>8. Grown(Append(Whole, Preview), Assistant, disk.turns)
  BY <1>1
<1> DEFINE lines == Append(Whole, Preview)
<1> HIDE DEF lines
<1>9. Added(lines, disk.turns, written + 1) /\ Grown(lines, Assistant, disk.turns)
  BY <1>7, <1>8 DEF lines
<1> QED BY <1>1, <1>2, <1>3, <1>5, <1>9, GrownAdds

\* The end of a turn, or an empty line.
LEMMA LineAdds ==
  ASSUME RolloutTypes, LineInv, Sane(Whole, disk.turns, written), disk.tail = NoLine,
         NEW e \in LineSet, (Running # {} /\ e = Ended) \/ (disk.nth = 1 /\ e = Blank),
         disk' = [disk EXCEPT !.lines = Append(@, e)], written' = written
  PROVE  Adds
<1>1. /\ Whole = disk.lines /\ disk.turns \in Nat /\ written \in Nat
  BY WholeEnds, RolloutAssumption DEF RolloutTypes
<1>2. /\ e.type \in {"task_complete", "blank"} /\ e.item = 0 /\ e # Meta
      /\ \/ Running # {} /\ e.turn = LastTurn
         \/ e.turn = 0 /\ e = Blank /\ disk.nth = 1
  BY DEF Ended, Blank, Line, Meta
<1>3. e.turn <= disk.turns
  BY <1>1, <1>2, RunningContext DEF Sane
<1>4. Newer(e)
  <2>1. CASE e = Blank /\ disk.nth = 1
    BY <2>1 DEF Newer
  <2>2. CASE Running # {} /\ e.turn = LastTurn
    BY <1>1, <2>2, RunningContext DEF Newer
  <2> QED BY <1>2, <2>1, <2>2
<1>5. NewLine(e, ContextAt(Whole, Len(Whole)), disk.turns, written)
  BY <1>1, <1>2, <1>3, <1>4 DEF NewLine, Visible
<1>6. Added(Append(Whole, e), disk.turns, written)
  BY <1>5, WholeAdded, AddLine
<1>7. /\ disk'.lines = Append(disk.lines, e) /\ disk'.tail = NoLine /\ disk'.turns = disk.turns
      /\ disk'.nth = disk.nth /\ disk'.id = disk.id
  BY DEF RolloutTypes
<1>8. Whole' = Append(Whole, e)
  BY <1>1, <1>7 DEF Whole
<1>9. Len(disk.lines) <= Len(disk'.lines)
  <2>1. disk.lines \in Seq(LineSet)
    BY DEF RolloutTypes
  <2>2. Len(Append(disk.lines, e)) = Len(disk.lines) + 1 /\ Len(disk.lines) \in Nat
    BY <2>1
  <2> QED BY <1>7, <2>2
<1> QED BY <1>1, <1>6, <1>7, <1>8, <1>9 DEF Adds

\* A step that leaves the lines as they are, the incomplete one included.
LEMMA SameAdds ==
  ASSUME RolloutTypes, Whole' = Whole, Len(disk.lines) <= Len(disk'.lines),
         disk'.nth = disk.nth, disk'.id = disk.id, disk'.turns = disk.turns, written' = written
  PROVE  Adds
<1>1. Added(Whole, disk.turns, written) /\ disk.turns \in Nat /\ written \in Nat
  BY WholeAdded, RolloutAssumption DEF RolloutTypes
<1> QED BY <1>1 DEF Adds

\* What the writer does to the file.
LEMMA FileStep ==
  ASSUME RolloutTypes, LineInv, Sane(Whole, disk.turns, written), WriterStep
  PROVE  Adds \/ Replaces
<1>0. disk.lines \in Seq(LineSet) /\ LastTurn \in Nat
  BY ContextTyped DEF RolloutTypes, LastTurn
<1>1. Ended \in LineSet /\ Blank \in LineSet
  BY <1>0, LineTyped DEF Ended, Blank, Types, Owners
<1>2. ASSUME NEW by \in Messages \cup {"local"}, NEW turn \in Nat, disk.tail = NoLine,
             written' = written + 1, UserItem(turn, by) \in LineSet,
             \/ /\ Running # {} /\ turn = LastTurn
                /\ Grown(disk.lines, UserItem(turn, by), disk.turns)
             \/ /\ turn = disk.turns + 1
                /\ Grown(Began(turn), UserItem(turn, by), disk.turns + 1)
      PROVE  Adds
  BY <1>2, SteerAdds, StartAdds
<1>3. CASE /\ disk.tail = NoLine /\ written' = written + 1
           /\ Preview \in LineSet /\ Assistant \in LineSet
           /\ Grown(Append(disk.lines, Preview), Assistant, disk.turns)
  BY <1>3, AnswerAdds
<1>4. CASE /\ disk.tail = NoLine /\ written' = written
           /\ \/ Running # {} /\ disk' = [disk EXCEPT !.lines = Append(@, Ended)]
              \/ disk.nth = 1 /\ disk' = [disk EXCEPT !.lines = Append(@, Blank)]
  <2>1. CASE Running # {} /\ disk' = [disk EXCEPT !.lines = Append(@, Ended)]
    BY <1>1, <1>4, <2>1, LineAdds
  <2>2. CASE disk.nth = 1 /\ disk' = [disk EXCEPT !.lines = Append(@, Blank)]
    BY <1>1, <1>4, <2>2, LineAdds
  <2> QED BY <1>4, <2>1, <2>2
<1>5. CASE CompleteLine
  <2>1. /\ disk.tail # NoLine /\ written' = written
        /\ disk' = [disk EXCEPT !.lines = Append(@, disk.tail), !.tail = NoLine]
    BY <1>5 DEF CompleteLine
  <2>2. /\ disk'.lines = Append(disk.lines, disk.tail) /\ disk'.tail = NoLine
        /\ disk'.turns = disk.turns /\ disk'.nth = disk.nth /\ disk'.id = disk.id
    BY <2>1 DEF RolloutTypes
  <2>3. Whole' = Whole
    BY <2>1, <2>2 DEF Whole
  <2>4. Len(disk.lines) <= Len(disk'.lines)
    <3>1. Len(Append(disk.lines, disk.tail)) = Len(disk.lines) + 1 /\ Len(disk.lines) \in Nat
      BY <1>0
    <3> QED BY <2>2, <3>1
  <2> QED BY <2>1, <2>2, <2>3, <2>4, SameAdds
<1>6. CASE ReplaceFile
  <2>1. /\ disk'.nth = disk.nth + 1 /\ disk'.id \in {disk.id, disk.id + 1}
        /\ disk'.turns = disk.turns /\ written' = written
        /\ disk'.lines = <<Meta>> /\ disk'.tail = NoLine
    BY <1>6 DEF ReplaceFile
  <2> QED BY <2>1 DEF Replaces, Whole
<1> QED BY <1>2, <1>3, <1>4, <1>5, <1>6 DEF WriterStep

-----------------------------------------------------------------------------
(* What the writer leaves of the invariant.                                *)

\* The lines stay sane.
LEMMA SaneLonger ==
  ASSUME RolloutTypes, Sane(Whole, disk.turns, written),
         NEW more, NEW turns \in Nat, NEW n \in Nat, Added(more, turns, n),
         disk.turns <= turns, written <= n
  PROVE  Sane(more, turns, n)
<1>0. /\ more \in Seq(LineSet) /\ DOMAIN more = 1..Len(more) /\ Len(more) \in Nat
      /\ Longer(Whole, more) /\ Whole \in Seq(LineSet)
      /\ Len(Whole) \in Nat /\ DOMAIN Whole = 1..Len(Whole)
      /\ disk.turns \in Nat /\ written \in Nat
  BY WholeLines, RolloutAssumption DEF Added, RolloutTypes
<1>1. Len(Whole) # 0 /\ 1 \in DOMAIN Whole
  BY <1>0 DEF Sane
<1>2. more # <<>> /\ more[1] = Meta
  BY <1>0, <1>1 DEF Longer, Sane
<1>3. ASSUME NEW i \in DOMAIN more
      PROVE  /\ i > 1 => more[i] # Meta
             /\ more[i].turn <= turns /\ more[i].item <= n
             /\ more[i].type = "user" => more[i].turn = ContextAt(more, i)
             /\ more[i].type = "assistant" => more[i].turn = 0
  <2>1. CASE i > Len(Whole)
    BY <2>1 DEF Added, NewLine
  <2>2. CASE i \in DOMAIN Whole
    <3>1. more[i] = Whole[i] /\ i \in 0..Len(Whole)
      BY <1>0, <2>2 DEF Longer
    <3>2. ContextAt(more, i) = ContextAt(Whole, i)
      BY <1>0, <3>1, ContextSame
    <3>3. /\ i > 1 => Whole[i] # Meta
          /\ Whole[i].turn <= disk.turns /\ Whole[i].item <= written
          /\ Whole[i].type = "user" => Whole[i].turn = ContextAt(Whole, i)
          /\ Whole[i].type = "assistant" => Whole[i].turn = 0
      BY <2>2 DEF Sane
    <3>4. Whole[i].turn \in Nat /\ Whole[i].item \in Nat
      <4>1. Whole[i] \in LineSet
        BY <1>0, <2>2
      <4> QED BY <4>1 DEF LineSet
    <3>5. Whole[i].turn <= turns /\ Whole[i].item <= n
      BY <1>0, <3>3, <3>4
    <3> QED BY <3>1, <3>2, <3>3, <3>5
  <2> QED BY <1>0, <2>1, <2>2
<1> QED BY <1>0, <1>2, <1>3 DEF Sane

\* A file of one line is.
LEMMA SaneMeta ==
  ASSUME NEW turns \in Nat, NEW n \in Nat
  PROVE  Sane(<<Meta>>, turns, n)
<1>1. /\ Meta \in LineSet /\ Meta.type = "session_meta" /\ Meta.turn = 0 /\ Meta.item = 0
  BY LineTyped DEF Meta, Types, Owners
<1> HIDE DEF Meta
<1>2. <<Meta>> \in Seq(LineSet) /\ <<Meta>> # <<>> /\ <<Meta>>[1] = Meta /\ DOMAIN <<Meta>> = {1}
  BY <1>1
<1> QED BY <1>1, <1>2 DEF Sane

\* A step that leaves the reader alone, but for its memory: an item that becomes
\* that of a record is behind the cursor.
ReaderStill ==
  /\ UNCHANGED <<cursor, since, mirrored>> /\ cache' \in {cache, NoCache}
  /\ \A m \in Messages :
       \/ record'[m].item = record[m].item
       \/ /\ record[m].item = 0
          /\ \E i \in DOMAIN disk.lines :
               /\ i > cursor.at /\ Visible(disk.lines[i])
               /\ record'[m].item = disk.lines[i].item

\* What the cursor has passed stays so.
LEMMA GoodAdds ==
  ASSUME TypeInv, LineInv, Good, ReaderStill, RolloutTypes', Adds
  PROVE  Good'
<1> DEFINE more == Whole'
<1>0. /\ Whole \in Seq(LineSet) /\ Longer(disk.lines, Whole) /\ RolloutTypes
      /\ Len(disk.lines) \in Nat /\ Len(Whole) \in Nat
      /\ DOMAIN disk.lines = 1..Len(disk.lines) /\ DOMAIN Whole = 1..Len(Whole)
      /\ Len(disk.lines) <= Len(Whole)
      /\ cursor.at \in DOMAIN disk.lines /\ cursor.at \in Nat
  BY WholeLines DEF TypeInv, RolloutTypes, Good
<1>1. /\ DOMAIN disk'.lines = 1..Len(disk'.lines) /\ Len(disk'.lines) \in Nat
      /\ Len(disk.lines) <= Len(disk'.lines)
  BY DEF RolloutTypes, Adds
<1>2. PICK lines \in Seq(LineSet) : lines = Whole'
  BY DEF Adds, Added
<1>3. PICK turns, n : turns = disk'.turns /\ n = written'
  OBVIOUS
<1>4. /\ Longer(Whole, lines) /\ Len(Whole) <= Len(lines)
      /\ \A i \in DOMAIN lines : i > Len(Whole) => NewLine(lines[i], ContextAt(lines, i), turns, n)
      /\ DOMAIN lines = 1..Len(lines) /\ Len(lines) \in Nat
  BY <1>2, <1>3 DEF Adds, Added, Longer
<1>5. \A i \in 0..Len(Whole) : ContextAt(lines, i) = ContextAt(Whole, i)
  BY <1>0, <1>4, ContextSame
<1>6. \A i \in 1..Len(Whole) : lines[i] = Whole[i]
  BY <1>0, <1>4 DEF Longer
<1>7. cursor'.id = disk'.id /\ cursor' = cursor /\ since' = since /\ mirrored' = mirrored
  BY DEF Good, ReaderStill, Adds
<1>8. cursor'.at \in DOMAIN disk'.lines /\ cursor'.last = lines[cursor'.at]
  BY <1>0, <1>1, <1>6, <1>7 DEF Good
<1>9. cache' # NoCache => cache'.context = ContextAt(lines, cursor'.at)
  BY <1>0, <1>5, <1>7 DEF Good, ReaderStill
<1>10. ASSUME NEW i \in DOMAIN lines, i > cursor.at, Visible(lines[i]) PROVE lines[i].item > since
  <2>1. CASE i \in 1..Len(Whole)
    BY <1>0, <1>6, <1>10, <2>1 DEF Good
  <2>2. CASE i > Len(Whole)
    <3>1. lines[i].item > written /\ lines[i] \in LineSet
      BY <1>4, <1>10, <2>2 DEF NewLine
    <3>2. since \in Nat /\ written \in Nat /\ since <= written /\ lines[i].item \in Nat
      BY <1>0, <3>1, RolloutAssumption DEF RolloutTypes, LineSet
    <3> QED BY <3>1, <3>2
  <2> QED BY <1>0, <1>4, <2>1, <2>2
<1>11. ASSUME NEW e \in mirrored
       PROVE  e.item > since /\ \E i \in 1..cursor.at : FromLine(e, lines, i)
  <2>1. PICK i \in 1..cursor.at : FromLine(e, Whole, i)
    BY DEF Good
  <2>2. i \in 1..Len(Whole) /\ i \in 0..Len(Whole)
    BY <1>0
  <2>3. FromLine(e, lines, i)
    BY <1>5, <1>6, <2>1, <2>2 DEF FromLine
  <2> QED BY <2>3 DEF Good
<1>12. ASSUME NEW i \in 1..cursor.at, Visible(lines[i]), lines[i].item > since
       PROVE  \/ \E e \in mirrored : e.item = lines[i].item
              \/ \E m \in Messages : record'[m].item = lines[i].item
  <2>1. i \in 1..Len(Whole)
    BY <1>0
  <2>2. lines[i] = Whole[i] /\ lines[i] \in LineSet
    BY <1>0, <1>6, <2>1
  <2>3. lines[i].item # 0
    <3>1. since \in Nat
      BY RolloutAssumption DEF TypeInv, RolloutTypes
    <3>2. lines[i].item \in Nat
      BY <2>2 DEF LineSet
    <3> QED BY <1>12, <3>1, <3>2
  <2>4. CASE \E e \in mirrored : e.item = Whole[i].item
    BY <2>2, <2>4
  <2>5. ASSUME NEW m \in Messages, record[m].item = Whole[i].item
        PROVE  \E k \in Messages : record'[k].item = lines[i].item
    BY <2>2, <2>3, <2>5 DEF ReaderStill
  <2> QED BY <1>12, <2>2, <2>4, <2>5 DEF Good
<1>13. ASSUME NEW e \in mirrored, NEW m \in Messages PROVE record'[m].item # e.item
  <2>1. record[m].item # e.item
    BY DEF Good
  <2>2. PICK i \in 1..cursor.at : FromLine(e, Whole, i)
    BY DEF Good
  <2>3. i \in DOMAIN disk.lines /\ Whole[i] = disk.lines[i] /\ i \in Nat
    BY <1>0 DEF Longer
  <2>4. ASSUME NEW j \in DOMAIN disk.lines, j > cursor.at, Visible(disk.lines[j]),
               disk.lines[j].item = e.item
        PROVE  FALSE
    <3>1. Visible(disk.lines[i]) /\ disk.lines[i].item = e.item
      BY <2>2, <2>3 DEF FromLine
    <3>2. i = j
      BY <1>0, <2>3, <2>4, <3>1, ItemsDiffer
    <3> QED BY <1>0, <2>4, <3>2
  <2> QED BY <2>1, <2>4 DEF ReaderStill
<1> QED BY <1>2, <1>7, <1>8, <1>9, <1>10, <1>11, <1>12, <1>13 DEF Good

\* Under a new file the cursor is where it was only before the first item.
LEMMA GoodReplaced ==
  ASSUME TypeInv, Sane(Whole, disk.turns, written), Good, ReaderStill, Replaces
  PROVE  Good' \/ Stale'
<1>0. /\ Whole \in Seq(LineSet) /\ RolloutTypes /\ Longer(disk.lines, Whole)
      /\ Len(disk.lines) \in Nat /\ Len(Whole) \in Nat /\ Len(disk.lines) <= Len(Whole)
      /\ DOMAIN disk.lines = 1..Len(disk.lines) /\ DOMAIN Whole = 1..Len(Whole)
      /\ cursor.at \in DOMAIN disk.lines /\ cursor.at \in 1..Len(Whole) /\ cursor.at \in Nat
      /\ cursor.id = disk.id /\ disk.id \in Nat /\ disk.nth \in Nat /\ disk.nth >= 1
      /\ written \in Nat /\ since \in Nat /\ since <= written
  BY WholeLines, RolloutAssumption DEF TypeInv, RolloutTypes, FileInv, Good
<1>1. /\ disk'.nth > 1 /\ disk'.turns = disk.turns /\ written' = written
      /\ disk'.id = disk.id \/ disk'.id > disk.id
      /\ disk'.lines = <<Meta>>
      /\ cursor' = cursor /\ since' = since /\ mirrored' = mirrored
  BY <1>0 DEF Replaces, ReaderStill
<1>2. PICK lines : lines = Whole'
  OBVIOUS
<1>3. lines = <<Meta>> /\ DOMAIN lines = {1} /\ lines[1] = Meta
      /\ ~ Visible(Meta) /\ Meta.type = "session_meta"
  BY <1>2 DEF Replaces, Meta, Line, Visible
<1>4. \A e \in mirrored : e.item <= written
  <2> TAKE e \in mirrored
  <2>1. PICK i \in 1..cursor.at : FromLine(e, Whole, i)
    BY DEF Good
  <2>2. Whole[i].item <= written
    BY <1>0, <2>1 DEF Sane
  <2> QED BY <2>1, <2>2 DEF FromLine
<1>5. CASE disk'.id > disk.id
  BY <1>0, <1>1, <1>2, <1>3, <1>4, <1>5 DEF Stale
<1>6. CASE disk'.id = disk.id /\ cursor.at > 1
  <2>1. /\ cursor.last = Whole[cursor.at] /\ cursor.last # Meta
        /\ cursor.last.turn <= disk.turns /\ cursor.last.item <= written
    BY <1>0, <1>6 DEF Good, Sane
  <2>2. /\ cursor'.at > 1 /\ cursor'.last.turn <= disk'.turns /\ cursor'.last.item <= written'
        /\ \A i \in DOMAIN lines :
             /\ lines[i] # cursor'.last
             /\ lines[i].type = "turn_context" => lines[i].turn > cursor'.last.turn
    BY <1>1, <1>3, <1>6, <2>1
  <2>3. /\ disk'.nth > 1
        /\ \A e \in mirrored' :
             /\ e.item <= written'
             /\ \A i \in DOMAIN lines : Visible(lines[i]) => e.item < lines[i].item
    BY <1>1, <1>3, <1>4
  <2> QED BY <1>2, <2>2, <2>3 DEF Stale
<1>7. CASE disk'.id = disk.id /\ cursor.at = 1
  <2>1. Whole[1] = Meta /\ cursor.last = Meta
    BY <1>7 DEF Sane, Good
  <2>2. mirrored = {}
    <3> SUFFICES ASSUME NEW e \in mirrored PROVE FALSE
      OBVIOUS
    <3>1. PICK i \in 1..cursor.at : FromLine(e, Whole, i)
      BY DEF Good
    <3>2. i = 1
      BY <1>7
    <3> QED BY <1>3, <2>1, <3>1, <3>2 DEF FromLine
  <2>3. ContextAt(lines, 1) = ContextAt(Whole, 1)
    <3>1. lines \in Seq(LineSet) /\ Len(lines) = 1
      <4>1. Meta \in LineSet
        BY LineTyped DEF Meta, Types, Owners
      <4> QED BY <1>3, <4>1
    <3>2. Longer(lines, Whole) /\ 1 \in 0..Len(lines)
      BY <1>0, <1>3, <2>1, <3>1 DEF Longer
    <3> QED BY <1>0, <3>1, <3>2, ContextSame
  <2>4. cursor'.id = disk'.id /\ cursor'.at \in DOMAIN disk'.lines /\ cursor'.last = lines[cursor'.at]
    <3>1. DOMAIN <<Meta>> = {1}
      OBVIOUS
    <3> QED BY <1>0, <1>1, <1>3, <1>7, <2>1, <3>1
  <2>5. cache' # NoCache => cache'.context = ContextAt(lines, cursor'.at)
    BY <1>1, <1>7, <2>3 DEF ReaderStill, Good
  <2>6. 1..cursor'.at = {1}
    BY <1>1, <1>7
  <2>7. Good'
    BY <1>1, <1>2, <1>3, <2>2, <2>4, <2>5, <2>6 DEF Good
  <2> QED BY <2>7
<1> QED BY <1>0, <1>1, <1>5, <1>6, <1>7

\* Another file stays another one, by the lines it gets and the next that comes.
LEMMA StaleKept ==
  ASSUME TypeInv, Sane(Whole, disk.turns, written), Stale, ReaderStill, RolloutTypes', Adds \/ Replaces
  PROVE  Stale'
<1>0. /\ Whole \in Seq(LineSet) /\ Len(Whole) \in Nat /\ DOMAIN Whole = 1..Len(Whole)
      /\ disk.id \in Nat /\ disk.nth \in Nat /\ disk.nth > 1 /\ disk.turns \in Nat
      /\ written \in Nat /\ cursor.id \in Nat
  <2>1. RolloutTypes /\ disk.nth > 1
    BY DEF TypeInv, Stale
  <2>2. /\ disk.id \in Nat /\ disk.nth \in Nat /\ disk.turns \in Nat /\ written \in Nat
        /\ cursor.id \in Nat
    BY <2>1, RolloutAssumption DEF RolloutTypes
  <2> QED BY <2>1, <2>2, WholeLines
<1>1. cursor.last.turn \in Nat /\ cursor.last.item \in Nat
  BY DEF TypeInv, RolloutTypes, LineSet
<1>2. \A e \in mirrored : e.item \in Nat
  BY DEF TypeInv, BridgeTypes, ItemSet
<1>3. cursor' = cursor /\ mirrored' = mirrored
  BY DEF ReaderStill
<1>4. PICK lines, turns, n : lines = Whole' /\ turns = disk'.turns /\ n = written'
  OBVIOUS
<1>5. turns \in Nat /\ n \in Nat /\ disk'.id \in Nat /\ disk'.nth \in Nat
  <2>1. turns \in Nat /\ disk'.id \in Nat /\ disk'.nth \in Nat
    BY <1>4 DEF RolloutTypes
  <2>2. n \in 0..MaxItems
    BY <1>4 DEF RolloutTypes
  <2> QED BY <2>1, <2>2, RolloutAssumption
<1>6. CASE Adds
  <2>1. /\ DOMAIN lines = 1..Len(lines) /\ Len(lines) \in Nat
        /\ \A i \in 1..Len(Whole) : lines[i] = Whole[i]
        /\ \A i \in DOMAIN lines : i > Len(Whole) => NewLine(lines[i], ContextAt(lines, i), turns, n)
        /\ \A i \in DOMAIN lines : lines[i] \in LineSet
        /\ disk'.nth = disk.nth /\ disk'.id = disk.id /\ disk.turns <= turns /\ written <= n
    <3>1. Added(lines, turns, n)
      BY <1>4, <1>6 DEF Adds
    <3>2. lines \in Seq(LineSet) /\ Longer(Whole, lines)
      BY <3>1 DEF Added
    <3>3. \A i \in DOMAIN lines : i > Len(Whole) => NewLine(lines[i], ContextAt(lines, i), turns, n)
      BY <3>1 DEF Added
    <3>4. /\ DOMAIN lines = 1..Len(lines) /\ Len(lines) \in Nat
          /\ \A i \in DOMAIN lines : lines[i] \in LineSet
      BY <3>2
    <3>5. \A i \in 1..Len(Whole) : lines[i] = Whole[i]
      BY <1>0, <3>2 DEF Longer
    <3>6. disk'.nth = disk.nth /\ disk'.id = disk.id /\ disk.turns <= turns /\ written <= n
      BY <1>4, <1>6 DEF Adds
    <3> QED BY <3>3, <3>4, <3>5, <3>6
  <2>2. ASSUME NEW e \in mirrored
        PROVE  /\ e.item <= n
               /\ \A i \in DOMAIN lines : Visible(lines[i]) => e.item < lines[i].item
    <3>1. e.item <= written /\ e.item \in Nat
      BY <1>2 DEF Stale
    <3>2. ASSUME NEW i \in DOMAIN lines, Visible(lines[i]) PROVE e.item < lines[i].item
      <4>1. CASE i \in 1..Len(Whole)
        BY <1>0, <2>1, <3>2, <4>1 DEF Stale
      <4>2. CASE i > Len(Whole)
        <5>1. lines[i].item > written /\ lines[i].item \in Nat
          BY <2>1, <3>2, <4>2 DEF NewLine, LineSet
        <5> QED BY <1>0, <3>1, <5>1
      <4> QED BY <1>0, <2>1, <4>1, <4>2
    <3> QED BY <1>0, <1>5, <2>1, <3>1, <3>2
  <2>3. CASE cursor.id < disk.id
    BY <1>0, <1>3, <1>4, <2>1, <2>2, <2>3 DEF Stale
  <2>4. CASE /\ cursor.at > 1 /\ cursor.last.turn <= disk.turns /\ cursor.last.item <= written
             /\ \A i \in DOMAIN Whole :
                  /\ Whole[i] # cursor.last
                  /\ Whole[i].type = "turn_context" => Whole[i].turn > cursor.last.turn
    <3>1. ASSUME NEW i \in DOMAIN lines
          PROVE  /\ lines[i] # cursor.last
                 /\ lines[i].type = "turn_context" => lines[i].turn > cursor.last.turn
      <4>1. CASE i \in 1..Len(Whole)
        BY <1>0, <2>1, <2>4, <4>1
      <4>2. CASE i > Len(Whole)
        <5>1. NewLine(lines[i], ContextAt(lines, i), turns, n) /\ lines[i] \in LineSet
          BY <2>1, <4>2
        <5>2. lines[i].turn \in Nat /\ lines[i].item \in Nat
          BY <5>1 DEF LineSet
        <5>3. Newer(lines[i]) /\ (lines[i].type = "turn_context" => lines[i].turn > disk.turns)
          BY <5>1 DEF NewLine
        <5>4. lines[i] # cursor.last
          BY <1>0, <1>1, <2>4, <5>2, <5>3 DEF Newer
        <5> QED BY <1>0, <1>1, <2>4, <5>2, <5>3, <5>4
      <4> QED BY <1>0, <2>1, <4>1, <4>2
    <3>2. cursor.last.turn <= turns /\ cursor.last.item <= n
      BY <1>0, <1>1, <1>5, <2>1, <2>4
    <3> QED BY <1>0, <1>3, <1>4, <2>1, <2>2, <2>4, <3>1, <3>2 DEF Stale
  <2> QED BY <2>3, <2>4 DEF Stale
<1>7. CASE Replaces
  <2>1. /\ disk'.nth > 1 /\ turns = disk.turns /\ n = written
        /\ disk'.id = disk.id \/ disk'.id = disk.id + 1
    BY <1>0, <1>4, <1>7 DEF Replaces
  <2>2. DOMAIN lines = {1} /\ lines[1] = Meta /\ ~ Visible(Meta) /\ Meta.type = "session_meta"
    BY <1>4, <1>7 DEF Replaces, Meta, Line, Visible
  <2>3. CASE cursor.id < disk.id
    <3>1. cursor.id < disk'.id
      BY <1>0, <2>1, <2>3
    <3> QED BY <1>3, <1>4, <2>1, <2>2, <3>1 DEF Stale
  <2>4. CASE /\ cursor.at > 1 /\ cursor.last.turn <= disk.turns /\ cursor.last.item <= written
             /\ \A i \in DOMAIN Whole :
                  /\ Whole[i] # cursor.last
                  /\ Whole[i].type = "turn_context" => Whole[i].turn > cursor.last.turn
    <3>1. 1 \in DOMAIN Whole /\ Whole[1] = Meta
      BY <1>0 DEF Sane
    <3>2. Meta # cursor.last
      BY <2>4, <3>1
    <3> QED BY <1>3, <1>4, <2>1, <2>2, <2>4, <3>2 DEF Stale
  <2> QED BY <2>3, <2>4 DEF Stale
<1> QED BY <1>6, <1>7

-----------------------------------------------------------------------------
(* The steps that leave the reader alone.                                  *)

\* The reader is activated, takes a batch, or stays where it is.
LEMMA ReaderSteps ==
  ASSUME TypeInv, [Next]_vars
  PROVE  \/ Activate \/ Ingest
         \/ /\ UNCHANGED <<cursor, since, mirrored>> /\ cache' \in {cache, NoCache}
            /\ WriterStep \/ UNCHANGED <<disk, written>>
<1>1. \/ Activate \/ Ingest
      \/ UNCHANGED <<cursor, since, mirrored>> /\ cache' \in {cache, NoCache}
  BY DEF Next, vars, rolloutVars, bridgeVars, MainStep, AppServerStep, DesktopStep, CodexStep, Time, Receive,
     GrowOld, Release, RefuseSource, Die, ForgetCache, Select, Row, AskRequirements,
     NoRequirements, GotRequirements, AskAdd, NoAdd, GotAdd, AskList, NoList, GotList, DrainNote,
     Drained, AskResume, GotResume, ResumeRaises, Snapshot, Submit, FindRelay, MissRelay, FindTurn,
     GiveUp, Enqueue, QueueLocal, TakeQueued, FinishTurn, Writes, TakeSubmission, TakeInstruction,
     Delegate, Respond, EndOfOutput, Impatience, AskTitle, GotTitle, Crash, Start, WriteUser, EndTurn,
     CompleteLine, WriteBlank, ReplaceFile, WriteAssistant
<1>2. WriterStep \/ ReaderStep
  BY RolloutSteps, WriterAndReader DEF TypeInv
<1>3. ReaderStep => UNCHANGED <<disk, written>>
  BY DEF ReaderStep, Checkpoint, Commit, ForgetCache, rolloutVars
<1> QED BY <1>1, <1>2, <1>3

\* A record that gets an item gets it from a line that is new to the dispatcher.
LEMMA ItemMoves ==
  ASSUME TypeInv, HandInv, [Next]_vars, ~ Ingest, NEW m \in Messages
  PROVE  \/ record'[m].item = record[m].item
         \/ /\ record[m].item = 0 /\ main.pc \in HandSteps
            /\ \E i \in DOMAIN disk.lines :
                 /\ i > main.size /\ Visible(disk.lines[i])
                 /\ record'[m].item = disk.lines[i].item
<1>0. ModeInv /\ RowInv /\ AnswerInv /\ RecordInv
      /\ record \in [Messages -> RecordSet] /\ record[m] \in RecordSet /\ DOMAIN record = Messages
  BY DEF HandInv, TypeInv, BridgeTypes
<1>1. record[m].state \notin {"accepted", "completed"} => record[m].item = 0
  BY <1>0 DEF RecordInv, RecordOf, Accepted
<1>2. ASSUME NEW n \in Messages, RecordMove(n), FindTurn
      PROVE  \/ record'[m].item = record[m].item
             \/ /\ record[m].item = 0 /\ main.pc \in HandSteps
                /\ \E i \in DOMAIN disk.lines :
                     /\ i > main.size /\ Visible(disk.lines[i])
                     /\ record'[m].item = disk.lines[i].item
  <2>1. PICK i \in DOMAIN disk.lines :
           /\ i > main.size /\ disk.lines[i].type = "user" /\ SameText(row, disk.lines[i].by)
           /\ record' = [record EXCEPT ![row].state = "accepted", ![row].turn = disk.lines[i].turn,
                                       ![row].item = disk.lines[i].item]
           /\ disk.lines[i].item \in Nat \ {0} /\ disk.lines[i].turn \in Nat \ {0}
           /\ main.pc = "confirm" /\ mode # "app_server" /\ UNCHANGED <<disk, mode>>
           /\ main'.pc \notin HandSteps /\ row \in Messages
    BY <1>2, FoundLine
  <2>2. CASE m = row
    <3>1. record'[m].item = disk.lines[i].item
      BY <1>0, <2>1, <2>2 DEF RecordSet
    <3>2. record[m].state = "bytes_sending"
      BY <1>0, <2>1, <2>2 DEF RowInv, row
    <3> QED BY <1>1, <2>1, <3>1, <3>2 DEF HandSteps, Visible
  <2>3. CASE m # row
    BY <1>0, <2>1, <2>3
  <2> QED BY <2>2, <2>3
<1>3. ASSUME NEW n \in Messages, RecordMove(n), ~ FindTurn
      PROVE  record'[m].item = record[m].item
  <2>1. CASE m # n
    <3>1. record'[m] = record[m]
      BY <1>0, <1>3, <2>1 DEF RecordMove
    <3> QED BY <3>1
  <2>2. CASE m = n
    <3>1. ASSUME record[n].state \in {"none", "bytes_sending"},
                 \/ record' = [record EXCEPT ![n] = [NoRecord EXCEPT !.state = "prepared", !.made = Made]]
                 \/ record' = [record EXCEPT ![n] = NoRecord]
          PROVE  record'[m].item = record[m].item
      <4>1. record'[n].item = 0
        BY <1>0, <3>1, EmptyRecord
      <4> QED BY <1>1, <2>2, <3>1, <4>1
    <3>2. ASSUME NEW s, NEW r,
                 \/ record' = [record EXCEPT ![n].state = s, ![n].request = r]
                 \/ record' = [record EXCEPT ![n].state = s]
                 \/ record' = [record EXCEPT ![n].request = r]
          PROVE  record'[m].item = record[m].item
      <4>1. \/ record'[n] = [record[n] EXCEPT !.state = s, !.request = r]
            \/ record'[n] = [record[n] EXCEPT !.state = s]
            \/ record'[n] = [record[n] EXCEPT !.request = r]
        BY <1>0, <3>2
      <4> QED BY <1>0, <2>2, <4>1 DEF RecordSet
    <3>3. \/ /\ record' = [record EXCEPT ![n].state = "bytes_sending", ![n].request = "rpc"]
          \/ /\ record' = [record EXCEPT ![n].state = "bytes_sending", ![n].request = "ui"]
          \/ /\ record' = [record EXCEPT ![n].state = "accepted"]
          \/ /\ record' = [record EXCEPT ![n].state = "outcome_unknown"]
          \/ /\ record' = [record EXCEPT ![n].request = "submitted"]
          \/ /\ record' = [record EXCEPT ![n].state = "completed"]
          => record'[m].item = record[m].item
      BY <3>2
    <3>4. main.pc = "relayed" /\ n = row => record[n].state = "bytes_sending"
      BY <1>0 DEF RowInv, row
    <3> QED BY <1>3, <3>1, <3>3, <3>4 DEF RecordMove
  <2> QED BY <2>1, <2>2
<1>4. CASE record' = record
  BY <1>4
<1> QED BY <1>0, <1>2, <1>3, <1>4, RecordMoves

\* The cursor stays there.
LEMMA FarKept ==
  ASSUME TypeInv, ReadInv, HandInv, FarInv, [Next]_vars, main' \in MainSet
  PROVE  FarInv'
<1>0. ModeInv /\ RowInv /\ AnswerInv /\ main \in MainSet /\ cursor.at \in Nat
      /\ disk.lines \in Seq(LineSet)
  BY DEF HandInv, TypeInv, BridgeTypes, RolloutTypes
<1>1. main.size \in Nat /\ main'.size \in Nat /\ Len(disk.lines) \in Nat
      /\ DOMAIN disk.lines = 1..Len(disk.lines)
  BY <1>0 DEF MainSet
<1>2. AfterRead.pc \notin HandSteps
  BY DEF AfterRead, Loop, HandSteps
<1>3. CASE Activate \/ Ingest
  BY <1>2, <1>3 DEF Activate, Ingest, FarInv
<1>4. CASE cursor' = cursor /\ ~ Ingest
  <2> SUFFICES ASSUME main'.pc \in HandSteps PROVE cursor.at <= main'.size
    BY <1>4 DEF FarInv
  <2>1. CASE Waited
    BY <2>1 DEF Waited, FarInv
  <2>2. ASSUME NEW n \in Messages, RecordMove(n) PROVE cursor.at <= main'.size
    <3>1. mode # "observe"
      <4>1. ModeInv'
        BY <1>0, ModeKept
      <4>2. mode' = mode
        BY PcSteps
      <4> QED BY <4>1, <4>2 DEF ModeInv, HandSteps
    <3>2. cursor # NoCursor => cursor.at \in DOMAIN disk.lines
      BY <1>0, <3>1 DEF ModeInv, ReadInv
    <3>3. cursor.at <= Len(disk.lines)
      BY <1>0, <1>1, <3>2 DEF NoCursor
    <3>4. \/ main.pc \in HandSteps /\ main'.size = main.size
          \/ Len(disk.lines) <= main'.size
      BY <2>2, MoveGoes
    <3> QED BY <1>0, <1>1, <3>3, <3>4 DEF FarInv
  <2> QED BY <1>0, <1>4, <2>1, <2>2, RecordMoves
<1> QED BY <1>3, <1>4, ReaderSteps

\* The reader stays where it is, and the file is extended or replaced.
LEMMA StillSteps ==
  ASSUME TypeInv, HandInv, Sane(Whole, disk.turns, written), FarInv, [Next]_vars
  PROVE  Activate \/ Ingest \/ (ReaderStill /\ (Adds \/ Replaces))
<1>0. RolloutTypes /\ LineInv /\ main.size \in Nat /\ cursor.at \in Nat
      /\ DOMAIN disk.lines \in SUBSET Nat
  BY DEF HandInv, TypeInv, BridgeTypes, RolloutTypes, MainSet
<1> SUFFICES ASSUME ~ Activate, ~ Ingest PROVE ReaderStill /\ (Adds \/ Replaces)
  OBVIOUS
<1>1. /\ UNCHANGED <<cursor, since, mirrored>> /\ cache' \in {cache, NoCache}
      /\ WriterStep \/ UNCHANGED <<disk, written>>
  BY ReaderSteps
<1>2. ReaderStill
  <2> SUFFICES ASSUME NEW m \in Messages
               PROVE  \/ record'[m].item = record[m].item
                      \/ /\ record[m].item = 0
                         /\ \E i \in DOMAIN disk.lines :
                              /\ i > cursor.at /\ Visible(disk.lines[i])
                              /\ record'[m].item = disk.lines[i].item
    BY <1>1 DEF ReaderStill
  <2>1. main.pc \in HandSteps => \A i \in DOMAIN disk.lines : i > main.size => i > cursor.at
    BY <1>0 DEF FarInv
  <2> QED BY <2>1, ItemMoves
<1>3. CASE WriterStep
  BY <1>0, <1>2, <1>3, FileStep
<1>4. CASE UNCHANGED <<disk, written>>
  <2>1. Whole' = Whole /\ Len(disk.lines) <= Len(disk'.lines)
    <3>1. Len(disk.lines) \in Nat
      BY <1>0 DEF RolloutTypes
    <3> QED BY <1>4, <3>1 DEF Whole
  <2> QED BY <1>0, <1>2, <1>4, <2>1, SameAdds
<1> QED BY <1>1, <1>3, <1>4

-----------------------------------------------------------------------------
(* The reader's own steps.                                                 *)

\* The complete lines of a file have the contexts they have in all of it.
LEMMA WholeContext ==
  ASSUME RolloutTypes, NEW i \in 0..Len(disk.lines)
  PROVE  ContextAt(Whole, i) = ContextAt(disk.lines, i)
BY WholeLines, ContextSame

\* The reader is activated: nothing is mirrored yet, and what is not written
\* with its newline is still to come.
LEMMA GoodActivated ==
  ASSUME TypeInv, ReadInv, HandInv, Activate
  PROVE  Good'
<1>0. /\ RolloutTypes /\ disk.lines \in Seq(LineSet) /\ Len(disk.lines) \in Nat
      /\ DOMAIN disk.lines = 1..Len(disk.lines) /\ Len(disk.lines) \in DOMAIN disk.lines
      /\ disk.id # 0 /\ Len(disk.lines) # 0 /\ written \in Nat
      /\ 0 \in 0..Len(disk.lines) /\ Len(disk.lines) \in 0..Len(disk.lines)
  BY RolloutAssumption DEF TypeInv, RolloutTypes, FileInv, ReadInv
<1>1. /\ cursor = NoCursor /\ cursor' = Batch(0).cursor /\ cache' = Batch(0).cache
      /\ since' = IF Visible(disk.tail) THEN written - 1 ELSE written
      /\ UNCHANGED <<disk, written, record, mirrored>>
  BY DEF Activate, Checkpoint
<1>2. mirrored = {}
  BY <1>1 DEF HandInv, FirstInv
<1>3. Before(0).context = ContextAt(disk.lines, 0)
  <2>1. cache.id # disk.id
    BY <1>0, <1>1 DEF ReadInv, NoCache, NoCursor
  <2> QED BY <2>1 DEF Before, Remembering, Readable, ContextAt
<1>4. /\ cursor' = [id |-> disk.id, at |-> Len(disk.lines), last |-> disk.lines[Len(disk.lines)]]
      /\ cache'.context = ContextOf(Before(0).context, SubSeq(disk.lines, 0 + 1, Len(disk.lines)))
  <2>1. 0 \in Nat /\ 0 <= Len(disk.lines)
    BY <1>0
  <2> QED BY <1>0, <1>1, <2>1, BatchLines
<1>5. cache'.context = ContextAt(Whole, Len(disk.lines))
  <2>1. PICK a \in Nat : a = 0
    OBVIOUS
  <2>2. ContextOf(ContextAt(disk.lines, a), SubSeq(disk.lines, a + 1, Len(disk.lines)))
          = ContextAt(disk.lines, Len(disk.lines))
    BY <1>0, <2>1, ContextJoins
  <2> QED BY <1>0, <1>3, <1>4, <2>1, <2>2, WholeContext
<1>6. Whole' = Whole
  BY <1>1 DEF Whole
<1>7. /\ Whole \in Seq(LineSet) /\ DOMAIN Whole = 1..Len(Whole) /\ Len(Whole) \in Nat
      /\ Len(disk.lines) <= Len(Whole) /\ Longer(disk.lines, Whole)
      /\ \A i \in DOMAIN Whole : i <= Len(disk.lines) \/ Whole[i] = disk.tail
  BY <1>0, WholeLines
<1>8. ASSUME NEW i \in DOMAIN Whole, i > Len(disk.lines), Visible(Whole[i])
      PROVE  Whole[i].item > since'
  <2>1. Whole[i] = disk.tail
    BY <1>0, <1>7, <1>8
  <2>2. disk.tail.item = written /\ since' = written - 1
    BY <1>1, <1>8, <2>1 DEF TypeInv, TailInv
  <2> QED BY <1>0, <2>1, <2>2
<1>9. ASSUME NEW i \in 1..Len(disk.lines), Visible(Whole[i]) PROVE ~ (Whole[i].item > since')
  <2>1. Whole[i] = disk.lines[i] /\ i \in DOMAIN disk.lines /\ disk.lines[i] \in LineSet
    BY <1>0, <1>7 DEF Longer
  <2>2. disk.lines[i].item <= since'
    BY <1>1, <1>9, <2>1 DEF HandInv, LineInv, GoodLines
  <2>3. disk.lines[i].item \in Nat /\ since' \in Int
    BY <1>0, <1>1, <2>1 DEF LineSet
  <2> QED BY <2>1, <2>2, <2>3
<1>10. /\ cursor'.id = disk.id /\ cursor'.at = Len(disk.lines)
       /\ cursor'.last = Whole[Len(disk.lines)]
  BY <1>0, <1>4, <1>7 DEF Longer
<1> QED BY <1>0, <1>1, <1>2, <1>5, <1>6, <1>8, <1>9, <1>10 DEF Good

\* A batch is read only from the file the cursor was committed for.
LEMMA StaleReplaced ==
  ASSUME TypeInv, Stale
  PROVE  Replaced
<1>0. /\ RolloutTypes /\ Longer(disk.lines, Whole) /\ DOMAIN Whole = 1..Len(Whole)
      /\ DOMAIN disk.lines = 1..Len(disk.lines) /\ Len(disk.lines) \in Nat /\ Len(Whole) \in Nat
      /\ Len(disk.lines) <= Len(Whole) /\ cursor.at \in Nat
  BY WholeLines DEF TypeInv, RolloutTypes
<1>1. CASE cursor.id < disk.id
  BY <1>0, <1>1 DEF Replaced, RolloutTypes
<1>2. CASE cursor.at > 1 /\ \A i \in DOMAIN Whole : Whole[i] # cursor.last
  <2>1. CASE Len(disk.lines) < cursor.at
    BY <2>1 DEF Replaced, Readable
  <2>2. CASE cursor.at \in DOMAIN disk.lines
    <3>1. cursor.at \in DOMAIN Whole /\ Whole[cursor.at] = disk.lines[cursor.at]
      BY <1>0, <2>2 DEF Longer
    <3> QED BY <1>2, <2>2, <3>1 DEF Replaced, Readable
  <2> QED BY <1>0, <1>2, <2>1, <2>2
<1> QED BY <1>1, <1>2 DEF Stale

-----------------------------------------------------------------------------
(* A batch: what each line leaves in the topic.                            *)

\* The rows after the lines of a batch up to line i: what is in the topic comes
\* from a line, in its turn, and each item is there or that of a record.
Covered(acc, i) ==
  /\ \A e \in acc.out : e.item > since /\ \E j \in 1..i : FromLine(e, disk.lines, j)
  /\ \A j \in 1..i : Visible(disk.lines[j]) /\ disk.lines[j].item > since =>
       \/ \E e \in acc.out : e.item = disk.lines[j].item
       \/ \E m \in Messages : acc.rec[m].item = disk.lines[j].item
  /\ \A e \in acc.out, m \in Messages : acc.rec[m].item # e.item
CoverLine(i) == {acc \in AfterLine(i) : Covered(acc, i)}

\* What a batch is read under: the reader knows the turn of the line it is at.
CoverInv ==
  /\ BatchInv /\ Sane(Whole, disk.turns, written)
  /\ Before(cursor.at).context = ContextAt(disk.lines, cursor.at)
  /\ \A i \in DOMAIN disk.lines : i > cursor.at /\ Visible(disk.lines[i]) => disk.lines[i].item > since

\* The turn an event gets is that of its line.
LEMMA TurnHolds ==
  ASSUME CoverInv, NEW i \in (cursor.at + 1)..Len(disk.lines), Visible(disk.lines[i])
  PROVE  TurnOf(cursor.at, i) = ContextAt(disk.lines, i)
<1>0. /\ RolloutTypes /\ disk.lines \in Seq(LineSet) /\ Len(disk.lines) \in Nat /\ cursor.at \in Nat
      /\ DOMAIN disk.lines = 1..Len(disk.lines) /\ cursor.at <= Len(disk.lines)
      /\ i \in Nat /\ cursor.at <= i /\ i <= Len(disk.lines) /\ i \in 0..Len(disk.lines)
      /\ i \in DOMAIN disk.lines
  BY DEF CoverInv, BatchInv, TypeInv, RolloutTypes
<1>1. Longer(disk.lines, Whole) /\ DOMAIN Whole = 1..Len(Whole) /\ Len(Whole) \in Nat
      /\ Len(disk.lines) <= Len(Whole)
  BY <1>0, WholeLines
<1>2. Whole[i] = disk.lines[i] /\ i \in DOMAIN Whole
  BY <1>0, <1>1 DEF Longer
<1>3. /\ disk.lines[i].type = "user" => disk.lines[i].turn = ContextAt(Whole, i)
      /\ disk.lines[i].type = "assistant" => disk.lines[i].turn = 0
  BY <1>2 DEF CoverInv, Sane
<1>4. ContextAt(Whole, i) = ContextAt(disk.lines, i)
  BY <1>0, WholeContext
<1>5. ContextOf(Before(cursor.at).context, SubSeq(disk.lines, cursor.at + 1, i)) = ContextAt(disk.lines, i)
  <2> DEFINE at == cursor.at
  <2>1. at \in Nat /\ at <= i
    BY <1>0
  <2> HIDE DEF at
  <2>2. ContextOf(ContextAt(disk.lines, at), SubSeq(disk.lines, at + 1, i)) = ContextAt(disk.lines, i)
    BY <1>0, <2>1, ContextJoins
  <2> QED BY <2>2 DEF CoverInv, at
<1> QED BY <1>3, <1>4, <1>5 DEF TurnOf, Visible

\* A line that leaves the rows as they are, and is not new or is known.
LEMMA CoverPasses ==
  ASSUME CoverInv, NEW i \in (cursor.at + 1)..Len(disk.lines), NEW acc \in CoverLine(i - 1),
         ~ Visible(disk.lines[i]) \/ \E m \in Messages : acc.rec[m].item = disk.lines[i].item
  PROVE  Covered(acc, i)
<1>1. i - 1 \in Nat /\ i \in Nat /\ 1..i = (1..(i - 1)) \cup {i}
  BY LineFacts DEF CoverInv, CoverLine
<1> QED BY <1>1 DEF CoverLine, Covered

\* A line whose item is queued for the topic.
LEMMA CoverShows ==
  ASSUME CoverInv, NEW i \in (cursor.at + 1)..Len(disk.lines), NEW acc \in CoverLine(i - 1),
         EventOf(cursor.at, i) \in EventSet, Visible(disk.lines[i]),
         disk.lines[i].by # "codex" =>
           ByClient(acc.rec, EventOf(cursor.at, i)) = {} /\ ~ Known(acc.rec, EventOf(cursor.at, i))
  PROVE  Covered(Show(acc, EventOf(cursor.at, i)), i)
<1> DEFINE e == EventOf(cursor.at, i)
           x == [item |-> e.item, turn |-> e.turn]
           new == Show(acc, e)
<1>0. /\ BatchInv /\ acc \in AfterLine(i - 1) /\ Covered(acc, i - 1)
      /\ RolloutTypes /\ LineInv
  BY DEF CoverInv, CoverLine, BatchInv, TypeInv
<1>1. /\ i \in DOMAIN disk.lines /\ i - 1 \in Nat /\ i \in Nat /\ cursor.at \in Nat
      /\ 1..i = (1..(i - 1)) \cup {i} /\ disk.lines[i] \in LineSet
      /\ DOMAIN disk.lines = 1..Len(disk.lines)
      /\ acc \in AccSet
      /\ \A m \in Messages :
           acc.rec[m].item # 0 =>
             /\ Accepted(acc.rec[m])
             /\ \E j \in DOMAIN disk.lines :
                  OfLine(acc.rec[m], m, j) /\ (mode = "app_server" => j <= i - 1)
  BY <1>0, LineFacts
<1>2. /\ e.item = disk.lines[i].item /\ e.turn = TurnOf(cursor.at, i) /\ e.by = disk.lines[i].by
      /\ e \in EventSet
  BY DEF EventOf
<1>3. e.turn = ContextAt(disk.lines, i)
  BY <1>2, TurnHolds
<1>4. new.rec = acc.rec /\ new.out = acc.out \cup {x}
  <2> HIDE DEF e
  <2> QED BY <1>1, <1>2, ShowTyped
<1>5. FromLine(x, disk.lines, i)
  BY <1>2, <1>3 DEF FromLine
<1>6. x.item = disk.lines[i].item /\ x.item > since
  <2>1. i > cursor.at
    BY <1>1
  <2> QED BY <1>1, <1>2, <2>1 DEF CoverInv
<1>7. ASSUME NEW m \in Messages, acc.rec[m].item = disk.lines[i].item PROVE FALSE
  <2>1. acc.rec[m].item # 0
    <3>1. GoodLine(disk.lines[i]) /\ disk.lines[i].item \in Nat
      BY <1>0, <1>1 DEF LineInv, GoodLines, LineSet
    <3> QED BY <1>7, <3>1 DEF GoodLine
  <2>2. PICK j \in DOMAIN disk.lines : OfLine(acc.rec[m], m, j) /\ (mode = "app_server" => j <= i - 1)
    BY <1>1, <2>1
  <2>3. /\ disk.lines[j].type = "user" /\ disk.lines[j].item = acc.rec[m].item
        /\ disk.lines[j].turn = acc.rec[m].turn
        /\ IF mode = "app_server" THEN disk.lines[j].by = m ELSE SameText(m, disk.lines[j].by)
    BY <2>2 DEF OfLine
  <2>4. i = j
    BY <1>0, <1>1, <1>7, <2>3, ItemsDiffer DEF Visible
  <2>5. mode # "app_server"
    <3>1. ~ (i <= i - 1)
      BY <1>1
    <3> QED BY <2>2, <2>4, <3>1
  <2>6. disk.lines[i].by # "codex"
    BY <2>3, <2>4, <2>5 DEF SameText
  <2>7. acc.rec[m].turn = e.turn
    <3>1. disk.lines[i].turn > 0 /\ disk.lines[i].turn \in Nat
      BY <1>0, <1>1, <2>3, <2>4 DEF LineInv, GoodLines, GoodLine, LineSet
    <3>2. disk.lines[i].turn # 0
      BY <3>1
    <3> QED BY <1>2, <2>3, <2>4, <3>2 DEF TurnOf
  <2>8. acc.rec[m].state \in {"accepted", "completed"}
    BY <1>1, <2>1 DEF Accepted
  <2>9. Known(acc.rec, e)
    <3> HIDE DEF e
    <3> QED BY <1>2, <1>7, <2>7, <2>8 DEF Known
  <2> QED BY <2>6, <2>9
<1> HIDE DEF new, x
<1>8. \A y \in new.out : y.item > since /\ \E j \in 1..i : FromLine(y, disk.lines, j)
  <2> TAKE y \in new.out
  <2>1. CASE y = x
    BY <1>1, <1>5, <1>6, <2>1
  <2>2. CASE y \in acc.out
    BY <1>0, <1>1, <2>2 DEF Covered
  <2> QED BY <1>4, <2>1, <2>2
<1>9. \A j \in 1..i : Visible(disk.lines[j]) /\ disk.lines[j].item > since =>
       \/ \E y \in new.out : y.item = disk.lines[j].item
       \/ \E m \in Messages : new.rec[m].item = disk.lines[j].item
  BY <1>0, <1>1, <1>4, <1>6 DEF Covered
<1>10. \A y \in new.out, m \in Messages : new.rec[m].item # y.item
  BY <1>0, <1>4, <1>6, <1>7 DEF Covered
<1>11. Covered(new, i)
  BY <1>8, <1>9, <1>10 DEF Covered
<1> QED BY <1>11 DEF new, e

\* A line that is that of a record which had none.
LEMMA CoverClaims ==
  ASSUME CoverInv, NEW i \in (cursor.at + 1)..Len(disk.lines), NEW acc \in CoverLine(i - 1),
         EventOf(cursor.at, i) \in EventSet, Visible(disk.lines[i]),
         NEW m \in Messages, acc.rec[m].item = 0
  PROVE  Covered(ClaimFor(acc, m, EventOf(cursor.at, i)), i)
<1> DEFINE e == EventOf(cursor.at, i)
           new == ClaimFor(acc, m, e)
<1>0. /\ BatchInv /\ acc \in AfterLine(i - 1) /\ Covered(acc, i - 1)
      /\ RolloutTypes /\ LineInv /\ since \in Nat
  BY RolloutAssumption DEF CoverInv, CoverLine, BatchInv, TypeInv, RolloutTypes
<1>1. /\ i \in DOMAIN disk.lines /\ i - 1 \in Nat /\ i \in Nat
      /\ 1..i = (1..(i - 1)) \cup {i} /\ disk.lines[i] \in LineSet
      /\ DOMAIN disk.lines = 1..Len(disk.lines)
      /\ acc \in AccSet
  BY <1>0, LineFacts
<1>2. e.item = disk.lines[i].item /\ e \in EventSet
  BY DEF EventOf
<1>3. /\ new.out = acc.out
      /\ \A n \in Messages : new.rec[n] = IF n = m THEN CameBack(acc.rec[m], e) ELSE acc.rec[n]
  <2> HIDE DEF e
  <2> QED BY <1>1, <1>2, ClaimTyped
<1>4. CameBack(acc.rec[m], e).item = disk.lines[i].item
  <2>1. acc.rec[m] \in RecordSet
    BY <1>1 DEF AccSet
  <2> HIDE DEF e
  <2> QED BY <1>2, <2>1 DEF CameBack, RecordSet
<1> HIDE DEF new, e
<1>5. new.rec[m].item = disk.lines[i].item /\ \A n \in Messages : n # m => new.rec[n] = acc.rec[n]
  BY <1>3, <1>4
<1>6. \A y \in new.out : y.item > since /\ \E j \in 1..i : FromLine(y, disk.lines, j)
  BY <1>0, <1>1, <1>3 DEF Covered
<1>7. ASSUME NEW j \in 1..i, Visible(disk.lines[j]), disk.lines[j].item > since
      PROVE  \/ \E y \in new.out : y.item = disk.lines[j].item
             \/ \E n \in Messages : new.rec[n].item = disk.lines[j].item
  <2>1. CASE j = i
    BY <1>5, <2>1
  <2>2. CASE j \in 1..(i - 1)
    <3>1. disk.lines[j].item # 0
      <4>1. j \in DOMAIN disk.lines
        BY <1>1
      <4>2. disk.lines \in Seq(LineSet)
        BY <1>0 DEF RolloutTypes
      <4>3. disk.lines[j] \in LineSet
        BY <4>1, <4>2
      <4>4. disk.lines[j].item \in Nat
        BY <4>3 DEF LineSet
      <4> QED BY <1>0, <1>7, <4>4
    <3>2. CASE \E y \in acc.out : y.item = disk.lines[j].item
      BY <1>3, <3>2
    <3>3. CASE \E n \in Messages : acc.rec[n].item = disk.lines[j].item
      <4>1. PICK n \in Messages : acc.rec[n].item = disk.lines[j].item
        BY <3>3
      <4>2. n # m
        BY <3>1, <4>1
      <4> QED BY <1>5, <4>1, <4>2
    <3> QED BY <1>0, <1>7, <2>2, <3>2, <3>3 DEF Covered
  <2> QED BY <1>1, <2>1, <2>2
<1>8. ASSUME NEW y \in new.out, NEW n \in Messages PROVE new.rec[n].item # y.item
  <2>1. acc.rec[n].item # y.item /\ y \in acc.out
    BY <1>0, <1>3 DEF Covered
  <2>2. PICK j \in 1..(i - 1) : FromLine(y, disk.lines, j)
    BY <1>0, <2>1 DEF Covered
  <2>3. disk.lines[i].item # y.item
    <3>1. j \in DOMAIN disk.lines /\ j # i /\ Visible(disk.lines[j]) /\ disk.lines[j].item = y.item
      BY <1>1, <2>2 DEF FromLine
    <3> QED BY <1>0, <1>1, <3>1, ItemsDiffer
  <2> QED BY <1>5, <2>1, <2>3
<1>9. Covered(new, i)
  BY <1>6, <1>7, <1>8 DEF Covered
<1> QED BY <1>9 DEF new, e

\* One line of a batch.
LEMMA CoverTaken ==
  ASSUME CoverInv, NEW i \in (cursor.at + 1)..Len(disk.lines), NEW acc \in CoverLine(i - 1),
         EventOf(cursor.at, i) \in EventSet
  PROVE  IngestEvent(acc, EventOf(cursor.at, i)) \in CoverLine(i)
<1> DEFINE e == EventOf(cursor.at, i)
<1>0. BatchInv /\ acc \in AfterLine(i - 1)
  BY DEF CoverInv, CoverLine
<1>1. /\ i \in DOMAIN disk.lines /\ i - 1 \in Nat /\ i \in Nat /\ disk.lines[i] \in LineSet
      /\ acc \in AccSet
      /\ \A m \in Messages :
           acc.rec[m].item # 0 =>
             /\ Accepted(acc.rec[m])
             /\ \E j \in DOMAIN disk.lines :
                  OfLine(acc.rec[m], m, j) /\ (mode = "app_server" => j <= i - 1)
  BY <1>0, LineFacts
<1>2. /\ e.visible = Visible(disk.lines[i]) /\ e.item = disk.lines[i].item /\ e.by = disk.lines[i].by
      /\ e \in EventSet /\ e = EventOf(cursor.at, i)
  BY DEF EventOf
<1> HIDE DEF e
<1>3. ASSUME NEW m \in ByClient(acc.rec, e) PROVE m \in Messages /\ acc.rec[m].item = 0
  <2>1. m \in Messages /\ mode = "app_server" /\ e.by = m
    BY DEF ByClient
  <2>2. ASSUME acc.rec[m].item # 0 PROVE FALSE
    <3>1. PICK j \in DOMAIN disk.lines : OfLine(acc.rec[m], m, j) /\ j <= i - 1
      BY <1>1, <2>1, <2>2
    <3>2. j \in InFile(m) /\ i \in InFile(m)
      BY <1>1, <1>2, <2>1, <3>1 DEF OfLine, InFile, Of
    <3>3. Single(InFile(m))
      BY <1>0, <2>1 DEF BatchInv, PlaceInv, Once
    <3>4. i <= i - 1
      BY <3>1, <3>2, <3>3 DEF Single
    <3> QED BY <1>1, <3>4
  <2> QED BY <2>1, <2>2
<1>4. ASSUME NEW m \in Delayed(acc.rec, e) PROVE m \in Messages /\ acc.rec[m].item = 0
  BY <1>1 DEF Delayed, Accepted
<1>5. ASSUME NEW m \in Messages, acc.rec[m].item = 0, e.visible = TRUE,
             IngestEvent(acc, e) = ClaimFor(acc, m, e)
      PROVE  Covered(IngestEvent(acc, e), i)
  BY <1>2, <1>5, CoverClaims
<1>6. Covered(IngestEvent(acc, e), i)
  <2>1. CASE IngestEvent(acc, e) = acc /\ e.visible = FALSE
    BY <1>2, <2>1, CoverPasses
  <2>2. CASE IngestEvent(acc, e) = acc /\ Known(acc.rec, e)
    <3>1. \E m \in Messages : acc.rec[m].item = disk.lines[i].item
      BY <1>2, <2>2 DEF Known
    <3> QED BY <2>2, <3>1, CoverPasses
  <2>3. CASE e.visible = TRUE /\ \E m \in ByClient(acc.rec, e) : IngestEvent(acc, e) = ClaimFor(acc, m, e)
    <3>1. PICK m \in ByClient(acc.rec, e) : IngestEvent(acc, e) = ClaimFor(acc, m, e)
      BY <2>3
    <3> QED BY <1>3, <1>5, <2>3, <3>1
  <2>4. CASE e.visible = TRUE /\ \E m \in Delayed(acc.rec, e) : IngestEvent(acc, e) = ClaimFor(acc, m, e)
    <3>1. PICK m \in Delayed(acc.rec, e) : IngestEvent(acc, e) = ClaimFor(acc, m, e)
      BY <2>4
    <3> QED BY <1>4, <1>5, <2>4, <3>1
  <2>5. CASE /\ e.visible = TRUE
             /\ e.by # "codex" => ByClient(acc.rec, e) = {} /\ ~ Known(acc.rec, e)
             /\ IngestEvent(acc, e) = Show(acc, e)
    BY <1>2, <2>5, CoverShows
  <2> QED BY <1>1, <1>2, <2>1, <2>2, <2>3, <2>4, <2>5, EventCases
<1>7. IngestEvent(acc, e) \in AfterLine(i)
  BY <1>0, <1>2, LineTaken
<1> QED BY <1>2, <1>6, <1>7 DEF CoverLine

\* The rows a batch leaves.
LEMMA CoverBatch ==
  ASSUME CoverInv, Covered([rec |-> record, tomb |-> tombstone, out |-> mirrored], cursor.at),
         NEW end \in Ingested(Batch(cursor.at).events)
  PROVE  end \in CoverLine(Len(disk.lines))
<1> DEFINE good == [i \in Nat |-> CoverLine(i)]
           base == [rec |-> record, tomb |-> tombstone, out |-> mirrored]
           at == cursor.at
<1>0. /\ BatchInv /\ RolloutTypes /\ at \in Nat /\ Len(disk.lines) \in Nat
      /\ at <= Len(disk.lines)
  BY DEF CoverInv, BatchInv, TypeInv, RolloutTypes
<1>1. base \in CoverLine(at)
  <2>1. base \in AfterLine(at)
    BY <1>0, BatchBegins
  <2>2. Covered(base, at)
    OBVIOUS
  <2> HIDE DEF base, at
  <2> QED BY <2>1, <2>2 DEF CoverLine
<1>2. good \in [Nat -> SUBSET AccSet]
  BY DEF CoverLine, AfterLine
<1>3. base \in good[at]
  BY <1>0, <1>1
<1>4. \A i \in (at + 1)..Len(disk.lines) : good[i - 1] = CoverLine(i - 1) /\ good[i] = CoverLine(i)
  <2> TAKE i \in (at + 1)..Len(disk.lines)
  <2>1. i - 1 \in Nat /\ i \in Nat
    BY <1>0
  <2> QED BY <2>1
<1>5. good[Len(disk.lines)] = CoverLine(Len(disk.lines))
  BY <1>0
<1> HIDE DEF good
<1>6. \A i \in (at + 1)..Len(disk.lines) : EventOf(at, i) \in EventSet =>
        \A acc \in good[i - 1] : IngestEvent(acc, EventOf(at, i)) \in good[i]
  BY <1>4, CoverTaken
<1>7. end \in good[Len(disk.lines)]
  <2>1. end \in Ingested(Batch(at).events)
    OBVIOUS
  <2> HIDE DEF at
  <2> QED BY <1>0, <1>2, <1>3, <1>6, <2>1, BatchTaken
<1> QED BY <1>5, <1>7

-----------------------------------------------------------------------------
(* The invariant holds.                                                    *)

\* The cursor is in its file again after a batch was read there.
LEMMA GoodIngested ==
  ASSUME TypeInv, ReadInv, HandInv, MirrorInv, Ingest
  PROVE  Good'
<1> DEFINE base == [rec |-> record, tomb |-> tombstone, out |-> mirrored]
           n == Len(disk.lines)
<1>1. PICK end \in Ingested(Batch(cursor.at).events) :
         /\ Commit(Batch(cursor.at)) /\ record' = end.rec /\ mirrored' = end.out
  BY DEF Ingest
<1>2. BatchInv /\ ~ Replaced /\ cursor # NoCursor /\ cursor.at <= n
  BY IngestMoves DEF Ingest, Refused, BatchInv
<1>3. Good
  BY <1>2, StaleReplaced DEF MirrorInv
<1>4. /\ RolloutTypes /\ disk.lines \in Seq(LineSet) /\ n \in Nat /\ DOMAIN disk.lines = 1..n
      /\ cursor.at \in DOMAIN disk.lines /\ cursor.at \in Nat /\ cursor.at >= 1
      /\ cursor.at \in 0..n /\ n \in 0..n /\ n \in DOMAIN disk.lines
  <2>1. RolloutTypes /\ cursor.at \in DOMAIN disk.lines
    BY <1>3 DEF Good, TypeInv
  <2> QED BY <2>1 DEF RolloutTypes
<1>5. /\ Longer(disk.lines, Whole) /\ DOMAIN Whole = 1..Len(Whole) /\ Len(Whole) \in Nat
      /\ n <= Len(Whole)
  BY <1>4, WholeLines
<1>6. \A i \in 1..n : Whole[i] = disk.lines[i] /\ ContextAt(Whole, i) = ContextAt(disk.lines, i)
  <2> TAKE i \in 1..n
  <2>1. i \in 0..n
    OBVIOUS
  <2> QED BY <1>4, <1>5, <2>1, WholeContext DEF Longer
<1>7. Before(cursor.at).context = ContextAt(disk.lines, cursor.at)
  <2>1. CASE Remembering(cursor.at)
    <3>1. cache # NoCache
      BY <2>1 DEF Remembering, NoCache, TypeInv, FileInv
    <3> QED BY <1>3, <1>4, <1>6, <2>1, <3>1 DEF Good, Before
  <2>2. CASE ~ Remembering(cursor.at)
    BY <2>2 DEF Before, Readable, ContextAt
  <2> QED BY <2>1, <2>2
<1>8. CoverInv
  <2>1. \A i \in DOMAIN disk.lines : i > cursor.at /\ Visible(disk.lines[i]) => disk.lines[i].item > since
    BY <1>3, <1>4, <1>5, <1>6 DEF Good
  <2> QED BY <1>2, <1>7, <2>1 DEF CoverInv, MirrorInv
<1>9. Covered(base, cursor.at)
  <2>1. ASSUME NEW i \in 1..cursor.at PROVE i \in 1..n
    BY <1>4
  <2>2. \A e \in mirrored : e.item > since /\ \E i \in 1..cursor.at : FromLine(e, disk.lines, i)
    BY <1>3, <1>6, <2>1 DEF Good, FromLine
  <2>3. \A i \in 1..cursor.at : Visible(disk.lines[i]) /\ disk.lines[i].item > since =>
          \/ \E e \in mirrored : e.item = disk.lines[i].item
          \/ \E m \in Messages : record[m].item = disk.lines[i].item
    BY <1>3, <1>6, <2>1 DEF Good
  <2>4. \A e \in mirrored, m \in Messages : record[m].item # e.item
    BY <1>3 DEF Good
  <2>5. base.out = mirrored /\ base.rec = record
    OBVIOUS
  <2> HIDE DEF base
  <2> QED BY <2>2, <2>3, <2>4, <2>5 DEF Covered
<1>10. Covered(end, n)
  BY <1>8, <1>9, CoverBatch DEF CoverLine
<1>11. /\ cursor' = [id |-> disk.id, at |-> n,
                     last |-> IF cursor.at = n THEN cursor.last ELSE disk.lines[n]]
       /\ cache'.context = ContextOf(Before(cursor.at).context, SubSeq(disk.lines, cursor.at + 1, n))
       /\ UNCHANGED <<disk, written, since>>
  <2>1. Commit(Batch(cursor.at)) /\ RolloutTypes /\ cursor.at \in Nat
    BY <1>1, <1>4
  <2> QED BY <1>2, <2>1, BatchLines DEF Commit
<1>12. cursor'.id = disk.id /\ cursor'.at = n /\ cursor'.last = Whole[n]
  BY <1>3, <1>4, <1>6, <1>11 DEF Good
<1>13. cache'.context = ContextAt(Whole, n)
  <2> DEFINE at == cursor.at
  <2>1. at \in Nat /\ at <= n
    BY <1>2, <1>4
  <2> HIDE DEF at
  <2>2. ContextOf(ContextAt(disk.lines, at), SubSeq(disk.lines, at + 1, n)) = ContextAt(disk.lines, n)
    BY <1>4, <2>1, ContextJoins
  <2> QED BY <1>4, <1>6, <1>7, <1>11, <2>2 DEF at
<1>14. Whole' = Whole
  BY <1>11 DEF Whole
<1>15. \A i \in DOMAIN Whole : i > n /\ Visible(Whole[i]) => Whole[i].item > since
  <2> TAKE i \in DOMAIN Whole
  <2>1. i > n => i > cursor.at
    BY <1>2, <1>4, <1>5
  <2> QED BY <1>3, <2>1 DEF Good
<1>16. \A e \in end.out : e.item > since /\ \E i \in 1..n : FromLine(e, Whole, i)
  BY <1>6, <1>10 DEF Covered, FromLine
<1>17. \A i \in 1..n : Visible(Whole[i]) /\ Whole[i].item > since =>
         \/ \E e \in end.out : e.item = Whole[i].item
         \/ \E m \in Messages : end.rec[m].item = Whole[i].item
  BY <1>6, <1>10 DEF Covered
<1>18. \A e \in end.out, m \in Messages : end.rec[m].item # e.item
  BY <1>10 DEF Covered
<1> HIDE DEF n
<1> QED BY <1>1, <1>4, <1>11, <1>12, <1>13, <1>14, <1>15, <1>16, <1>17, <1>18 DEF Good

\* At first there is a file of one line, and no cursor.
LEMMA MirrorAtFirst ==
  ASSUME Init
  PROVE  MirrorInv
<1>1. /\ Whole = <<Meta>> /\ disk.turns \in Nat /\ written \in Nat /\ cursor = NoCursor
      /\ main.pc = "read"
  BY DEF Init, RolloutInit, Whole, Loop
<1>2. Sane(Whole, disk.turns, written)
  BY <1>1, SaneMeta
<1> QED BY <1>1, <1>2 DEF MirrorInv, FarInv, HandSteps

\* Every step keeps the invariant.
LEMMA MirrorKept ==
  ASSUME TypeInv, AskedInv, ReadInv, HandInv, MirrorInv, [Next]_vars
  PROVE  MirrorInv'
<1>0. /\ RolloutTypes /\ LineInv /\ Sane(Whole, disk.turns, written) /\ FarInv
      /\ cursor # NoCursor => Good \/ Stale
  BY DEF TypeInv, HandInv, MirrorInv
<1>1. RolloutTypes' /\ main' \in MainSet
  BY TypedKept DEF TypeInv, BridgeTypes
<1>2. FarInv'
  BY <1>0, <1>1, FarKept
<1>3. PICK more, turns, n : more = Whole' /\ turns = disk'.turns /\ n = written'
  OBVIOUS
<1>4. turns \in Nat /\ n \in Nat
  <2>1. disk'.turns \in Nat
    BY <1>1 DEF RolloutTypes
  <2>2. written' \in 0..MaxItems
    BY <1>1 DEF RolloutTypes
  <2> QED BY <1>3, <2>1, <2>2, RolloutAssumption
<1>5. CASE Activate \/ Ingest
  <2>1. UNCHANGED <<disk, written>>
    BY <1>5 DEF Activate, Checkpoint, Ingest, Commit
  <2>2. Whole' = Whole
    BY <2>1 DEF Whole
  <2>3. Sane(Whole', disk'.turns, written')
    BY <1>0, <2>1, <2>2
  <2>4. Good'
    BY <1>5, GoodActivated, GoodIngested
  <2> QED BY <1>2, <2>3, <2>4 DEF MirrorInv
<1>6. CASE ReaderStill /\ (Adds \/ Replaces)
  <2>1. Sane(more, turns, n)
    <3>1. CASE Adds
      <4>1. Added(more, turns, n) /\ disk.turns <= turns /\ written <= n
        BY <1>3, <3>1 DEF Adds
      <4> QED BY <1>0, <1>4, <4>1, SaneLonger
    <3>2. CASE Replaces
      <4>1. more = <<Meta>>
        BY <1>3, <3>2 DEF Replaces
      <4> QED BY <1>4, <4>1, SaneMeta
    <3> QED BY <1>6, <3>1, <3>2
  <2>2. cursor' # NoCursor => Good' \/ Stale'
    <3>1. cursor' = cursor
      BY <1>6 DEF ReaderStill
    <3>2. Good => Good' \/ Stale'
      BY <1>0, <1>1, <1>6, GoodAdds, GoodReplaced
    <3>3. Stale => Stale'
      BY <1>0, <1>1, <1>6, StaleKept
    <3> QED BY <1>0, <3>1, <3>2, <3>3
  <2> QED BY <1>2, <1>3, <2>1, <2>2 DEF MirrorInv
<1> QED BY <1>0, <1>5, <1>6, StillSteps

\* The cursor is in its file, or in one the reader refuses.
THEOREM Mirror == Spec => [](TypeInv /\ HandInv /\ MirrorInv)
<1>1. Init => MirrorInv
  BY MirrorAtFirst
<1>2. TypeInv /\ AskedInv /\ ReadInv /\ HandInv /\ MirrorInv /\ [Next]_vars => MirrorInv'
  BY MirrorKept
<1> QED BY <1>1, <1>2, HandOver, PTL DEF Spec

-----------------------------------------------------------------------------
(* The properties.                                                         *)

\* What the cursor has passed since the source was activated has been queued
\* for the topic or recognised as a message of the bridge, never both and
\* never neither: the cursor moves with the rows (outbound.py:174), nothing
\* written before the activation is replayed (service.py:103), and an
\* incomplete record waits.
THEOREM CursorCovers == Spec => []CursorCoversItems
<1>1. TypeInv /\ HandInv /\ MirrorInv => CursorCoversItems
  <2> SUFFICES ASSUME TypeInv, HandInv, MirrorInv, cursor # NoCursor, ~ Replaced
               PROVE  LET passed == {i \in ItemsUpTo(cursor.at) : i > since}
                      IN /\ passed \subseteq Shown \cup ClaimedItems
                         /\ Shown \subseteq passed
                         /\ Shown \cap ClaimedItems = {}
    BY DEF CursorCoversItems
  <2> DEFINE passed == {i \in ItemsUpTo(cursor.at) : i > since}
  <2>1. Good /\ RolloutTypes
    BY StaleReplaced DEF MirrorInv, TypeInv
  <2>2. \A i \in 1..cursor.at : Whole[i] = disk.lines[i] /\ disk.lines[i].item \in Nat
    <3>1. /\ Longer(disk.lines, Whole) /\ cursor.at \in DOMAIN disk.lines /\ Len(disk.lines) \in Nat
          /\ DOMAIN disk.lines = 1..Len(disk.lines) /\ disk.lines \in Seq(LineSet)
      BY <2>1, WholeLines DEF Good
    <3>2. \A i \in 1..cursor.at : i \in DOMAIN disk.lines /\ disk.lines[i] \in LineSet
      BY <3>1
    <3> QED BY <3>1, <3>2 DEF Longer, LineSet
  <2>3. since \in Nat
    BY <2>1, RolloutAssumption DEF RolloutTypes
  <2>4. passed \subseteq Shown \cup ClaimedItems
    <3> SUFFICES ASSUME NEW x \in passed PROVE x \in Shown \cup ClaimedItems
      OBVIOUS
    <3>1. PICK i \in 1..cursor.at : Visible(disk.lines[i]) /\ x = disk.lines[i].item /\ x > since
      BY DEF ItemsUpTo, Readable
    <3>2. x # 0
      BY <2>2, <2>3, <3>1
    <3>3. \/ \E e \in mirrored : e.item = x
          \/ \E m \in Messages : record[m].item = x
      BY <2>1, <2>2, <3>1 DEF Good
    <3> QED BY <3>2, <3>3 DEF Shown, ClaimedItems
  <2>5. Shown \subseteq passed
    <3> SUFFICES ASSUME NEW e \in mirrored PROVE e.item \in passed
      BY DEF Shown
    <3>1. e.item > since
      BY <2>1 DEF Good
    <3>2. PICK i \in 1..cursor.at : FromLine(e, Whole, i)
      BY <2>1 DEF Good
    <3>3. Visible(disk.lines[i]) /\ disk.lines[i].item = e.item
      BY <2>2, <3>2 DEF FromLine
    <3> QED BY <3>1, <3>3 DEF ItemsUpTo, Readable
  <2>6. Shown \cap ClaimedItems = {}
    BY <2>1 DEF Good, Shown, ClaimedItems
  <2> QED BY <2>4, <2>5, <2>6
<1> QED BY <1>1, Mirror, PTL

\* An item is queued with the turn it was written in, however the reads and
\* the restarts fell between its turn_context and itself
\* (rollout_observer.py:57).
THEOREM TurnsHold == Spec => []TurnsAreTrue
<1>1. TypeInv /\ HandInv /\ MirrorInv => TurnsAreTrue
  <2> SUFFICES ASSUME TypeInv, HandInv, MirrorInv, NEW i \in DOMAIN disk.lines, NEW e \in mirrored,
                      Visible(disk.lines[i]), disk.lines[i].item = e.item
               PROVE  e.turn = ContextAt(disk.lines, i)
    BY DEF TurnsAreTrue, ContextAt
  <2>1. /\ RolloutTypes /\ LineInv /\ Longer(disk.lines, Whole) /\ Len(disk.lines) \in Nat
        /\ DOMAIN disk.lines = 1..Len(disk.lines) /\ DOMAIN Whole = 1..Len(Whole)
        /\ Len(Whole) \in Nat /\ Len(disk.lines) <= Len(Whole)
    BY WholeLines DEF TypeInv, HandInv
  <2>2. Whole[i] = disk.lines[i] /\ i \in DOMAIN Whole /\ disk.lines[i].item \in Nat
    <3>1. disk.lines[i] \in LineSet
      BY <2>1 DEF RolloutTypes
    <3> QED BY <2>1, <3>1 DEF Longer, LineSet
  <2>3. cursor # NoCursor
    BY DEF HandInv, FirstInv
  <2>4. CASE Stale
    <3>1. e.item < Whole[i].item
      BY <2>2, <2>4 DEF Stale
    <3> QED BY <2>2, <3>1
  <2>5. CASE Good
    <3>1. PICK j \in 1..cursor.at : FromLine(e, Whole, j)
      BY <2>5 DEF Good
    <3>2. j \in DOMAIN disk.lines /\ Whole[j] = disk.lines[j] /\ j \in 0..Len(disk.lines)
      <4>1. cursor.at \in DOMAIN disk.lines
        BY <2>5 DEF Good
      <4>2. j \in DOMAIN disk.lines /\ j \in 0..Len(disk.lines)
        BY <2>1, <4>1
      <4> QED BY <2>1, <4>2 DEF Longer
    <3>3. Visible(disk.lines[j]) /\ disk.lines[j].item = e.item /\ e.turn = ContextAt(Whole, j)
      BY <3>1, <3>2 DEF FromLine
    <3>4. j = i
      BY <2>1, <3>2, <3>3, ItemsDiffer
    <3> QED BY <2>1, <3>2, <3>3, <3>4, WholeContext
  <2> QED BY <2>3, <2>4, <2>5 DEF MirrorInv
<1> QED BY <1>1, Mirror, PTL

=============================================================================
