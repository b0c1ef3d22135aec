------------------------------ MODULE Rollout -------------------------------
(***************************************************************************)
(* The rollout file of one task, which Codex appends to, and its reader:   *)
(* IncrementalRolloutReader (codex/rollout_observer.py) with the           *)
(* normaliser, and the committed cursor of the source (source_cursors).    *)
(*                                                                         *)
(* A line stands for one JSONL record, an offset for the number of lines   *)
(* before it, the hash of a record for the record.  `tail` is a record     *)
(* whose newline is not written yet.                                       *)
(***************************************************************************)
EXTENDS Naturals, Sequences, SequencesExt

CONSTANTS
  MaxItems,   \* bound: user and assistant items Codex writes
  MaxBlanks,  \* bound: empty lines
  MaxFiles    \* bound: files that take the path of the rollout in turn

ASSUME RolloutAssumption ==
  MaxItems \in Nat /\ MaxBlanks \in Nat /\ MaxFiles \in Nat \ {0}

VARIABLES
  disk,     \* the file: how many took the path so far and the turns they hold,
            \* its identity, its complete lines, and what follows them
  cursor,   \* source_cursors: file_id, committed_offset, last_record_hash
  cache,    \* IncrementalRolloutReader._source_states, in memory
  written,  \* history: items Codex has written
  since     \* history: items of complete lines when the source was activated

rolloutVars == <<disk, cursor, cache, written, since>>

Line(type, turn, item, by) == [type |-> type, turn |-> turn, item |-> item, by |-> by]
Meta    == Line("session_meta", 0, 0, "codex")
Blank   == Line("blank", 0, 0, "codex")
NoLine  == Line("none", 0, 0, "codex")
Types   == {"session_meta", "turn_context", "task_started", "task_complete",
            "agent_message", "user", "assistant", "blank", "none"}

\* The records that carry an item id: the visible ones.  A user item that is an internal
\* envelope (a subagent's notification, the environment) is not among them: it is read
\* and left out as a preview is, and never claimed.
Visible(line) == line.type \in {"user", "assistant"}

NoCursor == [id |-> 0, at |-> 0, last |-> NoLine]
NoCache  == [id |-> 0, at |-> 0, context |-> 0, active |-> {}]

RolloutInit ==
  /\ disk = [nth |-> 1, turns |-> 0, id |-> 1, lines |-> <<Meta>>, tail |-> NoLine]
  /\ cursor = NoCursor
  /\ cache = NoCache
  /\ written = 0
  /\ since = 0
-----------------------------------------------------------------------------
\* Codex, the writer: it appends to the file, and a reader may find the
\* last record without its newline.

\* The turn of the last turn_context, if there is one.
ContextOf(turn, lines) ==
  LET at == {i \in DOMAIN lines : lines[i].type = "turn_context"}
  IN IF at = {} THEN turn ELSE lines[Max(at)].turn

\* A turn ends once and is not begun again.
ActiveOf(turns, lines) ==
  LET Of(type) == {line.turn : line \in {l \in ToSet(lines) : l.type = type}}
  IN (turns \cup Of("task_started")) \ Of("task_complete")

Running  == ActiveOf({}, disk.lines)       \* the turn Codex is in
LastTurn == ContextOf(0, disk.lines)

Write(lines, partial) ==
  disk' = [disk EXCEPT
             !.lines = @ \o IF partial THEN Front(lines) ELSE lines,
             !.tail  = IF partial THEN Last(lines) ELSE NoLine,
             !.turns = IF \E l \in ToSet(lines) : l.type = "task_started" THEN @ + 1 ELSE @]

\* A user item, which starts a turn when none runs, or steers the one that
\* does; Codex writes its turn into the metadata of the item.
WriteUser(by, partial) ==
  LET turn == IF Running = {} THEN disk.turns + 1 ELSE LastTurn
      start == IF Running = {}
               THEN <<Line("task_started", turn, 0, "codex"),
                      Line("turn_context", turn, 0, "codex")>>
               ELSE <<>>
  IN /\ disk.tail = NoLine
     /\ written < MaxItems
     /\ Write(start \o <<Line("user", turn, written + 1, by)>>, partial)
     /\ written' = written + 1
     /\ UNCHANGED <<cursor, cache, since>>

\* An answer, after its preview, an event_msg without an item id; it has the
\* turn of the last turn_context.
WriteAssistant(partial) ==
  /\ disk.tail = NoLine /\ Running # {}
  /\ written < MaxItems
  /\ Write(<<Line("agent_message", 0, written + 1, "codex"),
                Line("assistant", 0, written + 1, "codex")>>, partial)
  /\ written' = written + 1
  /\ UNCHANGED <<cursor, cache, since>>

EndTurn ==
  /\ disk.tail = NoLine /\ Running # {}
  /\ Write(<<Line("task_complete", LastTurn, 0, "codex")>>, FALSE)
  /\ UNCHANGED <<cursor, cache, written, since>>

CompleteLine ==
  /\ disk.tail # NoLine
  /\ disk' = [disk EXCEPT !.lines = Append(@, disk.tail), !.tail = NoLine]
  /\ UNCHANGED <<cursor, cache, written, since>>

\* An empty line, in the first file only: bound.  The hash of one is that of
\* any other.
WriteBlank ==
  /\ disk.tail = NoLine /\ disk.nth = 1
  /\ Cardinality({i \in DOMAIN disk.lines : disk.lines[i] = Blank}) < MaxBlanks
  /\ Write(<<Blank>>, FALSE)
  /\ UNCHANGED <<cursor, cache, written, since>>

\* Another file takes the path, under another identity or one used again.
ReplaceFile ==
  /\ disk.nth < MaxFiles
  /\ \E id \in {disk.id, disk.id + 1} :
       disk' = [nth |-> disk.nth + 1, turns |-> disk.turns, id |-> id, lines |-> <<Meta>>, tail |-> NoLine]
  /\ UNCHANGED <<cursor, cache, written, since>>
-----------------------------------------------------------------------------
\* The reader.

\* The lines it takes: those that end with a newline.
Readable == disk.lines

\* The file behind the cursor is not the one it was committed for.
Replaced ==
  \/ cursor.id # disk.id
  \/ Len(Readable) < cursor.at
  \/ cursor.at \in DOMAIN Readable /\ Readable[cursor.at] # cursor.last

Remembering(at) == cache.id = disk.id /\ cache.at = at

\* After a restart the lines before the cursor are decoded again, the empty
\* ones too, and an empty line is not a record.
Unrecoverable ==
  /\ ~Remembering(cursor.at)
  /\ \E i \in DOMAIN Readable : i <= cursor.at /\ Readable[i] = Blank

Refused == Replaced \/ Unrecoverable

\* Mutation: a restart forgets the turn.
BeforeAnew(at) ==
  IF Remembering(at)
  THEN [context |-> cache.context, active |-> cache.active]
  ELSE [context |-> 0, active |-> {}]

\* The turn context and the active turns before the cursor: kept from the
\* last read, or, after a restart, recovered from the lines before it.
Before(at) ==
  IF Remembering(at)
  THEN [context |-> cache.context, active |-> cache.active]
  ELSE [context |-> ContextOf(0, SubSeq(Readable, 1, at)),
        active  |-> ActiveOf({}, SubSeq(Readable, 1, at))]

\* Mutation: an empty line is not remembered.
LastRecord(lines) ==
  LET records == SelectSeq(lines, LAMBDA l : l.type # "blank")
  IN IF records = <<>> THEN cursor.last ELSE Last(records)
LastOf(lines) == Last(lines)

\* What one read returns: the lines with their turns, of which only the visible
\* items count, the cursor after them, and what the reader remembers.
Batch(at) ==
  LET new == SubSeq(Readable, at + 1, Len(Readable))
      old == Before(at)
      TurnAt(i) == IF new[i].turn # 0 THEN new[i].turn
                   ELSE ContextOf(old.context, SubSeq(new, 1, i))
  IN [events |-> [i \in DOMAIN new |->
                    [visible |-> Visible(new[i]), item |-> new[i].item,
                     turn |-> TurnAt(i), by |-> new[i].by]],
      cursor |-> [id |-> disk.id, at |-> Len(Readable),
                  last |-> IF new = <<>> THEN cursor.last ELSE LastOf(new)],
      cache  |-> [id |-> disk.id, at |-> Len(Readable),
                  context |-> ContextOf(old.context, new),
                  active  |-> ActiveOf(old.active, new)]]

\* A source without a cursor starts at its last complete record: what was
\* written before is not mirrored.
Checkpoint ==
  /\ cursor = NoCursor
  /\ cursor' = Batch(0).cursor
  /\ cache' = Batch(0).cache
  /\ since' = IF Visible(disk.tail) THEN written - 1 ELSE written
  /\ UNCHANGED <<disk, written>>

\* A committed batch: the cursor moves in the transaction that stores the
\* rows of its events.
Commit(batch) ==
  /\ cursor' = batch.cursor
  /\ cache' = batch.cache
  /\ UNCHANGED <<disk, written, since>>

\* The reader's memory dies with the process.
ForgetCache == cache' = NoCache /\ UNCHANGED <<disk, cursor, written, since>>
-----------------------------------------------------------------------------
RolloutTypeOK ==
  /\ disk.id \in 1..MaxFiles
  /\ \A i \in DOMAIN disk.lines : disk.lines[i].type \in Types \ {"none"}
  /\ written \in 0..MaxItems
  /\ since \in 0..written
  /\ cursor.id \in 0..MaxFiles

ItemsUpTo(n) == {Readable[i].item : i \in {j \in 1..n : Visible(Readable[j])}}
=============================================================================
