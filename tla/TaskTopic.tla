----------------------------- MODULE TaskTopic -----------------------------
(***************************************************************************)
(* The topic of one Codex task (feishu/tasks.py, the anchor rows of        *)
(* feishu/outbound.py, and the part of the main loop of service.py that    *)
(* follows the task): it is opened in the chat of its project, renamed     *)
(* with the task, archived and restored, and the grant by which messages   *)
(* of the topic reach Codex is kept with it.                               *)
(*                                                                         *)
(* One thread does all of it, one statement after the other; what comes    *)
(* between is Codex (the task is renamed, moved, archived), the reader of  *)
(* task names on its own thread (codex/thread_titles.py), the provider,    *)
(* and the death of the process.                                           *)
(***************************************************************************)
EXTENDS ProjectGroup, Sequences

CONSTANTS
  Titles,      \* the names of the task
  FirstTitle,  \* its first one, by the prompt; the index of Codex keeps it
  NoTitle,     \* no name
  Static,      \* the task is also in the allow-list, bound to the configured chat
  MayBePrimary,\* a start may be configured with the project as its primary one
  MaxStarts,   \* bound: starts of the service
  MaxChanges,  \* bound: renames, moves, archivals and activations in Codex
  MaxRows      \* bound: title rows in the outbox

ASSUME TopicAssumption ==
  /\ NoTitle \notin Titles /\ FirstTitle \in Titles
  /\ Static \in BOOLEAN /\ MayBePrimary \in BOOLEAN
  /\ MaxStarts \in Nat /\ MaxChanges \in Nat /\ MaxRows \in Nat

\* What the root message may show: a name, and whether it is marked as archived.
Hashes == Titles \X BOOLEAN
NoHash == <<NoTitle, FALSE>>
Live(t) == <<t, FALSE>>
Archived(t) == <<t, TRUE>>

\* "failed" stands for permanent and delivery_indeterminate, between which nothing
\* here tells a difference.
RowStates == {"pending", "leased", "unknown", "confirmed", "failed"}

VARIABLES
  task,     \* Codex: the name of the task, whether it is archived, and has moved
  names,    \* the cache of the title reader, and whether it has tried
  binding,  \* the row of task_bindings
  grant,    \* the row of remote_task_grants
  fence,    \* service_state.fencing_token
  anchor,   \* the state of the anchor's outbox row, "none" before it is there
  rows,     \* the anchor_title rows of the outbox, in their order
  root,     \* provider: what the root message of the topic shows
  main,     \* the main thread: where it is, its row, whether the provider took it
  seen,     \* in memory: archived_thread_ids, automatic_sources
  starts,   \* starts of the service
  changes,  \* changes in Codex
  granter   \* history: the start that authorised the task last

storeVars == <<binding, grant, fence, anchor, rows>>
topicVars == <<task, names, storeVars, root, main, seen, starts, changes, granter>>
vars == <<groupVars, topicVars>>
-----------------------------------------------------------------------------
NoBinding == [anchor |-> "none", chat |-> NoChat, opted |-> FALSE, epoch |-> 1,
              title |-> NoTitle, shown |-> NoHash, pending |-> NoHash, blocked |-> NoHash]

At(pc) == main.pc = pc
GoTo(pc) == main' = [pc |-> pc, row |-> 0, taken |-> FALSE]

Running == main.pc # "down"

Init ==
  /\ GroupInit
  /\ task = [name |-> FirstTitle, archived |-> FALSE, moved |-> FALSE]
  /\ names = [title |-> NoTitle, tried |-> FALSE]
  /\ binding = NoBinding
  /\ grant = [state |-> "none", epoch |-> 0, fence |-> 0]
  /\ fence = 0
  /\ anchor = "none"
  /\ rows = << >>
  /\ root = NoHash
  /\ main = [pc |-> "down", row |-> 0, taken |-> FALSE]
  /\ seen = [archived |-> FALSE, automatic |-> FALSE]
  /\ starts = 0
  /\ changes = 0
  /\ granter = 0
-----------------------------------------------------------------------------
(***************************************************************************)
(* Codex, and the reader of the names.                                     *)
(***************************************************************************)
Change ==
  /\ changes < MaxChanges
  /\ changes' = changes + 1
  /\ \/ \E t \in Titles \ {task.name} : task' = [task EXCEPT !.name = t]
     \/ task' = [task EXCEPT !.archived = ~ @]
     \/ ~ task.moved /\ task' = [task EXCEPT !.moved = TRUE]
  /\ UNCHANGED <<groupVars, names, storeVars, root, main, seen, starts, granter>>

\* thread/read, asked for a task that is followed; it may fail.  A pass looks at the
\* cache once, so what is read in the course of a pass counts for the next.
ReadName ==
  /\ At("top")
  /\ names' \in {[title |-> task.name, tried |-> TRUE], [names EXCEPT !.tried = TRUE]}
  /\ UNCHANGED <<groupVars, task, storeVars, root, main, seen, starts, changes, granter>>
-----------------------------------------------------------------------------
(***************************************************************************)
(* The process.  What it knows of Codex is lost; titles that failed are    *)
(* cleared by initialize_runtime, and the grants by the new fence.         *)
(***************************************************************************)
Down ==
  /\ GoTo("down")
  /\ ForgetCall
  /\ names' = [title |-> NoTitle, tried |-> FALSE]
  /\ seen' = [archived |-> FALSE, automatic |-> FALSE]

\* A death at any point, and an exception that leaves the main loop.
Crash ==
  /\ Running
  /\ Down
  /\ UNCHANGED <<group, made, memory, task, storeVars, root, starts, changes, granter>>

Failed(h) == \E i \in DOMAIN rows : rows[i] = [hash |-> h, state |-> "failed"]

\* initialize_runtime: a pending title with a row that has failed, of whatever revision.
Repaired ==
  IF binding.pending # NoHash /\ Failed(binding.pending)
  THEN [binding EXCEPT !.blocked = binding.pending, !.pending = NoHash]
  ELSE binding

\* Mutation: a fence that is there is not taken over.
KeepFence == fence' = (IF fence = 0 THEN 1 ELSE fence) /\ UNCHANGED grant

\* _acquire_service_fence.
TakeFence ==
  /\ fence' = fence + 1
  /\ grant' = IF grant.state = "active" THEN [grant EXCEPT !.state = "revoked"] ELSE grant

Start(primary) ==
  /\ ~ Running /\ starts < MaxStarts
  /\ IF primary THEN Registrable /\ Registered ELSE UNCHANGED <<group, memory>>
  /\ starts' = starts + 1
  /\ TakeFence
  /\ binding' = Repaired
  /\ GoTo("top")
  /\ UNCHANGED <<held, call, made, task, names, anchor, rows, root, seen, changes,
                 granter>>
-----------------------------------------------------------------------------
(***************************************************************************)
(* A pass of the main loop: the archive and the catalogue of Codex, every  *)
(* two seconds; the group of the project; the binding; the outbox.         *)
(***************************************************************************)
QueueTitle(b, h) ==
  /\ rows' = Append(rows, [hash |-> h, state |-> "pending"])
  /\ binding' = [b EXCEPT !.pending = h, !.blocked = NoHash]

\* Mutation: a title that was rejected is queued again.
WantedAgain(b, h) == b.pending = NoHash /\ b.shown # h

\* The title is not shown, nothing is on its way, and it was not rejected.
Wanted(b, h) == b.pending = NoHash /\ b.shown # h /\ b.blocked # h

\* Mutation: a task whose topic is not there yet is passed over.
UntrackedWhilePending == binding.anchor # "confirmed"

Untracked == binding.anchor = "none"

Revoked == IF grant.state = "none" THEN grant ELSE [grant EXCEPT !.state = "revoked"]

\* archive, one transaction.
Archive ==
  LET b == [binding EXCEPT !.opted = FALSE] IN
  IF Untracked
  THEN UNCHANGED <<binding, grant, rows>>
  ELSE /\ grant' = Revoked
       /\ IF b.anchor = "confirmed" /\ Wanted(b, Archived(b.title))
          THEN Len(rows) < MaxRows /\ QueueTitle(b, Archived(b.title))
          ELSE binding' = b /\ UNCHANGED rows

\* The archived tasks are read and archived here; then the catalogue is read.
Refresh ==
  /\ At("top")
  /\ seen' = [seen EXCEPT !.archived = task.archived]
  /\ GoTo(IF task.archived THEN "archive" ELSE "catalogue")
  /\ UNCHANGED <<groupVars, task, names, storeVars, root, starts, changes, granter>>

ArchiveTask ==
  /\ At("archive")
  /\ Archive
  /\ GoTo("catalogue")
  /\ UNCHANGED <<groupVars, task, names, fence, anchor, root, seen, starts, changes,
                 granter>>

\* Not yet two seconds; or the state of Codex cannot be read.
SkipRefresh ==
  /\ At("top") \/ At("catalogue")
  /\ seen' \in IF At("top") THEN {seen, [seen EXCEPT !.automatic = FALSE]}
               ELSE {[seen EXCEPT !.automatic = FALSE]}
  /\ GoTo("bind")
  /\ UNCHANGED <<groupVars, task, names, storeVars, root, starts, changes, granter>>

\* active_rollouts, then ensure for the project; its exceptions are caught.
Catalogue ==
  /\ At("catalogue")
  /\ IF task.archived
     THEN GoTo("bind") /\ seen' = [seen EXCEPT !.automatic = FALSE] /\ UNCHANGED groupVars
     ELSE \/ GoTo("group") /\ Ensure /\ UNCHANGED seen
          \/ /\ EnsureRests /\ GoTo("bind")
             /\ seen' = [seen EXCEPT !.automatic = group.state = "active"]
             /\ UNCHANGED groupVars
  /\ UNCHANGED <<task, names, storeVars, root, starts, changes, granter>>

GroupCall ==
  /\ At("group")
  /\ MakeGroup \/ Answered
  /\ UNCHANGED topicVars

GroupDone ==
  /\ At("group") /\ call = NoCall
  /\ seen' = [seen EXCEPT !.automatic = group.state = "active"]
  /\ GoTo("bind")
  /\ UNCHANGED <<groupVars, task, names, storeVars, root, starts, changes, granter>>
-----------------------------------------------------------------------------
(***************************************************************************)
(* _ensure_task_bindings for the task, if a source of it was found.        *)
(***************************************************************************)
\* Mutation: a source is followed whether the task is archived or not.
FoundAnyway == seen.automatic \/ Static

Found == ~ seen.archived /\ (seen.automatic \/ Static)
Chat == IF seen.automatic THEN group.chat ELSE Target

\* The name by the App Server, or the title of the index, which a static source lacks.
SourceTitle ==
  CASE names.title # NoTitle -> names.title
    [] names.title = NoTitle /\ seen.automatic -> FirstTitle
    [] OTHER -> NoTitle

NoSource ==
  /\ At("bind")
  /\ \/ ~ Found
     \/ Found /\ binding.anchor = "none" /\ SourceTitle = NoTitle /\ ~ names.tried
  /\ GoTo("drain")
  /\ UNCHANGED <<groupVars, task, names, storeVars, root, seen, starts, changes, granter>>

\* opt_in: the binding and the row of its anchor, in one transaction.
OptIn ==
  /\ At("bind") /\ Found
  /\ binding.anchor = "none"
  /\ SourceTitle # NoTitle \/ names.tried
  /\ LET t == IF SourceTitle = NoTitle THEN FirstTitle ELSE SourceTitle IN
     binding' = [NoBinding EXCEPT !.anchor = "pending", !.chat = Chat, !.opted = TRUE,
                                  !.title = t, !.pending = Live(t)]
  /\ anchor' = "pending"
  /\ task' = [task EXCEPT !.moved = FALSE]
  /\ GoTo("authorise")
  /\ UNCHANGED <<groupVars, names, grant, fence, rows, root, seen, starts, changes, granter>>

Drift ==
  /\ At("bind") /\ Found
  /\ binding.anchor # "none" /\ binding.chat # Chat
  /\ grant' = IF grant.state = "none" THEN grant ELSE [grant EXCEPT !.state = "drifted"]
  /\ GoTo("drain")
  /\ UNCHANGED <<groupVars, task, names, binding, fence, anchor, rows, root, seen, starts,
                 changes, granter>>

\* The directory of the task: a new one is a new epoch of the binding.
Rebind ==
  /\ At("bind") /\ Found
  /\ binding.anchor # "none" /\ binding.chat = Chat
  /\ binding' = IF task.moved THEN [binding EXCEPT !.epoch = @ + 1] ELSE binding
  /\ task' = [task EXCEPT !.moved = FALSE]
  /\ GoTo(IF binding.opted THEN "title" ELSE "reactivate")
  /\ UNCHANGED <<groupVars, names, grant, fence, anchor, rows, root, seen, starts, changes,
                 granter>>

Reactivate ==
  /\ At("reactivate")
  /\ binding' = [binding EXCEPT !.opted = TRUE]
  /\ GoTo("title")
  /\ UNCHANGED <<groupVars, task, names, grant, fence, anchor, rows, root, seen, starts,
                 changes, granter>>

\* sync_title, one transaction; the name is the one read at the top of the pass.
SyncTitle ==
  /\ At("title")
  /\ IF /\ SourceTitle # NoTitle
        /\ binding.anchor = "confirmed" /\ Wanted(binding, Live(SourceTitle))
     THEN /\ Len(rows) < MaxRows
          /\ QueueTitle([binding EXCEPT !.title = SourceTitle], Live(SourceTitle))
     ELSE UNCHANGED <<binding, rows>>
  /\ GoTo("authorise")
  /\ UNCHANGED <<groupVars, task, names, grant, fence, anchor, root, seen, starts, changes,
                 granter>>

\* _authorize_remote_task.
Authorise ==
  /\ At("authorise")
  /\ grant' = [state |-> "active", epoch |-> binding.epoch, fence |-> fence]
  /\ granter' = starts
  /\ GoTo("drain")
  /\ UNCHANGED <<groupVars, task, names, binding, fence, anchor, rows, root, seen, starts,
                 changes>>
-----------------------------------------------------------------------------
(***************************************************************************)
(* The outbox: the anchor and the titles.  Row 0 is the anchor.  A row     *)
(* that waits for its next attempt is pending here, and may be passed over.*)
(***************************************************************************)
StateOf(r) == IF r = 0 THEN anchor ELSE rows[r].state
SetState(r, s) ==
  IF r = 0 THEN anchor' = s /\ UNCHANGED rows
  ELSE rows' = [rows EXCEPT ![r].state = s] /\ UNCHANGED anchor
AllRows == 0 .. Len(rows)

\* An expired lease, of a process that is gone.
Sweep(r) ==
  /\ At("drain")
  /\ StateOf(r) = "leased" /\ SetState(r, "unknown")
  /\ UNCHANGED <<groupVars, task, names, binding, grant, fence, root, main, seen, starts,
                 changes, granter>>

LeaseRow(r) ==
  /\ At("drain")
  /\ StateOf(r) = "pending" /\ SetState(r, "leased")
  /\ main' = [pc |-> "send", row |-> r, taken |-> FALSE]
  /\ UNCHANGED <<groupVars, task, names, binding, grant, fence, root, seen, starts,
                 changes, granter>>

Sending(r) == At("send") /\ main.row = r

\* The anchor of a task that is archived by now: binding_missing.
RejectAnchor ==
  /\ Sending(0) /\ ~ binding.opted
  /\ SetState(0, "failed")
  /\ GoTo("drain")
  /\ UNCHANGED <<groupVars, task, names, binding, grant, fence, root, seen, starts,
                 changes, granter>>

\* The provider takes the call; the anchor's UUID keeps the topic single (Outbox).
Take(r) ==
  /\ Sending(r) /\ ~ main.taken
  /\ r = 0 => binding.opted
  /\ main' = [main EXCEPT !.taken = TRUE]
  /\ root' = IF r # 0 THEN rows[r].hash
             ELSE IF root = NoHash THEN Live(binding.title) ELSE root
  /\ UNCHANGED <<groupVars, task, names, storeVars, seen, starts, changes, granter>>

ConfirmAnchor ==
  /\ Sending(0) /\ main.taken
  /\ SetState(0, "confirmed")
  /\ GoTo("anchored")
  /\ UNCHANGED <<groupVars, task, names, binding, grant, fence, root, seen, starts,
                 changes, granter>>

\* The statement after finish_outbox, and the row of the ancestry.
BindAnchor ==
  /\ At("anchored")
  /\ binding' = [binding EXCEPT !.anchor = "confirmed", !.shown = binding.pending,
                                !.pending = NoHash]
  /\ GoTo("drain")
  /\ UNCHANGED <<groupVars, task, names, grant, fence, anchor, rows, root, seen, starts,
                 changes, granter>>

RetryRow(r) ==
  /\ Sending(r) /\ (r = 0 => binding.opted)
  /\ SetState(r, "pending")
  /\ GoTo("drain")
  /\ UNCHANGED <<groupVars, task, names, binding, grant, fence, root, seen, starts,
                 changes, granter>>

FailAnchor(s) ==
  /\ Sending(0) /\ binding.opted
  /\ s \in {"unknown", "failed"} /\ SetState(0, s)
  /\ GoTo("drain")
  /\ UNCHANGED <<groupVars, task, names, binding, grant, fence, root, seen, starts,
                 changes, granter>>

\* confirm_task_title_update and fail_task_title_update: the row and the binding in one
\* transaction, which is rolled back by an exception when the binding waits for another.
Expected(r) == binding.pending = rows[r].hash

ConfirmTitle(r) ==
  /\ Sending(r) /\ r # 0 /\ main.taken
  /\ Expected(r)
  /\ SetState(r, "confirmed")
  /\ binding' = [binding EXCEPT !.shown = rows[r].hash, !.pending = NoHash,
                                !.blocked = NoHash]
  /\ GoTo("drain")
  /\ UNCHANGED <<groupVars, task, names, grant, fence, root, seen, starts, changes, granter>>

FailTitle(r) ==
  /\ Sending(r) /\ r # 0
  /\ Expected(r)
  /\ SetState(r, "failed")
  /\ binding' = [binding EXCEPT !.pending = NoHash, !.blocked = rows[r].hash]
  /\ GoTo("drain")
  /\ UNCHANGED <<groupVars, task, names, grant, fence, root, seen, starts, changes, granter>>

TitleRaises(r) ==
  /\ Sending(r) /\ r # 0
  /\ ~ Expected(r)
  /\ Down
  /\ UNCHANGED <<group, made, memory, task, storeVars, root, starts, changes, granter>>

\* The reconciler: an anchor again with its UUID while the window is open, or what the
\* history says; a title by the history alone.  It writes the row and nothing else.
Reconcile(r) ==
  /\ At("drain")
  /\ StateOf(r) = "unknown"
  /\ \E s \in (IF r = 0 THEN {"pending"} ELSE {})
              \cup {"failed"}
              \cup (IF root = (IF r = 0 THEN Live(binding.title) ELSE rows[r].hash)
                    THEN {"confirmed"} ELSE {}) :
       SetState(r, s)
  /\ UNCHANGED <<groupVars, task, names, binding, grant, fence, root, main, seen, starts,
                 changes, granter>>

PassEnds ==
  /\ At("drain")
  /\ GoTo("top")
  /\ UNCHANGED <<groupVars, task, names, storeVars, root, seen, starts, changes, granter>>

Tick == GroupTick /\ UNCHANGED topicVars
-----------------------------------------------------------------------------
Deliver(r) ==
  \/ LeaseRow(r) \/ Take(r) \/ RetryRow(r) \/ ConfirmTitle(r) \/ FailTitle(r)
  \/ TitleRaises(r)

Loop ==
  \/ Refresh \/ ArchiveTask \/ SkipRefresh \/ Catalogue \/ GroupCall \/ GroupDone
  \/ NoSource \/ OptIn \/ Drift \/ Rebind \/ Reactivate \/ SyncTitle \/ Authorise
  \/ \E r \in AllRows : Deliver(r) \/ Sweep(r) \/ Reconcile(r)
  \/ RejectAnchor \/ ConfirmAnchor \/ BindAnchor
  \/ \E s \in RowStates : FailAnchor(s)
  \/ PassEnds

Next ==
  \/ Change \/ ReadName \/ Crash \/ Tick
  \/ \E primary \in BOOLEAN : (primary => MayBePrimary) /\ Start(primary)
  \/ Loop

Spec == Init /\ [][Next]_vars

(***************************************************************************)
(* Fairness: the main loop goes on; two seconds pass and the state of      *)
(* Codex can be read, again and again; a pass hands out a bounded number   *)
(* of rows, so that it ends.                                               *)
(***************************************************************************)
Fairness ==
  /\ WF_vars(Loop)
  /\ SF_vars(Refresh) /\ SF_vars(PassEnds)

FairSpec == Spec /\ Fairness

\* What helps a title further: a name that is read, a catalogue, an answer of the
\* provider that is an outcome, an end of the reconciliation.
Outcome(r) == ConfirmTitle(r) \/ FailTitle(r)

HelpfulSpec ==
  /\ FairSpec
  /\ SF_vars(ReadName /\ names'.title = task.name) /\ SF_vars(Catalogue)
  /\ SF_vars(\E r \in AllRows : LeaseRow(r) /\ r # 0)
  /\ SF_vars(\E r \in AllRows : Take(r) /\ r # 0)
  /\ SF_vars(\E r \in AllRows : Outcome(r))
  /\ SF_vars(\E r \in AllRows : Sweep(r)) /\ SF_vars(\E r \in AllRows : Reconcile(r))
-----------------------------------------------------------------------------
TypeOK ==
  /\ GroupTypes
  /\ task \in [name : Titles, archived : BOOLEAN, moved : BOOLEAN]
  /\ names \in [title : Titles \cup {NoTitle}, tried : BOOLEAN]
  /\ binding \in [anchor : {"none", "pending", "confirmed"}, chat : {NoChat} \cup Chats,
                  opted : BOOLEAN, epoch : Nat, title : Titles \cup {NoTitle},
                  shown : Hashes \cup {NoHash}, pending : Hashes \cup {NoHash},
                  blocked : Hashes \cup {NoHash}]
  /\ grant \in [state : {"none", "active", "revoked", "drifted"}, epoch : Nat, fence : Nat]
  /\ fence \in Nat
  /\ anchor \in {"none"} \cup RowStates
  /\ rows \in Seq([hash : Hashes, state : RowStates])
  /\ root \in Hashes \cup {NoHash}
  /\ main \in [pc : {"down", "top", "archive", "catalogue", "group", "bind", "reactivate",
                     "title", "authorise", "drain", "send", "anchored"},
               row : Nat, taken : BOOLEAN]
  /\ seen \in [archived : BOOLEAN, automatic : BOOLEAN]
  /\ starts \in Nat /\ changes \in Nat /\ granter \in Nat

\* require_dispatchable: what lets a message of the topic reach Codex.  A thread that is
\* bridge-owned needs no grant; with remote input the mode is "outbound", in which the
\* thread of a new task is recorded as desktop_mirror_only, so that none is here.
Dispatchable ==
  /\ Running
  /\ binding.opted /\ binding.anchor = "confirmed"
  /\ grant.state = "active" /\ grant.epoch = binding.epoch /\ grant.fence = fence

\* A message of the topic reaches Codex only under a grant given by this very start of
\* the service: none of an older process counts, not even before the task is looked at.
AuthorisedByThisStart == Dispatchable => granter = starts

\* From the moment the archived tasks are worked off until the task is seen active again
\* nothing authorises it, whatever its anchor, its title and its directory went through.
ArchivedIsClosed == seen.archived /\ ~ At("archive") => ~ Dispatchable

\* README, line 14: a title that was rejected "is not retried in a loop".  After a title
\* that failed, the next one to be queued is another.
NoRetryLoop ==
  [][LET last == rows[Len(rows)] IN
     Len(rows) \in 1 .. Len(rows') - 1 /\ last.state = "failed"
       => rows'[Len(rows')].hash # last.hash]_vars

\* A task that stays archived in Codex is closed in the bridge some day, and stays so.
ArchivedCloses == <>[]task.archived => <>[]~ Dispatchable

\* README, line 14: "renaming a Codex task updates the existing Feishu/Lark topic root in
\* place": a name that stays is shown, for all the bridge knows, unless the provider
\* refused it for good.
RenameShown ==
  \A t \in Titles :
    <>[](Running /\ ~ task.archived /\ task.name = t /\ binding.anchor = "confirmed")
      => <>[](binding.shown = Live(t) \/ binding.blocked = Live(t))
=============================================================================
