-------------------------- MODULE TaskTopicProofs --------------------------
(***************************************************************************)
(* What holds of the topic of a task and of the group of its project for   *)
(* any titles, windows, configurations, starts and changes in Codex.       *)
(***************************************************************************)
EXTENDS TaskTopic, SequenceTheorems, TLAPS

\* A call is one of the main thread, while the row is "creating".
CallInv ==
  /\ call # NoCall => group.state = "creating" /\ main.pc = "group"
  /\ call.to = "none" => call = NoCall

\* Once a group was made, the provider remembers it while the row is "creating", and a call
\* that has no answer yet is too young to find it forgotten.
Unmade == call.to = "create_chat" /\ call.chat = NoChat

MemoryInv ==
  /\ group.state = "none" => made = 0
  /\ made = 0 => memory.chat = NoChat
  /\ group.state = "creating" /\ made > 0 => memory.chat # NoChat
  /\ group.state = "creating" /\ memory.chat # NoChat /\ group.age < Window
       => memory.age <= group.age
  /\ Unmade /\ made > 0 => (~ call.late => group.age < Window) /\ memory.age <= Window

GroupInv == CallInv /\ MemoryInv /\ OneGroupPerProject

\* The anchor, the binding and the titles are there in this order.
AnchorInv ==
  /\ binding.anchor = "none" => anchor = "none"
  /\ binding.anchor # "none" => binding.title \in Titles
  /\ binding.anchor # "confirmed" => rows = << >>
  /\ binding.anchor = "confirmed" => anchor = "confirmed"

\* Between the two writes of a confirmed anchor.
BindingInv == At("anchored") => binding.anchor = "pending" /\ anchor = "confirmed"

\* What the main thread sends is leased.
SendInv == At("send") => main.row \in AllRows /\ StateOf(main.row) = "leased"

\* The newest title is confirmed, or it is the one the binding waits for, or it was the
\* last one that was shown or refused.
TitleInv ==
  rows # << >> =>
    LET last == rows[Len(rows)] IN
      \/ last.state = "confirmed"
      \/ binding.pending = last.hash
      \/ binding.pending = NoHash /\ last.hash \in {binding.shown, binding.blocked}

\* An active grant is of this start.
GrantInv == grant.state = "active" => granter = starts

\* What is archived is closed, and the pass that saw it does not follow the task.
ArchiveInv ==
  /\ seen.archived => main.pc \notin {"reactivate", "title", "authorise"}
  /\ seen.archived /\ ~ At("archive") => binding.anchor = "none" \/ ~ binding.opted

IInv == /\ TypeOK /\ GroupInv /\ AnchorInv /\ BindingInv /\ SendInv /\ TitleInv
        /\ GrantInv /\ ArchiveInv
-----------------------------------------------------------------------------
(***************************************************************************)
(* The group: what a step of the whole may do to it.                       *)
(***************************************************************************)
GroupStep ==
  \/ Ensure /\ call = NoCall /\ main'.pc = "group"
  \/ (MakeGroup \/ Answered) /\ main' = main
  \/ GroupTick /\ main' = main
  \/ Registered /\ ~ Running /\ UNCHANGED <<held, call, made>>
  \/ ForgetCall /\ UNCHANGED <<group, made, memory>>
  \/ UNCHANGED groupVars /\ (call = NoCall \/ main' = main)

\* Every step does to the group one of these things, or nothing.
LEMMA GroupSteps ==
  ASSUME CallInv, Next
  PROVE  GroupStep
<1> USE DEF GroupStep
<1>0. ASSUME main.pc # "group" PROVE call = NoCall
  BY <1>0 DEF CallInv
<1>1. ASSUME Change \/ ReadName PROVE GroupStep
  BY <1>1, <1>0 DEF Change, ReadName, At
<1>2. ASSUME Crash PROVE GroupStep
  BY <1>2 DEF Crash, Down
<1>3. ASSUME Tick PROVE GroupStep
  BY <1>3 DEF Tick, topicVars
<1>4. ASSUME NEW primary \in BOOLEAN, Start(primary) PROVE GroupStep
  BY <1>4, <1>0 DEF Start, Running, groupVars
<1>5. ASSUME Refresh \/ ArchiveTask \/ SkipRefresh PROVE GroupStep
  BY <1>5, <1>0 DEF Refresh, ArchiveTask, SkipRefresh, At
<1>6. ASSUME Catalogue PROVE GroupStep
  BY <1>6, <1>0 DEF Catalogue, At, GoTo
<1>7. ASSUME GroupCall PROVE GroupStep
  BY <1>7 DEF GroupCall, topicVars
<1>8. ASSUME GroupDone \/ NoSource \/ OptIn \/ Drift \/ Rebind PROVE GroupStep
  BY <1>8, <1>0 DEF GroupDone, NoSource, OptIn, Drift, Rebind, At
<1>9. ASSUME Reactivate \/ SyncTitle \/ Authorise \/ PassEnds PROVE GroupStep
  BY <1>9, <1>0 DEF Reactivate, SyncTitle, Authorise, PassEnds, At
<1>10. ASSUME NEW r \in AllRows, LeaseRow(r) \/ Take(r) \/ RetryRow(r) PROVE GroupStep
  BY <1>10, <1>0 DEF LeaseRow, Take, RetryRow, Sending, At
<1>11. ASSUME NEW r \in AllRows, ConfirmTitle(r) \/ FailTitle(r) PROVE GroupStep
  BY <1>11, <1>0 DEF ConfirmTitle, FailTitle, Sending, At
<1>12. ASSUME NEW r \in AllRows, TitleRaises(r) PROVE GroupStep
  BY <1>12 DEF TitleRaises, Down
<1>13. ASSUME NEW r \in AllRows, Sweep(r) \/ Reconcile(r) PROVE GroupStep
  BY <1>13, <1>0 DEF Sweep, Reconcile, At
<1>14. ASSUME NEW s \in RowStates, FailAnchor(s) PROVE GroupStep
  BY <1>14, <1>0 DEF FailAnchor, Sending, At
<1>15. ASSUME RejectAnchor \/ ConfirmAnchor \/ BindAnchor PROVE GroupStep
  BY <1>15, <1>0 DEF RejectAnchor, ConfirmAnchor, BindAnchor, Sending, At
<1> QED
  BY <1>1, <1>2, <1>3, <1>4, <1>5, <1>6, <1>7, <1>8, <1>9, <1>10, <1>11, <1>12, <1>13,
     <1>14, <1>15 DEF Next, Loop, Deliver

\* The call that creates the group.
LEMMA CreateIs ==
  /\ Create \in [to : {"create_chat"}, chat : {NoChat}, late : {FALSE}]
  /\ Create.to = "create_chat" /\ Create.chat = NoChat /\ Create.late = FALSE
BY DEF Create, NoCall

\* Every step keeps the types of the group.
LEMMA GroupTypesStep ==
  ASSUME GroupTypes, GroupStep
  PROVE  GroupTypes'
<1> DEFINE Groups == [state : GroupStates, chat : {NoChat} \cup Chats, age : 0 .. Window]
           Calls == [to : {"none", "create_chat", "preflight_chat"}, chat : {NoChat} \cup Chats,
                     late : BOOLEAN]
           Memories == [chat : {NoChat} \cup Chats, age : 0 .. ProviderWindow]
<1>t. /\ group \in Groups /\ held \in BOOLEAN /\ call \in Calls
      /\ made \in 0 .. MaxChats /\ memory \in Memories
  BY DEF GroupTypes
<1>u. 0 \in 0 .. Window /\ 0 \in 0 .. ProviderWindow /\ Target \in Chats
  BY GroupAssumption DEF Target, Chats
<1>v. NoCall \in Calls /\ Create \in Calls /\ Nothing \in Memories
  BY <1>u, CreateIs DEF NoCall, Nothing
<1>w. \A c \in {NoChat} \cup Chats, st \in GroupStates :
        [state |-> st, chat |-> c, age |-> 0] \in Groups
  BY <1>u
<1>x. \A n \in 0 .. MaxChats : n < MaxChats => n + 1 \in 0 .. MaxChats /\ n + 1 \in Chats
  BY GroupAssumption DEF Chats, Target
<1>s. ASSUME NEW st \in GroupStates, NEW c \in {NoChat} \cup Chats, Settle(st, c)
      PROVE  group' \in Groups /\ memory' \in Memories
  BY <1>s, <1>v, <1>w DEF Settle
<1>q. ASSUME group' \in Groups, held' \in BOOLEAN, call' \in Calls,
             made' \in 0 .. MaxChats, memory' \in Memories
      PROVE  GroupTypes'
  BY <1>q DEF GroupTypes
<1> HIDE DEF Groups, Calls, Memories
<1>1. ASSUME Ensure PROVE GroupTypes'
  <2>1. group' \in Groups
    BY <1>1, <1>s, <1>t, <1>w DEF Ensure, InsertGroup, CreateAgain, ExpireWindow, GroupStates
  <2>2. memory' \in Memories
    BY <1>1, <1>s, <1>t DEF Ensure, InsertGroup, CreateAgain, ExpireWindow, GroupStates
  <2>3. call' \in Calls /\ made' = made /\ held' = held
    BY <1>1, <1>t, <1>v DEF Ensure, InsertGroup, CreateAgain, ExpireWindow
  <2> QED
    BY <1>q, <1>t, <2>1, <2>2, <2>3
<1>2. ASSUME MakeGroup PROVE GroupTypes'
  <2>1. ASSUME NEW c \in {NoChat} \cup Chats PROVE [call EXCEPT !.chat = c] \in Calls
    BY <1>t DEF Calls
  <2>2. CASE Remembers
    <3>1. memory.chat \in {NoChat} \cup Chats
      BY <1>t DEF Memories
    <3> QED
      BY <1>2, <1>q, <1>t, <2>1, <2>2, <3>1 DEF MakeGroup
  <2>3. CASE ~ Remembers
    <3>1. made' \in 0 .. MaxChats /\ made + 1 \in Chats
      BY <1>2, <1>t, <1>x, <2>3 DEF MakeGroup
    <3>2. memory' \in Memories
      BY <1>2, <1>u, <2>3, <3>1 DEF MakeGroup, Memories
    <3>3. call' \in Calls
      BY <1>2, <2>1, <2>3, <3>1 DEF MakeGroup
    <3> QED
      BY <1>2, <1>q, <1>t, <3>1, <3>2, <3>3 DEF MakeGroup
  <2> QED
    BY <2>2, <2>3
<1>3. ASSUME Answered PROVE GroupTypes'
  <2>1. CASE GroupConfirmed
    <3>1. call' \in Calls
      BY <1>t, <2>1 DEF GroupConfirmed, Calls
    <3> QED
      BY <1>q, <1>t, <2>1, <3>1 DEF GroupConfirmed
  <2>2. CASE GroupRetryable \/ GroupRaises
    BY <1>q, <1>t, <1>v, <2>2 DEF GroupRetryable, GroupRaises, Returned
  <2>3. CASE GroupUnknown \/ GroupFailed
    BY <1>q, <1>s, <1>t, <1>v, <2>3 DEF GroupUnknown, GroupFailed, Returned, GroupStates
  <2>4. CASE Reverify
    <3>1. call.chat \in {NoChat} \cup Chats
      BY <1>t DEF Calls
    <3> QED
      BY <1>q, <1>s, <1>t, <1>v, <2>4, <3>1 DEF Reverify, Returned, GroupStates
  <2> QED
    BY <1>3, <2>1, <2>2, <2>3, <2>4 DEF Answered
<1>4. ASSUME GroupTick PROVE GroupTypes'
  <2>1. \A limit \in Nat : \A n \in 0 .. limit : Older(n, limit) \in 0 .. limit
    BY DEF Older
  <2>2. group' \in Groups
    BY <1>4, <1>t, <2>1, GroupAssumption DEF GroupTick, Groups
  <2>3. memory' \in Memories
    BY <1>4, <1>t, <2>1, GroupAssumption DEF GroupTick, Memories
  <2>4. call' \in Calls
    BY <1>4, <1>t, <1>v DEF GroupTick, Calls
  <2>5. held' \in BOOLEAN /\ made' = made
    BY <1>4 DEF GroupTick
  <2> QED
    BY <1>q, <1>t, <2>2, <2>3, <2>4, <2>5
<1>5. ASSUME Registered, UNCHANGED <<held, call, made>> PROVE GroupTypes'
  BY <1>5, <1>q, <1>s, <1>t, <1>u DEF Registered, GroupStates
<1>6. ASSUME ForgetCall, UNCHANGED <<group, made, memory>> PROVE GroupTypes'
  BY <1>6, <1>q, <1>t, <1>v DEF ForgetCall
<1>7. ASSUME UNCHANGED groupVars PROVE GroupTypes'
  BY <1>7, <1>q, <1>t DEF groupVars
<1> QED
  BY <1>1, <1>2, <1>3, <1>4, <1>5, <1>6, <1>7 DEF GroupStep

\* Every step keeps what the provider's memory has to do with our row.
LEMMA GroupInvStep ==
  ASSUME GroupTypes, GroupInv, GroupStep
  PROVE  GroupInv'
<1> USE GroupAssumption DEF GroupInv, CallInv, MemoryInv, OneGroupPerProject, Unmade, NoChat, NoCall
<1>t. /\ group \in [state : GroupStates, chat : {NoChat} \cup Chats, age : 0 .. Window]
      /\ call \in [to : {"none", "create_chat", "preflight_chat"}, chat : {NoChat} \cup Chats,
                   late : BOOLEAN]
      /\ made \in Nat
      /\ memory \in [chat : {NoChat} \cup Chats, age : 0 .. ProviderWindow]
  BY DEF GroupTypes
<1>1. ASSUME Ensure, call = NoCall, main'.pc = "group" PROVE GroupInv'
  <2>1. CASE InsertGroup
    <3>1. /\ group'.state = "creating" /\ group'.age = 0
          /\ call'.to = "create_chat"
          /\ made = 0 /\ UNCHANGED <<made, memory>>
      BY <2>1, CreateIs DEF InsertGroup
    <3> QED
      BY <1>1, <1>t, <2>1, <3>1, CreateIs DEF InsertGroup
  <2>2. CASE CreateAgain
    BY <1>1, <1>t, <2>2, CreateIs DEF CreateAgain, InWindow
  <2>3. CASE ExpireWindow
    BY <1>1, <1>t, <2>3 DEF ExpireWindow, InWindow, Settle, Nothing
  <2> QED
    BY <1>1, <2>1, <2>2, <2>3 DEF Ensure
<1>2. ASSUME MakeGroup, main' = main PROVE GroupInv'
  <2>1. CASE Remembers
    BY <1>2, <1>t, <2>1 DEF MakeGroup, Remembers
  <2>2. CASE ~ Remembers
    <3>1. made = 0
      BY <1>2, <1>t, <2>2 DEF MakeGroup, Remembers
    <3> QED
      BY <1>2, <1>t, <2>2, <3>1 DEF MakeGroup
  <2> QED
    BY <2>1, <2>2
<1>3. ASSUME Answered, main' = main PROVE GroupInv'
  BY <1>3, <1>t DEF Answered, GroupConfirmed, GroupRetryable, GroupUnknown, GroupFailed,
     GroupRaises, Reverify, Returned, Settle, Nothing
<1>4. ASSUME GroupTick, main' = main PROVE GroupInv'
  BY <1>4, <1>t DEF GroupTick, Older
<1>5. ASSUME Registered, ~ Running, UNCHANGED <<held, call, made>> PROVE GroupInv'
  BY <1>5, <1>t DEF Registered, Running, Settle, Nothing
<1>6. ASSUME ForgetCall, UNCHANGED <<group, made, memory>> PROVE GroupInv'
  BY <1>6, <1>t DEF ForgetCall
<1>7. ASSUME UNCHANGED groupVars, call = NoCall \/ main' = main PROVE GroupInv'
  BY <1>7, <1>t DEF groupVars
<1> QED
  BY <1>1, <1>2, <1>3, <1>4, <1>5, <1>6, <1>7 DEF GroupStep
-----------------------------------------------------------------------------
(***************************************************************************)
(* The types of the topic.                                                 *)
(***************************************************************************)
PCs == {"down", "top", "archive", "catalogue", "group", "bind", "reactivate", "title",
        "authorise", "drain", "send", "anchored"}
AnyHash == Hashes \cup {NoHash}
Bindings ==
  [anchor : {"none", "pending", "confirmed"}, chat : {NoChat} \cup Chats, opted : BOOLEAN,
   epoch : Nat, title : Titles \cup {NoTitle}, shown : AnyHash, pending : AnyHash,
   blocked : AnyHash]
Grants == [state : {"none", "active", "revoked", "drifted"}, epoch : Nat, fence : Nat]
TitleRows == [hash : Hashes, state : RowStates]
TopicMains == [pc : PCs, row : Nat, taken : BOOLEAN]

CodexTypes ==
  /\ task \in [name : Titles, archived : BOOLEAN, moved : BOOLEAN]
  /\ names \in [title : Titles \cup {NoTitle}, tried : BOOLEAN]
  /\ root \in AnyHash
  /\ seen \in [archived : BOOLEAN, automatic : BOOLEAN]

CountTypes ==
  /\ grant \in Grants /\ fence \in Nat
  /\ starts \in Nat /\ changes \in Nat /\ granter \in Nat

RowTypes == anchor \in {"none"} \cup RowStates /\ rows \in Seq(TitleRows)

\* The types, by the part of the state they are about.
LEMMA TopicParts ==
  TypeOK <=> /\ GroupTypes /\ CodexTypes /\ CountTypes /\ RowTypes
             /\ binding \in Bindings /\ main \in TopicMains
BY DEF TypeOK, CodexTypes, CountTypes, RowTypes, AnyHash, Bindings, Grants, TitleRows, PCs,
   TopicMains

\* The hashes of titles, and that of no title.
LEMMA HashFacts ==
  /\ \A t \in Titles : Live(t) \in Hashes /\ Archived(t) \in Hashes
  /\ NoHash \notin Hashes
BY TopicAssumption DEF Hashes, Live, Archived, NoHash

\* A row has the hash of a title.
LEMMA RowHash ==
  ASSUME rows \in Seq(TitleRows), NEW r \in AllRows, r # 0
  PROVE  r \in 1 .. Len(rows) /\ rows[r].hash \in Hashes
<1>1. r \in 1 .. Len(rows)
  BY DEF AllRows
<1>2. rows[r] \in TitleRows
  BY <1>1, ElementOfSeq
<1> QED
  BY <1>1, <1>2 DEF TitleRows

\* The main thread is somewhere, without a row.
LEMMA GoToType ==
  ASSUME NEW pc \in PCs, GoTo(pc)
  PROVE  main' \in TopicMains /\ main'.pc = pc
BY DEF GoTo, TopicMains

\* Every step leaves the main thread in a state it can be in.
LEMMA MainTypeStep ==
  ASSUME main \in TopicMains, rows \in Seq(TitleRows), Next
  PROVE  main' \in TopicMains
<1>1. ASSUME Refresh \/ ArchiveTask \/ SkipRefresh \/ GroupDone \/ NoSource \/ OptIn
      PROVE  main' \in TopicMains
  BY <1>1, GoToType DEF Refresh, ArchiveTask, SkipRefresh, GroupDone, NoSource, OptIn, PCs
<1>2. ASSUME Catalogue \/ Drift \/ Rebind \/ Reactivate \/ SyncTitle \/ Authorise \/ PassEnds
      PROVE  main' \in TopicMains
  BY <1>2, GoToType DEF Catalogue, Drift, Rebind, Reactivate, SyncTitle, Authorise, PassEnds,
     PCs
<1>3. ASSUME Change \/ ReadName \/ Tick \/ GroupCall
      PROVE  main' \in TopicMains
  BY <1>3 DEF Change, ReadName, Tick, GroupCall, topicVars
<1>4. ASSUME Crash
      PROVE  main' \in TopicMains
  BY <1>4, GoToType DEF Crash, Down, PCs
<1>5. ASSUME NEW primary \in BOOLEAN, Start(primary)
      PROVE  main' \in TopicMains
  BY <1>5, GoToType DEF Start, PCs
<1>6. ASSUME NEW r \in AllRows, LeaseRow(r)
      PROVE  main' \in TopicMains
  BY <1>6 DEF LeaseRow, AllRows, TopicMains, PCs
<1>7. ASSUME NEW r \in AllRows, Take(r)
      PROVE  main' \in TopicMains
  BY <1>7 DEF Take, TopicMains
<1>8. ASSUME NEW r \in AllRows, RetryRow(r) \/ ConfirmTitle(r) \/ FailTitle(r)
      PROVE  main' \in TopicMains
  BY <1>8, GoToType DEF RetryRow, ConfirmTitle, FailTitle, PCs
<1>9. ASSUME NEW r \in AllRows, TitleRaises(r)
      PROVE  main' \in TopicMains
  BY <1>9, GoToType DEF TitleRaises, Down, PCs
<1>10. ASSUME NEW r \in AllRows, Sweep(r) \/ Reconcile(r)
       PROVE  main' \in TopicMains
  BY <1>10 DEF Sweep, Reconcile
<1>11. ASSUME NEW s \in RowStates, FailAnchor(s)
       PROVE  main' \in TopicMains
  BY <1>11, GoToType DEF FailAnchor, PCs
<1>12. ASSUME RejectAnchor \/ ConfirmAnchor \/ BindAnchor
       PROVE  main' \in TopicMains
  BY <1>12, GoToType DEF RejectAnchor, ConfirmAnchor, BindAnchor, PCs
<1> QED
  BY <1>1, <1>2, <1>3, <1>4, <1>5, <1>6, <1>7, <1>8, <1>9, <1>10, <1>11, <1>12
     DEF Next, Loop, Deliver

(***************************************************************************)
(* The anchor, the titles and the binding, by what a step does to them:    *)
(* the kinds of writes that AnchorInv and TitleInv are proved for.         *)
(***************************************************************************)
\* The binding keeps what belongs to its anchor and its titles.
Keeps ==
  /\ binding' \in Bindings
  /\ binding'.anchor = binding.anchor /\ binding'.title = binding.title
  /\ binding'.shown = binding.shown /\ binding'.pending = binding.pending
  /\ binding'.blocked = binding.blocked
  /\ UNCHANGED <<anchor, rows>>

\* Row r moves on from a state it can still move on from.
Moves(r, st) ==
  /\ r \in AllRows /\ StateOf(r) \in {"pending", "leased", "unknown"} /\ st \in RowStates
  /\ SetState(r, st)
  /\ UNCHANGED binding

Queues(h) ==
  /\ h \in Hashes
  /\ binding.anchor = "confirmed" /\ Wanted(binding, h)
  /\ rows' = Append(rows, [hash |-> h, state |-> "pending"])
  /\ binding' \in Bindings
  /\ binding'.pending = h /\ binding'.anchor = binding.anchor /\ binding'.title \in Titles
  /\ UNCHANGED anchor

\* A pending title ends: it is shown or blocked, with its row or, at a start, alone.
Settles(r, st) ==
  /\ binding.pending # NoHash
  /\ binding' \in Bindings
  /\ binding'.anchor = binding.anchor /\ binding'.title = binding.title
  /\ binding'.pending = NoHash
  /\ binding.pending \in {binding'.shown, binding'.blocked}
  /\ \/ UNCHANGED <<anchor, rows>>
     \/ r \in AllRows \ {0} /\ StateOf(r) = "leased" /\ st \in RowStates /\ SetState(r, st)

Opens ==
  /\ binding.anchor = "none"
  /\ binding' \in Bindings /\ binding'.anchor = "pending" /\ binding'.title \in Titles
  /\ anchor' = "pending" /\ UNCHANGED rows

Binds ==
  /\ binding.anchor = "pending" /\ anchor = "confirmed"
  /\ binding' \in Bindings
  /\ binding'.anchor = "confirmed" /\ binding'.title = binding.title
  /\ UNCHANGED <<anchor, rows>>

RowStep ==
  \/ Keeps \/ Opens \/ Binds
  \/ \E r \in AllRows, st \in RowStates : Moves(r, st)
  \/ \E h \in Hashes : Queues(h)
  \/ \E r \in AllRows, st \in RowStates : Settles(r, st)

\* Every step does to the rows one of these things, or nothing.
LEMMA RowSteps ==
  ASSUME IInv, Next
  PROVE  RowStep
<1>t. /\ CodexTypes /\ RowTypes /\ binding \in Bindings /\ main \in TopicMains
      /\ AnchorInv /\ BindingInv /\ SendInv
  BY TopicParts DEF IInv
<1>k. ASSUME UNCHANGED <<binding, anchor, rows>>
      PROVE  RowStep
  BY <1>k, <1>t DEF RowStep, Keeps
<1>m. ASSUME NEW r \in AllRows, NEW st \in RowStates, UNCHANGED binding,
             StateOf(r) \in {"pending", "leased", "unknown"}, SetState(r, st)
      PROVE  RowStep
  BY <1>m DEF RowStep, Moves
<1>z. 0 \in AllRows
  BY <1>t DEF AllRows, RowTypes
<1>p. /\ {"pending", "leased", "unknown", "confirmed", "failed"} \subseteq RowStates
      /\ AnyHash = Hashes \cup {NoHash}
  BY DEF RowStates, AnyHash
<1>1. ASSUME Change \/ ReadName \/ Crash \/ Tick
      PROVE  RowStep
  BY <1>1, <1>k DEF Change, ReadName, Crash, Tick, topicVars, storeVars
<1>2. ASSUME NEW primary \in BOOLEAN, Start(primary)
      PROVE  RowStep
  <2>1. CASE binding.pending # NoHash /\ Failed(binding.pending)
    <3>1. binding' = [binding EXCEPT !.blocked = binding.pending, !.pending = NoHash]
      BY <1>2, <2>1 DEF Start, Repaired
    <3>2. Settles(0, "failed")
      BY <1>2, <1>t, <1>p, <2>1, <3>1 DEF Start, Settles, Bindings
    <3> QED
      BY <1>z, <1>p, <3>2 DEF RowStep
  <2>2. CASE ~ (binding.pending # NoHash /\ Failed(binding.pending))
    BY <1>2, <1>k, <2>2 DEF Start, Repaired
  <2> QED
    BY <2>1, <2>2
<1>3. ASSUME Refresh \/ SkipRefresh \/ Catalogue \/ GroupDone \/ NoSource
      PROVE  RowStep
  BY <1>3, <1>k DEF Refresh, SkipRefresh, Catalogue, GroupDone, NoSource, storeVars
<1>4. ASSUME GroupCall \/ Drift \/ Authorise \/ PassEnds
      PROVE  RowStep
  BY <1>4, <1>k DEF GroupCall, Drift, Authorise, PassEnds, topicVars, storeVars
<1>5. ASSUME ArchiveTask
      PROVE  RowStep
  <2> DEFINE b == [binding EXCEPT !.opted = FALSE]
  <2>1. /\ b \in Bindings /\ b.anchor = binding.anchor /\ b.title = binding.title
        /\ b.shown = binding.shown /\ b.pending = binding.pending
        /\ b.blocked = binding.blocked
    BY <1>t DEF Bindings
  <2> HIDE DEF b
  <2>2. CASE Untracked
    BY <1>5, <1>k, <2>2 DEF ArchiveTask, Archive
  <2>3. CASE ~ Untracked /\ b.anchor = "confirmed" /\ Wanted(b, Archived(b.title))
    <3> DEFINE h == Archived(b.title)
    <3>1. b.title \in Titles /\ h \in Hashes
      BY <1>t, <2>1, <2>3, HashFacts DEF AnchorInv
    <3>2. QueueTitle(b, h) /\ UNCHANGED anchor
      BY <1>5, <2>3 DEF ArchiveTask, Archive, b
    <3>3. /\ binding' \in Bindings /\ binding'.pending = h /\ binding'.anchor = b.anchor
          /\ binding'.title = b.title
      BY <1>p, <2>1, <3>1, <3>2 DEF QueueTitle, Bindings
    <3>4. Queues(h)
      BY <2>1, <2>3, <3>1, <3>2, <3>3 DEF Queues, QueueTitle, Wanted
    <3> QED
      BY <3>1, <3>4 DEF RowStep
  <2>4. CASE ~ Untracked /\ ~ (b.anchor = "confirmed" /\ Wanted(b, Archived(b.title)))
    <3>1. binding' = b /\ UNCHANGED <<anchor, rows>>
      BY <1>5, <2>4 DEF ArchiveTask, Archive, b
    <3> QED
      BY <2>1, <3>1 DEF RowStep, Keeps
  <2> QED
    BY <2>2, <2>3, <2>4
<1>6. ASSUME OptIn
      PROVE  RowStep
  <2>1. PICK t : /\ t = IF SourceTitle = NoTitle THEN FirstTitle ELSE SourceTitle
                 /\ binding' = [NoBinding EXCEPT !.anchor = "pending", !.chat = Chat,
                                  !.opted = TRUE, !.title = t, !.pending = Live(t)]
    BY <1>6 DEF OptIn
  <2>2. t \in Titles /\ Live(t) \in AnyHash
    BY <1>t, <1>p, <2>1, HashFacts, TopicAssumption DEF SourceTitle, CodexTypes
  <2>3. Chat \in {NoChat} \cup Chats
    <3>1. group.chat \in {NoChat} \cup Chats
      BY TopicParts DEF IInv, GroupTypes
    <3> QED
      BY <3>1, GroupAssumption DEF Chat, Target, Chats
  <2>4. NoBinding \in Bindings
    BY <1>p, <2>3 DEF NoBinding, Bindings
  <2>5. Opens
    BY <1>6, <2>1, <2>2, <2>3, <2>4 DEF OptIn, Opens, Bindings
  <2> QED
    BY <2>5 DEF RowStep
<1>7. ASSUME Rebind \/ Reactivate
      PROVE  RowStep
  <2> DEFINE moved == [binding EXCEPT !.epoch = @ + 1]
             open == [binding EXCEPT !.opted = TRUE]
  <2>1. ASSUME NEW b \in {binding, moved, open}
        PROVE  /\ b \in Bindings /\ b.anchor = binding.anchor /\ b.title = binding.title
               /\ b.shown = binding.shown /\ b.pending = binding.pending
               /\ b.blocked = binding.blocked
    <3>1. moved \in Bindings
      <4>1. binding.epoch + 1 \in Nat
        BY <1>t DEF Bindings
      <4> QED
        BY <1>t, <4>1 DEF Bindings
    <3>2. open \in Bindings
      BY <1>t DEF Bindings
    <3> QED
      BY <1>t, <3>1, <3>2 DEF Bindings
  <2>2. binding' \in {binding, moved, open} /\ UNCHANGED <<anchor, rows>>
    <3>1. CASE Rebind
      <4>1. CASE task.moved
        BY <3>1, <4>1 DEF Rebind
      <4>2. CASE ~ task.moved
        BY <3>1, <4>2 DEF Rebind
      <4> QED
        BY <4>1, <4>2
    <3>2. CASE Reactivate
      BY <3>2 DEF Reactivate
    <3> QED
      BY <1>7, <3>1, <3>2
  <2> HIDE DEF moved, open
  <2>3. Keeps
    BY <2>1, <2>2 DEF Keeps
  <2> QED
    BY <2>3 DEF RowStep
<1>8. ASSUME SyncTitle
      PROVE  RowStep
  <2> DEFINE t == SourceTitle
             c == /\ t # NoTitle
                  /\ binding.anchor = "confirmed" /\ Wanted(binding, Live(t))
  <2>1. CASE c
    <3>1. t \in Titles /\ Live(t) \in Hashes
      BY <1>t, <2>1, HashFacts, TopicAssumption DEF SourceTitle, CodexTypes
    <3>2. QueueTitle([binding EXCEPT !.title = t], Live(t)) /\ UNCHANGED anchor
      BY <1>8, <2>1 DEF SyncTitle
    <3>3. /\ binding' \in Bindings /\ binding'.pending = Live(t)
          /\ binding'.anchor = binding.anchor /\ binding'.title = t
      BY <1>p, <1>t, <3>1, <3>2 DEF QueueTitle, Bindings
    <3>4. Queues(Live(t))
      BY <2>1, <3>1, <3>2, <3>3 DEF Queues, QueueTitle
    <3> QED
      BY <3>1, <3>4 DEF RowStep
  <2>2. CASE ~ c
    BY <1>8, <1>k, <2>2 DEF SyncTitle
  <2> QED
    BY <2>1, <2>2
<1>9. ASSUME NEW r \in AllRows, Sweep(r) \/ LeaseRow(r)
      PROVE  RowStep
  BY <1>9, <1>m, <1>p DEF Sweep, LeaseRow
<1>10. ASSUME NEW r \in AllRows, Sending(r)
       PROVE  StateOf(r) = "leased"
  BY <1>10, <1>t DEF Sending, SendInv, At
<1>11. ASSUME RejectAnchor \/ ConfirmAnchor
       PROVE  RowStep
  BY <1>10, <1>11, <1>m, <1>p, <1>z DEF RejectAnchor, ConfirmAnchor
<1>12. ASSUME NEW s \in RowStates, FailAnchor(s)
       PROVE  RowStep
  BY <1>10, <1>12, <1>m, <1>z DEF FailAnchor
<1>13. ASSUME NEW r \in AllRows, RetryRow(r)
       PROVE  RowStep
  BY <1>10, <1>13, <1>m, <1>p DEF RetryRow
<1>14. ASSUME NEW r \in AllRows, Take(r) \/ TitleRaises(r)
       PROVE  RowStep
  BY <1>14, <1>k DEF Take, TitleRaises, storeVars
<1>15. ASSUME BindAnchor
       PROVE  RowStep
  <2>1. Binds
    BY <1>15, <1>p, <1>t DEF BindAnchor, Binds, BindingInv, Bindings, At
  <2> QED
    BY <2>1 DEF RowStep
<1>16. ASSUME NEW r \in AllRows, ConfirmTitle(r) \/ FailTitle(r)
       PROVE  RowStep
  <2>1. r # 0 /\ StateOf(r) = "leased" /\ Expected(r)
    BY <1>10, <1>16 DEF ConfirmTitle, FailTitle
  <2>2. rows[r].hash \in Hashes
    BY <1>t, <2>1, RowHash DEF RowTypes
  <2>3. binding.pending = rows[r].hash /\ binding.pending # NoHash
    BY <2>1, <2>2, HashFacts DEF Expected
  <2>4. CASE ConfirmTitle(r)
    <3>1. Settles(r, "confirmed")
      BY <1>t, <1>p, <2>1, <2>2, <2>3, <2>4 DEF ConfirmTitle, Settles, Bindings
    <3> QED
      BY <1>p, <3>1 DEF RowStep
  <2>5. CASE FailTitle(r)
    <3>1. Settles(r, "failed")
      BY <1>t, <1>p, <2>1, <2>2, <2>3, <2>5 DEF FailTitle, Settles, Bindings
    <3> QED
      BY <1>p, <3>1 DEF RowStep
  <2> QED
    BY <1>16, <2>4, <2>5
<1>17. ASSUME NEW r \in AllRows, Reconcile(r)
       PROVE  RowStep
  BY <1>17, <1>m, <1>p DEF Reconcile
<1> QED
  BY <1>1, <1>2, <1>3, <1>4, <1>5, <1>6, <1>7, <1>8, <1>9, <1>11, <1>12, <1>13, <1>14, <1>15,
     <1>16, <1>17 DEF Next, Loop, Deliver

\* What a write of a row's state leaves of the rows.
LEMMA SetStateIs ==
  ASSUME RowTypes, NEW r \in AllRows, NEW st \in RowStates, SetState(r, st)
  PROVE  /\ RowTypes' /\ Len(rows') = Len(rows)
         /\ r = 0 => rows' = rows /\ anchor' = st
         /\ r # 0 => /\ anchor' = anchor
                     /\ r \in 1 .. Len(rows) /\ rows'[r].state = st
                     /\ rows'[r].hash = rows[r].hash
                     /\ \A i \in 1 .. Len(rows) : i # r => rows'[i] = rows[i]
<1>1. CASE r = 0
  BY <1>1 DEF SetState, RowTypes
<1>2. CASE r # 0
  <2>1. r \in 1 .. Len(rows)
    BY <1>2 DEF AllRows, RowTypes
  <2>2. rows[r] \in TitleRows
    BY <2>1, ElementOfSeq DEF RowTypes
  <2> DEFINE e == [rows[r] EXCEPT !.state = st]
  <2>3. e \in TitleRows /\ e.state = st /\ e.hash = rows[r].hash
    BY <2>2 DEF TitleRows
  <2>4. rows' = [rows EXCEPT ![r] = e] /\ anchor' = anchor
    BY <1>2 DEF SetState
  <2> HIDE DEF e
  <2>5. /\ rows' \in Seq(TitleRows) /\ Len(rows') = Len(rows)
        /\ \A i \in 1 .. Len(rows) : rows'[i] = IF i = r THEN e ELSE rows[i]
    BY <2>1, <2>3, <2>4, ExceptSeq DEF RowTypes
  <2> QED
    BY <1>2, <2>1, <2>3, <2>4, <2>5 DEF RowTypes
<1> QED
  BY <1>1, <1>2

\* A queued title is the last row, and keeps the types.
LEMMA AppendIs ==
  ASSUME RowTypes, NEW h \in Hashes, UNCHANGED anchor,
         rows' = Append(rows, [hash |-> h, state |-> "pending"])
  PROVE  /\ RowTypes' /\ Len(rows') = Len(rows) + 1
         /\ rows'[Len(rows')].hash = h
<1> DEFINE e == [hash |-> h, state |-> "pending"]
<1>1. e \in TitleRows /\ e.hash = h
  BY DEF TitleRows, RowStates
<1> HIDE DEF e
<1>2. rows' = Append(rows, e)
  BY DEF e
<1> QED
  BY <1>1, <1>2, AppendProperties DEF RowTypes

\* Every step keeps the types of the rows and of the binding.
LEMMA RowTypesStep ==
  ASSUME RowTypes, binding \in Bindings, RowStep
  PROVE  RowTypes' /\ binding' \in Bindings
<1>1. ASSUME Keeps \/ Opens \/ Binds
      PROVE  RowTypes' /\ binding' \in Bindings
  BY <1>1 DEF Keeps, Opens, Binds, RowTypes, RowStates
<1>2. ASSUME NEW r \in AllRows, NEW st \in RowStates, Moves(r, st)
      PROVE  RowTypes' /\ binding' \in Bindings
  BY <1>2, SetStateIs DEF Moves
<1>3. ASSUME NEW h \in Hashes, Queues(h)
      PROVE  RowTypes' /\ binding' \in Bindings
  BY <1>3, AppendIs DEF Queues
<1>4. ASSUME NEW r \in AllRows, NEW st \in RowStates, Settles(r, st)
      PROVE  RowTypes' /\ binding' \in Bindings
  BY <1>4, SetStateIs DEF Settles, RowTypes
<1> QED
  BY <1>1, <1>2, <1>3, <1>4 DEF RowStep

\* Every step keeps what is known of the anchor.
LEMMA AnchorStep ==
  ASSUME RowTypes, AnchorInv, RowStep
  PROVE  AnchorInv'
<1>1. ASSUME Keeps \/ Opens \/ Binds
      PROVE  AnchorInv'
  BY <1>1 DEF Keeps, Opens, Binds, AnchorInv
<1>2. ASSUME NEW r \in AllRows, NEW st \in RowStates, SetState(r, st),
             StateOf(r) \in {"pending", "leased", "unknown"},
             binding'.anchor = binding.anchor, binding'.title = binding.title
      PROVE  AnchorInv'
  <2>1. CASE r = 0
    BY <1>2, <2>1, SetStateIs DEF StateOf, AnchorInv
  <2>2. CASE r # 0
    <3>1. binding.anchor = "confirmed"
      BY <1>2, <2>2 DEF AnchorInv, AllRows
    <3> QED
      BY <1>2, <2>2, <3>1, SetStateIs DEF AnchorInv
  <2> QED
    BY <2>1, <2>2
<1>3. ASSUME NEW r \in AllRows, NEW st \in RowStates, Moves(r, st)
      PROVE  AnchorInv'
  BY <1>2, <1>3 DEF Moves
<1>4. ASSUME NEW h \in Hashes, Queues(h)
      PROVE  AnchorInv'
  BY <1>4 DEF Queues, AnchorInv
<1>5. ASSUME NEW r \in AllRows, NEW st \in RowStates, Settles(r, st)
      PROVE  AnchorInv'
  <2>1. CASE UNCHANGED <<anchor, rows>>
    BY <1>5, <2>1 DEF Settles, AnchorInv
  <2>2. CASE ~ UNCHANGED <<anchor, rows>>
    BY <1>2, <1>5, <2>2 DEF Settles
  <2> QED
    BY <2>1, <2>2
<1> QED
  BY <1>1, <1>3, <1>4, <1>5 DEF RowStep

\* The newest title is confirmed, awaited, or the last one shown or refused.
LEMMA TitleStep ==
  ASSUME RowTypes, AnchorInv, TitleInv, RowStep
  PROVE  TitleInv'
<1> DEFINE n == Len(rows)
<1>n. rows # << >> => n \in 1 .. n /\ rows[n] \in TitleRows /\ rows[n].hash # NoHash
  <2>1. rows # << >> => n \in 1 .. n
    BY EmptySeq DEF RowTypes
  <2>2. rows # << >> => rows[n] \in TitleRows
    BY <2>1, ElementOfSeq DEF RowTypes
  <2> QED
    BY <2>1, <2>2, HashFacts DEF TitleRows
<1>1. ASSUME Opens \/ Binds
      PROVE  TitleInv'
  BY <1>1 DEF Opens, Binds, AnchorInv, TitleInv
<1>2. ASSUME Keeps
      PROVE  TitleInv'
  BY <1>2 DEF Keeps, TitleInv
<1>3. ASSUME NEW h \in Hashes, Queues(h)
      PROVE  TitleInv'
  BY <1>3, AppendIs DEF Queues, TitleInv
<1>4. ASSUME NEW r \in AllRows, NEW st \in RowStates, SetState(r, st),
             StateOf(r) # "confirmed", rows' # << >>
      PROVE  /\ rows # << >> /\ Len(rows') = n /\ rows'[n].hash = rows[n].hash
             /\ rows[n].state = "confirmed" => rows'[n].state = "confirmed"
  <2>1. rows # << >> /\ Len(rows') = n
    BY <1>4, SetStateIs, EmptySeq DEF RowTypes
  <2>2. CASE r = n
    <3>1. r # 0
      BY <1>n, <2>1, <2>2
    <3> QED
      BY <1>4, <2>1, <2>2, <3>1, SetStateIs DEF StateOf
  <2>3. CASE r # n
    BY <1>4, <1>n, <2>1, <2>3, SetStateIs
  <2> QED
    BY <2>1, <2>2, <2>3
<1>5. ASSUME NEW r \in AllRows, NEW st \in RowStates, Moves(r, st)
      PROVE  TitleInv'
  BY <1>4, <1>5 DEF Moves, TitleInv
<1>6. ASSUME NEW r \in AllRows, NEW st \in RowStates, Settles(r, st), rows' # << >>
      PROVE  /\ rows # << >> /\ Len(rows') = n /\ rows'[n].hash = rows[n].hash
             /\ rows[n].state = "confirmed" => rows'[n].state = "confirmed"
  BY <1>4, <1>6 DEF Settles
<1>7. ASSUME NEW r \in AllRows, NEW st \in RowStates, Settles(r, st)
      PROVE  TitleInv'
  BY <1>6, <1>7 DEF Settles, TitleInv
<1> QED
  BY <1>1, <1>2, <1>3, <1>5, <1>7 DEF RowStep
-----------------------------------------------------------------------------
(***************************************************************************)
(* The thread that sends: its row, and the anchor it has just confirmed.   *)
(***************************************************************************)
SendStep ==
  \/ main'.pc \notin {"send", "anchored"}
  \/ /\ main'.pc = main.pc /\ main'.row = main.row
     /\ UNCHANGED <<binding, anchor, rows>>
  \/ main'.pc = "send" /\ \E r \in AllRows : main'.row = r /\ SetState(r, "leased")
  \/ /\ main'.pc = "anchored" /\ At("send") /\ main.row = 0
     /\ anchor' = "confirmed" /\ UNCHANGED binding

\* Every step does to what is being sent one of these things, or nothing.
LEMMA SendSteps ==
  ASSUME main \in TopicMains, RowTypes, Next
  PROVE  SendStep
<1> USE DEF SendStep
<1>0. ASSUME NEW pc \in PCs \ {"send", "anchored"}, GoTo(pc)
      PROVE  SendStep
  BY <1>0 DEF GoTo
<1>p. /\ "down" \in PCs \ {"send", "anchored"} /\ "top" \in PCs \ {"send", "anchored"}
      /\ "catalogue" \in PCs \ {"send", "anchored"} /\ "bind" \in PCs \ {"send", "anchored"}
      /\ "archive" \in PCs \ {"send", "anchored"} /\ "group" \in PCs \ {"send", "anchored"}
      /\ "drain" \in PCs \ {"send", "anchored"} /\ "title" \in PCs \ {"send", "anchored"}
      /\ "reactivate" \in PCs \ {"send", "anchored"}
      /\ "authorise" \in PCs \ {"send", "anchored"}
  BY DEF PCs
<1>1. ASSUME Change \/ ReadName \/ Tick \/ GroupCall
      PROVE  SendStep
  BY <1>1 DEF Change, ReadName, Tick, GroupCall, topicVars, storeVars
<1>2. ASSUME Crash \/ \E primary \in BOOLEAN : Start(primary)
      PROVE  SendStep
  BY <1>0, <1>2, <1>p DEF Crash, Down, Start
<1>3. ASSUME Refresh \/ ArchiveTask \/ SkipRefresh \/ Catalogue \/ GroupDone \/ NoSource
      PROVE  SendStep
  BY <1>0, <1>3, <1>p DEF Refresh, ArchiveTask, SkipRefresh, Catalogue, GroupDone, NoSource
<1>4. ASSUME OptIn \/ Drift \/ Rebind \/ Reactivate \/ SyncTitle \/ Authorise \/ PassEnds
      PROVE  SendStep
  BY <1>0, <1>4, <1>p DEF OptIn, Drift, Rebind, Reactivate, SyncTitle, Authorise, PassEnds
<1>5. ASSUME NEW r \in AllRows, LeaseRow(r)
      PROVE  SendStep
  BY <1>5 DEF LeaseRow
<1>6. ASSUME NEW r \in AllRows, Take(r)
      PROVE  SendStep
  <2>1. main'.pc = main.pc /\ main'.row = main.row
    BY <1>6 DEF Take, TopicMains
  <2> QED
    BY <1>6, <2>1 DEF Take, storeVars
<1>7. ASSUME NEW r \in AllRows, RetryRow(r) \/ ConfirmTitle(r) \/ FailTitle(r)
                                  \/ TitleRaises(r)
      PROVE  SendStep
  BY <1>0, <1>7, <1>p DEF RetryRow, ConfirmTitle, FailTitle, TitleRaises, Down
<1>8. ASSUME NEW r \in AllRows, Sweep(r) \/ Reconcile(r)
      PROVE  SendStep
  BY <1>8 DEF Sweep, Reconcile, At
<1>9. ASSUME RejectAnchor \/ BindAnchor \/ \E s \in RowStates : FailAnchor(s)
      PROVE  SendStep
  BY <1>0, <1>9, <1>p DEF RejectAnchor, BindAnchor, FailAnchor
<1>10. ASSUME ConfirmAnchor
       PROVE  SendStep
  BY <1>10 DEF ConfirmAnchor, GoTo, Sending, SetState
<1> QED
  BY <1>1, <1>2, <1>3, <1>4, <1>5, <1>6, <1>7, <1>8, <1>9, <1>10 DEF Next, Loop, Deliver

\* Every step keeps what is known of the binding and of what is being sent.
LEMMA SendInvStep ==
  ASSUME RowTypes, AnchorInv, binding \in Bindings, BindingInv, SendInv, SendStep
  PROVE  BindingInv' /\ SendInv'
<1> USE DEF BindingInv, SendInv, At
<1>1. CASE main'.pc \notin {"send", "anchored"}
  BY <1>1
<1>2. CASE main'.pc = main.pc /\ main'.row = main.row /\ UNCHANGED <<binding, anchor, rows>>
  BY <1>2 DEF StateOf, AllRows
<1>3. ASSUME NEW r \in AllRows, main'.pc = "send", main'.row = r, SetState(r, "leased")
      PROVE  BindingInv' /\ SendInv'
  <2>1. "leased" \in RowStates
    BY DEF RowStates
  <2>2. r \in AllRows' /\ StateOf(r)' = "leased"
    BY <1>3, <2>1, SetStateIs DEF AllRows, StateOf
  <2> QED
    BY <1>3, <2>2 DEF StateOf
<1>4. CASE /\ main'.pc = "anchored" /\ At("send") /\ main.row = 0
           /\ anchor' = "confirmed" /\ UNCHANGED binding
  <2>1. anchor = "leased"
    BY <1>4 DEF StateOf
  <2>2. binding.anchor = "pending"
    BY <2>1 DEF AnchorInv, Bindings
  <2> QED
    BY <1>4, <2>2
<1> QED
  BY <1>1, <1>2, <1>3, <1>4 DEF SendStep
-----------------------------------------------------------------------------
(***************************************************************************)
(* What is known of Codex, the counters and the grant.                     *)
(***************************************************************************)
LEMMA CodexTypesStep ==
  ASSUME TypeOK, Next
  PROVE  CodexTypes'
<1> DEFINE Tasks == [name : Titles, archived : BOOLEAN, moved : BOOLEAN]
           Caches == [title : Titles \cup {NoTitle}, tried : BOOLEAN]
           Seen == [archived : BOOLEAN, automatic : BOOLEAN]
<1>t. /\ task \in Tasks /\ names \in Caches /\ root \in AnyHash /\ seen \in Seen
      /\ rows \in Seq(TitleRows) /\ binding \in Bindings
  BY TopicParts DEF CodexTypes, RowTypes
<1>q. ASSUME task' \in Tasks, names' \in Caches, root' \in AnyHash, seen' \in Seen
      PROVE  CodexTypes'
  BY <1>q DEF CodexTypes
<1>f. [title |-> NoTitle, tried |-> FALSE] \in Caches
  OBVIOUS
<1>g. [archived |-> FALSE, automatic |-> FALSE] \in Seen
  OBVIOUS
<1>a. \A b \in BOOLEAN : /\ [seen EXCEPT !.automatic = b] \in Seen
                         /\ [seen EXCEPT !.archived = b] \in Seen
  BY <1>t
<1>h. task.archived \in BOOLEAN /\ task.name \in Titles
  BY <1>t
<1>m. [task EXCEPT !.moved = FALSE] \in Tasks
  BY <1>t
<1>1. ASSUME Change
      PROVE  CodexTypes'
  <2>1. task' \in Tasks
    BY <1>1, <1>t DEF Change
  <2> QED
    BY <1>1, <1>q, <1>t, <2>1 DEF Change
<1>2. ASSUME ReadName
      PROVE  CodexTypes'
  <2>1. names' \in Caches
    <3>1. [title |-> task.name, tried |-> TRUE] \in Caches
      BY <1>h
    <3>2. [names EXCEPT !.tried = TRUE] \in Caches
      BY <1>t
    <3> QED
      BY <1>2, <3>1, <3>2 DEF ReadName
  <2> QED
    BY <1>2, <1>q, <1>t, <2>1 DEF ReadName
<1> HIDE DEF Tasks, Caches, Seen
<1>3. ASSUME Crash
      PROVE  CodexTypes'
  BY <1>3, <1>f, <1>g, <1>q, <1>t DEF Crash, Down
<1>4. ASSUME NEW primary \in BOOLEAN, Start(primary)
      PROVE  CodexTypes'
  BY <1>4, <1>q, <1>t DEF Start
<1>5. ASSUME Refresh \/ SkipRefresh \/ Catalogue \/ GroupDone
      PROVE  CodexTypes'
  <2>1. seen' \in Seen
    <3>1. CASE Refresh
      BY <1>a, <1>h, <3>1 DEF Refresh
    <3>2. CASE SkipRefresh
      BY <1>a, <1>t, <3>2 DEF SkipRefresh
    <3>3. CASE Catalogue
      <4>1. seen' = seen \/ \E b \in BOOLEAN : seen' = [seen EXCEPT !.automatic = b]
        BY <3>3 DEF Catalogue
      <4> QED
        BY <1>a, <1>t, <4>1
    <3>4. CASE GroupDone
      BY <1>a, <3>4 DEF GroupDone
    <3> QED
      BY <1>5, <3>1, <3>2, <3>3, <3>4
  <2> QED
    BY <1>5, <1>q, <1>t, <2>1 DEF Refresh, SkipRefresh, Catalogue, GroupDone
<1>6. ASSUME OptIn \/ Rebind
      PROVE  CodexTypes'
  BY <1>6, <1>m, <1>q, <1>t DEF OptIn, Rebind
<1>7. ASSUME ArchiveTask \/ NoSource \/ Drift \/ Reactivate \/ SyncTitle \/ Authorise
      PROVE  CodexTypes'
  BY <1>7, <1>q, <1>t DEF ArchiveTask, NoSource, Drift, Reactivate, SyncTitle, Authorise
<1>8. ASSUME GroupCall \/ Tick \/ PassEnds
      PROVE  CodexTypes'
  BY <1>8, <1>q, <1>t DEF GroupCall, Tick, PassEnds, topicVars
<1>9. ASSUME NEW r \in AllRows, LeaseRow(r) \/ RetryRow(r) \/ ConfirmTitle(r) \/ FailTitle(r)
                                  \/ Sweep(r) \/ Reconcile(r)
      PROVE  CodexTypes'
  BY <1>9, <1>q, <1>t DEF LeaseRow, RetryRow, ConfirmTitle, FailTitle, Sweep, Reconcile
<1>10. ASSUME NEW r \in AllRows, TitleRaises(r)
       PROVE  CodexTypes'
  BY <1>10, <1>f, <1>g, <1>q, <1>t DEF TitleRaises, Down
<1>11. ASSUME RejectAnchor \/ ConfirmAnchor \/ BindAnchor \/ \E s \in RowStates : FailAnchor(s)
       PROVE  CodexTypes'
  BY <1>11, <1>q, <1>t DEF RejectAnchor, ConfirmAnchor, BindAnchor, FailAnchor
<1>12. ASSUME NEW r \in AllRows, Take(r)
       PROVE  CodexTypes'
  <2>1. CASE r = 0
    <3>1. Live(binding.title) \in AnyHash
      <4>1. binding.title \in Titles \/ Live(binding.title) = NoHash
        BY <1>t DEF Live, NoHash, Bindings
      <4> QED
        BY <4>1, HashFacts DEF AnyHash
    <3> QED
      BY <1>12, <1>q, <1>t, <2>1, <3>1 DEF Take
  <2>2. CASE r # 0
    <3>1. rows[r].hash \in AnyHash
      BY <1>t, <2>2, RowHash DEF AnyHash
    <3> QED
      BY <1>12, <1>q, <1>t, <2>2, <3>1 DEF Take
  <2> QED
    BY <2>1, <2>2
<1> QED
  BY <1>1, <1>2, <1>3, <1>4, <1>5, <1>6, <1>7, <1>8, <1>9, <1>10, <1>11, <1>12
     DEF Next, Loop, Deliver

\* The grant stays that of the process that lives.
LEMMA GrantStep ==
  ASSUME TypeOK, GrantInv, Next
  PROVE  CountTypes' /\ GrantInv'
<1>t. /\ grant \in Grants /\ fence \in Nat /\ starts \in Nat /\ changes \in Nat
      /\ granter \in Nat /\ binding \in Bindings
  BY TopicParts DEF CountTypes
<1>k. ASSUME grant' \in Grants, grant'.state = "active" => grant' = grant,
             fence' \in Nat, changes' \in Nat, UNCHANGED <<starts, granter>>
      PROVE  CountTypes' /\ GrantInv'
  BY <1>k, <1>t DEF CountTypes, GrantInv
<1>u. ASSUME UNCHANGED <<grant, fence, changes, starts, granter>>
      PROVE  CountTypes' /\ GrantInv'
  BY <1>k, <1>t, <1>u
<1>e. ASSUME NEW st \in {"revoked", "drifted"}
      PROVE  [grant EXCEPT !.state = st] \in Grants /\ [grant EXCEPT !.state = st].state # "active"
  BY <1>t DEF Grants
<1>1. ASSUME Change
      PROVE  CountTypes' /\ GrantInv'
  BY <1>1, <1>k, <1>t DEF Change, storeVars
<1>2. ASSUME ReadName \/ Crash \/ Tick \/ GroupCall
      PROVE  CountTypes' /\ GrantInv'
  BY <1>2, <1>u DEF ReadName, Crash, Tick, GroupCall, topicVars, storeVars
<1>3. ASSUME NEW primary \in BOOLEAN, Start(primary)
      PROVE  CountTypes' /\ GrantInv'
  <2>1. grant' \in Grants /\ grant'.state # "active"
    BY <1>3, <1>e, <1>t DEF Start, TakeFence
  <2>2. /\ fence' \in Nat /\ starts' \in Nat /\ changes' \in Nat /\ granter' \in Nat
    BY <1>3, <1>t DEF Start, TakeFence
  <2> QED
    BY <2>1, <2>2 DEF CountTypes, GrantInv
<1>4. ASSUME Refresh \/ SkipRefresh \/ Catalogue \/ GroupDone \/ NoSource
      PROVE  CountTypes' /\ GrantInv'
  BY <1>4, <1>u DEF Refresh, SkipRefresh, Catalogue, GroupDone, NoSource, storeVars
<1>5. ASSUME OptIn \/ Rebind \/ Reactivate \/ SyncTitle \/ PassEnds
      PROVE  CountTypes' /\ GrantInv'
  BY <1>5, <1>u DEF OptIn, Rebind, Reactivate, SyncTitle, PassEnds, storeVars
<1>6. ASSUME ArchiveTask \/ Drift
      PROVE  CountTypes' /\ GrantInv'
  <2>1. \/ grant' = grant \/ \E st \in {"revoked", "drifted"} : grant' = [grant EXCEPT !.state = st]
    BY <1>6 DEF ArchiveTask, Archive, Revoked, Drift
  <2>2. UNCHANGED <<fence, changes, starts, granter>>
    BY <1>6 DEF ArchiveTask, Drift
  <2> QED
    BY <1>e, <1>k, <1>t, <2>1, <2>2
<1>7. ASSUME Authorise
      PROVE  CountTypes' /\ GrantInv'
  <2>1. binding.epoch \in Nat
    BY <1>t DEF Bindings
  <2>2. grant' \in Grants
    BY <1>7, <1>t, <2>1 DEF Authorise, Grants
  <2> QED
    BY <1>7, <1>t, <2>2 DEF Authorise, CountTypes, GrantInv
<1>8. ASSUME NEW r \in AllRows, LeaseRow(r) \/ Take(r) \/ RetryRow(r) \/ ConfirmTitle(r)
                                  \/ FailTitle(r) \/ TitleRaises(r) \/ Sweep(r) \/ Reconcile(r)
      PROVE  CountTypes' /\ GrantInv'
  BY <1>8, <1>u DEF LeaseRow, Take, RetryRow, ConfirmTitle, FailTitle, TitleRaises, Sweep,
     Reconcile, storeVars
<1>9. ASSUME RejectAnchor \/ ConfirmAnchor \/ BindAnchor \/ \E s \in RowStates : FailAnchor(s)
      PROVE  CountTypes' /\ GrantInv'
  BY <1>9, <1>u DEF RejectAnchor, ConfirmAnchor, BindAnchor, FailAnchor
<1> QED
  BY <1>1, <1>2, <1>3, <1>4, <1>5, <1>6, <1>7, <1>8, <1>9 DEF Next, Loop, Deliver
-----------------------------------------------------------------------------
(***************************************************************************)
(* The archive.                                                            *)
(***************************************************************************)
Following == {"reactivate", "title", "authorise"}

\* The pass that saw the archive does not open the task again.
LEMMA ArchiveStep ==
  ASSUME TypeOK, ArchiveInv, BindingInv, Next
  PROVE  ArchiveInv'
<1> USE DEF At, ArchiveInv
<1>t. binding \in Bindings /\ seen \in [archived : BOOLEAN, automatic : BOOLEAN]
  BY TopicParts DEF CodexTypes
<1>a. \A b \in BOOLEAN : /\ [seen EXCEPT !.automatic = b].archived = seen.archived
                         /\ [seen EXCEPT !.archived = b].archived = b
  BY <1>t
\* A step that leaves the archive, the source and the binding as they are.
<1>k. ASSUME seen'.archived = seen.archived, UNCHANGED binding,
             main' = main \/ (~ At("archive") /\ main'.pc \notin Following)
      PROVE  ArchiveInv'
  BY <1>k DEF Following
\* One after which nothing is archived.
<1>n. ASSUME ~ seen'.archived
      PROVE  ArchiveInv'
  BY <1>n
<1>1. ASSUME Change \/ ReadName \/ Tick \/ GroupCall
      PROVE  ArchiveInv'
  BY <1>1, <1>k DEF Change, ReadName, Tick, GroupCall, topicVars, storeVars
<1>2. ASSUME Crash \/ \E r \in AllRows : TitleRaises(r)
      PROVE  ArchiveInv'
  BY <1>2, <1>n DEF Crash, TitleRaises, Down
<1>3. ASSUME NEW primary \in BOOLEAN, Start(primary)
      PROVE  ArchiveInv'
  <2>1. binding'.anchor = binding.anchor /\ binding'.opted = binding.opted
    BY <1>3, <1>t DEF Start, Repaired, Bindings
  <2> QED
    BY <1>3, <2>1 DEF Start, Running, GoTo
<1>4. ASSUME Refresh
      PROVE  ArchiveInv'
  BY <1>4, <1>t DEF Refresh, GoTo
<1>5. ASSUME ArchiveTask
      PROVE  ArchiveInv'
  <2>1. CASE Untracked
    BY <1>5, <2>1 DEF ArchiveTask, Archive, Untracked, GoTo
  <2>2. CASE ~ Untracked
    <3> DEFINE b == [binding EXCEPT !.opted = FALSE]
    <3>1. b \in Bindings /\ ~ b.opted
      BY <1>t DEF Bindings
    <3>2. \/ binding' = b
          \/ \E h : binding' = [b EXCEPT !.pending = h, !.blocked = NoHash]
      BY <1>5, <2>2 DEF ArchiveTask, Archive, QueueTitle
    <3> HIDE DEF b
    <3>3. ~ binding'.opted
      BY <3>1, <3>2 DEF Bindings
    <3> QED
      BY <1>5, <3>3 DEF ArchiveTask, GoTo
  <2> QED
    BY <2>1, <2>2
<1>6. ASSUME SkipRefresh \/ Catalogue \/ GroupDone
      PROVE  ArchiveInv'
  <2>1. seen'.archived = seen.archived
    <3>1. seen' = seen \/ \E b \in BOOLEAN : seen' = [seen EXCEPT !.automatic = b]
      BY <1>6 DEF SkipRefresh, Catalogue, GroupDone
    <3> QED
      BY <1>a, <3>1
  <2> QED
    BY <1>6, <1>k, <2>1 DEF SkipRefresh, Catalogue, GroupDone, GoTo, Following, storeVars
<1>7. ASSUME OptIn \/ Rebind
      PROVE  ArchiveInv'
  BY <1>7, <1>n DEF OptIn, Rebind, Found
<1>8. ASSUME Reactivate \/ SyncTitle \/ Authorise
      PROVE  ArchiveInv'
  BY <1>8, <1>n DEF Reactivate, SyncTitle, Authorise
<1>9. ASSUME NoSource \/ Drift \/ PassEnds
      PROVE  ArchiveInv'
  BY <1>9, <1>k DEF NoSource, Drift, PassEnds, GoTo, Following, storeVars
<1>10. ASSUME NEW r \in AllRows, LeaseRow(r) \/ RetryRow(r) \/ Sweep(r) \/ Reconcile(r)
       PROVE  ArchiveInv'
  BY <1>10, <1>k DEF LeaseRow, RetryRow, Sweep, Reconcile, Sending, GoTo, Following
<1>11. ASSUME NEW r \in AllRows, Take(r)
       PROVE  ArchiveInv'
  <2>1. main'.pc = "send"
    BY <1>11, TopicParts DEF Take, Sending, TopicMains
  <2> QED
    BY <1>11, <1>k, <2>1 DEF Take, Sending, Following, storeVars
<1>12. ASSUME NEW r \in AllRows, ConfirmTitle(r) \/ FailTitle(r)
       PROVE  ArchiveInv'
  <2>1. binding'.anchor = binding.anchor /\ binding'.opted = binding.opted
    BY <1>12, <1>t DEF ConfirmTitle, FailTitle, Bindings
  <2> QED
    BY <1>12, <2>1 DEF ConfirmTitle, FailTitle, Sending, GoTo
<1>13. ASSUME RejectAnchor \/ ConfirmAnchor \/ \E s \in RowStates : FailAnchor(s)
       PROVE  ArchiveInv'
  BY <1>13, <1>k DEF RejectAnchor, ConfirmAnchor, FailAnchor, Sending, GoTo, Following
<1>14. ASSUME BindAnchor
       PROVE  ArchiveInv'
  <2>1. binding'.opted = binding.opted
    BY <1>14, <1>t DEF BindAnchor, Bindings
  <2>2. binding.anchor = "pending"
    BY <1>14 DEF BindAnchor, BindingInv
  <2> QED
    BY <1>14, <2>1, <2>2 DEF BindAnchor, GoTo
<1> QED
  BY <1>1, <1>2, <1>3, <1>4, <1>5, <1>6, <1>7, <1>8, <1>9, <1>10, <1>11, <1>12, <1>13,
     <1>14 DEF Next, Loop, Deliver
-----------------------------------------------------------------------------

\* The invariant holds at first.
LEMMA InitIInv == Init => IInv
<1> SUFFICES ASSUME Init PROVE IInv
  OBVIOUS
<1> USE GroupAssumption, TopicAssumption DEF Init, GroupInit
<1>1. GroupTypes /\ GroupInv
  <2>1. /\ group \in [state : GroupStates, chat : {NoChat} \cup Chats, age : 0 .. Window]
        /\ memory \in [chat : {NoChat} \cup Chats, age : 0 .. ProviderWindow]
        /\ held \in BOOLEAN /\ made \in 0 .. MaxChats
    <3>1. 0 \in 0 .. Window /\ 0 \in 0 .. ProviderWindow /\ 0 \in 0 .. MaxChats
      OBVIOUS
    <3>2. "none" \in GroupStates
      BY DEF GroupStates
    <3> QED
      BY <3>1, <3>2 DEF Nothing
  <2>2. call \in [to : {"none", "create_chat", "preflight_chat"}, chat : {NoChat} \cup Chats,
                  late : BOOLEAN]
    BY DEF NoCall
  <2>3. GroupInv
    BY DEF NoCall, Nothing, GroupInv, CallInv, MemoryInv, Unmade, OneGroupPerProject
  <2> QED
    BY <2>1, <2>2, <2>3 DEF GroupTypes
<1>2. CodexTypes /\ CountTypes
  BY DEF CodexTypes, CountTypes, Grants, AnyHash
<1>3. RowTypes
  BY EmptySeq DEF RowTypes
<1>4. binding \in Bindings
  BY DEF NoBinding, Bindings, AnyHash, NoChat, Chats
<1>5. main \in TopicMains
  BY DEF TopicMains, PCs
<1>6. AnchorInv /\ BindingInv /\ SendInv /\ TitleInv
  BY DEF AnchorInv, BindingInv, SendInv, TitleInv, NoBinding, At
<1>7. GrantInv /\ ArchiveInv
  BY DEF GrantInv, ArchiveInv, At
<1> QED
  BY <1>1, <1>2, <1>3, <1>4, <1>5, <1>6, <1>7, TopicParts DEF IInv

\* Every step keeps it.
LEMMA NextIInv == IInv /\ [Next]_vars => IInv'
<1> SUFFICES ASSUME IInv, [Next]_vars PROVE IInv'
  OBVIOUS
<1>t. /\ GroupTypes /\ CodexTypes /\ CountTypes /\ RowTypes
      /\ binding \in Bindings /\ main \in TopicMains
  BY TopicParts DEF IInv
<1>1. CASE Next
  <2>1. GroupStep
    BY <1>1, GroupSteps DEF IInv, GroupInv
  <2>2. GroupTypes' /\ GroupInv'
    BY <1>t, <2>1, GroupTypesStep, GroupInvStep DEF IInv
  <2>3. RowStep /\ SendStep
    BY <1>1, <1>t, RowSteps, SendSteps
  <2>4. RowTypes' /\ (binding \in Bindings)'
    BY <1>t, <2>3, RowTypesStep
  <2>5. AnchorInv' /\ TitleInv'
    BY <1>t, <2>3, AnchorStep, TitleStep DEF IInv
  <2>6. BindingInv' /\ SendInv'
    BY <1>t, <2>3, SendInvStep DEF IInv
  <2>7. (main \in TopicMains)'
    BY <1>1, <1>t, MainTypeStep DEF RowTypes
  <2>8. CodexTypes' /\ CountTypes' /\ GrantInv' /\ ArchiveInv'
    BY <1>1, CodexTypesStep, GrantStep, ArchiveStep DEF IInv
  <2>9. TypeOK'
    BY <2>2, <2>4, <2>7, <2>8, TopicParts, PTL
  <2> QED
    BY <2>2, <2>5, <2>6, <2>8, <2>9 DEF IInv
<1>2. CASE UNCHANGED vars
  <2>1. GroupTypes' /\ GroupInv'
    BY <1>2, <1>t, GroupTypesStep, GroupInvStep DEF IInv, GroupStep, vars, groupVars, topicVars
  <2>2. /\ CodexTypes' /\ CountTypes' /\ RowTypes'
        /\ (binding \in Bindings)' /\ (main \in TopicMains)'
    BY <1>2, <1>t DEF CodexTypes, CountTypes, RowTypes, vars, topicVars, storeVars
  <2>3. TypeOK'
    BY <2>1, <2>2, TopicParts, PTL
  <2>4. /\ AnchorInv' /\ BindingInv' /\ SendInv' /\ TitleInv'
        /\ GrantInv' /\ ArchiveInv'
    BY <1>2 DEF IInv, AnchorInv, BindingInv, SendInv, TitleInv, GrantInv, ArchiveInv, At,
       StateOf, AllRows, vars, topicVars, storeVars
  <2> QED
    BY <2>1, <2>3, <2>4 DEF IInv
<1> QED
  BY <1>1, <1>2

\* The invariant holds.
LEMMA Inductive == Spec => []IInv
BY InitIInv, NextIInv, PTL DEF Spec

\* The group, the binding, the grant, the outbox rows of the topic and the place of the
\* main thread are well formed in every reachable state, for any titles, windows and bounds.
THEOREM TypeCorrect == Spec => []TypeOK
BY Inductive, PTL DEF IInv

\* ensure and register_existing: whatever answers are lost, however late a call ends and
\* wherever the process dies, the provider makes one group for the project at most, for
\* every window of the bridge that is shorter than the provider's.
THEOREM OneGroup == Spec => []OneGroupPerProject
BY Inductive, PTL DEF IInv, GroupInv

\* A message is handed over only under a grant of this start, as the invariant says of the grant.
LEMMA AuthorisedFollows == IInv => AuthorisedByThisStart
BY DEF IInv, GrantInv, AuthorisedByThisStart, Dispatchable

\* An archived task is closed, as the invariant says of the pass.
LEMMA ClosedFollows == IInv => ArchivedIsClosed
BY DEF IInv, ArchiveInv, ArchivedIsClosed, Dispatchable

\* _acquire_service_fence and _authorize_remote_task: a message of the topic reaches Codex
\* only under a grant that this start of the service gave, for any number of starts.
THEOREM GrantsOfThisStart == Spec => []AuthorisedByThisStart
BY Inductive, AuthorisedFollows, PTL

\* archive and the pass of the main loop: a task that was worked off as archived is closed
\* until a pass sees it active, whatever becomes of its anchor, its titles, its directory.
THEOREM ClosedWhileArchived == Spec => []ArchivedIsClosed
BY Inductive, ClosedFollows, PTL

\* A title queued after one that failed is another.
LEMMA LoopStep ==
  ASSUME RowTypes, TitleInv, RowStep,
         Len(rows) \in 1 .. Len(rows') - 1, rows[Len(rows)].state = "failed"
  PROVE  rows'[Len(rows')].hash # rows[Len(rows)].hash
<1> DEFINE last == rows[Len(rows)]
<1>1. rows # << >> /\ last \in TitleRows
  BY EmptySeq, ElementOfSeq DEF RowTypes
<1>2. last.hash \in Hashes /\ last.hash # NoHash
  BY <1>1, HashFacts DEF TitleRows
<1>3. \/ binding.pending = last.hash
      \/ binding.pending = NoHash /\ last.hash \in {binding.shown, binding.blocked}
  BY <1>1 DEF TitleInv
<1>4. ASSUME NEW r \in AllRows, NEW st \in RowStates, SetState(r, st)
      PROVE  FALSE
  BY <1>4, SetStateIs DEF RowTypes
<1>5. PICK h \in Hashes : Queues(h)
  BY <1>4 DEF RowStep, Keeps, Opens, Binds, Moves, Settles, RowTypes
<1>6. rows'[Len(rows')].hash = h
  BY <1>5, AppendIs DEF Queues
<1> QED
  BY <1>2, <1>3, <1>5, <1>6 DEF Queues, Wanted

\* enqueue of a title in archive and sync_title: after a title that the provider refused the
\* next one queued is another, however the task is renamed, archived and restored and
\* whatever the reconciler and a new start do to the row in between.
THEOREM RejectedNotRetried == Spec => NoRetryLoop
<1>1. IInv /\ [Next]_vars =>
        [LET last == rows[Len(rows)] IN
         Len(rows) \in 1 .. Len(rows') - 1 /\ last.state = "failed"
           => rows'[Len(rows')].hash # last.hash]_vars
  <2> SUFFICES ASSUME IInv, Next,
                      Len(rows) \in 1 .. Len(rows') - 1, rows[Len(rows)].state = "failed"
               PROVE  rows'[Len(rows')].hash # rows[Len(rows)].hash
    OBVIOUS
  <2> QED
    BY RowSteps, LoopStep, TopicParts DEF IInv
<1> QED
  BY <1>1, Inductive, PTL DEF Spec, NoRetryLoop
=============================================================================
