---------------------------- MODULE ProjectGroup ----------------------------
(***************************************************************************)
(* The private group of one Codex project (feishu/project_groups.py): the  *)
(* row of project_groups, and a provider that may make a group and lose    *)
(* the answer.  The main loop calls ensure while the project is active;    *)
(* a service that is configured with this project as its primary one binds *)
(* the row to the configured chat when it starts.                          *)
(*                                                                         *)
(* Times are ticks that saturate, so the clock needs no bound.             *)
(***************************************************************************)
EXTENDS Naturals

CONSTANTS
  MaxChats,        \* bound: groups the provider ever makes for the project
  Window,          \* uuid_window_seconds of create_chat, in ticks
  ProviderWindow   \* how long the provider remembers a UUID, in ticks

\* The slack between the two windows is the duration of one call.
ASSUME GroupAssumption ==
  /\ MaxChats \in Nat \ {0}
  /\ Window \in Nat /\ ProviderWindow \in Nat /\ Window < ProviderWindow

NoChat == 0
Target == MaxChats + 1      \* the chat of the configuration
Chats == 1 .. Target

GroupStates == {"none", "creating", "active", "outcome_unknown", "failed"}

VARIABLES
  group,   \* the row of project_groups: its state, chat and create_attempted_at_ms;
           \* its age and the memory of the provider are kept while it is "creating",
           \* for only then they are asked for
  held,    \* _retry_not_before_ms is ahead, in the memory of the process
  call,    \* the call of the main thread: its endpoint, its age, the chat of the answer
  made,    \* provider: the groups made for the project
  memory   \* provider: the group it remembers for the UUID, and for how long

groupVars == <<group, held, call, made, memory>>

NoCall == [to |-> "none", chat |-> NoChat, late |-> FALSE]
Create == [NoCall EXCEPT !.to = "create_chat"]

Nothing == [chat |-> NoChat, age |-> 0]

GroupInit ==
  /\ group = [state |-> "none", chat |-> NoChat, age |-> 0]
  /\ held = FALSE
  /\ call = NoCall
  /\ made = 0
  /\ memory = Nothing

Settle(state, chat) ==
  /\ group' = [state |-> state, chat |-> chat, age |-> 0]
  /\ memory' = Nothing
-----------------------------------------------------------------------------
(***************************************************************************)
(* ensure: the row is written before the first call, and the call repeated *)
(* with its UUID while the window is open.                                 *)
(***************************************************************************)
InsertGroup ==
  /\ group.state = "none"
  /\ group' = [state |-> "creating", chat |-> NoChat, age |-> 0]
  /\ call' = Create
  /\ UNCHANGED <<held, made, memory>>

\* Mutation: the window is not looked at.
InWindowAlways == TRUE

InWindow == group.age < Window

CreateAgain ==
  /\ group.state = "creating" /\ ~ held
  /\ InWindow
  /\ call' = Create
  /\ UNCHANGED <<group, held, made, memory>>

ExpireWindow ==
  /\ group.state = "creating" /\ ~ held
  /\ ~ InWindow
  /\ Settle("outcome_unknown", NoChat)
  /\ UNCHANGED <<held, call, made>>

Ensure == InsertGroup \/ CreateAgain \/ ExpireWindow

\* ensure returns without a call or a change of the state.
EnsureRests ==
  \/ group.state \in {"active", "outcome_unknown", "failed"}
  \/ group.state = "creating" /\ held
-----------------------------------------------------------------------------
\* The provider makes a group, or recognises the UUID.
Remembers == memory.chat # NoChat /\ memory.age < ProviderWindow

MakeGroup ==
  /\ call.to = "create_chat" /\ call.chat = NoChat
  /\ IF Remembers
     THEN call' = [call EXCEPT !.chat = memory.chat] /\ UNCHANGED <<made, memory>>
     ELSE /\ made < MaxChats
          /\ made' = made + 1
          /\ memory' = [chat |-> made + 1, age |-> 0]
          /\ call' = [call EXCEPT !.chat = made + 1]
  /\ UNCHANGED <<group, held>>

Returned == call' = NoCall

\* Only an answer with the chat is CONFIRMED; the chat is then looked at once more.
GroupConfirmed ==
  /\ call.to = "create_chat" /\ call.chat # NoChat
  /\ call' = [call EXCEPT !.to = "preflight_chat"]
  /\ UNCHANGED <<group, held, made, memory>>

GroupRetryable ==
  /\ call.to = "create_chat" /\ Returned
  /\ held' = TRUE
  /\ UNCHANGED <<group, made, memory>>

GroupUnknown ==
  /\ call.to = "create_chat" /\ Returned
  /\ Settle("outcome_unknown", NoChat)
  /\ UNCHANGED <<held, made>>

GroupFailed ==
  /\ call.to = "create_chat" /\ Returned
  /\ Settle("failed", NoChat)
  /\ UNCHANGED <<held, made>>

\* An exception of the client: the main loop catches it and goes on.
GroupRaises ==
  /\ call.to # "none" /\ Returned
  /\ UNCHANGED <<group, held, made, memory>>

\* _reverify: active, whatever the answer of the preflight says of its shape.
Reverify ==
  /\ call.to = "preflight_chat" /\ Returned
  /\ Settle("active", call.chat)
  /\ UNCHANGED <<held, made>>

Answered ==
  \/ GroupConfirmed \/ GroupRetryable \/ GroupUnknown \/ GroupFailed \/ GroupRaises
  \/ Reverify
-----------------------------------------------------------------------------
(***************************************************************************)
(* register_existing, at the start of a service whose primary project this *)
(* is: it refuses to start over another chat.                              *)
(***************************************************************************)
Registrable == group.chat \in {NoChat, Target}

Registered == Settle("active", Target)

ForgetCall == call' = NoCall /\ held' = FALSE

\* Mutation: an age without an end.
OlderForever(age, limit) == age + 1

Older(age, limit) == IF age < limit THEN age + 1 ELSE age

\* A call ends within one tick, or in the tick after.  Nothing else reads the clock.
GroupTick ==
  /\ group.state = "creating" /\ ~ call.late
  /\ group' = [group EXCEPT !.age = Older(@, Window)]
  /\ memory' = [memory EXCEPT !.age = Older(@, ProviderWindow)]
  /\ held' = FALSE
  /\ call' = IF call = NoCall THEN NoCall ELSE [call EXCEPT !.late = TRUE]
  /\ UNCHANGED made
-----------------------------------------------------------------------------
GroupTypes ==
  /\ group \in [state : GroupStates, chat : {NoChat} \cup Chats, age : 0 .. Window]
  /\ held \in BOOLEAN
  /\ call \in [to : {"none", "create_chat", "preflight_chat"}, chat : {NoChat} \cup Chats,
              late : BOOLEAN]
  /\ made \in 0 .. MaxChats
  /\ memory \in [chat : {NoChat} \cup Chats, age : 0 .. ProviderWindow]

\* A project has at most one group at the provider, whatever answers were lost and
\* however often the process died: the UUID is never sent again after its window.
OneGroupPerProject == made <= 1
=============================================================================
