---------------------------- MODULE MCApprovals ----------------------------
(***************************************************************************)
(* The requests of the runs: a command and a tool call the bridge does not *)
(* serve, which come with one number in two connections.                   *)
(***************************************************************************)
EXTENDS Approvals

MCRequests == {"command", "tool"}
MCIdOf == [command |-> 0, tool |-> 0]
MCOffered == [command |-> {"acceptForSession", "decline"}, tool |-> {}]

\* For the finding: a form whose answer the bridge may refuse.
MCForm == {"form"}
MCFormId == [form |-> 0]
MCFormOffered == [form |-> {"submit"}]
=============================================================================
