------------------------------ MODULE MCOutbox ------------------------------
(***************************************************************************)
(* Events for the model checker: one turn with a process message and a     *)
(* final answer of one part, whose card holds an image to upload first.    *)
(***************************************************************************)
EXTENDS Outbox

MCBodies == {"plain", "answer", "cue"}

Commentary == [item |-> "i1", turn |-> "t1", kind |-> "commentary",
               units |-> <<[body |-> "plain", uploads |-> 0]>>]
Final ==      [item |-> "i2", turn |-> "t1", kind |-> "final",
               units |-> <<[body |-> "answer", uploads |-> 1]>>]

\* One turn: its order, its uploads, its cleanup.
MCOneTurn == {Commentary, Final}

\* The shortest turn: a process message with an image, and the cue that ends it.
MCShortTurn == {[Commentary EXCEPT !.units = <<[body |-> "plain", uploads |-> 1]>>],
                [Final EXCEPT !.units = << >>]}
=============================================================================
