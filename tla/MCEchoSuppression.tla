------------------------- MODULE MCEchoSuppression -------------------------
(***************************************************************************)
(* A text mirrored from Codex, which the owner also types in the topic, and *)
(* the fixed reply that subscribes the owner.                              *)
(***************************************************************************)
EXTENDS EchoSuppression

MCTextOf == [o \in Rows \cup Typed |-> IF o \in Subscriptions THEN "subscribed" ELSE "text"]
=============================================================================
