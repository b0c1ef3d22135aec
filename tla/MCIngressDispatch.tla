------------------------- MODULE MCIngressDispatch -------------------------
(***************************************************************************)
(* Two messages with the same text, and an item with that text typed in    *)
(* Codex itself: whatever the bridge recognises by its text can be taken   *)
(* for another one.                                                        *)
(***************************************************************************)
EXTENDS IngressDispatch

SameText == [o \in Messages \cup Locals |-> "text"]
=============================================================================
