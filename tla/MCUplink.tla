------------------------------ MODULE MCUplink ------------------------------
EXTENDS Uplink
\* One text for both messages and for what the user types: the hardest case
\* for a recognition by text.
MCTextOf == [o \in Messages \cup {"local"} |-> "text"]
\* What is sent with each delivery.
MCSent == [observe |-> {}, app_server |-> {"m"}, desktop |-> {"m", "n"},
           desktop_relay |-> {"m"}]
=============================================================================
