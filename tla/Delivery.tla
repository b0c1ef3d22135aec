------------------------------ MODULE Delivery ------------------------------
(***************************************************************************)
(* What the outbox promises of the messages of a chat, whatever happens to *)
(* the process, the provider and the clock: a row is shown only when all   *)
(* that was queued before it for its turn is settled, a settled row is     *)
(* never shown and never unsettled, and a message disappears only after    *)
(* the cue that ends its turn was shown.                                   *)
(***************************************************************************)
EXTENDS Naturals, Sequences

CONSTANTS Rows,      \* the rows, numbered in the order they are queued
          Says    \* what a row may say

VARIABLES queued,    \* the number of rows queued
          col,       \* what each row says
          settled,   \* the rows the outbox is done with
          shown,     \* the row of every message that appeared, in order
          hidden     \* the messages that disappeared since

deliveryVars == <<queued, col, settled, shown, hidden>>

SameTurn(q, r) == col[q].turn = col[r].turn

EarlierSettled(r) ==
  \A q \in Rows : q < r /\ SameTurn(q, r) => q \in settled

\* A row whose turn has come.
Open(r) == r \in 1 .. queued /\ r \notin settled /\ EarlierSettled(r)

DeliveryInit ==
  /\ queued = 0
  /\ col \in [Rows -> Says]
  /\ settled = {}
  /\ shown = << >>
  /\ hidden = {}

Queue ==
  /\ queued' > queued
  /\ queued' \in Rows
  /\ col' \in [Rows -> Says]
  /\ \A r \in 1 .. queued : col'[r] = col[r]
  /\ UNCHANGED <<settled, shown, hidden>>

Show(r) ==
  /\ Open(r)
  /\ shown' = Append(shown, r)
  /\ UNCHANGED <<queued, col, settled, hidden>>

Settle ==
  /\ settled \subseteq settled'
  /\ settled' \subseteq 1 .. queued
  /\ UNCHANGED <<queued, col, shown, hidden>>

\* Never a part of a final answer, and only once the turn's cue is there to stay.
Hide(m) ==
  /\ m \in DOMAIN shown
  /\ ~ \E f \in 1 .. queued : /\ SameTurn(f, shown[m])
                              /\ col[f].op = "final"
                              /\ col[f].item = col[shown[m]].item
  /\ \E c \in DOMAIN shown : /\ SameTurn(shown[c], shown[m])
                             /\ col[shown[c]].op = "final"
                             /\ c \notin hidden
  /\ hidden' = hidden \cup {m}
  /\ UNCHANGED <<queued, col, settled, shown>>

DeliveryNext ==
  \/ Queue
  \/ Settle
  \/ \E r \in Rows : Show(r)
  \/ \E m \in DOMAIN shown : Hide(m)

DeliverySpec == DeliveryInit /\ [][DeliveryNext]_deliveryVars
=============================================================================
