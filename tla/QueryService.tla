---------------------------- MODULE QueryService ----------------------------
(***************************************************************************)
(* What a connection promises a client that waits for each answer before   *)
(* it sends the next query: one query at a time, the blocks of an INSERT   *)
(* are stored in the order they were offered, and an INSERT is complete    *)
(* only when everything offered is stored; a complete query is never       *)
(* touched again.  Module ProtocolClient shows that the server does this.  *)
(***************************************************************************)
EXTENDS Naturals, Sequences

CONSTANTS Inserts, Selects, Blocks

VARIABLES
  up,       \* the connection is open
  status,   \* status[q] of every query
  offered,  \* offered[q]: blocks the client has sent for INSERT q
  stored    \* stored[q]: blocks the session has stored for INSERT q

vars == <<up, status, offered, stored>>

Init ==
  /\ up = TRUE
  /\ status = [q \in Inserts \cup Selects |-> "new"]
  /\ offered = [q \in Inserts |-> <<>>]
  /\ stored = [q \in Inserts |-> <<>>]

Start(q) ==
  /\ up /\ status[q] = "new"
  /\ \A r \in Inserts \cup Selects : status[r] # "running"
  /\ status' = [status EXCEPT ![q] = "running"]
  /\ UNCHANGED <<up, offered, stored>>

Offer(q, b) ==
  /\ status[q] = "running"
  /\ offered' = [offered EXCEPT ![q] = Append(@, b)]
  /\ UNCHANGED <<up, status, stored>>

\* A connection that has ended still has what it accepted stored.
Store(q) ==
  /\ status[q] = "running" /\ Len(stored[q]) < Len(offered[q])
  /\ stored' = [stored EXCEPT ![q] = Append(@, offered[q][Len(@) + 1])]
  /\ UNCHANGED <<up, status, offered>>

Complete(q) ==
  /\ up /\ status[q] = "running"
  /\ q \in Inserts => stored[q] = offered[q]
  /\ status' = [status EXCEPT ![q] = "done"]
  /\ UNCHANGED <<up, offered, stored>>

End == up /\ up' = FALSE /\ UNCHANGED <<status, offered, stored>>

Next ==
  \/ \E q \in Inserts \cup Selects : Start(q) \/ Complete(q)
  \/ \E q \in Inserts : Store(q) \/ \E b \in Blocks : Offer(q, b)
  \/ End

Spec == Init /\ [][Next]_vars
=============================================================================
