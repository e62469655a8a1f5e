----------------------------- MODULE AnyClient ------------------------------
(***************************************************************************)
(* The server of module ChServer with a client that sends any packets in   *)
(* any order and disconnects whenever it likes: what the server guarantees *)
(* whatever it is sent.  The safety properties are in module ServerSafety. *)
(***************************************************************************)
EXTENDS ServerSafety

CONSTANTS
  MaxPackets,    \* bound: packets the client sends on one connection
  MaxInFlight    \* bound: packets sent and not read yet

ASSUME BoundsAssumption == MaxPackets \in Nat /\ MaxInFlight \in Nat

VARIABLE packets      \* packets the client has sent

vars == <<chVars, packets>>

Init == ChInit /\ packets = 0

Client ==
  \/ /\ packets < MaxPackets /\ Len(inbox) < MaxInFlight
     /\ packets' = packets + 1
     /\ \E p \in Packet : Transmit(p)
  \/ Disconnect /\ UNCHANGED packets

TaskStep == Task /\ UNCHANGED packets

ConsumerStep(q) == ConsumerTask(q) /\ UNCHANGED packets

Next ==
  \/ Client
  \/ TaskStep
  \/ \E q \in Inserts : ConsumerStep(q)
  \/ Quiescent /\ UNCHANGED vars

\* tokio polls every task that is ready; the client owes nothing.
Fairness == WF_vars(TaskStep) /\ \A q \in Inserts : WF_vars(ConsumerStep(q))

Spec == Init /\ [][Next]_vars /\ Fairness

-----------------------------------------------------------------------------
(* The end of the connection, on every path out of run, lets every consumer *)
(* drain its channel and stop: no task outlives its connection for ever.    *)
ConsumersStop ==
  \A q \in Inserts : (pc = "ended") ~> (consumer[q] # "running")

(* Waiting for sent_all_data ends: the notify of the consumer just closed   *)
(* cannot be missed, whether it comes before or after notified() is called, *)
(* and whatever permits earlier INSERTs left or coalesced.                  *)
WaitEnds == (pc = "notified") ~> (pc # "notified")

(* A full channel only delays the server: the consumer makes room.          *)
SendEnds == (pc = "send") ~> (pc # "send")
=============================================================================
