-------------------------- MODULE AnyClientProofs ---------------------------
(***************************************************************************)
(* Proofs about module AnyClient: its safety properties for every set of   *)
(* queries and blocks, every channel capacity and every length of a        *)
(* connection.  The steps of this client are steps of ChNext, which        *)
(* module ServerSafetyProofs is about.                                     *)
(***************************************************************************)
EXTENDS AnyClient, ServerSafetyProofs

(* The server sees of any client only packets and the end of the stream.     *)
LEMMA AnyStep == [Next]_vars => [ChNext]_chVars
BY DEF Next, Client, TaskStep, ConsumerStep, vars, ChNext

(* ChInv holds in every reachable state: it is inductive. *)
THEOREM Invariance == Spec => []ChInv
<1>1. Init => ChInv
  BY ServerInit DEF Init
<1>2. ChInv /\ [Next]_vars => ChInv'
  BY AnyStep, ServerStep
<1> QED BY <1>1, <1>2, PTL DEF Spec

(* Whatever a client sends: variables keep their types (one proof for every  *)
(* channel capacity and length of connection).                               *)
THEOREM TypeCorrect == Spec => []TypeOK
<1>1. ChInv => TypeOK
  BY DEF ChInv, ControlInv
<1> QED BY Invariance, <1>1, PTL

(* out.send(block).await.unwrap() never panics: the receiver is alive.       *)
THEOREM SendIsSafe == Spec => []SendNeverPanics
<1>1. ChInv => SendNeverPanics
  BY DEF ChInv, ControlInv
<1> QED BY Invariance, <1>1, PTL

(* Blocks reach the consumer of the INSERT they were sent for, in the order  *)
(* they were sent, and the channel is never over its capacity.               *)
THEOREM InOrderDelivery == Spec => []DeliveredInOrder
<1>1. ChInv => DeliveredInOrder
  BY DEF ChInv, DeliveryInv
<1> QED BY Invariance, <1>1, PTL

(* A consumer never stops before its channel is closed and drained.          *)
THEOREM NoBlockDiscarded == Spec => []FinishedIsDrained
<1>1. ChInv => FinishedIsDrained
  BY DEF ChInv, ControlInv
<1> QED BY Invariance, <1>1, PTL

(* An upload in progress always has its channel.                             *)
THEOREM UploadHasChannel == Spec => []StageHasSender
<1>1. ChInv => StageHasSender
  BY DEF ChInv, ControlInv
<1> QED BY Invariance, <1>1, PTL

(* run stops after write_error.                                              *)
THEOREM ExceptionEndsConnection == Spec => []ExceptionIsLast
<1>1. Init => ExceptionIsLast
  BY DEF Init, ChInit, ExceptionIsLast
<1>2. TypeOK /\ ExceptionIsLast /\ [Next]_vars => ExceptionIsLast'
  BY AnyStep, ExceptionStep
<1> QED BY <1>1, <1>2, TypeCorrect, PTL DEF Spec
=============================================================================
