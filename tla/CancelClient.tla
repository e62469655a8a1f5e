---------------------------- MODULE CancelClient ----------------------------
(***************************************************************************)
(* The client of ProtocolClient that may also cancel an INSERT in the      *)
(* middle of its upload and go on with another query.                      *)
(***************************************************************************)
EXTENDS ProtocolClient

\* Cancelling an INSERT: the client gives it up.
CancelInsert ==
  /\ phase = "upload" /\ Transmit(Msg("cancel", None))
  /\ phase' = "idle" /\ UNCHANGED <<current, seen, pings>>

CancelNext == Next \/ CancelInsert

CancelSpec == Init /\ [][CancelNext]_vars /\ Fairness
=============================================================================
