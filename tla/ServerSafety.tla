---------------------------- MODULE ServerSafety ----------------------------
(***************************************************************************)
(* What the connection task of module ChServer guarantees whatever it is   *)
(* sent: the safety properties that do not depend on the client, and the   *)
(* invariants they rest on.  Both clients, AnyClient and ProtocolClient,   *)
(* take steps of ChNext only, so that each of them inherits what module    *)
(* ServerSafetyProofs proves here.                                         *)
(***************************************************************************)
EXTENDS ChServer, SequencesExt

\* Every step of the connection, for a client that may send anything.
ChNext ==
  \/ \E p \in Packet : Transmit(p)
  \/ Disconnect
  \/ Task
  \/ \E q \in Inserts : ConsumerTask(q)

-----------------------------------------------------------------------------
(* out.send(block).await.unwrap() in apply never panics: while the task     *)
(* holds a sender and is past the sample block, the receiver of that        *)
(* channel is alive, whatever INSERTs were abandoned before.                *)
SendNeverPanics ==
  (out # None /\ pc # "sample") => consumer[out] = "running"

\* What the server has accepted for INSERT q, in the order it was sent: taken
\* by the consumer, in the channel, or in the hands of out.send.
Received(q) ==
  got[q] \o chan[q] \o (IF out = q /\ pc = "send" THEN <<pending>> ELSE <<>>)

(* Blocks reach the consumer of the INSERT they were sent for, in order,    *)
(* none twice and none left out before another one, and the channel never   *)
(* holds more than its capacity: what a consumer has taken and what its     *)
(* channel holds is a prefix of what the client sent after that INSERT.     *)
DeliveredInOrder ==
  \A q \in Inserts :
    /\ Len(chan[q]) <= ChannelCapacity
    /\ IsPrefix(Received(q), uploaded[q])

(* A consumer that has stopped left nothing in its channel and its channel  *)
(* is not fed any more: reset, a new INSERT or the end of the connection    *)
(* never discards blocks that the server had accepted.                      *)
FinishedIsDrained ==
  \A q \in Inserts : consumer[q] = "finished" => chan[q] = <<>> /\ out # q

(* The stage of the upload and the sender agree while the task runs: data   *)
(* is never awaited on a channel that does not exist, so that reset in the  *)
(* InsertStarted branch always closes a channel whose consumer will notify. *)
StageHasSender ==
  (stage # "Default" /\ pc # "ended") => out # None

(* An exception is the last thing a connection carries: run returns after   *)
(* write_error and never goes back to reading packets.                      *)
ExceptionIsLast ==
  \A k \in 1..Len(sent) :
    sent[k].type = "exception" => k = Len(sent) /\ pc = "ended"

-----------------------------------------------------------------------------
(* The inductive invariant of module ServerSafetyProofs. *)

(* A query id in flight is new to the server: its channel does not exist.   *)
FreshQueries ==
  \A k \in 1..Len(inbox) : inbox[k].type = "query" =>
    /\ inbox[k].body \in issued
    /\ inbox[k].body \in Inserts => consumer[inbox[k].body] = "none" /\ out # inbox[k].body
    /\ \A j \in 1..Len(inbox) : inbox[j].type = "query" /\ inbox[j].body = inbox[k].body => j = k

\* The server knows an INSERT only after the client has issued it.
IssuedFirst ==
  \A q \in Inserts : q \notin issued => consumer[q] = "none" /\ out # q

\* What holds while the task waits to write the sample block, or to send.
Suspended ==
  /\ pc = "sample" => query \in Inserts /\ out = query /\ consumer[query] = "none"
  /\ pc = "send" => out # None /\ pending \in Blocks
  /\ pc \in {"notified", "insert_eos", "exception", "ended"} => out = None

ControlInv ==
  /\ TypeOK /\ FreshQueries /\ IssuedFirst /\ Suspended
  /\ SendNeverPanics /\ FinishedIsDrained /\ StageHasSender

IsBlock(p) == p.type = "data" /\ p.body \in Blocks

IsInsert(p) == p.type = "query" /\ p.body \in Inserts

\* No INSERT comes after place s in the packets of box, up to place k.
SameUpload(box, s, k) == \A j \in (s + 1)..k : ~ IsInsert(box[j])

\* n[k] is the number of elements of u up to place k of box, when u is its first
\* r elements followed by the blocks of box from place s up to the next INSERT.
Counts(n, box, s, r, u) ==
  /\ n[s] = r
  /\ n[Len(box)] = Len(u)
  /\ \A k \in (s + 1)..Len(box) :
       IF IsBlock(box[k]) /\ SameUpload(box, s, k)
         THEN n[k] = n[k - 1] + 1 /\ u[n[k]] = box[k].body
         ELSE n[k] = n[k - 1]

\* The sequence u is its first r elements, followed by the blocks of box between
\* place s and the next INSERT.
Follows(box, s, r, u) ==
  \E n \in [s..Len(box) -> 0..Len(u)] : Counts(n, box, s, r, u)

\* The data of INSERT q begins after place s of the inbox (place 0 is what the
\* server is doing now).
Opens(q, s) ==
  IF s = 0 THEN out = q ELSE inbox[s].type = "query" /\ inbox[s].body = q

\* What the client has sent for an INSERT that the server will still feed: the
\* blocks the server has accepted and then those on the wire.
InFlightInOrder ==
  \A q \in Inserts : \A s \in 0..Len(inbox) :
    Opens(q, s) => /\ Follows(inbox, s, Len(Received(q)), uploaded[q])
                   /\ target = q <=> SameUpload(inbox, s, Len(inbox))

\* Nothing belongs to an INSERT before it is sent, or before it is accepted.
NothingEarly ==
  \A q \in Inserts :
    /\ q \notin issued => uploaded[q] = <<>> /\ target # q
    /\ consumer[q] = "none" => chan[q] = <<>> /\ got[q] = <<>>

DeliveryInv == DeliveredInOrder /\ InFlightInOrder /\ NothingEarly

ChInv == ControlInv /\ DeliveryInv
=============================================================================
