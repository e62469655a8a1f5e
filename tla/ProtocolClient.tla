--------------------------- MODULE ProtocolClient ---------------------------
(***************************************************************************)
(* The server of module ChServer with a client that follows the native     *)
(* protocol (the client is external; its side of the protocol is the one   *)
(* that Stage and apply are written for): it says Hello first, sends after *)
(* every Query the empty block that ends the external tables, uploads the  *)
(* data of an INSERT after the sample block and ends it with an empty      *)
(* block, and waits for EndOfStream before the next query.  The connection *)
(* may fail at any moment.                                                 *)
(***************************************************************************)
EXTENDS ServerSafety

CONSTANTS
  MaxBlocks,     \* bound: blocks uploaded for one INSERT
  MaxPings       \* bound: pings sent

ASSUME ClientAssumption == MaxBlocks \in Nat /\ MaxPings \in Nat

VARIABLES
  phase,    \* what the client is doing: "start", "hello", "idle", "ping", "query",
            \* "select", "insert", "upload", "drain" or "gone"
  current,  \* the query it has sent last
  seen,     \* replies it has read
  pings     \* pings it has sent

clientVars == <<phase, current, seen, pings>>
vars == <<chVars, clientVars>>

Init ==
  /\ ChInit
  /\ phase = "start" /\ current = None /\ seen = 0 /\ pings = 0

Msg(t, b) == [type |-> t, body |-> b]

SayHello ==
  /\ phase = "start" /\ Transmit(Msg("hello", None))
  /\ phase' = "hello" /\ UNCHANGED <<current, seen, pings>>

Ping ==
  /\ phase = "idle" /\ pings < MaxPings
  /\ Transmit(Msg("ping", None))
  /\ pings' = pings + 1
  /\ phase' = "ping" /\ UNCHANGED <<current, seen>>

SendQuery(q) ==
  /\ phase = "idle" /\ Transmit(Msg("query", q))
  /\ phase' = "query" /\ current' = q /\ UNCHANGED <<seen, pings>>

EndExternalTables ==
  /\ phase = "query" /\ Transmit(Msg("data", EmptyBlock))
  /\ phase' = (IF current \in Inserts THEN "insert" ELSE "select")
  /\ UNCHANGED <<current, seen, pings>>

\* Cancelling a SELECT: the client goes on reading until EndOfStream.
CancelSelect ==
  /\ phase = "select" /\ Len(inbox) < 2 /\ Transmit(Msg("cancel", None))
  /\ UNCHANGED clientVars

\* The blocks of an upload are distinct (the server never compares blocks), so
\* that one that is lost, repeated or out of order can be told.
Upload(b) ==
  /\ phase = "upload" /\ Len(uploaded[current]) < MaxBlocks
  /\ \A k \in 1..Len(uploaded[current]) : uploaded[current][k] # b
  /\ Transmit(Msg("data", b))
  /\ UNCHANGED clientVars

EndUpload ==
  /\ phase = "upload" /\ Transmit(Msg("data", EmptyBlock))
  /\ phase' = "drain" /\ UNCHANGED <<current, seen, pings>>

\* The replies the protocol allows in each phase.
Expected ==
  CASE phase = "hello" -> {"hello"}
    [] phase = "ping" -> {"pong"}
    [] phase \in {"query", "select"} /\ current \in Selects -> {"block", "progress", "eos"}
    [] phase \in {"query", "insert"} /\ current \in Inserts -> {"block"}
    [] phase = "drain" -> {"eos"}
    [] OTHER -> {}

Receive ==
  /\ peer = "open" /\ seen < Len(sent)
  /\ phase \in {"hello", "ping", "select", "insert", "drain"}
  /\ LET t == sent[seen + 1].type IN
       /\ t \in Expected
       /\ phase' = CASE t \in {"hello", "pong", "eos"} -> "idle"
                     [] t = "block" /\ phase = "insert" -> "upload"
                     [] OTHER -> phase
  /\ seen' = seen + 1
  /\ UNCHANGED <<chVars, current, pings>>

\* The client notices that the server has closed the connection.
NoticeEnd ==
  /\ phase # "gone" /\ (pc = "ended" \/ peer # "open")
  /\ phase' = "gone" /\ UNCHANGED <<chVars, current, seen, pings>>

Client ==
  \/ SayHello \/ Ping \/ \E q \in Queries : SendQuery(q)
  \/ EndExternalTables \/ CancelSelect
  \/ \E b \in Blocks : Upload(b)
  \/ EndUpload \/ Receive \/ NoticeEnd

Fail == Disconnect /\ UNCHANGED clientVars

TaskStep == Task /\ UNCHANGED clientVars

ConsumerStep(q) == ConsumerTask(q) /\ UNCHANGED clientVars

Next ==
  \/ Client \/ Fail \/ TaskStep
  \/ \E q \in Inserts : ConsumerStep(q)
  \/ Quiescent /\ phase = "gone" /\ UNCHANGED vars

\* tokio polls every task that is ready; the client reads what it is sent.
Fairness ==
  /\ WF_vars(TaskStep)
  /\ \A q \in Inserts : WF_vars(ConsumerStep(q))
  /\ WF_vars(Receive)

Spec == Init /\ [][Next]_vars /\ Fairness

-----------------------------------------------------------------------------
Acked(q) == \E k \in 1..Len(sent) : sent[k] = [type |-> "eos", query |-> q]

(* `wait stream finished` (cmd.rs): the EndOfStream of an INSERT is written  *)
(* after the session's task for that INSERT has taken every block that was   *)
(* uploaded and has stopped.                                                 *)
AckedInsertIsStored ==
  \A q \in Inserts : Acked(q) => consumer[q] = "finished" /\ got[q] = uploaded[q]

(* The server never sends the client a packet that the protocol does not     *)
(* allow at that point, and nothing of an earlier query.                     *)
RepliesExpected ==
  (peer = "open" /\ phase # "gone" /\ seen < Len(sent)) =>
    /\ sent[seen + 1].type \in Expected
    /\ phase \notin {"hello", "ping"} => sent[seen + 1].query = current

(* No stale permit: outside the end of an upload sent_all_data holds none,   *)
(* so that the next notified() waits for its own INSERT.                     *)
NoStalePermit ==
  permit => \/ pc = "notified"
            \/ peer # "open" \/ pc = "ended"

(* A query whose packets have all been sent is answered with EndOfStream,    *)
(* unless the connection ends.                                               *)
EveryQueryAnswered ==
  \A q \in Queries :
    (phase \in {"select", "drain"} /\ current = q) ~> (Acked(q) \/ pc = "ended")

-----------------------------------------------------------------------------
(* Refinement: what the client may rely on is module QueryService.           *)

\* The server has taken query q from the wire.
Accepted(q) ==
  q \in issued /\ \A k \in 1..Len(inbox) : inbox[k] # Msg("query", q)

\* A query is running from when it is taken to its EndOfStream.
Status ==
  [q \in Queries |-> IF Acked(q) THEN "done" ELSE IF Accepted(q) THEN "running" ELSE "new"]

Service == INSTANCE QueryService WITH
  up <- pc # "ended", status <- Status, offered <- uploaded, stored <- got

(* The server with this client implements the abstract query service.        *)
ImplementsService == Service!Spec

-----------------------------------------------------------------------------
(* The inductive invariant of module ProtocolClientProofs: where the server *)
(* is in the conversation, what is on the wire, and where the client is.    *)

ClientTypeOK ==
  /\ phase \in {"start", "hello", "idle", "ping", "query", "select", "insert",
                "upload", "drain", "gone"}
  /\ current \in Queries \cup {None}
  /\ seen \in 0..Len(sent)
  /\ pings \in Nat
  /\ phase = "query" => current \in Queries
  /\ phase = "select" => current \in Selects
  /\ phase \in {"insert", "upload", "drain"} => current \in Inserts

\* The server has reported an error or has returned.
Over == pc \in {"exception", "ended"}

\* The server works on a query.
Busy == out # None \/ pc \in {"select", "progress", "eos", "notified", "insert_eos"}

EndMark == Msg("data", EmptyBlock)

\* Packets that a server without an upload drops: what is left of a SELECT.
Leftover(p) == p = EndMark \/ p = Msg("cancel", None)

Request(p) == p.type \in {"hello", "ping", "query"}

\* A request of type t is on the wire.
Requested(t) == \E k \in 1..Len(inbox) : inbox[k].type = t

\* The query the server works on is the last one the client has sent, and the
\* stage of an upload is set from the sample block on.
ServerPlace ==
  /\ Busy => query = current
  /\ out # None => /\ out = current /\ pc \in {"sample", "read", "send"}
                   /\ stage = "Default" <=> pc = "sample"
  /\ pc \in {"select", "progress", "eos"} => current \in Selects /\ out = None
  /\ pc \in {"notified", "insert_eos"} => current \in Inserts

\* During an upload the wire holds the end of the external tables if the server
\* has not read it, then blocks, then the end of the data.
UploadOnWire ==
  /\ pc = "sample" => Len(inbox) <= 1
  /\ (stage # "InsertStarted" /\ inbox # <<>>) => inbox[1] = EndMark
  /\ \A k \in 1..Len(inbox) : (k > 1 \/ stage = "InsertStarted") =>
       IsBlock(inbox[k]) \/ (inbox[k] = EndMark /\ k = Len(inbox))

\* Otherwise it holds leftovers and at most one request, and that only when the
\* server is free to read it.
RequestOnWire ==
  /\ \A k \in 1..Len(inbox) : Leftover(inbox[k]) \/ (pc = "read" /\ Request(inbox[k]))
  /\ \A j, k \in 1..Len(inbox) : Request(inbox[j]) /\ Request(inbox[k]) => j = k
  /\ \A k \in 1..Len(inbox) : inbox[k].type = "query" =>
       /\ inbox[k].body = current /\ hello
       /\ current \in Inserts =>
            \A j \in (k + 1)..Len(inbox) : inbox[j] = EndMark /\ j = k + 1 /\ j = Len(inbox)

WireShape ==
  /\ out # None => UploadOnWire
  /\ out = None => RequestOnWire
  /\ pc \in {"notified", "insert_eos"} => inbox = <<>>

\* Only the consumer of the INSERT in progress runs, and only its own permit is
\* ever stored.
OneConsumer ==
  /\ \A q \in Inserts : consumer[q] = "running" => q = out \/ (pc = "notified" /\ q = query)
  /\ permit => pc = "notified" /\ consumer[query] = "finished"
  /\ pc = "notified" => got[query] \o chan[query] = uploaded[query]
  /\ pc = "insert_eos" => consumer[query] = "finished" /\ got[query] = uploaded[query]

\* Every query that the server has taken is answered, but for the one in progress.
OneQuery ==
  /\ Busy => Accepted(query) /\ ~ Acked(query)
  /\ \A q \in Queries : Accepted(q) => Acked(q) \/ (Busy /\ q = query)

\* The server waits for a request and the wire holds none.
Answered == pc = "read" /\ out = None /\ \A k \in 1..Len(inbox) : ~ Request(inbox[k])

\* The one reply that the client has not read.
Unread(t) == Len(sent) = seen + 1 /\ sent[Len(sent)].type = t

NoUnread == seen = Len(sent)

\* Where the server is and what the client has not read, in each phase.
PhasePlace ==
  /\ ~ Over \/ (pc = "ended" /\ phase \in {"query", "select"} /\ current \in Selects)
  /\ phase \notin {"start", "hello"} => hello
  /\ phase \in {"start", "idle"} => Answered /\ NoUnread
  /\ phase = "hello" => \/ Requested("hello") /\ NoUnread
                        \/ pc = "hello" /\ hello /\ NoUnread
                        \/ Answered /\ hello /\ Unread("hello")
  /\ phase = "ping" => \/ Requested("ping") /\ NoUnread
                       \/ pc = "pong" /\ NoUnread
                       \/ Answered /\ Unread("pong")
  /\ phase \in {"query", "select"} /\ current \in Selects =>
       /\ pc \in {"select", "progress", "eos", "ended"} \/ Answered
            \/ (Requested("query") /\ NoUnread)
       /\ \A k \in (seen + 1)..Len(sent) :
            /\ sent[k].query = current /\ sent[k].type \in {"block", "progress", "eos"}
            /\ sent[k].type = "eos" => k = Len(sent) /\ Answered
  /\ phase \in {"query", "insert"} /\ current \in Inserts =>
       \/ Requested("query") /\ NoUnread
       \/ pc = "sample" /\ NoUnread
       \/ /\ out = current /\ pc = "read"
          /\ Unread("block") /\ sent[Len(sent)].query = current
  /\ phase = "query" /\ current \in Inserts =>
       /\ Requested("query") => inbox[Len(inbox)].type = "query"
       /\ out # None => inbox = <<>> /\ stage # "InsertStarted"
  /\ phase = "insert" =>
       /\ Requested("query") => inbox[Len(inbox)] = EndMark
       /\ out # None => IF stage = "InsertStarted" THEN inbox = <<>> ELSE Len(inbox) = 1
  /\ phase = "upload" =>
       /\ out = current /\ pc \in {"read", "send"} /\ NoUnread
       /\ stage = "InsertPrepare" => inbox # <<>>
       /\ \A k \in 1..Len(inbox) : (k > 1 \/ stage = "InsertStarted") => IsBlock(inbox[k])
  /\ phase = "drain" =>
       \/ out = current /\ pc \in {"read", "send"} /\ NoUnread
       \/ pc \in {"notified", "insert_eos"} /\ NoUnread
       \/ Answered /\ Unread("eos") /\ sent[Len(sent)].query = current

ProtocolInv ==
  /\ ChInv /\ ClientTypeOK
  /\ AckedInsertIsStored
  /\ \A q \in Queries : Acked(q) => Accepted(q)
  /\ pc = "exception" => peer # "open"
  /\ ~ Over => ServerPlace /\ WireShape /\ OneConsumer /\ OneQuery
  /\ (peer = "open" /\ phase # "gone") => PhasePlace
=============================================================================
