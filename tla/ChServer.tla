------------------------------ MODULE ChServer ------------------------------
(***************************************************************************)
(* The task that serves one connection (ClickHouseServer::run in lib.rs,   *)
(* Cmd::apply in cmd.rs, Connection in connection.rs), the query session   *)
(* of examples/simple.rs that it calls, and the consumer tasks that the    *)
(* session spawns, one per INSERT.                                         *)
(*                                                                         *)
(* The task is asynchronous: it can be suspended at every await.  The      *)
(* variable pc names the await it is suspended at, and one action takes    *)
(* it from one await to the next:                                          *)
(*   read        connection.read_packet                                    *)
(*   pong,hello  the trailing write_bytes of apply                         *)
(*   select      the write_block of the SELECT loop of execute_query       *)
(*   progress    the write_progress of that loop                           *)
(*   sample      the write_block of the sample block of an INSERT          *)
(*   eos         write_end_of_stream at the end of a Query                 *)
(*   send        out.send(block)                                           *)
(*   notified    sent_all_data.notified()                                  *)
(*   insert_eos  write_end_of_stream at the end of an INSERT               *)
(*   exception   write_error in run                                        *)
(*   ended       run has returned; ctx and connection are dropped          *)
(*                                                                         *)
(* Packets are whole here: how they are cut out of the byte stream is the  *)
(* subject of module Framing.  The actions of a client are in the modules  *)
(* that extend this one; Transmit and Disconnect are what a client can do  *)
(* to the wire.                                                            *)
(***************************************************************************)
EXTENDS Integers, Sequences

CONSTANTS
  Inserts,          \* ids of INSERT queries
  Selects,          \* ids of the other queries
  Blocks,           \* data blocks with at least one column
  EmptyBlock,       \* the block without columns, Block::is_empty
  None,             \* Option::None
  ChannelCapacity,  \* mpsc::channel(4) in the session
  SelectBlocks      \* number of blocks a SELECT streams (blocks: 10)

Queries == Inserts \cup Selects

ASSUME ConstantsAssumption ==
  /\ Inserts \cap Selects = {}
  /\ None \notin Queries \cup Blocks
  /\ EmptyBlock \notin Blocks
  /\ ChannelCapacity \in Nat \ {0}
  /\ SelectBlocks \in Nat

VARIABLES
  pc,        \* the await the connection task is suspended at
  hello,     \* ctx.hello is Some
  stage,     \* ctx.state.stage
  out,       \* ctx.state.out: the INSERT whose channel the sender feeds, or None
  query,     \* ctx.state.query
  pending,   \* the block out.send is sending, or None
  written,   \* blocks the SELECT loop has written
  chan,      \* chan[q]: blocks in the channel of INSERT q
  consumer,  \* consumer[q]: the task spawned for INSERT q
  got,       \* got[q]: blocks that task has taken from its channel
  permit,    \* the permit stored in ctx.state.sent_all_data (a Notify)
  inbox,     \* packets sent by the client and not read yet
  peer,      \* the client's end of the socket
  sent,      \* everything written to the client
  issued,    \* history: queries the client has sent
  target,    \* history: the last INSERT the client has sent
  uploaded   \* history: uploaded[q]: blocks sent after INSERT q and before the next

serverVars   == <<pc, hello, stage, out, query, pending, written>>
consumerVars == <<chan, consumer, got, permit>>
wireVars     == <<inbox, peer, sent>>
uploadVars   == <<issued, target, uploaded>>
chVars       == <<serverVars, consumerVars, wireVars, uploadVars>>

\* The packets of Packet, and "bad" for bytes that Parser rejects.
Packet == [type : {"ping", "cancel", "hello", "bad"}, body : {None}]
            \cup [type : {"query"}, body : Queries]
            \cup [type : {"data"}, body : Blocks \cup {EmptyBlock}]

Reply == [type : {"hello", "pong", "block", "progress", "eos", "exception"},
          query : Queries \cup {None}]

\* Awaits that write to the socket.
Writing == {"pong", "hello", "select", "progress", "sample", "eos",
            "insert_eos", "exception"}

PC == Writing \cup {"read", "send", "notified", "ended"}

ChInit ==
  /\ pc = "read" /\ hello = FALSE /\ stage = "Default" /\ out = None
  /\ query = None /\ pending = None /\ written = 0
  /\ chan = [q \in Inserts |-> <<>>]
  /\ consumer = [q \in Inserts |-> "none"]
  /\ got = [q \in Inserts |-> <<>>]
  /\ permit = FALSE
  /\ inbox = <<>> /\ peer = "open" /\ sent = <<>>
  /\ issued = {} /\ target = None /\ uploaded = [q \in Inserts |-> <<>>]

-----------------------------------------------------------------------------
(* The client's end of the wire. *)

\* The client sends packet p; query ids are fresh.
Transmit(p) ==
  /\ peer = "open" /\ pc # "ended"
  /\ p.type = "query" => p.body \notin issued
  /\ inbox' = Append(inbox, p)
  /\ issued' = IF p.type = "query" THEN issued \cup {p.body} ELSE issued
  /\ target' = IF p.type = "query" /\ p.body \in Inserts THEN p.body ELSE target
  /\ uploaded' = IF p.type = "data" /\ p.body \in Blocks /\ target # None
                   THEN [uploaded EXCEPT ![target] = Append(@, p.body)]
                   ELSE uploaded
  /\ UNCHANGED <<serverVars, consumerVars, peer, sent>>

\* The client closes the socket between two frames ("closed") or inside one
\* ("cut"), or the connection is reset.
Disconnect ==
  /\ peer = "open" /\ pc # "ended"
  /\ peer' \in {"closed", "cut", "reset"}
  /\ UNCHANGED <<serverVars, consumerVars, inbox, sent, uploadVars>>

-----------------------------------------------------------------------------
(* Conditions and updates that several handlers or the tasks share.  The   *)
(* definition before some of them is a plausible mistake in it.            *)

ResetKeepsOut == stage' = "Default" /\ out' = out

ResetKeepsStage == stage' = stage /\ out' = None

\* ctx.state.reset()
Reset == stage' = "Default" /\ out' = None

\* The task returns through `?`: ctx is dropped, and the sender with it.
ReturnErr == pc' = "ended" /\ out' = None

ContinueAfterError == pc' = "read"

\* After write_error run returns.
ReturnAfterError == pc' = "ended"

AnyBlock(b) == TRUE

\* ! block.is_empty()
HasColumns(b) == b # EmptyBlock

CloseUploadAtOnce == Reset /\ pc' = "insert_eos"

\* The end of an upload: the sender is dropped, then its consumer waited for.
CloseUpload == Reset /\ pc' = "notified"

AlwaysRoom == pc = "send"

RoomMinusOne == Len(chan[out]) < ChannelCapacity - 1

\* The channel that the task feeds has room for a block.
HasRoom == Len(chan[out]) < ChannelCapacity

NotifyLost == permit' = permit

\* Notify::notify_one
NotifyOne == permit' = TRUE

NotifiedKeepsPermit == permit /\ permit' = permit

\* Notify::notified: takes the stored permit, or waits for one.
Notified == permit /\ permit' = FALSE

StreamEndsWhenEmpty(q) == chan[q] = <<>>

StreamEndsWhenClosed(q) == out # q

\* The receiver of INSERT q returns None: its sender is dropped (out # q) and
\* the channel is empty.
StreamEnded(q) == out # q /\ chan[q] = <<>>

ExecuteOkStarted ==
  IF out # None
    THEN stage' = "InsertStarted" /\ pc' = "read"
    ELSE stage' = stage /\ pc' = "eos"

\* What apply does when execute_query has returned Ok.
ExecuteOk ==
  IF out # None
    THEN stage' = "InsertPrepare" /\ pc' = "read"
    ELSE stage' = stage /\ pc' = "eos"

-----------------------------------------------------------------------------
(* Reading a packet and the part of apply up to its first await. *)

Arrived(t) == pc = "read" /\ inbox # <<>> /\ Head(inbox).type = t

Consume == inbox' = Tail(inbox)

ReadPing ==
  /\ Arrived("ping") /\ Consume
  /\ pc' = "pong"
  /\ UNCHANGED <<hello, stage, out, query, pending, written, consumerVars,
                 peer, sent, uploadVars>>

\* `todo cancel`: the packet is dropped.
ReadCancel ==
  /\ Arrived("cancel") /\ Consume
  /\ UNCHANGED <<serverVars, consumerVars, peer, sent, uploadVars>>

ReadHello ==
  /\ Arrived("hello") /\ Consume
  /\ hello' = TRUE
  /\ pc' = "hello"
  /\ UNCHANGED <<stage, out, query, pending, written, consumerVars,
                 peer, sent, uploadVars>>

ReadSelect ==
  /\ Arrived("query") /\ hello /\ Consume
  /\ Head(inbox).body \in Selects
  /\ query' = Head(inbox).body
  /\ written' = 0
  /\ pc' = "select"
  /\ UNCHANGED <<hello, stage, out, pending, consumerVars, peer, sent, uploadVars>>

\* The session creates the channel; storing the new sender in ctx.state.out
\* drops the sender that was there.
ReadInsert ==
  /\ Arrived("query") /\ hello /\ Consume
  /\ Head(inbox).body \in Inserts
  /\ query' = Head(inbox).body
  /\ out' = Head(inbox).body
  /\ pc' = "sample"
  /\ UNCHANGED <<hello, stage, pending, written, consumerVars, peer, sent, uploadVars>>

\* A block with columns: forwarded to the INSERT that is open, else dropped.
ReadBlock ==
  /\ Arrived("data") /\ HasColumns(Head(inbox).body) /\ Consume
  /\ IF out # None
       THEN pc' = "send" /\ pending' = Head(inbox).body
       ELSE UNCHANGED <<pc, pending>>
  /\ UNCHANGED <<hello, stage, out, query, written, consumerVars, peer, sent, uploadVars>>

\* The empty block that ends the external tables of an INSERT starts its data,
\* the next one ends it.
ReadEmpty ==
  /\ Arrived("data") /\ Head(inbox).body = EmptyBlock /\ Consume
  /\ \/ stage = "InsertPrepare" /\ stage' = "InsertStarted" /\ UNCHANGED <<out, pc>>
     \/ stage = "InsertStarted" /\ CloseUpload
     \/ stage = "Default" /\ UNCHANGED <<stage, out, pc>>
  /\ UNCHANGED <<hello, query, pending, written, consumerVars, peer, sent, uploadVars>>

\* read_packet returns Err: the parser rejects the bytes, a Query precedes the
\* Hello, the stream ends inside a frame, or the read itself fails.
ReadErr ==
  /\ pc = "read"
  /\ \/ Arrived("bad")
     \/ Arrived("query") /\ ~hello
     \/ inbox = <<>> /\ peer = "cut"
     \/ peer = "reset"
  /\ Reset
  /\ pc' = "exception"
  /\ UNCHANGED <<hello, query, pending, written, consumerVars, wireVars, uploadVars>>

\* read_packet returns Ok(None): the stream ended between two frames.
ReadNone ==
  /\ pc = "read" /\ inbox = <<>> /\ peer = "closed"
  /\ Reset
  /\ pc' = "ended"
  /\ UNCHANGED <<hello, query, pending, written, consumerVars, wireVars, uploadVars>>

-----------------------------------------------------------------------------
(* The awaits of apply, of the session and of run. *)

Write(t) ==
  /\ peer # "reset"
  /\ sent' = Append(sent, [type |-> t, query |-> query])

WritePong ==
  /\ pc = "pong" /\ Write("pong") /\ pc' = "read"
  /\ UNCHANGED <<hello, stage, out, query, pending, written, consumerVars,
                 inbox, peer, uploadVars>>

WriteHello ==
  /\ pc = "hello" /\ Write("hello") /\ pc' = "read"
  /\ UNCHANGED <<hello, stage, out, query, pending, written, consumerVars,
                 inbox, peer, uploadVars>>

\* One turn of the SELECT loop; whether 10ms have passed since the session
\* was created decides if a progress packet follows.
WriteSelectBlock ==
  /\ pc = "select" /\ written < SelectBlocks
  /\ Write("block")
  /\ written' = written + 1
  /\ pc' \in {"select", "progress"}
  /\ UNCHANGED <<hello, stage, out, query, pending, consumerVars, inbox, peer, uploadVars>>

WriteProgress ==
  /\ pc = "progress" /\ Write("progress") /\ pc' = "select"
  /\ UNCHANGED <<hello, stage, out, query, pending, written, consumerVars,
                 inbox, peer, uploadVars>>

SelectReturns ==
  /\ pc = "select" /\ written = SelectBlocks
  /\ ExecuteOk
  /\ UNCHANGED <<hello, out, query, pending, written, consumerVars, wireVars, uploadVars>>

\* The sample block is out, the consumer is spawned, the session returns.
WriteSample ==
  /\ pc = "sample" /\ Write("block")
  /\ consumer' = [consumer EXCEPT ![query] = "running"]
  /\ ExecuteOk
  /\ UNCHANGED <<hello, out, query, pending, written, chan, got, permit,
                 inbox, peer, uploadVars>>

\* execute_query returns Err: the `?` of apply ends the task, no exception is
\* written.
SessionErr ==
  /\ pc = "select"
  /\ ReturnErr
  /\ UNCHANGED <<hello, stage, query, pending, written, consumerVars, wireVars, uploadVars>>

WriteEos ==
  /\ pc = "eos" /\ Write("eos") /\ pc' = "read"
  /\ UNCHANGED <<hello, stage, out, query, pending, written, consumerVars,
                 inbox, peer, uploadVars>>

\* out.send waits for room in the channel.
SendBlock ==
  /\ pc = "send" /\ HasRoom
  /\ chan' = [chan EXCEPT ![out] = Append(@, pending)]
  /\ pending' = None
  /\ pc' = "read"
  /\ UNCHANGED <<hello, stage, out, query, written, consumer, got, permit, wireVars, uploadVars>>

TakePermit ==
  /\ pc = "notified" /\ Notified
  /\ pc' = "insert_eos"
  /\ UNCHANGED <<hello, stage, out, query, pending, written, chan, consumer, got,
                 wireVars, uploadVars>>

WriteInsertEos ==
  /\ pc = "insert_eos" /\ Write("eos")
  /\ stage' = "Default"
  /\ pc' = "read"
  /\ UNCHANGED <<hello, out, query, pending, written, consumerVars, inbox, peer, uploadVars>>

WriteException ==
  /\ pc = "exception" /\ Write("exception") /\ ReturnAfterError
  /\ UNCHANGED <<hello, stage, out, query, pending, written, consumerVars,
                 inbox, peer, uploadVars>>

\* A write fails: every caller returns the error with `?`.
WriteFails ==
  /\ pc \in Writing /\ peer # "open"
  /\ pc = "select" => written < SelectBlocks
  /\ ReturnErr
  /\ UNCHANGED <<hello, stage, query, pending, written, consumerVars, wireVars, uploadVars>>

-----------------------------------------------------------------------------
(* The task the session spawns for INSERT q. *)

NextBlock(q) ==
  /\ consumer[q] = "running" /\ chan[q] # <<>>
  /\ got' = [got EXCEPT ![q] = Append(@, Head(chan[q]))]
  /\ chan' = [chan EXCEPT ![q] = Tail(@)]
  /\ UNCHANGED <<serverVars, consumer, permit, wireVars, uploadVars>>

Finish(q) ==
  /\ consumer[q] = "running" /\ StreamEnded(q)
  /\ consumer' = [consumer EXCEPT ![q] = "finished"]
  /\ NotifyOne
  /\ UNCHANGED <<serverVars, chan, got, wireVars, uploadVars>>

-----------------------------------------------------------------------------
Read == \/ ReadPing \/ ReadCancel \/ ReadHello \/ ReadSelect \/ ReadInsert
        \/ ReadBlock \/ ReadEmpty \/ ReadErr \/ ReadNone

Resume == \/ WritePong \/ WriteHello \/ WriteSelectBlock \/ WriteProgress
          \/ SelectReturns \/ WriteSample \/ SessionErr \/ WriteEos \/ SendBlock
          \/ TakePermit \/ WriteInsertEos \/ WriteException \/ WriteFails

Task == Read \/ Resume

ConsumerTask(q) == NextBlock(q) \/ Finish(q)

\* The connection is over and no consumer is left running.
Quiescent == pc = "ended" /\ \A q \in Inserts : consumer[q] # "running"

-----------------------------------------------------------------------------
TypeOK ==
  /\ pc \in PC
  /\ hello \in BOOLEAN
  /\ stage \in {"Default", "InsertPrepare", "InsertStarted"}
  /\ out \in Inserts \cup {None}
  /\ query \in Queries \cup {None}
  /\ pending \in Blocks \cup {None}
  /\ written \in 0..SelectBlocks
  /\ chan \in [Inserts -> Seq(Blocks)]
  /\ consumer \in [Inserts -> {"none", "running", "finished"}]
  /\ got \in [Inserts -> Seq(Blocks)]
  /\ permit \in BOOLEAN
  /\ inbox \in Seq(Packet)
  /\ peer \in {"open", "closed", "cut", "reset"}
  /\ sent \in Seq(Reply)
  /\ issued \in SUBSET Queries
  /\ target \in Inserts \cup {None}
  /\ uploaded \in [Inserts -> Seq(Blocks)]
=============================================================================
