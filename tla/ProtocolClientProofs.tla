------------------------ MODULE ProtocolClientProofs ------------------------
(***************************************************************************)
(* Proofs about module ProtocolClient: the server and a client that        *)
(* follows the protocol, for every set of queries and blocks, every        *)
(* channel capacity and every number of blocks and pings.                  *)
(***************************************************************************)
EXTENDS ProtocolClient, ServerSafetyProofs

(* The kinds of packet that the shape of the wire tells apart.               *)
LEMMA Marks ==
  /\ EndMark.type = "data" /\ EndMark.body = EmptyBlock
  /\ EndMark \in Packet /\ Leftover(EndMark) /\ Leftover(Msg("cancel", None))
  /\ \A t \in {"hello", "ping", "cancel"} : Msg(t, None) \in Packet
  /\ \A q \in Queries : Msg("query", q) \in Packet
  /\ \A b \in Blocks : Msg("data", b) \in Packet /\ IsBlock(Msg("data", b))
  /\ \A p : Leftover(p) => p.type \in {"data", "cancel"} /\ ~ Request(p) /\ ~ IsBlock(p)
                            /\ (p.type = "data" => p.body = EmptyBlock)
  /\ \A p : IsBlock(p) => /\ ~ Leftover(p) /\ ~ Request(p) /\ p # EndMark
                          /\ p.type = "data" /\ p.body # EmptyBlock
<1> USE ConstantsAssumption DEF ConstantsAssumption
<1>1. EndMark.type = "data" /\ EndMark.body = EmptyBlock /\ EndMark \in Packet
  BY DEF EndMark, Msg, Packet
<1>2. Leftover(EndMark) /\ Leftover(Msg("cancel", None))
  BY DEF Leftover
<1>3. /\ \A t \in {"hello", "ping", "cancel"} : Msg(t, None) \in Packet
      /\ \A q \in Queries : Msg("query", q) \in Packet
  BY DEF Msg, Packet
<1>4. \A b \in Blocks : Msg("data", b) \in Packet /\ IsBlock(Msg("data", b))
  BY DEF Msg, Packet, IsBlock
<1>5. /\ Msg("cancel", None).type = "cancel"
  BY DEF Msg
<1>6. \A p : Leftover(p) => p.type \in {"data", "cancel"} /\ ~ Request(p) /\ ~ IsBlock(p)
                             /\ (p.type = "data" => p.body = EmptyBlock)
  BY <1>1, <1>5 DEF Leftover, Request, IsBlock
<1>7. \A p : IsBlock(p) => /\ ~ Leftover(p) /\ ~ Request(p) /\ p # EndMark
                           /\ p.type = "data" /\ p.body # EmptyBlock
  BY <1>1, <1>5 DEF Leftover, Request, IsBlock
<1> QED BY <1>1, <1>2, <1>3, <1>4, <1>6, <1>7

(* The fields of a packet.                                                   *)
LEMMA MsgFields == \A t, b : Msg(t, b).type = t /\ Msg(t, b).body = b
BY DEF Msg

(* The steps of this client are steps of ChNext. *)
LEMMA ProtocolStep == [Next]_vars => [ChNext]_chVars
<1> SUFFICES ASSUME [Next]_vars PROVE [ChNext]_chVars
  OBVIOUS
<1>1. CASE Client
  <2>1. CASE Receive \/ NoticeEnd
    BY <2>1 DEF Receive, NoticeEnd
  <2>2. CASE ~ (Receive \/ NoticeEnd)
    <3>1. \E p \in Packet : Transmit(p)
      BY <1>1, <2>2, Marks DEF Client, SayHello, Ping, SendQuery, EndExternalTables,
                               CancelSelect, Upload, EndUpload, EndMark
    <3> QED BY <3>1 DEF ChNext
  <2> QED BY <2>1, <2>2
<1>2. CASE ~ Client
  BY <1>2 DEF Next, Fail, TaskStep, ConsumerStep, vars, ChNext
<1> QED BY <1>1, <1>2

(* The packets and the places of the wire when a packet is added or taken. *)
LEMMA AddedPacket ==
  ASSUME TypeOK, NEW p \in Packet, inbox' = Append(inbox, p)
  PROVE  /\ Len(inbox) \in Nat /\ Len(inbox') = Len(inbox) + 1 /\ inbox' # <<>>
         /\ \A k \in 1..Len(inbox) : inbox'[k] = inbox[k] /\ k \in 1..Len(inbox')
         /\ inbox'[Len(inbox) + 1] = p
         /\ Len(inbox) + 1 \in 1..Len(inbox')
         /\ \A k \in 1..Len(inbox') : k \in 1..Len(inbox) \/ k = Len(inbox) + 1
<1>1. inbox \in Seq(Packet) /\ Len(inbox) \in Nat
  BY DEF TypeOK
<1>2. /\ Len(inbox') = Len(inbox) + 1 /\ inbox' # <<>>
      /\ \A k \in 1..Len(inbox) : inbox'[k] = inbox[k]
      /\ inbox'[Len(inbox) + 1] = p
  BY <1>1, AppendProperties
<1> QED BY <1>1, <1>2

(* The same when the first packet is read.                                   *)
LEMMA TakenPacket ==
  ASSUME TypeOK, inbox # <<>>, inbox' = Tail(inbox)
  PROVE  /\ Len(inbox) \in Nat /\ Len(inbox') = Len(inbox) - 1 /\ Len(inbox) >= 1
         /\ 1 \in 1..Len(inbox) /\ Head(inbox) = inbox[1] /\ inbox[1] \in Packet
         /\ \A k \in 1..Len(inbox') : inbox'[k] = inbox[k + 1] /\ k + 1 \in 1..Len(inbox)
         /\ \A k \in 1..Len(inbox) : k = 1 \/ (k - 1 \in 1..Len(inbox') /\ inbox'[k - 1] = inbox[k])
         /\ Len(inbox) = 1 <=> inbox' = <<>>
<1>1. inbox \in Seq(Packet)
  BY DEF TypeOK
<1>2. /\ Len(inbox) \in Nat /\ Len(inbox) >= 1 /\ Head(inbox) = inbox[1] /\ inbox[1] \in Packet
      /\ Len(inbox') = Len(inbox) - 1 /\ inbox' \in Seq(Packet)
      /\ \A k \in 1..Len(inbox') : inbox'[k] = inbox[k + 1]
  BY <1>1
<1>3. \A k \in 1..Len(inbox') : k + 1 \in 1..Len(inbox)
  BY <1>2
<1>4. \A k \in 1..Len(inbox) : k = 1 \/ (k - 1 \in 1..Len(inbox') /\ (k - 1) + 1 = k)
  BY <1>2
<1>5. Len(inbox) = 1 <=> inbox' = <<>>
  BY <1>2, EmptySeq
<1>6. 1 \in 1..Len(inbox)
  BY <1>2
<1>7. \A k \in 1..Len(inbox) : k = 1 \/ (k - 1 \in 1..Len(inbox') /\ inbox'[k - 1] = inbox[k])
  BY <1>2, <1>4
<1> QED BY <1>2, <1>3, <1>5, <1>6, <1>7

(* What is written to the client. *)
LEMMA Written ==
  ASSUME TypeOK, NEW t, sent' = Append(sent, [type |-> t, query |-> query])
  PROVE  /\ Len(sent) \in Nat /\ Len(sent') = Len(sent) + 1
         /\ \A k \in 1..Len(sent) : sent'[k] = sent[k]
         /\ sent'[Len(sent) + 1] = [type |-> t, query |-> query]
<1>1. sent \in Seq(Reply) /\ Len(sent) \in Nat
  BY DEF TypeOK
<1> QED BY <1>1

(* Acknowledgements are read off the replies.                                *)
LEMMA AckedKept ==
  ASSUME sent' = sent, NEW q
  PROVE  Acked(q)' <=> Acked(q)
BY DEF Acked

(* A reply acknowledges a query only when it is its EndOfStream.             *)
LEMMA AckedWritten ==
  ASSUME TypeOK, NEW t, sent' = Append(sent, [type |-> t, query |-> query]), NEW q
  PROVE  Acked(q)' <=> Acked(q) \/ (t = "eos" /\ q = query)
<1>1. /\ Len(sent) \in Nat /\ Len(sent') = Len(sent) + 1
      /\ \A k \in 1..Len(sent) : sent'[k] = sent[k] /\ k \in 1..Len(sent')
      /\ sent'[Len(sent) + 1] = [type |-> t, query |-> query]
      /\ Len(sent) + 1 \in 1..Len(sent')
      /\ \A k \in 1..Len(sent') : k \in 1..Len(sent) \/ k = Len(sent) + 1
  BY Written
<1>2. [type |-> t, query |-> query] = [type |-> "eos", query |-> q] <=> t = "eos" /\ q = query
  OBVIOUS
<1> QED BY <1>1, <1>2 DEF Acked

(* Accepted queries are read off the wire and the history of queries.        *)
LEMMA AcceptedKept ==
  ASSUME inbox' = inbox, issued' = issued, NEW q
  PROVE  Accepted(q)' <=> Accepted(q)
BY DEF Accepted

(* A query becomes accepted when it is read, and only then. *)
LEMMA AcceptedAdded ==
  ASSUME TypeOK, FreshQueries, NEW p \in Packet, Transmit(p), NEW q
  PROVE  Accepted(q)' <=> Accepted(q)
<1>1. inbox' = Append(inbox, p)
  BY DEF Transmit
<1>2. p.type = "query" => p.body \notin issued /\ issued' = issued \cup {p.body}
  BY DEF Transmit
<1>3. p.type # "query" => issued' = issued
  BY DEF Transmit
<1>4. p = Msg("query", q) => p.type = "query" /\ p.body = q
  BY MsgFields
<1>5. p.type = "query" /\ p.body = q => p = Msg("query", q)
  BY DEF Packet, Msg
<1> QED BY <1>1, <1>2, <1>3, <1>4, <1>5, AddedPacket DEF Accepted

(* Reading a packet accepts the query in it, and no other.                   *)
LEMMA AcceptedTaken ==
  ASSUME TypeOK, FreshQueries, inbox # <<>>, inbox' = Tail(inbox), issued' = issued, NEW q
  PROVE  Accepted(q)' <=> Accepted(q) \/ inbox[1] = Msg("query", q)
<1>1. \A k \in 1..Len(inbox) : inbox[k] = Msg("query", q) => inbox[k].type = "query" /\ inbox[k].body = q
  BY MsgFields
<1>2. inbox[1] = Msg("query", q) => q \in issued
  BY <1>1, TakenPacket DEF FreshQueries
<1>3. \A k \in 2..Len(inbox) : ~ (inbox[1] = Msg("query", q) /\ inbox[k] = Msg("query", q))
  <2>1. \A k \in 2..Len(inbox) : k \in 1..Len(inbox) /\ k # 1
    BY TakenPacket
  <2> QED BY <1>1, <2>1, TakenPacket DEF FreshQueries
<1>4. \A k \in 1..Len(inbox') : inbox'[k] = inbox[k + 1] /\ k + 1 \in 2..Len(inbox)
  BY TakenPacket
<1> QED BY <1>2, <1>3, <1>4, TakenPacket DEF Accepted

-----------------------------------------------------------------------------
(* The invariant holds at first.                                             *)
LEMMA InitProtocol == Init => ProtocolInv
<1> SUFFICES ASSUME Init PROVE ProtocolInv
  OBVIOUS
<1>1. /\ pc = "read" /\ hello = FALSE /\ stage = "Default" /\ out = None /\ query = None
      /\ permit = FALSE /\ inbox = <<>> /\ sent = <<>> /\ issued = {}
      /\ phase = "start" /\ current = None /\ seen = 0 /\ pings = 0
      /\ \A q \in Inserts : consumer[q] = "none"
  BY DEF Init, ChInit
<1>2. Len(inbox) = 0 /\ Len(sent) = 0
  BY <1>1
<1>3. ChInv
  BY ServerInit DEF Init
<1>4. ClientTypeOK
  BY <1>1, <1>2 DEF ClientTypeOK
<1>5. (\A q : ~ Acked(q)) /\ (\A q : ~ Accepted(q)) /\ ~ Busy
  BY <1>1, <1>2 DEF Acked, Accepted, Busy
<1>6. ServerPlace /\ OneConsumer /\ OneQuery /\ AckedInsertIsStored
  BY <1>1, <1>5 DEF ServerPlace, OneConsumer, OneQuery, AckedInsertIsStored
<1>7. WireShape
  BY <1>1, <1>2 DEF WireShape, RequestOnWire
<1>8. PhasePlace
  BY <1>1, <1>2 DEF PhasePlace, Over, Answered, NoUnread
<1> QED BY <1>1, <1>3, <1>4, <1>5, <1>6, <1>7, <1>8 DEF ProtocolInv

(* Which packets the server can find on the wire, and in which state.        *)
LEMMA ReadCases ==
  ASSUME ProtocolInv, Read
  PROVE  /\ TypeOK /\ FreshQueries /\ Suspended /\ StageHasSender
         /\ pc = "read" /\ ~ Over /\ ServerPlace /\ WireShape /\ OneConsumer /\ OneQuery
         /\ ReadPing \/ ReadCancel \/ ReadHello \/ ReadSelect \/ ReadInsert => out = None
         /\ ReadSelect \/ ReadInsert => inbox[1] = Msg("query", current) /\ current \in Queries
         /\ ReadBlock => out # None /\ stage = "InsertStarted"
         /\ ReadEmpty =>
              \/ out = None /\ stage = "Default" /\ UNCHANGED <<stage, out, pc>>
              \/ out # None /\ stage = "InsertPrepare" /\ stage' = "InsertStarted"
                 /\ UNCHANGED <<out, pc>>
              \/ out # None /\ stage = "InsertStarted" /\ stage' = "Default" /\ out' = None
                 /\ pc' = "notified" /\ inbox' = <<>> /\ Len(inbox) = 1 /\ inbox[1] = EndMark
         /\ ReadErr \/ ReadNone => peer # "open"
<1>0. /\ TypeOK /\ FreshQueries /\ Suspended /\ StageHasSender
  BY DEF ProtocolInv, ChInv, ControlInv
<1>1. pc = "read"
  BY DEF Read, ReadPing, ReadCancel, ReadHello, ReadSelect, ReadInsert, ReadBlock, ReadEmpty,
         ReadErr, ReadNone, Arrived
<1>2. ~ Over /\ ServerPlace /\ WireShape /\ OneConsumer /\ OneQuery
  BY <1>1 DEF ProtocolInv, Over
<1>3. inbox # <<>> => /\ Head(inbox) = inbox[1] /\ 1 \in 1..Len(inbox) /\ inbox[1] \in Packet
                      /\ Len(inbox) \in Nat /\ Len(inbox) >= 1
                      /\ Len(inbox) = 1 <=> Tail(inbox) = <<>>
  <2>1. inbox # <<>> => Len(Tail(inbox)) = Len(inbox) - 1 /\ Tail(inbox) \in Seq(Packet)
    BY <1>0 DEF TypeOK
  <2>2. inbox # <<>> => /\ Head(inbox) = inbox[1] /\ 1 \in 1..Len(inbox) /\ inbox[1] \in Packet
                        /\ Len(inbox) \in Nat /\ Len(inbox) >= 1
    BY <1>0 DEF TypeOK
  <2>3. ASSUME NEW t \in Seq(Packet) PROVE Len(t) = 0 <=> t = <<>>
    BY EmptySeq
  <2>4. ASSUME inbox # <<>> PROVE Len(inbox) = 1 <=> Tail(inbox) = <<>>
    <3>1. Len(Tail(inbox)) = 0 <=> Tail(inbox) = <<>>
      BY <2>1, <2>3, <2>4, Zenon
    <3> QED BY <2>1, <2>2, <2>4, <3>1
  <2> QED BY <2>2, <2>4
<1>4. out # None /\ inbox # <<>> =>
        /\ stage \in {"InsertPrepare", "InsertStarted"}
        /\ stage = "InsertPrepare" => inbox[1] = EndMark
        /\ stage = "InsertStarted" => IsBlock(inbox[1]) \/ (inbox[1] = EndMark /\ Len(inbox) = 1)
  BY <1>0, <1>1, <1>2, <1>3 DEF ServerPlace, WireShape, UploadOnWire, TypeOK
<1>5. out = None /\ inbox # <<>> =>
        /\ stage = "Default"
        /\ Leftover(inbox[1]) \/ Request(inbox[1])
        /\ inbox[1].type = "query" => inbox[1].body = current /\ hello
  BY <1>0, <1>1, <1>2, <1>3 DEF WireShape, RequestOnWire, StageHasSender
<1>6. ReadPing \/ ReadCancel \/ ReadHello \/ ReadSelect \/ ReadInsert => out = None
  BY <1>3, <1>4, Marks DEF ReadPing, ReadCancel, ReadHello, ReadSelect, ReadInsert, Arrived
<1>7. ASSUME ReadSelect \/ ReadInsert
      PROVE  inbox[1] = Msg("query", current) /\ current \in Queries
  <2>1. inbox # <<>> /\ inbox[1].type = "query"
    BY <1>3, <1>7 DEF ReadSelect, ReadInsert, Arrived
  <2>2. inbox[1].body = current /\ current \in Queries
    BY <1>3, <1>5, <1>6, <1>7, <2>1, PacketBody
  <2> QED BY <1>3, <2>1, <2>2 DEF Packet, Msg
<1>8. ReadBlock => out # None /\ stage = "InsertStarted"
  BY <1>3, <1>4, <1>5, Marks DEF ReadBlock, Arrived, HasColumns, Request
<1>9. ASSUME ReadEmpty
      PROVE  \/ out = None /\ stage = "Default" /\ UNCHANGED <<stage, out, pc>>
             \/ out # None /\ stage = "InsertPrepare" /\ stage' = "InsertStarted"
                 /\ UNCHANGED <<out, pc>>
             \/ out # None /\ stage = "InsertStarted" /\ stage' = "Default" /\ out' = None
                 /\ pc' = "notified" /\ inbox' = <<>> /\ Len(inbox) = 1 /\ inbox[1] = EndMark
  <2>1. inbox # <<>> /\ inbox[1].body = EmptyBlock /\ inbox' = Tail(inbox) /\ ~ IsBlock(inbox[1])
    BY <1>3, <1>9, Marks DEF ReadEmpty, Arrived, Consume
  <2> QED BY <1>3, <1>4, <1>5, <1>9, <2>1 DEF ReadEmpty, CloseUpload, Reset
<1>10. ASSUME ReadErr \/ ReadNone PROVE peer # "open"
  <2>1. inbox # <<>> => inbox[1].type # "bad" /\ (inbox[1].type = "query" => hello)
    BY <1>3, <1>4, <1>5, Marks DEF Request
  <2> QED BY <1>3, <1>10, <2>1 DEF ReadErr, ReadNone, Arrived
<1> QED BY <1>0, <1>1, <1>2, <1>6, <1>7, <1>8, <1>9, <1>10

(* What each step does to the replies: nothing, or one more. *)
LEMMA SentStep ==
  ASSUME [ChNext]_chVars
  PROVE  sent' = sent \/ \E t : sent' = Append(sent, [type |-> t, query |-> query])
<1> USE DEF chVars, serverVars, consumerVars, wireVars, uploadVars
<1>1. CASE Read
  BY <1>1 DEF Read, ReadPing, ReadCancel, ReadHello, ReadSelect, ReadInsert, ReadBlock, ReadEmpty,
              ReadErr, ReadNone
<1>2. CASE Resume
  BY <1>2 DEF Resume, WritePong, WriteHello, WriteSelectBlock, WriteProgress, SelectReturns,
              WriteSample, SessionErr, WriteEos, SendBlock, TakePermit, WriteInsertEos,
              WriteException, WriteFails, Write
<1>3. CASE ~ Task
  BY <1>3 DEF ChNext, Transmit, Disconnect, ConsumerTask, NextBlock, Finish
<1> QED BY <1>1, <1>2, <1>3 DEF Task

(* The variables of the client keep their types.                             *)
LEMMA ClientTypeStep ==
  ASSUME TypeOK, ClientTypeOK, [Next]_vars
  PROVE  ClientTypeOK'
<1> USE DEF ClientTypeOK
<1>1. Len(sent) \in Nat /\ Len(sent') \in Nat /\ Len(sent') >= Len(sent)
  <2>1. sent \in Seq(Reply)
    BY DEF TypeOK
  <2>2. CASE sent' = sent
    BY <2>1, <2>2
  <2>3. CASE sent' # sent
    <3>1. PICK t : sent' = Append(sent, [type |-> t, query |-> query])
      BY <2>3, ProtocolStep, SentStep
    <3> QED BY <3>1, Written
  <2> QED BY <2>2, <2>3
<1>2. seen \in 0..Len(sent')
  BY <1>1
<1>3. CASE SayHello \/ Ping \/ EndExternalTables \/ CancelSelect \/ EndUpload
  BY <1>2, <1>3 DEF SayHello, Ping, EndExternalTables, CancelSelect, EndUpload, clientVars, Queries
<1>4. ASSUME NEW q \in Queries, SendQuery(q) PROVE ClientTypeOK'
  BY <1>2, <1>4 DEF SendQuery
<1>5. CASE Receive
  <2>1. /\ sent' = sent /\ seen < Len(sent) /\ seen' = seen + 1
        /\ UNCHANGED <<current, pings>> /\ phase' \in {"idle", "upload", phase}
        /\ phase' = "upload" => phase \in {"insert", "upload"}
    BY <1>5 DEF Receive, chVars, wireVars
  <2> QED BY <1>1, <2>1
<1>6. CASE NoticeEnd
  BY <1>2, <1>6 DEF NoticeEnd
<1>7. CASE UNCHANGED clientVars
  BY <1>2, <1>7 DEF clientVars
<1> QED BY <1>3, <1>4, <1>5, <1>6, <1>7
        DEF Next, Client, Upload, Fail, TaskStep, ConsumerStep, vars

(* Once the server has reported an error or returned, it stays so.           *)
LEMMA OverStep ==
  ASSUME [ChNext]_chVars, Over
  PROVE  Over'
<1> USE DEF chVars, serverVars, consumerVars, wireVars, uploadVars, Over
<1>1. CASE Read
  BY <1>1 DEF Read, ReadPing, ReadCancel, ReadHello, ReadSelect, ReadInsert, ReadBlock, ReadEmpty,
              ReadErr, ReadNone, Arrived
<1>2. CASE Resume
  BY <1>2 DEF Resume, WritePong, WriteHello, WriteSelectBlock, WriteProgress, SelectReturns,
              WriteSample, SessionErr, WriteEos, SendBlock, TakePermit, WriteInsertEos,
              WriteException, WriteFails, ReturnErr, ReturnAfterError
<1>3. CASE ~ Task
  BY <1>3 DEF ChNext, Transmit, Disconnect, ConsumerTask, NextBlock, Finish
<1> QED BY <1>1, <1>2, <1>3 DEF Task

-----------------------------------------------------------------------------
(* The server's place. *)

(* The query the server works on stays the last one that was sent.           *)
LEMMA ServerPlaceStep ==
  ASSUME ProtocolInv, [Next]_vars, ~ Over'
  PROVE  ServerPlace'
<1>0. /\ TypeOK /\ Suspended /\ SendNeverPanics /\ StageHasSender
      /\ ~ Over /\ ServerPlace /\ WireShape
  BY ProtocolStep, OverStep DEF ProtocolInv, ChInv, ControlInv
<1> USE DEF ServerPlace, Busy, serverVars, consumerVars, wireVars, uploadVars
<1>1. ASSUME UNCHANGED <<pc, stage, out, query, current>> PROVE ServerPlace'
  BY <1>0, <1>1
<1>2. CASE TaskStep /\ Read
  <2>1. current' = current
    BY <1>2 DEF TaskStep, clientVars
  <2>2. pc = "read"
    BY <1>2, ReadCases
  <2>3. CASE ReadPing \/ ReadCancel \/ ReadHello
    <3>1. out = None /\ out' = None /\ pc' \in {"read", "pong", "hello"}
      BY <1>2, <2>2, <2>3, ReadCases DEF ReadPing, ReadCancel, ReadHello
    <3> QED BY <3>1
  <2>4. CASE ReadSelect \/ ReadInsert
    <3>1. inbox # <<>> /\ Head(inbox).body = current /\ current \in Queries /\ out = None
          /\ stage = "Default"
      <4>1. inbox # <<>> /\ Head(inbox) = inbox[1]
        BY <1>0, <2>4 DEF ReadSelect, ReadInsert, Arrived, TypeOK
      <4> QED BY <1>0, <1>2, <2>2, <2>4, <4>1, ReadCases, MsgFields DEF StageHasSender
    <3> QED BY <2>1, <2>4, <3>1, InsertIsSome DEF ReadSelect, ReadInsert
  <2>5. CASE ReadBlock
    BY <1>0, <1>2, <2>1, <2>2, <2>5, ReadCases DEF ReadBlock
  <2>6. CASE ReadEmpty
    <3>1. query' = query
      BY <2>6 DEF ReadEmpty
    <3>2. out # None => out \in Inserts
      BY <1>0 DEF TypeOK
    <3> QED BY <1>0, <1>2, <2>1, <2>2, <2>6, <3>1, <3>2, ReadCases
  <2>7. CASE ReadErr \/ ReadNone
    BY <2>7 DEF ReadErr, ReadNone, Over
  <2> QED BY <1>2, <2>3, <2>4, <2>5, <2>6, <2>7 DEF Read
<1>3. CASE TaskStep /\ Resume
  <2>1. current' = current
    BY <1>3 DEF TaskStep, clientVars
  <2>2. CASE WritePong \/ WriteHello \/ WriteSelectBlock \/ WriteProgress \/ WriteEos
    BY <1>0, <2>1, <2>2 DEF WritePong, WriteHello, WriteSelectBlock, WriteProgress, WriteEos
  <2>3. CASE SelectReturns \/ WriteSample
    BY <1>0, <2>1, <2>3, InsertIsSome DEF SelectReturns, WriteSample, ExecuteOk, Suspended
  <2>4. CASE SessionErr \/ WriteFails \/ WriteException
    BY <2>4 DEF SessionErr, WriteFails, WriteException, ReturnErr, ReturnAfterError, Over
  <2>5. CASE SendBlock \/ TakePermit \/ WriteInsertEos
    BY <1>0, <2>1, <2>5 DEF SendBlock, TakePermit, WriteInsertEos, Suspended
  <2> QED BY <1>3, <2>2, <2>3, <2>4, <2>5 DEF Resume
<1>4. ASSUME NEW q \in Queries, SendQuery(q) PROVE ServerPlace'
  <2>1. PhasePlace /\ phase = "idle"
    BY <1>4 DEF SendQuery, Transmit, ProtocolInv
  <2>2. pc = "read" /\ out = None
    BY <2>1 DEF PhasePlace, Answered
  <2>3. UNCHANGED <<pc, stage, out, query>>
    BY <1>4 DEF SendQuery, Transmit
  <2> QED BY <2>2, <2>3
<1>5. CASE Client /\ ~ (\E q \in Queries : SendQuery(q))
  BY <1>1, <1>5 DEF Client, SayHello, Ping, EndExternalTables, CancelSelect, Upload, EndUpload,
                    Receive, NoticeEnd, Transmit, clientVars, chVars
<1>6. ASSUME NEW q \in Inserts, ConsumerStep(q) PROVE ServerPlace'
  BY <1>1, <1>6 DEF ConsumerStep, ConsumerTask, NextBlock, Finish, clientVars
<1>7. CASE Fail \/ UNCHANGED vars
  BY <1>1, <1>7 DEF Fail, Disconnect, vars, clientVars, chVars
<1> QED BY <1>2, <1>3, <1>4, <1>5, <1>6, <1>7 DEF Next, TaskStep, Task

-----------------------------------------------------------------------------
(* The shape of the wire. *)

(* What the invariant says when the client sends something.                  *)
LEMMA Sending ==
  ASSUME ProtocolInv, NEW p, Transmit(p), phase # "gone", p \in Packet
  PROVE  /\ TypeOK /\ FreshQueries /\ IssuedFirst /\ Suspended /\ ClientTypeOK
         /\ ~ Over /\ ServerPlace /\ WireShape /\ OneConsumer /\ OneQuery
         /\ PhasePlace
         /\ UNCHANGED <<pc, hello, stage, out, query, chan, consumer, got, permit, sent>>
         /\ inbox' = Append(inbox, p) /\ TypeOK' /\ peer' = peer
<1>1. peer = "open" /\ pc # "ended"
  BY DEF Transmit
<1>2. PhasePlace
  BY <1>1 DEF ProtocolInv
<1>3. ~ Over
  BY <1>1, <1>2 DEF PhasePlace
<1>4. TypeOK /\ Suspended /\ [ChNext]_chVars
  BY DEF ProtocolInv, ChInv, ControlInv, ChNext
<1> QED BY <1>2, <1>3, <1>4, TypeStep DEF ProtocolInv, ChInv, ControlInv, Transmit, serverVars, consumerVars

(* What the client sends, and when, keeps the shape of the wire.             *)
LEMMA WireShapeClient ==
  ASSUME ProtocolInv, Client, ~ Over'
  PROVE  WireShape'
<1> USE DEF WireShape
<1>1. CASE SayHello \/ Ping \/ \E q \in Queries : SendQuery(q)
  <2>1. PICK p \in Packet : /\ Transmit(p) /\ Request(p) /\ phase \in {"start", "idle"}
                            /\ p.type = "query" => p.body = current' /\ phase = "idle"
    BY <1>1, Marks, MsgFields DEF SayHello, Ping, SendQuery, Request
  <2>2. Answered /\ ~ Over /\ (phase = "idle" => hello) /\ RequestOnWire /\ TypeOK
    BY <2>1, Sending DEF PhasePlace, Answered
  <2>3. UNCHANGED <<pc, hello, stage, out>> /\ inbox' = Append(inbox, p)
    BY <2>1, Sending
  <2>4. /\ Len(inbox) \in Nat /\ Len(inbox') = Len(inbox) + 1
        /\ \A k \in 1..Len(inbox) : inbox'[k] = inbox[k]
        /\ inbox'[Len(inbox) + 1] = p
        /\ \A k \in 1..Len(inbox') : k \in 1..Len(inbox) \/ k = Len(inbox) + 1
    BY <2>2, <2>3, AddedPacket
  <2>5. \A k \in 1..Len(inbox) : inbox[k].type # "query"
    BY <2>2 DEF Answered, Request
  <2>6. RequestOnWire'
    <3>1. \A k \in 1..Len(inbox') : Leftover(inbox'[k]) \/ (pc' = "read" /\ Request(inbox'[k]))
      BY <2>1, <2>2, <2>3, <2>4 DEF RequestOnWire, Answered
    <3>2. \A j, k \in 1..Len(inbox') : Request(inbox'[j]) /\ Request(inbox'[k]) => j = k
      BY <2>2, <2>4 DEF Answered
    <3>3. ASSUME NEW k \in 1..Len(inbox'), inbox'[k].type = "query"
          PROVE  /\ inbox'[k].body = current' /\ hello'
                 /\ \A j \in (k + 1)..Len(inbox') : FALSE
      <4>1. k = Len(inbox) + 1
        BY <2>4, <2>5, <3>3
      <4> QED BY <2>1, <2>2, <2>3, <2>4, <3>3, <4>1
    <3> QED BY <3>1, <3>2, <3>3 DEF RequestOnWire
  <2> QED BY <2>2, <2>3, <2>6 DEF Answered
<1>2. CASE EndExternalTables
  <2>1. Transmit(EndMark) /\ phase = "query" /\ current' = current /\ EndMark \in Packet
    BY <1>2, Marks DEF EndExternalTables, EndMark
  <2>2. /\ PhasePlace /\ ~ Over /\ TypeOK /\ ClientTypeOK /\ ServerPlace
        /\ UNCHANGED <<pc, hello, stage, out>> /\ inbox' = Append(inbox, EndMark)
        /\ out # None => UploadOnWire
        /\ out = None => RequestOnWire
        /\ pc \in {"notified", "insert_eos"} => inbox = <<>>
    BY <2>1, Sending
  <2>3. /\ Len(inbox) \in Nat /\ Len(inbox') = Len(inbox) + 1
        /\ \A k \in 1..Len(inbox) : inbox'[k] = inbox[k]
        /\ inbox'[Len(inbox) + 1] = EndMark
        /\ \A k \in 1..Len(inbox') : k \in 1..Len(inbox) \/ k = Len(inbox) + 1
    BY <2>1, <2>2, AddedPacket
  <2>4. pc \notin {"notified", "insert_eos"}
    <3>1. inbox = <<>> => ~ Requested("query")
      BY DEF Requested
    <3>2. current \in Queries
      BY <2>1, <2>2 DEF ClientTypeOK
    <3> QED BY <2>1, <2>2, <3>1, <3>2 DEF PhasePlace, Answered, ServerPlace, Queries
  <2>5. CASE out # None
    <3>1. out = current /\ current \in Inserts
      BY <2>2, <2>5 DEF ServerPlace, TypeOK
    <3>2. inbox = <<>> /\ stage # "InsertStarted"
      BY <2>1, <2>2, <2>5, <3>1 DEF PhasePlace
    <3>3. Len(inbox') = 1 /\ inbox'[1] = EndMark
      BY <2>3, <3>2
    <3>4. UploadOnWire'
      BY <2>2, <3>2, <3>3 DEF UploadOnWire
    <3> QED BY <2>2, <2>4, <2>5, <3>4
  <2>6. CASE out = None
    <3>1. \A k \in 1..Len(inbox') : Leftover(inbox'[k]) \/ (pc' = "read" /\ Request(inbox'[k]))
      BY <2>2, <2>3, <2>6, Marks DEF RequestOnWire
    <3>2. \A j, k \in 1..Len(inbox') : Request(inbox'[j]) /\ Request(inbox'[k]) => j = k
      BY <2>2, <2>3, <2>6, Marks DEF RequestOnWire
    <3>3. ASSUME NEW k \in 1..Len(inbox'), inbox'[k].type = "query"
          PROVE  /\ inbox'[k].body = current' /\ hello'
                 /\ current' \in Inserts => \A j \in (k + 1)..Len(inbox') :
                      inbox'[j] = EndMark /\ j = k + 1 /\ j = Len(inbox')
      <4>1. k \in 1..Len(inbox) /\ inbox[k].type = "query"
        BY <2>3, <3>3, Marks
      <4>2. inbox[k].body = current /\ hello
        BY <2>2, <2>6, <4>1 DEF RequestOnWire
      <4>3. ASSUME current \in Inserts PROVE k = Len(inbox)
        <5>1. Requested("query")
          BY <4>1 DEF Requested
        <5>2. inbox[Len(inbox)].type = "query" /\ Len(inbox) \in 1..Len(inbox)
          BY <2>1, <2>2, <2>3, <4>1, <4>3, <5>1 DEF PhasePlace
        <5> QED BY <2>2, <2>6, <4>1, <5>2 DEF RequestOnWire, Request
      <4> QED BY <2>1, <2>2, <2>3, <4>1, <4>2, <4>3
    <3> QED BY <2>2, <2>4, <2>6, <3>1, <3>2, <3>3 DEF RequestOnWire
  <2> QED BY <2>5, <2>6
<1>3. CASE CancelSelect
  <2> DEFINE p == Msg("cancel", None)
  <2>1. Transmit(p) /\ phase = "select" /\ current' = current /\ p \in Packet /\ Leftover(p)
        /\ ~ Request(p) /\ p.type # "query"
    BY <1>3, Marks, MsgFields DEF CancelSelect, clientVars
  <2> HIDE DEF p
  <2>2. /\ PhasePlace /\ ~ Over /\ TypeOK /\ ClientTypeOK /\ ServerPlace
        /\ UNCHANGED <<pc, hello, stage, out>> /\ inbox' = Append(inbox, p)
        /\ out = None => RequestOnWire
    BY <2>1, Sending
  <2>3. /\ Len(inbox) \in Nat /\ Len(inbox') = Len(inbox) + 1
        /\ \A k \in 1..Len(inbox) : inbox'[k] = inbox[k]
        /\ inbox'[Len(inbox) + 1] = p
        /\ \A k \in 1..Len(inbox') : k \in 1..Len(inbox) \/ k = Len(inbox) + 1
    BY <2>1, <2>2, AddedPacket
  <2>4. current \in Selects /\ current \notin Inserts
    BY <2>1, <2>2, ConstantsAssumption DEF ClientTypeOK, ConstantsAssumption
  <2>5. out = None /\ pc \notin {"notified", "insert_eos"}
    BY <2>2, <2>4 DEF ServerPlace, TypeOK
  <2>6. RequestOnWire'
    BY <2>1, <2>2, <2>3, <2>4, <2>5 DEF RequestOnWire
  <2> QED BY <2>2, <2>5, <2>6
<1>4. CASE EndUpload \/ \E b \in Blocks : Upload(b)
  <2>1. PICK p \in Packet : /\ Transmit(p) /\ phase = "upload" /\ (IsBlock(p) \/ p = EndMark)
    BY <1>4, Marks DEF EndUpload, Upload, EndMark
  <2>2. /\ PhasePlace /\ ~ Over /\ TypeOK /\ ServerPlace /\ ClientTypeOK
        /\ UNCHANGED <<pc, hello, stage, out>> /\ inbox' = Append(inbox, p)
        /\ out # None => UploadOnWire
    BY <2>1, Sending
  <2>3. /\ Len(inbox) \in Nat /\ Len(inbox') = Len(inbox) + 1
        /\ \A k \in 1..Len(inbox) : inbox'[k] = inbox[k]
        /\ inbox'[Len(inbox) + 1] = p
        /\ \A k \in 1..Len(inbox') : k \in 1..Len(inbox) \/ k = Len(inbox) + 1
    BY <2>1, <2>2, AddedPacket
  <2>4. /\ out = current /\ pc \in {"read", "send"} /\ current \in Inserts
        /\ stage = "InsertPrepare" => inbox # <<>>
        /\ \A k \in 1..Len(inbox) : (k > 1 \/ stage = "InsertStarted") => IsBlock(inbox[k])
    BY <2>1, <2>2 DEF PhasePlace, ClientTypeOK
  <2>5. out # None /\ stage \in {"InsertPrepare", "InsertStarted"}
    BY <2>2, <2>4, InsertIsSome DEF ServerPlace, TypeOK
  <2>6. stage = "InsertPrepare" => Len(inbox) >= 1 /\ inbox'[1] = EndMark
    <3>1. stage = "InsertPrepare" => Len(inbox) >= 1 /\ inbox[1] = EndMark
      BY <2>2, <2>3, <2>4, <2>5 DEF UploadOnWire, TypeOK
    <3> QED BY <2>3, <3>1
  <2>7. UploadOnWire'
    BY <2>1, <2>2, <2>3, <2>4, <2>5, <2>6 DEF UploadOnWire
  <2> QED BY <2>2, <2>4, <2>5, <2>7
<1>5. CASE Receive \/ NoticeEnd
  <2>1. UNCHANGED <<pc, hello, stage, out, inbox, current>>
    BY <1>5 DEF Receive, NoticeEnd, chVars, serverVars, wireVars
  <2>2. WireShape
    BY <2>1 DEF ProtocolInv, Over
  <2> QED BY <2>1, <2>2 DEF UploadOnWire, RequestOnWire
<1> QED BY <1>1, <1>2, <1>3, <1>4, <1>5 DEF Client

(* So does reading a packet.                                                 *)
LEMMA WireShapeRead ==
  ASSUME ProtocolInv, Read, current' = current, ~ Over'
  PROVE  WireShape'
<1> USE DEF WireShape, serverVars, consumerVars, wireVars, uploadVars
<1>0. TypeOK /\ Suspended /\ pc = "read" /\ WireShape /\ ServerPlace /\ StageHasSender
  BY ReadCases
<1>1. CASE ReadPing \/ ReadHello \/ ReadSelect \/ ReadCancel \/ (ReadEmpty /\ out = None)
  <2>1. /\ inbox # <<>> /\ inbox' = Tail(inbox) /\ out = None /\ out' = None /\ (hello => hello')
        /\ pc' = "read" \/ (Request(Head(inbox)) /\ pc' \in {"pong", "hello", "select"})
    <3>1. CASE ReadPing \/ ReadCancel \/ ReadSelect
      BY <1>0, <3>1, ReadCases DEF ReadPing, ReadCancel, ReadSelect, Arrived, Consume, Request
    <3>2. CASE ReadHello
      BY <1>0, <3>2, ReadCases DEF ReadHello, Arrived, Consume, Request
    <3>3. CASE ReadEmpty /\ out = None
      BY <1>0, <3>3, ReadCases DEF ReadEmpty, Arrived, Consume
    <3> QED BY <1>1, <3>1, <3>2, <3>3
  <2>2. /\ Len(inbox) \in Nat /\ Len(inbox') = Len(inbox) - 1 /\ Head(inbox) = inbox[1]
        /\ 1 \in 1..Len(inbox)
        /\ \A k \in 1..Len(inbox') : inbox'[k] = inbox[k + 1] /\ k + 1 \in 1..Len(inbox) /\ k + 1 # 1
    BY <1>0, <2>1, TakenPacket
  <2>3. RequestOnWire
    BY <1>0, <2>1
  <2>4. \A k \in 1..Len(inbox') : Leftover(inbox'[k]) \/ (pc' = "read" /\ Request(inbox'[k]))
    BY <2>1, <2>2, <2>3 DEF RequestOnWire
  <2>5. \A j, k \in 1..Len(inbox') : Request(inbox'[j]) /\ Request(inbox'[k]) => j = k
    <3>1. ASSUME NEW j \in 1..Len(inbox'), NEW k \in 1..Len(inbox'),
                 Request(inbox'[j]), Request(inbox'[k])
          PROVE  j = k
      <4>1. /\ j + 1 \in 1..Len(inbox) /\ Request(inbox[j + 1])
            /\ k + 1 \in 1..Len(inbox) /\ Request(inbox[k + 1])
        BY <2>2, <3>1
      <4>2. j + 1 = k + 1
        BY <2>3, <4>1 DEF RequestOnWire
      <4> QED BY <4>2
    <3> QED BY <3>1
  <2>6. ASSUME NEW k \in 1..Len(inbox'), inbox'[k].type = "query"
        PROVE  /\ inbox'[k].body = current' /\ hello'
               /\ current' \in Inserts => \A j \in (k + 1)..Len(inbox') :
                    inbox'[j] = EndMark /\ j = k + 1 /\ j = Len(inbox')
    <3>1. k + 1 \in 1..Len(inbox) /\ inbox[k + 1].type = "query"
      BY <2>2, <2>6
    <3>2. /\ inbox[k + 1].body = current /\ hello
          /\ current \in Inserts => \A j \in ((k + 1) + 1)..Len(inbox) :
               inbox[j] = EndMark /\ j = (k + 1) + 1 /\ j = Len(inbox)
      BY <2>3, <3>1 DEF RequestOnWire
    <3>3. \A j \in (k + 1)..Len(inbox') : /\ j + 1 \in ((k + 1) + 1)..Len(inbox)
                                          /\ inbox'[j] = inbox[j + 1]
      BY <2>2
    <3>4. current \in Inserts => \A j \in (k + 1)..Len(inbox') :
            inbox'[j] = EndMark /\ j + 1 = (k + 1) + 1 /\ j + 1 = Len(inbox)
      BY <3>2, <3>3
    <3>5. inbox'[k].body = current /\ hello'
      BY <2>1, <2>2, <3>2
    <3> QED BY <2>2, <3>4, <3>5
  <2>7. RequestOnWire'
    BY <2>4, <2>5, <2>6 DEF RequestOnWire
  <2> QED BY <2>1, <2>7
<1>2. CASE ReadInsert
  <2>1. /\ inbox # <<>> /\ inbox' = Tail(inbox) /\ out = None /\ out' # None
        /\ stage' = stage /\ pc' = "sample" /\ stage = "Default"
    BY <1>0, <1>2, ReadCases, InsertIsSome DEF ReadInsert, Arrived, Consume, StageHasSender
  <2>2. /\ Len(inbox) \in Nat /\ Len(inbox') = Len(inbox) - 1 /\ Head(inbox) = inbox[1]
        /\ 1 \in 1..Len(inbox)
        /\ \A k \in 1..Len(inbox') : inbox'[k] = inbox[k + 1] /\ k + 1 \in (1 + 1)..Len(inbox)
    BY <1>0, <2>1, TakenPacket
  <2>3. inbox[1].type = "query" /\ current \in Inserts
    BY <1>2, <2>2, ReadCases, MsgFields DEF ReadInsert, Arrived
  <2>4. \A j \in (1 + 1)..Len(inbox) : inbox[j] = EndMark /\ j = 1 + 1 /\ j = Len(inbox)
    BY <1>0, <2>1, <2>2, <2>3 DEF RequestOnWire
  <2>5. Len(inbox') <= 1 /\ \A k \in 1..Len(inbox') : inbox'[k] = EndMark /\ k = 1
    <3>1. \A k \in 1..Len(inbox') : inbox'[k] = EndMark /\ k + 1 = 1 + 1
      BY <2>2, <2>4
    <3>2. Len(inbox') > 1 => Len(inbox') \in 1..Len(inbox') /\ Len(inbox') # 1
      BY <2>2
    <3> QED BY <2>2, <3>1, <3>2
  <2>6. inbox' # <<>> => 1 \in 1..Len(inbox')
    <3>1. inbox' \in Seq(Packet)
      BY <1>0, <2>1 DEF TypeOK
    <3> QED BY <3>1
  <2>7. UploadOnWire'
    BY <2>1, <2>5, <2>6 DEF UploadOnWire
  <2> QED BY <2>1, <2>7
<1>3. CASE ReadBlock \/ (ReadEmpty /\ out # None /\ stage = "InsertPrepare")
  <2>1. /\ inbox # <<>> /\ inbox' = Tail(inbox) /\ out # None /\ out' = out
        /\ stage' = "InsertStarted" /\ pc' \in {"read", "send"}
        /\ stage \in {"InsertPrepare", "InsertStarted"}
    BY <1>0, <1>3, ReadCases DEF ReadBlock, ReadEmpty, Arrived, Consume
  <2>2. /\ Len(inbox) \in Nat /\ Len(inbox') = Len(inbox) - 1
        /\ \A k \in 1..Len(inbox') : /\ inbox'[k] = inbox[k + 1] /\ k + 1 \in 1..Len(inbox)
                                     /\ k + 1 > 1 /\ (k + 1 = Len(inbox) <=> k = Len(inbox'))
    BY <1>0, <2>1, TakenPacket
  <2>3. \A k \in 1..Len(inbox) : k > 1 => IsBlock(inbox[k]) \/ (inbox[k] = EndMark /\ k = Len(inbox))
    BY <1>0, <2>1 DEF UploadOnWire
  <2>4. \A k \in 1..Len(inbox') : IsBlock(inbox'[k]) \/ (inbox'[k] = EndMark /\ k = Len(inbox'))
    BY <2>2, <2>3
  <2>5. UploadOnWire'
    BY <2>1, <2>4 DEF UploadOnWire
  <2> QED BY <2>1, <2>5
<1>4. CASE ReadEmpty /\ out # None /\ stage # "InsertPrepare"
  <2>1. inbox' = <<>> /\ out' = None
    BY <1>4, ReadCases
  <2>2. RequestOnWire'
    BY <2>1 DEF RequestOnWire
  <2> QED BY <2>1, <2>2
<1>5. CASE ReadErr \/ ReadNone
  BY <1>5 DEF ReadErr, ReadNone, Over
<1> QED BY <1>1, <1>2, <1>3, <1>4, <1>5 DEF Read

(* So does every step.                                                       *)
LEMMA WireShapeStep ==
  ASSUME ProtocolInv, [Next]_vars, ~ Over'
  PROVE  WireShape'
<1>0. TypeOK /\ Suspended /\ ~ Over /\ WireShape /\ ServerPlace
  BY ProtocolStep, OverStep DEF ProtocolInv, ChInv, ControlInv
<1> USE DEF serverVars, consumerVars, wireVars, uploadVars
\* The wire is left alone; the task moves on or comes back to reading.
<1>1. ASSUME UNCHANGED <<inbox, hello, current, out>>,
             out # None => stage' = stage \/ (pc = "sample" /\ stage' = "InsertPrepare"),
             pc' # "sample" \/ pc = "sample",
             pc' = pc \/ pc' = "read" \/ pc # "read",
             pc' \in {"notified", "insert_eos"} => pc \in {"notified", "insert_eos"}
      PROVE  WireShape'
  <2>1. CASE out # None
    <3>1. stage' = "InsertStarted" => stage = "InsertStarted"
      BY <1>1, <2>1
    <3>2. stage' # "InsertStarted" => stage # "InsertStarted"
      BY <1>0, <1>1, <2>1 DEF ServerPlace
    <3> QED BY <1>0, <1>1, <2>1, <3>1, <3>2 DEF WireShape, UploadOnWire
  <2>2. CASE out = None
    BY <1>0, <1>1, <2>2 DEF WireShape, RequestOnWire
  <2> QED BY <2>1, <2>2
<1>2. CASE TaskStep /\ Resume
  <2>1. UNCHANGED <<inbox, hello, current>>
    BY <1>2 DEF TaskStep, clientVars, Resume, WritePong, WriteHello, WriteSelectBlock, WriteProgress,
       SelectReturns, WriteSample, SessionErr, WriteEos, SendBlock, TakePermit, WriteInsertEos,
       WriteException, WriteFails
  <2>2. CASE SessionErr \/ WriteFails \/ WriteException
    BY <2>2 DEF SessionErr, WriteFails, WriteException, ReturnErr, ReturnAfterError, Over
  <2>3. CASE WritePong \/ WriteHello \/ WriteSelectBlock \/ WriteProgress \/ WriteEos
    BY <1>1, <2>1, <2>3 DEF WritePong, WriteHello, WriteSelectBlock, WriteProgress, WriteEos
  <2>4. CASE SelectReturns \/ WriteSample
    <3>1. SelectReturns => out = None
      BY <1>0 DEF SelectReturns, ServerPlace
    <3> QED BY <1>1, <2>1, <2>4, <3>1 DEF SelectReturns, WriteSample, ExecuteOk
  <2>5. CASE SendBlock \/ TakePermit
    BY <1>1, <2>1, <2>5 DEF SendBlock, TakePermit
  <2>6. CASE WriteInsertEos
    <3>1. out = None
      BY <1>0, <2>6 DEF WriteInsertEos, Suspended
    <3> QED BY <1>1, <2>1, <2>6, <3>1 DEF WriteInsertEos
  <2> QED BY <1>2, <2>2, <2>3, <2>4, <2>5, <2>6 DEF Resume
<1>3. CASE TaskStep /\ Read
  BY <1>3, WireShapeRead DEF TaskStep, clientVars
<1>4. CASE Client
  BY <1>4, WireShapeClient
<1>5. ASSUME NEW q \in Inserts, ConsumerStep(q) PROVE WireShape'
  BY <1>1, <1>5 DEF ConsumerStep, ConsumerTask, NextBlock, Finish, clientVars
<1>6. CASE Fail \/ UNCHANGED vars
  BY <1>1, <1>6 DEF Fail, Disconnect, vars, clientVars, chVars
<1> QED BY <1>2, <1>3, <1>4, <1>5, <1>6 DEF Next, TaskStep, Task

-----------------------------------------------------------------------------
(* The consumers, the permit and the acknowledgements. *)

(* When the end of the data is the last packet, everything that was uploaded *)
(* has been taken by the consumer or is in the channel.                      *)
LEMMA LastPacket ==
  ASSUME ChInv, NEW w \in Inserts, out = w, pc = "read", Len(inbox) = 1, inbox[1] = EndMark
  PROVE  got[w] \o chan[w] = uploaded[w]
<1>0. TypeOK /\ Suspended /\ DeliveredInOrder /\ InFlightInOrder
  BY DEF ChInv, ControlInv, DeliveryInv
<1>1. inbox \in Seq(Packet) /\ inbox # <<>> /\ uploaded[w] \in Seq(Blocks) /\ Tail(inbox) = <<>>
  <2>1. inbox \in Seq(Packet) /\ inbox # <<>> /\ uploaded[w] \in Seq(Blocks)
    <3>1. inbox = <<>> => Len(inbox) = 0
      BY EmptySeq
    <3> QED BY <1>0, <3>1 DEF TypeOK
  <2>2. Tail(inbox) \in Seq(Packet) /\ Len(Tail(inbox)) = 0
    BY <2>1
  <2>3. ASSUME NEW t \in Seq(Packet), Len(t) = 0 PROVE t = <<>>
    BY <2>3, EmptySeq
  <2> QED BY <2>1, <2>2, <2>3, Zenon
<1>2. Received(w) = got[w] \o chan[w] /\ Received(w) \in Seq(Blocks)
  BY <1>0, ReceivedIs
<1>3. Follows(inbox, 0, Len(Received(w)), uploaded[w])
  <2>1. Opens(w, 0) /\ 0 \in 0..Len(inbox)
    BY DEF Opens
  <2> QED BY <1>0, <2>1 DEF InFlightInOrder
<1>4. ~ IsInsert(inbox[1]) /\ ~ IsBlock(inbox[1])
  BY Marks DEF IsInsert
<1>5. Follows(<<>>, 0, Len(Received(w)), uploaded[w])
  BY <1>1, <1>3, <1>4, FollowsFirst
<1>6. Len(Received(w)) = Len(uploaded[w])
  BY <1>1, <1>5, FollowsEmpty
<1>7. \A i \in 1..Len(Received(w)) : Received(w)[i] = uploaded[w][i]
  BY <1>0, <1>1, <1>2, PrefixByElements DEF DeliveredInOrder
<1> QED BY <1>1, <1>2, <1>6, <1>7, SeqEqual

(* Only the consumer of the INSERT in progress runs, and the permit that     *)
(* notified() takes is its own.                                              *)
LEMMA OneConsumerStep ==
  ASSUME ProtocolInv, [Next]_vars, ~ Over'
  PROVE  OneConsumer'
<1>0. /\ TypeOK /\ Suspended /\ FinishedIsDrained /\ FreshQueries /\ DeliveryInv
      /\ ~ Over /\ WireShape /\ ServerPlace /\ OneConsumer /\ OneQuery
  BY ProtocolStep, OverStep DEF ProtocolInv, ChInv, ControlInv
<1> USE DEF serverVars, consumerVars, wireVars, uploadVars
\* The consumers stand still, the task is not at the end of an upload.
<1>1. ASSUME UNCHANGED <<consumer, permit>>,
             pc \notin {"notified", "insert_eos"}, pc' \notin {"notified", "insert_eos"},
             out' = out \/ out = None
      PROVE  OneConsumer'
  BY <1>0, <1>1, InsertIsSome DEF OneConsumer
<1>2. ASSUME UNCHANGED <<consumer, permit, got, chan, uploaded, out, pc, query>> PROVE OneConsumer'
  BY <1>0, <1>2 DEF OneConsumer
<1>3. CASE Read
  <2>1. pc = "read" /\ UNCHANGED <<consumer, permit, got, chan, uploaded>>
    BY <1>3, ReadCases DEF Read, ReadPing, ReadCancel, ReadHello, ReadSelect, ReadInsert, ReadBlock,
                           ReadEmpty, ReadErr, ReadNone
  <2>2. CASE ReadPing \/ ReadCancel \/ ReadHello \/ ReadSelect \/ ReadBlock \/ ReadInsert
    <3>1. pc' \notin {"notified", "insert_eos"} /\ (out' = out \/ out = None)
      BY <1>3, <2>1, <2>2, ReadCases DEF ReadPing, ReadCancel, ReadHello, ReadSelect, ReadBlock,
                                         ReadInsert
    <3> QED BY <1>1, <2>1, <3>1
  <2>3. CASE ReadErr \/ ReadNone
    BY <2>3 DEF ReadErr, ReadNone, Over
  <2>4. CASE ReadEmpty /\ pc' # "notified"
    <3>1. UNCHANGED <<out, pc>>
      BY <1>3, <2>4, ReadCases
    <3> QED BY <1>1, <2>1, <3>1
  <2>5. CASE ReadEmpty /\ pc' = "notified"
    <3>1. PICK w \in Inserts : w = out
      BY <1>0, <1>3, <2>1, <2>5, ReadCases DEF TypeOK
    <3>2. /\ out # None /\ out' = None /\ Len(inbox) = 1 /\ inbox[1] = EndMark
          /\ query' = query /\ query = w
      <4>1. query' = query /\ out # None /\ out' = None /\ Len(inbox) = 1 /\ inbox[1] = EndMark
        BY <1>3, <2>1, <2>5, ReadCases DEF ReadEmpty
      <4> QED BY <1>0, <3>1, <4>1 DEF ServerPlace, Busy
    <3>3. got[w] \o chan[w] = uploaded[w]
      BY <2>1, <3>1, <3>2, LastPacket DEF ProtocolInv
    <3> QED BY <1>0, <2>1, <2>5, <3>1, <3>2, <3>3 DEF OneConsumer
  <2> QED BY <1>3, <2>2, <2>3, <2>4, <2>5 DEF Read
<1>4. CASE Resume
  <2>1. CASE WritePong \/ WriteHello \/ WriteSelectBlock \/ WriteProgress \/ WriteEos \/ SendBlock
    BY <1>1, <2>1 DEF WritePong, WriteHello, WriteSelectBlock, WriteProgress, WriteEos, SendBlock
  <2>2. CASE SelectReturns
    BY <1>1, <2>2 DEF SelectReturns, ExecuteOk
  <2>3. CASE WriteSample
    <3>1. /\ query \in Inserts /\ out = query /\ out' = out /\ pc' = "read" /\ pc = "sample"
          /\ consumer' = [consumer EXCEPT ![query] = "running"] /\ permit' = permit
      BY <1>0, <2>3, InsertIsSome DEF WriteSample, ExecuteOk, Suspended
    <3> QED BY <1>0, <3>1 DEF OneConsumer, TypeOK
  <2>4. CASE SessionErr \/ WriteFails \/ WriteException
    BY <2>4 DEF SessionErr, WriteFails, WriteException, ReturnErr, ReturnAfterError, Over
  <2>5. CASE TakePermit
    <3>1. /\ pc = "notified" /\ pc' = "insert_eos" /\ permit /\ ~ permit'
          /\ UNCHANGED <<out, query, consumer, got, chan, uploaded>>
      BY <2>5 DEF TakePermit, Notified
    <3>2. query = current /\ current \in Inserts /\ out = None
      BY <1>0, <3>1 DEF ServerPlace, Busy, Suspended
    <3>3. consumer[query] = "finished" /\ got[query] \o chan[query] = uploaded[query]
      BY <1>0, <3>1 DEF OneConsumer
    <3>4. chan[query] = <<>> /\ got[query] \in Seq(Blocks)
      BY <1>0, <3>2, <3>3 DEF FinishedIsDrained, TypeOK
    <3>5. got[query] = uploaded[query]
      BY <3>3, <3>4, ConcatEmptySeq
    <3>6. \A q \in Inserts : consumer[q] = "running" => q = out
      BY <1>0, <3>3 DEF OneConsumer
    <3> QED BY <3>1, <3>3, <3>5, <3>6 DEF OneConsumer
  <2>6. CASE WriteInsertEos
    <3>1. pc = "insert_eos" /\ pc' = "read" /\ UNCHANGED <<out, consumer, permit>>
      BY <2>6 DEF WriteInsertEos
    <3> QED BY <1>0, <3>1 DEF OneConsumer
  <2> QED BY <1>4, <2>1, <2>2, <2>3, <2>4, <2>5, <2>6 DEF Resume
<1>5. ASSUME NEW q \in Inserts, ConsumerTask(q) PROVE OneConsumer'
  <2>1. CASE NextBlock(q)
    <3>1. /\ consumer[q] = "running" /\ chan[q] # <<>> /\ UNCHANGED <<consumer, permit, out, pc, query>>
          /\ got' = [got EXCEPT ![q] = Append(got[q], Head(chan[q]))]
          /\ chan' = [chan EXCEPT ![q] = Tail(chan[q])] /\ uploaded' = uploaded
      BY <2>1 DEF NextBlock
    <3>2. chan \in [Inserts -> Seq(Blocks)] /\ got \in [Inserts -> Seq(Blocks)]
      BY <1>0 DEF TypeOK
    <3>3. /\ got'[q] \o chan'[q] = got[q] \o chan[q]
          /\ \A r \in Inserts : r # q => got'[r] = got[r] /\ chan'[r] = chan[r]
      BY <3>1, <3>2, MoveHead
    <3>4. pc \in {"notified", "insert_eos"} => query \in Inserts
      BY <1>0 DEF ServerPlace, Busy
    <3>5. pc = "insert_eos" => query # q
      BY <1>0, <3>1 DEF OneConsumer
    <3> QED BY <1>0, <3>1, <3>3, <3>4, <3>5 DEF OneConsumer
  <2>2. CASE Finish(q)
    <3>1. /\ consumer[q] = "running" /\ out # q /\ permit'
          /\ consumer' = [consumer EXCEPT ![q] = "finished"]
          /\ UNCHANGED <<got, chan, uploaded, out, pc, query>>
      BY <2>2 DEF Finish, StreamEnded, NotifyOne
    <3>2. pc = "notified" /\ q = query
      BY <1>0, <3>1 DEF OneConsumer
    <3> QED BY <1>0, <3>1, <3>2 DEF OneConsumer, TypeOK
  <2> QED BY <1>5, <2>1, <2>2 DEF ConsumerTask
<1>6. ASSUME NEW b \in Blocks, Upload(b) PROVE OneConsumer'
  <2>1. Transmit(Msg("data", b)) /\ phase = "upload" /\ Msg("data", b) \in Packet
    BY <1>6, Marks DEF Upload
  <2>2. PhasePlace /\ UNCHANGED <<pc, out, consumer, permit>>
    BY <2>1, Sending
  <2>3. pc \in {"read", "send"}
    BY <2>1, <2>2 DEF PhasePlace
  <2> QED BY <1>1, <2>2, <2>3
<1>7. CASE Client /\ ~ \E b \in Blocks : Upload(b)
  <2>1. UNCHANGED <<consumer, permit, got, chan, out, pc, query>>
    BY <1>7 DEF Client, SayHello, Ping, SendQuery, EndExternalTables, CancelSelect, EndUpload,
                Receive, NoticeEnd, Transmit, chVars
  <2>2. uploaded' = uploaded
    <3>1. EmptyBlock \notin Blocks
      BY ConstantsAssumption DEF ConstantsAssumption
    <3> QED BY <1>7, <3>1, MsgFields
            DEF Client, SayHello, Ping, SendQuery, EndExternalTables, CancelSelect, EndUpload,
                Receive, NoticeEnd, Transmit, chVars
  <2> QED BY <1>2, <2>1, <2>2
<1>8. CASE Fail \/ UNCHANGED vars
  BY <1>2, <1>8 DEF Fail, Disconnect, vars, chVars
<1> QED BY <1>3, <1>4, <1>5, <1>6, <1>7, <1>8 DEF Next, TaskStep, Task, ConsumerStep

(* The INSERT that a block is uploaded for is the one the server feeds.      *)
LEMMA UploadTarget ==
  ASSUME ProtocolInv, NEW b \in Blocks, Upload(b)
  PROVE  /\ target = current /\ current \in Inserts /\ out = current
         /\ consumer[current] = "running"
         /\ uploaded' = [uploaded EXCEPT ![current] = Append(uploaded[current], b)]
<1>1. Transmit(Msg("data", b)) /\ phase = "upload" /\ Msg("data", b) \in Packet
  BY Marks DEF Upload
<1>2. /\ TypeOK /\ PhasePlace /\ ClientTypeOK /\ SendNeverPanics /\ InFlightInOrder /\ WireShape
      /\ ServerPlace
  BY <1>1, Sending DEF ProtocolInv, ChInv, ControlInv, DeliveryInv
<1>3. out = current /\ current \in Inserts /\ pc \in {"read", "send"} /\ out # None
  BY <1>1, <1>2, InsertIsSome DEF PhasePlace, ClientTypeOK
<1>4. SameUpload(inbox, 0, Len(inbox))
  <2>1. UploadOnWire /\ stage # "Default"
    BY <1>2, <1>3 DEF WireShape, ServerPlace
  <2>2. Len(inbox) \in Nat /\ (0 < Len(inbox) => inbox # <<>>)
    BY <1>2 DEF TypeOK
  <2>3. ASSUME NEW k \in 1..Len(inbox) PROVE ~ IsInsert(inbox[k])
    <3>1. CASE k > 1 \/ stage = "InsertStarted"
      BY <2>1, <3>1, Marks DEF UploadOnWire, IsInsert
    <3>2. CASE ~ (k > 1 \/ stage = "InsertStarted")
      <4>1. k = 1 /\ inbox # <<>>
        BY <2>2, <3>2
      <4> QED BY <2>1, <3>2, <4>1, Marks DEF UploadOnWire, IsInsert
    <3> QED BY <3>1, <3>2
  <2> QED BY <2>3 DEF SameUpload
<1>5. target = current
  <2>1. Opens(current, 0) /\ 0 \in 0..Len(inbox)
    BY <1>2, <1>3 DEF Opens, TypeOK
  <2> QED BY <1>2, <1>3, <1>4, <2>1 DEF InFlightInOrder
<1>6. consumer[current] = "running"
  BY <1>2, <1>3 DEF SendNeverPanics
<1>7. uploaded' = [uploaded EXCEPT ![current] = Append(uploaded[current], b)]
  <2>1. ASSUME NEW p, p.type = "data", p.body = b, Transmit(p)
        PROVE  uploaded' = [uploaded EXCEPT ![current] = Append(uploaded[current], b)]
    <3>1. target # None
      BY <1>3, <1>5
    <3>2. uploaded' = [uploaded EXCEPT ![target] = Append(uploaded[target], p.body)]
      BY <2>1, <3>1 DEF Transmit
    <3> QED BY <1>5, <2>1, <3>2
  <2> QED BY <1>1, <2>1, MsgFields
<1> QED BY <1>3, <1>5, <1>6, <1>7

(* The steps of the client but Upload leave what was uploaded alone.         *)
LEMMA ClientLeaves ==
  ASSUME Client
  PROVE  /\ UNCHANGED <<pc, hello, stage, out, query, chan, consumer, got, permit, sent>>
         /\ uploaded' = uploaded \/ \E b \in Blocks : Upload(b)
<1> USE DEF chVars, serverVars, consumerVars, wireVars, uploadVars
<1>1. UNCHANGED <<pc, hello, stage, out, query, chan, consumer, got, permit, sent>>
  BY DEF Client, SayHello, Ping, SendQuery, EndExternalTables, CancelSelect, Upload, EndUpload,
         Receive, NoticeEnd, Transmit
<1>2. uploaded' = uploaded \/ \E b \in Blocks : Upload(b)
  <2>1. EmptyBlock \notin Blocks
    BY ConstantsAssumption DEF ConstantsAssumption
  <2> QED BY <2>1, MsgFields
          DEF Client, SayHello, Ping, SendQuery, EndExternalTables, CancelSelect, EndUpload,
              Receive, NoticeEnd, Transmit
<1> QED BY <1>1, <1>2

(* EndOfStream of an INSERT follows the end of its consumer, and what was    *)
(* uploaded and stored does not change afterwards.                           *)
LEMMA AckedStoredStep ==
  ASSUME ProtocolInv, [Next]_vars
  PROVE  AckedInsertIsStored'
<1>0. /\ TypeOK /\ Suspended /\ AckedInsertIsStored
      /\ ~ Over => ServerPlace /\ OneConsumer
  BY DEF ProtocolInv, ChInv, ControlInv
<1> USE DEF chVars, serverVars, consumerVars, wireVars, uploadVars
<1>1. ASSUME \A q \in Inserts : Acked(q)' => Acked(q),
             UNCHANGED <<consumer, got, uploaded>>
      PROVE  AckedInsertIsStored'
  BY <1>0, <1>1 DEF AckedInsertIsStored
<1>2. ASSUME sent' = sent, UNCHANGED <<consumer, got, uploaded>> PROVE AckedInsertIsStored'
  BY <1>1, <1>2, AckedKept
<1>3. CASE Read
  BY <1>2, <1>3 DEF Read, ReadPing, ReadCancel, ReadHello, ReadSelect, ReadInsert, ReadBlock,
                    ReadEmpty, ReadErr, ReadNone
<1>4. CASE Resume
  <2>1. ASSUME NEW t, Write(t), t # "eos", UNCHANGED <<consumer, got, uploaded>>
        PROVE  AckedInsertIsStored'
    BY <1>0, <1>1, <2>1, AckedWritten DEF Write
  <2>2. CASE WritePong \/ WriteHello \/ WriteSelectBlock \/ WriteProgress \/ WriteException
    BY <2>1, <2>2 DEF WritePong, WriteHello, WriteSelectBlock, WriteProgress, WriteException
  <2>3. CASE SelectReturns \/ SessionErr \/ SendBlock \/ TakePermit \/ WriteFails
    BY <1>2, <2>3 DEF SelectReturns, SessionErr, SendBlock, TakePermit, WriteFails
  <2>4. CASE WriteSample
    <3>1. /\ Write("block") /\ query \in Inserts /\ consumer[query] = "none"
          /\ consumer' = [consumer EXCEPT ![query] = "running"] /\ UNCHANGED <<got, uploaded>>
      BY <1>0, <2>4 DEF WriteSample, Suspended
    <3>2. \A q \in Inserts : Acked(q)' => Acked(q)
      BY <1>0, <3>1, AckedWritten DEF Write
    <3> QED BY <1>0, <3>1, <3>2 DEF AckedInsertIsStored, TypeOK
  <2>5. CASE WriteEos
    <3>1. Write("eos") /\ pc = "eos" /\ UNCHANGED <<consumer, got, uploaded>>
      BY <2>5 DEF WriteEos
    <3>2. query \in Selects
      BY <1>0, <3>1 DEF Over, ServerPlace, Busy
    <3>3. \A q \in Inserts : Acked(q)' => Acked(q)
      BY <1>0, <3>1, <3>2, AckedWritten, ConstantsAssumption DEF Write, ConstantsAssumption
    <3> QED BY <1>1, <3>1, <3>3
  <2>6. CASE WriteInsertEos
    <3>1. Write("eos") /\ pc = "insert_eos" /\ UNCHANGED <<consumer, got, uploaded>>
      BY <2>6 DEF WriteInsertEos
    <3>2. consumer[query] = "finished" /\ got[query] = uploaded[query]
      BY <1>0, <3>1 DEF Over, OneConsumer
    <3>3. \A q \in Inserts : Acked(q)' => Acked(q) \/ q = query
      BY <1>0, <3>1, AckedWritten DEF Write
    <3> QED BY <1>0, <3>1, <3>2, <3>3 DEF AckedInsertIsStored
  <2> QED BY <1>4, <2>2, <2>3, <2>4, <2>5, <2>6 DEF Resume
<1>5. ASSUME NEW q \in Inserts, ConsumerTask(q) PROVE AckedInsertIsStored'
  <2>1. /\ consumer[q] = "running" /\ sent' = sent /\ uploaded' = uploaded
        /\ \A r \in Inserts : r # q => consumer'[r] = consumer[r] /\ got'[r] = got[r]
    BY <1>0, <1>5 DEF ConsumerTask, NextBlock, Finish, TypeOK
  <2>2. ~ Acked(q)
    BY <1>0, <2>1 DEF AckedInsertIsStored
  <2> QED BY <1>0, <2>1, <2>2, AckedKept DEF AckedInsertIsStored
<1>6. CASE Client
  <2>1. UNCHANGED <<consumer, got, sent>> /\ (uploaded' = uploaded \/ \E b \in Blocks : Upload(b))
    BY <1>6, ClientLeaves
  <2>2. ASSUME NEW b \in Blocks, Upload(b) PROVE AckedInsertIsStored'
    <3>1. /\ current \in Inserts /\ consumer[current] = "running"
          /\ uploaded' = [uploaded EXCEPT ![current] = Append(uploaded[current], b)]
      BY <2>2, UploadTarget
    <3>2. ~ Acked(current)
      BY <1>0, <3>1 DEF AckedInsertIsStored
    <3>3. \A q \in Inserts : q # current => uploaded'[q] = uploaded[q]
      BY <1>0, <3>1 DEF TypeOK
    <3> QED BY <1>0, <2>1, <3>2, <3>3, AckedKept DEF AckedInsertIsStored
  <2> QED BY <1>2, <2>1, <2>2
<1>7. CASE Fail \/ UNCHANGED vars
  BY <1>2, <1>7 DEF Fail, Disconnect, vars
<1> QED BY <1>3, <1>4, <1>5, <1>6, <1>7 DEF Next, TaskStep, Task, ConsumerStep

(* A query becomes accepted when the server reads it, and at no other step.  *)
LEMMA AcceptedStep ==
  ASSUME TypeOK, FreshQueries, [ChNext]_chVars, NEW q
  PROVE  Accepted(q)' <=> \/ Accepted(q)
                          \/ (ReadSelect \/ ReadInsert) /\ inbox[1] = Msg("query", q)
<1> USE DEF chVars, serverVars, consumerVars, wireVars, uploadVars
<1>1. inbox # <<>> => Head(inbox) = inbox[1]
  BY DEF TypeOK
<1>2. CASE ReadSelect \/ ReadInsert
  BY <1>2, AcceptedTaken DEF ReadSelect, ReadInsert, Arrived, Consume
<1>3. CASE ReadPing \/ ReadCancel \/ ReadHello \/ ReadBlock \/ ReadEmpty
  <2>1. inbox # <<>> /\ inbox' = Tail(inbox) /\ issued' = issued /\ Head(inbox).type # "query"
    BY <1>3 DEF ReadPing, ReadCancel, ReadHello, ReadBlock, ReadEmpty, Arrived, Consume
  <2>2. inbox[1] # Msg("query", q)
    BY <1>1, <2>1, MsgFields
  <2> QED BY <2>1, <2>2, AcceptedTaken
<1>4. CASE ReadErr \/ ReadNone \/ Resume
  <2>1. inbox' = inbox /\ issued' = issued
    BY <1>4 DEF ReadErr, ReadNone, Resume, WritePong, WriteHello, WriteSelectBlock, WriteProgress,
                SelectReturns, WriteSample, SessionErr, WriteEos, SendBlock, TakePermit,
                WriteInsertEos, WriteException, WriteFails
  <2> QED BY <1>2, <2>1, AcceptedKept
<1>5. CASE Disconnect \/ (\E r \in Inserts : ConsumerTask(r)) \/ UNCHANGED chVars
  <2>1. inbox' = inbox /\ issued' = issued
    BY <1>5 DEF Disconnect, ConsumerTask, NextBlock, Finish
  <2> QED BY <1>2, <2>1, AcceptedKept
<1>6. ASSUME NEW p \in Packet, Transmit(p)
      PROVE  Accepted(q)' <=> \/ Accepted(q)
                              \/ (ReadSelect \/ ReadInsert) /\ inbox[1] = Msg("query", q)
  BY <1>2, <1>6, AcceptedAdded
<1> QED BY <1>2, <1>3, <1>4, <1>5, <1>6 DEF ChNext, Task, Read

(* A query is acknowledged by write_end_of_stream, and at no other step.     *)
LEMMA AckedStep ==
  ASSUME TypeOK, [ChNext]_chVars, NEW q
  PROVE  Acked(q)' <=> Acked(q) \/ ((WriteEos \/ WriteInsertEos) /\ q = query)
<1> USE DEF chVars, serverVars, consumerVars, wireVars, uploadVars
<1>1. CASE WriteEos \/ WriteInsertEos
  BY <1>1, AckedWritten DEF WriteEos, WriteInsertEos, Write
<1>2. ASSUME NEW t, Write(t), t # "eos", ~ (WriteEos \/ WriteInsertEos)
      PROVE  Acked(q)' <=> Acked(q) \/ ((WriteEos \/ WriteInsertEos) /\ q = query)
  BY <1>2, AckedWritten DEF Write
<1>3. CASE WritePong \/ WriteHello \/ WriteSelectBlock \/ WriteProgress \/ WriteException \/ WriteSample
  <2>1. \E t : Write(t) /\ t # "eos"
    BY <1>3 DEF WritePong, WriteHello, WriteSelectBlock, WriteProgress, WriteException, WriteSample
  <2> QED BY <1>1, <1>2, <2>1
<1>4. CASE sent' = sent
  BY <1>1, <1>4, AckedKept
<1>5. CASE Read \/ SelectReturns \/ SessionErr \/ SendBlock \/ TakePermit \/ WriteFails
  BY <1>4, <1>5 DEF Read, ReadPing, ReadCancel, ReadHello, ReadSelect, ReadInsert, ReadBlock,
                    ReadEmpty, ReadErr, ReadNone, SelectReturns, SessionErr, SendBlock, TakePermit,
                    WriteFails
<1>6. CASE ~ Task
  BY <1>4, <1>6 DEF ChNext, Transmit, Disconnect, ConsumerTask, NextBlock, Finish
<1> QED BY <1>1, <1>3, <1>5, <1>6 DEF Task, Resume

(* Only queries that were accepted are acknowledged.                         *)
LEMMA AckedAcceptedStep ==
  ASSUME ProtocolInv, [Next]_vars
  PROVE  \A q \in Queries : Acked(q)' => Accepted(q)'
<1>0. TypeOK /\ FreshQueries /\ (~ Over => OneQuery) /\ [ChNext]_chVars
  BY ProtocolStep DEF ProtocolInv, ChInv, ControlInv
<1>1. ASSUME NEW q \in Queries, Acked(q)' PROVE Accepted(q)'
  <2>1. CASE Acked(q)
    <3>1. Accepted(q)
      BY <2>1 DEF ProtocolInv
    <3> QED BY <1>0, <3>1, AcceptedStep
  <2>2. CASE ~ Acked(q)
    <3>1. q = query /\ pc \in {"eos", "insert_eos"}
      BY <1>0, <1>1, <2>2, AckedStep DEF WriteEos, WriteInsertEos
    <3>2. Accepted(q)
      BY <1>0, <3>1 DEF Over, OneQuery, Busy
    <3> QED BY <1>0, <3>2, AcceptedStep
  <2> QED BY <2>1, <2>2
<1> QED BY <1>1

(* The server reports an error only when the connection has failed.          *)
LEMMA ExceptionPeerStep ==
  ASSUME ProtocolInv, [Next]_vars, pc' = "exception"
  PROVE  peer' # "open"
<1> USE DEF chVars, serverVars, consumerVars, wireVars, uploadVars
<1>1. [ChNext]_chVars /\ (pc = "exception" => peer # "open")
  BY ProtocolStep DEF ProtocolInv
<1>2. CASE Read
  <2>1. ReadErr
    BY <1>2, ReadCases DEF Read, ReadPing, ReadCancel, ReadHello, ReadSelect, ReadInsert, ReadBlock,
                           ReadEmpty, ReadNone
  <2> QED BY <1>2, <2>1, ReadCases DEF ReadErr
<1>3. CASE Resume
  BY <1>1, <1>3 DEF Resume, WritePong, WriteHello, WriteSelectBlock, WriteProgress, SelectReturns,
              WriteSample, SessionErr, WriteEos, SendBlock, TakePermit, WriteInsertEos,
              WriteException, WriteFails, ReturnErr, ReturnAfterError, ExecuteOk
<1>4. CASE ~ Task
  BY <1>1, <1>4 DEF ChNext, Transmit, Disconnect, ConsumerTask, NextBlock, Finish
<1> QED BY <1>2, <1>3, <1>4 DEF Task

(* One query at a time: the next is accepted when the last is acknowledged.  *)
LEMMA OneQueryStep ==
  ASSUME ProtocolInv, [Next]_vars, ~ Over'
  PROVE  OneQuery'
<1>0. /\ TypeOK /\ Suspended /\ FreshQueries /\ [ChNext]_chVars
      /\ ~ Over /\ ServerPlace /\ OneQuery
  BY ProtocolStep, OverStep DEF ProtocolInv, ChInv, ControlInv
<1> USE DEF chVars, serverVars, consumerVars, wireVars, uploadVars
\* The server stays where it is, with the same query, or goes on with it.
<1>1. ASSUME Busy' <=> Busy, Busy => query' = query,
             ~ (ReadSelect \/ ReadInsert), ~ (WriteEos \/ WriteInsertEos)
      PROVE  OneQuery'
  <2>1. \A q : (Accepted(q)' <=> Accepted(q)) /\ (Acked(q)' <=> Acked(q))
    BY <1>0, <1>1, AcceptedStep, AckedStep
  <2> QED BY <1>0, <1>1, <2>1 DEF OneQuery
<1>2. CASE ReadSelect \/ ReadInsert
  <2>1. Read
    BY <1>2 DEF Read
  <2>2. /\ out = None /\ pc = "read" /\ inbox[1] = Msg("query", current) /\ current \in Queries
    BY <1>2, <2>1, ReadCases
  <2>3. Busy' /\ query' = current /\ ~ Busy /\ ~ (WriteEos \/ WriteInsertEos)
    <3>1. Head(inbox) = inbox[1]
      BY <1>0, <1>2 DEF ReadSelect, ReadInsert, Arrived, TypeOK
    <3> QED BY <1>2, <2>2, <3>1, MsgFields, InsertIsSome
            DEF Busy, ReadSelect, ReadInsert, WriteEos, WriteInsertEos
  <2>4. ~ Accepted(current)
    BY <1>0, <1>2, <2>2, TakenPacket DEF Accepted, ReadSelect, ReadInsert, Arrived, Consume
  <2>5. ~ Acked(current)
    BY <2>2, <2>4 DEF ProtocolInv
  <2>6. \A q : Acked(q)' <=> Acked(q)
    BY <1>0, <2>3, AckedStep
  <2>7. \A q : Accepted(q)' <=> Accepted(q) \/ q = current
    <3>1. \A q : inbox[1] = Msg("query", q) <=> q = current
      BY <2>2, MsgFields
    <3> QED BY <1>0, <1>2, <3>1, AcceptedStep
  <2> QED BY <1>0, <2>3, <2>5, <2>6, <2>7 DEF OneQuery
<1>3. CASE WriteEos \/ WriteInsertEos
  <2>1. /\ pc \in {"eos", "insert_eos"} /\ pc' = "read" /\ out' = out
    BY <1>3 DEF WriteEos, WriteInsertEos
  <2>2. Busy /\ ~ Busy'
    BY <1>0, <2>1 DEF Busy, ServerPlace, Suspended
  <2>3. \A q : Acked(q)' <=> Acked(q) \/ q = query
    BY <1>0, <1>3, AckedStep
  <2>4. \A q : Accepted(q)' <=> Accepted(q)
    <3>1. ~ (ReadSelect \/ ReadInsert)
      BY <2>1 DEF ReadSelect, ReadInsert, Arrived
    <3> QED BY <1>0, <3>1, AcceptedStep
  <2> QED BY <1>0, <2>2, <2>3, <2>4 DEF OneQuery
<1>4. CASE Read /\ ~ (ReadSelect \/ ReadInsert)
  <2>1. query' = query /\ pc = "read"
    BY <1>4, ReadCases DEF Read, ReadPing, ReadCancel, ReadHello, ReadBlock, ReadEmpty, ReadErr, ReadNone
  <2>2. Busy' <=> Busy
    <3>1. CASE ReadPing \/ ReadCancel \/ ReadHello \/ ReadBlock
      BY <1>4, <2>1, <3>1, ReadCases DEF ReadPing, ReadCancel, ReadHello, ReadBlock, Busy
    <3>2. CASE ReadEmpty
      BY <1>4, <2>1, <3>2, ReadCases DEF Busy
    <3>3. CASE ReadErr \/ ReadNone
      BY <3>3 DEF ReadErr, ReadNone, Over
    <3> QED BY <1>4, <3>1, <3>2, <3>3 DEF Read
  <2>3. ~ (WriteEos \/ WriteInsertEos)
    BY <2>1 DEF WriteEos, WriteInsertEos
  <2> QED BY <1>1, <1>4, <2>1, <2>2, <2>3
<1>5. CASE Resume /\ ~ (WriteEos \/ WriteInsertEos)
  <2>1. query' = query /\ pc # "read"
    BY <1>5 DEF Resume, WritePong, WriteHello, WriteSelectBlock, WriteProgress, SelectReturns,
                WriteSample, SessionErr, SendBlock, TakePermit, WriteException, WriteFails, Writing
  <2>2. ~ (ReadSelect \/ ReadInsert)
    BY <2>1 DEF ReadSelect, ReadInsert, Arrived
  <2>3. CASE SessionErr \/ WriteFails \/ WriteException
    BY <2>3 DEF SessionErr, WriteFails, WriteException, ReturnErr, ReturnAfterError, Over
  <2>4. CASE WritePong \/ WriteHello \/ WriteSelectBlock \/ WriteProgress
    <3>1. Busy' <=> Busy
      BY <2>4 DEF WritePong, WriteHello, WriteSelectBlock, WriteProgress, Busy
    <3> QED BY <1>1, <1>5, <2>1, <2>2, <3>1
  <2>5. CASE SelectReturns \/ WriteSample
    <3>1. Busy' <=> Busy
      BY <1>0, <2>5, InsertIsSome DEF SelectReturns, WriteSample, ExecuteOk, Busy, Suspended
    <3> QED BY <1>1, <1>5, <2>1, <2>2, <3>1
  <2>6. CASE SendBlock \/ TakePermit
    <3>1. Busy' <=> Busy
      BY <1>0, <2>6 DEF SendBlock, TakePermit, Busy, Suspended
    <3> QED BY <1>1, <1>5, <2>1, <2>2, <3>1
  <2> QED BY <1>5, <2>3, <2>4, <2>5, <2>6 DEF Resume
<1>6. CASE ~ Task
  <2>1. UNCHANGED <<pc, out, query>>
    BY <1>0, <1>6 DEF ChNext, Transmit, Disconnect, ConsumerTask, NextBlock, Finish
  <2>2. Busy' <=> Busy
    BY <2>1 DEF Busy
  <2>3. ~ (ReadSelect \/ ReadInsert) /\ ~ (WriteEos \/ WriteInsertEos)
    BY <1>6 DEF Task, Read, Resume
  <2> QED BY <1>1, <2>1, <2>2, <2>3
<1> QED BY <1>2, <1>3, <1>4, <1>5, <1>6 DEF Task

-----------------------------------------------------------------------------
(* Where the client is and where the server is. *)

(* A request on the wire finds the server reading, with no upload open.      *)
LEMMA Requests ==
  ASSUME TypeOK, WireShape, NEW k \in 1..Len(inbox), Request(inbox[k])
  PROVE  out = None /\ pc = "read"
<1>1. out = None
  <2>1. SUFFICES ASSUME out # None PROVE FALSE
    OBVIOUS
  <2>2. UploadOnWire /\ inbox # <<>>
    BY <2>1 DEF WireShape
  <2>3. CASE k > 1 \/ stage = "InsertStarted"
    BY <2>2, <2>3, Marks DEF UploadOnWire
  <2>4. CASE ~ (k > 1 \/ stage = "InsertStarted")
    <3>1. k = 1
      BY <2>4
    <3> QED BY <2>2, <2>4, <3>1, Marks DEF UploadOnWire
  <2> QED BY <2>3, <2>4
<1>2. pc = "read"
  BY <1>1, Marks DEF WireShape, RequestOnWire
<1> QED BY <1>1, <1>2

(* Reading the request leaves none; reading anything else leaves the request *)
(* that is there.                                                            *)
LEMMA RequestRead ==
  ASSUME TypeOK, RequestOnWire, inbox # <<>>, inbox' = Tail(inbox)
  PROVE  /\ Request(inbox[1]) =>
              /\ \A k \in 1..Len(inbox') : ~ Request(inbox'[k])
              /\ \A t \in {"hello", "ping", "query"} : Requested(t) => t = inbox[1].type
         /\ ~ Request(inbox[1]) =>
              /\ (\A k \in 1..Len(inbox') : ~ Request(inbox'[k])) <=>
                   (\A k \in 1..Len(inbox) : ~ Request(inbox[k]))
              /\ \A t \in {"hello", "ping", "query"} :
                   Requested(t) => Requested(t)' /\ inbox'[Len(inbox')] = inbox[Len(inbox)]
              /\ \A t \in {"hello", "ping", "query"} : Requested(t)' => Requested(t)
<1>1. /\ Len(inbox) \in Nat /\ Len(inbox') = Len(inbox) - 1 /\ Len(inbox) >= 1 /\ 1 \in 1..Len(inbox)
      /\ \A k \in 1..Len(inbox') : inbox'[k] = inbox[k + 1] /\ k + 1 \in 1..Len(inbox) /\ k + 1 # 1
      /\ \A k \in 1..Len(inbox) : k = 1 \/ (k - 1 \in 1..Len(inbox') /\ inbox'[k - 1] = inbox[k])
  BY TakenPacket
<1>2. ASSUME Request(inbox[1])
      PROVE  /\ \A k \in 1..Len(inbox') : ~ Request(inbox'[k])
             /\ \A t \in {"hello", "ping", "query"} : Requested(t) => t = inbox[1].type
  <2>1. \A k \in 1..Len(inbox) : Request(inbox[k]) => k = 1
    BY <1>1, <1>2 DEF RequestOnWire
  <2>2. \A k \in 1..Len(inbox') : ~ Request(inbox'[k])
    BY <1>1, <2>1
  <2>3. \A t \in {"hello", "ping", "query"} : Requested(t) => t = inbox[1].type
    BY <2>1 DEF Requested, Request
  <2> QED BY <2>2, <2>3
<1>3. ASSUME ~ Request(inbox[1])
      PROVE  /\ (\A k \in 1..Len(inbox') : ~ Request(inbox'[k])) <=>
                  (\A k \in 1..Len(inbox) : ~ Request(inbox[k]))
             /\ \A t \in {"hello", "ping", "query"} :
                  Requested(t) => Requested(t)' /\ inbox'[Len(inbox')] = inbox[Len(inbox)]
             /\ \A t \in {"hello", "ping", "query"} : Requested(t)' => Requested(t)
  <2>1. (\A k \in 1..Len(inbox') : ~ Request(inbox'[k])) <=>
          (\A k \in 1..Len(inbox) : ~ Request(inbox[k]))
    BY <1>1, <1>3
  <2>2. ASSUME NEW t \in {"hello", "ping", "query"}, Requested(t)
        PROVE  Requested(t)' /\ inbox'[Len(inbox')] = inbox[Len(inbox)]
    <3>1. PICK k \in 1..Len(inbox) : inbox[k].type = t
      BY <2>2 DEF Requested
    <3>2. k # 1 /\ k - 1 \in 1..Len(inbox') /\ inbox'[k - 1] = inbox[k]
      BY <1>1, <1>3, <2>2, <3>1 DEF Request
    <3>3. Len(inbox') \in 1..Len(inbox') /\ Len(inbox') + 1 = Len(inbox)
      BY <1>1, <3>2
    <3> QED BY <1>1, <3>1, <3>2, <3>3 DEF Requested
  <2>3. ASSUME NEW t \in {"hello", "ping", "query"}, Requested(t)' PROVE Requested(t)
    BY <1>1, <2>3 DEF Requested
  <2> QED BY <2>1, <2>2, <2>3
<1> QED BY <1>2, <1>3

(* What the place of the server says about the client.                       *)
LEMMA Where ==
  ASSUME ProtocolInv, peer = "open", phase # "gone", ~ Over
  PROVE  /\ TypeOK /\ ClientTypeOK /\ Suspended /\ ServerPlace /\ WireShape /\ PhasePlace
         /\ pc = "pong" => phase = "ping" /\ NoUnread /\ out = None
         /\ pc = "hello" => phase = "hello" /\ NoUnread /\ hello /\ out = None
         /\ pc \in {"select", "progress", "eos"} =>
              /\ phase \in {"query", "select"} /\ current \in Selects /\ out = None
              /\ query = current
              /\ \A k \in (seen + 1)..Len(sent) :
                   sent[k].query = current /\ sent[k].type \in {"block", "progress"}
         /\ pc = "sample" => /\ phase \in {"query", "insert"} /\ current \in Inserts /\ NoUnread
                             /\ out = current /\ query = current
         /\ pc = "send" => phase \in {"upload", "drain"} /\ out = current
         /\ pc \in {"notified", "insert_eos"} =>
              phase = "drain" /\ NoUnread /\ query = current /\ out = None
         /\ out # None => /\ phase \in {"query", "insert", "upload", "drain"} /\ current \in Inserts
                          /\ out = current
         /\ pc # "read" => \A k \in 1..Len(inbox) : ~ Request(inbox[k])
<1>1. TypeOK /\ ClientTypeOK /\ Suspended /\ ServerPlace /\ WireShape /\ PhasePlace
  BY DEF ProtocolInv, ChInv, ControlInv
<1>2. pc # "read" => \A k \in 1..Len(inbox) : ~ Request(inbox[k])
  BY <1>1, Requests
<1>3. \A t \in {"hello", "ping", "query"} : Requested(t) => pc = "read" /\ out = None
  BY <1>1, Requests DEF Requested, Request
<1>4. Inserts \cap Selects = {} /\ None \notin Queries
  BY ConstantsAssumption DEF ConstantsAssumption
<1>5. CASE phase \in {"start", "idle"}
  <2>1. pc = "read" /\ out = None
    BY <1>1, <1>5 DEF PhasePlace, Answered
  <2> QED BY <1>1, <2>1
<1>6. CASE phase = "hello"
  <2>1. /\ out = None /\ pc \in {"read", "hello"} /\ (pc = "hello" => NoUnread /\ hello)
    BY <1>1, <1>3, <1>6 DEF PhasePlace, Answered, ServerPlace
  <2> QED BY <1>1, <1>2, <1>6, <2>1
<1>7. CASE phase = "ping"
  <2>1. out = None /\ pc \in {"read", "pong"} /\ (pc = "pong" => NoUnread)
    BY <1>1, <1>3, <1>7 DEF PhasePlace, Answered, ServerPlace
  <2> QED BY <1>1, <1>2, <1>7, <2>1
<1>8. CASE phase \in {"query", "select"} /\ current \in Selects
  <2>1. /\ pc \in {"read", "select", "progress", "eos"} /\ out = None
        /\ \A k \in (seen + 1)..Len(sent) :
             /\ sent[k].query = current /\ sent[k].type \in {"block", "progress", "eos"}
             /\ sent[k].type = "eos" => pc = "read"
    BY <1>1, <1>3, <1>8 DEF PhasePlace, Answered, ServerPlace, Over
  <2>2. pc # "read" => query = current
    BY <1>1, <2>1 DEF ServerPlace, Busy
  <2> QED BY <1>1, <1>2, <1>8, <2>1, <2>2
<1>9. CASE phase \in {"query", "insert"} /\ current \in Inserts
  <2>1. /\ pc \in {"read", "sample"} /\ (pc = "sample" => NoUnread /\ out # None)
    BY <1>1, <1>3, <1>4, <1>9, InsertIsSome DEF PhasePlace, Suspended
  <2>2. out # None => out = current /\ query = current
    BY <1>1 DEF ServerPlace, Busy
  <2> QED BY <1>1, <1>2, <1>9, <2>1, <2>2
<1>10. CASE phase = "upload"
  <2>1. out = current /\ pc \in {"read", "send"} /\ current \in Inserts
    BY <1>1, <1>10 DEF PhasePlace, ClientTypeOK
  <2> QED BY <1>1, <1>2, <1>10, <2>1
<1>11. CASE phase = "drain"
  <2>1. /\ pc \in {"read", "send", "notified", "insert_eos"} /\ current \in Inserts
        /\ pc \in {"notified", "insert_eos"} => NoUnread /\ query = current /\ out = None
    BY <1>1, <1>11, InsertIsSome DEF PhasePlace, Answered, ClientTypeOK, ServerPlace, Suspended, Busy
  <2>2. out # None => out = current
    BY <1>1 DEF ServerPlace
  <2>3. pc = "send" => out # None
    BY <1>1 DEF Suspended
  <2> QED BY <1>1, <1>2, <1>11, <2>1, <2>2, <2>3
<1> QED BY <1>1, <1>5, <1>6, <1>7, <1>8, <1>9, <1>10, <1>11 DEF ClientTypeOK, Queries

(* The phases of the client: its own steps.                                  *)
LEMMA PhaseClient ==
  ASSUME ProtocolInv, Client, peer' = "open", phase' # "gone"
  PROVE  PhasePlace'
<1>1. peer = "open" /\ phase # "gone"
  BY DEF Client, SayHello, Ping, SendQuery, EndExternalTables, CancelSelect, Upload, EndUpload,
         Receive, NoticeEnd, Transmit, chVars, wireVars
<1>2. TypeOK /\ ClientTypeOK /\ PhasePlace
  BY <1>1 DEF ProtocolInv, ChInv, ControlInv
<1>3. Inserts \cap Selects = {} /\ None \notin Queries /\ \A q \in Inserts : q # None
  BY ConstantsAssumption, InsertIsSome DEF ConstantsAssumption
\* Every step but Receive: one more packet on the wire.
<1>4. ASSUME NEW p \in Packet, Transmit(p)
      PROVE  /\ ~ Over /\ ~ Over' /\ UNCHANGED <<pc, hello, stage, out, query, sent>>
             /\ ServerPlace /\ WireShape
             /\ Len(inbox) \in Nat /\ Len(inbox') = Len(inbox) + 1 /\ inbox' # <<>>
             /\ inbox'[Len(inbox')] = p /\ Len(inbox') \in 1..Len(inbox')
             /\ \A k \in 1..Len(inbox) : inbox'[k] = inbox[k] /\ k \in 1..Len(inbox')
             /\ \A k \in 1..Len(inbox') : k \in 1..Len(inbox) \/ inbox'[k] = p
             /\ Requested(p.type)'
             /\ \A t : Requested(t) => Requested(t)'
             /\ ~ Request(p) => (Answered => Answered')
             /\ \A t : Requested(t)' => Requested(t) \/ t = p.type
  <2>1. /\ ~ Over /\ UNCHANGED <<pc, hello, stage, out, query, sent>> /\ inbox' = Append(inbox, p)
        /\ ServerPlace /\ WireShape
    BY <1>1, <1>4, Sending
  <2>2. /\ Len(inbox) \in Nat /\ Len(inbox') = Len(inbox) + 1 /\ inbox' # <<>>
        /\ inbox'[Len(inbox')] = p /\ Len(inbox') \in 1..Len(inbox')
        /\ \A k \in 1..Len(inbox) : inbox'[k] = inbox[k] /\ k \in 1..Len(inbox')
        /\ \A k \in 1..Len(inbox') : k \in 1..Len(inbox) \/ inbox'[k] = p
    BY <1>2, <2>1, AddedPacket
  <2>3. ~ Over' /\ Requested(p.type)'
    BY <2>1, <2>2 DEF Over, Requested
  <2>4. /\ \A t : Requested(t) => Requested(t)'
        /\ \A t : Requested(t)' => Requested(t) \/ t = p.type
    BY <2>2 DEF Requested
  <2>5. ~ Request(p) => (Answered => Answered')
    BY <2>1, <2>2 DEF Answered
  <2> QED BY <2>1, <2>2, <2>3, <2>4, <2>5
<1>5. CASE SayHello \/ Ping
  <2>1. PICK p \in Packet : /\ Transmit(p) /\ UNCHANGED <<current, seen>>
                            /\ \/ p.type = "hello" /\ phase = "start" /\ phase' = "hello"
                               \/ p.type = "ping" /\ phase = "idle" /\ phase' = "ping"
    BY <1>5, Marks, MsgFields DEF SayHello, Ping
  <2>2. NoUnread /\ (phase = "idle" => hello)
    BY <1>2, <2>1 DEF PhasePlace
  <2>3. ~ Over' /\ UNCHANGED <<hello, sent>> /\ Requested(p.type)'
    BY <1>4, <2>1
  <2> QED BY <2>1, <2>2, <2>3 DEF PhasePlace, NoUnread
<1>6. ASSUME NEW q \in Queries, SendQuery(q) PROVE PhasePlace'
  <2>1. PICK p \in Packet : /\ Transmit(p) /\ seen' = seen /\ current' = q /\ p.type = "query"
                            /\ phase = "idle" /\ phase' = "query"
    BY <1>6, Marks, MsgFields DEF SendQuery
  <2>2. NoUnread /\ hello /\ out = None
    BY <1>2, <2>1 DEF PhasePlace, Answered
  <2>3. /\ ~ Over' /\ UNCHANGED <<hello, sent, out>> /\ Requested("query")'
        /\ inbox'[Len(inbox')].type = "query"
    BY <1>4, <2>1
  <2>4. NoUnread' /\ \A k \in (seen' + 1)..Len(sent') : FALSE
    BY <1>2, <2>1, <2>2, <2>3 DEF NoUnread, ClientTypeOK
  <2> QED BY <2>1, <2>2, <2>3, <2>4 DEF PhasePlace
<1>7. CASE EndExternalTables
  <2>1. /\ Transmit(EndMark) /\ EndMark \in Packet /\ UNCHANGED <<current, seen>> /\ phase = "query"
        /\ phase' = IF current \in Inserts THEN "insert" ELSE "select"
        /\ ~ Request(EndMark) /\ EndMark.type = "data"
    BY <1>7, Marks DEF EndExternalTables, EndMark
  <2>2. /\ ~ Over /\ ~ Over' /\ UNCHANGED <<pc, hello, stage, out, query, sent>>
        /\ inbox'[Len(inbox')] = EndMark /\ Len(inbox') = Len(inbox) + 1
        /\ Requested("query") => Requested("query")'
        /\ Requested("query")' => Requested("query")
        /\ Answered => Answered'
    BY <1>4, <2>1
  <2>3. current \in Queries /\ hello
    BY <1>2, <2>1 DEF ClientTypeOK, PhasePlace
  <2>4. CASE current \in Selects
    <3>1. phase' = "select" /\ current' \in Selects /\ current' \notin Inserts
      BY <1>3, <2>1, <2>4
    <3>2. /\ pc' \in {"select", "progress", "eos", "ended"} \/ Answered'
             \/ (Requested("query")' /\ NoUnread')
          /\ \A k \in (seen' + 1)..Len(sent') :
               /\ sent'[k].query = current' /\ sent'[k].type \in {"block", "progress", "eos"}
               /\ sent'[k].type = "eos" => k = Len(sent') /\ Answered'
      BY <1>2, <2>1, <2>2, <2>4 DEF PhasePlace, NoUnread
    <3> QED BY <2>2, <2>3, <3>1, <3>2 DEF PhasePlace
  <2>5. CASE current \in Inserts
    <3>1. phase' = "insert" /\ current' \in Inserts /\ current' \notin Selects
      BY <1>3, <2>1, <2>5
    <3>2. \/ Requested("query")' /\ NoUnread'
          \/ pc' = "sample" /\ NoUnread'
          \/ /\ out' = current' /\ pc' = "read"
             /\ Unread("block")' /\ sent'[Len(sent')].query = current'
      BY <1>2, <2>1, <2>2, <2>5 DEF PhasePlace, NoUnread, Unread
    <3>3. out' # None => stage' # "InsertStarted" /\ Len(inbox') = 1
      BY <1>2, <2>1, <2>2, <2>5 DEF PhasePlace
    <3> QED BY <2>2, <2>3, <3>1, <3>2, <3>3 DEF PhasePlace
  <2> QED BY <2>3, <2>4, <2>5 DEF Queries
<1>8. CASE CancelSelect
  <2> DEFINE p == Msg("cancel", None)
  <2>1. /\ Transmit(p) /\ p \in Packet /\ UNCHANGED <<current, seen, phase>> /\ phase = "select"
        /\ ~ Request(p) /\ p.type = "cancel"
    BY <1>8, Marks, MsgFields DEF CancelSelect, clientVars
  <2> HIDE DEF p
  <2>2. /\ ~ Over /\ ~ Over' /\ UNCHANGED <<pc, hello, stage, out, query, sent>>
        /\ Requested("query") => Requested("query")'
        /\ Answered => Answered'
    BY <1>4, <2>1
  <2>3. current \in Selects /\ current \notin Inserts /\ hello
    BY <1>2, <1>3, <2>1 DEF ClientTypeOK, PhasePlace
  <2>4. /\ pc' \in {"select", "progress", "eos", "ended"} \/ Answered'
           \/ (Requested("query")' /\ NoUnread')
        /\ \A k \in (seen' + 1)..Len(sent') :
             /\ sent'[k].query = current' /\ sent'[k].type \in {"block", "progress", "eos"}
             /\ sent'[k].type = "eos" => k = Len(sent') /\ Answered'
    BY <1>2, <2>1, <2>2, <2>3 DEF PhasePlace, NoUnread
  <2> QED BY <2>1, <2>2, <2>3, <2>4 DEF PhasePlace
<1>9. ASSUME NEW b \in Blocks, Upload(b) PROVE PhasePlace'
  <2>1. PICK p \in Packet : /\ Transmit(p) /\ IsBlock(p) /\ UNCHANGED <<current, seen, phase>>
                            /\ phase = "upload"
    BY <1>9, Marks DEF Upload, clientVars
  <2>2. /\ ~ Over' /\ UNCHANGED <<pc, hello, stage, out, query, sent>> /\ inbox' # <<>>
        /\ \A k \in 1..Len(inbox) : inbox'[k] = inbox[k]
        /\ \A k \in 1..Len(inbox') : k \in 1..Len(inbox) \/ inbox'[k] = p
    BY <1>4, <2>1
  <2>3. /\ hello /\ out = current /\ pc \in {"read", "send"} /\ NoUnread
        /\ \A k \in 1..Len(inbox) : (k > 1 \/ stage = "InsertStarted") => IsBlock(inbox[k])
    BY <1>2, <2>1 DEF PhasePlace
  <2>4. \A k \in 1..Len(inbox') : (k > 1 \/ stage' = "InsertStarted") => IsBlock(inbox'[k])
    BY <2>1, <2>2, <2>3
  <2> QED BY <2>1, <2>2, <2>3, <2>4 DEF PhasePlace, NoUnread
<1>10. CASE EndUpload
  <2>1. /\ Transmit(EndMark) /\ EndMark \in Packet /\ UNCHANGED <<current, seen>>
        /\ phase = "upload" /\ phase' = "drain"
    BY <1>10, Marks DEF EndUpload, EndMark
  <2>2. ~ Over' /\ UNCHANGED <<pc, hello, stage, out, query, sent>>
    BY <1>4, <2>1
  <2>3. hello /\ out = current /\ pc \in {"read", "send"} /\ NoUnread
    BY <1>2, <2>1 DEF PhasePlace
  <2> QED BY <2>1, <2>2, <2>3 DEF PhasePlace, NoUnread
<1>11. CASE Receive
  <2> DEFINE t == sent[seen + 1].type
  <2>1. /\ seen < Len(sent) /\ seen' = seen + 1 /\ t \in Expected
        /\ UNCHANGED <<pc, hello, stage, out, inbox, sent, current>>
        /\ phase \in {"hello", "ping", "select", "insert", "drain"}
        /\ phase' = CASE t \in {"hello", "pong", "eos"} -> "idle"
                      [] t = "block" /\ phase = "insert" -> "upload"
                      [] OTHER -> phase
    BY <1>11 DEF Receive, chVars, serverVars, wireVars
  <2>2. seen \in Nat /\ Len(sent) \in Nat /\ ~ NoUnread /\ (Over' <=> Over) /\ (Answered' <=> Answered)
        /\ \A u : Unread(u) => NoUnread'
    BY <1>2, <2>1 DEF ClientTypeOK, TypeOK, NoUnread, Over, Answered, Unread
  <2>3. CASE phase \in {"hello", "ping", "drain"}
    <3>1. t \in {"hello", "pong", "eos"}
      BY <2>1, <2>3 DEF Expected
    <3>2. phase' = "idle"
      BY <2>1, <3>1
    <3>3. Answered /\ hello /\ NoUnread' /\ ~ Over
      BY <1>2, <2>2, <2>3 DEF PhasePlace, Answered, Over
    <3> QED BY <2>1, <2>2, <3>2, <3>3 DEF PhasePlace
  <2>4. CASE phase = "select"
    <3>1. current \in Selects /\ current \notin Inserts /\ hello
      BY <1>2, <1>3, <2>4 DEF ClientTypeOK, PhasePlace
    <3>2. t \in {"block", "progress", "eos"}
      BY <2>1, <2>4, <3>1 DEF Expected
    <3>3. /\ pc \in {"select", "progress", "eos", "ended"} \/ Answered
          /\ \A k \in (seen + 1)..Len(sent) :
               /\ sent[k].query = current /\ sent[k].type \in {"block", "progress", "eos"}
               /\ sent[k].type = "eos" => k = Len(sent) /\ Answered
      BY <1>2, <2>2, <2>4, <3>1 DEF PhasePlace
    <3>4. CASE t = "eos"
      <4>1. phase' = "idle"
        BY <2>1, <3>4
      <4>2. seen + 1 \in (seen + 1)..Len(sent)
        BY <2>1, <2>2
      <4>3. Answered /\ NoUnread' /\ ~ Over
        BY <2>1, <3>3, <3>4, <4>2 DEF NoUnread, Answered, Over
      <4> QED BY <2>1, <2>2, <3>1, <4>1, <4>3 DEF PhasePlace
    <3>5. CASE t # "eos"
      <4>1. phase' = "select"
        BY <2>1, <2>4, <3>2, <3>5
      <4>2. \A k \in (seen' + 1)..Len(sent') : k \in (seen + 1)..Len(sent)
        BY <2>1, <2>2
      <4>3. \A k \in (seen' + 1)..Len(sent') :
               /\ sent'[k].query = current' /\ sent'[k].type \in {"block", "progress", "eos"}
               /\ sent'[k].type = "eos" => k = Len(sent') /\ Answered'
        BY <2>1, <2>2, <3>3, <4>2
      <4>4. ~ Over' \/ pc' = "ended"
        BY <1>2, <2>1, <2>2 DEF PhasePlace
      <4> QED BY <2>1, <2>2, <3>1, <3>3, <4>1, <4>3, <4>4 DEF PhasePlace
    <3> QED BY <3>4, <3>5
  <2>5. CASE phase = "insert"
    <3>1. current \in Inserts /\ current \notin Selects /\ hello
      BY <1>2, <1>3, <2>5 DEF ClientTypeOK, PhasePlace
    <3>2. t = "block"
      BY <2>1, <2>5, <3>1 DEF Expected
    <3>3. phase' = "upload"
      BY <2>1, <2>5, <3>2
    <3>4. out = current /\ pc = "read" /\ NoUnread' /\ ~ Over
      BY <1>2, <2>2, <2>5, <3>1 DEF PhasePlace, Over
    <3>5. IF stage = "InsertStarted" THEN inbox = <<>> ELSE Len(inbox) = 1
      BY <1>2, <1>3, <2>5, <3>1, <3>4 DEF PhasePlace
    <3>6. /\ stage = "InsertPrepare" => inbox # <<>>
          /\ \A k \in 1..Len(inbox) : ~ (k > 1 \/ stage = "InsertStarted")
      BY <3>5
    <3> QED BY <2>1, <2>2, <3>1, <3>3, <3>4, <3>6 DEF PhasePlace
  <2> QED BY <2>1, <2>3, <2>4, <2>5
<1>12. ~ NoticeEnd
  BY DEF NoticeEnd
<1> QED BY <1>5, <1>6, <1>7, <1>8, <1>9, <1>10, <1>11, <1>12 DEF Client

(* The phases of the client: the server reads a packet.                      *)
LEMMA PhaseRead ==
  ASSUME ProtocolInv, Read, UNCHANGED clientVars, peer' = "open", phase' # "gone"
  PROVE  PhasePlace'
<1> USE DEF serverVars, consumerVars, wireVars, uploadVars
<1>0. /\ peer = "open" /\ sent' = sent /\ UNCHANGED <<phase, current, seen>> /\ phase # "gone"
  BY DEF clientVars, Read, ReadPing, ReadCancel, ReadHello, ReadSelect, ReadInsert, ReadBlock,
         ReadEmpty, ReadErr, ReadNone
<1>1. pc = "read" /\ ~ Over
  BY ReadCases
<1>2. /\ TypeOK /\ ClientTypeOK /\ Suspended /\ ServerPlace /\ WireShape /\ PhasePlace
      /\ out # None => /\ phase \in {"query", "insert", "upload", "drain"} /\ current \in Inserts
                       /\ out = current
  BY <1>0, <1>1, Where
<1>3. Inserts \cap Selects = {} /\ None \notin Queries /\ \A q \in Inserts : q # None
  BY ConstantsAssumption, InsertIsSome DEF ConstantsAssumption
<1>4. inbox # <<>> => 1 \in 1..Len(inbox) /\ Head(inbox) = inbox[1]
  BY <1>2 DEF TypeOK
<1>5. NoUnread' <=> NoUnread
  BY <1>0 DEF NoUnread
<1>6. ReadErr \/ ReadNone => FALSE
  BY <1>0, ReadCases
\* The request that is read is the one the client waits for.
<1>7. ASSUME inbox # <<>>, Request(inbox[1]), inbox' = Tail(inbox)
      PROVE  /\ out = None
             /\ inbox[1].type = "hello" => phase = "hello" /\ NoUnread
             /\ inbox[1].type = "ping" => phase = "ping" /\ NoUnread
             /\ inbox[1].type = "query" => phase \in {"query", "select", "insert"} /\ NoUnread
             /\ \A t \in {"hello", "ping", "query"} : ~ Requested(t)'
  <2>1. out = None
    BY <1>2, <1>4, <1>7, Requests
  <2>2. /\ \A k \in 1..Len(inbox') : ~ Request(inbox'[k])
        /\ \A t \in {"hello", "ping", "query"} : Requested(t) => t = inbox[1].type
    BY <1>2, <1>7, <2>1, RequestRead DEF WireShape
  <2>3. ~ Answered
    BY <1>4, <1>7 DEF Answered
  <2>4. phase \notin {"start", "idle", "upload", "drain"}
    BY <1>1, <1>2, <1>3, <2>1, <2>3 DEF PhasePlace, ClientTypeOK
  <2>5. phase = "hello" => inbox[1].type = "hello" /\ NoUnread
    BY <1>1, <1>2, <2>2, <2>3 DEF PhasePlace
  <2>6. phase = "ping" => inbox[1].type = "ping" /\ NoUnread
    BY <1>1, <1>2, <2>2, <2>3 DEF PhasePlace
  <2>7. phase \in {"query", "select", "insert"} => inbox[1].type = "query" /\ NoUnread
    <3>1. CASE current \in Selects
      BY <1>1, <1>2, <1>3, <2>2, <2>3, <3>1 DEF PhasePlace, ClientTypeOK
    <3>2. CASE current \in Inserts
      BY <1>1, <1>2, <1>3, <2>1, <2>2, <2>3, <3>2 DEF PhasePlace, ClientTypeOK
    <3> QED BY <1>2, <3>1, <3>2 DEF ClientTypeOK, Queries
  <2>8. \A t \in {"hello", "ping", "query"} : ~ Requested(t)'
    BY <2>2 DEF Requested, Request
  <2> QED BY <1>0, <1>2, <2>1, <2>4, <2>5, <2>6, <2>7, <2>8 DEF ClientTypeOK
<1>8. CASE ReadPing
  <2>1. /\ inbox # <<>> /\ inbox[1].type = "ping" /\ inbox' = Tail(inbox) /\ pc' = "pong"
        /\ hello' = hello
    BY <1>4, <1>8 DEF ReadPing, Arrived, Consume
  <2>2. phase = "ping" /\ NoUnread
    BY <1>7, <2>1 DEF Request
  <2> QED BY <1>0, <1>2, <1>5, <2>1, <2>2 DEF PhasePlace, Over
<1>9. CASE ReadHello
  <2>1. /\ inbox # <<>> /\ inbox[1].type = "hello" /\ inbox' = Tail(inbox) /\ pc' = "hello"
        /\ hello'
    BY <1>4, <1>9 DEF ReadHello, Arrived, Consume
  <2>2. phase = "hello" /\ NoUnread
    BY <1>7, <2>1 DEF Request
  <2> QED BY <1>0, <1>5, <2>1, <2>2 DEF PhasePlace, Over
<1>10. CASE ReadSelect
  <2>1. /\ inbox # <<>> /\ inbox[1].type = "query" /\ inbox' = Tail(inbox) /\ pc' = "select"
        /\ hello' = hello /\ hello
    BY <1>4, <1>10 DEF ReadSelect, Arrived, Consume
  <2>2. current \in Selects /\ current \notin Inserts
    BY <1>3, <1>4, <1>10, <2>1, ReadCases, MsgFields DEF ReadSelect
  <2>3. phase \in {"query", "select"} /\ NoUnread
    BY <1>2, <1>7, <2>1, <2>2 DEF Request, ClientTypeOK
  <2>4. \A k \in (seen' + 1)..Len(sent') : FALSE
    BY <1>0, <1>2, <2>3 DEF NoUnread, ClientTypeOK
  <2> QED BY <1>0, <2>1, <2>2, <2>3, <2>4 DEF PhasePlace, Over
<1>11. CASE ReadInsert
  <2>1. /\ inbox # <<>> /\ inbox[1].type = "query" /\ inbox' = Tail(inbox) /\ pc' = "sample"
        /\ hello' = hello /\ hello /\ stage' = stage /\ out' = Head(inbox).body
    BY <1>4, <1>11 DEF ReadInsert, Arrived, Consume
  <2>2. current \in Inserts /\ current \notin Selects
    BY <1>3, <1>4, <1>11, <2>1, ReadCases, MsgFields DEF ReadInsert
  <2>3. /\ phase \in {"query", "insert"} /\ NoUnread /\ out = None /\ ~ Requested("query")'
        /\ Requested("query")
    BY <1>2, <1>4, <1>7, <2>1, <2>2, <1>3 DEF Request, ClientTypeOK, Requested
  <2>4. stage # "InsertStarted"
    BY <1>1, <2>3, ReadCases DEF StageHasSender
  <2>5. /\ RequestOnWire /\ Len(inbox) \in Nat /\ Len(inbox) >= 1 /\ Len(inbox') = Len(inbox) - 1
        /\ Len(inbox) = 1 <=> inbox' = <<>>
    BY <1>2, <2>1, <2>3, TakenPacket DEF WireShape
  <2>6. phase = "query" => inbox' = <<>>
    <3>1. phase = "query" => inbox[Len(inbox)].type = "query" /\ Len(inbox) \in 1..Len(inbox)
      BY <1>2, <2>2, <2>3, <2>5 DEF PhasePlace
    <3> QED BY <1>4, <2>1, <2>5, <3>1 DEF RequestOnWire, Request
  <2>7. phase = "insert" => Len(inbox') = 1
    <3>1. phase = "insert" => inbox[Len(inbox)] = EndMark
      BY <1>2, <2>3 DEF PhasePlace
    <3>2. phase = "insert" => Len(inbox) # 1
      BY <2>1, <3>1, Marks
    <3>3. \A j \in (1 + 1)..Len(inbox) : j = 1 + 1 /\ j = Len(inbox)
      BY <1>4, <2>1, <2>2, <2>5 DEF RequestOnWire
    <3>4. Len(inbox) # 1 => 2 \in (1 + 1)..Len(inbox)
      BY <2>5
    <3> QED BY <2>5, <3>2, <3>3, <3>4
  <2> QED BY <1>0, <1>5, <2>1, <2>2, <2>3, <2>4, <2>6, <2>7 DEF PhasePlace, Over
\* What is left of a SELECT is dropped.
<1>12. CASE ReadCancel \/ (ReadEmpty /\ out = None)
  <2>1. /\ inbox # <<>> /\ inbox' = Tail(inbox) /\ UNCHANGED <<pc, hello, stage, out>>
        /\ inbox[1].type \in {"cancel", "data"} /\ out = None
    <3>1. CASE ReadCancel
      BY <1>4, <3>1, ReadCases DEF ReadCancel, Arrived, Consume
    <3>2. CASE ReadEmpty /\ out = None
      BY <1>4, <3>2, ReadCases DEF ReadEmpty, Arrived, Consume
    <3> QED BY <1>12, <3>1, <3>2
  <2>2. /\ ~ Request(inbox[1]) /\ RequestOnWire
    BY <1>2, <2>1 DEF Request, WireShape
  <2>3. /\ (\A k \in 1..Len(inbox') : ~ Request(inbox'[k])) <=>
             (\A k \in 1..Len(inbox) : ~ Request(inbox[k]))
        /\ \A t \in {"hello", "ping", "query"} :
             Requested(t) => Requested(t)' /\ inbox'[Len(inbox')] = inbox[Len(inbox)]
        /\ \A t \in {"hello", "ping", "query"} : Requested(t)' => Requested(t)
    BY <1>2, <2>1, <2>2, RequestRead
  <2>4. (Answered' <=> Answered) /\ (\A t : Unread(t)' <=> Unread(t)) /\ (Over' <=> Over)
    BY <1>0, <2>1, <2>3 DEF Answered, Unread, Over
  <2>5. CASE phase \in {"start", "idle", "hello", "ping"}
    BY <1>0, <1>1, <1>2, <1>5, <2>1, <2>3, <2>4, <2>5 DEF PhasePlace
  <2>6. CASE phase \in {"query", "select"} /\ current \in Selects
    <3>1. /\ Answered' \/ (Requested("query")' /\ NoUnread')
          /\ \A k \in (seen' + 1)..Len(sent') :
               /\ sent'[k].query = current' /\ sent'[k].type \in {"block", "progress", "eos"}
               /\ sent'[k].type = "eos" => k = Len(sent') /\ Answered'
      BY <1>0, <1>1, <1>2, <1>5, <2>3, <2>4, <2>6 DEF PhasePlace
    <3>2. current' \notin Inserts
      BY <1>0, <1>3, <2>6
    <3> QED BY <1>0, <1>1, <1>2, <2>1, <2>4, <2>6, <3>1, <3>2 DEF PhasePlace
  <2>7. CASE phase \in {"query", "insert"} /\ current \in Inserts
    <3>1. current' \notin Selects /\ current # None
      BY <1>0, <1>3, <2>7
    <3>2. Requested("query") /\ NoUnread
      BY <1>1, <1>2, <2>1, <2>7, <3>1 DEF PhasePlace
    <3>3. /\ phase = "query" => inbox'[Len(inbox')].type = "query"
          /\ phase = "insert" => inbox'[Len(inbox')] = EndMark
      BY <1>2, <2>3, <2>7, <3>2 DEF PhasePlace
    <3> QED BY <1>0, <1>1, <1>2, <1>5, <2>1, <2>3, <2>4, <2>7, <3>1, <3>2, <3>3 DEF PhasePlace
  <2>8. CASE phase \in {"upload", "drain"}
    <3>1. current \in Inserts /\ current # None
      BY <1>2, <1>3, <2>8 DEF ClientTypeOK
    <3>2. phase = "drain" /\ Answered /\ Unread("eos") /\ sent[Len(sent)].query = current /\ hello
      BY <1>1, <1>2, <2>1, <2>8, <3>1 DEF PhasePlace
    <3> QED BY <1>0, <1>1, <2>1, <2>4, <3>2 DEF PhasePlace
  <2> QED BY <1>0, <1>2, <2>5, <2>6, <2>7, <2>8 DEF ClientTypeOK, Queries
<1>13. CASE (ReadEmpty \/ ReadBlock) /\ out # None
  <2>1. /\ inbox # <<>> /\ inbox' = Tail(inbox) /\ hello' = hello
        /\ \/ /\ out' = out /\ stage' = "InsertStarted" /\ pc' = "read" /\ stage = "InsertPrepare"
           \/ /\ out' = out /\ stage' = "InsertStarted" /\ pc' = "send" /\ stage = "InsertStarted"
           \/ /\ pc' = "notified" /\ out' = None /\ stage = "InsertStarted"
              /\ Len(inbox) = 1 /\ inbox[1] = EndMark
    <3>1. CASE ReadEmpty
      BY <1>1, <1>13, <3>1, ReadCases DEF ReadEmpty, Arrived, Consume
    <3>2. CASE ReadBlock
      BY <1>1, <1>13, <3>2, ReadCases DEF ReadBlock, Arrived, Consume
    <3> QED BY <1>13, <3>1, <3>2
  <2>2. /\ phase \in {"query", "insert", "upload", "drain"} /\ current \in Inserts /\ out = current
        /\ current \notin Selects /\ hello /\ ~ Over'
    BY <1>2, <1>3, <1>13, <2>1 DEF PhasePlace, Over
  <2>3. phase # "query"
    BY <1>2, <1>13, <2>1, <2>2 DEF PhasePlace
  <2>4. /\ \A k \in 1..Len(inbox') : inbox'[k] = inbox[k + 1] /\ k + 1 \in 1..Len(inbox) /\ k + 1 > 1
        /\ Len(inbox) = 1 <=> inbox' = <<>>
    BY <1>2, <2>1, TakenPacket
  <2>5. CASE phase = "insert"
    <3>1. stage = "InsertPrepare" /\ Len(inbox) = 1
      BY <1>2, <1>13, <2>1, <2>5 DEF PhasePlace
    <3>2. Unread("block") /\ sent[Len(sent)].query = current
      BY <1>1, <1>2, <1>13, <2>2, <2>5, Requests DEF PhasePlace, Requested, Request
    <3>3. Unread("block")' /\ sent'[Len(sent')].query = current' /\ inbox' = <<>> /\ pc' = "read"
          /\ out' = current' /\ stage' = "InsertStarted" /\ Len(inbox') = 0
      BY <1>0, <2>1, <2>2, <2>4, <3>1, <3>2 DEF Unread
    <3>4. ~ Requested("query")'
      BY <3>3 DEF Requested
    <3> QED BY <1>0, <2>1, <2>2, <2>5, <3>3, <3>4 DEF PhasePlace
  <2>6. CASE phase = "upload"
    <3>1. /\ NoUnread
          /\ \A k \in 1..Len(inbox) : (k > 1 \/ stage = "InsertStarted") => IsBlock(inbox[k])
      BY <1>2, <2>6 DEF PhasePlace
    <3>2. pc' # "notified"
      BY <1>4, <2>1, <3>1, Marks
    <3>3. \A k \in 1..Len(inbox') : IsBlock(inbox'[k])
      BY <2>4, <3>1
    <3>4. out' = current' /\ pc' \in {"read", "send"} /\ stage' = "InsertStarted"
      BY <1>0, <2>1, <2>2, <3>2
    <3> QED BY <1>0, <1>5, <2>1, <2>2, <2>6, <3>1, <3>3, <3>4 DEF PhasePlace
  <2>7. CASE phase = "drain"
    <3>1. NoUnread
      BY <1>1, <1>2, <1>13, <2>7 DEF PhasePlace, Answered
    <3> QED BY <1>0, <1>5, <2>1, <2>2, <2>7, <3>1 DEF PhasePlace
  <2> QED BY <2>2, <2>3, <2>5, <2>6, <2>7
<1>14. ReadBlock => out # None
  BY ReadCases
<1> QED BY <1>6, <1>8, <1>9, <1>10, <1>11, <1>12, <1>13, <1>14 DEF Read

(* The phases of the client: the server goes on from an await.               *)
LEMMA PhaseResume ==
  ASSUME ProtocolInv, Resume, UNCHANGED clientVars, peer' = "open", phase' # "gone"
  PROVE  PhasePlace'
<1> USE DEF serverVars, consumerVars, wireVars, uploadVars
<1>0. /\ peer = "open" /\ UNCHANGED <<phase, current, seen, inbox, hello>> /\ phase # "gone"
      /\ pc \notin {"ended", "read"}
  BY DEF clientVars, Resume, WritePong, WriteHello, WriteSelectBlock, WriteProgress, SelectReturns,
         WriteSample, SessionErr, WriteEos, SendBlock, TakePermit, WriteInsertEos, WriteException,
         WriteFails, Writing
<1>1. ~ Over
  BY <1>0 DEF ProtocolInv, Over
<1>2. TypeOK /\ ClientTypeOK /\ Suspended /\ ServerPlace /\ WireShape /\ PhasePlace
  BY <1>0, <1>1, Where
<1>3. Inserts \cap Selects = {} /\ None \notin Queries /\ \A q \in Inserts : q # None
  BY ConstantsAssumption, InsertIsSome DEF ConstantsAssumption
<1>4. \A k \in 1..Len(inbox') : ~ Request(inbox'[k])
  BY <1>0, <1>1, Where
<1>5. ~ WriteException /\ ~ WriteFails
  BY <1>0, <1>1 DEF WriteException, WriteFails, Over
<1>6. ASSUME NEW t, Write(t)
      PROVE  /\ Len(sent) \in Nat /\ Len(sent') = Len(sent) + 1
             /\ \A k \in 1..Len(sent) : sent'[k] = sent[k]
             /\ sent'[Len(sent')].type = t /\ sent'[Len(sent')].query = query
             /\ NoUnread => Unread(t)'
  <2>1. /\ Len(sent) \in Nat /\ Len(sent') = Len(sent) + 1
        /\ \A k \in 1..Len(sent) : sent'[k] = sent[k]
        /\ sent'[Len(sent) + 1] = [type |-> t, query |-> query]
    BY <1>2, <1>6, Written DEF Write
  <2>2. sent'[Len(sent')].type = t /\ sent'[Len(sent')].query = query
    BY <2>1
  <2>3. NoUnread => Unread(t)'
    BY <1>0, <2>1, <2>2 DEF NoUnread, Unread
  <2> QED BY <2>1, <2>2, <2>3
<1>7. ASSUME pc' = "read", out' = None PROVE Answered'
  BY <1>4, <1>7 DEF Answered
<1>8. CASE WritePong
  <2>1. pc = "pong" /\ Write("pong") /\ pc' = "read" /\ out' = out
    BY <1>8 DEF WritePong
  <2>2. phase = "ping" /\ NoUnread /\ out = None /\ hello
    BY <1>0, <1>1, <1>2, <2>1, Where DEF PhasePlace
  <2>3. Answered' /\ Unread("pong")' /\ ~ Over'
    BY <1>6, <1>7, <2>1, <2>2 DEF Over
  <2> QED BY <1>0, <2>2, <2>3 DEF PhasePlace
<1>9. CASE WriteHello
  <2>1. pc = "hello" /\ Write("hello") /\ pc' = "read" /\ out' = out
    BY <1>9 DEF WriteHello
  <2>2. phase = "hello" /\ NoUnread /\ out = None /\ hello
    BY <1>0, <1>1, <2>1, Where
  <2>3. Answered' /\ Unread("hello")' /\ ~ Over'
    BY <1>6, <1>7, <2>1, <2>2 DEF Over
  <2> QED BY <1>0, <2>2, <2>3 DEF PhasePlace
\* The answer to a SELECT.
<1>10. CASE pc \in {"select", "progress", "eos"}
  <2>1. /\ phase \in {"query", "select"} /\ current \in Selects /\ out = None /\ query = current
        /\ current \notin Inserts /\ hello
        /\ \A k \in (seen + 1)..Len(sent) :
             sent[k].query = current /\ sent[k].type \in {"block", "progress"}
    BY <1>0, <1>1, <1>2, <1>3, <1>10, Where DEF PhasePlace
  <2>2. ASSUME pc' \in {"select", "progress", "eos", "ended"} \/ Answered',
               \A k \in (seen' + 1)..Len(sent') :
                 /\ sent'[k].query = current' /\ sent'[k].type \in {"block", "progress", "eos"}
                 /\ sent'[k].type = "eos" => k = Len(sent') /\ Answered'
        PROVE  PhasePlace'
    <3>1. ~ Over' \/ pc' = "ended"
      BY <2>2 DEF Over, Answered
    <3> QED BY <1>0, <2>1, <2>2, <3>1 DEF PhasePlace
  <2>3. ASSUME NEW t \in {"block", "progress", "eos"}, Write(t), t = "eos" => Answered'
        PROVE  \A k \in (seen' + 1)..Len(sent') :
                 /\ sent'[k].query = current' /\ sent'[k].type \in {"block", "progress", "eos"}
                 /\ sent'[k].type = "eos" => k = Len(sent') /\ Answered'
    <3>1. ASSUME NEW k \in (seen' + 1)..Len(sent')
          PROVE  k = Len(sent') \/ (k \in (seen + 1)..Len(sent) /\ sent'[k] = sent[k])
      <4>1. Len(sent) \in Nat /\ Len(sent') = Len(sent) + 1 /\ seen \in Nat /\ seen' = seen
        BY <1>0, <1>2, <1>6, <2>3 DEF ClientTypeOK
      <4>2. k = Len(sent') \/ (k \in (seen + 1)..Len(sent) /\ k \in 1..Len(sent))
        BY <4>1
      <4> QED BY <1>6, <2>3, <4>2
    <3>2. sent'[Len(sent')].type = t /\ sent'[Len(sent')].query = query
      BY <1>6, <2>3
    <3> QED BY <1>0, <2>1, <2>3, <3>1, <3>2
  <2>4. CASE WriteSelectBlock \/ WriteProgress
    <3>1. pc' \in {"select", "progress"} /\ (Write("block") \/ Write("progress"))
      BY <2>4 DEF WriteSelectBlock, WriteProgress
    <3>2. \A k \in (seen' + 1)..Len(sent') :
                 /\ sent'[k].query = current' /\ sent'[k].type \in {"block", "progress", "eos"}
                 /\ sent'[k].type = "eos" => k = Len(sent') /\ Answered'
      BY <2>3, <3>1
    <3> QED BY <2>2, <3>1, <3>2
  <2>5. CASE WriteEos
    <3>1. Write("eos") /\ Answered'
      BY <1>7, <2>1, <2>5 DEF WriteEos
    <3>2. \A k \in (seen' + 1)..Len(sent') :
                 /\ sent'[k].query = current' /\ sent'[k].type \in {"block", "progress", "eos"}
                 /\ sent'[k].type = "eos" => k = Len(sent') /\ Answered'
      BY <2>3, <3>1
    <3> QED BY <2>2, <3>1, <3>2
  <2>6. CASE SelectReturns \/ SessionErr
    <3>1. sent' = sent /\ pc' \in {"eos", "ended"}
      BY <2>1, <2>6 DEF SelectReturns, SessionErr, ExecuteOk, ReturnErr
    <3> QED BY <1>0, <2>1, <2>2, <3>1
  <2> QED BY <1>5, <1>10, <2>4, <2>5, <2>6
          DEF Resume, WritePong, WriteHello, WriteSample, SendBlock, TakePermit, WriteInsertEos
<1>11. CASE WriteSample
  <2>1. pc = "sample" /\ Write("block") /\ out' = out
    BY <1>11 DEF WriteSample
  <2>2. /\ phase \in {"query", "insert"} /\ current \in Inserts /\ NoUnread /\ out = current
        /\ query = current /\ current \notin Selects /\ current # None /\ stage = "Default"
    BY <1>0, <1>1, <1>2, <1>3, <2>1, Where DEF ServerPlace
  <2>3. stage' = "InsertPrepare" /\ pc' = "read" /\ hello /\ ~ Over'
    BY <1>2, <1>11, <2>2 DEF WriteSample, ExecuteOk, PhasePlace, Over
  <2>4. Unread("block")' /\ sent'[Len(sent')].query = current
    BY <1>6, <2>1, <2>2
  <2>5. ~ Requested("query")'
    BY <1>4 DEF Requested, Request
  <2>6. /\ phase = "query" => inbox' = <<>>
        /\ phase = "insert" => Len(inbox') = 1
    BY <1>0, <1>2, <2>2 DEF PhasePlace
  <2> QED BY <1>0, <2>1, <2>2, <2>3, <2>4, <2>5, <2>6 DEF PhasePlace
<1>12. CASE SendBlock
  <2>1. pc = "send" /\ pc' = "read" /\ UNCHANGED <<out, stage, sent>> /\ ~ Over'
    BY <1>12 DEF SendBlock, Over
  <2>2. phase \in {"upload", "drain"} /\ out = current /\ hello /\ NoUnread
    BY <1>0, <1>1, <1>2, <2>1, Where DEF PhasePlace, Answered
  <2>3. phase = "upload" =>
          /\ stage = "InsertPrepare" => inbox # <<>>
          /\ \A k \in 1..Len(inbox) : (k > 1 \/ stage = "InsertStarted") => IsBlock(inbox[k])
    BY <1>2 DEF PhasePlace
  <2> QED BY <1>0, <2>1, <2>2, <2>3 DEF PhasePlace, NoUnread
<1>13. CASE TakePermit
  <2>1. pc = "notified" /\ pc' = "insert_eos" /\ UNCHANGED sent
    BY <1>13 DEF TakePermit
  <2>2. phase = "drain" /\ NoUnread /\ hello
    BY <1>0, <1>1, <1>2, <2>1, Where DEF PhasePlace
  <2> QED BY <1>0, <2>1, <2>2 DEF PhasePlace, NoUnread, Over
<1>14. CASE WriteInsertEos
  <2>1. pc = "insert_eos" /\ Write("eos") /\ pc' = "read" /\ out' = out
    BY <1>14 DEF WriteInsertEos
  <2>2. phase = "drain" /\ NoUnread /\ hello /\ query = current /\ out = None
    BY <1>0, <1>1, <1>2, <2>1, Where DEF PhasePlace
  <2>3. Answered' /\ Unread("eos")' /\ sent'[Len(sent')].query = current /\ ~ Over'
    BY <1>6, <1>7, <2>1, <2>2 DEF Over
  <2> QED BY <1>0, <2>2, <2>3 DEF PhasePlace
<1>15. CASE WriteSelectBlock \/ WriteProgress \/ SelectReturns \/ SessionErr \/ WriteEos
  BY <1>10, <1>15 DEF WriteSelectBlock, WriteProgress, SelectReturns, SessionErr, WriteEos
<1> QED BY <1>5, <1>8, <1>9, <1>11, <1>12, <1>13, <1>14, <1>15 DEF Resume

(* The places of client and server agree after every step.                   *)
LEMMA PhasePlaceStep ==
  ASSUME ProtocolInv, [Next]_vars, peer' = "open", phase' # "gone"
  PROVE  PhasePlace'
<1> USE DEF serverVars, consumerVars, wireVars, uploadVars
<1>1. ASSUME UNCHANGED <<pc, hello, stage, out, inbox, peer, sent, clientVars>> PROVE PhasePlace'
  <2>1. PhasePlace
    BY <1>1 DEF ProtocolInv, clientVars
  <2> QED BY <1>1, <2>1 DEF clientVars, PhasePlace, Over, Answered, NoUnread, Unread, Requested
<1>2. CASE Client
  BY <1>2, PhaseClient
<1>3. CASE TaskStep
  BY <1>3, PhaseRead, PhaseResume DEF TaskStep, Task
<1>4. ASSUME NEW q \in Inserts, ConsumerStep(q) PROVE PhasePlace'
  BY <1>1, <1>4 DEF ConsumerStep, ConsumerTask, NextBlock, Finish
<1>5. CASE Fail
  BY <1>5 DEF Fail, Disconnect
<1>6. CASE UNCHANGED vars
  BY <1>1, <1>6 DEF vars, chVars
<1> QED BY <1>2, <1>3, <1>4, <1>5, <1>6 DEF Next

-----------------------------------------------------------------------------
(* The invariant and what follows from it. *)

(* The invariant is inductive.                                               *)
LEMMA ProtocolInvStep == ProtocolInv /\ [Next]_vars => ProtocolInv'
<1> SUFFICES ASSUME ProtocolInv, [Next]_vars PROVE ProtocolInv'
  OBVIOUS
<1>1. ChInv'
  BY ProtocolStep, ServerStep DEF ProtocolInv
<1>2. ClientTypeOK'
  BY ClientTypeStep DEF ProtocolInv, ChInv, ControlInv
<1>3. AckedInsertIsStored' /\ (\A q \in Queries : Acked(q)' => Accepted(q)')
  BY AckedStoredStep, AckedAcceptedStep
<1>4. pc' = "exception" => peer' # "open"
  BY ExceptionPeerStep
<1>5. ~ Over' => ServerPlace' /\ WireShape' /\ OneConsumer' /\ OneQuery'
  BY ServerPlaceStep, WireShapeStep, OneConsumerStep, OneQueryStep
<1>6. peer' = "open" /\ phase' # "gone" => PhasePlace'
  BY PhasePlaceStep
<1> QED BY <1>1, <1>2, <1>3, <1>4, <1>5, <1>6 DEF ProtocolInv

(* The inductive invariant: the place of the server and of the client in the *)
(* conversation, the packets on the wire and the channels, for every client  *)
(* that follows the protocol.                                                *)
THEOREM ProtocolInvariance == Spec => []ProtocolInv
<1>1. Init => ProtocolInv
  BY InitProtocol
<1>2. ProtocolInv /\ [Next]_vars => ProtocolInv'
  BY ProtocolInvStep
<1> QED BY <1>1, <1>2, PTL DEF Spec

(* The variables of the server keep their types.                             *)
THEOREM ProtocolTypeCorrect == Spec => []TypeOK
<1>1. ProtocolInv => TypeOK
  BY DEF ProtocolInv, ChInv, ControlInv
<1> QED BY <1>1, ProtocolInvariance, PTL

(* `wait stream finished`: an INSERT is acknowledged only when its consumer  *)
(* has stopped and has taken every block that was uploaded, for every number *)
(* of queries and blocks and every capacity of the channel.                  *)
THEOREM AckedIsStored == Spec => []AckedInsertIsStored
<1>1. ProtocolInv => AckedInsertIsStored
  BY DEF ProtocolInv
<1> QED BY <1>1, ProtocolInvariance, PTL

(* sent_all_data holds a permit only at the end of the upload it belongs to. *)
THEOREM PermitIsFresh == Spec => []NoStalePermit
<1>1. ProtocolInv => NoStalePermit
  BY DEF ProtocolInv, NoStalePermit, Over, OneConsumer
<1> QED BY <1>1, ProtocolInvariance, PTL

(* Every packet the client reads is one that the protocol allows there, and  *)
(* of the query in progress.                                                 *)
THEOREM RepliesAllowed == Spec => []RepliesExpected
<1>1. ASSUME ProtocolInv, peer = "open", phase # "gone", seen < Len(sent)
      PROVE  /\ sent[seen + 1].type \in Expected
             /\ phase \notin {"hello", "ping"} => sent[seen + 1].query = current
  <2>1. /\ PhasePlace /\ ClientTypeOK /\ ~ NoUnread /\ seen \in Nat /\ Len(sent) \in Nat
        /\ Len(sent) = seen + 1 => sent[Len(sent)] = sent[seen + 1]
        /\ seen + 1 \in (seen + 1)..Len(sent)
    BY <1>1 DEF ProtocolInv, ChInv, ControlInv, TypeOK, ClientTypeOK, NoUnread
  <2>2. \A t : Unread(t) => sent[seen + 1].type = t /\ sent[Len(sent)] = sent[seen + 1]
    BY <2>1 DEF Unread
  <2>3. phase \notin {"start", "idle", "upload"}
    BY <2>1 DEF PhasePlace
  <2>4. CASE phase = "hello"
    BY <2>1, <2>2, <2>4 DEF PhasePlace, Expected
  <2>5. CASE phase = "ping"
    BY <2>1, <2>2, <2>5 DEF PhasePlace, Expected
  <2>6. CASE phase \in {"query", "select"} /\ current \in Selects
    <3>1. \A k \in (seen + 1)..Len(sent) :
            sent[k].query = current /\ sent[k].type \in {"block", "progress", "eos"}
      BY <2>1, <2>6 DEF PhasePlace
    <3>2. Expected = {"block", "progress", "eos"}
      <4>1. current \notin Inserts
        BY <2>6, ConstantsAssumption DEF ConstantsAssumption
      <4> QED BY <2>6, <4>1 DEF Expected
    <3> QED BY <2>1, <3>1, <3>2
  <2>7. CASE phase \in {"query", "insert"} /\ current \in Inserts
    <3>1. current \notin Selects
      BY <2>7, ConstantsAssumption DEF ConstantsAssumption
    <3>2. sent[seen + 1].type = "block" /\ sent[seen + 1].query = current
      BY <2>1, <2>2, <2>7 DEF PhasePlace
    <3> QED BY <2>7, <3>1, <3>2 DEF Expected
  <2>8. CASE phase = "drain"
    BY <2>1, <2>2, <2>8 DEF PhasePlace, Expected
  <2> QED BY <1>1, <2>1, <2>3, <2>4, <2>5, <2>6, <2>7, <2>8 DEF ClientTypeOK, Queries
<1>2. ProtocolInv => RepliesExpected
  BY <1>1 DEF RepliesExpected
<1> QED BY <1>2, ProtocolInvariance, PTL

-----------------------------------------------------------------------------
(***************************************************************************)
(* The server and a client that follows the protocol implement the         *)
(* abstract service of module QueryService: every step is a step of it or  *)
(* leaves its variables alone.                                             *)
(***************************************************************************)

(* The status of the queries changes when a query is read and when its       *)
(* EndOfStream is written, and at no other step.                             *)
LEMMA StatusKept ==
  ASSUME TypeOK, FreshQueries, [ChNext]_chVars,
         ~ (ReadSelect \/ ReadInsert), ~ (WriteEos \/ WriteInsertEos)
  PROVE  Status' = Status
<1>1. \A q \in Queries : (Acked(q)' <=> Acked(q)) /\ (Accepted(q)' <=> Accepted(q))
  BY AcceptedStep, AckedStep
<1> QED BY <1>1 DEF Status

(* The status of a query, from its place on the wire and its EndOfStream.    *)
LEMMA StatusValue ==
  ASSUME NEW q \in Queries
  PROVE  /\ Status[q] = "running" <=> Accepted(q) /\ ~ Acked(q)
         /\ Status[q] = "new" <=> ~ Accepted(q) /\ ~ Acked(q)
BY DEF Status

(* A consumer that has been spawned is that of a query the server has taken. *)
LEMMA SpawnedIsAccepted ==
  ASSUME ProtocolInv, NEW q \in Inserts, consumer[q] = "running"
  PROVE  Status[q] = "running"
<1>1. FreshQueries /\ IssuedFirst /\ TypeOK /\ AckedInsertIsStored
  BY DEF ProtocolInv, ChInv, ControlInv
<1>2. q \in issued
  BY <1>1 DEF IssuedFirst
<1>3. \A k \in 1..Len(inbox) : inbox[k] # Msg("query", q)
  BY <1>1, MsgFields DEF FreshQueries
<1>4. Accepted(q) /\ ~ Acked(q)
  BY <1>1, <1>2, <1>3 DEF Accepted, AckedInsertIsStored
<1> QED BY <1>4, StatusValue DEF Queries

(* The block that a consumer takes is the next one of those uploaded.        *)
LEMMA NextIsUploaded ==
  ASSUME ChInv, NEW q \in Inserts, chan[q] # <<>>
  PROVE  /\ Len(got[q]) < Len(uploaded[q])
         /\ uploaded[q][Len(got[q]) + 1] = Head(chan[q])
<1>1. TypeOK /\ Suspended /\ DeliveredInOrder
  BY DEF ChInv, ControlInv, DeliveryInv
<1>2. got[q] \in Seq(Blocks) /\ chan[q] \in Seq(Blocks) /\ uploaded[q] \in Seq(Blocks)
  BY <1>1 DEF TypeOK
<1>3. ASSUME NEW g \in Seq(Blocks), NEW c \in Seq(Blocks), c # <<>>
      PROVE  /\ g \o c \in Seq(Blocks) /\ Len(g) + 1 \in 1..Len(g \o c)
             /\ (g \o c)[Len(g) + 1] = Head(c)
  BY <1>3
<1> DEFINE s == got[q] \o chan[q]
<1>4. s \in Seq(Blocks) /\ Len(got[q]) + 1 \in 1..Len(s) /\ s[Len(got[q]) + 1] = Head(chan[q])
  BY <1>2, <1>3
<1>5. Received(q) \in Seq(Blocks) /\ (Received(q) = s \/ \E x : Received(q) = Append(s, x))
  BY <1>1, ReceivedIs
<1> HIDE DEF s
<1>6. /\ Len(got[q]) + 1 \in 1..Len(Received(q))
      /\ Received(q)[Len(got[q]) + 1] = Head(chan[q])
  <2>1. CASE Received(q) = s
    BY <1>4, <2>1
  <2>2. ASSUME NEW x, Received(q) = Append(s, x)
        PROVE  /\ Len(got[q]) + 1 \in 1..Len(Received(q))
               /\ Received(q)[Len(got[q]) + 1] = Head(chan[q])
    BY <1>2, <1>4, <2>2
  <2> QED BY <1>5, <2>1, <2>2
<1>7. /\ Len(Received(q)) <= Len(uploaded[q])
      /\ \A i \in 1..Len(Received(q)) : Received(q)[i] = uploaded[q][i]
  BY <1>1, <1>2, <1>5, PrefixByElements DEF DeliveredInOrder
<1>8. Len(got[q]) \in Nat /\ Len(uploaded[q]) \in Nat /\ Len(Received(q)) \in Nat
  BY <1>2, <1>5
<1> QED BY <1>6, <1>7, <1>8

-----------------------------------------------------------------------------
(* No query has been taken at first.                                         *)
LEMMA ServiceInit == Init => Service!Init
<1> SUFFICES ASSUME Init PROVE Service!Init
  OBVIOUS
<1>1. pc = "read" /\ inbox = <<>> /\ sent = <<>> /\ issued = {}
      /\ uploaded = [q \in Inserts |-> <<>>] /\ got = [q \in Inserts |-> <<>>]
  BY DEF Init, ChInit
<1>2. (\A q : ~ Acked(q)) /\ (\A q : ~ Accepted(q))
  BY <1>1 DEF Acked, Accepted
<1>3. Status = [q \in Inserts \cup Selects |-> "new"]
  BY <1>2 DEF Status, Queries
<1> QED BY <1>1, <1>3 DEF Service!Init

(* The connection task: a query starts when it is read and is complete when  *)
(* its EndOfStream is written; the connection ends when the task returns.    *)
LEMMA TaskService ==
  ASSUME ProtocolInv, Task
  PROVE  [Service!Next]_Service!vars
<1> USE DEF serverVars, consumerVars, wireVars, uploadVars
<1>0. /\ TypeOK /\ FreshQueries /\ Suspended /\ [ChNext]_chVars
      /\ ~ Over => ServerPlace /\ OneConsumer /\ OneQuery
  BY DEF ProtocolInv, ChInv, ControlInv, ChNext
<1>1. pc # "ended" /\ UNCHANGED <<got, uploaded>>
  <2>1. CASE Read
    BY <2>1 DEF Read, ReadPing, ReadCancel, ReadHello, ReadSelect, ReadInsert, ReadBlock, ReadEmpty,
                ReadErr, ReadNone, Arrived
  <2>2. CASE Resume
    BY <2>2 DEF Resume, WritePong, WriteHello, WriteSelectBlock, WriteProgress, SelectReturns,
                WriteSample, SessionErr, WriteEos, SendBlock, TakePermit, WriteInsertEos,
                WriteException, WriteFails, Writing
  <2> QED BY <2>1, <2>2 DEF Task
<1>2. CASE ReadSelect \/ ReadInsert
  <2>1. /\ Read /\ pc = "read" /\ pc' # "ended" /\ ~ (WriteEos \/ WriteInsertEos)
    BY <1>2 DEF Read, ReadSelect, ReadInsert, Arrived, WriteEos, WriteInsertEos
  <2>2. /\ out = None /\ inbox[1] = Msg("query", current) /\ current \in Queries /\ ~ Over
    BY <1>2, <2>1, ReadCases
  <2>3. ~ Busy /\ \A q \in Queries : Accepted(q) => Acked(q)
    BY <1>0, <2>1, <2>2 DEF Busy, OneQuery
  <2>4. ~ Accepted(current)
    BY <1>0, <1>2, <2>2, TakenPacket DEF Accepted, ReadSelect, ReadInsert, Arrived, Consume
  <2>5. ~ Acked(current)
    BY <2>2, <2>4 DEF ProtocolInv
  <2>6. \A q : (Acked(q)' <=> Acked(q)) /\ (Accepted(q)' <=> Accepted(q) \/ q = current)
    <3>1. \A q : inbox[1] = Msg("query", q) <=> q = current
      BY <2>2, MsgFields
    <3> QED BY <1>0, <1>2, <2>1, <3>1, AcceptedStep, AckedStep
  <2>7. Status' = [Status EXCEPT ![current] = "running"]
    BY <2>2, <2>4, <2>5, <2>6 DEF Status
  <2>8. Status[current] = "new" /\ \A q \in Queries : Status[q] # "running"
    BY <2>2, <2>3, <2>4, <2>5, StatusValue
  <2>9. Service!Start(current)
    BY <1>1, <2>1, <2>7, <2>8 DEF Service!Start, Queries
  <2> QED BY <2>2, <2>9 DEF Service!Next, Queries
<1>3. CASE WriteEos \/ WriteInsertEos
  <2>1. /\ pc \in {"eos", "insert_eos"} /\ pc' = "read" /\ ~ Over /\ ~ (ReadSelect \/ ReadInsert)
    BY <1>3 DEF WriteEos, WriteInsertEos, Over, ReadSelect, ReadInsert, Arrived
  <2>2. Busy /\ query = current /\ query \in Queries
    BY <1>0, <2>1 DEF Busy, ServerPlace, Queries
  <2>3. Accepted(query) /\ ~ Acked(query)
    BY <1>0, <2>1, <2>2 DEF OneQuery
  <2>4. \A q : (Acked(q)' <=> Acked(q) \/ q = query) /\ (Accepted(q)' <=> Accepted(q))
    BY <1>0, <1>3, <2>1, AcceptedStep, AckedStep
  <2>5. Status' = [Status EXCEPT ![query] = "done"]
    BY <2>2, <2>4 DEF Status
  <2>6. Status[query] = "running"
    BY <2>2, <2>3, StatusValue
  <2>7. query \in Inserts => got[query] = uploaded[query]
    <3>1. pc = "eos" => query \notin Inserts
      BY <1>0, <2>1, <2>2, ConstantsAssumption DEF ServerPlace, ConstantsAssumption
    <3> QED BY <1>0, <2>1, <3>1 DEF OneConsumer
  <2>8. Service!Complete(query)
    BY <1>1, <2>1, <2>5, <2>6, <2>7 DEF Service!Complete
  <2> QED BY <2>2, <2>8 DEF Service!Next, Queries
<1>4. CASE ~ (ReadSelect \/ ReadInsert) /\ ~ (WriteEos \/ WriteInsertEos)
  <2>1. Status' = Status
    BY <1>0, <1>4, StatusKept
  <2>2. CASE pc' = "ended"
    <3>1. Service!End
      BY <1>1, <2>1, <2>2 DEF Service!End
    <3> QED BY <3>1 DEF Service!Next
  <2>3. CASE pc' # "ended"
    BY <1>1, <2>1, <2>3 DEF Service!vars
  <2> QED BY <2>2, <2>3
<1> QED BY <1>2, <1>3, <1>4

(* Every step is one of the abstract service, or leaves it alone.            *)
LEMMA ServiceStep ==
  ASSUME ProtocolInv, [Next]_vars
  PROVE  [Service!Next]_Service!vars
<1> USE DEF chVars, serverVars, consumerVars, wireVars, uploadVars
<1>0. TypeOK /\ FreshQueries /\ [ChNext]_chVars
  BY ProtocolStep DEF ProtocolInv, ChInv, ControlInv
<1>1. CASE Task
  BY <1>1, TaskService
<1>2. ~ Task => Status' = Status
  <2>1. ~ Task => ~ (ReadSelect \/ ReadInsert) /\ ~ (WriteEos \/ WriteInsertEos)
    BY DEF Task, Read, Resume
  <2> QED BY <1>0, <2>1, StatusKept
<1>3. ASSUME ~ Task, UNCHANGED <<pc, uploaded, got>> PROVE [Service!Next]_Service!vars
  BY <1>2, <1>3 DEF Service!vars
\* Sending a block offers it.
<1>4. ASSUME NEW b \in Blocks, Upload(b), ~ Task PROVE [Service!Next]_Service!vars
  <2>1. UNCHANGED <<pc, got>>
    BY <1>4, ClientLeaves DEF Client
  <2>2. /\ current \in Inserts /\ consumer[current] = "running"
        /\ uploaded' = [uploaded EXCEPT ![current] = Append(uploaded[current], b)]
    BY <1>4, UploadTarget
  <2>3. Status[current] = "running"
    BY <2>2, SpawnedIsAccepted
  <2>4. Service!Offer(current, b)
    BY <1>2, <1>4, <2>1, <2>2, <2>3 DEF Service!Offer
  <2> QED BY <2>2, <2>4 DEF Service!Next
<1>5. CASE Client /\ ~ Task
  BY <1>3, <1>4, <1>5, ClientLeaves
\* Taking a block from the channel stores it.
<1>6. ASSUME NEW q \in Inserts, NextBlock(q), ~ Task PROVE [Service!Next]_Service!vars
  <2>1. /\ consumer[q] = "running" /\ chan[q] # <<>> /\ UNCHANGED <<pc, uploaded>>
        /\ got' = [got EXCEPT ![q] = Append(got[q], Head(chan[q]))]
    BY <1>6 DEF NextBlock
  <2>2. Status[q] = "running"
    BY <2>1, SpawnedIsAccepted
  <2>3. /\ Len(got[q]) < Len(uploaded[q])
        /\ uploaded[q][Len(got[q]) + 1] = Head(chan[q])
    BY <2>1, NextIsUploaded DEF ProtocolInv
  <2>4. Service!Store(q)
    BY <1>2, <1>6, <2>1, <2>2, <2>3 DEF Service!Store
  <2> QED BY <2>4 DEF Service!Next
<1>7. ASSUME NEW q \in Inserts, ConsumerStep(q), ~ Task PROVE [Service!Next]_Service!vars
  <2>1. Finish(q) => UNCHANGED <<pc, uploaded, got>>
    BY DEF Finish
  <2> QED BY <1>3, <1>6, <1>7, <2>1 DEF ConsumerStep, ConsumerTask
<1>8. CASE (Fail \/ UNCHANGED vars) /\ ~ Task
  BY <1>3, <1>8 DEF Fail, Disconnect, vars
<1> QED BY <1>1, <1>5, <1>7, <1>8 DEF Next, TaskStep

(* What a client may rely on: one query at a time, the blocks of an INSERT   *)
(* stored in order, EndOfStream only when all of them are stored, and a      *)
(* query that is answered never touched again.                               *)
THEOREM ServerImplementsService == Spec => ImplementsService
<1>1. Init => Service!Init
  BY ServiceInit
<1>2. ProtocolInv /\ [Next]_vars => [Service!Next]_Service!vars
  BY ServiceStep
<1> QED BY <1>1, <1>2, ProtocolInvariance, PTL DEF Spec, ImplementsService, Service!Spec
==============================================================================
