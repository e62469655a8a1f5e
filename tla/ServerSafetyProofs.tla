------------------------- MODULE ServerSafetyProofs -------------------------
(***************************************************************************)
(* The invariants of module ServerSafety are kept by every step of the     *)
(* connection, for every set of queries and blocks, every channel          *)
(* capacity and every client: first ControlInv, on the control state, then *)
(* DeliveryInv, on the blocks.                                             *)
(***************************************************************************)
EXTENDS ServerSafety, TLAPS, SequenceTheorems

USE ConstantsAssumption DEF ConstantsAssumption

(* What the body of a packet is, by the type of the packet. *)
LEMMA PacketBody ==
  ASSUME NEW p \in Packet
  PROVE  /\ p.type = "query" => p.body \in Queries
         /\ p.type = "data" => p.body \in Blocks \cup {EmptyBlock}
BY DEF Packet

(* The invariant on the control state holds at first.                        *)
LEMMA InitControl == ChInit => ControlInv
<1> SUFFICES ASSUME ChInit PROVE ControlInv
  OBVIOUS
<1> USE DEF ChInit
<1>1. TypeOK
  <2>1. /\ <<>> \in Seq(Blocks) /\ <<>> \in Seq(Packet) /\ <<>> \in Seq(Reply)
        /\ 0 \in 0..SelectBlocks
    BY DEF ConstantsAssumption
  <2> QED BY <2>1 DEF TypeOK, PC, Writing
<1>2. FreshQueries
  BY DEF FreshQueries
<1>4. IssuedFirst /\ FinishedIsDrained
  <2>1. \A q \in Inserts : q # None
    BY DEF Queries
  <2> QED BY <2>1 DEF IssuedFirst, FinishedIsDrained
<1>3. Suspended /\ SendNeverPanics /\ StageHasSender
  BY DEF Suspended, SendNeverPanics, StageHasSender
<1> QED BY <1>1, <1>2, <1>3, <1>4 DEF ControlInv

(* Every step keeps the types.                                               *)
LEMMA TypeStep == TypeOK /\ Suspended /\ [ChNext]_chVars => TypeOK'
<1> SUFFICES ASSUME TypeOK, Suspended, [ChNext]_chVars PROVE TypeOK'
  OBVIOUS
<1> USE DEF TypeOK, PC, Writing, chVars, serverVars, consumerVars, wireVars, uploadVars,
          HasColumns, CloseUpload, Reset, HasRoom, NotifyOne, Notified, StreamEnded, ReturnAfterError
<1>1. ASSUME NEW p \in Packet, Transmit(p) PROVE TypeOK'
  BY <1>1, PacketBody DEF Transmit
<1>2. CASE Disconnect
  BY <1>2 DEF Disconnect
<1>3. CASE Read
  <2>1. inbox # <<>> => Head(inbox) \in Packet /\ Tail(inbox) \in Seq(Packet)
    OBVIOUS
  <2>2. CASE ReadPing \/ ReadCancel \/ ReadHello \/ ReadErr \/ ReadNone
    BY <2>1, <2>2, ZenonT(40) DEF ReadPing, ReadCancel, ReadHello, ReadErr, ReadNone, Arrived, Consume
  <2>3. CASE ReadSelect
    BY <2>1, <2>3, SMTT(20) DEF ReadSelect, Arrived, Consume, Queries
  <2>5. CASE ReadInsert
    BY <2>1, <2>5 DEF ReadInsert, Arrived, Consume, Queries
  <2>4. CASE ReadBlock \/ ReadEmpty
    BY <2>1, <2>4, PacketBody DEF ReadBlock, ReadEmpty, Arrived, Consume
  <2> QED BY <1>3, <2>2, <2>3, <2>4, <2>5 DEF Read
<1>4. CASE Resume
  <2>1. \A t \in {"hello", "pong", "block", "progress", "eos", "exception"} :
          Write(t) => sent' \in Seq(Reply)
    BY DEF Write, Reply
  <2>2. CASE WritePong \/ WriteHello \/ WriteProgress \/ WriteEos \/ WriteInsertEos
                \/ WriteException
    BY <2>1, <2>2 DEF WritePong, WriteHello, WriteProgress, WriteEos, WriteInsertEos,
                      WriteException
  <2>3. CASE WriteSelectBlock
    BY <2>1, <2>3 DEF WriteSelectBlock
  <2>4. CASE SelectReturns \/ WriteSample
    BY <2>1, <2>4 DEF SelectReturns, WriteSample, ExecuteOk
  <2>5. CASE SessionErr \/ WriteFails \/ TakePermit
    BY <2>5 DEF SessionErr, WriteFails, TakePermit, ReturnErr
  <2>6. CASE SendBlock
    BY <2>6 DEF SendBlock, Suspended
  <2> QED BY <1>4, <2>2, <2>3, <2>4, <2>5, <2>6 DEF Resume
<1>5. ASSUME NEW q \in Inserts, ConsumerTask(q) PROVE TypeOK'
  <2>1. CASE NextBlock(q)
    <3>1. Head(chan[q]) \in Blocks /\ Tail(chan[q]) \in Seq(Blocks)
      BY <2>1 DEF NextBlock
    <3> QED BY <2>1, <3>1 DEF NextBlock
  <2>2. CASE Finish(q)
    BY <2>2 DEF Finish
  <2> QED BY <1>5, <2>1, <2>2 DEF ConsumerTask
<1>6. CASE UNCHANGED chVars
  BY <1>6
<1> QED BY <1>1, <1>2, <1>3, <1>4, <1>5, <1>6 DEF ChNext, Task

(* Taking the first packet or adding one at the end, every packet of the new *)
(* inbox has its place in the old one: the facts FreshQueries needs.         *)
LEMMA TailPackets ==
  ASSUME TypeOK, inbox # <<>>
  PROVE  /\ Head(inbox) = inbox[1] /\ 1 \in 1..Len(inbox)
         /\ Len(Tail(inbox)) = Len(inbox) - 1
         /\ \A k \in 1..Len(Tail(inbox)) :
              k + 1 \in 1..Len(inbox) /\ Tail(inbox)[k] = inbox[k + 1]
BY DEF TypeOK

(* A query id on the wire stays unknown to the server until it is read.      *)
LEMMA FreshStep == ControlInv /\ [ChNext]_chVars => FreshQueries' /\ IssuedFirst'
<1> SUFFICES ASSUME ControlInv, [ChNext]_chVars PROVE FreshQueries' /\ IssuedFirst'
  OBVIOUS
<1> USE DEF chVars, serverVars, consumerVars, wireVars, uploadVars,
          HasColumns, CloseUpload, Reset, HasRoom, NotifyOne, Notified, StreamEnded, ReturnAfterError
<1>0. TypeOK /\ FreshQueries /\ IssuedFirst /\ Suspended
  BY DEF ControlInv
<1>1. ASSUME NEW p \in Packet, Transmit(p) PROVE FreshQueries' /\ IssuedFirst'
  <2>1. /\ Len(inbox') = Len(inbox) + 1 /\ Len(inbox) \in Nat
        /\ \A k \in 1..Len(inbox) : inbox'[k] = inbox[k]
        /\ inbox'[Len(inbox) + 1] = p
    BY <1>0, <1>1 DEF Transmit, TypeOK
  <2>2. /\ issued \subseteq issued'
        /\ p.type = "query" => p.body \in issued' /\ p.body \notin issued
        /\ consumer' = consumer /\ out' = out
    BY <1>1 DEF Transmit
  <2>3. FreshQueries'
    BY <1>0, <2>1, <2>2 DEF FreshQueries, IssuedFirst
  <2> QED BY <1>0, <2>2, <2>3 DEF IssuedFirst
<1>2. ASSUME inbox # <<>>, inbox' = Tail(inbox), out' \in {out, None},
             consumer' = consumer, issued' = issued
      PROVE  FreshQueries' /\ IssuedFirst'
  <2>1. FreshQueries'
    <3>1. SUFFICES ASSUME NEW k \in 1..Len(inbox'), inbox'[k].type = "query"
                   PROVE  /\ inbox'[k].body \in issued
                          /\ inbox'[k].body \in Inserts =>
                               consumer[inbox'[k].body] = "none" /\ out' # inbox'[k].body
                          /\ \A j \in 1..Len(inbox') :
                               inbox'[j].type = "query" /\ inbox'[j].body = inbox'[k].body => j = k
      BY <1>2 DEF FreshQueries
    <3>2. k + 1 \in 1..Len(inbox) /\ inbox'[k] = inbox[k + 1]
      BY <1>0, <1>2, TailPackets
    <3>3. \A j \in 1..Len(inbox') : j + 1 \in 1..Len(inbox) /\ inbox'[j] = inbox[j + 1]
      BY <1>0, <1>2, TailPackets
    <3>4. \A q \in Inserts : q # None
      BY DEF Queries
    <3> QED BY <1>0, <1>2, <3>1, <3>2, <3>3, <3>4 DEF FreshQueries
  <2> QED BY <1>0, <1>2, <2>1 DEF IssuedFirst, Queries
<1>3. CASE ReadInsert
  <2>1. /\ inbox # <<>> /\ inbox' = Tail(inbox) /\ consumer' = consumer /\ issued' = issued
        /\ out' = inbox[1].body /\ inbox[1].type = "query"
    BY <1>0, <1>3, TailPackets DEF ReadInsert, Arrived, Consume
  <2>2. FreshQueries'
    <3>1. SUFFICES ASSUME NEW k \in 1..Len(inbox'), inbox'[k].type = "query"
                   PROVE  /\ inbox'[k].body \in issued
                          /\ inbox'[k].body \in Inserts =>
                               consumer[inbox'[k].body] = "none" /\ out' # inbox'[k].body
                          /\ \A j \in 1..Len(inbox') :
                               inbox'[j].type = "query" /\ inbox'[j].body = inbox'[k].body => j = k
      BY <2>1 DEF FreshQueries
    <3>3. \A j \in 1..Len(inbox') : j + 1 \in 1..Len(inbox) /\ inbox'[j] = inbox[j + 1]
      BY <1>0, <2>1, TailPackets
    <3>4. 1 \in 1..Len(inbox)
      BY <1>0, <2>1, TailPackets
    <3>2. 1 \in 1..Len(inbox) /\ k + 1 \in 1..Len(inbox) /\ k + 1 # 1 /\ inbox'[k] = inbox[k + 1]
      BY <3>3, <3>4
    <3> QED BY <1>0, <2>1, <3>1, <3>2, <3>3 DEF FreshQueries
  <2> QED BY <1>0, <2>1, <2>2, TailPackets DEF IssuedFirst, FreshQueries
<1>4. ASSUME inbox' = inbox, out' \in {out, None}, consumer' = consumer, issued' = issued
      PROVE  FreshQueries' /\ IssuedFirst'
  BY <1>0, <1>4 DEF FreshQueries, IssuedFirst, Queries
<1>5. CASE WriteSample
  <2>1. /\ inbox' = inbox /\ out' = out /\ issued' = issued /\ out \in Inserts
        /\ consumer' = [consumer EXCEPT ![out] = "running"]
    BY <1>0, <1>5 DEF WriteSample, Suspended
  <2> QED BY <1>0, <2>1 DEF FreshQueries, IssuedFirst, TypeOK
<1>6. ASSUME NEW q \in Inserts, ConsumerTask(q) PROVE FreshQueries' /\ IssuedFirst'
  <2>1. /\ inbox' = inbox /\ out' = out /\ issued' = issued /\ consumer[q] = "running"
        /\ consumer' = consumer \/ consumer' = [consumer EXCEPT ![q] = "finished"]
    BY <1>6 DEF ConsumerTask, NextBlock, Finish
  <2> QED BY <1>0, <2>1, SMTT(20) DEF FreshQueries, IssuedFirst, TypeOK
<1>7. CASE Read
  <2>1. CASE ReadPing \/ ReadCancel \/ ReadHello \/ ReadSelect \/ ReadBlock \/ ReadEmpty
    BY <1>2, <2>1 DEF ReadPing, ReadCancel, ReadHello, ReadSelect, ReadBlock, ReadEmpty,
                      Arrived, Consume
  <2>2. CASE ReadErr \/ ReadNone
    BY <1>4, <2>2 DEF ReadErr, ReadNone
  <2> QED BY <1>3, <1>7, <2>1, <2>2 DEF Read
<1>8. CASE Resume
  <2>1. WriteSample \/ (inbox' = inbox /\ out' \in {out, None} /\ consumer' = consumer
                           /\ issued' = issued)
    BY <1>8 DEF Resume, WritePong, WriteHello, WriteSelectBlock, WriteProgress, SelectReturns,
                SessionErr, WriteEos, SendBlock, TakePermit, WriteInsertEos, WriteException,
                WriteFails, ReturnErr
  <2> QED BY <1>4, <1>5, <2>1
<1>9. CASE Disconnect \/ UNCHANGED chVars
  BY <1>4, <1>9 DEF Disconnect
<1> QED BY <1>1, <1>6, <1>7, <1>8, <1>9 DEF ChNext, Task

(* What the awaits of the task rely on is kept while it is suspended.        *)
LEMMA SuspendedStep == ControlInv /\ [ChNext]_chVars => Suspended'
<1> SUFFICES ASSUME ControlInv, [ChNext]_chVars PROVE Suspended'
  OBVIOUS
<1> USE DEF chVars, serverVars, consumerVars, wireVars, uploadVars,
          HasColumns, CloseUpload, Reset, HasRoom, NotifyOne, Notified, StreamEnded, ReturnAfterError
<1>0. TypeOK /\ FreshQueries /\ Suspended
  BY DEF ControlInv
<1>1. ASSUME NEW p \in Packet, Transmit(p) PROVE Suspended'
  BY <1>0, <1>1 DEF Transmit, Suspended
<1>2. CASE Read
  <2>1. CASE ReadInsert
    BY <1>0, <2>1, TailPackets DEF ReadInsert, Arrived, Suspended, FreshQueries
  <2>2. CASE ReadBlock
    <3>1. Head(inbox) \in Packet
      BY <1>0, <2>2 DEF ReadBlock, Arrived, TypeOK
    <3> QED BY <1>0, <2>2, <3>1, PacketBody DEF ReadBlock, Arrived, Suspended
  <2>3. CASE ReadPing \/ ReadCancel \/ ReadHello \/ ReadSelect
    BY <1>0, <2>3 DEF ReadPing, ReadCancel, ReadHello, ReadSelect, Arrived, Suspended
  <2>4. CASE ReadEmpty \/ ReadErr \/ ReadNone
    BY <1>0, <2>4 DEF ReadEmpty, ReadErr, ReadNone, Arrived, Suspended
  <2> QED BY <1>2, <2>1, <2>2, <2>3, <2>4 DEF Read
<1>3. CASE Resume
  <2>1. CASE WritePong \/ WriteHello \/ WriteSelectBlock \/ WriteProgress \/ WriteEos
    BY <1>0, <2>1 DEF WritePong, WriteHello, WriteSelectBlock, WriteProgress, WriteEos, Suspended
  <2>2. CASE SelectReturns \/ WriteSample
    BY <1>0, <2>2 DEF SelectReturns, WriteSample, ExecuteOk, Suspended
  <2>3. CASE SessionErr \/ WriteFails \/ SendBlock
    BY <1>0, <2>3 DEF SessionErr, WriteFails, ReturnErr, SendBlock, Suspended
  <2>4. CASE TakePermit \/ WriteInsertEos \/ WriteException
    BY <1>0, <2>4 DEF TakePermit, WriteInsertEos, WriteException, Suspended
  <2> QED BY <1>3, <2>1, <2>2, <2>3, <2>4 DEF Resume
<1>4. ASSUME NEW q \in Inserts, ConsumerTask(q) PROVE Suspended'
  BY <1>0, <1>4 DEF ConsumerTask, NextBlock, Finish, Suspended, TypeOK
<1>5. CASE Disconnect \/ UNCHANGED chVars
  BY <1>0, <1>5 DEF Disconnect, Suspended
<1> QED BY <1>1, <1>2, <1>3, <1>4, <1>5 DEF ChNext, Task

(* No step closes the receiver that out.send will use, or loses a block.     *)
LEMMA SafetyStep ==
  ControlInv /\ [ChNext]_chVars => SendNeverPanics' /\ FinishedIsDrained' /\ StageHasSender'
<1> SUFFICES ASSUME ControlInv, [ChNext]_chVars
             PROVE  SendNeverPanics' /\ FinishedIsDrained' /\ StageHasSender'
  OBVIOUS
<1> USE DEF chVars, serverVars, consumerVars, wireVars, uploadVars,
          HasColumns, CloseUpload, Reset, HasRoom, NotifyOne, Notified, StreamEnded, ReturnAfterError
<1>0. TypeOK /\ FreshQueries /\ Suspended /\ SendNeverPanics /\ FinishedIsDrained /\ StageHasSender
  BY DEF ControlInv
<1>1. \A q \in Inserts : q # None
  BY DEF Queries
\* The channels and the consumers stand still, the sender stays or is dropped.
<1>2. ASSUME chan' = chan, consumer' = consumer,
             \/ out' = out /\ (pc' = "sample" <=> pc = "sample")
             \/ out' = None
      PROVE  SendNeverPanics' /\ FinishedIsDrained'
  BY <1>0, <1>1, <1>2 DEF SendNeverPanics, FinishedIsDrained
<1>3. ASSUME NEW p \in Packet, Transmit(p)
      PROVE  SendNeverPanics' /\ FinishedIsDrained' /\ StageHasSender'
  BY <1>0, <1>2, <1>3 DEF Transmit, StageHasSender
<1>4. CASE Read
  <2>1. CASE ReadInsert
    BY <1>0, <1>1, <2>1, TailPackets
       DEF ReadInsert, Arrived, FreshQueries, SendNeverPanics, FinishedIsDrained, StageHasSender
  <2>2. CASE ReadPing \/ ReadCancel \/ ReadHello \/ ReadSelect \/ ReadBlock
    BY <1>0, <1>2, <2>2 DEF ReadPing, ReadCancel, ReadHello, ReadSelect, ReadBlock, Arrived,
                            StageHasSender
  <2>3. CASE ReadEmpty \/ ReadErr \/ ReadNone
    BY <1>0, <1>2, <2>3 DEF ReadEmpty, ReadErr, ReadNone, Arrived, StageHasSender
  <2> QED BY <1>4, <2>1, <2>2, <2>3 DEF Read
<1>5. CASE Resume
  <2>1. CASE WritePong \/ WriteHello \/ WriteSelectBlock \/ WriteProgress \/ WriteEos
    BY <1>0, <1>2, <2>1 DEF WritePong, WriteHello, WriteSelectBlock, WriteProgress, WriteEos,
                            StageHasSender
  <2>2. CASE SelectReturns
    BY <1>0, <1>2, <2>2 DEF SelectReturns, ExecuteOk, StageHasSender
  <2>3. CASE WriteSample
    <3>1. consumer' = [consumer EXCEPT ![out] = "running"] /\ out \in Inserts /\ out' = out
          /\ chan' = chan
      BY <1>0, <2>3 DEF WriteSample, Suspended
    <3>2. SendNeverPanics' /\ FinishedIsDrained'
      BY <1>0, <3>1 DEF SendNeverPanics, FinishedIsDrained, TypeOK
    <3> QED BY <1>1, <3>1, <3>2 DEF StageHasSender
  <2>4. CASE SessionErr \/ WriteFails
    BY <1>2, <2>4 DEF SessionErr, WriteFails, ReturnErr, StageHasSender
  <2>5. CASE SendBlock
    <3>1. /\ out \in Inserts /\ out' = out /\ stage' = stage /\ consumer' = consumer
          /\ consumer[out] = "running" /\ pc = "send" /\ pc' = "read"
          /\ \A q \in Inserts : q # out => chan'[q] = chan[q]
      BY <1>0, <2>5 DEF SendBlock, Suspended, SendNeverPanics, TypeOK
    <3> QED BY <1>0, <3>1 DEF SendNeverPanics, FinishedIsDrained, StageHasSender
  <2>6. CASE TakePermit \/ WriteInsertEos \/ WriteException
    BY <1>0, <1>2, <2>6 DEF TakePermit, WriteInsertEos, WriteException, StageHasSender
  <2> QED BY <1>5, <2>1, <2>2, <2>3, <2>4, <2>5, <2>6 DEF Resume
<1>6. ASSUME NEW q \in Inserts, ConsumerTask(q)
      PROVE  SendNeverPanics' /\ FinishedIsDrained' /\ StageHasSender'
  <2>1. /\ out' = out /\ stage' = stage /\ pc' = pc /\ consumer[q] = "running"
        /\ \A r \in Inserts : r # q => chan'[r] = chan[r] /\ consumer'[r] = consumer[r]
        /\ \/ consumer'[q] = "running"
           \/ consumer'[q] = "finished" /\ chan'[q] = <<>> /\ out # q
    BY <1>0, <1>6 DEF ConsumerTask, NextBlock, Finish, TypeOK
  <2>2. out \in Inserts \cup {None}
    BY <1>0 DEF TypeOK
  <2> QED BY <1>0, <2>1, <2>2 DEF SendNeverPanics, FinishedIsDrained, StageHasSender
<1>7. CASE Disconnect \/ UNCHANGED chVars
  BY <1>0, <1>2, <1>7 DEF Disconnect, StageHasSender
<1> QED BY <1>3, <1>4, <1>5, <1>6, <1>7 DEF ChNext, Task

(* ControlInv holds at the start of a connection and every step keeps it.    *)
LEMMA ControlStep == ControlInv /\ [ChNext]_chVars => ControlInv'
BY TypeStep, FreshStep, SuspendedStep, SafetyStep DEF ControlInv

(* run stops after write_error.                                              *)
LEMMA ExceptionStep == TypeOK /\ ExceptionIsLast /\ [ChNext]_chVars => ExceptionIsLast'
<1> SUFFICES ASSUME TypeOK, ExceptionIsLast, [ChNext]_chVars PROVE ExceptionIsLast'
  OBVIOUS
<1> USE DEF chVars, serverVars, consumerVars, wireVars, uploadVars,
        HasColumns, CloseUpload, Reset, HasRoom, NotifyOne, Notified, StreamEnded, ReturnAfterError
<1>1. ASSUME sent' = sent, pc = "ended" => pc' = "ended" PROVE ExceptionIsLast'
  BY <1>1 DEF ExceptionIsLast
<1>2. ASSUME NEW t, Write(t), pc # "ended", t = "exception" => pc' = "ended"
      PROVE  ExceptionIsLast'
  <2>1. /\ Len(sent') = Len(sent) + 1 /\ Len(sent) \in Nat
        /\ \A k \in 1..Len(sent) : sent'[k] = sent[k]
        /\ sent'[Len(sent) + 1].type = t
    BY <1>2 DEF Write, TypeOK
  <2> QED BY <1>2, <2>1 DEF ExceptionIsLast
<1>3. CASE Read
  BY <1>1, <1>3 DEF Read, ReadPing, ReadCancel, ReadHello, ReadSelect, ReadInsert, ReadBlock,
                    ReadEmpty, ReadErr, ReadNone, Arrived
<1>4. CASE Resume
  <2>1. CASE WritePong \/ WriteHello \/ WriteSelectBlock \/ WriteProgress \/ WriteSample
                \/ WriteEos \/ WriteInsertEos \/ WriteException
    BY <1>2, <2>1 DEF WritePong, WriteHello, WriteSelectBlock, WriteProgress, WriteSample,
                      WriteEos, WriteInsertEos, WriteException
  <2>2. CASE SelectReturns \/ SessionErr \/ SendBlock \/ TakePermit \/ WriteFails
    BY <1>1, <2>2 DEF SelectReturns, SessionErr, SendBlock, TakePermit, WriteFails, ReturnErr
  <2> QED BY <1>4, <2>1, <2>2 DEF Resume
<1>5. ASSUME NEW q \in Inserts, ConsumerTask(q) PROVE ExceptionIsLast'
  BY <1>1, <1>5 DEF ConsumerTask, NextBlock, Finish
<1>6. ASSUME NEW p \in Packet, Transmit(p) PROVE ExceptionIsLast'
  BY <1>1, <1>6 DEF Transmit
<1>7. CASE Disconnect \/ UNCHANGED chVars
  BY <1>1, <1>7 DEF Disconnect
<1> QED BY <1>3, <1>4, <1>5, <1>6, <1>7 DEF ChNext, Task

-----------------------------------------------------------------------------
(***************************************************************************)
(* Blocks are delivered in order: every step keeps DeliveryInv.  The       *)
(* lemmas at the beginning say how Follows behaves when a packet is added  *)
(* at the end of a sequence of packets or taken from its front; they speak *)
(* of no state.                                                            *)
(***************************************************************************)
HIDE ConstantsAssumption DEF ConstantsAssumption

(* An INSERT id is never Option::None.                                       *)
LEMMA InsertIsSome == \A q \in Inserts : q # None
BY ConstantsAssumption DEF ConstantsAssumption, Queries

(* A count is a natural number, at most the length of what is counted. *)
LEMMA CountBound ==
  ASSUME NEW box \in Seq(Packet), NEW s \in 0..Len(box), NEW r, NEW u \in Seq(Blocks),
         Follows(box, s, r, u)
  PROVE  r \in 0..Len(u)
<1>1. PICK n \in [s..Len(box) -> 0..Len(u)] : Counts(n, box, s, r, u)
  BY DEF Follows
<1>2. Len(box) \in Nat /\ s \in s..Len(box)
  OBVIOUS
<1> QED BY <1>1, <1>2 DEF Counts

(* Taking the first packet moves every place by one. *)
LEMMA FollowsTail ==
  ASSUME NEW box \in Seq(Packet), box # <<>>, NEW s \in 0..(Len(box) - 1),
         NEW r, NEW u \in Seq(Blocks), Follows(box, s + 1, r, u)
  PROVE  Follows(Tail(box), s, r, u)
<1>1. PICK n \in [(s + 1)..Len(box) -> 0..Len(u)] : Counts(n, box, s + 1, r, u)
  BY DEF Follows
<1>2. /\ Tail(box) \in Seq(Packet) /\ Len(box) \in Nat /\ Len(Tail(box)) = Len(box) - 1
      /\ \A k \in 1..(Len(box) - 1) : Tail(box)[k] = box[k + 1]
  OBVIOUS
<1> DEFINE m == [k \in s..(Len(box) - 1) |-> n[k + 1]]
<1>3. \A k \in s..(Len(box) - 1) : k + 1 \in (s + 1)..Len(box) /\ m[k] = n[k + 1]
  BY <1>2
<1>4. m \in [s..(Len(box) - 1) -> 0..Len(u)]
  BY <1>1, <1>3 DEF Counts
<1>5. m[s] = r /\ m[Len(box) - 1] = Len(u)
  BY <1>1, <1>2, <1>3 DEF Counts
<1>6. ASSUME NEW k \in (s + 1)..(Len(box) - 1)
      PROVE  IF IsBlock(Tail(box)[k]) /\ SameUpload(Tail(box), s, k)
               THEN m[k] = m[k - 1] + 1 /\ u[m[k]] = Tail(box)[k].body
               ELSE m[k] = m[k - 1]
  <2>1. /\ k + 1 \in (s + 2)..Len(box) /\ k \in s..(Len(box) - 1)
        /\ k - 1 \in s..(Len(box) - 1) /\ (k - 1) + 1 = k /\ (k + 1) - 1 = k
        /\ k \in 1..(Len(box) - 1)
    BY <1>2
  <2>2. m[k] = n[k + 1] /\ m[k - 1] = n[(k + 1) - 1] /\ Tail(box)[k] = box[k + 1]
    BY <1>2, <1>3, <2>1
  <2>3. SameUpload(Tail(box), s, k) <=> SameUpload(box, s + 1, k + 1)
    <3>1. \A j \in (s + 1)..k : j + 1 \in (s + 2)..(k + 1) /\ Tail(box)[j] = box[j + 1]
      BY <1>2
    <3>2. \A j \in (s + 2)..(k + 1) : j - 1 \in (s + 1)..k /\ Tail(box)[j - 1] = box[j]
      BY <1>2
    <3>3. (s + 1) + 1 = s + 2
      OBVIOUS
    <3> QED BY <3>1, <3>2, <3>3 DEF SameUpload
  <2>4. k + 1 \in ((s + 1) + 1)..Len(box)
    BY <2>1
  <2> QED BY <1>1, <2>2, <2>3, <2>4 DEF Counts
<1> HIDE DEF m
<1>7. Counts(m, Tail(box), s, r, u)
  BY <1>2, <1>4, <1>5, <1>6 DEF Counts
<1> QED BY <1>2, <1>4, <1>7 DEF Follows

(* A first packet that is no INSERT is the next element if it is a block,    *)
(* and none if it is not.                                                    *)
LEMMA FollowsFirst ==
  ASSUME NEW box \in Seq(Packet), box # <<>>, ~ IsInsert(box[1]),
         NEW r, NEW u \in Seq(Blocks), Follows(box, 0, r, u)
  PROVE  /\ IsBlock(box[1]) => /\ r + 1 \in 1..Len(u) /\ u[r + 1] = box[1].body
                               /\ Follows(Tail(box), 0, r + 1, u)
         /\ ~ IsBlock(box[1]) => Follows(Tail(box), 0, r, u)
<1>1. PICK n \in [0..Len(box) -> 0..Len(u)] : Counts(n, box, 0, r, u)
  BY DEF Follows
<1>2. /\ Len(box) \in Nat /\ Len(box) >= 1 /\ Len(u) \in Nat
  OBVIOUS
<1>3. /\ 1 \in 0..Len(box) /\ 0 \in 0..Len(box) /\ 1 \in (0 + 1)..Len(box) /\ 1 - 1 = 0
  BY <1>2
<1>4. SameUpload(box, 0, 1)
  BY DEF SameUpload
<1>5. n[0] = r /\ n[1] \in 0..Len(u) /\ n[0] \in 0..Len(u)
  BY <1>1, <1>3 DEF Counts
<1>6. IF IsBlock(box[1]) THEN n[1] = r + 1 /\ u[n[1]] = box[1].body ELSE n[1] = r
  BY <1>1, <1>3, <1>4, <1>5 DEF Counts
<1>7. Follows(box, 1, n[1], u)
  <2> DEFINE m == [k \in 1..Len(box) |-> n[k]]
  <2>1. m \in [1..Len(box) -> 0..Len(u)] /\ m[1] = n[1] /\ m[Len(box)] = Len(u)
    BY <1>1, <1>2 DEF Counts
  <2>2. ASSUME NEW k \in (1 + 1)..Len(box)
        PROVE  IF IsBlock(box[k]) /\ SameUpload(box, 1, k)
                 THEN m[k] = m[k - 1] + 1 /\ u[m[k]] = box[k].body
                 ELSE m[k] = m[k - 1]
    <3>1. k \in (0 + 1)..Len(box) /\ k \in 1..Len(box) /\ k - 1 \in 1..Len(box)
      BY <1>2
    <3>2. SameUpload(box, 1, k) <=> SameUpload(box, 0, k)
      <4>1. \A j \in (0 + 1)..k : j = 1 \/ j \in (1 + 1)..k
        BY <1>2
      <4>2. \A j \in (1 + 1)..k : j \in (0 + 1)..k
        BY <1>2
      <4> QED BY <4>1, <4>2 DEF SameUpload
    <3>3. m[k] = n[k] /\ m[k - 1] = n[k - 1]
      BY <3>1
    <3> QED BY <1>1, <3>1, <3>2, <3>3 DEF Counts
  <2> HIDE DEF m
  <2>3. Counts(m, box, 1, n[1], u)
    BY <2>1, <2>2 DEF Counts
  <2> QED BY <2>1, <2>3 DEF Follows
<1>8. Follows(Tail(box), 0, n[1], u)
  <2>1. Follows(box, 0 + 1, n[1], u)
    BY <1>7
  <2>2. 0 \in 0..(Len(box) - 1)
    BY <1>2
  <2> QED BY <2>1, <2>2, FollowsTail
<1> QED BY <1>2, <1>5, <1>6, <1>8

(* A packet added at the end that is no block of this upload counts nothing. *)
LEMMA FollowsOther ==
  ASSUME NEW box \in Seq(Packet), NEW p \in Packet, NEW s \in 0..Len(box),
         NEW r, NEW u \in Seq(Blocks), Follows(box, s, r, u),
         ~ (IsBlock(p) /\ SameUpload(box, s, Len(box)))
  PROVE  Follows(Append(box, p), s, r, u)
<1>1. PICK n \in [s..Len(box) -> 0..Len(u)] : Counts(n, box, s, r, u)
  BY DEF Follows
<1> DEFINE L == Len(box) + 1
           new == Append(box, p)
           m == [k \in s..L |-> IF k = L THEN Len(u) ELSE n[k]]
<1>2. /\ Len(box) \in Nat /\ Len(new) = L /\ new[L] = p /\ Len(u) \in Nat
      /\ \A k \in 1..Len(box) : new[k] = box[k]
  OBVIOUS
<1>3. \A k \in s..Len(box) : k \in s..L /\ k # L /\ m[k] = n[k]
  BY <1>2
<1>4. L \in s..L /\ m[L] = Len(u) /\ Len(box) \in s..Len(box)
  BY <1>2
<1>5. m \in [s..L -> 0..Len(u)]
  BY <1>2
<1>6. m[s] = r
  BY <1>1, <1>2, <1>3 DEF Counts
<1>7. ASSUME NEW k \in (s + 1)..L
      PROVE  IF IsBlock(new[k]) /\ SameUpload(new, s, k)
               THEN m[k] = m[k - 1] + 1 /\ u[m[k]] = new[k].body
               ELSE m[k] = m[k - 1]
  <2>1. ASSUME NEW j \in s..Len(box) PROVE SameUpload(new, s, j) <=> SameUpload(box, s, j)
    <3>1. \A i \in (s + 1)..j : i \in 1..Len(box)
      BY <1>2
    <3> QED BY <1>2, <3>1 DEF SameUpload
  <2>2. CASE k = L
    <3>1. k - 1 = Len(box)
      BY <1>2, <2>2
    <3>2. m[k] = m[k - 1]
      BY <1>1, <1>3, <1>4, <2>2, <3>1 DEF Counts
    <3>3. SameUpload(new, s, L) => SameUpload(new, s, Len(box))
      BY <1>2 DEF SameUpload
    <3> QED BY <1>2, <1>4, <2>1, <2>2, <3>2, <3>3
  <2>3. CASE k # L
    <3>1. k \in (s + 1)..Len(box) /\ k \in s..Len(box) /\ k - 1 \in s..Len(box) /\ k \in 1..Len(box)
      BY <1>2, <2>3
    <3>2. m[k] = n[k] /\ m[k - 1] = n[k - 1] /\ new[k] = box[k]
      BY <1>2, <1>3, <3>1
    <3> QED BY <1>1, <2>1, <3>1, <3>2 DEF Counts
  <2> QED BY <2>2, <2>3
<1> HIDE DEF m, new, L
<1>8. Counts(m, new, s, r, u)
  BY <1>2, <1>4, <1>6, <1>7 DEF Counts
<1>9. Follows(new, s, r, u)
  BY <1>2, <1>5, <1>8 DEF Follows
<1> QED BY <1>9 DEF new

(* A block added at the end of the open upload is its last element. *)
LEMMA FollowsBlock ==
  ASSUME NEW box \in Seq(Packet), NEW p \in Packet, NEW s \in 0..Len(box),
         NEW r, NEW u \in Seq(Blocks), Follows(box, s, r, u),
         IsBlock(p), SameUpload(box, s, Len(box))
  PROVE  Follows(Append(box, p), s, r, Append(u, p.body))
<1>1. PICK n \in [s..Len(box) -> 0..Len(u)] : Counts(n, box, s, r, u)
  BY DEF Follows
<1> DEFINE L == Len(box) + 1
           new == Append(box, p)
           v == Append(u, p.body)
           m == [k \in s..L |-> IF k = L THEN Len(u) + 1 ELSE n[k]]
<1>2. /\ Len(box) \in Nat /\ Len(new) = L /\ new[L] = p /\ Len(u) \in Nat
      /\ \A k \in 1..Len(box) : new[k] = box[k]
  OBVIOUS
<1>0. Len(v) = Len(u) + 1 /\ v[Len(u) + 1] = p.body /\ \A i \in 1..Len(u) : v[i] = u[i]
  BY DEF IsBlock
<1>3. \A k \in s..Len(box) : k \in s..L /\ k # L /\ m[k] = n[k]
  BY <1>2
<1>4. L \in s..L /\ m[L] = Len(u) + 1 /\ Len(box) \in s..Len(box)
  BY <1>2
<1>5. m \in [s..L -> 0..Len(v)]
  BY <1>2, <1>0
<1>6. m[s] = r
  BY <1>1, <1>2, <1>3 DEF Counts
<1>7. ASSUME NEW k \in (s + 1)..L
      PROVE  IF IsBlock(new[k]) /\ SameUpload(new, s, k)
               THEN m[k] = m[k - 1] + 1 /\ v[m[k]] = new[k].body
               ELSE m[k] = m[k - 1]
  <2>1. ASSUME NEW j \in s..Len(box) PROVE SameUpload(new, s, j) <=> SameUpload(box, s, j)
    <3>1. \A i \in (s + 1)..j : i \in 1..Len(box)
      BY <1>2
    <3> QED BY <1>2, <3>1 DEF SameUpload
  <2>2. CASE k = L
    <3>1. k - 1 = Len(box) /\ n[Len(box)] = Len(u)
      BY <1>1, <1>2, <2>2 DEF Counts
    <3>2. m[k] = m[k - 1] + 1 /\ v[m[k]] = p.body
      BY <1>0, <1>3, <1>4, <2>2, <3>1
    <3>3. SameUpload(new, s, L)
      <4>1. \A j \in (s + 1)..L : j = L \/ j \in (s + 1)..Len(box)
        BY <1>2
      <4>2. ~ IsInsert(p)
        BY DEF IsBlock, IsInsert
      <4>3. SameUpload(new, s, Len(box))
        BY <1>4, <2>1
      <4> QED BY <1>2, <4>1, <4>2, <4>3 DEF SameUpload
    <3> QED BY <1>2, <2>2, <3>2, <3>3
  <2>3. CASE k # L
    <3>1. k \in (s + 1)..Len(box) /\ k \in s..Len(box) /\ k - 1 \in s..Len(box) /\ k \in 1..Len(box)
      BY <1>2, <2>3
    <3>2. m[k] = n[k] /\ m[k - 1] = n[k - 1] /\ new[k] = box[k]
      BY <1>2, <1>3, <3>1
    <3>3. n[k] \in 0..Len(u) /\ n[k - 1] \in 0..Len(u)
      BY <3>1
    <3>4. n[k] = n[k - 1] + 1 => v[n[k]] = u[n[k]]
      BY <1>0, <1>2, <3>3
    <3> QED BY <1>1, <2>1, <3>1, <3>2, <3>4 DEF Counts
  <2> QED BY <2>2, <2>3
<1> HIDE DEF m, new, L, v
<1>8. Counts(m, new, s, r, v)
  BY <1>0, <1>2, <1>4, <1>6, <1>7 DEF Counts
<1>9. Follows(new, s, r, v)
  BY <1>2, <1>5, <1>8 DEF Follows
<1> QED BY <1>9 DEF new, v

(* Nothing is counted after the last packet. *)
LEMMA FollowsNone ==
  ASSUME NEW box \in Seq(Packet)
  PROVE  Follows(box, Len(box), 0, <<>>)
<1>1. Len(box) \in Nat /\ Len(<<>>) = 0
  OBVIOUS
<1> DEFINE m == [k \in Len(box)..Len(box) |-> 0]
<1>2. m \in [Len(box)..Len(box) -> 0..0] /\ m[Len(box)] = 0
  BY <1>1
<1>3. \A k \in (Len(box) + 1)..Len(box) : FALSE
  BY <1>1
<1>4. Counts(m, box, Len(box), 0, <<>>)
  BY <1>1, <1>2, <1>3 DEF Counts
<1> QED BY <1>1, <1>2, <1>4 DEF Follows

(* With nothing on the wire, everything that was sent has been accepted.     *)
LEMMA FollowsEmpty ==
  ASSUME NEW r, NEW u \in Seq(Blocks), Follows(<<>>, 0, r, u)
  PROVE  r = Len(u)
<1>1. Len(<<>>) = 0
  OBVIOUS
<1> QED BY <1>1 DEF Follows, Counts

-----------------------------------------------------------------------------
(* Prefixes, by their elements. *)
LEMMA PrefixByElements ==
  ASSUME NEW s \in Seq(Blocks), NEW u \in Seq(Blocks)
  PROVE  IsPrefix(s, u) <=> Len(s) <= Len(u) /\ \A i \in 1..Len(s) : s[i] = u[i]
<1>1. SubSeq(s, 1, Len(s)) = s
  BY SubSeqFull
<1>2. ASSUME Len(s) <= Len(u)
      PROVE  SubSeq(u, 1, Len(s)) = s <=> \A i \in 1..Len(s) : s[i] = u[i]
  <2>1. /\ SubSeq(u, 1, Len(s)) \in Seq(Blocks) /\ Len(SubSeq(u, 1, Len(s))) = Len(s)
        /\ \A i \in 1..Len(s) : SubSeq(u, 1, Len(s))[i] = u[i]
    BY <1>2
  <2> QED BY <2>1, SeqEqual
<1> QED BY <1>1, <1>2 DEF IsPrefix

(* What a consumer takes moves from the channel to what it has got. *)
LEMMA MoveHead ==
  ASSUME NEW g \in Seq(Blocks), NEW c \in Seq(Blocks), c # <<>>
  PROVE  Append(g, Head(c)) \o Tail(c) = g \o c
BY SeqEqual

(* What is sent moves from the hands of the task to the channel. *)
LEMMA MoveSent ==
  ASSUME NEW g \in Seq(Blocks), NEW c \in Seq(Blocks), NEW b \in Blocks
  PROVE  /\ g \o Append(c, b) = Append(g \o c, b)
         /\ (g \o c) \o <<b>> = Append(g \o c, b)
         /\ (g \o c) \o <<>> = g \o c
         /\ (g \o Append(c, b)) \o <<>> = Append(g \o c, b)
BY SeqEqual

-----------------------------------------------------------------------------
(* The steps. *)

(* What the server has accepted for an INSERT, in its two cases.             *)
LEMMA ReceivedIs ==
  ASSUME TypeOK, Suspended, NEW q \in Inserts
  PROVE  /\ Received(q) \in Seq(Blocks)
         /\ Received(q) = IF out = q /\ pc = "send" THEN Append(got[q] \o chan[q], pending)
                                                    ELSE got[q] \o chan[q]
<1>1. got[q] \in Seq(Blocks) /\ chan[q] \in Seq(Blocks) /\ got[q] \o chan[q] \in Seq(Blocks)
  BY DEF TypeOK
<1>2. CASE out = q /\ pc = "send"
  <2>1. pending \in Blocks
    BY <1>2 DEF Suspended
  <2>2. Received(q) = (got[q] \o chan[q]) \o <<pending>>
    BY <1>2 DEF Received
  <2>3. (got[q] \o chan[q]) \o <<pending>> = Append(got[q] \o chan[q], pending)
    BY <1>1, <2>1, MoveSent
  <2>4. Append(got[q] \o chan[q], pending) \in Seq(Blocks)
    BY <1>1, <2>1
  <2> QED BY <1>2, <2>2, <2>3, <2>4
<1>3. CASE ~ (out = q /\ pc = "send")
  <2>1. (got[q] \o chan[q]) \o <<>> = got[q] \o chan[q]
    BY <1>1, ConcatEmptySeq
  <2> QED BY <1>1, <1>3, <2>1 DEF Received
<1> QED BY <1>2, <1>3

(* Nothing is delivered, and nothing on its way, at first.                   *)
LEMMA InitDelivery == ChInit => DeliveryInv
<1> SUFFICES ASSUME ChInit PROVE DeliveryInv
  OBVIOUS
<1>1. TypeOK /\ Suspended
  BY InitControl DEF ControlInv
<1>2. ASSUME NEW q \in Inserts
      PROVE  /\ got[q] = <<>> /\ chan[q] = <<>> /\ uploaded[q] = <<>>
             /\ out # q /\ Received(q) = <<>>
  <2>1. got[q] = <<>> /\ chan[q] = <<>> /\ uploaded[q] = <<>> /\ out = None /\ None # q
    <3>1. None # q
      BY InsertIsSome
    <3> QED BY <3>1, Zenon DEF ChInit
  <2>2. got[q] \o chan[q] = <<>>
    BY <2>1
  <2> QED BY <1>1, <2>1, <2>2, ReceivedIs
<1>3. DeliveredInOrder
  <2>1. <<>> \in Seq(Blocks) /\ Len(<<>>) = 0 /\ 0 <= Len(<<>>)
    BY EmptySeq
  <2>3. 0 <= ChannelCapacity
    BY ConstantsAssumption DEF ConstantsAssumption
  <2>4. \A i \in 1..Len(<<>>) : FALSE
    BY <2>1
  <2>2. IsPrefix(<<>>, <<>>)
    BY <2>1, <2>4, PrefixByElements
  <2> QED BY <1>2, <2>1, <2>2, <2>3 DEF DeliveredInOrder
<1>4. InFlightInOrder
  <2>1. inbox = <<>> /\ \A s \in 0..Len(<<>>) : s = 0
    BY DEF ChInit
  <2> QED BY <1>2, <2>1 DEF InFlightInOrder, Opens
<1>5. NothingEarly
  <2>1. target = None
    BY DEF ChInit
  <2> QED BY <1>2, <2>1, InsertIsSome DEF NothingEarly
<1> QED BY <1>3, <1>4, <1>5 DEF DeliveryInv

(* Steps that leave the wire alone and lose or add nothing that was received. *)
LEMMA DeliveryKept ==
  ASSUME TypeOK, DeliveryInv,
         inbox' = inbox, out' \in {out, None}, target' = target, issued' = issued,
         uploaded' = uploaded,
         \A q \in Inserts :
           /\ Received(q)' = Received(q)
           /\ Len(chan'[q]) <= ChannelCapacity
           /\ consumer'[q] = "none" =>
                consumer[q] = "none" /\ chan'[q] = chan[q] /\ got'[q] = got[q]
  PROVE  DeliveryInv'
<1>1. DeliveredInOrder'
  BY DEF DeliveryInv, DeliveredInOrder
<1>2. NothingEarly'
  BY DEF DeliveryInv, NothingEarly
<1>3. ASSUME NEW q \in Inserts, NEW s \in 0..Len(inbox), Opens(q, s)' PROVE Opens(q, s)
  BY <1>3, InsertIsSome DEF Opens
<1>4. InFlightInOrder'
  BY <1>3 DEF DeliveryInv, InFlightInOrder
<1> QED BY <1>1, <1>2, <1>4 DEF DeliveryInv

(* A block that is sent joins the end of the upload of the last INSERT.      *)
LEMMA TransmitDelivery ==
  ASSUME ControlInv, DeliveryInv, NEW p \in Packet, Transmit(p)
  PROVE  DeliveryInv'
<1>0. TypeOK /\ TypeOK' /\ FreshQueries /\ IssuedFirst /\ Suspended
  BY TypeStep DEF ControlInv, ChNext
<1>1. /\ out' = out /\ pc' = pc /\ chan' = chan /\ got' = got /\ consumer' = consumer
      /\ pending' = pending /\ inbox' = Append(inbox, p)
  BY DEF Transmit, serverVars, consumerVars
<1>2. \A q \in Inserts : Received(q)' = Received(q)
  BY <1>1 DEF Received
<1>3. ASSUME NEW q \in Inserts
      PROVE  /\ uploaded'[q] = IF IsBlock(p) /\ target = q THEN Append(uploaded[q], p.body)
                                                           ELSE uploaded[q]
             /\ uploaded[q] \in Seq(Blocks)
  <2>1. uploaded \in [Inserts -> Seq(Blocks)] /\ q # None
    BY <1>0, InsertIsSome DEF TypeOK
  <2>2. uploaded' = IF IsBlock(p) /\ target # None
                      THEN [uploaded EXCEPT ![target] = Append(@, p.body)] ELSE uploaded
    BY DEF Transmit, IsBlock
  <2> QED BY <2>1, <2>2
<1>4. DeliveredInOrder'
  <2>1. ASSUME NEW q \in Inserts PROVE IsPrefix(Received(q), uploaded'[q])
    <3>1. Received(q) \in Seq(Blocks) /\ IsPrefix(Received(q), uploaded[q])
      BY <1>0, ReceivedIs DEF DeliveryInv, DeliveredInOrder
    <3>2. CASE IsBlock(p) /\ target = q
      <4>1. /\ uploaded'[q] \in Seq(Blocks) /\ Len(uploaded'[q]) = Len(uploaded[q]) + 1
            /\ \A i \in 1..Len(uploaded[q]) : uploaded'[q][i] = uploaded[q][i]
        <5>1. p.body \in Blocks /\ uploaded'[q] = Append(uploaded[q], p.body)
          BY <1>3, <3>2 DEF IsBlock
        <5> QED BY <1>3, <5>1, AppendProperties
      <4>2. /\ Len(Received(q)) <= Len(uploaded[q])
            /\ \A i \in 1..Len(Received(q)) : Received(q)[i] = uploaded[q][i]
        BY <1>3, <3>1, PrefixByElements
      <4>3. Len(Received(q)) <= Len(uploaded'[q]) /\ Len(Received(q)) \in Nat
        BY <1>3, <3>1, <4>1, <4>2
      <4>4. \A i \in 1..Len(Received(q)) : Received(q)[i] = uploaded'[q][i]
        BY <1>3, <3>1, <4>1, <4>2
      <4> QED BY <3>1, <4>1, <4>3, <4>4, PrefixByElements
    <3> QED BY <1>3, <3>1, <3>2
  <2> QED BY <1>1, <1>2, <2>1 DEF DeliveryInv, DeliveredInOrder
<1>5. NothingEarly'
  <2>1. ASSUME NEW q \in Inserts, q \notin issued' PROVE uploaded'[q] = <<>>
    <3>1. q \notin issued /\ uploaded[q] = <<>>
      BY <2>1 DEF Transmit, DeliveryInv, NothingEarly
    <3>2. target # q
      BY <3>1 DEF DeliveryInv, NothingEarly
    <3> QED BY <1>3, <3>1, <3>2
  <2>2. ASSUME NEW q \in Inserts, q \notin issued' PROVE target' # q
    BY <2>2 DEF Transmit, DeliveryInv, NothingEarly
  <2> QED BY <1>1, <2>1, <2>2 DEF DeliveryInv, NothingEarly
<1>6. /\ inbox \in Seq(Packet) /\ Len(inbox) \in Nat /\ Len(inbox') = Len(inbox) + 1
      /\ \A k \in 1..Len(inbox) : inbox'[k] = inbox[k]
      /\ inbox'[Len(inbox) + 1] = p
  BY <1>0, <1>1, SMTT(20) DEF TypeOK
<1>7. ASSUME NEW q \in Inserts, NEW s \in 0..Len(inbox'), Opens(q, s)'
      PROVE  /\ Follows(inbox', s, Len(Received(q)), uploaded'[q])
             /\ target' = q <=> SameUpload(inbox', s, Len(inbox'))
  <2>1. CASE s = Len(inbox) + 1
    \* The INSERT that has just been sent.
    <3>1. p.type = "query" /\ p.body = q /\ q \notin issued /\ target' = q
      BY <1>6, <1>7, <2>1 DEF Opens, Transmit
    <3>2. uploaded'[q] = <<>> /\ got[q] = <<>> /\ chan[q] = <<>> /\ out # q
      BY <1>0, <1>3, <3>1 DEF IssuedFirst, DeliveryInv, NothingEarly, IsBlock
    <3>3. Received(q) = got[q] \o chan[q]
      BY <1>0, <3>2, ReceivedIs
    <3>4. Len(Received(q)) = 0
      BY <3>2, <3>3
    <3>5. Follows(inbox', s, 0, <<>>)
      <4>1. inbox' \in Seq(Packet) /\ s = Len(inbox')
        BY <1>0, <1>6, <2>1 DEF TypeOK
      <4> QED BY <4>1, FollowsNone
    <3>6. SameUpload(inbox', s, Len(inbox'))
      BY <1>6, <2>1 DEF SameUpload
    <3> QED BY <3>1, <3>2, <3>4, <3>5, <3>6
  <2>2. CASE s \in 0..Len(inbox)
    <3>1. Opens(q, s)
      BY <1>1, <1>6, <1>7, <2>2 DEF Opens
    <3>2. /\ Follows(inbox, s, Len(Received(q)), uploaded[q])
          /\ target = q <=> SameUpload(inbox, s, Len(inbox))
      BY <2>2, <3>1 DEF DeliveryInv, InFlightInOrder
    <3>3. SameUpload(inbox', s, Len(inbox')) <=>
            SameUpload(inbox, s, Len(inbox)) /\ ~ IsInsert(p)
      <4>1. \A j \in (s + 1)..Len(inbox) : j \in (s + 1)..Len(inbox') /\ inbox'[j] = inbox[j]
        BY <1>6, <2>2
      <4>2. \A j \in (s + 1)..Len(inbox') : j \in (s + 1)..Len(inbox) \/ j = Len(inbox) + 1
        BY <1>6, <2>2
      <4>3. Len(inbox) + 1 \in (s + 1)..Len(inbox')
        BY <1>6, <2>2
      <4> QED BY <1>6, <4>1, <4>2, <4>3 DEF SameUpload
    <3>4. q \in issued
      BY <1>0, <2>2, <3>1 DEF Opens, FreshQueries, IssuedFirst
    <3>5. target' = q <=> target = q /\ ~ IsInsert(p)
      BY <3>4 DEF Transmit, IsInsert
    <3>6. Follows(inbox', s, Len(Received(q)), uploaded'[q])
      <4>1. CASE IsBlock(p) /\ target = q
        BY <1>1, <1>3, <1>6, <2>2, <3>2, <4>1, FollowsBlock
      <4>2. CASE ~ (IsBlock(p) /\ target = q)
        BY <1>1, <1>3, <1>6, <2>2, <3>2, <4>2, FollowsOther
      <4> QED BY <4>1, <4>2
    <3> QED BY <3>2, <3>3, <3>5, <3>6
  <2> QED BY <1>6, <2>1, <2>2
<1>8. InFlightInOrder'
  BY <1>2, <1>7 DEF InFlightInOrder
<1> QED BY <1>4, <1>5, <1>8 DEF DeliveryInv

(* Taking the first packet moves the place of every INSERT in flight by one. *)
LEMMA SameUploadTail ==
  ASSUME NEW box \in Seq(Packet), box # <<>>, NEW s \in 0..(Len(box) - 1)
  PROVE  SameUpload(Tail(box), s, Len(Tail(box))) <=> SameUpload(box, s + 1, Len(box))
<1>1. /\ Len(box) \in Nat /\ Len(Tail(box)) = Len(box) - 1
      /\ \A k \in 1..(Len(box) - 1) : Tail(box)[k] = box[k + 1]
  OBVIOUS
<1>2. \A j \in (s + 1)..(Len(box) - 1) :
        j + 1 \in ((s + 1) + 1)..Len(box) /\ Tail(box)[j] = box[j + 1]
  BY <1>1
<1>3. \A j \in ((s + 1) + 1)..Len(box) :
        j - 1 \in (s + 1)..(Len(box) - 1) /\ Tail(box)[j - 1] = box[j]
  BY <1>1
<1> QED BY <1>1, <1>2, <1>3 DEF SameUpload

(* Reading a packet moves the places of the INSERTs on the wire by one.      *)
LEMMA TailOpens ==
  ASSUME TypeOK, InFlightInOrder, inbox # <<>>, inbox' = Tail(inbox),
         NEW q \in Inserts, NEW s \in 0..Len(inbox'), Opens(q, s + 1)
  PROVE  /\ Follows(inbox', s, Len(Received(q)), uploaded[q])
         /\ target = q <=> SameUpload(inbox', s, Len(inbox'))
<1>1. /\ inbox \in Seq(Packet) /\ uploaded[q] \in Seq(Blocks) /\ Len(inbox) \in Nat
      /\ Len(inbox') = Len(inbox) - 1
  BY DEF TypeOK
<1>2. s \in 0..(Len(inbox) - 1) /\ s + 1 \in 0..Len(inbox)
  BY <1>1
<1>3. /\ Follows(inbox, s + 1, Len(Received(q)), uploaded[q])
      /\ target = q <=> SameUpload(inbox, s + 1, Len(inbox))
  BY <1>2 DEF InFlightInOrder
<1> QED BY <1>1, <1>2, <1>3, FollowsTail, SameUploadTail

(* A packet is read that is neither an INSERT nor a block for an open one.   *)
LEMMA QuietRead ==
  ASSUME ControlInv, DeliveryInv,
         inbox # <<>>, inbox' = Tail(inbox), ~ IsInsert(inbox[1]),
         out' \in {out, None}, out' # None => ~ IsBlock(inbox[1]),
         pc # "send", pc' # "send",
         UNCHANGED <<consumerVars, uploadVars>>
  PROVE  DeliveryInv'
<1>0. TypeOK /\ FreshQueries /\ Suspended /\ DeliveredInOrder /\ InFlightInOrder /\ NothingEarly
  BY DEF ControlInv, DeliveryInv
<1>1. \A q \in Inserts : Received(q)' = Received(q)
  BY DEF Received, consumerVars
<1>2. /\ inbox \in Seq(Packet) /\ Len(inbox) \in Nat /\ Len(inbox') = Len(inbox) - 1
      /\ \A k \in 1..Len(inbox') : inbox'[k] = inbox[k + 1]
  BY <1>0 DEF TypeOK
<1>3. ASSUME NEW q \in Inserts, NEW s \in 0..Len(inbox'), Opens(q, s)'
      PROVE  /\ Follows(inbox', s, Len(Received(q)), uploaded[q])
             /\ target = q <=> SameUpload(inbox', s, Len(inbox'))
  <2>1. CASE s = 0
    <3>1. out = q /\ ~ IsBlock(inbox[1])
      BY <1>3, <2>1, InsertIsSome DEF Opens
    <3>2. Opens(q, 0) /\ 0 \in 0..Len(inbox) /\ uploaded[q] \in Seq(Blocks)
      BY <1>0, <1>2, <3>1 DEF Opens, TypeOK
    <3>3. /\ Follows(inbox, 0, Len(Received(q)), uploaded[q])
          /\ target = q <=> SameUpload(inbox, 0, Len(inbox))
      BY <1>0, <3>2 DEF InFlightInOrder
    <3>4. Follows(inbox', 0, Len(Received(q)), uploaded[q])
      BY <1>2, <3>1, <3>2, <3>3, FollowsFirst
    <3>5. SameUpload(inbox, 0, Len(inbox)) <=> SameUpload(inbox, 0 + 1, Len(inbox))
      <4>1. \A j \in (0 + 1)..Len(inbox) : j = 1 \/ j \in ((0 + 1) + 1)..Len(inbox)
        BY <1>2
      <4>2. \A j \in ((0 + 1) + 1)..Len(inbox) : j \in (0 + 1)..Len(inbox)
        BY <1>2
      <4> QED BY <4>1, <4>2 DEF SameUpload
    <3>6. 0 \in 0..(Len(inbox) - 1)
      BY <1>2
    <3> QED BY <1>2, <2>1, <3>3, <3>4, <3>5, <3>6, SameUploadTail
  <2>2. CASE s # 0
    <3>1. s \in 1..Len(inbox') /\ s + 1 # 0
      BY <1>2, <2>2
    <3>2. Opens(q, s + 1)
      BY <1>2, <1>3, <3>1 DEF Opens
    <3> QED BY <1>0, <3>2, TailOpens
  <2> QED BY <2>1, <2>2
<1>4. InFlightInOrder'
  BY <1>1, <1>3 DEF InFlightInOrder, uploadVars
<1>5. DeliveredInOrder' /\ NothingEarly'
  BY <1>0, <1>1 DEF DeliveredInOrder, NothingEarly, consumerVars, uploadVars
<1> QED BY <1>4, <1>5 DEF DeliveryInv

(* read_packet hands a block over to out.send, or drops it.                  *)
LEMMA ReadBlockDelivery ==
  ASSUME ControlInv, DeliveryInv, ReadBlock, out # None
  PROVE  DeliveryInv'
<1>0. /\ TypeOK /\ FreshQueries /\ Suspended /\ DeliveredInOrder /\ InFlightInOrder
      /\ NothingEarly /\ TypeOK' /\ Suspended'
  BY TypeStep, SuspendedStep DEF ControlInv, DeliveryInv, ChNext, Task, Read
<1>1. /\ inbox # <<>> /\ inbox' = Tail(inbox) /\ Head(inbox) \in Packet
      /\ Head(inbox).type = "data" /\ Head(inbox).body # EmptyBlock
      /\ pc = "read" /\ pc' = "send" /\ pending' = Head(inbox).body /\ out' = out
      /\ UNCHANGED <<chan, got, consumer, issued, target, uploaded>>
  BY <1>0 DEF ReadBlock, Arrived, Consume, HasColumns, consumerVars, uploadVars, TypeOK
<1>2. /\ inbox \in Seq(Packet) /\ Len(inbox) \in Nat /\ Len(inbox') = Len(inbox) - 1
      /\ \A k \in 1..Len(inbox') : inbox'[k] = inbox[k + 1]
      /\ inbox[1] = Head(inbox)
  BY <1>0, <1>1 DEF TypeOK
<1>3. IsBlock(inbox[1]) /\ ~ IsInsert(inbox[1]) /\ inbox[1].body \in Blocks
  BY <1>1, <1>2, PacketBody DEF IsBlock, IsInsert
<1>4. PICK w \in Inserts : w = out
  BY <1>0 DEF TypeOK
<1>12. uploaded[w] \in Seq(Blocks) /\ Received(w) \in Seq(Blocks)
  BY <1>0, ReceivedIs DEF TypeOK
<1>5. /\ Follows(inbox, 0, Len(Received(w)), uploaded[w])
      /\ target = w <=> SameUpload(inbox, 0, Len(inbox))
  <2>1. Opens(w, 0) /\ 0 \in 0..Len(inbox)
    BY <1>2, <1>4 DEF Opens
  <2> QED BY <1>0, <1>4, <2>1 DEF InFlightInOrder
<1>6. /\ Len(Received(w)) + 1 \in 1..Len(uploaded[w])
      /\ uploaded[w][Len(Received(w)) + 1] = pending'
      /\ Follows(inbox', 0, Len(Received(w)) + 1, uploaded[w])
  BY <1>1, <1>2, <1>3, <1>5, <1>12, FollowsFirst, ZenonT(40)
<1>7. /\ Received(w)' = Append(Received(w), pending')
      /\ \A q \in Inserts : q # w => Received(q)' = Received(q)
  <2>1. Received(w) = got[w] \o chan[w]
    BY <1>0, <1>1, <1>4, ReceivedIs
  <2>2. Received(w)' = (got[w] \o chan[w]) \o <<pending'>>
    BY <1>1, <1>4 DEF Received
  <2>3. got[w] \in Seq(Blocks) /\ chan[w] \in Seq(Blocks) /\ pending' \in Blocks
    BY <1>0, <1>1, <1>2, <1>3, <1>4 DEF TypeOK
  <2>4. \A q \in Inserts : q # w => Received(q)' = Received(q)
    BY <1>1, <1>4 DEF Received
  <2> QED BY <2>1, <2>2, <2>3, <2>4, MoveSent, ZenonT(40)
<1>8. /\ Len(Received(w)') = Len(Received(w)) + 1
      /\ IsPrefix(Received(w)', uploaded[w])
  <2>1. pending' \in Blocks
    BY <1>1, <1>2, <1>3
  <2>2. /\ Received(w)' \in Seq(Blocks) /\ Len(Received(w)') = Len(Received(w)) + 1
        /\ \A i \in 1..Len(Received(w)) : Received(w)'[i] = Received(w)[i]
        /\ Received(w)'[Len(Received(w)) + 1] = pending'
    BY <1>7, <1>12, <2>1, AppendProperties
  <2>3. \A i \in 1..Len(Received(w)) : Received(w)[i] = uploaded[w][i]
    BY <1>0, <1>12, PrefixByElements DEF DeliveredInOrder
  <2>4. /\ Len(Received(w)') <= Len(uploaded[w])
        /\ \A i \in 1..Len(Received(w)') : Received(w)'[i] = uploaded[w][i]
    <3>1. Len(Received(w)) \in Nat /\ Len(uploaded[w]) \in Nat
      BY <1>12
    <3> QED BY <1>6, <2>2, <2>3, <3>1
  <2> QED BY <1>12, <2>2, <2>4, PrefixByElements
<1>9. DeliveredInOrder' /\ NothingEarly'
  BY <1>0, <1>1, <1>7, <1>8 DEF DeliveredInOrder, NothingEarly
<1>10. ASSUME NEW q \in Inserts, NEW s \in 0..Len(inbox'), Opens(q, s)'
       PROVE  /\ Follows(inbox', s, Len(Received(q)'), uploaded[q])
              /\ target = q <=> SameUpload(inbox', s, Len(inbox'))
  <2>1. CASE s = 0
    <3>1. q = w
      BY <1>1, <1>4, <1>10, <2>1 DEF Opens
    <3>2. Follows(inbox', 0, Len(Received(q)'), uploaded[q])
      BY <1>6, <1>8, <3>1
    <3>3. SameUpload(inbox, 0, Len(inbox)) <=> SameUpload(inbox, 0 + 1, Len(inbox))
      <4>1. \A j \in (0 + 1)..Len(inbox) : j = 1 \/ j \in ((0 + 1) + 1)..Len(inbox)
        BY <1>2
      <4>2. \A j \in ((0 + 1) + 1)..Len(inbox) : j \in (0 + 1)..Len(inbox)
        BY <1>2
      <4> QED BY <1>3, <4>1, <4>2 DEF SameUpload
    <3>4. 0 \in 0..(Len(inbox) - 1)
      BY <1>2, <2>1
    <3> QED BY <1>1, <1>2, <1>5, <2>1, <3>1, <3>2, <3>3, <3>4, SameUploadTail
  <2>2. CASE s # 0
    <3>1. s \in 1..Len(inbox') /\ s + 1 # 0 /\ s + 1 \in 1..Len(inbox)
      BY <1>2, <2>2
    <3>2. Opens(q, s + 1)
      BY <1>2, <1>10, <3>1 DEF Opens
    <3>3. q # w
      BY <1>0, <1>4, <3>1, <3>2 DEF Opens, FreshQueries
    <3> QED BY <1>0, <1>1, <1>7, <3>2, <3>3, TailOpens
  <2> QED BY <2>1, <2>2
<1>11. InFlightInOrder'
  BY <1>1, <1>10 DEF InFlightInOrder
<1> QED BY <1>9, <1>11 DEF DeliveryInv

(* A new INSERT replaces the sender; its data begins on the wire.            *)
LEMMA ReadInsertDelivery ==
  ASSUME ControlInv, DeliveryInv, ReadInsert
  PROVE  DeliveryInv'
<1>0. TypeOK /\ FreshQueries /\ Suspended /\ DeliveredInOrder /\ InFlightInOrder /\ NothingEarly
  BY DEF ControlInv, DeliveryInv
<1>1. /\ inbox # <<>> /\ inbox' = Tail(inbox) /\ pc # "send" /\ pc' # "send"
      /\ Head(inbox).type = "query" /\ Head(inbox).body \in Inserts /\ out' = Head(inbox).body
      /\ UNCHANGED <<chan, got, consumer, issued, target, uploaded>>
  BY DEF ReadInsert, Arrived, Consume, consumerVars, uploadVars
<1>2. /\ inbox \in Seq(Packet) /\ Len(inbox) \in Nat /\ Len(inbox') = Len(inbox) - 1
      /\ \A k \in 1..Len(inbox') : inbox'[k] = inbox[k + 1]
      /\ inbox[1] = Head(inbox)
  BY <1>0, <1>1 DEF TypeOK
<1>3. \A q \in Inserts : Received(q)' = Received(q)
  BY <1>1 DEF Received
<1>4. ASSUME NEW q \in Inserts, NEW s \in 0..Len(inbox'), Opens(q, s)' PROVE Opens(q, s + 1)
  <2>1. s + 1 # 0 /\ (s = 0 => s + 1 = 1) /\ (s # 0 => s \in 1..Len(inbox'))
    BY <1>2
  <2> QED BY <1>1, <1>2, <1>4, <2>1 DEF Opens
<1>5. InFlightInOrder'
  BY <1>0, <1>1, <1>3, <1>4, TailOpens DEF InFlightInOrder
<1>6. DeliveredInOrder' /\ NothingEarly'
  BY <1>0, <1>1, <1>3 DEF DeliveredInOrder, NothingEarly
<1> QED BY <1>5, <1>6 DEF DeliveryInv

(* Every read keeps the order of delivery.                                   *)
LEMMA ReadDelivery ==
  ASSUME ControlInv, DeliveryInv, Read
  PROVE  DeliveryInv'
<1> USE DEF serverVars, consumerVars, wireVars, uploadVars
<1>0. TypeOK /\ Suspended /\ NothingEarly /\ DeliveredInOrder
  BY DEF ControlInv, DeliveryInv
<1>1. inbox # <<>> => Head(inbox) = inbox[1] /\ Head(inbox) \in Packet
  BY <1>0 DEF TypeOK
<1>2. CASE ReadPing \/ ReadCancel \/ ReadHello \/ ReadSelect
  <2>1. /\ inbox # <<>> /\ inbox' = Tail(inbox) /\ Head(inbox).type # "data"
        /\ Head(inbox).type = "query" => Head(inbox).body \in Selects
        /\ out' = out /\ pc # "send" /\ pc' # "send" /\ UNCHANGED <<consumerVars, uploadVars>>
    BY <1>2 DEF ReadPing, ReadCancel, ReadHello, ReadSelect, Arrived, Consume
  <2>2. ~ IsInsert(inbox[1]) /\ ~ IsBlock(inbox[1])
    BY <1>1, <2>1, ConstantsAssumption DEF IsInsert, IsBlock, ConstantsAssumption
  <2> QED BY <2>1, <2>2, QuietRead
<1>3. CASE ReadInsert
  BY <1>3, ReadInsertDelivery
<1>4. CASE ReadBlock
  <2>1. CASE out # None
    BY <1>4, <2>1, ReadBlockDelivery
  <2>2. CASE out = None
    <3>1. /\ inbox # <<>> /\ inbox' = Tail(inbox) /\ Head(inbox).type = "data"
          /\ out' = out /\ pc # "send" /\ pc' # "send" /\ UNCHANGED <<consumerVars, uploadVars>>
      BY <1>4, <2>2 DEF ReadBlock, Arrived, Consume
    <3>2. ~ IsInsert(inbox[1])
      BY <1>1, <3>1 DEF IsInsert
    <3> QED BY <2>2, <3>1, <3>2, QuietRead
  <2> QED BY <2>1, <2>2
<1>5. CASE ReadEmpty
  <2>1. /\ inbox # <<>> /\ inbox' = Tail(inbox) /\ Head(inbox).type = "data"
        /\ Head(inbox).body = EmptyBlock
        /\ out' \in {out, None} /\ pc # "send" /\ pc' # "send"
        /\ UNCHANGED <<consumerVars, uploadVars>>
    BY <1>5 DEF ReadEmpty, Arrived, Consume, CloseUpload, Reset
  <2>2. ~ IsInsert(inbox[1]) /\ ~ IsBlock(inbox[1])
    BY <1>1, <2>1, ConstantsAssumption DEF IsInsert, IsBlock, ConstantsAssumption
  <2> QED BY <2>1, <2>2, QuietRead
<1>6. CASE ReadErr \/ ReadNone
  <2>1. /\ pc # "send" /\ pc' # "send" /\ out' = None
        /\ UNCHANGED <<inbox, chan, got, consumer, issued, target, uploaded>>
    BY <1>6 DEF ReadErr, ReadNone, Reset
  <2>2. \A q \in Inserts : Received(q)' = Received(q)
    BY <2>1 DEF Received
  <2> QED BY <1>0, <2>1, <2>2, DeliveryKept DEF DeliveredInOrder
<1> QED BY <1>2, <1>3, <1>4, <1>5, <1>6 DEF Read

(* Every await of the connection task keeps it, out.send included.           *)
LEMMA ResumeDelivery ==
  ASSUME ControlInv, DeliveryInv, Resume
  PROVE  DeliveryInv'
<1> USE DEF serverVars, consumerVars, wireVars, uploadVars
<1>0. TypeOK /\ Suspended /\ DeliveredInOrder /\ SendNeverPanics /\ TypeOK' /\ Suspended'
  BY TypeStep, SuspendedStep DEF ControlInv, DeliveryInv, ChNext, Task
<1>1. CASE SendBlock
  <2>1. PICK w \in Inserts : w = out
    BY <1>0, <1>1 DEF SendBlock, Suspended, TypeOK
  <2>2. /\ pc = "send" /\ pc' = "read" /\ out' = out /\ got' = got /\ consumer' = consumer
        /\ chan' = [chan EXCEPT ![w] = Append(chan[w], pending)]
        /\ Len(chan[w]) < ChannelCapacity
        /\ UNCHANGED <<inbox, issued, target, uploaded>>
    BY <1>1, <2>1 DEF SendBlock, HasRoom
  <2>3. /\ chan \in [Inserts -> Seq(Blocks)] /\ got[w] \in Seq(Blocks) /\ pending \in Blocks
        /\ consumer[w] = "running"
    BY <1>0, <2>1, <2>2, InsertIsSome DEF TypeOK, Suspended, SendNeverPanics
  <2>4. /\ chan'[w] = Append(chan[w], pending) /\ \A q \in Inserts : q # w => chan'[q] = chan[q]
    BY <2>2, <2>3
  <2>5. Len(chan'[w]) <= ChannelCapacity
    <3>1. Len(chan'[w]) = Len(chan[w]) + 1 /\ Len(chan[w]) \in Nat /\ ChannelCapacity \in Nat
      BY <2>3, <2>4, AppendProperties, ConstantsAssumption DEF ConstantsAssumption
    <3> QED BY <2>2, <3>1
  <2>6. Received(w)' = Received(w)
    <3>1. Received(w) = Append(got[w] \o chan[w], pending)
      BY <1>0, <2>1, <2>2, ReceivedIs
    <3>2. Received(w)' = (got[w] \o Append(chan[w], pending)) \o <<>>
      BY <2>2, <2>4 DEF Received
    <3> QED BY <2>3, <3>1, <3>2, MoveSent
  <2>7. ASSUME NEW q \in Inserts, q # w PROVE Received(q)' = Received(q)
    BY <2>1, <2>2, <2>4, <2>7 DEF Received
  <2> QED BY <1>0, <2>2, <2>3, <2>4, <2>5, <2>6, <2>7, DeliveryKept DEF DeliveredInOrder
<1>2. CASE ~ SendBlock
  <2>1. /\ pc # "send" /\ pc' # "send" /\ out' \in {out, None}
        /\ UNCHANGED <<inbox, chan, got, issued, target, uploaded>>
        /\ consumer' = consumer \/ consumer' = [consumer EXCEPT ![query] = "running"]
    BY <1>2 DEF Resume, WritePong, WriteHello, WriteSelectBlock, WriteProgress, SelectReturns,
                WriteSample, SessionErr, WriteEos, TakePermit, WriteInsertEos, WriteException,
                WriteFails, ReturnErr, ReturnAfterError, ExecuteOk, Writing
  <2>2. \A q \in Inserts : Received(q)' = Received(q)
    BY <2>1 DEF Received
  <2>3. \A q \in Inserts : consumer'[q] = "none" => consumer[q] = "none"
    BY <1>0, <2>1 DEF TypeOK
  <2> QED BY <1>0, <2>1, <2>2, <2>3, DeliveryKept DEF DeliveredInOrder
<1> QED BY <1>1, <1>2

(* A consumer takes the oldest block of its channel.                         *)
LEMMA ConsumerDelivery ==
  ASSUME ControlInv, DeliveryInv, NEW w \in Inserts, ConsumerTask(w)
  PROVE  DeliveryInv'
<1> USE DEF serverVars, consumerVars, wireVars, uploadVars
<1>0. TypeOK /\ Suspended /\ DeliveredInOrder
  BY DEF ControlInv, DeliveryInv
<1>1. CASE NextBlock(w)
  <2>1. /\ consumer[w] = "running" /\ chan[w] # <<>> /\ consumer' = consumer
        /\ got' = [got EXCEPT ![w] = Append(got[w], Head(chan[w]))]
        /\ chan' = [chan EXCEPT ![w] = Tail(chan[w])]
        /\ UNCHANGED <<inbox, out, pc, pending, issued, target, uploaded>>
    BY <1>1 DEF NextBlock
  <2>2. chan \in [Inserts -> Seq(Blocks)] /\ got \in [Inserts -> Seq(Blocks)]
    BY <1>0 DEF TypeOK
  <2>3. /\ got'[w] = Append(got[w], Head(chan[w])) /\ chan'[w] = Tail(chan[w])
        /\ \A q \in Inserts : q # w => got'[q] = got[q] /\ chan'[q] = chan[q]
    BY <2>1, <2>2
  <2>4. got'[w] \o chan'[w] = got[w] \o chan[w]
    BY <2>1, <2>2, <2>3, MoveHead
  <2>5. \A q \in Inserts : Received(q)' = Received(q)
    BY <2>1, <2>3, <2>4 DEF Received
  <2>6. \A q \in Inserts : Len(chan'[q]) <= ChannelCapacity
    <3>1. Len(chan'[w]) = Len(chan[w]) - 1 /\ Len(chan[w]) \in Nat /\ ChannelCapacity \in Nat
      BY <2>1, <2>2, <2>3, HeadTailProperties, ConstantsAssumption DEF ConstantsAssumption
    <3>2. Len(chan'[w]) <= ChannelCapacity
      BY <1>0, <3>1 DEF DeliveredInOrder
    <3> QED BY <1>0, <2>3, <3>2 DEF DeliveredInOrder
  <2> QED BY <1>0, <2>1, <2>3, <2>5, <2>6, DeliveryKept
<1>2. CASE Finish(w)
  <2>1. /\ consumer' = [consumer EXCEPT ![w] = "finished"]
        /\ UNCHANGED <<inbox, out, pc, pending, chan, got, issued, target, uploaded>>
    BY <1>2 DEF Finish
  <2>2. \A q \in Inserts : Received(q)' = Received(q)
    BY <2>1 DEF Received
  <2>3. \A q \in Inserts : consumer'[q] = "none" => consumer[q] = "none"
    BY <1>0, <2>1 DEF TypeOK
  <2> QED BY <1>0, <2>1, <2>2, <2>3, DeliveryKept DEF DeliveredInOrder
<1> QED BY <1>1, <1>2 DEF ConsumerTask

(* The order of delivery is kept by every step, whatever the client sends.   *)
LEMMA DeliveryStep == ControlInv /\ DeliveryInv /\ [ChNext]_chVars => DeliveryInv'
<1> SUFFICES ASSUME ControlInv, DeliveryInv, [ChNext]_chVars PROVE DeliveryInv'
  OBVIOUS
<1>1. CASE Disconnect \/ UNCHANGED chVars
  <2>1. UNCHANGED <<inbox, out, pc, pending, chan, got, consumer, issued, target, uploaded>>
    BY <1>1 DEF Disconnect, chVars, serverVars, consumerVars, wireVars, uploadVars
  <2>2. \A q \in Inserts : Received(q)' = Received(q)
    BY <2>1 DEF Received
  <2> QED BY <2>1, <2>2, DeliveryKept DEF ControlInv, DeliveryInv, DeliveredInOrder
<1> QED BY <1>1, TransmitDelivery, ReadDelivery, ResumeDelivery, ConsumerDelivery
        DEF ChNext, Task

(* ChInv holds at the start of a connection and every step keeps it.         *)
LEMMA ServerInit == ChInit => ChInv
BY InitControl, InitDelivery DEF ChInv

(* The invariant of the server is inductive.                                 *)
LEMMA ServerStep == ChInv /\ [ChNext]_chVars => ChInv'
BY ControlStep, DeliveryStep DEF ChInv
=============================================================================
