---------------------------- MODULE RepliesProofs ---------------------------
(***************************************************************************)
(* The client finds the replies in the stream, for every codec whose       *)
(* replies end where they say they end: ReplyInv of module Replies is      *)
(* inductive, and the properties of Replies follow from it.                *)
(***************************************************************************)
EXTENDS Replies, TLAPS, SequenceTheorems

(* What ReplyCodecAssumption says of one reply. *)
LEMMA OneReply ==
  ASSUME NEW t \in ReplyTypes, NEW val \in Said(t), NEW rev \in UsedRevisions, NEW c \in BOOLEAN
  PROVE  /\ Put(t, val, rev, c) \in Seq(Nat) /\ Put(t, val, rev, c) # <<>>
         /\ Len(Put(t, val, rev, c)) \in Nat \ {0}
<1>1. Put(t, val, rev, c) \in Seq(Nat) /\ Put(t, val, rev, c) # <<>>
  BY ReplyCodecAssumption DEF ReplyCodecAssumption
<1> QED BY <1>1, EmptySeq

(* Of the beginning of one, to a client that can tell how it was written. *)
LEMMA OneBeginning ==
  ASSUME NEW t \in ReplyTypes, NEW val \in Said(t), NEW rev \in UsedRevisions, NEW c \in BOOLEAN,
         NEW r \in Request, NEW known \in UsedRevisions, Readable(t, val, rev, c, r, known),
         NEW n \in 0..(Len(Put(t, val, rev, c)) - 1)
  PROVE  Read(SubSeq(Put(t, val, rev, c), 1, n), r, known).st = "block"
BY ReplyCodecAssumption DEF ReplyCodecAssumption

(* The revision that both sides agree on. *)
LEMMA RevisionTypes ==
  /\ UsedRevisions \subseteq Nat /\ 0 \in UsedRevisions /\ ServerRevisions \subseteq UsedRevisions
  /\ \A a \in ServerRevisions, b \in Revisions : Lower(a, b) \in UsedRevisions /\ Lower(a, b) <= a
BY ReplyCodecAssumption DEF ReplyCodecAssumption, UsedRevisions, Lower

(* Bytes that agree with the bytes of a reply as far as they go are its       *)
(* beginning.                                                                 *)
LEMMA PrefixOfBytes ==
  ASSUME NEW b \in Seq(Nat), NEW e \in Seq(Nat), Len(b) <= Len(e),
         \A k \in 1..Len(b) : b[k] = e[k]
  PROVE  b = SubSeq(e, 1, Len(b))
<1>1. /\ SubSeq(e, 1, Len(b)) \in Seq(Nat) /\ Len(SubSeq(e, 1, Len(b))) = Len(b)
      /\ \A k \in 1..Len(b) : SubSeq(e, 1, Len(b))[k] = e[k]
  OBVIOUS
<1> QED BY <1>1, SeqEqual

(* Bytes that agree with all the bytes of a reply are the reply, and          *)
(* something after it.                                                        *)
LEMMA WholeThenRest ==
  ASSUME NEW b \in Seq(Nat), NEW e \in Seq(Nat), Len(e) <= Len(b),
         \A k \in 1..Len(e) : b[k] = e[k]
  PROVE  b = e \o SubSeq(b, Len(e) + 1, Len(b))
<1> DEFINE r == SubSeq(b, Len(e) + 1, Len(b))
<1>0. Len(b) \in Nat /\ Len(e) \in Nat
  OBVIOUS
<1>1. /\ r \in Seq(Nat) /\ Len(r) = Len(b) - Len(e)
      /\ \A k \in 1..(Len(b) - Len(e)) : r[k] = b[Len(e) + k]
  OBVIOUS
<1> HIDE DEF r
<1>2. /\ e \o r \in Seq(Nat) /\ Len(e \o r) = Len(b)
      /\ \A k \in 1..Len(b) : (e \o r)[k] = IF k <= Len(e) THEN e[k] ELSE r[k - Len(e)]
  BY <1>1, ConcatProperties
<1>3. \A k \in 1..Len(b) : (e \o r)[k] = b[k]
  <2> TAKE k \in 1..Len(b)
  <2>1. CASE k <= Len(e)
    BY <1>2, <2>1
  <2>2. CASE k > Len(e)
    <3>1. k - Len(e) \in 1..(Len(b) - Len(e)) /\ Len(e) + (k - Len(e)) = k /\ ~(k <= Len(e))
      BY <1>0, <2>2
    <3>2. (e \o r)[k] = r[k - Len(e)]
      BY <1>2, <3>1
    <3>3. r[k - Len(e)] = b[Len(e) + (k - Len(e))]
      BY <1>1, <3>1
    <3> QED BY <3>1, <3>2, <3>3
  <2>3. k <= Len(e) \/ k > Len(e)
    BY <1>0
  <2> QED BY <2>1, <2>2, <2>3
<1>4. b = e \o r
  BY <1>2, <1>3, SeqEqual
<1> QED BY <1>4 DEF r

(* Prefixes, by their elements. *)
LEMMA PrefixElements ==
  ASSUME NEW S, NEW s \in Seq(S), NEW u \in Seq(S)
  PROVE  IsPrefix(s, u) <=> Len(s) <= Len(u) /\ \A i \in 1..Len(s) : s[i] = u[i]
<1>1. SubSeq(s, 1, Len(s)) = s
  BY SubSeqFull
<1>2. ASSUME Len(s) <= Len(u)
      PROVE  SubSeq(u, 1, Len(s)) = s <=> \A i \in 1..Len(s) : s[i] = u[i]
  <2>1. /\ SubSeq(u, 1, Len(s)) \in Seq(S) /\ Len(SubSeq(u, 1, Len(s))) = Len(s)
        /\ \A i \in 1..Len(s) : SubSeq(u, 1, Len(s))[i] = u[i]
    BY <1>2
  <2> QED BY <2>1, SeqEqual
<1> QED BY <1>1, <1>2 DEF IsPrefix

-----------------------------------------------------------------------------
(* What is known of a frame. *)
LEMMA FrameTypes ==
  ASSUME NEW f \in Frames
  PROVE  /\ f.type \in ReplyTypes /\ f.val \in Said(f.type) /\ f.rev \in UsedRevisions
         /\ f.compress \in BOOLEAN /\ f.to \in Nat /\ f.upto \in Nat
         /\ BytesOf(f) \in Seq(Nat) /\ Len(BytesOf(f)) \in Nat \ {0}
<1>1. /\ f.type \in ReplyTypes /\ f.val \in Said(f.type) /\ f.rev \in UsedRevisions
      /\ f.compress \in BOOLEAN /\ f.to \in Nat /\ f.upto \in Nat
  BY DEF Frames
<1> QED BY <1>1, OneReply DEF BytesOf

LEMMA FlightTypes ==
  ASSUME ReplyInv, NEW i \in 1..Len(flight)
  PROVE  flight[i] \in Frames
BY DEF ReplyInv, ReplyTypeOK

(* What is known of the first reply in flight. *)
LEMMA FirstReply ==
  ASSUME ReplyInv, flight # <<>>
  PROVE  LET f == flight[1] IN
         /\ f \in Frames /\ f.upto = Len(BytesOf(f)) /\ f.upto <= Len(bytes)
         /\ \A k \in 1..Len(BytesOf(f)) : bytes[k] = BytesOf(f)[k]
         /\ client.next \in 1..handled /\ client.next = f.to /\ asked[client.next] \in Request
         /\ client.revision \in UsedRevisions
         /\ Readable(f.type, f.val, f.rev, f.compress, asked[client.next], client.revision)
         /\ written[Len(client.got) + 1] = Reply(f.type, Fields(f.type, f.val, f.rev))
<1> DEFINE f == flight[1]
<1>1. 1 \in 1..Len(flight)
  <2>1. flight \in Seq(Frames)
    BY DEF ReplyInv, ReplyTypeOK
  <2> QED BY <2>1, EmptySeq
<1>2. f \in Frames
  BY <1>1, FlightTypes
<1>3. Begins(1) = 0 /\ NextAfter(1 - 1) = client.next /\ RevisionAfter(1 - 1) = client.revision
  BY DEF Begins, NextAfter, RevisionAfter
<1>4. Placed(1) /\ Tellable(1)
  BY <1>1 DEF ReplyInv, InStream
<1>5. /\ f.upto = 0 + Len(BytesOf(f)) /\ f.upto <= Len(bytes)
      /\ \A k \in 1..Len(BytesOf(f)) : bytes[0 + k] = BytesOf(f)[k]
      /\ written[Len(client.got) + 1] = Reply(f.type, Fields(f.type, f.val, f.rev))
  BY <1>3, <1>4 DEF Placed
<1>6. /\ client.next \in 1..handled /\ client.next = f.to
      /\ Readable(f.type, f.val, f.rev, f.compress, asked[client.next], client.revision)
  BY <1>3, <1>4 DEF Tellable
<1>7. asked[client.next] \in Request /\ client.revision \in UsedRevisions
  <2>1. asked \in Seq(Request) /\ handled \in 0..Len(asked)
    BY DEF ReplyInv, TypeOK
  <2>2. client.next \in 1..Len(asked)
    BY <1>6, <2>1
  <2> QED BY <2>1, <2>2 DEF ReplyInv, ReplyTypeOK
<1>8. Len(BytesOf(f)) \in Nat
  BY <1>2, FrameTypes
<1> QED BY <1>2, <1>5, <1>6, <1>7, <1>8

(* Nothing is in flight exactly when the stream is empty. *)
LEMMA NothingInFlight ==
  ASSUME ReplyInv PROVE flight = <<>> <=> bytes = <<>>
<1>1. bytes \in Seq(Nat)
  BY DEF ReplyInv, ReplyTypeOK
<1>2. CASE flight = <<>>
  <2>1. Begins(Len(flight) + 1) = 0
    BY <1>2 DEF Begins
  <2>2. Len(bytes) = 0
    BY <2>1 DEF ReplyInv, AtTheEnd
  <2> QED BY <1>1, <1>2, <2>2, EmptySeq
<1>3. CASE flight # <<>>
  <2>1. Len(bytes) # 0
    <3>1. flight[1] \in Frames /\ flight[1].upto = Len(BytesOf(flight[1])) /\ flight[1].upto <= Len(bytes)
      BY <1>3, FirstReply
    <3>2. Len(BytesOf(flight[1])) \in Nat \ {0}
      BY <3>1, FrameTypes
    <3> QED BY <1>1, <3>1, <3>2
  <2> QED BY <1>3, <2>1
<1> QED BY <1>2, <1>3

(* The client reads the first reply in flight. *)
LEMMA UnreadIs ==
  ASSUME SelfDelimiting, ReplyInv, flight # <<>>
  PROVE  LET f == flight[1] IN
         /\ Unread(bytes) = [st |-> "ok",
                             val |-> [reply |-> Reply(f.type, Fields(f.type, f.val, f.rev)),
                                      rev |-> f.rev, done |-> Completes(f.type)],
                             pos |-> f.upto]
         /\ \A n \in 0..(f.upto - 1) : Unread(SubSeq(bytes, 1, n)).st = "block"
<1> DEFINE f == flight[1]
           e == BytesOf(f)
           rest == SubSeq(bytes, Len(e) + 1, Len(bytes))
<1>1. /\ f \in Frames /\ f.upto = Len(e) /\ f.upto <= Len(bytes)
      /\ \A k \in 1..Len(e) : bytes[k] = e[k]
      /\ asked[client.next] \in Request /\ client.revision \in UsedRevisions
      /\ Readable(f.type, f.val, f.rev, f.compress, asked[client.next], client.revision)
  BY FirstReply
<1>2. bytes \in Seq(Nat) /\ e \in Seq(Nat) /\ Len(e) \in Nat /\ Len(e) <= Len(bytes)
  BY <1>1, FrameTypes DEF ReplyInv, ReplyTypeOK
<1>3. /\ f.type \in ReplyTypes /\ f.val \in Said(f.type) /\ f.rev \in UsedRevisions
      /\ f.compress \in BOOLEAN
  BY <1>1, FrameTypes
<1>4. bytes = e \o rest
  BY <1>1, <1>2, WholeThenRest
<1>5. rest \in Seq(Nat)
  BY <1>2
<1> HIDE DEF rest
<1>6. ReadsBack(rest)
  BY <1>5 DEF SelfDelimiting
<1>7. Read(e \o rest, asked[client.next], client.revision) =
        [st |-> "ok",
         val |-> [reply |-> Reply(f.type, Fields(f.type, f.val, f.rev)),
                  rev |-> f.rev, done |-> Completes(f.type)],
         pos |-> Len(e)]
  BY <1>1, <1>3, <1>6 DEF ReadsBack, BytesOf
<1>8. ASSUME NEW n \in 0..(f.upto - 1) PROVE Unread(SubSeq(bytes, 1, n)).st = "block"
  <2>1. n \in 0..(Len(e) - 1) /\ n \in Nat /\ n <= Len(bytes)
    BY <1>1, <1>2
  <2> DEFINE b == SubSeq(bytes, 1, n)
  <2>2. b \in Seq(Nat) /\ Len(b) = n /\ \A k \in 1..n : b[k] = bytes[k]
    <3>1. ASSUME NEW q \in Seq(Nat), NEW m \in Nat, m <= Len(q)
          PROVE  /\ SubSeq(q, 1, m) \in Seq(Nat) /\ Len(SubSeq(q, 1, m)) = m
                 /\ \A k \in 1..m : SubSeq(q, 1, m)[k] = q[k]
      BY <3>1
    <3>2. bytes \in Seq(Nat)
      BY <1>2
    <3> QED BY <2>1, <3>1, <3>2
  <2>3. \A k \in 1..n : b[k] = e[k]
    <3>1. \A k \in 1..n : k \in 1..Len(e)
      BY <1>2, <2>1
    <3> QED BY <1>1, <2>2, <3>1
  <2> HIDE DEF b
  <2>4. b = SubSeq(e, 1, n)
    BY <1>2, <2>1, <2>2, <2>3, PrefixOfBytes
  <2>5. Read(SubSeq(e, 1, n), asked[client.next], client.revision).st = "block"
    BY <1>1, <1>3, <2>1, OneBeginning DEF BytesOf
  <2> QED BY <2>4, <2>5 DEF Unread, b
<1> QED BY <1>1, <1>4, <1>7, <1>8 DEF Unread

-----------------------------------------------------------------------------
(* The initial state: nothing was written. *)
LEMMA InitReplies == Init => ReplyInv
<1> SUFFICES ASSUME Init PROVE ReplyInv
  OBVIOUS
<1>1. /\ <<>> \in Seq(Nat) /\ <<>> \in Seq(AnyReply) /\ <<>> \in Seq(Frames) /\ <<>> \in Seq(Request)
      /\ Len(<<>>) = 0
  BY EmptySeq
<1>2. TypeOK
  <2>1. 0 <= ours
    BY ReplyCodecAssumption DEF Init, ReplyCodecAssumption
  <2> QED BY <1>1, <2>1 DEF Init, TypeOK
<1>3. ReplyTypeOK
  BY <1>1, RevisionTypes DEF Init, ReplyTypeOK
<1>4. InStream /\ Ascending /\ Executes /\ ReadSoFar
  BY <1>1 DEF Init, InStream, Ascending, Executes, ReadSoFar
<1>5. AtTheEnd
  BY <1>1 DEF Init, AtTheEnd, Begins, NextAfter, RevisionAfter
<1> QED BY <1>2, <1>3, <1>4, <1>5 DEF ReplyInv

(* A step that leaves the stream alone, while requests are added and taken. *)
LEMMA StreamKept ==
  ASSUME ReplyInv, UNCHANGED <<bytes, written, client, flight>>, handled' \in Nat, handled <= handled',
         \A i \in 1..handled : asked'[i] = asked[i]
  PROVE  /\ InStream' /\ Ascending' /\ ReadSoFar'
         /\ Begins(Len(flight) + 1)' = Len(bytes)'
         /\ RevisionAfter(Len(flight))' = revision
         /\ NextAfter(Len(flight))' = IF pc = "executing" THEN handled ELSE handled + 1
<1>1. \A i : Begins(i)' = Begins(i) /\ NextAfter(i)' = NextAfter(i) /\ RevisionAfter(i)' = RevisionAfter(i)
  BY DEF Begins, NextAfter, RevisionAfter
<1>2. ASSUME NEW i \in 1..Len(flight) PROVE Placed(i)' /\ Tellable(i)'
  <2>1. Placed(i) /\ Tellable(i)
    BY <1>2 DEF ReplyInv, InStream
  <2>2. Placed(i)'
    BY <1>1, <2>1 DEF Placed
  <2>3. flight[i].to \in 1..handled' /\ asked'[flight[i].to] = asked[flight[i].to]
    <3>1. handled \in Nat
      BY DEF ReplyInv, TypeOK
    <3> QED BY <2>1, <3>1 DEF Tellable
  <2>4. Tellable(i)'
    BY <1>1, <2>1, <2>3 DEF Tellable
  <2> QED BY <2>2, <2>4
<1>3. InStream'
  BY <1>2 DEF InStream
<1>4. Ascending' /\ ReadSoFar'
  BY DEF ReplyInv, Ascending, ReadSoFar
<1> QED BY <1>1, <1>3, <1>4 DEF ReplyInv, AtTheEnd

(* The client asks. *)
LEMMA AskStep ==
  ASSUME ReplyInv, NEW r \in Request, Ask(r) PROVE ReplyInv'
<1>1. asked \in Seq(Request) /\ handled \in 0..Len(asked)
  BY DEF ReplyInv, TypeOK
<1>2. /\ asked' \in Seq(Request) /\ Len(asked') = Len(asked) + 1
      /\ \A i \in 1..Len(asked) : asked'[i] = asked[i]
  BY <1>1 DEF Ask
<1>3. handled' = handled /\ handled' \in Nat /\ \A i \in 1..handled : asked'[i] = asked[i]
  <2>1. \A i \in 1..handled : i \in 1..Len(asked)
    BY <1>1
  <2> QED BY <1>1, <1>2, <2>1 DEF Ask
<1>4. /\ InStream' /\ Ascending' /\ ReadSoFar' /\ Begins(Len(flight) + 1)' = Len(bytes)'
      /\ RevisionAfter(Len(flight))' = revision
      /\ NextAfter(Len(flight))' = IF pc = "executing" THEN handled ELSE handled + 1
  <2>1. UNCHANGED <<bytes, written, client, flight>> /\ handled <= handled'
    BY <1>3 DEF Ask
  <2> QED BY <1>3, <2>1, StreamKept
<1>5. AtTheEnd'
  BY <1>4 DEF Ask, AtTheEnd
<1>6. TypeOK'
  BY <1>1, <1>2 DEF ReplyInv, TypeOK, Ask
<1>7. ReplyTypeOK'
  BY DEF ReplyInv, ReplyTypeOK, Ask
<1>8. Executes'
  BY <1>1, <1>3 DEF ReplyInv, Executes, Ask
<1> QED BY <1>4, <1>5, <1>6, <1>7, <1>8 DEF ReplyInv

(* What Taken says of the request that is taken. *)
LEMMA TakenIs ==
  ASSUME ReplyInv, NEW t, Taken(t)
  PROVE  /\ handled \in Nat /\ handled + 1 \in 1..Len(asked) /\ asked[handled + 1] \in Request
         /\ asked[handled + 1].type = t /\ pc = "read" /\ NextAfter(Len(flight)) = handled + 1
<1>1. asked \in Seq(Request) /\ handled \in 0..Len(asked) /\ handled < Len(asked)
  BY DEF ReplyInv, TypeOK, Taken
<1>2. handled \in Nat /\ handled + 1 \in 1..Len(asked)
  BY <1>1
<1> QED BY <1>1, <1>2 DEF Taken, ReplyInv, AtTheEnd

(* A query is taken: its replies are written as it asks. *)
LEMMA QueryStep ==
  ASSUME ReplyInv, ApplyQuery PROVE ReplyInv'
<1>0. Taken("query")
  BY DEF ApplyQuery
<1>1. /\ handled \in Nat /\ handled + 1 \in 1..Len(asked) /\ asked[handled + 1] \in Request
      /\ asked[handled + 1].type = "query" /\ pc = "read" /\ NextAfter(Len(flight)) = handled + 1
  BY <1>0, TakenIs
<1>2. asked[handled + 1].compress \in BOOLEAN
  <2>1. asked[handled + 1] \in [type : {"query"}, compress : BOOLEAN]
    BY <1>1 DEF Request
  <2> QED BY <2>1
<1>3. handled' = handled + 1 /\ handled' \in Nat /\ handled <= handled'
  BY <1>1 DEF ApplyQuery
<1>4. /\ InStream' /\ Ascending' /\ ReadSoFar' /\ Begins(Len(flight) + 1)' = Len(bytes)'
      /\ RevisionAfter(Len(flight))' = revision
      /\ NextAfter(Len(flight))' = IF pc = "executing" THEN handled ELSE handled + 1
  BY <1>3, StreamKept DEF ApplyQuery
<1>5. AtTheEnd'
  BY <1>1, <1>4 DEF ApplyQuery, AtTheEnd
<1>6. TypeOK'
  <2>1. /\ asked \in Seq(Request) /\ revision <= ours /\ handled <= Len(written) + 0
        /\ client.next <= handled + 1 /\ client.next \in Nat /\ Len(written) \in Nat
    BY <1>1 DEF ReplyInv, TypeOK, ReplyTypeOK
  <2>2. handled' \in 0..Len(asked) /\ handled' <= Len(written) + 1 /\ client.next <= handled' + 1
    BY <1>1, <1>3, <2>1
  <2> QED BY <1>2, <2>1, <2>2 DEF TypeOK, ApplyQuery
<1>7. ReplyTypeOK'
  BY DEF ReplyInv, ReplyTypeOK, ApplyQuery
<1>8. Executes'
  BY <1>1 DEF Executes, ApplyQuery
<1> QED BY <1>4, <1>5, <1>6, <1>7, <1>8 DEF ReplyInv

-----------------------------------------------------------------------------
(* The steps that write a reply.  After it the client will know the revision  *)
(* it was written with, and wait for `to` or, if the answer is complete, for  *)
(* the next request.                                                          *)
LEMMA WriteStep ==
  ASSUME ReplyInv, NEW t \in ReplyTypes, NEW val \in Said(t), NEW rev \in UsedRevisions,
         NEW to \in 1..Len(asked), Write(t, val, rev, to), UNCHANGED <<ours, asked, client, compress>>,
         revision' = rev, handled' \in Nat, handled <= handled', to <= handled',
         to = NextAfter(Len(flight)), Readable(t, val, rev, compress, asked[to], revision),
         (IF Completes(t) THEN to + 1 ELSE to) = IF pc' = "executing" THEN handled' ELSE handled' + 1
  PROVE  /\ ReplyTypeOK' /\ InStream' /\ Ascending' /\ AtTheEnd' /\ ReadSoFar'
         /\ Len(written') = Len(written) + 1
<1> DEFINE e == Put(t, val, rev, compress)
           f == [type |-> t, val |-> val, rev |-> rev, compress |-> compress, to |-> to,
                 upto |-> Len(bytes) + Len(e)]
<1>0. PICK n : n = Len(flight)
  OBVIOUS
<1>1. /\ bytes \in Seq(Nat) /\ written \in Seq(AnyReply) /\ flight \in Seq(Frames) /\ compress \in BOOLEAN
      /\ client \in [got : Seq(AnyReply), next : Nat, revision : UsedRevisions] /\ handled \in Nat
      /\ ours \in ServerRevisions
  BY DEF ReplyInv, ReplyTypeOK, TypeOK
<1>2. e \in Seq(Nat) /\ Len(e) \in Nat \ {0}
  BY <1>1, OneReply
<1>3. f \in Frames
  <2>1. val \in AnyValue
    BY DEF AnyValue
  <2>2. Len(bytes) + Len(e) \in Nat /\ to \in Nat
    BY <1>1, <1>2
  <2> QED BY <1>1, <2>1, <2>2 DEF Frames
<1> HIDE DEF e
<1>4. /\ bytes' \in Seq(Nat) /\ Len(bytes') = Len(bytes) + Len(e) /\ Len(bytes) \in Nat
      /\ \A k \in 1..Len(bytes) : bytes'[k] = bytes[k]
      /\ \A k \in 1..Len(e) : bytes'[Len(bytes) + k] = e[k]
  <2>1. bytes' = bytes \o e
    BY DEF Write, e
  <2>2. Len(bytes) \in Nat /\ bytes' \in Seq(Nat) /\ Len(bytes') = Len(bytes) + Len(e)
    BY <1>1, <1>2, <2>1
  <2>3. \A k \in 1..(Len(bytes) + Len(e)) :
          bytes'[k] = IF k <= Len(bytes) THEN bytes[k] ELSE e[k - Len(bytes)]
    BY <1>1, <1>2, <2>1, ConcatProperties
  <2>4. ASSUME NEW k \in 1..Len(bytes) PROVE bytes'[k] = bytes[k]
    <3>1. ASSUME NEW x \in Nat, NEW y \in Nat, NEW j \in 1..x PROVE j \in 1..(x + y) /\ j <= x
      OBVIOUS
    <3>2. k \in 1..(Len(bytes) + Len(e)) /\ k <= Len(bytes)
      BY <1>2, <2>2, <3>1
    <3> QED BY <2>3, <3>2
  <2>5. ASSUME NEW k \in 1..Len(e) PROVE bytes'[Len(bytes) + k] = e[k]
    <3>1. /\ Len(bytes) + k \in 1..(Len(bytes) + Len(e)) /\ ~(Len(bytes) + k <= Len(bytes))
          /\ (Len(bytes) + k) - Len(bytes) = k
      <4>1. ASSUME NEW x \in Nat, NEW y \in Nat, NEW j \in 1..y
            PROVE  x + j \in 1..(x + y) /\ ~(x + j <= x) /\ (x + j) - x = j
        OBVIOUS
      <4> QED BY <1>2, <2>2, <4>1
    <3> QED BY <2>3, <3>1
  <2> QED BY <2>2, <2>4, <2>5
<1>5. /\ flight' = Append(flight, f) /\ flight' \in Seq(Frames) /\ Len(flight') = n + 1 /\ n \in Nat
      /\ \A i \in 1..n : flight'[i] = flight[i]
      /\ flight'[n + 1] = f
  <2>1. flight' = Append(flight, f)
    BY DEF Write, e
  <2> HIDE DEF f
  <2> QED BY <1>0, <1>1, <1>3, <2>1
<1>6. /\ written' \in Seq(AnyReply) /\ Len(written') = Len(written) + 1 /\ Len(written) \in Nat
      /\ \A i \in 1..Len(written) : written'[i] = written[i]
      /\ written'[Len(written) + 1] = Reply(t, Fields(t, val, rev))
  <2>1. written' = Append(written, Reply(t, Fields(t, val, rev)))
    BY DEF Write
  <2>2. Reply(t, Fields(t, val, rev)) \in AnyReply
    <3>1. val \in AnyValue
      BY DEF AnyValue
    <3> QED BY <3>1 DEF AnyReply
  <2>3. PICK q, z : q = written /\ z = Reply(t, Fields(t, val, rev))
    OBVIOUS
  <2>4. q \in Seq(AnyReply) /\ z \in AnyReply
    BY <1>1, <2>2, <2>3
  <2>5. Append(q, z) \in Seq(AnyReply) /\ Len(Append(q, z)) = Len(q) + 1
    BY <2>4, AppendProperties
  <2>6. (\A i \in 1..Len(q) : Append(q, z)[i] = q[i]) /\ Append(q, z)[Len(q) + 1] = z
    BY <2>4, AppendProperties
  <2>7. Len(q) \in Nat
    BY <2>4
  <2> QED BY <2>1, <2>3, <2>5, <2>6, <2>7
<1>7. f.type = t /\ f.val = val /\ f.rev = rev /\ f.compress = compress /\ f.to = to /\ f.upto = Len(bytes) + Len(e)
  OBVIOUS
<1> HIDE DEF f
<1>8. ReplyTypeOK'
  BY <1>1, <1>4, <1>5, <1>6 DEF ReplyTypeOK
<1>9. /\ Len(written) = Len(client.got) + n /\ Len(client.got) \in Nat /\ client.got \in Seq(AnyReply)
      /\ \A i \in 1..Len(client.got) : client.got[i] = written[i]
      /\ Begins(n + 1) = Len(bytes) /\ RevisionAfter(n) = revision /\ NextAfter(n) = to
  BY <1>0, <1>1 DEF ReplyInv, ReadSoFar, AtTheEnd
<1>10. ReadSoFar'
  <2>1. \A i \in 1..Len(client.got) : i \in 1..Len(written)
    BY <1>5, <1>9
  <2>2. Len(written') = Len(client.got) + Len(flight')
    <3>1. n \in Nat /\ Len(written') = Len(written) + 1 /\ Len(flight') = n + 1
      BY <1>5, <1>6
    <3>2. Len(written) = Len(client.got) + n /\ Len(client.got) \in Nat
      BY <1>9
    <3>3. \A x, y \in Nat : (x + y) + 1 = x + (y + 1)
      OBVIOUS
    <3> QED BY <3>1, <3>2, <3>3
  <2>3. \A i \in 1..Len(client.got) : client.got[i] = written'[i]
    BY <1>6, <1>9, <2>1
  <2>4. client' = client
    OBVIOUS
  <2> QED BY <2>2, <2>3, <2>4 DEF ReadSoFar
<1>11. \A i \in 1..(n + 1) : Begins(i)' = Begins(i)
  <2> TAKE i \in 1..(n + 1)
  <2>1. CASE i = 1
    BY <2>1 DEF Begins
  <2>2. CASE i # 1
    <3>1. i - 1 \in 1..n
      BY <1>5, <2>2
    <3> QED BY <1>5, <2>2, <3>1 DEF Begins
  <2> QED BY <2>1, <2>2
<1>12. \A i \in 0..n : NextAfter(i)' = NextAfter(i) /\ RevisionAfter(i)' = RevisionAfter(i)
  <2> TAKE i \in 0..n
  <2>1. CASE i = 0
    BY <2>1 DEF NextAfter, RevisionAfter
  <2>2. CASE i # 0
    <3>1. i \in 1..n
      BY <1>5, <2>2
    <3> QED BY <1>5, <2>2, <3>1 DEF NextAfter, RevisionAfter
  <2> QED BY <2>1, <2>2
<1>13. ASSUME NEW i \in 1..n PROVE Placed(i)' /\ Tellable(i)'
  <2>1. Placed(i) /\ Tellable(i) /\ flight[i] \in Frames /\ flight'[i] = flight[i]
    BY <1>0, <1>5, FlightTypes DEF ReplyInv, InStream
  <2>2. i \in 1..(n + 1) /\ i - 1 \in 0..n
    BY <1>5
  <2>3. Begins(i)' = Begins(i) /\ NextAfter(i - 1)' = NextAfter(i - 1) /\ RevisionAfter(i - 1)' = RevisionAfter(i - 1)
    BY <1>11, <1>12, <2>2
  <2> DEFINE g == flight[i]
             l == Len(BytesOf(g))
  <2>4. l \in Nat \ {0} /\ g.upto \in Nat
    BY <2>1, FrameTypes
  <2>5. /\ g.upto = Begins(i) + l /\ g.upto <= Len(bytes)
        /\ \A k \in 1..l : bytes[Begins(i) + k] = BytesOf(g)[k]
        /\ written[Len(client.got) + i] = Reply(g.type, Fields(g.type, g.val, g.rev))
    BY <2>1 DEF Placed
  <2>6. Begins(i) \in Nat
    <3>1. CASE i = 1
      BY <3>1 DEF Begins
    <3>2. CASE i # 1
      <4>1. i - 1 \in 1..n
        BY <1>5, <3>2
      <4>2. flight[i - 1] \in Frames
        BY <1>0, <4>1, FlightTypes
      <4> QED BY <3>2, <4>2, FrameTypes DEF Begins
    <3> QED BY <3>1, <3>2
  <2>7. ASSUME NEW k \in 1..l PROVE bytes'[Begins(i) + k] = BytesOf(g)[k]
    <3>1. Begins(i) + k \in 1..Len(bytes)
      <4>1. ASSUME NEW x \in Nat, NEW y \in Nat, NEW z \in Nat, NEW j \in 1..y, x + y <= z
            PROVE  x + j \in 1..z
        BY <4>1
      <4>2. Begins(i) + l <= Len(bytes) /\ l \in Nat /\ Len(bytes) \in Nat
        BY <1>4, <2>4, <2>5
      <4> QED BY <2>6, <4>1, <4>2
    <3> QED BY <1>4, <2>5, <3>1
  <2>8. written'[Len(client.got) + i] = Reply(g.type, Fields(g.type, g.val, g.rev))
    <3>1. Len(client.got) + i \in 1..Len(written)
      BY <1>5, <1>9
    <3> QED BY <1>6, <2>5, <3>1
  <2>9. g.upto <= Len(bytes')
    BY <1>2, <1>4, <2>4, <2>5
  <2>10. Placed(i)'
    BY <2>1, <2>3, <2>5, <2>7, <2>8, <2>9 DEF Placed, BytesOf
  <2>11. g.to \in 1..handled /\ g.to \in 1..handled'
    BY <1>1, <2>1 DEF Tellable
  <2>12. Tellable(i)'
    BY <2>1, <2>3, <2>11 DEF Tellable
  <2> QED BY <2>10, <2>12
<1>14. Placed(n + 1)' /\ Tellable(n + 1)'
  <2>1. Begins(n + 1)' = Len(bytes) /\ BytesOf(flight'[n + 1]) = e
    <3>1. n + 1 \in 1..(n + 1)
      BY <1>5
    <3> QED BY <1>5, <1>7, <1>9, <1>11, <3>1 DEF BytesOf, e
  <2>2. Len(client.got) + (n + 1) = Len(written) + 1
    <3>1. n \in Nat /\ Len(written) = Len(client.got) + n /\ Len(client.got) \in Nat
      BY <1>5, <1>9
    <3>2. \A x, y \in Nat : x + (y + 1) = (x + y) + 1
      OBVIOUS
    <3> QED BY <3>1, <3>2
  <2>3. Placed(n + 1)'
    <3>1. BytesOf(flight[n + 1])' = e /\ (flight[n + 1])' = f
      BY <1>5, <2>1 DEF BytesOf
    <3>2. f.upto <= Len(bytes') /\ \A k \in 1..Len(e) : bytes'[Len(bytes) + k] = e[k]
      <4>1. f.upto = Len(bytes') /\ Len(bytes') \in Nat
        <5>1. Len(bytes) + Len(e) \in Nat
          BY <1>2, <1>4
        <5>2. f.upto = Len(bytes) + Len(e) /\ Len(bytes') = Len(bytes) + Len(e)
          BY <1>4, <1>7
        <5> QED BY <5>1, <5>2
      <4>2. \A k \in 1..Len(e) : bytes'[Len(bytes) + k] = e[k]
        BY <1>4
      <4>3. \A x \in Nat : x <= x
        OBVIOUS
      <4>4. f.upto <= Len(bytes')
        BY <4>1, <4>3
      <4> QED BY <4>2, <4>4
    <3>3. written'[Len(client.got) + (n + 1)] = Reply(f.type, Fields(f.type, f.val, f.rev))
      BY <1>6, <1>7, <2>2
    <3> QED BY <1>7, <2>1, <3>1, <3>2, <3>3 DEF Placed
  <2>4. NextAfter((n + 1) - 1)' = to /\ RevisionAfter((n + 1) - 1)' = revision
    <3>1. (n + 1) - 1 = n /\ n \in 0..n
      BY <1>5
    <3> QED BY <1>9, <1>12, <3>1
  <2>5. to \in 1..handled'
    OBVIOUS
  <2>6. Tellable(n + 1)'
    BY <1>5, <1>7, <2>4, <2>5 DEF Tellable
  <2> QED BY <2>3, <2>6
<1>15. InStream'
  <2>1. \A i \in 1..(n + 1) : i \in 1..n \/ i = n + 1
    BY <1>5
  <2> QED BY <1>5, <1>13, <1>14, <2>1 DEF InStream
<1>16. AtTheEnd'
  <2>1. n + 1 # 0 /\ (n + 1) + 1 # 1 /\ ((n + 1) + 1) - 1 = n + 1
    BY <1>5
  <2>2. Begins(Len(flight) + 1)' = Len(bytes)'
    BY <1>4, <1>5, <1>7, <2>1 DEF Begins
  <2>3. RevisionAfter(Len(flight))' = revision'
    BY <1>5, <1>7, <2>1 DEF RevisionAfter
  <2>4. NextAfter(Len(flight))' = IF Completes(t) THEN to + 1 ELSE to
    BY <1>5, <1>7, <2>1 DEF NextAfter
  <2> QED BY <2>2, <2>3, <2>4 DEF AtTheEnd
<1>17. Ascending'
  <2> SUFFICES ASSUME NEW i \in 1..(n + 1), NEW j \in 1..(n + 1), i < j
               PROVE  flight'[i].upto < flight'[j].upto
    BY <1>5 DEF Ascending
  <2>1. i \in 1..n
    BY <1>5
  <2>2. flight'[i] = flight[i] /\ flight[i].upto \in Nat /\ flight[i].upto <= Len(bytes)
    BY <1>0, <1>5, <2>1, FlightTypes, FrameTypes DEF ReplyInv, InStream, Placed
  <2>3. CASE j \in 1..n
    BY <1>0, <1>5, <2>1, <2>3 DEF ReplyInv, Ascending
  <2>4. CASE j = n + 1
    <3>1. flight'[j].upto = Len(bytes) + Len(e)
      BY <1>5, <1>7, <2>4
    <3>2. ASSUME NEW x \in Nat, NEW y \in Nat, NEW z \in Nat \ {0}, x <= y PROVE x < y + z
      BY <3>2
    <3>3. Len(bytes) \in Nat /\ Len(e) \in Nat \ {0} /\ flight[i].upto \in Nat /\ flight[i].upto <= Len(bytes)
      BY <1>2, <1>4, <2>2
    <3>4. flight[i].upto < Len(bytes) + Len(e)
      BY <3>2, <3>3
    <3> QED BY <2>2, <3>1, <3>4
  <2>5. j \in 1..n \/ j = n + 1
    BY <1>5
  <2> QED BY <2>3, <2>4, <2>5
<1> QED BY <1>6, <1>8, <1>10, <1>15, <1>16, <1>17

(* Type correctness, when a request is answered by one reply. *)
LEMMA AnsweredStep ==
  ASSUME ReplyInv, handled \in Nat, handled + 1 \in 1..Len(asked), pc = "read", handled' = handled + 1,
         Len(written') = Len(written) + 1, UNCHANGED <<ours, asked, client, compress>>,
         revision' <= ours, pc' \in {"read", "ended"}
  PROVE  TypeOK'
<1>1. /\ asked \in Seq(Request) /\ compress \in BOOLEAN /\ handled <= Len(written) + 0
      /\ client.next <= handled + 1 /\ client.next \in Nat /\ Len(written) \in Nat
  BY DEF ReplyInv, TypeOK, ReplyTypeOK
<1>2. handled' \in 0..Len(asked) /\ handled' <= Len(written') + 0 /\ client.next <= handled' + 1
  BY <1>1
<1> QED BY <1>1, <1>2 DEF TypeOK

(* apply of a Hello: both sides agree on the lower revision. *)
LEMMA HelloStep ==
  ASSUME ReplyInv, ApplyHello PROVE ReplyInv'
<1>0. Taken("hello")
  BY DEF ApplyHello
<1> DEFINE q == asked[handled + 1]
           rev == Negotiated(q.revision)
<1>1. /\ handled \in Nat /\ handled + 1 \in 1..Len(asked) /\ q \in Request
      /\ q.type = "hello" /\ pc = "read" /\ NextAfter(Len(flight)) = handled + 1
  BY <1>0, TakenIs
<1>2. q.revision \in Revisions /\ ours \in ServerRevisions /\ ours \in Said("hello")
  <2>1. q \in [type : {"hello"}, revision : Revisions]
    BY <1>1 DEF Request
  <2> QED BY <2>1 DEF ReplyInv, ReplyTypeOK, Said
<1>3. rev \in UsedRevisions /\ rev <= ours
  BY <1>2, RevisionTypes DEF Negotiated
<1>4. Readable("hello", ours, rev, compress, q, revision)
  BY <1>1 DEF Readable, Answers, Negotiated
<1> HIDE DEF rev, q
<1>5. /\ revision' = rev /\ Write("hello", ours, rev, handled + 1) /\ handled' = handled + 1
      /\ pc' = "read" /\ UNCHANGED <<ours, asked, client, compress>>
  BY <1>1 DEF ApplyHello, rev, q
<1>6. /\ ReplyTypeOK' /\ InStream' /\ Ascending' /\ AtTheEnd' /\ ReadSoFar'
      /\ Len(written') = Len(written) + 1
  <2>1. "hello" \in ReplyTypes /\ Completes("hello")
    BY DEF ReplyTypes, Completes
  <2>2. handled' \in Nat /\ handled <= handled' /\ handled + 1 <= handled'
    BY <1>1, <1>5
  <2>3. (IF Completes("hello") THEN (handled + 1) + 1 ELSE handled + 1) = IF pc' = "executing" THEN handled' ELSE handled' + 1
    BY <1>5, <2>1
  <2> QED BY <1>1, <1>2, <1>3, <1>4, <1>5, <2>1, <2>2, <2>3, WriteStep DEF q
<1>7. TypeOK'
  BY <1>1, <1>3, <1>5, <1>6, AnsweredStep
<1>8. Executes'
  BY <1>5 DEF Executes
<1> QED BY <1>6, <1>7, <1>8 DEF ReplyInv

(* apply of a Ping. *)
LEMMA PingStep ==
  ASSUME ReplyInv, ApplyPing PROVE ReplyInv'
<1>0. Taken("ping")
  BY DEF ApplyPing
<1>1. /\ handled \in Nat /\ handled + 1 \in 1..Len(asked) /\ asked[handled + 1] \in Request
      /\ asked[handled + 1].type = "ping" /\ pc = "read" /\ NextAfter(Len(flight)) = handled + 1
  BY <1>0, TakenIs
<1>2. revision \in UsedRevisions /\ revision <= ours
  BY DEF ReplyInv, ReplyTypeOK, TypeOK
<1>3. Readable("pong", <<>>, revision, compress, asked[handled + 1], revision)
  BY <1>1 DEF Readable, Answers
<1>4. /\ revision' = revision /\ Write("pong", <<>>, revision, handled + 1) /\ handled' = handled + 1
      /\ pc' = "read" /\ UNCHANGED <<ours, asked, client, compress>>
  BY <1>1 DEF ApplyPing
<1>5. /\ ReplyTypeOK' /\ InStream' /\ Ascending' /\ AtTheEnd' /\ ReadSoFar'
      /\ Len(written') = Len(written) + 1
  <2>1. "pong" \in ReplyTypes /\ Completes("pong") /\ <<>> \in Said("pong")
    BY DEF ReplyTypes, Completes, Said
  <2>2. handled' \in Nat /\ handled <= handled' /\ handled + 1 <= handled'
    BY <1>1, <1>4
  <2>3. (IF Completes("pong") THEN (handled + 1) + 1 ELSE handled + 1) = IF pc' = "executing" THEN handled' ELSE handled' + 1
    BY <1>4, <2>1
  <2> QED BY <1>1, <1>2, <1>3, <1>4, <2>1, <2>2, <2>3, WriteStep
<1>6. TypeOK'
  BY <1>1, <1>2, <1>4, <1>5, AnsweredStep
<1>7. Executes'
  BY <1>4 DEF Executes
<1> QED BY <1>5, <1>6, <1>7 DEF ReplyInv

(* write_error: the last reply. *)
LEMMA ErrorStep ==
  ASSUME ReplyInv, NEW e \in Errors, WriteError(e) PROVE ReplyInv'
<1>0. Taken("bad")
  BY DEF WriteError
<1>1. /\ handled \in Nat /\ handled + 1 \in 1..Len(asked) /\ asked[handled + 1] \in Request
      /\ asked[handled + 1].type = "bad" /\ pc = "read" /\ NextAfter(Len(flight)) = handled + 1
  BY <1>0, TakenIs
<1>2. revision \in UsedRevisions /\ revision <= ours
  BY DEF ReplyInv, ReplyTypeOK, TypeOK
<1>3. Readable("exception", e, revision, compress, asked[handled + 1], revision)
  BY <1>1 DEF Readable, Answers
<1>4. /\ revision' = revision /\ Write("exception", e, revision, handled + 1) /\ handled' = handled + 1
      /\ pc' = "ended" /\ UNCHANGED <<ours, asked, client, compress>>
  BY <1>1 DEF WriteError
<1>5. /\ ReplyTypeOK' /\ InStream' /\ Ascending' /\ AtTheEnd' /\ ReadSoFar'
      /\ Len(written') = Len(written) + 1
  <2>1. "exception" \in ReplyTypes /\ Completes("exception") /\ e \in Said("exception")
    BY DEF ReplyTypes, Completes, Said
  <2>2. handled' \in Nat /\ handled <= handled' /\ handled + 1 <= handled'
    BY <1>1, <1>4
  <2>3. (IF Completes("exception") THEN (handled + 1) + 1 ELSE handled + 1) = IF pc' = "executing" THEN handled' ELSE handled' + 1
    BY <1>4, <2>1
  <2> QED BY <1>1, <1>2, <1>3, <1>4, <2>1, <2>2, <2>3, WriteStep
<1>6. TypeOK'
  BY <1>1, <1>2, <1>4, <1>5, AnsweredStep
<1>7. Executes'
  BY <1>4 DEF Executes
<1> QED BY <1>5, <1>6, <1>7 DEF ReplyInv

(* The replies to a query: written with the revision and the compression that *)
(* the client expects, and the end of the answer.                             *)
LEMMA ExecutingStep ==
  ASSUME ReplyInv, pc = "executing", NEW t \in {"data", "progress", "end"}, NEW val \in Said(t),
         Write(t, val, revision, handled), UNCHANGED <<ours, asked, handled, revision, compress, client>>,
         pc' = IF t = "end" THEN "read" ELSE "executing"
  PROVE  ReplyInv'
<1>1. /\ handled \in Nat /\ handled \in 1..Len(asked) /\ asked[handled].type = "query"
      /\ compress = asked[handled].compress /\ NextAfter(Len(flight)) = handled
  <2>1. asked \in Seq(Request) /\ handled \in 0..Len(asked)
    BY DEF ReplyInv, TypeOK
  <2> QED BY <2>1 DEF ReplyInv, Executes, AtTheEnd
<1>2. revision \in UsedRevisions
  BY DEF ReplyInv, ReplyTypeOK
<1>3. Readable(t, val, revision, compress, asked[handled], revision)
  BY <1>1 DEF Readable, Answers
<1>4. /\ ReplyTypeOK' /\ InStream' /\ Ascending' /\ AtTheEnd' /\ ReadSoFar'
      /\ Len(written') = Len(written) + 1
  <2>1. t \in ReplyTypes /\ (Completes(t) <=> t = "end")
    BY DEF ReplyTypes, Completes
  <2>2. handled' = handled /\ handled' \in Nat /\ handled <= handled'
    BY <1>1
  <2>3. (IF Completes(t) THEN handled + 1 ELSE handled) = IF pc' = "executing" THEN handled' ELSE handled' + 1
    BY <2>1, <2>2
  <2> QED BY <1>1, <1>2, <1>3, <2>1, <2>2, <2>3, WriteStep
<1>5. TypeOK'
  <2>1. /\ asked \in Seq(Request) /\ handled \in 0..Len(asked) /\ revision <= ours /\ compress \in BOOLEAN
        /\ handled <= Len(written) + 1 /\ client.next <= handled + 1 /\ Len(written) \in Nat
    BY DEF ReplyInv, TypeOK, ReplyTypeOK
  <2>2. pc' \in {"read", "executing", "ended"} /\ handled' <= Len(written') + (IF pc' = "executing" THEN 1 ELSE 0)
    BY <1>1, <1>4, <2>1
  <2> QED BY <2>1, <2>2 DEF TypeOK
<1>6. Executes'
  BY <1>1 DEF Executes
<1> QED BY <1>4, <1>5, <1>6 DEF ReplyInv

-----------------------------------------------------------------------------
(* What is left of the bytes when some are taken from the front. *)
LEMMA BytesLeft ==
  ASSUME NEW b \in Seq(Nat), NEW u \in Nat, u <= Len(b)
  PROVE  LET c == SubSeq(b, u + 1, Len(b)) IN
         /\ c \in Seq(Nat) /\ Len(c) = Len(b) - u
         /\ \A k \in 1..(Len(b) - u) : c[k] = b[u + k]
<1>1. Len(b) \in Nat
  OBVIOUS
<1>2. SubSeq(b, u + 1, Len(b)) \in Seq(Nat) /\ Len(SubSeq(b, u + 1, Len(b))) = Len(b) - u
  BY <1>1
<1>3. ASSUME NEW k \in 1..(Len(b) - u) PROVE SubSeq(b, u + 1, Len(b))[k] = b[u + k]
  BY <1>1
<1> QED BY <1>2, <1>3

(* The client reads a reply: the others move up. *)
LEMMA ReadStep ==
  ASSUME SelfDelimiting, ReplyInv, ClientRead PROVE ReplyInv'
<1>0. PICK u, n : u = flight[1].upto /\ n = Len(flight)
  OBVIOUS
<1> DEFINE f == flight[1]
<1>1. bytes \in Seq(Nat) /\ flight \in Seq(Frames) /\ written \in Seq(AnyReply)
      /\ client \in [got : Seq(AnyReply), next : Nat, revision : UsedRevisions] /\ handled \in Nat
      /\ Len(bytes) \in Nat
  BY DEF ReplyInv, ReplyTypeOK, TypeOK
<1>2. flight # <<>> /\ n \in Nat \ {0} /\ 1 \in 1..n
  <2>1. flight # <<>>
    BY NothingInFlight DEF ClientRead
  <2> QED BY <1>0, <1>1, <2>1, EmptySeq
<1>3. /\ f \in Frames /\ u \in Nat \ {0} /\ u <= Len(bytes) /\ client.next = f.to /\ client.next \in 1..handled
      /\ written[Len(client.got) + 1] = Reply(f.type, Fields(f.type, f.val, f.rev))
  <2>1. f \in Frames /\ f.upto = Len(BytesOf(f)) /\ f.upto <= Len(bytes)
    BY <1>2, FirstReply
  <2>2. u \in Nat \ {0}
    BY <1>0, <2>1, FrameTypes
  <2> QED BY <1>0, <1>2, <2>1, <2>2, FirstReply
<1>4. /\ client'.got = Append(client.got, Reply(f.type, Fields(f.type, f.val, f.rev)))
      /\ client'.next = NextAfter(1) /\ client'.revision = f.rev
      /\ client' = [got |-> client'.got, next |-> client'.next, revision |-> client'.revision]
      /\ bytes' = SubSeq(bytes, u + 1, Len(bytes))
      /\ flight' = [i \in 1..(n - 1) |-> [flight[i + 1] EXCEPT !.upto = flight[i + 1].upto - u]]
      /\ UNCHANGED <<ours, asked, handled, pc, revision, compress, written>>
  <2>1. Unread(bytes) = [st |-> "ok",
                         val |-> [reply |-> Reply(f.type, Fields(f.type, f.val, f.rev)),
                                  rev |-> f.rev, done |-> Completes(f.type)],
                         pos |-> f.upto]
    BY <1>2, UnreadIs
  <2>2. client.next = f.to /\ NextAfter(1) = IF Completes(f.type) THEN f.to + 1 ELSE f.to
    BY <1>3 DEF NextAfter
  <2> HIDE DEF Reply
  <2> DEFINE x == Unread(bytes)
  <2>3. /\ x.val.reply = Reply(f.type, Fields(f.type, f.val, f.rev)) /\ x.val.rev = f.rev
        /\ x.val.done = Completes(f.type) /\ x.pos = u
    BY <1>0, <2>1
  <2> HIDE DEF x
  <2>4. /\ client' = [got |-> Append(client.got, x.val.reply),
                      next |-> IF x.val.done THEN client.next + 1 ELSE client.next,
                      revision |-> x.val.rev]
        /\ bytes' = SubSeq(bytes, x.pos + 1, Len(bytes))
        /\ flight' = [i \in 1..(n - 1) |-> [flight[i + 1] EXCEPT !.upto = flight[i + 1].upto - x.pos]]
        /\ UNCHANGED <<ours, asked, handled, pc, revision, compress, written>>
    BY <1>0 DEF ClientRead, x
  <2> QED BY <2>2, <2>3, <2>4
<1>5. /\ bytes' \in Seq(Nat) /\ Len(bytes') = Len(bytes) - u
      /\ \A k \in 1..(Len(bytes) - u) : bytes'[k] = bytes[u + k]
  <2>1. bytes' = SubSeq(bytes, u + 1, Len(bytes))
    BY <1>4
  <2>2. bytes \in Seq(Nat) /\ u \in Nat /\ u <= Len(bytes)
    BY <1>1, <1>3
  <2> QED BY <2>1, <2>2, BytesLeft
<1>6. ASSUME NEW i \in 1..(n - 1)
      PROVE  /\ i + 1 \in 1..n /\ i + 1 # 1 /\ (i + 1) - 1 = i /\ i \in 1..n
             /\ flight[i + 1] \in Frames /\ flight[i + 1].upto - u \in Nat
             /\ flight'[i] = [flight[i + 1] EXCEPT !.upto = flight[i + 1].upto - u]
             /\ flight'[i] \in Frames
  <2>1. i + 1 \in 1..n /\ 1 < i + 1 /\ i + 1 # 1 /\ (i + 1) - 1 = i /\ i \in 1..n
    BY <1>2
  <2>2. flight[i + 1] \in Frames
    BY <1>0, <2>1, FlightTypes
  <2>3. u < flight[i + 1].upto
    BY <1>0, <1>2, <2>1 DEF ReplyInv, Ascending
  <2>4. flight[i + 1].upto - u \in Nat
    BY <1>3, <2>2, <2>3 DEF Frames
  <2>5. flight'[i] = [flight[i + 1] EXCEPT !.upto = flight[i + 1].upto - u]
    BY <1>4
  <2> QED BY <2>1, <2>2, <2>4, <2>5 DEF Frames
<1>7. ASSUME NEW i \in 1..(n - 1)
      PROVE  /\ flight'[i].type = flight[i + 1].type /\ flight'[i].val = flight[i + 1].val
             /\ flight'[i].rev = flight[i + 1].rev /\ flight'[i].compress = flight[i + 1].compress
             /\ flight'[i].to = flight[i + 1].to /\ flight'[i].upto = flight[i + 1].upto - u
             /\ BytesOf(flight'[i]) = BytesOf(flight[i + 1])
  <2>1. /\ flight[i + 1] \in Frames /\ flight[i + 1].upto - u \in Nat
        /\ flight'[i] = [flight[i + 1] EXCEPT !.upto = flight[i + 1].upto - u]
    BY <1>6
  <2>2. ASSUME NEW g \in Frames, NEW v \in Nat
        PROVE  /\ [g EXCEPT !.upto = v].type = g.type /\ [g EXCEPT !.upto = v].val = g.val
               /\ [g EXCEPT !.upto = v].rev = g.rev /\ [g EXCEPT !.upto = v].compress = g.compress
               /\ [g EXCEPT !.upto = v].to = g.to /\ [g EXCEPT !.upto = v].upto = v
    BY DEF Frames
  <2>3. /\ flight'[i].type = flight[i + 1].type /\ flight'[i].val = flight[i + 1].val
        /\ flight'[i].rev = flight[i + 1].rev /\ flight'[i].compress = flight[i + 1].compress
        /\ flight'[i].to = flight[i + 1].to /\ flight'[i].upto = flight[i + 1].upto - u
    BY <2>1, <2>2
  <2> QED BY <2>3 DEF BytesOf
<1>8. flight' \in Seq(Frames) /\ Len(flight') = n - 1 /\ n - 1 \in Nat
  <2>1. flight' \in [1..(n - 1) -> Frames] /\ n - 1 \in Nat
    BY <1>2, <1>4, <1>6
  <2> QED BY <2>1
<1>9. /\ client.got \in Seq(AnyReply) /\ Len(client.got) \in Nat /\ client'.got \in Seq(AnyReply)
      /\ Len(client'.got) = Len(client.got) + 1
      /\ client'.got[Len(client.got) + 1] = Reply(f.type, Fields(f.type, f.val, f.rev))
      /\ \A i \in 1..Len(client.got) : client'.got[i] = client.got[i]
  <2>1. Reply(f.type, Fields(f.type, f.val, f.rev)) \in AnyReply
    BY <1>3, FrameTypes DEF AnyReply, AnyValue
  <2> DEFINE y == Reply(f.type, Fields(f.type, f.val, f.rev))
  <2> HIDE DEF y
  <2>2. client.got \in Seq(AnyReply) /\ y \in AnyReply /\ client'.got = Append(client.got, y)
    BY <1>1, <1>4, <2>1 DEF y
  <2>3. /\ Len(client.got) \in Nat /\ client'.got \in Seq(AnyReply) /\ Len(client'.got) = Len(client.got) + 1
        /\ client'.got[Len(client.got) + 1] = y
        /\ \A i \in 1..Len(client.got) : client'.got[i] = client.got[i]
    BY <2>2, AppendProperties
  <2> QED BY <2>2, <2>3 DEF y
<1>10. ReplyTypeOK'
  <2>1. client'.next \in Nat /\ client'.revision \in UsedRevisions
    <3>1. f.to \in Nat /\ f.rev \in UsedRevisions
      BY <1>3, FrameTypes
    <3>2. client'.next = NextAfter(1) /\ client'.revision = f.rev
      BY <1>4
    <3>3. NextAfter(1) = IF Completes(f.type) THEN f.to + 1 ELSE f.to
      BY DEF NextAfter
    <3>4. NextAfter(1) \in Nat
      BY <3>1, <3>3
    <3> QED BY <3>1, <3>2, <3>4
  <2>2. client' \in [got : Seq(AnyReply), next : Nat, revision : UsedRevisions]
    BY <1>4, <1>9, <2>1
  <2> QED BY <1>4, <1>5, <1>8, <2>2 DEF ReplyInv, ReplyTypeOK
<1>11. ASSUME NEW i \in 1..n
       PROVE  Begins(i)' = Begins(i + 1) - u /\ Begins(i + 1) \in Nat /\ Begins(i)' \in Nat
  <2>1. Begins(i + 1) = flight[i].upto /\ flight[i].upto \in Nat /\ i + 1 # 1 /\ (i + 1) - 1 = i
    <3>1. i + 1 # 1 /\ (i + 1) - 1 = i
      BY <1>2
    <3>2. flight[i] \in Frames
      BY <1>0, FlightTypes
    <3> QED BY <3>1, <3>2, FrameTypes DEF Begins
  <2>2. CASE i = 1
    <3>1. Begins(i)' = 0
      BY <2>2 DEF Begins
    <3> QED BY <1>0, <1>3, <2>1, <2>2, <3>1
  <2>3. CASE i # 1
    <3>1. i - 1 \in 1..(n - 1) /\ (i - 1) + 1 = i
      BY <1>2, <2>3
    <3>2. flight'[i - 1].upto = flight[i].upto - u /\ flight[i].upto - u \in Nat
      BY <1>6, <1>7, <3>1
    <3> QED BY <2>1, <2>3, <3>2 DEF Begins
  <2> QED BY <2>2, <2>3
<1>12. ASSUME NEW i \in 0..(n - 1)
       PROVE  NextAfter(i)' = NextAfter(i + 1) /\ RevisionAfter(i)' = RevisionAfter(i + 1)
  <2>1. CASE i = 0
    BY <1>4, <2>1 DEF NextAfter, RevisionAfter
  <2>2. CASE i # 0
    <3>1. i \in 1..(n - 1) /\ i + 1 # 0
      BY <1>2, <2>2
    <3> QED BY <1>7, <2>2, <3>1 DEF NextAfter, RevisionAfter
  <2> QED BY <2>1, <2>2
<1>13. ASSUME NEW i \in 1..(n - 1) PROVE Placed(i)' /\ Tellable(i)'
  <2>1. Placed(i + 1) /\ Tellable(i + 1) /\ i + 1 \in 1..n /\ (i + 1) - 1 = i /\ i \in 1..n
    BY <1>0, <1>6 DEF ReplyInv, InStream
  <2> DEFINE g == flight[i + 1]
             l == Len(BytesOf(g))
  <2>2. Begins(i)' = Begins(i + 1) - u /\ Begins(i + 1) \in Nat /\ Begins(i)' \in Nat
    BY <1>11, <2>1
  <2>3. l \in Nat /\ g.upto \in Nat /\ g.to \in Nat
    BY <1>6, FrameTypes
  <2>4. /\ g.upto = Begins(i + 1) + l /\ g.upto <= Len(bytes)
        /\ \A k \in 1..l : bytes[Begins(i + 1) + k] = BytesOf(g)[k]
        /\ written[Len(client.got) + (i + 1)] = Reply(g.type, Fields(g.type, g.val, g.rev))
    BY <2>1 DEF Placed
  <2>5. flight'[i].upto = Begins(i)' + l /\ flight'[i].upto <= Len(bytes')
    <3>1. flight'[i].upto = g.upto - u
      BY <1>7
    <3>2. ASSUME NEW x \in Nat, NEW y \in Nat, NEW z \in Nat, NEW w \in Nat, z = x + y, z <= w
          PROVE  z - u = (x - u) + y /\ z - u <= w - u
      BY <1>3, <3>2
    <3>3. /\ Begins(i + 1) \in Nat /\ l \in Nat /\ g.upto \in Nat /\ Len(bytes) \in Nat
          /\ g.upto = Begins(i + 1) + l /\ g.upto <= Len(bytes)
      <4>1. bytes \in Seq(Nat)
        BY <1>1
      <4> QED BY <2>2, <2>3, <2>4, <4>1
    <3>4. g.upto - u = (Begins(i + 1) - u) + l /\ g.upto - u <= Len(bytes) - u
      BY <3>2, <3>3
    <3>5. Begins(i)' = Begins(i + 1) - u /\ Len(bytes') = Len(bytes) - u
      BY <1>5, <2>2
    <3> QED BY <3>1, <3>4, <3>5
  <2>6. ASSUME NEW k \in 1..l PROVE bytes'[Begins(i)' + k] = BytesOf(g)[k]
    <3>1. Begins(i + 1) + l <= Len(bytes) /\ u \in Nat
      BY <1>3, <2>4
    <3>2. Begins(i)' + k \in 1..(Len(bytes) - u) /\ u + (Begins(i)' + k) = Begins(i + 1) + k
      <4>1. PICK b \in Nat, c \in Nat, m \in Nat, d \in Nat :
              b = Begins(i + 1) /\ c = Begins(i)' /\ m = l /\ d = Len(bytes)
        BY <1>1, <2>2, <2>3
      <4>2. c = b - u /\ b + m <= d /\ k \in 1..m
        BY <2>2, <3>1, <4>1
      <4>3. c + k \in 1..(d - u) /\ u + (c + k) = b + k
        <5> HIDE DEF l, g
        <5> QED BY <3>1, <4>2
      <4> QED BY <4>1, <4>3
    <3> QED BY <1>5, <2>4, <3>2
  <2>7. written'[Len(client'.got) + i] = Reply(g.type, Fields(g.type, g.val, g.rev))
    <3>1. Len(client'.got) + i = Len(client.got) + (i + 1)
      <4>1. \A x, y \in Nat : (x + 1) + y = x + (y + 1)
        OBVIOUS
      <4>2. Len(client.got) \in Nat /\ Len(client'.got) = Len(client.got) + 1 /\ i \in Nat
        BY <1>9
      <4> QED BY <4>1, <4>2
    <3> QED BY <1>4, <2>4, <3>1
  <2>8. Placed(i)'
    <3>1. BytesOf(flight[i])' = BytesOf(g) /\ (flight[i])' = flight'[i]
      BY <1>7 DEF BytesOf
    <3>2. Reply(flight'[i].type, Fields(flight'[i].type, flight'[i].val, flight'[i].rev)) =
            Reply(g.type, Fields(g.type, g.val, g.rev))
      BY <1>7
    <3> QED BY <2>5, <2>6, <2>7, <3>1, <3>2 DEF Placed
  <2>9. Tellable(i)'
    <3>1. i - 1 \in 0..(n - 1) /\ (i - 1) + 1 = i
      BY <1>2
    <3>2. NextAfter(i - 1)' = NextAfter(i) /\ RevisionAfter(i - 1)' = RevisionAfter(i)
      BY <1>12, <3>1
    <3>3. /\ g.to \in 1..handled /\ g.to = NextAfter(i)
          /\ Readable(g.type, g.val, g.rev, g.compress, asked[g.to], RevisionAfter(i))
      BY <2>1 DEF Tellable
    <3> QED BY <1>4, <1>7, <3>2, <3>3 DEF Tellable
  <2> QED BY <2>8, <2>9
<1>14. InStream'
  BY <1>8, <1>13 DEF InStream
<1>15. Ascending'
  <2> SUFFICES ASSUME NEW i \in 1..(n - 1), NEW j \in 1..(n - 1), i < j
               PROVE  flight'[i].upto < flight'[j].upto
    BY <1>8 DEF Ascending
  <2>1. flight[i + 1].upto < flight[j + 1].upto
    BY <1>0, <1>2, <1>6 DEF ReplyInv, Ascending
  <2>2. flight[i + 1].upto \in Nat /\ flight[j + 1].upto \in Nat
    BY <1>6 DEF Frames
  <2> QED BY <1>3, <1>7, <2>1, <2>2
<1>16. AtTheEnd'
  <2>1. n - 1 \in 0..(n - 1) /\ (n - 1) + 1 = n /\ n \in 1..n
    BY <1>2
  <2>2. NextAfter(n - 1)' = NextAfter(n) /\ RevisionAfter(n - 1)' = RevisionAfter(n)
    BY <1>12, <2>1
  <2>3. Begins(n)' = Begins(n + 1) - u
    BY <1>11, <2>1
  <2>4. /\ Begins(n + 1) = Len(bytes) /\ RevisionAfter(n) = revision
        /\ NextAfter(n) = IF pc = "executing" THEN handled ELSE handled + 1
    BY <1>0 DEF ReplyInv, AtTheEnd
  <2>5. Begins(Len(flight) + 1)' = Len(bytes)'
    <3>1. Len(flight') + 1 = n
      BY <1>8, <2>1
    <3>2. Begins(Len(flight) + 1)' = Begins(n)'
      BY <3>1 DEF Begins
    <3> QED BY <1>5, <2>3, <2>4, <3>2
  <2>6. NextAfter(Len(flight))' = NextAfter(n - 1)' /\ RevisionAfter(Len(flight))' = RevisionAfter(n - 1)'
    BY <1>8 DEF NextAfter, RevisionAfter
  <2> QED BY <1>4, <2>2, <2>4, <2>5, <2>6 DEF AtTheEnd
<1>17. ReadSoFar'
  <2>1. Len(written) = Len(client.got) + n /\ \A i \in 1..Len(client.got) : client.got[i] = written[i]
    BY <1>0 DEF ReplyInv, ReadSoFar
  <2>2. Len(written') = Len(client'.got) + Len(flight')
    <3>1. \A x \in Nat : x + n = (x + 1) + (n - 1)
      BY <1>2
    <3>2. Len(client.got) \in Nat /\ Len(client'.got) = Len(client.got) + 1 /\ Len(flight') = n - 1 /\ written' = written
      BY <1>4, <1>8, <1>9
    <3> QED BY <2>1, <3>1, <3>2
  <2>3. ASSUME NEW i \in 1..Len(client'.got) PROVE client'.got[i] = written'[i]
    <3>1. i \in 1..Len(client.got) \/ i = Len(client.got) + 1
      <4>1. \A x \in Nat : \A j \in 1..(x + 1) : j \in 1..x \/ j = x + 1
        OBVIOUS
      <4> QED BY <1>9, <4>1
    <3>2. CASE i \in 1..Len(client.got)
      BY <1>4, <1>9, <2>1, <3>2
    <3>3. CASE i = Len(client.got) + 1
      BY <1>3, <1>4, <1>9, <3>3
    <3> QED BY <3>1, <3>2, <3>3
  <2> QED BY <2>2, <2>3 DEF ReadSoFar
<1>18. TypeOK'
  <2>1. client'.next <= handled + 1
    <3>1. NextAfter(1) = IF Completes(f.type) THEN f.to + 1 ELSE f.to
      BY DEF NextAfter
    <3> QED BY <1>1, <1>3, <1>4, <3>1, SMTT(20)
  <2> QED BY <1>4, <2>1 DEF ReplyInv, TypeOK
<1>19. Executes'
  BY <1>4 DEF ReplyInv, Executes
<1> QED BY <1>10, <1>14, <1>15, <1>16, <1>17, <1>18, <1>19 DEF ReplyInv

-----------------------------------------------------------------------------
(* Every step. *)
LEMMA RepliesStep ==
  ASSUME SelfDelimiting, ReplyInv, [Next]_vars PROVE ReplyInv'
<1>1. ASSUME NEW r \in Request, Ask(r) PROVE ReplyInv'
  BY <1>1, AskStep
<1>2. CASE ApplyHello
  BY <1>2, HelloStep
<1>3. CASE ApplyPing
  BY <1>3, PingStep
<1>4. CASE ApplyQuery
  BY <1>4, QueryStep
<1>5. ASSUME NEW cols \in ResultBlocks, WriteBlock(cols) PROVE ReplyInv'
  <2>1. cols \in Said("data")
    BY DEF Said
  <2>2. pc' = IF "data" = "end" THEN "read" ELSE "executing"
    BY <1>5 DEF WriteBlock
  <2> QED BY <1>5, <2>1, <2>2, ExecutingStep DEF WriteBlock
<1>6. ASSUME NEW p \in Progresses, WriteProgress(p) PROVE ReplyInv'
  <2>1. p \in Said("progress")
    BY DEF Said
  <2>2. pc' = IF "progress" = "end" THEN "read" ELSE "executing"
    BY <1>6 DEF WriteProgress
  <2> QED BY <1>6, <2>1, <2>2, ExecutingStep DEF WriteProgress
<1>7. CASE WriteEndOfStream
  <2>1. <<>> \in Said("end")
    BY DEF Said
  <2>2. pc' = IF "end" = "end" THEN "read" ELSE "executing"
    BY <1>7 DEF WriteEndOfStream
  <2> QED BY <1>7, <2>1, <2>2, ExecutingStep DEF WriteEndOfStream
<1>8. ASSUME NEW e \in Errors, WriteError(e) PROVE ReplyInv'
  BY <1>8, ErrorStep
<1>9. CASE ClientRead
  BY <1>9, ReadStep
<1>10. CASE UNCHANGED vars
  <2>1. /\ \A i : Begins(i)' = Begins(i) /\ NextAfter(i)' = NextAfter(i) /\ RevisionAfter(i)' = RevisionAfter(i)
        /\ \A i : Placed(i) => Placed(i)'
    BY <1>10 DEF vars, Begins, NextAfter, RevisionAfter, Placed
  <2>2. \A i : Tellable(i) => Tellable(i)'
    BY <1>10, <2>1 DEF vars, Tellable
  <2>3. InStream' /\ Ascending'
    BY <1>10, <2>1, <2>2 DEF vars, ReplyInv, InStream, Ascending
  <2>4. TypeOK' /\ ReplyTypeOK' /\ Executes' /\ ReadSoFar'
    BY <1>10 DEF vars, ReplyInv, TypeOK, ReplyTypeOK, Executes, ReadSoFar
  <2>5. AtTheEnd'
    BY <1>10, <2>1 DEF vars, ReplyInv, AtTheEnd
  <2> QED BY <2>3, <2>4, <2>5 DEF ReplyInv
<1> QED BY <1>1, <1>2, <1>3, <1>4, <1>5, <1>6, <1>7, <1>8, <1>9, <1>10 DEF Next

(* ReplyInv holds in every reachable state, for every codec whose replies are *)
(* read back whatever follows them, and any number of requests and replies.   *)
THEOREM ReplyInvariance ==
  ASSUME SelfDelimiting PROVE Spec => []ReplyInv
<1>1. ReplyInv /\ [Next]_vars => ReplyInv'
  BY RepliesStep
<1> QED BY <1>1, InitReplies, PTL DEF Spec

(* The revision in use is never above the server's own, and requests are      *)
(* taken, answered and their answers read in order.                           *)
THEOREM RepliesTypeCorrect ==
  ASSUME SelfDelimiting PROVE Spec => []TypeOK
<1>1. ReplyInv => TypeOK
  BY DEF ReplyInv
<1> QED BY <1>1, ReplyInvariance, PTL

(* The client finds in the stream exactly the replies that were written: the  *)
(* revision and the compression it knows of when it gets to a reply are the   *)
(* ones the server wrote it with, however far the client has asked ahead.     *)
THEOREM RepliesAreFound ==
  ASSUME SelfDelimiting PROVE Spec => []RepliesDecode
<1>1. ReplyInv => RepliesDecode
  <2> SUFFICES ASSUME ReplyInv PROVE RepliesDecode
    OBVIOUS
  <2>1. /\ client.got \in Seq(AnyReply) /\ written \in Seq(AnyReply) /\ flight \in Seq(Frames)
        /\ Len(written) = Len(client.got) + Len(flight)
        /\ \A i \in 1..Len(client.got) : client.got[i] = written[i]
    BY DEF ReplyInv, ReplyTypeOK, ReadSoFar
  <2>2. IsPrefix(client.got, written)
    <3>1. Len(client.got) <= Len(written)
      BY <2>1
    <3> QED BY <2>1, <3>1, PrefixElements
  <2>3. ASSUME bytes = <<>> PROVE client.got = written
    <3>1. flight = <<>>
      BY <2>3, NothingInFlight
    <3>2. Len(flight) = 0 /\ Len(client.got) \in Nat
      BY <2>1, <3>1
    <3>3. Len(written) = Len(client.got)
      BY <2>1, <3>2
    <3> QED BY <2>1, <3>3, SeqEqual
  <2>4. ASSUME bytes # <<>>
        PROVE  LET r == Unread(bytes) IN
                 /\ r.st = "ok" /\ r.val.reply = written[Len(client.got) + 1]
                 /\ \A k \in 0..(r.pos - 1) : Unread(SubSeq(bytes, 1, k)).st = "block"
    <3>1. flight # <<>>
      BY <2>4, NothingInFlight
    <3> DEFINE f == flight[1]
    <3>2. /\ Unread(bytes) = [st |-> "ok",
                              val |-> [reply |-> Reply(f.type, Fields(f.type, f.val, f.rev)),
                                       rev |-> f.rev, done |-> Completes(f.type)],
                              pos |-> f.upto]
          /\ \A k \in 0..(f.upto - 1) : Unread(SubSeq(bytes, 1, k)).st = "block"
      BY <3>1, UnreadIs
    <3>3. written[Len(client.got) + 1] = Reply(f.type, Fields(f.type, f.val, f.rev))
      BY <3>1, FirstReply
    <3> HIDE DEF Reply
    <3>4. /\ Unread(bytes).st = "ok" /\ Unread(bytes).pos = f.upto
          /\ Unread(bytes).val.reply = Reply(f.type, Fields(f.type, f.val, f.rev))
      BY <3>2
    <3> QED BY <3>2, <3>3, <3>4
  <2> QED BY <2>2, <2>3, <2>4 DEF RepliesDecode
<1> QED BY <1>1, ReplyInvariance, PTL
=============================================================================
