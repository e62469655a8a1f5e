------------------------------- MODULE Replies ------------------------------
(***************************************************************************)
(* The replies of the server (apply and the write_* of connection.rs) and  *)
(* a client that has to find them in the stream of bytes again.            *)
(*                                                                         *)
(* Nothing in the stream says how it is to be read: which fields a Hello   *)
(* and a Progress have depends on the revision of the last Hello the       *)
(* server has handled, and whether blocks are compressed on the last       *)
(* Query.  The client may have sent other ones since.  Requests are whole  *)
(* and handled in order, as Framing and ChServer show.                     *)
(*                                                                         *)
(* The codec is a parameter: module ReplyWire has the one of the program.  *)
(***************************************************************************)
EXTENDS Integers, Sequences, SequencesExt, FiniteSetsExt

CONSTANTS
  Revisions,       \* the revisions a client may state in its Hello
  ServerRevisions, \* dbms_tcp_protocol_version of the session, one of these
  ResultBlocks,    \* blocks that the session writes
  Progresses,      \* what get_progress returns: <<rows, bytes, total_rows>>
  Errors,          \* the errors of read_packet
  MaxRequests,     \* bound: requests of the client
  MaxWritten,      \* bound: replies to a query before its end
  Put(_, _, _, _), \* the bytes of a reply: type, value, revision, compression
  Fields(_, _, _), \* the fields that are to be found in them
  Read(_, _, _)    \* the client: of bytes, the request they answer, a revision

Request ==
  [type : {"hello"}, revision : Revisions] \cup [type : {"query"}, compress : BOOLEAN]
    \cup [type : {"ping", "bad"}]

ReplyTypes == {"hello", "pong", "data", "progress", "end", "exception"}

\* What a reply of a type may say
Said(t) ==
  CASE t = "hello" -> ServerRevisions
    [] t = "data" -> ResultBlocks
    [] t = "progress" -> Progresses
    [] t = "exception" -> Errors
    [] OTHER -> {<<>>}

\* The replies that answer a request, and the ones that complete an answer
Answers(t, r) ==
  CASE r.type = "hello" -> t = "hello"
    [] r.type = "ping" -> t = "pong"
    [] r.type = "query" -> t \in {"data", "progress", "end"}
    [] r.type = "bad" -> t = "exception"

Completes(t) == t \notin {"data", "progress"}

Lower(a, b) == IF a < b THEN a ELSE b

UsedRevisions == {0} \cup Revisions \cup ServerRevisions

\* A client that waits for an answer to r and has agreed on revision `known`
\* can tell how a reply was written.
Readable(t, val, rev, c, r, known) ==
  /\ Answers(t, r)
  /\ rev = IF t = "hello" THEN Lower(val, r.revision) ELSE known
  /\ t = "data" => c = r.compress

\* The codec on its own: a reply has at least one byte, and to a client that
\* can tell how it was written nothing short of all its bytes is a reply.
ASSUME ReplyCodecAssumption ==
  /\ MaxRequests \in Nat /\ MaxWritten \in Nat
  /\ Revisions \subseteq Nat /\ ServerRevisions \subseteq Nat
  /\ \A t \in ReplyTypes, rev \in UsedRevisions, c \in BOOLEAN : \A val \in Said(t) :
       /\ Put(t, val, rev, c) \in Seq(Nat) /\ Put(t, val, rev, c) # <<>>
       /\ \A r \in Request, known \in UsedRevisions :
            Readable(t, val, rev, c, r, known) =>
              \A n \in 0..(Len(Put(t, val, rev, c)) - 1) :
                Read(SubSeq(Put(t, val, rev, c), 1, n), r, known).st = "block"

Reply(t, fields) == [type |-> t, fields |-> fields]

\* A reply is read back whatever follows it in the stream.
ReadsBack(rest) ==
  \A t \in ReplyTypes, rev \in UsedRevisions, c \in BOOLEAN : \A val \in Said(t) :
    \A r \in Request, known \in UsedRevisions :
      Readable(t, val, rev, c, r, known) =>
        Read(Put(t, val, rev, c) \o rest, r, known) =
          [st |-> "ok",
           val |-> [reply |-> Reply(t, Fields(t, val, rev)), rev |-> rev, done |-> Completes(t)],
           pos |-> Len(Put(t, val, rev, c))]

SelfDelimiting == \A rest \in Seq(Nat) : ReadsBack(rest)

VARIABLES
  ours,       \* session.dbms_tcp_protocol_version()
  asked,      \* the requests of the client
  handled,    \* how many of them the server has taken
  pc,         \* "read", inside execute_query, or ended
  revision,   \* ctx.client_revision
  compress,   \* connection.compress
  bytes,      \* written to the socket and not read by the client
  written,    \* history: the replies the server wrote
  client,     \* the replies the client has read, the request it waits for an
              \* answer to, and the revision it has agreed on
  flight      \* history: how the replies in bytes were written, and where they
              \* end

vars == <<ours, asked, handled, pc, revision, compress, bytes, written, client, flight>>

Init ==
  /\ ours \in ServerRevisions
  /\ asked = <<>> /\ handled = 0 /\ pc = "read" /\ revision = 0 /\ compress = TRUE
  /\ bytes = <<>> /\ written = <<>> /\ flight = <<>>
  /\ client = [got |-> <<>>, next |-> 1, revision |-> 0]

-----------------------------------------------------------------------------
(* The client (external): it may send ahead, state other revisions and ask   *)
(* for other compressions, and break the protocol ("bad").                   *)

Ask(r) ==
  /\ Len(asked) < MaxRequests /\ pc # "ended"
  /\ r.type = "query" => \E i \in DOMAIN asked : asked[i].type = "hello"
  /\ asked' = Append(asked, r)
  /\ UNCHANGED <<ours, handled, pc, revision, compress, bytes, written, client, flight>>

-----------------------------------------------------------------------------
(* The server *)

Taken(t) == pc = "read" /\ handled < Len(asked) /\ asked[handled + 1].type = t

\* A reply to request number `to`
Write(t, val, rev, to) ==
  /\ bytes' = bytes \o Put(t, val, rev, compress)
  /\ written' = Append(written, Reply(t, Fields(t, val, rev)))
  /\ flight' = Append(flight, [type |-> t, val |-> val, rev |-> rev, compress |-> compress, to |-> to,
                               upto |-> Len(bytes) + Len(Put(t, val, rev, compress))])

AsStated(stated) == stated

\* ctx.client_revision: the lower of the two
Negotiated(stated) == Lower(ours, stated)

\* apply of a Hello
ApplyHello ==
  /\ Taken("hello")
  /\ revision' = Negotiated(asked[handled + 1].revision)
  /\ Write("hello", ours, revision', handled + 1)
  /\ handled' = handled + 1
  /\ UNCHANGED <<ours, asked, pc, compress, client>>

ApplyPing ==
  /\ Taken("ping")
  /\ Write("pong", <<>>, revision, handled + 1)
  /\ handled' = handled + 1
  /\ UNCHANGED <<ours, asked, pc, revision, compress, client>>

\* parse_packet of a Query sets compress, and apply calls execute_query.
ApplyQuery ==
  /\ Taken("query")
  /\ compress' = asked[handled + 1].compress
  /\ handled' = handled + 1
  /\ pc' = "executing"
  /\ UNCHANGED <<ours, asked, revision, bytes, written, client, flight>>

\* The replies to the query so far
Since ==
  Len(written) - Max({0} \cup {i \in DOMAIN written : Completes(written[i].type)})

\* write_block and write_progress, called by the session
WriteBlock(cols) ==
  /\ pc = "executing" /\ Since < MaxWritten
  /\ Write("data", cols, revision, handled)
  /\ UNCHANGED <<ours, asked, handled, pc, revision, compress, client>>

\* Gated by the server's revision instead of the client's
WriteProgressOurs(p) ==
  /\ pc = "executing" /\ Since < MaxWritten
  /\ Write("progress", p, ours, handled)
  /\ UNCHANGED <<ours, asked, handled, pc, revision, compress, client>>

WriteProgress(p) ==
  /\ pc = "executing" /\ Since < MaxWritten
  /\ Write("progress", p, revision, handled)
  /\ UNCHANGED <<ours, asked, handled, pc, revision, compress, client>>

\* write_end_of_stream
WriteEndOfStream ==
  /\ pc = "executing"
  /\ Write("end", <<>>, revision, handled)
  /\ pc' = "read"
  /\ UNCHANGED <<ours, asked, handled, revision, compress, client>>

\* write_error, after which run returns
WriteError(e) ==
  /\ Taken("bad")
  /\ Write("exception", e, revision, handled + 1)
  /\ handled' = handled + 1
  /\ pc' = "ended"
  /\ UNCHANGED <<ours, asked, revision, compress, client>>

-----------------------------------------------------------------------------
(* The client's side (external): it takes the reply at the front of the      *)
(* stream, knowing only what it has asked for and what it has read.          *)

Unread(buf) == Read(buf, asked[client.next], client.revision)

ClientRead ==
  /\ bytes # <<>>
  /\ LET r == Unread(bytes) IN
       /\ r.st = "ok"
       /\ client' = [got |-> Append(client.got, r.val.reply),
                     next |-> IF r.val.done THEN client.next + 1 ELSE client.next,
                     revision |-> r.val.rev]
       /\ bytes' = SubSeq(bytes, r.pos + 1, Len(bytes))
       /\ flight' = [i \in 1..(Len(flight) - 1) |->
                       [flight[i + 1] EXCEPT !.upto = flight[i + 1].upto - r.pos]]
  /\ UNCHANGED <<ours, asked, handled, pc, revision, compress, written>>

-----------------------------------------------------------------------------
\* Nothing is left to be handled: the server waits in read_packet or has ended.
Done == bytes = <<>> /\ (pc = "ended" \/ (pc = "read" /\ handled = MaxRequests))

Next ==
  \/ \E r \in Request : Ask(r)
  \/ ApplyHello \/ ApplyPing \/ ApplyQuery
  \/ \E cols \in ResultBlocks : WriteBlock(cols)
  \/ \E p \in Progresses : WriteProgress(p)
  \/ WriteEndOfStream
  \/ \E e \in Errors : WriteError(e)
  \/ ClientRead
  \/ Done /\ UNCHANGED vars

Spec == Init /\ [][Next]_vars

-----------------------------------------------------------------------------
(* The client finds in the stream the replies that the server wrote, field   *)
(* by field, whatever the two revisions are, however often the client states *)
(* another one or switches compression, and however far it has asked ahead.  *)
(* A reply that has arrived in part never reads as a whole or a broken one.  *)
RepliesDecode ==
  /\ IsPrefix(client.got, written)
  /\ bytes = <<>> => client.got = written
  /\ bytes # <<>> =>
       LET r == Unread(bytes) IN
         /\ r.st = "ok" /\ r.val.reply = written[Len(client.got) + 1]
         /\ \A n \in 0..(r.pos - 1) : Unread(SubSeq(bytes, 1, n)).st = "block"

(* The revision in use is never above the server's own, every request that   *)
(* has been taken is answered or being answered, and the client has not read *)
(* an answer to a request that has not been taken.                           *)
TypeOK ==
  /\ asked \in Seq(Request) /\ handled \in 0..Len(asked)
  /\ pc \in {"read", "executing", "ended"}
  /\ revision <= ours /\ compress \in BOOLEAN
  /\ handled <= Len(written) + (IF pc = "executing" THEN 1 ELSE 0)
  /\ client.next <= handled + 1

-----------------------------------------------------------------------------
(* The inductive invariant: every reply in the stream can be told by the      *)
(* client when it gets there.                                                 *)

\* Where a reply in flight begins
Begins(i) == IF i = 1 THEN 0 ELSE flight[i - 1].upto

\* The request that the client waits for an answer to, and the revision it has
\* agreed on, once it has read i of the replies in flight
NextAfter(i) ==
  IF i = 0 THEN client.next
  ELSE IF Completes(flight[i].type) THEN flight[i].to + 1 ELSE flight[i].to

RevisionAfter(i) == IF i = 0 THEN client.revision ELSE flight[i].rev

BytesOf(f) == Put(f.type, f.val, f.rev, f.compress)

\* A reply in flight is at its place in the stream ...
Placed(i) ==
  LET f == flight[i] IN
    /\ f.upto = Begins(i) + Len(BytesOf(f)) /\ f.upto <= Len(bytes)
    /\ \A k \in 1..Len(BytesOf(f)) : bytes[Begins(i) + k] = BytesOf(f)[k]
    /\ written[Len(client.got) + i] = Reply(f.type, Fields(f.type, f.val, f.rev))

\* ... and the client will know how it was written.
Tellable(i) ==
  LET f == flight[i] IN
    /\ f.to \in 1..handled /\ f.to = NextAfter(i - 1)
    /\ Readable(f.type, f.val, f.rev, f.compress, asked[f.to], RevisionAfter(i - 1))

\* The end of the stream is where the server is.
AtTheEnd ==
  /\ Begins(Len(flight) + 1) = Len(bytes)
  /\ RevisionAfter(Len(flight)) = revision
  /\ NextAfter(Len(flight)) = IF pc = "executing" THEN handled ELSE handled + 1

Executes ==
  pc = "executing" =>
    handled > 0 /\ asked[handled].type = "query" /\ compress = asked[handled].compress

ReadSoFar ==
  /\ Len(written) = Len(client.got) + Len(flight)
  /\ \A i \in 1..Len(client.got) : client.got[i] = written[i]

\* Types of what TypeOK leaves open
AnyValue == UNION {Said(t) : t \in ReplyTypes}

AnyReply == {Reply(t, Fields(t, val, rev)) : t \in ReplyTypes, val \in AnyValue, rev \in UsedRevisions}

Frames ==
  {f \in [type : ReplyTypes, val : AnyValue, rev : UsedRevisions, compress : BOOLEAN, to : Nat,
          upto : Nat] : f.val \in Said(f.type)}

ReplyTypeOK ==
  /\ ours \in ServerRevisions /\ revision \in UsedRevisions
  /\ bytes \in Seq(Nat) /\ written \in Seq(AnyReply) /\ flight \in Seq(Frames)
  /\ client \in [got : Seq(AnyReply), next : Nat, revision : UsedRevisions]

Ascending == \A i, j \in 1..Len(flight) : i < j => flight[i].upto < flight[j].upto

InStream == \A i \in 1..Len(flight) : Placed(i) /\ Tellable(i)

ReplyInv ==
  TypeOK /\ ReplyTypeOK /\ InStream /\ Ascending /\ AtTheEnd /\ Executes /\ ReadSoFar
=============================================================================
