----------------------------- MODULE ReplyWire ------------------------------
(***************************************************************************)
(* What the server writes, byte by byte: protocol_hello.rs, Progress,      *)
(* protocol_exception.rs and send_server_data; and how a client finds the  *)
(* fields again.  The fields of a Hello and of a Progress depend on a      *)
(* revision, the form of a block on a compression, and nothing in the      *)
(* bytes says which.                                                       *)
(***************************************************************************)
EXTENDS Wire

SERVER_HELLO == 0
SERVER_DATA == 1
SERVER_EXCEPTION == 2
SERVER_PROGRESS == 3
SERVER_PONG == 4
SERVER_END_OF_STREAM == 5

UNKNOWN_EXCEPTION == 9      \* 1002

-----------------------------------------------------------------------------
(* The encoders *)

\* The name, the version and the protocol version, and the fields that need
\* their revision: time zone, display name, patch version
HelloKinds(rev) ==
  <<"str", "var", "var", "var">>
    \o (IF rev >= SERVER_TIMEZONE THEN <<"str">> ELSE <<>>)
    \o (IF rev >= SERVER_DISPLAY_NAME THEN <<"str">> ELSE <<>>)
    \o (IF rev >= VERSION_PATCH THEN <<"var">> ELSE <<>>)

\* What a session of revision `ours` says of itself
HelloReply(ours, rev) ==
  SubSeq(<< <<1>>, 1, 2, ours, <<2>>, <<3, 1>>, 2>>, 1, Len(HelloKinds(rev)))

\* HelloResponse::encode
PutHello(ours, rev) == PutFields(HelloKinds(rev), HelloReply(ours, rev))

\* rows, bytes and total rows, and two zeros that need their revision
ProgressKinds(rev) ==
  <<"var", "var", "var">> \o (IF rev >= CLIENT_WRITE_INFO THEN <<"var", "var">> ELSE <<>>)

ProgressFields(p, rev) == p \o (IF rev >= CLIENT_WRITE_INFO THEN <<0, 0>> ELSE <<>>)

\* Progress::write
PutProgress(p, rev) == PutFields(ProgressKinds(rev), ProgressFields(p, rev))

\* connection.with_stack_trace, which nothing sets
WithStackTrace == FALSE

\* The code, name, message and stack trace of an error, and "not nested"
ExceptionFields(e) ==
  IF e.type = "server"
  THEN <<e.code, e.name, e.message, IF WithStackTrace THEN e.stack_trace ELSE <<>>, 0>>
  ELSE <<UNKNOWN_EXCEPTION, e.name, e.message, <<>>, 0>>

ExceptionKinds == <<"u8", "str", "str", "str", "u8">>

\* ExceptionResponse::write
PutException(e) == PutFields(ExceptionKinds, ExceptionFields(e))

\* send_server_data of a block that is one chunk
PutServerData(cols, compressed) == PutString(<<>>) \o PutData(cols, compressed, 0)

\* The bytes of a reply: its packet type and what its writer appends
PutReply(type, val, rev, compressed) ==
  CASE type = "hello" -> PutUvarint(SERVER_HELLO) \o PutHello(val, rev)
    [] type = "pong" -> PutUvarint(SERVER_PONG)
    [] type = "data" -> PutUvarint(SERVER_DATA) \o PutServerData(val, compressed)
    [] type = "progress" -> PutUvarint(SERVER_PROGRESS) \o PutProgress(val, rev)
    [] type = "end" -> PutUvarint(SERVER_END_OF_STREAM)
    [] type = "exception" -> PutUvarint(SERVER_EXCEPTION) \o PutException(val)

\* The fields that the reader is to find in them
FieldsOf(type, val, rev) ==
  CASE type = "hello" -> HelloReply(val, rev)
    [] type = "progress" -> ProgressFields(val, rev)
    [] type = "exception" -> ExceptionFields(val)
    [] OTHER -> val

-----------------------------------------------------------------------------
(* The client's side (external).  It knows the request that is answered and  *)
(* the revision that was agreed on; done says that the answer is complete.   *)

Found(type, fields, rev, done) ==
  [reply |-> [type |-> type, fields |-> fields], rev |-> rev, done |-> done]

\* The Hello reply to a client of revision `stated`: the protocol version in
\* it decides, with its own, which fields follow.
ReadHelloReply(buf, pos, stated) ==
  Then(ReadFields(HelloKinds(0), buf, pos), LAMBDA h :
    LET rev == IF h.val[4] < stated THEN h.val[4] ELSE stated
        kinds == HelloKinds(rev)
    IN  Then(ReadFields(SubSeq(kinds, 5, Len(kinds)), buf, h.pos), LAMBDA r :
          Ok(Found("hello", h.val \o r.val, rev, TRUE), r.pos)))

ReadReply(buf, r, rev) ==
  Then(ReadUvarint(buf, 0), LAMBDA t :
    CASE t.val = SERVER_HELLO /\ r.type = "hello" -> ReadHelloReply(buf, t.pos, r.revision)
      [] t.val = SERVER_PONG /\ r.type = "ping" -> Ok(Found("pong", <<>>, rev, TRUE), t.pos)
      [] t.val = SERVER_DATA /\ r.type = "query" ->
           Then(ReadData(buf, t.pos, r.compress), LAMBDA d :
             Ok(Found("data", d.val.val, rev, FALSE), d.pos))
      [] t.val = SERVER_PROGRESS /\ r.type = "query" ->
           Then(ReadFields(ProgressKinds(rev), buf, t.pos), LAMBDA p :
             Ok(Found("progress", p.val, rev, FALSE), p.pos))
      [] t.val = SERVER_END_OF_STREAM /\ r.type = "query" -> Ok(Found("end", <<>>, rev, TRUE), t.pos)
      [] t.val = SERVER_EXCEPTION ->
           Then(ReadFields(ExceptionKinds, buf, t.pos), LAMBDA e :
             Ok(Found("exception", e.val, rev, TRUE), e.pos))
      [] OTHER -> Fault("err"))
=============================================================================
