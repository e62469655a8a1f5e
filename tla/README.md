# Verification of clickhouse-srv

TLA+ models of clickhouse-srv, a Rust library that speaks the server side of the
ClickHouse native protocol, with TLC runs on small instances and TLAPS proofs for
all instances. Paths below are relative to the repository.

## 1. Inventory

| Component | Source | State | Operations | Hard behaviour |
|---|---|---|---|---|
| Connection task | `src/lib.rs`, `src/cmd.rs` | `CHContext` (`hello`, `client_revision`), `QueryState` (`stage`, `out`, `sent_all_data`) | `run`, `Cmd::apply`, `reset` | suspended at every await; three ways out; state of one query read by the next |
| Query session | `examples/simple.rs` | a channel and a spawned task per INSERT | `execute_query`, the consumer task | two tasks joined by a bounded channel and a `Notify` |
| Framing | `src/connection.rs` | read buffer, `compress` | `read_packet`, `parse_packet`, `write_*` | packets cut at any byte; settings switched in mid-stream; end of stream |
| Packet codecs | `src/binary/`, `src/protocols/` | none | readers of Hello, Query, Data, varints; writers of Hello, Data, Progress, Exception | fields that depend on revisions; varint overflow |
| Block codec | `src/types/block/` | decompression cursor | `load`, `write`, compression, chunking, `concat`, `cast_to` | running out of bytes inside a compressed frame; chunk boundaries |
| String storage | `src/types/column/string_pool.rs`, `string.rs` | chunks, pointers, position | `allocate`, `get`, `push`, `load` | unchecked reads through raw pointers |
| Columns | `src/types/column/*.rs` | offsets, null maps, buffers | `push`, `at`, `save`, `load`, `cast_to`, slices, concatenation | slices of nested columns, binary search over empty chunks |
| Block builder | `src/types/block/builder.rs`, `row.rs`, `chunk_iterator.rs` | columns under construction | `put_param`, `ChunkIterator::next` | a row that fails half way |
| Column factory, iterators | `column/factory.rs`, `column/iter/mod.rs` | type cache | parsing type names, typed iteration | nested and quoted names; pointer arithmetic |
| Values, decimals, times, marshalling | `types/value*.rs`, `from_sql.rs`, `decimal.rs`, `date_converter.rs`, `marshal.rs`, ... | none | conversions | scaling, truncation, time zones |
| Client options | `types/options.rs` | none | URL parsing | none |

How they interact: `run` reads a packet through the framing, which calls the
codecs; `apply` changes `QueryState`, calls the session for a Query, and forwards
the blocks of an INSERT into the session's channel. The session's consumer takes
them and calls `notify_one` on the connection's `Notify` when the channel is
closed and empty; `apply` waits for that before it writes EndOfStream. Blocks that
arrive or leave are columns; String columns keep their bytes in a `StringPool`.

What makes each part correct:

* connection task and session: no panic on a closed channel, blocks delivered in
  order and stored before the client is told, every query answered, nobody waits
  for ever, nothing after an exception;
* framing and codecs: packets come back as written however they are cut, a prefix
  is never an error, nothing is left in the buffer, the end is reported correctly;
  a client finds the replies in the stream whatever revision and compression it
  asked for, and when;
* varints: the value that the bytes denote, or an error;
* string storage: what is put in is what is read, and no read leaves its memory;
* type names: what is printed reads as the type it was printed from;
* columns and blocks: a block holds what was put into it and nothing else, clones
  are independent, what is written (whole or in chunks) loads as the same rows,
  iterators and `get` agree, `==` compares cells by value, a concatenation is the rows of its parts, a cast loses
  only what the new type cannot hold.

`PROJECT.json` lists every component and, under `hazards`, what is hard to test
and which property watches it.

## 2. Modules

| Module | Models | Notes |
|---|---|---|
| `ChServer` | `run`, `apply`, the session, its consumers, the wire | shared by the two clients below |
| `ServerSafety` | the steps of `ChServer` without regard to who the client is, and what they keep | extended by both clients |
| `ServerSafetyProofs` | | TLAPS lemmas on those steps, used for both clients |
| `AnyClient` | `ChServer` with a client that sends anything | what holds whatever is sent |
| `AnyClientProofs` | | TLAPS proofs for `AnyClient` |
| `ProtocolClient` | `ChServer` with a client that follows the protocol | what such a client may rely on |
| `ProtocolClientProofs` | | TLAPS proofs for `ProtocolClient`, and of the refinement of `QueryService` |
| `CancelClient` | `ProtocolClient` with a client that may cancel an INSERT | for the finding below |
| `QueryService` | abstract specification: one query at a time, stored before complete | implemented by `ProtocolClient` |
| `Uvarint` | `read_uvarint` and `put_uvarint` as functions on byte sequences | used by `Varint` and `Wire` |
| `Varint` | varints that arrive byte by byte, against arithmetic | `MCVarint` gives it the bitwise `or` |
| `VarintProofs` | | TLAPS proofs for `Varint` |
| `Wire` | the other decoders and encoders of client packets, likewise | recursive, TLC only |
| `Framing` | `read_packet` / `parse_packet`, for any codec | `MCFraming` gives it the one of `Wire` |
| `FramingProofs` | | TLAPS proofs for `Framing` |
| `ReplyWire` | the encoders of replies, and a client's readers, over `Wire` | recursive, TLC only |
| `Replies` | the `write_*` of `connection.rs` with a client that reads the stream, for any codec | `MCReplies` gives it the one of `ReplyWire` |
| `RepliesProofs` | | TLAPS proofs for `Replies` |
| `StringPool` | the string storage | |
| `StringPoolProofs` | | TLAPS proofs for `StringPool` |
| `Scalars` | integers of a fixed width, decimal scaling, ticks and times | used by `SqlTypes` and `Columns` |
| `SqlTypes` | `SqlType`, `to_string` and the parsers of `factory.rs` | recursive, TLC only |
| `ChunkSearch` | the loop of `find_chunk` | used by `Columns` |
| `Columns` | `push`, `at`, `save`, `load`, slices, casts, concatenation, equality as functions on columns | recursive, TLC only |
| `Transfer` | blocks filled, chunked, sent and read, over `Columns` | |
| `ColumnIter` | concatenation and the pointer-based iterators, against `at` of `Columns` | |
| `Blocks` | rows pushed into blocks whose columns are shared `Arc`s, for any class of column | `MCBlocks` gives it those of `Columns` |
| `ColumnProofs` | | TLAPS proofs for `ChunkSearch` and `Blocks` |
| `MC*` | instances for TLC | constants; facts about them that TLC evaluates |

Operators such as `ResetKeepsOut` or `DropBuffer`, each defined right before the
definition it resembles, are plausible mistakes; `PROJECT.json` (`mutants`) says
which property finds which. They are used by no action.

### ChServer

`pc` names the await the connection task is suspended at, and one action takes it
from there to the next await; between two awaits nothing else of this connection
can run in the task, so this is the grain of interleaving that exists. The
consumers are tasks of their own (`NextBlock`, `Finish`). Correspondence:

| Variable | Code |
|---|---|
| `hello` | `ctx.hello.is_some()` |
| `stage`, `out`, `query` | `ctx.state.stage`, `.out`, `.query`; `out` is the id of the INSERT whose channel the sender feeds, since a sender is dropped when it is replaced |
| `pending`, `written` | the block in `out.send(block)`; the progress of the SELECT loop |
| `chan`, `consumer`, `got` | per INSERT: channel contents, the spawned task, the blocks it has taken |
| `permit` | the permit a `Notify` stores (one at most: `notify_one` twice coalesces) |
| `inbox`, `peer`, `sent` | packets in flight, the client's end of the socket, everything written |
| `issued`, `target`, `uploaded` | history, used by guards of the client and by properties only |

Socket faults: the client may close between frames, inside one, or the connection
may be reset; a write to a socket that is not open may succeed or fail (the peer
may have closed only its half), a write to a reset one fails. A parse error and a Query before
Hello are `ReadErr`. `execute_query` may fail before any block (`SessionErr`).
Left out: contents of queries and blocks beyond identity, log output, wording of
errors.

A block's identity is taken from a small set, so the same block may be sent twice;
order and multiplicity are still visible in `uploaded` and `got`.

### Uvarint, Wire and Framing

Decoders return `ok` with a value and a position, `block` (WouldBlock), `err` or
`panic`. Bytes are scaled: a varint byte carries `DigitBits` bits (7) and a word
`WordBits` (64) in the same proportion, `WordBits = DigitBits * LastIndex + 1`.
The loops of `read_uvarint` and `put_uvarint` are written by what their passes add up
to: `PassesOn` is the number of passes over bytes with a continuation bit, `Gathered`
the `x` they leave, `LastPass` the pass that returns; `Passes` and `Mx` are the same for
`put_uvarint`. A build without overflow checks (`Release`) masks the shift, one with them
panics. A fixed-width scalar, and the value of a cell, is one symbol. Revisions are ranks
in the order of the constants they stand for. LZ4 and CityHash are external: an
invertible code and a checksum. UTF-8 validation is left out. The decoded Query is
what `QueryRequest` keeps: settings are read and dropped, missing client info is
taken from the Hello, the interface is always TCP.

`Framing` lets the client write ahead, close, or stop inside a packet, and lets
`read_buf` return any non-empty part of what has arrived. Its codec is a parameter:
`Parse` is `Parser::parse_packet`, `Encode` what a client writes, `Understood` what
the server is to make of it. `CodecAssumption` says what is asked of one packet on its
own (at least one byte; every proper prefix is WouldBlock), `ReadsBack(rest)` that a
packet is read back when `rest` follows it. The run binds the parameters to `Wire`, so
TLC evaluates `CodecAssumption`, and `ReadsBack` for the rests of `MCFraming`, on the
codec of the program. `flight` is history: the packets that were written and not yet
returned, with their bytes and where these end.

### Replies

The other direction. The codec is a parameter here, too: `Put` is what the `write_*`
append, `Fields` what the client should find in it, `Read` the client's reader. In
`ReplyCodecAssumption` a reply has at least one byte and, to a client that can tell how
it was written (`Readable`), every proper prefix is WouldBlock; `ReadsBack(rest)` says
that the reply is read back when `rest` follows. TLC evaluates both on `ReplyWire`, the
second for the rests of `MCReplies`. `bytes` is what the server has written and the client has not
read, `written` the replies as the server meant them, `client` what the client has
read and what it has agreed on; `flight` is history, the replies in `bytes` and where
they end. `revision` and `compress` are
`ctx.client_revision` and `connection.compress`, which the encoders read at the
moment they write, while the client may have asked for something else since. The
client (external) decides from its own requests and the replies so far how to read
the next one. A request is handled in one step up to the session, whose
`write_block` and `write_progress` come in any order; `ChServer` has the awaits
between them, `Framing` the way requests are cut. A malformed request (`bad`) makes
`run` write an exception and end. `connection.with_stack_trace` is a field that
nothing sets (the method of the session with that name is never asked), so an
exception never carries a stack trace.

### StringPool

A string is its number, and each of its bytes carries that number, so that an
overlap or a wrong pointer shows in what `get` returns. `allocate` and the copy
into the buffer it returns are one step, as the buffer borrows the pool.

### SqlTypes

A type is the sequence of its constructors, outermost first, and a name a sequence
of tokens: words, marks, numbers and the characters between quotes. `TypeName` is
`to_string`; `Constructor` is what `load_data` makes of a name, one constructor per
call, as the code recurses through `NullableColumnData::load` and
`ArrayColumnData::load`. Each `Parse*` is the parser of that name. Spaces, the case
of letters and all but one alias per type are left out, and so is the cache of
types (`From<SqlType> for &'static SqlType`), which returns the type it is given.

### Columns, Transfer, ColumnIter, Blocks

A column is the sequence of its layers:
`Array(Nullable(UInt8))` is a layer of offsets over a layer of flags over a layer of
bytes. `PushX`, `AtX`, `SaveX` and `LoadX` are the methods of the class of the layer
`X`. Addresses and UUIDs have two and four bytes instead of 4 and 16; one offset,
one string length, the name of a column and the info of a block are one symbol on
the wire each (`Varint` and `Wire` have their encodings). `Transfer` sends with
`send_client_data` and `send_server_data`, whose bodies are the same, and reads with
`parse_packet`. The type names on the wire are those of `SqlTypes` when this crate
writes (`SendData`), or those of another implementation (`PeerData`, external: aliases,
`Decimal32(s)`, escaped quotes, no time zone), and the reader goes by nothing else.

Decimals, dates and times store integers of a fixed width, which `Scalars` scales
down together with the powers of ten that must fit into them: a byte has 8 values,
an `i32` two bytes and one decimal digit (4 and 9 in the code), an `i64` four bytes
and three digits (8 and 18), a second 100 nanoseconds, a day three seconds.
Arithmetic wraps, as in a release build. An enum value is its number; the names are
part of the type. All values have one time zone, `TzOffset` seconds ahead of UTC. A
vector of `DateTime<Tz>` becomes a column of its own kind (`Chrono`) that keeps the
nanoseconds and has to be cast before it can be written. `PushRow` is `Block::push`,
`FromVectors` is `Block::column` with vectors; where `push` or `save` panics, `Panic`
drops the block before anything of it is on the wire.

`ColumnIter` keeps a cursor per layer, in bytes where the code has a pointer and in
rows where it has an index. Its columns have come from the wire, from a peer that
writes one of `NullFlags` for NULL. `Iter(items)` is `Column::iter::<T>`, with `items` the
type whose items are `T`: it compares the two types level by level (`IsIterable`) and
returns an error, or gives every nested iterator the buffer that `get_internal` finds at
its level (`Buffers`). On a concatenation it opens a `ComplexIterator` without a look at
the type, and the `unwrap` of the first `next` panics (`UnwrapFails`). The iterators over
addresses and UUIDs check no type at all; that a caller asks for them only where
the column has them is assumed.

In `Blocks`, `heap` holds the layer behind every `Arc` and a column is the chain of
the addresses of its layers; `IsUnique` is whether `Arc::get_mut` finds a single pointer
to an address, from a column or from the layer around it. After every call an address
is renamed to a place that points to it, since only equality of addresses
matters, and Arcs without a pointer go. What a column does with its layers is a
parameter (`EmptyFor`, `FromWire`, `Takes`, `Pushed`, `RowsOf`, ...), which `MCBlocks`
binds to `Columns`; `Whole` says which layers make a column. A call works on a copy of the state, `Finish` stores it; a panic ends the
task and drops its block. `told` is history. `Block::column` is modelled here for a
`Column` as its argument (`AddShared`), the case that shares an `Arc`; the caller does
not use a name twice.

Left out: casts of strings to addresses (text parsing), values of several time zones
in one column, `Block::cast_to` (a loop over `Column::cast_to`), `Rows`, `Debug` output.

## 3. Runs

| Run | Question | Bounds |
|---|---|---|
| `any_client` | safety against any client; every wait ends and every consumer stops | 2 INSERTs, 1 SELECT, 2 blocks, capacity 1, six packets, one in flight. Six packets are a Hello, an INSERT, its two empty blocks or data, and a second INSERT in the middle of the first; capacity 1 makes the channel full with one block |
| `protocol_client` | stored before acknowledged, replies allowed, no stale permit, refinement of `QueryService`, every query answered | up to 2 blocks per INSERT, all different, so that order and loss are visible; a ping between queries, a cancelled SELECT, failures at any time |
| `cancelled_insert` (violation) | stored before acknowledged, with cancelled INSERTs | as `protocol_client` |
| `framing` | packets come back, no prefix rejected, end reported, whole packets never waited on | 3 packets of 2 Hellos, 5 Queries, 2 blocks, ping and cancel; compressed blocks in one or two frames; every way to cut the stream. Three packets allow Hello, Query, Data with every setting switched while later bytes are buffered. 3-bit digits and 4-bit words let varints have one and two bytes and hold every revision constant |
| `replies` | replies are found in the stream, whole and unchanged | 3 requests (Hello with 4 revisions, Query compressed or not, ping, bad) against 3 revisions of the server, on both sides of every revision constant of a reply; up to 2 blocks or progresses per query. Three requests allow two Hellos and a Query, or two Queries with different compression, asked ahead |
| `varint` | value, round trip, stability | 2-bit digits, 5-bit words, all sequences of up to 4 bytes: one more than the longest varint |
| `string_pool` | bounds, contents, zeroed memory | five strings of 0 to 5 bytes, chunks of 4: exact fit, overflow into a new chunk, oversized and empty strings all occur |
| `transfer` | cells arrive under their types, casts keep rows, chunks are the rows, `==` compares cells | up to two blocks with 3 rows in all, `InsertBlockSize` 2 (a block below, at and above it), chunks of 1 to 3 rows; no, one and two columns, of numbers, strings, NULLs, UUIDs, decimals, enums, dates, times and arrays in arrays. Two blocks show that a reader stops where a block ends; chunks can be one, several, full, partial and empty |
| `array_chunks` (violation) | chunks of an Array column | |
| `column_iter` | iterators agree with `at`, concatenation and its binary search | fifteen types, up to 3 rows in up to 3 parts (empty ones first, last and in a row), `iter` for the items of each of the types, 1 and 2 as bytes for NULL, any mix of `next` and `nth` |
| `blocks` | contents under sharing, errors and panics | 2 tasks, 2 column names, up to 2 rows; a Nullable column for the second level of `Arc`s; capacity 1 |
| `clone_push` (violation) | pushes while a clone is alive | |

Deadlock is checked in every run in which the system has no legitimate end; where
it has one (the connection is over and its consumers have stopped, or a bound is
reached) the specification has an explicit stuttering step for that state only.
`Transfer` just stops when its bounds are reached, and its runs do not check deadlock.

### Findings

* `cancelled_insert`: `Packet::Cancel` does nothing. After a cancelled INSERT the
  sender stays in `ctx.state.out` until the next INSERT replaces it; the first
  consumer then notifies, and the `notified()` of the second INSERT takes that
  permit: EndOfStream is written before the second stream is finished, against the
  comment `wait stream finished` in `cmd.rs`.
* `array_chunks`: `ArrayColumnData::save` of rows `start..end` writes absolute offsets
  and the inner rows from 0, so every chunk but the first is wrong.
* `clone_push`: `clone_instance` of Nullable and Array shares the inner `Arc`, and
  `push` unwraps `Arc::get_mut` of it: a push panics while a clone is alive.

Also seen while modelling. The definitions have it as the code has it; no run has it
as its question, and the properties above are stated for the inputs without it:

* A SELECT after a cancelled INSERT is taken for an INSERT (`ctx.state.out` is still
  `Some`) and gets no EndOfStream: `EveryQueryAnswered` is for clients that do not
  cancel.
* `read_uvarint` checks for overflow only if the tenth byte ends the varint; longer
  ones are accepted with a wrong value in a release build (`Varint`).
* `send_client_data` and `send_server_data` write all chunks of a block behind one
  packet header, and the parser takes the second chunk for a packet. `Transfer` sends
  such blocks, too; `ReceivedIsSent` is stated for what was sent before the first of
  them (`Sendable`), and chunking is checked on the chunks themselves.
* Names of enum values are printed as they are, quotes and backslashes included, and
  read with backslash as an escape; a vector of enums has a type without values, whose
  name `Enum8()` cannot be read (`HasName`).
* `==` of cells has no case for addresses and UUIDs: a block with such a column is not
  equal to itself (`LeafEq`; `EqualIsSameRows` is stated for the others).
* `put_param` bypasses the length check of `append_column`: rows that lack columns
  leave a block with columns of different lengths (`Blocks`).
* `IpColumnData::with_capacity` creates rows of zeros, and
  `FixedStringColumnData::push` resizes to `old_len + (str_len - l)`, which takes a
  string of exactly the fixed length off again (`Columns`).
* A `Date` is converted through midnight UTC in the time zone of its value. West of
  UTC each conversion loses a day; with `TzOffset = -1`, `FlatChunksRoundTrip` fails.
* `to_datetime` of a time before 1970 with a fraction passes a negative number of
  nanoseconds to `tz.timestamp`, which panics; `from_datetime` rounds towards zero.
* `DecimalColumnData::push` drops the scale of the value, and `save` of `DateTime64`
  and `Chrono` columns is `unimplemented!()`, as is `at` of a cast `Chrono` column.
* `to_datetime` computes `9 - precision` for every precision below 19, and
  `decompress_buffer` computes `compressed - 9` before it knows that the size in the
  header is at least 9.
* For `at` a value is NULL if its flag is 1, for the iterators if it is not 0; on a
  column whose sender writes another byte for NULL they disagree, and `ItemIsRow`
  compares with the column that has 1 in its place.
* `iter` for items of another type returns an error on a simple column; on a
  concatenation it returns `Ok` and the first `next` panics. `iter::<Ipv4Addr>`,
  `<Ipv6Addr>` and `<Uuid>` accept every column.
* `iter::<DateTime<Tz>>` accepts a `Chrono` column and reads its structs as `u32`
  (not modelled: the columns of `ColumnIter` have come from the wire).

### Fairness

`WF` of the connection task and of each consumer: tokio polls every task that has
been woken, and every wait in the models (socket, channel, `Notify`) wakes its
task. No fairness is assumed of the client in `AnyClient`; in `ProtocolClient` the
client reads what it has been sent (`WF` of `Receive`) and owes nothing else. In
`Framing`, `WF` of the server's steps: bytes that were written arrive.

## 4. Proofs

Everything here is proved for all values of the constants: any sets of queries,
INSERTs and blocks, any channel capacity, any bound on packets, any number of strings,
bytes or parts. The only assumptions are the `ASSUME`s of the modules
(`ConstantsAssumption`, `BoundsAssumption`, `ClientAssumption`, `PoolAssumption`,
`CodecAssumption`, `UvarintAssumption`, `ReplyCodecAssumption`, `BlocksAssumption`), which
TLC evaluates in the runs, and where a theorem says so its own hypotheses:
`SelfDelimiting` of a codec and `PushesAdd` of a class of columns, which TLC evaluates
on part of their range, as said below.

### The connection task

Both clients take the same server steps (`ChNext`), so what these keep is proved once.
`ServerSafety` splits it into two parts.

* `ControlInv` (`ServerSafetyProofs`): types, and where the task can be suspended with
  which state. `SendNeverPanics` alone is not inductive: a consumer is spawned only
  after the sample block was written, so one needs to know that an INSERT at that point
  has no consumer yet (`Suspended`), hence that a query in flight is unknown to the
  server (`FreshQueries`), hence that the server knows only issued queries
  (`IssuedFirst`).
* `DeliveryInv` (second half of `ServerSafetyProofs`): blocks are where they should be. What an INSERT has
  got, what is in its channel and the block that is being sent are a prefix of what was
  uploaded, and the packets still in flight are the rest. `Follows` says the latter
  without recursion: there is a count of blocks for every place of the inbox that
  grows by one at every block of this INSERT. Its lemmas are how a count behaves when a
  packet is added at the end or taken from the front.

`AnyClientProofs` adds the client that sends anything and concludes `TypeOK`,
`SendNeverPanics`, `DeliveredInOrder`, `FinishedIsDrained`, `StageHasSender` and
`ExceptionIsLast`.

`ProtocolClientProofs` adds the client that follows the protocol. `ProtocolInv` says
where server and client can be together: the inbox has one of a few shapes for each
phase of the client, at most one query is being answered and at most one consumer has
not stopped, and a permit exists only while the INSERT that is being waited for is the
one whose consumer has finished. The last part is what `AckedInsertIsStored` and
`NoStalePermit` rest on, and it is what a cancelled INSERT breaks (finding
`cancelled_insert`). `RepliesExpected` follows from the shapes.

`ServerImplementsService`, in the same module, says that this system implements `QueryService`: under the mapping of
`ProtocolClient` (`Status`, and what was uploaded and got) an initial state is an initial
state, the step that starts a query is `Start`, a block that is written is `Offer`, one
that is taken from the channel is `Store`, an answer is `Complete` or `End`, and
everything else is a stutter.

### Framing

`FramingProofs` proves `TypeOK`, `DeliveredInOrder`, `NeverRejected` and `EofReported`
for every codec that is `SelfDelimiting`, that is, `ReadsBack(rest)` for every `rest`.
For the codec of `Wire`, whose readers are recursive operators, this hypothesis is
evaluated by TLC on a set of rests and not proved. None of the
four properties is inductive: all depend on what is still in flight. `FramingInv` says
that the bytes of the packets in flight lie one after the other in `buffer \o wire`,
that each was written with the Hello and the compression the server will have when it
comes to that packet (`Carried`), and that after them there is nothing or a proper
prefix of one more packet (`LastInFlight`). Two lemmas are the heart of it: if the
buffer holds all of the first packet, parsing returns it and its length
(`ParsedWhole`); if not, parsing would block (`ParsedPart`). So the server can wait
only if no whole packet is buffered, and at the end of the stream nothing can be left.

### Replies

`RepliesProofs` proves `TypeOK` and `RepliesDecode` for every codec that is
`SelfDelimiting`, as for framing. `RepliesDecode` speaks of the first reply in the stream
and is not inductive: nothing says that the next one will be readable once this one is
gone. `ReplyInv` says it of all of them. Each reply in flight lies at its place
(`Placed`); when the client has read the ones before it, the request it waits on and the
revision it has agreed on are those the reply was written for (`Tellable`); and at the
end of the stream the client knows what the server knows now (`AtTheEnd`). The last part
is what a new reply needs: the server writes with its present revision and compression,
and `AtTheEnd` carries them to the client's side. `UnreadIs` then gives the reader's
result on the whole stream and on every proper prefix of the first reply. A server that
kept the compression of an earlier query would break `Executes`, one that gated a field by
its own revision `Tellable`.

### Varints

`VarintProofs` proves `ExactUpToTen`, `Stable` and `RoundTrip` for every number of payload
bits and every word of `DigitBits * LastIndex + 1` bits, 7 and 64 among them, in builds
with and without overflow checks. Of `|` it assumes that it stays within a word and is
addition where no bit is common. The loops are recursive functions on an interval; `LoopRuns`
shows, with `SetInduction`, that such a function is the sum its equation says, and
`GatheredIs` that `x` is the number denoted so far and below the weight of the next
digit, so that each shift loses no bit and each `|` adds. `LastPassIs` is then the
boundary: at the tenth byte the digit fits exactly when it is 0 or 1. `PutIs` is the
inverse, by uniqueness of digits (`Digits`, `MxIs`).

### Shared columns

`ColumnProofs` proves `ColumnsHoldWhatWasPut` and `TypeOK` of `Blocks` for any number of
tasks, names and levels of nesting, under the hypothesis `PushesAdd`: where the push of a
column does not panic, it keeps the layers a column, adds the pushed value as the last row
and changes nothing else. TLC evaluates it for the columns of the run with up to two
rows (`PushAssumption`). It does not hold of every class: `FixedString` and decimals of
another scale are outside it (see the findings), and an IP column that `put_param`
creates has rows from the start, which `BlocksAssumption` excludes.

`ColumnsHoldWhatWasPut` is not inductive: a push writes to the addresses of one column,
and nothing in it says which other columns have those addresses. `SharingBelow` is the
strengthening: two columns with an Arc in common have it at the same level and have all
levels below the first in common. So, if the first Arc of a column has one pointer and
the second has one, no Arc of the column is in another column at all (`OnlyOurs`), however deep
it is, and the write is invisible elsewhere. That is why the check of the outer two Arcs
is enough to make `push` safe, and why `push` has to panic when the second is shared.
`CallInv` states all this of the copy a call works on, since a row is pushed value by
value and may stop half way; `Unshared` may break one Arc off and keeps it,
`Collected` renames addresses and keeps it (`KeptInv`).

### String storage

`StringPoolProofs` proves `TypeOK`, `InBounds`, `GetReturnsPushed` and `FreeIsZero` for
every capacity and all string lengths. The strengthening is `PointersBelow`: strings of
the last chunk end before its free space, which is what makes the next write harmless
to all earlier strings.

### find_chunk

`ColumnProofs` proves the loop of `find_chunk` correct for parts of any sizes.
`Between` is its invariant and `hi - lo` its variant; the loop never ends by `lo = hi`,
so the trailing `0` is never returned for a row of the column. Both the runs of the loop
and the index that `build_index` adds up need induction, for which the library has only
theorems about operators; `SetInduction` gets it for sets from the well-foundedness of
the natural numbers. That the fold in `BuildIndex` solves the equations the proof starts
from (`BuiltFrom`) is evaluated by TLC.

### What is only model-checked

* Liveness (`ConsumersStop`, `WaitEnds`, `SendEnds`, `EveryQueryAnswered`,
  `AllDelivered`): the prover has no rules for fairness.
* That the codecs of `Wire` and `ReplyWire` are self-delimiting: they are recursive
  operators, which the prover cannot use. TLC evaluates it on the packets and replies of
  the runs and a set of rests.
* That `push` of a column adds its row (`PushesAdd`), for the same reason.
* `Transfer` and `ColumnIter` (`ReceivedIsSent`, `CastKeepsRows`, `EqualIsSameRows`,
  `FlatChunksRoundTrip`, `ItemIsRow`, `LenIsRest`, `NoneIsTheEnd`, `EndIsNone`, and
  `ConcatIsAll` beyond the search): they are about the contents of columns, which are
  nested to any depth and on which every operation is recursive.

## 5. Plan

1. Done: connection task and session, framing, codecs, replies, varints, string
   storage, type names, columns with their casts, decimals, times and enums, transfer
   of blocks, equality, iterators, block builder; proofs for the connection task with
   both clients, the refinement of `QueryService`, framing, replies, varints, string
   storage, shared columns and `find_chunk`.
2. Open: `SelfDelimiting` of the strings and field lists of `Wire`, written as functions
   on positions like the varints; the iterators of columns of one layer.

## 6. Not modelled

* `types/options.rs`: URL and option parsing for a client this crate does not have;
  no state and nothing the server calls.
* `error_codes.rs`: a table of constants, one of which the code uses.
* `Debug` and `Display` output, and the printing of decimals: no property is about
  wording.
* Conversions of single values (`From` and `FromSql` of numbers and strings): one match
  arm per type; those with arithmetic or byte order in them (dates, times, addresses,
  decimals) are modelled.
* Casts of strings to addresses and UUIDs, which parse text character by character.
* Several time zones in one block: all values have one fixed offset.
* Floats: rows of fixed width like the integers, without arithmetic.
