----------------------------- MODULE MCFraming ------------------------------
(* Instance of Framing for TLC. *)
EXTENDS Framing, Wire

Hello(revision) ==
  [type |-> "hello", val |-> << <<>>, 9, 0, revision, <<>>, <<5>>, <<>> >>]

TcpInfo(revision, tail) ==
  <<1, << <<>>, <<>>, <<>>, TCP>>, << <<>>, <<>>, <<>>, 1, 0, revision>>, tail>>

HttpInfo == <<1, << <<>>, <<>>, <<>>, HTTP>>, <<2, <<3>> >>, <<>> >>

Query(info, settings, compression) ==
  [type |-> "query", val |-> << <<>>, info, settings, <<2, compression, <<6>> >> >>]

const_Hellos == {Hello(0), Hello(5)}
const_Queries ==
  {Query(<<0>>, <<>>, 0),
   Query(<<0>>, << << <<1>>, 5>> >>, 1),
   Query(TcpInfo(5, << <<7>>, 1>>), <<>>, 1),
   Query(TcpInfo(1, <<>>), <<>>, 0),
   Query(HttpInfo, <<>>, 0)}
const_DataBlocks ==
  {[type |-> "data", val |-> <<>>],
   [type |-> "data", val |-> << << <<1>>, <<2>>, <<9>> >> >>]}
const_Splits == {0, 3}

\* What may follow a packet in the buffer: nothing, any byte, another packet.
Rests ==
  {<<>>} \cup {<<b>> : b \in {0, 1, 2, 3, 4, 7, 8, 9, LZ4}}
    \cup {PutPacket(p, h, c, s) : p \in const_DataBlocks \cup const_Hellos, h \in {<<>>},
                                 c \in BOOLEAN, s \in const_Splits}

ASSUME ReadsBackAssumption == \A rest \in Rests : ReadsBack(rest)
=============================================================================
