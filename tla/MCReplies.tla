----------------------------- MODULE MCReplies ------------------------------
(* Instance of Replies for TLC. *)
EXTENDS Replies, ReplyWire

const_ResultBlocks == {<<>>, << << <<1>>, <<2>>, <<9, 8>> >> >>}
const_Progresses == { <<1, 9, 0>> }
const_Errors ==
  {[type |-> "server", code |-> 3, name |-> <<1>>, message |-> <<2, 2>>, stack_trace |-> <<4>>],
   [type |-> "other", name |-> <<>>, message |-> <<7>>]}

\* What may follow a reply in the stream: nothing, any byte, another reply.
Rests ==
  {<<>>} \cup {<<b>> : b \in {0, 1, 2, 3, 4, 5, 7, 8, 9, LZ4}}
    \cup {PutReply("data", cols, 0, c) : cols \in const_ResultBlocks, c \in BOOLEAN}
    \cup {PutReply("progress", p, 7, FALSE) : p \in const_Progresses}

ASSUME ReadsBackAssumption == \A rest \in Rests : ReadsBack(rest)
=============================================================================
