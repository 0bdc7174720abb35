---------------------------- MODULE GelfService ----------------------------
(***************************************************************************)
(* What GELF reception promises, without the map, its expiry tasks or their *)
(* channel: a set of held fragments, a datagram at a time, and messages     *)
(* handed over in the order they were decoded.                              *)
(*   - An assembled payload is made of held fragments of one id, one for    *)
(*     each position from 0 up, the datagram at hand among them.            *)
(*   - Assembling uses all fragments of that id up: none goes into two      *)
(*     messages.                                                            *)
(*   - A held fragment is given up only together with all of its id.        *)
(*   - A decoded message is lost only when nobody is left to receive it.    *)
(***************************************************************************)
EXTENDS Integers, Sequences

CONSTANTS Srcs, Ids, Msgs, Pieces, MaxCount, Payloads, Join(_), None, PipeCap

VARIABLES
  fragments,  \* the fragments held: records of an id, a position and a content
  parsing,    \* the datagram being looked at, or None
  sending,    \* the decoded message on its way to the pipe, or None
  pipe,       \* the messages handed over
  open        \* somebody receives them

vars == <<fragments, parsing, sending, pipe, open>>

Fragment(id, seqno, content) == [id |-> id, seqno |-> seqno, content |-> content]

OfOtherIds(id) == {f \in fragments : f.id # id}

Init ==
  /\ fragments = {}
  /\ parsing = None
  /\ sending = None
  /\ pipe = <<>>
  /\ open = TRUE

Receive(src, payload) ==
  /\ parsing = None /\ sending = None
  /\ parsing' = [src |-> src, body |-> payload]
  /\ UNCHANGED <<fragments, sending, pipe, open>>

Ignore ==
  /\ parsing # None
  /\ parsing' = None
  /\ UNCHANGED <<fragments, sending, pipe, open>>

Hold ==
  /\ parsing # None
  /\ parsing.body.type = "Chunk"
  /\ LET c == parsing.body IN
       fragments' = {f \in fragments : ~(f.id = c.id /\ f.seqno = c.seqno)}
                      \cup {Fragment(c.id, c.seqno, c.content)}
  /\ parsing' = None
  /\ UNCHANGED <<sending, pipe, open>>

Assemble ==
  /\ parsing # None
  /\ parsing.body.type = "Chunk"
  /\ LET c == parsing.body IN
       /\ \E n \in 2 .. MaxCount : \E pieces \in [0 .. n - 1 -> Pieces] :
            /\ c.seqno \in 0 .. n - 1
            /\ pieces[c.seqno] = c.content
            /\ \A i \in 0 .. n - 1 :
                 i # c.seqno => Fragment(c.id, i, pieces[i]) \in fragments
            /\ parsing' = [src |-> parsing.src, body |-> Join(pieces)]
       /\ fragments' = OfOtherIds(c.id)
  /\ UNCHANGED <<sending, pipe, open>>

Decode ==
  /\ parsing # None
  /\ parsing.body.type = "Message"
  /\ parsing' = None
  /\ sending' = [src |-> parsing.src, body |-> parsing.body.msg]
  /\ UNCHANGED <<fragments, pipe, open>>

HandOver ==
  /\ sending # None
  /\ open
  /\ Len(pipe) < PipeCap
  /\ pipe' = Append(pipe, sending)
  /\ sending' = None
  /\ UNCHANGED <<fragments, parsing, open>>

GiveUp(id) ==
  /\ fragments' = OfOtherIds(id)
  /\ UNCHANGED <<parsing, sending, pipe, open>>

Consume ==
  /\ pipe # <<>>
  /\ pipe' = Tail(pipe)
  /\ UNCHANGED <<fragments, parsing, sending, open>>

Close ==
  /\ open' = FALSE
  /\ pipe' = <<>>
  /\ UNCHANGED <<fragments, parsing, sending>>

Stop ==
  /\ ~open
  /\ fragments' = {}
  /\ parsing' = None
  /\ sending' = None
  /\ UNCHANGED <<pipe, open>>

Next ==
  \/ \E src \in Srcs, payload \in Payloads : Receive(src, payload)
  \/ Ignore
  \/ Hold
  \/ Assemble
  \/ Decode
  \/ HandOver
  \/ \E id \in Ids : GiveUp(id)
  \/ Consume
  \/ Close
  \/ Stop

Spec == Init /\ [][Next]_vars
=============================================================================
