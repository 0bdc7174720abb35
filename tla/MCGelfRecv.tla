----------------------------- MODULE MCGelfRecv -----------------------------
(* Instances of GelfRecv: two senders that use the same id for two two-chunk  *)
(* messages, a message whose body is itself a chunk of the first, unchunked   *)
(* datagrams, and malformed chunks.                                           *)
EXTENDS GelfRecv, TLC

CONSTANTS i1, i2, a, mix, plain   \* model values

MCIds == {i1, i2}
MCMsgs == {a, mix, plain}
MCPieces == {"a0", "a1", "b0", "w0", "w1"}

ChunkOf(id, seqno, count, content) ==
  [type |-> "Chunk", id |-> id, seqno |-> seqno, count |-> count, content |-> content]

Message(m) == [type |-> "Message", msg |-> m]
Malformed == [type |-> "Error"]

MCDatagrams ==
  { Message(plain), Malformed,
    ChunkOf(i1, 0, 2, "a0"), ChunkOf(i1, 1, 2, "a1"),
    ChunkOf(i1, 0, 2, "b0"),
    ChunkOf(i2, 0, 2, "w0"), ChunkOf(i2, 1, 2, "w1"),
    ChunkOf(i1, 2, 3, "a1"),   \* claims a third chunk
    ChunkOf(i2, 2, 2, "w1"),   \* beyond the count it claims
    ChunkOf(i2, 0, 1, "w0"), ChunkOf(i2, 0, 0, "w0") }

(* Two chunks in order decode; w0 w1 is a chunk of message a; b0 followed by  *)
(* a1 happens to decode, which is the worst a mixture can do.                 *)
MCJoin(f) ==
  IF DOMAIN f # {0, 1} THEN Malformed
  ELSE CASE f[0] = "a0" /\ f[1] = "a1" -> Message(a)
         [] f[0] = "b0" /\ f[1] = "a1" -> Message(mix)
         [] f[0] = "w0" /\ f[1] = "w1" -> ChunkOf(i1, 1, 2, "a1")
         [] OTHER -> Malformed

Symmetry == Permutations(Tasks) \cup Permutations(Srcs)
=============================================================================
