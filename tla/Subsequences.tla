---------------------------- MODULE Subsequences ----------------------------
(***************************************************************************)
(* The elements of a sequence that are in a set, in their order, as SelectSeq*)
(* would select them; with a set for the test and a recursive function for   *)
(* the selection, so that it can be reasoned about.                          *)
(***************************************************************************)
EXTENDS Integers, Sequences

Among(s, S) ==
  LET upTo[n \in 0 .. Len(s)] ==
        IF n = 0 THEN <<>>
        ELSE IF s[n] \in S THEN Append(upTo[n - 1], s[n]) ELSE upTo[n - 1]
  IN upTo[Len(s)]
=============================================================================
