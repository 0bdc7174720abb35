------------------------------- MODULE Relay -------------------------------
(***************************************************************************)
(* What ingestion promises of the records the receive loops hand it, until   *)
(* it ends: each is settled once, in the order its source accepted it, in    *)
(* batches that store all of their valid records or none.  At most Capacity  *)
(* records of a source are unsettled at any time.                            *)
(***************************************************************************)
EXTENDS Integers, SequencesExt, Subsequences

CONSTANTS Kinds, Records, BatchSize, Capacity

VARIABLES
  pending,  \* per source: the accepted records not settled yet, oldest first
  stored,   \* what the store holds, in the order it took it
  up        \* ingestion goes on

vars == <<pending, stored, up>>

OfKind(k, s) == Among(s, {r \in Records : r.kind = k})
ValidOf(s) == Among(s, {r \in Records : r.valid})

Init ==
  /\ pending = [k \in Kinds |-> <<>>]
  /\ stored = <<>>
  /\ up = TRUE

Accept(k) ==
  /\ up
  /\ Len(pending[k]) < Capacity
  /\ \E r \in Records : r.kind = k /\ pending' = [pending EXCEPT ![k] = Append(@, r)]
  /\ UNCHANGED <<stored, up>>

Unsettled == UNION {Range(pending[k]) : k \in Kinds}

(* Takes a batch off the fronts of the sources.  All of its valid records    *)
(* are stored, or none.                                                      *)
Settle ==
  /\ up
  /\ \E batch \in BoundedSeq(Unsettled, BatchSize) :
       /\ \A k \in Kinds : IsPrefix(OfKind(k, batch), pending[k])
       /\ pending' = [k \in Kinds |->
            SubSeq(pending[k], Len(OfKind(k, batch)) + 1, Len(pending[k]))]
       /\ stored' \in {stored, stored \o ValidOf(batch)}
  /\ UNCHANGED up

(* The end loses what was accepted and not settled. *)
Stop ==
  /\ up' = FALSE
  /\ pending' = [k \in Kinds |-> <<>>]
  /\ UNCHANGED stored

(* The guard on pending follows from either: it spares TLC to look for the   *)
(* record and the batch when there is none.                                  *)
Next ==
  \/ /\ pending' # pending
     /\ (\E k \in Kinds : Accept(k)) \/ Settle
  \/ Stop

Spec == Init /\ [][Next]_vars
=============================================================================
