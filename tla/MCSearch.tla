------------------------------ MODULE MCSearch ------------------------------
(* An instance of Search: every time range on offer, and documents of every   *)
(* combination of fields.                                                     *)
EXTENDS Search

MCFieldNames == <<"hostname", "message", "source_timestamp", "uid">>

MCHits == UNION {[fields -> {1, 2}] : fields \in SUBSET Range(MCFieldNames)}

(* A clock that has run for 35 days since 1970, and one that started today. *)
MCNows == {3024000, 40000}
=============================================================================
