------------------------------ MODULE MCIngest ------------------------------
(* Instances of Ingest.  The configurations give the bounds: batches of two,  *)
(* so that a batch can be full, partial, or full of one source's records.     *)
EXTENDS Ingest
=============================================================================
