------------------------------ MODULE MCYaffle ------------------------------
(* An instance of Yaffle: four records, of which two fill a batch, with one  *)
(* restart anywhere.                                                          *)
EXTENDS Yaffle
=============================================================================
