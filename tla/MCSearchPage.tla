---------------------------- MODULE MCSearchPage ----------------------------
(* An instance of SearchPage: two tabs, clicks enough to hide every field,    *)
(* and documents with different fields, among them one without the time.      *)
EXTENDS SearchPage, TLC

MCFieldNames == <<"comm", "hostname", "message", "priority", "source_timestamp">>

(* Every value names its document and its field. *)
MCHits ==
  {[f \in fields |-> <<f, fields>>] : fields \in
     {{"comm", "hostname", "message", "priority"}, {"message", "source_timestamp"}}}
=============================================================================
