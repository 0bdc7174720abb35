------------------------------ MODULE Receiver ------------------------------
(***************************************************************************)
(* What a receive loop promises to run_server, which drops its JoinHandle    *)
(* and would not notice its end: it hands over each record it has taken, and *)
(* it ends only because nobody receives from it any more.                    *)
(***************************************************************************)
VARIABLES
  phase,  \* "receiving", "sending" or "gone"
  open    \* the ingest loop receives

vars == <<phase, open>>

Init == phase = "receiving" /\ open = TRUE

Take == phase = "receiving" /\ phase' = "sending" /\ UNCHANGED open
Send == open /\ phase = "sending" /\ phase' = "receiving" /\ UNCHANGED open
Fail == ~open /\ phase = "sending" /\ phase' = "gone" /\ UNCHANGED open
Drop == open /\ open' = FALSE /\ UNCHANGED phase

Next == Take \/ Send \/ Fail \/ Drop

Spec == Init /\ [][Next]_vars
=============================================================================
