---------------------------- MODULE MCLifecycle ----------------------------
(* Instances of Lifecycle: two servers, with good and bad URLs, race for one  *)
(* index; one crash is enough to lose the answer of a creation.               *)
EXTENDS Lifecycle
=============================================================================
