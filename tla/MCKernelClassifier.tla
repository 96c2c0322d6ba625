------------------------- MODULE MCKernelClassifier -------------------------
EXTENDS KernelClassifier

(* "resume2" and "watchdog" add nothing to what the others do: one follower  *)
(* of another device, and one head without a follower, remain.               *)
SomeMessages == AllMessages \ {"resume2", "watchdog"}
=============================================================================
