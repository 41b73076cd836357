-------------------------- MODULE MCLiveExecution --------------------------
(* Instances of LiveExecution for TLC.                                     *)
EXTENDS LiveExecution, TLC

NoFaults == {}
\* sendTransaction of an open or of an exit times out.
LpTimeouts == {"open", "exit"} \X {"unknown"}
\* Nothing distinguishes one key from another.
KeySymmetry == Permutations(Keys)
=============================================================================
