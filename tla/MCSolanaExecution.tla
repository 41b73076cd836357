-------------------------- MODULE MCSolanaExecution --------------------------
(* Instances of SolanaExecution for TLC.  One key is enough: keys share    *)
(* nothing but the process, and Init gives the key each kind of intent.    *)
EXTENDS SolanaExecution

\* What the sidecar is built to survive: an open or an exit whose send times out, an exit whose
\* reads fail after the batch was accepted.
Survived == ({"open", "exit"} \X {"unknown"}) \cup {<<"exit", "read">>}
\* Every fault of every kind of intent.
AllFaults == SideKinds \X FaultKinds
\* A swap whose sendTransaction times out.
SwapTimeout == {<<"swap", "unknown">>}
\* Swaps through Jupiter V2, the second provider of the default order.
JupiterV2 == {<<"swap", "external">>}
=============================================================================
