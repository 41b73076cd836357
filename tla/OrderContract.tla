----------------------------- MODULE OrderContract -----------------------------
(***************************************************************************)
(* What the live execution path promises of an order, whatever crashes,    *)
(* times out or is sent twice: from the moment it is signed until it is    *)
(* given up or accounted for, the order is open; it is executed at most    *)
(* once, only while it is open, and, when it puts capital at risk, only    *)
(* while that capital counts against the spending limit.                   *)
(***************************************************************************)
EXTENDS Naturals

CONSTANT Orders

VARIABLES
  state,       \* new, open (a durable file names the order) or closed
  executions,  \* how often each order had its effect on the chain
  held         \* the orders that need no capital or whose capital is booked

contractVars == <<state, executions, held>>

ContractInit ==
  /\ state = [o \in Orders |-> "new"]
  /\ executions = [o \in Orders |-> 0]
  /\ held = Orders

\* An order is signed; if it puts capital at risk, that capital is not booked yet.
Sign(o) ==
  /\ state[o] = "new"
  /\ state' = [state EXCEPT ![o] = "open"]
  /\ held' \in {held, held \ {o}}
  /\ UNCHANGED executions

\* Capital is booked while the order is open and freed only while it has had no effect.
Hold(o) == state[o] = "open" /\ held' = held \cup {o} /\ UNCHANGED <<state, executions>>
Free(o) ==
  /\ state[o] # "new" /\ executions[o] = 0
  /\ held' = held \ {o}
  /\ UNCHANGED <<state, executions>>

Execute(o) ==
  /\ state[o] = "open" /\ o \in held /\ executions[o] = 0
  /\ executions' = [executions EXCEPT ![o] = 1]
  /\ UNCHANGED <<state, held>>

Close(o) ==
  /\ state[o] = "open"
  /\ state' = [state EXCEPT ![o] = "closed"]
  /\ UNCHANGED <<executions, held>>

ContractNext == \E o \in Orders : Sign(o) \/ Hold(o) \/ Free(o) \/ Execute(o) \/ Close(o)

ContractSpec == ContractInit /\ [][ContractNext]_contractVars
=============================================================================
