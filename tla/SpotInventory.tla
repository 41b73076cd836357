---------------------------- MODULE SpotInventory ----------------------------
(* A position of the large-pool strategy is an amount of tokens in the wallet,
   not an address on the chain.  What the wallet held before the order and
   after it says how much is the position's; the ledger record keeps that
   amount, one record for a purchase, and position-state.json is a copy of one
   record, which the strategy manages and sells.

   One mint, which the owner of the wallet may hold too, and the purchases of
   it.  An order's files and the sidecar are as in LiveExecution, with nothing
   lost between them.  The owner moves tokens only between ticks and while no
   order is on the books or on its way: a sale is proven by the exact decrease
   of the balance.  Whether the spent SOL of a recovered purchase is plausible
   is left open, and so is whether the account shows a landed purchase at once.

   Faults names what a configuration lets happen:
     late    an order that its own tick saw unconfirmed is confirmed when the
             tick looks again
     hidden  the mint is filtered from the account the cycle decides on    *)
EXTENDS Naturals, FiniteSetsExt

CONSTANTS
  Buys,         \* the purchases, numbered
  Deposit,      \* what the owner holds at first, and moves later
  MaxMoves, MaxCrashes,
  Faults

SpotAssumption ==
  /\ Buys \subseteq Nat \ {0}
  /\ Deposit \in Nat \ {0}
  /\ MaxMoves \in Nat /\ MaxCrashes \in Nat
  /\ Faults \subseteq {"late", "hidden"}

VARIABLES
  wallet,   \* raw balance of the mint
  users,    \* how much of it is the owner's: no code reads this
  record,   \* position-ledger.json: purchase -> lifecycleState, ownedTokenAmountRaw
  state,    \* position-state.json
  order,    \* the last order
  fate,     \* and what became of it
  wal,      \* prepared-broadcast.json names it
  pending,  \* pending-submission.json names it
  at,       \* where the tick is
  seen,     \* the mint's balance in the tick's account snapshot
  settled,  \* the tick will remove the pending file
  moves, crashes

vars == <<wallet, users, record, state, order, fate, wal, pending, at, seen, settled,
          moves, crashes>>
account == <<wallet, users>>
books == <<record, state>>
files == <<wal, pending>>
counts == <<moves, crashes>>

\* "pending" and "left" are both open_pending: left has no pending fields any more.
Lives == {"none", "pending", "left", "open", "exiting", "reconcile", "closed"}
Fates == {"none", "unsent", "flying", "landed", "failed"}
NoOrder == [side |-> "none", buy |-> 0, input |-> 0, pre |-> 0]
Closed == [buy |-> 0, life |-> "closed", owned |-> 0]

SpotTypeOK ==
  /\ wallet \in Nat /\ users \in Nat
  /\ record \in [Buys -> [life : Lives, owned : Nat]]
  /\ state \in [buy : Buys \cup {0}, life : Lives, owned : Nat]
  /\ order \in [side : {"none", "deploy", "sale"}, buy : Buys \cup {0}, input : Nat, pre : Nat]
  /\ fate \in Fates
  /\ wal \in BOOLEAN /\ pending \in BOOLEAN /\ settled \in BOOLEAN
  /\ at \in {"idle", "cycle", "sending", "sent", "recovered", "booked", "stated"}
  /\ seen \in Nat
  /\ moves \in 0..MaxMoves /\ crashes \in 0..MaxCrashes

Init ==
  /\ wallet \in {0, Deposit} /\ users = wallet
  /\ record = [b \in Buys |-> [life |-> "none", owned |-> 0]]
  /\ state = Closed
  /\ order = NoOrder /\ fate = "none" /\ wal = FALSE /\ pending = FALSE
  /\ at = "idle" /\ seen = 0 /\ settled = FALSE
  /\ moves = 0 /\ crashes = 0

Quiet == at = "idle" /\ ~wal /\ ~pending /\ fate # "flying"
EndTick == at' = "idle" /\ seen' = 0 /\ settled' = FALSE
Books(b, life, owned) == [record EXCEPT ![b] = [life |-> life, owned |-> owned]]

---------------------------------------------------------------------------
\* The world

OwnerMoves ==
  /\ Quiet /\ moves < MaxMoves
  /\ \/ wallet' = wallet + Deposit /\ users' = users + Deposit
     \/ users >= Deposit /\ wallet' = wallet - Deposit /\ users' = users - Deposit
  /\ moves' = moves + 1
  /\ UNCHANGED <<books, order, fate, files, at, seen, settled, crashes>>

Lands ==
  /\ fate = "flying" /\ fate' = "landed"
  /\ \/ order.side = "deploy" /\ wallet' = wallet + 1
     \/ order.side = "sale" /\ order.input <= wallet /\ wallet' = wallet - order.input
  /\ UNCHANGED <<users, books, order, files, at, seen, settled, counts>>

Fails ==
  /\ fate = "flying" /\ fate' = "failed"
  /\ UNCHANGED <<account, books, order, files, at, seen, settled, counts>>

---------------------------------------------------------------------------
\* The order's files, in its own tick and before the next one

Send ==
  /\ wal /\ fate = "unsent" /\ at \in {"idle", "sending"}
  /\ fate' = "flying"
  /\ UNCHANGED <<account, books, order, files, at, seen, settled, counts>>

TakeAnswer ==
  /\ wal /\ fate # "unsent" /\ at \in {"idle", "sending"}
  /\ wal' = FALSE /\ pending' = TRUE
  /\ at' = IF at = "idle" THEN "idle" ELSE "sent"
  /\ UNCHANGED <<account, books, order, fate, seen, settled, counts>>

\* Refused before anything was sent.  In its own tick a purchase leaves a record.
Refuse ==
  /\ wal /\ fate = "unsent" /\ at \in {"idle", "sending"}
  /\ wal' = FALSE /\ fate' = "none"
  /\ IF at = "idle" THEN UNCHANGED <<at, record>>
     ELSE /\ at' = "booked"
          /\ record' = IF order.side = "deploy" THEN Books(order.buy, "left", 0) ELSE record
  /\ UNCHANGED <<account, state, order, pending, seen, settled, counts>>

---------------------------------------------------------------------------
\* Recovery before the tick's decisions, against a fresh account

Recovers(side) == at = "idle" /\ ~wal /\ pending /\ order.side = side

\* A purchase is resolved when it is seen confirmed, or when the wallet holds
\* any of the mint.
Filled == fate = "landed" \/ wallet > 0
\* resolveRecoveredSpotOpenEvidence
OpenEvidence(plausible) == wallet > order.pre /\ plausible
RecoverDeploy ==
  /\ Recovers("deploy") /\ Filled
  /\ \E plausible \in BOOLEAN :
       record' = IF OpenEvidence(plausible)
                 THEN Books(order.buy, "open", wallet - order.pre)
                 ELSE Books(order.buy, "reconcile", record[order.buy].owned)
  /\ at' = "recovered" /\ settled' = TRUE
  /\ UNCHANGED <<account, state, order, fate, files, seen, counts>>

\* A sale is resolved when exactly its amount has left the wallet.
ExactlySold == order.pre >= wallet /\ order.pre - wallet = order.input
RecoverSale ==
  /\ Recovers("sale") /\ ExactlySold
  /\ LET r == record[order.buy]
     IN record' = IF state.owned = order.input
                  THEN IF r.owned > 0 THEN Books(order.buy, "closed", 0) ELSE record
                  ELSE Books(order.buy, "reconcile", state.owned)
  /\ at' = "recovered" /\ settled' = TRUE
  /\ UNCHANGED <<account, state, order, fate, files, seen, counts>>

\* A failed order goes without a word to the books.
RecoverFailed ==
  /\ Recovers(order.side) /\ fate = "failed"
  /\ order.side = "deploy" => wallet = 0
  /\ pending' = FALSE
  /\ UNCHANGED <<account, books, order, fate, wal, at, seen, settled, counts>>

\* Ledger, then state, then the pending file.
StateOf(b) == IF record[b].life = "closed" THEN Closed
              ELSE [buy |-> b, life |-> record[b].life, owned |-> record[b].owned]
WriteRecovered ==
  /\ at = "recovered" /\ at' = "stated"
  /\ state' = StateOf(order.buy)
  /\ UNCHANGED <<account, record, order, fate, files, seen, settled, counts>>

---------------------------------------------------------------------------
\* The tick

Snapshots == {wallet} \cup IF "hidden" \in Faults THEN {0} ELSE {}

\* reconcileTerminalFlatPositionState: an empty account has no position.
ReadAccount ==
  /\ at = "idle" /\ ~wal /\ at' = "cycle"
  /\ seen' \in Snapshots
  /\ state' = IF ~pending /\ wallet = 0 THEN Closed ELSE state
  /\ UNCHANGED <<account, record, order, fate, files, settled, counts>>

\* buildLargePoolDecision: without a position, buy.
Deploy(b) ==
  /\ at = "cycle" /\ ~pending /\ state.life = "closed" /\ fate # "flying"
  /\ record[b].life = "none"
  /\ order' = [side |-> "deploy", buy |-> b, input |-> 0, pre |-> seen]
  /\ fate' = "unsent" /\ wal' = TRUE /\ at' = "sending"
  /\ UNCHANGED <<account, books, pending, seen, settled, counts>>

\* resolveOwnedSpotInventory: the position's own amount, if the wallet has it.
Sell ==
  /\ at = "cycle" /\ ~pending /\ state.life \in {"open", "exiting"}
  /\ state.owned > 0 /\ state.owned <= seen
  /\ order' = [side |-> "sale", buy |-> state.buy, input |-> state.owned, pre |-> seen]
  /\ fate' = "unsent" /\ wal' = TRUE /\ at' = "sending"
  /\ UNCHANGED <<account, books, pending, seen, settled, counts>>

\* importActiveLpPositionsToLedger: a position that the account does not back.
Imported ==
  [b \in Buys |-> IF record[b].life # "closed" /\ record[b].owned > seen
                  THEN [record[b] EXCEPT !.life = "reconcile"] ELSE record[b]]

\* Nothing is sent, or the pending order holds the cycle.
Holds ==
  /\ at = "cycle" /\ at' = "booked"
  /\ record' = Imported
  /\ UNCHANGED <<account, state, order, fate, files, seen, settled, counts>>

\* The result of an order, as the tick books it: the record's life and amount,
\* and whether the pending file goes.
Result(life, owned, done) == [life |-> life, owned |-> owned, done |-> done]
DeployResults ==
  LET landed == IF fate # "landed" THEN {}
                ELSE {Result("reconcile", 0, TRUE), Result("reconcile", 0, FALSE)}
                     \cup {Result("open", n, TRUE) : n \in {wallet - seen} \ {0}}
      failed == IF fate = "failed" THEN {Result("left", 0, TRUE)} ELSE {}
      late   == IF fate = "landed" /\ "late" \in Faults THEN {Result("left", 0, TRUE)} ELSE {}
  IN {Result("pending", 0, FALSE)} \cup landed \cup failed \cup late
SaleResults ==
  LET was    == record[order.buy]
      sold   == IF fate = "landed" /\ ExactlySold /\ state.owned = order.input
                THEN {Result("closed", 0, TRUE)} ELSE {}
      failed == IF fate = "failed" THEN {Result(was.life, was.owned, TRUE)} ELSE {}
  IN {Result("exiting", was.owned, FALSE)} \cup sold \cup failed
BookResult ==
  /\ at = "sent" /\ at' = "booked"
  /\ \E r \in IF order.side = "deploy" THEN DeployResults ELSE SaleResults :
       /\ record' = [Imported EXCEPT ![order.buy] = [life |-> r.life, owned |-> r.owned]]
       /\ settled' = r.done
  /\ UNCHANGED <<account, state, order, fate, files, seen, counts>>

\* selectCompatibilityPositionState: the records that are a position for it.
\* One whose order is pending comes first; one that only says so counts for a while.
Selectable ==
  {b \in Buys : \/ record[b].life \in {"open", "exiting"} /\ record[b].owned > 0
                \/ record[b].life = "reconcile"}
Awaited == {b \in Buys : record[b].life = "pending" /\ pending /\ ~settled /\ order.buy = b}
Lapsing == {b \in Buys : record[b].life = "pending"} \ Awaited
WriteState ==
  /\ at = "booked" /\ at' = "stated"
  /\ state' \in IF Awaited # {} THEN {StateOf(b) : b \in Awaited}
                ELSE {StateOf(b) : b \in Selectable \cup Lapsing}
                     \cup IF Selectable = {} THEN {Closed} ELSE {}
  /\ UNCHANGED <<account, record, order, fate, files, seen, settled, counts>>

Clear ==
  /\ at = "stated" /\ EndTick
  /\ pending' = (pending /\ ~settled)
  /\ UNCHANGED <<account, books, order, fate, wal, counts>>

Crash ==
  /\ at # "idle" /\ crashes < MaxCrashes
  /\ crashes' = crashes + 1 /\ EndTick
  /\ UNCHANGED <<account, books, order, fate, files, moves>>

Next ==
  \/ OwnerMoves \/ Lands \/ Fails \/ Send \/ TakeAnswer \/ Refuse
  \/ RecoverDeploy \/ RecoverSale \/ RecoverFailed \/ WriteRecovered
  \/ ReadAccount \/ \E b \in Buys : Deploy(b)
  \/ Sell \/ Holds \/ BookResult \/ WriteState \/ Clear \/ Crash

Spec == Init /\ [][Next]_vars

---------------------------------------------------------------------------
\* The amounts that the records call owned.
OwnedRaw ==
  SumFunctionOnSet([b \in Buys |-> record[b].owned], {b \in Buys : record[b].owned > 0})

\* What the positions own is in the wallet beside the owner's tokens, so that a
\* sale of a position sells nothing of the owner's.
SpotBacked ==
  /\ wallet >= users
  /\ Quiet => users + OwnedRaw <= wallet

\* Tokens that the program bought are some position's, or wait for the operator
\* (large-pool-engine.ts:34: "manages existing inventory until it is fully exited").
BoughtIsKnown ==
  Quiet /\ wallet > users => \E b \in Buys : record[b].life \in {"open", "exiting", "reconcile"}
=============================================================================
