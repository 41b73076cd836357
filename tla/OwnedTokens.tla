------------------------------ MODULE OwnedTokens ------------------------------
(* Whose tokens the program sells.  Closing or claiming an LP pays out tokens
   of its mint into the wallet, where the owner of the wallet may hold tokens
   of the same mint.  Every exit therefore carries the balance before it
   (preExitTokenAmountRaw): the sidecar sells what is above that, what it could
   not sell is written to the position's ledger record as residual, and a
   later sale is for exactly the sum of the residuals.

   One mint, its wallet balance and the LPs the strategy opens in it, one after
   the other.  The two files of an order are written as in LiveExecution, and
   the records are named as in PositionBook; here only what they say of tokens
   matters.  Runtime modes allow every step (RuntimeModes has them).  The
   owner moves tokens only between ticks and while no order is in flight:
   whatever arrives during an exit counts as paid out by it.

   Faults names what a configuration lets happen:
     hidden    an exit is decided while the mint is filtered from the account
     replayed  the process dies after the books of a sale are written and
               before the pending file is removed
     late      a sale that the sidecar gave up lands after all
   runResidualTokenSweepIfDue is also called after the cycle, where its timer
   has just been set again: that call does nothing.                       *)
EXTENDS Naturals, FiniteSetsExt

CONSTANTS
  Lps,          \* the LPs of the mint, numbered from 1
  Deposit,      \* what the owner holds at first, and moves later
  MaxMoves, MaxCrashes,
  Values,       \* what the account may say a balance is worth
  Faults

OwnedTokensAssumption ==
  /\ Lps \subseteq Nat \ {0}
  /\ Deposit \in Nat \ {0}
  /\ MaxMoves \in Nat /\ MaxCrashes \in Nat
  /\ Values \subseteq {"unknown", "dust", "eligible"}
  /\ Faults \subseteq {"hidden", "replayed", "late"}

VARIABLES
  wallet,   \* raw balance of the mint
  users,    \* how much of it is the owner's: no code reads this
  lp,       \* LP -> unopened, open, gone
  fee,      \* LP -> tokens it can pay out on a claim
  record,   \* ledger: record -> residualCleanupStatus and residualCleanupAmountRaw
  wal,      \* prepared-broadcast.json
  answer,   \* the result that the sidecar stored for the order in wal
  pending,  \* pending-submission.json
  at,       \* where the tick is
  seen,     \* the wallet's balance in the tick's account snapshot
  value,    \* and what the snapshot says it is worth
  due,      \* nextResidualTokenSweepAt has passed
  cooled,   \* the mint has an active row in residual-token-sweeps.json
  moves, crashes

vars == <<wallet, users, lp, fee, record, wal, answer, pending, at, seen, value, due,
          cooled, moves, crashes>>
account == <<wallet, users, lp, fee>>
snapshot == <<seen, value>>
timers == <<due, cooled>>
counts == <<moves, crashes>>

None == [side |-> "none"]
Reports == {"unsent", "sold", "failed", "partial", "complete", "incomplete", "dust"}
Order(side, p, input, pre) ==
  [side |-> side, lp |-> p, input |-> input, pre |-> pre, report |-> "unsent", raw |-> 0]

\* Record 0 is the one that recovery makes for a sale it finds no record of.
Records == Lps \cup {0}
Unswept == [status |-> "none", raw |-> 0]
Residuals == {r \in Records : record[r].status = "pending" /\ record[r].raw > 0}
OwnedRaw == SumFunctionOnSet([r \in Records |-> record[r].raw], Residuals)

OrdersOf(reports) ==
  [side : {"sale", "claim", "withdraw"}, lp : Records, input : Nat, pre : Nat,
   report : reports, raw : Nat]
TokensTypeOK ==
  /\ wallet \in Nat /\ users \in Nat
  /\ lp \in [Lps -> {"unopened", "open", "gone"}] /\ fee \in [Lps -> Nat]
  /\ record \in [Records -> [status : {"none", "pending", "complete", "dust"}, raw : Nat]]
  /\ wal \in OrdersOf({"unsent"}) \cup {None}
  /\ answer \in OrdersOf(Reports \ {"unsent"}) \cup {None}
  /\ pending \in OrdersOf(Reports \ {"unsent"}) \cup {None}
  /\ at \in {"idle", "sweep", "sweeping", "cycle", "sending", "sent", "written"}
  /\ seen \in Nat /\ value \in Values \cup {"unknown"}
  /\ due \in BOOLEAN /\ cooled \in BOOLEAN
  /\ moves \in 0..MaxMoves /\ crashes \in 0..MaxCrashes

Init ==
  /\ wallet \in {0, Deposit} /\ users = wallet
  /\ lp = [p \in Lps |-> "unopened"] /\ fee = [p \in Lps |-> 0]
  /\ record = [r \in Records |-> Unswept]
  /\ wal = None /\ answer = None /\ pending = None
  /\ at = "idle" /\ seen = 0 /\ value = "unknown"
  /\ due = TRUE /\ cooled = FALSE
  /\ moves = 0 /\ crashes = 0

Quiet == at = "idle" /\ wal = None /\ pending = None
GoTo(stage) == at' = stage
\* The tick is over: its snapshot is forgotten.
EndTick == at' = "idle" /\ seen' = 0 /\ value' = "unknown"

---------------------------------------------------------------------------
\* The world

Elapse ==
  /\ at = "idle"
  /\ due' = TRUE /\ cooled' \in {cooled, FALSE}
  /\ UNCHANGED <<account, record, wal, answer, pending, at, snapshot, counts>>

OwnerMoves ==
  /\ Quiet /\ moves < MaxMoves
  /\ \/ wallet' = wallet + Deposit /\ users' = users + Deposit
     \/ users >= Deposit /\ wallet' = wallet - Deposit /\ users' = users - Deposit
  /\ moves' = moves + 1
  /\ UNCHANGED <<lp, fee, record, wal, answer, pending, at, snapshot, timers, crashes>>

\* An LP is opened with SOL (PositionBook has the steps) and earns a fee.
OpenLp(p) ==
  /\ Quiet /\ lp[p] = "unopened" /\ \A q \in Lps : lp[q] # "open"
  /\ lp' = [lp EXCEPT ![p] = "open"] /\ fee' = [fee EXCEPT ![p] = 1]
  /\ UNCHANGED <<wallet, users, record, wal, answer, pending, at, snapshot, timers, counts>>

---------------------------------------------------------------------------
\* The sidecar, once for an order: afterwards it repeats the stored answer.

Unserved == wal # None /\ answer = None /\ at \in {"idle", "sweeping", "sending"}
Reply(report, raw) == answer' = [wal EXCEPT !.report = report, !.raw = raw]

\* liquidateResidualTokensToSol: what is above the balance before the exit.
Sellable(balance) == IF balance > wal.pre THEN balance - wal.pre ELSE 0

PaidOut == fee[wal.lp] + IF wal.side = "withdraw" THEN 1 ELSE 0
Leaves ==
  /\ fee' = [fee EXCEPT ![wal.lp] = 0]
  /\ lp' = IF wal.side = "withdraw" THEN [lp EXCEPT ![wal.lp] = "gone"] ELSE lp

\* The exit lands and the tokens above the baseline are sold at once, are kept
\* as unsold or as dust, are not listed yet when the sidecar looks, or are not
\* looked for because the exit is confirmed too late.
LandExit ==
  /\ Unserved /\ wal.side \in {"claim", "withdraw"}
  /\ LET paid == wallet + PaidOut
         own  == Sellable(paid)
     IN \/ wallet' = paid - own /\ Reply("complete", 0)
        \/ own > 0 /\ wallet' = paid /\ Reply("incomplete", own)
        \/ own > 0 /\ wallet' = paid /\ Reply("dust", 0)
        \/ wallet' = paid - Sellable(wallet) /\ Reply("complete", 0)
        \/ wallet' = paid /\ Reply("partial", 0)
        \/ "late" \in Faults /\ own > 0 /\ wallet' = paid - own /\ Reply("incomplete", own)
  /\ Leaves
  /\ UNCHANGED <<users, record, wal, pending, at, snapshot, timers, counts>>

LandSale ==
  /\ Unserved /\ wal.side = "sale" /\ wal.input <= wallet
  /\ wallet' = wallet - wal.input /\ Reply("sold", 0)
  /\ UNCHANGED <<users, lp, fee, record, wal, pending, at, snapshot, timers, counts>>

\* Accepted, and fails on the chain.
FailOnChain ==
  /\ Unserved /\ Reply("failed", 0)
  /\ UNCHANGED <<account, record, wal, pending, at, snapshot, timers, counts>>

\* Refused before anything was sent, as a sale of more than the wallet holds is.
Refuse ==
  /\ Unserved
  /\ wal' = None
  /\ cooled' = (cooled \/ (wal.side = "sale" /\ at # "idle"))
  /\ IF at = "sweeping" THEN GoTo("cycle") /\ UNCHANGED snapshot ELSE EndTick
  /\ UNCHANGED <<account, record, answer, pending, due, counts>>

\* recoverPreparedBroadcast: the answer becomes the pending file, the WAL goes,
\* and an attempted sale puts its mint on cooldown.
TakeAnswer ==
  /\ answer # None /\ at \in {"idle", "sweeping", "sending"}
  /\ pending' = answer /\ wal' = None /\ answer' = None
  /\ cooled' = (cooled \/ (answer.side = "sale" /\ at # "idle"))
  /\ due' = (due /\ ~(answer.side = "sale" /\ at = "sending"))
  /\ IF at = "sending" THEN GoTo("sent") /\ UNCHANGED snapshot ELSE EndTick
  /\ UNCHANGED <<account, record, counts>>

---------------------------------------------------------------------------
\* Recovery before the tick's decisions, against a fresh account

\* Mutant: an exit booked by its own tick is counted again when it is recovered.
AppliedAgain(r, status, raw) ==
  [record EXCEPT ![r] = [status |-> IF status = "none" THEN @.status ELSE status,
                         raw |-> @.raw + raw]]

\* applyLiveCycleResultToLedger: an absent status or amount leaves the record's.
Applied(r, status, raw) ==
  [record EXCEPT ![r] = [status |-> IF status = "none" THEN @.status ELSE status,
                         raw |-> IF raw = 0 THEN @.raw ELSE raw]]

\* resolveRecoveredLpResidualEvidence
TrustsExit(o) ==
  LET owned == wallet - o.pre
  IN /\ wallet >= o.pre
     /\ o.report = "incomplete" => owned > 0 /\ o.raw = owned
     /\ o.report = "complete" => owned = 0
     /\ o.raw > 0 => o.raw = owned
CleanupStatus(o) ==
  IF o.report = "dust" THEN "dust" ELSE IF wallet > o.pre THEN "pending" ELSE "complete"
BooksOfExit(o) ==
  IF TrustsExit(o) THEN Applied(o.lp, CleanupStatus(o), wallet - o.pre)
                   ELSE [record EXCEPT ![o.lp] = Unswept]

SweptClean == [r \in Records |-> IF r \in Residuals
                                 THEN [status |-> "complete", raw |-> 0] ELSE record[r]]
\* A sale closes the residuals it is exactly the sum of; without any residual
\* record to charge it to, one of its amount is made.
BooksOfSale(o) ==
  IF Residuals = {} THEN [record EXCEPT ![0] = [status |-> "pending", raw |-> o.input]]
  ELSE IF OwnedRaw = o.input THEN SweptClean ELSE record

ExactlySold(o) == o.pre >= wallet /\ o.pre - wallet = o.input

\* An exit is booked when it succeeded, a sale when exactly its amount left the
\* wallet; a partial batch, or a sale that moved anything else, waits.
Resolve(books) ==
  /\ at = "idle" /\ wal = None
  /\ record' = books /\ GoTo("written")
  /\ UNCHANGED <<account, wal, answer, pending, snapshot, timers, counts>>
Succeeded == pending.report \in {"complete", "incomplete", "dust"}
ResolveWithdrawal == pending.side = "withdraw" /\ Succeeded /\ Resolve(BooksOfExit(pending))
ResolveClaim == pending.side = "claim" /\ Succeeded /\ Resolve(BooksOfExit(pending))
ResolveSale ==
  pending.side = "sale" /\ pending.report = "sold" /\ ExactlySold(pending)
    /\ Resolve(BooksOfSale(pending))

ResolveFailed ==
  /\ at = "idle" /\ wal = None /\ pending # None /\ pending.report = "failed"
  /\ pending' = None
  /\ UNCHANGED <<account, record, wal, answer, at, snapshot, timers, counts>>

\* The books are on disk: the pending file may go.
ClearPending ==
  /\ at = "written"
  /\ pending' = None /\ EndTick
  /\ UNCHANGED <<account, record, wal, answer, timers, counts>>

ReadAccount ==
  /\ Quiet
  /\ GoTo("sweep") /\ seen' = wallet
  /\ value' \in IF wallet = 0 THEN {"unknown"} ELSE Values
  /\ UNCHANGED <<account, record, wal, answer, pending, timers, counts>>

---------------------------------------------------------------------------
\* runResidualTokenSweepIfDue and runLiveCycle

Sweepable == due /\ seen > 0 /\ OwnedRaw > 0 /\ value = "eligible" /\ ~cooled
Sweep ==
  /\ at = "sweep" /\ due' = FALSE
  /\ \/ Sweepable /\ wal' = Order("sale", 0, OwnedRaw, seen) /\ GoTo("sweeping")
     \/ ~Sweepable /\ wal' = wal /\ GoTo("cycle")
  /\ UNCHANGED <<account, record, answer, pending, snapshot, cooled, counts>>

\* suppressCooldownResidualWalletTokens: what the cycle does not get to see.
Suppressed == cooled \/ value = "dust" \/ (value = "eligible" /\ ~due)
Baseline == IF Suppressed THEN 0 ELSE seen

CycleExits(p) ==
  /\ at = "cycle" /\ lp[p] = "open" /\ (Baseline = seen \/ "hidden" \in Faults)
  /\ \E side \in {"claim", "withdraw"} :
       /\ side = "claim" => fee[p] > 0
       /\ wal' = Order(side, p, 0, Baseline)
  /\ GoTo("sending")
  /\ UNCHANGED <<account, record, answer, pending, snapshot, timers, counts>>

\* dca-out of the residuals, which waits for the sweep while an LP is open.
CycleSells ==
  /\ at = "cycle" /\ ~Suppressed /\ seen > 0 /\ OwnedRaw > 0
  /\ \A p \in Lps : lp[p] # "open"
  /\ wal' = Order("sale", 0, OwnedRaw, seen)
  /\ GoTo("sending")
  /\ UNCHANGED <<account, record, answer, pending, snapshot, timers, counts>>

CycleHolds ==
  /\ at = "cycle" /\ EndTick
  /\ UNCHANGED <<account, record, wal, answer, pending, timers, counts>>

\* The tick's own ledger write.  A withdrawal, or an exact sale, that a fresh
\* account proves is resolved at once; a claim waits for the next tick.
StatusOf(report) ==
  CASE report = "complete" -> "complete" [] report = "incomplete" -> "pending"
    [] report = "dust" -> "dust" [] OTHER -> "none"
BookResult ==
  /\ at = "sent"
  /\ \/ /\ pending.side # "sale"
        /\ record' = Applied(pending.lp, StatusOf(pending.report), pending.raw)
        /\ \/ EndTick
           \/ /\ pending.side = "withdraw" /\ pending.report \notin {"failed", "partial"}
              /\ GoTo("written") /\ UNCHANGED snapshot
     \/ /\ pending.side = "sale" /\ EndTick /\ UNCHANGED record
     \/ /\ pending.report = "sold" /\ ExactlySold(pending) /\ OwnedRaw = pending.input
        /\ record' = SweptClean /\ GoTo("written") /\ UNCHANGED snapshot
  /\ UNCHANGED <<account, wal, answer, pending, timers, counts>>

\* The daemon dies, or loses the answer it waits for.
Crash ==
  /\ at # "idle" /\ crashes < MaxCrashes
  /\ at = "written" /\ pending.side = "sale" => "replayed" \in Faults
  /\ crashes' = crashes + 1 /\ EndTick
  /\ UNCHANGED <<account, record, wal, answer, pending, timers, moves>>

Next ==
  \/ Elapse \/ OwnerMoves
  \/ \E p \in Lps : OpenLp(p) \/ CycleExits(p)
  \/ LandExit \/ LandSale \/ FailOnChain \/ Refuse \/ TakeAnswer
  \/ ResolveWithdrawal \/ ResolveClaim \/ ResolveSale \/ ResolveFailed
  \/ ClearPending \/ ReadAccount
  \/ Sweep \/ CycleSells \/ CycleHolds \/ BookResult \/ Crash

Spec == Init /\ [][Next]_vars

---------------------------------------------------------------------------
\* Whatever the program sells, the owner's tokens stay: the wallet never holds
\* less than they are (live-daemon.ts:1536, solana-execution-server.ts:815,
\* pending-submission-recovery.ts:369).
UsersTokensStay == wallet >= users

\* Between orders the residuals on the books are tokens the wallet holds beside
\* the owner's, so the next sale is of the program's own.
BooksAreBacked == Quiet => OwnedRaw + users <= wallet
=============================================================================
