-------------------------- MODULE OwnedTokens_proofs --------------------------
(***************************************************************************)
(* Proofs about OwnedTokens, for any number of LPs, any deposit and any    *)
(* number of moves of the owner and crashes of the daemon, as long as none *)
(* of the three things happens that Faults names.                          *)
(*                                                                         *)
(* The inductive invariant follows an order from its decision to the end   *)
(* of its recovery.  While nothing was sent, the balance before the order  *)
(* is the wallet's.  Once an exit landed, that balance covers the owner's  *)
(* tokens and the residuals of every other LP, and what lies above it is   *)
(* what the exit paid out and did not sell.  It says nothing of the        *)
(* residual of the exit's own LP, which the tick and the recovery after it *)
(* may both write.  A sale is of all residuals at once: until it is booked *)
(* they stand at exactly what it took out of the wallet.                   *)
(***************************************************************************)
EXTENDS OwnedTokens, Sums_proofs, TLAPS

-----------------------------------------------------------------------------
(* What the records add up to.                                             *)

Entries == [status : {"none", "pending", "complete", "dust"}, raw : Nat]
Raws(rec) == [r \in Records |-> rec[r].raw]
ResidualsOf(rec) == {r \in Records : rec[r].status = "pending" /\ rec[r].raw > 0}
Owed(rec) == SumFunctionOnSet(Raws(rec), ResidualsOf(rec))
\* What is owed for the other records than p's.
Others(rec, p) == SumFunctionOnSet(Raws(rec), ResidualsOf(rec) \ {p})
\* What one record adds.
Share(entry) == IF entry.status = "pending" /\ entry.raw > 0 THEN entry.raw ELSE 0

RecordsTyped(rec) == rec \in [Records -> Entries] /\ IsFiniteSet(ResidualsOf(rec))

LEMMA OwedIsOwned == OwnedRaw = Owed(record) /\ Residuals = ResidualsOf(record)
BY DEF OwnedRaw, Owed, Raws, Residuals, ResidualsOf

LEMMA OwedSplits ==
  ASSUME NEW rec, RecordsTyped(rec), NEW p \in Records
  PROVE Owed(rec) \in Nat /\ Others(rec, p) \in Nat /\ Owed(rec) = Others(rec, p) + Share(rec[p])
<1> DEFINE f == Raws(rec)
           S == ResidualsOf(rec)
<1>1. S \in SUBSET Records /\ IsFiniteSet(S) BY DEF RecordsTyped, ResidualsOf
<1>2. \A r \in S : f[r] = rec[r].raw /\ f[r] \in Nat
  BY DEF Raws, ResidualsOf, RecordsTyped, Entries
<1>3. p \in S <=> rec[p].status = "pending" /\ rec[p].raw > 0 BY DEF ResidualsOf
<1> HIDE DEF f, S
<1>4. SumFunctionOnSet(f, S) \in Nat /\ SumFunctionOnSet(f, S \ {p}) \in Nat BY <1>1, <1>2, SumType
<1>5. CASE p \in S
  <2>1. SumFunctionOnSet(f, S) = f[p] + SumFunctionOnSet(f, S \ {p}) BY <1>1, <1>2, <1>5, SumTakesOut
  <2> QED BY <1>2, <1>3, <1>4, <1>5, <2>1 DEF Owed, Others, Share, f, S
<1>6. CASE p \notin S
  <2>1. S \ {p} = S BY <1>6
  <2>2. Share(rec[p]) = 0 BY <1>3, <1>6 DEF Share
  <2>3. Owed(rec) = Others(rec, p) BY <2>1 DEF Owed, Others, f, S
  <2>4. Owed(rec) \in Nat BY <1>4 DEF Owed, f, S
  <2> QED BY <2>2, <2>3, <2>4
<1> QED BY <1>5, <1>6

\* Rewriting a record leaves the others' residuals alone.
LEMMA OthersStay ==
  ASSUME NEW rec, RecordsTyped(rec), NEW p \in Records, NEW entry \in Entries
  PROVE LET new == [rec EXCEPT ![p] = entry]
        IN RecordsTyped(new) /\ new[p] = entry /\ Others(new, p) = Others(rec, p)
<1> DEFINE new == [rec EXCEPT ![p] = entry]
           S == ResidualsOf(rec)
<1>1. /\ new \in [Records -> Entries]
      /\ \A r \in Records : new[r] = IF r = p THEN entry ELSE rec[r]
  BY DEF RecordsTyped
<1> HIDE DEF new
<1>2. ResidualsOf(new) \in SUBSET (S \cup {p}) /\ ResidualsOf(new) \ {p} = S \ {p}
  BY <1>1 DEF ResidualsOf
<1>3. IsFiniteSet(S \cup {p}) /\ IsFiniteSet(S \ {p})
  BY FS_AddElement, FS_RemoveElement DEF RecordsTyped
<1>4. IsFiniteSet(ResidualsOf(new)) BY <1>2, <1>3, FS_Subset
<1>5. \A r \in S \ {p} : Raws(rec)[r] = Raws(new)[r] BY <1>1 DEF Raws, ResidualsOf
<1>6. SumFunctionOnSet(Raws(rec), S \ {p}) = SumFunctionOnSet(Raws(new), S \ {p})
  BY <1>3, <1>5, SumAgrees
<1>7. RecordsTyped(new) BY <1>1, <1>4 DEF RecordsTyped
<1>8. Others(new, p) = Others(rec, p) BY <1>2, <1>6 DEF Others
<1> QED BY <1>1, <1>7, <1>8 DEF new

LEMMA NothingOwed ==
  ASSUME NEW rec, ResidualsOf(rec) = {} PROVE Owed(rec) = 0 /\ IsFiniteSet(ResidualsOf(rec))
BY SumOfNone, FS_EmptySet DEF Owed

LEMMA SweptIsClean ==
  ASSUME RecordsTyped(record) PROVE RecordsTyped(SweptClean) /\ Owed(SweptClean) = 0
<1>1. SweptClean \in [Records -> Entries] BY DEF SweptClean, RecordsTyped, Entries
<1>2. ResidualsOf(SweptClean) = {} BY DEF ResidualsOf, SweptClean, Residuals
<1> QED BY <1>1, <1>2, NothingOwed DEF RecordsTyped

\* What the others owe is part of what is owed.
LEMMA OthersAreOwed ==
  ASSUME NEW rec, RecordsTyped(rec), NEW p \in Records
  PROVE Others(rec, p) \in Nat /\ Others(rec, p) <= Owed(rec)
<1>1. Share(rec[p]) \in Nat BY DEF Share, RecordsTyped, Entries
<1> QED BY <1>1, OwedSplits

-----------------------------------------------------------------------------
(* The invariant.                                                          *)

ExitSides == {"claim", "withdraw"}

\* An order of which nothing was sent: no token moved since it was decided.
SentInv(o) ==
  /\ o.pre = wallet /\ users + Owed(record) <= wallet
  /\ \/ o.side = "sale" /\ o.input = Owed(record) /\ o.input > 0
     \/ o.side \in ExitSides /\ o.lp \in Lps

\* An exit whose result is known, booked or not.
ExitInv(o) ==
  /\ o.side \in ExitSides /\ o.lp \in Lps
  /\ o.report \in {"complete", "incomplete", "dust", "partial", "failed"}
  /\ users + Others(record, o.lp) <= o.pre /\ o.pre <= wallet
  /\ users + Owed(record) <= wallet
  /\ o.raw = IF o.report = "incomplete" THEN wallet - o.pre ELSE 0
  /\ o.report = "incomplete" => o.raw > 0

\* A sale whose result is known.
SaleInv(o) ==
  /\ o.side = "sale" /\ o.raw = 0
  /\ \/ o.report = "failed" /\ users + Owed(record) <= wallet /\ at # "written"
     \/ /\ o.report = "sold" /\ users <= wallet /\ wallet + o.input = o.pre
        /\ \/ at = "written" /\ Owed(record) = 0
           \/ at # "written" /\ Owed(record) = o.input /\ o.input > 0

DoneInv(o) == ExitInv(o) \/ SaleInv(o)

\* Which files a stage of the tick finds.
StageInv ==
  /\ at \in {"sweeping", "sending"} => wal # None
  /\ at \in {"sent", "written"} => pending # None
  /\ at \in {"sweep", "cycle"} => wal = None /\ pending = None /\ seen = wallet
  /\ at = "sweeping" /\ answer = None => seen = wallet
  /\ wal # None => pending = None /\ at \in {"idle", "sweeping", "sending"}
  /\ answer # None => wal # None

TypeInv == TokensTypeOK /\ IsFiniteSet(ResidualsOf(record))

FileInv ==
  /\ StageInv
  /\ wal = None /\ pending = None => users + Owed(record) <= wallet
  /\ wal # None /\ answer = None => SentInv(wal)
  /\ answer # None => DoneInv(answer)
  /\ pending # None => DoneInv(pending)

TokenInv == TypeInv /\ FileInv

Hypotheses == OwnedTokensAssumption /\ Faults = {}

LEMMA RecordIsTyped == ASSUME TypeInv PROVE RecordsTyped(record) /\ Owed(record) \in Nat
<1>1. RecordsTyped(record) BY DEF TypeInv, TokensTypeOK, RecordsTyped, Entries
<1>2. 0 \in Records BY DEF Records
<1> QED BY <1>1, <1>2, OwedSplits

LEMMA InitKeeps == ASSUME Hypotheses, Init PROVE TokenInv
<1>1. wallet \in Nat /\ users = wallet BY DEF Init, Hypotheses, OwnedTokensAssumption
<1>2. ResidualsOf(record) = {} BY DEF Init, ResidualsOf, Unswept
<1>3. Owed(record) = 0 /\ IsFiniteSet(ResidualsOf(record)) BY <1>2, NothingOwed
<1>4. TokensTypeOK
  <2>1. record \in [Records -> Entries] BY DEF Init, Unswept, Entries
  <2>2. moves \in 0..MaxMoves /\ crashes \in 0..MaxCrashes
    BY DEF Init, Hypotheses, OwnedTokensAssumption
  <2>3. wal = None /\ answer = None /\ pending = None BY DEF Init
  <2>4. lp \in [Lps -> {"unopened", "open", "gone"}] /\ fee \in [Lps -> Nat] BY DEF Init
  <2>5. /\ at \in {"idle", "sweep", "sweeping", "cycle", "sending", "sent", "written"}
        /\ seen \in Nat /\ value \in Values \cup {"unknown"}
        /\ due \in BOOLEAN /\ cooled \in BOOLEAN
    BY DEF Init
  <2> QED BY <1>1, <2>1, <2>2, <2>3, <2>4, <2>5 DEF TokensTypeOK, Entries
<1>5. FileInv BY <1>1, <1>3 DEF Init, FileInv, StageInv
<1> QED BY <1>3, <1>4, <1>5 DEF TokenInv, TypeInv

\* A step that touches none of what the invariant is about.
LEMMA ElapseKeeps == ASSUME TokenInv, Elapse PROVE TokenInv'
<1>1. UNCHANGED <<wallet, users, lp, fee, record, wal, answer, pending, at, seen, value,
                  moves, crashes>>
  BY DEF Elapse, account, snapshot, counts
<1>2. due' \in BOOLEAN /\ cooled' \in BOOLEAN BY DEF Elapse, TokenInv, TypeInv, TokensTypeOK
<1> QED BY <1>1, <1>2 DEF TokenInv, TypeInv, TokensTypeOK, FileInv, StageInv, SentInv, DoneInv,
     ExitInv, SaleInv

LEMMA OwnerMovesKeeps == ASSUME Hypotheses, TokenInv, OwnerMoves PROVE TokenInv'
<1>1. /\ UNCHANGED <<lp, fee, record, wal, answer, pending, at, seen, value, due, cooled, crashes>>
      /\ at = "idle" /\ wal = None /\ pending = None /\ moves < MaxMoves /\ moves' = moves + 1
  BY DEF OwnerMoves, Quiet, snapshot, timers
<1>2. wallet \in Nat /\ users \in Nat /\ Deposit \in Nat /\ MaxMoves \in Nat /\ moves \in 0..MaxMoves
  BY DEF TokenInv, TypeInv, TokensTypeOK, Hypotheses, OwnedTokensAssumption
<1>3. Owed(record) \in Nat /\ users + Owed(record) <= wallet
  BY <1>1, RecordIsTyped DEF TokenInv, FileInv
<1>4. /\ wallet' \in Nat /\ users' \in Nat /\ users' + Owed(record) <= wallet'
      /\ moves' \in 0..MaxMoves
  BY <1>1, <1>2, <1>3 DEF OwnerMoves
<1>5. TypeInv' BY <1>1, <1>4 DEF TokenInv, TypeInv, TokensTypeOK
<1>6. answer = None BY <1>1 DEF TokenInv, FileInv, StageInv
<1>7. FileInv' BY <1>1, <1>4, <1>6 DEF TokenInv, FileInv, StageInv
<1> QED BY <1>5, <1>7 DEF TokenInv

LEMMA OpenLpKeeps == ASSUME TokenInv, NEW p \in Lps, OpenLp(p) PROVE TokenInv'
<1>1. UNCHANGED <<wallet, users, record, wal, answer, pending, at, seen, value, due, cooled,
                  moves, crashes>>
  BY DEF OpenLp, snapshot, timers, counts
<1>2. lp' \in [Lps -> {"unopened", "open", "gone"}] /\ fee' \in [Lps -> Nat]
  BY DEF OpenLp, TokenInv, TypeInv, TokensTypeOK
<1> QED BY <1>1, <1>2 DEF TokenInv, TypeInv, TokensTypeOK, FileInv, StageInv, SentInv, DoneInv,
     ExitInv, SaleInv

\* The fields of an order that is on its way.
LEMMA WalTyped ==
  ASSUME TokenInv, wal # None
  PROVE /\ wal \in OrdersOf({"unsent"}) /\ wal.input \in Nat /\ wal.pre \in Nat
        /\ wal.side \in {"sale", "claim", "withdraw"} /\ wal.lp \in Records
BY DEF TokenInv, TypeInv, TokensTypeOK, OrdersOf

LEMMA UnservedMeans ==
  ASSUME TokenInv, Unserved
  PROVE /\ wal # None /\ answer = None /\ pending = None /\ SentInv(wal)
        /\ at \in {"idle", "sweeping", "sending"}
BY DEF TokenInv, FileInv, StageInv, Unserved

\* The stored answer is the order with its result.
LEMMA ReplyMeans ==
  ASSUME TokenInv, wal # None, NEW report \in Reports \ {"unsent"}, NEW raw \in Nat,
         Reply(report, raw)
  PROVE /\ answer' \in OrdersOf(Reports \ {"unsent"}) /\ answer' # None
        /\ answer'.side = wal.side /\ answer'.lp = wal.lp
        /\ answer'.input = wal.input /\ answer'.pre = wal.pre
        /\ answer'.report = report /\ answer'.raw = raw
<1>1. wal \in OrdersOf({"unsent"}) BY WalTyped
<1>2. answer' = [wal EXCEPT !.report = report, !.raw = raw] BY DEF Reply
<1>3. answer' \in OrdersOf(Reports \ {"unsent"}) /\ answer'.side = wal.side /\ answer'.lp = wal.lp
      /\ answer'.input = wal.input /\ answer'.pre = wal.pre
      /\ answer'.report = report /\ answer'.raw = raw
  BY <1>1, <1>2 DEF OrdersOf
<1>4. wal.side # "none" BY <1>1 DEF OrdersOf
<1> QED BY <1>3, <1>4 DEF None

\* An answer is stored: the invariant asks only what it says.
LEMMA AnswerKeeps ==
  ASSUME TokenInv, wal # None, pending = None, at \in {"idle", "sweeping", "sending"},
         wallet' \in Nat, lp' \in [Lps -> {"unopened", "open", "gone"}], fee' \in [Lps -> Nat],
         answer' \in OrdersOf(Reports \ {"unsent"}), answer' # None, DoneInv(answer)',
         UNCHANGED <<users, record, wal, pending, at, seen, value, due, cooled, moves, crashes>>
  PROVE TokenInv'
<1>1. TypeInv' BY DEF TokenInv, TypeInv, TokensTypeOK
<1>2. StageInv' BY DEF TokenInv, FileInv, StageInv
<1> QED BY <1>1, <1>2 DEF TokenInv, FileInv

\* The exit lands on top of the balance before it, and only what it paid out is sold.
LEMMA LandExitKeeps == ASSUME Hypotheses, TokenInv, LandExit PROVE TokenInv'
<1>1. /\ wal # None /\ answer = None /\ pending = None /\ SentInv(wal)
      /\ at \in {"idle", "sweeping", "sending"}
      /\ wal.side \in ExitSides
      /\ UNCHANGED <<users, record, wal, pending, at, seen, value, due, cooled, moves, crashes>>
  BY UnservedMeans DEF LandExit, ExitSides, snapshot, timers, counts
<1>2. wal.lp \in Lps /\ wal.pre = wallet /\ users + Owed(record) <= wallet
  BY <1>1 DEF SentInv, ExitSides
<1>3. /\ wallet \in Nat /\ users \in Nat /\ fee \in [Lps -> Nat]
      /\ lp \in [Lps -> {"unopened", "open", "gone"}]
  BY DEF TokenInv, TypeInv, TokensTypeOK
<1>4. PaidOut \in Nat BY <1>2, <1>3 DEF PaidOut
<1>5. lp' \in [Lps -> {"unopened", "open", "gone"}] /\ fee' \in [Lps -> Nat]
  BY <1>2, <1>3 DEF LandExit, Leaves
<1>6. /\ Others(record, wal.lp) \in Nat /\ Others(record, wal.lp) <= Owed(record)
      /\ Owed(record) \in Nat
  <2>1. wal.lp \in Records BY <1>2 DEF Records
  <2>2. RecordsTyped(record) /\ Owed(record) \in Nat BY RecordIsTyped DEF TokenInv
  <2> QED BY <2>1, <2>2, OthersAreOwed
<1> DEFINE paid == wallet + PaidOut
           own == Sellable(paid)
<1>7. own = PaidOut /\ Sellable(wallet) = 0 BY <1>2, <1>3, <1>4 DEF Sellable
<1>8. \E report \in {"complete", "incomplete", "dust", "partial"}, raw \in Nat :
        /\ Reply(report, raw) /\ wallet' \in Nat /\ wallet' >= wallet
        /\ raw = IF report = "incomplete" THEN wallet' - wallet ELSE 0
        /\ report = "incomplete" => raw > 0
  <2> HIDE DEF own
  <2>1. \/ wallet' = paid - own /\ Reply("complete", 0)
        \/ own > 0 /\ wallet' = paid /\ Reply("incomplete", own)
        \/ own > 0 /\ wallet' = paid /\ Reply("dust", 0)
        \/ wallet' = paid - Sellable(wallet) /\ Reply("complete", 0)
        \/ wallet' = paid /\ Reply("partial", 0)
    BY DEF LandExit, Hypotheses, own
  <2>2. CASE wallet' = paid - own /\ Reply("complete", 0) BY <1>3, <1>4, <1>7, <2>2
  <2>3. CASE own > 0 /\ wallet' = paid /\ Reply("incomplete", own) BY <1>3, <1>4, <1>7, <2>3
  <2>4. CASE wallet' = paid /\ Reply("dust", 0) BY <1>3, <1>4, <2>4
  <2>5. CASE wallet' = paid - Sellable(wallet) /\ Reply("complete", 0)
    BY <1>3, <1>4, <1>7, <2>5
  <2>6. CASE wallet' = paid /\ Reply("partial", 0) BY <1>3, <1>4, <2>6
  <2> QED BY <2>1, <2>2, <2>3, <2>4, <2>5, <2>6
<1>9. PICK report \in {"complete", "incomplete", "dust", "partial"}, raw \in Nat :
        /\ Reply(report, raw) /\ wallet' \in Nat /\ wallet' >= wallet
        /\ raw = IF report = "incomplete" THEN wallet' - wallet ELSE 0
        /\ report = "incomplete" => raw > 0
  BY <1>8
<1>10. /\ answer' \in OrdersOf(Reports \ {"unsent"}) /\ answer' # None
       /\ answer'.side = wal.side /\ answer'.lp = wal.lp
       /\ answer'.pre = wal.pre /\ answer'.report = report /\ answer'.raw = raw
  BY <1>1, <1>9, ReplyMeans DEF Reports
<1>11. ExitInv(answer)'
  <2>1. record' = record /\ users' = users BY <1>1
  <2>2. users + Others(record, wal.lp) <= wallet /\ users + Owed(record) <= wallet'
    BY <1>2, <1>3, <1>6, <1>9
  <2> QED BY <1>1, <1>2, <1>9, <1>10, <2>1, <2>2 DEF ExitInv
<1> QED BY <1>1, <1>5, <1>9, <1>10, <1>11, AnswerKeeps DEF DoneInv

LEMMA LandSaleKeeps == ASSUME TokenInv, LandSale PROVE TokenInv'
<1>1. /\ wal # None /\ answer = None /\ pending = None /\ SentInv(wal)
      /\ at \in {"idle", "sweeping", "sending"}
      /\ wal.side = "sale" /\ wal.input <= wallet /\ wallet' = wallet - wal.input
      /\ Reply("sold", 0)
      /\ UNCHANGED <<users, lp, fee, record, wal, pending, at, seen, value, due, cooled, moves,
                     crashes>>
  BY UnservedMeans DEF LandSale, snapshot, timers, counts
<1>2. /\ wal.pre = wallet /\ users + Owed(record) <= wallet
      /\ wal.input = Owed(record) /\ wal.input > 0
  BY <1>1 DEF SentInv, ExitSides
<1>3. wallet \in Nat /\ users \in Nat /\ wal.input \in Nat
  BY <1>1, WalTyped DEF TokenInv, TypeInv, TokensTypeOK
<1>4. /\ answer' \in OrdersOf(Reports \ {"unsent"}) /\ answer' # None
      /\ answer'.side = "sale" /\ answer'.input = wal.input
      /\ answer'.pre = wal.pre /\ answer'.report = "sold" /\ answer'.raw = 0
  BY <1>1, ReplyMeans DEF Reports
<1>5. SaleInv(answer)' BY <1>1, <1>2, <1>3, <1>4 DEF SaleInv
<1>6. /\ wallet' \in Nat /\ lp' \in [Lps -> {"unopened", "open", "gone"}]
      /\ fee' \in [Lps -> Nat]
  BY <1>1, <1>3 DEF TokenInv, TypeInv, TokensTypeOK
<1> QED BY <1>1, <1>4, <1>5, <1>6, AnswerKeeps DEF DoneInv

LEMMA FailKeeps == ASSUME TokenInv, FailOnChain PROVE TokenInv'
<1>1. /\ wal # None /\ answer = None /\ pending = None /\ SentInv(wal)
      /\ at \in {"idle", "sweeping", "sending"} /\ Reply("failed", 0)
      /\ UNCHANGED <<wallet, users, lp, fee, record, wal, pending, at, seen, value, due, cooled,
                     moves, crashes>>
  BY UnservedMeans DEF FailOnChain, account, snapshot, timers, counts
<1>2. wal.pre = wallet /\ users + Owed(record) <= wallet BY <1>1 DEF SentInv
<1>3. /\ wallet \in Nat /\ users \in Nat /\ wal.lp \in Records
      /\ lp \in [Lps -> {"unopened", "open", "gone"}] /\ fee \in [Lps -> Nat]
  BY <1>1, WalTyped DEF TokenInv, TypeInv, TokensTypeOK
<1>4. /\ answer' \in OrdersOf(Reports \ {"unsent"}) /\ answer' # None
      /\ answer'.side = wal.side /\ answer'.lp = wal.lp /\ answer'.input = wal.input
      /\ answer'.pre = wal.pre /\ answer'.report = "failed" /\ answer'.raw = 0
  BY <1>1, ReplyMeans DEF Reports
<1>5. DoneInv(answer)'
  <2>1. CASE wal.side = "sale" BY <1>1, <1>2, <1>4, <2>1 DEF DoneInv, SaleInv
  <2>2. CASE wal.side # "sale"
    <3>1. wal.side \in ExitSides /\ wal.lp \in Lps BY <1>1, <2>2 DEF SentInv
    <3>2. users + Others(record, wal.lp) <= wallet
      <4>1. RecordsTyped(record) /\ Owed(record) \in Nat BY RecordIsTyped DEF TokenInv
      <4> QED BY <1>2, <1>3, <4>1, OthersAreOwed
    <3> QED BY <1>1, <1>2, <1>3, <1>4, <3>1, <3>2 DEF DoneInv, ExitInv
  <2> QED BY <2>1, <2>2
<1> QED BY <1>1, <1>3, <1>4, <1>5, AnswerKeeps

\* Refused: the wallet, the books and the owner are where they were.
LEMMA RefuseKeeps == ASSUME TokenInv, Refuse PROVE TokenInv'
<1>1. /\ wal # None /\ answer = None /\ pending = None /\ SentInv(wal)
      /\ at \in {"idle", "sweeping", "sending"}
      /\ wal' = None
      /\ UNCHANGED <<wallet, users, lp, fee, record, answer, pending, due, moves, crashes>>
  BY UnservedMeans DEF Refuse, account, counts
<1>2. cooled' \in BOOLEAN BY DEF Refuse, TokenInv, TypeInv, TokensTypeOK
<1>3. \/ at = "sweeping" /\ at' = "cycle" /\ seen' = seen /\ value' = value
      \/ at # "sweeping" /\ at' = "idle" /\ seen' = 0 /\ value' = "unknown"
  BY DEF Refuse, GoTo, EndTick, snapshot
<1>4. TypeInv'
  BY <1>1, <1>2, <1>3 DEF TokenInv, TypeInv, TokensTypeOK
<1>5. users + Owed(record) <= wallet BY <1>1 DEF SentInv
<1>6. at = "sweeping" => seen = wallet
  BY <1>1 DEF TokenInv, FileInv, StageInv
<1>7. StageInv' BY <1>1, <1>3, <1>6 DEF TokenInv, FileInv, StageInv
<1> QED BY <1>1, <1>4, <1>5, <1>7 DEF TokenInv, FileInv

\* The answer becomes the pending file with all it says.
LEMMA TakeAnswerKeeps == ASSUME TokenInv, TakeAnswer PROVE TokenInv'
<1>1. /\ answer # None /\ wal # None /\ pending = None /\ DoneInv(answer)
      /\ pending' = answer /\ wal' = None /\ answer' = None
      /\ at \in {"idle", "sweeping", "sending"}
      /\ UNCHANGED <<wallet, users, lp, fee, record, moves, crashes>>
  BY DEF TakeAnswer, account, counts, TokenInv, FileInv, StageInv
<1>2. cooled' \in BOOLEAN /\ due' \in BOOLEAN
  BY DEF TakeAnswer, TokenInv, TypeInv, TokensTypeOK
<1>3. \/ at' = "sent" /\ seen' = seen /\ value' = value
      \/ at' = "idle" /\ seen' = 0 /\ value' = "unknown"
  BY DEF TakeAnswer, GoTo, EndTick, snapshot
<1>4. TypeInv' BY <1>1, <1>2, <1>3 DEF TokenInv, TypeInv, TokensTypeOK
<1>5. StageInv' BY <1>1, <1>3 DEF StageInv
<1>6. DoneInv(pending)' BY <1>1, <1>3 DEF DoneInv, ExitInv, SaleInv
<1> QED BY <1>1, <1>4, <1>5, <1>6 DEF TokenInv, FileInv

-----------------------------------------------------------------------------
(* The books.                                                              *)

\* The pending order, when nothing else is on its way.
LEMMA PendingTyped ==
  ASSUME TokenInv, pending # None
  PROVE /\ pending \in OrdersOf(Reports \ {"unsent"}) /\ DoneInv(pending)
        /\ pending.input \in Nat /\ pending.pre \in Nat /\ pending.raw \in Nat
        /\ pending.lp \in Records /\ wal = None /\ answer = None
        /\ wallet \in Nat /\ users \in Nat
BY DEF TokenInv, TypeInv, TokensTypeOK, FileInv, StageInv, OrdersOf

\* One record is rewritten: what is owed is what the others owe, and its new share.
LEMMA Rewritten ==
  ASSUME TypeInv, NEW p \in Records, NEW entry \in Entries,
         record' = [record EXCEPT ![p] = entry]
  PROVE /\ RecordsTyped(record') /\ Others(record', p) = Others(record, p)
        /\ Owed(record') = Others(record, p) + Share(entry)
        /\ Others(record, p) \in Nat /\ Share(entry) \in Nat
<1>1. RecordsTyped(record) BY RecordIsTyped
<1>2. RecordsTyped(record') /\ record'[p] = entry /\ Others(record', p) = Others(record, p)
  BY <1>1, OthersStay
<1>3. Share(entry) \in Nat BY DEF Share, Entries
<1> QED BY <1>1, <1>2, <1>3, OwedSplits

\* Booking an exit: the record keeps its share or gets one that the wallet holds above the
\* balance before the exit.
LEMMA ExitBooked ==
  ASSUME TokenInv, pending # None, ExitInv(pending), NEW entry \in Entries,
         record' = [record EXCEPT ![pending.lp] = entry],
         Share(entry) = 0 \/ Share(entry) <= wallet - pending.pre \/ entry = record[pending.lp],
         UNCHANGED <<wallet, users, pending>>
  PROVE RecordsTyped(record') /\ ExitInv(pending)'
<1> DEFINE p == pending.lp
<1>1. TypeInv /\ p \in Records BY DEF TokenInv, ExitInv, Records
<1>2. /\ RecordsTyped(record') /\ Others(record', p) = Others(record, p)
      /\ Owed(record') = Others(record, p) + Share(entry)
      /\ Others(record, p) \in Nat /\ Share(entry) \in Nat
  BY <1>1, Rewritten
<1>3. Owed(record) = Others(record, p) + Share(record[p]) BY <1>1, RecordIsTyped, OwedSplits
<1>4. /\ users + Others(record, p) <= pending.pre /\ pending.pre <= wallet
      /\ users + Owed(record) <= wallet
      /\ pending.pre \in Nat /\ wallet \in Nat /\ users \in Nat
  BY PendingTyped DEF ExitInv
<1>5. users + Owed(record') <= wallet
  <2>1. CASE entry = record[p] BY <1>2, <1>3, <1>4, <2>1
  <2>2. CASE Share(entry) = 0 BY <1>2, <1>4, <2>2
  <2>3. CASE Share(entry) <= wallet - pending.pre BY <1>2, <1>4, <2>3
  <2> QED BY <2>1, <2>2, <2>3
<1> QED BY <1>2, <1>4, <1>5 DEF ExitInv

\* The books of a pending order are written, and the files stay.
LEMMA BookedKeeps ==
  ASSUME TokenInv, pending # None, RecordsTyped(record'), DoneInv(pending)',
         \/ at' \in {"idle", "written"} /\ seen' = 0 /\ value' = "unknown"
         \/ at' \in {"idle", "written"} /\ UNCHANGED <<seen, value>>,
         UNCHANGED <<wallet, users, lp, fee, wal, answer, pending, due, cooled, moves, crashes>>
  PROVE TokenInv'
<1>1. wal = None /\ answer = None BY PendingTyped
<1>2. TypeInv' BY DEF TokenInv, TypeInv, TokensTypeOK, RecordsTyped, Entries
<1>3. StageInv' BY <1>1 DEF StageInv
<1> QED BY <1>1, <1>2, <1>3 DEF TokenInv, FileInv

LEMMA AppliedMeans ==
  ASSUME TypeInv, NEW p \in Records, NEW raw \in Nat,
         NEW status \in {"none", "pending", "complete", "dust"}
  PROVE \E entry \in Entries :
          /\ Applied(p, status, raw) = [record EXCEPT ![p] = entry]
          /\ status \in {"complete", "dust"} => Share(entry) = 0
          /\ status = "pending" /\ raw > 0 => Share(entry) = raw
          /\ status = "none" /\ raw = 0 => entry = record[p]
<1> DEFINE entry == [status |-> IF status = "none" THEN record[p].status ELSE status,
                     raw |-> IF raw = 0 THEN record[p].raw ELSE raw]
<1>1. record \in [Records -> Entries] BY DEF TypeInv, TokensTypeOK, Entries
<1>2. record[p] \in Entries BY <1>1
<1>3. entry \in Entries BY <1>2 DEF Entries
<1>4. Applied(p, status, raw) = [record EXCEPT ![p] = entry] BY <1>1 DEF Applied
<1>5. status = "none" /\ raw = 0 => entry = record[p] BY <1>2 DEF Entries
<1>6. /\ entry.status = IF status = "none" THEN record[p].status ELSE status
      /\ entry.raw = IF raw = 0 THEN record[p].raw ELSE raw
  OBVIOUS
<1> HIDE DEF entry
<1>7. /\ status \in {"complete", "dust"} => Share(entry) = 0
      /\ status = "pending" /\ raw > 0 => Share(entry) = raw
  BY <1>6 DEF Share
<1> QED BY <1>3, <1>4, <1>5, <1>7

\* resolveRecoveredLpResidualEvidence writes only what the account shows above the balance
\* before the exit.
LEMMA ResolveExitKeeps ==
  ASSUME TokenInv, pending.side \in ExitSides, Succeeded, Resolve(BooksOfExit(pending)), pending # None
  PROVE TokenInv'
<1>1. /\ at = "idle" /\ at' = "written" /\ record' = BooksOfExit(pending)
      /\ UNCHANGED <<wallet, users, lp, fee, wal, answer, pending, seen, value, due, cooled,
                     moves, crashes>>
  BY DEF Resolve, GoTo, account, snapshot, timers, counts
<1>2. /\ ExitInv(pending) /\ pending.pre \in Nat /\ wallet \in Nat /\ pending.lp \in Records
      /\ TypeInv
  BY PendingTyped DEF DoneInv, SaleInv, ExitSides, TokenInv
<1> DEFINE owned == wallet - pending.pre
<1>3. owned \in Nat BY <1>2 DEF ExitInv
<1>4. PICK entry \in Entries :
        record' = [record EXCEPT ![pending.lp] = entry] /\ (Share(entry) = 0 \/ Share(entry) <= owned)
  <2>1. CASE ~ TrustsExit(pending)
    <3>1. Unswept \in Entries /\ Share(Unswept) = 0 BY DEF Unswept, Entries, Share
    <3> QED BY <1>1, <2>1, <3>1 DEF BooksOfExit
  <2>2. CASE TrustsExit(pending)
    <3>1. /\ CleanupStatus(pending) \in {"pending", "complete", "dust"}
          /\ CleanupStatus(pending) = "pending" => wallet > pending.pre
      BY DEF CleanupStatus
    <3>2. record' = Applied(pending.lp, CleanupStatus(pending), owned) BY <1>1, <2>2 DEF BooksOfExit
    <3>3. CleanupStatus(pending) = "pending" => owned > 0 BY <1>2, <3>1
    <3> DEFINE status == CleanupStatus(pending)
    <3>4. status \in {"none", "pending", "complete", "dust"} BY <3>1
    <3> DEFINE p == pending.lp
    <3>8. TypeInv /\ p \in Records BY <1>2
    <3> HIDE DEF owned, status, p
    <3>5. PICK entry \in Entries :
            /\ Applied(p, status, owned) = [record EXCEPT ![p] = entry]
            /\ status \in {"complete", "dust"} => Share(entry) = 0
            /\ status = "pending" /\ owned > 0 => Share(entry) = owned
            /\ status = "none" /\ owned = 0 => entry = record[p]
      BY <1>3, <3>4, <3>8, AppliedMeans
    <3>6. record' = [record EXCEPT ![pending.lp] = entry] BY <3>2, <3>5 DEF status, p
    <3>7. Share(entry) = 0 \/ Share(entry) <= owned BY <1>3, <3>1, <3>3, <3>5 DEF status
    <3> QED BY <3>6, <3>7
  <2> QED BY <2>1, <2>2
<1>5. RecordsTyped(record') /\ ExitInv(pending)' BY <1>1, <1>2, <1>4, ExitBooked
<1> QED BY <1>1, <1>5, BookedKeeps DEF DoneInv

\* An exact sale was of all residuals: booking it leaves none.
LEMMA SweptKeeps ==
  ASSUME TokenInv, pending # None, SaleInv(pending), pending.report = "sold",
         record' = SweptClean, at' = "written",
         UNCHANGED <<wallet, users, lp, fee, wal, answer, pending, seen, value, due, cooled, moves,
                     crashes>>
  PROVE TokenInv'
<1>1. RecordsTyped(record') /\ Owed(record') = 0 BY RecordIsTyped, SweptIsClean DEF TokenInv
<1>2. SaleInv(pending)' BY <1>1 DEF SaleInv
<1> QED BY <1>1, <1>2, BookedKeeps DEF DoneInv

LEMMA ResolveSaleKeeps == ASSUME TokenInv, ResolveSale, pending # None PROVE TokenInv'
<1>1. /\ at = "idle" /\ at' = "written" /\ record' = BooksOfSale(pending)
      /\ pending.side = "sale" /\ pending.report = "sold"
      /\ UNCHANGED <<wallet, users, lp, fee, wal, answer, pending, seen, value, due, cooled,
                     moves, crashes>>
  BY DEF ResolveSale, Resolve, GoTo, account, snapshot, timers, counts
<1>2. SaleInv(pending) /\ Owed(record) = pending.input /\ pending.input > 0
  BY <1>1, PendingTyped DEF DoneInv, ExitInv, ExitSides, SaleInv
<1>3. Residuals # {} BY <1>2, NothingOwed, OwedIsOwned
<1>4. record' = SweptClean BY <1>1, <1>2, <1>3, OwedIsOwned DEF BooksOfSale
<1> QED BY <1>1, <1>2, <1>4, SweptKeeps

\* The pending file goes when its order failed, or when its books are on disk.
LEMMA ForgetKeeps ==
  ASSUME TokenInv, pending # None, pending' = None, users + Owed(record) <= wallet,
         at' = "idle", seen' \in Nat, value' \in Values \cup {"unknown"},
         UNCHANGED <<wallet, users, lp, fee, record, wal, answer, due, cooled, moves, crashes>>
  PROVE TokenInv'
<1>1. wal = None /\ answer = None BY PendingTyped
<1>2. TypeInv' BY DEF TokenInv, TypeInv, TokensTypeOK
<1> QED BY <1>1, <1>2 DEF TokenInv, FileInv, StageInv

LEMMA ResolveFailedKeeps == ASSUME TokenInv, ResolveFailed PROVE TokenInv'
<1>1. /\ at = "idle" /\ pending # None /\ pending.report = "failed" /\ pending' = None
      /\ UNCHANGED <<wallet, users, lp, fee, record, wal, answer, at, seen, value, due, cooled,
                     moves, crashes>>
  BY DEF ResolveFailed, account, snapshot, timers, counts
<1>2. users + Owed(record) <= wallet BY <1>1, PendingTyped DEF DoneInv, ExitInv, SaleInv
<1>3. seen \in Nat /\ value \in Values \cup {"unknown"} BY DEF TokenInv, TypeInv, TokensTypeOK
<1> QED BY <1>1, <1>2, <1>3, ForgetKeeps

LEMMA ClearPendingKeeps == ASSUME TokenInv, ClearPending PROVE TokenInv'
<1>1. /\ at = "written" /\ pending # None /\ pending' = None
      /\ at' = "idle" /\ seen' = 0 /\ value' = "unknown"
      /\ UNCHANGED <<wallet, users, lp, fee, record, wal, answer, due, cooled, moves, crashes>>
  BY DEF ClearPending, EndTick, account, timers, counts, TokenInv, FileInv, StageInv
<1>2. users + Owed(record) <= wallet BY <1>1, PendingTyped DEF DoneInv, ExitInv, SaleInv
<1> QED BY <1>1, <1>2, ForgetKeeps

\* StatusOf(report) and the amount of the result are what the wallet shows.
LEMMA BookResultKeeps == ASSUME TokenInv, BookResult PROVE TokenInv'
<1>1. /\ at = "sent" /\ pending # None /\ wal = None /\ answer = None
      /\ UNCHANGED <<wallet, users, lp, fee, wal, answer, pending, due, cooled, moves, crashes>>
  BY PendingTyped DEF BookResult, account, timers, counts, TokenInv, FileInv, StageInv
<1>2. CASE /\ pending.side # "sale"
           /\ record' = Applied(pending.lp, StatusOf(pending.report), pending.raw)
           /\ \/ EndTick
              \/ /\ pending.side = "withdraw" /\ pending.report \notin {"failed", "partial"}
                 /\ GoTo("written") /\ UNCHANGED snapshot
  <2>1. /\ ExitInv(pending) /\ pending.raw \in Nat /\ pending.pre \in Nat /\ wallet \in Nat
        /\ pending.lp \in Records /\ TypeInv
    BY <1>1, <1>2, PendingTyped DEF DoneInv, SaleInv, TokenInv
  <2> DEFINE status == StatusOf(pending.report)
             p == pending.lp
             raw == pending.raw
  <2>2. /\ status \in {"none", "pending", "complete", "dust"}
        /\ status = "pending" => pending.report = "incomplete"
        /\ pending.report = "incomplete" => status = "pending"
    BY <2>1 DEF StatusOf, ExitInv
  <2>3. record' = Applied(p, status, raw) /\ p \in Records /\ raw \in Nat BY <1>2, <2>1
  <2> HIDE DEF status, p, raw
  <2>4. PICK entry \in Entries :
          /\ Applied(p, status, raw) = [record EXCEPT ![p] = entry]
          /\ status \in {"complete", "dust"} => Share(entry) = 0
          /\ status = "pending" /\ raw > 0 => Share(entry) = raw
          /\ status = "none" /\ raw = 0 => entry = record[p]
    BY <2>1, <2>2, <2>3, AppliedMeans
  <2>5. Share(entry) = 0 \/ Share(entry) <= wallet - pending.pre \/ entry = record[pending.lp]
    <3>1. CASE pending.report = "incomplete"
      <4>1. raw = wallet - pending.pre /\ raw > 0 BY <2>1, <3>1 DEF ExitInv, raw
      <4> QED BY <2>2, <2>3, <2>4, <3>1, <4>1
    <3>2. CASE pending.report # "incomplete"
      <4>1. raw = 0 BY <2>1, <3>2 DEF ExitInv, raw
      <4> QED BY <2>2, <2>4, <3>2, <4>1 DEF p
    <3> QED BY <3>1, <3>2
  <2>6. RecordsTyped(record') /\ ExitInv(pending)'
    BY <1>1, <2>1, <2>3, <2>4, <2>5, ExitBooked DEF p
  <2>7. \/ at' \in {"idle", "written"} /\ seen' = 0 /\ value' = "unknown"
        \/ at' \in {"idle", "written"} /\ UNCHANGED <<seen, value>>
    BY <1>2 DEF EndTick, GoTo, snapshot
  <2> QED BY <1>1, <2>6, <2>7, BookedKeeps DEF DoneInv
<1>3. CASE pending.side = "sale" /\ EndTick /\ UNCHANGED record
  <2>1. SaleInv(pending) BY <1>1, <1>3, PendingTyped DEF DoneInv, ExitInv, ExitSides
  <2>2. RecordsTyped(record') BY <1>3, RecordIsTyped DEF TokenInv
  <2>3. at' = "idle" /\ seen' = 0 /\ value' = "unknown" BY <1>3 DEF EndTick
  <2>4. SaleInv(pending)' BY <1>1, <1>3, <2>1, <2>3 DEF SaleInv
  <2> QED BY <1>1, <2>2, <2>3, <2>4, BookedKeeps DEF DoneInv
<1>4. CASE /\ pending.report = "sold" /\ ExactlySold(pending) /\ OwnedRaw = pending.input
           /\ record' = SweptClean /\ GoTo("written") /\ UNCHANGED snapshot
  <2>1. SaleInv(pending) BY <1>1, <1>4, PendingTyped DEF DoneInv, ExitInv
  <2> QED BY <1>1, <1>4, <2>1, SweptKeeps DEF GoTo, snapshot
<1> QED BY <1>2, <1>3, <1>4 DEF BookResult

-----------------------------------------------------------------------------
(* The tick.                                                               *)

\* A tick that has read the account: its snapshot is the wallet until an order lands.
LEMMA ReadAccountKeeps == ASSUME Hypotheses, TokenInv, ReadAccount PROVE TokenInv'
<1>1. /\ at = "idle" /\ wal = None /\ pending = None /\ at' = "sweep" /\ seen' = wallet
      /\ UNCHANGED <<wallet, users, lp, fee, record, wal, answer, pending, due, cooled, moves,
                     crashes>>
  BY DEF ReadAccount, Quiet, GoTo, account, timers, counts
<1>2. value' \in Values \cup {"unknown"} BY DEF ReadAccount
<1>3. TypeInv' BY <1>1, <1>2 DEF TokenInv, TypeInv, TokensTypeOK
<1> QED BY <1>1, <1>3 DEF TokenInv, FileInv, StageInv

\* A stage of the tick that sends nothing.
LEMMA StageKeeps ==
  ASSUME TokenInv, wal = None, pending = None,
         \/ at' = "cycle" /\ at = "sweep" /\ UNCHANGED <<seen, value>>
         \/ at' = "idle" /\ seen' = 0 /\ value' = "unknown",
         due' \in BOOLEAN,
         UNCHANGED <<wallet, users, lp, fee, record, wal, answer, pending, cooled, moves, crashes>>
  PROVE TokenInv'
<1>1. answer = None BY DEF TokenInv, FileInv, StageInv
<1>2. TypeInv' BY DEF TokenInv, TypeInv, TokensTypeOK
<1> QED BY <1>1, <1>2 DEF TokenInv, FileInv, StageInv

LEMMA OrderMeans ==
  ASSUME NEW side \in {"sale", "claim", "withdraw"}, NEW p \in Records, NEW input \in Nat,
         NEW pre \in Nat
  PROVE LET o == Order(side, p, input, pre)
        IN /\ o \in OrdersOf({"unsent"}) /\ o # None
           /\ o.side = side /\ o.lp = p /\ o.input = input /\ o.pre = pre
<1> DEFINE o == Order(side, p, input, pre)
<1>1. o.side = side /\ side # "none" BY DEF Order
<1>2. o # None BY <1>1 DEF None
<1> QED BY <1>2 DEF Order, OrdersOf

\* An order is written to the WAL while the wallet is as the tick has seen it.
LEMMA DecideKeeps ==
  ASSUME TokenInv, at \in {"sweep", "cycle"}, NEW side \in {"sale", "claim", "withdraw"},
         NEW p \in Records, NEW input \in Nat, wal' = Order(side, p, input, seen),
         side = "sale" => input = OwnedRaw /\ input > 0,
         side # "sale" => p \in Lps,
         at' \in {"sweeping", "sending"}, due' \in BOOLEAN,
         UNCHANGED <<wallet, users, lp, fee, record, answer, pending, seen, value, cooled, moves,
                     crashes>>
  PROVE TokenInv'
<1>1. /\ wal = None /\ pending = None /\ answer = None /\ seen = wallet
      /\ wallet \in Nat /\ users + Owed(record) <= wallet
  BY DEF TokenInv, TypeInv, TokensTypeOK, FileInv, StageInv
<1>2. /\ wal' \in OrdersOf({"unsent"}) /\ wal' # None
      /\ wal'.side = side /\ wal'.lp = p /\ wal'.input = input /\ wal'.pre = wallet
  BY <1>1, OrderMeans
<1>3. TypeInv' BY <1>2 DEF TokenInv, TypeInv, TokensTypeOK
<1>4. StageInv' BY <1>1, <1>2 DEF StageInv
<1>5. SentInv(wal)'
  <2>1. CASE side = "sale" BY <1>1, <1>2, <2>1, OwedIsOwned DEF SentInv
  <2>2. CASE side # "sale" BY <1>1, <1>2, <2>2 DEF SentInv, ExitSides
  <2> QED BY <2>1, <2>2
<1> QED BY <1>1, <1>2, <1>3, <1>4, <1>5 DEF TokenInv, FileInv

LEMMA SweepKeeps == ASSUME TokenInv, Sweep PROVE TokenInv'
<1>1. /\ at = "sweep" /\ due' = FALSE
      /\ UNCHANGED <<wallet, users, lp, fee, record, answer, pending, seen, value, cooled, moves,
                     crashes>>
  BY DEF Sweep, account, snapshot, counts
<1>2. wal = None /\ pending = None BY <1>1 DEF TokenInv, FileInv, StageInv
<1>3. CASE Sweepable /\ wal' = Order("sale", 0, OwnedRaw, seen) /\ GoTo("sweeping")
  <2>1. OwnedRaw \in Nat /\ OwnedRaw > 0 BY <1>3, RecordIsTyped, OwedIsOwned DEF TokenInv, Sweepable
  <2>2. 0 \in Records /\ at' = "sweeping" /\ due' \in BOOLEAN BY <1>1, <1>3 DEF Records, GoTo
  <2> QED BY <1>1, <1>3, <2>1, <2>2, DecideKeeps
<1>4. CASE ~Sweepable /\ wal' = wal /\ GoTo("cycle")
  <2>1. at' = "cycle" /\ due' \in BOOLEAN BY <1>1, <1>4 DEF GoTo
  <2> QED BY <1>1, <1>2, <1>4, <2>1, StageKeeps
<1> QED BY <1>3, <1>4 DEF Sweep

\* The balance before an exit is the wallet's, unless the mint was filtered from the account.
LEMMA CycleExitsKeeps == ASSUME Hypotheses, TokenInv, NEW p \in Lps, CycleExits(p) PROVE TokenInv'
<1>1. /\ at = "cycle" /\ Baseline = seen /\ at' = "sending" /\ p \in Records
      /\ UNCHANGED <<wallet, users, lp, fee, record, answer, pending, seen, value, due, cooled,
                     moves, crashes>>
  BY DEF CycleExits, Hypotheses, GoTo, account, snapshot, timers, counts, Records
<1>2. PICK side \in {"claim", "withdraw"} : wal' = Order(side, p, 0, seen)
  BY <1>1 DEF CycleExits
<1>3. due' \in BOOLEAN BY <1>1 DEF TokenInv, TypeInv, TokensTypeOK
<1> QED BY <1>1, <1>2, <1>3, DecideKeeps

LEMMA CycleSellsKeeps == ASSUME TokenInv, CycleSells PROVE TokenInv'
<1>1. /\ at = "cycle" /\ at' = "sending" /\ OwnedRaw > 0
      /\ wal' = Order("sale", 0, OwnedRaw, seen)
      /\ UNCHANGED <<wallet, users, lp, fee, record, answer, pending, seen, value, due, cooled,
                     moves, crashes>>
  BY DEF CycleSells, GoTo, account, snapshot, timers, counts
<1>2. OwnedRaw \in Nat BY RecordIsTyped, OwedIsOwned DEF TokenInv
<1>3. due' \in BOOLEAN /\ 0 \in Records BY <1>1 DEF TokenInv, TypeInv, TokensTypeOK, Records
<1> QED BY <1>1, <1>2, <1>3, DecideKeeps

LEMMA CycleHoldsKeeps == ASSUME TokenInv, CycleHolds PROVE TokenInv'
<1>1. /\ at = "cycle" /\ at' = "idle" /\ seen' = 0 /\ value' = "unknown"
      /\ UNCHANGED <<wallet, users, lp, fee, record, wal, answer, pending, due, cooled, moves,
                     crashes>>
  BY DEF CycleHolds, EndTick, account, timers, counts
<1>2. wal = None /\ pending = None /\ due' \in BOOLEAN
  BY <1>1 DEF TokenInv, TypeInv, TokensTypeOK, FileInv, StageInv
<1> QED BY <1>1, <1>2, StageKeeps

\* A crash forgets where the tick is and what it has seen.  The books of a sale and the pending
\* file go together.
LEMMA CrashKeeps == ASSUME Hypotheses, TokenInv, Crash PROVE TokenInv'
<1>1. /\ at # "idle" /\ crashes < MaxCrashes /\ crashes' = crashes + 1
      /\ ~ (at = "written" /\ pending.side = "sale")
      /\ at' = "idle" /\ seen' = 0 /\ value' = "unknown"
      /\ UNCHANGED <<wallet, users, lp, fee, record, wal, answer, pending, due, cooled, moves>>
  BY DEF Crash, Hypotheses, EndTick, account, timers
<1>2. crashes' \in 0..MaxCrashes
  BY <1>1 DEF TokenInv, TypeInv, TokensTypeOK, Hypotheses, OwnedTokensAssumption
<1>3. TypeInv' BY <1>1, <1>2 DEF TokenInv, TypeInv, TokensTypeOK
<1>4. StageInv' BY <1>1 DEF TokenInv, FileInv, StageInv
<1>5. SentInv(wal) => SentInv(wal)' BY <1>1 DEF SentInv
<1>6. answer # None => DoneInv(answer)'
  <2> SUFFICES ASSUME answer # None PROVE DoneInv(answer)' OBVIOUS
  <2>1. DoneInv(answer) /\ at # "written" BY DEF TokenInv, FileInv, StageInv
  <2> QED BY <1>1, <2>1 DEF DoneInv, ExitInv, SaleInv
<1>7. pending # None => DoneInv(pending)'
  <2> SUFFICES ASSUME pending # None PROVE DoneInv(pending)' OBVIOUS
  <2>1. DoneInv(pending) BY PendingTyped
  <2>2. CASE ExitInv(pending) BY <1>1, <2>2 DEF DoneInv, ExitInv
  <2>3. CASE SaleInv(pending)
    <3>1. at # "written" BY <1>1, <2>3 DEF SaleInv
    <3> QED BY <1>1, <2>3, <3>1 DEF DoneInv, SaleInv
  <2> QED BY <2>1, <2>2, <2>3 DEF DoneInv
<1> QED BY <1>1, <1>3, <1>4, <1>5, <1>6, <1>7 DEF TokenInv, FileInv

\* Resolution looks at the pending file: without one there is nothing to resolve.
LEMMA ResolveHasPending ==
  ASSUME TokenInv, ResolveWithdrawal \/ ResolveClaim \/ ResolveSale PROVE pending # None
<1>1. pending.side \in {"withdraw", "claim", "sale"}
  BY DEF ResolveWithdrawal, ResolveClaim, ResolveSale
<1> QED BY <1>1 DEF None

LEMMA StepKeepsTokens == ASSUME Hypotheses, TokenInv, [Next]_vars PROVE TokenInv'
<1>1. CASE UNCHANGED vars
  <2>1. UNCHANGED <<wallet, users, lp, fee, record, wal, answer, pending, at, seen, value, due,
                    cooled, moves, crashes>>
    BY <1>1 DEF vars
  <2> QED BY <2>1 DEF TokenInv, TypeInv, TokensTypeOK, FileInv, StageInv, SentInv, DoneInv,
       ExitInv, SaleInv
<1>2. ASSUME NEW p \in Lps, OpenLp(p) \/ CycleExits(p) PROVE TokenInv'
  BY <1>2, OpenLpKeeps, CycleExitsKeeps
<1>3. CASE Elapse \/ OwnerMoves \/ ReadAccount \/ Sweep \/ CycleSells \/ CycleHolds \/ Crash
  BY <1>3, ElapseKeeps, OwnerMovesKeeps, ReadAccountKeeps, SweepKeeps, CycleSellsKeeps,
     CycleHoldsKeeps, CrashKeeps
<1>4. CASE LandExit \/ LandSale \/ FailOnChain \/ Refuse \/ TakeAnswer
  BY <1>4, LandExitKeeps, LandSaleKeeps, FailKeeps, RefuseKeeps, TakeAnswerKeeps
<1>5. CASE ResolveWithdrawal \/ ResolveClaim
  BY <1>5, ResolveExitKeeps, ResolveHasPending DEF ResolveWithdrawal, ResolveClaim, ExitSides
<1>6. CASE ResolveSale \/ ResolveFailed \/ ClearPending \/ BookResult
  BY <1>6, ResolveSaleKeeps, ResolveHasPending, ResolveFailedKeeps, ClearPendingKeeps,
     BookResultKeeps
<1> QED BY <1>1, <1>2, <1>3, <1>4, <1>5, <1>6 DEF Next

-----------------------------------------------------------------------------
(* The theorems.                                                           *)

\* Every file, snapshot and balance keeps its type: no order asks for less than nothing, and the
\* wallet and what the owner holds of it never go below zero.
THEOREM TokensTyped ==
  ASSUME OwnedTokensAssumption, Faults = {} PROVE Spec => []TokensTypeOK
<1>1. Init => TokenInv BY InitKeeps DEF Hypotheses
<1>2. TokenInv /\ [Next]_vars => TokenInv' BY StepKeepsTokens DEF Hypotheses
<1>3. TokenInv => TokensTypeOK BY DEF TokenInv, TypeInv
<1> QED BY <1>1, <1>2, <1>3, PTL DEF Spec

\* Whatever the program sells, and whenever it crashes and recovers, the owner's tokens stay in
\* the wallet.
THEOREM OwnersKeepTheirs ==
  ASSUME OwnedTokensAssumption, Faults = {} PROVE Spec => []UsersTokensStay
<1>1. ASSUME TokenInv PROVE UsersTokensStay
  <2>1. wallet \in Nat /\ users \in Nat /\ Owed(record) \in Nat
    BY <1>1, RecordIsTyped DEF TokenInv, TypeInv, TokensTypeOK
  <2>2. CASE users + Owed(record) <= wallet BY <2>1, <2>2 DEF UsersTokensStay
  <2>3. CASE wal # None /\ answer = None
    BY <1>1, <2>2, <2>3 DEF TokenInv, FileInv, SentInv
  <2>4. CASE answer # None
    BY <1>1, <2>2, <2>4 DEF TokenInv, FileInv, DoneInv, ExitInv, SaleInv, UsersTokensStay
  <2>5. CASE pending # None
    BY <1>1, <2>2, <2>5 DEF TokenInv, FileInv, DoneInv, ExitInv, SaleInv, UsersTokensStay
  <2> QED BY <1>1, <2>2, <2>3, <2>4, <2>5 DEF TokenInv, FileInv
<1>2. Init => TokenInv BY InitKeeps DEF Hypotheses
<1>3. TokenInv /\ [Next]_vars => TokenInv' BY StepKeepsTokens DEF Hypotheses
<1> QED BY <1>1, <1>2, <1>3, PTL DEF Spec

\* Between orders the residuals on the books are in the wallet beside the owner's tokens: the
\* next sale, which is of exactly their sum, is of the program's own.
THEOREM ResidualsAreOwned ==
  ASSUME OwnedTokensAssumption, Faults = {} PROVE Spec => []BooksAreBacked
<1>1. ASSUME TokenInv PROVE BooksAreBacked
  <2> SUFFICES ASSUME Quiet PROVE OwnedRaw + users <= wallet BY DEF BooksAreBacked
  <2>1. wallet \in Nat /\ users \in Nat /\ Owed(record) \in Nat
    BY <1>1, RecordIsTyped DEF TokenInv, TypeInv, TokensTypeOK
  <2> QED BY <1>1, <2>1, OwedIsOwned DEF TokenInv, FileInv, Quiet
<1>2. Init => TokenInv BY InitKeeps DEF Hypotheses
<1>3. TokenInv /\ [Next]_vars => TokenInv' BY StepKeepsTokens DEF Hypotheses
<1> QED BY <1>1, <1>2, <1>3, PTL DEF Spec

=============================================================================
