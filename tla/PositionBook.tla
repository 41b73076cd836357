---------------------------- MODULE PositionBook ----------------------------
(***************************************************************************)
(* The position ledger and the ticks of the daemon that keep it: recovery  *)
(* of the order in flight, import of the LP positions the wallet shows, an *)
(* exit or a new open, and what is written at the end, with a crash        *)
(* between any two writes (src/src/runtime/position-ledger.ts,             *)
(* live-daemon.ts).  What the wallet shows may be behind the chain, but    *)
(* never goes back.  Every open has a pool of its own, but for a position  *)
(* the user opened by hand in the pool of the first.                       *)
(***************************************************************************)
EXTENDS Integers, FiniteSets, FiniteSetsExt

CONSTANTS
  Opens,        \* how many opens the strategy finds
  Foreign,      \* may the user open a position by hand?
  MaxActive,    \* maxActivePositions
  MaxCrashes    \* bound on crashes

BookAssumption ==
  Opens \in Nat \ {0} /\ Foreign \in BOOLEAN /\ MaxActive \in Nat \ {0} /\ MaxCrashes \in Nat

VARIABLES
  chain,    \* address -> what the chain holds
  shown,    \* address -> the latest of it that any answer has shown
  view,     \* the addresses in the account state of this tick
  ledger,   \* position-ledger.json
  pending,  \* pending-submission.json
  order,    \* the order sent last, and what became of it
  at,       \* how far the tick is
  may,      \* allowNewOpens, as found before the cycle
  result,   \* the result of the cycle
  opened,   \* how many opens were sent
  crashes

vars == <<chain, shown, view, ledger, pending, order, at, may, result, opened, crashes>>

Intents == 1..Opens
ByHand == Opens + 1
Addresses == Intents \cup {ByHand}
Pool(a) == IF a = ByHand THEN 1 ELSE a

None == [do |-> "none", intent |-> 0, addr |-> 0]
Order(do, intent, addr) == [do |-> do, intent |-> intent, addr |-> addr]

\* fill: entryFillSubmissionId; young: opened less than five minutes ago;
\* missing: missingOnChainSince; held: the pending fields of the record.
Fresh(intent, addr) ==
  [intent |-> intent, addr |-> addr, life |-> "open_pending", act |-> "hold", why |-> "none",
   fill |-> FALSE, young |-> FALSE, missing |-> FALSE, held |-> FALSE]

Records ==
  [intent : 0..Opens, addr : 0..ByHand, act : {"hold", "open", "exit"},
   life : {"open_pending", "open", "lp_exit_pending", "reconcile_required", "failed_terminal",
           "closed", "superseded"},
   why : {"none", "awaiting", "missing", "unbound"},
   fill : BOOLEAN, young : BOOLEAN, missing : BOOLEAN, held : BOOLEAN]

Over(r) == r.life \in {"closed", "superseded"}

-----------------------------------------------------------------------------
(* Identity.                                                               *)

\* positionLedgerRecordHasOwnershipEvidence
Evidenced(r) == ~Over(r) /\ r.life # "failed_terminal" /\ (r.intent # 0 \/ r.fill)

\* Mutants: by address only; by pool whatever the answer named.
BindsByAddress(p, a) == p.do = "open" /\ p.addr = a
BindsByPool(p, a) == p.do = "open" /\ {b \in view : Pool(b) = p.intent} = {a}

\* pendingOpenUniquelyBindsPosition
Binds(p, a) ==
  /\ p.do = "open"
  /\ IF p.addr # 0 THEN p.addr = a ELSE {b \in view : Pool(b) = p.intent} = {a}

\* findMatchingRecord, then findPendingOpenRecordForObservedPosition.
Known(L, p, a) ==
  LET exact == {r \in L : r.addr = a}
  IN  IF exact # {} THEN exact
      ELSE {r \in L : /\ Binds(p, a) /\ r.addr = 0 /\ r.intent = p.intent
                      /\ ~Over(r) /\ r.life # "failed_terminal"}

\* recordMatchesTarget, for a target that has an address or an intent.
Targeted(L, o) == IF o.addr # 0 THEN {r \in L : r.addr = o.addr} ELSE {r \in L : r.intent = o.intent}

\* isSubmittedPendingOpenRecord
Submitted(r, p) ==
  /\ r.life = "open_pending"
  /\ \/ p.do = "open" /\ r.intent = p.intent
     \/ ~r.missing /\ r.act = "open" /\ r.why = "awaiting" /\ r.fill /\ r.young
     \/ ~r.missing /\ ~(r.act = "open" /\ r.why = "awaiting" /\ r.fill) /\ r.held

\* classifyPositionRecord
Classify(r, p) ==
  IF Over(r) THEN "closed"
  ELSE IF r.life = "failed_terminal" THEN "failed_terminal"
  ELSE IF r.life = "reconcile_required" THEN "reconcile_required"
  ELSE IF r.addr # 0 THEN IF r.missing THEN "reconcile_required" ELSE "chain_active"
  ELSE IF Submitted(r, p) THEN "pending_open"
  ELSE IF r.life = "open_pending" \/ r.missing THEN "reconcile_required"
  ELSE "inactive"

Classed(L, p, class) == {r \in L : Classify(r, p) = class}

\* suppressClosedLedgerLpPositions: the account state without what the ledger closed.
Visible(L) == {a \in view : ~\E r \in L : r.addr = a /\ Over(r)}

\* The part of buildLifecycleProjection that decides on new opens.
Active(L, p) ==
  LET held == Cardinality(Classed(L, p, "chain_active"))
      there == Cardinality(Visible(L))
  IN  (IF held > there THEN held ELSE there) + Cardinality(Classed(L, p, "pending_open"))
ToReconcile(L, p) ==
  {r \in Classed(L, p, "reconcile_required") :
     ~\E c \in L : r.addr = 0 /\ r.intent # 0 /\ c # r /\ c.intent = r.intent
                   /\ Classify(c, p) \in {"chain_active", "closed"}}

\* resolvePositionBusinessSemantics: canOpenNewPosition.
CanOpen(L, p) == p = None /\ ToReconcile(L, p) = {} /\ Active(L, p) < MaxActive

-----------------------------------------------------------------------------
(* importActiveLpPositionsToLedger.                                        *)

\* One position that the wallet shows.
Observed(L, p, a) ==
  LET known == Known(L, p, a)
      old == IF known = {} THEN Fresh(0, a) ELSE CHOOSE r \in known : TRUE
      owned == \/ old.addr = a /\ Evidenced(old)
               \/ Binds(p, a)
      new == [old EXCEPT !.addr = a, !.missing = FALSE,
                         !.intent = IF @ = 0 /\ Binds(p, a) THEN p.intent ELSE @,
                         !.life = IF owned THEN "open" ELSE "reconcile_required",
                         !.why = IF owned THEN IF @ = "unbound" THEN "none" ELSE @ ELSE "unbound"]
      Twin(r) == r.addr = 0 /\ ~Over(r) /\ r.life # "failed_terminal"
                 /\ new.intent # 0 /\ r.intent = new.intent
  IN  IF old.addr = a /\ Over(old) THEN L
      ELSE {new} \cup {IF Twin(r) THEN [r EXCEPT !.life = "superseded"] ELSE r : r \in L \ known}

\* Mutant: an exit need not have been ordered.
UnseenCloses(r, p, closing) ==
  LET close == closing /\ p = None
      grace == r.act = "open" /\ r.fill /\ r.young
      failed == r.why = "missing" \/ r.missing
  IN  IF Over(r) THEN r
      ELSE IF r.addr # 0 /\ r.addr \in view THEN r
      ELSE IF Submitted(r, p) THEN [r EXCEPT !.missing = FALSE]
      ELSE IF r.life = "open_pending" /\ r.addr = 0 /\ grace
           THEN [r EXCEPT !.why = "awaiting", !.missing = FALSE]
      ELSE IF r.life = "open_pending" /\ r.addr = 0 /\ ~grace
           THEN [r EXCEPT !.life = IF failed THEN "failed_terminal" ELSE "reconcile_required",
                          !.why = IF failed THEN @ ELSE "none", !.missing = TRUE]
      ELSE IF r.life = "open" /\ r.addr = 0 /\ ~r.fill
           THEN [r EXCEPT !.life = "failed_terminal", !.missing = TRUE]
      ELSE IF close \/ (closing /\ p = None /\ r.life = "lp_exit_pending")
           THEN [r EXCEPT !.life = "closed"]
      ELSE [r EXCEPT !.missing = TRUE, !.why = IF closing THEN "missing" ELSE @]

\* A record the wallet does not show; closing is closeMissingActive.
Unseen(r, p, closing) ==
  LET close == closing /\ p = None /\ r.act = "exit"
      grace == r.act = "open" /\ r.fill /\ r.young
      failed == r.why = "missing" \/ r.missing
  IN  IF Over(r) THEN r
      ELSE IF r.addr # 0 /\ r.addr \in view THEN r
      ELSE IF Submitted(r, p) THEN [r EXCEPT !.missing = FALSE]
      ELSE IF r.life = "open_pending" /\ r.addr = 0 /\ grace
           THEN [r EXCEPT !.why = "awaiting", !.missing = FALSE]
      ELSE IF r.life = "open_pending" /\ r.addr = 0 /\ ~grace
           THEN [r EXCEPT !.life = IF failed THEN "failed_terminal" ELSE "reconcile_required",
                          !.why = IF failed THEN @ ELSE "none", !.missing = TRUE]
      ELSE IF r.life = "open" /\ r.addr = 0 /\ ~r.fill
           THEN [r EXCEPT !.life = "failed_terminal", !.missing = TRUE]
      ELSE IF close \/ (closing /\ p = None /\ r.life = "lp_exit_pending")
           THEN [r EXCEPT !.life = "closed"]
      ELSE [r EXCEPT !.missing = TRUE, !.why = IF closing THEN "missing" ELSE @]

\* normalizeLedgerLifecycleRecords
Normal(r, L, p) ==
  LET grace == r.act = "open" /\ r.fill /\ r.young
      waits == r.life = "open_pending" /\ r.act = "open" /\ r.why = "awaiting" /\ r.fill
  IN  IF Over(r) THEN r
      ELSE IF r.addr = 0 /\ r.intent # 0
              /\ \E c \in L : c.addr # 0 /\ c.life = "closed" /\ c.intent = r.intent
           THEN [r EXCEPT !.life = "superseded", !.act = "exit", !.missing = TRUE]
      ELSE IF r.addr = 0 /\ grace /\ r.life = "reconcile_required"
           THEN [r EXCEPT !.life = "open_pending", !.why = "awaiting", !.missing = FALSE]
      ELSE IF r.addr = 0 /\ waits /\ ~(p.do = "open" /\ p.intent = r.intent) /\ ~grace
           THEN [r EXCEPT !.life = "reconcile_required", !.why = "none", !.missing = TRUE]
      ELSE r

Normalized(L, p) == {Normal(r, L, p) : r \in L}

Imported(L, p, closing) ==
  LET seen == FoldSet(LAMBDA a, acc : Observed(acc, p, a), L, view)
  IN  Normalized({Unseen(r, p, closing) : r \in seen}, p)

-----------------------------------------------------------------------------
(* applyLiveCycleResultToLedger.                                           *)

\* c is what the cycle found of order o: sent, confirmed, filled, proven (the
\* closing) and already (the position was closed before); kept is the order that
\* stays pending, p the one that is or was.
Booked(imported, o, c, kept, p) ==
  LET target == IF o # None THEN o ELSE p
      match == Targeted(imported, target)
      old == IF match = {}
             THEN [Fresh(target.intent, target.addr) EXCEPT
                     !.life = IF target.do = "open" THEN "open_pending" ELSE "lp_exit_pending",
                     !.act = target.do]
             ELSE CHOOSE r \in match : TRUE
      exit == target.do = "exit"
      open == o.do = "open"
      gone == c.already /\ old.addr \notin view
      life == IF exit /\ kept = None /\ (c.proven \/ gone) THEN "closed"
              ELSE IF exit /\ (kept # None \/ c.confirmed) THEN "lp_exit_pending"
              ELSE IF ~exit /\ kept # None THEN "open_pending"
              ELSE IF open /\ c.confirmed THEN IF target.addr # 0 THEN "open" ELSE "open_pending"
              ELSE old.life
      new == [old EXCEPT
                !.life = life,
                !.intent = IF @ = 0 THEN target.intent ELSE @,
                !.addr = IF target.addr # 0 THEN target.addr ELSE @,
                !.act = IF o = None /\ old.life = "reconcile_required" THEN @
                        ELSE IF o = None THEN "hold" ELSE o.do,
                !.why = IF o = None /\ old.life = "reconcile_required" THEN @ ELSE "none",
                !.fill = @ \/ (open /\ c.confirmed /\ c.filled),
                !.young = @ \/ (open /\ c.confirmed),
                !.held = kept # None,
                !.missing = @ /\ old.addr \notin view]
      Twin(r) == /\ life = "closed" /\ new.addr # 0 /\ r.addr = 0 /\ ~Over(r)
                 /\ new.intent # 0 /\ r.intent = new.intent
      rest == {IF Twin(r) THEN [r EXCEPT !.life = "superseded"] ELSE r : r \in imported \ {old}}
  IN  Normalized(rest \cup {new}, p)

\* persisted and before are the pending order after and before the cycle.
Applied(L, o, c, persisted, before) ==
  LET p == IF persisted # None THEN persisted ELSE before
      imported == Imported(L, p, FALSE)
      idle == ~c.sent /\ p = None /\ o.do # "exit"
  IN  IF idle THEN imported ELSE Booked(imported, o, c, persisted, p)

-----------------------------------------------------------------------------
NoResult == [order |-> None, sent |-> FALSE, confirmed |-> FALSE, filled |-> FALSE,
             proven |-> FALSE, already |-> FALSE, cleared |-> FALSE]

NoOrder == [what |-> None, fate |-> "none"]

Init ==
  /\ chain = [a \in Addresses |-> "none"] /\ shown = chain /\ view = {}
  /\ ledger = {} /\ pending = None /\ order = NoOrder
  /\ at = "start" /\ may = FALSE /\ result = NoResult /\ opened = 0 /\ crashes = 0

\* An order lands or fails, the user opens a position by hand or closes one.  It
\* may happen at any time; a tick reads the chain only where it starts and polls.
Read == {"start", "polled", "after"}
Lands ==
  /\ order.fate = "flying" /\ at \in Read /\ order' = [order EXCEPT !.fate = "landed"]
  /\ chain' = IF order.what.do = "open"
              THEN [chain EXCEPT ![order.what.intent] = "live"]
              ELSE [chain EXCEPT ![order.what.addr] = "gone"]
  /\ UNCHANGED <<shown, view, ledger, pending, at, may, result, opened, crashes>>
Fails ==
  /\ order.fate = "flying" /\ at \in Read /\ order' = [order EXCEPT !.fate = "failed"]
  /\ UNCHANGED <<chain, shown, view, ledger, pending, at, may, result, opened, crashes>>
UserOpens ==
  /\ Foreign /\ at = "start" /\ chain[ByHand] = "none" /\ chain' = [chain EXCEPT ![ByHand] = "live"]
  /\ UNCHANGED <<shown, view, ledger, pending, order, at, may, result, opened, crashes>>
UserCloses(a) ==
  /\ at = "start" /\ chain[a] = "live" /\ shown[a] = "live" /\ chain' = [chain EXCEPT ![a] = "gone"]
  /\ UNCHANGED <<shown, view, ledger, pending, order, at, may, result, opened, crashes>>

\* Five minutes pass.
TimePasses ==
  /\ at = "start" /\ \E r \in ledger : r.young
  /\ ledger' = {[r EXCEPT !.young = FALSE] : r \in ledger}
  /\ UNCHANGED <<chain, shown, view, pending, order, at, may, result, opened, crashes>>

\* The account state of the tick, between the last answer and the chain.
ReadAccount(news) ==
  /\ at = "start" /\ news \subseteq {a \in Addresses : shown[a] # chain[a]}
  /\ shown' = [a \in Addresses |-> IF a \in news THEN chain[a] ELSE shown[a]]
  /\ view' = {a \in Addresses : shown'[a] = "live"}
  /\ at' = "recover" /\ result' = NoResult
  /\ UNCHANGED <<chain, ledger, pending, order, may, opened, crashes>>

-----------------------------------------------------------------------------
(* Recovery of the pending order.                                          *)

Fitting(p) == {a \in view : IF p.addr # 0 THEN a = p.addr ELSE Pool(a) = p.intent}

\* runPreIngestPendingRecovery: by the signatures an answer named, by what the
\* wallet shows, or not at all.
Unresolved ==
  /\ at = "recover" /\ at' = "import"
  /\ UNCHANGED <<chain, shown, view, ledger, pending, order, may, result, opened, crashes>>
RecoverFailed ==
  /\ at = "recover" /\ pending.addr # 0 /\ order.fate = "failed"
  /\ pending' = None /\ at' = "import"
  /\ UNCHANGED <<chain, shown, view, ledger, order, may, result, opened, crashes>>

\* Mutant: only a trusted recovery is written to the ledger.
RecoverOpenTrusted(paid) ==
  LET fits == Fitting(pending)
      found == Cardinality(fits) = 1
      addr == IF found THEN CHOOSE a \in fits : TRUE ELSE pending.addr
      applied == Applied(ledger, Order("open", pending.intent, addr),
                         [NoResult EXCEPT !.sent = TRUE, !.confirmed = TRUE, !.filled = found /\ paid],
                         None, pending)
  IN  /\ at = "recover" /\ pending.do = "open" /\ (fits # {} \/ (order.fate = "landed" /\ pending.addr # 0))
      /\ ledger' = IF found /\ paid THEN applied
                   ELSE ledger
      /\ at' = "recovered"
      /\ UNCHANGED <<chain, shown, view, pending, order, may, result, opened, crashes>>

\* A recovered open: trusted when exactly one position fits and the wallet paid for it.
RecoverOpen(paid) ==
  LET fits == Fitting(pending)
      found == Cardinality(fits) = 1
      addr == IF found THEN CHOOSE a \in fits : TRUE ELSE pending.addr
      applied == Applied(ledger, Order("open", pending.intent, addr),
                         [NoResult EXCEPT !.sent = TRUE, !.confirmed = TRUE, !.filled = found /\ paid],
                         None, pending)
  IN  /\ at = "recover" /\ pending.do = "open" /\ (fits # {} \/ (order.fate = "landed" /\ pending.addr # 0))
      /\ ledger' = IF found /\ paid THEN applied
                   ELSE {IF r.intent = pending.intent
                         THEN [r EXCEPT !.life = "reconcile_required"] ELSE r : r \in applied}
      /\ at' = "recovered"
      /\ UNCHANGED <<chain, shown, view, pending, order, may, result, opened, crashes>>

\* A recovered exit is one whose position the wallet no longer shows; the rest of
\* its tokens may be unexplained.
RecoverExit(trusted) ==
  LET applied == Applied(ledger, pending,
                         [NoResult EXCEPT !.sent = TRUE, !.confirmed = TRUE, !.proven = trusted],
                         None, pending)
  IN  /\ at = "recover" /\ pending.do = "exit" /\ pending.addr \notin view
      /\ ledger' = IF trusted THEN applied
                   ELSE {IF r \in Targeted(applied, pending)
                         THEN [r EXCEPT !.life = "reconcile_required"] ELSE r : r \in applied}
      /\ at' = "recovered"
      /\ UNCHANGED <<chain, shown, view, pending, order, may, result, opened, crashes>>

\* Only after the ledger is written the pending order goes.
ClearRecovered ==
  /\ at = "recovered" /\ pending' = None /\ at' = "import"
  /\ UNCHANGED <<chain, shown, view, ledger, order, may, result, opened, crashes>>

-----------------------------------------------------------------------------
(* The tick.                                                               *)

\* The first import, the decision on new opens, and the import that closes.
Import ==
  LET first == Imported(ledger, pending, FALSE)
  IN  /\ at = "import" /\ at' = "cycle"
      /\ may' = CanOpen(first, pending)
      /\ ledger' = Imported(first, pending, TRUE)
      /\ UNCHANGED <<chain, shown, view, pending, order, result, opened, crashes>>

\* shouldStartMaintenancePass: an LP position or a target of the position state,
\* which reconcileTerminalFlatPositionState drops while the wallet shows nothing.
Maintained == Active(ledger, pending) > 0 \/ (view # {} /\ ledger # {})

Holds ==
  /\ at = "cycle" /\ at' = (IF Maintained /\ may THEN "open" ELSE "persist") /\ may' = FALSE
  /\ UNCHANGED <<chain, shown, view, ledger, pending, order, result, opened, crashes>>

Send(o) == order' = [what |-> o, fate |-> "flying"]

\* An exit of a position the ledger owns: refused, refused because it is closed
\* already, or sent.
ExitRefused(a, closed) ==
  /\ at = "cycle" /\ pending = None /\ a \in Visible(ledger)
  /\ \E r \in ledger : r.addr = a /\ Evidenced(r)
  /\ closed => chain[a] = "gone"
  /\ result' = [NoResult EXCEPT !.order = Order("exit", 0, a), !.already = closed]
  /\ at' = "persist" /\ may' = FALSE
  /\ UNCHANGED <<chain, shown, view, ledger, pending, order, opened, crashes>>
ExitSent(a) ==
  /\ at = "cycle" /\ pending = None /\ a \in Visible(ledger)
  /\ \E r \in ledger :
       /\ r.addr = a /\ Evidenced(r)
       /\ pending' = Order("exit", r.intent, a) /\ Send(Order("exit", r.intent, a))
       /\ result' = [NoResult EXCEPT !.order = Order("exit", r.intent, a), !.sent = TRUE]
  /\ at' = "after" /\ may' = FALSE
  /\ UNCHANGED <<chain, shown, view, ledger, opened, crashes>>

\* An open, in the cycle itself when there is nothing to maintain, or in the
\* pass after a cycle that held.  The answer of the sidecar, when it comes, names
\* the position.
OpenSent(answered) ==
  /\ \/ at = "cycle" /\ ~Maintained
     \/ at = "open" /\ CanOpen(ledger, pending)
  /\ pending = None /\ opened < Opens /\ opened' = opened + 1
  /\ LET o == Order("open", opened', IF answered THEN opened' ELSE 0)
     IN  /\ Send(o) /\ pending' = o
         /\ result' = [NoResult EXCEPT !.order = o, !.sent = TRUE]
  /\ at' = (IF at = "open" THEN "polled" ELSE "after") /\ may' = FALSE
  /\ UNCHANGED <<chain, shown, view, ledger, crashes>>
Skips ==
  /\ at = "open" /\ at' = "persist"
  /\ UNCHANGED <<chain, shown, view, ledger, pending, order, may, result, opened, crashes>>

\* The pass after the cycle does not defer the clearing of a confirmed order.
Polled(filled) ==
  /\ at = "polled" /\ at' = "after"
  /\ IF order.fate = "landed" /\ pending.addr # 0
     THEN /\ pending' = None
          /\ result' = [result EXCEPT !.confirmed = TRUE, !.filled = filled, !.cleared = TRUE]
     ELSE UNCHANGED <<pending, result>>
  /\ UNCHANGED <<chain, shown, view, ledger, order, may, opened, crashes>>

\* The recovery of the order that this cycle sent.
AfterCycle(filled) ==
  /\ at = "after" /\ at' = "persist"
  /\ IF result.cleared \/ pending.addr = 0 \/ order.fate = "flying" THEN UNCHANGED result
     ELSE result' = [result EXCEPT !.confirmed = order.fate = "landed",
                                   !.filled = filled /\ order.fate = "landed",
                                   !.proven = order.fate = "landed" /\ pending.do = "exit",
                                   !.cleared = TRUE]
  /\ UNCHANGED <<chain, shown, view, ledger, pending, order, may, opened, crashes>>

Kept == IF result.cleared THEN None ELSE pending

\* The ledger is written, then the resolved order is cleared.
Persist ==
  /\ at = "persist" /\ at' = "clear"
  /\ ledger' = Applied(ledger, result.order, result, Kept, IF result.sent THEN None ELSE pending)
  /\ UNCHANGED <<chain, shown, view, pending, order, may, result, opened, crashes>>
\* The next tick, or the next process, starts with the files alone.
Forgets(kept) ==
  /\ at' = "start" /\ view' = {} /\ may' = FALSE /\ result' = NoResult
  /\ order' = IF kept = None /\ order.fate # "flying" THEN NoOrder ELSE order
Clear ==
  /\ at = "clear" /\ pending' = Kept /\ Forgets(Kept)
  /\ UNCHANGED <<chain, shown, ledger, opened, crashes>>

\* A crash, where it can tell one file from another.
Crash ==
  /\ at \in {"recovered", "import", "cycle", "after", "persist", "clear"}
  /\ crashes < MaxCrashes /\ crashes' = crashes + 1 /\ Forgets(pending)
  /\ UNCHANGED <<chain, shown, ledger, pending, opened>>

Tick ==
  \/ \E news \in SUBSET Addresses : ReadAccount(news)
  \/ Unresolved \/ RecoverFailed \/ ClearRecovered
  \/ \E paid \in BOOLEAN : RecoverOpen(paid)
  \/ \E trusted \in BOOLEAN : RecoverExit(trusted)
  \/ Import \/ Holds \/ Skips
  \/ \E a \in Addresses, closed \in BOOLEAN : ExitRefused(a, closed)
  \/ \E a \in Addresses : ExitSent(a)
  \/ \E answered \in BOOLEAN : OpenSent(answered)
  \/ \E filled \in BOOLEAN : Polled(filled)
  \/ \E filled \in BOOLEAN : AfterCycle(filled)
  \/ Persist \/ Clear

Next == Tick \/ Lands \/ Fails \/ UserOpens \/ (\E a \in Addresses : UserCloses(a)) \/ TimePasses \/ Crash

Spec == Init /\ [][Next]_vars
-----------------------------------------------------------------------------
(* Properties.                                                             *)

\* The type of the state.
TypeOK ==
  /\ chain \in [Addresses -> {"none", "live", "gone"}]
  /\ shown \in [Addresses -> {"none", "live", "gone"}]
  /\ view \subseteq Addresses /\ ledger \subseteq Records
  /\ pending.do \in {"none", "open", "exit"} /\ order.what.do \in {"none", "open", "exit"}
  /\ may \in BOOLEAN /\ opened \in 0..Opens /\ crashes \in 0..MaxCrashes

Alive(r) == ~Over(r) /\ r.life # "failed_terminal"

\* A record is closed only when its position is gone from the chain, whatever
\* the wallet still shows or does not show yet (importActiveLpPositionsToLedger,
\* applyLiveCycleResultToLedger).
ClosedIsGone == \A r \in ledger : r.life = "closed" => r.addr # 0 /\ chain[r.addr] = "gone"

\* No position and no open has two live records, in whichever order the answer,
\* the recovery and the wallet name it (the superseding of twins).  Without a
\* second position in the pool: the pool alone cannot tell which one was opened.
OnePerPosition ==
  \A r, s \in ledger : r # s /\ Alive(r) /\ Alive(s) =>
    /\ r.addr = 0 \/ r.addr # s.addr
    /\ r.intent = 0 \/ r.intent # s.intent

\* The daemon knows open a to be its own: by the pending order, by the order of
\* this cycle or by a record with ownership evidence.
Named(a) ==
  \/ pending.do = "open" /\ pending.intent = a
  \/ result.order.do = "open" /\ result.order.intent = a
  \/ \E r \in ledger : Alive(r) /\ (r.intent = a \/ (r.addr = a /\ r.fill))

\* From the moment it lands an opened position stays named as long as the chain
\* holds it, over lagging answers, recoveries and crashes; but for a crash after
\* the pass after the cycle cleared a confirmed open and before its ledger is written.
StaysNamed ==
  \A a \in Intents : chain'[a] = "live" /\ (chain[a] = "none" \/ Named(a)) =>
    Named(a)' \/ (crashes' > crashes /\ result.cleared /\ pending = None)
OwnedStaysNamed == [][StaysNamed]_vars

\* A position the user opened by hand becomes the daemon's own only while an open
\* in its pool waits for an answer that would name its address.
Taken(L) == \E r \in L : r.addr = ByHand /\ (r.intent # 0 \/ r.fill)
LeftAlone ==
  Taken(ledger') /\ ~Taken(ledger) => pending.do = "open" /\ pending.addr = 0
ForeignLeftAlone == [][LeftAlone]_vars

\* No open is sent while an earlier one is on the chain and the ledger does not
\* have it as open yet ("no second position can be opened before the first is
\* fully settled", live-daemon.ts:3787).
SecondOpenWaits ==
  [][opened' > opened => \A a \in Intents : chain[a] = "live" =>
       \E r \in ledger : r.addr = a /\ r.life = "open"]_vars
=============================================================================
