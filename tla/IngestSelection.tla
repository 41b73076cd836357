-------------------------- MODULE IngestSelection --------------------------
(* buildLiveCycleInputFromIngest: the one pool a pass of the daemon is about.
   It is chosen from what the tick read before (account, position state,
   cooldowns) and from candidates that come either from the candidate database
   or straight from Meteora with a safety check of their own.  A maintenance
   context names an LP of the wallet; a candidate context is something the
   pass may open, or an exposure the engine may reduce.

   The account's order of positions and the ranking of candidates are left
   open: any member may be first.                                         *)
EXTENDS Naturals, FiniteSets

CONSTANTS
  Pools, Mints,
  MintOf,     \* pool -> its token
  Capacity    \* maxActivePositions

NoPool == "no-pool"
NoMint == "no-mint"

SelectionAssumption ==
  /\ MintOf \in [Pools -> Mints]
  /\ Capacity \in Nat \ {0}
  /\ NoPool \notin Pools /\ NoMint \notin Mints

VARIABLES
  lp,         \* pool -> "none", "ours" (ownership evidence), or "foreign"
  tokens,     \* mints with a wallet balance
  tracked,    \* the position state's pool, or NoPool
  stateOpen,  \* the position state is not closed
  lastClosed, \* the mint closed less than the reopen cooldown ago, or NoMint
  cooled,     \* pools with an open cooldown
  quality,    \* pool -> what the source says of it
  context     \* what the pass is about

vars == <<lp, tokens, tracked, stateOpen, lastClosed, cooled, quality, context>>
inputs == <<lp, tokens, tracked, stateOpen, lastClosed, cooled, quality>>

Qualities == {"absent", "safe", "unsafe", "noRoute"}
Modes     == {"default", "maintenance-only", "new-open-only"}
Sources   == {"database", "meteora"}

Nothing == [kind |-> "nothing"]
Maintain(p) == [kind |-> "maintain", pool |-> p]
Candidate(p, held) == [kind |-> "candidate", pool |-> p, held |-> held]

SelectionTypeOK ==
  /\ lp \in [Pools -> {"none", "ours", "foreign"}]
  /\ tokens \subseteq Mints
  /\ tracked \in Pools \cup {NoPool}
  /\ stateOpen \in BOOLEAN
  /\ lastClosed \in Mints \cup {NoMint}
  /\ cooled \subseteq Pools
  /\ quality \in [Pools -> Qualities]
  /\ context \in {Nothing} \cup {Maintain(p) : p \in Pools}
                   \cup {Candidate(p, h) : p \in Pools, h \in BOOLEAN}

Init ==
  /\ lp \in [Pools -> {"none", "ours", "foreign"}]
  /\ tokens \in SUBSET Mints
  /\ tracked \in Pools \cup {NoPool}
  /\ stateOpen \in IF tracked = NoPool THEN {FALSE} ELSE BOOLEAN
  /\ lastClosed \in Mints \cup {NoMint}
  /\ \E p \in Pools : cooled \in {{}, {p}}
  /\ quality \in [Pools -> Qualities]
  \* the safety answer is about the token, not the pool
  /\ \A p, q \in Pools : MintOf[p] = MintOf[q] =>
       {quality[p], quality[q]} # {"safe", "unsafe"}
  /\ context = Nothing

-----------------------------------------------------------------------------
WithLp    == {p \in Pools : lp[p] # "none"}
Owned     == {p \in Pools : lp[p] = "ours"}
LpMints   == {MintOf[p] : p \in WithLp}
Full      == Cardinality(WithLp) >= Capacity
Held(p)   == MintOf[p] \in LpMints \cup tokens

\* resolveAccountBackedActiveLpCandidate: an owned LP the position state does
\* not track goes first, so that a tracked one that holds cannot hide it.
AccountBacked ==
  IF Owned \ {tracked} # {} THEN Owned \ {tracked} ELSE Owned

\* resolveOpenCandidateExcludedMints.
OnlyRecentlyClosed == {lastClosed}
ExcludedMints ==
  {lastClosed} \cup tokens \cup LpMints
    \cup {MintOf[p] : p \in {q \in Pools : q = tracked /\ stateOpen}}

OrNothing(S) == IF S = {} THEN {Nothing} ELSE S

\* buildCandidatePoolBackedCycleInput: only rows the worker calls openable.
FromDatabase ==
  IF Full THEN {Nothing}
  ELSE OrNothing({Candidate(p, FALSE) : p \in
         {q \in Pools : quality[q] = "safe" /\ MintOf[q] \notin ExcludedMints
                          /\ q \notin cooled}})

\* resolveActiveLpMaintenanceCandidate: only the tracked pool, or its token.
MetMaintenance ==
  LET active == {p \in Owned : quality[p] # "absent" /\ p \notin cooled}
  IN  IF tracked \in active THEN {tracked}
      ELSE {p \in active : tracked # NoPool /\ MintOf[p] = MintOf[tracked]}

\* An LP in the wallet keeps its exact pool occupied, whoever owns it.
Occupied == WithLp

\* applySafetyFilter: exposures pass unchecked; of the new entries only those
\* whose token is safe remain, but when none of them has a route to SOL there
\* is nothing to check and all of them pass.
SafetyFilter(S) ==
  LET fresh == {p \in S : ~Held(p)}
      kept  == {p \in fresh : quality[p] = "safe"
                  \/ /\ quality[p] = "noRoute"
                     /\ \E q \in fresh : MintOf[q] = MintOf[p] /\ quality[q] = "safe"}
  IN  IF \A p \in fresh : quality[p] = "noRoute" THEN S
      ELSE (S \ fresh) \cup (IF Full THEN {} ELSE kept)

FromMeteora(mode) ==
  IF mode # "new-open-only" /\ MetMaintenance # {}
  THEN {Maintain(p) : p \in MetMaintenance}
  ELSE
    LET met     == {p \in Pools : quality[p] # "absent"} \ Occupied
        asked   == IF mode = "new-open-only"
                   THEN {p \in met : ~Held(p) /\ MintOf[p] \notin ExcludedMints}
                   ELSE met
        rested  == {p \in SafetyFilter(asked) :
                      Held(p) \/ (MintOf[p] # lastClosed /\ p \notin cooled)}
        able    == {p \in rested : Held(p) \/ ~Full}
        first   == {p \in able : Held(p)}
    IN  OrNothing({Candidate(p, Held(p)) : p \in IF first = {} THEN able ELSE first})

\* buildLiveCycleInputFromIngest; `deep' is whether a safety check is passed in,
\* which turns the account-backed maintenance off while no position is tracked.
Choices(mode, source, deep) ==
  IF mode = "new-open-only" /\ Full THEN {Nothing}
  ELSE IF /\ mode # "new-open-only"
          /\ mode = "maintenance-only" \/ tracked # NoPool \/ ~deep
          /\ AccountBacked # {}
       THEN {Maintain(p) : p \in AccountBacked}
  ELSE IF mode = "maintenance-only" THEN {Nothing}
  ELSE IF mode = "default" /\ source = "database" /\ Owned \ {tracked} # {}
       THEN {Maintain(p) : p \in Owned \ {tracked}}
  ELSE IF source = "database" THEN FromDatabase
  ELSE FromMeteora(mode)

Select ==
  /\ context = Nothing
  /\ \E mode \in Modes, source \in Sources, deep \in BOOLEAN :
       context' \in Choices(mode, source, deep)
  /\ UNCHANGED inputs

Spec == Init /\ [][Select]_vars

-----------------------------------------------------------------------------
\* An LP that is in the wallet but not Lightld's is neither a maintenance
\* target nor a new-entry candidate, whichever path chose.
ForeignIsNoTarget ==
  context # Nothing => lp[context.pool] # "foreign"

\* A context that may open a position is about a token nothing is held of, not
\* closed a moment ago, in a pool without a cooldown and with a place free.
EntryIsNew ==
  context.kind = "candidate" /\ ~context.held =>
    /\ ~Full
    /\ MintOf[context.pool] \notin {lastClosed} \cup tokens \cup LpMints
    /\ context.pool \notin cooled
=============================================================================
