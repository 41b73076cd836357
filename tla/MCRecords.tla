------------------------------ MODULE MCRecords ------------------------------
(* The half of MCComponents with the components that keep the program's records:
   the file of the rate limiter, the journals and rows of the mirror, the
   position ledger, and the selection that reads positions and pools.  They
   share no variable here: `part' says which component a behaviour is about.
   The ledger and the selection are instantiated for several settings.      *)
EXTENDS Integers, TLC

CONSTANTS
  \* RateLimiter
  Workers, Capacity, Window, LockTimeout, MaxCrashes,
  \* Mirror
  BufferSize, BatchSize, Threshold, MaxLines, MaxFailures, MaxRestarts,
  \* PositionBook: the settings, and what each stands for
  Ledgers, OpensIn, ForeignIn, DeathsIn,
  \* IngestSelection: the markets, and their pools
  Markets, PoolsIn, Mints, MintOf,
  MaxPositions

\* Two opens in one life of the process, one over two crashes, and one next to a position
\* that the user opens by hand.
OpensOf == "book" :> 2 @@ "solo" :> 1 @@ "hand" :> 1
ForeignOf == "book" :> FALSE @@ "solo" :> FALSE @@ "hand" :> TRUE
DeathsOf == "book" :> 0 @@ "solo" :> 2 @@ "hand" :> 1
\* Two pools of two mints, and two of one.
PoolsOf == "two" :> {"a1", "b1"} @@ "twin" :> {"a1", "a2"}
MintOfOf == "two" :> ("a1" :> "a" @@ "b1" :> "b") @@ "twin" :> ("a1" :> "a" @@ "a2" :> "a")

VARIABLES
  part,
  \* Mirror
  m_journal, m_cursor, m_row, m_mirrored, m_version, m_queue, m_dropped, m_lost,
  m_health, m_daemon, m_replay, m_failures, m_restarts,
  \* RateLimiter
  r_owner, r_lockAge, r_stamps, r_worker, r_granted, r_crashes,
  \* PositionBook
  b_chain, b_shown, b_view, b_ledger, b_pending, b_order, b_at, b_may, b_result,
  b_opened, b_crashes,
  \* IngestSelection
  s_lp, s_tokens, s_tracked, s_stateOpen, s_lastClosed, s_cooled, s_quality, s_context

Mirror == INSTANCE Mirror WITH
  Capacity <- BufferSize, journal <- m_journal, cursor <- m_cursor, row <- m_row,
  mirrored <- m_mirrored, version <- m_version, queue <- m_queue, dropped <- m_dropped,
  lost <- m_lost, health <- m_health, daemon <- m_daemon, replay <- m_replay,
  failures <- m_failures, restarts <- m_restarts
Limiter == INSTANCE RateLimiter WITH
  owner <- r_owner, lockAge <- r_lockAge, stamps <- r_stamps, worker <-
  r_worker, granted <- r_granted, crashes <- r_crashes
Book(w) == INSTANCE PositionBook WITH
  Opens <- OpensIn[w], Foreign <- ForeignIn[w], MaxActive <- MaxPositions, MaxCrashes <- DeathsIn[w],
  chain <- b_chain, shown <- b_shown, view <- b_view, ledger <- b_ledger,
  pending <- b_pending, order <- b_order, at <- b_at, may <- b_may, result <- b_result,
  opened <- b_opened, crashes <- b_crashes
Pass(w) == INSTANCE IngestSelection WITH
  Pools <- PoolsIn[w], MintOf <- MintOf[w], Capacity <- MaxPositions, lp <- s_lp,
  tokens <- s_tokens, tracked <- s_tracked, stateOpen <- s_stateOpen,
  lastClosed <- s_lastClosed, cooled <- s_cooled, quality <- s_quality, context <- s_context

mirrorVars == <<m_journal, m_cursor, m_row, m_mirrored, m_version, m_queue, m_dropped,
  m_lost, m_health, m_daemon, m_replay, m_failures, m_restarts>>
limiterVars == <<r_owner, r_lockAge, r_stamps, r_worker, r_granted, r_crashes>>
bookVars == <<b_chain, b_shown, b_view, b_ledger, b_pending, b_order, b_at, b_may,
  b_result, b_opened, b_crashes>>
passVars == <<s_lp, s_tokens, s_tracked, s_stateOpen, s_lastClosed, s_cooled, s_quality,
  s_context>>
records == <<part, mirrorVars, limiterVars, bookVars, passVars>>

ASSUME RecordsAssumption ==
  /\ Mirror!MirrorAssumption /\ Limiter!LimiterAssumption
  /\ \A w \in Ledgers : Book(w)!BookAssumption
  /\ \A w \in Markets : Pass(w)!SelectionAssumption

Absent == "absent"

RecordsParts == {"mirror", "limiter"} \cup Ledgers \cup Markets

\* Whatever `part' is.  A ledger and a selection that the behaviour is not about are not there.
RecordsInit ==
  /\ Mirror!Init
  /\ Limiter!Init
  /\ IF part \in Ledgers THEN \E w \in Ledgers : part = w /\ Book(w)!Init
     ELSE /\ b_chain = Absent /\ b_shown = Absent /\ b_view = Absent /\ b_ledger = Absent
          /\ b_pending = Absent /\ b_order = Absent /\ b_at = Absent /\ b_may = Absent
          /\ b_result = Absent /\ b_opened = Absent /\ b_crashes = Absent
  /\ IF part \in Markets THEN \E w \in Markets : part = w /\ Pass(w)!Init
     ELSE /\ s_lp = Absent /\ s_tokens = Absent /\ s_tracked = Absent /\ s_stateOpen = Absent
          /\ s_lastClosed = Absent /\ s_cooled = Absent /\ s_quality = Absent
          /\ s_context = Absent

\* The selection is checked for one pass.
RecordsRest == part \in Markets /\ UNCHANGED records

RecordsNext ==
  \/ part = "mirror" /\ Mirror!Next /\ UNCHANGED <<part, limiterVars, bookVars, passVars>>
  \/ part = "limiter" /\ Limiter!Next /\ UNCHANGED <<part, mirrorVars, bookVars, passVars>>
  \/ \E w \in Ledgers : /\ part = w /\ Book(w)!Next
                        /\ UNCHANGED <<part, mirrorVars, limiterVars, passVars>>
  \/ \E w \in Markets : /\ part = w /\ Pass(w)!Select
                        /\ UNCHANGED <<part, mirrorVars, limiterVars, bookVars>>
  \/ RecordsRest

RecordsSpec == RecordsInit /\ [][RecordsNext]_records

-----------------------------------------------------------------------------
\* The types of the states of the component that the behaviour is about.
RecordsTypeOK ==
  /\ part = "mirror" => Mirror!TypeOK
  /\ part = "limiter" => Limiter!TypeOK
  /\ \A w \in Ledgers : part = w => Book(w)!TypeOK
  /\ \A w \in Markets : part = w => Pass(w)!SelectionTypeOK

\* Every line that the replay has passed is mirrored, queued, or was counted as lost.
AccountedFor == part = "mirror" => Mirror!AccountedFor
\* When the replay is done and nothing was lost, a row shows the last state of its order.
RowsKeepUp == part = "mirror" => Mirror!RowsKeepUp
\* No window of time sees more grants than the limiter's capacity, while no process
\* has died with the lock.
WindowHolds == part = "limiter" => Limiter!WindowHolds
\* A record is closed only if its position is not on the chain.
ClosedIsGone == \A w \in Ledgers : part = w => Book(w)!ClosedIsGone
\* A position of the chain has one record that stands for it.
OnePerPosition == \A w \in Ledgers : part = w /\ ~ForeignIn[w] => Book(w)!OnePerPosition
\* The books never lose a position the program opened, but for one crash.
OwnedStaysNamed ==
  [][\A w \in Ledgers : part = w /\ ~ForeignIn[w] => Book(w)!StaysNamed]_bookVars
\* A position the user opened is taken over only while an open in its pool waits for
\* its address.
ForeignLeftAlone == [][\A w \in Ledgers : part = w /\ ForeignIn[w] => Book(w)!LeftAlone]_bookVars
\* No pass is about an LP of the wallet that is not the program's, and none opens
\* a mint that was just closed, is cooled down or held.
EntryIsOurs ==
  \A w \in Markets : part = w => Pass(w)!ForeignIsNoTarget /\ Pass(w)!EntryIsNew
=============================================================================
