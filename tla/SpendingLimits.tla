---------------------------- MODULE SpendingLimits ----------------------------
(***************************************************************************)
(* The spending limits of the live daemon (src/src/risk/spending-limits.ts *)
(* and its callers in live-cycle.ts, live-daemon.ts and                    *)
(* prepared-broadcast-store.ts).                                           *)
(*                                                                         *)
(* One file holds two running totals, of the current day and of the        *)
(* current hour, and the reservations they are made of.  Every operation   *)
(* reads the file, resets what belongs to a past day or hour, and writes   *)
(* the result back.  An order is approved against the totals, reserved     *)
(* after its WAL is written, reserved again whenever the WAL is replayed,  *)
(* and settled with what it really spent or released.  The clock moves     *)
(* between any two of these steps, and between the read and the timestamp  *)
(* of one of them.                                                         *)
(***************************************************************************)
EXTENDS Integers, FiniteSets, FiniteSetsExt

CONSTANTS
  Orders,             \* idempotency keys of open-risk orders
  Amounts,            \* what an order may ask for and what it may turn out to have spent
  MaxSingle,          \* maxSingleOrderSol
  MaxHourly,          \* maxHourlySpendSol
  MaxDaily,           \* maxDailySpendSol
  ResetHour,          \* dailySpendResetHour
  FirstHour,          \* bound: the hour at which the daemon starts
  LastHour,           \* bound: the hour at which the clock stops
  ClockMovesInside    \* whether the hour may turn between an operation's read and its timestamp

ASSUME LimitsAssumption ==
  /\ Amounts \subseteq Nat \ {0}
  /\ MaxSingle \in Nat /\ MaxHourly \in Nat /\ MaxDaily \in Nat
  /\ ResetHour \in 0..23
  /\ FirstHour \in Nat /\ LastHour \in Nat /\ FirstHour <= LastHour
  /\ ClockMovesInside \in BOOLEAN

VARIABLES
  now,        \* the clock, in hours
  books,      \* spending-limits.json
  phase,      \* what has become of each order
  requested   \* requestedPositionSol of each order, fixed when it is approved

vars == <<now, books, phase, requested>>

\* idle:     not approved
\* approved: past the guards, its WAL written, not yet reserved by this cycle
\* booked:   reserved; the call is made, and made again from the WAL
\* rejected: the WAL says not-submitted
\* out:      submitted, tracked by the pending file
\* filled:   confirmed; closed: rejected or failed, and forgotten
Phases == {"idle", "approved", "booked", "rejected", "out", "filled", "closed"}
\* The order the daemon is busy with: the WAL or the pending file names it.
Open == {"approved", "booked", "rejected", "out"}

-----------------------------------------------------------------------------
(* The file.                                                               *)

\* resetDateStringAt, with the days counted from the first one.
Day(hour) == (hour + 24 - ResetHour) \div 24

\* A reservation: no order has one when `amount` is 0.
Reservation(status, amount, hour) == [status |-> status, amount |-> amount, hour |-> hour]
NoReservation == Reservation("none", 0, 0)
Reservations == [status : {"none", "reserved", "settled"}, amount : Nat, hour : Nat]

Books(day, hour, daily, hourly, count, hourlyCount, reservations) ==
  [day |-> day, hour |-> hour, daily |-> daily, hourly |-> hourly, count |-> count,
   hourlyCount |-> hourlyCount, reservations |-> reservations]
EmptyBooks(at) == Books(Day(at), at, 0, 0, 0, 0, [k \in Orders |-> NoReservation])

\* Mutant: a new hour drops the reservations too.
ReadAtForgetful(at) ==
  IF books.day # Day(at) \/ books.hour # at THEN EmptyBooks(at) ELSE books

\* normalizeAndReset: a new day drops everything, a new hour the hourly total.
ReadAt(at) ==
  IF books.day # Day(at) THEN EmptyBooks(at)
  ELSE IF books.hour # at THEN Books(books.day, at, books.daily, 0, books.count, 0, books.reservations)
  ELSE books

Booked(b) == {k \in Orders : b.reservations[k].status # "none"}
\* Which of the two totals a reservation is part of: it may be older than both.
OfDay(b, k) == Day(b.reservations[k].hour) = b.day
OfHour(b, k) == b.reservations[k].hour = b.hour

\* A total never goes below zero.
Less(total, part) == IF total > part THEN total - part ELSE 0

TypeOK ==
  /\ now \in FirstHour..LastHour
  /\ books \in [day : Nat, hour : Nat, daily : Nat, hourly : Nat, count : Nat, hourlyCount : Nat,
                reservations : [Orders -> Reservations]]
  /\ phase \in [Orders -> Phases]
  /\ requested \in [Orders -> Amounts \cup {0}]

Init ==
  /\ now = FirstHour
  /\ books = EmptyBooks(now)
  /\ phase = [k \in Orders |-> "idle"]
  /\ requested = [k \in Orders |-> 0]

-----------------------------------------------------------------------------
(* The operations of SpendingLimitsStore.                                  *)

\* Mutant: a replayed reservation is booked again.
AfterReserveAgain(k, amount, read, stamp) ==
  LET b == ReadAt(read)
  IN Books(b.day, b.hour, b.daily + amount, b.hourly + amount, b.count + 1, b.hourlyCount + 1,
           [b.reservations EXCEPT ![k] = Reservation("reserved", amount, stamp)])

\* reserveSpend, read at one hour and stamped at another: an order is booked once, and a second
\* call changes nothing (a different amount would be an error that changes nothing either).
AfterReserve(k, amount, read, stamp) ==
  LET b == ReadAt(read)
  IN IF k \in Booked(b) THEN books
     ELSE Books(b.day, b.hour, b.daily + amount, b.hourly + amount, b.count + 1, b.hourlyCount + 1,
                [b.reservations EXCEPT ![k] = Reservation("reserved", amount, stamp)])

\* releaseSpend: only an unsettled reservation, and only from the totals it is part of.
AfterRelease(k) ==
  LET b == ReadAt(now)
      amount == b.reservations[k].amount
  IN IF b.reservations[k].status # "reserved" THEN books
     ELSE Books(b.day, b.hour,
                IF OfDay(b, k) THEN Less(b.daily, amount) ELSE b.daily,
                IF OfHour(b, k) THEN Less(b.hourly, amount) ELSE b.hourly,
                IF OfDay(b, k) THEN Less(b.count, 1) ELSE b.count,
                IF OfHour(b, k) THEN Less(b.hourlyCount, 1) ELSE b.hourlyCount,
                [b.reservations EXCEPT ![k] = NoReservation])

\* Mutant: the reservation keeps the difference to what was booked.
AfterSettleDelta(k, actual) ==
  LET b == ReadAt(now)
      old == b.reservations[k]
  IN IF old.status # "reserved" THEN books
     ELSE Books(b.day, b.hour,
                IF OfDay(b, k) THEN Less(b.daily + actual, old.amount) ELSE b.daily,
                IF OfHour(b, k) THEN Less(b.hourly + actual, old.amount) ELSE b.hourly,
                b.count, b.hourlyCount,
                [b.reservations EXCEPT ![k] = Reservation("settled", actual - old.amount, old.hour)])

\* Mutant: a settlement is taken off the hour's total in whatever hour the order was booked.
AfterSettleUnstamped(k, actual) ==
  LET b == ReadAt(now)
      old == b.reservations[k]
  IN IF old.status = "none" \/ (old.status = "settled" /\ old.amount = actual) THEN books
     ELSE Books(b.day, b.hour,
                IF OfDay(b, k) THEN Less(b.daily + actual, old.amount) ELSE b.daily,
                Less(b.hourly + actual, old.amount), b.count, b.hourlyCount,
                [b.reservations EXCEPT ![k] = Reservation("settled", actual, old.hour)])

\* settleSpend: the amount becomes what was really spent, once or, with better evidence, again.
AfterSettle(k, actual) ==
  LET b == ReadAt(now)
      old == b.reservations[k]
  IN IF old.status = "none" \/ (old.status = "settled" /\ old.amount = actual) THEN books
     ELSE Books(b.day, b.hour,
                IF OfDay(b, k) THEN Less(b.daily + actual, old.amount) ELSE b.daily,
                IF OfHour(b, k) THEN Less(b.hourly + actual, old.amount) ELSE b.hourly,
                b.count, b.hourlyCount,
                [b.reservations EXCEPT ![k] = Reservation("settled", actual, old.hour)])

-----------------------------------------------------------------------------
(* What the daemon does with an order.                                     *)

Become(k, new) == phase' = [phase EXCEPT ![k] = new]
AtDesk(k) == phase[k] \in Open

\* The hour turns.
ClockTicks ==
  /\ now < LastHour
  /\ now' = now + 1
  /\ UNCHANGED <<books, phase, requested>>

\* Mutant: the guards look at what is spent and not at what the new order adds.
AllowedBefore(b, amount) == b.daily <= MaxDaily /\ b.hourly <= MaxHourly /\ amount <= MaxSingle

\* evaluateLiveGuards: the order must fit into both totals.
Allowed(b, amount) ==
  /\ amount <= MaxSingle
  /\ b.daily + amount <= MaxDaily
  /\ b.hourly + amount <= MaxHourly

\* A cycle without a pending order or a WAL passes the guards and signs an order.
Approve(k) ==
  /\ phase[k] = "idle" /\ ~ \E j \in Orders : AtDesk(j)
  /\ \E amount \in Amounts :
       /\ Allowed(ReadAt(now), amount)
       /\ requested' = [requested EXCEPT ![k] = amount]
  /\ Become(k, "approved")
  /\ UNCHANGED <<now, books>>

\* reserveSpend by the cycle, and by recoverPreparedBroadcast whenever it replays the WAL.
Reserve(k) ==
  /\ phase[k] \in {"approved", "booked"}
  /\ \E stamp \in now..(IF ClockMovesInside THEN now + 1 ELSE now) :
       /\ stamp <= LastHour
       /\ books' = AfterReserve(k, requested[k], now, stamp)
       /\ now' = stamp
  /\ Become(k, "booked")
  /\ UNCHANGED requested

\* The order is rejected before or after a transaction of it went out: its capital is released,
\* again after a crash, until the file that names it is cleared.
Reject(k) ==
  /\ phase[k] \in {"booked", "out", "rejected"}
  /\ books' = AfterRelease(k)
  /\ Become(k, "rejected")
  /\ UNCHANGED <<now, requested>>

\* A rejected order is forgotten; so is an order that failed on the chain without a release.
Close(k) ==
  /\ phase[k] \in {"rejected", "out"}
  /\ Become(k, "closed")
  /\ UNCHANGED <<now, books, requested>>

\* The pending file tracks the order and the WAL is cleared.
Submit(k) ==
  /\ phase[k] = "booked"
  /\ Become(k, "out")
  /\ UNCHANGED <<now, books, requested>>

\* The order is confirmed, with evidence of what it spent or without.
Fill(k) ==
  /\ phase[k] = "out"
  /\ books' \in {books} \cup {AfterSettle(k, actual) : actual \in Amounts}
  /\ Become(k, "filled")
  /\ UNCHANGED <<now, requested>>

\* Evidence of a position's entry found later settles it again.  A WAL that was never reserved is
\* replayed, and so reserved, before that.
SettleAgain(k) ==
  /\ phase[k] = "filled" /\ ~ \E j \in Orders : phase[j] = "approved"
  /\ \E actual \in Amounts : books' = AfterSettle(k, actual)
  /\ UNCHANGED <<now, phase, requested>>

Next ==
  \/ ClockTicks
  \/ \E k \in Orders :
       Approve(k) \/ Reserve(k) \/ Reject(k) \/ Close(k) \/ Submit(k) \/ Fill(k) \/ SettleAgain(k)

Spec == Init /\ [][Next]_vars

-----------------------------------------------------------------------------
(* Properties.                                                             *)

Total(b, S) == SumFunctionOnSet([k \in Orders |-> b.reservations[k].amount], S)

\* The day's total and count, as the next operation will read them, are exactly what the
\* reservations of the file add up to: no replay, release, settlement or turn of the clock makes
\* the daemon forget or count twice.
DayBalances ==
  LET b == ReadAt(now)
  IN b.daily = Total(b, Booked(b)) /\ b.count = Cardinality(Booked(b))

\* The hour's total is what the reservations made in this hour add up to: a release or a
\* settlement of an older order does not touch it.
HourBalances ==
  LET b == ReadAt(now)
      recent == {k \in Booked(b) : OfHour(b, k)}
  IN b.hourly = Total(b, recent) /\ b.hourlyCount = Cardinality(recent)

\* No reservation lifts the totals over the limits, not even the one that a WAL replay makes after
\* a crash, hours later and without a look at the limits.
WithinLimits ==
  [][\A k \in Orders :
       books' # books /\ k \in Booked(books') \ Booked(ReadAt(now)) =>
         books'.daily <= MaxDaily /\ books'.hourly <= MaxHourly]_vars

\* An order on its way is booked: only a new day makes the daemon forget its reservation.
OutIsBooked ==
  \A k \in Orders :
    phase[k] \in {"booked", "out"} => k \in Booked(ReadAt(now)) \/ books.day # Day(now)
=============================================================================
