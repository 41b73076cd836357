----------------------------- MODULE RateLimiter -----------------------------
(***************************************************************************)
(* FileBackedSlidingWindowRateLimiter                                      *)
(* (src/src/execution/solana/sliding-window-rate-limiter.ts): processes    *)
(* that share one quota through a file of timestamps, guarded by a lock    *)
(* directory that is broken when it looks stale.  Times are kept as ages.  *)
(***************************************************************************)
EXTENDS Integers, Sequences, FiniteSets, FiniteSetsExt

CONSTANTS
  Workers,      \* the processes that share the quota
  Capacity,     \* capacity
  Window,       \* windowMs
  LockTimeout,  \* lockTimeoutMs
  MaxCrashes    \* bound: processes that die

None == "none"

LimiterAssumption ==
  /\ {Capacity, Window, LockTimeout} \subseteq Nat \ {0} /\ MaxCrashes \in Nat
  /\ None \notin Workers

VARIABLES
  owner,    \* the process that made the lock directory; None when there is none
  lockAge,  \* the age of the directory
  stamps,   \* the file: the ages of the requests, oldest first
  worker,   \* where each process is
  granted,  \* history: the ages of the slots given out, oldest first
  crashes

vars == <<owner, lockAge, stamps, worker, granted, crashes>>

At(at) == [at |-> at, read |-> <<>>, wait |-> 0]
Idle == At("idle")

TypeOK ==
  /\ owner \in Workers \cup {None} /\ lockAge \in 0..LockTimeout + 1
  /\ stamps \in Seq(0..Window)
  /\ \A p \in Workers :
       /\ worker[p].at \in {"idle", "locking", "removing", "inside", "unlocking", "full", "asleep"}
       /\ worker[p].read \in Seq(0..Window) /\ worker[p].wait \in 0..Window

Init ==
  /\ owner = None /\ lockAge = 0 /\ stamps = <<>> /\ granted = <<>> /\ crashes = 0
  /\ worker = [p \in Workers |-> Idle]

-----------------------------------------------------------------------------
\* pruneTimestamps: what has left the window does not count.  The oldest come first, so what is
\* left is the end.
Pruned(ages) == SubSeq(ages, Cardinality({i \in DOMAIN ages : ages[i] >= Window}) + 1, Len(ages))

Goes(p, to) == worker' = [worker EXCEPT ![p] = to]

Ask(p) ==
  /\ worker[p].at = "idle" /\ Goes(p, At("locking"))
  /\ UNCHANGED <<owner, lockAge, stamps, granted, crashes>>

\* mkdir succeeds, and the state is read.
Lock(p) ==
  /\ worker[p].at = "locking" /\ owner = None
  /\ owner' = p /\ lockAge' = 0
  /\ Goes(p, [At("inside") EXCEPT !.read = Pruned(stamps)])
  /\ UNCHANGED <<stamps, granted, crashes>>

\* mkdir fails and stat finds the directory old enough; it is removed one step later.
FindStale(p) ==
  /\ worker[p].at = "locking" /\ owner # None /\ lockAge > LockTimeout
  /\ Goes(p, At("removing"))
  /\ UNCHANGED <<owner, lockAge, stamps, granted, crashes>>

\* Mutant: the directory cannot be removed because the owner file is in it.
RemoveStaleFails(p) ==
  /\ worker[p].at = "removing" /\ Goes(p, At("locking"))
  /\ UNCHANGED <<owner, lockAge, stamps, granted, crashes>>

RemoveStale(p) ==
  /\ worker[p].at = "removing" /\ owner' = None /\ lockAge' = 0 /\ Goes(p, At("locking"))
  /\ UNCHANGED <<stamps, granted, crashes>>

\* Mutant: one request too many.
HasRoomForOne(ages) == Len(ages) <= Capacity

HasRoom(ages) == Len(ages) < Capacity

\* A request that finds room is noted with the time at which the lock was taken; one that finds none
\* waits for the oldest to leave the window.
WriteState(p) ==
  LET read == worker[p].read
  IN /\ worker[p].at = "inside"
     /\ IF HasRoom(read)
        THEN /\ stamps' = Append(read, 0) /\ granted' = Append(granted, 0)
             /\ Goes(p, At("unlocking"))
        ELSE /\ stamps' = read /\ UNCHANGED granted
             /\ Goes(p, [At("full") EXCEPT !.wait = Window - read[1]])
     /\ UNCHANGED <<owner, lockAge, crashes>>

\* rm of the lock directory, whoever made it.
Unlock(p) ==
  /\ worker[p].at \in {"unlocking", "full"}
  /\ owner' = None /\ lockAge' = 0
  /\ Goes(p, IF worker[p].at = "full" THEN [worker[p] EXCEPT !.at = "asleep"] ELSE Idle)
  /\ UNCHANGED <<stamps, granted, crashes>>

Retry(p) ==
  /\ worker[p].at = "asleep" /\ worker[p].wait = 0 /\ Goes(p, At("locking"))
  /\ UNCHANGED <<owner, lockAge, stamps, granted, crashes>>

Crash(p) ==
  /\ crashes < MaxCrashes /\ crashes' = crashes + 1
  /\ worker[p].at # "idle" /\ Goes(p, Idle)
  /\ UNCHANGED <<owner, lockAge, stamps, granted>>

Holds(p) == worker[p].at \in {"inside", "unlocking", "full"}

Older(ages) == [i \in DOMAIN ages |-> Min({ages[i] + 1, Window})]
\* Time passes, but a process that lives is through with the lock before it looks stale, and the
\* clock it read on entering is that of its write.
Tick ==
  /\ \A p \in Workers : Holds(p) => worker[p].at # "inside" /\ lockAge < LockTimeout
  /\ stamps' = Older(stamps)
  /\ granted' = Pruned(Older(granted))
  /\ lockAge' = IF owner = None THEN 0 ELSE Min({lockAge + 1, LockTimeout + 1})
  /\ worker' = [p \in Workers |-> [worker[p] EXCEPT !.wait = Max({0, @ - 1})]]
  /\ UNCHANGED <<owner, crashes>>

Step(p) == Lock(p) \/ FindStale(p) \/ RemoveStale(p) \/ WriteState(p) \/ Unlock(p) \/ Retry(p)
Next == Tick \/ \E p \in Workers : Ask(p) \/ Step(p) \/ Crash(p)

Spec == Init /\ [][Next]_vars
Fairness == WF_vars(Tick) /\ \A p \in Workers : WF_vars(Step(p))
FairSpec == Spec /\ Fairness

-----------------------------------------------------------------------------
(* Properties.                                                             *)

\* While no process has died in the critical section, no window holds more requests than the quota,
\* whichever processes made them.  (After a death two waiting processes may both find the lock stale,
\* and the second one then removes the lock the first has just taken.)
WindowHolds == crashes = 0 => Len(Pruned(granted)) <= Capacity

\* A lock left behind by a dead process does not hold the others for ever.
LockComesFree == []<>(owner = None \/ \A p \in Workers : worker[p].at # "locking")
=============================================================================
