---------------------------- MODULE ReadWriteLock ----------------------------
(***************************************************************************)
(* The lock of rct/ReadWriteLock.cpp: a counter and a flag under a mutex,  *)
(* and one condition variable for readers and writers alike.               *)
(*                                                                         *)
(* Every member function holds mMutex from its first line to its return,   *)
(* except while it waits on mCond, so an action is one stretch of code     *)
(* between two points where the mutex is free.  A locker is one            *)
(* lock .. unlock pair; a thread that locks twice is two lockers.          *)
(***************************************************************************)
EXTENDS Integers, FiniteSets

CONSTANT Lockers

ASSUME LockersAssumption == IsFiniteSet(Lockers)

VARIABLES mCount,   \* number of holders, as the code counts them
          mWrite,   \* the lock is held for writing
          type,     \* what each locker asked for
          timed,    \* its maxTime is positive: it waits with wait_for
          pc        \* where each locker is

vars == <<mCount, mWrite, type, timed, pc>>

LockTypes == {"Read", "Write"}

(* "new": not called yet; "asleep": in the wait set of mCond; "awake": has *)
(* left it and competes for mMutex; "expired": the same, after a timeout;  *)
(* "held": owns the lock; "done": has unlocked, or was refused.            *)
PCs == {"new", "asleep", "awake", "expired", "held", "done"}

Init ==
    /\ mCount = 0
    /\ mWrite = FALSE
    /\ type \in [Lockers -> LockTypes]
    /\ timed \in [Lockers -> BOOLEAN]
    /\ pc = [l \in Lockers |-> "new"]

(* A writer that only looks for another writer. *)
BadBlocked(l) == mWrite

(* The condition of the while loops of lock, and of the tests of tryLock. *)
Blocked(l) == IF type[l] = "Read" THEN mWrite ELSE mCount # 0

(* A writer that does not count itself. *)
BadTake(l) ==
    /\ pc' = [pc EXCEPT ![l] = "held"]
    /\ mCount' = IF type[l] = "Read" THEN mCount + 1 ELSE mCount
    /\ mWrite' = (mWrite \/ type[l] = "Write")
    /\ UNCHANGED <<type, timed>>

(* The code after the loop, or after the test of tryLock. *)
Take(l) ==
    /\ pc' = [pc EXCEPT ![l] = "held"]
    /\ IF type[l] = "Read"
         THEN /\ mCount' = mCount + 1
              /\ UNCHANGED mWrite
         ELSE /\ mCount' = 1
              /\ mWrite' = TRUE
    /\ UNCHANGED <<type, timed>>

Move(l, to) ==
    /\ pc' = [pc EXCEPT ![l] = to]
    /\ UNCHANGED <<mCount, mWrite, type, timed>>

(* lock: the call, and each new look at the loop's condition. *)
Lock(l) ==
    /\ pc[l] \in {"new", "awake"}
    /\ IF Blocked(l) THEN Move(l, "asleep") ELSE Take(l)

(* A tryLock that tests the flag for writers too. *)
BadTryLock(l) ==
    /\ pc[l] = "new"
    /\ IF mWrite THEN Move(l, "done") ELSE Take(l)

TryLock(l) ==
    /\ pc[l] = "new"
    /\ IF Blocked(l) THEN Move(l, "done") ELSE Take(l)

(* A condition variable may wake a waiter that nobody notified. *)
SpuriousWakeup(l) ==
    /\ pc[l] = "asleep"
    /\ Move(l, "awake")

(* wait_for gives up; the result stays cv_status::timeout even when the    *)
(* lock is released before the waiter has mMutex again.                    *)
Expire(l) ==
    /\ pc[l] = "asleep"
    /\ timed[l]
    /\ Move(l, "expired")

GiveUp(l) ==
    /\ pc[l] = "expired"
    /\ Move(l, "done")

(* notify_all: every member of the wait set leaves it. *)
NotifyAll(p) == [l \in Lockers |-> IF p[l] = "asleep" THEN "awake" ELSE p[l]]

(* An unlock that forgets the notification. *)
SilentUnlock(l) ==
    /\ pc[l] = "held"
    /\ mCount' = mCount - 1
    /\ pc' = [pc EXCEPT ![l] = "done"]
    /\ mWrite' = (mWrite /\ mCount > 1)
    /\ UNCHANGED <<type, timed>>

Unlock(l) ==
    /\ pc[l] = "held"
    /\ mCount' = mCount - 1
    /\ LET left == [pc EXCEPT ![l] = "done"] IN
       IF mCount > 1
         THEN /\ pc' = left
              /\ UNCHANGED mWrite
         ELSE /\ pc' = NotifyAll(left)
              /\ mWrite' = FALSE
    /\ UNCHANGED <<type, timed>>

(* Nothing is left to do: every pair is over. *)
Finished ==
    /\ \A l \in Lockers : pc[l] = "done"
    /\ UNCHANGED vars

Next ==
    \/ \E l \in Lockers :
          \/ Lock(l) \/ TryLock(l) \/ Unlock(l)
          \/ SpuriousWakeup(l) \/ Expire(l) \/ GiveUp(l)
    \/ Finished

(* mMutex is granted to whoever keeps asking, and holders do unlock.       *)
(* Nothing makes a caller appear: calls and timeouts are not fair.         *)
Fairness ==
    \A l \in Lockers :
        /\ WF_vars(pc[l] = "awake" /\ Lock(l))
        /\ WF_vars(Unlock(l))
        /\ WF_vars(GiveUp(l))

Spec == Init /\ [][Next]_vars

FairSpec == Spec /\ Fairness
-----------------------------------------------------------------------------
Holders == {l \in Lockers : pc[l] = "held"}

TypeOK ==
    /\ mCount \in Nat
    /\ mWrite \in BOOLEAN
    /\ type \in [Lockers -> LockTypes]
    /\ timed \in [Lockers -> BOOLEAN]
    /\ pc \in [Lockers -> PCs]

(* mCount is exactly the number of lockers that hold the lock, whatever    *)
(* the order of calls, wake-ups and timeouts.                              *)
CountIsHolders == mCount = Cardinality(Holders)

(* A writer is alone, and mWrite says whether there is one. *)
Exclusion ==
    /\ mWrite <=> \E l \in Holders : type[l] = "Write"
    /\ \A l \in Holders : type[l] = "Write" => Holders = {l}

(* The assertions of unlock, lock and tryLock hold where they are reached: *)
(* an owner finds mCount > 0, and no write flag while others remain; a     *)
(* writer that finds the count at zero finds the flag clear.               *)
AssertsHold ==
    /\ Holders # {} => mCount > 0
    /\ mCount > 1 => ~mWrite
    /\ mCount = 0 => ~mWrite

(* No wake-up is lost: whoever sleeps on mCond is still kept out, so the   *)
(* unlock that will let it in has not happened yet.  unlock relies on it   *)
(* when it returns without notifying as long as readers remain.            *)
SleepersAreBlocked == \A l \in Lockers : pc[l] = "asleep" => Blocked(l)

(* The inductive invariant. *)
IInv == TypeOK /\ CountIsHolders /\ Exclusion /\ SleepersAreBlocked

(* Every locker that waits gets the lock or its timeout. *)
WaitersReturn ==
    \A l \in Lockers : pc[l] = "asleep" ~> pc[l] \in {"held", "done"}

Abstract == INSTANCE SharedExclusive WITH
                readers <- {l \in Holders : type[l] = "Read"},
                writers <- {l \in Holders : type[l] = "Write"}

(* The lock implements the readers/writer promise. *)
ImplementsSharedExclusive == Abstract!AbsSpec
=============================================================================
