------------------------- MODULE ReadWriteLockProofs -------------------------
(***************************************************************************)
(* ReadWriteLock, for every finite set of lockers: the count is right, a   *)
(* writer is alone, no sleeper is forgotten, and the lock implements       *)
(* SharedExclusive.                                                        *)
(***************************************************************************)
EXTENDS ReadWriteLock, FiniteSetTheorems, TLAPS

(* The number of holders is a natural number, zero only when there is none. *)
LEMMA HoldersFinite ==
    ASSUME TypeOK
    PROVE  /\ IsFiniteSet(Holders)
           /\ Cardinality(Holders) \in Nat
           /\ Cardinality(Holders) = 0 <=> Holders = {}
<1>1. Holders \subseteq Lockers
  BY DEF Holders
<1>2. IsFiniteSet(Holders)
  BY <1>1, LockersAssumption, FS_Subset
<1> QED
  BY <1>2, FS_CardinalityType, FS_EmptySet

(* A locker that takes the lock adds one holder. *)
LEMMA TakeAdds ==
    ASSUME IInv, NEW l \in Lockers, pc[l] # "held", Take(l), ~Blocked(l)
    PROVE  IInv'
<1> USE DEF IInv, TypeOK
<1>1. pc' = [pc EXCEPT ![l] = "held"]
  BY DEF Take
<1>2. Holders' = Holders \cup {l} /\ l \notin Holders
  BY <1>1 DEF Holders
<1>3. Cardinality(Holders') = Cardinality(Holders) + 1
  BY <1>2, HoldersFinite, FS_AddElement
<1>4. TypeOK'
  <2>1. mWrite' \in BOOLEAN
    BY Zenon DEF Take
  <2>2. mCount' \in Nat
    BY DEF Take
  <2>3. pc' \in [Lockers -> PCs] /\ type' = type /\ timed' = timed
    BY DEF Take, PCs
  <2> QED
    BY <2>1, <2>2, <2>3
<1>5. CASE type[l] = "Read"
  <2>1. ~mWrite /\ ~mWrite' /\ mCount' = mCount + 1
    BY <1>5 DEF Blocked, Take
  <2>2. CountIsHolders'
    BY <1>3, <2>1 DEF CountIsHolders
  <2>3. type' = type
    BY DEF Take
  <2>4. Exclusion'
    BY <1>2, <1>5, <2>1, <2>3 DEF Exclusion
  <2>5. SleepersAreBlocked'
    BY <1>1, <1>4, <2>1, <2>3 DEF SleepersAreBlocked, Blocked, LockTypes
  <2> QED
    BY <1>4, <2>2, <2>4, <2>5
<1>6. CASE type[l] = "Write"
  <2>0. mWrite'
    BY <1>6, Zenon DEF Take
  <2>1. mCount = 0 /\ mCount' = 1
    BY <1>6 DEF Blocked, Take
  <2>2. Holders = {} /\ Holders' = {l}
    BY <2>1, <1>2, HoldersFinite DEF CountIsHolders
  <2>3. CountIsHolders'
    BY <2>1, <2>2, FS_Singleton DEF CountIsHolders
  <2>4. type' = type
    BY DEF Take
  <2>5. Exclusion'
    BY <1>6, <2>0, <2>2, <2>4 DEF Exclusion
  <2>6. SleepersAreBlocked'
    BY <2>0, <2>1, <2>4 DEF SleepersAreBlocked, Blocked
  <2> QED
    BY <1>4, <2>3, <2>5, <2>6
<1> QED
  BY <1>5, <1>6 DEF LockTypes

(* A locker that neither takes nor frees the lock changes no holder. *)
LEMMA MoveKeeps ==
    ASSUME IInv, NEW l \in Lockers, NEW to \in PCs \ {"held"},
           pc[l] # "held", to = "asleep" => Blocked(l), Move(l, to)
    PROVE  IInv'
<1> USE DEF IInv
<1>1. TypeOK' /\ UNCHANGED <<mCount, mWrite, type>>
  BY DEF TypeOK, Move
<1>2. Holders' = Holders
  BY DEF Move, Holders, TypeOK
<1>3. CountIsHolders' /\ Exclusion'
  BY <1>1, <1>2 DEF CountIsHolders, Exclusion
<1>4. SleepersAreBlocked'
  BY <1>1 DEF SleepersAreBlocked, Blocked, Move, TypeOK
<1> QED
  BY <1>1, <1>3, <1>4

(* unlock removes one holder; the last one clears the flag and wakes all. *)
LEMMA UnlockKeeps ==
    ASSUME IInv, NEW l \in Lockers, Unlock(l)
    PROVE  IInv'
<1> USE DEF IInv
<1>1. l \in Holders /\ UNCHANGED <<type, timed>> /\ mCount' = mCount - 1
  BY DEF Unlock, Holders
<1>2. \A k \in Lockers : pc'[k] = "held" <=> pc[k] = "held" /\ k # l
  BY DEF Unlock, NotifyAll, TypeOK
<1>3. Holders' = Holders \ {l}
  BY <1>2 DEF Holders
<1>4. Cardinality(Holders') = Cardinality(Holders) - 1
  BY <1>1, <1>3, HoldersFinite, FS_RemoveElement
<1>5. mCount > 0
  BY <1>1, HoldersFinite DEF CountIsHolders
<1>6. TypeOK'
  <2>1. mWrite' \in BOOLEAN
    BY Zenon DEF Unlock, TypeOK
  <2>2. mCount' \in Nat
    BY <1>1, <1>5 DEF TypeOK
  <2>3. pc' \in [Lockers -> PCs]
    BY DEF Unlock, NotifyAll, TypeOK, PCs
  <2> QED
    BY <1>1, <2>1, <2>2, <2>3 DEF TypeOK
<1>7. CountIsHolders'
  BY <1>1, <1>4 DEF CountIsHolders
<1>8. CASE mCount > 1
  <2>1. ~mWrite /\ ~mWrite'
    <3>1. mWrite' = mWrite
      BY <1>8 DEF Unlock
    <3>2. ASSUME mWrite PROVE FALSE
      <4>1. PICK w \in Holders : Holders = {w}
        BY <3>2 DEF Exclusion
      <4>2. Cardinality(Holders) = 1
        BY <4>1, FS_Singleton
      <4> QED
        BY <4>2, <1>8 DEF CountIsHolders
    <3> QED
      BY <3>1, <3>2 DEF TypeOK
  <2>2. Exclusion'
    BY <1>1, <1>3, <2>1 DEF Exclusion
  <2>3. SleepersAreBlocked'
    BY <1>1, <1>8, <2>1 DEF SleepersAreBlocked, Blocked, Unlock, TypeOK
  <2> QED
    BY <1>6, <1>7, <2>2, <2>3
<1>9. CASE mCount = 1
  <2>1. ~mWrite' /\ Holders' = {}
    <3>1. ~mWrite'
      BY <1>9 DEF Unlock
    <3>2. TypeOK' => Holders' = {}
      BY <1>4, <1>9, <1>3, HoldersFinite, FS_Subset, FS_EmptySet DEF CountIsHolders
    <3> QED
      BY <3>1, <3>2, <1>6
  <2>2. Exclusion'
    BY <2>1 DEF Exclusion
  <2>3. SleepersAreBlocked'
    BY <1>9 DEF SleepersAreBlocked, Unlock, NotifyAll, TypeOK
  <2> QED
    BY <1>6, <1>7, <2>2, <2>3
<1> QED
  BY <1>5, <1>8, <1>9 DEF TypeOK

(* The invariant is inductive. *)
LEMMA NextKeeps ==
    ASSUME IInv, [Next]_vars
    PROVE  IInv'
<1>1. CASE UNCHANGED vars
  BY <1>1 DEF vars, IInv, TypeOK, CountIsHolders, Exclusion, SleepersAreBlocked,
              Blocked, Holders
<1>2. ASSUME NEW l \in Lockers, Lock(l) PROVE IInv'
  BY <1>2, TakeAdds, MoveKeeps DEF Lock, PCs
<1>3. ASSUME NEW l \in Lockers, TryLock(l) PROVE IInv'
  BY <1>3, TakeAdds, MoveKeeps DEF TryLock, PCs
<1>4. ASSUME NEW l \in Lockers, Unlock(l) PROVE IInv'
  BY <1>4, UnlockKeeps
<1>5. ASSUME NEW l \in Lockers, SpuriousWakeup(l) PROVE IInv'
  BY <1>5, MoveKeeps DEF SpuriousWakeup, PCs
<1>6. ASSUME NEW l \in Lockers, Expire(l) PROVE IInv'
  BY <1>6, MoveKeeps DEF Expire, PCs
<1>7. ASSUME NEW l \in Lockers, GiveUp(l) PROVE IInv'
  BY <1>7, MoveKeeps DEF GiveUp, PCs
<1> QED
  BY <1>1, <1>2, <1>3, <1>4, <1>5, <1>6, <1>7 DEF Next, Finished

(* No reachable state breaks the count, the exclusion or a sleeper. *)
THEOREM LockInvariant == Spec => []IInv
<1>1. Init => IInv
  <2> SUFFICES ASSUME Init PROVE IInv
    OBVIOUS
  <2>1. Holders = {}
    BY DEF Init, Holders
  <2> QED
    BY <2>1, FS_EmptySet DEF Init, IInv, TypeOK, CountIsHolders, Exclusion,
                             SleepersAreBlocked, PCs
<1>2. IInv /\ [Next]_vars => IInv'
  BY NextKeeps
<1> QED
  BY <1>1, <1>2, PTL DEF Spec

(* mCount is the number of holders (ReadWriteLock.cpp, every path). *)
THEOREM CountCorrect == Spec => []CountIsHolders
BY LockInvariant, PTL DEF IInv

(* A writer is alone and mWrite tells whether there is one. *)
THEOREM MutualExclusion == Spec => []Exclusion
BY LockInvariant, PTL DEF IInv

(* Nobody sleeps on mCond while the lock would let it in. *)
THEOREM NoLostWakeup == Spec => []SleepersAreBlocked
BY LockInvariant, PTL DEF IInv

(* The asserts of lock, unlock and tryLock cannot fire. *)
THEOREM AssertionsHold == Spec => []AssertsHold
<1>1. IInv => AssertsHold
  <2> SUFFICES ASSUME IInv PROVE AssertsHold
    OBVIOUS
  <2>1. ASSUME mWrite PROVE mCount = 1
    <3>1. PICK w \in Holders : Holders = {w}
      BY <2>1 DEF IInv, Exclusion
    <3> QED
      BY <3>1, FS_Singleton DEF IInv, CountIsHolders
  <2>2. Holders # {} => mCount > 0
    BY HoldersFinite DEF IInv, CountIsHolders
  <2> QED
    BY <2>1, <2>2 DEF AssertsHold, IInv, TypeOK
<1> QED
  BY <1>1, LockInvariant, PTL

(* The lock implements the readers/writer promise: each step of the code   *)
(* is a share, an exclude, a leave, or changes nothing the users see.      *)
THEOREM Refinement == Spec => ImplementsSharedExclusive
<1> DEFINE R == {l \in Holders : type[l] = "Read"}
           W == {l \in Holders : type[l] = "Write"}
<1>1. Init => Abstract!AbsInit
  BY DEF Init, Abstract!AbsInit, Holders
<1>2. ASSUME IInv, IInv', [Next]_vars
      PROVE  [Abstract!AbsNext]_(Abstract!absVars)
  <2> USE <1>2 DEF IInv, TypeOK
  <2> SUFFICES Abstract!AbsNext \/ (R' = R /\ W' = W)
    BY DEF Abstract!absVars
  <2>1. ASSUME NEW l \in Lockers, pc[l] # "held", Take(l), ~Blocked(l)
        PROVE  Abstract!AbsNext
    <3>1. Holders' = Holders \cup {l} /\ l \notin Holders /\ type' = type
      BY <2>1 DEF Take, Holders
    <3>2. CASE type[l] = "Read"
      <4>1. W = {}
        BY <2>1, <3>2 DEF Blocked, Exclusion
      <4>2. R' = R \cup {l} /\ W' = W
        BY <3>1, <3>2
      <4> QED
        BY <3>1, <4>1, <4>2 DEF Abstract!AbsNext, Abstract!Share
    <3>3. CASE type[l] = "Write"
      <4>1. Holders = {}
        BY <2>1, <3>3, HoldersFinite DEF Blocked, CountIsHolders
      <4>2. R' = R /\ W' = {l}
        BY <3>1, <3>3, <4>1
      <4> QED
        BY <4>1, <4>2 DEF Abstract!AbsNext, Abstract!Exclude
    <3> QED
      BY <3>2, <3>3 DEF LockTypes
  <2>2. ASSUME NEW l \in Lockers, NEW to, to # "held", pc[l] # "held", Move(l, to)
        PROVE  R' = R /\ W' = W
    BY <2>2 DEF Move, Holders
  <2>3. ASSUME NEW l \in Lockers, Unlock(l)
        PROVE  Abstract!AbsNext
    <3>1. \A k \in Lockers : pc'[k] = "held" <=> pc[k] = "held" /\ k # l
      BY <2>3 DEF Unlock, NotifyAll
    <3>2. Holders' = Holders \ {l} /\ l \in Holders /\ type' = type
      BY <2>3, <3>1 DEF Unlock, Holders
    <3>3. R' = R \ {l} /\ W' = W \ {l} /\ l \in R \cup W
      BY <3>2 DEF LockTypes, Holders
    <3> QED
      BY <3>3 DEF Abstract!AbsNext, Abstract!Leave
  <2>4. CASE UNCHANGED vars
    BY <2>4 DEF vars, Holders
  <2> QED
    BY <2>1, <2>2, <2>3, <2>4
       DEF Next, Lock, TryLock, SpuriousWakeup, Expire, GiveUp, Finished
<1> QED
  BY <1>1, <1>2, LockInvariant, PTL
     DEF Spec, ImplementsSharedExclusive, Abstract!AbsSpec
=============================================================================
