--------------------------- MODULE ThreadPoolProofs ---------------------------
(***************************************************************************)
(* Proofs about ThreadPool, for any finite set of workers and any jobs,    *)
(* users, controllers and priorities.                                      *)
(*                                                                         *)
(* NoStrandedJob is inductive with StoppedAreAwake: notify_one goes to a   *)
(* worker that is not being stopped, and a stop, which may take a worker   *)
(* away from those on their way to the queue, wakes all the others.        *)
(* PoolSize needs to know the list of threads at every place a controller  *)
(* may be at: ResizeShape, ResizeThreads and DestroyThreads.               *)
(***************************************************************************)
EXTENDS ThreadPool, SequenceLemmas, FiniteSetTheorems

(* Sets of workers are finite. *)
LEMMA WorkersFinite ==
    ASSUME NEW S \in SUBSET Workers
    PROVE  IsFiniteSet(S) /\ Cardinality(S) \in Nat
BY PoolAssumption, FS_Subset, FS_CardinalityType

(* Counting one worker more. *)
LEMMA OneMore ==
    ASSUME NEW S \in SUBSET Workers, NEW T \in SUBSET Workers,
           NEW w \in Workers, w \notin S, T = S \cup {w}
    PROVE  Cardinality(T) = Cardinality(S) + 1
BY WorkersFinite, FS_AddElement

(* Counting one worker less. *)
LEMMA OneLess ==
    ASSUME NEW S \in SUBSET Workers, NEW T \in SUBSET Workers,
           NEW w \in S, T = S \ {w}
    PROVE  Cardinality(T) = Cardinality(S) - 1
BY WorkersFinite, FS_RemoveElement

(* Counting no fewer. *)
LEMMA NoFewer ==
    ASSUME NEW S \in SUBSET Workers, NEW T \in SUBSET Workers, S \subseteq T
    PROVE  Cardinality(S) <= Cardinality(T)
BY WorkersFinite, FS_Subset
-----------------------------------------------------------------------------
(* The types, action by action where the action changes something. *)

TypeJobs ==
    /\ mJobs \in Seq(Jobs)
    /\ mPriority \in [Jobs -> Int] /\ mState \in [Jobs -> States]
    /\ starts \in [Jobs -> Nat] /\ apart \in [Jobs -> {"no", "created", "running"}]

TypeWorkers ==
    /\ pc \in [Workers -> PCs] /\ job \in [Workers -> Jobs \cup {NoJob}]
    /\ mStopped \in [Workers -> BOOLEAN]

TypeSize ==
    /\ mConcurrentJobs \in Nat
    /\ mThreads \in Seq(Workers)
    /\ control \in [Controllers -> Controls] /\ resizes \in Nat

TypeWaits == waiter \in [Users -> Waiters] /\ waits \in Nat

(* The parts of TypeOK. *)
LEMMA TypeParts ==
    TypeOK <=> TypeJobs /\ TypeWorkers /\ TypeSize /\ TypeWaits /\ mBusyThreads \in Nat
BY DEF TypeOK, TypeJobs, TypeWorkers, TypeSize, TypeWaits

(* A queue that start may leave: one longer, the job added. *)
LEMMA PlacedType ==
    ASSUME mJobs \in Seq(Jobs), NEW j \in Jobs, NEW q \in Placings(j)
    PROVE  q \in Seq(Jobs) /\ Len(q) = Len(mJobs) + 1
<1>1. Range(mJobs) \cup {j} \subseteq Jobs
  BY DEF Range
<1>2. Len(mJobs) + 1 \in Nat
  OBVIOUS
<1>3. q \in [1 .. Len(mJobs) + 1 -> Jobs]
  BY <1>1 DEF Placings
<1> QED
  BY <1>2, <1>3

(* The queue and the jobs. *)
LEMMA JobsTypeStep ==
    ASSUME TypeOK, [Next]_vars
    PROVE  TypeJobs'
<1> USE DEF TypeOK, TypeJobs, States
<1>1. CASE UNCHANGED <<mJobs, mState, jobVars>>
  BY <1>1 DEF jobVars
<1>2. ASSUME NEW w \in Workers, Take(w) PROVE TypeJobs'
  <2>1. Head(mJobs) \in Jobs /\ Tail(mJobs) \in Seq(Jobs)
    BY <1>2 DEF Take
  <2> QED
    BY <1>2, <2>1 DEF Take, SetState, jobVars
<1>3. ASSUME NEW w \in Workers, Finish(w) PROVE TypeJobs'
  BY <1>3 DEF Finish, SetState, jobVars
<1>4. ASSUME NEW j \in Jobs, NEW p \in Priorities, Start(j, p) PROVE TypeJobs'
  <2>1. mJobs' \in Seq(Jobs)
    BY <1>4, PlacedType DEF Start
  <2>2. p \in Int
    BY PoolAssumption
  <2> QED
    BY <1>4, <2>1, <2>2 DEF Start, Started
<1>5. ASSUME NEW j \in Jobs, StartGuaranteed(j) PROVE TypeJobs'
  BY <1>5 DEF StartGuaranteed, Started, Guaranteed
<1>6. ASSUME NEW j \in Jobs, RunGuaranteed(j) PROVE TypeJobs'
  BY <1>6 DEF RunGuaranteed
<1>7. ASSUME NEW j \in Jobs, RemoveJob(j) PROVE TypeJobs'
  <2>1. PICK i \in 1 .. Len(mJobs) : mJobs' = RemoveAt(mJobs, i)
    BY <1>7 DEF RemoveJob
  <2>2. mJobs' \in Seq(Jobs)
    BY <2>1, RemoveAtIs
  <2> QED
    BY <1>7, <2>2 DEF RemoveJob, jobVars
<1>8. CASE ClearBackLog
  BY <1>8 DEF ClearBackLog, jobVars
<1>9. ASSUME NEW c \in Controllers, Destroy(c) PROVE TypeJobs'
  BY <1>9 DEF Destroy, jobVars
<1>10. ASSUME NEW w \in Workers, WorkerStep(w) PROVE TypeJobs'
  BY <1>1, <1>2, <1>3, <1>10 DEF WorkerStep, Stop, Sleep
<1>11. ASSUME NEW c \in Controllers, ControlStep(c) PROVE TypeJobs'
  BY <1>1, <1>11 DEF ControlStep, Grow, Shrink, StopVictim, Join, DestroyNext
<1> QED
  BY <1>1, <1>4, <1>5, <1>6, <1>7, <1>8, <1>9, <1>10, <1>11
     DEF Next, WaitForState, LookAgain, SetConcurrentJobs, Spurious, SpuriousUser, vars

(* The workers. *)
LEMMA WorkersTypeStep ==
    ASSUME TypeOK, [Next]_vars
    PROVE  TypeWorkers'
<1> USE DEF TypeOK, TypeWorkers, PCs
<1>1. CASE UNCHANGED <<pc, job, mStopped>>
  BY <1>1
<1>2. ASSUME NEW w \in Workers, Stop(w) \/ Sleep(w) PROVE TypeWorkers'
  BY <1>2 DEF Stop, Sleep
<1>3. ASSUME NEW w \in Workers, Take(w) PROVE TypeWorkers'
  <2>1. Head(mJobs) \in Jobs
    BY <1>3 DEF Take
  <2> QED
    BY <1>3, <2>1 DEF Take
<1>4. ASSUME NEW w \in Workers, Finish(w) PROVE TypeWorkers'
  BY <1>4 DEF Finish
<1>5. CASE NotifyOne /\ UNCHANGED <<job, mStopped>>
  BY <1>5 DEF NotifyOne, Asleep
<1>6. CASE Spurious
  BY <1>6 DEF Spurious, Asleep
<1>7. ASSUME NEW c \in Controllers, Grow(c) PROVE TypeWorkers'
  <2>1. pc' \in [Workers -> PCs] /\ job' = job
    BY <1>7 DEF Grow
  <2>2. mStopped' \in [Workers -> BOOLEAN]
    BY <1>7, Zenon DEF Grow
  <2> QED
    BY <2>1, <2>2
<1>8. ASSUME NEW c \in Controllers, StopVictim(c) PROVE TypeWorkers'
  <2>1. pc' \in [Workers -> PCs] /\ job' = job
    BY <1>8 DEF StopVictim, NotifyAll
  <2>2. mStopped' \in [Workers -> BOOLEAN]
    BY <1>8 DEF StopVictim
  <2> QED
    BY <2>1, <2>2
<1>9. ASSUME NEW c \in Controllers, Join(c) PROVE TypeWorkers'
  BY <1>9 DEF Join
<1>10. ASSUME NEW j \in Jobs, NEW p \in Priorities, Start(j, p) PROVE TypeWorkers'
  BY <1>5, <1>10 DEF Start
<1>11. ASSUME NEW w \in Workers, WorkerStep(w) PROVE TypeWorkers'
  BY <1>2, <1>3, <1>4, <1>11 DEF WorkerStep
<1>12. ASSUME NEW c \in Controllers, ControlStep(c) PROVE TypeWorkers'
  BY <1>1, <1>7, <1>8, <1>9, <1>12 DEF ControlStep, Shrink, DestroyNext, workVars
<1> QED
  BY <1>1, <1>6, <1>10, <1>11, <1>12
     DEF Next, StartGuaranteed, RunGuaranteed, RemoveJob, ClearBackLog, WaitForState, LookAgain,
         SetConcurrentJobs, Destroy, SpuriousUser, workVars, vars

(* The waiters. *)
LEMMA WaitsTypeStep ==
    ASSUME TypeOK, [Next]_vars
    PROVE  TypeWaits'
<1> USE DEF TypeOK, TypeWaits, Waiters, Wait, NotWaiting
<1>1. CASE UNCHANGED waitVars
  BY <1>1 DEF waitVars
<1>2. ASSUME NEW j \in Jobs, NEW st, SetState(j, st) PROVE waiter' \in [Users -> Waiters]
  BY <1>2 DEF SetState
<1>3. ASSUME NEW w \in Workers, Take(w) PROVE TypeWaits'
  <2>1. Head(mJobs) \in Jobs
    BY <1>3 DEF Take
  <2> QED
    BY <1>2, <1>3, <2>1 DEF Take
<1>4. ASSUME NEW w \in Workers, Finish(w) PROVE TypeWaits'
  <2>1. job[w] \in Jobs \cup {NoJob}
    OBVIOUS
  <2>2. waiter' \in [Users -> Waiters]
    BY <1>4, <2>1 DEF Finish, SetState
  <2> QED
    BY <1>4, <2>2 DEF Finish
<1>5. CASE SpuriousUser
  BY <1>5 DEF SpuriousUser
<1>6. ASSUME NEW u \in Users, NEW j \in Jobs \cup {NoJob}, NEW st \in {"Running", "Finished"},
             Look(u, j, st)
      PROVE  waiter' \in [Users -> Waiters]
  BY <1>6 DEF Look
<1>7. ASSUME NEW u \in Users, WaitForState(u) PROVE TypeWaits'
  BY <1>6, <1>7 DEF WaitForState
<1>8. ASSUME NEW u \in Users, LookAgain(u) PROVE TypeWaits'
  <2>1. waiter[u].job \in Jobs \cup {NoJob} /\ waiter[u].state \in {"Running", "Finished"}
    OBVIOUS
  <2> QED
    BY <1>6, <1>8, <2>1 DEF LookAgain
<1>9. ASSUME NEW w \in Workers, WorkerStep(w) PROVE TypeWaits'
  BY <1>1, <1>3, <1>4, <1>9 DEF WorkerStep, Stop, Sleep
<1>10. ASSUME NEW c \in Controllers, ControlStep(c) PROVE TypeWaits'
  BY <1>1, <1>10 DEF ControlStep, Grow, Shrink, StopVictim, Join, DestroyNext
<1> QED
  BY <1>1, <1>5, <1>7, <1>8, <1>9, <1>10
     DEF Next, Start, StartGuaranteed, RunGuaranteed, RemoveJob, ClearBackLog,
         SetConcurrentJobs, Destroy, Spurious, vars

(* The threads of the pool and the controllers. *)
LEMMA SizeStep ==
    ASSUME TypeOK, ControlOK, [Next]_vars
    PROVE  TypeSize' /\ ControlOK'
<1> USE DEF TypeOK, TypeSize, Controls, Steps, Op, Idle, GoalOK
<1>1. CASE UNCHANGED sizeVars
  BY <1>1 DEF sizeVars, ControlOK, Destroying
<1>2. ASSUME NEW c \in Controllers, SetConcurrentJobs(c) PROVE TypeSize' /\ ControlOK'
  <2>1. PICK n \in Nat, at \in {"grow", "shrink"} :
           control' = [control EXCEPT ![c] = Op(at, -1, n, NoWorker)]
    <3>1. PICK n \in 0 .. Cardinality(Workers) : control' = [control EXCEPT ![c] =
             Op(IF n > mConcurrentJobs THEN "grow" ELSE "shrink", -1, n, NoWorker)]
      BY <1>2 DEF SetConcurrentJobs
    <3> HIDE DEF Op
    <3>2. n \in Nat
      OBVIOUS
    <3>3. (IF n > mConcurrentJobs THEN "grow" ELSE "shrink") \in {"grow", "shrink"}
      OBVIOUS
    <3> QED
      BY <3>1, <3>2, <3>3, Zenon
  <2>2. TypeSize'
    BY <1>2, <2>1 DEF SetConcurrentJobs
  <2>3. ASSUME NEW d \in Controllers
        PROVE  ~Destroying(d)'
    BY <1>2, <2>1 DEF SetConcurrentJobs, Destroying
  <2>4. ASSUME NEW d \in Controllers
        PROVE  GoalOK(d)'
    BY <2>1 DEF ControlOK
  <2> QED
    BY <2>2, <2>3, <2>4 DEF ControlOK
<1>3. ASSUME NEW c \in Controllers, Grow(c) PROVE TypeSize' /\ ControlOK'
  <2>1. PICK s \in [1 .. control[c].goal - mConcurrentJobs -> Workers] : mThreads' = mThreads \o s
    BY <1>3 DEF Grow
  <2>2. s \in Seq(Workers)
    <3> DEFINE n == control[c].goal - mConcurrentJobs
    <3>1. n \in Int /\ s \in [1 .. n -> Workers]
      <4>1. control[c].goal \in Int /\ mConcurrentJobs \in Int
        OBVIOUS
      <4> QED
        BY <4>1
    <3> HIDE DEF n
    <3>2. CASE n \in Nat
      BY <3>1, <3>2
    <3>3. CASE n \notin Nat
      <4>1. 1 .. n = 1 .. 0
        BY <3>1, <3>3
      <4> QED
        BY <3>1, <4>1
    <3> QED
      BY <3>2, <3>3
  <2>3. mThreads' \in Seq(Workers)
    BY <2>1, <2>2
  <2>4. TypeSize'
    BY <1>3, <2>3 DEF Grow, ControlOK
  <2>5. control[c].at = "grow" /\ control[c].goal \in Nat /\ control' = [control EXCEPT ![c] = Idle]
    BY <1>3 DEF Grow, ControlOK
  <2>6. ASSUME NEW d \in Controllers
        PROVE  ~Destroying(d)'
    BY <2>5 DEF ControlOK, Destroying
  <2>7. ASSUME NEW d \in Controllers
        PROVE  GoalOK(d)'
    BY <2>5 DEF ControlOK
  <2> QED
    BY <2>4, <2>6, <2>7 DEF ControlOK
<1>4. ASSUME NEW c \in Controllers, Shrink(c) PROVE TypeSize' /\ ControlOK'
  <2>1. control[c].at = "shrink" /\ control[c].goal \in Nat
    BY <1>4 DEF Shrink, ControlOK
  <2>2. Left(c) \in Int
    BY DEF Left
  <2>3. TypeSize'
    <3>1. CASE mThreads # <<>> /\ mThreads' = Front(mThreads) /\ UNCHANGED mConcurrentJobs
               /\ control' = [control EXCEPT ![c] = Op("stop", Left(c), control[c].goal, Last(mThreads))]
      <4>1. Front(mThreads) \in Seq(Workers) /\ Last(mThreads) \in Workers
        BY <3>1 DEF Front, Last
      <4> QED
        BY <1>4, <2>2, <3>1, <4>1 DEF Shrink
    <3>2. CASE mConcurrentJobs' = control[c].goal /\ control' = [control EXCEPT ![c] = Idle]
               /\ UNCHANGED mThreads
      BY <1>4, <2>1, <3>2 DEF Shrink
    <3> QED
      BY <1>4, <3>1, <3>2 DEF Shrink
  <2>4. /\ control'[c].at \in {"stop", "idle"}
        /\ control'[c].at = "stop" => control'[c].goal \in Nat
        /\ \A d \in Controllers : d # c => control'[d] = control[d]
    BY <1>4, <2>1 DEF Shrink
  <2>5. ASSUME NEW d \in Controllers
        PROVE  ~Destroying(d)'
    <3>1. CASE d = c
      BY <2>4, <3>1 DEF Destroying
    <3>2. CASE d # c
      BY <2>1, <2>4, <3>2 DEF ControlOK, Destroying
    <3> QED
      BY <3>1, <3>2
  <2>6. ASSUME NEW d \in Controllers
        PROVE  GoalOK(d)'
    BY <2>4 DEF ControlOK
  <2> QED
    BY <2>3, <2>5, <2>6 DEF ControlOK
<1>5. ASSUME NEW c \in Controllers, StopVictim(c) \/ Join(c) PROVE TypeSize' /\ ControlOK'
  <2>1. TypeSize'
    <3>1. PICK at \in {"join", "destroy", "shrink"}, n \in Int, victim \in Workers \cup {NoWorker} :
             control' = [control EXCEPT ![c] = Op(at, n, control[c].goal, victim)]
      <4>1. CASE StopVictim(c)
        <5>1. control' = [control EXCEPT ![c] =
                 Op("join", control[c].count, control[c].goal, control[c].victim)]
          BY <4>1 DEF StopVictim
        <5>2. control[c].count \in Int /\ control[c].victim \in Workers \cup {NoWorker}
          OBVIOUS
        <5> HIDE DEF Op
        <5> QED
          BY <5>1, <5>2, Zenon
      <4>2. CASE Join(c)
        <5>1. control' = [control EXCEPT ![c] =
                 Op(IF control[c].goal = -1 THEN "destroy" ELSE "shrink", control[c].count - 1,
                    control[c].goal, NoWorker)]
          BY <4>2 DEF Join
        <5>2. control[c].count - 1 \in Int
          OBVIOUS
        <5>3. (IF control[c].goal = -1 THEN "destroy" ELSE "shrink") \in {"join", "destroy", "shrink"}
          OBVIOUS
        <5> HIDE DEF Op
        <5> QED
          BY <5>1, <5>2, <5>3, Zenon
      <4> QED
        BY <1>5, <4>1, <4>2
    <3>2. UNCHANGED <<mConcurrentJobs, mThreads, resizes>>
      BY <1>5 DEF StopVictim, Join
    <3> QED
      BY <3>1, <3>2
  <2>2. /\ control[c].at \in {"stop", "join"}
        /\ control'[c].goal = control[c].goal
        /\ control'[c].at \in {"join", "destroy", "shrink"}
        /\ control'[c].at = "join" => control'[c].count = control[c].count
        /\ control'[c].at # "join" => control'[c].count = control[c].count - 1
        /\ control'[c].at = "shrink" => control[c].goal # -1
        /\ control'[c].at = "destroy" => control[c].goal = -1
        /\ \A d \in Controllers : d # c => control'[d] = control[d]
        /\ mThreads' = mThreads
    BY <1>5 DEF StopVictim, Join
  <2>3. ASSUME NEW d \in Controllers
        PROVE  GoalOK(d)'
    <3>1. GoalOK(d) /\ control[d].goal \in Nat \cup {-1}
      BY DEF ControlOK
    <3> QED
      BY <2>2, <3>1
  <2> HIDE DEF TypeOK, TypeSize, Controls, Steps, Op, Idle, GoalOK
  <2>4. ASSUME NEW d \in Controllers, Destroying(d)'
        PROVE  /\ Destroying(d)
               /\ control'[d].count \in 0 .. Len(mThreads)
               /\ control'[d].at \in {"stop", "join"} => control'[d].count > 0
    <3>1. Destroying(d)
      BY <2>2, <2>4 DEF Destroying
    <3>2. control[d].count \in 0 .. Len(mThreads)
          /\ (control[d].at \in {"stop", "join"} => control[d].count > 0)
      BY <3>1 DEF ControlOK
    <3>3. CASE d = c
      <4>1. control[c].count \in 0 .. Len(mThreads) /\ control[c].count > 0
        BY <2>2, <3>2, <3>3
      <4>2. Len(mThreads) \in Int /\ control[c].count - 1 \in 0 .. Len(mThreads)
        BY <4>1 DEF TypeOK
      <4>3. CASE control'[c].at = "join"
        BY <2>2, <3>1, <3>3, <4>1, <4>3, Zenon
      <4>4. CASE control'[c].at # "join"
        <5>1. control'[c].at \notin {"stop", "join"} /\ control'[c].count = control[c].count - 1
          BY <2>2, <4>4, Zenon
        <5> QED
          BY <3>1, <3>3, <4>2, <5>1, Zenon
      <4> QED
        BY <4>3, <4>4
    <3>4. CASE d # c
      <4>1. control'[d] = control[d]
        BY <2>2, <3>4
      <4> QED
        BY <3>1, <3>2, <4>1, Zenon
    <3> QED
      BY <3>1, <3>3, <3>4
  <2>5. ASSUME NEW d \in Controllers, NEW e \in Controllers, Destroying(d)', e # d
        PROVE  control'[e].at = "idle"
    <3>1. Destroying(d) /\ control[e].at = "idle"
      BY <2>4, <2>5 DEF ControlOK
    <3> QED
      BY <2>2, <3>1
  <2> QED
    BY <2>1, <2>2, <2>3, <2>4, <2>5 DEF ControlOK
<1>6. ASSUME NEW c \in Controllers, Destroy(c) PROVE TypeSize' /\ ControlOK'
  <2>1. Len(mThreads) \in Nat
    OBVIOUS
  <2>2. control' = [control EXCEPT ![c] = Op("destroy", Len(mThreads), -1, NoWorker)]
        /\ \A d \in Controllers : control[d] = Idle
        /\ UNCHANGED <<mConcurrentJobs, mThreads, resizes>>
    BY <1>6 DEF Destroy
  <2>3. TypeSize'
    BY <2>1, <2>2
  <2>4. /\ control'[c] = Op("destroy", Len(mThreads), -1, NoWorker)
        /\ \A d \in Controllers : d # c => control'[d].at = "idle"
    BY <2>2
  <2>5. ASSUME NEW d \in Controllers, Destroying(d)' PROVE d = c
    BY <2>4, <2>5 DEF Destroying
  <2>6. ASSUME NEW d \in Controllers PROVE GoalOK(d)'
    <3>1. CASE d = c
      BY <2>4, <3>1
    <3>2. CASE d # c
      BY <2>4, <3>2
    <3> QED
      BY <3>1, <3>2
  <2> QED
    BY <2>1, <2>2, <2>3, <2>4, <2>5, <2>6 DEF ControlOK
<1>7. ASSUME NEW c \in Controllers, DestroyNext(c) PROVE TypeSize' /\ ControlOK'
  <2>1. control[c].at = "destroy" /\ UNCHANGED <<mConcurrentJobs, mThreads, resizes>>
    BY <1>7 DEF DestroyNext
  <2>2. control[c].goal = -1 /\ control[c].count \in 0 .. Len(mThreads)
        /\ \A d \in Controllers : d # c => control[d].at = "idle"
    <3>1. Destroying(c)
      BY <2>1 DEF ControlOK, Destroying
    <3> QED
      BY <3>1 DEF ControlOK, Destroying
  <2>3. PICK at \in {"gone", "stop"}, victim \in Workers \cup {NoWorker} :
           /\ control' = [control EXCEPT ![c] = Op(at, control[c].count, -1, victim)]
           /\ at = "stop" => control[c].count > 0
    <3>1. CASE control[c].count = 0
      <4>1. control' = [control EXCEPT ![c] = Op("gone", control[c].count, -1, NoWorker)]
        BY <1>7, <3>1 DEF DestroyNext
      <4> HIDE DEF Op
      <4> QED
        BY <4>1
    <3>2. CASE control[c].count # 0
      <4> DEFINE v == mThreads[Len(mThreads) - control[c].count + 1]
      <4>1. control' = [control EXCEPT ![c] = Op("stop", control[c].count, -1, v)]
        BY <1>7, <3>2 DEF DestroyNext
      <4>2. v \in Workers /\ control[c].count > 0
        BY <2>2, <3>2
      <4> HIDE DEF Op, v
      <4> QED
        BY <4>1, <4>2
    <3> QED
      BY <3>1, <3>2
  <2>4. TypeSize'
    BY <2>1, <2>3
  <2>5. /\ control'[c] = Op(at, control[c].count, -1, victim)
        /\ \A d \in Controllers : d # c => control'[d].at = "idle"
    BY <2>2, <2>3
  <2>6. ASSUME NEW d \in Controllers, Destroying(d)' PROVE d = c
    BY <2>5, <2>6 DEF Destroying
  <2>7. ASSUME NEW d \in Controllers PROVE GoalOK(d)'
    <3>1. CASE d = c
      BY <2>5, <3>1
    <3>2. CASE d # c
      BY <2>5, <3>2
    <3> QED
      BY <3>1, <3>2
  <2> QED
    BY <2>1, <2>2, <2>3, <2>4, <2>5, <2>6, <2>7 DEF ControlOK
<1>8. ASSUME NEW c \in Controllers, ControlStep(c) PROVE TypeSize' /\ ControlOK'
  BY <1>3, <1>4, <1>5, <1>7, <1>8 DEF ControlStep
<1>9. ASSUME NEW w \in Workers, WorkerStep(w) PROVE TypeSize' /\ ControlOK'
  BY <1>1, <1>9 DEF WorkerStep, Stop, Sleep, Take, Finish
<1> QED
  BY <1>1, <1>2, <1>6, <1>8, <1>9
     DEF Next, Start, StartGuaranteed, RunGuaranteed, RemoveJob, ClearBackLog,
         WaitForState, LookAgain, Spurious, SpuriousUser, vars
-----------------------------------------------------------------------------
(* mBusyThreads follows the workers that run a job or have just run one.   *)
LEMMA BusyStep ==
    ASSUME TypeOK, BusyIsRunning, [Next]_vars
    PROVE  BusyIsRunning' /\ mBusyThreads' \in Nat
<1>1. Busy \in SUBSET Workers /\ Busy' \in SUBSET Workers
  BY DEF Busy
<1>2. mBusyThreads = Cardinality(Busy) /\ mBusyThreads \in Nat
  BY DEF BusyIsRunning, TypeOK
<1>3. Cardinality(Busy') \in Nat
  BY <1>1, WorkersFinite
<1>4. CASE Busy' = Busy /\ mBusyThreads' = mBusyThreads
  BY <1>2, <1>4 DEF BusyIsRunning
<1>5. ASSUME NEW w \in Workers, Stop(w) \/ Sleep(w) PROVE BusyIsRunning'
  <2>1. CASE pc[w] = "done"
    <3>1. w \in Busy /\ Busy' = Busy \ {w}
      BY <1>5, <2>1 DEF Stop, Sleep, Busy, TypeOK
    <3>2. Cardinality(Busy') = Cardinality(Busy) - 1
      BY <1>1, <3>1, OneLess
    <3>3. mBusyThreads' = mBusyThreads - 1
      BY <1>5, <2>1 DEF Stop, Sleep, Unbusy
    <3> QED
      BY <1>2, <3>2, <3>3 DEF BusyIsRunning
  <2>2. CASE pc[w] # "done"
    <3>1. Busy' = Busy
      BY <1>5, <2>2 DEF Stop, Sleep, Looking, Busy, TypeOK
    <3>2. mBusyThreads' = mBusyThreads
      BY <1>2, <1>5, <2>2 DEF Stop, Sleep, Unbusy
    <3> QED
      BY <1>4, <3>1, <3>2
  <2> QED
    BY <2>1, <2>2
<1>6. ASSUME NEW w \in Workers, Take(w) PROVE BusyIsRunning'
  <2>1. CASE pc[w] = "done"
    <3>1. Busy' = Busy
      BY <1>6, <2>1 DEF Take, Busy, TypeOK
    <3>2. mBusyThreads' = mBusyThreads
      BY <1>2, <1>6, <2>1 DEF Take, Unbusy
    <3> QED
      BY <1>4, <3>1, <3>2
  <2>2. CASE pc[w] # "done"
    <3>1. w \notin Busy /\ Busy' = Busy \cup {w}
      BY <1>6, <2>2 DEF Take, Looking, Busy, TypeOK
    <3>2. Cardinality(Busy') = Cardinality(Busy) + 1
      BY <1>1, <3>1, OneMore
    <3>3. mBusyThreads' = mBusyThreads + 1
      BY <1>2, <1>6, <2>2 DEF Take, Unbusy
    <3> QED
      BY <1>2, <3>2, <3>3 DEF BusyIsRunning
  <2> QED
    BY <2>1, <2>2
<1>7. ASSUME NEW w \in Workers, Finish(w) PROVE BusyIsRunning'
  BY <1>4, <1>7 DEF Finish, Busy, TypeOK
<1>8. CASE NotifyOne /\ UNCHANGED mBusyThreads
  BY <1>4, <1>8 DEF NotifyOne, Asleep, Busy, TypeOK
<1>9. CASE Spurious
  BY <1>4, <1>9 DEF Spurious, Asleep, Busy, TypeOK
<1>10. ASSUME NEW c \in Controllers, Grow(c) PROVE BusyIsRunning'
  <2>1. \A w \in Workers : pc'[w] = pc[w] \/ (pc[w] = "none" /\ pc'[w] = "start")
    <3>1. PICK s \in [1 .. control[c].goal - mConcurrentJobs -> {w \in Workers : pc[w] = "none"}] :
             pc' = [w \in Workers |-> IF w \in Range(s) THEN "start" ELSE pc[w]]
      BY <1>10 DEF Grow
    <3>2. \A w \in Range(s) : pc[w] = "none"
      BY DEF Range
    <3> QED
      BY <3>1, <3>2
  <2>2. Busy' = Busy
    BY <2>1 DEF Busy
  <2> QED
    BY <1>4, <1>10, <2>2 DEF Grow
<1>11. ASSUME NEW c \in Controllers, StopVictim(c) PROVE BusyIsRunning'
  BY <1>4, <1>11 DEF StopVictim, NotifyAll, Busy, TypeOK
<1>12. ASSUME NEW c \in Controllers, Join(c) PROVE BusyIsRunning'
  BY <1>4, <1>12 DEF Join, Busy, TypeOK
<1>13. CASE UNCHANGED <<pc, mBusyThreads>>
  BY <1>4, <1>13 DEF Busy
<1>14. ASSUME NEW j \in Jobs, NEW p \in Priorities, Start(j, p) PROVE BusyIsRunning'
  BY <1>8, <1>14 DEF Start
<1>15. ASSUME NEW w \in Workers, WorkerStep(w) PROVE BusyIsRunning'
  BY <1>5, <1>6, <1>7, <1>15 DEF WorkerStep
<1>16. ASSUME NEW c \in Controllers, ControlStep(c) PROVE BusyIsRunning'
  BY <1>10, <1>11, <1>12, <1>13, <1>16 DEF ControlStep, Shrink, DestroyNext, workVars
<1>17. BusyIsRunning'
  BY <1>9, <1>13, <1>14, <1>15, <1>16
     DEF Next, StartGuaranteed, RunGuaranteed, RemoveJob, ClearBackLog, WaitForState, LookAgain,
         SetConcurrentJobs, Destroy, SpuriousUser, workVars, vars
<1> QED
  BY <1>3, <1>17 DEF BusyIsRunning

(* Nobody sleeps who is to stop. *)
LEMMA StoppedAwakeStep ==
    ASSUME TypeOK, StoppedAreAwake, [Next]_vars
    PROVE  StoppedAreAwake'
<1> USE DEF TypeOK, StoppedAreAwake
<1>1. CASE UNCHANGED <<pc, mStopped>>
  BY <1>1
<1>2. ASSUME NEW w \in Workers, WorkerStep(w) PROVE StoppedAreAwake'
  BY <1>2 DEF WorkerStep, Stop, Sleep, Take, Finish
<1>3. ASSUME NEW j \in Jobs, NEW p \in Priorities, Start(j, p) PROVE StoppedAreAwake'
  BY <1>3 DEF Start, NotifyOne, Asleep
<1>4. CASE Spurious
  BY <1>4 DEF Spurious, Asleep
<1>5. ASSUME NEW c \in Controllers, Grow(c) PROVE StoppedAreAwake'
  <2>1. \A w \in Workers : (mStopped'[w] => mStopped[w]) /\ pc'[w] \in {"start", pc[w]}
    BY <1>5, Zenon DEF Grow
  <2> QED
    BY <2>1
<1>6. ASSUME NEW c \in Controllers, StopVictim(c) PROVE StoppedAreAwake'
  BY <1>6 DEF StopVictim, NotifyAll
<1>7. ASSUME NEW c \in Controllers, Join(c) PROVE StoppedAreAwake'
  BY <1>7 DEF Join
<1>8. ASSUME NEW c \in Controllers, ControlStep(c) PROVE StoppedAreAwake'
  BY <1>1, <1>5, <1>6, <1>7, <1>8 DEF ControlStep, Shrink, DestroyNext, workVars
<1> QED
  BY <1>1, <1>2, <1>3, <1>4, <1>8
     DEF Next, StartGuaranteed, RunGuaranteed, RemoveJob, ClearBackLog, WaitForState, LookAgain,
         SetConcurrentJobs, Destroy, SpuriousUser, workVars, vars

(* There stays a worker on its way for every job that waits. *)
LEMMA NoStrandedStep ==
    ASSUME TypeOK, NoStrandedJob, StoppedAreAwake, [Next]_vars
    PROVE  NoStrandedJob'
<1> DEFINE n == Len(mJobs)
           k == Cardinality(Lookers)
<1>1. Lookers \in SUBSET Workers /\ Lookers' \in SUBSET Workers
  BY DEF Lookers
<1>2. k \in Nat /\ Cardinality(Lookers') \in Nat /\ n \in Nat
  BY <1>1, WorkersFinite DEF TypeOK
<1>3. CASE Asleep' = {}
  BY <1>3 DEF NoStrandedJob
<1>4. CASE Asleep' \subseteq Asleep /\ Lookers \subseteq Lookers' /\ Len(mJobs') \in Nat /\ Len(mJobs') <= n
  <2>1. k <= Cardinality(Lookers')
    BY <1>1, <1>4, NoFewer
  <2>2. Asleep' # {} => n <= k
    BY <1>4 DEF NoStrandedJob
  <2> QED
    BY <1>2, <1>4, <2>1, <2>2 DEF NoStrandedJob
<1>5. ASSUME NEW w \in Workers, Stop(w) PROVE NoStrandedJob'
  <2>1. Asleep' = Asleep /\ Lookers' = Lookers /\ mJobs' = mJobs
    BY <1>5 DEF Stop, Looking, Asleep, Lookers, TypeOK
  <2> QED
    BY <1>2, <1>4, <2>1
<1>6. ASSUME NEW w \in Workers, Sleep(w) PROVE NoStrandedJob'
  <2>1. Len(mJobs') = 0
    BY <1>6 DEF Sleep
  <2> QED
    BY <1>2, <2>1 DEF NoStrandedJob
<1>7. ASSUME NEW w \in Workers, Take(w) PROVE NoStrandedJob'
  <2>1. Asleep' = Asleep /\ w \in Lookers /\ Lookers' = Lookers \ {w}
    BY <1>7 DEF Take, Looking, Asleep, Lookers, TypeOK
  <2>2. Cardinality(Lookers') = k - 1
    BY <1>1, <2>1, OneLess
  <2>3. Len(mJobs') = n - 1
    BY <1>7 DEF Take, TypeOK
  <2> QED
    BY <1>2, <2>1, <2>2, <2>3 DEF NoStrandedJob
<1>8. ASSUME NEW w \in Workers, Finish(w) PROVE NoStrandedJob'
  <2>1. Asleep' = Asleep /\ Lookers \subseteq Lookers' /\ mJobs' = mJobs
    BY <1>8 DEF Finish, Looking, Asleep, Lookers, TypeOK
  <2> QED
    BY <1>2, <1>4, <2>1
<1>9. ASSUME NEW j \in Jobs, NEW p \in Priorities, Start(j, p) PROVE NoStrandedJob'
  <2>1. Len(mJobs') = n + 1
    BY <1>9, PlacedType DEF Start, TypeOK
  <2>2. CASE Asleep = {}
    <3>1. Asleep' = {}
      BY <1>9, <2>2 DEF Start, NotifyOne, Asleep
    <3> QED
      BY <1>3, <3>1
  <2>3. CASE Asleep # {}
    <3>1. PICK w \in Asleep : pc' = [pc EXCEPT ![w] = "awake"]
      BY <1>9, <2>3 DEF Start, NotifyOne
    <3>2. w \in Workers /\ w \notin Lookers /\ Lookers' = Lookers \cup {w}
      BY <1>9, <3>1 DEF Start, Asleep, Lookers, Looking, StoppedAreAwake, TypeOK
    <3>3. Cardinality(Lookers') = k + 1
      BY <1>1, <3>2, OneMore
    <3>4. n <= k
      BY <2>3 DEF NoStrandedJob
    <3> QED
      BY <1>2, <2>1, <3>3, <3>4 DEF NoStrandedJob
  <2> QED
    BY <2>2, <2>3
<1>10. CASE Spurious
  <2>1. Asleep' \subseteq Asleep /\ Lookers \subseteq Lookers' /\ mJobs' = mJobs
    BY <1>10 DEF Spurious, Looking, Asleep, Lookers, TypeOK
  <2> QED
    BY <1>2, <1>4, <2>1
<1>11. ASSUME NEW c \in Controllers, Grow(c) PROVE NoStrandedJob'
  <2>1. \A w \in Workers : (mStopped'[w] => mStopped[w])
    BY <1>11, Zenon DEF Grow
  <2>2. \A w \in Workers : pc'[w] \in {"start", pc[w]}
    BY <1>11 DEF Grow
  <2>3. Asleep' \subseteq Asleep
    BY <2>2 DEF Asleep
  <2>4. Lookers \subseteq Lookers'
    BY <2>1, <2>2 DEF Lookers, Looking
  <2> QED
    BY <1>2, <1>4, <1>11, <2>3, <2>4 DEF Grow
<1>12. ASSUME NEW c \in Controllers, StopVictim(c) PROVE NoStrandedJob'
  <2>1. Asleep' = {}
    BY <1>12 DEF StopVictim, NotifyAll, Asleep
  <2> QED
    BY <1>3, <2>1
<1>13. ASSUME NEW c \in Controllers, Join(c) PROVE NoStrandedJob'
  <2>1. Asleep' = Asleep /\ Lookers' = Lookers /\ mJobs' = mJobs
    BY <1>13 DEF Join, Looking, Asleep, Lookers, TypeOK
  <2> QED
    BY <1>2, <1>4, <2>1
<1>14. CASE UNCHANGED workVars /\ Len(mJobs') \in Nat /\ Len(mJobs') <= n
  BY <1>4, <1>14 DEF workVars, Asleep, Lookers, Looking
<1>15. ASSUME NEW j \in Jobs, RemoveJob(j) PROVE NoStrandedJob'
  <2>1. PICK i \in 1 .. n : mJobs' = RemoveAt(mJobs, i)
    BY <1>15 DEF RemoveJob
  <2>2. Len(mJobs') = n - 1
    BY <2>1, RemoveAtIs DEF TypeOK
  <2>3. n >= 1
    BY <1>2, <2>1
  <2> QED
    BY <1>2, <1>14, <1>15, <2>2, <2>3 DEF RemoveJob
<1>16. ASSUME UNCHANGED workVars, mJobs' = <<>> PROVE NoStrandedJob'
  BY <1>2, <1>14, <1>16
<1>17. CASE UNCHANGED <<mJobs, workVars>>
  BY <1>2, <1>14, <1>17
<1>18. ASSUME NEW w \in Workers, WorkerStep(w) PROVE NoStrandedJob'
  BY <1>5, <1>6, <1>7, <1>8, <1>18 DEF WorkerStep
<1>19. ASSUME NEW c \in Controllers, ControlStep(c) PROVE NoStrandedJob'
  BY <1>11, <1>12, <1>13, <1>17, <1>19 DEF ControlStep, Shrink, DestroyNext
<1> QED
  BY <1>9, <1>10, <1>15, <1>16, <1>17, <1>18, <1>19
     DEF Next, StartGuaranteed, RunGuaranteed, ClearBackLog, WaitForState, LookAgain,
         SetConcurrentJobs, Destroy, SpuriousUser, vars
-----------------------------------------------------------------------------
(* The invariant is established and kept. *)
THEOREM PoolInvariant == Spec => []IInv
<1>1. Init => IInv
  <2> SUFFICES ASSUME Init PROVE IInv
    OBVIOUS
  <2>1. PICK s \in [1 .. InitialJobs -> Workers] :
           /\ mThreads = s
           /\ pc = [w \in Workers |-> IF w \in Range(s) THEN "start" ELSE "none"]
    BY DEF Init
  <2>2. InitialJobs \in Nat
    BY PoolAssumption
  <2>3. mThreads \in Seq(Workers)
    BY <2>1, <2>2
  <2>4. TypeJobs
    BY DEF Init, TypeJobs, States
  <2>5. TypeWorkers
    <3>1. pc \in [Workers -> PCs] /\ job \in [Workers -> Jobs \cup {NoJob}]
      BY <2>1 DEF Init, PCs
    <3>2. mStopped \in [Workers -> BOOLEAN]
      BY Zenon DEF Init
    <3> QED
      BY <3>1, <3>2 DEF TypeWorkers
  <2>6. TypeSize
    BY <2>2, <2>3 DEF Init, TypeSize, Controls, Steps, Op, Idle
  <2>7. TypeWaits
    BY DEF Init, TypeWaits, Waiters, Wait, NotWaiting
  <2>8. TypeOK
    BY <2>4, <2>5, <2>6, <2>7, TypeParts DEF Init
  <2>9. ControlOK
    BY DEF Init, ControlOK, GoalOK, Destroying, Op, Idle
  <2>10. Busy = {} /\ Asleep = {}
    BY <2>1 DEF Busy, Asleep
  <2>11. BusyIsRunning
    BY <2>10, FS_EmptySet DEF Init, BusyIsRunning
  <2>12. NoStrandedJob
    BY <2>10 DEF NoStrandedJob
  <2>13. StoppedAreAwake
    BY Zenon DEF Init, StoppedAreAwake
  <2> QED
    BY <2>8, <2>9, <2>11, <2>12, <2>13 DEF IInv
<1>2. IInv /\ [Next]_vars => IInv'
  <2> SUFFICES ASSUME IInv, [Next]_vars PROVE IInv'
    OBVIOUS
  <2> USE DEF IInv
  <2>1. TypeJobs' /\ TypeWorkers' /\ TypeWaits'
    BY JobsTypeStep, WorkersTypeStep, WaitsTypeStep
  <2>2. TypeSize' /\ ControlOK'
    BY SizeStep
  <2>3. BusyIsRunning' /\ mBusyThreads' \in Nat
    BY BusyStep
  <2>4. TypeOK'
    BY <2>1, <2>2, <2>3 DEF TypeOK, TypeJobs, TypeWorkers, TypeSize, TypeWaits
  <2>5. NoStrandedJob' /\ StoppedAreAwake'
    BY NoStrandedStep, StoppedAwakeStep
  <2> QED
    BY <2>2, <2>3, <2>4, <2>5
<1> QED
  BY <1>1, <1>2, PTL DEF Spec

(* Every variable of the pool keeps its type; mBusyThreads never goes      *)
(* below zero.                                                             *)
THEOREM PoolTypeCorrect == Spec => []TypeOK
BY PoolInvariant, PTL DEF IInv

(* busyThreads() counts exactly the threads that run a job or have just    *)
(* run one.                                                                *)
THEOREM BusyCountCorrect == Spec => []BusyIsRunning
BY PoolInvariant, PTL DEF IInv

(* No job waits for a notification that went to a worker which will not    *)
(* take it, however stops, spurious wake-ups and starts interleave.        *)
THEOREM JobsNeverStranded == Spec => []NoStrandedJob
BY PoolInvariant, PTL DEF IInv
-----------------------------------------------------------------------------
(* The order of the queue. *)

Descending(q, priority) == \A i, k \in 1 .. Len(q) : i < k => priority[q[i]] >= priority[q[k]]

Known(q, priority) == \A i \in 1 .. Len(q) : priority[q[i]] \in Priorities

NoNegative == \A p \in Priorities : p >= 0

(* Priorities are integers that jobLessThan's conversion leaves alone when *)
(* they are not negative.                                                  *)
LEMMA UintIs ==
    ASSUME NoNegative, NEW p \in Priorities
    PROVE  p \in Nat /\ Uint(p) = p
<1>1. p \in -UintMod .. UintMod - 1 /\ UintMod \in Nat /\ p >= 0
  BY PoolAssumption DEF NoNegative
<1>2. p \in Nat /\ p < UintMod
  BY <1>1
<1>3. p % UintMod = p
  BY <1>1, <1>2
<1> QED
  BY <1>2, <1>3 DEF Uint

(* A start sets the priority of no other job in the queue. *)
LEMMA StartedKeeps ==
    ASSUME TypeOK, NEW j \in Jobs, NEW p, Started(j, p)
    PROVE  /\ mPriority'[j] = p
           /\ \A i \in 1 .. Len(mJobs) : mJobs[i] # j /\ mPriority'[mJobs[i]] = mPriority[mJobs[i]]
<1>1. mPriority' = [mPriority EXCEPT ![j] = p] /\ j \notin Range(mJobs)
  BY DEF Started, InFlight
<1>2. ASSUME NEW i \in 1 .. Len(mJobs) PROVE mJobs[i] \in Jobs /\ mJobs[i] # j
  BY <1>1 DEF TypeOK, Range
<1> QED
  BY <1>1, <1>2 DEF TypeOK

(* start puts a job where its priority belongs. *)
LEMMA PlacedKeeps ==
    ASSUME TypeOK, Known(mJobs, mPriority), NoNegative => Descending(mJobs, mPriority),
           NEW j \in Jobs, NEW p \in Priorities, Started(j, p),
           NEW q \in Placings(j), Placed(q, j, p)
    PROVE  Known(q, mPriority') /\ (NoNegative => Descending(q, mPriority'))
<1> DEFINE n == Len(mJobs)
           new == mPriority'
<1>1. mJobs \in Seq(Jobs) /\ n \in Nat /\ q \in Seq(Jobs) /\ Len(q) = n + 1
  BY PlacedType DEF TypeOK
<1>2. new[j] = p /\ \A i \in 1 .. n : new[mJobs[i]] = mPriority[mJobs[i]]
  BY StartedKeeps
<1>3. \A x \in Priorities : x \in Int
  BY PoolAssumption
<1>4. \A i \in 1 .. n : new[mJobs[i]] \in Priorities
  BY <1>2 DEF Known
<1> HIDE DEF new
<1>5. CASE (mJobs = <<>> \/ mPriority[Last(mJobs)] >= p) /\ q = Append(mJobs, j)
  <2>1. q[n + 1] = j /\ \A i \in 1 .. n : q[i] = mJobs[i]
    BY <1>1, <1>5
  <2>2. ASSUME NEW i \in 1 .. n + 1 PROVE new[q[i]] \in Priorities
    <3>1. CASE i = n + 1
      BY <1>2, <2>1, <3>1
    <3>2. CASE i # n + 1
      BY <1>1, <1>4, <2>1, <3>2
    <3> QED
      BY <3>1, <3>2
  <2>3. ASSUME NoNegative, NEW i \in 1 .. n + 1, NEW k \in 1 .. n + 1, i < k
        PROVE  new[q[i]] >= new[q[k]]
    <3>1. i \in 1 .. n /\ n \in 1 .. n /\ Last(mJobs) = mJobs[n]
      BY <1>1, <2>3 DEF Last
    <3>2. CASE k = n + 1
      <4>1. mPriority[mJobs[n]] >= p
        BY <1>1, <1>5, <3>1
      <4>2. i = n \/ mPriority[mJobs[i]] >= mPriority[mJobs[n]]
        BY <1>1, <2>3, <3>1 DEF Descending
      <4>3. mPriority[mJobs[i]] \in Int /\ mPriority[mJobs[n]] \in Int /\ p \in Int
        BY <1>3, <3>1 DEF Known
      <4>4. mPriority[mJobs[i]] >= p
        BY <4>1, <4>2, <4>3
      <4> QED
        BY <1>2, <2>1, <3>1, <3>2, <4>4
    <3>3. CASE k # n + 1
      <4>1. k \in 1 .. n
        BY <1>1, <3>3
      <4>2. mPriority[mJobs[i]] >= mPriority[mJobs[k]]
        BY <2>3, <3>1, <4>1 DEF Descending
      <4> QED
        BY <1>2, <2>1, <3>1, <4>1, <4>2
    <3> QED
      BY <3>2, <3>3
  <2> QED
    BY <1>1, <2>2, <2>3 DEF Known, Descending, new
<1>6. CASE mJobs # <<>> /\ mPriority[Head(mJobs)] < p /\ q = <<j>> \o mJobs
  <2>1. q[1] = j /\ \A i \in 2 .. n + 1 : i - 1 \in 1 .. n /\ q[i] = mJobs[i - 1]
    BY <1>1, <1>6
  <2>2. ASSUME NEW i \in 1 .. n + 1 PROVE new[q[i]] \in Priorities
    <3>1. CASE i = 1
      BY <1>2, <2>1, <3>1
    <3>2. CASE i # 1
      <4>1. i \in 2 .. n + 1
        BY <1>1, <3>2
      <4> QED
        BY <1>4, <2>1, <4>1
    <3> QED
      BY <3>1, <3>2
  <2>3. ASSUME NoNegative, NEW i \in 1 .. n + 1, NEW k \in 1 .. n + 1, i < k
        PROVE  new[q[i]] >= new[q[k]]
    <3>1. k \in 2 .. n + 1 /\ k - 1 \in 1 .. n /\ 1 \in 1 .. n /\ Head(mJobs) = mJobs[1]
      BY <1>1, <1>6, <2>3
    <3>2. new[q[k]] = mPriority[mJobs[k - 1]] /\ mPriority[mJobs[k - 1]] \in Int
      BY <1>2, <1>3, <2>1, <3>1 DEF Known
    <3>3. CASE i = 1
      <4>1. k - 1 = 1 \/ mPriority[mJobs[1]] >= mPriority[mJobs[k - 1]]
        BY <1>1, <2>3, <3>1 DEF Descending
      <4>2. mPriority[mJobs[1]] \in Int /\ p \in Int /\ mPriority[mJobs[1]] < p
        BY <1>3, <1>6, <3>1 DEF Known
      <4>3. p >= mPriority[mJobs[k - 1]]
        BY <3>2, <4>1, <4>2
      <4> QED
        BY <1>2, <2>1, <3>2, <3>3, <4>3
    <3>4. CASE i # 1
      <4>1. i \in 2 .. n + 1 /\ i - 1 \in 1 .. n /\ i - 1 < k - 1
        BY <1>1, <2>3, <3>4
      <4>2. mPriority[mJobs[i - 1]] >= mPriority[mJobs[k - 1]]
        BY <2>3, <3>1, <4>1 DEF Descending
      <4> QED
        BY <1>2, <2>1, <3>2, <4>1, <4>2
    <3> QED
      BY <3>3, <3>4
  <2> QED
    BY <1>1, <2>2, <2>3 DEF Known, Descending, new
<1>7. CASE IsSortOf(q, Append(mJobs, j), mPriority')
  <2> DEFINE s == Append(mJobs, j)
  <2>1. s[n + 1] = j /\ (\A i \in 1 .. n : s[i] = mJobs[i]) /\ DOMAIN s = 1 .. n + 1
    BY <1>1
  <2>2. ASSUME NEW i \in 1 .. n + 1 PROVE new[s[i]] \in Priorities
    <3>1. CASE i = n + 1
      BY <1>2, <2>1, <3>1
    <3>2. CASE i # n + 1
      BY <1>1, <1>4, <2>1, <3>2
    <3> QED
      BY <3>1, <3>2
  <2> HIDE DEF s
  <2>31. IsSortOf(q, s, mPriority')
    BY <1>7 DEF s
  <2>32. PICK f \in Bijection(DOMAIN s, DOMAIN s) : q = [i \in DOMAIN s |-> s[f[i]]]
    BY <2>31 DEF IsSortOf
  <2>33. f \in [DOMAIN s -> DOMAIN s]
    BY DEF Bijection, Injection
  <2>3. f \in [1 .. n + 1 -> 1 .. n + 1] /\ q = [i \in 1 .. n + 1 |-> s[f[i]]]
    BY <2>1, <2>32, <2>33
  <2>4. ASSUME NEW i \in 1 .. n + 1 PROVE new[q[i]] \in Priorities
    <3>1. f[i] \in 1 .. n + 1 /\ q[i] = s[f[i]]
      BY <2>3
    <3> QED
      BY <2>2, <3>1
  <2>5. ASSUME NoNegative, NEW i \in 1 .. n + 1, NEW k \in 1 .. n + 1, i < k
        PROVE  new[q[i]] >= new[q[k]]
    <3>1. DOMAIN q = 1 .. n + 1
      BY <1>1
    <3>2. Uint(new[q[i]]) >= Uint(new[q[k]])
      BY <1>7, <2>5, <3>1 DEF IsSortOf, new
    <3>3. Uint(new[q[i]]) = new[q[i]] /\ Uint(new[q[k]]) = new[q[k]]
      BY <2>4, <2>5, UintIs
    <3> QED
      BY <3>2, <3>3
  <2> QED
    BY <1>1, <2>4, <2>5 DEF Known, Descending, new
<1> QED
  BY <1>5, <1>6, <1>7 DEF Placed

(* The queue's order as an inductive invariant: unsigned and signed order  *)
(* agree on the priorities that are in it.                                 *)
OrderInv == Known(mJobs, mPriority) /\ (NoNegative => Descending(mJobs, mPriority))

(* Every step keeps the queue in order. *)
LEMMA OrderStep ==
    ASSUME TypeOK, OrderInv, [Next]_vars
    PROVE  OrderInv'
<1> USE DEF OrderInv
<1> DEFINE Kept == Known(mJobs, mPriority)' /\ (NoNegative => Descending(mJobs, mPriority)')
<1>1. mJobs \in Seq(Jobs)
  BY DEF TypeOK
<1>2. CASE UNCHANGED <<mJobs, mPriority>>
  BY <1>2 DEF Known, Descending
<1>3. CASE mJobs' = <<>>
  BY <1>3 DEF Known, Descending
<1>4. ASSUME NEW w \in Workers, Take(w) PROVE Kept
  <2>1. mJobs # <<>> /\ mJobs' = Tail(mJobs) /\ mPriority' = mPriority
    BY <1>4 DEF Take, jobVars
  <2>2. Len(mJobs') = Len(mJobs) - 1 /\ Len(mJobs) \in Nat
        /\ \A i \in 1 .. Len(mJobs) - 1 : i + 1 \in 1 .. Len(mJobs) /\ mJobs'[i] = mJobs[i + 1]
    BY <1>1, <2>1
  <2>3. Known(mJobs, mPriority)'
    BY <2>1, <2>2 DEF Known
  <2>4. ASSUME NoNegative, NEW i \in 1 .. Len(mJobs'), NEW k \in 1 .. Len(mJobs'), i < k
        PROVE  mPriority'[mJobs'[i]] >= mPriority'[mJobs'[k]]
    <3>1. i + 1 \in 1 .. Len(mJobs) /\ k + 1 \in 1 .. Len(mJobs) /\ i + 1 < k + 1
      BY <2>2, <2>4
    <3>2. mPriority[mJobs[i + 1]] >= mPriority[mJobs[k + 1]]
      BY <2>4, <3>1 DEF Descending
    <3> QED
      BY <2>1, <2>2, <3>2
  <2> QED
    BY <2>3, <2>4 DEF Descending
<1>5. ASSUME NEW j \in Jobs, RemoveJob(j) PROVE Kept
  <2>1. PICK r \in 1 .. Len(mJobs) : mJobs' = RemoveAt(mJobs, r) /\ mPriority' = mPriority
    BY <1>5 DEF RemoveJob, jobVars
  <2> DEFINE Src(i) == IF i < r THEN i ELSE i + 1
  <2>2. Len(mJobs') = Len(mJobs) - 1 /\ Len(mJobs) \in Nat
        /\ \A i \in 1 .. Len(mJobs) - 1 : mJobs'[i] = IF i < r THEN mJobs[i] ELSE mJobs[i + 1]
    BY <1>1, <2>1, RemoveAtIs
  <2>3. \A i \in 1 .. Len(mJobs') : Src(i) \in 1 .. Len(mJobs) /\ mJobs'[i] = mJobs[Src(i)]
    BY <2>2, Z3
  <2>4. ASSUME NEW i \in 1 .. Len(mJobs'), NEW k \in 1 .. Len(mJobs'), i < k
        PROVE  Src(i) < Src(k)
    BY <2>2, <2>4
  <2> HIDE DEF Src
  <2>5. Known(mJobs, mPriority)'
    BY <2>1, <2>3 DEF Known
  <2>6. ASSUME NoNegative, NEW i \in 1 .. Len(mJobs'), NEW k \in 1 .. Len(mJobs'), i < k
        PROVE  mPriority'[mJobs'[i]] >= mPriority'[mJobs'[k]]
    <3>1. mPriority[mJobs[Src(i)]] >= mPriority[mJobs[Src(k)]]
      BY <2>3, <2>4, <2>6 DEF Descending
    <3> QED
      BY <2>1, <2>3, <3>1
  <2> QED
    BY <2>5, <2>6 DEF Descending
<1>6. ASSUME NEW j \in Jobs, NEW p \in Priorities, Start(j, p) PROVE Kept
  BY <1>6, PlacedKeeps DEF Start
<1>7. ASSUME NEW j \in Jobs, StartGuaranteed(j) PROVE Kept
  <2>1. mJobs' = mJobs /\ Started(j, Guaranteed)
    BY <1>7 DEF StartGuaranteed
  <2>2. \A i \in 1 .. Len(mJobs) : mPriority'[mJobs[i]] = mPriority[mJobs[i]]
    BY <2>1, StartedKeeps
  <2> QED
    BY <2>1, <2>2 DEF Known, Descending
<1>8. ASSUME NEW w \in Workers, WorkerStep(w) PROVE Kept
  BY <1>2, <1>4, <1>8 DEF WorkerStep, Stop, Sleep, Finish, jobVars
<1>9. ASSUME NEW c \in Controllers, ControlStep(c) PROVE Kept
  BY <1>2, <1>9 DEF ControlStep, Grow, Shrink, StopVictim, Join, DestroyNext, jobVars
<1> QED
  BY <1>2, <1>3, <1>5, <1>6, <1>7, <1>8, <1>9
     DEF Next, RunGuaranteed, ClearBackLog, WaitForState, LookAgain,
         SetConcurrentJobs, Destroy, Spurious, SpuriousUser, jobVars, vars

(* With priorities that are not negative, start, remove and the workers    *)
(* keep the queue in order of priority, whatever order std::sort leaves    *)
(* equals in.                                                              *)
THEOREM QueueAlwaysOrdered == Spec => []QueueOrdered
<1>1. Init => OrderInv
  BY DEF Init, OrderInv, Known, Descending
<1>2. TypeOK /\ OrderInv /\ [Next]_vars => OrderInv'
  BY OrderStep
<1>3. OrderInv => QueueOrdered
  BY DEF OrderInv, NoNegative, Descending, QueueOrdered
<1> QED
  BY <1>1, <1>2, <1>3, PoolTypeCorrect, PTL DEF Spec
-----------------------------------------------------------------------------
(* The size of the pool. *)

Alive(w) == pc[w] # "none"
Resizing(c) == control[c].at = "idle" \/ control[c].goal # -1

(* Where setConcurrentJobs is, and how many threads are in the list: the  *)
(* loop variable is right because nobody else changes the list.            *)
ResizeShape(c) ==
    LET op == control[c]
        n == Len(mThreads)
    IN  /\ op.at = "idle" => op = Idle
        /\ op.at \in {"idle", "grow"} => n = mConcurrentJobs
        /\ op.at = "grow" => op.victim = NoWorker /\ op.goal > mConcurrentJobs
        /\ op.at = "shrink" => op.victim = NoWorker /\ Left(c) = n /\ op.goal <= n
        /\ op.at \in {"stop", "join"} /\ op.goal # -1 =>
              /\ op.victim \in Workers \ Range(mThreads)
              /\ op.count = n + 1 /\ op.goal \in 0 .. n

(* Outside of the destructor: the threads there are.  None of the list is  *)
(* stopped, since a victim is taken from it before it is.                  *)
ResizeThreads(c) ==
    Resizing(c) =>
        /\ \A w \in Workers : Alive(w) <=> w \in Range(mThreads) \cup {control[c].victim}
        /\ \A w \in Range(mThreads) : ~mStopped[w]

(* The destructor: the list is left as it is, its first threads are gone.  *)
DestroyThreads(c) ==
    ~Resizing(c) =>
        LET op == control[c]
            gone == Len(mThreads) - op.count
        IN  /\ \A w \in Workers : Alive(w) => w \in Range(mThreads)
            /\ \A i \in 1 .. Len(mThreads) : Alive(mThreads[i]) <=> i > gone
            /\ op.at \in {"stop", "join"} => op.victim = mThreads[gone + 1]
            /\ op.at = "gone" => op.count = 0

(* No thread ends unless it is told to. *)
ExitsAreStopped == \A w \in Workers : pc[w] = "exit" => mStopped[w]

Sized(c) == IsInjective(mThreads) /\ ResizeShape(c) /\ ResizeThreads(c) /\ DestroyThreads(c)

(* The inductive invariant, together with IInv *)
SizeInv == \A c \in Controllers : Controllers = {c} => Sized(c) /\ ExitsAreStopped

(* The pool's threads and its controller as TypeOK and ControlOK have them *)
LEMMA ControlTypes ==
    ASSUME TypeOK, ControlOK, NEW c \in Controllers
    PROVE  /\ mThreads \in Seq(Workers) /\ Len(mThreads) \in Nat /\ mConcurrentJobs \in Nat
           /\ DOMAIN mThreads = 1 .. Len(mThreads)
           /\ \A i \in 1 .. Len(mThreads) : mThreads[i] \in Workers
           /\ \A w : w \in Range(mThreads) <=> \E i \in 1 .. Len(mThreads) : mThreads[i] = w
           /\ control[c].at \in Steps /\ control[c].count \in Int /\ control[c].goal \in Nat \cup {-1}
           /\ control[c].at \in {"grow", "shrink"} => control[c].goal \in Nat
           /\ control[c].at \in {"destroy", "gone"} => control[c].goal = -1
           /\ ~Resizing(c) =>
                /\ control[c].count \in 0 .. Len(mThreads)
                /\ control[c].at \in {"stop", "join"} => control[c].count > 0
<1>1. mThreads \in Seq(Workers) /\ mConcurrentJobs \in Nat /\ control[c] \in Controls
  BY DEF TypeOK
<1>2. Len(mThreads) \in Nat /\ DOMAIN mThreads = 1 .. Len(mThreads)
  BY <1>1
<1>3. \A i \in 1 .. Len(mThreads) : mThreads[i] \in Workers
  BY <1>1, ElementOfSeq
<1>4. GoalOK(c) /\ (Destroying(c) => control[c].count \in 0 .. Len(mThreads)
                      /\ (control[c].at \in {"stop", "join"} => control[c].count > 0))
  BY DEF ControlOK
<1>5. control[c].at \in Steps /\ control[c].count \in Int /\ control[c].goal \in Nat \cup {-1}
  BY <1>1 DEF Controls
<1>6. \A w : w \in Range(mThreads) <=> \E i \in 1 .. Len(mThreads) : mThreads[i] = w
  BY <1>2 DEF Range
<1> QED
  BY <1>1, <1>2, <1>3, <1>4, <1>5, <1>6 DEF GoalOK, Destroying, Resizing

(* Threads are created and joined by controllers alone, and end if stopped. *)
LEMMA ThreadsStay ==
    ASSUME TypeOK, ExitsAreStopped, [Next]_vars,
           ~ \E c \in Controllers : Grow(c) \/ StopVictim(c) \/ Join(c)
    PROVE  (\A w \in Workers : Alive(w)' <=> Alive(w)) /\ UNCHANGED mStopped /\ ExitsAreStopped'
<1> USE DEF Alive, ExitsAreStopped, TypeOK
<1>1. CASE UNCHANGED <<pc, mStopped>>
  BY <1>1
<1>2. ASSUME NEW w \in Workers, WorkerStep(w)
      PROVE  (\A v \in Workers : Alive(v)' <=> Alive(v)) /\ UNCHANGED mStopped /\ ExitsAreStopped'
  BY <1>2 DEF WorkerStep, Stop, Sleep, Take, Finish, Looking
<1>3. CASE NotifyOne /\ UNCHANGED mStopped
  BY <1>3 DEF NotifyOne, Asleep
<1>4. CASE Spurious
  BY <1>4 DEF Spurious, Asleep
<1>5. ASSUME NEW c \in Controllers, ControlStep(c)
      PROVE  (\A v \in Workers : Alive(v)' <=> Alive(v)) /\ UNCHANGED mStopped /\ ExitsAreStopped'
  BY <1>1, <1>5 DEF ControlStep, Shrink, DestroyNext, workVars
<1> QED
  BY <1>1, <1>2, <1>3, <1>4, <1>5
     DEF Next, Start, StartGuaranteed, RunGuaranteed, RemoveJob, ClearBackLog, WaitForState, LookAgain,
         SetConcurrentJobs, Destroy, SpuriousUser, workVars, vars

(* The steps that do not change the size. *)
LEMMA SizeKept ==
    ASSUME NEW c \in Controllers, Sized(c), UNCHANGED <<mConcurrentJobs, mThreads, control, mStopped>>,
           TypeOK, \A w \in Workers : Alive(w)' <=> Alive(w)
    PROVE  Sized(c)'
<1>1. ResizeShape(c)' /\ IsInjective(mThreads)' /\ (Resizing(c)' <=> Resizing(c))
  BY DEF Sized, ResizeShape, Left, Resizing
<1>2. ResizeThreads(c)'
  BY <1>1 DEF Sized, ResizeThreads
<1>3. \A i \in 1 .. Len(mThreads) : mThreads[i] \in Workers
  BY ElementOfSeq DEF TypeOK
<1>4. DestroyThreads(c)'
  BY <1>1, <1>3 DEF Sized, DestroyThreads
<1> QED
  BY <1>1, <1>2, <1>4 DEF Sized

(* setConcurrentJobs begins, or the destructor. *)
LEMMA ControlBegins ==
    ASSUME TypeOK, ControlOK, NEW c \in Controllers, Sized(c), SetConcurrentJobs(c) \/ Destroy(c)
    PROVE  Sized(c)'
<1> USE ControlTypes
<1>1. control[c] = Idle /\ UNCHANGED <<mConcurrentJobs, mThreads, mStopped, pc>>
  BY DEF SetConcurrentJobs, Destroy, workVars
<1>2. Resizing(c) /\ control[c].victim = NoWorker /\ control \in [Controllers -> Controls]
  BY <1>1 DEF Idle, Op, Resizing, TypeOK
<1>3. /\ \A w \in Workers : Alive(w) <=> w \in Range(mThreads)
      /\ \A w \in Range(mThreads) : ~mStopped[w]
  BY <1>2, PoolAssumption DEF Sized, ResizeThreads
<1>4. Len(mThreads) = mConcurrentJobs
  BY <1>1 DEF Sized, ResizeShape, Idle, Op
<1>5. IsInjective(mThreads)'
  BY <1>1 DEF Sized
<1>6. CASE SetConcurrentJobs(c)
  <2>1. PICK n \in 0 .. Cardinality(Workers) : n # mConcurrentJobs
           /\ control' = [control EXCEPT ![c] = Op(IF n > mConcurrentJobs THEN "grow" ELSE "shrink", -1, n, NoWorker)]
    BY <1>6 DEF SetConcurrentJobs
  <2>2. n \in Nat
    BY <2>1, WorkersFinite
  <2>3. control'[c] = [at |-> IF n > mConcurrentJobs THEN "grow" ELSE "shrink", count |-> -1, goal |-> n, victim |-> NoWorker]
    BY <1>2, <2>1 DEF Op
  <2>4. ResizeShape(c)' /\ Resizing(c)'
    BY <1>1, <1>4, <2>1, <2>2, <2>3 DEF ResizeShape, Resizing, Left
  <2>5. ResizeThreads(c)'
    BY <1>1, <1>3, <2>3, PoolAssumption DEF ResizeThreads, Alive
  <2> QED
    BY <1>5, <2>4, <2>5 DEF Sized, DestroyThreads
<1>7. CASE Destroy(c)
  <2>1. control'[c] = [at |-> "destroy", count |-> Len(mThreads), goal |-> -1, victim |-> NoWorker]
    BY <1>2, <1>7 DEF Destroy, Op
  <2>2. ResizeShape(c)' /\ ~Resizing(c)'
    BY <2>1 DEF ResizeShape, Resizing
  <2>3. DestroyThreads(c)'
    BY <1>1, <1>3, <2>1 DEF DestroyThreads, Alive
  <2> QED
    BY <1>5, <2>2, <2>3 DEF Sized, ResizeThreads
<1> QED
  BY <1>6, <1>7

(* Threads are added. *)
LEMMA GrowStep ==
    ASSUME TypeOK, ControlOK, ExitsAreStopped, NEW c \in Controllers, Sized(c), Grow(c)
    PROVE  Sized(c)' /\ ExitsAreStopped'
<1> USE ControlTypes
<1>1. /\ control[c].at = "grow" /\ control[c].victim = NoWorker /\ control[c].goal > mConcurrentJobs
      /\ control[c].goal \in Nat /\ Len(mThreads) = mConcurrentJobs /\ Resizing(c)
      /\ control \in [Controllers -> Controls] /\ IsInjective(mThreads)
  BY DEF Grow, Sized, ResizeShape, Resizing, TypeOK
<1>2. /\ \A w \in Workers : Alive(w) <=> w \in Range(mThreads)
      /\ \A w \in Range(mThreads) : ~mStopped[w]
  BY <1>1, PoolAssumption DEF Sized, ResizeThreads
<1> DEFINE k == control[c].goal - mConcurrentJobs
<1>3. PICK s \in [1 .. k -> {w \in Workers : pc[w] = "none"}] :
          /\ IsInjective(s)
          /\ mThreads' = mThreads \o s
          /\ pc' = [w \in Workers |-> IF w \in Range(s) THEN "start" ELSE pc[w]]
          /\ mStopped' = [w \in Workers |-> mStopped[w] /\ w \notin Range(s)]
  BY DEF Grow
<1>4. k \in Nat /\ s \in Seq(Workers) /\ Len(s) = k
  <2>1. k \in Nat
    BY <1>1
  <2> HIDE DEF k
  <2>2. s \in [1 .. k -> Workers]
    BY <1>3
  <2> QED
    BY <2>1, <2>2
<1> HIDE DEF k
<1>5. /\ \A i \in 1 .. k : s[i] \in Workers /\ ~Alive(s[i])
      /\ \A w : w \in Range(s) <=> \E i \in 1 .. k : s[i] = w
  BY <1>3, <1>4 DEF Alive, Range
<1>6. /\ mThreads' \in Seq(Workers) /\ Len(mThreads') = Len(mThreads) + k
      /\ \A i \in 1 .. Len(mThreads) + k : mThreads'[i] =
            IF i <= Len(mThreads) THEN mThreads[i] ELSE s[i - Len(mThreads)]
  <2>1. mThreads \in Seq(Workers) /\ s \in Seq(Workers) /\ Len(s) = k /\ mThreads' = mThreads \o s
    BY <1>3, <1>4
  <2> QED
    BY <2>1, ConcatProperties
<1>7. Len(mThreads') = control[c].goal /\ mConcurrentJobs' = control[c].goal /\ control'[c] = Idle
  BY <1>1, <1>4, <1>6 DEF Grow, k
<1>8. DOMAIN mThreads' = 1 .. Len(mThreads) + k
  BY <1>4, <1>6
<1>9. IsInjective(mThreads)'
  <2> SUFFICES ASSUME NEW i \in 1 .. Len(mThreads) + k, NEW j \in 1 .. Len(mThreads) + k,
                      mThreads'[i] = mThreads'[j]
               PROVE  i = j
    BY <1>8 DEF IsInjective
  <2>1. CASE i <= Len(mThreads) /\ j <= Len(mThreads)
    <3>1. i \in DOMAIN mThreads /\ j \in DOMAIN mThreads /\ mThreads[i] = mThreads[j]
      BY <1>6, <2>1
    <3> QED
      BY <1>1, <3>1 DEF IsInjective
  <2>2. CASE i > Len(mThreads) /\ j > Len(mThreads)
    <3>1. i - Len(mThreads) \in 1 .. k /\ j - Len(mThreads) \in 1 .. k
      BY <1>4, <2>2
    <3>2. s[i - Len(mThreads)] = s[j - Len(mThreads)]
      BY <1>6, <2>2
    <3>3. i - Len(mThreads) = j - Len(mThreads)
      BY <1>3, <1>4, <3>1, <3>2 DEF IsInjective
    <3> QED
      BY <3>3
  <2>3. ASSUME NEW a \in 1 .. Len(mThreads), NEW b \in 1 .. Len(mThreads) + k, b > Len(mThreads),
               mThreads'[a] = mThreads'[b]
        PROVE  FALSE
    <3>1. b - Len(mThreads) \in 1 .. k
      BY <1>4, <2>3
    <3>2. mThreads'[a] = mThreads[a] /\ mThreads'[b] = s[b - Len(mThreads)]
      BY <1>4, <1>6, <2>3
    <3> QED
      BY <1>2, <1>5, <2>3, <3>1, <3>2
  <2> QED
    BY <2>1, <2>2, <2>3
<1>10. \A w : w \in Range(mThreads') <=> w \in Range(mThreads) \/ w \in Range(s)
  <2>1. ASSUME NEW i \in 1 .. Len(mThreads) PROVE mThreads[i] \in Range(mThreads')
    <3>1. i \in 1 .. Len(mThreads) + k /\ mThreads'[i] = mThreads[i]
      BY <1>4, <1>6
    <3> QED
      BY <1>8, <3>1 DEF Range
  <2>2. ASSUME NEW i \in 1 .. k PROVE s[i] \in Range(mThreads')
    <3> DEFINE j == i + Len(mThreads)
    <3>1. j \in 1 .. Len(mThreads) + k /\ ~ (j <= Len(mThreads)) /\ j - Len(mThreads) = i
      BY <1>4
    <3> HIDE DEF j
    <3>2. mThreads'[j] = s[i]
      BY <1>6, <3>1
    <3> QED
      BY <1>8, <3>1, <3>2 DEF Range
  <2>3. ASSUME NEW i \in 1 .. Len(mThreads) + k
        PROVE  mThreads'[i] \in Range(mThreads) \/ mThreads'[i] \in Range(s)
    <3>1. i <= Len(mThreads) \/ i - Len(mThreads) \in 1 .. k
      BY <1>4
    <3> QED
      BY <1>5, <1>6, <3>1
  <2> QED
    BY <1>5, <1>8, <2>1, <2>2, <2>3 DEF Range
<1>11. ResizeShape(c)' /\ Resizing(c)'
  BY <1>7 DEF ResizeShape, Resizing, Idle, Op
<1>12. \A w \in Workers : (pc'[w] # "none" <=> w \in Range(mThreads')) /\ (w \in Range(mThreads') => ~mStopped'[w])
  BY <1>2, <1>3, <1>5, <1>10 DEF Alive
<1>13. \A w \in Range(mThreads') : w \in Workers
  BY <1>5, <1>10
<1>14. ResizeThreads(c)'
  BY <1>7, <1>12, <1>13, PoolAssumption DEF ResizeThreads, Alive, Idle, Op
<1>15. ExitsAreStopped'
  BY <1>2, <1>3, <1>5 DEF ExitsAreStopped, Alive
<1> QED
  BY <1>9, <1>11, <1>14, <1>15 DEF Sized, DestroyThreads

(* A thread is taken from the list, or the size is right. *)
LEMMA ShrinkStep ==
    ASSUME TypeOK, ControlOK, NEW c \in Controllers, Sized(c), Shrink(c)
    PROVE  Sized(c)'
<1> USE ControlTypes
<1> DEFINE n == Len(mThreads)
<1>1. /\ control[c].at = "shrink" /\ control[c].victim = NoWorker /\ Left(c) = n /\ control[c].goal <= n
      /\ control[c].goal \in Nat /\ Resizing(c) /\ UNCHANGED <<mStopped, pc>>
      /\ control \in [Controllers -> Controls] /\ IsInjective(mThreads)
  BY DEF Shrink, Sized, ResizeShape, Resizing, TypeOK, workVars
<1>2. /\ \A w \in Workers : Alive(w) <=> w \in Range(mThreads)
      /\ \A w \in Range(mThreads) : ~mStopped[w]
  BY <1>1, PoolAssumption DEF Sized, ResizeThreads
<1>3. CASE Left(c) > control[c].goal
  <2> DEFINE t == Front(mThreads)
             v == Last(mThreads)
  <2>1. n > 0 /\ n \in Nat /\ n \in 1 .. n /\ n - 1 \in Nat
    BY <1>1, <1>3
  <2>2. t \in Seq(Workers) /\ Len(t) = n - 1 /\ (\A i \in 1 .. n - 1 : t[i] = mThreads[i])
        /\ DOMAIN t = 1 .. n - 1 /\ v = mThreads[n]
    <3>1. mThreads \in Seq(Workers) /\ mThreads # <<>>
      BY <2>1
    <3>2. t \in Seq(Workers) /\ Len(t) = n - 1 /\ (\A i \in 1 .. n - 1 : t[i] = mThreads[i])
      BY <3>1, FrontIs
    <3> HIDE DEF t
    <3> QED
      BY <3>2 DEF Last
  <2>3. mThreads' = t /\ mConcurrentJobs' = mConcurrentJobs
        /\ control'[c] = [at |-> "stop", count |-> n, goal |-> control[c].goal, victim |-> v]
    BY <1>1, <1>3 DEF Shrink, Op
  <2> HIDE DEF t, v
  <2>4. \A w : w \in Range(t) <=> \E i \in 1 .. n - 1 : mThreads[i] = w
    BY <2>2 DEF Range
  <2>5. v \in Workers /\ v \notin Range(t) /\ v \in Range(mThreads)
    <3>1. v \in Workers /\ v \in Range(mThreads)
      BY <2>1, <2>2
    <3>2. ASSUME NEW i \in 1 .. n - 1 PROVE mThreads[i] # v
      BY <1>1, <2>1, <2>2 DEF IsInjective
    <3> QED
      BY <2>4, <3>1, <3>2
  <2>6. \A w : w \in Range(mThreads) <=> w \in Range(t) \/ w = v
    BY <2>1, <2>2, <2>4
  <2>7. IsInjective(t)
    BY <1>1, <2>1, <2>2 DEF IsInjective
  <2>8. ResizeShape(c)' /\ Resizing(c)'
    BY <1>1, <1>3, <2>1, <2>2, <2>3, <2>5 DEF ResizeShape, Resizing
  <2>9. ResizeThreads(c)'
    BY <1>1, <1>2, <2>3, <2>6 DEF ResizeThreads, Alive
  <2> QED
    BY <2>3, <2>7, <2>8, <2>9 DEF Sized, DestroyThreads
<1>4. CASE ~(Left(c) > control[c].goal)
  <2>1. mThreads' = mThreads /\ mConcurrentJobs' = control[c].goal /\ control'[c] = Idle
        /\ control[c].goal = n
    BY <1>1, <1>4 DEF Shrink
  <2>2. ResizeShape(c)' /\ Resizing(c)'
    BY <2>1 DEF ResizeShape, Resizing, Idle, Op
  <2>3. ResizeThreads(c)'
    BY <1>1, <1>2, <2>1, PoolAssumption DEF ResizeThreads, Alive, Idle, Op
  <2> QED
    BY <1>1, <2>1, <2>2, <2>3 DEF Sized, DestroyThreads
<1> QED
  BY <1>3, <1>4

(* The victim is told to stop. *)
LEMMA StopVictimStep ==
    ASSUME TypeOK, ControlOK, ExitsAreStopped, NEW c \in Controllers, Sized(c), StopVictim(c)
    PROVE  Sized(c)' /\ ExitsAreStopped'
<1> USE ControlTypes
<1> DEFINE op == control[c]
           v == op.victim
<1>1. op.at = "stop" /\ UNCHANGED <<mThreads, mConcurrentJobs>> /\ IsInjective(mThreads)'
  BY DEF StopVictim, Sized
<1>2. control'[c] = [at |-> "join", count |-> op.count, goal |-> op.goal, victim |-> v]
  BY DEF StopVictim, Op, TypeOK
<1>3. pc \in [Workers -> PCs] /\ mStopped \in [Workers -> BOOLEAN]
  BY DEF TypeOK
<1>4. \A w \in Workers : (pc'[w] # "none" <=> pc[w] # "none") /\ (w # v => mStopped'[w] = mStopped[w])
  BY <1>3 DEF StopVictim, NotifyAll
<1>5. ExitsAreStopped'
  <2>1. \A w \in Workers : pc'[w] = "exit" => pc[w] = "exit"
    BY DEF StopVictim, NotifyAll
  <2>2. \A w \in Workers : mStopped[w] => mStopped'[w]
    BY <1>3 DEF StopVictim
  <2> QED
    BY <2>1, <2>2 DEF ExitsAreStopped
<1> HIDE DEF op, v
<1>6. (Resizing(c)' <=> op.goal # -1) /\ (Resizing(c) <=> op.goal # -1)
  BY <1>1, <1>2 DEF Resizing, op
<1>7. ResizeShape(c)'
  BY <1>1, <1>2 DEF Sized, ResizeShape, op, v
<1>8. ResizeThreads(c)'
  <2> SUFFICES ASSUME op.goal # -1 PROVE ResizeThreads(c)'
    BY <1>6 DEF ResizeThreads
  <2>1. v \notin Range(mThreads) /\ \A w \in Range(mThreads) : w \in Workers /\ ~mStopped[w]
    BY <1>1, <1>6 DEF Sized, ResizeShape, ResizeThreads, op, v
  <2>2. \A w \in Workers : Alive(w) <=> w \in Range(mThreads) \cup {v}
    BY <1>6 DEF Sized, ResizeThreads, op, v
  <2> QED
    BY <1>1, <1>2, <1>4, <2>1, <2>2 DEF ResizeThreads, Alive
<1>9. DestroyThreads(c)'
  <2> SUFFICES ASSUME op.goal = -1 PROVE DestroyThreads(c)'
    BY <1>6 DEF DestroyThreads
  <2>1. /\ \A w \in Workers : Alive(w) => w \in Range(mThreads)
        /\ \A i \in 1 .. Len(mThreads) : Alive(mThreads[i]) <=> i > Len(mThreads) - op.count
        /\ v = mThreads[Len(mThreads) - op.count + 1]
    BY <1>1, <1>6 DEF Sized, DestroyThreads, op, v
  <2> QED
    BY <1>1, <1>2, <1>4, <2>1 DEF DestroyThreads, Alive
<1> QED
  BY <1>1, <1>5, <1>7, <1>8, <1>9 DEF Sized

(* The victim has ended. *)
LEMMA JoinStep ==
    ASSUME TypeOK, ControlOK, ExitsAreStopped, NEW c \in Controllers, Sized(c), Join(c)
    PROVE  Sized(c)' /\ ExitsAreStopped'
<1> USE ControlTypes
<1> DEFINE op == control[c]
           v == op.victim
<1>1. op.at = "join" /\ UNCHANGED <<mThreads, mConcurrentJobs, mStopped>> /\ IsInjective(mThreads)
  BY DEF Join, Sized
<1>2. control'[c] = [at |-> IF op.goal = -1 THEN "destroy" ELSE "shrink",
                     count |-> op.count - 1, goal |-> op.goal, victim |-> NoWorker]
  BY DEF Join, Op, TypeOK
<1>3. pc \in [Workers -> PCs]
  BY DEF TypeOK
<1>4. \A w \in Workers : pc'[w] = IF w = v THEN "none" ELSE pc[w]
  BY <1>3 DEF Join
<1>5. ExitsAreStopped'
  BY <1>1, <1>4 DEF ExitsAreStopped
<1> HIDE DEF op, v
<1>6. /\ (Resizing(c)' <=> op.goal # -1) /\ (Resizing(c) <=> op.goal # -1)
      /\ op.count \in Int /\ op.goal \in Nat \cup {-1} /\ NoWorker \notin Workers
  BY <1>1, <1>2, PoolAssumption DEF Resizing, op
<1>7. CASE op.goal # -1
  <2>1. /\ v \in Workers \ Range(mThreads) /\ op.count = Len(mThreads) + 1 /\ op.goal \in 0 .. Len(mThreads)
        /\ \A w \in Range(mThreads) : w \in Workers /\ ~mStopped[w]
        /\ \A w \in Workers : Alive(w) <=> w \in Range(mThreads) \cup {v}
    BY <1>1, <1>6, <1>7 DEF Sized, ResizeShape, ResizeThreads, op, v
  <2>2. ResizeShape(c)'
    BY <1>1, <1>2, <1>6, <1>7, <2>1 DEF ResizeShape, Left
  <2>3. ResizeThreads(c)'
    BY <1>1, <1>2, <1>4, <1>6, <2>1 DEF ResizeThreads, Alive
  <2> QED
    BY <1>1, <1>5, <1>6, <1>7, <2>2, <2>3 DEF Sized, DestroyThreads
<1>8. CASE op.goal = -1
  <2> DEFINE k == Len(mThreads) - op.count + 1
  <2>1. /\ \A w \in Workers : Alive(w) => w \in Range(mThreads)
        /\ \A i \in 1 .. Len(mThreads) : Alive(mThreads[i]) <=> i > Len(mThreads) - op.count
        /\ v = mThreads[k] /\ op.count \in 1 .. Len(mThreads) /\ k \in 1 .. Len(mThreads)
    BY <1>1, <1>6, <1>8 DEF Sized, DestroyThreads, op, v
  <2>2. ASSUME NEW i \in 1 .. Len(mThreads)
        PROVE  pc'[mThreads[i]] # "none" <=> i > Len(mThreads) - (op.count - 1)
    <3>1. mThreads[i] \in Workers /\ (mThreads[i] = v <=> i = k)
      BY <1>1, <2>1 DEF IsInjective
    <3>2. pc'[mThreads[i]] # "none" <=> i # k /\ i > Len(mThreads) - op.count
      BY <1>4, <2>1, <3>1 DEF Alive
    <3> QED
      BY <1>6, <2>1, <3>2
  <2>3. \A w \in Workers : pc'[w] # "none" => w \in Range(mThreads)
    BY <1>4, <2>1 DEF Alive
  <2>4. DestroyThreads(c)'
    BY <1>1, <1>2, <1>8, <2>2, <2>3 DEF DestroyThreads, Alive
  <2>5. ResizeShape(c)'
    BY <1>2, <1>8 DEF ResizeShape
  <2> QED
    BY <1>1, <1>5, <1>6, <1>8, <2>4, <2>5 DEF Sized, ResizeThreads
<1> QED
  BY <1>7, <1>8

(* The destructor goes on to the next thread, or returns. *)
LEMMA DestroyNextStep ==
    ASSUME TypeOK, ControlOK, NEW c \in Controllers, Sized(c), DestroyNext(c)
    PROVE  Sized(c)'
<1> USE ControlTypes
<1> DEFINE op == control[c]
<1>1. op.at = "destroy" /\ UNCHANGED <<mThreads, mConcurrentJobs, mStopped, pc>> /\ op.goal = -1
  BY DEF DestroyNext, workVars
<1>2. control'[c] = IF op.count = 0
                      THEN [at |-> "gone", count |-> 0, goal |-> -1, victim |-> NoWorker]
                      ELSE [at |-> "stop", count |-> op.count, goal |-> -1,
                            victim |-> mThreads[Len(mThreads) - op.count + 1]]
  BY DEF DestroyNext, Op, TypeOK
<1>3. ~Resizing(c) /\ ~Resizing(c)'
  BY <1>1, <1>2 DEF Resizing
<1>4. ResizeShape(c)'
  BY <1>2 DEF ResizeShape
<1>5. DestroyThreads(c)'
  BY <1>1, <1>2, <1>3 DEF Sized, DestroyThreads, Alive
<1> QED
  BY <1>1, <1>3, <1>4, <1>5 DEF Sized, ResizeThreads

(* Every step keeps the size. *)
LEMMA SizeInvStep ==
    ASSUME TypeOK, ControlOK, SizeInv, [Next]_vars
    PROVE  SizeInv'
<1> SUFFICES ASSUME NEW c \in Controllers, Controllers = {c}
             PROVE  Sized(c)' /\ ExitsAreStopped'
  BY DEF SizeInv
<1>1. Sized(c) /\ ExitsAreStopped
  BY DEF SizeInv
<1>2. CASE Grow(c) \/ StopVictim(c) \/ Join(c)
  BY <1>1, <1>2, GrowStep, StopVictimStep, JoinStep
<1>3. CASE ~ (Grow(c) \/ StopVictim(c) \/ Join(c))
  <2>1. (\A w \in Workers : Alive(w)' <=> Alive(w)) /\ UNCHANGED mStopped /\ ExitsAreStopped'
    BY <1>1, <1>3, ThreadsStay
  <2>2. CASE SetConcurrentJobs(c) \/ Destroy(c)
    BY <1>1, <2>1, <2>2, ControlBegins
  <2>3. CASE Shrink(c)
    BY <1>1, <2>1, <2>3, ShrinkStep
  <2>4. CASE DestroyNext(c)
    BY <1>1, <2>1, <2>4, DestroyNextStep
  <2>5. CASE UNCHANGED <<mConcurrentJobs, mThreads, control>>
    BY <1>1, <2>1, <2>5, SizeKept
  <2> QED
    BY <1>3, <2>2, <2>3, <2>4, <2>5
       DEF Next, WorkerStep, Stop, Sleep, Take, Finish, Start, StartGuaranteed, RunGuaranteed, RemoveJob,
           ClearBackLog, WaitForState, LookAgain, ControlStep, Spurious, SpuriousUser, sizeVars, vars
<1> QED
  BY <1>2, <1>3

(* The size of the pool is what setConcurrentJobs made it, with one thread *)
(* that calls it: whatever the workers and the other callers do meanwhile, *)
(* no thread is forgotten, counted twice or stopped unasked, and none is   *)
(* left behind by the destructor (ThreadPool.cpp 117-166).                 *)
THEOREM PoolSizeCorrect == Spec => []PoolSize
<1>1. Init => SizeInv
  <2> SUFFICES ASSUME Init, NEW c \in Controllers, Controllers = {c}
               PROVE  Sized(c) /\ ExitsAreStopped
    BY DEF SizeInv
  <2>1. PICK s \in [1 .. InitialJobs -> Workers] :
           /\ IsInjective(s) /\ mThreads = s
           /\ pc = [w \in Workers |-> IF w \in Range(s) THEN "start" ELSE "none"]
    BY DEF Init
  <2>2. InitialJobs \in Nat /\ NoWorker \notin Workers
    BY PoolAssumption, WorkersFinite
  <2>3. Len(mThreads) = InitialJobs /\ \A w \in Range(mThreads) : w \in Workers
    BY <2>1, <2>2 DEF Range
  <2>4. /\ control[c] = Idle /\ mConcurrentJobs = InitialJobs /\ Resizing(c)
        /\ \A w \in Workers : ~mStopped[w]
    BY DEF Init, Resizing, Idle, Op
  <2>5. ResizeShape(c)
    BY <2>3, <2>4 DEF ResizeShape, Idle, Op
  <2>6. ResizeThreads(c) /\ ExitsAreStopped
    BY <2>1, <2>2, <2>3, <2>4 DEF ResizeThreads, Alive, ExitsAreStopped, Idle, Op
  <2> QED
    BY <2>1, <2>4, <2>5, <2>6 DEF Sized, DestroyThreads
<1>2. TypeOK /\ ControlOK /\ SizeInv /\ [Next]_vars => SizeInv'
  BY SizeInvStep
<1>3. TypeOK /\ ControlOK /\ SizeInv => PoolSize
  <2> SUFFICES ASSUME TypeOK, ControlOK, NEW c \in Controllers, Sized(c), ExitsAreStopped
               PROVE  LET op == control[c]
                      IN  /\ IsInjective(mThreads)
                          /\ op.at = "idle" \/ op.goal # -1 =>
                                \A w \in Workers : pc[w] # "none" <=> w \in Range(mThreads) \cup {op.victim}
                          /\ op.at \in {"idle", "grow"} =>
                                /\ Len(mThreads) = mConcurrentJobs
                                /\ \A w \in Range(mThreads) : ~mStopped[w] /\ pc[w] # "exit"
                          /\ op.at = "shrink" => Len(mThreads) = Left(c)
                          /\ op.at = "gone" => \A w \in Workers : pc[w] = "none"
    BY DEF SizeInv, PoolSize
  <2>1. control[c].at \in {"idle", "grow"} => Resizing(c)
    BY ControlTypes DEF Resizing
  <2>2. \A w \in Range(mThreads) : w \in Workers
    BY ControlTypes
  <2>3. ASSUME control[c].at = "gone", NEW w \in Workers PROVE ~Alive(w)
    <3>1. ~Resizing(c) /\ control[c].count = 0 /\ Len(mThreads) \in Nat
      BY <2>3, ControlTypes DEF Resizing, Sized, DestroyThreads
    <3>2. \A i \in 1 .. Len(mThreads) : ~Alive(mThreads[i])
      BY <3>1 DEF Sized, DestroyThreads
    <3> QED
      BY <3>1, <3>2, ControlTypes DEF Sized, DestroyThreads
  <2>4. \A w \in Range(mThreads) : Resizing(c) => ~mStopped[w] /\ pc[w] # "exit"
    BY <2>2 DEF Sized, ResizeThreads, ExitsAreStopped
  <2> QED
    BY <2>1, <2>3, <2>4 DEF Sized, ResizeShape, ResizeThreads, Resizing, Alive
<1> QED
  BY <1>1, <1>2, <1>3, PoolInvariant, PTL DEF Spec, IInv
=============================================================================
