------------------------------ MODULE ThreadPool ------------------------------
(***************************************************************************)
(* rct/ThreadPool.cpp: workers that take jobs from one queue, ordered by   *)
(* priority, under one mutex and one condition variable.                   *)
(*                                                                         *)
(* Nothing blocks with the pool's mMutex held, so every locked section is  *)
(* one step.  A worker is "asleep" in mCond.wait, "awake" once it has been *)
(* notified and competes for mMutex, "start" before its first look at the  *)
(* queue, "run" in job->run(), "done" after it has set the job's state,    *)
(* "exit" when run has returned, "none" when there is no such thread.      *)
(***************************************************************************)
EXTENDS Integers, Sequences, SequencesExt, FiniteSets, TLC

CONSTANTS
    Workers,            \* threads the pool may create
    Jobs,               \* Job objects
    Users,              \* threads that call waitForState
    Controllers,        \* threads that call setConcurrentJobs
    Priorities,         \* priorities given to start
    UintMod,            \* 2^32 in the code: jobLessThan compares unsigned
    InitialJobs,        \* the constructor's concurrentJobs
    MaxStarts,          \* calls of start for one job
    MaxResizes,         \* calls of setConcurrentJobs
    MaxWaits            \* calls of waitForState

Guaranteed == -1
NoWorker == "no worker"

ASSUME PoolAssumption ==
    /\ IsFiniteSet(Workers) /\ NoWorker \notin Workers
    /\ UintMod \in Nat \ {0}
    /\ Priorities \subseteq (-UintMod .. UintMod - 1) \ {Guaranteed}
    /\ InitialJobs \in 0 .. Cardinality(Workers)
    /\ MaxStarts \in Nat /\ MaxResizes \in Nat /\ MaxWaits \in Nat

VARIABLES
    mJobs,              \* the queue
    mPriority, mState,  \* of each job
    starts,             \* calls of start for each job
    apart,              \* whether a thread of its own runs it
    mBusyThreads, mConcurrentJobs,
    mThreads,           \* the workers the pool knows, in order
    pc, job, mStopped,  \* of each worker
    control,            \* where each controller is; the destructor is one of them
    resizes,
    waiter, waits       \* what each user waits for

jobVars  == <<mPriority, starts, apart>>
workVars == <<mBusyThreads, pc, job, mStopped>>
sizeVars == <<mConcurrentJobs, mThreads, control, resizes>>
waitVars == <<waiter, waits>>
vars == <<mJobs, mState, jobVars, workVars, sizeVars, waitVars>>

NoJob == "no job"

PCs     == {"none", "start", "asleep", "awake", "run", "done", "exit"}
States  == {"NotStarted", "Running", "Finished"}

(* A controller: in setConcurrentJobs ("grow", "shrink") or the destructor *)
(* ("destroy", "gone"), about to stop or to join its victim.  count is the *)
(* loop variable, -1 until it is read; goal the argument, -1 for the       *)
(* destructor.                                                             *)
Steps   == {"idle", "grow", "shrink", "destroy", "stop", "join", "gone"}
Op(at, count, goal, victim) ==
    [at |-> at, count |-> count, goal |-> goal, victim |-> victim]
Idle    == Op("idle", -1, -1, NoWorker)

Wait(at, j, state) == [at |-> at, job |-> j, state |-> state]
NotWaiting == Wait("idle", NoJob, "Finished")

Init ==
    /\ mJobs = <<>>
    /\ mPriority = [j \in Jobs |-> 0]
    /\ mState = [j \in Jobs |-> "NotStarted"]
    /\ starts = [j \in Jobs |-> 0]
    /\ apart = [j \in Jobs |-> "no"]
    /\ mBusyThreads = 0
    /\ mConcurrentJobs = InitialJobs
    /\ \E s \in [1 .. InitialJobs -> Workers] :
          /\ IsInjective(s)
          /\ mThreads = s
          /\ pc = [w \in Workers |-> IF w \in Range(s) THEN "start" ELSE "none"]
    /\ job = [w \in Workers |-> NoJob]
    /\ mStopped = [w \in Workers |-> FALSE]
    /\ control = [c \in Controllers |-> Idle]
    /\ resizes = 0
    /\ waiter = [u \in Users |-> NotWaiting]
    /\ waits = 0
-----------------------------------------------------------------------------
(* The condition variables. *)

Asleep == {w \in Workers : pc[w] = "asleep"}

(* A start that tells nobody. *)
NoNotify == UNCHANGED pc

(* mCond.notify_one, as a change of pc: any sleeper, or nobody. *)
NotifyOne ==
    \/ /\ Asleep = {}
       /\ UNCHANGED pc
    \/ \E w \in Asleep : pc' = [pc EXCEPT ![w] = "awake"]

(* notify_one where notify_all is needed. *)
OnlyOne == NotifyOne

NotifyAll == pc' = [w \in Workers |-> IF pc[w] = "asleep" THEN "awake" ELSE pc[w]]

(* A new state without notify_all. *)
BadSetState(j, state) ==
    /\ mState' = [mState EXCEPT ![j] = state]
    /\ UNCHANGED waiter

(* job->mState = state; job->mCond.notify_all() *)
SetState(j, state) ==
    /\ mState' = [mState EXCEPT ![j] = state]
    /\ waiter' = [u \in Users |->
          IF waiter[u].at = "asleep" /\ waiter[u].job = j
            THEN Wait("awake", j, waiter[u].state) ELSE waiter[u]]

Spurious ==
    /\ \E w \in Asleep : pc' = [pc EXCEPT ![w] = "awake"]
    /\ UNCHANGED <<mJobs, mState, jobVars, mBusyThreads, job, mStopped, sizeVars, waitVars>>

SpuriousUser ==
    /\ \E u \in Users :
          /\ waiter[u].at = "asleep"
          /\ waiter' = [waiter EXCEPT ![u] = Wait("awake", @.job, @.state)]
    /\ UNCHANGED <<mJobs, mState, jobVars, workVars, sizeVars, waits>>
-----------------------------------------------------------------------------
(* ThreadPoolThread::run. *)

(* A worker in the locked part of the loop, busy or not before. *)
Looking(w) == pc[w] \in {"start", "awake", "done"}

(* What is left of mBusyThreads once w has looked. *)
Unbusy(w) == mBusyThreads - IF pc[w] = "done" THEN 1 ELSE 0

(* A worker that looks at mStopped before it counts itself out. *)
BadStop(w) ==
    /\ Looking(w)
    /\ mStopped[w]
    /\ pc' = [pc EXCEPT ![w] = "exit"]
    /\ UNCHANGED <<mJobs, mState, jobVars, mBusyThreads, job, mStopped, sizeVars, waitVars>>

Stop(w) ==
    /\ Looking(w)
    /\ mStopped[w]
    /\ pc' = [pc EXCEPT ![w] = "exit"]
    /\ mBusyThreads' = Unbusy(w)
    /\ UNCHANGED <<mJobs, mState, jobVars, job, mStopped, sizeVars, waitVars>>

Sleep(w) ==
    /\ Looking(w)
    /\ ~mStopped[w]
    /\ mJobs = <<>>
    /\ pc' = [pc EXCEPT ![w] = "asleep"]
    /\ mBusyThreads' = Unbusy(w)
    /\ UNCHANGED <<mJobs, mState, jobVars, job, mStopped, sizeVars, waitVars>>

Take(w) ==
    /\ Looking(w)
    /\ ~mStopped[w]
    /\ mJobs # <<>>
    /\ mJobs' = Tail(mJobs)
    /\ job' = [job EXCEPT ![w] = Head(mJobs)]
    /\ SetState(Head(mJobs), "Running")
    /\ mBusyThreads' = Unbusy(w) + 1
    /\ pc' = [pc EXCEPT ![w] = "run"]
    /\ UNCHANGED <<jobVars, mStopped, sizeVars, waits>>

(* job->run() returns. *)
Finish(w) ==
    /\ pc[w] = "run"
    /\ SetState(job[w], "Finished")
    /\ job' = [job EXCEPT ![w] = NoJob]
    /\ pc' = [pc EXCEPT ![w] = "done"]
    /\ UNCHANGED <<mJobs, jobVars, mBusyThreads, mStopped, sizeVars, waits>>
-----------------------------------------------------------------------------
(* Calls on the pool, by any thread, a job that is running included.       *)

Gone == \E c \in Controllers : control[c].at = "gone"

(* Once the destructor has begun, only a running job can still call. *)
Open ==
    \/ \A c \in Controllers : control[c].goal # -1 \/ control[c].at = "idle"
    \/ ~Gone /\ \E w \in Workers : pc[w] = "run"

(* A Job object is started again only when the last start has had its end. *)
InFlight(j) ==
    \/ j \in Range(mJobs)
    \/ apart[j] # "no"
    \/ \E w \in Workers : job[w] = j

Uint(p) == p % UintMod

(* What std::sort with jobLessThan may make of s: equals in any order. *)
IsSortOf(q, s, priority) ==
    /\ \E f \in Bijection(DOMAIN s, DOMAIN s) : q = [i \in DOMAIN s |-> s[f[i]]]
    /\ \A i, k \in DOMAIN q : i < k => Uint(priority[q[i]]) >= Uint(priority[q[k]])

(* Without the sort. *)
BadPlaced(q, j, p) ==
    IF mJobs # <<>> /\ mPriority[Head(mJobs)] < p
      THEN q = <<j>> \o mJobs
      ELSE q = Append(mJobs, j)

(* The queue q after start has put j, with priority p, in its place. *)
Placed(q, j, p) ==
    IF mJobs = <<>> \/ mPriority[Last(mJobs)] >= p
      THEN q = Append(mJobs, j)
      ELSE IF mPriority[Head(mJobs)] < p
             THEN q = <<j>> \o mJobs
             ELSE IsSortOf(q, Append(mJobs, j), mPriority')

Placings(j) == LET n == Len(mJobs) + 1 IN [1 .. n -> Range(mJobs) \cup {j}]

Started(j, p) ==
    /\ Open
    /\ ~InFlight(j)
    /\ starts[j] < MaxStarts
    /\ starts' = [starts EXCEPT ![j] = @ + 1]
    /\ mPriority' = [mPriority EXCEPT ![j] = p]

Start(j, p) ==
    /\ Started(j, p)
    /\ \E q \in Placings(j) : Placed(q, j, p) /\ mJobs' = q
    /\ NotifyOne
    /\ UNCHANGED <<mState, apart, mBusyThreads, job, mStopped, sizeVars, waitVars>>

(* start with priority Guaranteed: a thread for this job alone.  It holds  *)
(* the job's mMutex while the job runs, and leaves its state alone.        *)
StartGuaranteed(j) ==
    /\ Started(j, Guaranteed)
    /\ apart' = [apart EXCEPT ![j] = "created"]
    /\ UNCHANGED <<mJobs, mState, workVars, sizeVars, waitVars>>

RunGuaranteed(j) ==
    /\ \/ apart[j] = "created" /\ apart' = [apart EXCEPT ![j] = "running"]
       \/ apart[j] = "running" /\ apart' = [apart EXCEPT ![j] = "no"]
    /\ UNCHANGED <<mJobs, mState, mPriority, starts, workVars, sizeVars, waitVars>>

RemoveJob(j) ==
    /\ Open
    /\ \E i \in 1 .. Len(mJobs) :
          /\ mJobs[i] = j
          /\ mJobs' = RemoveAt(mJobs, i)
    /\ UNCHANGED <<mState, jobVars, workVars, sizeVars, waitVars>>

ClearBackLog ==
    /\ Open
    /\ mJobs # <<>>
    /\ mJobs' = <<>>
    /\ UNCHANGED <<mState, jobVars, workVars, sizeVars, waitVars>>

(* waitForState, and each of its looks at mState: under the job's mMutex. *)
Look(u, j, state) ==
    /\ apart[j] # "running"
    /\ waiter' = [waiter EXCEPT ![u] =
          IF mState[j] = state THEN NotWaiting
                               ELSE Wait("asleep", j, state)]

WaitForState(u) ==
    /\ waiter[u].at = "idle"
    /\ waits < MaxWaits
    /\ waits' = waits + 1
    /\ \E j \in Jobs, state \in {"Running", "Finished"} : Look(u, j, state)
    /\ UNCHANGED <<mJobs, mState, jobVars, workVars, sizeVars>>

LookAgain(u) ==
    /\ waiter[u].at = "awake"
    /\ Look(u, waiter[u].job, waiter[u].state)
    /\ UNCHANGED <<mJobs, mState, jobVars, workVars, sizeVars, waits>>
-----------------------------------------------------------------------------
(* setConcurrentJobs and the destructor. *)

(* The comparison that chooses a branch reads mConcurrentJobs unlocked. *)
SetConcurrentJobs(c) ==
    /\ control[c] = Idle
    /\ \A d \in Controllers : control[d].at = "idle" \/ control[d].goal # -1
    /\ resizes < MaxResizes
    /\ resizes' = resizes + 1
    /\ \E n \in 0 .. Cardinality(Workers) :
          /\ n # mConcurrentJobs
          /\ control' = [control EXCEPT ![c] =
                Op(IF n > mConcurrentJobs THEN "grow" ELSE "shrink", -1, n, NoWorker)]
    /\ UNCHANGED <<mJobs, mState, jobVars, workVars, mConcurrentJobs, mThreads, waitVars>>

Grow(c) ==
    /\ control[c].at = "grow"
    /\ \E s \in [1 .. control[c].goal - mConcurrentJobs -> {w \in Workers : pc[w] = "none"}] :
          /\ IsInjective(s)
          /\ mThreads' = mThreads \o s
          /\ pc' = [w \in Workers |-> IF w \in Range(s) THEN "start" ELSE pc[w]]
          /\ mStopped' = [w \in Workers |-> mStopped[w] /\ w \notin Range(s)]
    /\ mConcurrentJobs' = control[c].goal
    /\ control' = [control EXCEPT ![c] = Idle]
    /\ UNCHANGED <<mJobs, mState, jobVars, mBusyThreads, job, resizes, waitVars>>

(* The member in place of the loop variable. *)
BadLeft(c) == mConcurrentJobs

(* The locked part of the loop that shrinks the pool, from where it has    *)
(* mMutex back to where it gives it up for the next worker, or returns.    *)
Left(c) == IF control[c].count = -1 THEN mConcurrentJobs ELSE control[c].count

Shrink(c) ==
    /\ control[c].at = "shrink"
    /\ IF Left(c) > control[c].goal
         THEN /\ mThreads # <<>>
              /\ mThreads' = Front(mThreads)
              /\ control' = [control EXCEPT ![c] =
                    Op("stop", Left(c), control[c].goal, Last(mThreads))]
              /\ UNCHANGED mConcurrentJobs
         ELSE /\ mConcurrentJobs' = control[c].goal
              /\ control' = [control EXCEPT ![c] = Idle]
              /\ UNCHANGED mThreads
    /\ UNCHANGED <<mJobs, mState, jobVars, workVars, resizes, waitVars>>

(* ThreadPoolThread::stop *)
StopVictim(c) ==
    /\ control[c].at = "stop"
    /\ mStopped' = [mStopped EXCEPT ![control[c].victim] = TRUE]
    /\ NotifyAll
    /\ control' = [control EXCEPT ![c] = Op("join", @.count, @.goal, @.victim)]
    /\ UNCHANGED <<mJobs, mState, jobVars, mBusyThreads, job, mConcurrentJobs, mThreads,
                   resizes, waitVars>>

(* join returns when the thread has ended, and the object is deleted. *)
Join(c) ==
    /\ control[c].at = "join"
    /\ pc[control[c].victim] = "exit"
    /\ pc' = [pc EXCEPT ![control[c].victim] = "none"]
    /\ control' = [control EXCEPT ![c] =
          Op(IF @.goal = -1 THEN "destroy" ELSE "shrink", @.count - 1, @.goal, NoWorker)]
    /\ UNCHANGED <<mJobs, mState, jobVars, mBusyThreads, job, mStopped, mConcurrentJobs,
                   mThreads, resizes, waitVars>>

(* The destructor drops the queue, and then goes through mThreads. *)
Destroy(c) ==
    /\ \A d \in Controllers : control[d] = Idle
    /\ mJobs' = <<>>
    /\ control' = [control EXCEPT ![c] = Op("destroy", Len(mThreads), -1, NoWorker)]
    /\ UNCHANGED <<mState, jobVars, workVars, mConcurrentJobs, mThreads, resizes, waitVars>>

DestroyNext(c) ==
    /\ control[c].at = "destroy"
    /\ control' = [control EXCEPT ![c] =
          IF @.count = 0
            THEN Op("gone", 0, -1, NoWorker)
            ELSE Op("stop", @.count, -1, mThreads[Len(mThreads) - @.count + 1])]
    /\ UNCHANGED <<mJobs, mState, jobVars, workVars, mConcurrentJobs, mThreads, resizes, waitVars>>
-----------------------------------------------------------------------------
WorkerStep(w)  == Stop(w) \/ Sleep(w) \/ Take(w) \/ Finish(w)
ControlStep(c) == Grow(c) \/ Shrink(c) \/ StopVictim(c) \/ Join(c) \/ DestroyNext(c)

Next ==
    \/ \E w \in Workers : WorkerStep(w)
    \/ \E j \in Jobs, p \in Priorities : Start(j, p)
    \/ \E j \in Jobs : StartGuaranteed(j) \/ RunGuaranteed(j) \/ RemoveJob(j)
    \/ ClearBackLog
    \/ \E u \in Users : WaitForState(u) \/ LookAgain(u)
    \/ \E c \in Controllers : SetConcurrentJobs(c) \/ Destroy(c) \/ ControlStep(c)
    \/ Spurious \/ SpuriousUser

Spec == Init /\ [][Next]_vars

(* Threads get the locks they wait for and jobs end; nobody has to call.   *)
Fairness ==
    /\ \A w \in Workers : WF_vars(WorkerStep(w))
    /\ \A c \in Controllers : WF_vars(ControlStep(c))
    /\ \A u \in Users : WF_vars(LookAgain(u))
    /\ \A j \in Jobs : WF_vars(RunGuaranteed(j))

FairSpec == Spec /\ Fairness
-----------------------------------------------------------------------------
Controls == [at : Steps, count : Int, goal : Nat \cup {-1}, victim : Workers \cup {NoWorker}]
Waiters  == [at : {"idle", "asleep", "awake"}, job : Jobs \cup {NoJob},
             state : {"Running", "Finished"}]

TypeOK ==
    /\ mJobs \in Seq(Jobs)
    /\ mPriority \in [Jobs -> Int] /\ mState \in [Jobs -> States]
    /\ starts \in [Jobs -> Nat] /\ apart \in [Jobs -> {"no", "created", "running"}]
    /\ mBusyThreads \in Nat /\ mConcurrentJobs \in Nat
    /\ mThreads \in Seq(Workers)
    /\ pc \in [Workers -> PCs] /\ job \in [Workers -> Jobs \cup {NoJob}]
    /\ mStopped \in [Workers -> BOOLEAN]
    /\ control \in [Controllers -> Controls] /\ resizes \in Nat
    /\ waiter \in [Users -> Waiters] /\ waits \in Nat

(* What TypeOK rests on: setConcurrentJobs has its argument, and nobody    *)
(* else changes mThreads while the destructor goes through it.             *)
Destroying(c) == control[c].at # "idle" /\ control[c].goal = -1

GoalOK(c) ==
    /\ control[c].at \in {"grow", "shrink"} => control[c].goal \in Nat
    /\ control[c].at \in {"destroy", "gone"} => control[c].goal = -1

ControlOK ==
    \A c \in Controllers :
        /\ GoalOK(c)
        /\ Destroying(c) =>
              /\ control[c].count \in 0 .. Len(mThreads)
              /\ control[c].at \in {"stop", "join"} => control[c].count > 0
              /\ \A d \in Controllers : d # c => control[d].at = "idle"

Busy == {w \in Workers : pc[w] \in {"run", "done"}}

(* busyThreads() is the number of threads that run a job or have just run  *)
(* one, through stops, resizes and destruction.                            *)
BusyIsRunning == mBusyThreads = Cardinality(Busy)

(* Workers on their way to the queue that will take a job if there is one. *)
Lookers == {w \in Workers : Looking(w) /\ ~mStopped[w]}

(* While a worker sleeps there is one on its way for every job that waits: *)
(* the notify_one of a start is not lost to a worker that is being stopped *)
(* or that finds its job taken.                                            *)
NoStrandedJob == Asleep # {} => Len(mJobs) <= Cardinality(Lookers)

(* stop leaves nobody asleep, so that no later notify_one goes to a worker *)
(* that is to end.                                                         *)
StoppedAreAwake == \A w \in Workers : mStopped[w] => pc[w] # "asleep"

(* Jobs with priorities that are not negative are run highest first. *)
QueueOrdered ==
    (\A p \in Priorities : p >= 0) =>
        \A i, k \in 1 .. Len(mJobs) : i < k => mPriority[mJobs[i]] >= mPriority[mJobs[k]]

IInv == TypeOK /\ ControlOK /\ BusyIsRunning /\ NoStrandedJob /\ StoppedAreAwake

(* With one controller, the pool's threads are the ones it knows of and    *)
(* the one that is being stopped, and outside of setConcurrentJobs it has  *)
(* mConcurrentJobs of them, none stopped; back() is never taken of an      *)
(* empty list; and no thread is left when the destructor has returned.     *)
PoolSize ==
    \A c \in Controllers : Controllers = {c} =>
        LET op == control[c]
        IN  /\ IsInjective(mThreads)
            /\ op.at = "idle" \/ op.goal # -1 =>
                  \A w \in Workers : pc[w] # "none" <=> w \in Range(mThreads) \cup {op.victim}
            /\ op.at \in {"idle", "grow"} =>
                  /\ Len(mThreads) = mConcurrentJobs
                  /\ \A w \in Range(mThreads) : ~mStopped[w] /\ pc[w] # "exit"
            /\ op.at = "shrink" => Len(mThreads) = Left(c)
            /\ op.at = "gone" => \A w \in Workers : pc[w] = "none"

(* Nobody sleeps in waitForState for a state that the job is in. *)
NoMissedState ==
    \A u \in Users : waiter[u].at = "asleep" => mState[waiter[u].job] # waiter[u].state

(* A job in the queue leaves it, unless the pool is without threads; what  *)
(* is started while the destructor is at work may be left there.           *)
JobsLeaveQueue ==
    \A j \in Jobs : j \in Range(mJobs) ~> j \notin Range(mJobs) \/ mThreads = <<>> \/ Gone

(* setConcurrentJobs and the destructor return. *)
ControlReturns ==
    \A c \in Controllers : control[c].at # "idle" ~> control[c].at \in {"idle", "gone"}

(* Who waits for a running job to finish is told. *)
FinishIsSeen ==
    \A u \in Users :
        /\ waiter[u].at # "idle"
        /\ waiter[u].state = "Finished"
        /\ mState[waiter[u].job] = "Running"
        ~> waiter[u].at = "idle"
=============================================================================
