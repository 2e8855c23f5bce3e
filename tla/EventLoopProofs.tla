--------------------------- MODULE EventLoopProofs ---------------------------
(***************************************************************************)
(* Proofs about EventLoop, for any threads, descriptors, bounds, pipe and  *)
(* width of the timer ids.                                                 *)
(*                                                                         *)
(* Timers: the two containers change together (InsertAgrees, RemoveAgrees  *)
(* and the lemmas on the three operations that use them).  Wake-ups: the   *)
(* loop's last look at the queue, at mStop and at the timers happens in    *)
(* three different steps, so IInv says of each what is watched from there  *)
(* on; a call from elsewhere leaves a byte behind (CallWakes) and only the *)
(* loop takes bytes away (WakeupStays).  Timeouts: ids are given in order  *)
(* (IdsGrow), so that the id of a quit timer that has fired is not another *)
(* timer's (EarnedInv).  Readiness: what is owed is of a registered        *)
(* descriptor, and is an edge, an event of the batch or the event that is  *)
(* about to be fired (ReadyInv).                                           *)
(***************************************************************************)
EXTENDS EventLoop, SequenceLemmas

USE DEF waitVars

(* A new timer, put where the multiset puts it, keeps the containers in    *)
(* agreement.                                                              *)
LEMMA InsertAgrees ==
    ASSUME NEW s \in Seq(Ids), NEW f, TimerMap(f), Agree(s, f),
           NEW id \in Ids, id \notin DOMAIN f, NEW timer \in Timers,
           NEW k, UpperBound(s, f, timer.when, k)
    PROVE  /\ Agree(InsertAt(s, k, id), With(f, id, timer))
           /\ InsertAt(s, k, id) \in Seq(Ids)
           /\ TimerMap(With(f, id, timer))
<1> DEFINE t == InsertAt(s, k, id)
           g == With(f, id, timer)
<1>1. k \in 1 .. Len(s) + 1
  BY DEF UpperBound
<1>2. t \in Seq(Ids) /\ Len(t) = Len(s) + 1
      /\ \A j \in 1 .. Len(s) + 1 : t[j] =
            IF j < k THEN s[j] ELSE IF j = k THEN id ELSE s[j - 1]
  BY <1>1, InsertAtIs
<1>3. /\ DOMAIN g = DOMAIN f \cup {id}
      /\ g[id] = timer
      /\ \A x \in DOMAIN f : g[x] = f[x] /\ x # id
      /\ g = [x \in DOMAIN g |-> g[x]]
  BY DEF With
<1> HIDE DEF t, g
<1>4. TimerMap(g)
  BY <1>3 DEF TimerMap
<1>5. \A x \in DOMAIN g : \E i \in 1 .. Len(t) : t[i] = x
  <2> SUFFICES ASSUME NEW x \in DOMAIN g PROVE \E i \in 1 .. Len(t) : t[i] = x
    OBVIOUS
  <2>1. CASE x = id
    BY <1>1, <1>2, <2>1
  <2>2. CASE x # id
    <3>1. PICK i \in 1 .. Len(s) : s[i] = x
      BY <1>3, <2>2 DEF Agree
    <3>2. CASE i < k
      <4>1. i \in 1 .. Len(t) /\ t[i] = x
        BY <1>1, <1>2, <3>1, <3>2
      <4> QED
        BY <4>1
    <3>3. CASE ~(i < k)
      <4>1. i + 1 \in 1 .. Len(t) /\ t[i + 1] = s[(i + 1) - 1]
        BY <1>1, <1>2, <3>3
      <4>2. (i + 1) - 1 = i
        OBVIOUS
      <4> QED
        BY <4>1, <4>2, <3>1
    <3> QED
      BY <3>2, <3>3
  <2> QED
    BY <2>1, <2>2
<1>6. \A i \in 1 .. Len(t) : t[i] \in DOMAIN g
  <2> SUFFICES ASSUME NEW i \in 1 .. Len(t) PROVE t[i] \in DOMAIN g
    OBVIOUS
  <2>1. i > k => i - 1 \in 1 .. Len(s)
    BY <1>1, <1>2
  <2>2. i < k => i \in 1 .. Len(s)
    BY <1>1, <1>2
  <2>3. t[i] = IF i < k THEN s[i] ELSE IF i = k THEN id ELSE s[i - 1]
    BY <1>2
  <2>4. i < k \/ i = k \/ i > k
    BY <1>1, <1>2
  <2> QED
    BY <1>3, <2>1, <2>2, <2>3, <2>4 DEF Agree
<1>7. ASSUME NEW i \in 1 .. Len(t), NEW j \in 1 .. Len(t), i < j
      PROVE  t[i] # t[j] /\ g[t[i]].when <= g[t[j]].when
  <2> DEFINE Src(x) == IF x < k THEN x ELSE x - 1
  <2>1. \A x \in 1 .. Len(t) : x # k =>
           Src(x) \in 1 .. Len(s) /\ t[x] = s[Src(x)] /\ t[x] \in DOMAIN f
    <3> SUFFICES ASSUME NEW x \in 1 .. Len(t), x # k
                 PROVE  Src(x) \in 1 .. Len(s) /\ t[x] = s[Src(x)] /\ t[x] \in DOMAIN f
      OBVIOUS
    <3>1. Src(x) \in 1 .. Len(s)
      BY <1>1, <1>2
    <3>2. t[x] = s[Src(x)]
      BY <1>1, <1>2
    <3> HIDE DEF Src
    <3> QED
      BY <3>1, <3>2 DEF Agree
  <2>2. t[k] = id
    <3>1. k \in 1 .. Len(t) /\ ~(k < k)
      BY <1>1, <1>2
    <3> QED
      BY <1>2, <3>1
  <2>3. CASE i # k /\ j # k
    <3>1. Src(i) < Src(j)
      BY <1>1, <1>7, <2>3
    <3>2. /\ Src(i) \in 1 .. Len(s) /\ t[i] = s[Src(i)] /\ t[i] \in DOMAIN f
          /\ Src(j) \in 1 .. Len(s) /\ t[j] = s[Src(j)] /\ t[j] \in DOMAIN f
      BY <2>1, <2>3
    <3> HIDE DEF Src
    <3>3. t[i] # t[j] /\ f[t[i]].when <= f[t[j]].when
      BY <3>1, <3>2 DEF Agree
    <3> QED
      BY <1>3, <3>2, <3>3
  <2>4. CASE i = k
    <3>1. Src(j) \in 1 .. Len(s) /\ t[j] = s[Src(j)] /\ t[j] \in DOMAIN f /\ ~(Src(j) < k)
      BY <1>1, <1>7, <2>1, <2>4
    <3> HIDE DEF Src
    <3>2. ~(f[t[j]].when <= timer.when)
      BY <3>1 DEF UpperBound
    <3>3. f[t[j]].when \in Nat /\ timer.when \in Nat
      BY <3>1 DEF TimerMap, Timers
    <3> QED
      BY <1>3, <2>2, <2>4, <3>1, <3>2, <3>3
  <2>5. CASE j = k
    <3>1. Src(i) \in 1 .. Len(s) /\ t[i] = s[Src(i)] /\ t[i] \in DOMAIN f /\ Src(i) < k
      BY <1>1, <1>7, <2>1, <2>5
    <3> HIDE DEF Src
    <3>2. f[t[i]].when <= timer.when
      BY <3>1 DEF UpperBound
    <3> QED
      BY <1>3, <2>2, <2>5, <3>1, <3>2
  <2> QED
    BY <2>3, <2>4, <2>5
<1> QED
  BY <1>2, <1>4, <1>5, <1>6, <1>7 DEF Agree, t, g

(* So does taking one out of both. *)
LEMMA RemoveAgrees ==
    ASSUME NEW s \in Seq(Ids), NEW f, TimerMap(f), Agree(s, f),
           NEW k \in 1 .. Len(s)
    PROVE  /\ Agree(RemoveAt(s, k), Without(f, s[k]))
           /\ RemoveAt(s, k) \in Seq(Ids)
           /\ TimerMap(Without(f, s[k]))
<1> DEFINE t == RemoveAt(s, k)
           g == Without(f, s[k])
           Src(x) == IF x < k THEN x ELSE x + 1
<1>1. t \in Seq(Ids) /\ Len(t) = Len(s) - 1
      /\ \A j \in 1 .. Len(s) - 1 : t[j] = IF j < k THEN s[j] ELSE s[j + 1]
  BY RemoveAtIs
<1>2. /\ DOMAIN g = DOMAIN f \ {s[k]}
      /\ \A x \in DOMAIN g : g[x] = f[x]
      /\ g = [x \in DOMAIN g |-> g[x]]
  BY DEF Without
<1> HIDE DEF t, g
<1>3. TimerMap(g)
  BY <1>2 DEF TimerMap
<1>4. \A x \in 1 .. Len(t) : Src(x) \in 1 .. Len(s) /\ t[x] = s[Src(x)] /\ Src(x) # k
  BY <1>1
<1>5. \A i, j \in 1 .. Len(t) : i < j => Src(i) < Src(j)
  BY <1>1
<1>6. \A y \in 1 .. Len(s) : y # k => \E x \in 1 .. Len(t) : Src(x) = y
  <2> SUFFICES ASSUME NEW y \in 1 .. Len(s), y # k
               PROVE  \E x \in 1 .. Len(t) : Src(x) = y
    OBVIOUS
  <2>1. CASE y < k
    <3>1. y \in 1 .. Len(t) /\ Src(y) = y
      BY <1>1, <2>1
    <3> QED BY <3>1
  <2>2. CASE ~(y < k)
    <3>1. y - 1 \in 1 .. Len(t) /\ Src(y - 1) = y
      BY <1>1, <2>2
    <3> QED BY <3>1
  <2> QED
    BY <2>1, <2>2
<1> HIDE DEF Src
<1>7. \A i \in 1 .. Len(s) : i # k => s[i] # s[k]
  <2> SUFFICES ASSUME NEW i \in 1 .. Len(s), i # k PROVE s[i] # s[k]
    OBVIOUS
  <2>1. i < k \/ k < i
    OBVIOUS
  <2> QED
    BY <2>1 DEF Agree
<1>8. \A x \in DOMAIN g : \E i \in 1 .. Len(t) : t[i] = x
  <2> SUFFICES ASSUME NEW x \in DOMAIN g PROVE \E i \in 1 .. Len(t) : t[i] = x
    OBVIOUS
  <2>1. PICK y \in 1 .. Len(s) : s[y] = x
    BY <1>2 DEF Agree
  <2>2. y # k
    BY <1>2, <2>1
  <2>3. PICK z \in 1 .. Len(t) : Src(z) = y
    BY <1>6, <2>2
  <2> QED
    BY <1>4, <2>1, <2>3
<1>9. \A i \in 1 .. Len(t) : t[i] \in DOMAIN g
  BY <1>2, <1>4, <1>7 DEF Agree
<1>10. ASSUME NEW i \in 1 .. Len(t), NEW j \in 1 .. Len(t), i < j
       PROVE  t[i] # t[j] /\ g[t[i]].when <= g[t[j]].when
  <2>1. Src(i) \in 1 .. Len(s) /\ Src(j) \in 1 .. Len(s) /\ Src(i) < Src(j)
    BY <1>4, <1>5, <1>10
  <2>2. t[i] # t[j] /\ f[t[i]].when <= f[t[j]].when
    <3>1. t[i] = s[Src(i)] /\ t[j] = s[Src(j)]
      BY <1>4
    <3>2. s[Src(i)] # s[Src(j)] /\ f[s[Src(i)]].when <= f[s[Src(j)]].when
      BY <2>1 DEF Agree
    <3> QED
      BY <3>1, <3>2
  <2>3. g[t[i]] = f[t[i]] /\ g[t[j]] = f[t[j]]
    BY <1>2, <1>9
  <2> QED
    BY <2>2, <2>3
<1> QED
  BY <1>1, <1>3, <1>8, <1>9, <1>10 DEF Agree, t, g
-----------------------------------------------------------------------------
(* The timers' part of the invariant. *)
TimersOK == TypeTimers /\ TimersAgree

(* registerTimer keeps the containers in agreement. *)
LEMMA AddTimerKeeps ==
    ASSUME TypeTimers, TimersAgree, NEW id \in Ids, NEW timer \in Timers, AddTimer(id, timer)
    PROVE  /\ TimerMap(mTimersById') /\ mTimersByTime' \in Seq(Ids)
           /\ mNextTimerId' \in Ids /\ TimersAgree'
<1>1. id \notin DOMAIN mTimersById
  BY DEF AddTimer, NextId
<1>2. PICK k \in 1 .. Len(mTimersByTime) + 1 :
         /\ UpperBound(mTimersByTime, mTimersById, timer.when, k)
         /\ mTimersByTime' = InsertAt(mTimersByTime, k, id)
  BY DEF AddTimer
<1>3. mTimersById' = With(mTimersById, id, timer) /\ mNextTimerId' = id
  BY DEF AddTimer
<1> QED
  BY <1>1, <1>2, <1>3, InsertAgrees DEF TypeTimers, TimersAgree

(* clearTimer finds the timer in both containers, or in neither. *)
LEMMA ClearTimerKeeps ==
    ASSUME TypeTimers, TimersAgree, NEW id, ClearTimer(id)
    PROVE  TimerMap(mTimersById') /\ mTimersByTime' \in Seq(Ids) /\ TimersAgree'
<1>1. CASE id \in DOMAIN mTimersById
  <2>1. PICK k \in 1 .. Len(mTimersByTime) :
           mTimersByTime[k] = id /\ mTimersByTime' = RemoveAt(mTimersByTime, k)
    BY <1>1 DEF ClearTimer
  <2>2. mTimersById' = Without(mTimersById, mTimersByTime[k])
    BY <1>1, <2>1 DEF ClearTimer
  <2> QED
    BY <2>1, <2>2, RemoveAgrees DEF TypeTimers, TimersAgree
<1>2. CASE id \notin DOMAIN mTimersById
  BY <1>2 DEF ClearTimer, TypeTimers, TimersAgree
<1> QED
  BY <1>1, <1>2

(* A periodic timer is taken out and put back with its next time. *)
LEMMA SendTimerKeeps ==
    ASSUME TypeTimers, TimersAgree, SendTimer
    PROVE  TimersOK'
<1> USE DEF TypeTimers, TimersAgree
<1>1. PICK i \in 1 .. Len(mTimersByTime) :
        LET id    == mTimersByTime[i]
            timer == mTimersById[id]
            rest  == RemoveAt(mTimersByTime, i)
            again == timer.when + timer.interval
        IN  IF timer.single
              THEN /\ mTimersByTime' = rest
                   /\ mTimersById' = Without(mTimersById, id)
              ELSE /\ mTimersById' = [mTimersById EXCEPT ![id].when = again]
                   /\ \E k \in 1 .. Len(rest) + 1 :
                        /\ UpperBound(rest, mTimersById, again, k)
                        /\ mTimersByTime' = InsertAt(rest, k, id)
  BY DEF SendTimer
<1> DEFINE id    == mTimersByTime[i]
           timer == mTimersById[id]
           rest  == RemoveAt(mTimersByTime, i)
           base  == Without(mTimersById, id)
           next  == [timer EXCEPT !.when = timer.when + timer.interval]
<1>2. Agree(rest, base) /\ rest \in Seq(Ids) /\ TimerMap(base)
  BY RemoveAgrees
<1>3. id \in DOMAIN mTimersById /\ id \in Ids /\ timer \in Timers
  BY DEF Agree, TimerMap
<1>4. mNextTimerId' = mNextTimerId /\ made' = made
  BY DEF SendTimer
<1>5. CASE timer.single
  BY <1>1, <1>2, <1>4, <1>5 DEF TimersOK
<1>6. CASE ~timer.single
  <2>1. next \in Timers /\ next.when = timer.when + timer.interval
    BY <1>3 DEF Timers
  <2>2. PICK k \in 1 .. Len(rest) + 1 :
          /\ UpperBound(rest, mTimersById, timer.when + timer.interval, k)
          /\ mTimersByTime' = InsertAt(rest, k, id)
    BY <1>1, <1>6
  <2>3. mTimersById' = [mTimersById EXCEPT ![id] = next]
    BY <1>1, <1>6
  <2>4. DOMAIN base = DOMAIN mTimersById \ {id} /\ \A x \in DOMAIN base : base[x] = mTimersById[x]
    BY DEF Without
  <2>5. mTimersById' = With(base, id, next)
    <3> HIDE DEF next
    <3>1. mTimersById' = [x \in DOMAIN mTimersById |-> IF x = id THEN next ELSE mTimersById[x]]
      BY <2>3, <1>3 DEF TimerMap
    <3>2. With(base, id, next) = [x \in DOMAIN mTimersById |-> IF x = id THEN next ELSE mTimersById[x]]
      <4> HIDE DEF id, base
      <4> QED BY <2>4, <1>3 DEF With
    <3> QED
      BY <3>1, <3>2
  <2>6. \A j \in 1 .. Len(rest) : rest[j] \in DOMAIN base
    BY <1>2 DEF Agree
  <2> HIDE DEF id, timer, rest, base, next
  <2>7. UpperBound(rest, base, next.when, k)
    BY <2>1, <2>2, <2>4, <2>6 DEF UpperBound
  <2>8. id \notin DOMAIN base
    BY <2>4
  <2> QED
    BY <1>2, <1>3, <1>4, <2>1, <2>2, <2>5, <2>7, <2>8, InsertAgrees DEF TimersOK
<1> QED
  BY <1>5, <1>6

(* Every step keeps the containers in agreement. *)
LEMMA TimersStep ==
    ASSUME TypeOK, TimersAgree, [Next]_vars
    PROVE  TimersOK'
<1> USE DEF TypeOK
<1>1. CASE UNCHANGED timerVars
  BY <1>1 DEF timerVars, TypeTimers, TimersAgree, TimersOK
<1>2. CASE Exec
  <2>1. CASE UNCHANGED <<mTimersById, mTimersByTime, mNextTimerId>>
    BY <1>2, <2>1 DEF Exec, TypeTimers, TimersAgree, TimersOK
  <2>2. ASSUME NEW timeout \in ExecTimeouts, timeout # -1, NEW id \in Ids,
               AddTimer(id, [when |-> now + timeout, interval |-> timeout,
                             single |-> TRUE, cb |-> "quit"])
        PROVE  TimersOK'
    <3>1. timeout \in Nat
      BY <2>2, BoundsAssumption
    <3>2. [when |-> now + timeout, interval |-> timeout, single |-> TRUE, cb |-> "quit"] \in Timers
      BY <3>1 DEF Timers, TypeLoop
    <3> QED
      BY <1>2, <2>2, <3>2, AddTimerKeeps DEF Exec, TypeTimers, TimersOK
  <2> QED
    BY <1>2, <2>1, <2>2 DEF Exec
<1>3. ASSUME NEW t, RegisterTimer(t) PROVE TimersOK'
  <2>1. PICK id \in Ids, timeout \in Intervals, single \in BOOLEAN :
          AddTimer(id, [when |-> now + timeout, interval |-> timeout,
                        single |-> single, cb |-> "user"])
    BY <1>3 DEF RegisterTimer
  <2>2. timeout \in Nat
    BY BoundsAssumption
  <2>3. [when |-> now + timeout, interval |-> timeout, single |-> single, cb |-> "user"] \in Timers
    BY <2>2 DEF Timers, TypeLoop
  <2> QED
    BY <1>3, <2>1, <2>3, AddTimerKeeps DEF RegisterTimer, TypeTimers, TimersOK
<1>4. ASSUME NEW t, UnregisterTimer(t) PROVE TimersOK'
  BY <1>4, ClearTimerKeeps DEF UnregisterTimer, TypeTimers, TimersOK
<1>5. CASE SendTimer
  BY <1>5, SendTimerKeeps
<1>6. CASE Exit
  BY <1>6, ClearTimerKeeps DEF Exit, TypeTimers, TimersAgree, TimersOK
<1>7. ASSUME NEW t, Call(t) PROVE TimersOK'
  BY <1>1, <1>3, <1>4, <1>7
     DEF Call, Post, Quit, RegisterSocket, UpdateSocket, UnregisterSocket, timerVars
<1>8. CASE LoopStep
  BY <1>1, <1>5, <1>6, <1>8
     DEF LoopStep, SendPostedEvent, EndTimers, TimeoutQuit, CallbackReturns, Check, PollReturns,
         PollTimesOut, DrainPipe, TakeSocketEvent, EraseSocket, FireSocket, EndBatch, timerVars
<1>9. CASE UNCHANGED vars
  BY <1>1, <1>9 DEF vars
<1> QED
  BY <1>1, <1>2, <1>7, <1>8, <1>9
     DEF Next, PollInterrupted, PollFails, WriteWakeup, Signal, Tick, FdEvent, Consume, timerVars

(* Every step keeps the types of the queue and of mMutex ... *)
LEMMA QueueTypeStep ==
    ASSUME TypeOK, [Next]_vars
    PROVE  TypeQueue'
<1> USE DEF TypeOK, TypeQueue
<1>1. CASE UNCHANGED <<mMutex, queueVars>>
  BY <1>1 DEF queueVars
<1>2. CASE SendPostedEvent
  <2>1. CASE mEvents # <<>>
    BY <1>2, <2>1 DEF SendPostedEvent
  <2>2. CASE mEvents = <<>>
    BY <1>2, <2>2 DEF SendPostedEvent
  <2> QED
    BY <2>1, <2>2
<1>3. ASSUME NEW t \in Threads, WriteWakeup(t) PROVE TypeQueue'
  BY <1>3 DEF WriteWakeup, queueVars
<1>4. ASSUME NEW t \in Threads \cup {"loop"}, Wakeup(t), UNCHANGED queueVars PROVE TypeQueue'
  BY <1>4 DEF Wakeup, queueVars
<1>5. ASSUME NEW t \in Threads \cup {"loop"}, Post(t) PROVE TypeQueue'
  BY <1>5 DEF Post, Wakeup
<1>6. ASSUME NEW t \in Threads \cup {"loop"}, Call(t) PROVE TypeQueue'
  BY <1>1, <1>4, <1>5, <1>6
     DEF Call, Quit, RegisterTimer, UnregisterTimer, RegisterSocket, UpdateSocket, UnregisterSocket
<1>7. CASE LoopStep
  BY <1>1, <1>2, <1>7
     DEF LoopStep, SendTimer, EndTimers, TimeoutQuit, CallbackReturns, Check, PollReturns,
         PollTimesOut, DrainPipe, TakeSocketEvent, EraseSocket, FireSocket, EndBatch, Exit
<1> QED
  BY <1>1, <1>3, <1>6, <1>7 DEF Next, Exec, PollInterrupted, PollFails, Signal, Tick, FdEvent, Consume, vars

(* ... of the flags and of the pipe ... *)
LEMMA FlagsTypeStep ==
    ASSUME TypeOK, [Next]_vars
    PROVE  TypeFlags'
<1> USE DEF TypeOK, TypeFlags
<1>1. CASE UNCHANGED <<stopVars, pipeVars>>
  BY <1>1 DEF stopVars, pipeVars
<1>2. ASSUME NEW t, Quit(t) PROVE TypeFlags'
  BY <1>2, Zenon DEF Quit, pipeVars
<1>3. ASSUME NEW t, WriteWakeup(t) PROVE TypeFlags'
  <2>1. pipe' \in Seq({"w", "q"})
    BY <1>3 DEF WriteWakeup
  <2> QED
    BY <1>3, <2>1, Zenon DEF WriteWakeup, stopVars
<1>4. CASE Signal
  <2>1. pipe' \in Seq({"w", "q"})
    BY <1>4 DEF Signal
  <2> QED
    BY <1>4, <2>1, Zenon DEF Signal, stopVars
<1>5. CASE TimeoutQuit
  BY <1>5, Zenon DEF TimeoutQuit, pipeVars
<1>6. CASE Check
  BY <1>6, Zenon DEF Check, pipeVars, stopVars
<1>7. CASE PollReturns
  BY <1>7, Zenon DEF PollReturns, stopVars
<1>8. CASE DrainPipe
  <2>1. pipe' \in Seq({"w", "q"})
    <3>1. CASE pipe' = <<>>
      BY <3>1
    <3>2. ASSUME NEW i \in 1 .. Len(pipe), pipe' = SubSeq(pipe, i + 1, Len(pipe))
          PROVE  pipe' \in Seq({"w", "q"})
      BY <3>2
    <3> QED
      BY <1>8, <3>1, <3>2 DEF DrainPipe
  <2> QED
    BY <1>8, <2>1, Zenon DEF DrainPipe, stopVars
<1>9. ASSUME NEW t, Call(t) PROVE TypeFlags'
  BY <1>1, <1>2, <1>9
     DEF Call, Post, RegisterTimer, UnregisterTimer, RegisterSocket, UpdateSocket,
         UnregisterSocket, stopVars, pipeVars
<1>10. CASE LoopStep
  BY <1>1, <1>5, <1>6, <1>7, <1>8, <1>10
     DEF LoopStep, SendPostedEvent, SendTimer, EndTimers, CallbackReturns,
         PollTimesOut, TakeSocketEvent, EraseSocket, FireSocket, EndBatch, Exit, stopVars, pipeVars
<1> QED
  BY <1>1, <1>3, <1>4, <1>9, <1>10 DEF Next, Exec, PollInterrupted, PollFails, Tick, FdEvent, Consume, vars

(* ... of the descriptors, as epoll and as mSockets know them ... *)
LEMMA SocketsTypeStep ==
    ASSUME TypeOK, [Next]_vars
    PROVE  TypeSockets'
<1> USE DEF TypeOK, TypeSockets, Modes
<1>1. CASE UNCHANGED <<socketVars, batch, firing>>
  BY <1>1 DEF socketVars
<1>2. ASSUME NEW t, RegisterSocket(t) PROVE TypeSockets'
  BY <1>2, Zenon DEF RegisterSocket, localVars
<1>3. ASSUME NEW t, UpdateSocket(t) PROVE TypeSockets'
  BY <1>3 DEF UpdateSocket, localVars
<1>4. ASSUME NEW t, UnregisterSocket(t) PROVE TypeSockets'
  BY <1>4 DEF UnregisterSocket, Forget, localVars
<1>5. CASE PollReturns
  BY <1>5 DEF PollReturns, Ready, Happening
<1>6. CASE DrainPipe
  BY <1>6 DEF DrainPipe, socketVars
<1>7. CASE TakeSocketEvent
  BY <1>7 DEF TakeSocketEvent, Forget, Happening
<1>8. CASE EraseSocket
  BY <1>8 DEF EraseSocket, localVars
<1>14. CASE FireSocket
  <2>1. UNCHANGED <<mSockets, interest, cond, edge, batch>>
    BY <1>14 DEF FireSocket
  <2>2. owed' \in [Fds -> BOOLEAN]
    BY <1>14 DEF FireSocket
  <2>3. firing' \in Happening
    BY <1>14 DEF FireSocket, NoEvent, Happening
  <2> QED
    BY <2>1, <2>2, <2>3
<1>9. CASE FdEvent
  BY <1>9 DEF FdEvent, localVars
<1>10. CASE Consume
  BY <1>10 DEF Consume, localVars
<1>11. CASE CallbackReturns
  BY <1>11 DEF CallbackReturns, NoEvent, Happening, socketVars
<1>12. ASSUME NEW t, Call(t) PROVE TypeSockets'
  BY <1>1, <1>2, <1>3, <1>4, <1>12
     DEF Call, Post, Quit, RegisterTimer, UnregisterTimer, localVars
<1>13. CASE LoopStep
  BY <1>1, <1>5, <1>6, <1>7, <1>8, <1>11, <1>13, <1>14
     DEF LoopStep, SendPostedEvent, SendTimer, EndTimers, TimeoutQuit, Check,
         PollTimesOut, EndBatch, Exit, localVars
<1> QED
  BY <1>1, <1>9, <1>10, <1>12, <1>13
     DEF Next, Exec, PollInterrupted, PollFails, WriteWakeup, Signal, Tick, localVars, vars

(* ... and of the loop's own variables. *)
LEMMA LoopTypeStep ==
    ASSUME TypeOK, TimersAgree, [Next]_vars
    PROVE  TypeLoop'
<1> USE DEF TypeOK, TypeLoop, PCs, Goto
<1>1. CASE UNCHANGED <<now, pc, localVars>> /\ calls' \in [{"exec", "quit", "socket", "signal", "fd", "interrupt"} -> Nat]
  BY <1>1 DEF localVars
<1>2. ASSUME NEW c \in {"exec", "quit", "socket", "signal", "fd", "interrupt"}, NEW m, Count(c, m)
      PROVE  calls' \in [{"exec", "quit", "socket", "signal", "fd", "interrupt"} -> Nat]
  BY <1>2 DEF Count
<1>3. ASSUME NEW t, Call(t) PROVE TypeLoop'
  BY <1>1, <1>2, <1>3
     DEF Call, Post, Quit, RegisterTimer, UnregisterTimer, RegisterSocket, UpdateSocket,
         UnregisterSocket
<1>4. CASE Exec
  BY <1>2, <1>4 DEF Exec
<1>5. CASE SendTimer
  <2>0. RoundTime \in Nat /\ roundNow' = RoundTime
    BY <1>5 DEF SendTimer, RoundTime
  <2>1. fired' \subseteq Ids /\ roundNow' \in Nat
    <3>1. PICK i \in 1 .. Len(mTimersByTime) : fired' = fired \cup {mTimersByTime[i]}
      BY <1>5 DEF SendTimer
    <3>2. mTimersByTime[i] \in Ids
      BY DEF TypeTimers
    <3> QED
      BY <2>0, <3>1, <3>2
  <2>2. pc' \in {"quitTimer", "timer"}
    BY <1>5 DEF SendTimer
  <2>3. UNCHANGED <<now, waitVars, quitTimerId, ret, calls>>
    BY <1>5 DEF SendTimer
  <2> QED
    BY <2>1, <2>2, <2>3
<1>6. CASE Check
  <2>1. TimerWait \in Nat \cup {-1}
    <3>1. CASE mTimersByTime # <<>>
      <4>1. 1 \in 1 .. Len(mTimersByTime)
        BY <3>1 DEF TypeTimers
      <4>2. mTimersByTime[1] \in DOMAIN mTimersById
        BY <4>1 DEF TimersAgree, Agree
      <4> DEFINE when == mTimersById[mTimersByTime[1]].when
      <4>3. when \in Nat /\ now \in Nat
        BY <4>2 DEF TypeTimers, TimerMap, Timers
      <4>4. TimerWait = IF when > now THEN when - now ELSE 0
        BY <3>1 DEF TimerWait
      <4> HIDE DEF when
      <4> QED
        BY <4>3, <4>4
    <3>2. CASE mTimersByTime = <<>>
      BY <3>2 DEF TimerWait
    <3> QED
      BY <3>1, <3>2
  <2>2. CASE mStop
    BY <1>6, <2>2 DEF Check
  <2>3. CASE ~mStop
    <3>1. /\ PlanWait /\ pc' = "poll"
          /\ UNCHANGED <<now, fired, roundNow, quitTimerId, ret, calls>>
      BY <1>6, <2>3 DEF Check
    <3>2. inactive' \in BOOLEAN
      BY <3>1, Zenon DEF PlanWait
    <3>3. waitUntil' \in Nat \cup {-1} /\ deadline' \in Nat \cup {-1} /\ pollStart' \in Nat
      BY <2>1, <3>1, BoundsAssumption DEF PlanWait
    <3> QED
      BY <3>1, <3>2, <3>3
  <2> QED
    BY <2>2, <2>3
<1>7. CASE PollReturns \/ PollTimesOut \/ PollFails
  <2>1. EndWait /\ pc' \in PCs /\ ret' \in {"none", "Success", "Timeout", "GeneralError"}
        /\ UNCHANGED <<now, fired, roundNow, quitTimerId, calls>>
    BY <1>7 DEF PollReturns, PollTimesOut, PollFails
  <2> QED
    BY <2>1, Zenon DEF EndWait
<1>8. CASE SendPostedEvent \/ EndTimers \/ TimeoutQuit \/ CallbackReturns \/ DrainPipe
           \/ TakeSocketEvent \/ EraseSocket \/ FireSocket \/ EndBatch \/ Exit
  BY <1>8
     DEF SendPostedEvent, EndTimers, TimeoutQuit, CallbackReturns, DrainPipe, TakeSocketEvent,
         EraseSocket, FireSocket, EndBatch, Exit, localVars
<1>9. CASE Tick
  BY <1>9 DEF Tick, localVars
<1>10. ASSUME NEW t, WriteWakeup(t) PROVE TypeLoop'
  BY <1>10 DEF WriteWakeup, localVars
<1>11. CASE Signal \/ FdEvent
  BY <1>1, <1>2, <1>11 DEF Signal, FdEvent
<1>12. CASE Consume
  BY <1>12 DEF Consume, localVars
<1>13. CASE UNCHANGED vars
  BY <1>13 DEF vars, localVars
<1>14. CASE PollInterrupted
  BY <1>2, <1>14 DEF PollInterrupted
<1> QED
  BY <1>3, <1>4, <1>5, <1>6, <1>7, <1>8, <1>9, <1>10, <1>11, <1>12, <1>13, <1>14 DEF Next, LoopStep

(* A call by another thread leaves its wake-up coming; one by the loop's   *)
(* own thread is made where the loop has yet to look.                      *)
LEMMA CallWakes ==
    ASSUME TypeOK, NEW t \in Threads \cup {"loop"}, Wakeup(t), MayCall(t)
    PROVE  WakeupComing' \/ pc \in UserCode
BY BoundsAssumption DEF Wakeup, MayCall, WakeupComing

(* Nothing but the loop's own reading takes a coming wake-up away. *)
LEMMA WakeupStays ==
    ASSUME TypeOK, [Next]_vars, WakeupComing, pc # "poll", pc # "process"
    PROVE  WakeupComing'
<1> USE DEF WakeupComing
<1>1. CASE UNCHANGED <<mMutex, pipeVars>>
  BY <1>1 DEF pipeVars
<1>2. ASSUME NEW t, WriteWakeup(t) PROVE WakeupComing'
  BY <1>2 DEF WriteWakeup, TypeOK, TypeFlags
<1>3. CASE Signal
  BY <1>3 DEF Signal, TypeOK, TypeFlags
<1>4. ASSUME NEW t \in Threads \cup {"loop"}, Wakeup(t), UNCHANGED pipeVars, mMutex = "free"
      PROVE  WakeupComing'
  BY <1>4, BoundsAssumption DEF Wakeup, pipeVars
<1>5. ASSUME NEW t \in Threads \cup {"loop"}, Call(t) PROVE WakeupComing'
  BY <1>1, <1>4, <1>5
     DEF Call, MayCall, Post, Quit, RegisterTimer, UnregisterTimer, RegisterSocket, UpdateSocket,
         UnregisterSocket
<1>6. CASE LoopStep
  BY <1>1, <1>6
     DEF LoopStep, SendPostedEvent, SendTimer, EndTimers, TimeoutQuit, CallbackReturns, Check,
         PollReturns, PollTimesOut, DrainPipe, TakeSocketEvent, EraseSocket, FireSocket, EndBatch, Exit
<1> QED
  BY <1>1, <1>2, <1>3, <1>5, <1>6 DEF Next, Exec, PollInterrupted, PollFails, Tick, FdEvent, Consume, vars

(* From the empty look at the queue on, a post leaves a wake-up behind. *)
LEMMA QueueWatchedStep ==
    ASSUME IInv, [Next]_vars
    PROVE  QueueWatched'
<1> USE DEF IInv, QueueWatched, PastTheQueue, Goto
<1> SUFFICES ASSUME PastTheQueue' PROVE WakeupComing' \/ mEvents' = <<>>
  OBVIOUS
<1>1. CASE PastTheQueue /\ pc # "poll" /\ UNCHANGED mEvents
  BY <1>1, WakeupStays
<1>2. CASE pc = "poll" /\ UNCHANGED <<mEvents, mMutex, pipeVars>>
  BY <1>2 DEF WakeupComing, pipeVars
<1>3. ASSUME NEW t \in Threads \cup {"loop"}, Call(t) PROVE WakeupComing' \/ mEvents' = <<>>
  <2>1. CASE MayCall(t) /\ Wakeup(t) /\ pc' = pc
    BY <2>1, CallWakes DEF UserCode
  <2>2. CASE UNCHANGED <<mEvents, mMutex, pipeVars, pc, fired>>
    BY <2>2 DEF WakeupComing, pipeVars
  <2> QED
    BY <1>3, <2>1, <2>2
       DEF Call, Post, Quit, RegisterTimer, UnregisterTimer, RegisterSocket, UpdateSocket,
           UnregisterSocket, queueVars, localVars
<1>4. CASE SendPostedEvent
  BY <1>4 DEF SendPostedEvent, localVars
<1>5. CASE EndTimers
  BY <1>1, <1>5 DEF EndTimers, queueVars
<1>6. CASE Check
  BY <1>1, <1>6 DEF Check, queueVars
<1>7. ASSUME NEW t \in Threads, WriteWakeup(t) PROVE WakeupComing'
  BY <1>7 DEF WriteWakeup, WakeupComing, TypeOK, TypeFlags
<1>8. CASE Signal
  BY <1>8 DEF Signal, WakeupComing, TypeOK, TypeFlags
<1>9. CASE TimeoutQuit \/ CallbackReturns
  BY <1>9 DEF TimeoutQuit, CallbackReturns, RoundOpen, localVars
<1>10. CASE Tick \/ FdEvent \/ Consume \/ UNCHANGED vars
  BY <1>10 DEF Tick, FdEvent, Consume, vars, queueVars, localVars, WakeupComing, pipeVars
<1>11. CASE LoopStep \/ Exec \/ PollFails
  BY <1>4, <1>5, <1>6, <1>9, <1>11
     DEF LoopStep, SendTimer, PollReturns, PollTimesOut, PollFails,
         DrainPipe, TakeSocketEvent, EraseSocket, FireSocket, EndBatch, Exit, Exec
<1>12. CASE PollInterrupted
  BY <1>2, <1>12 DEF PollInterrupted, queueVars
<1> QED
  BY <1>3, <1>7, <1>8, <1>10, <1>11, <1>12 DEF Next

(* A round that has a callback under way has fired something. *)
LEMMA RoundOpenStep ==
    ASSUME IInv, [Next]_vars
    PROVE  RoundOpen'
<1> USE DEF IInv, RoundOpen, Goto
<1>1. CASE UNCHANGED <<pc, fired>>
  BY <1>1
<1>2. ASSUME NEW t, Call(t) PROVE RoundOpen'
  BY <1>1, <1>2
     DEF Call, Post, Quit, RegisterTimer, UnregisterTimer, RegisterSocket, UpdateSocket,
         UnregisterSocket, localVars
<1>3. CASE LoopStep \/ Exec \/ PollInterrupted \/ PollFails
  BY <1>1, <1>3
     DEF LoopStep, SendPostedEvent, SendTimer, EndTimers, TimeoutQuit, CallbackReturns, Check,
         PollReturns, PollTimesOut, PollInterrupted, PollFails, DrainPipe, TakeSocketEvent,
         EraseSocket, FireSocket, EndBatch, Exit, Exec
<1> QED
  BY <1>1, <1>2, <1>3 DEF Next, WriteWakeup, Signal, Tick, FdEvent, Consume, localVars, vars

(* From the locked check on, a quit leaves a wake-up behind ... *)
LEMMA StopWatchedStep ==
    ASSUME IInv, [Next]_vars
    PROVE  StopWatched'
<1> USE DEF IInv, StopWatched, Goto
<1> SUFFICES ASSUME pc' = "poll" PROVE WakeupComing' \/ ~mStop'
  OBVIOUS
<1>1. CASE UNCHANGED <<mStop, mMutex, pipeVars, pc>>
  BY <1>1 DEF WakeupComing, pipeVars
<1>2. ASSUME NEW t \in Threads \cup {"loop"}, Call(t) PROVE WakeupComing' \/ ~mStop'
  <2>1. CASE MayCall(t) /\ Wakeup(t) /\ pc' = pc
    BY <2>1, CallWakes DEF UserCode
  <2> QED
    BY <1>1, <1>2, <2>1
       DEF Call, Post, Quit, RegisterTimer, UnregisterTimer, RegisterSocket, UpdateSocket,
           UnregisterSocket, stopVars
<1>3. CASE Check
  BY <1>3 DEF Check, stopVars
<1>4. ASSUME NEW t \in Threads, WriteWakeup(t) PROVE WakeupComing'
  BY <1>4 DEF WriteWakeup, WakeupComing, TypeOK, TypeFlags
<1>5. CASE Signal
  BY <1>5 DEF Signal, WakeupComing, TypeOK, TypeFlags
<1>6. CASE Tick \/ FdEvent \/ Consume \/ UNCHANGED vars
  BY <1>1, <1>6 DEF Tick, FdEvent, Consume, vars, stopVars
<1>7. CASE LoopStep \/ Exec \/ PollFails
  BY <1>3, <1>7
     DEF LoopStep, SendPostedEvent, SendTimer, EndTimers, TimeoutQuit, CallbackReturns,
         PollReturns, PollTimesOut, PollFails, DrainPipe, TakeSocketEvent, EraseSocket, FireSocket,
         EndBatch, Exit, Exec
<1>8. CASE PollInterrupted
  BY <1>1, <1>8 DEF PollInterrupted, stopVars
<1> QED
  BY <1>2, <1>4, <1>5, <1>6, <1>7, <1>8 DEF Next

(* ... and so does a timer that is earlier than the end of the wait.  The  *)
(* check itself waits no longer than for the first timer, which by         *)
(* TimersAgree is the earliest.                                            *)
LEMMA TimerWatchedStep ==
    ASSUME IInv, [Next]_vars
    PROVE  TimerWatched'
<1> USE DEF IInv, TimerWatched, Goto
<1> SUFFICES ASSUME pc' = "poll"
             PROVE  WakeupComing' \/ \A id \in DOMAIN mTimersById' : ~Oversleeps(id)'
  OBVIOUS
<1>1. CASE UNCHANGED <<mMutex, pipeVars, pc, mTimersById, deadline, now>>
  BY <1>1 DEF WakeupComing, pipeVars, Oversleeps
<1>2. ASSUME NEW t \in Threads \cup {"loop"}, Call(t)
      PROVE  WakeupComing' \/ \A id \in DOMAIN mTimersById' : ~Oversleeps(id)'
  <2>1. CASE MayCall(t) /\ Wakeup(t) /\ pc' = pc
    BY <2>1, CallWakes DEF UserCode
  <2>2. CASE UnregisterTimer(t)
    <3>1. PICK x \in DOMAIN mTimersById : ClearTimer(x)
      BY <2>2 DEF UnregisterTimer
    <3>2. mTimersById' = Without(mTimersById, x)
      BY <3>1 DEF ClearTimer
    <3>3. \A id \in DOMAIN mTimersById' : id \in DOMAIN mTimersById /\ mTimersById'[id] = mTimersById[id]
      BY <3>2 DEF Without
    <3> QED
      BY <2>2, <3>3 DEF UnregisterTimer, WakeupComing, pipeVars, Oversleeps, localVars
  <2> QED
    BY <1>1, <1>2, <2>1, <2>2
       DEF Call, Post, Quit, RegisterTimer, RegisterSocket, UpdateSocket,
           UnregisterSocket, timerVars, localVars
<1>3. CASE Check
  <2>1. PlanWait /\ UNCHANGED <<timerVars, now>>
    BY <1>3 DEF Check
  <2>2. ASSUME NEW id \in DOMAIN mTimersById PROVE ~Oversleeps(id)'
    <3> DEFINE first == mTimersById[mTimersByTime[1]].when
    <3>1. PICK i \in 1 .. Len(mTimersByTime) : mTimersByTime[i] = id
      BY DEF TimersAgree, Agree
    <3>2. mTimersByTime # <<>> /\ 1 \in 1 .. Len(mTimersByTime)
      BY <3>1 DEF TypeOK, TypeTimers
    <3>3. mTimersByTime[1] \in DOMAIN mTimersById
      BY <3>2 DEF TimersAgree, Agree
    <3>4. first \in Nat /\ mTimersById[id].when \in Nat /\ now \in Nat
      BY <3>3 DEF TypeOK, TypeTimers, TimerMap, Timers, TypeLoop
    <3>5. first <= mTimersById[id].when
      <4>1. CASE i = 1
        BY <3>1, <3>4, <4>1
      <4>2. CASE 1 < i
        BY <3>1, <3>2, <4>2 DEF TimersAgree, Agree
      <4> QED
        BY <4>1, <4>2
    <3>6. TimerWait = IF first > now THEN first - now ELSE 0
      BY <3>2 DEF TimerWait
    <3> HIDE DEF first
    <3>7. deadline' = now + TimerWait
      BY <2>1, <3>4, <3>6 DEF PlanWait
    <3> QED
      BY <2>1, <3>4, <3>5, <3>6, <3>7 DEF Oversleeps, timerVars
  <2> QED
    BY <2>1, <2>2 DEF timerVars
<1>4. ASSUME NEW t \in Threads, WriteWakeup(t) PROVE WakeupComing'
  BY <1>4 DEF WriteWakeup, WakeupComing, TypeOK, TypeFlags
<1>5. CASE Signal
  BY <1>5 DEF Signal, WakeupComing, TypeOK, TypeFlags
<1>6. CASE Tick
  <2>1. now' = now + 1 /\ now \in Nat /\ deadline \in Int
        /\ UNCHANGED <<mMutex, pipeVars, pc, mTimersById, deadline>>
    BY <1>6 DEF Tick, TypeOK, TypeLoop, timerVars, localVars
  <2>2. \A id \in DOMAIN mTimersById : Oversleeps(id)' => Oversleeps(id)
    BY <2>1 DEF Oversleeps
  <2> QED
    BY <2>1, <2>2 DEF WakeupComing, pipeVars
<1>7. CASE FdEvent \/ Consume \/ UNCHANGED vars
  BY <1>1, <1>7 DEF FdEvent, Consume, vars, timerVars, localVars
<1>8. CASE LoopStep \/ Exec \/ PollFails
  BY <1>3, <1>8
     DEF LoopStep, SendPostedEvent, SendTimer, EndTimers, TimeoutQuit, CallbackReturns,
         PollReturns, PollTimesOut, PollFails, DrainPipe, TakeSocketEvent, EraseSocket, FireSocket,
         EndBatch, Exit, Exec
<1>9. CASE PollInterrupted
  BY <1>1, <1>9 DEF PollInterrupted, timerVars
<1> QED
  BY <1>2, <1>4, <1>5, <1>6, <1>7, <1>8, <1>9 DEF Next
-----------------------------------------------------------------------------
(* The invariant is established and kept. *)
THEOREM LoopInvariant == Spec => []IInv
<1>1. Init => IInv
  <2> SUFFICES ASSUME Init PROVE IInv
    OBVIOUS
  <2> USE DEF Init
  <2>0. mStop \in BOOLEAN /\ mTimeout \in BOOLEAN /\ pipeEdge \in BOOLEAN /\ inactive \in BOOLEAN
    BY Zenon
  <2>1. TypeQueue /\ TypeFlags
    BY <2>0 DEF TypeQueue, TypeFlags
  <2>2. TypeTimers /\ TimersAgree
    BY BoundsAssumption DEF TypeTimers, TimersAgree, Agree, TimerMap, Ids
  <2>3. TypeSockets
    BY DEF TypeSockets, Happening, NoEvent, Modes
  <2>4. TypeLoop
    BY <2>0 DEF TypeLoop, PCs
  <2>5. QueueWatched /\ StopWatched /\ TimerWatched /\ RoundOpen
    BY DEF QueueWatched, PastTheQueue, StopWatched, TimerWatched, RoundOpen
  <2> QED
    BY <2>1, <2>2, <2>3, <2>4, <2>5 DEF IInv, TypeOK
<1>2. IInv /\ [Next]_vars => IInv'
  <2> SUFFICES ASSUME IInv, [Next]_vars PROVE IInv'
    OBVIOUS
  <2>1. TypeOK /\ TimersAgree
    BY DEF IInv
  <2>2. TimersOK'
    BY <2>1, TimersStep
  <2>3. TypeQueue' /\ TypeFlags' /\ TypeSockets' /\ TypeLoop'
    BY <2>1, QueueTypeStep, FlagsTypeStep, SocketsTypeStep, LoopTypeStep
  <2>4. QueueWatched' /\ StopWatched' /\ TimerWatched' /\ RoundOpen'
    BY QueueWatchedStep, StopWatchedStep, TimerWatchedStep, RoundOpenStep
  <2> QED
    BY <2>2, <2>3, <2>4 DEF IInv, TypeOK, TimersOK
<1> QED
  BY <1>1, <1>2, PTL DEF Spec

(* Every variable keeps its type. *)
THEOREM TypeCorrect == Spec => []TypeOK
BY LoopInvariant, PTL DEF IInv

(* The loop never sleeps past a post, a quit or a timer that no wake-up is *)
(* coming for: any number of threads, posts and timers, any pipe.          *)
THEOREM WakeupNeverLost == Spec => []NoLostWakeup
<1>1. IInv => NoLostWakeup
  BY DEF IInv, QueueWatched, PastTheQueue, StopWatched, TimerWatched, NoLostWakeup
<1> QED
  BY <1>1, LoopInvariant, PTL

(* clearTimer's abort cannot be reached, and the first timer in order of   *)
(* time is the next one due.                                               *)
THEOREM TimersAlwaysAgree == Spec => []TimersAgree
BY LoopInvariant, PTL DEF IInv

(* The step of the queue: unchanged, a post at its end, or a run of its head. *)
LEMMA QueueStep ==
    ASSUME [Next]_vars
    PROVE  \/ UNCHANGED queueVars
           \/ posted' = posted + 1 /\ mEvents' = Append(mEvents, posted + 1) /\ ran' = ran
           \/ /\ mEvents # <<>> /\ mEvents' = Tail(mEvents)
              /\ ran' = Head(mEvents) /\ posted' = posted
<1> USE DEF queueVars
<1>1. ASSUME NEW t, Call(t)
      PROVE  \/ UNCHANGED queueVars
             \/ posted' = posted + 1 /\ mEvents' = Append(mEvents, posted + 1) /\ ran' = ran
  BY <1>1 DEF Call, Post, Quit, RegisterTimer, UnregisterTimer, RegisterSocket, UpdateSocket,
              UnregisterSocket
<1>2. CASE LoopStep
  BY <1>2 DEF LoopStep, SendPostedEvent, SendTimer, EndTimers, TimeoutQuit, CallbackReturns,
              Check, PollReturns, PollTimesOut, DrainPipe, TakeSocketEvent, EraseSocket, FireSocket,
              EndBatch, Exit
<1> QED
  BY <1>1, <1>2 DEF Next, Exec, PollInterrupted, PollFails, WriteWakeup, Signal, Tick, FdEvent, Consume, vars

(* The queue holds the numbers after the last one run, and goes on to. *)
LEMMA OrderKept ==
    ASSUME TypeQueue, InOrder, [Next]_vars
    PROVE  InOrder'
<1> USE DEF TypeQueue, InOrder
<1>1. CASE UNCHANGED queueVars
  BY <1>1 DEF queueVars
<1>2. CASE posted' = posted + 1 /\ mEvents' = Append(mEvents, posted + 1) /\ ran' = ran
  <2>1. Len(mEvents) \in Nat /\ posted \in Nat /\ ran \in Nat /\ mEvents \in Seq(Nat)
    OBVIOUS
  <2>2. /\ Len(mEvents') = Len(mEvents) + 1 /\ mEvents'[Len(mEvents) + 1] = posted + 1
        /\ \A i \in 1 .. Len(mEvents) : mEvents'[i] = mEvents[i]
    BY <1>2, <2>1, AppendProperties
  <2>3. posted = ran + Len(mEvents) /\ \A i \in 1 .. Len(mEvents) : mEvents[i] = ran + i
    OBVIOUS
  <2> HIDE DEF InOrder
  <2>4. ASSUME NEW i \in 1 .. Len(mEvents') PROVE mEvents'[i] = ran' + i
    <3>1. i \in 1 .. Len(mEvents) \/ i = Len(mEvents) + 1
      BY <2>1, <2>2
    <3>2. CASE i \in 1 .. Len(mEvents)
      BY <1>2, <2>2, <2>3, <3>2
    <3>3. CASE i = Len(mEvents) + 1
      <4>1. mEvents'[i] = posted + 1
        BY <2>2, <3>3
      <4> QED
        BY <1>2, <2>1, <2>3, <3>3, <4>1
    <3> QED
      BY <3>1, <3>2, <3>3
  <2>5. posted' = ran' + Len(mEvents')
    BY <1>2, <2>1, <2>2, <2>3
  <2> QED
    BY <2>4, <2>5 DEF InOrder
<1>3. CASE mEvents # <<>> /\ mEvents' = Tail(mEvents) /\ ran' = Head(mEvents) /\ posted' = posted
  <2>1. Len(mEvents) \in Nat /\ Len(mEvents) > 0 /\ Head(mEvents) = mEvents[1]
    BY <1>3
  <2>2. ran' = ran + 1
    BY <1>3, <2>1
  <2>3. Len(mEvents') = Len(mEvents) - 1
    BY <1>3
  <2>4. \A i \in 1 .. Len(mEvents') : mEvents'[i] = mEvents[i + 1] /\ i + 1 \in 1 .. Len(mEvents)
    BY <1>3, <2>1, <2>3
  <2>5. \A i \in 1 .. Len(mEvents') : mEvents'[i] = ran' + i
    BY <2>2, <2>4
  <2>6. posted' = ran' + Len(mEvents')
    BY <1>3, <2>1, <2>2, <2>3
  <2> QED
    BY <2>5, <2>6
<1> QED
  BY <1>1, <1>2, <1>3, QueueStep

(* Posted events run in the order of their posts, each once, however       *)
(* callers, callbacks and the loop interleave.                             *)
THEOREM PostsAreAMailbox == Spec => ImplementsMailbox
<1>1. Init => InOrder
  BY DEF Init, InOrder
<1>2. TypeQueue /\ InOrder /\ [Next]_vars => InOrder'
  BY OrderKept
<1>3. TypeOK => TypeQueue
  BY DEF TypeOK
<1>4. Init => Box!BoxInit
  BY DEF Init, Box!BoxInit
<1>5. TypeQueue /\ InOrder /\ [Next]_vars => [Box!Send \/ Box!HandOver]_(Box!boxVars)
  <2> SUFFICES ASSUME TypeQueue, InOrder, [Next]_vars
               PROVE  Box!Send \/ Box!HandOver \/ UNCHANGED queueVars
    BY DEF Box!boxVars, queueVars
  <2>1. CASE posted' = posted + 1 /\ mEvents' = Append(mEvents, posted + 1) /\ ran' = ran
    BY <2>1 DEF Box!Send
  <2>2. CASE mEvents # <<>> /\ mEvents' = Tail(mEvents) /\ ran' = Head(mEvents) /\ posted' = posted
    <3>1. Head(mEvents) = ran + 1
      BY <2>2 DEF TypeQueue, InOrder
    <3> QED
      BY <2>2, <3>1 DEF Box!HandOver
  <2> QED
    BY <2>1, <2>2, QueueStep
<1> QED
  BY <1>1, <1>2, <1>3, <1>4, <1>5, TypeCorrect, PTL DEF Spec, ImplementsMailbox, Box!BoxSpec

(* mTimeout never outlives the exec that timed out. *)
THEOREM TimeoutAlwaysFresh == Spec => []TimeoutIsFresh
<1> USE DEF TimeoutIsFresh
<1>1. Init => TimeoutIsFresh
  BY Zenon DEF Init
<1>2. TimeoutIsFresh /\ [Next]_vars => TimeoutIsFresh'
  <2> SUFFICES ASSUME TimeoutIsFresh, [Next]_vars PROVE TimeoutIsFresh'
    OBVIOUS
  <2>1. CASE UNCHANGED <<stopVars, pc>>
    BY <2>1 DEF stopVars
  <2>2. ASSUME NEW t, Call(t) PROVE TimeoutIsFresh'
    BY <2>1, <2>2
       DEF Call, Post, Quit, RegisterTimer, UnregisterTimer, RegisterSocket, UpdateSocket,
           UnregisterSocket
  <2>3. CASE Check
    BY <2>3 DEF Check, stopVars, Goto
  <2>4. CASE TimeoutQuit
    BY <2>4 DEF TimeoutQuit, Goto
  <2>5. CASE LoopStep \/ Exec \/ PollInterrupted \/ PollFails
    BY <2>1, <2>3, <2>4, <2>5
       DEF LoopStep, SendPostedEvent, SendTimer, EndTimers, CallbackReturns, PollReturns,
           PollTimesOut, PollInterrupted, PollFails, DrainPipe, TakeSocketEvent, EraseSocket,
           FireSocket, EndBatch, Exit,
           Exec, stopVars, Goto
  <2> QED
    BY <2>1, <2>2, <2>5 DEF Next, WriteWakeup, Signal, Tick, FdEvent, Consume, vars
<1> QED
  BY <1>1, <1>2, PTL DEF Spec

(* No quit timer outlives its exec. *)
THEOREM QuitTimerNeverStale == Spec => []NoStaleQuitTimer
<1> USE DEF NoStaleQuitTimer
<1>1. Init => NoStaleQuitTimer
  BY DEF Init
<1>2. IInv /\ NoStaleQuitTimer /\ [Next]_vars => NoStaleQuitTimer'
  <2> SUFFICES ASSUME IInv, NoStaleQuitTimer, [Next]_vars PROVE NoStaleQuitTimer'
    OBVIOUS
  <2> USE DEF Goto
  <2>1. CASE UNCHANGED <<mTimersById, quitTimerId>> /\ (pc' = "idle" => pc = "idle")
    BY <2>1
  <2>2. ASSUME NEW x, mTimersById' = Without(mTimersById, x), UNCHANGED quitTimerId,
               pc' = "idle" => pc = "idle"
        PROVE  NoStaleQuitTimer'
    BY <2>2 DEF Without
  <2>3. ASSUME NEW t, RegisterTimer(t) PROVE NoStaleQuitTimer'
    <3>1. PICK id \in Ids, timeout \in Intervals, single \in BOOLEAN :
            mTimersById' = With(mTimersById, id,
               [when |-> now + timeout, interval |-> timeout, single |-> single, cb |-> "user"])
      BY <2>3 DEF RegisterTimer, AddTimer
    <3> QED
      BY <2>3, <3>1 DEF RegisterTimer, With, localVars
  <2>4. ASSUME NEW t, Call(t) PROVE NoStaleQuitTimer'
    BY <2>1, <2>2, <2>3, <2>4
       DEF Call, Post, Quit, UnregisterTimer, ClearTimer, RegisterSocket, UpdateSocket,
           UnregisterSocket, timerVars, localVars
  <2>5. CASE Exec
    <3>1. \A id \in DOMAIN mTimersById : mTimersById[id].cb # "quit"
      BY <2>5 DEF Exec
    <3>2. CASE mTimersById' = mTimersById
      BY <3>1, <3>2
    <3>3. ASSUME NEW id \in Ids, NEW timer, mTimersById' = With(mTimersById, id, timer),
                 quitTimerId' = id
          PROVE  NoStaleQuitTimer'
      BY <2>5, <3>1, <3>3 DEF Exec, With
    <3> QED
      BY <2>5, <3>2, <3>3 DEF Exec, AddTimer
  <2>6. CASE SendTimer
    <3>1. PICK i \in 1 .. Len(mTimersByTime) :
            \/ mTimersById' = Without(mTimersById, mTimersByTime[i])
            \/ mTimersById' = [mTimersById EXCEPT ![mTimersByTime[i]].when =
                                 mTimersById[mTimersByTime[i]].when + mTimersById[mTimersByTime[i]].interval]
      BY <2>6 DEF SendTimer
    <3>2. pc' # "idle" /\ pc # "idle" /\ UNCHANGED quitTimerId
      BY <2>6 DEF SendTimer
    <3>3. mTimersByTime[i] \in DOMAIN mTimersById /\ mTimersById[mTimersByTime[i]] \in Timers
      BY DEF IInv, TimersAgree, Agree, TypeOK, TypeTimers, TimerMap
    <3>4. \A id \in DOMAIN mTimersById' : id \in DOMAIN mTimersById /\ mTimersById'[id].cb = mTimersById[id].cb
      BY <3>1, <3>3 DEF Without, Timers
    <3> QED
      BY <3>2, <3>4
  <2>7. CASE Exit
    <3>1. CASE quitTimerId = -1
      <4>1. \A id \in DOMAIN mTimersById : id # -1
        <5>1. DOMAIN mTimersById \subseteq Ids
          BY DEF IInv, TypeOK, TypeTimers, TimerMap
        <5> QED
          BY <5>1, BoundsAssumption DEF Ids
      <4> QED
        BY <2>7, <3>1, <4>1 DEF Exit
    <3>2. CASE quitTimerId # -1
      <4>1. \A id \in DOMAIN mTimersById' :
              id \in DOMAIN mTimersById /\ id # quitTimerId /\ mTimersById'[id] = mTimersById[id]
        BY <2>7, <3>2 DEF Exit, ClearTimer, Without
      <4> QED
        BY <4>1
    <3> QED
      BY <3>1, <3>2
  <2>8. CASE LoopStep \/ PollInterrupted \/ PollFails
    BY <2>1, <2>6, <2>7, <2>8
       DEF LoopStep, SendPostedEvent, EndTimers, TimeoutQuit, CallbackReturns, Check,
           PollReturns, PollTimesOut, PollInterrupted, PollFails, DrainPipe, TakeSocketEvent,
           EraseSocket, FireSocket,
           EndBatch, timerVars, localVars
  <2> QED
    BY <2>1, <2>4, <2>5, <2>8
       DEF Next, WriteWakeup, Signal, Tick, FdEvent, Consume, timerVars, localVars, vars
<1> QED
  BY <1>1, <1>2, LoopInvariant, PTL DEF Spec
-----------------------------------------------------------------------------
(* Timeouts that are earned. *)

(* Ids are given in order as long as they last. *)
IdsGrow ==
    /\ made <= MaxTimers /\ calls["exec"] <= MaxExecs
    /\ mNextTimerId <= made + calls["exec"]
    /\ \A id \in DOMAIN mTimersById : id <= mNextTimerId
    /\ quitTimerId <= mNextTimerId

TimingOut == pc = "quitTimer" \/ mTimeout \/ (pc = "exit" /\ ret = "Timeout")

(* From the call of the quit timer's callback on, that timer is gone. *)
EarnedInv ==
    /\ \A id \in DOMAIN mTimersById : mTimersById[id].cb = "quit" => mTimersById[id].single
    /\ inactive \/ pc = "inactive" => InactivityTimeout > 0
    /\ TimingOut /\ InactivityTimeout = 0 => quitTimerId \in Ids \ DOMAIN mTimersById

(* The next id is one that was never given. *)
LEMMA NextIdIsNew ==
    ASSUME MaxTimers + MaxExecs < IdMod, TypeOK, IdsGrow, made + calls["exec"] < MaxTimers + MaxExecs,
           NEW id, NextId(id)
    PROVE  id = mNextTimerId + 1
<1>1. mNextTimerId \in Nat /\ IdMod \in Nat \ {0} /\ made \in Nat /\ calls["exec"] \in Nat
      /\ MaxTimers \in Nat /\ MaxExecs \in Nat
  BY BoundsAssumption DEF TypeOK, TypeTimers, TypeLoop, Ids
<1>2. mNextTimerId + 1 < IdMod /\ mNextTimerId + 1 \in Nat
  BY <1>1 DEF IdsGrow
<1>3. (mNextTimerId + 1) % IdMod = mNextTimerId + 1
  BY <1>1, <1>2
<1>4. mNextTimerId + 1 \notin DOMAIN mTimersById
  BY <1>1 DEF IdsGrow
<1>5. PICK k \in 1 .. IdMod :
        id = (mNextTimerId + k) % IdMod /\ \A j \in 1 .. k - 1 : (mNextTimerId + j) % IdMod \in DOMAIN mTimersById
  BY DEF NextId
<1>6. ~ (1 \in 1 .. k - 1)
  BY <1>3, <1>4, <1>5
<1>7. k = 1
  BY <1>5, <1>6
<1> QED
  BY <1>3, <1>5, <1>7

(* The ids go on. *)
LEMMA IdsGrowStep ==
    ASSUME MaxTimers + MaxExecs < IdMod, IInv, IdsGrow, [Next]_vars
    PROVE  IdsGrow'
<1> DEFINE n == made + calls["exec"]
<1>0. TypeOK /\ Ids \subseteq Nat /\ MaxTimers \in Nat /\ MaxExecs \in Nat
  BY BoundsAssumption DEF IInv, Ids
<1>a. mNextTimerId \in Nat /\ made \in Nat /\ \A id \in DOMAIN mTimersById : id \in Nat
  BY <1>0 DEF TypeOK, TypeTimers, TimerMap
<1>b. calls["exec"] \in Nat /\ quitTimerId \in Int
  BY <1>0 DEF TypeOK, TypeLoop
<1>1. TypeOK /\ mNextTimerId \in Nat /\ made \in Nat /\ calls["exec"] \in Nat /\ n \in Nat
      /\ MaxTimers \in Nat /\ MaxExecs \in Nat
      /\ (\A id \in DOMAIN mTimersById : id \in Nat) /\ quitTimerId \in Int
  BY <1>0, <1>a, <1>b
<1>2. CASE UNCHANGED <<mNextTimerId, made>> /\ calls'["exec"] = calls["exec"]
           /\ quitTimerId' \in {quitTimerId, -1}
           /\ \A id \in DOMAIN mTimersById' : id \in DOMAIN mTimersById
  BY <1>1, <1>2 DEF IdsGrow
<1>3. ASSUME NEW c \in {"quit", "socket", "signal", "fd", "interrupt"}, NEW m, Count(c, m)
      PROVE  calls'["exec"] = calls["exec"]
  BY <1>1, <1>3 DEF Count, TypeOK, TypeLoop
<1>4. ASSUME NEW x, mTimersById' = Without(mTimersById, x)
      PROVE  \A id \in DOMAIN mTimersById' : id \in DOMAIN mTimersById
  BY <1>4 DEF Without
<1>5. ASSUME NEW id \in Ids, NEW timer, n < MaxTimers + MaxExecs, AddTimer(id, timer),
             made' + calls'["exec"] = n + 1,
             made' <= MaxTimers, calls'["exec"] <= MaxExecs, quitTimerId' \in {quitTimerId, id}
      PROVE  IdsGrow'
  <2>1. id = mNextTimerId + 1 /\ mNextTimerId' = id
    BY <1>1, <1>5, NextIdIsNew DEF AddTimer
  <2>2. \A x \in DOMAIN mTimersById' : x \in DOMAIN mTimersById \/ x = id
    BY <1>5 DEF AddTimer, With
  <2>3. mNextTimerId' <= n + 1
    BY <1>1, <2>1 DEF IdsGrow
  <2>4. \A x \in DOMAIN mTimersById' : x <= mNextTimerId'
    BY <1>1, <2>1, <2>2 DEF IdsGrow
  <2>5. quitTimerId' <= mNextTimerId'
    BY <1>1, <1>5, <2>1 DEF IdsGrow
  <2> QED
    BY <1>5, <2>3, <2>4, <2>5 DEF IdsGrow
<1>6. ASSUME NEW t, RegisterTimer(t) PROVE IdsGrow'
  <2>1. made' = made + 1 /\ made < MaxTimers /\ UNCHANGED <<calls, quitTimerId>>
    BY <1>6 DEF RegisterTimer, localVars
  <2>2. PICK id \in Ids, timeout \in Intervals, single \in BOOLEAN :
          AddTimer(id, [when |-> now + timeout, interval |-> timeout, single |-> single, cb |-> "user"])
    BY <1>6 DEF RegisterTimer
  <2>3. n < MaxTimers + MaxExecs /\ made' + calls'["exec"] = n + 1 /\ made' <= MaxTimers
        /\ calls'["exec"] <= MaxExecs
    BY <1>1, <2>1 DEF IdsGrow
  <2> QED
    BY <1>5, <2>1, <2>2, <2>3
<1>7. ASSUME NEW t, Call(t) PROVE IdsGrow'
  <2>1. CASE Post(t)
    BY <1>2, <2>1 DEF Post, timerVars, localVars
  <2>2. CASE Quit(t)
    BY <1>2, <1>3, <2>2 DEF Quit, timerVars, localVars
  <2>3. CASE UnregisterTimer(t)
    BY <1>2, <1>4, <2>3 DEF UnregisterTimer, ClearTimer, localVars
  <2>4. CASE RegisterSocket(t) \/ UpdateSocket(t) \/ UnregisterSocket(t)
    BY <1>2, <1>3, <2>4 DEF RegisterSocket, UpdateSocket, UnregisterSocket, timerVars, localVars
  <2> QED
    BY <1>6, <1>7, <2>1, <2>2, <2>3, <2>4 DEF Call
<1>8. CASE Exec
  <2>1. calls'["exec"] = calls["exec"] + 1 /\ calls["exec"] < MaxExecs /\ made' = made
    BY <1>1, <1>8 DEF Exec, Count, TypeOK, TypeLoop
  <2>2. n < MaxTimers + MaxExecs /\ made' + calls'["exec"] = n + 1 /\ made' <= MaxTimers
        /\ calls'["exec"] <= MaxExecs
    BY <1>1, <2>1 DEF IdsGrow
  <2>3. CASE UNCHANGED <<quitTimerId, mTimersById, mNextTimerId>>
    BY <1>1, <2>1, <2>2, <2>3 DEF IdsGrow
  <2>4. CASE \E id \in Ids : \E timer : AddTimer(id, timer) /\ quitTimerId' = id
    BY <1>5, <2>2, <2>4
  <2> QED
    BY <1>8, <2>3, <2>4 DEF Exec
<1>9. CASE SendTimer
  <2>1. \A id \in DOMAIN mTimersById' : id \in DOMAIN mTimersById
    BY <1>9 DEF SendTimer, Without
  <2> QED
    BY <1>2, <1>9, <2>1 DEF SendTimer
<1>10. CASE Exit
  BY <1>2, <1>4, <1>10 DEF Exit, ClearTimer
<1>11. CASE LoopStep \/ PollFails
  BY <1>2, <1>9, <1>10, <1>11
     DEF LoopStep, SendPostedEvent, EndTimers, TimeoutQuit, CallbackReturns, Check,
         PollReturns, PollTimesOut, PollFails, DrainPipe, TakeSocketEvent, EraseSocket, FireSocket,
         EndBatch, timerVars, localVars
<1>12. CASE Signal \/ FdEvent
  BY <1>2, <1>3, <1>12 DEF Signal, FdEvent, timerVars, localVars
<1>13. CASE PollInterrupted
  BY <1>2, <1>3, <1>13 DEF PollInterrupted, timerVars
<1> QED
  BY <1>2, <1>7, <1>8, <1>11, <1>12, <1>13
     DEF Next, WriteWakeup, Tick, Consume, timerVars, localVars, vars

(* A new id is not the quit timer's. *)
LEMMA EarnedStep ==
    ASSUME MaxTimers + MaxExecs < IdMod, IInv, IdsGrow, TimeoutIsFresh, NoStaleQuitTimer, EarnedInv,
           [Next]_vars
    PROVE  EarnedInv'
<1> USE DEF Goto
<1>1. TypeOK /\ mTimeout \in BOOLEAN /\ InactivityTimeout \in Nat
  BY BoundsAssumption DEF IInv, TypeOK, TypeFlags
<1>2. CASE UNCHANGED <<mTimersById, inactive, quitTimerId, mTimeout, ret>>
           /\ (pc' = pc \/ pc' \notin {"quitTimer", "inactive", "exit"})
  BY <1>2 DEF EarnedInv, TimingOut
<1>3. ASSUME NEW x, mTimersById' = Without(mTimersById, x),
             UNCHANGED <<inactive, quitTimerId, mTimeout, ret, pc>>
      PROVE  EarnedInv'
  BY <1>3 DEF Without, EarnedInv, TimingOut
<1>4. ASSUME NEW t, RegisterTimer(t) PROVE EarnedInv'
  <2>1. made < MaxTimers /\ UNCHANGED <<inactive, quitTimerId, mTimeout, ret, pc>>
    BY <1>4 DEF RegisterTimer, localVars, stopVars
  <2>2. PICK id \in Ids, timeout \in Intervals, single \in BOOLEAN :
          AddTimer(id, [when |-> now + timeout, interval |-> timeout, single |-> single, cb |-> "user"])
    BY <1>4 DEF RegisterTimer
  <2>3. made \in Nat /\ calls["exec"] \in Nat /\ mNextTimerId \in Nat /\ quitTimerId \in Int
        /\ MaxTimers \in Nat /\ MaxExecs \in Nat
    BY <1>1, BoundsAssumption DEF TypeOK, TypeTimers, TypeLoop, Ids
  <2>4. made + calls["exec"] < MaxTimers + MaxExecs
    BY <2>1, <2>3 DEF IdsGrow
  <2>5. id = mNextTimerId + 1
    BY <1>1, <2>2, <2>4, NextIdIsNew DEF AddTimer
  <2>6. id # quitTimerId
    BY <2>3, <2>5 DEF IdsGrow
  <2>7. mTimersById' = With(mTimersById, id, [when |-> now + timeout, interval |-> timeout,
                                              single |-> single, cb |-> "user"])
    BY <2>2 DEF AddTimer
  <2>8. /\ DOMAIN mTimersById' = DOMAIN mTimersById \cup {id}
        /\ \A x \in DOMAIN mTimersById' : mTimersById'[x].cb = "quit" =>
              x \in DOMAIN mTimersById /\ mTimersById'[x] = mTimersById[x]
    BY <2>7 DEF With
  <2> QED
    BY <2>1, <2>6, <2>8 DEF EarnedInv, TimingOut
<1>5. ASSUME NEW t, Call(t) PROVE EarnedInv'
  BY <1>2, <1>3, <1>4, <1>5
     DEF Call, Post, Quit, UnregisterTimer, ClearTimer, RegisterSocket, UpdateSocket, UnregisterSocket,
         timerVars, localVars, stopVars
<1>6. CASE Exec
  <2>1. pc' = "posted" /\ UNCHANGED <<mTimeout, inactive>> /\ ~mTimeout
    BY <1>6 DEF Exec, stopVars, TimeoutIsFresh
  <2>2. ~TimingOut'
    BY <2>1 DEF TimingOut
  <2>3. CASE mTimersById' = mTimersById
    BY <2>1, <2>2, <2>3 DEF EarnedInv
  <2>4. ASSUME NEW id \in Ids, NEW timeout \in ExecTimeouts,
               mTimersById' = With(mTimersById, id, [when |-> now + timeout, interval |-> timeout,
                                                     single |-> TRUE, cb |-> "quit"])
        PROVE  EarnedInv'
    BY <2>1, <2>2, <2>4 DEF EarnedInv, With
  <2> QED
    BY <1>6, <2>3, <2>4 DEF Exec, AddTimer
<1>7. CASE SendTimer
  <2>1. PICK i \in 1 .. Len(mTimersByTime) :
          LET id    == mTimersByTime[i]
              timer == mTimersById[id]
          IN  /\ IF timer.single
                   THEN mTimersById' = Without(mTimersById, id)
                   ELSE mTimersById' = [mTimersById EXCEPT ![id].when = timer.when + timer.interval]
              /\ pc' = IF timer.cb = "quit" THEN "quitTimer" ELSE "timer"
    BY <1>7 DEF SendTimer
  <2> DEFINE id == mTimersByTime[i]
             timer == mTimersById[id]
  <2>2. UNCHANGED <<inactive, quitTimerId, mTimeout, ret>> /\ pc = "timers"
    BY <1>7 DEF SendTimer, stopVars
  <2>3. id \in DOMAIN mTimersById /\ timer \in Timers /\ id \in Ids
    BY DEF IInv, TimersAgree, Agree, TypeOK, TypeTimers, TimerMap
  <2>4. timer.cb = "quit" => id = quitTimerId /\ timer.single
    BY <2>3 DEF NoStaleQuitTimer, EarnedInv
  <2> HIDE DEF id
  <2>5. \A x \in DOMAIN mTimersById' :
          /\ x \in DOMAIN mTimersById
          /\ mTimersById'[x].cb = mTimersById[x].cb /\ mTimersById'[x].single = mTimersById[x].single
    <3>1. CASE timer.single
      <4>1. mTimersById' = Without(mTimersById, id)
        BY <2>1, <3>1 DEF id
      <4> QED
        BY <4>1 DEF Without
    <3>2. CASE ~timer.single
      <4>1. mTimersById' = [mTimersById EXCEPT ![id].when = timer.when + timer.interval]
        BY <2>1, <3>2 DEF id
      <4> QED
        BY <2>3, <4>1 DEF Timers
    <3> QED
      BY <3>1, <3>2
  <2>6. timer.cb = "quit" => id \notin DOMAIN mTimersById'
    BY <2>1, <2>4 DEF Without, id
  <2>7. pc' = "quitTimer" => quitTimerId \in Ids \ DOMAIN mTimersById'
    BY <2>1, <2>3, <2>4, <2>6 DEF id
  <2>8. pc' \in {"quitTimer", "timer"}
    BY <2>1
  <2> QED
    BY <2>2, <2>5, <2>7, <2>8 DEF EarnedInv, TimingOut
<1>8. CASE Exit
  <2>1. pc' = "idle" /\ UNCHANGED <<mTimeout, inactive>> /\ ~mTimeout
    BY <1>8 DEF Exit, stopVars, TimeoutIsFresh
  <2>2. \A x \in DOMAIN mTimersById' : x \in DOMAIN mTimersById /\ mTimersById'[x] = mTimersById[x]
    BY <1>8 DEF Exit, ClearTimer, Without
  <2> QED
    BY <2>1, <2>2 DEF EarnedInv, TimingOut
<1>9. CASE TimeoutQuit
  <2>1. UNCHANGED <<mTimersById, inactive, quitTimerId, ret>> /\ pc \in {"quitTimer", "inactive"}
        /\ pc' \in {"timers", "posted"}
    BY <1>9 DEF TimeoutQuit, timerVars, localVars
  <2> QED
    BY <1>1, <2>1 DEF EarnedInv, TimingOut
<1>10. CASE Check
  <2>1. UNCHANGED <<mTimersById, quitTimerId>> /\ pc = "check"
    BY <1>10 DEF Check, timerVars
  <2>2. CASE mStop
    BY <1>10, <2>1, <2>2 DEF Check, EarnedInv, TimingOut
  <2>3. CASE ~mStop
    <3>1. ~mTimeout /\ ~mTimeout' /\ pc' = "poll"
      BY <1>10, <2>3 DEF Check, stopVars, TimeoutIsFresh
    <3>2. inactive' => InactivityTimeout > 0
      BY <1>10, <2>3 DEF Check, PlanWait
    <3> QED
      BY <2>1, <3>1, <3>2 DEF EarnedInv, TimingOut
  <2> QED
    BY <2>2, <2>3
<1>11. CASE PollReturns \/ PollTimesOut \/ PollFails
  <2>1. /\ UNCHANGED <<mTimersById, quitTimerId, mTimeout>> /\ inactive' = FALSE /\ ~mTimeout
        /\ pc' = "inactive" => inactive
        /\ pc' # "quitTimer" /\ (pc' = "exit" => ret' = "GeneralError")
    BY <1>11 DEF PollReturns, PollTimesOut, PollFails, EndWait, timerVars, stopVars, TimeoutIsFresh
  <2> QED
    BY <2>1 DEF EarnedInv, TimingOut
<1>12. CASE DrainPipe
  <2>1. /\ UNCHANGED <<mTimersById, quitTimerId, mTimeout, inactive>> /\ ~mTimeout
        /\ pc' = "process" \/ (pc' = "exit" /\ ret' = "Success")
    BY <1>12 DEF DrainPipe, timerVars, stopVars, TimeoutIsFresh
  <2> QED
    BY <2>1 DEF EarnedInv, TimingOut
<1>13. CASE LoopStep
  BY <1>2, <1>7, <1>8, <1>9, <1>10, <1>11, <1>12, <1>13
     DEF LoopStep, SendPostedEvent, EndTimers, CallbackReturns, TakeSocketEvent, EraseSocket, FireSocket,
         EndBatch, timerVars, localVars, stopVars
<1> QED
  BY <1>2, <1>5, <1>6, <1>11, <1>13
     DEF Next, PollInterrupted, WriteWakeup, Signal, Tick, FdEvent, Consume, timerVars, localVars, stopVars, vars

(* exec answers Timeout only when its own quit timer has fired, as long as *)
(* the ids of the timers last (EventLoop.cpp 371-386, 888-946).            *)
THEOREM TimeoutAlwaysEarned ==
    ASSUME MaxTimers + MaxExecs < IdMod
    PROVE  Spec => []TimeoutIsEarned
<1>1. Init => IdsGrow /\ EarnedInv
  BY BoundsAssumption DEF Init, IdsGrow, EarnedInv, TimingOut
<1>2. IInv /\ IdsGrow /\ [Next]_vars => IdsGrow'
  BY IdsGrowStep
<1>3. IInv /\ IdsGrow /\ TimeoutIsFresh /\ NoStaleQuitTimer /\ EarnedInv /\ [Next]_vars => EarnedInv'
  BY EarnedStep
<1>4. EarnedInv => TimeoutIsEarned
  BY DEF EarnedInv, TimingOut, TimeoutIsEarned
<1> QED
  BY <1>1, <1>2, <1>3, <1>4, LoopInvariant, TimeoutAlwaysFresh, QuitTimerNeverStale, PTL DEF Spec
-----------------------------------------------------------------------------
(* Readiness that is not lost. *)

(* What is owed is of a registered descriptor and still there to report;   *)
(* a batch is at hand only while it is processed; no signal has written.   *)
ReadyInv ==
    /\ \A f \in Fds : owed[f] => f \in mSockets /\ cond[f] # "none"
    /\ pc \notin {"process", "erase", "fire", "socket"} => batch = {}
    /\ \A i \in 1 .. Len(pipe) : pipe[i] # "q"
    /\ NoLostReadiness

(* A callback, a report or a registration settles what is owed; nothing    *)
(* else takes an edge, or an event of the batch, away.                     *)
LEMMA ReadyStep ==
    ASSUME MaxSignals = 0, IInv, ReadyInv, [Next]_vars
    PROVE  ReadyInv'
<1> USE DEF Goto
<1>1. TypeSockets /\ "pipe" \notin Fds /\ pipe \in Seq({"w", "q"})
  BY BoundsAssumption DEF IInv, TypeOK, TypeFlags
<1>2. CASE /\ UNCHANGED <<pipe, socketVars, batch>>
           /\ pc' = pc \/ (pc' \notin {"process", "erase", "fire", "socket"} /\ pc # "fire" /\ batch = {})
           /\ pc = "fire" => firing' = firing
  BY <1>2 DEF ReadyInv, NoLostReadiness, socketVars
<1>3. ASSUME NEW t, RegisterSocket(t) PROVE ReadyInv'
  <2>1. UNCHANGED <<pipe, cond, pc, batch, firing>>
    BY <1>3 DEF RegisterSocket, pipeVars, localVars
  <2>2. PICK f \in Fds, mode \in Modes :
          /\ mSockets' = mSockets \cup {f}
          /\ IF interest[f] = "none"
               THEN /\ interest' = [interest EXCEPT ![f] = mode]
                    /\ edge' = [edge EXCEPT ![f] = cond[f] # "none"]
                    /\ owed' = [owed EXCEPT ![f] = cond[f] # "none"]
               ELSE UNCHANGED <<interest, edge, owed>>
    BY <1>3 DEF RegisterSocket
  <2>3. CASE interest[f] = "none"
    <3>1. \A g \in Fds : g # f => interest'[g] = interest[g] /\ edge'[g] = edge[g] /\ owed'[g] = owed[g]
      BY <1>1, <2>2, <2>3 DEF TypeSockets
    <3>2. (edge'[f] <=> cond[f] # "none") /\ (owed'[f] <=> cond[f] # "none")
      BY <1>1, <2>2, <2>3 DEF TypeSockets
    <3>3. \A g \in mSockets' : g \in Fds /\ (g # f => g \in mSockets)
      BY <1>1, <2>2 DEF TypeSockets
    <3> QED
      BY <2>1, <2>2, <3>1, <3>2, <3>3 DEF ReadyInv, NoLostReadiness
  <2>4. CASE interest[f] # "none"
    <3>1. UNCHANGED <<interest, edge, owed>>
      BY <2>2, <2>4
    <3> QED
      BY <2>1, <2>2, <3>1 DEF ReadyInv, NoLostReadiness
  <2> QED
    BY <2>3, <2>4
<1>4. ASSUME NEW t, UpdateSocket(t) PROVE ReadyInv'
  <2>1. UNCHANGED <<pipe, cond, pc, batch, firing, mSockets, owed>>
    BY <1>4 DEF UpdateSocket, pipeVars, localVars
  <2>2. PICK f \in mSockets, mode \in Modes :
          IF interest[f] = "none"
            THEN UNCHANGED <<interest, edge>>
            ELSE /\ interest' = [interest EXCEPT ![f] = mode]
                 /\ edge' = [edge EXCEPT ![f] = cond[f] # "none"]
    BY <1>4 DEF UpdateSocket
  <2>3. \A g \in mSockets : g \in Fds
    BY <1>1 DEF TypeSockets
  <2>4. \A g \in Fds : g # f => interest'[g] = interest[g] /\ edge'[g] = edge[g]
    BY <1>1, <2>2 DEF TypeSockets
  <2>5. (interest'[f] = interest[f] /\ edge'[f] = edge[f]) \/ (edge'[f] <=> cond[f] # "none")
    BY <1>1, <2>2, <2>3 DEF TypeSockets
  <2> QED
    BY <2>1, <2>3, <2>4, <2>5 DEF ReadyInv, NoLostReadiness
<1>5. ASSUME NEW t, UnregisterSocket(t) PROVE ReadyInv'
  <2>1. UNCHANGED <<pipe, cond, pc, batch, firing>>
    BY <1>5 DEF UnregisterSocket, pipeVars, localVars
  <2>2. PICK f \in mSockets : mSockets' = mSockets \ {f} /\ Forget(f) /\ owed' = [owed EXCEPT ![f] = FALSE]
    BY <1>5 DEF UnregisterSocket
  <2>3. \A g \in Fds : g # f => interest'[g] = interest[g] /\ edge'[g] = edge[g] /\ owed'[g] = owed[g]
    BY <1>1, <2>2 DEF TypeSockets, Forget
  <2>4. ~owed'[f] /\ \A g \in mSockets' : g \in Fds /\ g \in mSockets /\ g # f
    BY <1>1, <2>2 DEF TypeSockets
  <2> QED
    BY <2>1, <2>2, <2>3, <2>4 DEF ReadyInv, NoLostReadiness
<1>6. ASSUME NEW t, Call(t) PROVE ReadyInv'
  BY <1>2, <1>3, <1>4, <1>5, <1>6
     DEF Call, Post, Quit, RegisterTimer, UnregisterTimer, pipeVars, localVars
<1>7. CASE PollReturns
  <2>1. /\ pc = "poll" /\ batch' = Ready /\ pc' = "process" /\ UNCHANGED <<pipe, mSockets, cond, owed>>
        /\ edge' = [f \in Fds |-> edge[f] /\ ~Reported(f)]
        /\ interest' = [f \in Fds |-> IF interest[f] = "oneshot" /\ Reported(f) THEN "disarmed" ELSE interest[f]]
    BY <1>7 DEF PollReturns
  <2>2. ASSUME NEW f \in mSockets, owed[f], interest'[f] \in Modes PROVE \E h \in Ready : h.fd = f
    <3>1. f \in Fds /\ interest'[f] = interest[f]
      BY <1>1, <2>1, <2>2 DEF TypeSockets, Modes
    <3>2. cond[f] # "none" /\ (edge[f] \/ interest[f] = "level")
      BY <2>1, <2>2, <3>1 DEF ReadyInv, NoLostReadiness
    <3>3. [fd |-> f, ev |-> cond[f]] \in Ready
      BY <2>2, <3>1, <3>2 DEF Ready, Modes
    <3> QED
      BY <3>3
  <2> QED
    BY <2>1, <2>2 DEF ReadyInv, NoLostReadiness
<1>8. CASE DrainPipe
  <2>1. UNCHANGED <<mSockets, interest, cond, edge, owed>> /\ pc = "process"
    BY <1>8 DEF DrainPipe, socketVars
  <2>2. PICK h \in batch : h.fd = "pipe" /\ pipe' = <<>> /\ batch' = batch \ {h} /\ pc' = pc
    BY <1>8 DEF DrainPipe, ReadyInv
  <2>3. \A f \in mSockets : f # "pipe"
    BY <1>1 DEF TypeSockets
  <2> QED
    BY <2>1, <2>2, <2>3 DEF ReadyInv, NoLostReadiness
<1>9. CASE TakeSocketEvent
  <2>1. UNCHANGED <<pipe, mSockets, cond, owed>> /\ pc = "process"
    BY <1>9 DEF TakeSocketEvent, pipeVars
  <2>2. PICK h \in batch :
          /\ h.fd # "pipe"
          /\ IF h.ev = "hup"
               THEN Forget(h.fd) /\ Goto("erase")
               ELSE UNCHANGED <<interest, edge>> /\ Goto("fire")
          /\ batch' = batch \ {h}
          /\ firing' = h
    BY <1>9 DEF TakeSocketEvent
  <2>3. h.fd \in Fds
    BY <1>1, <2>2 DEF TypeSockets, Happening
  <2>4. \A g \in Fds : g # h.fd => interest'[g] = interest[g] /\ edge'[g] = edge[g]
    BY <1>1, <2>2 DEF TypeSockets, Forget
  <2>5. (pc' = "fire" /\ UNCHANGED <<interest, edge>>) \/ (pc' = "erase" /\ interest'[h.fd] = "none")
    BY <1>1, <2>2, <2>3 DEF TypeSockets, Forget
  <2>6. \A g \in mSockets : g \in Fds
    BY <1>1 DEF TypeSockets
  <2>7. "none" \notin Modes
    BY DEF Modes
  <2>8. ASSUME NEW f \in mSockets, owed[f], interest'[f] \in Modes
        PROVE  \/ cond[f] # "none" /\ (edge'[f] \/ interest'[f] = "level")
               \/ \E x \in batch' : x.fd = f
               \/ pc' = "fire" /\ firing'.fd = f
    <3>1. CASE f = h.fd
      BY <2>2, <2>5, <2>7, <2>8, <3>1
    <3>2. CASE f # h.fd
      <4>1. interest'[f] = interest[f] /\ edge'[f] = edge[f]
        BY <2>4, <2>6, <3>2
      <4>2. (cond[f] # "none" /\ (edge[f] \/ interest[f] = "level")) \/ \E x \in batch : x.fd = f
        BY <2>1, <2>8, <4>1 DEF ReadyInv, NoLostReadiness
      <4> QED
        BY <2>2, <3>2, <4>1, <4>2
    <3> QED
      BY <3>1, <3>2
  <2> QED
    BY <2>1, <2>5, <2>8 DEF ReadyInv, NoLostReadiness
<1>10. CASE EraseSocket \/ FireSocket
  <2>1. UNCHANGED <<pipe, interest, cond, edge, batch>> /\ pc \in {"erase", "fire"}
        /\ pc' \in {"fire", "socket", "process"}
    BY <1>10 DEF EraseSocket, FireSocket, pipeVars, localVars
  <2>2. \A f \in Fds : owed'[f] => owed[f] /\ f \in mSockets'
    BY <1>1, <1>10 DEF EraseSocket, FireSocket, TypeSockets, ReadyInv
  <2>3. \A f \in mSockets' : f \in Fds /\ f \in mSockets /\ (owed'[f] => f # firing.fd)
    BY <1>1, <1>10 DEF EraseSocket, FireSocket, TypeSockets
  <2> QED
    BY <2>1, <2>2, <2>3 DEF ReadyInv, NoLostReadiness
<1>11. CASE FdEvent
  <2>1. UNCHANGED <<pipe, mSockets, interest, pc, batch, firing>>
    BY <1>11 DEF FdEvent, pipeVars, localVars
  <2>2. PICK f \in Fds, c \in {"ready", "hup"} :
          /\ cond' = [cond EXCEPT ![f] = c]
          /\ edge' = [edge EXCEPT ![f] = interest[f] # "none"]
          /\ owed' = [owed EXCEPT ![f] = f \in mSockets]
    BY <1>11 DEF FdEvent
  <2>3. \A g \in Fds : g # f => cond'[g] = cond[g] /\ edge'[g] = edge[g] /\ owed'[g] = owed[g]
    BY <1>1, <2>2 DEF TypeSockets
  <2>4. cond'[f] # "none" /\ (edge'[f] <=> interest[f] # "none") /\ (owed'[f] <=> f \in mSockets)
    BY <1>1, <2>2 DEF TypeSockets
  <2>5. "none" \notin Modes /\ \A g \in mSockets : g \in Fds
    BY <1>1 DEF Modes, TypeSockets
  <2> QED
    BY <2>1, <2>3, <2>4, <2>5 DEF ReadyInv, NoLostReadiness
<1>12. CASE Consume
  <2>1. UNCHANGED <<pipe, mSockets, interest, edge, pc, batch, firing>>
    BY <1>12 DEF Consume, pipeVars, localVars
  <2>2. \A g \in Fds : owed'[g] => owed[g] /\ cond'[g] = cond[g]
    BY <1>1, <1>12 DEF Consume, TypeSockets
  <2>3. \A g \in mSockets : g \in Fds
    BY <1>1 DEF TypeSockets
  <2> QED
    BY <2>1, <2>2, <2>3 DEF ReadyInv, NoLostReadiness
<1>13. ASSUME NEW t, WriteWakeup(t) PROVE ReadyInv'
  <2>1. UNCHANGED <<socketVars, pc, batch, firing>> /\ pipe' = Append(pipe, "w")
    BY <1>13 DEF WriteWakeup, localVars
  <2>2. \A i \in 1 .. Len(pipe') : pipe'[i] # "q"
    BY <1>1, <2>1 DEF ReadyInv
  <2> QED
    BY <2>1, <2>2 DEF ReadyInv, NoLostReadiness, socketVars
<1>14. ~Signal
  BY DEF Signal, Count, IInv, TypeOK, TypeLoop
<1>15. CASE CallbackReturns
  <2>1. UNCHANGED <<pipe, socketVars, batch>> /\ pc # "fire"
        /\ (pc = "socket" => pc' = "process") /\ (pc # "socket" => pc \in {"event", "timer"} /\ pc' \in {"posted", "timers"})
    BY <1>15 DEF CallbackReturns, pipeVars
  <2> QED
    BY <2>1 DEF ReadyInv, NoLostReadiness, socketVars
<1>16. CASE SendPostedEvent \/ SendTimer \/ EndTimers \/ TimeoutQuit \/ Check \/ PollTimesOut
            \/ PollInterrupted \/ PollFails
           \/ EndBatch \/ Exit \/ Exec
  <2>1. /\ UNCHANGED <<pipe, socketVars, batch>>
        /\ pc' \notin {"process", "erase", "fire", "socket"}
        /\ pc \notin {"erase", "fire", "socket"}
        /\ pc = "process" => batch = {}
    BY <1>16 DEF SendPostedEvent, SendTimer, EndTimers, TimeoutQuit, Check, PollTimesOut,
             PollInterrupted, PollFails,
                 EndBatch, Exit, Exec, pipeVars, localVars
  <2> QED
    BY <1>2, <2>1 DEF ReadyInv
<1>17. CASE Tick \/ UNCHANGED vars
  BY <1>2, <1>17 DEF Tick, vars, pipeVars, localVars
<1> QED
  BY <1>6, <1>7, <1>8, <1>9, <1>10, <1>11, <1>12, <1>13, <1>14, <1>15, <1>16, <1>17 DEF Next, LoopStep

(* Without a SIGINT or SIGTERM, whose byte makes processSocketEvents drop  *)
(* the rest of its batch, no readiness of a registered and armed           *)
(* descriptor is lost (EventLoop.cpp 733-811, 864-886).                             *)
THEOREM ReadinessNeverLost ==
    ASSUME MaxSignals = 0
    PROVE  Spec => []NoLostReadiness
<1>1. Init => ReadyInv
  BY DEF Init, ReadyInv, NoLostReadiness
<1>2. IInv /\ ReadyInv /\ [Next]_vars => ReadyInv'
  BY ReadyStep
<1>3. ReadyInv => NoLostReadiness
  BY DEF ReadyInv
<1> QED
  BY <1>1, <1>2, <1>3, LoopInvariant, PTL DEF Spec
=============================================================================
