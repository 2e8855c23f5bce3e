------------------------------ MODULE EventLoop ------------------------------
(***************************************************************************)
(* rct/EventLoop.cpp, as built with epoll: one thread runs exec, any       *)
(* thread posts events, registers timers and sockets, or quits.            *)
(*                                                                         *)
(* Shared state is under mMutex, which is released around every callback.  *)
(* A member function of another thread that has changed something calls    *)
(* wakeup, which writes one byte to a pipe while mMutex is still held; the *)
(* write blocks when the pipe is full.  So mMutex is "free", or owned by   *)
(* a thread that has done its change and has its byte to write; every      *)
(* other locked section is one step taken while mMutex is free.            *)
(***************************************************************************)
EXTENDS Integers, Sequences, SequencesExt

CONSTANTS
    Threads,            \* threads other than the one that called init
    Fds,                \* file descriptors that may be registered
    PipeCapacity,       \* bytes the event pipe holds
    IdMod,              \* timer ids are 0 .. IdMod-1 (2^32 in the code)
    Intervals,          \* timeouts given to registerTimer
    ExecTimeouts,       \* timeouts given to exec, -1 for none
    InactivityTimeout,  \* mInactivityTimeout, 0 for none
    EpollMayFail,       \* whether epoll_wait may return -1
    MaxPosts, MaxQuits, MaxTimers, MaxExecs, MaxSignals,  \* bounds on calls,
    MaxInterrupts, MaxSocketCalls, MaxFdEvents, MaxTime   \* events and time

ASSUME BoundsAssumption ==
    /\ PipeCapacity \in Nat \ {0} /\ IdMod \in Nat \ {0}
    /\ Intervals \subseteq Nat
    /\ ExecTimeouts \subseteq Nat \cup {-1}
    /\ InactivityTimeout \in Nat /\ EpollMayFail \in BOOLEAN
    /\ {MaxPosts, MaxQuits, MaxTimers, MaxExecs, MaxSignals, MaxInterrupts,
        MaxSocketCalls, MaxFdEvents, MaxTime} \subseteq Nat
    /\ {"free", "loop", "pipe"} \cap (Threads \cup Fds) = {}

VARIABLES
    mMutex,             \* "free", or the thread that owns it in wakeup
    mEvents, posted, ran,                 \* the queue; posts and runs so far
    mStop, mTimeout,
    mTimersById,        \* id -> timer
    mTimersByTime,      \* the ids, ordered by time
    mNextTimerId, made, \* last id given; timers registered so far
    pipe, pipeEdge,     \* bytes in mEventPipe; an edge epoll has to report
    mSockets,           \* the descriptors that have a callback
    interest,           \* what epoll was told about each descriptor
    cond, edge,         \* its condition; an edge epoll has to report
    owed,               \* a change that no callback has been told of yet
    now,                \* the clock, in units of time
    pc,                 \* where the loop's thread is
    fired, roundNow,    \* locals of sendTimers
    waitUntil, inactive,    \* locals of exec
    deadline,           \* waitUntil as a time when it was computed, or -1
    pollStart,          \* when epoll_wait was last called
    batch, firing,      \* locals of processSocketEvents
    quitTimerId, ret,   \* locals of exec
    calls               \* calls of exec, quit, sockets; signals; fd events; EINTRs

queueVars  == <<mEvents, posted, ran>>
stopVars   == <<mStop, mTimeout>>
timerVars  == <<mTimersById, mTimersByTime, mNextTimerId, made>>
pipeVars   == <<pipe, pipeEdge>>
socketVars == <<mSockets, interest, cond, edge, owed>>
waitVars   == <<waitUntil, inactive, deadline, pollStart>>
localVars  == <<fired, roundNow, waitVars, batch, firing, quitTimerId, ret>>
vars == <<mMutex, queueVars, stopVars, timerVars, pipeVars, socketVars, now,
          pc, localVars, calls>>

Ids == 0 .. IdMod - 1

Timers == [when : Nat, interval : Nat, single : BOOLEAN, cb : {"user", "quit"}]

(* Where the loop's thread is.  "idle": outside exec; "event", "timer",    *)
(* "socket": in a callback; "quitTimer", "inactive": in the calls of quit  *)
(* that exec makes itself; "exit": after the loop of exec.                 *)
PCs == {"idle", "posted", "event", "timers", "timer", "quitTimer", "check",
        "poll", "inactive", "process", "erase", "fire", "socket", "exit"}

UserCode == {"idle", "event", "timer", "socket"}

Modes == {"edge", "oneshot", "level"}

Happening == [fd : Fds \cup {"pipe"}, ev : {"ready", "hup"}]
NoEvent   == [fd |-> "pipe", ev |-> "ready"]

Init ==
    /\ mMutex = "free"
    /\ mEvents = <<>> /\ posted = 0 /\ ran = 0
    /\ mStop = FALSE /\ mTimeout = FALSE
    /\ mTimersById = <<>> /\ mTimersByTime = <<>> /\ mNextTimerId = 0 /\ made = 0
    /\ pipe = <<>> /\ pipeEdge = FALSE
    /\ mSockets = {}
    /\ interest = [f \in Fds |-> "none"]
    /\ cond = [f \in Fds |-> "none"]
    /\ edge = [f \in Fds |-> FALSE]
    /\ owed = [f \in Fds |-> FALSE]
    /\ now = 0
    /\ pc = "idle"
    /\ fired = {} /\ roundNow = 0
    /\ waitUntil = -1 /\ inactive = FALSE /\ deadline = -1 /\ pollStart = 0
    /\ batch = {} /\ firing = NoEvent
    /\ quitTimerId = -1 /\ ret = "none"
    /\ calls = [exec |-> 0, quit |-> 0, socket |-> 0, signal |-> 0, fd |-> 0, interrupt |-> 0]
-----------------------------------------------------------------------------
(* Calls from user code: by the loop's own thread in a callback or outside *)
(* exec, by another thread at any time.                                    *)

MayCall(t) ==
    /\ mMutex = "free"
    /\ t = "loop" => pc \in UserCode

(* A wakeup that spares the write unless the loop is asleep. *)
LazyWakeup(t) == mMutex' = IF t = "loop" \/ pc # "poll" THEN "free" ELSE t

(* wakeup, up to its write: nothing to do on the loop's own thread. *)
Wakeup(t) == mMutex' = IF t = "loop" THEN "free" ELSE t

Count(call, max) ==
    /\ calls[call] < max
    /\ calls' = [calls EXCEPT ![call] = @ + 1]

(* wakeup's write, and the release of mMutex when the caller returns. *)
WriteWakeup(t) ==
    /\ mMutex = t
    /\ Len(pipe) < PipeCapacity
    /\ pipe' = Append(pipe, "w")
    /\ pipeEdge' = TRUE
    /\ mMutex' = "free"
    /\ UNCHANGED <<queueVars, stopVars, timerVars, socketVars, now, pc, localVars, calls>>

(* A post that jumps the queue. *)
BadPost(t) ==
    /\ MayCall(t)
    /\ posted < MaxPosts
    /\ posted' = posted + 1
    /\ mEvents' = <<posted'>> \o mEvents
    /\ Wakeup(t)
    /\ UNCHANGED <<ran, stopVars, timerVars, pipeVars, socketVars, now, pc, localVars, calls>>

Post(t) ==
    /\ MayCall(t)
    /\ posted < MaxPosts
    /\ posted' = posted + 1
    /\ mEvents' = Append(mEvents, posted')
    /\ Wakeup(t)
    /\ UNCHANGED <<ran, stopVars, timerVars, pipeVars, socketVars, now, pc, localVars, calls>>

(* A quit without wakeup. *)
SilentQuit(t) ==
    /\ MayCall(t)
    /\ Count("quit", MaxQuits)
    /\ mStop' = TRUE
    /\ UNCHANGED <<mMutex, queueVars, mTimeout, timerVars, pipeVars, socketVars, now, pc, localVars>>

Quit(t) ==
    /\ MayCall(t)
    /\ Count("quit", MaxQuits)
    /\ mStop' = TRUE
    /\ Wakeup(t)
    /\ UNCHANGED <<queueVars, mTimeout, timerVars, pipeVars, socketVars, now, pc, localVars>>

(* signalHandler: SIGINT and SIGTERM write to the pipe, without mMutex. *)
Signal ==
    /\ Count("signal", MaxSignals)
    /\ Len(pipe) < PipeCapacity
    /\ pipe' = Append(pipe, "q")
    /\ pipeEdge' = TRUE
    /\ UNCHANGED <<mMutex, queueVars, stopVars, timerVars, socketVars, now, pc, localVars>>

(* The position at which a multiset puts an element with this key: after   *)
(* the ones that are not greater.                                          *)
UpperBound(s, timers, when, i) ==
    /\ i \in 1 .. Len(s) + 1
    /\ \A j \in 1 .. Len(s) : j < i <=> timers[s[j]].when <= when

With(f, x, v)  == [y \in DOMAIN f \cup {x} |-> IF y = x THEN v ELSE f[y]]
Without(f, x)  == [y \in DOMAIN f \ {x} |-> f[y]]

(* The id that the loop of registerTimer ends on: the next one not in use. *)
NextId(id) ==
    \E k \in 1 .. IdMod :
        /\ id = (mNextTimerId + k) % IdMod
        /\ id \notin DOMAIN mTimersById
        /\ \A j \in 1 .. k - 1 : (mNextTimerId + j) % IdMod \in DOMAIN mTimersById

AddTimer(id, timer) ==
    /\ NextId(id)
    /\ mNextTimerId' = id
    /\ \E i \in 1 .. Len(mTimersByTime) + 1 :
          /\ UpperBound(mTimersByTime, mTimersById, timer.when, i)
          /\ mTimersByTime' = InsertAt(mTimersByTime, i, id)
    /\ mTimersById' = With(mTimersById, id, timer)

RegisterTimer(t) ==
    /\ MayCall(t)
    /\ made < MaxTimers
    /\ made' = made + 1
    /\ \E id \in Ids, timeout \in Intervals, single \in BOOLEAN :
          AddTimer(id, [when |-> now + timeout, interval |-> timeout,
                        single |-> single, cb |-> "user"])
    /\ Wakeup(t)
    /\ UNCHANGED <<queueVars, stopVars, pipeVars, socketVars, now, pc, localVars, calls>>

(* clearTimer: out of both containers; nothing when there is no such id.   *)
(* The abort at its end is TimersAgree's business.                         *)
ClearTimer(id) ==
    IF id \in DOMAIN mTimersById
      THEN /\ mTimersById' = Without(mTimersById, id)
           /\ \E i \in 1 .. Len(mTimersByTime) :
                 /\ mTimersByTime[i] = id
                 /\ mTimersByTime' = RemoveAt(mTimersByTime, i)
      ELSE UNCHANGED <<mTimersById, mTimersByTime>>

UnregisterTimer(t) ==
    /\ MayCall(t)
    /\ \E id \in DOMAIN mTimersById :
          /\ mTimersById[id].cb = "user"
          /\ ClearTimer(id)
    /\ UNCHANGED <<mMutex, queueVars, stopVars, mNextTimerId, made, pipeVars,
                   socketVars, now, pc, localVars, calls>>

(* registerSocket: epoll_ctl(ADD) fails with EEXIST when epoll knows the   *)
(* descriptor, and the function returns true all the same.  A condition    *)
(* that is already there is reported.                                      *)
RegisterSocket(t) ==
    /\ MayCall(t)
    /\ Count("socket", MaxSocketCalls)
    /\ \E f \in Fds, mode \in Modes :
          /\ mSockets' = mSockets \cup {f}
          /\ IF interest[f] = "none"
               THEN /\ interest' = [interest EXCEPT ![f] = mode]
                    /\ edge' = [edge EXCEPT ![f] = cond[f] # "none"]
                    /\ owed' = [owed EXCEPT ![f] = cond[f] # "none"]
               ELSE UNCHANGED <<interest, edge, owed>>
    /\ UNCHANGED <<mMutex, queueVars, stopVars, timerVars, pipeVars, cond, now, pc, localVars>>

(* updateSocket: epoll_ctl(MOD) arms the descriptor again, or fails with   *)
(* ENOENT, which is ignored, when epoll does not know it.                  *)
UpdateSocket(t) ==
    /\ MayCall(t)
    /\ Count("socket", MaxSocketCalls)
    /\ \E f \in mSockets, mode \in Modes :
          IF interest[f] = "none"
            THEN UNCHANGED <<interest, edge>>
            ELSE /\ interest' = [interest EXCEPT ![f] = mode]
                 /\ edge' = [edge EXCEPT ![f] = cond[f] # "none"]
    /\ UNCHANGED <<mMutex, queueVars, stopVars, timerVars, pipeVars, mSockets,
                   cond, owed, now, pc, localVars>>

(* epoll_ctl(DEL). *)
Forget(f) ==
    /\ interest' = [interest EXCEPT ![f] = "none"]
    /\ edge' = [edge EXCEPT ![f] = FALSE]

UnregisterSocket(t) ==
    /\ MayCall(t)
    /\ Count("socket", MaxSocketCalls)
    /\ \E f \in mSockets :
          /\ mSockets' = mSockets \ {f}
          /\ Forget(f)
          /\ owed' = [owed EXCEPT ![f] = FALSE]
    /\ UNCHANGED <<mMutex, queueVars, stopVars, timerVars, pipeVars, cond, now, pc, localVars>>
-----------------------------------------------------------------------------
(* exec and what it calls, on the loop's thread. *)

Goto(where) == pc' = where

(* exec, up to its loop: the quit timer is an ordinary single-shot timer. *)
Exec ==
    /\ pc = "idle"
    /\ mMutex = "free"
    /\ Count("exec", MaxExecs)
    /\ \E timeout \in ExecTimeouts :
          IF timeout = -1
            THEN UNCHANGED <<quitTimerId, mTimersById, mTimersByTime, mNextTimerId>>
            ELSE \E id \in Ids :
                    /\ now + timeout <= MaxTime
                    /\ AddTimer(id, [when |-> now + timeout, interval |-> timeout,
                                     single |-> TRUE, cb |-> "quit"])
                    /\ quitTimerId' = id
    /\ Goto("posted")
    /\ ret' = "none"
    /\ UNCHANGED <<mMutex, queueVars, stopVars, made, pipeVars, socketVars, now, fired,
                   roundNow, waitVars, batch, firing>>

(* sendPostedEvents: take one event and run it with mMutex released.  Its  *)
(* last look at an empty queue leads on to sendTimers.                     *)
SendPostedEvent ==
    /\ pc = "posted"
    /\ mMutex = "free"
    /\ IF mEvents # <<>>
         THEN /\ mEvents' = Tail(mEvents)
              /\ ran' = Head(mEvents)
              /\ Goto("event")
         ELSE /\ Goto("timers")
              /\ UNCHANGED <<mEvents, ran>>
    /\ UNCHANGED <<mMutex, posted, stopVars, timerVars, pipeVars, socketVars, now, localVars, calls>>

(* The time sendTimers compares with: read once, before the first timer. *)
RoundTime == IF fired = {} THEN now ELSE roundNow

(* The timer that an iteration of sendTimers looks at, at position i. *)
FirstUnfired(i) ==
    /\ mTimersByTime[i] \notin fired
    /\ \A j \in 1 .. i - 1 : mTimersByTime[j] \in fired

Due(i) == FirstUnfired(i) /\ mTimersById[mTimersByTime[i]].when <= RoundTime

(* Changing the time of a timer where it stands. *)
BadSendTimer ==
    /\ pc = "timers"
    /\ mMutex = "free"
    /\ \E i \in 1 .. Len(mTimersByTime) :
          LET id    == mTimersByTime[i]
              timer == mTimersById[id]
          IN  /\ Due(i)
              /\ IF timer.single
                   THEN /\ mTimersByTime' = RemoveAt(mTimersByTime, i)
                        /\ mTimersById' = Without(mTimersById, id)
                   ELSE /\ mTimersById' = [mTimersById EXCEPT ![id].when = @ + timer.interval]
                        /\ UNCHANGED mTimersByTime
              /\ fired' = fired \cup {id}
              /\ Goto(IF timer.cb = "quit" THEN "quitTimer" ELSE "timer")
    /\ roundNow' = RoundTime
    /\ UNCHANGED <<mMutex, queueVars, stopVars, mNextTimerId, made, pipeVars, socketVars, now,
                   waitVars, batch, firing, quitTimerId, ret, calls>>

(* One timer: a single shot leaves both containers before its callback, a  *)
(* periodic one is put back for its next time, overtime not accumulating.  *)
SendTimer ==
    /\ pc = "timers"
    /\ mMutex = "free"
    /\ \E i \in 1 .. Len(mTimersByTime) :
          LET id    == mTimersByTime[i]
              timer == mTimersById[id]
              rest  == RemoveAt(mTimersByTime, i)
              again == timer.when + timer.interval
          IN  /\ Due(i)
              /\ IF timer.single
                   THEN /\ mTimersByTime' = rest
                        /\ mTimersById' = Without(mTimersById, id)
                   ELSE /\ mTimersById' = [mTimersById EXCEPT ![id].when = again]
                        /\ \E k \in 1 .. Len(rest) + 1 :
                              /\ UpperBound(rest, mTimersById, again, k)
                              /\ mTimersByTime' = InsertAt(rest, k, id)
              /\ fired' = fired \cup {id}
              /\ Goto(IF timer.cb = "quit" THEN "quitTimer" ELSE "timer")
    /\ roundNow' = RoundTime
    /\ UNCHANGED <<mMutex, queueVars, stopVars, mNextTimerId, made, pipeVars, socketVars, now,
                   waitVars, batch, firing, quitTimerId, ret, calls>>

(* sendTimers returns: the round is repeated if it fired anything. *)
EndTimers ==
    /\ pc = "timers"
    /\ mMutex = "free"
    /\ \A i \in 1 .. Len(mTimersByTime) : ~Due(i)
    /\ Goto(IF fired = {} THEN "check" ELSE "posted")
    /\ fired' = {} /\ roundNow' = 0
    /\ UNCHANGED <<mMutex, queueVars, stopVars, timerVars, pipeVars, socketVars, now,
                   waitVars, batch, firing, quitTimerId, ret, calls>>

(* A timeout that is recorded but does not quit. *)
BadTimeoutQuit ==
    /\ pc \in {"quitTimer", "inactive"}
    /\ mMutex = "free"
    /\ mTimeout' = TRUE
    /\ Goto(IF pc = "quitTimer" THEN "timers" ELSE "posted")
    /\ UNCHANGED <<mMutex, queueVars, mStop, timerVars, pipeVars, socketVars, now, localVars, calls>>

(* mTimeout = true; quit(), by the quit timer and after an idle wait. *)
TimeoutQuit ==
    /\ pc \in {"quitTimer", "inactive"}
    /\ mMutex = "free"
    /\ mTimeout' = TRUE
    /\ mStop' = TRUE
    /\ Goto(IF pc = "quitTimer" THEN "timers" ELSE "posted")
    /\ UNCHANGED <<mMutex, queueVars, timerVars, pipeVars, socketVars, now, localVars, calls>>

CallbackReturns ==
    /\ pc \in {"event", "timer", "socket"}
    /\ Goto(CASE pc = "event" -> "posted" [] pc = "timer" -> "timers" [] pc = "socket" -> "process")
    /\ firing' = NoEvent
    /\ UNCHANGED <<mMutex, queueVars, stopVars, timerVars, pipeVars, socketVars, now, fired,
                   roundNow, waitVars, batch, quitTimerId, ret, calls>>

(* A late timer leaves a negative wait, which epoll_wait takes for none. *)
BadTimerWait ==
    IF mTimersByTime = <<>> THEN -1 ELSE mTimersById[mTimersByTime[1]].when - now

(* The time that is left until the first timer, -1 if there is none. *)
TimerWait ==
    IF mTimersByTime = <<>>
      THEN -1
      ELSE LET when == mTimersById[mTimersByTime[1]].when
           IN  IF when > now THEN when - now ELSE 0

(* waitUntil and waitingForInactivityTimeout, for epoll_wait. *)
PlanWait ==
    LET idle == TimerWait < 0 /\ InactivityTimeout > 0
    IN  /\ inactive' = idle
        /\ waitUntil' = IF idle THEN InactivityTimeout ELSE TimerWait
        /\ deadline' = IF waitUntil' < 0 THEN -1 ELSE now + waitUntil'
        /\ pollStart' = now

(* mTimeout survives the exec that it ends. *)
BadCheck ==
    /\ pc = "check"
    /\ mMutex = "free"
    /\ IF mStop
         THEN /\ mStop' = FALSE
              /\ ret' = IF mTimeout THEN "Timeout" ELSE "Success"
              /\ Goto("exit")
              /\ UNCHANGED <<mTimeout, waitVars>>
         ELSE /\ PlanWait
              /\ Goto("poll")
              /\ UNCHANGED <<stopVars, ret>>
    /\ UNCHANGED <<mMutex, queueVars, timerVars, pipeVars, socketVars, now, fired, roundNow,
                   batch, firing, quitTimerId, calls>>

(* The locked block of exec. *)
Check ==
    /\ pc = "check"
    /\ mMutex = "free"
    /\ IF mStop
         THEN /\ mStop' = FALSE
              /\ mTimeout' = FALSE
              /\ ret' = IF mTimeout THEN "Timeout" ELSE "Success"
              /\ Goto("exit")
              /\ UNCHANGED waitVars
         ELSE /\ PlanWait
              /\ Goto("poll")
              /\ UNCHANGED <<stopVars, ret>>
    /\ UNCHANGED <<mMutex, queueVars, timerVars, pipeVars, socketVars, now, fired, roundNow,
                   batch, firing, quitTimerId, calls>>

(* What epoll_wait would report. *)
Ready ==
    {[fd |-> f, ev |-> cond[f]] : f \in
        {g \in Fds : /\ cond[g] # "none"
                     /\ \/ interest[g] = "level"
                        \/ interest[g] \in {"edge", "oneshot"} /\ edge[g]}}
    \cup
    {[fd |-> "pipe", ev |-> "ready"] : x \in {y \in {pipeEdge} : y /\ pipe # <<>>}}

Reported(f) == \E h \in Ready : h.fd = f

(* The locals of one turn of exec's loop go out of scope. *)
EndWait == waitUntil' = -1 /\ inactive' = FALSE /\ deadline' = -1 /\ pollStart' = 0

PollReturns ==
    /\ pc = "poll"
    /\ Ready # {}
    /\ batch' = Ready
    /\ pipeEdge' = FALSE
    /\ edge' = [f \in Fds |-> edge[f] /\ ~Reported(f)]
    /\ interest' = [f \in Fds |->
          IF interest[f] = "oneshot" /\ Reported(f) THEN "disarmed" ELSE interest[f]]
    /\ Goto("process")
    /\ EndWait
    /\ UNCHANGED <<mMutex, queueVars, stopVars, timerVars, pipe, mSockets, cond, owed, now,
                   fired, roundNow, firing, quitTimerId, ret, calls>>

PollTimesOut ==
    /\ pc = "poll"
    /\ Ready = {}
    /\ waitUntil >= 0 /\ now >= pollStart + waitUntil
    /\ Goto(IF inactive THEN "inactive" ELSE "posted")
    /\ EndWait
    /\ UNCHANGED <<mMutex, queueVars, stopVars, timerVars, pipeVars, socketVars, now, fired,
                   roundNow, batch, firing, quitTimerId, ret, calls>>

(* EINTR, such as by the SIGCHLD of Process: eintrwrap calls epoll_wait    *)
(* again with all of waitUntil.  It stands for a thread that comes late to *)
(* epoll_wait, too.  The wait still ends within MaxTime.                   *)
PollInterrupted ==
    /\ pc = "poll"
    /\ Ready = {}
    /\ Count("interrupt", MaxInterrupts)
    /\ now + waitUntil <= MaxTime
    /\ pollStart' = now
    /\ UNCHANGED <<mMutex, queueVars, stopVars, timerVars, pipeVars, socketVars, now, pc, fired,
                   roundNow, waitUntil, inactive, deadline, batch, firing, quitTimerId, ret>>

PollFails ==
    /\ pc = "poll"
    /\ EpollMayFail
    /\ ret' = "GeneralError"
    /\ Goto("exit")
    /\ EndWait
    /\ UNCHANGED <<mMutex, queueVars, stopVars, timerVars, pipeVars, socketVars, now, fired,
                   roundNow, batch, firing, quitTimerId, calls>>

(* Draining the pipe: up to EAGAIN, or to a signal's 'q', which makes      *)
(* processSocketEvents and exec return with the rest untouched.            *)
DrainPipe ==
    /\ pc = "process"
    /\ \E h \in batch :
          /\ h.fd = "pipe"
          /\ \/ /\ \A i \in 1 .. Len(pipe) : pipe[i] # "q"
                /\ pipe' = <<>>
                /\ batch' = batch \ {h}
                /\ UNCHANGED <<ret, pc>>
             \/ /\ \E i \in 1 .. Len(pipe) :
                      /\ pipe[i] = "q"
                      /\ \A j \in 1 .. i - 1 : pipe[j] # "q"
                      /\ pipe' = SubSeq(pipe, i + 1, Len(pipe))
                /\ batch' = {}
                /\ ret' = "Success"
                /\ Goto("exit")
    /\ UNCHANGED <<mMutex, queueVars, stopVars, timerVars, pipeEdge, socketVars, now, fired,
                   roundNow, waitVars, firing, quitTimerId, calls>>

(* Only the first event of a batch is looked at. *)
BadTakeSocketEvent ==
    /\ pc = "process"
    /\ \E h \in batch :
          /\ h.fd # "pipe"
          /\ h.ev = "ready"
          /\ batch' = {}
          /\ firing' = h
    /\ Goto("fire")
    /\ UNCHANGED <<mMutex, queueVars, stopVars, timerVars, pipeVars, socketVars, now, fired,
                   roundNow, waitVars, quitTimerId, ret, calls>>

(* An event of a descriptor: after an error or hang-up epoll forgets it    *)
(* first.                                                                  *)
TakeSocketEvent ==
    /\ pc = "process"
    /\ \E h \in batch :
          /\ h.fd # "pipe"
          /\ IF h.ev = "hup"
               THEN Forget(h.fd) /\ Goto("erase")
               ELSE UNCHANGED <<interest, edge>> /\ Goto("fire")
          /\ batch' = batch \ {h}
          /\ firing' = h
    /\ UNCHANGED <<mMutex, queueVars, stopVars, timerVars, pipeVars, mSockets, cond, owed, now,
                   fired, roundNow, waitVars, quitTimerId, ret, calls>>

(* mSockets forgets it too, before fireSocket looks for its callback, and  *)
(* whatever another thread has registered for it since.                    *)
EraseSocket ==
    /\ pc = "erase"
    /\ mMutex = "free"
    /\ mSockets' = mSockets \ {firing.fd}
    /\ owed' = [owed EXCEPT ![firing.fd] = FALSE]
    /\ Goto("fire")
    /\ UNCHANGED <<mMutex, queueVars, stopVars, timerVars, pipeVars, interest, cond, edge, now,
                   localVars, calls>>

FireSocket ==
    /\ pc = "fire"
    /\ mMutex = "free"
    /\ IF firing.fd \in mSockets
         THEN /\ owed' = [owed EXCEPT ![firing.fd] = FALSE]
              /\ Goto("socket")
              /\ UNCHANGED firing
         ELSE /\ Goto("process")
              /\ firing' = NoEvent
              /\ UNCHANGED owed
    /\ UNCHANGED <<mMutex, queueVars, stopVars, timerVars, pipeVars, mSockets, interest, cond,
                   edge, now, fired, roundNow, waitVars, batch, quitTimerId, ret, calls>>

(* Back to epoll_wait without a look at the queue. *)
BadEndBatch ==
    /\ pc = "process"
    /\ batch = {}
    /\ Goto("check")
    /\ UNCHANGED <<mMutex, queueVars, stopVars, timerVars, pipeVars, socketVars, now, localVars, calls>>

EndBatch ==
    /\ pc = "process"
    /\ batch = {}
    /\ Goto("posted")
    /\ UNCHANGED <<mMutex, queueVars, stopVars, timerVars, pipeVars, socketVars, now, localVars, calls>>

(* The end of exec: clearTimer, which here runs without mMutex. *)
Exit ==
    /\ pc = "exit"
    /\ IF quitTimerId = -1
         THEN UNCHANGED <<mTimersById, mTimersByTime>>
         ELSE ClearTimer(quitTimerId)
    /\ quitTimerId' = -1
    /\ Goto("idle")
    /\ UNCHANGED <<mMutex, queueVars, stopVars, mNextTimerId, made, pipeVars, socketVars, now,
                   fired, roundNow, waitVars, batch, firing, ret, calls>>
-----------------------------------------------------------------------------
(* The clock, and what the peers of the descriptors do. *)

Tick ==
    /\ now < MaxTime
    /\ now' = now + 1
    /\ UNCHANGED <<mMutex, queueVars, stopVars, timerVars, pipeVars, socketVars, pc, localVars, calls>>

FdEvent ==
    /\ Count("fd", MaxFdEvents)
    /\ \E f \in Fds, c \in {"ready", "hup"} :
          /\ cond[f] # "hup"
          /\ cond' = [cond EXCEPT ![f] = c]
          /\ edge' = [edge EXCEPT ![f] = interest[f] # "none"]
          /\ owed' = [owed EXCEPT ![f] = f \in mSockets]
    /\ UNCHANGED <<mMutex, queueVars, stopVars, timerVars, pipeVars, mSockets, interest, now, pc, localVars>>

(* A callback that reads or writes until EAGAIN. *)
Consume ==
    /\ pc = "socket"
    /\ cond[firing.fd] = "ready"
    /\ cond' = [cond EXCEPT ![firing.fd] = "none"]
    /\ owed' = [owed EXCEPT ![firing.fd] = FALSE]
    /\ UNCHANGED <<mMutex, queueVars, stopVars, timerVars, pipeVars, mSockets, interest, edge,
                   now, pc, localVars, calls>>
-----------------------------------------------------------------------------
LoopStep ==
    \/ SendPostedEvent \/ SendTimer \/ EndTimers \/ TimeoutQuit \/ CallbackReturns
    \/ Check \/ PollReturns \/ PollTimesOut
    \/ DrainPipe \/ TakeSocketEvent \/ EraseSocket \/ FireSocket \/ EndBatch \/ Exit

Call(t) ==
    \/ Post(t) \/ Quit(t) \/ RegisterTimer(t) \/ UnregisterTimer(t)
    \/ RegisterSocket(t) \/ UpdateSocket(t) \/ UnregisterSocket(t)

Next ==
    \/ Exec \/ LoopStep \/ PollInterrupted \/ PollFails
    \/ \E t \in Threads \cup {"loop"} : Call(t)
    \/ \E t \in Threads : WriteWakeup(t)
    \/ Signal \/ Tick \/ FdEvent \/ Consume

Spec == Init /\ [][Next]_vars

(* The loop's thread and a thread in wakeup run on, callbacks return, time *)
(* passes; nobody has to call anything.                                    *)
Fairness ==
    /\ WF_vars(LoopStep)
    /\ WF_vars(Tick)
    /\ \A t \in Threads : WF_vars(WriteWakeup(t))

FairSpec == Spec /\ Fairness
-----------------------------------------------------------------------------
TypeQueue ==
    /\ mMutex \in Threads \cup {"free"}
    /\ mEvents \in Seq(Nat) /\ posted \in Nat /\ ran \in Nat

TimerMap(f) ==
    /\ f = [id \in DOMAIN f |-> f[id]]
    /\ DOMAIN f \subseteq Ids
    /\ \A id \in DOMAIN f : f[id] \in Timers

TypeTimers ==
    /\ TimerMap(mTimersById)
    /\ mTimersByTime \in Seq(Ids)
    /\ mNextTimerId \in Ids /\ made \in Nat

TypeFlags ==
    /\ mStop \in BOOLEAN /\ mTimeout \in BOOLEAN
    /\ pipe \in Seq({"w", "q"}) /\ pipeEdge \in BOOLEAN

TypeSockets ==
    /\ mSockets \subseteq Fds
    /\ interest \in [Fds -> Modes \cup {"none", "disarmed"}]
    /\ cond \in [Fds -> {"none", "ready", "hup"}]
    /\ edge \in [Fds -> BOOLEAN] /\ owed \in [Fds -> BOOLEAN]
    /\ batch \subseteq Happening /\ firing \in Happening

TypeLoop ==
    /\ now \in Nat
    /\ pc \in PCs
    /\ fired \subseteq Ids /\ roundNow \in Nat
    /\ waitUntil \in Nat \cup {-1} /\ inactive \in BOOLEAN
    /\ deadline \in Nat \cup {-1} /\ pollStart \in Nat
    /\ quitTimerId \in Ids \cup {-1}
    /\ ret \in {"none", "Success", "Timeout", "GeneralError"}
    /\ calls \in [{"exec", "quit", "socket", "signal", "fd", "interrupt"} -> Nat]

TypeOK == TypeQueue /\ TypeTimers /\ TypeFlags /\ TypeSockets /\ TypeLoop

(* epoll_wait is about to return because of the pipe, or somebody is about *)
(* to make it.                                                             *)
WakeupComing == mMutex \in Threads \/ (pipeEdge /\ pipe # <<>>)

(* A timer whose time comes before epoll_wait gives up, if nothing makes   *)
(* it wait again.                                                          *)
Oversleeps(id) ==
    \/ deadline = -1
    \/ mTimersById[id].when < deadline /\ now < deadline

(* While the loop sleeps in epoll_wait, an event in the queue, a quit, and *)
(* a timer earlier than the planned end of it each have a wake-up coming.  *)
(* It is the reason for wakeup, and rests on the queue being looked at     *)
(* before, and mStop and the timers under the lock just before the wait.   *)
NoLostWakeup ==
    pc = "poll" =>
        \/ WakeupComing
        \/ /\ mEvents = <<>>
           /\ ~mStop
           /\ \A id \in DOMAIN mTimersById : ~Oversleeps(id)

(* s lists the timers of f, each once, by time. *)
Agree(s, f) ==
    /\ \A id \in DOMAIN f : \E i \in 1 .. Len(s) : s[i] = id
    /\ \A i \in 1 .. Len(s) : s[i] \in DOMAIN f
    /\ \A i, j \in 1 .. Len(s) : i < j => s[i] # s[j] /\ f[s[i]].when <= f[s[j]].when

(* The two timer containers hold the same timers, each once, by time, so   *)
(* that the first of mTimersByTime is the next one due and clearTimer      *)
(* never comes to its abort "Found timer by id but not by timeout".        *)
TimersAgree == Agree(mTimersByTime, mTimersById)

(* What makes NoLostWakeup inductive: from the empty look at the queue on, *)
(* a post leaves a wake-up behind; from the locked check on, so do a quit  *)
(* and an earlier timer.  A round of sendTimers that has fired goes back   *)
(* to the queue.                                                           *)
PastTheQueue == pc \in {"check", "poll"} \/ (pc = "timers" /\ fired = {})

QueueWatched == PastTheQueue => WakeupComing \/ mEvents = <<>>
StopWatched  == pc = "poll" => WakeupComing \/ ~mStop
TimerWatched == pc = "poll" => WakeupComing \/ \A id \in DOMAIN mTimersById : ~Oversleeps(id)
RoundOpen    == pc \in {"timer", "quitTimer"} => fired # {}

IInv == TypeOK /\ TimersAgree /\ QueueWatched /\ StopWatched /\ TimerWatched /\ RoundOpen

(* mTimeout belongs to the exec that is timing out: it is set only with    *)
(* mStop, is gone before the loop sleeps or returns, and so can never make *)
(* a later exec report a timeout that did not happen.                      *)
TimeoutIsFresh ==
    mTimeout => mStop /\ pc \notin {"idle", "poll", "inactive", "process", "erase", "fire", "socket", "exit"}

(* exec(timeout) answers Timeout only when its own quit timer has fired.   *)
TimeoutIsEarned ==
    pc = "exit" /\ ret = "Timeout" /\ InactivityTimeout = 0 =>
        quitTimerId \in Ids \ DOMAIN mTimersById

(* The only quit timer is that of the exec under way: one left behind by   *)
(* an exec that returned early would stop a later one.                     *)
NoStaleQuitTimer ==
    \A id \in DOMAIN mTimersById :
        mTimersById[id].cb = "quit" => pc # "idle" /\ id = quitTimerId

(* A change on a registered, armed descriptor that its callback has not    *)
(* been told of is still to be reported, or is in the batch at hand.       *)
NoLostReadiness ==
    \A f \in mSockets :
        owed[f] /\ interest[f] \in Modes =>
            \/ cond[f] # "none" /\ (edge[f] \/ interest[f] = "level")
            \/ \E h \in batch : h.fd = f
            \/ pc = "fire" /\ firing.fd = f

(* After quit, exec returns. *)
QuitReturns == mStop /\ pc # "idle" ~> pc = "idle"

(* An exec with a timeout returns, late if epoll_wait was interrupted. *)
ExecTimesOut == quitTimerId # -1 ~> pc = "idle"

(* An event that is posted runs, unless exec returns first. *)
PostsRun == \A n \in 1 .. MaxPosts : posted >= n ~> ran >= n \/ pc = "idle"

(* A timer that is due fires, or is unregistered, unless exec returns: the *)
(* wait is never negative for a timer that is late, which epoll_wait would *)
(* take for ever, and a wait that signals make start again ends.           *)
TimersFire ==
    \A id \in Ids :
        LET due == id \in DOMAIN mTimersById /\ mTimersById[id].when <= now
        IN  due ~> ~due \/ pc = "idle"

(* The queue holds the numbers after the last one run. *)
InOrder ==
    /\ posted = ran + Len(mEvents)
    /\ \A i \in 1 .. Len(mEvents) : mEvents[i] = ran + i

Box == INSTANCE Mailbox WITH waiting <- mEvents, sent <- posted, handed <- ran

(* Posted events run in order, each once. *)
ImplementsMailbox == Box!BoxSpec
=============================================================================
