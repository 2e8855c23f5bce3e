------------------------------- MODULE Process -------------------------------
(***************************************************************************)
(* rct/Process.cpp: children started by exec, which waits in select, and   *)
(* by start, which leaves the child to an event loop; one thread           *)
(* (ProcessThread) reaps every child and hands its status to the Process.  *)
(*                                                                         *)
(* The reaper holds sProcessMutex from the byte of SIGCHLD until waitpid   *)
(* finds no more children, except around finish; every other section under *)
(* it, and every section under a Process's mMutex, is one step.  kill and  *)
(* the timeout of exec read and write without a lock and are cut at each   *)
(* access where the reaper may come between.  The slots of readyReadStdOut *)
(* run inside exec and may call kill.  stdout stands for stderr too, which *)
(* runs through the same code; stdin is modelled in ProcessInput.  Nobody  *)
(* takes output out of the buffer.                                         *)
(***************************************************************************)
EXTENDS Integers, Sequences, FiniteSets, Functions

CONSTANTS
    Syncs,          \* Process objects used with exec, each by its own thread
    Asyncs,         \* Process objects used with start, all by the loop's thread
    Timeouts,       \* those of Syncs whose exec is given a timeout
    SlotKills,      \* those of Syncs that a slot of readyReadStdOut may kill
    Pids,
    ReusePids,      \* whether a pid may come again once its child was reaped
    Codes,          \* exit codes of a child that ends by itself
    MaxStarts,      \* calls of exec and start in all
    MaxOutput,      \* units the children of the calls under way write in all
    MaxSize         \* units mStdOutBuffer holds

Procs == Syncs \cup Asyncs

ReturnCrashed == -1
ReturnUnset   == -2
ReturnKilled  == -3
ExecFailed    == 1      \* the code of a child that could not exec

NoPid  == -1
NoProc == "no process"

ASSUME ProcessAssumption ==
    /\ Syncs \cap Asyncs = {} /\ Timeouts \subseteq Syncs /\ SlotKills \subseteq Syncs
    /\ Pids \subseteq Nat /\ NoProc \notin Procs
    /\ ReusePids \in BOOLEAN
    /\ Codes \subseteq 0 .. 255
    /\ MaxStarts \in Nat /\ MaxOutput \in Nat /\ MaxSize \in Nat \ {0}

VARIABLES
    sPending, sPendingPids, sProcesses,     \* of ProcessThread
    reaper,         \* where its run is, and the Process and status in its hands
    sProcessPipe,   \* bytes in the pipe that wakes it
    sigchld,        \* whether a SIGCHLD is pending
    child,          \* the kernel's table: state, owner and status of each pid
    pc,             \* where the call of each Process is
    mReturn, mPid,
    mSync,          \* whether the byte of finish is in the pipe of exec
    closePipe,      \* what the pipe of the start handshake holds
    wrote, got,     \* output of the child: written, and read by handleOutput
    loopAlive, later,       \* the event loop and the finishes posted to it
    starts,         \* calls of start or exec so far
    run, exit       \* history: the child of this call, and how it ended

threadVars == <<sPending, sPendingPids, sProcesses>>
kernelVars == <<child, sigchld, closePipe, run, exit>>
loopVars   == <<loopAlive, later>>
outVars    == <<wrote, got>>
vars == <<threadVars, reaper, sProcessPipe, kernelVars, pc, mReturn, mPid, mSync, outVars, loopVars, starts>>

Returns == Codes \cup {ReturnCrashed, ReturnUnset, ReturnKilled, ExecFailed}

Starting == {"fork", "bail", "handshake", "failed", "add"}
Waiting  == {"select", "slot", "slotKilling", "check", "kill", "killing", "remove"}
Returned == {"Error", "Done", "TimedOut", "finished"}

TypeOK ==
    /\ sPending \in Int
    /\ DOMAIN sPendingPids \subseteq Pids
    /\ \A pid \in DOMAIN sPendingPids : sPendingPids[pid] \in Returns
    /\ DOMAIN sProcesses \subseteq Pids
    /\ \A pid \in DOMAIN sProcesses : sProcesses[pid] \in Procs \cup {NoProc}
    /\ reaper \in [at : {"read", "reap", "call", "relock"}, proc : Procs \cup {NoProc}, ret : Returns]
    /\ sProcessPipe \in Nat
    /\ sigchld \in BOOLEAN
    /\ child \in [Pids -> [at : {"free", "forked", "failing", "running", "zombie", "reaped"},
                           owner : Procs \cup {NoProc}, code : Returns]]
    /\ pc \in [Procs -> {"idle", "running"} \cup Starting \cup Waiting \cup Returned]
    /\ mReturn \in [Procs -> Returns]
    /\ mPid \in [Procs -> Pids \cup {NoPid}]
    /\ mSync \in [Procs -> BOOLEAN]
    /\ closePipe \in [Procs -> {"open", "c", "eof"}]
    /\ wrote \in [Procs -> Nat]
    /\ got \in [Procs -> Nat]
    /\ loopAlive \in BOOLEAN
    /\ later \in Seq([proc : Asyncs, ret : Returns])
    /\ starts \in 0 .. MaxStarts
    /\ run \in [Procs -> Pids \cup {NoPid}]
    /\ exit \in [Procs -> Returns]

Init ==
    /\ sPending = 0 /\ sPendingPids = <<>> /\ sProcesses = <<>>
    /\ reaper = [at |-> "read", proc |-> NoProc, ret |-> ReturnUnset]
    /\ sProcessPipe = 0 /\ sigchld = FALSE
    /\ child = [pid \in Pids |-> [at |-> "free", owner |-> NoProc, code |-> ReturnUnset]]
    /\ pc = [p \in Procs |-> "idle"]
    /\ mReturn = [p \in Procs |-> ReturnUnset]
    /\ mPid = [p \in Procs |-> NoPid]
    /\ mSync = [p \in Procs |-> FALSE]
    /\ closePipe = [p \in Procs |-> "open"]
    /\ wrote = [p \in Procs |-> 0] /\ got = [p \in Procs |-> 0]
    /\ loopAlive = TRUE /\ later = <<>>
    /\ starts = 0
    /\ run = [p \in Procs |-> NoPid] /\ exit = [p \in Procs |-> ReturnUnset]

-----------------------------------------------------------------------------
(* Helpers *)

Without(f, x) == [y \in DOMAIN f \ {x} |-> f[y]]

Put(f, x, v) == [y \in DOMAIN f \cup {x} |-> IF y = x THEN v ELSE f[y]]

MutexFree == reaper.at # "reap"

(* start runs on the loop's thread, which does nothing else meanwhile *)
LoopIdle == loopAlive /\ \A p \in Asyncs : pc[p] \notin Starting

Goto(p, where) == pc' = [pc EXCEPT ![p] = where]

SetPending(n) ==
    /\ MutexFree
    /\ sPending' = sPending + n
    /\ sPendingPids' = IF n = 0 THEN <<>> ELSE sPendingPids
    /\ UNCHANGED sProcesses

(* handleOutput reads until the pipe is empty *)
HandleOutput(p) == got' = [got EXCEPT ![p] = wrote[p]]

(* What mStdOutBuffer holds of n units read: when the next one does not    *)
(* fit, handleOutput first drops all that are in it                        *)
Buffered(n) == IF n <= MaxSize THEN n ELSE ((n - 1) % MaxSize) + 1

(* The part of finish that needs no loop: the status is set, exec is woken *)
Finish(p, ret) ==
    /\ mReturn' = [mReturn EXCEPT ![p] = ret]
    /\ mPid' = [mPid EXCEPT ![p] = NoPid]
    /\ mSync' = [mSync EXCEPT ![p] = p \in Syncs]

-----------------------------------------------------------------------------
(* startInternal up to the handshake with the child *)

Start(p) ==
    /\ pc[p] = "idle" /\ starts < MaxStarts
    /\ p \in Asyncs => LoopIdle
    /\ SetPending(1)
    /\ Goto(p, "fork")
    /\ starts' = starts + 1
    /\ UNCHANGED <<reaper, sProcessPipe, kernelVars, mReturn, mPid, mSync, outVars, loopVars>>

(* Pids are handed out in order *)
FreePids == {pid \in Pids : child[pid].at = "free" \/ (ReusePids /\ child[pid].at = "reaped")}

Fork(p) ==
    /\ pc[p] = "fork"
    /\ \E pid \in FreePids :
        /\ \A other \in FreePids : pid <= other
        /\ child' = [child EXCEPT ![pid] = [at |-> "forked", owner |-> p, code |-> ReturnUnset]]
        /\ mPid' = [mPid EXCEPT ![p] = pid]
        /\ run' = [run EXCEPT ![p] = pid]
    /\ Goto(p, "handshake")
    /\ UNCHANGED <<threadVars, reaper, sProcessPipe, sigchld, closePipe, exit, mReturn, mSync, outVars, loopVars, starts>>

ForkFails(p) ==
    /\ pc[p] = "fork"
    /\ Goto(p, "bail")
    /\ UNCHANGED <<threadVars, reaper, sProcessPipe, kernelVars, mReturn, mPid, mSync, outVars, loopVars, starts>>

(* setPending(-1) and return Error, after a fork or a handshake that failed *)
GiveUp(p) ==
    /\ pc[p] \in {"bail", "failed"}
    /\ SetPending(-1)
    /\ Goto(p, "Error")
    /\ UNCHANGED <<reaper, sProcessPipe, kernelVars, mReturn, mPid, mSync, outVars, loopVars, starts>>

(* The read of closePipe: its end, or the byte of a child that cannot exec *)
Handshake(p) ==
    /\ pc[p] = "handshake"
    /\ \/ /\ closePipe[p] = "eof"
          /\ Goto(p, "add")
          /\ UNCHANGED <<mReturn, mPid>>
       \/ /\ closePipe[p] = "c"
          /\ Goto(p, "failed")
          /\ mReturn' = [mReturn EXCEPT ![p] = ReturnCrashed]
          /\ mPid' = [mPid EXCEPT ![p] = NoPid]
    /\ UNCHANGED <<threadVars, reaper, sProcessPipe, kernelVars, mSync, outVars, loopVars, starts>>

(* addPid: the status may be there already *)
AddPidKnown(p) ==
    LET ret == sPendingPids[mPid[p]] IN
    /\ pc[p] = "add" /\ MutexFree
    /\ mPid[p] \in DOMAIN sPendingPids
    /\ sPending' = sPending - 1
    /\ sPendingPids' = IF sPending' = 0 THEN <<>> ELSE Without(sPendingPids, mPid[p])
    /\ IF p \in Asyncs
       THEN /\ later' = Append(later, [proc |-> p, ret |-> ret])
            /\ UNCHANGED <<mReturn, mPid, mSync>>
       ELSE /\ Finish(p, ret)
            /\ UNCHANGED later
    /\ Goto(p, IF p \in Asyncs THEN "running" ELSE "select")
    /\ UNCHANGED <<sProcesses, reaper, sProcessPipe, kernelVars, outVars, loopAlive, starts>>

(* Mutant: addPid does not look for a status that came first *)
AddPidUnchecked(p) ==
    /\ pc[p] = "add" /\ MutexFree
    /\ sPending' = sPending - 1
    /\ sPendingPids' = IF sPending' = 0 THEN <<>> ELSE sPendingPids
    /\ sProcesses' = Put(sProcesses, mPid[p], p)
    /\ Goto(p, IF p \in Asyncs THEN "running" ELSE "select")
    /\ UNCHANGED <<reaper, sProcessPipe, kernelVars, mReturn, mPid, mSync, outVars, loopVars, starts>>

AddPid(p) ==
    /\ pc[p] = "add" /\ MutexFree
    /\ mPid[p] \notin DOMAIN sPendingPids
    /\ sPending' = sPending - 1
    /\ sPendingPids' = IF sPending' = 0 THEN <<>> ELSE sPendingPids
    /\ sProcesses' = Put(sProcesses, mPid[p], p)
    /\ Goto(p, IF p \in Asyncs THEN "running" ELSE "select")
    /\ UNCHANGED <<reaper, sProcessPipe, kernelVars, mReturn, mPid, mSync, outVars, loopVars, starts>>

-----------------------------------------------------------------------------
(* exec, waiting in select *)

(* select returns for output, which the slots are told of, or for the time, *)
(* and finish has not yet written                                           *)
SelectReturns(p) ==
    /\ pc[p] = "select" /\ ~mSync[p]
    /\ got[p] < wrote[p] \/ p \in Timeouts
    /\ HandleOutput(p)
    /\ Goto(p, IF got[p] < wrote[p] /\ p \in SlotKills THEN "slot" ELSE "check")
    /\ UNCHANGED <<threadVars, reaper, sProcessPipe, kernelVars, mReturn, mPid, mSync, wrote, loopVars, starts>>

(* Mutant: exec returns without a last look at the output *)
SelectDoneEarly(p) ==
    /\ pc[p] = "select" /\ mSync[p]
    /\ mSync' = [mSync EXCEPT ![p] = FALSE]
    /\ Goto(p, "Done")
    /\ UNCHANGED <<threadVars, reaper, sProcessPipe, kernelVars, mReturn, mPid, outVars, loopVars, starts>>

SelectDone(p) ==
    /\ pc[p] = "select" /\ mSync[p]
    /\ HandleOutput(p)
    /\ mSync' = [mSync EXCEPT ![p] = FALSE]
    /\ Goto(p, "Done")
    /\ UNCHANGED <<threadVars, reaper, sProcessPipe, kernelVars, mReturn, mPid, wrote, loopVars, starts>>

(* A slot that does not kill *)
SlotReturns(p) ==
    /\ pc[p] = "slot"
    /\ Goto(p, "check")
    /\ UNCHANGED <<threadVars, reaper, sProcessPipe, kernelVars, mReturn, mPid, mSync, outVars, loopVars, starts>>

CheckTime(p) ==
    /\ pc[p] = "check"
    /\ \/ Goto(p, "select")
       \/ p \in Timeouts /\ Goto(p, "kill")
    /\ UNCHANGED <<threadVars, reaper, sProcessPipe, kernelVars, mReturn, mPid, mSync, outVars, loopVars, starts>>

(* kill, called by a slot or at the timeout: it tests mReturn and mPid,    *)
(* then sets mReturn and sends the signal, all without a lock.  A child    *)
(* may end of a signal at any time: ChildEnds.                             *)
KillTests(p) ==
    /\ pc[p] \in {"slot", "kill"}
    /\ Goto(p, IF mReturn[p] # ReturnUnset \/ mPid[p] = NoPid
               THEN (IF pc[p] = "slot" THEN "check" ELSE "remove")
               ELSE (IF pc[p] = "slot" THEN "slotKilling" ELSE "killing"))
    /\ UNCHANGED <<threadVars, reaper, sProcessPipe, kernelVars, mReturn, mPid, mSync, outVars, loopVars, starts>>

KillSends(p) ==
    /\ pc[p] \in {"slotKilling", "killing"}
    /\ mReturn' = [mReturn EXCEPT ![p] = ReturnKilled]
    /\ Goto(p, IF pc[p] = "slotKilling" THEN "check" ELSE "remove")
    /\ UNCHANGED <<threadVars, reaper, sProcessPipe, kernelVars, mPid, mSync, outVars, loopVars, starts>>

RemovePid(p) ==
    /\ pc[p] = "remove" /\ MutexFree
    /\ sProcesses' = [pid \in DOMAIN sProcesses |-> IF pid = mPid[p] THEN NoProc ELSE sProcesses[pid]]
    /\ Goto(p, "TimedOut")
    /\ UNCHANGED <<sPending, sPendingPids, reaper, sProcessPipe, kernelVars, mReturn, mPid, mSync, outVars, loopVars, starts>>

-----------------------------------------------------------------------------
(* The event loop of the asynchronous processes *)

LoopOutput(p) ==
    /\ p \in Asyncs /\ LoopIdle
    /\ pc[p] = "running" /\ got[p] < wrote[p]
    /\ HandleOutput(p)
    /\ UNCHANGED <<threadVars, reaper, sProcessPipe, kernelVars, pc, mReturn, mPid, mSync, wrote, loopVars, starts>>

(* kill in a callback of the loop: mReturn and mPid of an asynchronous     *)
(* process that runs are written by the loop's thread alone                *)
LoopKill(p) ==
    /\ p \in Asyncs /\ LoopIdle
    /\ pc[p] = "running" /\ mReturn[p] = ReturnUnset /\ mPid[p] # NoPid
    /\ mReturn' = [mReturn EXCEPT ![p] = ReturnKilled]
    /\ UNCHANGED <<threadVars, reaper, sProcessPipe, kernelVars, pc, mPid, mSync, outVars, loopVars, starts>>

LoopFinish ==
    /\ LoopIdle /\ later # <<>>
    /\ LET p == Head(later).proc IN
        /\ Finish(p, Head(later).ret)
        /\ HandleOutput(p)
        /\ Goto(p, "finished")
    /\ later' = Tail(later)
    /\ UNCHANGED <<threadVars, reaper, sProcessPipe, kernelVars, wrote, loopAlive, starts>>

LoopEnds ==
    /\ LoopIdle
    /\ loopAlive' = FALSE
    /\ later' = <<>>
    /\ UNCHANGED <<threadVars, reaper, sProcessPipe, kernelVars, pc, mReturn, mPid, mSync, outVars, starts>>

(* clear, for the next exec or start; it asserts that mPid is unset *)
Clear(p) ==
    /\ pc[p] \in Returned /\ mPid[p] = NoPid
    /\ p \in Asyncs => LoopIdle
    /\ mReturn' = [mReturn EXCEPT ![p] = ReturnUnset]
    /\ mSync' = [mSync EXCEPT ![p] = FALSE]
    /\ Goto(p, "idle")
    /\ closePipe' = [closePipe EXCEPT ![p] = "open"]
    /\ wrote' = [wrote EXCEPT ![p] = 0] /\ got' = [got EXCEPT ![p] = 0]
    /\ run' = [run EXCEPT ![p] = NoPid] /\ exit' = [exit EXCEPT ![p] = ReturnUnset]
    /\ UNCHANGED <<threadVars, reaper, sProcessPipe, child, sigchld, mPid, loopVars, starts>>

-----------------------------------------------------------------------------
(* The reaper: ProcessThread::run *)

ReadByte ==
    /\ reaper.at = "read" /\ sProcessPipe > 0
    /\ sProcessPipe' = sProcessPipe - 1
    /\ reaper' = [reaper EXCEPT !.at = "reap"]
    /\ UNCHANGED <<threadVars, kernelVars, pc, mReturn, mPid, mSync, outVars, loopVars, starts>>

(* Mutant: the statuses of other starts are forgotten       *)
DispatchKeepsOne(pid, ret) ==
    \/ /\ pid \in DOMAIN sProcesses
       /\ IF sProcesses[pid] # NoProc
          THEN /\ sProcesses' = Without(sProcesses, pid)
               /\ reaper' = [at |-> "call", proc |-> sProcesses[pid], ret |-> ret]
          ELSE UNCHANGED <<sProcesses, reaper>>
       /\ UNCHANGED <<sPending, sPendingPids>>
    \/ /\ pid \notin DOMAIN sProcesses
       /\ sPendingPids' = IF sPending # 0 THEN Put(<<>>, pid, ret) ELSE sPendingPids
       /\ UNCHANGED <<sPending, sProcesses, reaper>>

(* What run does with a status: hand it to the Process that is registered, *)
(* drop it for one that was removed, keep it for one that is starting      *)
Dispatch(pid, ret) ==
    \/ /\ pid \in DOMAIN sProcesses
       /\ IF sProcesses[pid] # NoProc
          THEN /\ sProcesses' = Without(sProcesses, pid)
               /\ reaper' = [at |-> "call", proc |-> sProcesses[pid], ret |-> ret]
          ELSE UNCHANGED <<sProcesses, reaper>>
       /\ UNCHANGED <<sPending, sPendingPids>>
    \/ /\ pid \notin DOMAIN sProcesses
       /\ sPendingPids' = IF sPending # 0 THEN Put(sPendingPids, pid, ret) ELSE sPendingPids
       /\ UNCHANGED <<sPending, sProcesses, reaper>>

Reap(pid) ==
    /\ reaper.at = "reap" /\ child[pid].at = "zombie"
    /\ child' = [child EXCEPT ![pid] = [at |-> "reaped", owner |-> NoProc, code |-> ReturnUnset]]
    /\ Dispatch(pid, child[pid].code)
    /\ UNCHANGED <<sProcessPipe, sigchld, closePipe, run, exit, pc, mReturn, mPid, mSync, outVars, loopVars, starts>>

ReapDone ==
    /\ reaper.at = "reap" /\ \A pid \in Pids : child[pid].at # "zombie"
    /\ reaper' = [at |-> "read", proc |-> NoProc, ret |-> ReturnUnset]
    /\ UNCHANGED <<threadVars, sProcessPipe, kernelVars, pc, mReturn, mPid, mSync, outVars, loopVars, starts>>

(* With the mutex given up: finish of a synchronous process, a post to the *)
(* loop of an asynchronous one, nothing if that loop is gone               *)
CallFinish ==
    /\ reaper.at = "call"
    /\ reaper' = [reaper EXCEPT !.at = "relock"]
    /\ IF reaper.proc \in Syncs
       THEN Finish(reaper.proc, reaper.ret) /\ UNCHANGED later
       ELSE /\ later' = IF loopAlive THEN Append(later, [proc |-> reaper.proc, ret |-> reaper.ret]) ELSE later
            /\ UNCHANGED <<mReturn, mPid, mSync>>
    /\ UNCHANGED <<threadVars, sProcessPipe, kernelVars, pc, outVars, loopAlive, starts>>

(* Mutant: one child is reaped for each byte *)
RelockReadsOn ==
    /\ reaper.at = "relock"
    /\ reaper' = [at |-> "read", proc |-> NoProc, ret |-> ReturnUnset]
    /\ UNCHANGED <<threadVars, sProcessPipe, kernelVars, pc, mReturn, mPid, mSync, outVars, loopVars, starts>>

Relock ==
    /\ reaper.at = "relock"
    /\ reaper' = [at |-> "reap", proc |-> NoProc, ret |-> ReturnUnset]
    /\ UNCHANGED <<threadVars, sProcessPipe, kernelVars, pc, mReturn, mPid, mSync, outVars, loopVars, starts>>

(* The handler of SIGCHLD, which stands for any number of ended children *)
ProcessSignalHandler ==
    /\ sigchld
    /\ sigchld' = FALSE
    /\ sProcessPipe' = sProcessPipe + 1
    /\ UNCHANGED <<threadVars, reaper, child, closePipe, run, exit, pc, mReturn, mPid, mSync, outVars, loopVars, starts>>

-----------------------------------------------------------------------------
(* The children *)

ChildExecs(pid) ==
    /\ child[pid].at = "forked"
    /\ child' = [child EXCEPT ![pid].at = "running"]
    /\ closePipe' = [closePipe EXCEPT ![child[pid].owner] = "eof"]
    /\ UNCHANGED <<threadVars, reaper, sProcessPipe, sigchld, run, exit, pc, mReturn, mPid, mSync, outVars, loopVars, starts>>

ChildCannotExec(pid) ==
    /\ child[pid].at = "forked"
    /\ child' = [child EXCEPT ![pid].at = "failing"]
    /\ closePipe' = [closePipe EXCEPT ![child[pid].owner] = "c"]
    /\ UNCHANGED <<threadVars, reaper, sProcessPipe, sigchld, run, exit, pc, mReturn, mPid, mSync, outVars, loopVars, starts>>

ChildWrites(pid) ==
    LET p == child[pid].owner IN
    /\ child[pid].at = "running" /\ SumFunction(wrote) < MaxOutput
    /\ wrote' = [wrote EXCEPT ![p] = @ + 1]
    /\ UNCHANGED <<threadVars, reaper, sProcessPipe, kernelVars, pc, mReturn, mPid, mSync, got, loopVars, starts>>

(* A child ends: with a code, after it could not exec, or of a signal *)
ChildEnds(pid) ==
    LET p == child[pid].owner IN
    /\ child[pid].at \in {"forked", "failing", "running"}
    /\ \E code \in {ReturnCrashed} \cup (CASE child[pid].at = "forked"  -> {}
                                           [] child[pid].at = "failing" -> {ExecFailed}
                                           [] child[pid].at = "running" -> Codes) :
        /\ child' = [child EXCEPT ![pid].at = "zombie", ![pid].code = code]
        /\ exit' = IF run[p] = pid THEN [exit EXCEPT ![p] = code] ELSE exit
    /\ closePipe' = IF child[pid].at = "forked" THEN [closePipe EXCEPT ![p] = "eof"] ELSE closePipe
    /\ sigchld' = TRUE
    /\ UNCHANGED <<threadVars, reaper, sProcessPipe, run, pc, mReturn, mPid, mSync, outVars, loopVars, starts>>

-----------------------------------------------------------------------------

Call(p) == Fork(p) \/ ForkFails(p) \/ GiveUp(p) \/ Handshake(p) \/ AddPidKnown(p) \/ AddPid(p)
Exec(p) == SelectReturns(p) \/ SelectDone(p) \/ SlotReturns(p) \/ CheckTime(p) \/ KillTests(p) \/ KillSends(p) \/ RemovePid(p)
Reaper  == ReadByte \/ (\E pid \in Pids : Reap(pid)) \/ ReapDone \/ CallFinish \/ Relock
Child(pid) == ChildExecs(pid) \/ ChildCannotExec(pid) \/ ChildWrites(pid) \/ ChildEnds(pid)

Next ==
    \/ \E p \in Procs : Start(p) \/ Call(p) \/ Clear(p) \/ LoopOutput(p) \/ LoopKill(p)
    \/ \E p \in Syncs : Exec(p)
    \/ \E pid \in Pids : Child(pid)
    \/ LoopFinish \/ LoopEnds
    \/ Reaper \/ ProcessSignalHandler

Spec == Init /\ [][Next]_vars

(* Threads keep running and signals are delivered.  A child that was forked *)
(* execs or fails; nothing makes it end, and nothing makes anyone start.    *)
Fairness ==
    /\ \A p \in Procs : WF_vars(Call(p))
    /\ \A p \in Syncs : WF_vars(Exec(p))
    /\ \A pid \in Pids : WF_vars(ChildExecs(pid) \/ ChildCannotExec(pid))
    /\ WF_vars(LoopFinish)
    /\ WF_vars(Reaper)
    /\ WF_vars(ProcessSignalHandler)

FairSpec == Spec /\ Fairness

-----------------------------------------------------------------------------
(* Properties *)

(* The status of p's child is on its way to p: kept for addPid, in the     *)
(* hands of the reaper, posted to the loop, or set.                        *)
OnItsWay(p) ==
    \/ pc[p] \in {"handshake", "add"} /\ run[p] \in DOMAIN sPendingPids /\ sPendingPids[run[p]] = exit[p]
    \/ reaper.at = "call" /\ reaper.proc = p /\ reaper.ret = exit[p]
    \/ \E i \in DOMAIN later : later[i] = [proc |-> p, ret |-> exit[p]]
    \/ p \in Syncs /\ mSync[p]

(* A status the kernel has given away once is never lost: whether the      *)
(* child ended before or after addPid, one or several at a time, while     *)
(* others start, fail to start, time out or are killed, it is held for the *)
(* call that waits for it (Process.cpp, addPid 119-149 and run 191-233).   *)
StatusNotLost ==
    \A p \in Procs :
        /\ pc[p] \in {"handshake", "add", "select", "slot", "check", "running"}
        /\ run[p] # NoPid /\ child[run[p]].at = "reaped" /\ closePipe[p] = "eof"
        => OnItsWay(p) \/ (p \in Asyncs /\ ~loopAlive)

(* What returnCode may say of p: how its child ended or, if a slot kills   *)
(* after output, that it was killed, as finish may come between kill's     *)
(* test and its write                                                      *)
ToldReturns(p) == {exit[p]} \cup (IF p \in SlotKills /\ wrote[p] > 0 THEN {ReturnKilled} ELSE {})

(* When exec returns Done or finished is emitted, returnCode is the status *)
(* of this call's child, or that of a kill only if there was output and a  *)
(* slot that may kill; and all that the child wrote has been read, and is  *)
(* in mStdOutBuffer unless it is more than that holds (Process.cpp         *)
(* 597-615, 746-778, 822-880).                                             *)
FinishedIsTrue ==
    \A p \in Procs :
        pc[p] \in {"Done", "finished"} =>
            /\ exit[p] # ReturnUnset /\ mReturn[p] \in ToldReturns(p)
            /\ got[p] = wrote[p]
            /\ wrote[p] <= MaxSize => Buffered(got[p]) = wrote[p]

(* Once its child has ended, exec returns, and finish runs as long as the  *)
(* loop is there (Process.cpp, run, addPid, the select loop).              *)
EndsAreSeen ==
    \A p \in Procs :
        pc[p] \in Starting \cup Waiting \cup {"running"} /\ exit[p] # ReturnUnset
        ~> pc[p] \in Returned \/ (p \in Asyncs /\ ~loopAlive)

(* "Synchronous processes are alive on the caller's stack, waiting in      *)
(* select()" when the reaper calls finish on them (Process.cpp 213-214).   *)
SyncCallerWaits ==
    reaper.at = "call" /\ reaper.proc \in Syncs => pc[reaper.proc] \in Waiting

(* assert(sPendingPids.find(p) == sPendingPids.end()), Process.cpp 228, as *)
(* the reaper is about to execute it.                                      *)
PendingPidsAreFresh ==
    \A pid \in Pids :
        reaper.at = "reap" /\ child[pid].at = "zombie" /\ pid \notin DOMAIN sProcesses /\ sPending # 0
        => pid \notin DOMAIN sPendingPids
=============================================================================
