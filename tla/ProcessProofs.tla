---------------------------- MODULE ProcessProofs ----------------------------
(***************************************************************************)
(* Proofs about Process, for any processes, pids and bounds, as long as a  *)
(* pid does not come again, and about ProcessInput.                        *)
(*                                                                         *)
(* The status of a child goes from the kernel to the reaper and from there *)
(* to the call that waits for it, or to sPendingPids when the call has not *)
(* registered the child.  StatusAt says where it is for every place the    *)
(* call may be at; the other conjuncts of ProcInv say what the places mean *)
(* and tie calls and children together.                                    *)
(***************************************************************************)
EXTENDS Process, ProcessInput, SequenceLemmas, FiniteSetTheorems

(* Calls between lock and addPid or clearPending *)
Calls == {p \in Procs : pc[p] \in Starting}

Reachable(p) == pc[p] \in Waiting \cup {"TimedOut", "running"}
Alive(p) == child[run[p]].at \in {"running", "zombie"}
Reaped(p) == child[run[p]].at = "reaped"

(* sPending counts the calls that have not registered their child. *)
PendingCounts == IsFiniteSet(Calls) /\ sPending = Cardinality(Calls)

(* Which calls have a child, and what they know of it. *)
CallShape ==
    \A p \in Procs :
        /\ pc[p] \in {"idle", "fork", "bail"} => run[p] = NoPid
        /\ pc[p] \notin {"idle", "fork", "bail", "Error"} => run[p] # NoPid
        /\ pc[p] \in {"idle", "fork", "bail", "failed", "Error", "Done", "finished"} => mPid[p] = NoPid
        /\ pc[p] \in {"handshake", "add"} => mPid[p] = run[p]
        /\ mPid[p] \in {NoPid, run[p]}
        /\ pc[p] \in Waiting \cup {"Done", "TimedOut"} => p \in Syncs
        /\ pc[p] \in {"running", "finished"} => p \in Asyncs
        /\ pc[p] \in {"slot", "slotKilling"} => p \in SlotKills /\ wrote[p] > 0
        /\ mSync[p] => p \in Syncs /\ pc[p] \in Waiting \cup {"TimedOut"} /\ mPid[p] = NoPid
        /\ pc[p] \in {"add", "running", "Done", "TimedOut", "finished"} \cup Waiting => closePipe[p] = "eof"
        /\ run[p] = NoPid => closePipe[p] = "open"
        /\ closePipe[p] = "c" => pc[p] \in {"handshake", "failed", "Error"}
        /\ pc[p] \in {"failed", "Error"} /\ run[p] # NoPid => closePipe[p] = "c"
        /\ \A q \in Procs : run[q] = run[p] /\ run[p] # NoPid => q = p

(* The child of a call *)
ChildOf ==
    \A p \in Procs : run[p] # NoPid =>
        /\ child[run[p]].at # "free"
        /\ child[run[p]].at # "reaped" => child[run[p]].owner = p
        /\ child[run[p]].at = "forked" <=> closePipe[p] = "open"
        /\ child[run[p]].at = "failing" => closePipe[p] = "c"
        /\ child[run[p]].at = "running" => closePipe[p] = "eof"
        /\ closePipe[p] = "open" => pc[p] = "handshake"
        /\ child[run[p]].at = "zombie" => exit[p] = child[run[p]].code
        /\ child[run[p]].at \in {"zombie", "reaped"} => exit[p] # ReturnUnset

(* The call of a child: one that could not exec may have lost it. *)
OwnerOf ==
    \A pid \in Pids :
        /\ child[pid].at \notin {"free", "reaped"} => child[pid].owner \in Procs
        /\ child[pid].at \in {"forked", "running"} => run[child[pid].owner] = pid

(* An entry of sProcesses is the call of a living child, or was given up. *)
Registered ==
    \A pid \in DOMAIN sProcesses :
        /\ child[pid].at # "free"
        /\ sProcesses[pid] # NoProc =>
             LET p == sProcesses[pid] IN
             run[p] = pid /\ mPid[p] = pid /\ pc[p] \in Waiting \cup {"running"} /\ Alive(p)

(* A status kept for addPid is the right one. *)
Kept ==
    \A pid \in DOMAIN sPendingPids :
        /\ child[pid].at = "reaped"
        /\ \A p \in Procs : run[p] = pid => sPendingPids[pid] = exit[p]

(* The reaper is about to call finish for p. *)
Called(p) == reaper.at = "call" /\ reaper.proc = p

(* What the reaper calls finish with, and that nobody else will call it. *)
CallIsTrue ==
    reaper.at = "call" =>
        LET p == reaper.proc IN
        /\ p \in Procs /\ run[p] # NoPid /\ Reaped(p) /\ reaper.ret = exit[p] /\ mPid[p] = run[p]
        /\ Reachable(p)
        /\ \A i \in DOMAIN later : later[i].proc # p

(* What is posted to the loop, once for each child. *)
LaterIsTrue ==
    /\ \A i \in DOMAIN later :
        LET p == later[i].proc IN
        pc[p] = "running" /\ run[p] # NoPid /\ Reaped(p) /\ later[i].ret = exit[p]
    /\ \A i, k \in DOMAIN later : later[i].proc = later[k].proc => i = k

(* Where the status is *)
StatusAt ==
    \A p \in Procs :
        /\ pc[p] \in {"handshake", "add"} =>
             /\ run[p] \notin DOMAIN sProcesses
             /\ Reaped(p) /\ closePipe[p] = "eof" => run[p] \in DOMAIN sPendingPids
        /\ Reachable(p) /\ Alive(p) => mPid[p] = run[p]
        /\ pc[p] \in Waiting \cup {"running"} /\ Alive(p) =>
             run[p] \in DOMAIN sProcesses /\ sProcesses[run[p]] = p
        /\ pc[p] \in Waiting /\ Reaped(p) =>
             Called(p) \/ (mSync[p] /\ (pc[p] \notin {"killing", "remove"} => mReturn[p] \in ToldReturns(p)))
        /\ pc[p] = "running" /\ Reaped(p) /\ loopAlive =>
             Called(p) \/ \E i \in DOMAIN later : later[i].proc = p
        /\ pc[p] \in {"Done", "finished"} => Reaped(p) /\ mReturn[p] \in ToldReturns(p) /\ got[p] = wrote[p]

(* The inductive invariant *)
ProcInv ==
    /\ TypeOK /\ PendingCounts /\ CallShape /\ ChildOf /\ OwnerOf
    /\ Registered /\ Kept /\ CallIsTrue /\ LaterIsTrue /\ StatusAt

USE DEF Goto, threadVars, kernelVars, loopVars, outVars, Procs, Starting, Waiting, Reachable, Alive, Reaped, Called, ToldReturns

(* What the posts to the loop are made of. *)
LEMMA LaterTypes ==
    ASSUME TypeOK
    PROVE  /\ later \in Seq([proc : Asyncs, ret : Returns])
           /\ DOMAIN later = 1 .. Len(later) /\ Len(later) \in Nat
           /\ \A i \in DOMAIN later : later[i].proc \in Asyncs /\ later[i].ret \in Returns
<1>1. later \in Seq([proc : Asyncs, ret : Returns])
  BY DEF TypeOK
<1>2. DOMAIN later = 1 .. Len(later) /\ Len(later) \in Nat
  BY <1>1
<1>3. \A i \in 1 .. Len(later) : later[i] \in [proc : Asyncs, ret : Returns]
  BY <1>1, ElementOfSeq
<1> QED
  BY <1>1, <1>2, <1>3

(* A post is added for a process that has none. *)
LEMMA LaterGrows ==
    ASSUME TypeOK, LaterIsTrue, NEW p \in Asyncs, exit[p] \in Returns,
           later' = Append(later, [proc |-> p, ret |-> exit[p]]),
           UNCHANGED <<child, run, exit>>,
           pc'[p] = "running", \A q \in Asyncs : q # p => pc'[q] = pc[q],
           run[p] # NoPid, Reaped(p), \A i \in DOMAIN later : later[i].proc # p
    PROVE  /\ LaterIsTrue' /\ later' \in Seq([proc : Asyncs, ret : Returns])
           /\ \E i \in DOMAIN later' : later'[i].proc = p
           /\ \A i \in DOMAIN later : i \in DOMAIN later' /\ later'[i] = later[i]
           /\ \A i \in DOMAIN later' : later'[i].proc = p \/ (i \in DOMAIN later /\ later'[i] = later[i])
<1> DEFINE e == [proc |-> p, ret |-> exit[p]]
           n == Len(later) + 1
<1>1. /\ later \in Seq([proc : Asyncs, ret : Returns])
      /\ DOMAIN later = 1 .. Len(later) /\ Len(later) \in Nat
      /\ \A i \in DOMAIN later : later[i].proc \in Asyncs
  BY LaterTypes
<1>2. e \in [proc : Asyncs, ret : Returns] /\ e.proc = p /\ e.ret = exit[p]
  OBVIOUS
<1>3. later' = Append(later, e)
  OBVIOUS
<1> HIDE DEF e
<1>4. /\ later' \in Seq([proc : Asyncs, ret : Returns]) /\ DOMAIN later' = 1 .. n
      /\ \A i \in DOMAIN later : i \in DOMAIN later' /\ later'[i] = later[i]
      /\ later'[n] = e
  BY <1>1, <1>2, <1>3, AppendProperties
<1>5. \A i \in DOMAIN later' : i = n \/ (i \in DOMAIN later /\ i # n)
  BY <1>1, <1>4
<1>6. n \in DOMAIN later'
  BY <1>1, <1>4
<1> HIDE DEF n
<1>7. LaterIsTrue'
  <2>1. ASSUME NEW i \in DOMAIN later'
        PROVE  LET q == later'[i].proc
               IN  pc'[q] = "running" /\ run'[q] # NoPid /\ child'[run'[q]].at = "reaped" /\ later'[i].ret = exit'[q]
    <3>1. CASE i = n
      BY <1>2, <1>4, <3>1
    <3>2. CASE i \in DOMAIN later /\ i # n
      <4>1. later'[i] = later[i] /\ later[i].proc # p /\ later[i].proc \in Asyncs
        BY <1>1, <1>4, <3>2
      <4> QED
        BY <3>2, <4>1 DEF LaterIsTrue
    <3> QED
      BY <1>5, <3>1, <3>2
  <2>2. ASSUME NEW i \in DOMAIN later', NEW k \in DOMAIN later', later'[i].proc = later'[k].proc
        PROVE  i = k
    BY <1>2, <1>4, <1>5, <2>2 DEF LaterIsTrue
  <2> QED
    BY <2>1, <2>2 DEF LaterIsTrue
<1> QED
  BY <1>2, <1>4, <1>5, <1>6, <1>7

(* A call begins or ends, and sPending with it. *)
LEMMA CallBegins ==
    ASSUME PendingCounts, NEW p, p \notin Calls, Calls' = Calls \cup {p}, sPending' = sPending + 1
    PROVE  PendingCounts'
BY FS_AddElement DEF PendingCounts

LEMMA CallEnds ==
    ASSUME PendingCounts, NEW p, p \in Calls, Calls' = Calls \ {p}, sPending' = sPending - 1
    PROVE  PendingCounts'
BY FS_RemoveElement DEF PendingCounts

(* While a call is starting, sPending is not 0, and it is 1 only if there  *)
(* is no other.                                                            *)
LEMMA CallsAreCounted ==
    ASSUME PendingCounts, NEW p \in Calls
    PROVE  /\ sPending # 0
           /\ sPending - 1 = 0 => \A q \in Calls : q = p
<1>1. IsFiniteSet(Calls) /\ sPending = Cardinality(Calls)
  BY DEF PendingCounts
<1>2. sPending # 0
  BY <1>1, FS_EmptySet
<1>3. IsFiniteSet(Calls \ {p}) /\ Cardinality(Calls \ {p}) = Cardinality(Calls) - 1
  BY <1>1, FS_RemoveElement
<1>4. sPending - 1 = 0 => Calls \ {p} = {}
  BY <1>1, <1>3, FS_EmptySet
<1> QED
  BY <1>2, <1>4

(* The posts do not care about a process that has none. *)
LEMMA LaterKept ==
    ASSUME TypeOK, LaterIsTrue, UNCHANGED <<later, run, child, exit>>,
           NEW p, pc[p] # "running", \A q \in Asyncs : q # p => pc'[q] = pc[q]
    PROVE  LaterIsTrue'
<1>1. \A i \in DOMAIN later : later[i].proc \in Asyncs /\ later[i].proc # p
  BY LaterTypes DEF LaterIsTrue
<1> QED
  BY <1>1 DEF LaterIsTrue

(* Statuses that are kept for others stay when a call takes its own. *)
LEMMA OthersKept ==
    ASSUME ProcInv, NEW p \in Procs, pc[p] = "add", sPending' = sPending - 1,
           sPending' = 0 \/ \A pid \in DOMAIN sPendingPids : pid # mPid[p] => pid \in DOMAIN sPendingPids'
    PROVE  \A q \in Procs : /\ q # p /\ pc[q] \in {"handshake", "add"}
                            /\ run[q] \in DOMAIN sPendingPids
                            => run[q] \in DOMAIN sPendingPids'
<1> SUFFICES ASSUME NEW q \in Procs, q # p, pc[q] \in {"handshake", "add"}, run[q] \in DOMAIN sPendingPids
             PROVE  run[q] \in DOMAIN sPendingPids'
  OBVIOUS
<1>1. p \in Calls /\ q \in Calls
  BY DEF Calls
<1>2. sPending' # 0
  BY <1>1, CallsAreCounted DEF ProcInv
<1>3. run[q] # mPid[p]
  BY DEF ProcInv, CallShape
<1> QED
  BY <1>2, <1>3

(* A child that got as far as its exec runs, has ended or was reaped. *)
LEMMA AliveOrReaped ==
    ASSUME ProcInv, NEW p \in Procs, closePipe[p] = "eof", run[p] # NoPid
    PROVE  Alive(p) \/ Reaped(p)
<1>1. run[p] \in Pids
  BY DEF ProcInv, TypeOK
<1>2. child[run[p]].at \in {"free", "forked", "failing", "running", "zombie", "reaped"}
  BY <1>1 DEF ProcInv, TypeOK
<1> QED
  BY <1>2 DEF ProcInv, ChildOf

(* Setting one value of a Boolean-valued function. *)
LEMMA SetBoolean ==
    ASSUME NEW S, NEW f \in [S -> BOOLEAN], NEW x \in S, NEW b \in BOOLEAN
    PROVE  /\ [f EXCEPT ![x] = b] \in [S -> BOOLEAN]
           /\ [f EXCEPT ![x] = b][x] = b
           /\ \A y \in S : y # x => [f EXCEPT ![x] = b][y] = f[y]
BY Zenon

(* start or exec locks and counts itself as pending. *)
LEMMA StartStep ==
    ASSUME ProcInv, NEW p \in Procs, Start(p)
    PROVE  ProcInv'
<1>1. TypeOK'
  BY ProcessAssumption DEF ProcInv, Start, TypeOK, SetPending
<1>2. PendingCounts'
  <2>1. p \notin Calls /\ Calls' = Calls \cup {p} /\ sPending' = sPending + 1
    BY DEF ProcInv, TypeOK, Calls, Start, SetPending
  <2> QED
    BY <2>1, CallBegins DEF ProcInv
<1>3. OwnerOf' /\ CallShape' /\ ChildOf' /\ Registered' /\ Kept' /\ CallIsTrue' /\ LaterIsTrue' /\ StatusAt'
  BY DEF ProcInv, Start, OwnerOf, CallShape, ChildOf, Registered, Kept, CallIsTrue, LaterIsTrue,
     StatusAt, SetPending
<1> QED
  BY <1>1, <1>2, <1>3 DEF ProcInv

(* fork gives the call a child that nobody knows of yet. *)
LEMMA ForkStep ==
    ASSUME ProcInv, ReusePids = FALSE, NEW p \in Procs, Fork(p)
    PROVE  ProcInv'
<1>1. TypeOK'
  BY ProcessAssumption DEF ProcInv, Fork, TypeOK, FreePids, ReturnUnset, Returns, Returned, NoPid,
     ReturnCrashed, ReturnKilled, ExecFailed
<1>2. PendingCounts'
  <2>1. Calls' = Calls /\ sPending' = sPending
    BY DEF ProcInv, Calls, Fork, TypeOK
  <2> QED
    BY <2>1 DEF ProcInv, PendingCounts
<1>3. PICK pid \in Pids : 
        /\ child[pid].at = "free"
        /\ child' = [child EXCEPT ![pid] = [at |-> "forked", owner |-> p, code |-> ReturnUnset]]
        /\ mPid' = [mPid EXCEPT ![p] = pid]
        /\ run' = [run EXCEPT ![p] = pid]
  BY DEF Fork, FreePids
<1>4. /\ pc[p] = "fork" /\ pc' = [pc EXCEPT ![p] = "handshake"]
      /\ UNCHANGED <<threadVars, reaper, closePipe, exit, mReturn, mSync, outVars, loopVars>>
  BY DEF Fork
<1>5. pid # NoPid /\ run[p] = NoPid /\ \A q \in Procs : run[q] # pid /\ mPid[q] # pid
  BY <1>3, <1>4, ProcessAssumption DEF ProcInv, ChildOf, CallShape, NoPid
<1>6. /\ child'[pid].at = "forked" /\ child'[pid].owner = p
      /\ \A other \in Pids : other # pid => child'[other] = child[other]
      /\ run'[p] = pid /\ mPid'[p] = pid /\ pc'[p] = "handshake"
      /\ \A q \in Procs : q # p => run'[q] = run[q] /\ mPid'[q] = mPid[q] /\ pc'[q] = pc[q]
  BY <1>3, <1>4 DEF ProcInv, TypeOK
<1>7. CallShape'
  BY <1>4, <1>5, <1>6 DEF ProcInv, CallShape
<1>8. ChildOf'
  BY <1>1, <1>4, <1>5, <1>6 DEF ProcInv, ChildOf, CallShape, TypeOK
<1>9. OwnerOf'
  <2>1. \A other \in Pids : other # NoPid
    BY ProcessAssumption DEF NoPid
  <2> QED
    BY <1>5, <1>6, <2>1 DEF ProcInv, OwnerOf
<1>10. Registered' /\ Kept' /\ CallIsTrue' /\ LaterIsTrue'
  BY DEF ProcInv, Fork, Registered, Kept, CallIsTrue, LaterIsTrue, FreePids
<1>11. StatusAt'
  <2>1. pid \notin DOMAIN sProcesses
    BY <1>3 DEF ProcInv, Registered
  <2> QED
    BY <1>3, <1>4, <1>5, <1>6, <2>1 DEF ProcInv, StatusAt, CallShape
<1> QED
  BY <1>1, <1>2, <1>7, <1>8, <1>9, <1>10, <1>11 DEF ProcInv

(* fork fails: there is no child and no pid. *)
LEMMA ForkFailsStep ==
    ASSUME ProcInv, NEW p \in Procs, ForkFails(p)
    PROVE  ProcInv'
<1>1. TypeOK'
  BY ProcessAssumption DEF ProcInv, ForkFails, TypeOK
<1>2. PendingCounts'
  <2>1. Calls' = Calls /\ sPending' = sPending
    BY DEF ProcInv, Calls, ForkFails, TypeOK
  <2> QED
    BY <2>1 DEF ProcInv, PendingCounts
<1>3. OwnerOf' /\ Kept' /\ CallShape' /\ ChildOf' /\ Registered' /\ CallIsTrue' /\ LaterIsTrue' /\ StatusAt'
  BY DEF ProcInv, ForkFails, OwnerOf, Kept, CallShape, ChildOf, Registered, CallIsTrue, LaterIsTrue,
     StatusAt
<1> QED
  BY <1>1, <1>2, <1>3 DEF ProcInv

(* A call that failed is no longer counted; its child is left to itself. *)
LEMMA GiveUpStep ==
    ASSUME ProcInv, NEW p \in Procs, GiveUp(p)
    PROVE  ProcInv'
<1>1. TypeOK'
  BY ProcessAssumption DEF ProcInv, GiveUp, TypeOK, SetPending, Returns, Returned, NoPid,
     ReturnCrashed, ReturnUnset, ReturnKilled, ExecFailed
<1>2. PendingCounts'
  <2>1. p \in Calls /\ Calls' = Calls \ {p} /\ sPending' = sPending - 1
    BY DEF ProcInv, TypeOK, Calls, GiveUp, SetPending
  <2> QED
    BY <2>1, CallEnds DEF ProcInv
<1>3. OwnerOf' /\ CallShape' /\ ChildOf' /\ Registered' /\ Kept' /\ CallIsTrue' /\ LaterIsTrue' /\ StatusAt'
  BY DEF ProcInv, GiveUp, OwnerOf, CallShape, ChildOf, Registered, Kept, CallIsTrue, LaterIsTrue,
     StatusAt, SetPending
<1> QED
  BY <1>1, <1>2, <1>3 DEF ProcInv

(* The parent learns from the close pipe whether the exec went well. *)
LEMMA HandshakeStep ==
    ASSUME ProcInv, NEW p \in Procs, Handshake(p)
    PROVE  ProcInv'
<1>0. /\ pc[p] = "handshake" /\ pc'[p] \in {"add", "failed"}
      /\ \A q \in Procs : q # p => pc'[q] = pc[q] /\ mReturn'[q] = mReturn[q] /\ mPid'[q] = mPid[q]
      /\ UNCHANGED <<threadVars, reaper, sProcessPipe, kernelVars, mSync, outVars, loopVars, starts>>
  BY DEF ProcInv, TypeOK, Handshake
<1>1. TypeOK'
  <2>1. pc' \in [Procs -> {"idle", "running"} \cup Starting \cup Waiting \cup Returned]
    BY DEF ProcInv, TypeOK, Handshake
  <2>2. mPid' \in [Procs -> Pids \cup {NoPid}]
    BY DEF ProcInv, TypeOK, Handshake
  <2>3. mReturn' \in [Procs -> Returns]
    BY DEF ProcInv, TypeOK, Handshake, Returns
  <2> QED
    BY <1>0, <2>1, <2>2, <2>3 DEF ProcInv, TypeOK
<1>2. PendingCounts'
  <2>1. Calls' = Calls /\ sPending' = sPending
    BY DEF ProcInv, Calls, Handshake, TypeOK
  <2> QED
    BY <2>1 DEF ProcInv, PendingCounts
<1>3. OwnerOf' /\ Kept'
  BY DEF ProcInv, Handshake, OwnerOf, Kept
<1>4. CallShape'
  BY DEF ProcInv, Handshake, CallShape, TypeOK
<1>5. ChildOf'
  BY DEF ProcInv, Handshake, ChildOf, TypeOK
<1>6. Registered'
  <2>1. \A pid \in DOMAIN sProcesses : sProcesses[pid] # NoProc => sProcesses[pid] \in Procs
    BY DEF ProcInv, TypeOK
  <2> QED
    BY <1>0, <2>1 DEF ProcInv, Registered
<1>7. CallIsTrue'
  BY DEF ProcInv, Handshake, CallIsTrue, TypeOK
<1>8. LaterIsTrue'
  <2>1. pc[p] # "running" /\ UNCHANGED <<later, run, child, exit>>
    BY DEF Handshake
  <2>2. \A q \in Asyncs : q # p => pc'[q] = pc[q]
    BY DEF ProcInv, TypeOK, Handshake
  <2> QED
    BY <2>1, <2>2, LaterKept DEF ProcInv
<1>9. StatusAt'
  BY DEF ProcInv, Handshake, StatusAt, TypeOK, CallShape
<1> QED
  BY <1>1, <1>2, <1>3, <1>4, <1>5, <1>6, <1>7, <1>8, <1>9 DEF ProcInv

(* AddPidKnown: the status was there first. *)
LEMMA AddPidKnownStep ==
    ASSUME ProcInv, NEW p \in Procs, AddPidKnown(p)
    PROVE  ProcInv'
<1>1. /\ pc[p] = "add" /\ mPid[p] = run[p] /\ run[p] # NoPid /\ run[p] \in Pids /\ Reaped(p)
      /\ sPendingPids[mPid[p]] = exit[p] /\ exit[p] \in Returns /\ run[p] \in DOMAIN sPendingPids
  BY DEF ProcInv, TypeOK, AddPidKnown, CallShape, Kept
<1>2. ~Called(p) /\ ~mSync[p] /\ \A i \in DOMAIN later : later[i].proc # p
  BY <1>1 DEF ProcInv, CallShape, CallIsTrue, LaterIsTrue
<1>3. /\ sPending' = sPending - 1
      /\ sPendingPids' = IF sPending' = 0 THEN <<>> ELSE Without(sPendingPids, run[p])
      /\ UNCHANGED <<sProcesses, reaper, sProcessPipe, kernelVars, outVars, loopAlive, starts>>
  BY <1>1 DEF AddPidKnown
<1>4. IF p \in Asyncs
      THEN /\ pc' = [pc EXCEPT ![p] = "running"]
           /\ later' = Append(later, [proc |-> p, ret |-> exit[p]])
           /\ UNCHANGED <<mReturn, mPid, mSync>>
      ELSE /\ pc' = [pc EXCEPT ![p] = "select"]
           /\ mReturn' = [mReturn EXCEPT ![p] = exit[p]]
           /\ mPid' = [mPid EXCEPT ![p] = NoPid]
           /\ mSync' = [mSync EXCEPT ![p] = p \in Syncs]
           /\ UNCHANGED later
  BY <1>1 DEF AddPidKnown, Finish
<1>5. /\ p \in Asyncs => pc'[p] = "running"
      /\ p \notin Asyncs => p \in Syncs /\ pc'[p] = "select" /\ mReturn'[p] = exit[p] /\ mPid'[p] = NoPid
      /\ \A q \in Procs : q # p => pc'[q] = pc[q] /\ mReturn'[q] = mReturn[q] /\ mPid'[q] = mPid[q]
  BY <1>4 DEF ProcInv, TypeOK
<1>6. /\ mSync'[p] <=> p \notin Asyncs
      /\ \A q \in Procs : q # p => mSync'[q] = mSync[q]
  <2>1. mSync \in [Procs -> BOOLEAN]
    BY DEF ProcInv, TypeOK
  <2>2. CASE p \in Asyncs
    BY <1>2, <1>4, <2>2
  <2>3. CASE p \notin Asyncs
    <3>1. mSync' = [mSync EXCEPT ![p] = p \in Syncs] /\ p \in Syncs
      BY <1>4, <2>3
    <3>2. mSync'[p] = (p \in Syncs) /\ \A q \in Procs : q # p => mSync'[q] = mSync[q]
      BY <2>1, <3>1, Zenon
    <3> QED
      BY <2>3, <3>1, <3>2, Zenon
  <2> QED
    BY <2>2, <2>3
<1>7. p \in Asyncs => /\ LaterIsTrue' /\ later' \in Seq([proc : Asyncs, ret : Returns])
                      /\ \E i \in DOMAIN later' : later'[i].proc = p
                      /\ \A i \in DOMAIN later : i \in DOMAIN later' /\ later'[i] = later[i]
                      /\ \A i \in DOMAIN later' : later'[i].proc = p \/ (i \in DOMAIN later /\ later'[i] = later[i])
  BY <1>1, <1>2, <1>3, <1>4, <1>5, LaterGrows DEF ProcInv
<1>8. \A pid \in DOMAIN sPendingPids' : pid \in DOMAIN sPendingPids /\ sPendingPids'[pid] = sPendingPids[pid]
  BY <1>3 DEF Without
<1>9. \A q \in Procs : q # p /\ pc[q] \in {"handshake", "add"} /\ run[q] \in DOMAIN sPendingPids
                       => run[q] \in DOMAIN sPendingPids'
  <2>1. sPending' = 0 \/ \A pid \in DOMAIN sPendingPids : pid # mPid[p] => pid \in DOMAIN sPendingPids'
    BY <1>1, <1>3 DEF Without
  <2> QED
    BY <1>1, <1>3, <2>1, OthersKept
<1>10. TypeOK'
  <2>1. later' \in Seq([proc : Asyncs, ret : Returns])
    BY <1>4, <1>7, LaterTypes DEF ProcInv
  <2>2. mSync' \in [Procs -> BOOLEAN]
    <3>1. mSync \in [Procs -> BOOLEAN]
      BY DEF ProcInv, TypeOK
    <3> QED
      BY <1>4, <3>1, Zenon
  <2>3. pc' \in [Procs -> {"idle", "running"} \cup Starting \cup Waiting \cup Returned]
    BY <1>4 DEF ProcInv, TypeOK
  <2>4. mReturn' \in [Procs -> Returns] /\ mPid' \in [Procs -> Pids \cup {NoPid}]
    BY <1>1, <1>4 DEF ProcInv, TypeOK
  <2>5. sPending' \in Int /\ DOMAIN sPendingPids' \subseteq Pids
        /\ \A pid \in DOMAIN sPendingPids' : sPendingPids'[pid] \in Returns
    BY <1>3, <1>8 DEF ProcInv, TypeOK
  <2> QED
    BY <1>3, <2>1, <2>2, <2>3, <2>4, <2>5 DEF ProcInv, TypeOK
<1>11. PendingCounts'
  <2>1. p \in Calls /\ Calls' = Calls \ {p}
    BY <1>1, <1>4 DEF ProcInv, TypeOK, Calls
  <2> QED
    BY <1>3, <2>1, CallEnds DEF ProcInv
<1>12. CallShape'
  BY <1>1, <1>3, <1>4, <1>5, <1>6 DEF ProcInv, CallShape
<1>13. ChildOf' /\ OwnerOf'
  BY <1>1, <1>3, <1>5 DEF ProcInv, ChildOf, OwnerOf, CallShape
<1>14. Registered'
  <2>1. \A pid \in DOMAIN sProcesses : sProcesses[pid] # NoProc => sProcesses[pid] \in Procs /\ sProcesses[pid] # p
    BY <1>1 DEF ProcInv, TypeOK, Registered
  <2> QED
    BY <1>3, <1>5, <2>1 DEF ProcInv, Registered
<1>15. Kept'
  BY <1>3, <1>8 DEF ProcInv, Kept
<1>16. CallIsTrue'
  <2>1. reaper.at = "call" => \A i \in DOMAIN later' : later'[i].proc # reaper.proc
    BY <1>2, <1>4, <1>7 DEF ProcInv, CallIsTrue
  <2> QED
    BY <1>2, <1>3, <1>5, <2>1 DEF ProcInv, CallIsTrue
<1>17. LaterIsTrue'
  <2>1. CASE p \notin Asyncs
    BY <1>1, <1>3, <1>4, <1>5, <2>1, LaterKept DEF ProcInv
  <2> QED
    BY <1>7, <2>1
<1>18. StatusAt'
  <2>1. \A q \in Procs : (\E i \in DOMAIN later : later[i].proc = q) => \E i \in DOMAIN later' : later'[i].proc = q
    BY <1>4, <1>7
  <2>2. p \in Asyncs => \E i \in DOMAIN later' : later'[i].proc = p
    BY <1>7
  <2> QED
    BY <1>1, <1>3, <1>5, <1>6, <1>9, <2>1, <2>2 DEF ProcInv, StatusAt
<1> QED
  BY <1>10, <1>11, <1>12, <1>13, <1>14, <1>15, <1>16, <1>17, <1>18 DEF ProcInv

(* AddPid: the child is registered. *)
LEMMA AddPidStep ==
    ASSUME ProcInv, NEW p \in Procs, AddPid(p)
    PROVE  ProcInv'
<1>1. /\ pc[p] = "add" /\ mPid[p] = run[p] /\ run[p] # NoPid /\ run[p] \in Pids
      /\ run[p] \notin DOMAIN sPendingPids /\ closePipe[p] = "eof"
  BY DEF ProcInv, TypeOK, AddPid, CallShape
<1>2. Alive(p)
  <2>1. ~Reaped(p)
    BY <1>1 DEF ProcInv, StatusAt
  <2> QED
    BY <1>1, <2>1, AliveOrReaped
<1>3. /\ sPending' = sPending - 1
      /\ sPendingPids' = IF sPending' = 0 THEN <<>> ELSE sPendingPids
      /\ sProcesses' = Put(sProcesses, run[p], p)
      /\ pc' = [pc EXCEPT ![p] = IF p \in Asyncs THEN "running" ELSE "select"]
      /\ UNCHANGED <<reaper, sProcessPipe, kernelVars, mReturn, mPid, mSync, outVars, loopVars, starts>>
  BY <1>1 DEF AddPid
<1>4. /\ pc'[p] = (IF p \in Asyncs THEN "running" ELSE "select")
      /\ \A q \in Procs : q # p => pc'[q] = pc[q]
  BY <1>3 DEF ProcInv, TypeOK
<1>5. /\ DOMAIN sProcesses' = DOMAIN sProcesses \cup {run[p]}
      /\ sProcesses'[run[p]] = p
      /\ \A pid \in DOMAIN sProcesses : pid # run[p] => sProcesses'[pid] = sProcesses[pid]
  BY <1>3 DEF Put
<1>6. TypeOK'
  <2>1. pc' \in [Procs -> {"idle", "running"} \cup Starting \cup Waiting \cup Returned]
    BY <1>3 DEF ProcInv, TypeOK
  <2>2. DOMAIN sProcesses' \subseteq Pids /\ \A pid \in DOMAIN sProcesses' : sProcesses'[pid] \in Procs \cup {NoProc}
    BY <1>1, <1>5 DEF ProcInv, TypeOK
  <2>3. /\ sPending' \in Int /\ DOMAIN sPendingPids' \subseteq Pids
        /\ \A pid \in DOMAIN sPendingPids' : sPendingPids'[pid] \in Returns
    BY <1>3 DEF ProcInv, TypeOK
  <2> QED
    BY <1>3, <2>1, <2>2, <2>3 DEF ProcInv, TypeOK
<1>7. PendingCounts'
  <2>1. p \in Calls /\ Calls' = Calls \ {p}
    BY <1>1, <1>3 DEF ProcInv, TypeOK, Calls
  <2> QED
    BY <1>3, <2>1, CallEnds DEF ProcInv
<1>8. OwnerOf' /\ CallShape' /\ ChildOf' /\ Kept' /\ CallIsTrue'
  BY <1>1, <1>3, <1>4 DEF ProcInv, OwnerOf, CallShape, ChildOf, Kept, CallIsTrue
<1>9. LaterIsTrue'
  BY <1>1, <1>3, <1>4, LaterKept DEF ProcInv
<1>10. Registered'
  <2>1. ASSUME NEW pid \in DOMAIN sProcesses, pid # run[p]
        PROVE  /\ child[pid].at # "free"
               /\ sProcesses[pid] # NoProc =>
                    LET q == sProcesses[pid] IN
                    q # p /\ q \in Procs /\ run[q] = pid /\ mPid[q] = pid /\ pc[q] \in Waiting \cup {"running"} /\ Alive(q)
    BY <1>1, <2>1 DEF ProcInv, TypeOK, Registered
  <2> QED
    BY <1>1, <1>2, <1>3, <1>4, <1>5, <2>1 DEF ProcInv, Registered, ChildOf
<1>11. StatusAt'
  <2>1. \A q \in Procs : q # p /\ pc[q] \in {"handshake", "add"} /\ run[q] \in DOMAIN sPendingPids
                         => run[q] \in DOMAIN sPendingPids'
    <3>1. sPending' = 0 \/ \A pid \in DOMAIN sPendingPids : pid # mPid[p] => pid \in DOMAIN sPendingPids'
      BY <1>3
    <3> QED
      BY <1>1, <1>3, <3>1, OthersKept
  <2>2. \A q \in Procs : q # p /\ run[q] # NoPid => run[q] # run[p]
    BY <1>1 DEF ProcInv, CallShape
  <2>3. \A q \in Procs : pc[q] \in {"handshake", "add"} \cup Waiting \cup {"running"} => run[q] # NoPid
    BY DEF ProcInv, CallShape
  <2> QED
    BY <1>1, <1>2, <1>3, <1>4, <1>5, <2>1, <2>2, <2>3 DEF ProcInv, StatusAt
<1> QED
  BY <1>6, <1>7, <1>8, <1>9, <1>10, <1>11 DEF ProcInv

(* clear: the process may start again, its last child is forgotten. *)
LEMMA ClearStep ==
    ASSUME ProcInv, NEW p \in Procs, Clear(p)
    PROVE  ProcInv'
<1>1. TypeOK'
  BY ProcessAssumption DEF ProcInv, Clear, TypeOK, Returned, NoPid, ReturnUnset, Returns,
     ReturnCrashed, ReturnKilled, ExecFailed
<1>2. PendingCounts'
  <2>1. Calls' = Calls /\ sPending' = sPending
    BY DEF ProcInv, Calls, Clear, TypeOK, Returned, NoPid, ReturnUnset, Returns, ReturnCrashed,
       ReturnKilled, ExecFailed
  <2> QED
    BY <2>1 DEF ProcInv, PendingCounts
<1>3. Registered' /\ CallIsTrue' /\ LaterIsTrue'
  BY DEF ProcInv, Clear, Registered, CallIsTrue, LaterIsTrue, Returned, NoPid, ReturnUnset
<1>4. CallShape'
  BY DEF ProcInv, Clear, CallShape, TypeOK
<1>5. ChildOf'
  BY DEF ProcInv, Clear, ChildOf, TypeOK
<1>6. OwnerOf'
  <2>1. \A pid \in Pids : child[pid].at \in {"forked", "running"} => child[pid].owner # p
    <3>1. ASSUME NEW pid \in Pids, child[pid].at \in {"forked", "running"}, child[pid].owner = p PROVE FALSE
      <4>1. run[p] = pid /\ pid # NoPid
        BY <3>1, ProcessAssumption DEF ProcInv, OwnerOf, NoPid
      <4>2. pc[p] \in Returned /\ mPid[p] = NoPid
        BY DEF Clear
      <4> QED
        BY <3>1, <4>1, <4>2 DEF ProcInv, ChildOf, CallShape, StatusAt, Returned
    <3> QED
      BY <3>1
  <2>2. UNCHANGED child /\ \A q \in Procs : q # p => run'[q] = run[q]
    BY DEF ProcInv, TypeOK, Clear
  <2> QED
    BY <2>1, <2>2 DEF ProcInv, OwnerOf
<1>7. Kept'
  <2>1. UNCHANGED <<child, sPendingPids>> /\ run'[p] = NoPid
        /\ \A q \in Procs : q # p => run'[q] = run[q] /\ exit'[q] = exit[q]
    BY DEF ProcInv, TypeOK, Clear
  <2>2. \A pid \in DOMAIN sPendingPids : pid # NoPid
    BY ProcessAssumption DEF ProcInv, TypeOK, NoPid
  <2> QED
    BY <2>1, <2>2 DEF ProcInv, Kept
<1>8. StatusAt'
  BY DEF ProcInv, Clear, StatusAt, TypeOK
<1> QED
  BY <1>1, <1>2, <1>3, <1>4, <1>5, <1>6, <1>7, <1>8 DEF ProcInv

(* The loop reads output; where the status is does not change. *)
LEMMA LoopOutputStep ==
    ASSUME ProcInv, NEW p \in Procs, LoopOutput(p)
    PROVE  ProcInv'
<1>1. TypeOK'
  BY ProcessAssumption DEF ProcInv, LoopOutput, TypeOK, HandleOutput
<1>2. PendingCounts'
  BY DEF ProcInv, LoopOutput, PendingCounts, HandleOutput, Calls
<1>3. CallShape' /\ ChildOf' /\ OwnerOf' /\ Registered' /\ Kept' /\ CallIsTrue' /\ LaterIsTrue' /\ StatusAt'
  BY DEF ProcInv, LoopOutput, CallShape, ChildOf, OwnerOf, Registered, Kept, CallIsTrue, LaterIsTrue,
     StatusAt, HandleOutput
<1> QED
  BY <1>1, <1>2, <1>3 DEF ProcInv

(* kill of the loop goes to a child that may have ended. *)
LEMMA LoopKillStep ==
    ASSUME ProcInv, NEW p \in Procs, LoopKill(p)
    PROVE  ProcInv'
<1>1. TypeOK'
  BY ProcessAssumption DEF ProcInv, LoopKill, TypeOK, ReturnUnset, NoPid, ReturnKilled, Returns,
     Returned, ReturnCrashed, ExecFailed
<1>2. PendingCounts'
  BY DEF ProcInv, LoopKill, PendingCounts, Calls
<1>3. CallShape' /\ ChildOf' /\ OwnerOf' /\ Registered' /\ Kept' /\ CallIsTrue' /\ LaterIsTrue' /\ StatusAt'
  BY DEF ProcInv, LoopKill, CallShape, ChildOf, OwnerOf, Registered, Kept, CallIsTrue, LaterIsTrue,
     StatusAt
<1> QED
  BY <1>1, <1>2, <1>3 DEF ProcInv

(* select of exec returns with output or because of the timeout. *)
LEMMA SelectReturnsStep ==
    ASSUME ProcInv, NEW p \in Syncs, SelectReturns(p)
    PROVE  ProcInv'
<1>1. TypeOK'
  BY ProcessAssumption DEF ProcInv, SelectReturns, TypeOK, HandleOutput
<1>2. PendingCounts'
  <2>1. Calls' = Calls /\ sPending' = sPending
    BY DEF ProcInv, Calls, SelectReturns, TypeOK, HandleOutput
  <2> QED
    BY <2>1 DEF ProcInv, PendingCounts
<1>3. /\ pc[p] = "select" /\ pc'[p] \in {"slot", "check"}
      /\ pc'[p] = "slot" => p \in SlotKills /\ wrote[p] > 0
      /\ \A q \in Procs : q # p => pc'[q] = pc[q] /\ got'[q] = got[q]
      /\ UNCHANGED <<threadVars, reaper, sProcessPipe, kernelVars, mReturn, mPid, mSync, wrote, loopVars, starts>>
  BY ProcessAssumption DEF ProcInv, TypeOK, SelectReturns, HandleOutput
<1>4. OwnerOf' /\ Kept' /\ CallShape' /\ ChildOf' /\ CallIsTrue'
  BY <1>3 DEF ProcInv, OwnerOf, Kept, CallShape, ChildOf, CallIsTrue
<1>5. Registered'
  <2>1. \A pid \in DOMAIN sProcesses : sProcesses[pid] # NoProc => sProcesses[pid] \in Procs
    BY DEF ProcInv, TypeOK
  <2> QED
    BY <1>3, <2>1 DEF ProcInv, Registered
<1>6. LaterIsTrue'
  BY <1>3, LaterKept DEF ProcInv
<1>7. StatusAt'
  BY <1>3 DEF ProcInv, StatusAt
<1> QED
  BY <1>1, <1>2, <1>4, <1>5, <1>6, <1>7 DEF ProcInv

(* The slot of readyReadStdOut does not kill. *)
LEMMA SlotReturnsStep ==
    ASSUME ProcInv, NEW p \in Syncs, SlotReturns(p)
    PROVE  ProcInv'
<1>1. /\ pc[p] = "slot" /\ pc'[p] = "check"
      /\ \A q \in Procs : q # p => pc'[q] = pc[q]
      /\ UNCHANGED <<threadVars, reaper, sProcessPipe, kernelVars, mReturn, mPid, mSync, outVars, loopVars, starts>>
  BY DEF ProcInv, TypeOK, SlotReturns
<1>2. TypeOK'
  <2>1. pc' \in [Procs -> {"idle", "running"} \cup Starting \cup Waiting \cup Returned]
    BY DEF ProcInv, TypeOK, SlotReturns
  <2> QED
    BY <1>1, <2>1 DEF ProcInv, TypeOK
<1>3. PendingCounts'
  <2>1. Calls' = Calls
    BY <1>1 DEF Calls
  <2> QED
    BY <1>1, <2>1 DEF ProcInv, PendingCounts
<1>4. OwnerOf' /\ Kept' /\ CallShape' /\ ChildOf' /\ CallIsTrue'
  BY <1>1 DEF ProcInv, OwnerOf, Kept, CallShape, ChildOf, CallIsTrue
<1>5. Registered'
  <2>1. \A pid \in DOMAIN sProcesses : sProcesses[pid] # NoProc => sProcesses[pid] \in Procs
    BY DEF ProcInv, TypeOK
  <2> QED
    BY <1>1, <2>1 DEF ProcInv, Registered
<1>6. LaterIsTrue'
  BY <1>1, LaterKept DEF ProcInv
<1>7. StatusAt'
  BY <1>1 DEF ProcInv, StatusAt
<1> QED
  BY <1>2, <1>3, <1>4, <1>5, <1>6, <1>7 DEF ProcInv

(* exec has seen the status and the end of the output: Done. *)
LEMMA SelectDoneStep ==
    ASSUME ProcInv, NEW p \in Syncs, SelectDone(p)
    PROVE  ProcInv'
<1>1. TypeOK'
  BY ProcessAssumption DEF ProcInv, SelectDone, TypeOK, HandleOutput, Returns, Returned, NoPid,
     ReturnCrashed, ReturnUnset, ReturnKilled, ExecFailed
<1>2. PendingCounts'
  <2>1. Calls' = Calls /\ sPending' = sPending
    BY DEF ProcInv, Calls, SelectDone, TypeOK, HandleOutput
  <2> QED
    BY <2>1 DEF ProcInv, PendingCounts
<1>3. OwnerOf' /\ Kept' /\ ChildOf' /\ LaterIsTrue'
  BY DEF ProcInv, SelectDone, OwnerOf, Kept, ChildOf, LaterIsTrue, HandleOutput
<1>4. CallShape'
  BY DEF ProcInv, SelectDone, CallShape, TypeOK, HandleOutput
<1>5. Registered'
  BY DEF ProcInv, SelectDone, Registered, TypeOK, CallShape, HandleOutput
<1>6. CallIsTrue'
  BY DEF ProcInv, SelectDone, CallIsTrue, TypeOK, CallShape, HandleOutput
<1>7. StatusAt'
  <2>1. /\ pc[p] = "select" /\ mSync[p] /\ pc'[p] = "Done" /\ got'[p] = wrote[p]
        /\ \A q \in Procs : q # p => pc'[q] = pc[q] /\ mSync'[q] = mSync[q] /\ got'[q] = got[q]
        /\ UNCHANGED <<threadVars, reaper, kernelVars, mReturn, mPid, wrote, loopVars>>
    BY DEF ProcInv, TypeOK, SelectDone, HandleOutput
  <2>2. run[p] # NoPid /\ closePipe[p] = "eof" /\ mPid[p] = NoPid
    BY <2>1 DEF ProcInv, CallShape
  <2>3. Reaped(p) /\ ~Called(p)
    BY <2>1, <2>2, AliveOrReaped DEF ProcInv, StatusAt, CallIsTrue
  <2>4. mReturn[p] \in ToldReturns(p)
    BY <2>1, <2>3 DEF ProcInv, StatusAt
  <2> QED
    BY <2>1, <2>3, <2>4 DEF ProcInv, StatusAt
<1> QED
  BY <1>1, <1>2, <1>3, <1>4, <1>5, <1>6, <1>7 DEF ProcInv

(* exec looks at the clock and goes on, or kills. *)
LEMMA CheckTimeStep ==
    ASSUME ProcInv, NEW p \in Syncs, CheckTime(p)
    PROVE  ProcInv'
<1>1. /\ pc[p] = "check" /\ pc'[p] \in {"select", "kill"}
      /\ \A q \in Procs : q # p => pc'[q] = pc[q]
      /\ UNCHANGED <<threadVars, reaper, sProcessPipe, kernelVars, mReturn, mPid, mSync, outVars, loopVars, starts>>
  BY DEF ProcInv, TypeOK, CheckTime
<1>2. TypeOK'
  <2>1. pc' \in [Procs -> {"idle", "running"} \cup Starting \cup Waiting \cup Returned]
    <3>1. pc' = [pc EXCEPT ![p] = "select"] \/ pc' = [pc EXCEPT ![p] = "kill"]
      BY DEF CheckTime
    <3>2. pc \in [Procs -> {"idle", "running"} \cup Starting \cup Waiting \cup Returned]
      BY DEF ProcInv, TypeOK
    <3> QED
      BY <3>1, <3>2
  <2> QED
    BY <1>1, <2>1 DEF ProcInv, TypeOK
<1>3. PendingCounts'
  <2>1. Calls' = Calls
    BY <1>1 DEF Calls
  <2> QED
    BY <1>1, <2>1 DEF ProcInv, PendingCounts
<1>4. OwnerOf' /\ Kept' /\ CallShape' /\ ChildOf' /\ CallIsTrue'
  BY <1>1 DEF ProcInv, OwnerOf, Kept, CallShape, ChildOf, CallIsTrue
<1>5. Registered'
  <2>1. \A pid \in DOMAIN sProcesses : sProcesses[pid] # NoProc => sProcesses[pid] \in Procs
    BY DEF ProcInv, TypeOK
  <2> QED
    BY <1>1, <2>1 DEF ProcInv, Registered
<1>6. LaterIsTrue'
  BY <1>1, LaterKept DEF ProcInv
<1>7. StatusAt'
  BY <1>1 DEF ProcInv, StatusAt
<1> QED
  BY <1>2, <1>3, <1>4, <1>5, <1>6, <1>7 DEF ProcInv

(* kill looks at mReturn and mPid, without a lock. *)
LEMMA KillTestsStep ==
    ASSUME ProcInv, NEW p \in Syncs, KillTests(p)
    PROVE  ProcInv'
<1>1. TypeOK'
  BY ProcessAssumption DEF ProcInv, KillTests, TypeOK
<1>2. PendingCounts'
  <2>1. Calls' = Calls /\ sPending' = sPending
    BY DEF ProcInv, Calls, KillTests, TypeOK
  <2> QED
    BY <2>1 DEF ProcInv, PendingCounts
<1>3. OwnerOf' /\ Kept' /\ CallShape' /\ ChildOf' /\ Registered' /\ CallIsTrue' /\ LaterIsTrue' /\ StatusAt'
  BY DEF ProcInv, KillTests, OwnerOf, Kept, CallShape, ChildOf, Registered, CallIsTrue, LaterIsTrue,
     StatusAt
<1> QED
  BY <1>1, <1>2, <1>3 DEF ProcInv

(* kill sets mReturn, which finish sets again, and signals the child. *)
LEMMA KillSendsStep ==
    ASSUME ProcInv, NEW p \in Syncs, KillSends(p)
    PROVE  ProcInv'
<1>1. TypeOK'
  BY ProcessAssumption DEF ProcInv, KillSends, TypeOK, ReturnKilled, Returns, Returned, NoPid,
     ReturnCrashed, ReturnUnset, ExecFailed
<1>2. PendingCounts'
  <2>1. Calls' = Calls /\ sPending' = sPending
    BY DEF ProcInv, Calls, KillSends, TypeOK
  <2> QED
    BY <2>1 DEF ProcInv, PendingCounts
<1>3. OwnerOf' /\ Kept' /\ CallShape' /\ ChildOf' /\ Registered' /\ CallIsTrue' /\ LaterIsTrue' /\ StatusAt'
  BY DEF ProcInv, KillSends, OwnerOf, Kept, CallShape, ChildOf, Registered, CallIsTrue, LaterIsTrue,
     StatusAt
<1> QED
  BY <1>1, <1>2, <1>3 DEF ProcInv

(* exec timed out and gives its entry up. *)
LEMMA RemovePidStep ==
    ASSUME ProcInv, NEW p \in Syncs, RemovePid(p)
    PROVE  ProcInv'
<1>1. TypeOK'
  BY ProcessAssumption DEF ProcInv, RemovePid, TypeOK, Returns, Returned, NoPid, ReturnCrashed,
     ReturnUnset, ReturnKilled, ExecFailed
<1>2. PendingCounts'
  <2>1. Calls' = Calls /\ sPending' = sPending
    BY DEF ProcInv, Calls, RemovePid, TypeOK
  <2> QED
    BY <2>1 DEF ProcInv, PendingCounts
<1>3. OwnerOf' /\ Kept' /\ CallShape' /\ ChildOf' /\ Registered' /\ CallIsTrue' /\ LaterIsTrue'
  BY DEF ProcInv, RemovePid, OwnerOf, Kept, CallShape, ChildOf, Registered, CallIsTrue, LaterIsTrue
<1>4. StatusAt'
  BY DEF ProcInv, RemovePid, StatusAt, TypeOK, CallShape
<1> QED
  BY <1>1, <1>2, <1>3, <1>4 DEF ProcInv

(* The reaper is woken by the signal handler. *)
LEMMA ReadByteStep ==
    ASSUME ProcInv, ReadByte
    PROVE  ProcInv'
<1>1. TypeOK'
  <2>1. sProcessPipe' \in Nat
    BY DEF ProcInv, TypeOK, ReadByte
  <2>2. reaper' \in [at : {"read", "reap", "call", "relock"}, proc : Procs \cup {NoProc}, ret : Returns]
    BY DEF ProcInv, TypeOK, ReadByte
  <2> QED
    BY <2>1, <2>2 DEF ProcInv, TypeOK, ReadByte
<1>2. PendingCounts'
  BY DEF ProcInv, ReadByte, PendingCounts, Calls
<1>3. CallShape' /\ ChildOf' /\ OwnerOf' /\ Registered' /\ Kept' /\ LaterIsTrue' /\ CallIsTrue' /\ StatusAt'
  BY DEF ProcInv, ReadByte, CallShape, ChildOf, OwnerOf, Registered, Kept, LaterIsTrue, CallIsTrue,
     StatusAt
<1> QED
  BY <1>1, <1>2, <1>3 DEF ProcInv

(* waitpid has no more for it. *)
LEMMA ReapDoneStep ==
    ASSUME ProcInv, ReapDone
    PROVE  ProcInv'
<1>1. TypeOK'
  BY ProcessAssumption DEF ProcInv, ReapDone, TypeOK, ReturnUnset, Returns, Returned, NoPid,
     ReturnCrashed, ReturnKilled, ExecFailed
<1>2. PendingCounts'
  BY DEF ProcInv, ReapDone, PendingCounts, Calls
<1>3. CallShape' /\ ChildOf' /\ OwnerOf' /\ Registered' /\ Kept' /\ LaterIsTrue' /\ CallIsTrue' /\ StatusAt'
  BY DEF ProcInv, ReapDone, CallShape, ChildOf, OwnerOf, Registered, Kept, LaterIsTrue, CallIsTrue,
     StatusAt
<1> QED
  BY <1>1, <1>2, <1>3 DEF ProcInv

(* finish gives the status to exec, or posts it to the loop. *)
LEMMA CallFinishStep ==
    ASSUME ProcInv, CallFinish
    PROVE  ProcInv'
<1> DEFINE p == reaper.proc
<1>1. /\ reaper.at = "call" /\ p \in Procs /\ run[p] # NoPid /\ Reaped(p) /\ reaper.ret = exit[p]
      /\ mPid[p] = run[p] /\ Reachable(p) /\ \A i \in DOMAIN later : later[i].proc # p
  BY DEF ProcInv, CallIsTrue, CallFinish
<1>2. ~mSync[p] /\ exit[p] \in Returns /\ (p \in Syncs <=> p \notin Asyncs) /\ (p \in Syncs <=> pc[p] # "running")
  BY <1>1, ProcessAssumption DEF ProcInv, TypeOK, CallShape
<1>3. /\ reaper' = [reaper EXCEPT !.at = "relock"]
      /\ UNCHANGED <<threadVars, sProcessPipe, kernelVars, pc, outVars, loopAlive, starts>>
  BY DEF CallFinish
<1>4. reaper'.at = "relock" /\ reaper' \in [at : {"read", "reap", "call", "relock"}, proc : Procs \cup {NoProc}, ret : Returns]
  BY <1>3 DEF ProcInv, TypeOK
<1>5. PendingCounts' /\ ChildOf' /\ OwnerOf' /\ Kept' /\ CallIsTrue'
  BY <1>3, <1>4 DEF ProcInv, PendingCounts, Calls, ChildOf, OwnerOf, Kept, CallIsTrue
<1>6. CASE p \in Syncs
  <2>1. /\ mReturn' = [mReturn EXCEPT ![p] = exit[p]]
        /\ mPid' = [mPid EXCEPT ![p] = NoPid]
        /\ mSync' = [mSync EXCEPT ![p] = p \in Syncs]
        /\ UNCHANGED later
    BY <1>1, <1>6 DEF CallFinish, Finish
  <2>2. mSync' \in [Procs -> BOOLEAN] /\ mSync'[p] = (p \in Syncs)
        /\ \A q \in Procs : q # p => mSync'[q] = mSync[q]
    <3>1. mSync \in [Procs -> BOOLEAN] /\ p \in Procs
      BY <1>1 DEF ProcInv, TypeOK
    <3> HIDE DEF p
    <3>2. (p \in Syncs) \in BOOLEAN
      OBVIOUS
    <3> QED
      BY <2>1, <3>1, <3>2, SetBoolean, Zenon
  <2>3. mSync'[p]
    BY <1>6, <2>2, Zenon
  <2>4. /\ mReturn'[p] = exit[p] /\ mPid'[p] = NoPid
        /\ \A q \in Procs : q # p => mReturn'[q] = mReturn[q] /\ mPid'[q] = mPid[q]
        /\ mReturn' \in [Procs -> Returns] /\ mPid' \in [Procs -> Pids \cup {NoPid}]
    BY <1>1, <1>2, <2>1 DEF ProcInv, TypeOK
  <2>5. TypeOK'
    BY <1>3, <1>4, <2>1, <2>2, <2>4 DEF ProcInv, TypeOK
  <2>6. CallShape'
    BY <1>1, <1>2, <1>3, <1>6, <2>2, <2>3, <2>4 DEF ProcInv, CallShape
  <2>7. Registered'
    <3>1. \A pid \in DOMAIN sProcesses : sProcesses[pid] # NoProc => sProcesses[pid] \in Procs /\ sProcesses[pid] # p
      BY <1>1 DEF ProcInv, TypeOK, Registered
    <3> QED
      BY <1>3, <2>4, <3>1 DEF ProcInv, Registered
  <2>8. LaterIsTrue'
    BY <1>3, <2>1 DEF ProcInv, LaterIsTrue
  <2>9. StatusAt'
    BY <1>1, <1>2, <1>3, <1>4, <1>6, <2>1, <2>2, <2>3, <2>4 DEF ProcInv, StatusAt
  <2> QED
    BY <1>5, <2>5, <2>6, <2>7, <2>8, <2>9 DEF ProcInv
<1>7. CASE p \notin Syncs
  <2>1. /\ later' = IF loopAlive THEN Append(later, [proc |-> p, ret |-> exit[p]]) ELSE later
        /\ UNCHANGED <<mReturn, mPid, mSync>>
    BY <1>1, <1>7 DEF CallFinish
  <2>2. loopAlive => /\ LaterIsTrue' /\ later' \in Seq([proc : Asyncs, ret : Returns])
                     /\ \E i \in DOMAIN later' : later'[i].proc = p
                     /\ \A i \in DOMAIN later : i \in DOMAIN later' /\ later'[i] = later[i]
    BY <1>1, <1>2, <1>3, <1>7, <2>1, LaterGrows DEF ProcInv
  <2>3. LaterIsTrue' /\ later' \in Seq([proc : Asyncs, ret : Returns])
    BY <1>3, <2>1, <2>2, LaterTypes DEF ProcInv, LaterIsTrue
  <2>4. TypeOK'
    BY <1>3, <1>4, <2>1, <2>3 DEF ProcInv, TypeOK
  <2>5. CallShape' /\ Registered'
    BY <1>3, <2>1 DEF ProcInv, CallShape, Registered
  <2>6. StatusAt'
    <3>1. \A q \in Procs : loopAlive /\ (\E i \in DOMAIN later : later[i].proc = q) => \E i \in DOMAIN later' : later'[i].proc = q
      BY <2>2
    <3> QED
      BY <1>1, <1>2, <1>3, <1>4, <1>7, <2>1, <2>2, <3>1 DEF ProcInv, StatusAt
  <2> QED
    BY <1>5, <2>3, <2>4, <2>5, <2>6 DEF ProcInv
<1> QED
  BY <1>6, <1>7

(* The reaper goes on with the next child. *)
LEMMA RelockStep ==
    ASSUME ProcInv, Relock
    PROVE  ProcInv'
<1>1. TypeOK'
  BY ProcessAssumption DEF ProcInv, Relock, TypeOK, ReturnUnset, Returns, Returned, NoPid,
     ReturnCrashed, ReturnKilled, ExecFailed
<1>2. PendingCounts'
  BY DEF ProcInv, Relock, PendingCounts, Calls
<1>3. CallShape' /\ ChildOf' /\ OwnerOf' /\ Registered' /\ Kept' /\ LaterIsTrue' /\ CallIsTrue' /\ StatusAt'
  BY DEF ProcInv, Relock, CallShape, ChildOf, OwnerOf, Registered, Kept, LaterIsTrue, CallIsTrue,
     StatusAt
<1> QED
  BY <1>1, <1>2, <1>3 DEF ProcInv

(* The loop runs what finish posted: finished. *)
LEMMA LoopFinishStep ==
    ASSUME ProcInv, LoopFinish
    PROVE  ProcInv'
<1> DEFINE p == later[1].proc
<1>1. /\ later \in Seq([proc : Asyncs, ret : Returns]) /\ Len(later) \in Nat /\ DOMAIN later = 1 .. Len(later)
      /\ \A i \in DOMAIN later : later[i].proc \in Asyncs /\ later[i].ret \in Returns
      /\ later # <<>>
  BY LaterTypes DEF ProcInv, LoopFinish
<1>2. 1 \in DOMAIN later /\ Head(later) = later[1]
  BY <1>1
<1>3. /\ p \in Asyncs /\ pc[p] = "running" /\ run[p] # NoPid /\ Reaped(p) /\ later[1].ret = exit[p]
      /\ exit[p] \in Returns
  BY <1>1, <1>2 DEF ProcInv, LaterIsTrue
<1>4. /\ mReturn' = [mReturn EXCEPT ![p] = exit[p]]
      /\ mPid' = [mPid EXCEPT ![p] = NoPid]
      /\ mSync' = [mSync EXCEPT ![p] = p \in Syncs]
      /\ got' = [got EXCEPT ![p] = wrote[p]]
      /\ pc' = [pc EXCEPT ![p] = "finished"]
      /\ later' = Tail(later)
      /\ UNCHANGED <<threadVars, reaper, sProcessPipe, kernelVars, wrote, loopAlive, starts>>
  BY <1>2, <1>3 DEF LoopFinish, Finish, HandleOutput
<1>5. /\ later' \in Seq([proc : Asyncs, ret : Returns]) /\ DOMAIN later' = 1 .. Len(later) - 1
      /\ \A i \in DOMAIN later' : i + 1 \in DOMAIN later /\ i + 1 # 1 /\ later'[i] = later[i + 1]
  BY <1>1, <1>4
<1>6. \A k \in DOMAIN later : k = 1 \/ (k - 1 \in DOMAIN later' /\ later'[k - 1] = later[k])
  <2>1. \A k \in DOMAIN later : k = 1 \/ (k - 1 \in DOMAIN later' /\ (k - 1) + 1 = k)
    BY <1>1, <1>5
  <2> QED
    BY <1>5, <2>1
<1>7. \A i \in DOMAIN later' : later'[i].proc # p
  BY <1>2, <1>5 DEF ProcInv, LaterIsTrue
<1>8. mSync' \in [Procs -> BOOLEAN] /\ ~mSync'[p] /\ \A q \in Procs : q # p => mSync'[q] = mSync[q]
  <2>1. mSync \in [Procs -> BOOLEAN] /\ p \notin Syncs /\ p \in Procs
    BY <1>3, ProcessAssumption DEF ProcInv, TypeOK
  <2> HIDE DEF p
  <2>2. mSync' \in [Procs -> BOOLEAN] /\ mSync'[p] = (p \in Syncs) /\ \A q \in Procs : q # p => mSync'[q] = mSync[q]
    <3>1. (p \in Syncs) \in BOOLEAN
      OBVIOUS
    <3> QED
      BY <1>4, <2>1, <3>1, SetBoolean, Zenon
  <2> QED
    BY <2>1, <2>2, Zenon
<1>9. /\ p \in Procs /\ mReturn'[p] = exit[p] /\ mPid'[p] = NoPid /\ got'[p] = wrote[p] /\ pc'[p] = "finished"
      /\ \A q \in Procs : q # p =>
            mReturn'[q] = mReturn[q] /\ mPid'[q] = mPid[q] /\ got'[q] = got[q] /\ pc'[q] = pc[q]
  BY <1>3, <1>4 DEF ProcInv, TypeOK
<1> HIDE DEF p
<1>10. TypeOK'
  <2>1. /\ mReturn' \in [Procs -> Returns] /\ mPid' \in [Procs -> Pids \cup {NoPid}]
        /\ got' \in [Procs -> Nat]
        /\ pc' \in [Procs -> {"idle", "running"} \cup Starting \cup Waiting \cup Returned]
    BY <1>3, <1>4 DEF ProcInv, TypeOK, Returned
  <2> QED
    BY <1>4, <1>5, <1>8, <2>1 DEF ProcInv, TypeOK
<1>11. PendingCounts'
  <2>1. Calls' = Calls
    BY <1>3, <1>9 DEF Calls
  <2> QED
    BY <1>4, <2>1 DEF ProcInv, PendingCounts
<1>12. OwnerOf' /\ Kept'
  BY <1>4 DEF ProcInv, OwnerOf, Kept
<1>13. CallShape'
  BY <1>3, <1>4, <1>8, <1>9 DEF ProcInv, CallShape
<1>14. ChildOf'
  BY <1>3, <1>4, <1>9 DEF ProcInv, ChildOf, CallShape
<1>15. Registered'
  <2>1. \A pid \in DOMAIN sProcesses : sProcesses[pid] # NoProc => sProcesses[pid] \in Procs /\ sProcesses[pid] # p
    BY <1>3 DEF ProcInv, TypeOK, Registered
  <2> QED
    BY <1>4, <1>9, <2>1 DEF ProcInv, Registered
<1>16. CallIsTrue'
  <2>1. reaper.at = "call" => reaper.proc # p /\ reaper.proc \in Procs /\ \A i \in DOMAIN later' : later'[i].proc # reaper.proc
    BY <1>2, <1>5 DEF ProcInv, CallIsTrue, p
  <2> QED
    BY <1>4, <1>9, <2>1 DEF ProcInv, CallIsTrue
<1>17. LaterIsTrue'
  <2>1. ASSUME NEW i \in DOMAIN later'
        PROVE  LET q == later'[i].proc
               IN  pc'[q] = "running" /\ run'[q] # NoPid /\ child'[run'[q]].at = "reaped" /\ later'[i].ret = exit'[q]
    <3>1. later'[i] = later[i + 1] /\ i + 1 \in DOMAIN later /\ later'[i].proc # p /\ later[i + 1].proc \in Procs
      BY <1>1, <1>5, <1>7
    <3> QED
      BY <1>4, <1>9, <3>1 DEF ProcInv, LaterIsTrue
  <2>2. ASSUME NEW i \in DOMAIN later', NEW k \in DOMAIN later', later'[i].proc = later'[k].proc
        PROVE  i = k
    <3>1. i + 1 = k + 1
      BY <1>5, <2>2 DEF ProcInv, LaterIsTrue
    <3>2. i \in Nat /\ k \in Nat
      BY <1>1, <1>5
    <3> QED
      BY <3>1, <3>2
  <2> QED
    BY <2>1, <2>2 DEF LaterIsTrue
<1>18. StatusAt'
  <2>1. \A q \in Procs : q # p /\ (\E i \in DOMAIN later : later[i].proc = q) => \E i \in DOMAIN later' : later'[i].proc = q
    BY <1>6 DEF p
  <2> QED
    BY <1>3, <1>4, <1>8, <1>9, <2>1 DEF ProcInv, StatusAt
<1> QED
  BY <1>10, <1>11, <1>12, <1>13, <1>14, <1>15, <1>16, <1>17, <1>18 DEF ProcInv

(* The loop is gone; its processes get no status. *)
LEMMA LoopEndsStep ==
    ASSUME ProcInv, LoopEnds
    PROVE  ProcInv'
<1>1. TypeOK'
  <2>1. loopAlive' \in BOOLEAN
    BY Zenon DEF LoopEnds
  <2>2. later' \in Seq([proc : Asyncs, ret : Returns])
    BY DEF LoopEnds
  <2> QED
    BY <2>1, <2>2 DEF ProcInv, TypeOK, LoopEnds
<1>2. PendingCounts'
  BY DEF ProcInv, LoopEnds, PendingCounts, Calls
<1>3. CallShape' /\ ChildOf' /\ OwnerOf' /\ Registered' /\ Kept' /\ CallIsTrue' /\ LaterIsTrue' /\ StatusAt'
  BY DEF ProcInv, LoopEnds, CallShape, ChildOf, OwnerOf, Registered, Kept, CallIsTrue, LaterIsTrue,
     StatusAt
<1> QED
  BY <1>1, <1>2, <1>3 DEF ProcInv

(* SIGCHLD writes to the pipe of the reaper. *)
LEMMA ProcessSignalHandlerStep ==
    ASSUME ProcInv, ProcessSignalHandler
    PROVE  ProcInv'
<1>1. TypeOK'
  <2>1. sigchld' \in BOOLEAN
    BY Zenon DEF ProcessSignalHandler
  <2>2. sProcessPipe' \in Nat
    BY DEF ProcInv, TypeOK, ProcessSignalHandler
  <2> QED
    BY <2>1, <2>2 DEF ProcInv, TypeOK, ProcessSignalHandler
<1>2. PendingCounts'
  BY DEF ProcInv, ProcessSignalHandler, PendingCounts, Calls
<1>3. CallShape' /\ ChildOf' /\ OwnerOf' /\ Registered' /\ Kept' /\ CallIsTrue' /\ LaterIsTrue' /\ StatusAt'
  BY DEF ProcInv, ProcessSignalHandler, CallShape, ChildOf, OwnerOf, Registered, Kept, CallIsTrue,
     LaterIsTrue, StatusAt
<1> QED
  BY <1>1, <1>2, <1>3 DEF ProcInv

(* waitpid takes a status: for a call, or for sPendingPids. *)
LEMMA ReapStep ==
    ASSUME ProcInv, NEW pid \in Pids, Reap(pid)
    PROVE  ProcInv'
<1> DEFINE ret == child[pid].code
<1>1. /\ reaper.at = "reap" /\ child[pid].at = "zombie" /\ Dispatch(pid, ret)
      /\ child' = [child EXCEPT ![pid] = [at |-> "reaped", owner |-> NoProc, code |-> ReturnUnset]]
      /\ UNCHANGED <<sProcessPipe, sigchld, closePipe, run, exit, pc, mReturn, mPid, mSync, outVars, loopVars, starts>>
  BY DEF Reap
<1>2. /\ ret \in Returns /\ pid # NoPid
      /\ child' \in [Pids -> [at : {"free", "forked", "failing", "running", "zombie", "reaped"},
                              owner : Procs \cup {NoProc}, code : Returns]]
      /\ child'[pid].at = "reaped" /\ \A other \in Pids : other # pid => child'[other] = child[other]
  <2>1. ReturnUnset \in Returns
    BY DEF Returns
  <2> QED
    BY <1>1, <2>1, ProcessAssumption DEF ProcInv, TypeOK, NoPid
<1>3. \A p \in Procs : run[p] = pid => exit[p] = ret
  BY <1>1, <1>2 DEF ProcInv, ChildOf
<1>4. pid \notin DOMAIN sPendingPids
  BY <1>1 DEF ProcInv, Kept
<1> HIDE DEF ret
<1>5. CallShape' /\ PendingCounts'
  <2>1. sPending' = sPending
    BY <1>1 DEF Dispatch
  <2> QED
    BY <1>1, <2>1 DEF ProcInv, CallShape, PendingCounts, Calls
<1>6. ChildOf' /\ OwnerOf' /\ LaterIsTrue'
  <2>1. \A i \in DOMAIN later : later[i].proc \in Procs
    BY LaterTypes DEF ProcInv
  <2>2. \A p \in Procs : run[p] # NoPid => run[p] \in Pids
    BY DEF ProcInv, TypeOK
  <2> QED
    BY <1>1, <1>2, <2>1, <2>2 DEF ProcInv, ChildOf, OwnerOf, LaterIsTrue
<1>7. CASE pid \in DOMAIN sProcesses /\ sProcesses[pid] # NoProc
  <2> DEFINE p == sProcesses[pid]
  <2>1. /\ sProcesses' = Without(sProcesses, pid)
        /\ reaper' = [at |-> "call", proc |-> p, ret |-> ret]
        /\ UNCHANGED <<sPending, sPendingPids>>
    BY <1>1, <1>7 DEF Dispatch
  <2>2. /\ p \in Procs /\ run[p] = pid /\ mPid[p] = pid /\ pc[p] \in Waiting \cup {"running"} /\ exit[p] = ret
        /\ \A i \in DOMAIN later : later[i].proc # p
    BY <1>1, <1>2, <1>3, <1>7 DEF ProcInv, TypeOK, Registered, LaterIsTrue
  <2> HIDE DEF p
  <2>3. reaper'.at = "call" /\ reaper'.proc = p /\ reaper'.ret = ret
        /\ reaper' \in [at : {"read", "reap", "call", "relock"}, proc : Procs \cup {NoProc}, ret : Returns]
    BY <1>2, <2>1, <2>2
  <2>4. DOMAIN sProcesses' = DOMAIN sProcesses \ {pid} /\ \A other \in DOMAIN sProcesses' : sProcesses'[other] = sProcesses[other]
    BY <2>1 DEF Without
  <2>5. TypeOK'
    BY <1>1, <1>2, <2>1, <2>3, <2>4 DEF ProcInv, TypeOK
  <2>6. Registered' /\ Kept'
    BY <1>1, <1>2, <2>1, <2>4 DEF ProcInv, TypeOK, Registered, Kept
  <2>7. CallIsTrue'
    BY <1>1, <1>2, <2>2, <2>3 DEF CallIsTrue
  <2>8. StatusAt'
    <3>1. \A q \in Procs : q # p /\ run[q] # NoPid => run[q] # pid /\ run[q] \in Pids
      BY <2>2 DEF ProcInv, TypeOK, CallShape
    <3>2. \A q \in Procs : ~Called(q)
      BY <1>1
    <3>3. \A q \in Procs : pc[q] \in {"handshake", "add", "running", "Done", "TimedOut", "finished"} \cup Waiting => run[q] # NoPid
      BY DEF ProcInv, CallShape
    <3> QED
      BY <1>1, <1>2, <2>1, <2>2, <2>3, <2>4, <3>1, <3>2, <3>3 DEF ProcInv, StatusAt
  <2> QED
    BY <1>5, <1>6, <2>5, <2>6, <2>7, <2>8 DEF ProcInv
<1>8. CASE ~(pid \in DOMAIN sProcesses /\ sProcesses[pid] # NoProc)
  <2>1. /\ UNCHANGED <<sPending, sProcesses, reaper>>
        /\ sPendingPids' = IF pid \notin DOMAIN sProcesses /\ sPending # 0 THEN Put(sPendingPids, pid, ret) ELSE sPendingPids
    BY <1>1, <1>8 DEF Dispatch
  <2>2. /\ DOMAIN sPendingPids \subseteq DOMAIN sPendingPids'
        /\ DOMAIN sPendingPids' \subseteq DOMAIN sPendingPids \cup {pid}
        /\ pid \notin DOMAIN sProcesses /\ sPending # 0 => pid \in DOMAIN sPendingPids'
        /\ pid \in DOMAIN sPendingPids' => sPendingPids'[pid] = ret
        /\ \A other \in DOMAIN sPendingPids' : other # pid => other \in DOMAIN sPendingPids /\ sPendingPids'[other] = sPendingPids[other]
    BY <1>4, <2>1 DEF Put
  <2>3. TypeOK'
    <3>1. DOMAIN sPendingPids' \subseteq Pids /\ \A other \in DOMAIN sPendingPids' : sPendingPids'[other] \in Returns
      <4>1. DOMAIN sPendingPids \subseteq Pids /\ \A other \in DOMAIN sPendingPids : sPendingPids[other] \in Returns
        BY DEF ProcInv, TypeOK
      <4> QED
        BY <1>2, <2>2, <4>1
    <3> QED
      BY <1>1, <1>2, <2>1, <3>1 DEF ProcInv, TypeOK
  <2>4. Registered' /\ CallIsTrue'
    BY <1>1, <1>2, <1>8, <2>1 DEF ProcInv, TypeOK, Registered, CallIsTrue
  <2>5. Kept'
    BY <1>1, <1>2, <1>3, <2>2 DEF ProcInv, TypeOK, Kept
  <2>6. StatusAt'
    <3>1. \A q \in Procs : pc[q] \in {"handshake", "add"} => sPending # 0
      <4>1. \A q \in Procs : pc[q] \in {"handshake", "add"} => q \in Calls
        BY DEF Calls
      <4> QED
        BY <4>1, CallsAreCounted DEF ProcInv
    <3>2. \A q \in Procs : pc[q] \in Waiting \cup {"running"} => run[q] # pid
      BY <1>1, <1>8, ProcessAssumption DEF ProcInv, StatusAt
    <3>3. \A q \in Procs : pc[q] \in {"handshake", "add", "running", "Done", "TimedOut", "finished"} \cup Waiting => run[q] \in Pids
      BY DEF ProcInv, TypeOK, CallShape
    <3> QED
      BY <1>1, <1>2, <2>1, <2>2, <3>1, <3>2, <3>3 DEF ProcInv, StatusAt
  <2> QED
    BY <1>5, <1>6, <2>3, <2>4, <2>5, <2>6 DEF ProcInv
<1> QED
  BY <1>7, <1>8

(* The child execs and its end of the close pipe closes. *)
LEMMA ChildExecsStep ==
    ASSUME ProcInv, NEW pid \in Pids, ChildExecs(pid)
    PROVE  ProcInv'
<1> DEFINE p == child[pid].owner
<1>1. /\ child[pid].at = "forked" /\ p \in Procs /\ run[p] = pid /\ pid # NoPid
      /\ closePipe[p] = "open" /\ pc[p] = "handshake"
  <2>1. pid # NoPid
    BY ProcessAssumption DEF NoPid
  <2> QED
    BY <2>1 DEF ProcInv, ChildExecs, OwnerOf, ChildOf
<1>2. /\ child' = [child EXCEPT ![pid].at = "running"]
      /\ closePipe' = [closePipe EXCEPT ![p] = "eof"]
      /\ UNCHANGED <<threadVars, reaper, sProcessPipe, sigchld, run, exit, pc, mReturn, mPid, mSync, outVars, loopVars, starts>>
  BY DEF ChildExecs
<1>3. /\ child' \in [Pids -> [at : {"free", "forked", "failing", "running", "zombie", "reaped"},
                              owner : Procs \cup {NoProc}, code : Returns]]
      /\ child'[pid].at = "running" /\ child'[pid].owner = p
      /\ \A other \in Pids : other # pid => child'[other] = child[other]
  <2>1. child \in [Pids -> [at : {"free", "forked", "failing", "running", "zombie", "reaped"},
                            owner : Procs \cup {NoProc}, code : Returns]]
    BY DEF ProcInv, TypeOK
  <2> QED
    BY <1>2, <2>1
<1>4. /\ closePipe' \in [Procs -> {"open", "c", "eof"}] /\ closePipe'[p] = "eof"
      /\ \A q \in Procs : q # p => closePipe'[q] = closePipe[q]
  BY <1>1, <1>2 DEF ProcInv, TypeOK
<1>5. \A q \in Procs : q # p /\ run[q] # NoPid => run[q] # pid /\ run[q] \in Pids
  BY <1>1 DEF ProcInv, TypeOK, CallShape
<1> HIDE DEF p
<1>6. TypeOK' /\ PendingCounts'
  BY <1>2, <1>3, <1>4 DEF ProcInv, TypeOK, PendingCounts, Calls
<1>7. CallShape'
  BY <1>1, <1>2, <1>4 DEF ProcInv, CallShape
<1>8. ChildOf' /\ OwnerOf'
  BY <1>1, <1>2, <1>3, <1>4, <1>5 DEF ProcInv, ChildOf, OwnerOf
<1>9. Registered' /\ Kept'
  BY <1>1, <1>2, <1>3 DEF ProcInv, TypeOK, Registered, Kept
<1>10. CallIsTrue' /\ LaterIsTrue'
  <2>1. \A i \in DOMAIN later : later[i].proc \in Procs
    BY LaterTypes DEF ProcInv
  <2> QED
    BY <1>1, <1>2, <1>3, <1>5, <2>1 DEF ProcInv, CallIsTrue, LaterIsTrue
<1>11. StatusAt'
  <2>1. \A q \in Procs : pc[q] \in {"handshake", "add", "running", "Done", "TimedOut", "finished"} \cup Waiting => run[q] # NoPid
    BY DEF ProcInv, CallShape
  <2> QED
    BY <1>1, <1>2, <1>3, <1>4, <1>5, <2>1 DEF ProcInv, StatusAt
<1> QED
  BY <1>6, <1>7, <1>8, <1>9, <1>10, <1>11 DEF ProcInv

(* The child says so on the close pipe and exits. *)
LEMMA ChildCannotExecStep ==
    ASSUME ProcInv, NEW pid \in Pids, ChildCannotExec(pid)
    PROVE  ProcInv'
<1> DEFINE p == child[pid].owner
<1>1. /\ child[pid].at = "forked" /\ p \in Procs /\ run[p] = pid /\ pid # NoPid
      /\ closePipe[p] = "open" /\ pc[p] = "handshake"
  <2>1. pid # NoPid
    BY ProcessAssumption DEF NoPid
  <2> QED
    BY <2>1 DEF ProcInv, ChildCannotExec, OwnerOf, ChildOf
<1>2. /\ child' = [child EXCEPT ![pid].at = "failing"]
      /\ closePipe' = [closePipe EXCEPT ![p] = "c"]
      /\ UNCHANGED <<threadVars, reaper, sProcessPipe, sigchld, run, exit, pc, mReturn, mPid, mSync, outVars, loopVars, starts>>
  BY DEF ChildCannotExec
<1>3. /\ child' \in [Pids -> [at : {"free", "forked", "failing", "running", "zombie", "reaped"},
                              owner : Procs \cup {NoProc}, code : Returns]]
      /\ child'[pid].at = "failing" /\ child'[pid].owner = p
      /\ \A other \in Pids : other # pid => child'[other] = child[other]
  <2>1. child \in [Pids -> [at : {"free", "forked", "failing", "running", "zombie", "reaped"},
                            owner : Procs \cup {NoProc}, code : Returns]]
    BY DEF ProcInv, TypeOK
  <2> QED
    BY <1>2, <2>1
<1>4. /\ closePipe' \in [Procs -> {"open", "c", "eof"}] /\ closePipe'[p] = "c"
      /\ \A q \in Procs : q # p => closePipe'[q] = closePipe[q]
  BY <1>1, <1>2 DEF ProcInv, TypeOK
<1>5. \A q \in Procs : q # p /\ run[q] # NoPid => run[q] # pid /\ run[q] \in Pids
  BY <1>1 DEF ProcInv, TypeOK, CallShape
<1> HIDE DEF p
<1>6. TypeOK' /\ PendingCounts'
  BY <1>2, <1>3, <1>4 DEF ProcInv, TypeOK, PendingCounts, Calls
<1>7. CallShape'
  BY <1>1, <1>2, <1>4 DEF ProcInv, CallShape
<1>8. ChildOf' /\ OwnerOf'
  BY <1>1, <1>2, <1>3, <1>4, <1>5 DEF ProcInv, ChildOf, OwnerOf
<1>9. Registered' /\ Kept'
  BY <1>1, <1>2, <1>3 DEF ProcInv, TypeOK, Registered, Kept
<1>10. CallIsTrue' /\ LaterIsTrue'
  <2>1. \A i \in DOMAIN later : later[i].proc \in Procs
    BY LaterTypes DEF ProcInv
  <2> QED
    BY <1>1, <1>2, <1>3, <1>5, <2>1 DEF ProcInv, CallIsTrue, LaterIsTrue
<1>11. StatusAt'
  <2>1. \A q \in Procs : pc[q] \in {"handshake", "add", "running", "Done", "TimedOut", "finished"} \cup Waiting => run[q] # NoPid
    BY DEF ProcInv, CallShape
  <2> QED
    BY <1>1, <1>2, <1>3, <1>4, <1>5, <2>1 DEF ProcInv, StatusAt
<1> QED
  BY <1>6, <1>7, <1>8, <1>9, <1>10, <1>11 DEF ProcInv

(* ChildWrites: to a call that has not returned. *)
LEMMA ChildWritesStep ==
    ASSUME ProcInv, NEW pid \in Pids, ChildWrites(pid)
    PROVE  ProcInv'
<1> DEFINE p == child[pid].owner
<1>1. /\ child[pid].at = "running" /\ p \in Procs /\ run[p] = pid
      /\ wrote' = [wrote EXCEPT ![p] = @ + 1]
      /\ UNCHANGED <<threadVars, reaper, sProcessPipe, kernelVars, pc, mReturn, mPid, mSync, got, loopVars, starts>>
  BY DEF ProcInv, ChildWrites, OwnerOf
<1>2. wrote' \in [Procs -> Nat] /\ \A q \in Procs : q # p => wrote'[q] = wrote[q]
  BY <1>1, ProcessAssumption DEF ProcInv, TypeOK
<1>3. pc[p] \notin {"Done", "finished"}
  BY <1>1 DEF ProcInv, StatusAt
<1>4. TypeOK'
  BY <1>1, <1>2 DEF ProcInv, TypeOK
<1>5. PendingCounts' /\ CallShape' /\ ChildOf' /\ OwnerOf' /\ Registered' /\ Kept' /\ CallIsTrue' /\ LaterIsTrue'
  <2>1. \A q \in Procs : wrote[q] > 0 => wrote'[q] > 0
    BY <1>1, <1>2, ProcessAssumption DEF ProcInv, TypeOK
  <2>2. CallShape'
    BY <1>1, <2>1 DEF ProcInv, CallShape
  <2> QED
    BY <1>1, <2>2 DEF ProcInv, PendingCounts, Calls, ChildOf, OwnerOf, Registered, Kept, CallIsTrue, LaterIsTrue
<1>6. StatusAt'
  <2>1. \A q \in Procs : wrote[q] > 0 => wrote'[q] > 0
    BY <1>1, <1>2, ProcessAssumption DEF ProcInv, TypeOK
  <2> QED
    BY <1>1, <1>2, <1>3, <2>1 DEF ProcInv, StatusAt
<1> QED
  BY <1>4, <1>5, <1>6 DEF ProcInv

(* ChildEnds: the call of a child that could not exec may be over. *)
LEMMA ChildEndsStep ==
    ASSUME ProcInv, NEW pid \in Pids, ChildEnds(pid)
    PROVE  ProcInv'
<1> DEFINE p == child[pid].owner
<1>1. /\ child[pid].at \in {"forked", "failing", "running"} /\ p \in Procs /\ pid # NoPid
      /\ child[pid].at \in {"forked", "running"} => run[p] = pid
      /\ sigchld' = TRUE
      /\ UNCHANGED <<threadVars, reaper, sProcessPipe, run, pc, mReturn, mPid, mSync, outVars, loopVars, starts>>
  BY ProcessAssumption DEF ProcInv, ChildEnds, OwnerOf, NoPid
<1>2. PICK code \in Returns :
        /\ code # ReturnUnset
        /\ child' = [child EXCEPT ![pid].at = "zombie", ![pid].code = code]
        /\ exit' = IF run[p] = pid THEN [exit EXCEPT ![p] = code] ELSE exit
  <2> DEFINE Ends(code) == /\ child' = [child EXCEPT ![pid].at = "zombie", ![pid].code = code]
                           /\ exit' = IF run[p] = pid THEN [exit EXCEPT ![p] = code] ELSE exit
  <2> HIDE DEF Ends
  <2>1. \E code \in {ReturnCrashed, ExecFailed} \cup Codes : Ends(code)
    <3>1. CASE child[pid].at = "forked"
      BY <3>1 DEF ChildEnds, Ends
    <3>2. CASE child[pid].at = "failing"
      BY <3>2 DEF ChildEnds, Ends
    <3>3. CASE child[pid].at = "running"
      BY <3>3 DEF ChildEnds, Ends
    <3> QED
      BY <1>1, <3>1, <3>2, <3>3
  <2>2. \A code \in {ReturnCrashed, ExecFailed} \cup Codes : code \in Returns /\ code # ReturnUnset
    BY ProcessAssumption DEF Returns, ReturnCrashed, ReturnUnset, ExecFailed
  <2> QED
    BY <2>1, <2>2 DEF Ends
<1>3. closePipe' = IF child[pid].at = "forked" THEN [closePipe EXCEPT ![p] = "eof"] ELSE closePipe
  BY DEF ChildEnds
<1>4. /\ child' \in [Pids -> [at : {"free", "forked", "failing", "running", "zombie", "reaped"},
                              owner : Procs \cup {NoProc}, code : Returns]]
      /\ child'[pid].at = "zombie" /\ child'[pid].owner = p /\ child'[pid].code = code
      /\ \A other \in Pids : other # pid => child'[other] = child[other]
  <2>1. child \in [Pids -> [at : {"free", "forked", "failing", "running", "zombie", "reaped"},
                            owner : Procs \cup {NoProc}, code : Returns]]
    BY DEF ProcInv, TypeOK
  <2> QED
    BY <1>2, <2>1
<1>5. /\ exit' \in [Procs -> Returns]
      /\ run[p] = pid => exit'[p] = code
      /\ \A q \in Procs : q # p => exit'[q] = exit[q]
      /\ run[p] # pid => exit'[p] = exit[p]
  BY <1>1, <1>2 DEF ProcInv, TypeOK
<1>6. /\ closePipe' \in [Procs -> {"open", "c", "eof"}]
      /\ child[pid].at = "forked" => closePipe[p] = "open" /\ pc[p] = "handshake" /\ closePipe'[p] = "eof"
      /\ child[pid].at # "forked" => closePipe'[p] = closePipe[p]
      /\ \A q \in Procs : q # p => closePipe'[q] = closePipe[q]
  BY <1>1, <1>3 DEF ProcInv, TypeOK, ChildOf
<1>7. \A q \in Procs : run[q] # NoPid => run[q] \in Pids /\ (run[q] = pid => q = p)
  BY <1>1 DEF ProcInv, TypeOK, ChildOf
<1> HIDE DEF p
<1>8. TypeOK' /\ PendingCounts'
  <2>1. sigchld' \in BOOLEAN
    BY <1>1, Zenon
  <2> QED
    BY <1>1, <1>4, <1>5, <1>6, <2>1 DEF ProcInv, TypeOK, PendingCounts, Calls
<1>9. CallShape'
  BY <1>1, <1>6 DEF ProcInv, CallShape
<1>10. ChildOf'
  <2>1. ASSUME NEW q \in Procs, run[q] # NoPid, run[q] # pid
        PROVE  child'[run[q]] = child[run[q]] /\ exit'[q] = exit[q] /\ closePipe'[q] = closePipe[q]
    BY <1>1, <1>4, <1>5, <1>6, <1>7, <2>1
  <2>2. run[p] = pid => /\ child'[run[p]].at = "zombie" /\ child'[run[p]].owner = p
                        /\ exit'[p] = child'[run[p]].code /\ exit'[p] # ReturnUnset
                        /\ closePipe'[p] # "open"
    BY <1>1, <1>2, <1>4, <1>5, <1>6 DEF ProcInv, ChildOf
  <2> QED
    BY <1>1, <1>7, <2>1, <2>2 DEF ProcInv, ChildOf
<1>11. OwnerOf'
  BY <1>1, <1>4 DEF ProcInv, OwnerOf
<1>12. Registered'
  <2>0. \A x \in DOMAIN sProcesses : x \in Pids
    BY DEF ProcInv, TypeOK
  <2>1. \A x \in DOMAIN sProcesses : x \in Pids /\ child'[x].at # "free" /\ (sProcesses[x] # NoProc =>
           LET q == sProcesses[x] IN
           run[q] = x /\ mPid[q] = x /\ pc[q] \in Waiting \cup {"running"} /\ child[x].at \in {"running", "zombie"})
    BY <1>4, <2>0 DEF ProcInv, Registered
  <2>2. \A x \in Pids : child[x].at \in {"running", "zombie"} => child'[x].at \in {"running", "zombie"}
    BY <1>4
  <2> QED
    BY <1>1, <2>1, <2>2 DEF Registered
<1>13. Kept'
  <2>1. \A x \in DOMAIN sPendingPids : x \in Pids /\ x # pid /\ child'[x] = child[x]
    BY <1>1, <1>4 DEF ProcInv, TypeOK, Kept
  <2>2. \A q \in Procs : run[q] # pid => exit'[q] = exit[q]
    BY <1>5
  <2> QED
    BY <1>1, <2>1, <2>2 DEF ProcInv, Kept
<1>14. \A q \in Procs : run[q] # NoPid /\ Reaped(q) => run[q] # pid /\ child'[run[q]] = child[run[q]] /\ exit'[q] = exit[q]
  BY <1>1, <1>4, <1>5, <1>7
<1>15. CallIsTrue'
  BY <1>1, <1>14 DEF ProcInv, CallIsTrue
<1>16. LaterIsTrue'
  <2>1. \A i \in DOMAIN later : later[i].proc \in Procs
    BY LaterTypes DEF ProcInv
  <2> QED
    BY <1>1, <1>14, <2>1 DEF ProcInv, LaterIsTrue
<1>17. StatusAt'
  <2>1. \A q \in Procs : pc[q] \in {"handshake", "add", "running", "Done", "TimedOut", "finished"} \cup Waiting => run[q] # NoPid
    BY DEF ProcInv, CallShape
  <2>2. \A q \in Procs : run[q] # NoPid => (child'[run[q]].at = "reaped" <=> Reaped(q))
    BY <1>1, <1>4, <1>7
  <2>3. \A q \in Procs : run[q] # NoPid /\ child'[run[q]].at \in {"running", "zombie"} =>
           Alive(q) \/ pc[q] \in {"handshake", "failed", "Error"}
    BY <1>1, <1>4, <1>6, <1>7 DEF ProcInv, ChildOf, CallShape
  <2>4. \A q \in Procs : Reaped(q) /\ run[q] # NoPid => closePipe'[q] = closePipe[q]
    BY <1>1, <1>6, <1>7
  <2> QED
    BY <1>1, <1>14, <2>1, <2>2, <2>3, <2>4 DEF ProcInv, StatusAt
<1> QED
  BY <1>8, <1>9, <1>10, <1>11, <1>12, <1>13, <1>15, <1>16, <1>17 DEF ProcInv

(* The invariant holds at first. *)
LEMMA ProcInvInit ==
    ASSUME Init
    PROVE  ProcInv
<1>1. TypeOK
  <2>1. sigchld \in BOOLEAN /\ loopAlive \in BOOLEAN /\ mSync \in [Procs -> BOOLEAN]
    BY Zenon DEF Init
  <2>2. ReturnUnset \in Returns /\ 0 \in Nat /\ 0 \in 0 .. MaxStarts
    BY ProcessAssumption DEF Returns
  <2> QED
    BY <2>1, <2>2 DEF Init, TypeOK
<1>2. PendingCounts
  <2>1. Calls = {} /\ sPending = 0
    BY DEF Init, Calls
  <2> QED
    BY <2>1, FS_EmptySet DEF PendingCounts
<1>3. CallShape /\ ChildOf /\ OwnerOf /\ Registered /\ Kept /\ CallIsTrue /\ LaterIsTrue /\ StatusAt
  BY DEF Init, CallShape, ChildOf, OwnerOf, Registered, Kept, CallIsTrue, LaterIsTrue, StatusAt
<1> QED
  BY <1>1, <1>2, <1>3 DEF ProcInv

(* Every step keeps it. *)
LEMMA ProcInvStep ==
    ASSUME ReusePids = FALSE, ProcInv, [Next]_vars
    PROVE  ProcInv'
<1>1. CASE UNCHANGED vars
  <2>1. TypeOK'
    BY <1>1 DEF vars, ProcInv, TypeOK
  <2>2. PendingCounts' /\ CallShape' /\ ChildOf' /\ OwnerOf'
    BY <1>1 DEF vars, ProcInv, PendingCounts, Calls, CallShape, ChildOf, OwnerOf
  <2>3. Registered' /\ Kept' /\ CallIsTrue' /\ LaterIsTrue'
    BY <1>1 DEF vars, ProcInv, Registered, Kept, CallIsTrue, LaterIsTrue
  <2>4. StatusAt'
    BY <1>1 DEF vars, ProcInv, StatusAt
  <2> QED
    BY <2>1, <2>2, <2>3, <2>4 DEF ProcInv
<1>2. ASSUME NEW p \in Procs, Start(p) \/ Call(p) \/ Clear(p) \/ LoopOutput(p) \/ LoopKill(p) PROVE ProcInv'
  BY <1>2, StartStep, ForkStep, ForkFailsStep, GiveUpStep, HandshakeStep, AddPidKnownStep, AddPidStep,
     ClearStep, LoopOutputStep, LoopKillStep, Zenon DEF Call
<1>3. ASSUME NEW p \in Syncs, Exec(p) PROVE ProcInv'
  BY <1>3, SelectReturnsStep, SelectDoneStep, SlotReturnsStep, CheckTimeStep, KillTestsStep, KillSendsStep, RemovePidStep, Zenon
     DEF Exec
<1>4. ASSUME NEW pid \in Pids, Child(pid) PROVE ProcInv'
  BY <1>4, ChildExecsStep, ChildCannotExecStep, ChildWritesStep, ChildEndsStep, Zenon DEF Child
<1>5. CASE Reaper
  BY <1>5, ReadByteStep, ReapStep, ReapDoneStep, CallFinishStep, RelockStep, Zenon DEF Reaper
<1>6. CASE LoopFinish \/ LoopEnds \/ ProcessSignalHandler
  BY <1>6, LoopFinishStep, LoopEndsStep, ProcessSignalHandlerStep, Zenon
<1> QED
  BY <1>1, <1>2, <1>3, <1>4, <1>5, <1>6, Zenon DEF Next

(* Without reuse of pids, types are kept and the invariant holds, for any  *)
(* number of processes and children (Process.cpp).                         *)
THEOREM ProcInvariant ==
    ASSUME ReusePids = FALSE
    PROVE  Spec => []ProcInv
<1>1. Init => ProcInv
  BY ProcInvInit
<1>2. ProcInv /\ [Next]_vars => ProcInv'
  BY ProcInvStep
<1> QED
  BY <1>1, <1>2, PTL DEF Spec

(* What the invariant says of one call. *)
LEMMA StatusIsHeld ==
    ASSUME ProcInv
    PROVE  StatusNotLost
<1> SUFFICES ASSUME NEW p \in Procs, pc[p] \in {"handshake", "add", "select", "slot", "check", "running"},
                    run[p] # NoPid, child[run[p]].at = "reaped", closePipe[p] = "eof",
                    ~(p \in Asyncs /\ ~loopAlive)
             PROVE  OnItsWay(p)
  BY DEF StatusNotLost
<1>1. CASE pc[p] \in {"handshake", "add"}
  <2>1. run[p] \in DOMAIN sPendingPids
    BY <1>1 DEF ProcInv, StatusAt
  <2> QED
    BY <1>1, <2>1 DEF ProcInv, Kept, OnItsWay
<1>2. Called(p) => OnItsWay(p)
  BY DEF ProcInv, CallIsTrue, OnItsWay
<1>3. CASE pc[p] \in {"select", "slot", "check"}
  BY <1>2, <1>3 DEF ProcInv, StatusAt, CallShape, OnItsWay
<1>4. CASE pc[p] = "running"
  <2>1. CASE ~Called(p)
    <3>1. loopAlive
      BY <1>4 DEF ProcInv, CallShape
    <3>2. PICK i \in DOMAIN later : later[i].proc = p
      BY <1>4, <2>1, <3>1 DEF ProcInv, StatusAt
    <3>3. later[i].ret = exit[p]
      BY <3>2 DEF ProcInv, LaterIsTrue
    <3>4. later[i] \in [proc : Asyncs, ret : Returns]
      <4>1. later \in Seq([proc : Asyncs, ret : Returns]) /\ i \in 1 .. Len(later)
        BY LaterTypes DEF ProcInv
      <4> QED
        BY <4>1, ElementOfSeq
    <3>5. later[i] = [proc |-> p, ret |-> exit[p]]
      BY <3>2, <3>3, <3>4
    <3> QED
      BY <3>5 DEF OnItsWay
  <2> QED
    BY <1>2, <2>1
<1> QED
  BY <1>1, <1>3, <1>4

(* A status that waitpid has taken from the kernel is held for its call    *)
(* until that has it, whoever starts, fails, ends or is killed meanwhile   *)
(* (Process.cpp, addPid 119-149 and run 191-233).                          *)
THEOREM StatusNeverLost ==
    ASSUME ReusePids = FALSE
    PROVE  Spec => []StatusNotLost
BY ProcInvariant, StatusIsHeld, PTL

(* Done and finished tell the truth: the status is that of this call's     *)
(* child, or that of a slot's kill after output, and all its output was    *)
(* read and is in mStdOutBuffer if that can hold it (Process.cpp 597-615,  *)
(* 746-778, 822-880).                                                      *)
THEOREM FinishedAlwaysTrue ==
    ASSUME ReusePids = FALSE
    PROVE  Spec => []FinishedIsTrue
<1>1. ProcInv => FinishedIsTrue
  <2> SUFFICES ASSUME ProcInv, NEW p \in Procs, pc[p] \in {"Done", "finished"}
               PROVE  /\ exit[p] # ReturnUnset /\ mReturn[p] \in ToldReturns(p) /\ got[p] = wrote[p]
                      /\ wrote[p] <= MaxSize => Buffered(got[p]) = wrote[p]
    BY DEF FinishedIsTrue
  <2>1. run[p] # NoPid /\ Reaped(p) /\ mReturn[p] \in ToldReturns(p) /\ got[p] = wrote[p]
    BY DEF ProcInv, StatusAt, CallShape
  <2>2. exit[p] # ReturnUnset
    BY <2>1 DEF ProcInv, ChildOf
  <2> QED
    BY <2>1, <2>2 DEF Buffered
<1> QED
  BY <1>1, ProcInvariant, PTL

-----------------------------------------------------------------------------
(* ProcessInput *)

InputType ==
    /\ mStdInBuffer \in Seq(Seq(Nat)) /\ mStdInIndex \in Nat
    /\ mStdIn \in {"open", "normal", "forced"} /\ mWantStdInClosed \in BOOLEAN
    /\ inputArmed \in BOOLEAN /\ pumping \in BOOLEAN
    /\ stdinPipe \in Seq(Nat) /\ consumed \in Seq(Nat) /\ given \in Nat

(* Nothing empty is queued: a string leaves the queue with its last unit. *)
Queued == \A i \in 1 .. Len(mStdInBuffer) : mStdInBuffer[i] # <<>>

(* mStdInIndex is inside the first string. *)
Position ==
    mStdInIndex < IF mStdInBuffer = <<>> THEN 1 ELSE Len(Head(mStdInBuffer))

(* Read, in the pipe, and unsent: that is what write was given. *)
Stream == consumed \o stdinPipe \o Unsent = [i \in 1 .. given |-> i]

(* A close waits for the queue, and the queue for the loop. *)
Closing ==
    /\ mStdIn = "normal" => mStdInBuffer = <<>>
    /\ ~pumping /\ mStdInBuffer # <<>> => inputArmed \/ readerGone
    /\ mWantStdInClosed => mStdInBuffer # <<>>

(* The inductive invariant.  The queue of a forced close is forgotten. *)
InputInv ==
    /\ InputType /\ Queued
    /\ mStdIn = "forced" => ~pumping /\ ~inputArmed
    /\ mStdIn # "forced" => Position /\ Stream /\ Closing

(* What is unsent: the rest of the first string, and the others. *)
LEMMA UnsentIs ==
    ASSUME InputType, Position
    PROVE  /\ Unsent \in Seq(Nat)
           /\ mStdInIndex \in 0 .. Len(FlattenSeq(mStdInBuffer))
           /\ mStdInBuffer = <<>> => Unsent = <<>>
           /\ mStdInBuffer # <<>> =>
                /\ Head(mStdInBuffer) \in Seq(Nat)
                /\ Tail(mStdInBuffer) \in Seq(Seq(Nat))
                /\ Rest \in Seq(Nat) /\ Len(Rest) = Len(Head(mStdInBuffer)) - mStdInIndex
                /\ Len(Rest) \in Nat
                /\ FlattenSeq(Tail(mStdInBuffer)) \in Seq(Nat)
                /\ Unsent = Rest \o FlattenSeq(Tail(mStdInBuffer))
<1> DEFINE b == mStdInBuffer
           k == mStdInIndex
<1>1. b \in Seq(Seq(Nat)) /\ k \in Nat /\ FlattenSeq(b) \in Seq(Nat)
  BY FlattenType DEF InputType
<1>2. CASE b = <<>>
  <2>1. FlattenSeq(b) = <<>> /\ k = 0
    BY <1>1, <1>2 DEF FlattenSeq, Position
  <2> QED
    BY <1>2, <2>1 DEF Unsent
<1>3. CASE b # <<>>
  <2>1. Head(b) \in Seq(Nat) /\ Tail(b) \in Seq(Seq(Nat)) /\ k < Len(Head(b))
    BY <1>1, <1>3, HeadTailProperties DEF Position
  <2>2. k \in 0 .. Len(Head(b))
    BY <1>1, <2>1
  <2>3. /\ SubSeq(FlattenSeq(b), k + 1, Len(FlattenSeq(b)))
           = SubSeq(Head(b), k + 1, Len(Head(b))) \o FlattenSeq(Tail(b))
        /\ k <= Len(FlattenSeq(b))
    BY <1>1, <1>3, <2>2, DropFromFlatten
  <2>4. FlattenSeq(Tail(b)) \in Seq(Nat)
    BY <2>1, FlattenType
  <2>5. Rest \in Seq(Nat) /\ Len(Rest) = Len(Head(b)) - k /\ Len(Rest) \in Nat
    BY <2>1, <2>2, DropIs DEF Rest
  <2>6. Unsent = Rest \o FlattenSeq(Tail(b))
    BY <2>3 DEF Unsent, Rest
  <2>7. k \in 0 .. Len(FlattenSeq(b))
    BY <1>1, <2>3
  <2>8. Unsent \in Seq(Nat)
    BY <2>4, <2>5, <2>6, ConcatProperties
  <2> QED
    BY <1>3, <2>1, <2>4, <2>5, <2>6, <2>7, <2>8
<1> QED
  BY <1>2, <1>3

(* write adds at the end of what is unsent. *)
LEMMA WriteStep ==
    ASSUME InputAssumption, InputInv, NEW n \in InputSizes, Write(n)
    PROVE  InputInv'
<1> DEFINE x == [i \in 1 .. n |-> given + i]
           b == mStdInBuffer
<1>1. n \in Nat \ {0} /\ given \in Nat /\ given' = given + n /\ given' \in Nat /\ b \in Seq(Seq(Nat))
  BY DEF InputAssumption, InputInv, InputType, Write
<1>2. /\ [i \in 1 .. given |-> i] \o x = [i \in 1 .. given' |-> i]
      /\ x \in Seq(Nat) /\ Len(x) = n
  BY <1>1, Numbered
<1>3. x # <<>>
  BY <1>1, <1>2
<1>4. b' = Append(b, x) /\ Position /\ Stream /\ Closing /\ InputType /\ mStdIn # "forced"
  BY DEF Write, InputInv
<1> HIDE DEF x
<1>5. b' \in Seq(Seq(Nat)) /\ Len(b') = Len(b) + 1 /\ b'[Len(b) + 1] = x
      /\ (\A i \in 1 .. Len(b) : b'[i] = b[i]) /\ b' # <<>> /\ Head(b') = b'[1]
  <2>1. b' \in Seq(Seq(Nat)) /\ Len(b') = Len(b) + 1 /\ b'[Len(b) + 1] = x
        /\ (\A i \in 1 .. Len(b) : b'[i] = b[i])
    BY <1>1, <1>2, <1>4, AppendProperties
  <2>2. Len(b) \in Nat
    BY <1>1
  <2>3. b' # <<>>
    BY <2>1, <2>2
  <2> QED
    BY <2>1, <2>3
<1>6. InputType' /\ pumping' /\ mStdIn' = mStdIn /\ mStdInIndex' = mStdInIndex
      /\ UNCHANGED <<consumed, stdinPipe>>
  BY <1>1, <1>5 DEF InputInv, InputType, Write, HandleInput, closeVars, endVars
<1>7. Queued'
  <2> SUFFICES ASSUME NEW i \in 1 .. Len(b') PROVE b'[i] # <<>>
    BY DEF Queued
  <2>1. CASE i \in 1 .. Len(b)
    BY <1>5, <2>1 DEF InputInv, Queued
  <2>2. CASE i = Len(b) + 1
    BY <1>3, <1>5, <2>2
  <2>3. Len(b) \in Nat
    BY <1>1
  <2> QED
    BY <1>5, <2>1, <2>2, <2>3
<1>8. Position'
  <2>1. CASE b = <<>>
    <3>1. Len(b) = 0 /\ Head(b') = x /\ mStdInIndex = 0
      BY <1>4, <1>5, <2>1 DEF Position, InputType
    <3> QED
      BY <1>1, <1>2, <1>5, <1>6, <3>1 DEF Position
  <2>2. CASE b # <<>>
    <3>1. 1 \in 1 .. Len(b) /\ Head(b) = b[1]
      BY <1>1, <2>2
    <3> QED
      BY <1>4, <1>5, <1>6, <2>2, <3>1 DEF Position
  <2> QED
    BY <2>1, <2>2
<1>9. Stream'
  <2>1. mStdInIndex \in 0 .. Len(FlattenSeq(b)) /\ Unsent \in Seq(Nat)
    BY <1>4, UnsentIs
  <2>2. FlattenSeq(b') = FlattenSeq(b) \o x /\ FlattenSeq(b) \in Seq(Nat)
    <3>1. b \in Seq(Seq(Nat)) /\ x \in Seq(Nat) /\ b' = Append(b, x)
      BY <1>1, <1>2, <1>4
    <3>2. FlattenSeq(Append(b, x)) = FlattenSeq(b) \o x
      BY <3>1, FlattenAppend
    <3>3. FlattenSeq(b) \in Seq(Nat)
      BY <3>1, FlattenType
    <3> QED
      BY <3>1, <3>2, <3>3
  <2>3. SubSeq(FlattenSeq(b) \o x, mStdInIndex + 1, Len(FlattenSeq(b) \o x))
        = SubSeq(FlattenSeq(b), mStdInIndex + 1, Len(FlattenSeq(b))) \o x
    <3>1. /\ FlattenSeq(b) \in Seq(Nat) /\ x \in Seq(Nat)
          /\ mStdInIndex \in 0 .. Len(FlattenSeq(b))
      BY <1>2, <2>1, <2>2
    <3> QED
      BY <3>1, DropFromConcat
  <2>4. Unsent' = Unsent \o x
    BY <1>6, <2>2, <2>3 DEF Unsent
  <2> DEFINE sent == consumed \o stdinPipe
  <2>5. sent \in Seq(Nat)
    BY <1>4, ConcatProperties DEF InputType
  <2> HIDE DEF sent
  <2>6. (sent \o Unsent) \o x = sent \o (Unsent \o x)
    <3>1. sent \in Seq(Nat) /\ Unsent \in Seq(Nat) /\ x \in Seq(Nat)
      BY <1>2, <2>1, <2>5
    <3>2. Associates(sent, Unsent, x)
      BY <3>1, ConcatAssociates
    <3> QED
      BY <3>2, Zenon DEF Associates
  <2> QED
    BY <1>2, <1>4, <1>6, <2>4, <2>6 DEF Stream, sent
<1>10. Closing'
  BY <1>4, <1>5, <1>6 DEF Closing, Write, closeVars
<1> QED
  BY <1>4, <1>6, <1>7, <1>8, <1>9, <1>10 DEF InputInv

(* ::write moves the first units of what is unsent to the pipe. *)
LEMMA PumpWritesStep ==
    ASSUME InputInv, PumpWrites
    PROVE  InputInv'
<1> DEFINE b == mStdInBuffer
           k == mStdInIndex
           rest == FlattenSeq(Tail(b))
           sent == consumed \o stdinPipe
<1>1. /\ InputType /\ Queued /\ pumping /\ b # <<>> /\ mStdIn # "forced"
      /\ Position /\ Stream /\ Closing
  BY DEF InputInv, PumpWrites
<1>2. /\ Head(b) \in Seq(Nat) /\ Tail(b) \in Seq(Seq(Nat)) /\ rest \in Seq(Nat)
      /\ Rest \in Seq(Nat) /\ Len(Rest) = Len(Head(b)) - k /\ Len(Rest) \in Nat
      /\ Unsent = Rest \o rest /\ b \in Seq(Seq(Nat)) /\ k \in Nat /\ k < Len(Head(b))
      /\ sent \in Seq(Nat) /\ stdinPipe \in Seq(Nat) /\ consumed \in Seq(Nat)
  BY <1>1, UnsentIs, ConcatProperties DEF InputType, Position
<1>3. PICK w \in 1 .. Len(Rest) :
        /\ stdinPipe' = stdinPipe \o SubSeq(Rest, 1, w)
        /\ IF w = Len(Rest)
           THEN /\ b' = Tail(b) /\ k' = 0
                /\ IF mWantStdInClosed /\ b' = <<>>
                   THEN mStdIn' = "normal" /\ mWantStdInClosed' = FALSE
                   ELSE UNCHANGED closeVars
           ELSE k' = k + w /\ b' = b /\ UNCHANGED closeVars
  BY DEF PumpWrites
<1>4. UNCHANGED <<inputArmed, pumping, readerGone, consumed, given>> /\ mStdIn' # "forced"
  BY <1>1, <1>3 DEF PumpWrites, closeVars
<1> DEFINE s == SubSeq(Rest, 1, w)
<1>5. s \in Seq(Nat)
  <2>1. Rest \in Seq(Nat) /\ w \in 1 .. Len(Rest)
    BY <1>2, <1>3
  <2>2. \A i \in 1 .. Len(Rest) : Rest[i] \in Nat
    BY <2>1, ElementOfSeq
  <2>3. 1 \in Int /\ w \in Int /\ \A i \in 1 .. w : Rest[i] \in Nat
    BY <1>2, <2>1, <2>2
  <2> QED
    BY <2>3, SubSeqProperties
<1> HIDE DEF s
<1>6. stdinPipe' \in Seq(Nat) /\ consumed' \o stdinPipe' = sent \o s
  <2>1. stdinPipe' = stdinPipe \o s
    BY <1>3 DEF s
  <2>2. (consumed \o stdinPipe) \o s = consumed \o (stdinPipe \o s)
    <3>1. consumed \in Seq(Nat) /\ stdinPipe \in Seq(Nat) /\ s \in Seq(Nat)
      BY <1>2, <1>5
    <3>2. Associates(consumed, stdinPipe, s)
      BY <3>1, ConcatAssociates
    <3> QED
      BY <3>2, Zenon DEF Associates
  <2> QED
    BY <1>2, <1>4, <1>5, <2>1, <2>2, ConcatProperties
<1> HIDE DEF rest, sent
<1>7. CASE w = Len(Rest)
  <2>1. b' = Tail(b) /\ k' = 0 /\ b' \in Seq(Seq(Nat)) /\ Len(b') = Len(b) - 1
        /\ (\A i \in 1 .. Len(b') : b'[i] = b[i + 1]) /\ Len(b) \in Nat
    <3>1. b' = Tail(b) /\ k' = 0 /\ b \in Seq(Seq(Nat)) /\ b # <<>>
      BY <1>1, <1>2, <1>3, <1>7
    <3> QED
      BY <3>1, HeadTailProperties
  <2>2. InputType'
    BY <1>1, <1>3, <1>4, <1>6, <1>7, <2>1 DEF InputType, closeVars
  <2>3. Queued'
    BY <1>1, <2>1 DEF Queued
  <2>4. Position'
    <3>1. CASE b' # <<>>
      <4>0. Head(b') = b'[1] /\ 1 \in 1 .. Len(b')
        BY <2>1, <3>1
      <4>1. Head(b') # <<>> /\ Head(b') \in Seq(Nat)
        BY <2>1, <2>3, <3>1, <4>0, ElementOfSeq DEF Queued
      <4>2. Len(Head(b')) > 0
        BY <4>1
      <4> QED
        BY <2>1, <3>1, <4>2 DEF Position
    <3> QED
      <4>1. CASE b' = <<>>
        BY <2>1, <4>1 DEF Position
      <4> QED
        BY <3>1, <4>1
  <2>5. Stream'
    <3>1. s = Rest
      BY <1>2, <1>7 DEF s
    <3>2. SubSeq(rest, 1, Len(rest)) = rest
      BY <1>2
    <3>3. Unsent' = rest
      BY <2>1, <3>2 DEF Unsent, rest
    <3>4. (sent \o Rest) \o rest = sent \o (Rest \o rest)
      <4>1. sent \in Seq(Nat) /\ Rest \in Seq(Nat) /\ rest \in Seq(Nat)
        BY <1>2
      <4>2. Associates(sent, Rest, rest)
        BY <4>1, ConcatAssociates
      <4> QED
        BY <4>2, Zenon DEF Associates
    <3> QED
      BY <1>1, <1>2, <1>4, <1>6, <3>1, <3>3, <3>4 DEF Stream, sent
  <2>6. Closing'
    BY <1>1, <1>3, <1>4, <1>7, <2>1 DEF Closing, closeVars
  <2> QED
    BY <1>1, <1>4, <2>2, <2>3, <2>4, <2>5, <2>6 DEF InputInv
<1>8. CASE w # Len(Rest)
  <2>1. k' = k + w /\ b' = b /\ UNCHANGED closeVars /\ w \in 1 .. Len(Head(b)) - k
    BY <1>2, <1>3, <1>8
  <2>2. k' \in Nat /\ k' < Len(Head(b))
    <3>1. k \in Nat /\ Len(Head(b)) \in Nat /\ Len(Rest) \in Nat
      BY <1>2
    <3>2. w \in 1 .. Len(Head(b)) - k /\ w # Len(Rest) /\ k' = k + w
      BY <1>8, <2>1
    <3>3. Len(Rest) = Len(Head(b)) - k
      BY <1>2
    <3> QED
      BY <3>1, <3>2, <3>3
  <2>3. InputType' /\ Queued' /\ Closing' /\ Position'
    BY <1>1, <1>4, <1>6, <2>1, <2>2 DEF InputType, Queued, Closing, Position, closeVars
  <2> DEFINE r == SubSeq(Head(b), k + w + 1, Len(Head(b)))
  <2>4. Unsent' = r \o rest /\ r \in Seq(Nat)
    <3>1. k + w \in 0 .. Len(Head(b))
      BY <1>2, <2>1, <2>2
    <3>2. SubSeq(FlattenSeq(b), (k + w) + 1, Len(FlattenSeq(b))) = r \o FlattenSeq(Tail(b))
      BY <1>1, <1>2, <3>1, DropFromFlatten
    <3>3. r \in Seq(Nat)
      BY <1>2, <3>1, DropIs
    <3> QED
      BY <2>1, <3>2, <3>3 DEF Unsent, rest
  <2>5. Rest = s \o r
    <3>1. k \in 0 .. Len(Head(b)) /\ w \in 0 .. Len(Head(b)) - k
      BY <1>2, <2>1
    <3> QED
      BY <1>2, <3>1, DropInTwo DEF Rest, s
  <2>6. Stream'
    <3> HIDE DEF r
    <3>1. (s \o r) \o rest = s \o (r \o rest)
      <4>1. s \in Seq(Nat) /\ r \in Seq(Nat) /\ rest \in Seq(Nat)
        BY <1>2, <1>5, <2>4
      <4> QED
        BY <4>1
    <3>2. r \o rest \in Seq(Nat)
      BY <1>2, <2>4, ConcatProperties
    <3> DEFINE t == r \o rest
    <3> HIDE DEF t
    <3>3. (sent \o s) \o t = sent \o (s \o t)
      <4>1. sent \in Seq(Nat) /\ s \in Seq(Nat) /\ t \in Seq(Nat)
        BY <1>2, <1>5, <3>2 DEF t
      <4>2. Associates(sent, s, t)
        BY <4>1, ConcatAssociates
      <4> QED
        BY <4>2, Zenon DEF Associates
    <3> QED
      BY <1>1, <1>2, <1>4, <1>6, <2>4, <2>5, <3>1, <3>3 DEF Stream, sent, t
  <2> QED
    BY <1>1, <1>4, <2>3, <2>6 DEF InputInv
<1> QED
  BY <1>7, <1>8

(* The child reads the first unit of the pipe. *)
LEMMA ChildReadsStep ==
    ASSUME InputInv, ChildReads
    PROVE  InputInv'
<1>1. /\ InputType /\ stdinPipe # <<>> /\ consumed' = Append(consumed, Head(stdinPipe))
      /\ stdinPipe' = Tail(stdinPipe)
      /\ UNCHANGED <<queueVars, closeVars, inputArmed, pumping, readerGone, given>>
  BY DEF InputInv, ChildReads
<1>2. UNCHANGED <<mStdInBuffer, mStdInIndex, mStdIn, mWantStdInClosed>>
  BY <1>1 DEF queueVars, closeVars
<1>3. consumed' \o stdinPipe' = consumed \o stdinPipe
  BY <1>1, HeadMoves DEF InputType
<1>4. Head(stdinPipe) \in Nat /\ Tail(stdinPipe) \in Seq(Nat)
  BY <1>1, HeadTailProperties DEF InputType
<1>5. InputType'
  BY <1>1, <1>2, <1>4, AppendProperties DEF InputType
<1>6. Unsent' = Unsent
  BY <1>2 DEF Unsent
<1>7. Queued' = Queued /\ Position' = Position /\ Closing' = Closing
  BY <1>1, <1>2 DEF Queued, Position, Closing
<1>8. Stream' = Stream
  BY <1>1, <1>3, <1>6 DEF Stream
<1> QED
  BY <1>1, <1>2, <1>5, <1>7, <1>8 DEF InputInv

(* The other steps leave the queue alone, or forget it. *)
LEMMA OtherInputSteps ==
    ASSUME InputInv,
           \/ ProcessCallback \/ ProcessError \/ CloseNormal \/ CloseForced
           \/ PumpEmpty \/ PumpBlocked \/ ChildClosesInput \/ UNCHANGED inputVars
    PROVE  InputInv'
<1> USE DEF InputInv, InputType, Queued, Position, Closing, queueVars, closeVars, endVars, inputVars
<1>1. ASSUME UNCHANGED <<queueVars, consumed, stdinPipe, given>>
      PROVE  Stream' = Stream
  BY <1>1 DEF Stream, Unsent
<1>2. CASE ProcessCallback
  BY <1>1, <1>2 DEF ProcessCallback, HandleInput
<1>3. CASE ProcessError
  BY <1>1, <1>3 DEF ProcessError
<1>4. CASE CloseNormal
  BY <1>1, <1>4 DEF CloseNormal
<1>5. CASE CloseForced
  <2>1. CASE mStdInBuffer' = mStdInBuffer
    BY <1>5, <2>1 DEF CloseForced
  <2>2. CASE mStdInBuffer' = <<>>
    <3>1. mStdInBuffer' \in Seq(Seq(Nat)) /\ Len(mStdInBuffer') = 0
      BY <2>2, EmptySeq
    <3>2. InputType' /\ mStdIn' = "forced" /\ ~pumping' /\ ~inputArmed'
      BY <1>5, <3>1 DEF CloseForced
    <3>3. Queued'
      BY <3>1
    <3> QED
      BY <3>2, <3>3
  <2> QED
    BY <1>5, <2>1, <2>2 DEF CloseForced
<1>6. CASE PumpEmpty
  BY <1>1, <1>6 DEF PumpEmpty
<1>7. CASE PumpBlocked
  BY <1>1, <1>7 DEF PumpBlocked
<1>8. CASE ChildClosesInput
  BY <1>1, <1>8 DEF ChildClosesInput
<1>9. CASE UNCHANGED inputVars
  BY <1>1, <1>9
<1> QED
  BY <1>2, <1>3, <1>4, <1>5, <1>6, <1>7, <1>8, <1>9

(* The invariant holds for any sizes of strings and pipe (Process.cpp      *)
(* 667-690, 780-820).                                                      *)
THEOREM InputInvariant == InputSpec => []InputInv
<1>1. InputInit => InputInv
  <2> SUFFICES ASSUME InputInit PROVE InputInv
    OBVIOUS
  <2>1. InputType
    <3>1. mStdInBuffer \in Seq(Seq(Nat)) /\ stdinPipe \in Seq(Nat) /\ consumed \in Seq(Nat)
      BY EmptySeq DEF InputInit
    <3> QED
      BY <3>1 DEF InputInit, InputType
  <2>2. Queued /\ Position /\ Closing
    BY DEF InputInit, Queued, Position, Closing
  <2>3. Unsent = <<>>
    BY <2>1, <2>2, UnsentIs DEF InputInit
  <2>4. Stream
    BY <2>3 DEF InputInit, Stream
  <2> QED
    BY <2>1, <2>2, <2>4 DEF InputInv, InputInit
<1>2. InputInv /\ [InputNext]_inputVars => InputInv'
  <2> SUFFICES ASSUME InputInv, [InputNext]_inputVars PROVE InputInv'
    OBVIOUS
  <2>1. CASE \E n \in InputSizes : Write(n)
    BY <2>1, WriteStep, InputAssumption
  <2>2. CASE PumpWrites
    BY <2>2, PumpWritesStep
  <2>3. CASE ChildReads
    BY <2>3, ChildReadsStep
  <2> QED
    BY <2>1, <2>2, <2>3, OtherInputSteps DEF InputNext
<1> QED
  BY <1>1, <1>2, PTL DEF InputSpec

(* The child gets what write was given, in order and once, and a close     *)
(* without force loses nothing of it (Process.cpp 667-690, 780-820).       *)
THEOREM InputAlwaysIntact == InputSpec => []InputIntact
<1>1. InputInv => InputIntact
  BY UnsentIs DEF InputInv, InputIntact, Stream, Closing
<1> QED
  BY <1>1, InputInvariant, PTL
=============================================================================
