---------------------------- MODULE SocketClient ----------------------------
(***************************************************************************)
(* rct/SocketClient.cpp: a stream socket (TCP or Unix) that does not       *)
(* block, with the kernel and the peer beside it.                          *)
(*                                                                         *)
(* Everything here runs on the thread of the event loop, but signals call  *)
(* slots in the middle of writeTo and socketCallback, and slots call       *)
(* writeTo and close again.  So the thread's calls are an explicit stack   *)
(* of frames, the innermost first.  A step ends at each system call and    *)
(* at each signal, because the kernel and the peer move on meanwhile.      *)
(*                                                                         *)
(* The module has no specification of its own: a signal pushes a frame     *)
(* named after it, and the module of the object that is connected to the   *)
(* signals (Connection) says what happens then.                            *)
(***************************************************************************)
EXTENDS Integers, Sequences, SequencesExt

CONSTANTS
    Capacity,           \* bytes of ours the kernel holds for the peer
    MaxWriteBufferSize  \* mMaxWriteBufferSize, 0 for no limit

ASSUME CapacityAssumption ==
    Capacity \in Nat \ {0} /\ MaxWriteBufferSize \in Nat

VARIABLES
    mFd, mSocketState, mWriteWait,
    mWriteBuffer, mWriteOffset,   \* bytes to be written, from mWriteOffset on
    mReadBuffer,
    interest,     \* what epoll was told: "none", "read", "readwrite" (which
                  \* is one-shot), or "disarmed" after a one-shot event
    queued,       \* the descriptor is on epoll's ready list
    accepted,     \* all bytes the kernel has taken from us
    drained,      \* how many of them the peer has taken from the kernel
    incoming,     \* bytes of the peer that we have not read
    peer,         \* state of the other side
    attached,     \* the slots of a Connection are connected to the signals
    stack, ret    \* frames of the thread; what the last writeTo returned

outVars    == <<mWriteBuffer, mWriteOffset, mWriteWait>>
linkVars   == <<mFd, mSocketState>>
pollVars   == <<interest, queued>>
kernelVars == <<accepted, drained, incoming, peer>>
socketVars == <<outVars, linkVars, pollVars, kernelVars, mReadBuffer, attached, stack, ret>>

NoFd == -1
AnFd == 3

Peers == {"none", "connecting", "refused", "open", "closed", "reset"}

-----------------------------------------------------------------------------
(* Frames.  "at" is the place, "data" the argument of writeTo or what is   *)
(* left of it for the caller, "total" the local of that name (or the       *)
(* argument of bytesWritten), "goal" the local writeBufferSize, "mode"     *)
(* the argument of socketCallback.                                         *)

Frame(at) == [at |-> at, data |-> <<>>, total |-> 0, goal |-> 0, mode |-> {}]

Top     == Head(stack)
Below   == Tail(stack)
At(p)   == stack # <<>> /\ Head(stack).at = p
AtRest  == stack = <<>>

Goto(f)   == stack' = <<f>> \o Below
Return(v) == stack' = Below /\ ret' = v

(* A signal calls the slots connected to it, if there are any. *)
Emit(signal) == IF attached THEN <<signal>> ELSE <<>>

WriteCall(data) == [Frame("writeTo") EXCEPT !.data = data]
-----------------------------------------------------------------------------
(* The kernel. *)

Room     == Capacity - (Len(accepted) - drained)
Readable == incoming # <<>> \/ peer \in {"closed", "reset", "refused"}
Writable == peer \notin {"none", "connecting"} /\ (Room > 0 \/ peer # "open")

Ready(i) ==
    {m \in {"Read", "Write"} :
        \/ m = "Read" /\ Readable /\ i \in {"read", "readwrite"}
        \/ m = "Write" /\ Writable /\ i = "readwrite"}

(* epoll_ctl: from now on i, and what is ready already is reported. *)
Arm(i) == interest' = i /\ queued' = (Ready(i) # {})

(* A change that epoll reports if it was told to. *)
Notice(modes) == queued' = (queued \/ interest \in modes)

Unwritten == SubSeq(mWriteBuffer, mWriteOffset + 1, Len(mWriteBuffer))

(* SocketClient::close. *)
Close ==
    /\ mFd' = NoFd
    /\ mSocketState' = IF mFd = NoFd THEN mSocketState ELSE "Disconnected"
    /\ interest' = "none" /\ queued' = FALSE

(* The peer reads a byte. *)
Drain ==
    /\ peer = "open" /\ drained < Len(accepted)
    /\ drained' = drained + 1
    /\ Notice({"readwrite"})
    /\ UNCHANGED <<outVars, linkVars, interest, accepted, incoming, peer, mReadBuffer,
                   attached, stack, ret>>

(* The connection attempt ends, or the peer closes or resets the           *)
(* connection.                                                             *)
PeerMoves ==
    /\ \/ peer = "connecting" /\ peer' \in {"open", "refused"}
       \/ peer = "open" /\ peer' \in {"closed", "reset"}
    /\ Notice({"read", "readwrite"})
    /\ UNCHANGED <<outVars, linkVars, interest, accepted, drained, incoming, mReadBuffer,
                   attached, stack, ret>>
-----------------------------------------------------------------------------
(* writeTo without a host.                                                 *)

(* Bytes that are waiting are forgotten about when new ones come. *)
BadWriteTo ==
    /\ At("writeTo")
    /\ Goto([Top EXCEPT !.at = IF mWriteWait THEN "store" ELSE "direct"])
    /\ UNCHANGED <<outVars, linkVars, pollVars, kernelVars, mReadBuffer, attached, ret>>

WriteTo ==
    /\ At("writeTo")
    /\ Goto([Top EXCEPT
              !.at = IF mWriteWait THEN "store"
                     ELSE IF mWriteBuffer # <<>> THEN "flush" ELSE "flushed",
              !.goal = Len(Unwritten)])
    /\ UNCHANGED <<outVars, linkVars, pollVars, kernelVars, mReadBuffer, attached, ret>>

(* The two loops around ::write: of the buffer, and of the new data. *)
Loops == {"flush", "direct"}

Goal == IF Top.at = "flush" THEN Top.goal ELSE Len(Top.data)

Source(first, last) ==
    IF Top.at = "flush"
    THEN SubSeq(mWriteBuffer, mWriteOffset + first, mWriteOffset + last)
    ELSE SubSeq(Top.data, first, last)

InLoop == stack # <<>> /\ Top.at \in Loops /\ Top.total < Goal

(* ::write took e bytes, which bytesWritten is told of. *)
Wrote(e) ==
    /\ InLoop /\ mFd # NoFd
    /\ peer \in {"open", "closed"} /\ e <= Room /\ Top.total + e <= Goal
    /\ accepted' = accepted \o Source(Top.total + 1, Top.total + e)
    /\ stack' = Emit([Frame("bytesWritten") EXCEPT !.total = e])
                  \o <<[Top EXCEPT !.total = @ + e]>> \o Below
    /\ UNCHANGED <<outVars, linkVars, pollVars, drained, incoming, peer, mReadBuffer, attached, ret>>

(* What the flush loop does to the buffer when it ends. *)
Settle ==
    /\ mWriteOffset' = IF Top.total < Top.goal THEN mWriteOffset + Top.total ELSE 0
    /\ mWriteBuffer' = IF Top.total < Top.goal THEN mWriteBuffer ELSE <<>>

(* Asks for the event only, and forgets that it did. *)
BadBlocked ==
    /\ InLoop /\ mFd # NoFd /\ peer = "open" /\ Room = 0
    /\ Arm("readwrite")
    /\ IF Top.at = "flush" THEN Settle ELSE UNCHANGED <<mWriteOffset, mWriteBuffer>>
    /\ Goto([Top EXCEPT !.at = IF Top.at = "flush" THEN "flushed" ELSE "store"])
    /\ UNCHANGED <<mWriteWait, linkVars, kernelVars, mReadBuffer, attached, ret>>

(* ::write would block: wait for an event, and leave the loop. *)
Blocked ==
    /\ InLoop /\ mFd # NoFd /\ peer = "open" /\ Room = 0
    /\ Arm("readwrite") /\ mWriteWait' = TRUE
    /\ IF Top.at = "flush" THEN Settle ELSE UNCHANGED <<mWriteOffset, mWriteBuffer>>
    /\ Goto([Top EXCEPT !.at = IF Top.at = "flush" THEN "flushed" ELSE "store"])
    /\ UNCHANGED <<linkVars, kernelVars, mReadBuffer, attached, ret>>

(* ::write failed: of a peer that is gone, or of a descriptor that a slot  *)
(* has closed.                                                             *)
WriteFailed ==
    /\ InLoop
    /\ mFd = NoFd \/ peer \in {"closed", "reset"}
    /\ stack' = Emit(Frame("error")) \o <<Frame("fail")>> \o Below
    /\ UNCHANGED <<outVars, linkVars, pollVars, kernelVars, mReadBuffer, attached, ret>>

Fail ==
    /\ At("fail")
    /\ Close /\ Return(FALSE)
    /\ UNCHANGED <<outVars, kernelVars, mReadBuffer, attached>>

(* All of the buffer was written. *)
FlushEnd ==
    /\ At("flush") /\ ~InLoop
    /\ Settle
    /\ Goto([Top EXCEPT !.at = "flushed"])
    /\ UNCHANGED <<mWriteWait, linkVars, pollVars, kernelVars, mReadBuffer, attached, ret>>

Flushed ==
    /\ At("flushed")
    /\ IF mFd = NoFd \/ Top.data = <<>>
       THEN Return(mFd # NoFd)
       ELSE /\ Goto([Top EXCEPT !.total = 0,
                                !.at = IF mWriteBuffer = <<>> THEN "direct" ELSE "store"])
            /\ UNCHANGED ret
    /\ UNCHANGED <<outVars, linkVars, pollVars, kernelVars, mReadBuffer, attached>>

DirectEnd ==
    /\ At("direct") /\ ~InLoop
    /\ Return(TRUE)
    /\ UNCHANGED <<outVars, linkVars, pollVars, kernelVars, mReadBuffer, attached>>

Rest == SubSeq(Top.data, Top.total + 1, Len(Top.data))

Overflows == MaxWriteBufferSize > 0 /\ Len(mWriteBuffer) + Len(Rest) > MaxWriteBufferSize

(* Keeps all of the data, the part included that has been written. *)
BadStore ==
    /\ At("store")
    /\ mWriteBuffer' = mWriteBuffer \o Top.data
    /\ Return(TRUE)
    /\ UNCHANGED <<mWriteOffset, mWriteWait, linkVars, pollVars, kernelVars, mReadBuffer, attached>>

(* Store the rest, or close (and tell nobody) if it is too much. *)
Store ==
    /\ At("store")
    /\ IF Rest # <<>> /\ Overflows
       THEN Close /\ Return(FALSE) /\ UNCHANGED mWriteBuffer
       ELSE /\ mWriteBuffer' = mWriteBuffer \o Rest
            /\ Return(TRUE)
            /\ UNCHANGED <<linkVars, pollVars>>
    /\ UNCHANGED <<mWriteOffset, mWriteWait, kernelVars, mReadBuffer, attached>>
-----------------------------------------------------------------------------
(* socketCallback, which is never called with SocketError: EventLoop drops *)
(* the callback before it reports one.                                     *)

Callback(mode) ==
    [Frame(IF "Read" \in mode THEN "read" ELSE "writable") EXCEPT !.mode = mode]

(* Bytes nobody has taken are not read over: see the README. *)
Claimed == mReadBuffer = <<>>

OnEvent ==
    LET mode == Ready(interest)
    IN  /\ AtRest /\ mFd # NoFd /\ Claimed
        /\ queued /\ mode # {}
        /\ stack' = <<Callback(mode)>>
        /\ IF mWriteWait /\ "Write" \in mode
           THEN Arm("read") /\ mWriteWait' = FALSE
           ELSE /\ interest' = IF interest = "readwrite" THEN "disarmed" ELSE interest
                /\ queued' = FALSE
                /\ UNCHANGED mWriteWait
        /\ UNCHANGED <<mWriteBuffer, mWriteOffset, linkVars, kernelVars, mReadBuffer, attached, ret>>

(* ::read took e bytes. *)
ReadSome(e) ==
    /\ At("read") /\ peer \notin {"reset", "refused"} /\ e <= Len(incoming)
    /\ mReadBuffer' = SubSeq(mReadBuffer \o incoming, 1, Top.total + e)
    /\ incoming' = SubSeq(incoming, e + 1, Len(incoming))
    /\ Goto([Top EXCEPT !.total = @ + e])
    /\ UNCHANGED <<outVars, linkVars, pollVars, accepted, drained, peer, attached, ret>>

(* One ::read is thought to be enough. *)
HastyReadAll ==
    /\ At("read") /\ (~Readable \/ Top.total > 0)
    /\ stack' = Emit(Frame("readyRead")) \o <<[Top EXCEPT !.at = "readDone"]>> \o Below
    /\ UNCHANGED <<outVars, linkVars, pollVars, kernelVars, mReadBuffer, attached, ret>>

(* ::read would block. *)
ReadAll ==
    /\ At("read") /\ ~Readable
    /\ stack' = Emit(Frame("readyRead")) \o <<[Top EXCEPT !.at = "readDone"]>> \o Below
    /\ UNCHANGED <<outVars, linkVars, pollVars, kernelVars, mReadBuffer, attached, ret>>

(* The end of the stream is not signalled when there was data before it. *)
SilentReadEnd ==
    /\ At("read") /\ peer = "closed" /\ incoming = <<>>
    /\ stack' = Emit(Frame(IF Top.total > 0 THEN "readyRead" ELSE "disconnected"))
                  \o <<Frame("fail")>> \o Below
    /\ UNCHANGED <<outVars, linkVars, pollVars, kernelVars, mReadBuffer, attached, ret>>

(* ::read returned 0. *)
ReadEnd ==
    /\ At("read") /\ peer = "closed" /\ incoming = <<>>
    /\ stack' = (IF Top.total > 0 THEN Emit(Frame("readyRead")) ELSE <<>>)
                  \o Emit(Frame("disconnected")) \o <<Frame("fail")>> \o Below
    /\ UNCHANGED <<outVars, linkVars, pollVars, kernelVars, mReadBuffer, attached, ret>>

ReadFailed ==
    /\ At("read") /\ peer \in {"reset", "refused"}
    /\ stack' = Emit(Frame("error")) \o <<Frame("fail")>> \o Below
    /\ UNCHANGED <<outVars, linkVars, pollVars, kernelVars, mReadBuffer, attached, ret>>

(* The one-shot event was used up for reading, and is not asked for again. *)
BadReadDone ==
    /\ At("readDone")
    /\ Goto([Top EXCEPT !.at = "writable"])
    /\ UNCHANGED <<outVars, linkVars, pollVars, kernelVars, mReadBuffer, attached, ret>>

ReadDone ==
    /\ At("readDone")
    /\ IF mWriteWait /\ mFd # NoFd THEN Arm("readwrite") ELSE UNCHANGED pollVars
    /\ Goto([Top EXCEPT !.at = "writable"])
    /\ UNCHANGED <<outVars, linkVars, kernelVars, mReadBuffer, attached, ret>>

(* The part for SocketWrite: the end of a connection attempt, and what     *)
(* there is to write.                                                      *)
WritePart ==
    /\ At("writable")
    /\ CASE "Write" \notin Top.mode ->
                stack' = Below /\ UNCHANGED mSocketState
         [] "Write" \in Top.mode /\ mSocketState # "Connecting" ->
                Goto(WriteCall(<<>>)) /\ UNCHANGED mSocketState
         [] "Write" \in Top.mode /\ mSocketState = "Connecting" ->
                IF peer \in {"refused", "reset"}
                THEN /\ stack' = Emit(Frame("error")) \o <<Frame("fail")>> \o Below
                     /\ UNCHANGED mSocketState
                ELSE /\ mSocketState' = "Connected"
                     /\ stack' = Emit(Frame("connected")) \o <<WriteCall(<<>>)>> \o Below
    /\ UNCHANGED <<mFd, outVars, pollVars, kernelVars, mReadBuffer, attached, ret>>
-----------------------------------------------------------------------------
(* connect, with the frames of the caller below it.  The last two outcomes *)
(* are a host that does not resolve and a socket that cannot be had.       *)

Connect(outcome, caller) ==
    /\ mFd = NoFd /\ peer = "none"
    /\ CASE outcome = "connected" ->
              /\ mFd' = AnFd /\ mSocketState' = "Connected" /\ peer' = "open"
              /\ interest' = "read" /\ queued' = FALSE /\ UNCHANGED mWriteWait
              /\ stack' = <<Frame("connected")>>
         [] outcome = "inProgress" ->
              /\ mFd' = AnFd /\ mSocketState' = "Connecting" /\ peer' = "connecting"
              /\ interest' = "readwrite" /\ queued' = FALSE /\ mWriteWait' = TRUE
              /\ stack' = <<>>
         [] outcome = "fails" ->
              /\ mFd' = AnFd /\ peer' = "refused"
              /\ interest' = "read" /\ queued' = FALSE
              /\ stack' = <<Frame("error"), Frame("fail")>> \o caller
              /\ UNCHANGED <<mSocketState, mWriteWait>>
         [] outcome \in {"unresolved", "noSocket"} ->
              /\ peer' = "refused"
              /\ stack' = (IF outcome = "unresolved" THEN <<Frame("error")>> ELSE <<>>) \o caller
              /\ UNCHANGED <<mFd, mSocketState, mWriteWait, pollVars>>
    /\ UNCHANGED <<mWriteBuffer, mWriteOffset, accepted, drained, incoming, mReadBuffer,
                   attached, ret>>

SocketInit(accept) ==
    /\ mFd = IF accept THEN AnFd ELSE NoFd
    /\ mSocketState = IF accept THEN "Connected" ELSE "Disconnected"
    /\ peer = IF accept THEN "open" ELSE "none"
    /\ interest = IF accept THEN "read" ELSE "none"
    /\ attached = ~accept
    /\ queued = FALSE /\ mWriteWait = FALSE
    /\ mWriteBuffer = <<>> /\ mWriteOffset = 0 /\ mReadBuffer = <<>>
    /\ accepted = <<>> /\ drained = 0 /\ incoming = <<>>
    /\ stack = <<>> /\ ret = TRUE

(* What the thread does next, within a call. *)
SocketStep ==
    \/ WriteTo \/ Blocked \/ WriteFailed \/ Fail \/ FlushEnd \/ Flushed \/ DirectEnd
    \/ ReadAll \/ ReadEnd \/ ReadFailed \/ ReadDone \/ WritePart
    \/ \E e \in 1 .. Capacity : Wrote(e)
    \/ \E e \in 1 .. Len(incoming) : ReadSome(e)
=============================================================================
