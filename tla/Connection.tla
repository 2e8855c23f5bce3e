----------------------------- MODULE Connection -----------------------------
(***************************************************************************)
(* rct/Connection.cpp: messages over a SocketClient.                       *)
(*                                                                         *)
(* A connection is made by connectTcp or connectUnix, or around a          *)
(* SocketClient that a SocketServer has accepted; it sends messages, cuts  *)
(* what it receives into messages, and passes on what the socket signals.  *)
(* Frames named after a signal of SocketClient are the slots of this       *)
(* class; frames whose name begins with an m are the user's slots.         *)
(***************************************************************************)
EXTENDS SocketClient

CONSTANTS
    HeaderSize,   \* bytes of the length in front of a message (4 in the code)
    BodySizes,    \* sizes of the messages we send
    PeerPlans,    \* what the peer may send: sequences of kinds of messages
    Accepts,      \* TRUE: a server's connection, FALSE: a client's
    Timeouts,     \* whether connectTcp is given a timeout
    SlotSends,    \* whether slots of sendFinished send
    MaxSends      \* bound on messages sent

Kinds == {"data", "finish", "bad"}

ASSUME ConnectionAssumption ==
    /\ HeaderSize \in Nat \ {0} /\ BodySizes \subseteq Nat \ {0} /\ MaxSends \in Nat
    /\ PeerPlans \subseteq Seq(Kinds)
    /\ {Accepts, Timeouts} \subseteq SUBSET BOOLEAN /\ SlotSends \in BOOLEAN

VARIABLES
    mPendingRead, mPendingWrite,
    mBuffers,             \* the bytes in mBuffers, from mBufferOffset on
    mIsConnected, mTimeoutTimer, mCheckTimer,
    mSocketClient,        \* whether there is one
    sent, sends,          \* bytes of all messages sent; how many
    plan, toCome,         \* what the peer sends; its bytes still to come
    parsed,               \* messages cut from the input, by their index in plan
    quiet,                \* the program closed the socket itself, or was told
                          \* of a failure by a return value
    told                  \* the slots of mDisconnected have been called

timerVars == <<mTimeoutTimer, mCheckTimer>>
inVars    == <<mPendingRead, mBuffers, parsed>>
sendVars  == <<mPendingWrite, sent, sends>>
peerVars  == <<plan, toCome>>
toldVars  == <<mIsConnected, mSocketClient, quiet, told>>
connVars  == <<timerVars, inVars, sendVars, peerVars, toldVars>>
vars      == <<socketVars, connVars>>

(* What a message is on the wire: byte k of message i. *)
Bytes(i, size) == [k \in 1 .. size |-> <<i, k>>]

BodySize(kind) == IF kind = "data" THEN 2 ELSE 1

MessageBytes(i) == Bytes(i, HeaderSize + BodySize(plan[i]))

Stream(n) == FlattenSeq([i \in 1 .. n |-> MessageBytes(i)])

Init ==
    /\ plan \in PeerPlans
    /\ \E accept \in Accepts : SocketInit(accept) /\ mSocketClient = accept
    /\ toCome = Stream(Len(plan))
    /\ mPendingRead = 0 /\ mPendingWrite = 0 /\ mBuffers = <<>>
    /\ mIsConnected = FALSE /\ mTimeoutTimer = FALSE /\ mCheckTimer = FALSE
    /\ sent = <<>> /\ sends = 0 /\ parsed = <<>>
    /\ quiet = FALSE /\ told = FALSE
-----------------------------------------------------------------------------
(* Making the connection. *)

(* connectTcp and connectUnix.  The slots are connected before connect is  *)
(* called; a caller that gets false back is left with the timer.           *)
ConnectTo(outcome, timeout) ==
    /\ ~mSocketClient /\ ~quiet
    /\ Connect(outcome, <<Frame("connectFailed")>>)
    /\ mSocketClient' = TRUE /\ mTimeoutTimer' = timeout
    /\ UNCHANGED <<mCheckTimer, inVars, sendVars, peerVars, mIsConnected, quiet, told>>

ConnectFailed ==
    /\ At("connectFailed")
    /\ mSocketClient' = FALSE /\ quiet' = TRUE
    /\ stack' = Below
    /\ UNCHANGED <<outVars, linkVars, pollVars, kernelVars, mReadBuffer, attached, ret,
                   timerVars, inVars, sendVars, peerVars, mIsConnected, told>>

(* Connection::connect: around the client of a server, which has to be     *)
(* connected.                                                              *)
Attach ==
    /\ AtRest /\ mSocketClient /\ ~attached /\ mFd # NoFd
    /\ attached' = TRUE /\ mIsConnected' = TRUE /\ mCheckTimer' = TRUE
    /\ UNCHANGED <<outVars, linkVars, pollVars, kernelVars, mReadBuffer, stack, ret,
                   mTimeoutTimer, inVars, sendVars, peerVars, mSocketClient, quiet, told>>

(* checkData, for what was read before the slots were there. *)
CheckData ==
    /\ AtRest /\ mCheckTimer
    /\ mCheckTimer' = FALSE
    /\ stack' = IF mReadBuffer # <<>> THEN <<Frame("readyRead")>> ELSE <<>>
    /\ UNCHANGED <<outVars, linkVars, pollVars, kernelVars, mReadBuffer, attached, ret,
                   mTimeoutTimer, inVars, sendVars, peerVars, toldVars>>

(* The timer of connectTcp: gives up, unless the connection was made. *)
TimeoutFires ==
    /\ AtRest /\ mTimeoutTimer
    /\ mTimeoutTimer' = FALSE
    /\ IF mIsConnected
       THEN UNCHANGED <<linkVars, pollVars, mSocketClient, stack>>
       ELSE Close /\ mSocketClient' = FALSE /\ stack' = <<Frame("mDisconnected")>>
    /\ UNCHANGED <<outVars, kernelVars, mReadBuffer, attached, ret, mCheckTimer, inVars,
                   sendVars, peerVars, mIsConnected, quiet, told>>
-----------------------------------------------------------------------------
(* Slots of SocketClient's signals. *)

OnClientConnected ==
    /\ At("connected")
    /\ mIsConnected' = TRUE
    /\ Goto(Frame("mConnected"))
    /\ UNCHANGED <<outVars, linkVars, pollVars, kernelVars, mReadBuffer, attached, ret,
                   timerVars, inVars, sendVars, peerVars, mSocketClient, quiet, told>>

OnClientDisconnected ==
    /\ At("disconnected")
    /\ mIsConnected' = FALSE
    /\ Goto(Frame("mDisconnected"))
    /\ UNCHANGED <<outVars, linkVars, pollVars, kernelVars, mReadBuffer, attached, ret,
                   timerVars, inVars, sendVars, peerVars, mSocketClient, quiet, told>>

(* The error only. *)
BadOnSocketError ==
    /\ At("error")
    /\ Goto(Frame("mError"))
    /\ UNCHANGED <<outVars, linkVars, pollVars, kernelVars, mReadBuffer, attached, ret, connVars>>

OnSocketError ==
    /\ At("error")
    /\ stack' = <<Frame("mError"), Frame("mDisconnected")>> \o Below
    /\ UNCHANGED <<outVars, linkVars, pollVars, kernelVars, mReadBuffer, attached, ret, connVars>>

(* Tells sendFinished after every write. *)
EagerOnDataWritten ==
    /\ At("bytesWritten")
    /\ mPendingWrite' = mPendingWrite - Top.total
    /\ Goto(Frame("mSendFinished"))
    /\ UNCHANGED <<outVars, linkVars, pollVars, kernelVars, mReadBuffer, attached, ret,
                   timerVars, inVars, sent, sends, peerVars, toldVars>>

OnDataWritten ==
    /\ At("bytesWritten")
    /\ mPendingWrite' = mPendingWrite - Top.total
    /\ stack' = (IF mPendingWrite' = 0 THEN <<Frame("mSendFinished")>> ELSE <<>>) \o Below
    /\ UNCHANGED <<outVars, linkVars, pollVars, kernelVars, mReadBuffer, attached, ret,
                   timerVars, inVars, sent, sends, peerVars, toldVars>>

(* The length in front of a message; anything else reads as some number. *)
Length(bytes) ==
    LET i == bytes[1][1]
    IN  IF bytes = SubSeq(MessageBytes(i), 1, HeaderSize) THEN BodySize(plan[i]) ELSE 1

(* Message::create: which message this is, 0 if it is none. *)
MessageOf(bytes) ==
    LET i == bytes[1][1]
    IN  IF bytes = SubSeq(MessageBytes(i), HeaderSize + 1, Len(MessageBytes(i))) THEN i ELSE 0

Slot(i) ==
    IF i = 0 \/ plan[i] = "bad" THEN <<>>
    ELSE <<Frame(IF plan[i] = "finish" THEN "mFinished" ELSE "mNewMessage")>>

(* Takes the length again when the rest of a message comes. *)
ForgetfulInput ==
    LET all    == mBuffers \o mReadBuffer
        header == Len(all) >= HeaderSize
    IN  [length |-> IF header THEN Length(SubSeq(all, 1, HeaderSize)) ELSE mPendingRead,
         bytes  |-> IF header THEN SubSeq(all, HeaderSize + 1, Len(all)) ELSE all]

(* What onDataAvailable has to look at: the bytes behind the length, and   *)
(* the length, 0 if it is not there yet.                                   *)
Input ==
    LET all    == mBuffers \o mReadBuffer
        header == mPendingRead = 0 /\ Len(all) >= HeaderSize
    IN  [length |-> IF header THEN Length(SubSeq(all, 1, HeaderSize)) ELSE mPendingRead,
         bytes  |-> IF header THEN SubSeq(all, HeaderSize + 1, Len(all)) ELSE all]

(* There is nothing, no length, or not all of the message. *)
Incomplete(in) == in.length = 0 \/ Len(in.bytes) < in.length

(* Handles one message of what has come. *)
LazyOnDataAvailable ==
    /\ At("readyRead")
    /\ mReadBuffer' = <<>>
    /\ IF Incomplete(Input)
       THEN /\ mPendingRead' = Input.length /\ mBuffers' = Input.bytes
            /\ stack' = Below
            /\ UNCHANGED <<linkVars, pollVars, parsed, quiet>>
       ELSE LET i == MessageOf(SubSeq(Input.bytes, 1, Input.length))
            IN  /\ mPendingRead' = 0
                /\ mBuffers' = SubSeq(Input.bytes, Input.length + 1, Len(Input.bytes))
                /\ parsed' = Append(parsed, i)
                /\ stack' = Slot(i) \o Below
                /\ UNCHANGED <<linkVars, pollVars, quiet>>
    /\ UNCHANGED <<outVars, kernelVars, attached, ret, timerVars, sendVars, peerVars,
                   mIsConnected, mSocketClient, told>>

(* One round of the loop in onDataAvailable: either the end of it, or a    *)
(* message for the user, or one that cannot be made sense of, for which    *)
(* the socket is closed (and the loop goes on).                            *)
OnDataAvailable ==
    /\ At("readyRead")
    /\ mReadBuffer' = <<>>
    /\ IF Incomplete(Input)
       THEN /\ mPendingRead' = Input.length /\ mBuffers' = Input.bytes
            /\ stack' = Below
            /\ UNCHANGED <<linkVars, pollVars, parsed, quiet>>
       ELSE LET i == MessageOf(SubSeq(Input.bytes, 1, Input.length))
            IN  /\ mPendingRead' = 0
                /\ mBuffers' = SubSeq(Input.bytes, Input.length + 1, Len(Input.bytes))
                /\ parsed' = Append(parsed, i)
                /\ stack' = Slot(i) \o stack
                /\ IF Slot(i) = <<>>
                   THEN Close /\ quiet' = TRUE
                   ELSE UNCHANGED <<linkVars, pollVars, quiet>>
    /\ UNCHANGED <<outVars, kernelVars, attached, ret, timerVars, sendVars, peerVars,
                   mIsConnected, mSocketClient, told>>
-----------------------------------------------------------------------------
(* Sending. *)

(* Where the user's code may send: outside all callbacks, and in slots.    *)
(* Slots of sendFinished are a case apart.                                 *)
MaySend ==
    \/ AtRest
    \/ At("mConnected") \/ At("mNewMessage") \/ At("mFinished")
    \/ SlotSends /\ At("mSendFinished")

(* send, up to its first write.  Without a connected client it returns     *)
(* false and does nothing.                                                 *)
Send(size) ==
    /\ MaySend /\ attached /\ mSocketClient /\ mFd # NoFd /\ sends < MaxSends
    /\ LET m == Bytes(sends', HeaderSize + size)
       IN  /\ sends' = sends + 1
           /\ sent' = sent \o m
           /\ mPendingWrite' = mPendingWrite + Len(m)
           /\ stack' = <<WriteCall(SubSeq(m, 1, HeaderSize)),
                         [Frame("send") EXCEPT !.data = SubSeq(m, HeaderSize + 1, Len(m))]>>
                         \o stack
    /\ UNCHANGED <<outVars, linkVars, pollVars, kernelVars, mReadBuffer, attached, ret,
                   timerVars, inVars, peerVars, toldVars>>

(* The rest of the message, unless the first write failed. *)
SendValue ==
    /\ At("send")
    /\ stack' = (IF ret THEN <<WriteCall(Top.data)>> ELSE <<>>) \o Below
    /\ UNCHANGED <<outVars, linkVars, pollVars, kernelVars, mReadBuffer, attached, ret, connVars>>

(* SocketClient's Store: a buffer that would grow too large closes it. *)
StoreRest ==
    /\ Store
    /\ quiet' = (quiet \/ mFd' # mFd)
    /\ UNCHANGED <<timerVars, inVars, sendVars, peerVars, mIsConnected, mSocketClient, told>>
-----------------------------------------------------------------------------
(* The user. *)

Slots == {"mConnected", "mDisconnected", "mError", "mNewMessage", "mFinished", "mSendFinished"}

InSlot == \E s \in Slots : At(s)

(* Connection::close, at rest or in a slot. *)
UserClose ==
    /\ AtRest \/ InSlot
    /\ attached /\ mSocketClient /\ mFd # NoFd
    /\ Close
    /\ quiet' = TRUE
    /\ UNCHANGED <<outVars, kernelVars, mReadBuffer, attached, stack, ret, timerVars, inVars,
                   sendVars, peerVars, mIsConnected, mSocketClient, told>>

(* Connection::~Connection, which nobody is inside of. *)
Destroy ==
    /\ AtRest /\ attached
    /\ mSocketClient \/ mTimeoutTimer
    /\ Close
    /\ mSocketClient' = FALSE /\ mTimeoutTimer' = FALSE /\ mCheckTimer' = FALSE
    /\ quiet' = TRUE
    /\ UNCHANGED <<outVars, kernelVars, mReadBuffer, attached, stack, ret, inVars, sendVars,
                   peerVars, mIsConnected, told>>

SlotReturns ==
    /\ InSlot
    /\ told' = (told \/ Top.at = "mDisconnected")
    /\ stack' = Below
    /\ UNCHANGED <<outVars, linkVars, pollVars, kernelVars, mReadBuffer, attached, ret,
                   timerVars, inVars, sendVars, peerVars, mIsConnected, mSocketClient, quiet>>

(* A byte of the peer arrives. *)
Arrive ==
    /\ peer = "open" /\ toCome # <<>>
    /\ incoming' = Append(incoming, Head(toCome)) /\ toCome' = Tail(toCome)
    /\ Notice({"read", "readwrite"})
    /\ UNCHANGED <<outVars, linkVars, interest, accepted, drained, peer, mReadBuffer, attached,
                   stack, ret, timerVars, inVars, sendVars, plan, toldVars>>
-----------------------------------------------------------------------------
(* What the thread does within a call. *)
Step ==
    \/ SocketStep /\ UNCHANGED connVars
    \/ StoreRest \/ SendValue \/ ConnectFailed
    \/ OnClientConnected \/ OnClientDisconnected \/ OnSocketError
    \/ OnDataWritten \/ OnDataAvailable \/ SlotReturns

Event == OnEvent /\ UNCHANGED connVars

Kernel == (Drain \/ PeerMoves) /\ UNCHANGED connVars

User ==
    \/ \E size \in BodySizes : Send(size)
    \/ \E o \in {"connected", "inProgress", "fails", "unresolved", "noSocket"}, t \in Timeouts :
          ConnectTo(o, t)
    \/ Attach \/ UserClose \/ Destroy

Next == Step \/ Event \/ Kernel \/ Arrive \/ CheckData \/ TimeoutFires \/ User

Spec == Init /\ [][Next]_vars

(* The thread runs on, slots return, the loop delivers events and fires    *)
(* timers; the peer reads what we write, and the kernel ends a connection  *)
(* attempt.  Nothing makes the peer or the user send anything.             *)
FairSpec ==
    /\ Spec
    /\ WF_vars(Step) /\ WF_vars(Event) /\ WF_vars(CheckData)
    /\ WF_vars(Drain /\ UNCHANGED connVars)
    /\ WF_vars(peer = "connecting" /\ PeerMoves /\ UNCHANGED connVars)
-----------------------------------------------------------------------------
Places == {"writeTo", "flush", "flushed", "direct", "store", "fail", "read", "readDone",
           "writable", "connected", "disconnected", "error", "readyRead", "bytesWritten",
           "send", "connectFailed"} \cup Slots

(* Types, and what belongs together: a closed socket is not registered     *)
(* with epoll, an open one is; the offset is within the buffer.            *)
TypeOK ==
    /\ mFd \in {NoFd, AnFd}
    /\ mSocketState \in {"Disconnected", "Connecting", "Connected"}
    /\ {mWriteWait, queued, attached, ret, mIsConnected, mTimeoutTimer, mCheckTimer,
        mSocketClient, quiet, told} \subseteq BOOLEAN
    /\ interest \in {"none", "read", "readwrite", "disarmed"}
    /\ mFd = NoFd <=> interest = "none"
    /\ peer \in Peers
    /\ mWriteOffset \in 0 .. Len(mWriteBuffer)
    /\ drained \in 0 .. Len(accepted)
    /\ mPendingRead \in Nat /\ mPendingWrite \in Nat /\ sends \in 0 .. MaxSends
    /\ \A k \in DOMAIN stack : stack[k].at \in Places

Open == mFd # NoFd

(* The kernel is handed the bytes of the messages in the order of the      *)
(* sends, none of them twice and none left out, however the writes were    *)
(* cut into pieces, buffered and flushed (writeTo).                        *)
StreamIntact == IsPrefix(accepted, sent)

(* Between callbacks the buffer holds exactly the bytes that were sent and *)
(* not yet written, and mPendingWrite counts them.                         *)
NothingLost ==
    AtRest /\ Open =>
        /\ accepted \o Unwritten = sent
        /\ mPendingWrite = Len(Unwritten)

(* While bytes wait to be written or a connection attempt is under way,    *)
(* epoll has been told to report that the socket is writable, and has it   *)
(* on its list if it is: the one-shot registration is never used up.       *)
WriteArmed ==
    AtRest /\ Open /\ (Unwritten # <<>> \/ mSocketState = "Connecting") =>
        /\ mWriteWait /\ interest = "readwrite"
        /\ Writable => queued

(* Bytes of the peer, or its end, that nobody has read are on epoll's      *)
(* list: the edge is not lost over the changes of the registration.        *)
ReadArmed == AtRest /\ Open /\ Readable => queued /\ interest \in {"read", "readwrite"}

(* onDataAvailable cuts the input where the peer did: the messages it      *)
(* hands out are those of the peer, whole and in order.                    *)
MessagesIntact == parsed = [i \in 1 .. Len(parsed) |-> i]

ReadBytes == Len(Stream(Len(plan))) - Len(toCome) - Len(incoming)
Complete(bytes) == {n \in DOMAIN plan : Len(Stream(n)) <= bytes}

(* No message that has been read completely is held back until the next    *)
(* byte comes, or dropped when the peer closes.  (When ::read fails, the   *)
(* bytes of the same callback are dropped.)                                *)
NoHeldMessage ==
    AtRest /\ attached /\ ~mCheckTimer /\ mSocketClient /\ (Open \/ peer # "reset") =>
        Complete(ReadBytes) \subseteq 1 .. Len(parsed)

(* sendFinished is told when all that was sent is with the kernel. *)
SendFinishedIsTrue == At("mSendFinished") => accepted = sent

(* The assertions of writeTo and onDataWritten. *)
AssertsHold ==
    /\ At("bytesWritten") => mPendingWrite >= Top.total
    /\ At("flush") /\ InLoop => Len(mWriteBuffer) > Top.total
    /\ InLoop /\ Open /\ peer = "open" /\ Room = 0 => ~mWriteWait

(* A connection that is lost, and not closed by the program itself, is     *)
(* reported by mDisconnected.                                              *)
LossIsReported ==
    AtRest /\ ~Open /\ attached /\ peer # "none" => quiet \/ told

(* What is written while the peer keeps reading does not stay in the       *)
(* buffer (socketCallback, writeTo).                                       *)
SendsComplete == Unwritten # <<>> ~> (~Open \/ accepted = sent)

(* A message that has arrived is handed out, or the socket is closed. *)
MessagesArrive ==
    \A n \in 1 .. 2 :
        (attached /\ n \in DOMAIN plan
           /\ n \in Complete(Len(Stream(Len(plan))) - Len(toCome)))
        ~> (~Open \/ Len(parsed) >= n)
=============================================================================
