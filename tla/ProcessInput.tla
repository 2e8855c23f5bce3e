---------------------------- MODULE ProcessInput ----------------------------
(***************************************************************************)
(* rct/Process.cpp: the standard input of a child started by start.        *)
(* write, closeStdIn, the callback of the event loop and finish run on the *)
(* loop's thread, one after the other; the child reads meanwhile, so each  *)
(* ::write of handleInput is a step.  What is written is numbered.         *)
(***************************************************************************)
EXTENDS Naturals, Sequences, SequencesExt

CONSTANTS
    InputSizes,     \* lengths of the strings given to write
    PipeSize,
    MaxInput        \* units given to write in all

ASSUME InputAssumption ==
    /\ InputSizes \subseteq Nat \ {0}
    /\ PipeSize \in Nat \ {0} /\ MaxInput \in Nat

VARIABLES
    mStdInBuffer, mStdInIndex,
    mStdIn,             \* "open", or how it was closed: "normal", "forced"
    mWantStdInClosed,
    inputArmed,         \* whether the loop calls back when mStdIn takes more
    pumping,            \* whether handleInput is in its loop
    stdinPipe, readerGone,      \* the pipe and the child's end of it
    given, consumed     \* history: units given to write; what the child read

queueVars == <<mStdInBuffer, mStdInIndex>>
closeVars == <<mStdIn, mWantStdInClosed>>
endVars   == <<stdinPipe, readerGone, consumed>>
inputVars == <<queueVars, closeVars, inputArmed, pumping, endVars, given>>

InputInit ==
    /\ mStdInBuffer = <<>> /\ mStdInIndex = 0
    /\ mStdIn = "open" /\ mWantStdInClosed = FALSE
    /\ inputArmed = FALSE /\ pumping = FALSE
    /\ stdinPipe = <<>> /\ readerGone = FALSE
    /\ given = 0 /\ consumed = <<>>

-----------------------------------------------------------------------------
(* Calls on the loop's thread *)

(* handleInput takes the socket from the loop and enters its loop *)
HandleInput == inputArmed' = FALSE /\ pumping' = TRUE

Write(n) ==
    /\ ~pumping /\ mStdIn = "open" /\ given + n <= MaxInput
    /\ mStdInBuffer' = Append(mStdInBuffer, [i \in 1 .. n |-> given + i])
    /\ given' = given + n
    /\ HandleInput
    /\ UNCHANGED <<mStdInIndex, closeVars, endVars>>

(* The loop finds room in the pipe, or nobody at its other end: then it    *)
(* drops the callback, which would ignore the error                        *)
ProcessCallback ==
    /\ ~pumping /\ inputArmed /\ ~readerGone
    /\ Len(stdinPipe) < PipeSize
    /\ HandleInput
    /\ UNCHANGED <<queueVars, closeVars, endVars, given>>

ProcessError ==
    /\ ~pumping /\ inputArmed /\ readerGone
    /\ inputArmed' = FALSE
    /\ UNCHANGED <<queueVars, closeVars, pumping, endVars, given>>

(* Mutant: closed at once, whatever is queued *)
CloseNormalAtOnce ==
    /\ ~pumping /\ mStdIn = "open"
    /\ mStdIn' = "normal" /\ inputArmed' = FALSE
    /\ mWantStdInClosed' = FALSE
    /\ UNCHANGED <<queueVars, pumping, endVars, given>>

CloseNormal ==
    /\ ~pumping /\ mStdIn = "open"
    /\ IF mStdInBuffer = <<>>
       THEN mStdIn' = "normal" /\ inputArmed' = FALSE /\ mWantStdInClosed' = FALSE
       ELSE mWantStdInClosed' = TRUE /\ UNCHANGED <<mStdIn, inputArmed>>
    /\ UNCHANGED <<queueVars, pumping, endVars, given>>

(* closeStdIn(CloseForce), of a caller or, with the queue cleared, finish *)
CloseForced ==
    /\ ~pumping /\ mStdIn = "open"
    /\ mStdIn' = "forced" /\ inputArmed' = FALSE /\ mWantStdInClosed' = FALSE
    /\ mStdInBuffer' \in {mStdInBuffer, <<>>}
    /\ UNCHANGED <<mStdInIndex, pumping, endVars, given>>

-----------------------------------------------------------------------------
(* One round of handleInput's loop *)

Rest == SubSeq(Head(mStdInBuffer), mStdInIndex + 1, Len(Head(mStdInBuffer)))

PumpEmpty ==
    /\ pumping /\ mStdInBuffer = <<>>
    /\ pumping' = FALSE
    /\ UNCHANGED <<queueVars, closeVars, inputArmed, endVars, given>>

(* -1: no room for all of it, or nobody who reads *)
PumpBlocked ==
    /\ pumping /\ mStdInBuffer # <<>>
    /\ readerGone \/ Len(stdinPipe) + Len(Rest) > PipeSize
    /\ inputArmed' = TRUE /\ pumping' = FALSE
    /\ UNCHANGED <<queueVars, closeVars, endVars, given>>

(* w bytes are taken: all, and the string is done, or some *)
PumpWrites ==
    /\ pumping /\ mStdInBuffer # <<>> /\ ~readerGone
    /\ \E w \in 1 .. Len(Rest) :
        /\ Len(stdinPipe) + w <= PipeSize
        /\ stdinPipe' = stdinPipe \o SubSeq(Rest, 1, w)
        /\ IF w = Len(Rest)
           THEN /\ mStdInBuffer' = Tail(mStdInBuffer)
                /\ mStdInIndex' = 0
                /\ IF mWantStdInClosed /\ mStdInBuffer' = <<>>
                   THEN mStdIn' = "normal" /\ mWantStdInClosed' = FALSE
                   ELSE UNCHANGED closeVars
           ELSE /\ mStdInIndex' = mStdInIndex + w
                /\ UNCHANGED <<mStdInBuffer, closeVars>>
    /\ UNCHANGED <<inputArmed, pumping, readerGone, consumed, given>>

-----------------------------------------------------------------------------
(* The child *)

ChildReads ==
    /\ stdinPipe # <<>> /\ ~readerGone
    /\ consumed' = Append(consumed, Head(stdinPipe))
    /\ stdinPipe' = Tail(stdinPipe)
    /\ UNCHANGED <<queueVars, closeVars, inputArmed, pumping, readerGone, given>>

ChildClosesInput ==
    /\ ~readerGone
    /\ readerGone' = TRUE
    /\ UNCHANGED <<queueVars, closeVars, inputArmed, pumping, stdinPipe, consumed, given>>

InputNext ==
    \/ \E n \in InputSizes : Write(n)
    \/ ProcessCallback \/ ProcessError \/ CloseNormal \/ CloseForced
    \/ PumpEmpty \/ PumpBlocked \/ PumpWrites
    \/ ChildReads \/ ChildClosesInput

InputSpec == InputInit /\ [][InputNext]_inputVars

(* What has been given to write and not yet to the pipe *)
Unsent == LET all == FlattenSeq(mStdInBuffer) IN SubSeq(all, mStdInIndex + 1, Len(all))

(* The child gets what write was given, in order, once, however ::write    *)
(* cuts it up; it is all gone before a closeStdIn without force takes      *)
(* effect; and between two calls what is queued has the loop to send it as *)
(* long as the child reads, and a close that waits has something to wait   *)
(* for (Process.cpp 667-690, 780-820).                                     *)
InputIntact ==
    mStdIn # "forced" =>
        /\ consumed \o stdinPipe \o Unsent = [i \in 1 .. given |-> i]
        /\ mStdIn = "normal" => Unsent = <<>>
        /\ ~pumping /\ mStdInBuffer # <<>> => inputArmed \/ readerGone
        /\ ~pumping /\ mWantStdInClosed => mStdInBuffer # <<>>
=============================================================================
