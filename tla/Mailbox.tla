------------------------------- MODULE Mailbox -------------------------------
(***************************************************************************)
(* What EventLoop::post promises: events are handed over one at a time, in *)
(* the order in which they were posted, none twice and none left out.      *)
(* Events carry the number of their post.                                  *)
(***************************************************************************)
EXTENDS Naturals, Sequences

VARIABLES waiting,    \* posted, not handed over yet
          sent,       \* number of events posted so far
          handed      \* number of events handed over so far

boxVars == <<waiting, sent, handed>>

BoxInit == waiting = <<>> /\ sent = 0 /\ handed = 0

Send ==
    /\ sent' = sent + 1
    /\ waiting' = Append(waiting, sent')
    /\ UNCHANGED handed

HandOver ==
    /\ waiting # <<>>
    /\ Head(waiting) = handed + 1
    /\ waiting' = Tail(waiting)
    /\ handed' = handed + 1
    /\ UNCHANGED sent

BoxSpec == BoxInit /\ [][Send \/ HandOver]_boxVars
=============================================================================
