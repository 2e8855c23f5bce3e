----------------------------- MODULE MCEventLoop -----------------------------
(* EventLoop for TLC: threads and descriptors are interchangeable; exec is *)
(* called without a timeout, with one of two units, or either way.         *)
EXTENDS EventLoop, TLC

LoopSymmetry == Permutations(Threads) \cup Permutations(Fds)

Forever    == {-1}
Limited    == {2}
EitherWay  == {-1, 2}
=============================================================================
