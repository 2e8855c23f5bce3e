---------------------------- MODULE MCThreadPool ----------------------------
(* ThreadPool for TLC: workers are interchangeable, and so are users; jobs *)
(* are too, being told apart by nothing but their priorities.              *)
EXTENDS ThreadPool

PoolSymmetry == Permutations(Workers) \cup Permutations(Users) \cup Permutations(Jobs)

ThreePriorities == {0, 1, 2}
OnePriority     == {0}
=============================================================================
