---------------------------- MODULE MCThreadPool ----------------------------
(* ThreadPool with two workers and two callers.  One may run a loop of three *)
(* items in chunks of two, which has a helper, or a loop of one item, which  *)
(* has none; both may queue a task, or wait and help meanwhile.              *)
EXTENDS ThreadPool, TLC

Loops == {<<1, 1>>, <<3, 2>>}
==============================================================================
