---------------------------- MODULE MCThreading ----------------------------
(* Threading for TLC.                                                      *)
EXTENDS Threading
AllThreads == 0 .. MaxThreads - 1
ShortNaps == {1, 2}
===========================================================================
