------------------------------ MODULE MCTSQueue ------------------------------
(***************************************************************************)
(* Instances of TSQueue for TLC: a thread that removes items and sleeps,   *)
(* and threads that push.                                                  *)
(***************************************************************************)
EXTENDS TSQueue

CONSTANTS main, io, other

(* Every operation of the class.                                           *)
AllCalls == [t \in Threads |->
  CASE t = main -> {"empty", "wait", "pop_front", "pop_back", "clear"}
    [] t = io   -> {"push_back", "push_front"}
    [] OTHER    -> {"push_back", "empty"}]

(* Update(n, true): wait() first.                                          *)
WaitingCalls == [t \in Threads |->
  IF t = main THEN {"wait", "empty", "pop_front"} ELSE {"push_back"}]

=============================================================================
