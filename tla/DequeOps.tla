------------------------------ MODULE DequeOps ------------------------------
(***************************************************************************)
(* What the operations of mine_net::TSQueue do to the std::deque inside,   *)
(* one operation at a time.  Popping an empty std::deque is undefined.     *)
(***************************************************************************)
EXTENDS Sequences, SequencesExt

Pushes == {"push_back", "push_front"}
Pops == {"pop_front", "pop_back"}
Operations == Pushes \union Pops \union {"empty", "clear", "wait"}

(* The deque after operation o with argument x on the deque q.             *)
After(o, x, q) ==
  CASE o = "push_back"                -> Append(q, x)
    [] o = "push_front"               -> <<x>> \o q
    [] o = "pop_front" /\ q # << >>   -> Tail(q)
    [] o = "pop_back" /\ q # << >>    -> Front(q)
    [] o = "clear"                    -> << >>
    [] OTHER                          -> q

(* Mutant: return !deqQueue.empty();                                       *)
ReplyNegated(o, q) ==
  CASE o = "empty"     -> IF q = << >> THEN "nonempty" ELSE "empty"
    [] o = "pop_front" -> IF q = << >> THEN "undefined" ELSE Head(q)
    [] o = "pop_back"  -> IF q = << >> THEN "undefined" ELSE Last(q)
    [] OTHER           -> "done"

(* What operation o returns when it finds the deque q.                     *)
Reply(o, q) ==
  CASE o = "empty"     -> IF q = << >> THEN "empty" ELSE "nonempty"
    [] o = "pop_front" -> IF q = << >> THEN "undefined" ELSE Head(q)
    [] o = "pop_back"  -> IF q = << >> THEN "undefined" ELSE Last(q)
    [] OTHER           -> "done"

=============================================================================
