------------------------------- MODULE Deque --------------------------------
(***************************************************************************)
(* What mine_net::TSQueue promises the threads that share it: every call   *)
(* takes effect in one step between its start and its return, pops find an *)
(* item, and wait returns only after it found one.                         *)
(***************************************************************************)
EXTENDS DequeOps

CONSTANTS Threads, Items, None

VARIABLES
  content,  \* the items, front first
  fresh,    \* items that nobody pushed yet
  busy,     \* the threads inside a call
  call,     \* the operation and the argument of each thread's last call
  reply     \* its result, "none" before it took effect

vars == <<content, fresh, busy, call, reply>>

Init ==
  /\ content = << >>
  /\ fresh = Items
  /\ busy = {}
  /\ call = [t \in Threads |-> [op |-> "empty", item |-> None]]
  /\ reply = [t \in Threads |-> "none"]

Call(t, o, x) ==
  /\ t \notin busy
  /\ busy' = busy \union {t}
  /\ call' = [call EXCEPT ![t] = [op |-> o, item |-> x]]
  /\ reply' = [reply EXCEPT ![t] = "none"]
  /\ UNCHANGED content

CallPush(t, o, x) == x \in fresh /\ fresh' = fresh \ {x} /\ Call(t, o, x)

CallOther(t, o) == fresh' = fresh /\ Call(t, o, None)

TakeEffect(t) ==
  /\ t \in busy
  /\ reply[t] = "none"
  /\ call[t].op \in Pops \union {"wait"} => content # << >>
  /\ content' = After(call[t].op, call[t].item, content)
  /\ reply' = [reply EXCEPT ![t] = Reply(call[t].op, content)]
  /\ UNCHANGED <<fresh, busy, call>>

Return(t) ==
  /\ t \in busy
  /\ reply[t] # "none"
  /\ busy' = busy \ {t}
  /\ UNCHANGED <<content, fresh, call, reply>>

Next ==
  \E t \in Threads :
    \/ \E o \in Pushes, x \in Items : CallPush(t, o, x)
    \/ \E o \in Operations \ Pushes : CallOther(t, o)
    \/ TakeEffect(t)
    \/ Return(t)

Spec == Init /\ [][Next]_vars

=============================================================================
