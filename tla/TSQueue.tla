------------------------------- MODULE TSQueue -------------------------------
(***************************************************************************)
(* mine_net::TSQueue, lock by lock.  muxQueue guards the deque; muxBlocking *)
(* belongs to the condition variable cvBlocking that wait() sleeps on.  A  *)
(* push takes muxBlocking while it holds muxQueue.                         *)
(*                                                                         *)
(* Threads call any operation, and pop only after empty() returned false,  *)
(* as the loops of ServerInterface::Update and of Connection's writers do. *)
(* One thread removes items: main from m_qMessagesIn, the io_service       *)
(* thread from m_qMessagesOut.                                             *)
(***************************************************************************)
EXTENDS DequeOps

CONSTANTS
  Threads,
  Calls,   \* the operations that each thread calls
  Items,   \* what is pushed, each item once: bounds the pushes
  Nobody   \* no holder of a mutex, no argument

Removes(t) == Calls[t] \intersect (Pops \union {"clear"}) # {}

ASSUME ThreadsAssumption ==
  /\ Calls \in [Threads -> SUBSET Operations]
  /\ \A t, u \in Threads : Removes(t) /\ Removes(u) => t = u
  /\ Nobody \notin Threads /\ Nobody \notin Items
  /\ Items \intersect {"none", "done", "empty", "nonempty", "undefined"} = {}

Call == [op : Operations, item : Items \union {Nobody}]
Replies == Items \union {"none", "done", "empty", "nonempty", "undefined"}
QueueSection == {"inQueue", "lockBlocking", "notify", "unlockBlocking", "unlockQueue"}
PCs == QueueSection \union {"idle", "lockQueue", "lockWait", "sleep", "asleep",
                            "relock", "unlockWait"}

VARIABLES
  deqQueue,
  muxQueue,     \* the thread that holds it, or Nobody
  muxBlocking,
  pc,           \* where each thread is in its call
  call,         \* each thread's last call
  reply,        \* its result, "none" before it is known
  fresh         \* items that nobody pushed yet

vars == <<deqQueue, muxQueue, muxBlocking, pc, call, reply, fresh>>

Init ==
  /\ deqQueue = << >>
  /\ muxQueue = Nobody
  /\ muxBlocking = Nobody
  /\ pc = [t \in Threads |-> "idle"]
  /\ call = [t \in Threads |-> [op |-> "empty", item |-> Nobody]]
  /\ reply = [t \in Threads |-> "none"]
  /\ fresh = Items

Goto(t, from, to) == pc[t] = from /\ pc' = [pc EXCEPT ![t] = to]

Start(t, o, x) ==
  /\ o \in Calls[t]
  /\ Goto(t, "idle", "lockQueue")
  /\ call' = [call EXCEPT ![t] = [op |-> o, item |-> x]]
  /\ reply' = [reply EXCEPT ![t] = "none"]
  /\ UNCHANGED <<deqQueue, muxQueue, muxBlocking>>

Push(t, o, x) == x \in fresh /\ fresh' = fresh \ {x} /\ Start(t, o, x)

Pop(t, o) == reply[t] = "nonempty" /\ fresh' = fresh /\ Start(t, o, Nobody)

Look(t, o) == fresh' = fresh /\ Start(t, o, Nobody)

-----------------------------------------------------------------------------
(* std::scoped_lock lock(muxQueue)                                         *)
LockQueue(t) ==
  /\ muxQueue = Nobody
  /\ Goto(t, "lockQueue", "inQueue")
  /\ muxQueue' = t
  /\ UNCHANGED <<deqQueue, muxBlocking, call, reply, fresh>>

(* The body of the operation; for wait(), of the empty() in its condition. *)
InQueue(t) ==
  LET o == call[t].op
  IN  /\ Goto(t, "inQueue", IF o \in Pushes THEN "lockBlocking" ELSE "unlockQueue")
      /\ deqQueue' = After(o, call[t].item, deqQueue)
      /\ reply' = IF o = "wait" /\ deqQueue = << >> THEN reply
                  ELSE [reply EXCEPT ![t] = Reply(o, deqQueue)]
      /\ UNCHANGED <<muxQueue, muxBlocking, call, fresh>>

(* A push takes muxBlocking for notify_one, wait() for cvBlocking.wait, and *)
(* once more when it is woken.                                             *)
LockBlocking(t) ==
  /\ muxBlocking = Nobody
  /\ \/ Goto(t, "lockBlocking", "notify")
     \/ Goto(t, "lockWait", "sleep")
     \/ Goto(t, "relock", "unlockWait")
  /\ muxBlocking' = t
  /\ UNCHANGED <<deqQueue, muxQueue, call, reply, fresh>>

(* cvBlocking.notify_one() wakes a thread that sleeps now, if there is one. *)
NotifyOne(t) ==
  /\ pc[t] = "notify"
  /\ LET asleep == {u \in Threads : pc[u] = "asleep"}
     IN  IF asleep = {} THEN pc' = [pc EXCEPT ![t] = "unlockBlocking"]
         ELSE \E u \in asleep :
                pc' = [pc EXCEPT ![t] = "unlockBlocking", ![u] = "relock"]
  /\ UNCHANGED <<deqQueue, muxQueue, muxBlocking, call, reply, fresh>>

(* Mutant: wait() keeps muxBlocking while it calls empty() again.          *)
UnlockBlockingLate(t) ==
  \/ /\ Goto(t, "unlockBlocking", "unlockQueue")
     /\ muxBlocking' = Nobody
     /\ UNCHANGED <<deqQueue, muxQueue, call, reply, fresh>>
  \/ /\ Goto(t, "unlockWait", "lockQueue")
     /\ UNCHANGED <<deqQueue, muxQueue, muxBlocking, call, reply, fresh>>

(* Mutant: if (empty()) where wait() has while (empty()).                  *)
UnlockBlockingOnce(t) ==
  /\ Goto(t, "unlockBlocking", "unlockQueue") \/ Goto(t, "unlockWait", "idle")
  /\ muxBlocking' = Nobody
  /\ UNCHANGED <<deqQueue, muxQueue, call, reply, fresh>>

(* The end of ul: a push goes on to release muxQueue, wait() to look again. *)
UnlockBlocking(t) ==
  /\ Goto(t, "unlockBlocking", "unlockQueue") \/ Goto(t, "unlockWait", "lockQueue")
  /\ muxBlocking' = Nobody
  /\ UNCHANGED <<deqQueue, muxQueue, call, reply, fresh>>

(* Mutant: wait() goes to sleep with muxQueue locked.                      *)
UnlockQueueKept(t) ==
  /\ Goto(t, "unlockQueue", IF reply[t] = "none" THEN "lockWait" ELSE "idle")
  /\ muxQueue' = IF call[t].op = "wait" THEN muxQueue ELSE Nobody
  /\ UNCHANGED <<deqQueue, muxBlocking, call, reply, fresh>>

(* The end of lock: the call returns, unless wait() found nothing.         *)
UnlockQueue(t) ==
  /\ Goto(t, "unlockQueue", IF reply[t] = "none" THEN "lockWait" ELSE "idle")
  /\ muxQueue' = Nobody
  /\ UNCHANGED <<deqQueue, muxBlocking, call, reply, fresh>>

(* cvBlocking.wait(ul) releases muxBlocking and sleeps in one step.        *)
Sleep(t) ==
  /\ Goto(t, "sleep", "asleep")
  /\ muxBlocking' = Nobody
  /\ UNCHANGED <<deqQueue, muxQueue, call, reply, fresh>>

(* It may wake up without a notification.                                  *)
WakeSpuriously(t) ==
  /\ Goto(t, "asleep", "relock")
  /\ UNCHANGED <<deqQueue, muxQueue, muxBlocking, call, reply, fresh>>

Begin(t) ==
  \/ \E o \in Pushes, x \in Items : Push(t, o, x)
  \/ \E o \in Pops : Pop(t, o)
  \/ \E o \in {"empty", "clear", "wait"} : Look(t, o)

Proceed(t) ==
  InQueue(t) \/ NotifyOne(t) \/ UnlockBlocking(t) \/ UnlockQueue(t) \/ Sleep(t)

Next ==
  \E t \in Threads :
    Begin(t) \/ LockQueue(t) \/ LockBlocking(t) \/ Proceed(t) \/ WakeSpuriously(t)

Spec == Init /\ [][Next]_vars

(* Threads run, and a mutex that is released again and again is obtained   *)
(* in the end; nobody need call, and no thread need wake spuriously.       *)
FairSpec ==
  /\ Spec
  /\ \A t \in Threads : SF_vars(LockQueue(t) \/ LockBlocking(t) \/ Proceed(t))

-----------------------------------------------------------------------------
(* Every variable has its type, and a mutex is held by exactly the threads *)
(* that are between its lock and its unlock.                               *)
TypeOK ==
  /\ deqQueue \in Seq(Items)
  /\ muxQueue \in Threads \union {Nobody}
  /\ muxBlocking \in Threads \union {Nobody}
  /\ pc \in [Threads -> PCs]
  /\ call \in [Threads -> Call]
  /\ reply \in [Threads -> Replies]
  /\ fresh \subseteq Items
  /\ \A t \in Threads :
       /\ muxQueue = t <=> pc[t] \in QueueSection
       /\ muxBlocking = t <=>
            pc[t] \in {"notify", "unlockBlocking", "sleep", "unlockWait"}

(* No call pops an empty deque: what empty() said still holds when the pop *)
(* gets the mutex, though other threads call in between.                   *)
PopFindsItem ==
  \A t \in Threads :
    pc[t] \in {"lockQueue", "inQueue"} /\ call[t].op \in Pops => deqQueue # << >>

(* Every call takes effect at one moment between start and return.         *)
Atomic == INSTANCE Deque WITH
  None <- Nobody,
  content <- deqQueue,
  busy <- {t \in Threads : pc[t] # "idle"}

(* The operations with their locks implement the atomic deque.             *)
ImplementsDeque == Atomic!Spec

(* No lock is waited for in a circle, or for ever: each call returns,      *)
(* whatever the other threads call, but for wait().                        *)
CallsReturn ==
  \A t \in Threads :
    pc[t] # "idle" /\ call[t].op # "wait" ~> pc[t] = "idle"

(* net_client_server.hpp, Update: "force the server to respond to incoming *)
(* messages", after wait() if bWait.  A thread in wait() does not stay in  *)
(* it while the queue keeps an item.                                       *)
WaitersAreWoken ==
  \A t \in Threads :
    pc[t] # "idle" /\ call[t].op = "wait" /\ deqQueue # << >>
      ~> pc[t] = "idle" \/ deqQueue = << >>

=============================================================================
