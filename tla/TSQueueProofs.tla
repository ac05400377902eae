---------------------------- MODULE TSQueueProofs ----------------------------
(***************************************************************************)
(* Proofs about TSQueue for any threads and items.                         *)
(***************************************************************************)
EXTENDS TSQueue, TLAPS

(* The effect of an operation on a sequence of items is one again, and its *)
(* result is a reply.                                                      *)
LEMMA OperationTypes ==
  ASSUME NEW o \in Operations, NEW x \in Items \union {Nobody},
         NEW q \in Seq(Items), o \in Pushes => x \in Items
  PROVE  After(o, x, q) \in Seq(Items) /\ Reply(o, q) \in Replies \ {"none"}
<1>1. q # << >> => /\ Front(q) \in Seq(Items) /\ Tail(q) \in Seq(Items)
                   /\ Last(q) \in Items /\ Head(q) \in Items
  BY DEF Front, Last
<1>2. o \in Pushes => Append(q, x) \in Seq(Items) /\ <<x>> \o q \in Seq(Items)
  OBVIOUS
<1>3. << >> \in Seq(Items)
  OBVIOUS
<1>4. After(o, x, q) \in Seq(Items)
  BY <1>1, <1>2, <1>3 DEF After, Pushes
<1>5. Reply(o, q) \in Replies \ {"none"}
  BY <1>1, ThreadsAssumption DEF Reply, Replies, ThreadsAssumption
<1> QED
  BY <1>4, <1>5

(* A thread calls what it may call; a push has an item; the result of a    *)
(* call is open until the body has run.                                    *)
CallInv ==
  \A t \in Threads :
    /\ pc[t] # "idle" => call[t].op \in Calls[t]
    /\ pc[t] # "idle" /\ call[t].op \in Pushes => call[t].item \in Items
    /\ pc[t] \in {"lockQueue", "inQueue"} => reply[t] = "none"
    /\ pc[t] \in {"lockWait", "sleep", "asleep", "relock", "unlockWait"}
         => reply[t] = "none" /\ call[t].op = "wait"
    /\ pc[t] \in QueueSection \ {"inQueue"} /\ reply[t] = "none"
         => call[t].op = "wait"

(* Why a pop finds an item: the caller is the only thread that removes any, *)
(* and after empty() said false it has not yet.                            *)
KnownInv ==
  \A t \in Threads :
    /\ Removes(t)
    /\ \/ reply[t] = "nonempty"
       \/ pc[t] \in {"lockQueue", "inQueue"} /\ call[t].op \in Pops
    => deqQueue # << >>

(* The variables keep their types, and each mutex is held by the threads   *)
(* that are between its lock and its unlock, hence by one at a time.       *)
THEOREM TypeCorrect == Spec => [](TypeOK /\ CallInv)
<1>1. Init => TypeOK /\ CallInv
  <2> SUFFICES ASSUME Init PROVE TypeOK /\ CallInv
    OBVIOUS
  <2>1. deqQueue \in Seq(Items)
    BY DEF Init
  <2>2. [op |-> "empty", item |-> Nobody] \in Call
    BY DEF Call, Operations
  <2> QED
    BY <2>1, <2>2, ThreadsAssumption
       DEF Init, TypeOK, CallInv, PCs, Replies, QueueSection, ThreadsAssumption
<1>2. TypeOK /\ CallInv /\ [Next]_vars => TypeOK' /\ CallInv'
  <2> SUFFICES ASSUME TypeOK, CallInv, [Next]_vars
               PROVE  TypeOK' /\ CallInv'
    OBVIOUS
  <2> USE ThreadsAssumption DEF ThreadsAssumption, TypeOK, CallInv, Goto, QueueSection, PCs, Call
  <2>1. ASSUME NEW t \in Threads, NEW o \in Operations,
               NEW x \in Items \union {Nobody}, o \in Pushes => x \in Items,
               Start(t, o, x), fresh' \subseteq fresh
        PROVE  TypeOK' /\ CallInv'
    BY <2>1 DEF Start, Replies
  <2>2. ASSUME NEW t \in Threads, Begin(t)
        PROVE  TypeOK' /\ CallInv'
    <3>1. CASE \E o \in Pushes, x \in Items : Push(t, o, x)
      BY <2>1, <3>1 DEF Push, Operations
    <3>2. CASE \E o \in Pops : Pop(t, o)
      BY <2>1, <3>2 DEF Pop, Operations, Pops, Pushes
    <3>3. CASE \E o \in {"empty", "clear", "wait"} : Look(t, o)
      BY <2>1, <3>3 DEF Look, Operations, Pushes
    <3> QED
      BY <2>2, <3>1, <3>2, <3>3 DEF Begin
  <2>3. ASSUME NEW t \in Threads, LockQueue(t)
        PROVE  TypeOK' /\ CallInv'
    BY <2>3 DEF LockQueue
  <2>4. ASSUME NEW t \in Threads, LockBlocking(t)
        PROVE  TypeOK' /\ CallInv'
    BY <2>4 DEF LockBlocking
  <2>5. ASSUME NEW t \in Threads, InQueue(t)
        PROVE  TypeOK' /\ CallInv'
    <3>1. call[t].op \in Operations /\ call[t].item \in Items \union {Nobody}
          /\ (call[t].op \in Pushes => call[t].item \in Items)
      BY <2>5 DEF InQueue
    <3>2. deqQueue' \in Seq(Items) /\ Reply(call[t].op, deqQueue) \in Replies \ {"none"}
      BY <2>5, <3>1, OperationTypes DEF InQueue
    <3>3. /\ pc[t] = "inQueue"
          /\ \/ pc' = [pc EXCEPT ![t] = "lockBlocking"]
             \/ pc' = [pc EXCEPT ![t] = "unlockQueue"]
      BY <2>5 DEF InQueue
    <3>4. /\ reply' \in [Threads -> Replies]
          /\ \A u \in Threads \ {t} : reply'[u] = reply[u]
          /\ reply'[t] = "none" => call[t].op = "wait"
      <4>1. CASE call[t].op = "wait" /\ deqQueue = << >>
        <5>1. reply' = reply
          BY <2>5, <4>1 DEF InQueue
        <5> QED
          BY <4>1, <5>1
      <4>2. CASE ~(call[t].op = "wait" /\ deqQueue = << >>)
        <5>1. reply' = [reply EXCEPT ![t] = Reply(call[t].op, deqQueue)]
          BY <2>5, <4>2 DEF InQueue
        <5> QED
          BY <3>2, <5>1
      <4> QED
        BY <4>1, <4>2
    <3>5. UNCHANGED <<muxQueue, muxBlocking, call, fresh>>
      BY <2>5 DEF InQueue
    <3>6. TypeOK'
      <4>1. \A u \in Threads :
              /\ muxQueue' = u <=> pc'[u] \in QueueSection
              /\ muxBlocking' = u <=>
                   pc'[u] \in {"notify", "unlockBlocking", "sleep", "unlockWait"}
        BY <3>3, <3>5
      <4>2. pc' \in [Threads -> PCs]
        BY <3>3
      <4> QED
        BY <3>2, <3>4, <3>5, <4>1, <4>2
    <3>7. CallInv'
      BY <3>3, <3>4, <3>5
    <3> QED
      BY <3>6, <3>7
  <2>6. ASSUME NEW t \in Threads, NotifyOne(t)
        PROVE  TypeOK' /\ CallInv'
    BY <2>6 DEF NotifyOne
  <2>7. ASSUME NEW t \in Threads, UnlockBlocking(t)
        PROVE  TypeOK' /\ CallInv'
    BY <2>7 DEF UnlockBlocking
  <2>8. ASSUME NEW t \in Threads, UnlockQueue(t)
        PROVE  TypeOK' /\ CallInv'
    <3>1. TypeOK'
      BY <2>8 DEF UnlockQueue
    <3>2. ASSUME reply[t] = "none" PROVE CallInv'
      BY <2>8, <3>2 DEF UnlockQueue
    <3>3. ASSUME reply[t] # "none" PROVE CallInv'
      BY <2>8, <3>3 DEF UnlockQueue
    <3>4. CallInv'
      BY <3>2, <3>3
    <3> QED
      BY <3>1, <3>4
  <2>9. ASSUME NEW t \in Threads, Sleep(t)
        PROVE  TypeOK' /\ CallInv'
    BY <2>9 DEF Sleep
  <2>10. ASSUME NEW t \in Threads, WakeSpuriously(t)
         PROVE  TypeOK' /\ CallInv'
    BY <2>10 DEF WakeSpuriously
  <2>11. CASE UNCHANGED vars
    BY <2>11 DEF vars
  <2> QED
    BY <2>2, <2>3, <2>4, <2>5, <2>6, <2>7, <2>8, <2>9, <2>10, <2>11
       DEF Next, Proceed
<1> QED
  BY <1>1, <1>2, PTL DEF Spec

-----------------------------------------------------------------------------
(* What empty() told the thread that removes items stays true until its    *)
(* pop, since the other threads only add any.                              *)
LEMMA KnownStep == TypeOK /\ CallInv /\ KnownInv /\ [Next]_vars => KnownInv'
<1> SUFFICES ASSUME TypeOK, CallInv, KnownInv, [Next]_vars,
                    NEW u \in Threads, Removes(u)
             PROVE  \/ reply'[u] = "nonempty"
                    \/ pc'[u] \in {"lockQueue", "inQueue"} /\ call'[u].op \in Pops
                    => deqQueue' # << >>
  BY DEF KnownInv, Removes
<1> DEFINE Knows == \/ reply[u] = "nonempty"
                    \/ pc[u] \in {"lockQueue", "inQueue"} /\ call[u].op \in Pops
<1>1. Knows => deqQueue # << >>
  BY DEF KnownInv
<1> USE DEF Goto
<1>2. ASSUME NEW t \in Threads, Begin(t)
      PROVE  Knows' => Knows /\ deqQueue' = deqQueue
  BY <1>2 DEF TypeOK, Begin, Push, Pop, Look, Start, Pushes, Pops, Call
<1>3. ASSUME NEW t \in Threads, InQueue(t)
      PROVE  Knows' => deqQueue' # << >>
  <2>1. call[t].op \in Calls[t] /\ call[t].op \in Operations
        /\ (call[t].op \in Pushes => call[t].item \in Items)
    BY <1>3, ThreadsAssumption DEF InQueue, CallInv, ThreadsAssumption
  <2>2. CASE t = u
    <3>1. Reply(call[t].op, deqQueue) = "nonempty"
            => call[t].op = "empty" /\ deqQueue # << >>
      <4>1. deqQueue # << >> => Head(deqQueue) \in Items /\ Last(deqQueue) \in Items
        BY DEF TypeOK, Last
      <4> QED
        BY <4>1, ThreadsAssumption DEF Reply, ThreadsAssumption
    <3>2. Knows' => Reply(call[t].op, deqQueue) = "nonempty"
      BY <1>3, <2>2 DEF InQueue, TypeOK, CallInv
    <3> QED
      BY <1>3, <3>1, <3>2 DEF InQueue, After
  <2>3. CASE t # u
    <3>1. call[t].op \in Pushes \union {"empty", "wait"}
      BY <2>1, <2>3, ThreadsAssumption DEF ThreadsAssumption, Removes, Operations
    <3>2. Knows' => Knows
      BY <1>3, <2>3 DEF InQueue, TypeOK
    <3>3. deqQueue # << >> => After(call[t].op, call[t].item, deqQueue) # << >>
      BY <2>1, <3>1 DEF After, Pushes, TypeOK
    <3> QED
      BY <1>1, <1>3, <3>2, <3>3 DEF InQueue
  <2> QED
    BY <2>2, <2>3
<1>4. ASSUME NEW t \in Threads,
             \/ LockQueue(t) \/ LockBlocking(t) \/ NotifyOne(t)
             \/ UnlockBlocking(t) \/ UnlockQueue(t) \/ Sleep(t) \/ WakeSpuriously(t)
      PROVE  Knows' => deqQueue' # << >>
  <2>1. deqQueue' = deqQueue /\ reply' = reply /\ call' = call
    BY <1>4 DEF LockQueue, LockBlocking, NotifyOne, UnlockBlocking, UnlockQueue,
                Sleep, WakeSpuriously
  <2>2. pc'[u] \in {"lockQueue", "inQueue"}
          => pc[u] \in {"lockQueue", "inQueue"} \/ call[u].op = "wait"
    BY <1>4 DEF TypeOK, CallInv, LockQueue, LockBlocking, NotifyOne,
                UnlockBlocking, UnlockQueue, Sleep, WakeSpuriously
  <2> QED
    BY <1>1, <2>1, <2>2 DEF Pops
<1>5. CASE UNCHANGED vars
  BY <1>1, <1>5 DEF vars
<1> QED
  BY <1>1, <1>2, <1>3, <1>4, <1>5 DEF Next, Proceed

(* No thread ever pops an empty deque.                                     *)
THEOREM PopsFindItems == Spec => []PopFindsItem
<1>1. Init => KnownInv
  BY ThreadsAssumption DEF Init, KnownInv
<1>2. CallInv /\ KnownInv => PopFindsItem
  BY ThreadsAssumption DEF CallInv, KnownInv, PopFindsItem, Removes, ThreadsAssumption
<1> QED
  BY <1>1, <1>2, TypeCorrect, KnownStep, PTL DEF Spec

-----------------------------------------------------------------------------
(* Behind its locks the queue is the atomic deque: a call takes effect in  *)
(* the step that touches deqQueue, which every call has at most one of.    *)
THEOREM RefinesDeque == Spec => ImplementsDeque
<1>1. Init => Atomic!Init
  BY DEF Init, Atomic!Init
<1>2. TypeOK /\ CallInv /\ PopFindsItem /\ [Next]_vars => [Atomic!Next]_Atomic!vars
  <2> SUFFICES ASSUME TypeOK, CallInv, PopFindsItem, [Next]_vars
               PROVE  Atomic!Next \/ UNCHANGED Atomic!vars
    OBVIOUS
  <2> DEFINE busy == {t \in Threads : pc[t] # "idle"}
  <2>0. /\ Atomic!Pushes = Pushes /\ Atomic!Pops = Pops
        /\ Atomic!Operations = Operations
        /\ \A o, x, q : Atomic!After(o, x, q) = After(o, x, q)
        /\ \A o, q : Atomic!Reply(o, q) = Reply(o, q)
    BY DEF Atomic!Pushes, Pushes, Atomic!Pops, Pops, Atomic!Operations, Operations,
           Atomic!After, After, Atomic!Reply, Reply, Atomic!Front, Front,
           Atomic!Last, Last
  <2> USE DEF Goto
  <2>1. ASSUME NEW t \in Threads, NEW o \in Operations, NEW x, Start(t, o, x)
        PROVE  Atomic!Call(t, o, x)
    BY <2>1 DEF Start, Atomic!Call, TypeOK
  <2>2. ASSUME NEW t \in Threads, Begin(t)
        PROVE  Atomic!Next
    <3>1. CASE \E o \in Pushes, x \in Items : Push(t, o, x)
      <4>1. \E o \in Pushes, x \in Items : Atomic!CallPush(t, o, x)
        BY <2>1, <3>1 DEF Push, Atomic!CallPush, Operations
      <4> QED
        BY <2>0, <4>1 DEF Atomic!Next
    <3>2. CASE \/ \E o \in Pops : Pop(t, o)
               \/ \E o \in {"empty", "clear", "wait"} : Look(t, o)
      <4>1. \E o \in Operations \ Pushes : Atomic!CallOther(t, o)
        BY <2>1, <3>2 DEF Pop, Look, Atomic!CallOther, Operations, Pops, Pushes
      <4> QED
        BY <2>0, <4>1 DEF Atomic!Next
    <3> QED
      BY <2>2, <3>1, <3>2 DEF Begin
  <2>3. ASSUME NEW t \in Threads, InQueue(t)
        PROVE  Atomic!Next \/ UNCHANGED Atomic!vars
    <3>1. busy' = busy /\ t \in busy /\ reply[t] = "none" /\ UNCHANGED <<call, fresh>>
      BY <2>3 DEF InQueue, TypeOK, CallInv
    <3>2. CASE call[t].op = "wait" /\ deqQueue = << >>
      <4>1. deqQueue' = deqQueue /\ reply' = reply
        BY <2>3, <3>2 DEF InQueue, After
      <4> QED
        BY <3>1, <4>1 DEF Atomic!vars
    <3>3. CASE ~(call[t].op = "wait" /\ deqQueue = << >>)
      <4>1. reply' = [reply EXCEPT ![t] = Reply(call[t].op, deqQueue)]
            /\ deqQueue' = After(call[t].op, call[t].item, deqQueue)
        BY <2>3, <3>3 DEF InQueue
      <4>2. call[t].op \in Pops \union {"wait"} => deqQueue # << >>
        BY <2>3, <3>3 DEF PopFindsItem, InQueue
      <4>3. Atomic!TakeEffect(t)
        BY <2>0, <3>1, <4>1, <4>2 DEF Atomic!TakeEffect
      <4> QED
        BY <4>3 DEF Atomic!Next
    <3> QED
      BY <3>2, <3>3
  <2>4. ASSUME NEW t \in Threads, UnlockQueue(t)
        PROVE  Atomic!Next \/ UNCHANGED Atomic!vars
    <3>1. CASE reply[t] = "none"
      <4>1. busy' = busy
        BY <2>4, <3>1 DEF UnlockQueue, TypeOK
      <4> QED
        BY <2>4, <4>1 DEF UnlockQueue, Atomic!vars
    <3>2. CASE reply[t] # "none"
      <4>1. t \in busy /\ busy' = busy \ {t}
        BY <2>4, <3>2 DEF UnlockQueue, TypeOK
      <4>2. Atomic!Return(t)
        BY <2>4, <3>2, <4>1 DEF UnlockQueue, Atomic!Return
      <4> QED
        BY <4>2 DEF Atomic!Next
    <3> QED
      BY <3>1, <3>2
  <2>5. ASSUME NEW t \in Threads,
               \/ LockQueue(t) \/ LockBlocking(t) \/ NotifyOne(t)
               \/ UnlockBlocking(t) \/ Sleep(t) \/ WakeSpuriously(t)
        PROVE  UNCHANGED Atomic!vars
    <3>1. busy' = busy
      BY <2>5 DEF LockQueue, LockBlocking, NotifyOne, UnlockBlocking, Sleep,
                  WakeSpuriously, TypeOK
    <3> QED
      BY <2>5, <3>1 DEF LockQueue, LockBlocking, NotifyOne, UnlockBlocking,
                        Sleep, WakeSpuriously, Atomic!vars
  <2>6. CASE UNCHANGED vars
    BY <2>6 DEF vars, Atomic!vars
  <2> QED
    BY <2>2, <2>3, <2>4, <2>5, <2>6 DEF Next, Proceed
<1> QED
  BY <1>1, <1>2, TypeCorrect, PopsFindItems, PTL
     DEF Spec, ImplementsDeque, Atomic!Spec

=============================================================================
