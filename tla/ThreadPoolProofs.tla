-------------------------- MODULE ThreadPoolProofs ---------------------------
(***************************************************************************)
(* Proofs about ThreadPool for any finite set of workers and any tasks.    *)
(***************************************************************************)
EXTENDS ThreadPool, FiniteSetTheorems, TLAPS

(* What removing the last task leaves.                                     *)
LEMMA FrontLast ==
  ASSUME NEW S, NEW q \in Seq(S), q # << >>
  PROVE  /\ Front(q) \in Seq(S)
         /\ Len(Front(q)) = Len(q) - 1
         /\ \A i \in DOMAIN Front(q) : i \in DOMAIN q /\ i # Len(q) /\ Front(q)[i] = q[i]
         /\ Last(q) = q[Len(q)]
         /\ Len(q) \in DOMAIN q
         /\ Last(q) \in S
<1>1. Len(q) \in Nat \ {0} /\ DOMAIN q = 1 .. Len(q)
  OBVIOUS
<1> QED
  BY <1>1 DEF Front, Last

(* A worker goes to sleep with the lock in its hand and nothing to do.     *)
SleepersSawNone == \A w \in Threads : pc[w] = "sleep" => tasks_ = << >>

PoolInv == PoolTypeOK /\ TakesATask /\ SleepersSawNone

(* The steps that touch neither the vector nor running_ and enter neither  *)
(* "sleep" nor the part after the loop.                                    *)
LEMMA QuietStep ==
  ASSUME TakesATask, SleepersSawNone, UNCHANGED <<tasks_, running_>>,
         \A w \in Threads : pc'[w] \in {"sleep", "check", "pop"} => pc'[w] = pc[w]
  PROVE  TakesATask' /\ SleepersSawNone'
BY DEF TakesATask, SleepersSawNone

(* The type invariant, the fact that back() finds a task, and that workers *)
(* fall asleep on an empty vector only, are inductive together: Take and   *)
(* PopBack keep their types because the vector is not empty.               *)
THEOREM PoolInvariant == PoolSpec => []PoolInv
<1> USE PoolAssumption DEF PoolAssumption
<1>1. PoolInit => PoolInv
  BY DEF PoolInit, PoolInv, PoolTypeOK, TakesATask, SleepersSawNone, PCs, InLock
<1>2. PoolInv /\ [PoolNext]_poolVars => PoolInv'
  <2> SUFFICES ASSUME PoolInv, [PoolNext]_poolVars
               PROVE  PoolInv'
    OBVIOUS
  <2>0. PoolTypeOK /\ TakesATask /\ SleepersSawNone
    BY DEF PoolInv
  <2>1. ASSUME NEW x \in Tasks, Put(x)
        PROVE  PoolInv'
    <3>1. tasks_' \in Seq(Tasks) /\ tasks_' # << >>
      BY <2>0, <2>1 DEF Put, PoolTypeOK
    <3>2. \A w \in Threads : pc[w] \notin InLock
      BY <2>0, <2>1 DEF Put, PoolTypeOK
    <3>3. /\ pc' \in [Threads -> PCs]
          /\ \A w \in Threads : pc'[w] = pc[w] \/ (pc[w] = "asleep" /\ pc'[w] = "relock")
      <4>1. CASE Asleep = {}
        BY <2>0, <2>1, <4>1 DEF Put, PoolTypeOK
      <4>2. CASE Asleep # {}
        BY <2>0, <2>1, <4>2 DEF Put, PoolTypeOK, Asleep, PCs
      <4> QED
        BY <4>1, <4>2
    <3>4. PoolTypeOK'
      BY <2>0, <2>1, <3>1, <3>3 DEF Put, PoolTypeOK, InLock, stopping
    <3>5. TakesATask' /\ SleepersSawNone'
      BY <3>1, <3>2, <3>3 DEF TakesATask, SleepersSawNone, InLock
    <3> QED
      BY <3>4, <3>5 DEF PoolInv
  <2>2. ASSUME NEW w \in Threads, TestRunning(w) \/ Lock(w) \/ Sleep(w) \/ WakeSpuriously(w)
        PROVE  PoolInv'
    <3>1. UNCHANGED <<tasks_, task, running_, stop, missed>>
      BY <2>2 DEF TestRunning, Lock, Sleep, WakeSpuriously, stopping
    <3>2. PoolTypeOK'
      <4>1. CASE TestRunning(w)
        BY <2>0, <3>1, <4>1 DEF TestRunning, PoolTypeOK, Goto, InLock, PCs
      <4>2. CASE Lock(w)
        BY <2>0, <3>1, <4>2 DEF Lock, PoolTypeOK, Goto, InLock, PCs
      <4>3. CASE Sleep(w)
        BY <2>0, <3>1, <4>3 DEF Sleep, PoolTypeOK, Goto, InLock, PCs
      <4>4. CASE WakeSpuriously(w)
        BY <2>0, <3>1, <4>4 DEF WakeSpuriously, PoolTypeOK, Goto, InLock, PCs
      <4> QED
        BY <2>2, <4>1, <4>2, <4>3, <4>4
    <3>3. \A v \in Threads : pc'[v] \in {"sleep", "check", "pop"} => pc'[v] = pc[v]
      BY <2>0, <2>2 DEF PoolTypeOK, TestRunning, Lock, Sleep, WakeSpuriously, Goto
    <3> QED
      BY <2>0, <3>1, <3>2, <3>3, QuietStep DEF PoolInv
  <2>3. ASSUME NEW w \in Threads, Look(w)
        PROVE  PoolInv'
    BY <2>0, <2>3 DEF Look, Goto, PoolInv, PoolTypeOK, TakesATask, SleepersSawNone, PCs, InLock, stopping
  <2>4. ASSUME NEW w \in Threads, Leave(w) \/ Run(w)
        PROVE  PoolInv'
    <3>1. UNCHANGED <<tasks_, running_, stop, missed>>
      BY <2>4 DEF Leave, Run, stopping
    <3>2. PoolTypeOK'
      <4>1. CASE Leave(w)
        BY <2>0, <3>1, <4>1 DEF Leave, PoolTypeOK, Goto, InLock, PCs
      <4>2. CASE Run(w)
        BY <2>0, <3>1, <4>2 DEF Run, PoolTypeOK, Goto, InLock, PCs
      <4> QED
        BY <2>4, <4>1, <4>2
    <3>3. \A v \in Threads : pc'[v] \in {"sleep", "check", "pop"} => pc'[v] = pc[v]
      BY <2>0, <2>4 DEF PoolTypeOK, Leave, Run, Goto
    <3> QED
      BY <2>0, <3>1, <3>2, <3>3, QuietStep DEF PoolInv
  <2>5. ASSUME NEW w \in Threads, Take(w)
        PROVE  PoolInv'
    <3>1. tasks_ # << >> /\ Last(tasks_) \in Tasks
      BY <2>0, <2>5, FrontLast DEF Take, Goto, PoolTypeOK, TakesATask
    <3> QED
      BY <2>0, <2>5, <3>1
         DEF Take, Goto, PoolInv, PoolTypeOK, TakesATask, SleepersSawNone, PCs, InLock, stopping
  <2>6. ASSUME NEW w \in Threads, PopBack(w)
        PROVE  PoolInv'
    <3>1. tasks_' \in Seq(Tasks)
      BY <2>0, <2>6, FrontLast DEF PopBack, Goto, PoolTypeOK, TakesATask
    <3>2. \A v \in Threads \ {w} : pc[v] \notin InLock
      BY <2>0, <2>6 DEF PopBack, Goto, PoolTypeOK, InLock
    <3> QED
      BY <2>0, <2>6, <3>1, <3>2
         DEF PopBack, Goto, PoolInv, PoolTypeOK, TakesATask, SleepersSawNone, PCs, InLock, stopping
  <2>7. CASE StopRunning
    BY <2>0, <2>7 DEF StopRunning, PoolInv, PoolTypeOK, TakesATask, SleepersSawNone
  <2>8. CASE NotifyAll
    BY <2>0, <2>8 DEF NotifyAll, AboutToSleep, Asleep, PoolInv, PoolTypeOK, TakesATask,
                      SleepersSawNone, PCs, InLock
  <2>9. CASE JoinAll
    BY <2>0, <2>9 DEF JoinAll, PoolInv, PoolTypeOK, TakesATask, SleepersSawNone
  <2>10. CASE UNCHANGED poolVars
    BY <2>0, <2>10 DEF poolVars, PoolInv, PoolTypeOK, TakesATask, SleepersSawNone
  <2> QED
    BY <2>1, <2>2, <2>3, <2>4, <2>5, <2>6, <2>7, <2>8, <2>9, <2>10 DEF PoolNext, Worker
<1> QED
  BY <1>1, <1>2, PTL DEF PoolSpec

(* The variables keep their types, and lock_ is held by one worker.        *)
THEOREM PoolTypes == PoolSpec => []PoolTypeOK
<1>1. PoolInv => PoolTypeOK
  BY DEF PoolInv
<1> QED
  BY <1>1, PoolInvariant, PTL

(* No worker takes the back of an empty vector.                            *)
THEOREM BackFindsTask == PoolSpec => []TakesATask
<1>1. PoolInv => TakesATask
  BY DEF PoolInv
<1> QED
  BY <1>1, PoolInvariant, PTL

-----------------------------------------------------------------------------
(* A task is held once: the worker that takes the back holds the lock till *)
(* it is popped, so that no other worker takes it, and nobody puts it      *)
(* again while it is in the vector or with a worker.                       *)
THEOREM TasksRunOnce == PoolSpec => []EachTaskOnce
<1> USE PoolAssumption DEF PoolAssumption
<1>1. PoolInit => EachTaskOnce
  BY DEF PoolInit, EachTaskOnce
<1>2. PoolInv /\ EachTaskOnce /\ [PoolNext]_poolVars => EachTaskOnce'
  <2> SUFFICES ASSUME PoolInv, EachTaskOnce, [PoolNext]_poolVars
               PROVE  EachTaskOnce'
    OBVIOUS
  <2>0. PoolTypeOK /\ TakesATask
    BY DEF PoolInv
  <2>1. ASSUME NEW x \in Tasks, Put(x)
        PROVE  EachTaskOnce'
    <3>1. /\ tasks_' = Append(tasks_, x)
          /\ task' = task
          /\ \A i \in DOMAIN tasks_ : tasks_[i] # x
          /\ \A w \in Threads : task[w] # x
      BY <2>0, <2>1 DEF Put, Idle, Contains, PoolTypeOK
    <3>2. \A w \in Threads : pc[w] # "pop"
      BY <2>0, <2>1 DEF Put, PoolTypeOK, InLock
    <3>3. /\ DOMAIN tasks_' = DOMAIN tasks_ \union {Len(tasks_) + 1}
          /\ \A i \in DOMAIN tasks_ : tasks_'[i] = tasks_[i]
          /\ tasks_'[Len(tasks_) + 1] = x
          /\ Len(tasks_) + 1 \notin DOMAIN tasks_
      BY <2>0, <3>1 DEF PoolTypeOK
    <3> QED
      BY <3>1, <3>2, <3>3 DEF EachTaskOnce
  <2>2. ASSUME NEW w \in Threads, Take(w)
        PROVE  EachTaskOnce'
    <3>1. /\ tasks_' = tasks_
          /\ Len(tasks_) \in DOMAIN tasks_
          /\ task' = [task EXCEPT ![w] = tasks_[Len(tasks_)]]
      BY <2>0, <2>2, FrontLast DEF Take, Goto, PoolTypeOK, TakesATask
    <3>2. pc'[w] = "pop" /\ \A v \in Threads \ {w} : pc[v] # "pop"
      BY <2>0, <2>2 DEF Take, Goto, PoolTypeOK, InLock
    <3>3. /\ task'[w] = tasks_[Len(tasks_)]
          /\ \A v \in Threads \ {w} : task'[v] = task[v]
      BY <2>0, <3>1 DEF PoolTypeOK
    <3>4. \A v \in Threads \ {w}, i \in DOMAIN tasks_ : tasks_[i] # task[v]
      BY <3>2 DEF EachTaskOnce
    <3> QED
      BY <3>1, <3>2, <3>3, <3>4 DEF EachTaskOnce
  <2>3. ASSUME NEW w \in Threads, PopBack(w)
        PROVE  EachTaskOnce'
    <3>1. /\ task' = task
          /\ \A i \in DOMAIN tasks_' :
               i \in DOMAIN tasks_ /\ i # Len(tasks_) /\ tasks_'[i] = tasks_[i]
      BY <2>0, <2>3, FrontLast DEF PopBack, Goto, PoolTypeOK, TakesATask
    <3>2. \A v \in Threads, i \in DOMAIN tasks_' : tasks_'[i] # task'[v]
      BY <3>1 DEF EachTaskOnce
    <3> QED
      BY <3>1, <3>2 DEF EachTaskOnce
  <2>4. ASSUME NEW w \in Threads, Run(w)
        PROVE  EachTaskOnce'
    <3>1. /\ tasks_' = tasks_
          /\ task' = [task EXCEPT ![w] = Nobody]
          /\ \A v \in Threads \ {w} : pc'[v] = pc[v]
          /\ \A i \in DOMAIN tasks_ : tasks_[i] # Nobody
      BY <2>0, <2>4 DEF Run, Goto, PoolTypeOK
    <3> QED
      BY <2>0, <3>1 DEF EachTaskOnce, PoolTypeOK
  <2>5. ASSUME UNCHANGED <<tasks_, task>>, \A v \in Threads : pc[v] = "pop" => pc'[v] = "pop"
        PROVE  EachTaskOnce'
    BY <2>5 DEF EachTaskOnce
  <2>6. ASSUME NEW w \in Threads,
               \/ TestRunning(w) \/ Lock(w) \/ Look(w) \/ Sleep(w)
               \/ WakeSpuriously(w) \/ Leave(w)
        PROVE  EachTaskOnce'
    <3>1. UNCHANGED <<tasks_, task>> /\ \A v \in Threads : pc[v] = "pop" => pc'[v] = "pop"
      BY <2>0, <2>6 DEF TestRunning, Lock, Look, Sleep, WakeSpuriously, Leave, Goto, PoolTypeOK
    <3> QED
      BY <2>5, <3>1
  <2>7. CASE StopRunning \/ NotifyAll \/ JoinAll \/ UNCHANGED poolVars
    <3>1. UNCHANGED <<tasks_, task>> /\ \A v \in Threads : pc[v] = "pop" => pc'[v] = "pop"
      BY <2>7 DEF StopRunning, NotifyAll, JoinAll, poolVars, Asleep
    <3> QED
      BY <2>5, <3>1
  <2> QED
    BY <2>1, <2>2, <2>3, <2>4, <2>6, <2>7 DEF PoolNext, Worker
<1> QED
  BY <1>1, <1>2, PoolInvariant, PTL DEF PoolSpec

-----------------------------------------------------------------------------
(* Counting workers is possible: there are finitely many.                  *)
LEMMA SeekingIsFinite ==
  /\ IsFiniteSet(Seeking)
  /\ Cardinality(Seeking) \in Nat
BY PoolAssumption, FS_Subset, FS_CardinalityType DEF PoolAssumption, Seeking

(* A step after which as many workers seek, and the vector and the         *)
(* sleepers are no more than before.                                       *)
LEMMA NoneLeaves ==
  ASSUME PoolTypeOK, WorkConserved, running_, tasks_' = tasks_,
         Asleep' \subseteq Asleep, Seeking \subseteq Seeking'
  PROVE  WorkConserved'
<1>1. IsFiniteSet(Seeking')
  BY PoolAssumption, FS_Subset DEF PoolAssumption, Seeking
<1>2. Cardinality(Seeking) <= Cardinality(Seeking')
  BY <1>1, FS_Subset
<1>3. Cardinality(Seeking) \in Nat /\ Cardinality(Seeking') \in Nat /\ Len(tasks_) \in Nat
  BY <1>1, SeekingIsFinite, FS_CardinalityType DEF PoolTypeOK
<1> QED
  BY <1>2, <1>3 DEF WorkConserved

(* While the pool runs, each task in the vector has a worker on its way if *)
(* any worker sleeps: Put wakes a sleeper for the task it adds, a worker   *)
(* that takes a task leaves the seekers with it, and one that falls asleep *)
(* leaves an empty vector behind.                                          *)
THEOREM TasksHaveWorkers == PoolSpec => []WorkConserved
<1> USE PoolAssumption DEF PoolAssumption
<1>1. PoolInit => WorkConserved
  BY DEF PoolInit, WorkConserved, Asleep
<1>2. PoolInv /\ PoolInv' /\ WorkConserved /\ [PoolNext]_poolVars => WorkConserved'
  <2> SUFFICES ASSUME PoolInv, PoolInv', WorkConserved, [PoolNext]_poolVars, running_'
               PROVE  WorkConserved'
    BY DEF WorkConserved
  <2>0. PoolTypeOK /\ TakesATask /\ SleepersSawNone /\ PoolTypeOK'
    BY DEF PoolInv
  <2>1. running_ /\ stop = "none"
    BY <2>0 DEF PoolNext, Put, Worker, TestRunning, Lock, Look, Sleep, WakeSpuriously, Leave,
                Take, PopBack, Run, StopRunning, NotifyAll, JoinAll, stopping, poolVars, PoolTypeOK
  <2>2. ASSUME NEW x \in Tasks, Put(x)
        PROVE  WorkConserved'
    <3>1. CASE Asleep = {}
      <4>1. Asleep' = {}
        BY <2>2, <3>1 DEF Put, Asleep
      <4> QED
        BY <4>1 DEF WorkConserved
    <3>2. CASE Asleep # {}
      <4>1. PICK w \in Asleep : pc' = [pc EXCEPT ![w] = "relock"]
        BY <2>2, <3>2 DEF Put
      <4>2. Seeking' = Seeking \union {w} /\ w \notin Seeking
        BY <2>0, <4>1 DEF Seeking, Asleep, PoolTypeOK
      <4>3. Cardinality(Seeking') = Cardinality(Seeking) + 1
        BY <4>2, SeekingIsFinite, FS_AddElement
      <4>4. Len(tasks_') = Len(tasks_) + 1 /\ Len(tasks_) \in Nat
        BY <2>0, <2>2 DEF Put, PoolTypeOK
      <4> QED
        BY <2>1, <3>2, <4>3, <4>4, SeekingIsFinite DEF WorkConserved
    <3> QED
      BY <3>1, <3>2
  <2>3. ASSUME NEW w \in Threads,
               TestRunning(w) \/ Lock(w) \/ WakeSpuriously(w) \/ Take(w) \/ Run(w)
        PROVE  WorkConserved'
    <3>1. tasks_' = tasks_
      BY <2>3 DEF TestRunning, Lock, WakeSpuriously, Take, Run
    <3>2. Asleep' \subseteq Asleep /\ Seeking \subseteq Seeking'
      BY <2>0, <2>1, <2>3
         DEF TestRunning, Lock, WakeSpuriously, Take, Run, Goto, Asleep, Seeking, PoolTypeOK
    <3> QED
      BY <2>0, <2>1, <3>1, <3>2, NoneLeaves
  <2>4. ASSUME NEW w \in Threads, Look(w)
        PROVE  WorkConserved'
    <3>1. CASE tasks_ = << >>
      <4>1. Len(tasks_') = 0
        BY <2>4, <3>1 DEF Look
      <4>2. Cardinality(Seeking') \in Nat
        BY FS_Subset, FS_CardinalityType DEF Seeking
      <4> QED
        BY <4>1, <4>2 DEF WorkConserved
    <3>2. CASE tasks_ # << >>
      <4>1. tasks_' = tasks_ /\ Asleep' \subseteq Asleep /\ Seeking \subseteq Seeking'
        BY <2>0, <2>4, <3>2 DEF Look, Goto, Asleep, Seeking, PoolTypeOK
      <4> QED
        BY <2>0, <2>1, <4>1, NoneLeaves
    <3> QED
      BY <3>1, <3>2
  <2>5. ASSUME NEW w \in Threads, Sleep(w)
        PROVE  WorkConserved'
    <3>1. Len(tasks_') = 0
      BY <2>0, <2>5 DEF Sleep, Goto, SleepersSawNone
    <3>2. Cardinality(Seeking') \in Nat
      BY FS_Subset, FS_CardinalityType DEF Seeking
    <3> QED
      BY <3>1, <3>2 DEF WorkConserved
  <2>6. ASSUME NEW w \in Threads, PopBack(w)
        PROVE  WorkConserved'
    <3>1. Len(tasks_') = Len(tasks_) - 1 /\ Len(tasks_) \in Nat
      BY <2>0, <2>6, FrontLast DEF PopBack, Goto, PoolTypeOK, TakesATask
    <3>2. Seeking' = Seeking \ {w} /\ w \in Seeking /\ Asleep' = Asleep
      BY <2>0, <2>6 DEF PopBack, Goto, Seeking, Asleep, PoolTypeOK
    <3>3. Cardinality(Seeking') = Cardinality(Seeking) - 1
      BY <3>2, SeekingIsFinite, FS_RemoveElement
    <3> QED
      BY <2>1, <3>1, <3>2, <3>3, SeekingIsFinite DEF WorkConserved
  <2>7. CASE UNCHANGED poolVars
    BY <2>7 DEF poolVars, WorkConserved, Asleep, Seeking
  <2>8. ~StopRunning /\ ~NotifyAll /\ ~JoinAll /\ \A w \in Threads : ~Leave(w)
    BY <2>1 DEF StopRunning, NotifyAll, JoinAll, Leave
  <2> QED
    BY <2>2, <2>3, <2>4, <2>5, <2>6, <2>7, <2>8 DEF PoolNext, Worker
<1> QED
  BY <1>1, <1>2, PoolInvariant, PTL DEF PoolSpec

=============================================================================
