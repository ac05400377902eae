----------------------------- MODULE ThreadPool ------------------------------
(***************************************************************************)
(* mine_thread::ThreadPool: worker threads that take tasks from the back   *)
(* of a vector, a condition variable they sleep on while it is empty, and  *)
(* Stop, which ends them.  lock_ guards tasks_; running_ is a plain bool   *)
(* that Stop writes and the workers read without a common lock: a read     *)
(* returns its value at that moment.                                       *)
(*                                                                         *)
(* Any thread puts tasks, one task after another for ever: a task that has *)
(* run may be put again.  One thread calls Stop (the destructor).          *)
(***************************************************************************)
EXTENDS Naturals, Sequences, SequencesExt, FiniteSets

CONSTANTS
  Threads,  \* the worker threads, threads_
  Tasks,    \* identities of tasks
  Nobody    \* no holder of lock_, no task

ASSUME PoolAssumption ==
  /\ IsFiniteSet(Threads)
  /\ Nobody \notin Threads /\ Nobody \notin Tasks

InLock == {"look", "sleep", "check", "pop"}
PCs == InLock \union {"test", "lock", "asleep", "relock", "run", "done"}

VARIABLES
  tasks_,
  running_,
  lock_,   \* the thread that holds it, or Nobody
  pc,      \* where each worker is in ThreadFunc
  task,    \* the local variable of that name
  stop,    \* how far Stop is
  missed   \* history: workers that were about to sleep at notify_all

poolVars == <<tasks_, running_, lock_, pc, task, stop, missed>>
stopping == <<running_, stop, missed>>

PoolInit ==
  /\ tasks_ = << >>
  /\ running_ = TRUE
  /\ lock_ = Nobody
  /\ pc = [w \in Threads |-> "test"]
  /\ task = [w \in Threads |-> Nobody]
  /\ stop = "none"
  /\ missed = {}

Goto(w, from, to) == pc[w] = from /\ pc' = [pc EXCEPT ![w] = to]

Asleep == {w \in Threads : pc[w] = "asleep"}

Idle(x) == ~Contains(tasks_, x) /\ \A w \in Threads : task[w] # x

(* Mutant: Put does not notify.                                            *)
PutSilently(x) ==
  /\ lock_ = Nobody /\ stop # "returned" /\ Idle(x)
  /\ tasks_' = Append(tasks_, x)
  /\ UNCHANGED <<pc, lock_, task, stopping>>

(* Put holds lock_ while it appends the task and notifies one worker that  *)
(* sleeps, if there is one; it waits for nothing in between.               *)
Put(x) ==
  /\ lock_ = Nobody /\ stop # "returned" /\ Idle(x)
  /\ tasks_' = Append(tasks_, x)
  /\ IF Asleep = {} THEN UNCHANGED pc
     ELSE \E w \in Asleep : pc' = [pc EXCEPT ![w] = "relock"]
  /\ UNCHANGED <<lock_, task, stopping>>

(* while (running_)                                                        *)
TestRunning(w) ==
  /\ Goto(w, "test", IF running_ THEN "lock" ELSE "done")
  /\ UNCHANGED <<tasks_, lock_, task, stopping>>

(* Mutant: if (tasks_.empty() && running_) where the code has while.       *)
LockOnce(w) ==
  /\ lock_ = Nobody
  /\ Goto(w, "lock", "look") \/ Goto(w, "relock", "check")
  /\ lock_' = w
  /\ UNCHANGED <<tasks_, task, stopping>>

(* The lock is taken; or taken again, by a worker that was woken.          *)
Lock(w) ==
  /\ lock_ = Nobody
  /\ Goto(w, "lock", "look") \/ Goto(w, "relock", "look")
  /\ lock_' = w
  /\ UNCHANGED <<tasks_, task, stopping>>

(* while (tasks_.empty() && running_)                                      *)
Look(w) ==
  /\ Goto(w, "look", IF tasks_ = << >> /\ running_ THEN "sleep" ELSE "check")
  /\ UNCHANGED <<tasks_, lock_, task, stopping>>

(* cond_.wait(lock) releases the lock and sleeps in one step.              *)
Sleep(w) ==
  /\ Goto(w, "sleep", "asleep")
  /\ lock_' = Nobody
  /\ UNCHANGED <<tasks_, task, stopping>>

WakeSpuriously(w) ==
  /\ Goto(w, "asleep", "relock")
  /\ UNCHANGED <<tasks_, lock_, task, stopping>>

(* if (!running_) return                                                   *)
Leave(w) ==
  /\ ~running_
  /\ Goto(w, "check", "done")
  /\ lock_' = Nobody
  /\ UNCHANGED <<tasks_, task, stopping>>

(* Mutant: the lock is released before the task is removed.                *)
TakeUnlocked(w) ==
  /\ running_
  /\ Goto(w, "check", "pop")
  /\ task' = [task EXCEPT ![w] = Last(tasks_)]
  /\ lock_' = Nobody
  /\ UNCHANGED <<tasks_, stopping>>

(* task = std::move(tasks_.back())                                         *)
Take(w) ==
  /\ running_
  /\ Goto(w, "check", "pop")
  /\ task' = [task EXCEPT ![w] = Last(tasks_)]
  /\ UNCHANGED <<tasks_, lock_, stopping>>

(* tasks_.pop_back(), and the end of the lock.                             *)
PopBack(w) ==
  /\ Goto(w, "pop", "run")
  /\ tasks_' = Front(tasks_)
  /\ lock_' = Nobody
  /\ UNCHANGED <<task, stopping>>

(* task() returns.                                                         *)
Run(w) ==
  /\ Goto(w, "run", "test")
  /\ task' = [task EXCEPT ![w] = Nobody]
  /\ UNCHANGED <<tasks_, lock_, stopping>>

-----------------------------------------------------------------------------
(* Stop: running_ = false, without the lock.                               *)
StopRunning ==
  /\ stop = "none"
  /\ running_' = FALSE
  /\ stop' = "notify"
  /\ UNCHANGED <<tasks_, lock_, pc, task, missed>>

AboutToSleep == {w \in Threads : pc[w] = "sleep"}

(* Mutant: notify_one.                                                     *)
NotifyOne ==
  /\ stop = "notify"
  /\ IF Asleep = {} THEN UNCHANGED pc
     ELSE \E w \in Asleep : pc' = [pc EXCEPT ![w] = "relock"]
  /\ missed' = AboutToSleep
  /\ stop' = "join"
  /\ UNCHANGED <<tasks_, running_, lock_, task>>

(* cond_.notify_all()                                                      *)
NotifyAll ==
  /\ stop = "notify"
  /\ pc' = [w \in Threads |-> IF w \in Asleep THEN "relock" ELSE pc[w]]
  /\ missed' = AboutToSleep
  /\ stop' = "join"
  /\ UNCHANGED <<tasks_, running_, lock_, task>>

(* Each thread is joined, in whatever order they end.                      *)
JoinAll ==
  /\ stop = "join"
  /\ \A w \in Threads : pc[w] = "done"
  /\ stop' = "returned"
  /\ UNCHANGED <<tasks_, running_, lock_, pc, task, missed>>

Worker(w) ==
  \/ TestRunning(w) \/ Lock(w) \/ Look(w) \/ Sleep(w)
  \/ Leave(w) \/ Take(w) \/ PopBack(w) \/ Run(w)

PoolNext ==
  \/ \E x \in Tasks : Put(x)
  \/ \E w \in Threads : Worker(w) \/ WakeSpuriously(w)
  \/ StopRunning \/ NotifyAll \/ JoinAll

PoolSpec == PoolInit /\ [][PoolNext]_poolVars

(* Threads run, tasks return, and a lock that is released again and again  *)
(* is obtained.  Nobody need put a task or call Stop, and no thread need   *)
(* wake spuriously.                                                        *)
PoolFairness ==
  /\ \A w \in Threads : SF_poolVars(Worker(w))
  /\ WF_poolVars(NotifyAll \/ JoinAll)

-----------------------------------------------------------------------------
(* Every variable has its type, lock_ is held by exactly the worker that   *)
(* is between lock and unlock, and workers hold a task from taking it to   *)
(* its end.                                                                *)
PoolTypeOK ==
  /\ tasks_ \in Seq(Tasks)
  /\ running_ \in BOOLEAN
  /\ lock_ \in Threads \union {Nobody}
  /\ pc \in [Threads -> PCs]
  /\ task \in [Threads -> Tasks \union {Nobody}]
  /\ stop \in {"none", "notify", "join", "returned"}
  /\ running_ <=> stop = "none"
  /\ missed \subseteq Threads
  /\ \A w \in Threads : /\ lock_ = w <=> pc[w] \in InLock
                        /\ task[w] # Nobody <=> pc[w] \in {"pop", "run"}

(* No worker takes the back of an empty vector, though a worker that was   *)
(* woken for a task may find that another took it, and though running_     *)
(* changes between the loop that looks and the test after it.              *)
TakesATask ==
  \A w \in Threads :
    (pc[w] = "check" /\ running_) \/ pc[w] = "pop" => tasks_ # << >>

(* A task that was put once is run once: two workers never hold the same,  *)
(* and none is held by a worker and left in the vector.                    *)
EachTaskOnce ==
  /\ \A v, w \in Threads : task[v] = task[w] /\ task[v] # Nobody => v = w
  /\ \A i, j \in DOMAIN tasks_ : tasks_[i] = tasks_[j] => i = j
  /\ \A w \in Threads, i \in DOMAIN tasks_ :
       tasks_[i] = task[w] => pc[w] = "pop" /\ i = Len(tasks_)

(* Workers that will look at the vector before they sleep.                 *)
Seeking ==
  {w \in Threads : pc[w] \in {"test", "lock", "look", "relock", "check", "pop"}}

(* While the pool runs, no task waits for a worker that is asleep: if any  *)
(* sleeps, each task in the vector has a worker of its own on its way,     *)
(* although a notification may wake a worker whose task another one takes. *)
WorkConserved ==
  running_ /\ Asleep # {} => Len(tasks_) <= Cardinality(Seeking)

(* Stop returns, unless its notification met a worker between its look at  *)
(* running_ and its sleep.                                                 *)
StopReturns == stop = "notify" ~> stop = "returned" \/ missed # {}

=============================================================================
