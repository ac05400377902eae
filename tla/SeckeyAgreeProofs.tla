-------------------------- MODULE SeckeyAgreeProofs --------------------------
(***************************************************************************)
(* Proofs about SeckeyAgree for any number of pool threads, requests,      *)
(* clients and keys, and with or without two agreements of one client at   *)
(* a time.                                                                 *)
(***************************************************************************)
EXTENDS SeckeyAgree, TLAPS

(* Each variable keeps its type, an ofstream is attached only between the  *)
(* opening and the closing of a key file, and no handler survives its      *)
(* process.                                                                *)
THEOREM TypeCorrect == Spec => []TypeOK
<1>1. Init => TypeOK
  <2>1. << >> \in Seq(Requests)
    OBVIOUS
  <2>2. 0 \in 0 .. MaxRestarts
    BY ConstantsAssumption DEF ConstantsAssumption
  <2> QED
    BY <2>1, <2>2 DEF Init, TypeOK, Stages, PCs
<1>2. TypeOK /\ [Next]_vars => TypeOK'
  <2> SUFFICES ASSUME TypeOK, [Next]_vars
               PROVE  TypeOK'
    OBVIOUS
  <2> USE ConstantsAssumption DEF ConstantsAssumption, TypeOK, At, Goto, process, PCs, Stages
  <2>1. ASSUME NEW r \in Requests, OnMessage(r)
        PROVE  TypeOK'
    BY <2>1 DEF OnMessage
  <2>2. ASSUME Terminate
        PROVE  TypeOK'
    <3>1. \A w \in Workers : InDoubt(w) => ClientOf(w) \in Clients
      BY DEF InDoubt, ClientOf, Message
    <3>2. interrupted' \subseteq Clients
      BY <2>2, <3>1 DEF Terminate
    <3>3. jobs' \in Seq(Requests)
      BY <2>2 DEF Terminate
    <3>4. stage' \in [Requests -> Stages]
      BY <2>2 DEF Terminate
    <3>5. restarts' = restarts /\ restarts' \in 0 .. MaxRestarts
      BY <2>2 DEF Terminate
    <3> QED
      BY <2>2, <3>2, <3>3, <3>4, <3>5, Zenon DEF Terminate
  <2>3. CASE Kill
    BY <2>2, <2>3 DEF Kill
  <2>4. CASE Restart
    BY <2>4 DEF Restart
  <2>5. ASSUME NEW w \in Workers, PoolThread(w)
        PROVE  TypeOK'
    <3>0. pc[w] # "idle" => ClientOf(w) \in Clients /\ msg[job[w]].key \in Keys
      BY DEF ClientOf, Message
    <3>1. CASE Work(w)
      <4>1. Head(jobs) \in Requests /\ Tail(jobs) \in Seq(Requests)
        BY <3>1 DEF Work
      <4> QED
        BY <3>1, <4>1 DEF Work
    <3>2. CASE ReturnSilently(w)
      BY <3>2 DEF ReturnSilently, Finish
    <3>3. CASE CheckExists(w)
      BY <3>3 DEF CheckExists
    <3>4. CASE OpenFile(w)
      BY <3>4 DEF OpenFile
    <3>5. CASE CloseFile(w)
      BY <3>0, <3>5 DEF CloseFile
    <3>6. CASE CheckSignPasses(w)
      BY <3>6 DEF CheckSignPasses
    <3>7. CASE CheckSignFails(w)
      BY <3>7 DEF CheckSignFails
    <3>8. CASE CheckSignThrows(w) \/ LogThrows(w, "refuse")
               \/ LogThrows(w, "reject") \/ EncryptThrows(w)
      BY <2>2, <3>8 DEF CheckSignThrows, LogThrows, EncryptThrows
    <3>9. ASSUME NEW from, NEW to \in PCs, LogRejection(w, from, to),
                 from \notin {"idle", "close"}
          PROVE  TypeOK'
      <4>1. attached[w] = FALSE
        BY <3>9 DEF LogRejection
      <4> QED
        BY <3>9, <4>1 DEF LogRejection
    <3>10. CASE RemoveFile(w)
      BY <3>10 DEF RemoveFile
    <3>11. CASE SendFailed(w)
      BY <3>11 DEF SendFailed, Finish
    <3>12. CASE Encrypt(w)
      BY <3>12 DEF Encrypt
    <3>13. CASE SendAgreed(w)
      BY <3>13 DEF SendAgreed, Finish
    <3> QED
      BY <2>5, <3>1, <3>2, <3>3, <3>4, <3>5, <3>6, <3>7, <3>8, <3>9, <3>10,
         <3>11, <3>12, <3>13 DEF PoolThread, Seckey
  <2>6. CASE UNCHANGED vars
    BY <2>6 DEF vars
  <2> QED
    BY <2>1, <2>3, <2>4, <2>5, <2>6 DEF Next
<1> QED
  BY <1>1, <1>2, PTL DEF Spec

-----------------------------------------------------------------------------
(* A step of a thread that is not at work on a key file, and touches none,  *)
(* leaves FileInv as it is: the other threads still witness it.            *)
LEMMA QuietStep ==
  ASSUME FileInv, NEW w \in Workers, ~InDoubt(w),
         msg' = msg, file' = file, verified' = verified,
         interrupted' = interrupted,
         \A v \in Workers \ {w} : /\ pc'[v] = pc[v] /\ job'[v] = job[v]
                                  /\ attached'[v] = attached[v]
  PROVE  FileInv'
BY DEF FileInv, EmptyIsBeingWritten, KeyIsBeingDecided, VerifiedKey, ClientOf,
       InDoubt

(* Why a crash is harmless to a client that it does not catch with its file *)
(* in doubt: the file is then absent or holds a verified key already.      *)
LEMMA CrashStep == TypeOK /\ FileInv /\ Terminate => FileInv'
<1> SUFFICES ASSUME TypeOK, FileInv, Terminate,
                    NEW c \in Clients \ interrupted'
             PROVE  EmptyIsBeingWritten(c)' /\ KeyIsBeingDecided(c)'
  BY DEF FileInv
<1>1. c \notin interrupted /\ \A w \in Workers : InDoubt(w) => ClientOf(w) # c
  BY DEF Terminate
<1>2. EmptyIsBeingWritten(c) /\ KeyIsBeingDecided(c)
  BY <1>1 DEF FileInv
<1>3. file[c] # Empty /\ (file[c] \in Keys => VerifiedKey(c, file[c]))
  BY <1>1, <1>2 DEF EmptyIsBeingWritten, KeyIsBeingDecided, InDoubt
<1>4. file' = file /\ msg' = msg /\ verified' = verified
  BY DEF Terminate
<1> QED
  BY <1>3, <1>4 DEF EmptyIsBeingWritten, KeyIsBeingDecided, VerifiedKey

(* FileInv holds on: a handler that empties a file will write it, one that *)
(* writes it will check it, and one that rejects it will remove it.        *)
LEMMA FileStep == TypeOK /\ FileInv /\ [Next]_vars => FileInv'
<1> SUFFICES ASSUME TypeOK, FileInv, [Next]_vars
             PROVE  FileInv'
  OBVIOUS
<1>1. CASE UNCHANGED vars
  BY <1>1 DEF vars, FileInv, EmptyIsBeingWritten, KeyIsBeingDecided,
              VerifiedKey, ClientOf
<1>2. ASSUME NEW r \in Requests, OnMessage(r)
      PROVE  FileInv'
  BY <1>2 DEF OnMessage, process, FileInv, EmptyIsBeingWritten,
              KeyIsBeingDecided, VerifiedKey, ClientOf
<1>3. CASE Kill
  BY <1>3, CrashStep DEF Kill
<1>4. CASE Restart
  BY <1>4 DEF Restart, FileInv, EmptyIsBeingWritten, KeyIsBeingDecided,
              VerifiedKey, ClientOf
<1>5. ASSUME NEW w \in Workers, PoolThread(w)
      PROVE  FileInv'
  <2> DEFINE Quiet ==
        \/ Work(w) \/ ReturnSilently(w) \/ CheckExists(w) \/ Encrypt(w)
        \/ LogRejection(w, "refuse", "fail") \/ SendFailed(w) \/ SendAgreed(w)
  <2>0. pc \in [Workers -> PCs] /\ attached \in [Workers -> BOOLEAN]
        /\ DOMAIN job = Workers /\ DOMAIN file = Clients
    BY DEF TypeOK
  <2>1. CASE Quiet
    <3>1. ~InDoubt(w)
      BY <2>1 DEF InDoubt, At, Work, ReturnSilently, CheckExists, Encrypt,
                  LogRejection, SendFailed, SendAgreed
    <3>2. msg' = msg /\ file' = file /\ verified' = verified
          /\ interrupted' = interrupted
      BY <2>1 DEF Work, ReturnSilently, CheckExists, Encrypt, LogRejection,
                  SendFailed, SendAgreed, process
    <3>3. \A v \in Workers \ {w} : /\ pc'[v] = pc[v] /\ job'[v] = job[v]
                                   /\ attached'[v] = attached[v]
      BY <2>0, <2>1 DEF Goto, Finish, Work, ReturnSilently, CheckExists, Encrypt,
                  LogRejection, SendFailed, SendAgreed
    <3> QED
      BY <3>1, <3>2, <3>3, QuietStep
  <2>2. ASSUME Terminate PROVE FileInv'
    BY <2>2, CrashStep
  <2>3. CASE CheckSignThrows(w) \/ LogThrows(w, "refuse")
             \/ LogThrows(w, "reject") \/ EncryptThrows(w)
    BY <2>2, <2>3 DEF CheckSignThrows, LogThrows, EncryptThrows
  <2> SUFFICES ASSUME NEW c \in Clients \ interrupted',
                      \/ OpenFile(w) \/ CloseFile(w) \/ CheckSignPasses(w)
                      \/ CheckSignFails(w) \/ RemoveFile(w)
                      \/ LogRejection(w, "reject", "remove")
               PROVE  EmptyIsBeingWritten(c)' /\ KeyIsBeingDecided(c)'
    BY <1>5, <2>1, <2>3 DEF PoolThread, Seckey, FileInv
  <2>4. c \in Clients /\ interrupted' = interrupted
        /\ EmptyIsBeingWritten(c) /\ KeyIsBeingDecided(c)
    BY DEF OpenFile, CloseFile, CheckSignPasses, CheckSignFails, RemoveFile,
           LogRejection, process, FileInv
  <2> USE DEF EmptyIsBeingWritten, KeyIsBeingDecided, VerifiedKey, ClientOf,
              At, Goto
  <2>5. CASE OpenFile(w)
    <3>1. file'[ClientOf(w)] = Empty /\ Empty \notin Keys
      BY <2>5, <2>0, <2>4, ConstantsAssumption DEF OpenFile, ConstantsAssumption, TypeOK, Message
    <3> QED
      BY <2>0, <2>4, <2>5, <3>1 DEF OpenFile
  <2>6. CASE CloseFile(w)
    <3>1. msg[job[w]].key \in Keys /\ Empty \notin Keys
      BY <2>6, ConstantsAssumption DEF CloseFile, ConstantsAssumption, TypeOK, Message
    <3> QED
      BY <2>0, <2>4, <2>6, <3>1 DEF CloseFile
  <2>7. CASE CheckSignPasses(w)
    BY <2>0, <2>4, <2>7 DEF CheckSignPasses, SignIsGood
  <2>8. CASE CheckSignFails(w)
    BY <2>0, <2>4, <2>8 DEF CheckSignFails
  <2>9. CASE RemoveFile(w)
    <3>1. NoFile \notin Keys /\ NoFile # Empty
      BY ConstantsAssumption DEF ConstantsAssumption
    <3> QED
      BY <2>0, <2>4, <2>9, <3>1 DEF RemoveFile
  <2>10. CASE LogRejection(w, "reject", "remove")
    BY <2>0, <2>4, <2>10 DEF LogRejection
  <2> QED
    BY <2>5, <2>6, <2>7, <2>8, <2>9, <2>10
<1> QED
  BY <1>1, <1>2, <1>3, <1>4, <1>5 DEF Next

(* An empty key file has a handler that writes it, and a key that nobody   *)
(* has verified has a handler that will verify or remove it, unless a      *)
(* crash caught the file in between.                                       *)
THEOREM FilesDecided == Spec => []FileInv
<1>1. Init => FileInv
  BY ConstantsAssumption DEF ConstantsAssumption, Init, FileInv,
     EmptyIsBeingWritten, KeyIsBeingDecided
<1> QED
  BY <1>1, TypeCorrect, FileStep, PTL DEF Spec

(* Whatever handlers run at once, an unverified key never outlives the     *)
(* handlers that deal with it, unless a crash does.                        *)
THEOREM StoredKeys == Spec => []StoredKeyVerified
<1>1. TypeOK /\ FileInv => StoredKeyVerified
  BY DEF TypeOK, FileInv, StoredKeyVerified, EmptyIsBeingWritten,
         KeyIsBeingDecided, Settled, InDoubt
<1> QED
  BY <1>1, TypeCorrect, FilesDecided, PTL

-----------------------------------------------------------------------------
(* What one agreement at a time per client adds.  Each request is in the   *)
(* queue once or at one thread, and no two pending agreements name the     *)
(* same client, so no other handler touches the file of a handler at work. *)
Pending(r) == stage[r] \in {"posted", "working"}
IsAgreement(r) == msg[r].kind = "kSeckeyAgree"

JobsInv ==
  /\ \A i \in 1 .. Len(jobs) : stage[jobs[i]] = "posted"
  /\ \A i, j \in 1 .. Len(jobs) : jobs[i] = jobs[j] => i = j
  /\ \A w \in Workers : pc[w] # "idle" => stage[job[w]] = "working"
  /\ \A v, w \in Workers :
       pc[v] # "idle" /\ pc[w] # "idle" /\ job[v] = job[w] => v = w

OnePerClient ==
  \A q, r \in Requests :
    Pending(q) /\ Pending(r) /\ IsAgreement(q) /\ IsAgreement(r)
      /\ msg[q].client = msg[r].client => q = r

(* A handler that may still replace or remove its client's file works for  *)
(* a client that has no verified request, one that answers has a verified  *)
(* request, and the others' requests are not verified.                     *)
Deciding == {"open", "close", "check", "reject", "remove"}

HandlersInv ==
  \A w \in Workers :
    /\ pc[w] # "idle" => (pc[w] # "stub" <=> IsAgreement(job[w]))
    /\ pc[w] \in Deciding => \A r \in verified : msg[r].client # ClientOf(w)
    /\ pc[w] \in {"encrypt", "respond"} <=> pc[w] # "idle" /\ job[w] \in verified
    /\ pc[w] = "respond" => sealed[job[w]] = msg[job[w]].key

(* A key found good stays in its file, and an agreed request is one whose  *)
(* key was found good.                                                     *)
VerifiedInv ==
  /\ \A r \in verified : /\ file[msg[r].client] = msg[r].key
                         /\ stage[r] \notin {"unsent", "posted"}
  /\ \A r \in Requests :
       stage[r] = "agreed" => r \in verified /\ sealed[r] = msg[r].key

ServiceInv == JobsInv /\ OnePerClient /\ HandlersInv /\ VerifiedInv

(* Handlers at work on agreements have different clients and requests.     *)
LEMMA OthersApart ==
  ASSUME TypeOK, ServiceInv, NEW v \in Workers, NEW w \in Workers, v # w,
         pc[v] \notin {"idle", "stub"}, pc[w] \notin {"idle", "stub"}
  PROVE  job[v] # job[w] /\ ClientOf(v) # ClientOf(w)
<1>1. job[v] \in Requests /\ job[w] \in Requests
  BY DEF TypeOK
<1>2. job[v] # job[w] /\ Pending(job[v]) /\ Pending(job[w])
  BY DEF ServiceInv, JobsInv, Pending
<1>3. IsAgreement(job[v]) /\ IsAgreement(job[w])
  BY DEF ServiceInv, HandlersInv
<1> QED
  BY <1>1, <1>2, <1>3 DEF ServiceInv, OnePerClient, ClientOf

(* A step of a handler that keeps its request leaves the queue alone.      *)
LEMMA HandlerStep ==
  ASSUME TypeOK, ServiceInv, NEW w \in Workers, pc[w] # "idle",
         NEW p \in PCs \ {"idle"}, Goto(w, p), job' = job, jobs' = jobs,
         stage' = stage, msg' = msg
  PROVE  JobsInv' /\ OnePerClient'
<1>1. pc' \in [Workers -> PCs] /\ \A v \in Workers : pc'[v] # "idle" <=> pc[v] # "idle"
  BY DEF TypeOK, Goto
<1> QED
  BY <1>1 DEF ServiceInv, JobsInv, OnePerClient, Pending, IsAgreement

(* A handler that returns leaves the others and the queue alone.           *)
LEMMA FinishStep ==
  ASSUME TypeOK, ServiceInv, NEW w \in Workers, pc[w] # "idle",
         NEW s \in {"agreed", "failed", "silent"}, Finish(w, s), jobs' = jobs,
         msg' = msg
  PROVE  /\ JobsInv' /\ OnePerClient'
         /\ \A r \in Requests : stage'[r] = IF r = job[w] THEN s ELSE stage[r]
         /\ pc'[w] = "idle"
         /\ \A v \in Workers \ {w} : pc'[v] = pc[v] /\ job'[v] = job[v]
<1>1. /\ \A r \in Requests : stage'[r] = IF r = job[w] THEN s ELSE stage[r]
      /\ pc'[w] = "idle"
      /\ \A v \in Workers \ {w} : pc'[v] = pc[v] /\ job'[v] = job[v]
      /\ job[w] \in Requests /\ stage[job[w]] = "working"
  BY DEF TypeOK, Finish, Goto, ServiceInv, JobsInv
<1>2. \A i \in 1 .. Len(jobs) : jobs[i] \in Requests
  BY DEF TypeOK
<1>3. \A v \in Workers \ {w} : pc[v] # "idle" => job[v] # job[w] /\ job[v] \in Requests
  BY <1>1 DEF ServiceInv, JobsInv, TypeOK
<1>4. JobsInv'
  BY <1>1, <1>2, <1>3 DEF ServiceInv, JobsInv
<1>5. \A r \in Requests : Pending(r)' => Pending(r)
  BY <1>1 DEF Pending
<1> QED
  BY <1>1, <1>4, <1>5 DEF ServiceInv, OnePerClient, IsAgreement

(* The queue: a request enters it once, and one thread takes it.           *)
LEMMA QueueStep ==
  ASSUME Exclusive, TypeOK, ServiceInv, NEW r \in Requests, OnMessage(r)
  PROVE  ServiceInv'
<1>1. /\ stage[r] = "unsent" /\ stage' = [stage EXCEPT ![r] = "posted"]
      /\ jobs' = Append(jobs, r)
      /\ UNCHANGED <<msg, pc, job, file, sealed, verified>>
      /\ IsAgreement(r) => ~Outstanding(msg[r].client)
  BY DEF OnMessage, IsAgreement
<1>2. /\ \A q \in Requests : stage'[q] = IF q = r THEN "posted" ELSE stage[q]
      /\ \A i \in 1 .. Len(jobs) : jobs[i] \in Requests /\ jobs[i] # r
      /\ \A w \in Workers : pc[w] # "idle" => job[w] \in Requests /\ job[w] # r
      /\ verified \subseteq Requests
  BY <1>1 DEF TypeOK, ServiceInv, JobsInv
<1>3. JobsInv'
  <2>1. /\ Len(jobs') = Len(jobs) + 1 /\ Len(jobs) \in Nat /\ jobs'[Len(jobs) + 1] = r
        /\ \A i \in 1 .. Len(jobs) : jobs'[i] = jobs[i]
    BY <1>1 DEF TypeOK
  <2>2. \A i \in 1 .. Len(jobs') : i \in 1 .. Len(jobs) \/ i = Len(jobs) + 1
    BY <2>1
  <2> QED BY <1>1, <1>2, <2>1, <2>2 DEF ServiceInv, JobsInv
<1>4. OnePerClient'
  BY <1>1, <1>2 DEF ServiceInv, OnePerClient, Pending, IsAgreement, Outstanding
<1>5. HandlersInv'
  BY <1>1, <1>2 DEF ServiceInv, HandlersInv, IsAgreement, ClientOf
<1>6. VerifiedInv'
  BY <1>1, <1>2 DEF ServiceInv, VerifiedInv
<1> QED BY <1>3, <1>4, <1>5, <1>6 DEF ServiceInv

(* A pool thread takes the oldest request, which is not verified yet.      *)
LEMMA WorkStep ==
  ASSUME TypeOK, ServiceInv, NEW w \in Workers, Work(w)
  PROVE  ServiceInv'
<1>1. PICK r \in Requests :
        /\ r = Head(jobs) /\ jobs # << >> /\ jobs' = Tail(jobs) /\ pc[w] = "idle"
        /\ job' = [job EXCEPT ![w] = r]
        /\ stage' = [stage EXCEPT ![r] = "working"]
        /\ pc' = [pc EXCEPT ![w] = IF IsAgreement(r) THEN "exists" ELSE "stub"]
        /\ UNCHANGED <<msg, file, sealed, verified>>
  <2>1. Head(jobs) \in Requests
    BY DEF TypeOK, Work
  <2> QED BY <2>1 DEF Work, At, Goto, IsAgreement
<1>2. /\ Len(jobs) \in Nat \ {0} /\ Len(jobs') = Len(jobs) - 1
      /\ \A i \in 1 .. Len(jobs') : jobs'[i] = jobs[i + 1] /\ i + 1 \in 1 .. Len(jobs)
      /\ jobs[1] = r /\ 1 \in 1 .. Len(jobs)
      /\ \A i \in 1 .. Len(jobs) : jobs[i] \in Requests
  BY <1>1 DEF TypeOK
<1>3. /\ \A q \in Requests : stage'[q] = IF q = r THEN "working" ELSE stage[q]
      /\ \A v \in Workers \ {w} : pc'[v] = pc[v] /\ job'[v] = job[v]
      /\ job'[w] = r /\ pc'[w] = IF IsAgreement(r) THEN "exists" ELSE "stub"
      /\ stage[r] = "posted" /\ r \notin verified
      /\ \A v \in Workers : pc[v] # "idle" => job[v] # r /\ job[v] \in Requests
  <2>1. stage[r] = "posted"
    BY <1>2 DEF ServiceInv, JobsInv
  <2> QED BY <1>1, <2>1 DEF TypeOK, ServiceInv, JobsInv, VerifiedInv
<1>4. JobsInv'
  <2>1. \A i \in 1 .. Len(jobs') : stage[jobs'[i]] = "posted" /\ jobs'[i] # r /\ jobs'[i] \in Requests
    BY <1>2 DEF ServiceInv, JobsInv
  <2>2. \A i, j \in 1 .. Len(jobs') : jobs'[i] = jobs'[j] => i = j
    BY <1>2 DEF ServiceInv, JobsInv
  <2>3. \A v \in Workers : pc'[v] # "idle" => stage'[job'[v]] = "working"
    BY <1>3 DEF ServiceInv, JobsInv
  <2>4. \A u, v \in Workers :
          pc'[u] # "idle" /\ pc'[v] # "idle" /\ job'[u] = job'[v] => u = v
    BY <1>3 DEF ServiceInv, JobsInv
  <2> QED BY <1>3, <2>1, <2>2, <2>3, <2>4 DEF JobsInv
<1>5. OnePerClient'
  <2>1. \A q \in Requests : Pending(q)' <=> Pending(q)
    BY <1>3 DEF Pending
  <2> QED BY <1>1, <2>1 DEF ServiceInv, OnePerClient, IsAgreement
<1>6. HandlersInv'
  BY <1>1, <1>3 DEF ServiceInv, HandlersInv, Deciding, IsAgreement, ClientOf
<1>7. VerifiedInv'
  BY <1>1, <1>3 DEF ServiceInv, VerifiedInv, TypeOK
<1> QED BY <1>4, <1>5, <1>6, <1>7 DEF ServiceInv

(* An end of the process: nobody is at work, and files and verdicts stay.  *)
LEMMA TerminateStep ==
  ASSUME TypeOK, ServiceInv, Terminate
  PROVE  ServiceInv'
<1>1. /\ jobs' = << >> /\ Len(jobs') = 0 /\ \A w \in Workers : pc'[w] = "idle"
      /\ \A r \in Requests : stage'[r] = IF Pending(r) THEN "lost" ELSE stage[r]
      /\ UNCHANGED <<msg, file, sealed, verified>>
      /\ verified \subseteq Requests
  BY DEF Terminate, Pending, TypeOK
<1>2. JobsInv' /\ OnePerClient'
  BY <1>1 DEF JobsInv, OnePerClient, Pending
<1>3. HandlersInv'
  BY <1>1 DEF HandlersInv, Deciding
<1>4. VerifiedInv'
  BY <1>1 DEF ServiceInv, VerifiedInv, Pending
<1> QED BY <1>2, <1>3, <1>4 DEF ServiceInv

(* A step of a handler that neither touches a file nor verifies.           *)
LEMMA PlainStep ==
  ASSUME TypeOK, ServiceInv, NEW w \in Workers, NEW p \in PCs, Goto(w, p),
         job' = job, jobs' = jobs, stage' = stage, msg' = msg, file' = file,
         verified' = verified, sealed' = sealed,
         \/ pc[w] = "exists" /\ p = "refuse"
         \/ pc[w] = "check" /\ p = "reject"
         \/ pc[w] = "refuse" /\ p = "fail"
         \/ pc[w] = "reject" /\ p = "remove"
  PROVE  ServiceInv'
<1>1. pc[w] # "idle" /\ p # "idle"
  OBVIOUS
<1>2. pc'[w] = p /\ \A v \in Workers \ {w} : pc'[v] = pc[v]
  BY DEF Goto, TypeOK
<1>3. JobsInv' /\ OnePerClient'
  BY <1>1, HandlerStep
<1>4. HandlersInv'
  BY <1>1, <1>2 DEF ServiceInv, HandlersInv, Deciding, IsAgreement, ClientOf
<1>5. VerifiedInv'
  BY DEF ServiceInv, VerifiedInv
<1> QED BY <1>3, <1>4, <1>5 DEF ServiceInv

(* A step of a handler that changes the key file: its client has no        *)
(* verified request, so no verified key is touched.                        *)
LEMMA FileChangeStep ==
  ASSUME TypeOK, ServiceInv, NEW w \in Workers, NEW p \in PCs, Goto(w, p),
         job' = job, jobs' = jobs, stage' = stage, msg' = msg,
         verified' = verified, sealed' = sealed,
         \A c \in Clients \ {ClientOf(w)} : file'[c] = file[c],
         \/ pc[w] = "open" /\ p = "close"
         \/ pc[w] = "close" /\ p = "check"
         \/ pc[w] = "remove" /\ p = "fail"
  PROVE  ServiceInv'
<1>1. pc[w] # "idle" /\ p # "idle"
  OBVIOUS
<1>2. pc'[w] = p /\ \A v \in Workers \ {w} : pc'[v] = pc[v]
  BY DEF Goto, TypeOK
<1>3. \A r \in verified : msg[r].client \in Clients \ {ClientOf(w)}
  <2>1. \A r \in verified : msg[r].client \in Clients
    BY ConstantsAssumption DEF ConstantsAssumption, TypeOK, Message
  <2> QED BY <2>1 DEF ServiceInv, HandlersInv, Deciding
<1>4. JobsInv' /\ OnePerClient'
  BY <1>1, HandlerStep
<1>5. HandlersInv'
  BY <1>1, <1>2 DEF ServiceInv, HandlersInv, Deciding, IsAgreement, ClientOf
<1>6. VerifiedInv'
  BY <1>3 DEF ServiceInv, VerifiedInv
<1> QED BY <1>4, <1>5, <1>6 DEF ServiceInv

(* No file, no verified key: the handler may write one.                    *)
LEMMA OpensStep ==
  ASSUME TypeOK, ServiceInv, NEW w \in Workers, CheckExists(w),
         file[ClientOf(w)] = NoFile
  PROVE  ServiceInv'
<1>1. /\ pc[w] = "exists" /\ Goto(w, "open")
      /\ UNCHANGED <<msg, stage, jobs, job, file, sealed, verified>>
  BY DEF CheckExists, At
<1>2. pc'[w] = "open" /\ \A v \in Workers \ {w} : pc'[v] = pc[v]
  BY <1>1 DEF Goto, TypeOK
<1>3. \A r \in verified : msg[r].client # ClientOf(w)
  <2>1. \A r \in verified : msg[r].key # NoFile
    BY ConstantsAssumption DEF ConstantsAssumption, TypeOK, Message
  <2> QED BY <2>1 DEF ServiceInv, VerifiedInv
<1>4. JobsInv' /\ OnePerClient'
  BY <1>1, HandlerStep DEF PCs
<1>5. HandlersInv'
  BY <1>1, <1>2, <1>3 DEF ServiceInv, HandlersInv, Deciding, IsAgreement, ClientOf
<1>6. VerifiedInv'
  BY <1>1 DEF ServiceInv, VerifiedInv
<1> QED BY <1>4, <1>5, <1>6 DEF ServiceInv

(* The signature is good: the key that is in the file is the request's.    *)
LEMMA PassStep ==
  ASSUME TypeOK, ServiceInv, NEW w \in Workers, CheckSignPasses(w)
  PROVE  ServiceInv'
<1>1. /\ pc[w] = "check" /\ Goto(w, "encrypt")
      /\ UNCHANGED <<msg, stage, jobs, job, file, sealed>>
      /\ verified' = verified \union {job[w]}
      /\ file[ClientOf(w)] = msg[job[w]].key
  BY DEF CheckSignPasses, SignIsGood, At
<1>2. pc'[w] = "encrypt" /\ \A v \in Workers \ {w} : pc'[v] = pc[v]
  BY <1>1 DEF Goto, TypeOK
<1>3. stage[job[w]] = "working" /\ job[w] \in Requests
  BY <1>1 DEF ServiceInv, JobsInv, TypeOK
<1>4. JobsInv' /\ OnePerClient'
  BY <1>1, HandlerStep DEF PCs
<1>5. HandlersInv'
  <2> SUFFICES ASSUME NEW v \in Workers
               PROVE  /\ pc'[v] # "idle" => (pc'[v] # "stub" <=> IsAgreement(job[v]))
                      /\ pc'[v] \in Deciding => \A r \in verified' : msg[r].client # ClientOf(v)
                      /\ pc'[v] \in {"encrypt", "respond"}
                           <=> pc'[v] # "idle" /\ job[v] \in verified'
                      /\ pc'[v] = "respond" => sealed[job[v]] = msg[job[v]].key
    BY <1>1 DEF HandlersInv, IsAgreement, ClientOf
  <2>1. CASE v = w
    BY <1>1, <1>2, <2>1 DEF ServiceInv, HandlersInv, Deciding
  <2>2. CASE v # w
    <3>1. pc[v] # "idle" => job[v] # job[w]
      BY <1>1, <2>2 DEF ServiceInv, JobsInv
    <3>2. pc[v] \in Deciding => msg[job[w]].client # ClientOf(v)
      BY <1>1, <2>2, OthersApart DEF Deciding, ClientOf
    <3> QED BY <1>1, <1>2, <2>2, <3>1, <3>2 DEF ServiceInv, HandlersInv
  <2> QED BY <2>1, <2>2
<1>6. VerifiedInv'
  BY <1>1, <1>3 DEF ServiceInv, VerifiedInv, ClientOf
<1> QED BY <1>4, <1>5, <1>6 DEF ServiceInv

(* The AES key is encrypted for the key of the request.                    *)
LEMMA EncryptStep ==
  ASSUME TypeOK, ServiceInv, NEW w \in Workers, Encrypt(w)
  PROVE  ServiceInv'
<1>1. /\ pc[w] = "encrypt" /\ Goto(w, "respond")
      /\ UNCHANGED <<msg, stage, jobs, job, file, verified>>
      /\ sealed' = [sealed EXCEPT ![job[w]] = file[ClientOf(w)]]
  BY DEF Encrypt, At
<1>2. pc'[w] = "respond" /\ \A v \in Workers \ {w} : pc'[v] = pc[v]
  BY <1>1 DEF Goto, TypeOK
<1>3. job[w] \in verified /\ stage[job[w]] = "working" /\ job[w] \in Requests
  BY <1>1 DEF ServiceInv, HandlersInv, JobsInv, TypeOK
<1>4. /\ sealed'[job[w]] = msg[job[w]].key
      /\ \A r \in Requests \ {job[w]} : sealed'[r] = sealed[r]
  BY <1>1, <1>3 DEF ServiceInv, VerifiedInv, ClientOf, TypeOK
<1>5. JobsInv' /\ OnePerClient'
  BY <1>1, HandlerStep DEF PCs
<1>6. \A v \in Workers \ {w} : pc[v] # "idle" => job[v] \in Requests \ {job[w]}
  BY <1>1 DEF ServiceInv, JobsInv, TypeOK
<1>7. HandlersInv'
  BY <1>1, <1>2, <1>3, <1>4, <1>6
     DEF ServiceInv, HandlersInv, Deciding, IsAgreement, ClientOf
<1>8. VerifiedInv'
  BY <1>1, <1>3, <1>4 DEF ServiceInv, VerifiedInv
<1> QED BY <1>5, <1>7, <1>8 DEF ServiceInv

(* A handler ends, with the answer that its request deserves.              *)
LEMMA EndStep ==
  ASSUME TypeOK, ServiceInv, NEW w \in Workers,
         ReturnSilently(w) \/ SendFailed(w) \/ SendAgreed(w)
  PROVE  ServiceInv'
<1>1. PICK s \in {"agreed", "failed", "silent"} :
        /\ Finish(w, s) /\ pc[w] # "idle"
        /\ UNCHANGED <<msg, jobs, file, sealed, verified>>
        /\ s = "agreed" => pc[w] = "respond"
  BY DEF ReturnSilently, SendFailed, SendAgreed, At
<1>2. /\ JobsInv' /\ OnePerClient'
      /\ \A r \in Requests : stage'[r] = IF r = job[w] THEN s ELSE stage[r]
      /\ pc'[w] = "idle"
      /\ \A v \in Workers \ {w} : pc'[v] = pc[v] /\ job'[v] = job[v]
  BY <1>1, FinishStep
<1>3. HandlersInv'
  BY <1>1, <1>2 DEF ServiceInv, HandlersInv, Deciding, IsAgreement, ClientOf
<1>4. VerifiedInv'
  <2>1. s = "agreed" => job[w] \in verified /\ sealed[job[w]] = msg[job[w]].key
    BY <1>1 DEF ServiceInv, HandlersInv
  <2> QED BY <1>1, <1>2, <2>1 DEF ServiceInv, VerifiedInv, TypeOK
<1> QED BY <1>2, <1>3, <1>4 DEF ServiceInv

(* Every step keeps ServiceInv when a client has one agreement at a time.  *)
LEMMA ServiceStep ==
  ASSUME Exclusive, TypeOK, ServiceInv, [Next]_vars
  PROVE  ServiceInv'
<1>1. CASE UNCHANGED vars
  BY <1>1 DEF vars, ServiceInv, JobsInv, OnePerClient, HandlersInv, VerifiedInv,
              Pending, IsAgreement, ClientOf
<1>2. ASSUME NEW r \in Requests, OnMessage(r) PROVE ServiceInv'
  BY <1>2, QueueStep
<1>3. CASE Kill
  BY <1>3, TerminateStep DEF Kill
<1>4. CASE Restart
  BY <1>4 DEF Restart, ServiceInv, JobsInv, OnePerClient, HandlersInv,
              VerifiedInv, Pending, IsAgreement, ClientOf
<1>5. ASSUME NEW w \in Workers, PoolThread(w) PROVE ServiceInv'
  <2>1. CASE Work(w)
    BY <2>1, WorkStep
  <2>2. CASE ReturnSilently(w) \/ SendFailed(w) \/ SendAgreed(w)
    BY <2>2, EndStep
  <2>3. CASE CheckExists(w)
    <3>1. CASE file[ClientOf(w)] = NoFile
      BY <2>3, <3>1, OpensStep
    <3>2. CASE file[ClientOf(w)] # NoFile
      BY <2>3, <3>2, PlainStep DEF CheckExists, At, PCs
    <3> QED BY <3>1, <3>2
  <2>4. CASE OpenFile(w)
    BY <2>4, FileChangeStep DEF OpenFile, At, PCs, TypeOK
  <2>5. CASE CloseFile(w)
    BY <2>5, FileChangeStep DEF CloseFile, At, PCs, TypeOK
  <2>6. CASE CheckSignPasses(w)
    BY <2>6, PassStep
  <2>7. CASE CheckSignFails(w)
    BY <2>7, PlainStep DEF CheckSignFails, At, PCs
  <2>8. CASE CheckSignThrows(w) \/ LogThrows(w, "refuse")
             \/ LogThrows(w, "reject") \/ EncryptThrows(w)
    BY <2>8, TerminateStep DEF CheckSignThrows, LogThrows, EncryptThrows
  <2>9. CASE LogRejection(w, "refuse", "fail") \/ LogRejection(w, "reject", "remove")
    BY <2>9, PlainStep DEF LogRejection, At, PCs
  <2>10. CASE RemoveFile(w)
    BY <2>10, FileChangeStep DEF RemoveFile, At, PCs, TypeOK
  <2>11. CASE Encrypt(w)
    BY <2>11, EncryptStep
  <2> QED
    BY <1>5, <2>1, <2>2, <2>3, <2>4, <2>5, <2>6, <2>7, <2>8, <2>9, <2>10, <2>11
    DEF PoolThread, Seckey
<1> QED BY <1>1, <1>2, <1>3, <1>4, <1>5 DEF Next

(* The initial states: nobody is at work and nothing is verified.          *)
LEMMA ServiceInit == Init => ServiceInv
BY DEF Init, ServiceInv, JobsInv, OnePerClient, HandlersInv, VerifiedInv,
       Deciding, Pending

(* With one agreement at a time per client: an agreed request was answered *)
(* for its own key, which stays registered over all that follows.          *)
THEOREM AgreedStays ==
  ASSUME Exclusive
  PROVE  Spec => []AgreedIsRegistered
<1>1. TypeOK /\ ServiceInv /\ [Next]_vars => ServiceInv'
  BY ServiceStep
<1>2. ServiceInv => AgreedIsRegistered
  BY DEF ServiceInv, VerifiedInv, AgreedIsRegistered
<1> QED
  BY <1>1, <1>2, ServiceInit, TypeCorrect, PTL DEF Spec

-----------------------------------------------------------------------------
(* The variables of the registry, seen through those of the service.       *)
Undecided(r) == stage[r] \in {"unsent", "posted", "working"}

RequestMap ==
  [r \in Requests |->
    [client |-> msg[r].client,
     key |-> msg[r].key,
     genuine |-> /\ msg[r].kind = "kSeckeyAgree"
                 /\ msg[r].sign = "valid"
                 /\ msg[r].key \in GoodKeys]]
RegistryMap == [c \in Clients |-> IF VerifiedKey(c, file[c]) THEN file[c] ELSE Nil]
OutcomeMap == [r \in Requests |-> IF Undecided(r) THEN "pending" ELSE stage[r]]
SealedMap == [r \in Requests |-> IF stage[r] = "agreed" THEN sealed[r] ELSE Nil]

(* What the abstract actions say of the mapped variables.                  *)
LEMMA Mapping ==
  /\ \A r : Registry!Register(r) <=>
       /\ OutcomeMap[r] = "pending" /\ r \notin verified
       /\ RequestMap[r].genuine /\ RegistryMap[RequestMap[r].client] = Nil
       /\ RegistryMap' =
            [RegistryMap EXCEPT ![RequestMap[r].client] = RequestMap[r].key]
       /\ verified' = verified \union {r}
       /\ RequestMap' = RequestMap /\ OutcomeMap' = OutcomeMap /\ SealedMap' = SealedMap
  /\ \A r : Registry!Agree(r) <=>
       /\ OutcomeMap[r] = "pending" /\ r \in verified
       /\ OutcomeMap' = [OutcomeMap EXCEPT ![r] = "agreed"]
       /\ SealedMap' = [SealedMap EXCEPT ![r] = RegistryMap[RequestMap[r].client]]
       /\ RequestMap' = RequestMap /\ RegistryMap' = RegistryMap /\ verified' = verified
  /\ \A r : Registry!Decline(r) <=>
       /\ OutcomeMap[r] = "pending" /\ r \notin verified
       /\ OutcomeMap' = [OutcomeMap EXCEPT ![r] = "failed"]
       /\ RequestMap' = RequestMap /\ RegistryMap' = RegistryMap
       /\ verified' = verified /\ SealedMap' = SealedMap
  /\ \A r : Registry!Ignore(r) <=>
       /\ OutcomeMap[r] = "pending" /\ ~RequestMap[r].genuine
       /\ OutcomeMap' = [OutcomeMap EXCEPT ![r] = "silent"]
       /\ RequestMap' = RequestMap /\ RegistryMap' = RegistryMap
       /\ verified' = verified /\ SealedMap' = SealedMap
  /\ \A S : Registry!Lose(S) <=>
       /\ \A r \in S : OutcomeMap[r] = "pending"
       /\ OutcomeMap' = [r \in Requests |-> IF r \in S THEN "lost" ELSE OutcomeMap[r]]
       /\ RequestMap' = RequestMap /\ RegistryMap' = RegistryMap
       /\ verified' = verified /\ SealedMap' = SealedMap
BY DEF Registry!Register, Registry!Agree, Registry!Decline,
       Registry!Ignore, Registry!Lose, RequestMap, RegistryMap, OutcomeMap,
       SealedMap, Undecided

(* Files of clients without a verified request are not in the registry.    *)
LEMMA RegistryKept ==
  ASSUME msg' = msg, verified' = verified,
         \A c \in Clients : \/ file'[c] = file[c]
                            \/ \A r \in verified : msg[r].client # c
  PROVE  RequestMap' = RequestMap /\ RegistryMap' = RegistryMap
<1>1. RequestMap' = RequestMap
  BY DEF RequestMap
<1>2. ASSUME NEW c \in Clients
      PROVE  (IF VerifiedKey(c, file[c])' THEN file'[c] ELSE Nil)
               = IF VerifiedKey(c, file[c]) THEN file[c] ELSE Nil
  BY <1>2 DEF VerifiedKey
<1> QED BY <1>1, <1>2 DEF RegistryMap

(* Steps that settle no request and touch no registered key are stutters.  *)
LEMMA Stutters ==
  ASSUME msg' = msg, verified' = verified,
         \A c \in Clients : \/ file'[c] = file[c]
                            \/ \A r \in verified : msg[r].client # c,
         \A r \in Requests :
           \/ Undecided(r) /\ Undecided(r)'
           \/ stage'[r] = stage[r] /\ sealed'[r] = sealed[r]
  PROVE  UNCHANGED Registry!vars
<1>1. OutcomeMap' = OutcomeMap /\ SealedMap' = SealedMap
  BY DEF OutcomeMap, SealedMap, Undecided
<1> QED
  BY <1>1, RegistryKept
     DEF Registry!vars, RequestMap, RegistryMap, OutcomeMap, SealedMap, Undecided

(* A signature that is found good registers the key of its request.        *)
LEMMA RegistersStep ==
  ASSUME TypeOK, ServiceInv, NEW w \in Workers, CheckSignPasses(w)
  PROVE  Registry!Next
<1>1. /\ pc[w] = "check" /\ job[w] \in Requests
      /\ UNCHANGED <<msg, stage, file, sealed>>
      /\ verified' = verified \union {job[w]}
      /\ file[ClientOf(w)] = msg[job[w]].key
      /\ msg[job[w]].key \in GoodKeys /\ msg[job[w]].sign = "valid"
  BY DEF CheckSignPasses, SignIsGood, At, TypeOK
<1>2. /\ stage[job[w]] = "working" /\ IsAgreement(job[w]) /\ job[w] \notin verified
      /\ \A r \in verified : msg[r].client # ClientOf(w)
      /\ ClientOf(w) \in Clients
  BY <1>1, ConstantsAssumption
     DEF ServiceInv, JobsInv, HandlersInv, Deciding, ConstantsAssumption, TypeOK, Message, ClientOf
<1>3. /\ RequestMap' = RequestMap /\ OutcomeMap' = OutcomeMap /\ SealedMap' = SealedMap
      /\ OutcomeMap[job[w]] = "pending" /\ RequestMap[job[w]].genuine
      /\ RequestMap[job[w]].client = ClientOf(w)
      /\ RequestMap[job[w]].key = file[ClientOf(w)]
  BY <1>1, <1>2 DEF RequestMap, OutcomeMap, SealedMap, Undecided, IsAgreement, ClientOf
<1>4. RegistryMap[ClientOf(w)] = Nil
  BY <1>2 DEF RegistryMap, VerifiedKey
<1>5. RegistryMap' = [RegistryMap EXCEPT ![ClientOf(w)] = file[ClientOf(w)]]
  <2>1. \A c \in Clients :
          VerifiedKey(c, file[c])' <=> c = ClientOf(w) \/ VerifiedKey(c, file[c])
    BY <1>1 DEF VerifiedKey, ClientOf
  <2>2. \A c \in Clients :
          (IF VerifiedKey(c, file[c])' THEN file'[c] ELSE Nil)
            = IF c = ClientOf(w) THEN file[ClientOf(w)] ELSE RegistryMap[c]
    BY <1>1, <2>1 DEF RegistryMap
  <2> QED BY <2>2 DEF RegistryMap
<1>6. PICK r \in Requests : r = job[w]
  BY <1>1
<1>7. Registry!Register(r)
  BY <1>1, <1>2, <1>3, <1>4, <1>5, <1>6, Mapping
<1> QED BY <1>7 DEF Registry!Next

(* An answer, or silence, is the end that the registry gives the request.   *)
LEMMA EndsStep ==
  ASSUME TypeOK, ServiceInv, NEW w \in Workers,
         ReturnSilently(w) \/ SendFailed(w) \/ SendAgreed(w)
  PROVE  Registry!Next
<1>1. PICK s \in {"agreed", "failed", "silent"} :
        /\ stage' = [stage EXCEPT ![job[w]] = s]
        /\ UNCHANGED <<msg, file, sealed, verified>>
        /\ s = "agreed" => pc[w] = "respond"
        /\ s = "failed" => pc[w] = "fail"
        /\ s = "silent" => pc[w] = "stub"
        /\ pc[w] # "idle"
  BY DEF ReturnSilently, SendFailed, SendAgreed, At, Finish
<1>2. job[w] \in Requests /\ stage[job[w]] = "working"
  BY <1>1 DEF TypeOK, ServiceInv, JobsInv
<1>0. PICK r \in Requests : r = job[w]
  BY <1>2
<1>3. /\ RequestMap' = RequestMap /\ RegistryMap' = RegistryMap
      /\ OutcomeMap[job[w]] = "pending"
  BY <1>1, <1>2, RegistryKept DEF OutcomeMap, Undecided
<1>4. stage' \in [Requests -> Stages] /\ \A q \in Requests :
        stage'[q] = IF q = job[w] THEN s ELSE stage[q]
  BY <1>1, <1>2 DEF TypeOK, Stages
<1>5. OutcomeMap' = [OutcomeMap EXCEPT ![job[w]] = s]
  <2>1. \A q \in Requests :
          (IF Undecided(q)' THEN "pending" ELSE stage'[q])
            = IF q = job[w] THEN s ELSE OutcomeMap[q]
    BY <1>4 DEF OutcomeMap, Undecided
  <2> QED BY <2>1 DEF OutcomeMap
<1>6. CASE s = "agreed"
  <2>1. job[w] \in verified /\ sealed[job[w]] = msg[job[w]].key
    BY <1>1, <1>6 DEF ServiceInv, HandlersInv
  <2>2. RequestMap[job[w]].client \in Clients
        /\ RegistryMap[RequestMap[job[w]].client] = sealed[job[w]]
    <3>1. msg[job[w]].client \in Clients
      BY <1>2, ConstantsAssumption DEF ConstantsAssumption, TypeOK, Message
    <3>2. file[msg[job[w]].client] = msg[job[w]].key
      BY <2>1 DEF ServiceInv, VerifiedInv
    <3> QED BY <1>2, <2>1, <3>1, <3>2 DEF RequestMap, RegistryMap, VerifiedKey
  <2>3. SealedMap' = [SealedMap EXCEPT ![job[w]] = sealed[job[w]]]
    <3>1. \A q \in Requests :
            (IF stage'[q] = "agreed" THEN sealed'[q] ELSE Nil)
              = IF q = job[w] THEN sealed[job[w]] ELSE SealedMap[q]
      BY <1>1, <1>4, <1>6 DEF SealedMap
    <3> QED BY <3>1 DEF SealedMap
  <2>4. Registry!Agree(r)
    BY <1>0, <1>1, <1>3, <1>5, <1>6, <2>1, <2>2, <2>3, Mapping
  <2> QED BY <2>4 DEF Registry!Next
<1>7. CASE s # "agreed"
  <2>1. SealedMap' = SealedMap
    <3>1. \A q \in Requests :
            (IF stage'[q] = "agreed" THEN sealed'[q] ELSE Nil)
              = IF stage[q] = "agreed" THEN sealed[q] ELSE Nil
      BY <1>1, <1>2, <1>4, <1>7
    <3> QED BY <3>1 DEF SealedMap
  <2>2. CASE s = "failed"
    <3>1. job[w] \notin verified
      BY <1>1, <2>2 DEF ServiceInv, HandlersInv
    <3>2. Registry!Decline(r)
      BY <1>0, <1>1, <1>3, <1>5, <2>1, <2>2, <3>1, Mapping
    <3> QED BY <3>2 DEF Registry!Next
  <2>3. CASE s = "silent"
    <3>1. ~RequestMap[job[w]].genuine
      BY <1>1, <1>2, <2>3 DEF ServiceInv, HandlersInv, IsAgreement, RequestMap
    <3>2. Registry!Ignore(r)
      BY <1>0, <1>1, <1>3, <1>5, <2>1, <2>3, <3>1, Mapping
    <3> QED BY <3>2 DEF Registry!Next
  <2> QED BY <1>7, <2>2, <2>3
<1> QED BY <1>6, <1>7

(* With the process, the pending requests are lost and nothing else.       *)
LEMMA LosesStep ==
  ASSUME TypeOK, Terminate
  PROVE  Registry!Next
<1>0. PICK S \in SUBSET Requests :
        S = {r \in Requests : stage[r] \in {"posted", "working"}}
  OBVIOUS
<1>1. /\ stage' = [r \in Requests |-> IF r \in S THEN "lost" ELSE stage[r]]
      /\ UNCHANGED <<msg, file, sealed, verified>>
  BY <1>0 DEF Terminate
<1>2. RequestMap' = RequestMap /\ RegistryMap' = RegistryMap
  BY <1>1, RegistryKept
<1>3. OutcomeMap' = [r \in Requests |-> IF r \in S THEN "lost" ELSE OutcomeMap[r]]
  BY <1>0, <1>1 DEF OutcomeMap, Undecided
<1>4. SealedMap' = SealedMap
  BY <1>0, <1>1 DEF SealedMap
<1>5. \A r \in S : OutcomeMap[r] = "pending"
  BY <1>0 DEF OutcomeMap, Undecided
<1>6. Registry!Lose(S)
  BY <1>1, <1>2, <1>3, <1>4, <1>5, Mapping
<1> QED BY <1>6 DEF Registry!Next

(* The handlers of all threads together do what the registry does: finding *)
(* the signature good registers the key, and every file step is invisible. *)
LEMMA RegistryStep ==
  ASSUME Exclusive, TypeOK, ServiceInv, [Next]_vars
  PROVE  [Registry!Next]_Registry!vars
<1>1. CASE UNCHANGED vars
  BY <1>1, Stutters DEF vars
<1>2. ASSUME NEW r \in Requests, OnMessage(r)
      PROVE  UNCHANGED Registry!vars
  <2>1. \A q \in Requests : stage'[q] = IF q = r THEN "posted" ELSE stage[q]
    BY <1>2 DEF OnMessage, TypeOK
  <2> QED BY <1>2, <2>1, Stutters DEF OnMessage, Undecided
<1>3. CASE Kill
  BY <1>3, LosesStep DEF Kill
<1>4. CASE Restart
  BY <1>4, Stutters DEF Restart
<1>5. ASSUME NEW w \in Workers, PoolThread(w)
      PROVE  Registry!Next \/ UNCHANGED Registry!vars
  <2>1. CASE Work(w)
    <3>1. Head(jobs) \in Requests /\ stage[Head(jobs)] = "posted"
      <4>1. Head(jobs) = jobs[1] /\ 1 \in 1 .. Len(jobs) /\ jobs[1] \in Requests
        BY <2>1 DEF TypeOK, Work
      <4> QED BY <4>1 DEF ServiceInv, JobsInv
    <3>2. \A q \in Requests :
            stage'[q] = IF q = Head(jobs) THEN "working" ELSE stage[q]
      BY <2>1, <3>1 DEF Work, TypeOK
    <3> QED BY <2>1, <3>1, <3>2, Stutters DEF Work, Undecided
  <2>2. CASE ReturnSilently(w) \/ SendFailed(w) \/ SendAgreed(w)
    BY <2>2, EndsStep
  <2>3. CASE CheckExists(w) \/ CheckSignFails(w)
             \/ LogRejection(w, "refuse", "fail") \/ LogRejection(w, "reject", "remove")
    BY <2>3, Stutters DEF CheckExists, CheckSignFails, LogRejection
  <2>4. CASE OpenFile(w) \/ CloseFile(w) \/ RemoveFile(w)
    <3>1. \A r \in verified : msg[r].client # ClientOf(w)
      BY <2>4 DEF ServiceInv, HandlersInv, Deciding, OpenFile, CloseFile, RemoveFile, At
    <3>2. \A c \in Clients : file'[c] = file[c] \/ c = ClientOf(w)
      BY <2>4 DEF OpenFile, CloseFile, RemoveFile, TypeOK
    <3> QED BY <2>4, <3>1, <3>2, Stutters DEF OpenFile, CloseFile, RemoveFile
  <2>5. CASE CheckSignPasses(w)
    BY <2>5, RegistersStep
  <2>6. CASE CheckSignThrows(w) \/ LogThrows(w, "refuse")
             \/ LogThrows(w, "reject") \/ EncryptThrows(w)
    BY <2>6, LosesStep DEF CheckSignThrows, LogThrows, EncryptThrows
  <2>7. CASE Encrypt(w)
    <3>1. stage[job[w]] = "working" /\ job[w] \in Requests
      BY <2>7 DEF ServiceInv, JobsInv, TypeOK, Encrypt, At
    <3>2. \A q \in Requests \ {job[w]} : sealed'[q] = sealed[q]
      BY <2>7 DEF Encrypt, TypeOK
    <3> QED BY <2>7, <3>1, <3>2, Stutters DEF Encrypt, Undecided
  <2> QED
    BY <1>5, <2>1, <2>2, <2>3, <2>4, <2>5, <2>6, <2>7 DEF PoolThread, Seckey
<1> QED BY <1>1, <1>2, <1>3, <1>4, <1>5 DEF Next

(* With one agreement at a time per client, the handlers with their files, *)
(* crashes and restarts implement the atomic registry.                     *)
THEOREM RefinesRegistry ==
  ASSUME Exclusive
  PROVE  Spec => ImplementsRegistry
<1>1. Init => Registry!Init
  <2> SUFFICES ASSUME Init PROVE Registry!Init
    OBVIOUS
  <2>1. \A r \in Requests : msg[r] \in Message
    BY ConstantsAssumption DEF ConstantsAssumption, Init
  <2>2. RequestMap \in [Requests -> [client : Clients, key : Keys, genuine : BOOLEAN]]
    BY <2>1 DEF RequestMap, Message
  <2>3. /\ RegistryMap = [c \in Clients |-> Nil] /\ verified = {}
        /\ OutcomeMap = [r \in Requests |-> "pending"]
        /\ SealedMap = [r \in Requests |-> Nil]
    BY DEF Init, RegistryMap, OutcomeMap, SealedMap, Undecided, VerifiedKey
  <2> QED
    BY <2>2, <2>3 DEF Registry!Init, Registry!Request, RequestMap, RegistryMap,
                      OutcomeMap, SealedMap, Undecided
<1>2. TypeOK /\ ServiceInv /\ [Next]_vars => ServiceInv'
  BY ServiceStep
<1>3. TypeOK /\ ServiceInv /\ [Next]_vars => [Registry!Next]_Registry!vars
  BY RegistryStep
<1> QED
  BY <1>1, <1>2, <1>3, ServiceInit, TypeCorrect, PTL
     DEF Spec, ImplementsRegistry, Registry!Spec

=============================================================================
