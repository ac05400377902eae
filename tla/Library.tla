------------------------------ MODULE Library ------------------------------
(***************************************************************************)
(* The classes of the program that share no state with one another and     *)
(* that the server links, uses in one place or leaves to its clients: the  *)
(* client's end, the thread pool, the shared memory, the key objects, the  *)
(* digests and the codec.  A behaviour is one of a single part, its        *)
(* subject; no step of one could change what another one does.             *)
(***************************************************************************)
EXTENDS ClientInterface, ThreadPool, SeckeyShm, MyRSA, Hash, MsgCodec

CONSTANT Subjects  \* the parts to look at

ASSUME SubjectsAssumption ==
  Subjects \subseteq {"client", "pool", "shm", "keys", "hash", "codec"}

VARIABLE subject

vars ==
  <<subject, clientVars, poolVars, shmVars, rsaVars, hashVars, codecVars>>

Init ==
  /\ subject \in Subjects
  /\ ClientInit /\ PoolInit /\ ShmInit /\ RSAInit /\ HashInit /\ CodecInit
  /\ subject # "hash" => hash_type_ = "SHA384" /\ units = 1
  /\ subject # "codec" => kind = "request"

(* A step of one part.                                                     *)
Client(Step) ==
  /\ subject = "client" /\ Step
  /\ UNCHANGED <<subject, poolVars, shmVars, rsaVars, hashVars, codecVars>>
Pool(Step) ==
  /\ subject = "pool" /\ Step
  /\ UNCHANGED <<subject, clientVars, shmVars, rsaVars, hashVars, codecVars>>
Shm(Step) ==
  /\ subject = "shm" /\ Step
  /\ UNCHANGED <<subject, clientVars, poolVars, rsaVars, hashVars, codecVars>>
Keys(Step) ==
  /\ subject = "keys" /\ Step
  /\ UNCHANGED <<subject, clientVars, poolVars, shmVars, hashVars, codecVars>>
Digests(Step) ==
  /\ subject = "hash" /\ Step
  /\ UNCHANGED <<subject, clientVars, poolVars, shmVars, rsaVars, codecVars>>
Codec(Step) ==
  /\ subject = "codec" /\ Step
  /\ UNCHANGED <<subject, clientVars, poolVars, shmVars, rsaVars, hashVars>>

Next ==
  \/ Client(ClientNext)
  \/ Pool(PoolNext)
  \/ Shm(ShmNext)
  \/ Keys(RSANext)
  \/ Digests(HashNext)
  \/ Codec(CodecNext)

(* Fairness of the client's end and of the pool, which have threads: the   *)
(* others are called, or not.                                              *)
Spec ==
  /\ Init /\ [][Next]_vars
  /\ WF_vars(Client(Returns))
  /\ \A t \in Calls : WF_vars(Client(HandlerEnds(t) \/ ThreadEnds(t)))
  /\ \A w \in Threads : SF_vars(Pool(Worker(w)))
  /\ WF_vars(Pool(NotifyAll \/ JoinAll))

-----------------------------------------------------------------------------
(* Every variable of every part has its type.                              *)
TypeOK ==
  /\ subject \in Subjects
  /\ ClientTypeOK /\ PoolTypeOK /\ ShmTypeOK
  /\ RSATypeOK /\ HashTypeOK /\ CodecTypeOK

=============================================================================
