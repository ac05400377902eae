--------------------------- MODULE PlatformProofs ----------------------------
(***************************************************************************)
(* Platform for any clients, pool threads and key pairs: its type          *)
(* invariant, what the two key files may hold, and that no handler of the  *)
(* io_service outlives its connection unless MessageAllClients erased it.  *)
(***************************************************************************)
EXTENDS Platform, TLAPS

USE KeysAssumption, InterfaceAssumption DEF KeysAssumption, InterfaceAssumption

-----------------------------------------------------------------------------
(* The key files.                                                          *)

(* What KeysBelongTogether and ServesWithKeys rest on: from the moment the *)
(* public key's file is truncated it holds no key until the private key of *)
(* the same pair is written; and without a kill in between a file that is  *)
(* there holds a key.                                                      *)
FilesInv ==
  /\ main \in {"openPri", "closePri", "closePub"} => pub = Empty
  /\ main = "closePub" => pri = rsa
  /\ ~torn /\ main \notin Saving \ {"openPub"} => pub # Empty /\ pri # Empty

KeysIInv == KeysTypeOK /\ KeysBelongTogether /\ ServesWithKeys /\ FilesInv

(* A fresh server directory satisfies the invariant of the key files.      *)
LEMMA KeysInitially == KeysInit => KeysIInv
  BY DEF KeysInit, KeysIInv, KeysTypeOK, KeysBelongTogether, ServesWithKeys,
         FilesInv, Contents, Stages, Saving

(* The end of the process, wherever main is, preserves it.                 *)
LEMMA EndKeepsKeys == KeysIInv /\ EndMain => KeysIInv'
  BY DEF EndMain, KeysIInv, KeysTypeOK, KeysBelongTogether, ServesWithKeys,
         FilesInv, Contents, Stages, Saving

(* Each step of main and each lost file preserves it.                      *)
LEMMA KeysStep == KeysIInv /\ KeysNext => KeysIInv'
<1> SUFFICES ASSUME KeysIInv, KeysNext PROVE KeysIInv'
  OBVIOUS
<1> USE DEF KeysIInv, KeysTypeOK, KeysBelongTogether, ServesWithKeys,
            FilesInv, Contents, Stages, Saving, Proceed
<1>1. CASE StartMain
  BY <1>1 DEF StartMain
<1>2. CASE KeepKeys
  BY <1>2 DEF KeepKeys
<1>3. CASE GenerateKeys
  BY <1>3 DEF GenerateKeys
<1>4. CASE OpenPub
  BY <1>4 DEF OpenPub
<1>5. CASE OpenPri
  BY <1>5 DEF OpenPri
<1>6. CASE ClosePri
  BY <1>6 DEF ClosePri
<1>7. CASE ClosePub
  BY <1>7 DEF ClosePub
<1>8. CASE EndMain
  BY <1>8, EndKeepsKeys
<1>9. CASE DeleteKey
  BY <1>9 DEF DeleteKey
<1> QED
  BY <1>1, <1>2, <1>3, <1>4, <1>5, <1>6, <1>7, <1>8, <1>9 DEF KeysNext

(* It does not depend on the server that runs.                             *)
LEMMA KeysStutter == KeysIInv /\ UNCHANGED keys => KeysIInv'
  BY DEF keys, KeysIInv, KeysTypeOK, KeysBelongTogether, ServesWithKeys, FilesInv

-----------------------------------------------------------------------------
(* The server's connections.                                               *)

ServiceIInv == ServiceTypeOK /\ ContainerKeeps

(* What the container and the queues hold after a message moved on.        *)
LEMMA QueueMoves ==
  ASSUME NEW S, NEW q \in Seq(S), q # << >>
  PROVE  /\ Head(q) \in S
         /\ Tail(q) \in Seq(S)
         /\ Contains(q, Head(q))
         /\ \A e : Contains(Tail(q), e) => Contains(q, e)
<1>1. Head(q) = q[1] /\ Head(q) \in S /\ 1 \in 1 .. Len(q)
  OBVIOUS
<1>2. Tail(q) \in Seq(S) /\ Len(Tail(q)) = Len(q) - 1 /\ Len(q) \in Nat
  OBVIOUS
<1>3. \A i \in 1 .. Len(Tail(q)) : Tail(q)[i] = q[i + 1] /\ i + 1 \in 1 .. Len(q)
  BY <1>2
<1>4. Contains(q, Head(q))
  BY <1>1 DEF Contains
<1>5. ASSUME NEW e, Contains(Tail(q), e) PROVE Contains(q, e)
  BY <1>3, <1>5 DEF Contains
<1> QED
  BY <1>1, <1>2, <1>4, <1>5

(* A message is added at the end.                                          *)
LEMMA QueueGrows ==
  ASSUME NEW S, NEW q \in Seq(S), NEW d \in S
  PROVE  /\ Append(q, d) \in Seq(S)
         /\ \A e : Contains(Append(q, d), e) => e = d \/ Contains(q, e)
<1>1. Append(q, d) \in Seq(S) /\ Len(Append(q, d)) = Len(q) + 1 /\ Len(q) \in Nat
  OBVIOUS
<1>2. \A i \in 1 .. Len(Append(q, d)) :
        \/ i \in 1 .. Len(q) /\ Append(q, d)[i] = q[i]
        \/ Append(q, d)[i] = d
  BY <1>1
<1>3. ASSUME NEW e, Contains(Append(q, d), e) PROVE e = d \/ Contains(q, e)
  BY <1>2, <1>3 DEF Contains
<1> QED
  BY <1>1, <1>3

(* A server that has just been started knows nobody.                       *)
LEMMA ServiceInitially == ServiceInit => ServiceIInv
<1> SUFFICES ASSUME ServiceInit PROVE ServiceIInv
  OBVIOUS
<1>1. ServiceTypeOK
  <2>1. << >> \in Seq(Clients)
    OBVIOUS
  <2> QED
    BY <2>1 DEF ServiceInit, ServiceTypeOK, Sockets
<1>2. ASSUME NEW e PROVE ~Contains(<< >>, e)
  BY DEF Contains
<1>3. ContainerKeeps
  BY <1>2 DEF ServiceInit, ContainerKeeps, Accepted, Pending, Referenced
<1> QED
  BY <1>1, <1>3 DEF ServiceIInv

(* Every step of the accept loop, the io_service, main's Update, the pool  *)
(* threads and the two calls preserves types and ContainerKeeps.           *)
LEMMA ServiceStep == ServiceIInv /\ ServiceNext => ServiceIInv'
<1> SUFFICES ASSUME ServiceIInv, ServiceNext PROVE ServiceIInv'
  OBVIOUS
<1> USE DEF ServiceIInv, ServiceTypeOK, ContainerKeeps, Accepted, Pending,
            Referenced, Sockets, SetSocket, Runs
<1>1. ASSUME NEW c \in Clients, Knock(c) PROVE ServiceIInv'
  BY <1>1 DEF Knock
<1>2. ASSUME NEW c \in Clients, GoAway(c) PROVE ServiceIInv'
  BY <1>2 DEF GoAway
<1>3. ASSUME NEW c \in Clients, Accept(c) PROVE ServiceIInv'
  BY <1>3 DEF Accept
<1>4. ASSUME NEW c \in Clients, AddToIncomingMessageQueue(c) PROVE ServiceIInv'
  <2>1. /\ m_qMessagesIn' \in Seq(Clients)
        /\ \A e : Contains(m_qMessagesIn', e) => e = c \/ Contains(m_qMessagesIn, e)
    BY <1>4, QueueGrows DEF AddToIncomingMessageQueue
  <2>2. received' \in [Clients -> 0 .. MaxMessages]
    BY <1>4 DEF AddToIncomingMessageQueue
  <2>3. Accepted(c) /\ (c \in m_deqConnections \/ c \in erased)
    BY <1>4 DEF AddToIncomingMessageQueue
  <2>4. ServiceTypeOK'
    BY <1>4, <2>1, <2>2 DEF AddToIncomingMessageQueue
  <2>5. ContainerKeeps'
    BY <1>4, <2>1, <2>3 DEF AddToIncomingMessageQueue
  <2> QED
    BY <2>4, <2>5
<1>5. ASSUME NEW c \in Clients, Written(c) PROVE ServiceIInv'
  BY <1>5 DEF Written
<1>6. ASSUME NEW c \in Clients, Fails(c) PROVE ServiceIInv'
  BY <1>6 DEF Fails
<1>7. ASSUME NEW c \in Clients, RunSend(c) PROVE ServiceIInv'
  BY <1>7 DEF RunSend
<1>8. ASSUME NEW c \in Clients, MessageClient(c) PROVE ServiceIInv'
  <2>1. Accepted(c) /\ calls' \in 0 .. MaxCalls
    BY <1>8 DEF MessageClient, Called
  <2>2. posted' \in [Clients -> Nat]
    <3>1. posted \in [Clients -> Nat] /\ posted[c] + 1 \in Nat
      OBVIOUS
    <3>2. posted' = posted \/ posted' = [posted EXCEPT ![c] = posted[c] + 1]
      BY <1>8 DEF MessageClient
    <3> QED
      BY <3>1, <3>2
  <2>3. \A d \in Clients : posted'[d] > 0 => posted[d] > 0 \/ d = c
    BY <1>8 DEF MessageClient
  <2>4. ServiceTypeOK'
    BY <1>8, <2>1, <2>2 DEF MessageClient
  <2>5. ContainerKeeps'
    BY <1>8, <2>1, <2>3 DEF MessageClient
  <2> QED
    BY <2>4, <2>5
<1>9. ASSUME Update PROVE ServiceIInv'
  <2> DEFINE d == Head(m_qMessagesIn)
  <2>1. /\ m_qMessagesIn \in Seq(Clients) /\ m_qMessagesIn # << >>
        /\ jobs \in Seq(Clients)
        /\ m_qMessagesIn' = Tail(m_qMessagesIn) /\ jobs' = Append(jobs, d)
    BY <1>9 DEF Update
  <2>2. /\ d \in Clients /\ Contains(m_qMessagesIn, d)
        /\ m_qMessagesIn' \in Seq(Clients)
        /\ \A e : Contains(m_qMessagesIn', e) => Contains(m_qMessagesIn, e)
    BY <2>1, QueueMoves
  <2>3. /\ jobs' \in Seq(Clients)
        /\ \A e : Contains(jobs', e) => e = d \/ Contains(jobs, e)
    BY <2>1, <2>2, QueueGrows
  <2> HIDE DEF d
  <2> QED
    BY <1>9, <2>2, <2>3 DEF Update
<1>10. ASSUME NEW w \in Workers, StartWork(w) PROVE ServiceIInv'
  <2> DEFINE d == Head(jobs)
  <2>1. jobs \in Seq(Clients) /\ jobs # << >> /\ jobs' = Tail(jobs)
    BY <1>10 DEF StartWork
  <2>2. /\ d \in Clients /\ Contains(jobs, d)
        /\ jobs' \in Seq(Clients)
        /\ \A e : Contains(jobs', e) => Contains(jobs, e)
    BY <2>1, QueueMoves
  <2>3. working' = [working EXCEPT ![w] = d]
    BY <1>10 DEF StartWork
  <2> HIDE DEF d
  <2> QED
    BY <1>10, <2>2, <2>3 DEF StartWork
<1>11. ASSUME NEW w \in Workers, EndWork(w) PROVE ServiceIInv'
  <2> DEFINE d == working[w]
  <2>1. d \in Clients /\ Accepted(d)
    BY <1>11 DEF EndWork
  <2>2. posted' \in [Clients -> Nat]
    BY <1>11, <2>1 DEF EndWork
  <2>3. \A c \in Clients : posted'[c] > 0 => posted[c] > 0 \/ c = d
    BY <1>11, <2>1 DEF EndWork
  <2>4. ServiceTypeOK'
    BY <1>11, <2>2 DEF EndWork
  <2>5. ContainerKeeps'
    BY <1>11, <2>1, <2>3 DEF EndWork
  <2> QED
    BY <2>4, <2>5
<1>12. ASSUME MessageAllClients PROVE ServiceIInv'
  <2>1. ServiceTypeOK'
    BY <1>12 DEF MessageAllClients, SendToAll, Called, Closed
  <2>2. \A c \in Clients : posted'[c] > 0 => posted[c] > 0 \/ c \in m_deqConnections
    BY <1>12 DEF MessageAllClients, SendToAll
  <2>3. ContainerKeeps'
    BY <1>12, <2>2 DEF MessageAllClients, SendToAll, Closed
  <2> QED
    BY <2>1, <2>3
<1> QED
  BY <1>1, <1>2, <1>3, <1>4, <1>5, <1>6, <1>7, <1>8, <1>9, <1>10, <1>11, <1>12
     DEF ServiceNext

(* Between the server's runs nothing of it changes.                        *)
LEMMA ServiceStutter == ServiceIInv /\ UNCHANGED service => ServiceIInv'
  BY DEF service, ServiceIInv, ServiceTypeOK, ContainerKeeps, Accepted, Pending,
         Referenced

-----------------------------------------------------------------------------
(* The whole process.                                                      *)

IInv == KeysIInv /\ ServiceIInv /\ (main # "serve" => ServiceInit)

(* The conjunction of the two parts' invariants, and that the server is    *)
(* initial while main does not serve, is inductive.                        *)
THEOREM PlatformInvariant == Spec => []IInv
<1>1. Init => IInv
  BY KeysInitially, ServiceInitially DEF Init, IInv
<1>2. ASSUME IInv, [Next]_vars PROVE IInv'
  <2> USE DEF IInv
  <2>1. CASE StartUp
    <3>1. KeysIInv' /\ ServiceIInv'
      BY <1>2, <2>1, KeysStep, ServiceStutter DEF StartUp
    <3>2. ServiceInit'
      BY <1>2, <2>1 DEF StartUp, ServiceInit, service
    <3> QED
      BY <3>1, <3>2
  <2>2. CASE Serve
    <3>1. KeysIInv' /\ ServiceIInv'
      BY <1>2, <2>2, KeysStutter, ServiceStep DEF Serve
    <3>2. main' = "serve"
      BY <2>2 DEF Serve, keys
    <3> QED
      BY <3>1, <3>2
  <2>3. ASSUME EndMain, ServiceLost PROVE IInv'
    <3>1. ServiceInit'
      BY <2>3 DEF ServiceLost, ServiceInit
    <3>2. ServiceIInv'
      BY <3>1, ServiceInitially, PTL
    <3> QED
      BY <1>2, <2>3, <3>1, <3>2, EndKeepsKeys
  <2>4. CASE UNCHANGED vars
    <3>1. UNCHANGED keys /\ UNCHANGED service
      BY <2>4 DEF vars
    <3>2. main' = main /\ (ServiceInit => ServiceInit')
      BY <3>1 DEF keys, service, ServiceInit
    <3> QED
      BY <1>2, <3>1, <3>2, KeysStutter, ServiceStutter
  <2> QED
    BY <1>2, <2>1, <2>2, <2>3, <2>4 DEF Next, Die, Kill
<1> QED
  BY <1>1, <1>2, PTL DEF Spec

(* TypeOK: every variable has its type in every behaviour of the process.  *)
THEOREM TypeCorrect == Spec => []TypeOK
<1>1. IInv => TypeOK
  BY DEF IInv, KeysIInv, ServiceIInv, TypeOK
<1> QED
  BY <1>1, PlatformInvariant, PTL

(* KeysBelongTogether: however often saving is interrupted and files are   *)
(* deleted, the two files never hold keys of two pairs.                    *)
THEOREM KeysMatch == Spec => []KeysBelongTogether
<1>1. IInv => KeysBelongTogether
  BY DEF IInv, KeysIInv
<1> QED
  BY <1>1, PlatformInvariant, PTL

(* ServesWithKeys: unless a kill hit SaveRSAKey, the server that runs has  *)
(* both keys.                                                              *)
THEOREM ServerHasKeys == Spec => []ServesWithKeys
<1>1. IInv => ServesWithKeys
  BY DEF IInv, KeysIInv
<1> QED
  BY <1>1, PlatformInvariant, PTL

(* HandlersHaveConnection: for any clients and pool threads, a handler     *)
(* outlives its connection only if MessageAllClients erased it.            *)
THEOREM HandlersAlive == Spec => []HandlersHaveConnection
<1>1. IInv => HandlersHaveConnection
  BY DEF IInv, ServiceIInv, ContainerKeeps, HandlersHaveConnection, Referenced
<1> QED
  BY <1>1, PlatformInvariant, PTL

=============================================================================
