--------------------------- MODULE ServerInterface ---------------------------
(***************************************************************************)
(* mine_net::ServerInterface as platform::Server uses it: the accept loop  *)
(* on the io_service thread, the container of connections, the queue of    *)
(* incoming messages that main empties with Update, and the thread pool    *)
(* whose handlers answer.  What matters here is who keeps a Connection     *)
(* alive: shared pointers in the container, in queued messages and in      *)
(* posted handlers do; the operations that the io_service has in progress  *)
(* hold a bare this.                                                       *)
(*                                                                         *)
(* A connection's own protocol is module Connection, the queue's locking   *)
(* module TSQueue, the handlers' work module SeckeyAgree.  Nothing calls   *)
(* MessageClient and MessageAllClients so far; as nothing guards the       *)
(* container, they are called on the io_service thread, from               *)
(* OnClientValidated, in this model.                                       *)
(***************************************************************************)
EXTENDS Naturals, Sequences, SequencesExt

CONSTANTS
  Clients,      \* peers that connect, once each
  Workers,      \* threads of thread_pool_
  MaxMessages,  \* bound on the messages a connection receives
  MaxCalls,     \* bound on calls of MessageClient and MessageAllClients
  Nobody        \* no client

ASSUME InterfaceAssumption ==
  MaxMessages \in Nat /\ MaxCalls \in Nat /\ Nobody \notin Clients

VARIABLES
  socket,            \* a peer's connection: from knocking to closed
  m_deqConnections,  \* the container; its order plays no part
  ops,               \* reads and writes in progress, per connection
  posted,            \* functions that Send posted to the io_service
  m_qMessagesIn,     \* the remote of each message, oldest first
  jobs,              \* the client argument of each handler in the pool's queue
  working,           \* and of the handler on each pool thread
  received,          \* messages received so far
  calls,             \* calls of MessageClient and MessageAllClients so far
  erased             \* history: connections that MessageAllClients erased

service == <<socket, m_deqConnections, ops, posted, m_qMessagesIn, jobs,
             working, received, calls, erased>>

Sockets == {"none", "knocking", "gone", "open", "closed"}

ServiceInit ==
  /\ socket = [c \in Clients |-> "none"]
  /\ m_deqConnections = {}
  /\ ops = [c \in Clients |-> {}]
  /\ posted = [c \in Clients |-> 0]
  /\ m_qMessagesIn = << >>
  /\ jobs = << >>
  /\ working = [w \in Workers |-> Nobody]
  /\ received = [c \in Clients |-> 0]
  /\ calls = 0
  /\ erased = {}

Accepted(c) == socket[c] \in {"open", "closed"}

(* A shared pointer to c's Connection exists.                              *)
Referenced(c) ==
  \/ c \in m_deqConnections
  \/ Contains(m_qMessagesIn, c)
  \/ Contains(jobs, c)
  \/ \E w \in Workers : working[w] = c

Pending(c) == ops[c] # {} \/ posted[c] > 0

(* A handler of c runs on the io_service thread, its connection alive.     *)
Runs(c) == Accepted(c) /\ Referenced(c)

SetSocket(c, s) == socket' = [socket EXCEPT ![c] = s]

Knock(c) ==
  /\ socket[c] = "none" /\ SetSocket(c, "knocking")
  /\ UNCHANGED <<m_deqConnections, ops, posted, m_qMessagesIn, jobs, working,
                 received, calls, erased>>

(* The peer resets the connection before it is accepted.                   *)
GoAway(c) ==
  /\ socket[c] = "knocking" /\ SetSocket(c, "gone")
  /\ UNCHANGED <<m_deqConnections, ops, posted, m_qMessagesIn, jobs, working,
                 received, calls, erased>>

(* The handler of async_accept: the connection enters the container, and   *)
(* ConnectToClient starts the handshake's write and read.                  *)
Accept(c) ==
  /\ socket[c] = "knocking" /\ SetSocket(c, "open")
  /\ m_deqConnections' = m_deqConnections \union {c}
  /\ ops' = [ops EXCEPT ![c] = {"write", "read"}]
  /\ UNCHANGED <<posted, m_qMessagesIn, jobs, working, received, calls, erased>>

(* A message is complete: it is queued with shared_from_this(), and the    *)
(* next read is started.  That the handshake comes first is not modelled.  *)
AddToIncomingMessageQueue(c) ==
  /\ Runs(c) /\ socket[c] = "open" /\ "read" \in ops[c]
  /\ received[c] < MaxMessages
  /\ received' = [received EXCEPT ![c] = @ + 1]
  /\ m_qMessagesIn' = Append(m_qMessagesIn, c)
  /\ UNCHANGED <<socket, m_deqConnections, ops, posted, jobs, working, calls, erased>>

(* The last write of a chain ends.                                         *)
Written(c) ==
  /\ Runs(c) /\ "write" \in ops[c]
  /\ ops' = [ops EXCEPT ![c] = @ \ {"write"}]
  /\ UNCHANGED <<socket, m_deqConnections, posted, m_qMessagesIn, jobs, working,
                 received, calls, erased>>

(* An operation fails, its handler closes the socket; another one that is  *)
(* in progress stays so until its own handler runs.                        *)
Fails(c) ==
  /\ Runs(c) /\ SetSocket(c, "closed")
  /\ \E o \in ops[c] : ops' = [ops EXCEPT ![c] = @ \ {o}]
  /\ UNCHANGED <<m_deqConnections, posted, m_qMessagesIn, jobs, working,
                 received, calls, erased>>

(* The function that Send posted: a write is in progress from then on.     *)
RunSend(c) ==
  /\ Runs(c) /\ posted[c] > 0
  /\ posted' = [posted EXCEPT ![c] = @ - 1]
  /\ ops' = [ops EXCEPT ![c] = @ \union {"write"}]
  /\ UNCHANGED <<socket, m_deqConnections, m_qMessagesIn, jobs, working,
                 received, calls, erased>>

-----------------------------------------------------------------------------
(* main: Update(1) takes the oldest message, OnMessage posts it.           *)
Update ==
  /\ m_qMessagesIn # << >>
  /\ m_qMessagesIn' = Tail(m_qMessagesIn)
  /\ jobs' = Append(jobs, Head(m_qMessagesIn))
  /\ UNCHANGED <<socket, m_deqConnections, ops, posted, working, received, calls, erased>>

(* A pool thread starts Work.                                              *)
StartWork(w) ==
  /\ working[w] = Nobody /\ jobs # << >>
  /\ working' = [working EXCEPT ![w] = Head(jobs)]
  /\ jobs' = Tail(jobs)
  /\ UNCHANGED <<socket, m_deqConnections, ops, posted, m_qMessagesIn, received,
                 calls, erased>>

(* Work sends at most one message and lets go of the connection.           *)
EndWork(w) ==
  /\ working[w] # Nobody
  /\ working' = [working EXCEPT ![w] = Nobody]
  /\ \/ UNCHANGED posted
     \/ posted' = [posted EXCEPT ![working[w]] = @ + 1]
  /\ UNCHANGED <<socket, m_deqConnections, ops, m_qMessagesIn, jobs, received,
                 calls, erased>>

-----------------------------------------------------------------------------
Called == calls < MaxCalls /\ calls' = calls + 1

(* Mutant: the pointer is reset after the container was searched for it.   *)
MessageClientErases(c) ==
  /\ Called /\ Accepted(c) /\ Referenced(c)
  /\ \/ /\ socket[c] = "open"
        /\ posted' = [posted EXCEPT ![c] = @ + 1]
        /\ UNCHANGED m_deqConnections
     \/ /\ socket[c] = "closed"
        /\ m_deqConnections' = m_deqConnections \ {c}
        /\ UNCHANGED posted
  /\ UNCHANGED <<socket, ops, m_qMessagesIn, jobs, working, received, erased>>

(* MessageClient: if the client is closed, it resets its pointer and then  *)
(* searches the container for it, where there is no null pointer.          *)
MessageClient(c) ==
  /\ Called /\ Accepted(c) /\ Referenced(c)
  /\ \/ socket[c] = "open" /\ posted' = [posted EXCEPT ![c] = @ + 1]
     \/ socket[c] = "closed" /\ UNCHANGED posted
  /\ UNCHANGED <<socket, m_deqConnections, ops, m_qMessagesIn, jobs, working,
                 received, erased>>

Closed == {c \in m_deqConnections : socket[c] = "closed"}

(* A message for every client that is open.                                *)
SendToAll ==
  /\ posted' = [c \in Clients |->
                  IF c \in m_deqConnections \ Closed THEN posted[c] + 1 ELSE posted[c]]
  /\ erased' = erased \union Closed
  /\ UNCHANGED <<socket, ops, m_qMessagesIn, jobs, working, received>>

(* Mutant: bInvalidClientExists is not set, the null pointers stay.        *)
MessageAllClientsReset ==
  /\ Called /\ SendToAll
  /\ m_deqConnections' = (m_deqConnections \ Closed)
                           \union {Nobody : c \in Closed}

(* MessageAllClients: sends to the open ones and erases the closed ones.   *)
MessageAllClients ==
  /\ Called /\ SendToAll
  /\ m_deqConnections' = m_deqConnections \ Closed

ServiceNext ==
  \/ \E c \in Clients :
       \/ Knock(c) \/ GoAway(c) \/ Accept(c)
       \/ AddToIncomingMessageQueue(c) \/ Written(c) \/ Fails(c) \/ RunSend(c)
       \/ MessageClient(c)
  \/ Update
  \/ \E w \in Workers : StartWork(w) \/ EndWork(w)
  \/ MessageAllClients

(* What ends the process from inside: remote_endpoint() throws for a peer  *)
(* that is gone, on the io_service thread; or a handler runs whose         *)
(* connection was destroyed.                                               *)
ServiceDies ==
  \E c \in Clients : socket[c] = "gone" \/ (Pending(c) /\ ~Referenced(c))

(* The process ended: nothing of this is left.                             *)
ServiceLost ==
  /\ socket' = [c \in Clients |-> "none"]
  /\ m_deqConnections' = {}
  /\ ops' = [c \in Clients |-> {}]
  /\ posted' = [c \in Clients |-> 0]
  /\ m_qMessagesIn' = << >>
  /\ jobs' = << >>
  /\ working' = [w \in Workers |-> Nobody]
  /\ received' = [c \in Clients |-> 0]
  /\ calls' = 0
  /\ erased' = {}

ServiceTypeOK ==
  /\ socket \in [Clients -> Sockets]
  /\ m_deqConnections \subseteq Clients
  /\ ops \in [Clients -> SUBSET {"read", "write"}]
  /\ posted \in [Clients -> Nat]
  /\ m_qMessagesIn \in Seq(Clients)
  /\ jobs \in Seq(Clients)
  /\ working \in [Workers -> Clients \union {Nobody}]
  /\ received \in [Clients -> 0 .. MaxMessages]
  /\ calls \in 0 .. MaxCalls
  /\ erased \subseteq Clients

(* A handler that the io_service still has to run finds its connection:    *)
(* the answer of a pool thread may come after the client is gone and its   *)
(* messages are handled, and nothing but the container keeps it then.  So  *)
(* it holds only while closed connections stay in the container; the       *)
(* exception are those that MessageAllClients erased.                      *)
HandlersHaveConnection ==
  \A c \in Clients : Pending(c) => Referenced(c) \/ c \in erased

(* Why: an accepted connection never leaves the container otherwise.       *)
ContainerKeeps ==
  \A c \in Clients :
    /\ Accepted(c) <=> c \in m_deqConnections \/ c \in erased
    /\ Pending(c) \/ Referenced(c) => Accepted(c)

=============================================================================
