-------------------------- MODULE ClientInterface --------------------------
(***************************************************************************)
(* mine_net::ClientInterface: the life of its connections, its io_service  *)
(* and the threads that run the service, while the user of the object      *)
(* calls Connect, Send, Disconnect and the destructor.  The n-th call of   *)
(* Connect makes connection n and thread n.                                *)
(*                                                                         *)
(* A connection is known by the kinds of its operations on the service;    *)
(* what they carry is in Connection.  Connect is one step up to the        *)
(* assignment of the jthread, which may have to join an older one.         *)
(***************************************************************************)
EXTENDS Naturals

CONSTANT MaxConnects  \* bound on the calls of Connect

ASSUME ConnectsAssumption == MaxConnects \in Nat

Calls == 1 .. MaxConnects
Operations == {"connect", "read", "send", "close"}

VARIABLES
  user,      \* what the user's thread is in: "idle", a call, "gone"
  leaving,   \* the destructor has been called
  made,      \* calls of Connect so far
  current,   \* m_connection, 0 if null
  joinable,  \* the thread that thrIOService stands for, 0 if none
  running,   \* threads in m_service.run()
  socket,    \* m_socket of each connection is open
  flag,      \* m_connectionFlag of each connection
  pending,   \* the operations of each connection that m_service has
  stopped,   \* m_service is stopped; only restart() would change that
  busy,      \* the connection whose handler each thread runs, 0 if none
  hasty      \* history: Connect was called while the service had work

clientVars == <<user, leaving, made, current, joinable, running, socket, flag,
                pending, stopped, busy, hasty>>

ClientInit ==
  /\ user = "idle" /\ leaving = FALSE
  /\ made = 0 /\ current = 0 /\ joinable = 0 /\ running = {}
  /\ socket = [n \in Calls |-> FALSE] /\ flag = [n \in Calls |-> FALSE]
  /\ pending = [n \in Calls |-> {}]
  /\ stopped = FALSE
  /\ busy = [t \in Calls |-> 0]
  /\ hasty = FALSE

HasWork == \E n \in Calls : pending[n] # {} \/ busy[n] # 0

-----------------------------------------------------------------------------
(* Mutant: a connection that is there is used again.                       *)
MakeConnectionOnce ==
  /\ made' = made + 1
  /\ current' = IF current = 0 THEN made' ELSE current
  /\ socket' = [socket EXCEPT ![current'] = TRUE]
  /\ pending' = [pending EXCEPT ![current'] = @ \union {"connect"}]

(* The new connection replaces the old, which is deleted; async_connect    *)
(* opens its socket.                                                       *)
MakeConnection ==
  /\ made' = made + 1
  /\ current' = made'
  /\ socket' = [n \in Calls |-> IF n = current THEN FALSE
                                ELSE socket[n] \/ n = made']
  /\ pending' = [pending EXCEPT ![made'] = {"connect"}]

(* A new thread runs the service; the old one is joined if there is one.   *)
StartThread ==
  /\ running' = running \union {made'}
  /\ IF joinable = 0 THEN joinable' = made' /\ UNCHANGED user
     ELSE user' = "assigning" /\ UNCHANGED joinable

(* If the address is resolved; if not, nothing happens.                    *)
Connect ==
  /\ user = "idle" /\ ~leaving /\ made < MaxConnects
  /\ MakeConnection
  /\ StartThread
  /\ hasty' = (hasty \/ (~stopped /\ HasWork))
  /\ UNCHANGED <<leaving, flag, stopped, busy>>

(* The assignment has joined the old thread; Connect returns true.         *)
Assigned ==
  /\ user = "assigning" /\ joinable \notin running
  /\ joinable' = made
  /\ user' = "idle"
  /\ UNCHANGED <<leaving, made, current, running, socket, flag, pending, stopped,
                 busy, hasty>>

IsOpen == current # 0 /\ socket[current]

Send ==
  /\ user = "idle" /\ ~leaving /\ IsOpen
  /\ pending' = [pending EXCEPT ![current] = @ \union {"send"}]
  /\ UNCHANGED <<user, leaving, made, current, joinable, running, socket, flag,
                 stopped, busy, hasty>>

(* Disconnect, by the user or the destructor: the close of an open socket  *)
(* is posted ...                                                           *)
Disconnect(destructor) ==
  /\ user = "idle" /\ ~leaving
  /\ leaving' = destructor
  /\ pending' = IF IsOpen THEN [pending EXCEPT ![current] = @ \union {"close"}]
                ELSE pending
  /\ user' = "stopping"
  /\ UNCHANGED <<made, current, joinable, running, socket, flag, stopped, busy, hasty>>

(* Mutant: the io_service is left to finish its work.                      *)
StopNothing ==
  /\ user = "stopping"
  /\ user' = "joining"
  /\ UNCHANGED <<leaving, made, current, joinable, running, socket, flag, pending,
                 stopped, busy, hasty>>

(* ... the io_service is stopped, with whatever it has ...                 *)
Stop ==
  /\ user = "stopping"
  /\ stopped' = TRUE
  /\ user' = "joining"
  /\ UNCHANGED <<leaving, made, current, joinable, running, socket, flag, pending,
                 busy, hasty>>

(* The connection is deleted; the destructor goes on to the io_service,    *)
(* which drops the handlers it has not run.                                *)
DeleteConnection ==
  /\ current' = 0
  /\ socket' = [n \in Calls |-> socket[n] /\ n # current]
  /\ user' = IF leaving THEN "gone" ELSE "idle"
  /\ pending' = IF leaving THEN [n \in Calls |-> {}] ELSE pending

(* Mutant: the thread is joined after the connection is deleted, that is   *)
(* by the destructor of the jthread.                                       *)
JoinLate ==
  /\ user = "joining"
  /\ DeleteConnection
  /\ UNCHANGED <<leaving, made, joinable, running, flag, stopped, busy, hasty>>

(* ... and its thread is joined before the connection is deleted.          *)
Join ==
  /\ user = "joining" /\ joinable \notin running
  /\ joinable' = 0
  /\ DeleteConnection
  /\ UNCHANGED <<leaving, made, running, flag, stopped, busy, hasty>>

-----------------------------------------------------------------------------
(* Thread t of the service runs a handler of connection n, after which the *)
(* operations in rest remain.                                              *)
Runs(t, n, op, rest) ==
  /\ t \in running /\ busy[t] = 0 /\ ~stopped
  /\ op \in pending[n]
  /\ pending' = [pending EXCEPT ![n] = rest]
  /\ busy' = [busy EXCEPT ![t] = n]
  /\ UNCHANGED <<user, leaving, made, current, joinable, running, stopped, hasty>>

(* The flag is set and the handshake is read.                              *)
ConnectDone(t, n) ==
  /\ socket[n]
  /\ Runs(t, n, "connect", (pending[n] \ {"connect"}) \union {"read"})
  /\ flag' = [flag EXCEPT ![n] = TRUE]
  /\ UNCHANGED socket

(* The handler does nothing; the socket stays open.                        *)
ConnectFails(t, n) ==
  /\ Runs(t, n, "connect", pending[n] \ {"connect"})
  /\ UNCHANGED <<socket, flag>>

(* The peer, the network or a close ends the reads.                        *)
ReadFails(t, n) ==
  /\ Runs(t, n, "read", pending[n] \ {"read"})
  /\ socket' = [socket EXCEPT ![n] = FALSE]
  /\ UNCHANGED flag

(* The last posted or written message is done; a failure closes the socket. *)
SendEnds(t, n) ==
  /\ Runs(t, n, "send", pending[n] \ {"send"})
  /\ socket' \in {socket, [socket EXCEPT ![n] = FALSE]}
  /\ UNCHANGED flag

RunClose(t, n) ==
  /\ Runs(t, n, "close", pending[n] \ {"close"})
  /\ socket' = [socket EXCEPT ![n] = FALSE]
  /\ UNCHANGED flag

(* It returns; a service without work stops itself.                        *)
HandlerEnds(t) ==
  /\ busy[t] # 0
  /\ busy' = [busy EXCEPT ![t] = 0]
  /\ stopped' = (stopped \/ \A n \in Calls : pending[n] = {} /\ busy'[n] = 0)
  /\ UNCHANGED <<user, leaving, made, current, joinable, running, socket, flag,
                 pending, hasty>>

(* run() returns once the service is stopped, at once if it was before.    *)
ThreadEnds(t) ==
  /\ t \in running /\ busy[t] = 0 /\ stopped
  /\ running' = running \ {t}
  /\ UNCHANGED <<user, leaving, made, current, joinable, socket, flag, pending,
                 stopped, busy, hasty>>

Returns == Assigned \/ Stop \/ Join

ClientNext ==
  \/ Connect \/ Send \/ Returns
  \/ \E destructor \in BOOLEAN : Disconnect(destructor)
  \/ \E t \in Calls :
       \/ \E n \in Calls : \/ ConnectDone(t, n) \/ ConnectFails(t, n)
                           \/ ReadFails(t, n) \/ SendEnds(t, n) \/ RunClose(t, n)
       \/ HandlerEnds(t) \/ ThreadEnds(t)

ClientSpec == ClientInit /\ [][ClientNext]_clientVars

(* A call that can go on does, and a thread goes on with its handler and   *)
(* to its end; the network and the user's calls owe nothing.               *)
ClientFairness ==
  /\ WF_clientVars(Returns)
  /\ \A t \in Calls : WF_clientVars(HandlerEnds(t) \/ ThreadEnds(t))

-----------------------------------------------------------------------------
(* Every variable has its type; numbers refer to calls that were made.     *)
ClientTypeOK ==
  /\ user \in {"idle", "assigning", "stopping", "joining", "gone"}
  /\ leaving \in BOOLEAN /\ stopped \in BOOLEAN
  /\ hasty \in BOOLEAN
  /\ made \in 0 .. MaxConnects
  /\ current \in {0, made}
  /\ joinable \in 0 .. made
  /\ running \subseteq 1 .. made
  /\ socket \in [Calls -> BOOLEAN] /\ flag \in [Calls -> BOOLEAN]
  /\ pending \in [Calls -> SUBSET Operations]
  /\ busy \in [Calls -> 0 .. made]

(* No handler of the io_service runs on a connection that Disconnect, the  *)
(* destructor or a later Connect deleted, but where Connect was called     *)
(* while the connection before was in use.                                 *)
HandlersHaveObject == \A t \in Calls : busy[t] \in {0, current} \/ hasty

(* "Connect to the server by host name/ip address and port", and "start    *)
(* the io_service thread": once Connect has returned true the connect that *)
(* it began is under way, with a service and a thread to complete it.      *)
(* This fails: a service that was stopped, by a Disconnect or for want of  *)
(* work after a failed connect or a lost connection, is never restarted.   *)
ConnectUnderWay ==
  user = "idle" /\ current # 0 /\ "connect" \in pending[current] =>
    ~stopped /\ joinable \in running

(* When the destructor is done no thread uses the object and no socket is  *)
(* open, whether the posted close ran before the service stopped or not.   *)
NothingLeft ==
  user = "gone" => running = {} /\ current = 0 /\ \A n \in Calls : ~socket[n]

(* Disconnect and the destructor return whatever the network does; so does *)
(* Connect unless it replaces a connection in use, whose thread it joins.  *)
CallsEnd ==
  user \in {"assigning", "stopping", "joining"} ~>
    user \in {"idle", "gone"} \/ hasty

=============================================================================
