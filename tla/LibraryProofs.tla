---------------------------- MODULE LibraryProofs ---------------------------
(***************************************************************************)
(* Proofs of the safety properties of ClientInterface, for any number of   *)
(* calls of Connect, and of SeckeyShm, for any number of names, processes, *)
(* nodes and segments; and of Library: each part, whatever the subject is, *)
(* does what its own specification allows, so all that is proved of the    *)
(* parts holds of the whole.                                               *)
(***************************************************************************)
EXTENDS Library, ThreadPoolProofs, CryptoProofs, MsgCodecProofs

-----------------------------------------------------------------------------
(* The client's end.                                                       *)

(* A thread with a handler is in run(); a connection with operations was   *)
(* made.                                                                   *)
InRun ==
  /\ \A t \in Calls : busy[t] # 0 => t \in running
  /\ \A n \in Calls : pending[n] # {} => n <= made

(* The jthread stands for the only thread of the service, but while a call *)
(* of Connect waits for the thread before.                                 *)
OneThread ==
  running \subseteq {joinable} \union (IF user = "assigning" THEN {made} ELSE {})

(* Only the current connection has an open socket.                         *)
OneSocket == \A n \in Calls : socket[n] => n = current

(* The service stops when it runs out of work, and is stopped before its   *)
(* thread is joined.                                                       *)
StopsIdle ==
  /\ user \in {"joining", "gone"} => stopped
  /\ made > 0 /\ ~stopped => HasWork

(* Until a hasty Connect, the service is not stopped only for the first    *)
(* connection, and no handler is under way once it has stopped, unless     *)
(* Disconnect is about to join its thread.                                 *)
FirstOnly ==
  ~hasty =>
    /\ ~stopped => made <= 1
    /\ ~stopped /\ made = 1 => current = 1 /\ joinable = 1
    /\ stopped /\ user # "joining" => \A t \in Calls : busy[t] = 0
    /\ \A t \in Calls : busy[t] # 0 => t = joinable /\ busy[t] = current

ClientInv ==
  /\ ClientTypeOK /\ InRun /\ OneThread /\ OneSocket /\ StopsIdle
  /\ FirstOnly /\ NothingLeft

USE DEF Calls, Operations

(* The client before its first call has nothing to run.                    *)
LEMMA ClientInvInit == ASSUME ClientInit PROVE ClientInv
<1> USE ConnectsAssumption DEF ConnectsAssumption, ClientInit
<1>1. ClientTypeOK
      <2>1. /\ socket \in [Calls -> BOOLEAN] /\ flag \in [Calls -> BOOLEAN]
            /\ pending \in [Calls -> SUBSET Operations]
            OBVIOUS
      <2>2. busy \in [Calls -> 0 .. made] /\ made \in 0 .. MaxConnects
            OBVIOUS
      <2>3. leaving \in BOOLEAN /\ stopped \in BOOLEAN /\ hasty \in BOOLEAN
            BY Zenon
      <2>4. /\ user \in {"idle", "assigning", "stopping", "joining", "gone"}
            /\ current \in {0, made} /\ joinable \in 0 .. made
            /\ running \subseteq 1 .. made
            OBVIOUS
      <2> QED BY <2>1, <2>2, <2>3, <2>4, Zenon DEF ClientTypeOK
<1>2. InRun /\ OneThread /\ OneSocket
      BY DEF InRun, OneThread, OneSocket
<1>3. StopsIdle /\ FirstOnly /\ NothingLeft
      BY DEF StopsIdle, FirstOnly, NothingLeft
<1> QED BY <1>1, <1>2, <1>3 DEF ClientInv

(* Connect, which deletes the connection before and starts a thread.       *)
LEMMA ConnectStep == ASSUME ClientInv, Connect PROVE ClientInv'
<1> USE ConnectsAssumption DEF ConnectsAssumption, Connect, ClientInv
<1>1. /\ made' = made + 1 /\ made' \in Calls /\ current' = made'
      /\ running' = running \union {made'}
      /\ pending' = [pending EXCEPT ![made'] = {"connect"}]
      /\ socket' = [n \in Calls |-> IF n = current THEN FALSE
                                    ELSE socket[n] \/ n = made']
      BY DEF MakeConnection, StartThread, ClientTypeOK
<1>2. \/ joinable = 0 /\ joinable' = made' /\ user' = "idle"
      \/ joinable # 0 /\ joinable' = joinable /\ user' = "assigning"
      BY DEF StartThread
<1>3. ClientTypeOK'
      <2>1. pending' \in [Calls -> SUBSET Operations]
            BY <1>1 DEF ClientTypeOK
      <2>2. socket' \in [Calls -> BOOLEAN]
            BY <1>1 DEF ClientTypeOK
      <2>3. /\ joinable' \in 0 .. made' /\ running' \subseteq 1 .. made'
            /\ busy' \in [Calls -> 0 .. made']
            BY <1>1, <1>2 DEF ClientTypeOK
      <2>4. /\ leaving' \in BOOLEAN /\ stopped' \in BOOLEAN
            /\ hasty' \in BOOLEAN /\ flag' \in [Calls -> BOOLEAN]
            BY Zenon DEF ClientTypeOK
      <2>5. /\ user' \in {"idle", "assigning", "stopping", "joining", "gone"}
            /\ made' \in 0 .. MaxConnects /\ current' \in {0, made'}
            BY <1>1, <1>2
      <2> QED BY <2>1, <2>2, <2>3, <2>4, <2>5, Zenon DEF ClientTypeOK
<1>4. InRun'
      BY <1>1 DEF InRun, ClientTypeOK
<1>5. OneThread'
      BY <1>1, <1>2 DEF OneThread, ClientTypeOK
<1>6. OneSocket'
      BY <1>1 DEF OneSocket, ClientTypeOK
<1>7. StopsIdle'
      <2>1. pending'[made'] # {}
            BY <1>1 DEF ClientTypeOK
      <2> QED BY <1>1, <1>2, <2>1 DEF StopsIdle, HasWork
<1>8. FirstOnly'
      <2> SUFFICES ASSUME ~hasty' PROVE FirstOnly'
          BY DEF FirstOnly
      <2>1. stopped \/ made = 0
            <3>1. stopped \/ ~HasWork
                  BY Zenon
            <3>2. made \in Nat
                  BY DEF ClientTypeOK
            <3> QED BY <3>1, <3>2 DEF StopsIdle
      <2>2. \A t \in Calls : busy[t] = 0
            BY <2>1 DEF FirstOnly, ClientTypeOK
      <2>3. made = 0 => joinable = 0
            BY DEF ClientTypeOK
      <2> QED BY <1>1, <1>2, <2>1, <2>2, <2>3 DEF FirstOnly, ClientTypeOK
<1> QED BY <1>1, <1>2, <1>3, <1>4, <1>5, <1>6, <1>7, <1>8
        DEF NothingLeft

(* The other calls of the user.                                            *)
LEMMA CallStep ==
  ASSUME ClientInv,
         Send \/ Assigned \/ Stop \/ \E d \in BOOLEAN : Disconnect(d)
  PROVE  ClientInv'
<1> USE ConnectsAssumption DEF ConnectsAssumption, ClientInv
<1>1. ASSUME Send PROVE ClientInv'
      <2>1. current \in Calls /\ current = made
            BY <1>1 DEF Send, IsOpen, ClientTypeOK
      <2>2. pending' \in [Calls -> SUBSET Operations]
            BY <1>1, <2>1 DEF Send, ClientTypeOK
      <2>3. ClientTypeOK' /\ InRun' /\ OneThread' /\ OneSocket'
            BY <1>1, <2>1, <2>2
            DEF Send, ClientTypeOK, InRun, OneThread, OneSocket
      <2>4. StopsIdle'
            BY <1>1, <2>1 DEF Send, ClientTypeOK, StopsIdle, HasWork
      <2> QED BY <1>1, <2>3, <2>4
              DEF Send, FirstOnly, NothingLeft
<1>2. ASSUME Assigned PROVE ClientInv'
      <2>1. ClientTypeOK' /\ InRun' /\ OneThread' /\ OneSocket' /\ StopsIdle'
            BY <1>2 DEF Assigned, ClientTypeOK, InRun, OneThread, OneSocket,
                        StopsIdle, HasWork
      <2>2. FirstOnly'
            BY <1>2 DEF Assigned, ClientTypeOK, FirstOnly, InRun
      <2> QED BY <1>2, <2>1, <2>2 DEF Assigned, NothingLeft
<1>3. ASSUME Stop PROVE ClientInv'
      BY <1>3 DEF Stop, ClientTypeOK, InRun, OneThread, OneSocket, StopsIdle,
                  HasWork, FirstOnly, NothingLeft
<1>4. ASSUME NEW d \in BOOLEAN, Disconnect(d) PROVE ClientInv'
      <2>1. /\ pending' \in [Calls -> SUBSET Operations]
            /\ \A n \in Calls : pending[n] # {} => pending'[n] # {}
            /\ \A n \in Calls : pending'[n] # {} => n <= made
            BY <1>4 DEF Disconnect, IsOpen, ClientTypeOK, InRun
      <2>2. ClientTypeOK' /\ InRun' /\ OneThread' /\ OneSocket'
            BY <1>4, <2>1
            DEF Disconnect, ClientTypeOK, InRun, OneThread, OneSocket
      <2>3. StopsIdle'
            BY <1>4, <2>1 DEF Disconnect, StopsIdle, HasWork
      <2> QED BY <1>4, <2>2, <2>3
              DEF Disconnect, FirstOnly, NothingLeft
<1> QED BY <1>1, <1>2, <1>3, <1>4

(* The end of Disconnect and of the destructor.                            *)
LEMMA JoinStep == ASSUME ClientInv, Join PROVE ClientInv'
<1> USE ConnectsAssumption DEF ConnectsAssumption, ClientInv, Join,
        DeleteConnection
<1>1. running = {} /\ stopped
      BY DEF OneThread, StopsIdle
<1>2. ClientTypeOK'
      BY DEF ClientTypeOK
<1>3. InRun' /\ OneThread'
      BY <1>1 DEF ClientTypeOK, InRun, OneThread
<1>4. \A n \in Calls : ~socket'[n]
      BY DEF ClientTypeOK, OneSocket
<1>5. OneSocket' /\ NothingLeft'
      BY <1>1, <1>4 DEF OneSocket, NothingLeft
<1>6. StopsIdle'
      BY <1>1 DEF StopsIdle
<1>7. FirstOnly'
      BY <1>1 DEF FirstOnly, InRun
<1> QED BY <1>2, <1>3, <1>5, <1>6, <1>7

(* A thread begins a handler of a connection.                              *)
LEMMA HandlerStep ==
  ASSUME ClientInv, NEW t \in Calls, NEW n \in Calls,
         \/ ConnectDone(t, n) \/ ConnectFails(t, n) \/ ReadFails(t, n)
         \/ SendEnds(t, n) \/ RunClose(t, n)
  PROVE  ClientInv'
<1> USE ConnectsAssumption DEF ConnectsAssumption, ClientInv
<1>1. /\ t \in running /\ ~stopped /\ pending[n] # {}
      /\ busy' = [busy EXCEPT ![t] = n]
      /\ UNCHANGED <<user, leaving, made, current, joinable, running, stopped,
                     hasty>>
      /\ \E rest \in SUBSET Operations :
           pending' = [pending EXCEPT ![n] = rest]
      BY DEF ConnectDone, ConnectFails, ReadFails, SendEnds, RunClose, Runs,
             ClientTypeOK
<1>2. socket' = socket \/ socket' = [socket EXCEPT ![n] = FALSE]
      BY DEF ConnectDone, ConnectFails, ReadFails, SendEnds, RunClose
<1>3. flag' = flag \/ flag' = [flag EXCEPT ![n] = TRUE]
      BY DEF ConnectDone, ConnectFails, ReadFails, SendEnds, RunClose
<1>4. n <= made /\ made \in Nat /\ made > 0
      BY <1>1 DEF InRun, ClientTypeOK
<1>5. ClientTypeOK'
      <2>1. pending' \in [Calls -> SUBSET Operations]
            BY <1>1 DEF ClientTypeOK
      <2>2. busy' \in [Calls -> 0 .. made]
            BY <1>1, <1>4 DEF ClientTypeOK
      <2>3. socket' \in [Calls -> BOOLEAN] /\ flag' \in [Calls -> BOOLEAN]
            BY <1>2, <1>3 DEF ClientTypeOK
      <2> QED BY <1>1, <2>1, <2>2, <2>3 DEF ClientTypeOK
<1>6. InRun' /\ OneThread'
      BY <1>1, <1>4 DEF InRun, OneThread, ClientTypeOK
<1>7. OneSocket' /\ NothingLeft'
      BY <1>1, <1>2 DEF OneSocket, NothingLeft, ClientTypeOK
<1>8. busy'[t] # 0
      BY <1>1 DEF ClientTypeOK
<1>9. StopsIdle'
      BY <1>1, <1>8 DEF StopsIdle, HasWork
<1>10. ~hasty => made = 1 /\ n = 1 /\ t = 1 /\ current = 1 /\ joinable = 1
      BY <1>1, <1>4 DEF FirstOnly, ClientTypeOK
<1>11. FirstOnly'
      BY <1>1, <1>10 DEF FirstOnly, ClientTypeOK
<1> QED BY <1>5, <1>6, <1>7, <1>9, <1>11

(* A thread ends a handler or run().                                       *)
LEMMA ThreadStep ==
  ASSUME ClientInv, NEW t \in Calls, HandlerEnds(t) \/ ThreadEnds(t)
  PROVE  ClientInv'
<1> USE ConnectsAssumption DEF ConnectsAssumption, ClientInv
<1>1. ASSUME HandlerEnds(t) PROVE ClientInv'
      <2> USE <1>1 DEF HandlerEnds
      <2>1. ClientTypeOK' /\ InRun' /\ OneThread' /\ OneSocket'
            BY DEF ClientTypeOK, InRun, OneThread, OneSocket
      <2>2. ~stopped' => HasWork'
            BY DEF HasWork
      <2>3. StopsIdle'
            BY <2>2 DEF StopsIdle, ClientTypeOK
      <2>4. \A u \in Calls : busy'[u] # 0 => busy'[u] = busy[u]
            BY DEF ClientTypeOK
      <2>5. stopped' /\ ~stopped => \A u \in Calls : busy'[u] = 0
            <3> SUFFICES ASSUME stopped', ~stopped, NEW u \in Calls
                         PROVE  busy'[u] = 0
                OBVIOUS
            <3> QED BY DEF ClientTypeOK
      <2>6. FirstOnly'
            BY <2>4, <2>5 DEF FirstOnly
      <2> QED BY <2>1, <2>3, <2>6 DEF NothingLeft
<1>2. ASSUME ThreadEnds(t) PROVE ClientInv'
      BY <1>2 DEF ThreadEnds, ClientTypeOK, InRun, OneThread, OneSocket,
                  StopsIdle, HasWork, FirstOnly, NothingLeft
<1> QED BY <1>1, <1>2

(* Every call and every step of a thread keeps the invariant.              *)
LEMMA ClientInvStep ==
  ASSUME ClientInv, [ClientNext]_clientVars PROVE ClientInv'
<1>1. CASE UNCHANGED clientVars
      BY <1>1 DEF clientVars, ClientInv, ClientTypeOK, InRun, OneThread,
         OneSocket, StopsIdle, HasWork, FirstOnly,
         NothingLeft
<1>2. CASE ClientNext
      BY <1>2, ConnectStep, CallStep, JoinStep, HandlerStep, ThreadStep
      DEF ClientNext, Returns
<1> QED BY <1>1, <1>2

(* However calls and handlers follow each other, ClientInv holds.          *)
THEOREM ClientInvariant == ClientSpec => []ClientInv
BY ClientInvInit, ClientInvStep, PTL DEF ClientSpec

(* The client's variables have their types, whatever the order of its      *)
(* calls and of the handlers of its io_service.                            *)
THEOREM ClientTypes == ClientSpec => []ClientTypeOK
<1>1. ClientInv => ClientTypeOK
      BY DEF ClientInv
<1> QED BY <1>1, ClientInvariant, PTL

(* However often a client is connected and disconnected, no handler runs   *)
(* on a deleted connection, unless Connect is called on one in use.        *)
THEOREM ClientHandlersHaveObject == ClientSpec => []HandlersHaveObject
<1>1. ClientInv => HandlersHaveObject
      BY DEF ClientInv, FirstOnly, HandlersHaveObject, ClientTypeOK
<1> QED BY <1>1, ClientInvariant, PTL

(* The destructor leaves no thread and no open socket behind.              *)
THEOREM ClientLeavesNothing == ClientSpec => []NothingLeft
<1>1. ClientInv => NothingLeft
      BY DEF ClientInv
<1> QED BY <1>1, ClientInvariant, PTL

HIDE DEF Calls, Operations

-----------------------------------------------------------------------------
(* The shared memory.                                                      *)

Makes(o) == state[o] \in {"making", "owner"}

(* A segment has one maker, and a name by that maker's only.               *)
OneMaker ==
  \A o \in Objects :
    Makes(o) =>
      /\ \A q \in Objects : Makes(q) /\ segment[q] = segment[o] => q = o
      /\ \A n \in Names : names[n] = segment[o] => n = name[o]

(* No two names stand for one segment.                                     *)
OneName ==
  \A n, k \in Names : names[n] # None /\ names[n] = names[k] => n = k

(* What the owner of an array wrote is in its first nodes.                 *)
Recorded ==
  \A o \in Objects :
    /\ num_node_[o] = Len(written[o])
    /\ ~Owns(o) => num_node_[o] = 0
    /\ Owns(o) => \A i \in 1 .. num_node_[o] :
                    nodes[segment[o]][i] = written[o][i]

(* A segment has no memory or enough, and every mapping has enough.        *)
Backed ==
  /\ \A s \in Segments : size[s] = 0 \/ size[s] >= MaxNodes
  /\ \A o \in Objects :
       Live(o) => mapped[o] >= MaxNodes /\ size[segment[o]] >= MaxNodes

ShmInv ==
  /\ ShmTypeOK /\ OneMaker /\ OneName /\ Recorded /\ Backed /\ NameHasMaker

USE ShmAssumption DEF ShmAssumption, Extent

(* Before the first object there is no segment.                            *)
LEMMA ShmInvInit == ASSUME ShmInit PROVE ShmInv
<1> USE DEF ShmInit
<1>1. ShmTypeOK
      <2>1. nodes \in [Segments -> [Extent -> Nat]]
            BY DEF Zeroed
      <2>2. written \in [Objects -> Seq(Ids)]
            OBVIOUS
      <2> QED BY <2>1, <2>2 DEF ShmTypeOK
<1>2. Recorded
      BY DEF Recorded, Owns
<1>3. OneMaker /\ OneName /\ Backed /\ NameHasMaker
      BY DEF OneMaker, OneName, Backed, NameHasMaker, Makes, Live
<1> QED BY <1>1, <1>2, <1>3 DEF ShmInv

(* Create and Map make an array; the segment had no other user.            *)
LEMMA CreateStep ==
  ASSUME ShmInv, NEW o \in Objects, NEW n \in Names, Create(o, n)
  PROVE  ShmInv'
<1> USE DEF ShmInv, Create, Make
<1>1. PICK s \in Free : Make(o, n, s)
      OBVIOUS
<1>2. /\ s \in Segments /\ s # None
      /\ \A k \in Names : names[k] # s
      /\ \A q \in Objects : segment[q] # s
      BY DEF Free
<1>3. ShmTypeOK'
      BY <1>1, <1>2 DEF ShmTypeOK, array
<1>4. /\ \A q \in Objects \ {o} : /\ state'[q] = state[q]
                                  /\ segment'[q] = segment[q]
                                  /\ name'[q] = name[q]
      /\ state'[o] = "making" /\ segment'[o] = s /\ name'[o] = n
      /\ names'[n] = s /\ \A k \in Names \ {n} : names'[k] = names[k]
      BY <1>1 DEF ShmTypeOK
<1>5. OneMaker' /\ OneName' /\ NameHasMaker'
      BY <1>1, <1>2, <1>4
      DEF OneMaker, OneName, NameHasMaker, Makes
<1>6. Recorded'
      BY <1>1, <1>4 DEF Recorded, Owns, array
<1>7. Backed'
      BY <1>1, <1>2, <1>4 DEF Backed, Live, array, ShmTypeOK
<1> QED BY <1>3, <1>5, <1>6, <1>7

(* Mapping a segment gives its maker an array of zeros that it covers.     *)
LEMMA MapStep ==
  ASSUME ShmInv, NEW o \in Objects, Map(o)
  PROVE  ShmInv'
<1> USE DEF ShmInv, Map
<1>1. segment[o] \in Segments
      BY DEF ShmTypeOK
<1>2. ShmTypeOK'
      BY <1>1 DEF ShmTypeOK, Zeroed
<1>3. /\ \A q \in Objects \ {o} : /\ state'[q] = state[q]
                                  /\ mapped'[q] = mapped[q]
      /\ state'[o] = "owner" /\ mapped'[o] = MaxNodes
      BY DEF ShmTypeOK
<1>4. OneMaker' /\ OneName' /\ NameHasMaker'
      BY <1>3 DEF OneMaker, OneName, NameHasMaker, Makes
<1>5. Recorded'
      <2> SUFFICES ASSUME NEW q \in Objects
                   PROVE  /\ num_node_[q] = Len(written[q])
                          /\ state'[q] # "owner" => num_node_[q] = 0
                          /\ state'[q] = "owner" =>
                               \A i \in 1 .. num_node_[q] :
                                 nodes'[segment[q]][i] = written[q][i]
          BY DEF Recorded, Owns
      <2>1. CASE q = o
            BY <2>1, <1>3 DEF Recorded, Owns
      <2>2. CASE q # o
            <3>1. state[q] = "owner" => segment[q] # segment[o]
                  BY <2>2 DEF OneMaker, Makes
            <3> QED BY <2>2, <1>3, <3>1 DEF Recorded, Owns, ShmTypeOK
      <2> QED BY <2>1, <2>2
<1>6. Backed'
      BY <1>1, <1>3 DEF Backed, Live, ShmTypeOK
<1> QED BY <1>2, <1>4, <1>5, <1>6

(* An object is destroyed, with the name, or killed, without it.           *)
LEMMA GoneStep ==
  ASSUME ShmInv, NEW o \in Objects, Abandon(o) \/ Destroy(o)
  PROVE  ShmInv'
<1> USE DEF ShmInv
<1>1. Gone(o) /\ state[o] # "none" /\ size' = size
      BY DEF Abandon, Destroy, Live
<1>2. /\ \A q \in Objects \ {o} : /\ state'[q] = state[q]
                                  /\ segment'[q] = segment[q]
                                  /\ mapped'[q] = mapped[q]
                                  /\ num_node_'[q] = num_node_[q]
                                  /\ written'[q] = written[q]
      /\ state'[o] = "none" /\ num_node_'[o] = 0 /\ written'[o] = << >>
      /\ nodes' = nodes /\ name' = name
      BY <1>1 DEF Gone, ShmTypeOK
<1>3. /\ \A n \in Names : names'[n] \in {names[n], None}
      /\ left \subseteq left' /\ left' \subseteq Segments
      BY DEF Abandon, Destroy, RemoveName, ShmTypeOK
<1>4. ShmTypeOK'
      <2>1. /\ state' \in [Objects -> {"none", "making", "owner", "opener"}]
            /\ segment' \in [Objects -> Segments \union {None}]
            /\ \A q \in Objects : state'[q] = "none" <=> segment'[q] = None
            BY <1>1 DEF Gone, ShmTypeOK
      <2>2. /\ mapped' \in [Objects -> Nat]
            /\ num_node_' \in [Objects -> 0 .. MaxNodes]
            BY <1>1 DEF Gone, ShmTypeOK
      <2>3. written' \in [Objects -> Seq(Ids)]
            BY <1>1 DEF Gone, ShmTypeOK
      <2>4. names' \in [Names -> Segments \union {None}]
            BY DEF Abandon, Destroy, RemoveName, ShmTypeOK
      <2> QED BY <1>1, <1>2, <1>3, <2>1, <2>2, <2>3, <2>4 DEF ShmTypeOK
<1>5. OneMaker' /\ OneName'
      <2>1. \A q \in Objects : Makes(q)' => /\ q # o /\ Makes(q)
                                            /\ segment'[q] = segment[q]
                                            /\ segment[q] # None
            BY <1>2 DEF Makes, ShmTypeOK
      <2>2. OneMaker'
            BY <2>1, <1>2, <1>3 DEF OneMaker
      <2>3. OneName'
            BY <1>3 DEF OneName
      <2> QED BY <2>2, <2>3
<1>6. Recorded'
      BY <1>2 DEF Recorded, Owns
<1>7. Backed'
      BY <1>1, <1>2 DEF Backed, Live
<1>8. NameHasMaker'
      <2> SUFFICES ASSUME NEW n \in Names, names'[n] # None
                   PROVE  \/ names'[n] \in left'
                          \/ \E q \in Objects : Makes(q)' /\ segment'[q] = names'[n]
          BY DEF NameHasMaker, Makes
      <2>1. names'[n] = names[n]
            BY <1>3
      <2>2. CASE names[n] \in left
            BY <2>1, <2>2, <1>3
      <2>3. ASSUME NEW q \in Objects, Makes(q), segment[q] = names[n]
            PROVE  names'[n] \in left' \/ (q # o)
            <3> SUFFICES ASSUME q = o PROVE names'[n] \in left'
                OBVIOUS
            <3>1. n = name[o]
                  BY <2>3 DEF OneMaker
            <3>2. Abandon(o)
                  BY <2>1, <3>1 DEF Destroy, RemoveName, ShmTypeOK
            <3> QED BY <2>1, <2>3, <3>2 DEF Abandon, Makes
      <2> QED BY <2>1, <2>2, <2>3, <1>2 DEF NameHasMaker, Makes
<1> QED BY <1>4, <1>5, <1>6, <1>7, <1>8

(* Opening takes the segment that has the name.                            *)
LEMMA OpenStep ==
  ASSUME ShmInv, NEW o \in Objects, NEW n \in Names, Open(o, n)
  PROVE  ShmInv'
<1> USE DEF ShmInv, Open, file, array
<1>1. names[n] \in Segments /\ size[names[n]] >= MaxNodes
      BY DEF ShmTypeOK, Backed
<1>2. ShmTypeOK'
      BY <1>1 DEF ShmTypeOK
<1>3. /\ \A q \in Objects \ {o} : /\ state'[q] = state[q]
                                  /\ segment'[q] = segment[q]
                                  /\ mapped'[q] = mapped[q]
                                  /\ name'[q] = name[q]
      /\ state'[o] = "opener" /\ segment'[o] = names[n]
      /\ mapped'[o] = size[names[n]]
      BY DEF ShmTypeOK
<1>4. OneMaker' /\ OneName' /\ NameHasMaker'
      BY <1>3 DEF OneMaker, OneName, NameHasMaker, Makes
<1>5. Recorded'
      BY <1>3 DEF Recorded, Owns
<1>6. Backed'
      BY <1>1, <1>3 DEF Backed, Live
<1> QED BY <1>2, <1>4, <1>5, <1>6

(* Write puts a node behind those of its object.                           *)
LEMMA WriteStep ==
  ASSUME ShmInv, NEW o \in Objects, NEW id \in Ids, Write(o, id)
  PROVE  ShmInv'
<1> USE DEF ShmInv, Write, file, object
<1>1. /\ segment[o] \in Segments /\ id \in Nat
      /\ num_node_[o] \in Nat /\ num_node_'[o] = num_node_[o] + 1
      /\ num_node_'[o] \in Extent
      BY DEF ShmTypeOK, Owns
<1>2. ShmTypeOK'
      <2>1. nodes' \in [Segments -> [Extent -> Nat]]
            BY <1>1 DEF ShmTypeOK
      <2>2. num_node_' \in [Objects -> 0 .. MaxNodes]
            BY <1>1 DEF ShmTypeOK
      <2>3. written' \in [Objects -> Seq(Ids)]
            BY DEF ShmTypeOK
      <2> QED BY <2>1, <2>2, <2>3 DEF ShmTypeOK
<1>3. OneMaker' /\ OneName' /\ NameHasMaker' /\ Backed'
      BY DEF OneMaker, OneName, NameHasMaker, Makes, Backed, Live
<1>4. Recorded'
      <2> SUFFICES ASSUME NEW q \in Objects
                   PROVE  /\ num_node_'[q] = Len(written'[q])
                          /\ state[q] # "owner" => num_node_'[q] = 0
                          /\ state[q] = "owner" =>
                               \A i \in 1 .. num_node_'[q] :
                                 nodes'[segment[q]][i] = written'[q][i]
          BY DEF Recorded, Owns
      <2>1. CASE q = o
            <3>1. /\ written[o] \in Seq(Ids) /\ num_node_[o] = Len(written[o])
                  /\ written'[o] = Append(written[o], id)
                  BY DEF ShmTypeOK, Recorded
            <3>2. nodes'[segment[o]] =
                    [nodes[segment[o]] EXCEPT ![num_node_[o] + 1] = id]
                  BY <1>1 DEF ShmTypeOK
            <3>3. nodes[segment[o]] \in [Extent -> Nat]
                  BY <1>1 DEF ShmTypeOK
            <3>4. \A i \in 1 .. num_node_[o] :
                    nodes[segment[o]][i] = written[o][i]
                  BY DEF Recorded
            <3> QED BY <2>1, <1>1, <3>1, <3>2, <3>3, <3>4 DEF Owns
      <2>2. CASE q # o
            <3>1. state[q] = "owner" => segment[q] # segment[o]
                  BY <2>2 DEF OneMaker, Makes, Owns
            <3>2. /\ num_node_'[q] = num_node_[q] /\ written'[q] = written[q]
                  /\ state[q] = "owner" =>
                       nodes'[segment[q]] = nodes[segment[q]]
                  BY <2>2, <3>1 DEF ShmTypeOK
            <3>3. /\ num_node_[q] = Len(written[q])
                  /\ state[q] # "owner" => num_node_[q] = 0
                  /\ state[q] = "owner" =>
                       \A i \in 1 .. num_node_[q] :
                         nodes[segment[q]][i] = written[q][i]
                  BY DEF Recorded, Owns
            <3> QED BY ONLY <3>2, <3>3
      <2> QED BY <2>1, <2>2
<1> QED BY <1>2, <1>3, <1>4

(* The operations on an array or on a name that there is.                  *)
LEMMA OtherStep ==
  ASSUME ShmInv, NEW o \in Objects,
         \/ Reset(o) \/ DeleteShm(o)
         \/ \E length \in 1 .. MaxSize : Truncate(o, length)
  PROVE  ShmInv'
<1> USE DEF ShmInv, file, object, array
<1>1. ASSUME Reset(o) PROVE ShmInv'
      <2>1. written' \in [Objects -> Seq(Ids)]
            BY <1>1 DEF Reset, ShmTypeOK
      <2>2. ShmTypeOK'
            BY <1>1, <2>1 DEF Reset, ShmTypeOK
      <2>3. /\ \A q \in Objects \ {o} : /\ num_node_'[q] = num_node_[q]
                                        /\ written'[q] = written[q]
            /\ num_node_'[o] = 0 /\ written'[o] = << >>
            BY <1>1 DEF Reset, ShmTypeOK
      <2>4. Recorded'
            BY <1>1, <2>3 DEF Reset, Recorded, Owns
      <2> QED BY <1>1, <2>2, <2>4 DEF Reset, OneMaker, OneName, NameHasMaker,
              Makes, Backed, Live
<1>2. ASSUME DeleteShm(o) PROVE ShmInv'
      <2>1. \A n \in Names : names'[n] \in {names[n], None}
            BY <1>2 DEF DeleteShm, RemoveName, ShmTypeOK
      <2>2. ShmTypeOK'
            BY <1>2 DEF DeleteShm, RemoveName, ShmTypeOK
      <2>3. OneMaker' /\ OneName'
            BY <1>2, <2>1 DEF DeleteShm, OneMaker, OneName, Makes, ShmTypeOK
      <2>4. NameHasMaker'
            BY <1>2, <2>1 DEF DeleteShm, NameHasMaker
      <2> QED BY <1>2, <2>2, <2>3, <2>4
              DEF DeleteShm, Recorded, Owns, Backed, Live
<1>3. ASSUME NEW length \in 1 .. MaxSize, Truncate(o, length) PROVE ShmInv'
      <2>1. segment[o] \in Segments /\ mapped[o] + length >= MaxNodes
            BY <1>3 DEF Truncate, ShmTypeOK, Live, Backed
      <2>2. ShmTypeOK'
            <3>1. mapped[o] + length \in Nat
                  BY <1>3 DEF ShmTypeOK
            <3>2. size' \in [Segments -> Nat]
                  BY <1>3, <3>1 DEF Truncate, ShmTypeOK
            <3> QED BY <1>3, <3>2 DEF Truncate, ShmTypeOK
      <2>3. Backed'
            BY <1>3, <2>1 DEF Truncate, Backed, Live, ShmTypeOK
      <2> QED BY <1>3, <2>2, <2>3 DEF Truncate, OneMaker, OneName,
              NameHasMaker, Makes, Recorded, Owns
<1> QED BY <1>1, <1>2, <1>3

(* Every operation of every process keeps the invariant.                   *)
LEMMA ShmInvStep == ASSUME ShmInv, [ShmNext]_shmVars PROVE ShmInv'
<1>1. CASE UNCHANGED shmVars
      BY <1>1 DEF shmVars, ShmInv, ShmTypeOK, OneMaker, OneName, Recorded,
         Backed, NameHasMaker, Makes, Owns, Live
<1>2. CASE ShmNext
      BY <1>2, CreateStep, MapStep, GoneStep, OpenStep, WriteStep, OtherStep
      DEF ShmNext
<1> QED BY <1>1, <1>2

(* Whatever processes make, open, resize, remove or are killed, ShmInv     *)
(* holds.                                                                  *)
THEOREM ShmInvariant == ShmSpec => []ShmInv
BY ShmInvInit, ShmInvStep, PTL DEF ShmSpec

(* Variables of all processes and of the memory have their types.          *)
THEOREM ShmTypes == ShmSpec => []ShmTypeOK
<1>1. ShmInv => ShmTypeOK
      BY DEF ShmInv
<1> QED BY <1>1, ShmInvariant, PTL

(* Find returns the oldest node of that id which its object wrote since    *)
(* Reset, whatever the memory held and other processes do.                 *)
THEOREM ShmFindsFirst == ShmSpec => []FindsFirst
<1>1. ShmInv => FindsFirst
      <2> SUFFICES ASSUME ShmInv, NEW o \in Objects, NEW id \in Ids, Owns(o)
                   PROVE  LET found == Find(o, id)
                              same == {i \in DOMAIN written[o] :
                                         written[o][i] = id}
                          IN  IF same = {} THEN found = 0
                              ELSE /\ found \in same
                                   /\ \A i \in same : found <= i
          BY DEF FindsFirst
      <2> DEFINE same == {i \in DOMAIN written[o] : written[o][i] = id}
      <2>1. /\ num_node_[o] = Len(written[o])
            /\ \A i \in 1 .. num_node_[o] : nodes[segment[o]][i] = written[o][i]
            BY DEF ShmInv, Recorded
      <2>2. DOMAIN written[o] = 1 .. num_node_[o]
            BY <2>1 DEF ShmInv, ShmTypeOK
      <2>3. Matches(o, id) = same
            BY <2>1, <2>2 DEF Matches, Searched
      <2>4. same \subseteq Nat
            BY <2>2 DEF ShmInv, ShmTypeOK
      <2>5. same # {} => \E i \in same : \A j \in same : i <= j
            BY <2>4, LeastNumber, Zenon
      <2> QED BY <2>3, <2>5 DEF Find
<1> QED BY <1>1, ShmInvariant, PTL

(* No array is without memory behind it.                                   *)
THEOREM ShmArrayBacked == ShmSpec => []ArrayBacked
<1>1. ShmInv => ArrayBacked
      BY DEF ShmInv, Backed, ArrayBacked
<1> QED BY <1>1, ShmInvariant, PTL

(* Only a maker that was killed or failed leaves a name behind.            *)
THEOREM ShmNameHasMaker == ShmSpec => []NameHasMaker
<1>1. ShmInv => NameHasMaker
      BY DEF ShmInv
<1> QED BY <1>1, ShmInvariant, PTL

HIDE ShmAssumption DEF ShmAssumption, Extent

-----------------------------------------------------------------------------
(* The whole.  What begins it begins each part, and each of its steps is a *)
(* step of a part, or of none, as that part sees it.                       *)
LEMMA PartsBegin ==
  ASSUME Init
  PROVE  ClientInit /\ PoolInit /\ ShmInit /\ RSAInit /\ HashInit /\ CodecInit
BY DEF Init

(* A step of a part leaves the variables of the others alone.              *)
LEMMA PartsStep ==
  ASSUME [Next]_vars
  PROVE  /\ [ClientNext]_clientVars /\ [PoolNext]_poolVars /\ [ShmNext]_shmVars
         /\ [RSANext]_rsaVars /\ [HashNext]_hashVars /\ [CodecNext]_codecVars
         /\ UNCHANGED subject
<1>1. CASE UNCHANGED vars
  BY <1>1 DEF vars
<1>2. CASE Client(ClientNext)
  BY <1>2 DEF Client
<1>3. CASE Shm(ShmNext)
  BY <1>3 DEF Shm
<1>4. CASE Keys(RSANext)
  BY <1>4 DEF Keys
<1>5. CASE Digests(HashNext)
  BY <1>5 DEF Digests
<1>6. CASE Codec(CodecNext)
  BY <1>6 DEF Codec
<1>7. CASE Pool(PoolNext)
  BY <1>7 DEF Pool
<1> QED BY <1>1, <1>2, <1>3, <1>4, <1>5, <1>6, <1>7 DEF Next

(* Every behaviour of the library is one of each of its parts.             *)
THEOREM LibraryIsItsParts ==
  Spec => ClientSpec /\ PoolSpec /\ ShmSpec /\ RSASpec /\ HashSpec /\ CodecSpec
BY PartsBegin, PartsStep, PTL
   DEF Spec, ClientSpec, PoolSpec, ShmSpec, RSASpec, HashSpec, CodecSpec

(* Every variable of every part has its type, whatever the subject.        *)
THEOREM LibraryTypes == Spec => []TypeOK
<1>1. Init => subject \in Subjects
  BY DEF Init
<1>2. subject \in Subjects /\ [Next]_vars => (subject \in Subjects)'
  BY PartsStep
<1>3. Spec => [](subject \in Subjects)
  BY <1>1, <1>2, PTL DEF Spec
<1>4. /\ subject \in Subjects /\ ClientTypeOK /\ PoolTypeOK /\ ShmTypeOK
      /\ RSATypeOK /\ HashTypeOK /\ CodecTypeOK
      => TypeOK
  BY DEF TypeOK
<1> QED BY <1>3, <1>4, LibraryIsItsParts, ClientTypes, PoolTypes, ShmTypes,
           RSATypes, HashTypes, CodecTypeCorrect, PTL

(* Each part keeps what its own theorems say of it.                        *)
THEOREM LibraryPartsCorrect ==
  Spec => [](/\ HandlersHaveObject /\ NothingLeft
             /\ TakesATask /\ EachTaskOnce /\ WorkConserved
             /\ FindsFirst /\ ArrayBacked /\ NameHasMaker
             /\ PointersValid /\ HalvesMatch /\ DefinedUnlessRefused
             /\ AcceptsTheSigned
             /\ DecodedIsSent /\ NothingFromBefore /\ SizesAgree)
BY LibraryIsItsParts, ClientHandlersHaveObject, ClientLeavesNothing,
   BackFindsTask, TasksRunOnce, TasksHaveWorkers, ShmFindsFirst,
   ShmArrayBacked, ShmNameHasMaker, RSAPointersValid, RSAHalvesMatch,
   RSADefinedUnlessRefused, HashAcceptsTheSigned, DecodedAsSent,
   NoneFromBefore, SizesRight, PTL

=============================================================================
