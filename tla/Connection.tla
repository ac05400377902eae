----------------------------- MODULE Connection -----------------------------
(***************************************************************************)
(* mine_net::Connection: the two ends of one TCP connection, the server's  *)
(* and the client's.  Each end has an io_service with one thread, which    *)
(* runs posted functions and completion handlers one at a time; reads and  *)
(* writes are in progress between their start and their handler.           *)
(*                                                                         *)
(* A header and a handshake value are eight bytes each; a body follows its *)
(* header.  These are the units that travel: async_read and async_write    *)
(* complete when a unit is complete.  Abstracted: the value of the         *)
(* challenge, Scramble, the message type (a message is known by its number *)
(* in the order of Send) and the bytes of a body, which has the number of  *)
(* the message it was sent in: no two bodies of one end are the same.      *)
(***************************************************************************)
EXTENDS Naturals, Sequences

CONSTANTS
  Patient,     \* TRUE: the client sends nothing before the handshake is over
  Unreliable,  \* TRUE: ends disconnect and the network fails
  MaxSends     \* bound on the messages an end sends

ASSUME ConnectionAssumption ==
  /\ Patient \in BOOLEAN /\ Unreliable \in BOOLEAN
  /\ MaxSends \in Nat

Sides == {"server", "client"}
Peer(s) == CHOOSE p \in Sides : p # s

NoBody == 0  \* a message of a header only (size 0)
Message == [id : 1 .. MaxSends, body : 0 .. MaxSends]
Close == [id |-> 0, body |-> NoBody]
Writes == {"validation", "header", "body"}

(* Units on the wire.                                                      *)
Challenge == [type |-> "challenge"]
Response == [type |-> "response"]
Header(m) == [type |-> "header", id |-> m.id, empty |-> m.body = NoBody]
Body(m) == [type |-> "body", body |-> m.body]
Unit == {Challenge, Response} \union {Header(m) : m \in Message}
          \union {Body(m) : m \in Message}

VARIABLES
  open,        \* m_socket is open
  linked,      \* the accept and the connect: "yes" is m_connectionFlag
  posted,      \* functions posted to the io_service: a message to send, Close
  m_qMessagesOut,
  writing,     \* writes started whose handler has not run, oldest first
  put,         \* how many of them are on the wire
  stream,      \* units on their way from this end
  reading,     \* the read in progress
  m_msgTemporaryIn,
  network,     \* "up", "reset" by an end that closed, or "lost" unnoticed
  handshake,   \* what the server made of the client's reply
  sent,        \* history: messages in the order of Send
  delivered    \* history: messages pushed to m_qMessagesIn

vars == <<open, linked, posted, m_qMessagesOut, writing, put, stream, reading,
          m_msgTemporaryIn, network, handshake, sent, delivered>>

output == <<posted, m_qMessagesOut, writing, put, sent>>
input == <<reading, m_msgTemporaryIn, delivered, handshake>>

Init ==
  /\ open = [s \in Sides |-> TRUE]
  /\ linked = [s \in Sides |-> "no"]
  /\ posted = [s \in Sides |-> << >>]
  /\ m_qMessagesOut = [s \in Sides |-> << >>]
  /\ writing = [s \in Sides |-> << >>]
  /\ put = [s \in Sides |-> 0]
  /\ stream = [s \in Sides |-> << >>]
  /\ reading = [s \in Sides |-> "none"]
  /\ m_msgTemporaryIn = [s \in Sides |-> [id |-> 0, body |-> NoBody]]
  /\ network = "up"
  /\ handshake = "pending"
  /\ sent = [s \in Sides |-> << >>]
  /\ delivered = [s \in Sides |-> << >>]

Linked(s) == linked[s] = "yes"
Connected(s, how) ==
  linked[s] = "no" /\ linked' = [linked EXCEPT ![s] = how]
Shut(s) == open' = [open EXCEPT ![s] = FALSE]
Read(s, what) == reading' = [reading EXCEPT ![s] = what]

-----------------------------------------------------------------------------
(* The server's accept handler.                                            *)
ConnectToClient ==
  /\ Connected("server", "yes")
  /\ writing' = [writing EXCEPT !["server"] = <<"validation">>]
  /\ Read("server", "validation")
  /\ UNCHANGED <<open, posted, m_qMessagesOut, put, stream, m_msgTemporaryIn,
                 network, handshake, sent, delivered>>

(* The handler of the client's async_connect.                              *)
ConnectToServer ==
  /\ Connected("client", "yes") /\ open["client"]
  /\ Read("client", "validation")
  /\ UNCHANGED <<open, m_msgTemporaryIn, delivered, handshake, output, stream, network>>

(* The same after an error: it does nothing.  The socket stays open and no *)
(* operation is in progress.                                               *)
ConnectFails ==
  /\ Connected("client", "failed")
  /\ ~open["client"] \/ network # "up"
  /\ UNCHANGED <<open, input, output, stream, network>>

(* The client's user looks at IsOpen, IsConnect or more; the server sends  *)
(* replies to messages it received.                                        *)
MaySend(s) ==
  IF s = "server" THEN Len(sent[s]) < Len(delivered[s])
  ELSE /\ open[s]
       /\ IF Patient THEN reading[s] \in {"header", "body"} ELSE Linked(s)

Send(s, empty) ==
  LET n == Len(sent[s]) + 1
      m == [id |-> n, body |-> IF empty THEN NoBody ELSE n]
  IN  /\ MaySend(s)
      /\ Len(sent[s]) < MaxSends
      /\ sent' = [sent EXCEPT ![s] = Append(@, m)]
      /\ posted' = [posted EXCEPT ![s] = Append(@, m)]
      /\ UNCHANGED <<open, linked, m_qMessagesOut, writing, put, stream, input, network>>

(* The server's end is there once it is accepted.                          *)
Disconnect(s) ==
  /\ Unreliable
  /\ open[s] /\ (s = "server" => Linked(s))
  /\ \A i \in DOMAIN posted[s] : posted[s][i] # Close
  /\ posted' = [posted EXCEPT ![s] = Append(@, Close)]
  /\ UNCHANGED <<open, linked, m_qMessagesOut, writing, put, stream, input, network, sent>>

(* Mutant: each message is written at once.                                *)
RunSendUnguarded(s) ==
  /\ posted[s] # << >> /\ Head(posted[s]) # Close
  /\ posted' = [posted EXCEPT ![s] = Tail(@)]
  /\ m_qMessagesOut' = [m_qMessagesOut EXCEPT ![s] = Append(@, Head(posted[s]))]
  /\ writing' = [writing EXCEPT ![s] = Append(@, "header")]
  /\ UNCHANGED <<open, linked, put, stream, input, network, sent>>

(* The function that Send posts: the queue is not empty while a message is *)
(* being written, and its handlers go on with the next.                    *)
RunSend(s) ==
  /\ posted[s] # << >> /\ Head(posted[s]) # Close
  /\ posted' = [posted EXCEPT ![s] = Tail(@)]
  /\ m_qMessagesOut' = [m_qMessagesOut EXCEPT ![s] = Append(@, Head(posted[s]))]
  /\ writing' = IF m_qMessagesOut[s] = << >>
                THEN [writing EXCEPT ![s] = Append(@, "header")] ELSE writing
  /\ UNCHANGED <<open, linked, put, stream, input, network, sent>>

(* The function that Disconnect posts: m_socket.close().                   *)
RunClose(s) ==
  /\ posted[s] # << >> /\ Head(posted[s]) = Close
  /\ posted' = [posted EXCEPT ![s] = Tail(@)]
  /\ Shut(s)
  /\ UNCHANGED <<linked, m_qMessagesOut, writing, put, stream, input, network, sent>>

-----------------------------------------------------------------------------
(* The buffer that a write refers to, when it is sent.                     *)
Buffer(s, what) ==
  CASE what = "validation" -> IF s = "server" THEN Challenge ELSE Response
    [] what = "header"     -> Header(Head(m_qMessagesOut[s]))
    [] what = "body"       -> Body(Head(m_qMessagesOut[s]))

(* The socket takes the bytes of the oldest write that is not out yet.     *)
Transmit(s) ==
  /\ open[s] /\ network = "up"
  /\ put[s] < Len(writing[s])
  /\ stream' = [stream EXCEPT ![s] = Append(@, Buffer(s, writing[s][put[s] + 1]))]
  /\ put' = [put EXCEPT ![s] = @ + 1]
  /\ UNCHANGED <<open, linked, posted, m_qMessagesOut, writing, sent, input, network>>

(* The handler of a write that is out runs.                                *)
Ended(s, what) == put[s] > 0 /\ Head(writing[s]) = what

(* It starts the writes in then.                                           *)
Start(s, then) ==
  /\ put' = [put EXCEPT ![s] = @ - 1]
  /\ writing' = [writing EXCEPT ![s] = Tail(@) \o then]

(* Mutant: the handler leaves the next message to the next Send.           *)
FinishMessageOnly(s) ==
  /\ m_qMessagesOut' = [m_qMessagesOut EXCEPT ![s] = Tail(@)]
  /\ Start(s, << >>)

(* Mutant: the message that was written stays at the front of the queue.   *)
FinishMessageKept(s) ==
  /\ m_qMessagesOut' = m_qMessagesOut
  /\ Start(s, <<"header">>)

(* The message at the front is done: pop_front, and the next if any.       *)
FinishMessage(s) ==
  /\ m_qMessagesOut' = [m_qMessagesOut EXCEPT ![s] = Tail(@)]
  /\ Start(s, IF Len(m_qMessagesOut[s]) = 1 THEN << >> ELSE <<"header">>)

HeaderWritten(s) ==
  /\ Ended(s, "header")
  /\ \/ /\ Head(m_qMessagesOut[s]).body # NoBody
        /\ Start(s, <<"body">>)
        /\ UNCHANGED m_qMessagesOut
     \/ /\ Head(m_qMessagesOut[s]).body = NoBody
        /\ FinishMessage(s)
  /\ UNCHANGED <<open, linked, posted, stream, input, network, sent>>

BodyWritten(s) ==
  /\ Ended(s, "body")
  /\ FinishMessage(s)
  /\ UNCHANGED <<open, linked, posted, stream, input, network, sent>>

(* After its reply the client waits for messages.                          *)
ValidationWritten(s) ==
  /\ Ended(s, "validation")
  /\ Start(s, << >>)
  /\ IF s = "client" THEN Read(s, "header") ELSE UNCHANGED reading
  /\ UNCHANGED <<open, linked, posted, m_qMessagesOut, stream, m_msgTemporaryIn,
                 delivered, handshake, network, sent>>

(* Every handler of a write that failed closes the socket.                 *)
WriteFails(s) ==
  /\ put[s] = 0 /\ writing[s] # << >>
  /\ ~open[s] \/ ~open[Peer(s)] \/ network # "up"
  /\ writing' = [writing EXCEPT ![s] = Tail(@)]
  /\ Shut(s)
  /\ UNCHANGED <<linked, posted, m_qMessagesOut, put, stream, input, network, sent>>

-----------------------------------------------------------------------------
(* A read in progress gets its unit.                                       *)
Receives(s, what) ==
  /\ open[s]
  /\ reading[s] = what
  /\ stream[Peer(s)] # << >>
  /\ stream' = [stream EXCEPT ![Peer(s)] = Tail(@)]

Arrived(s) == Head(stream[Peer(s)])

(* The handler of ReadValidation at the server's end.                      *)
ServerValidates ==
  /\ Receives("server", "validation")
  /\ \/ /\ Arrived("server") = Response
        /\ handshake' = "validated"
        /\ Read("server", "header")
        /\ UNCHANGED open
     \/ /\ Arrived("server") # Response
        /\ handshake' = "rejected"
        /\ Read("server", "none")
        /\ Shut("server")
  /\ UNCHANGED <<linked, output, m_msgTemporaryIn, delivered, network>>

(* And at the client's: the solution is written back.                      *)
ClientSolves ==
  /\ Receives("client", "validation")
  /\ writing' = [writing EXCEPT !["client"] = Append(@, "validation")]
  /\ Read("client", "none")
  /\ UNCHANGED <<open, linked, posted, m_qMessagesOut, put, m_msgTemporaryIn,
                 delivered, handshake, network, sent>>

(* The message in m_msgTemporaryIn is complete; the next header is awaited. *)
AddToIncomingMessageQueue(s) ==
  /\ delivered' = [delivered EXCEPT ![s] = Append(@, m_msgTemporaryIn'[s])]
  /\ Read(s, "header")

(* Mutant: header.size >= 0, that is always, has a body read.              *)
HeaderReadAlways(s) ==
  /\ Receives(s, "header")
  /\ m_msgTemporaryIn' = [m_msgTemporaryIn EXCEPT ![s].id = Arrived(s).id]
  /\ Read(s, "body")
  /\ UNCHANGED <<open, linked, output, delivered, handshake, network>>

(* header.size decides whether a body is read; without one the body of the *)
(* message before is still there.                                          *)
HeaderRead(s) ==
  /\ Receives(s, "header")
  /\ m_msgTemporaryIn' = [m_msgTemporaryIn EXCEPT ![s].id = Arrived(s).id]
  /\ \/ ~Arrived(s).empty /\ Read(s, "body") /\ UNCHANGED delivered
     \/ Arrived(s).empty /\ AddToIncomingMessageQueue(s)
  /\ UNCHANGED <<open, linked, output, handshake, network>>

(* Mutant: m_msgTemporaryIn is cleared when the body arrives.              *)
BodyReadCleared(s) ==
  /\ Receives(s, "body")
  /\ m_msgTemporaryIn' =
       [m_msgTemporaryIn EXCEPT ![s] = [id |-> 0, body |-> Arrived(s).body]]
  /\ AddToIncomingMessageQueue(s)
  /\ UNCHANGED <<open, linked, output, handshake, network>>

(* Mutant: no read is started after a message with a body.                 *)
BodyReadOnce(s) ==
  /\ Receives(s, "body")
  /\ m_msgTemporaryIn' = [m_msgTemporaryIn EXCEPT ![s].body = Arrived(s).body]
  /\ delivered' = [delivered EXCEPT ![s] = Append(@, m_msgTemporaryIn'[s])]
  /\ Read(s, "none")
  /\ UNCHANGED <<open, linked, output, handshake, network>>

BodyRead(s) ==
  /\ Receives(s, "body")
  /\ m_msgTemporaryIn' = [m_msgTemporaryIn EXCEPT ![s].body = Arrived(s).body]
  /\ AddToIncomingMessageQueue(s)
  /\ UNCHANGED <<open, linked, output, handshake, network>>

(* A closed socket, the end of the stream or the network ends a read; the  *)
(* handler closes the socket.                                              *)
ReadFails(s) ==
  /\ reading[s] # "none"
  /\ \/ ~open[s] \/ network # "up"
     \/ ~open[Peer(s)] /\ stream[Peer(s)] = << >>
  /\ Read(s, "none")
  /\ Shut(s)
  /\ UNCHANGED <<linked, output, stream, m_msgTemporaryIn, delivered, handshake, network>>

(* The network fails, which neither end need ever notice; or an end that   *)
(* closed with data unread resets the connection.  What is on its way is   *)
(* lost.  (Later writes reach a buffer at most: they stay in progress.)    *)
Break ==
  /\ network = "up"
  /\ \/ Unreliable /\ network' = "lost"
     \/ (\E s \in Sides : ~open[s]) /\ network' = "reset"
  /\ stream' = [s \in Sides |-> << >>]
  /\ UNCHANGED <<open, linked, output, input>>

Connects(s) ==
  \/ s = "server" /\ ConnectToClient
  \/ s = "client" /\ (ConnectToServer \/ ConnectFails)

(* Posted functions, and operations that are complete.                     *)
Completes(s) ==
  \/ s = "server" /\ ServerValidates
  \/ s = "client" /\ ClientSolves
  \/ RunSend(s) \/ RunClose(s)
  \/ HeaderWritten(s) \/ BodyWritten(s) \/ ValidationWritten(s)
  \/ HeaderRead(s) \/ BodyRead(s)

Fails(s) == WriteFails(s) \/ ReadFails(s)

Handler(s) == Connects(s) \/ Completes(s) \/ Fails(s)

User(s) == Disconnect(s) \/ \E empty \in BOOLEAN : Send(s, empty)

Next ==
  \/ \E s \in Sides : Handler(s) \/ Transmit(s) \/ User(s)
  \/ Break

Spec == Init /\ [][Next]_vars

(* What the io_service of an end runs for certain: what is complete; the   *)
(* accept and the connect while nothing has failed; and the error handlers *)
(* of an end that is closed itself, or that the network tells of the other *)
(* end's close.  No operation has a timeout and no socket a keepalive: of  *)
(* a network that is lost an end that waits may never hear.                *)
Owed(s) ==
  \/ Completes(s)
  \/ Connects(s) /\ network = "up" /\ \A e \in Sides : open[e]
  \/ Fails(s) /\ (~open[s] \/ network # "lost")

(* Both io_service threads run and the network carries what it is given;   *)
(* no user need send or disconnect.                                        *)
FairSpec == Spec /\ \A s \in Sides : WF_vars(Owed(s)) /\ WF_vars(Transmit(s))

-----------------------------------------------------------------------------
(* Every variable has its type.                                            *)
TypeOK ==
  /\ open \in [Sides -> BOOLEAN]
  /\ linked \in [Sides -> {"no", "yes", "failed"}]
  /\ posted \in [Sides -> Seq(Message \union {Close})]
  /\ m_qMessagesOut \in [Sides -> Seq(Message)]
  /\ writing \in [Sides -> Seq(Writes)]
  /\ put \in [Sides -> 0 .. 2] /\ \A s \in Sides : put[s] <= Len(writing[s])
  /\ stream \in [Sides -> Seq(Unit)]
  /\ reading \in [Sides -> Writes \union {"none"}]
  /\ m_msgTemporaryIn \in [Sides -> [id : 0 .. MaxSends, body : 0 .. MaxSends]]
  /\ network \in {"up", "reset", "lost"}
  /\ handshake \in {"pending", "validated", "rejected"}
  /\ sent \in [Sides -> Seq(Message)]
  /\ delivered \in [Sides -> Seq(Message)]

(* At most one write of a message is in progress, and its buffer is the    *)
(* message at the front of the queue, though Send runs between a write and *)
(* its handler: no handler finds the queue empty.                          *)
OneWriter ==
  \A s \in Sides :
    LET messages == {i \in DOMAIN writing[s] : writing[s][i] # "validation"}
    IN  /\ \A i, j \in messages : i = j
        /\ messages # {} => m_qMessagesOut[s] # << >>

(* An end that waits for a header or a body gets one, and the body that it *)
(* gets belongs to the header before it.                                   *)
Framing ==
  \A s \in Sides :
    reading[s] \in {"header", "body"} /\ stream[Peer(s)] # << >> /\ open[s] =>
      /\ Arrived(s).type = reading[s]
      /\ reading[s] = "body" =>
           Arrived(s).body = sent[Peer(s)][m_msgTemporaryIn[s].id].body

(* Messages arrive in order, once and whole; the server gets them from     *)
(* clients that solved the challenge only.                                 *)
Abstract == INSTANCE Link WITH
  received <- delivered,
  accepted <- handshake = "validated"

ImplementsLink == Abstract!Spec

(* While both ends stay open and the network holds, what is sent arrives:  *)
(* each end gets to have every message that the other sent.                *)
SentArrives ==
  \A s \in Sides :
    Len(delivered[Peer(s)]) < Len(sent[s]) ~>
      \/ Len(delivered[Peer(s)]) = Len(sent[s])
      \/ \E e \in Sides : ~open[e]
      \/ network = "lost"

(* When one end is closed the other closes too, in whatever operation it   *)
(* is, unless the network is lost before it hears of that, or its connect  *)
(* is not done or failed: then it has nothing in progress that could fail. *)
BothClose ==
  \A s \in Sides :
    ~open[s] ~> ~open[Peer(s)] \/ ~Linked(Peer(s)) \/ network = "lost"

(* net_connection.hpp, ReadValidation: "the client provided wrong data, so *)
(* disconnect".  This client solves the challenge, and is not rejected.    *)
RejectedIfWrong == handshake # "rejected"

(* net_connection.hpp, ReadHeader: a header without a body is "added to    *)
(* the incoming queue" as such.                                            *)
DeliveredAsSent ==
  \A s \in Sides : \A n \in DOMAIN delivered[s] :
    delivered[s][n] = sent[Peer(s)][n]

=============================================================================
