-------------------------- MODULE ConnectionProofs --------------------------
(***************************************************************************)
(* Proofs of the safety invariants of Connection, for any number of        *)
(* messages.                                                               *)
(*                                                                         *)
(* The units on their way from one end, read in order by the other, must   *)
(* be a message after the other from where the reader is, and must end     *)
(* where the writer is: a header that has been put on the wire awaits its  *)
(* body.  The handshake comes before: what the server reads first decides  *)
(* whether the rest is read at all.                                        *)
(*                                                                         *)
(* That messages arrive in order needs their numbers: those posted are the *)
(* last ones sent, those queued come before them, and the headers on the   *)
(* wire lead from the last one read to the last one written.               *)
(***************************************************************************)
EXTENDS Connection, Integers, TLAPS

USE ConnectionAssumption DEF ConnectionAssumption

-----------------------------------------------------------------------------
(* The writes in progress, a sequence ws of which n are put on the wire: at *)
(* most one of a message and one of the handshake.                         *)
MessageWrites == {"header", "body"}
SameKind(v, w) == v = "validation" <=> w = "validation"
OneOfEach(ws) ==
  /\ ws \in Seq(Writes)
  /\ Len(ws) \in 0 .. 2
  /\ Len(ws) = 2 => ~SameKind(ws[1], ws[2])

IsPut(ws, n, w) == (n > 0 /\ ws[1] = w) \/ (n = 2 /\ ws[2] = w)
IsLeft(ws, n, w) ==
  \/ n = 0 /\ Len(ws) > 0 /\ ws[1] = w
  \/ n < 2 /\ Len(ws) = 2 /\ ws[2] = w

Put(s, w) == IsPut(writing[s], put[s], w)
Left(s, w) == IsLeft(writing[s], put[s], w)
Writing(s, w) == Put(s, w) \/ Left(s, w)

(* The message that is written is at the front of the queue.               *)
WriteOK(s) ==
  /\ OneOfEach(writing[s])
  /\ put[s] \in 0 .. 2 /\ put[s] <= Len(writing[s])
  /\ \A w \in MessageWrites : Writing(s, w) => m_qMessagesOut[s] # << >>
  /\ Writing(s, "body") => Head(m_qMessagesOut[s]).body # NoBody

WritesOK == \A s \in Sides : WriteOK(s)

-----------------------------------------------------------------------------
(* A message is known by its number, and all that is under way was sent.   *)
IsSent(m, history) == m.id \in 1 .. Len(history) /\ m = history[m.id]
HasBody(n, history) == n \in 1 .. Len(history) /\ history[n].body = n

Numbered(history) ==
  \A i \in 1 .. Len(history) :
    history[i].id = i /\ history[i].body \in {NoBody, i}

QueueSent(s) ==
  \A i \in 1 .. Len(m_qMessagesOut[s]) : IsSent(m_qMessagesOut[s][i], sent[s])
PostedSent(s) ==
  \A i \in 1 .. Len(posted[s]) : posted[s][i] = Close \/ IsSent(posted[s][i], sent[s])
StreamSent(s) ==
  \A i \in 1 .. Len(stream[s]) :
    stream[s][i].type = "header" /\ ~stream[s][i].empty =>
      HasBody(stream[s][i].id, sent[s])
ReadSent(s) == reading[s] = "body" => HasBody(m_msgTemporaryIn[s].id, sent[Peer(s)])

AllSent ==
  \A s \in Sides :
    Numbered(sent[s]) /\ QueueSent(s) /\ PostedSent(s) /\ StreamSent(s) /\ ReadSent(s)

-----------------------------------------------------------------------------
(* What may follow: a header where none awaits its body, or the body of    *)
(* the message with number n.                                              *)
Fits(u, n) ==
  IF n = NoBody THEN u.type = "header" ELSE u.type = "body" /\ u.body = n
After(u) == IF u.type = "header" /\ ~u.empty THEN u.id ELSE NoBody
End(st, n) == IF st = << >> THEN n ELSE After(st[Len(st)])

Framed(st, n) ==
  /\ st # << >> => Fits(st[1], n)
  /\ \A i \in 1 .. Len(st) - 1 : Fits(st[i + 1], After(st[i]))

Live(s) == open[s] /\ network = "up"
Wanted(s) == IF reading[s] = "body" THEN m_msgTemporaryIn[s].id ELSE NoBody
Awaited(s) ==
  IF Put(s, "header") \/ Left(s, "body") THEN Head(m_qMessagesOut[s]).body
  ELSE NoBody

(* The units st lead from where the reader is to where the writer p is, if *)
(* p can still write.                                                      *)
InStep(p, st, from) ==
  Framed(st, from) /\ (Live(p) => End(st, from) = Awaited(p))

Reads(s) == reading[s] \in {"header", "body"}

-----------------------------------------------------------------------------
(* Before the server accepted the client it has nothing to send.           *)
Quiet ==
  /\ handshake # "validated" =>
       /\ delivered["server"] = << >> /\ sent["server"] = << >>
       /\ ~Reads("server")
  /\ reading["server"] = "validation" => handshake = "pending"
  /\ linked["server"] # "yes" =>
       /\ reading["server"] = "none" /\ handshake = "pending"
       /\ writing["server"] = << >>

(* The client before it read the challenge.                                *)
Unsolved == linked["client"] # "yes" \/ reading["client"] = "validation"

(* The server's challenge comes first, and nothing of the client's that    *)
(* depends on it comes before it.                                          *)
ClientOK ==
  /\ linked["client"] # "yes" => reading["client"] = "none"
  /\ Writing("client", "validation") => reading["client"] = "none" /\ ~Unsolved
  /\ Unsolved =>
       /\ stream["server"] \in {<< >>, <<Challenge>>}
       /\ stream["server"] # << >> => ~Left("server", "validation")
  /\ linked["server"] # "yes" \/ Left("server", "validation") =>
       /\ stream["server"] = << >>
       /\ ~Writing("client", "validation") /\ ~Reads("client")
  /\ Writing("client", "validation") \/ Reads("client") =>
       InStep("server", stream["server"], Wanted("client"))

(* The client's answer is not on the wire yet, or never will be.           *)
Unanswered ==
  \/ Unsolved \/ Left("client", "validation")
  \/ linked["server"] # "yes" \/ Left("server", "validation")

(* What the server makes of the client's units depends on the first.       *)
ServerOK ==
  /\ Unanswered =>
       /\ handshake # "validated"
       /\ \A i \in 1 .. Len(stream["client"]) :
            stream["client"][i].type # "response"
  /\ handshake = "pending" /\ stream["client"] = << >> =>
       InStep("client", << >>, NoBody)
  /\ /\ handshake = "pending" /\ stream["client"] # << >>
     /\ stream["client"][1].type = "response"
     => InStep("client", Tail(stream["client"]), NoBody)
  /\ Reads("server") =>
       InStep("client", stream["client"], Wanted("server"))

ConnectionInv ==
  TypeOK /\ WritesOK /\ AllSent /\ Quiet /\ ClientOK /\ ServerOK

-----------------------------------------------------------------------------
(* The two ends.                                                           *)
LEMMA PeerFacts ==
  /\ Sides = {"server", "client"}
  /\ Peer("server") = "client" /\ Peer("client") = "server"
  /\ \A s \in Sides : Peer(s) \in Sides /\ Peer(s) # s /\ Peer(Peer(s)) = s
<1>1. Peer("server") = "client"
  BY DEF Peer, Sides
<1>2. Peer("client") = "server"
  BY DEF Peer, Sides
<1> QED BY <1>1, <1>2 DEF Sides

(* The kinds of units are told apart by their type.                        *)
LEMMA UnitFacts ==
  ASSUME NEW u \in Unit
  PROVE  /\ u = Response <=> u.type = "response"
         /\ u.type = "header" => u.id \in 1 .. MaxSends
         /\ u.type = "body" => u.body \in 0 .. MaxSends
BY DEF Unit, Challenge, Response, Header, Body, Message

(* The units of a message.                                                 *)
LEMMA MessageUnits ==
  ASSUME NEW m \in Message
  PROVE  /\ Header(m) \in Unit /\ Body(m) \in Unit
         /\ Header(m).type = "header" /\ Header(m).id = m.id
         /\ Header(m).empty <=> m.body = NoBody
         /\ Body(m).type = "body" /\ Body(m).body = m.body
         /\ Challenge \in Unit /\ Response \in Unit
<1>1. Header(m) \in Unit /\ Body(m) \in Unit /\ Challenge \in Unit /\ Response \in Unit
  BY DEF Unit
<1>2. Header(m).type = "header" /\ Header(m).id = m.id
  BY DEF Header
<1>3. Header(m).empty <=> m.body = NoBody
  BY Zenon DEF Header
<1>4. Body(m).type = "body" /\ Body(m).body = m.body
  BY DEF Body
<1> QED BY <1>1, <1>2, <1>3, <1>4

-----------------------------------------------------------------------------
(* The next write is put on the wire.                                      *)
LEMMA PutNext ==
  ASSUME NEW ws, OneOfEach(ws), NEW n \in 0 .. 2, n <= Len(ws), n < Len(ws)
  PROVE  /\ n + 1 \in 0 .. 2 /\ n + 1 <= Len(ws)
         /\ ws[n + 1] \in Writes
         /\ IsLeft(ws, n, ws[n + 1]) /\ ~IsLeft(ws, n + 1, ws[n + 1])
         /\ IsPut(ws, n + 1, ws[n + 1])
         /\ \A w \in Writes : w # ws[n + 1] =>
              /\ IsPut(ws, n + 1, w) <=> IsPut(ws, n, w)
              /\ IsLeft(ws, n + 1, w) <=> IsLeft(ws, n, w)
         /\ ws[n + 1] \in MessageWrites => \A w \in MessageWrites :
              /\ ~IsPut(ws, n, w)
              /\ w # ws[n + 1] => ~IsLeft(ws, n, w)
<1>1. ws \in Seq(Writes) /\ (Len(ws) = 1 \/ Len(ws) = 2)
  BY DEF OneOfEach
<1>2. CASE Len(ws) = 1
  <2>1. n = 0
    BY <1>2
  <2>2. ws[1] \in Writes
    BY <1>1, <1>2
  <2> QED BY ONLY <2>2, <1>2, <2>1 DEF IsPut, IsLeft, Writes, MessageWrites, SameKind
<1>3. CASE Len(ws) = 2
  <2>1. n = 0 \/ n = 1
    BY <1>3
  <2>2. ws[1] \in Writes /\ ws[2] \in Writes
    BY <1>1, <1>3
  <2>3. ~SameKind(ws[1], ws[2])
    BY <1>3 DEF OneOfEach
  <2> QED BY ONLY <1>3, <2>1, <2>2, <2>3 DEF IsPut, IsLeft, Writes, MessageWrites, SameKind
<1> QED BY <1>1, <1>2, <1>3

(* The oldest write has ended, and another of its message may start: then  *)
(* new takes the place of ws.                                              *)
Continues(ws, n, then, new) ==
  /\ OneOfEach(new)
  /\ n - 1 \in 0 .. 2 /\ n - 1 <= Len(new)
  /\ IsPut(ws, n, Head(ws)) /\ Head(ws) \in Writes
  /\ Head(ws) = "validation" =>
       /\ \A w \in MessageWrites :
            /\ IsPut(new, n - 1, w) <=> IsPut(ws, n, w)
            /\ IsLeft(new, n - 1, w) <=> IsLeft(ws, n, w)
       /\ ~IsPut(new, n - 1, "validation") /\ ~IsLeft(new, n - 1, "validation")
       /\ ~IsLeft(ws, n, "validation")
  /\ Head(ws) \in MessageWrites =>
       /\ \A w \in MessageWrites :
            /\ ~IsPut(new, n - 1, w)
            /\ IsLeft(new, n - 1, w) <=> then = <<w>>
            /\ w # Head(ws) => ~IsPut(ws, n, w)
            /\ ~IsLeft(ws, n, w)
       /\ IsPut(new, n - 1, "validation") <=> IsPut(ws, n, "validation")
       /\ IsLeft(new, n - 1, "validation") <=> IsLeft(ws, n, "validation")

(* What a handler leaves in progress when it starts another write.         *)
LEMMA StartNext ==
  ASSUME NEW ws, OneOfEach(ws), NEW n \in 0 .. 2, n <= Len(ws), n > 0,
         NEW then \in {<< >>, <<"header">>, <<"body">>},
         then # << >> => Head(ws) \in MessageWrites
  PROVE  Continues(ws, n, then, Tail(ws) \o then)
<1> DEFINE new == Tail(ws) \o then
<1>1. /\ ws \in Seq(Writes) /\ ws # << >> /\ Head(ws) = ws[1]
      /\ Tail(ws) \in Seq(Writes) /\ Len(Tail(ws)) = Len(ws) - 1
      /\ \A i \in 1 .. Len(ws) - 1 : Tail(ws)[i] = ws[i + 1]
  BY DEF OneOfEach
<1>2. /\ then \in Seq(Writes) /\ Len(then) \in {0, 1}
      /\ Len(then) = 0 <=> then = << >>
      /\ Len(then) = 1 => then[1] \in MessageWrites
      /\ \A w \in MessageWrites : then = <<w>> <=> Len(then) = 1 /\ then[1] = w
  <2>1. CASE then = << >>
    BY <2>1 DEF MessageWrites
  <2>2. CASE then = <<"header">>
    BY <2>2 DEF Writes, MessageWrites
  <2>3. CASE then = <<"body">>
    BY <2>3 DEF Writes, MessageWrites
  <2> QED BY <2>1, <2>2, <2>3
<1>3. /\ new \in Seq(Writes) /\ Len(new) = Len(ws) - 1 + Len(then)
      /\ \A i \in 1 .. Len(ws) - 1 : new[i] = ws[i + 1]
      /\ Len(then) = 1 => new[Len(ws)] = then[1]
  BY <1>1, <1>2
<1> HIDE DEF new
<1> SUFFICES Continues(ws, n, then, new)
  BY DEF new
<1>4. CASE Len(ws) = 1
  <2>1. n = 1 /\ Len(new) = Len(then) /\ (Len(then) = 1 => new[1] = then[1])
    BY <1>1, <1>3, <1>4
  <2>2. ws[1] \in Writes
    BY <1>1, <1>4
  <2>3. OneOfEach(new) /\ n - 1 \in 0 .. 2 /\ n - 1 <= Len(new)
    BY ONLY <2>1, <1>2, <1>3 DEF OneOfEach
  <2>4. Len(then) = 1 => ws[1] \in MessageWrites
    BY <1>1, <1>2
  <2>5. CASE Len(then) = 0
    BY ONLY <2>1, <2>2, <2>3, <2>5, <1>2, <1>4, Head(ws) = ws[1]
       DEF Continues, IsPut, IsLeft, Writes, MessageWrites, SameKind
  <2>6. CASE Len(then) = 1
    BY ONLY <2>1, <2>2, <2>3, <2>4, <2>6, <1>2, <1>4, Head(ws) = ws[1]
       DEF Continues, IsPut, IsLeft, Writes, MessageWrites, SameKind
  <2> QED BY <1>1, <1>2, <2>5, <2>6
<1>5. CASE Len(ws) = 2
  <2>1. /\ n \in {1, 2} /\ Len(new) = 1 + Len(then) /\ new[1] = ws[2]
        /\ Len(then) = 1 => new[2] = then[1]
        /\ ~SameKind(ws[1], ws[2])
    BY <1>1, <1>3, <1>5 DEF OneOfEach
  <2>2. ws[1] \in Writes /\ ws[2] \in Writes
    BY <1>1, <1>5
  <2>3. Len(then) = 1 => ws[1] \in MessageWrites
    BY <1>1, <1>2
  <2>4. OneOfEach(new) /\ n - 1 \in 0 .. 2 /\ n - 1 <= Len(new)
    <3>1. CASE Len(then) = 0
      BY ONLY <3>1, <2>1, <1>3 DEF OneOfEach
    <3>2. CASE Len(then) = 1
      <4>1. Len(new) = 2 /\ ~SameKind(new[1], new[2])
        BY ONLY <3>2, <2>1, <2>2, <2>3, <1>2 DEF SameKind, Writes, MessageWrites
      <4> QED BY ONLY <4>1, <2>1, <1>3 DEF OneOfEach
    <3> QED BY <1>2, <3>1, <3>2
  <2>5. CASE Len(then) = 0
    BY ONLY <2>1, <2>2, <2>4, <2>5, <1>2, <1>5, Head(ws) = ws[1]
       DEF Continues, IsPut, IsLeft, Writes, MessageWrites, SameKind
  <2>6. CASE Len(then) = 1
    BY ONLY <2>1, <2>2, <2>3, <2>4, <2>6, <1>2, <1>5, Head(ws) = ws[1]
       DEF Continues, IsPut, IsLeft, Writes, MessageWrites, SameKind
  <2> QED BY <1>1, <1>2, <2>5, <2>6
<1> QED BY <1>1, <1>4, <1>5 DEF OneOfEach

(* A write of a kind that is not in progress starts.                       *)
LEMMA StartAnother ==
  ASSUME NEW ws, OneOfEach(ws), NEW n \in 0 .. 2, n <= Len(ws), NEW x \in Writes,
         \A w \in Writes : SameKind(w, x) => ~IsPut(ws, n, w) /\ ~IsLeft(ws, n, w)
  PROVE  /\ OneOfEach(Append(ws, x))
         /\ n <= Len(Append(ws, x))
         /\ \A w \in Writes :
              /\ IsPut(Append(ws, x), n, w) <=> IsPut(ws, n, w)
              /\ IsLeft(Append(ws, x), n, w) <=> (IsLeft(ws, n, w) \/ w = x)
<1> DEFINE new == Append(ws, x)
<1>1. /\ ws \in Seq(Writes) /\ new \in Seq(Writes) /\ Len(new) = Len(ws) + 1
      /\ \A i \in 1 .. Len(ws) : new[i] = ws[i]
      /\ new[Len(ws) + 1] = x
  BY DEF OneOfEach
<1>2. \A i \in 1 .. Len(ws) : ws[i] \in Writes /\ ~SameKind(ws[i], x)
  <2>1. CASE Len(ws) = 0
    BY <2>1
  <2>2. CASE Len(ws) = 1
    <3>1. n = 0 \/ n = 1
      BY <2>2
    <3>2. ws[1] \in Writes
      BY <1>1, <2>2
    <3>3. ~SameKind(ws[1], x)
      BY ONLY <3>1, <3>2, <2>2,
              \A w \in Writes : SameKind(w, x) => ~IsPut(ws, n, w) /\ ~IsLeft(ws, n, w)
           DEF IsPut, IsLeft
    <3> QED BY <2>2, <3>2, <3>3
  <2>3. CASE Len(ws) = 2
    <3>1. n = 0 \/ n = 1 \/ n = 2
      OBVIOUS
    <3>2. ws[1] \in Writes /\ ws[2] \in Writes
      BY <1>1, <2>3
    <3>3. ~SameKind(ws[1], x) /\ ~SameKind(ws[2], x)
      BY ONLY <3>1, <3>2, <2>3,
              \A w \in Writes : SameKind(w, x) => ~IsPut(ws, n, w) /\ ~IsLeft(ws, n, w)
           DEF IsPut, IsLeft
    <3> QED BY <2>3, <3>2, <3>3
  <2> QED BY <2>1, <2>2, <2>3 DEF OneOfEach
<1>3. Len(ws) = 0 \/ Len(ws) = 1
  <2>1. Len(ws) = 2 => ~SameKind(ws[1], x) /\ ~SameKind(ws[2], x)
    BY <1>2
  <2>2. Len(ws) = 2 => ~SameKind(ws[1], ws[2])
    BY DEF OneOfEach
  <2>3. Len(ws) # 2
    BY ONLY <2>1, <2>2 DEF SameKind
  <2> QED BY <2>3 DEF OneOfEach
<1>4. OneOfEach(new)
  <2>1. Len(new) = 2 => ~SameKind(new[1], new[2])
    BY <1>1, <1>2
  <2> HIDE DEF new
  <2> QED BY <1>1, <1>3, <2>1 DEF OneOfEach, Writes, MessageWrites, SameKind
<1> HIDE DEF new
<1>5. n <= Len(new)
  BY <1>1
<1>6. ASSUME NEW w \in Writes
      PROVE  /\ IsPut(new, n, w) <=> IsPut(ws, n, w)
             /\ IsLeft(new, n, w) <=> (IsLeft(ws, n, w) \/ w = x)
  <2>1. CASE Len(ws) = 0
    <3>1. n = 0 /\ Len(new) = 1 /\ new[1] = x
      BY <1>1, <2>1
    <3> QED BY ONLY <2>1, <3>1 DEF IsPut, IsLeft
  <2>2. CASE Len(ws) = 1
    <3>1. Len(new) = 2 /\ new[1] = ws[1] /\ new[2] = x
      BY <1>1, <2>2
    <3>2. n = 0 \/ n = 1
      BY <2>2
    <3> QED BY ONLY <2>2, <3>1, <3>2 DEF IsPut, IsLeft
  <2> QED BY <1>3, <2>1, <2>2 DEF OneOfEach
<1> QED BY <1>4, <1>5, <1>6 DEF new

(* A write fails.                                                          *)
LEMMA DropFirst ==
  ASSUME NEW ws, OneOfEach(ws), ws # << >>
  PROVE  /\ OneOfEach(Tail(ws)) /\ 0 <= Len(Tail(ws))
         /\ \A w \in Writes :
              /\ ~IsPut(Tail(ws), 0, w)
              /\ IsLeft(Tail(ws), 0, w) => IsLeft(ws, 0, w)
<1> DEFINE new == Tail(ws)
<1>1. /\ ws \in Seq(Writes) /\ new \in Seq(Writes) /\ Len(new) = Len(ws) - 1
      /\ \A i \in 1 .. Len(new) : new[i] = ws[i + 1]
      /\ Len(ws) = 1 \/ Len(ws) = 2
  <2>1. ws \in Seq(Writes) /\ Len(ws) \in 0 .. 2 /\ ws # << >>
    BY DEF OneOfEach
  <2> QED BY ONLY <2>1, new = Tail(ws)
<1> HIDE DEF new
<1>2. OneOfEach(new) /\ 0 <= Len(new)
  BY <1>1 DEF OneOfEach
<1>3. ASSUME NEW w \in Writes
      PROVE  ~IsPut(new, 0, w) /\ (IsLeft(new, 0, w) => IsLeft(ws, 0, w))
  BY <1>1 DEF IsPut, IsLeft
<1> QED BY <1>2, <1>3 DEF new

-----------------------------------------------------------------------------
(* The writer puts the next unit on the wire.                              *)
LEMMA FramedAppend ==
  ASSUME NEW st \in Seq(Unit), NEW u \in Unit, NEW from,
         Framed(st, from), Fits(u, End(st, from))
  PROVE  Framed(Append(st, u), from) /\ End(Append(st, u), from) = After(u)
<1> DEFINE new == Append(st, u)
<1>1. /\ new \in Seq(Unit) /\ Len(new) = Len(st) + 1 /\ new # << >>
      /\ \A i \in 1 .. Len(st) : new[i] = st[i]
      /\ new[Len(st) + 1] = u
      /\ st = << >> <=> Len(st) = 0
      /\ Len(st) \in Nat
  OBVIOUS
<1> HIDE DEF new
<1>2. End(new, from) = After(u)
  BY <1>1 DEF End
<1>3. Fits(new[1], from)
  <2>1. CASE Len(st) = 0
    BY <1>1, <2>1 DEF End
  <2>2. CASE Len(st) # 0
    BY <1>1, <2>2 DEF Framed
  <2> QED BY <2>1, <2>2
<1>4. ASSUME NEW i \in 1 .. Len(new) - 1
      PROVE  Fits(new[i + 1], After(new[i]))
  <2>1. CASE i = Len(st)
    BY <1>1, <2>1 DEF End
  <2>2. CASE i # Len(st)
    <3>1. i \in 1 .. Len(st) - 1 /\ i + 1 \in 1 .. Len(st) /\ i \in 1 .. Len(st)
      BY <1>1, <2>2
    <3> QED BY <3>1, <1>1 DEF Framed
  <2> QED BY <2>1, <2>2
<1> QED BY <1>1, <1>2, <1>3, <1>4 DEF Framed, new

(* The reader takes the first unit.                                        *)
LEMMA FramedTail ==
  ASSUME NEW st \in Seq(Unit), st # << >>, NEW from, Framed(st, from)
  PROVE  /\ Fits(Head(st), from)
         /\ Framed(Tail(st), After(Head(st)))
         /\ End(Tail(st), After(Head(st))) = End(st, from)
<1> DEFINE new == Tail(st)
<1>1. /\ new \in Seq(Unit) /\ Len(new) = Len(st) - 1 /\ Head(st) = st[1]
      /\ \A i \in 1 .. Len(new) : new[i] = st[i + 1]
  OBVIOUS
<1>2. Len(st) \in Nat /\ Len(st) # 0
  OBVIOUS
<1> HIDE DEF new
<1>3. new = << >> <=> Len(new) = 0
  BY <1>1
<1>4. Fits(Head(st), from)
  BY <1>1 DEF Framed
<1>5. End(new, After(Head(st))) = End(st, from)
  BY <1>1, <1>2, <1>3 DEF End
<1>6. new # << >> => Fits(new[1], After(Head(st)))
  BY <1>1, <1>2, <1>3 DEF Framed
<1>7. ASSUME NEW i \in 1 .. Len(new) - 1
      PROVE  Fits(new[i + 1], After(new[i]))
  <2>1. /\ i + 1 \in 1 .. Len(st) - 1 /\ i + 1 \in 1 .. Len(new) /\ i \in 1 .. Len(new)
        /\ new[i] = st[i + 1] /\ new[i + 1] = st[(i + 1) + 1]
    BY <1>1, <1>2
  <2> QED BY <2>1 DEF Framed
<1> QED BY <1>4, <1>5, <1>6, <1>7 DEF Framed, new

(* Nothing is on its way.                                                  *)
LEMMA FramedEmpty == \A from : Framed(<< >>, from) /\ End(<< >>, from) = from
BY DEF Framed, End

-----------------------------------------------------------------------------
(* Steps that leave the wire and its readers alone.                        *)
OtherWriters ==
  \A s \in Sides :
    /\ Live(s)' => Live(s) /\ Awaited(s)' = Awaited(s)
    /\ Writing(s, "validation")' => Writing(s, "validation")
    /\ Left(s, "validation")' => Left(s, "validation")

(* The ends stay in step when neither the wire nor a reader changes and    *)
(* each writer awaits what it did before.                                  *)
LEMMA WireKept ==
  ASSUME ClientOK, ServerOK, OtherWriters,
         UNCHANGED <<linked, stream, reading, handshake, m_msgTemporaryIn>>
  PROVE  ClientOK' /\ ServerOK'
<1>1. ClientOK'
  BY PeerFacts DEF ClientOK, OtherWriters, Unsolved, Reads, Wanted, InStep
<1>2. ServerOK'
  BY PeerFacts DEF ServerOK, OtherWriters, Unanswered, Unsolved, Reads, Wanted, InStep
<1> QED BY <1>1, <1>2

(* What an end has in progress depends on three of its variables only.     *)
LEMMA EndKept ==
  ASSUME NEW s \in Sides,
         writing'[s] = writing[s], put'[s] = put[s],
         m_qMessagesOut'[s] = m_qMessagesOut[s]
  PROVE  /\ WriteOK(s) => WriteOK(s)'
         /\ \A w \in Writes : Put(s, w)' <=> Put(s, w)
         /\ \A w \in Writes : Left(s, w)' <=> Left(s, w)
         /\ \A w \in Writes : Writing(s, w)' <=> Writing(s, w)
         /\ Awaited(s)' = Awaited(s)
BY DEF WriteOK, Put, Left, Writing, Awaited

(* And so they do when no write, queue, reader or unit changes.            *)
LEMMA WritersKept ==
  ASSUME ClientOK, ServerOK, WritesOK, UNCHANGED <<writing, put, m_qMessagesOut>>,
         \A s \in Sides : Live(s)' => Live(s),
         UNCHANGED <<linked, stream, reading, handshake, m_msgTemporaryIn>>
  PROVE  WritesOK' /\ ClientOK' /\ ServerOK'
<1>1. "validation" \in Writes
  BY DEF Writes
<1>2. OtherWriters
  BY <1>1, EndKept DEF OtherWriters
<1>3. WritesOK'
  BY EndKept DEF WritesOK
<1> QED BY <1>2, <1>3, WireKept

-----------------------------------------------------------------------------
(* A message is added to the history: what was sent stays sent.            *)
LEMMA HistoryGrows ==
  ASSUME NEW history \in Seq(Message), Numbered(history),
         NEW m \in Message, m.id = Len(history) + 1, m.body \in {NoBody, m.id}
  PROVE  /\ Numbered(Append(history, m)) /\ IsSent(m, Append(history, m))
         /\ \A x : IsSent(x, history) => IsSent(x, Append(history, m))
         /\ \A n : HasBody(n, history) => HasBody(n, Append(history, m))
<1> DEFINE new == Append(history, m)
<1>1. /\ Len(new) = Len(history) + 1 /\ Len(history) \in Nat
      /\ \A i \in 1 .. Len(history) : new[i] = history[i] /\ i \in 1 .. Len(new)
      /\ new[Len(history) + 1] = m /\ Len(history) + 1 \in 1 .. Len(new)
  OBVIOUS
<1> HIDE DEF new
<1>2. Numbered(new)
  <2> SUFFICES ASSUME NEW i \in 1 .. Len(new)
               PROVE  new[i].id = i /\ new[i].body \in {NoBody, i}
    BY DEF Numbered
  <2>1. i \in 1 .. Len(history) \/ i = Len(history) + 1
    BY <1>1
  <2> QED BY <2>1, <1>1 DEF Numbered
<1>3. IsSent(m, new) /\ \A x : IsSent(x, history) => IsSent(x, new)
  BY <1>1 DEF IsSent
<1>4. \A n : HasBody(n, history) => HasBody(n, new)
  BY <1>1 DEF HasBody
<1> QED BY <1>2, <1>3, <1>4 DEF new

(* A history is not longer than the bound, as its messages are numbered.   *)
LEMMA HistoryBound ==
  ASSUME NEW history \in Seq(Message), Numbered(history)
  PROVE  \A i \in 1 .. Len(history) : i \in 1 .. MaxSends
<1> TAKE i \in 1 .. Len(history)
<1>1. history[i] \in Message /\ history[i].id = i
  BY DEF Numbered
<1> QED BY <1>1 DEF Message

(* Steps that leave the histories, the streams and the readers alone.      *)
LEMMA SentKept ==
  ASSUME AllSent, UNCHANGED <<sent, stream, reading, m_msgTemporaryIn>>,
         NEW s \in Sides,
         m_qMessagesOut'[s] = m_qMessagesOut[s] \/ QueueSent(s)',
         posted'[s] = posted[s] \/ PostedSent(s)'
  PROVE  /\ Numbered(sent[s])' /\ QueueSent(s)' /\ PostedSent(s)'
         /\ StreamSent(s)' /\ ReadSent(s)'
<1>1. Numbered(sent[s])' /\ QueueSent(s)' /\ PostedSent(s)'
  BY DEF AllSent, QueueSent, PostedSent
<1>2. StreamSent(s)' /\ ReadSent(s)'
  BY DEF AllSent, StreamSent, ReadSent
<1> QED BY <1>1, <1>2

-----------------------------------------------------------------------------
(* The steps, one lemma for each.                                          *)
LEMMA InitStep == Init => ConnectionInv
<1> SUFFICES ASSUME Init PROVE ConnectionInv
  OBVIOUS
<1>1. TypeOK
  <2>1. /\ posted \in [Sides -> Seq(Message \union {Close})]
        /\ m_qMessagesOut \in [Sides -> Seq(Message)]
        /\ sent \in [Sides -> Seq(Message)] /\ delivered \in [Sides -> Seq(Message)]
        /\ stream \in [Sides -> Seq(Unit)]
    BY DEF Init
  <2>2. /\ writing \in [Sides -> Seq(Writes)] /\ put \in [Sides -> 0 .. 2]
        /\ \A s \in Sides : put[s] <= Len(writing[s])
    BY DEF Init
  <2>3. m_msgTemporaryIn \in [Sides -> [id : 0 .. MaxSends, body : 0 .. MaxSends]]
    BY DEF Init, NoBody
  <2> QED BY <2>1, <2>2, <2>3 DEF Init, TypeOK, Writes
<1>2. WritesOK
  BY DEF Init, WritesOK, WriteOK, OneOfEach, Writing, Put, Left, IsPut, IsLeft
<1>3. AllSent
  BY DEF Init, AllSent, Numbered, QueueSent, PostedSent, StreamSent, ReadSent
<1>4. Quiet
  BY DEF Init, Quiet, Reads, Sides
<1>5. /\ \A s \in Sides : Awaited(s) = NoBody /\ reading[s] = "none"
      /\ \A s \in Sides, w \in Writes : ~Writing(s, w) /\ ~Left(s, w)
  BY DEF Init, Awaited, Writing, Put, Left, IsPut, IsLeft
<1>6. ClientOK /\ ServerOK
  BY <1>5, PeerFacts, FramedEmpty
     DEF Init, ClientOK, ServerOK, Unanswered, Unsolved, Reads, InStep, Writes
<1> QED BY <1>1, <1>2, <1>3, <1>4, <1>6 DEF ConnectionInv

(* A step that changes nothing.                                            *)
LEMMA StutterStep == ConnectionInv /\ UNCHANGED vars => ConnectionInv'
<1> SUFFICES ASSUME ConnectionInv, UNCHANGED vars PROVE ConnectionInv'
  OBVIOUS
<1> USE DEF ConnectionInv, vars
<1>1. TypeOK'
  BY DEF TypeOK
<1>2. WritesOK' /\ ClientOK' /\ ServerOK'
  BY WritersKept DEF Live
<1>3. AllSent'
  BY SentKept DEF AllSent
<1>4. Quiet'
  BY DEF Quiet, Reads
<1> QED BY <1>1, <1>2, <1>3, <1>4

(* Send, which numbers a message and posts it.                             *)
LEMMA SendStep ==
  ASSUME ConnectionInv, NEW s \in Sides, NEW empty \in BOOLEAN, Send(s, empty)
  PROVE  ConnectionInv'
<1> DEFINE n == Len(sent[s]) + 1
           m == [id |-> n, body |-> IF empty THEN NoBody ELSE n]
<1> USE DEF ConnectionInv
<1>0. sent[s] \in Seq(Message) /\ posted[s] \in Seq(Message \union {Close})
  BY DEF TypeOK
<1>1. m \in Message /\ m.id = Len(sent[s]) + 1 /\ m.body \in {NoBody, m.id}
  <2>1. n \in 1 .. MaxSends
    BY <1>0 DEF Send
  <2> QED BY <2>1 DEF Message, NoBody
<1>2. /\ sent' = [sent EXCEPT ![s] = Append(@, m)]
      /\ posted' = [posted EXCEPT ![s] = Append(@, m)]
      /\ UNCHANGED <<open, linked, m_qMessagesOut, writing, put, stream, input, network>>
      /\ MaySend(s)
  BY DEF Send
<1> HIDE DEF m
<1>3. TypeOK'
  <2>1. sent' \in [Sides -> Seq(Message)]
    BY <1>0, <1>1, <1>2 DEF TypeOK
  <2>2. posted' \in [Sides -> Seq(Message \union {Close})]
    BY <1>0, <1>1, <1>2 DEF TypeOK
  <2> QED BY <2>1, <2>2, <1>2 DEF TypeOK, input
<1>4. WritesOK' /\ ClientOK' /\ ServerOK'
  BY <1>2, WritersKept DEF Live, input
<1>5. Quiet'
  <2>1. s = "server" => handshake = "validated"
    <3>1. s = "server" /\ handshake # "validated" => Len(sent[s]) = 0 /\ Len(delivered[s]) = 0
      BY DEF Quiet
    <3> QED BY <1>2, <3>1 DEF MaySend, Linked, TypeOK
  <2> QED BY <1>2, <2>1, PeerFacts DEF Quiet, Reads, input, TypeOK
<1>6. AllSent'
  <2>1. /\ sent'[s] = Append(sent[s], m)
        /\ \A t \in Sides : t # s => sent'[t] = sent[t] /\ posted'[t] = posted[t]
    BY <1>2 DEF TypeOK
  <2>2. ASSUME NEW t \in Sides
        PROVE  /\ Numbered(sent'[t])
               /\ \A x : IsSent(x, sent[t]) => IsSent(x, sent'[t])
               /\ \A k : HasBody(k, sent[t]) => HasBody(k, sent'[t])
    BY <1>0, <1>1, <2>1, HistoryGrows DEF AllSent
  <2>3. ASSUME NEW t \in Sides PROVE QueueSent(t)' /\ StreamSent(t)' /\ ReadSent(t)'
    BY <1>2, <2>2, PeerFacts DEF AllSent, QueueSent, StreamSent, ReadSent, input
  <2>4. ASSUME NEW t \in Sides PROVE PostedSent(t)'
    <3>1. CASE t = s
      <4>1. posted'[s] = Append(posted[s], m) /\ IsSent(m, sent'[s])
        BY <1>0, <1>1, <1>2, <2>1, HistoryGrows DEF AllSent, TypeOK
      <4>2. ASSUME NEW i \in 1 .. Len(posted'[s])
            PROVE  posted'[s][i] = Close \/ IsSent(posted'[s][i], sent'[s])
        <5>1. (i \in 1 .. Len(posted[s]) /\ posted'[s][i] = posted[s][i]) \/ posted'[s][i] = m
          BY <1>0, <1>1, <4>1
        <5> QED BY <2>2, <4>1, <5>1 DEF AllSent, PostedSent
      <4> QED BY <3>1, <4>2 DEF PostedSent
    <3>2. CASE t # s
      BY <2>1, <2>2, <3>2 DEF AllSent, PostedSent
    <3> QED BY <3>1, <3>2
  <2> QED BY <2>2, <2>3, <2>4 DEF AllSent
<1> QED BY <1>3, <1>4, <1>5, <1>6

(* Disconnect, which posts the close.                                      *)
LEMMA DisconnectStep ==
  ASSUME ConnectionInv, NEW s \in Sides, Disconnect(s)
  PROVE  ConnectionInv'
<1> USE DEF ConnectionInv
<1>1. /\ posted' = [posted EXCEPT ![s] = Append(@, Close)]
      /\ UNCHANGED <<open, linked, m_qMessagesOut, writing, put, stream, input, network, sent>>
      /\ posted[s] \in Seq(Message \union {Close})
  BY DEF Disconnect, TypeOK
<1>2. TypeOK'
  <2>1. posted' \in [Sides -> Seq(Message \union {Close})]
    BY <1>1 DEF TypeOK
  <2> QED BY <2>1, <1>1 DEF TypeOK, input
<1>3. WritesOK' /\ ClientOK' /\ ServerOK'
  BY <1>1, WritersKept DEF Live, input
<1>4. Quiet'
  BY <1>1 DEF Quiet, Reads, input
<1>5. AllSent'
  <2>1. ASSUME NEW t \in Sides PROVE posted'[t] = posted[t] \/ PostedSent(t)'
    <3>1. ASSUME t = s, NEW i \in 1 .. Len(posted'[s])
          PROVE  posted'[s][i] = Close \/ IsSent(posted'[s][i], sent'[s])
      <4>1. posted'[s] = Append(posted[s], Close)
        BY <1>1 DEF TypeOK
      <4>2. (i \in 1 .. Len(posted[s]) /\ posted'[s][i] = posted[s][i]) \/ posted'[s][i] = Close
        BY <1>1, <4>1
      <4> QED BY <1>1, <4>2 DEF AllSent, PostedSent
    <3> QED BY <1>1, <3>1 DEF TypeOK, PostedSent
  <2> QED BY <2>1, <1>1, SentKept DEF AllSent, input
<1> QED BY <1>2, <1>3, <1>4, <1>5

(* A posted function leaves the queue of the io_service.                   *)
LEMMA PostedTail ==
  ASSUME TypeOK, AllSent, NEW s \in Sides, posted[s] # << >>,
         posted' = [posted EXCEPT ![s] = Tail(@)], UNCHANGED sent
  PROVE  /\ posted' \in [Sides -> Seq(Message \union {Close})]
         /\ Head(posted[s]) # Close =>
              Head(posted[s]) \in Message /\ IsSent(Head(posted[s]), sent[s])
         /\ \A t \in Sides : posted'[t] = posted[t] \/ PostedSent(t)'
<1>1. /\ posted[s] \in Seq(Message \union {Close}) /\ posted'[s] = Tail(posted[s])
      /\ Tail(posted[s]) \in Seq(Message \union {Close})
      /\ Head(posted[s]) = posted[s][1] /\ 1 \in 1 .. Len(posted[s])
      /\ \A i \in 1 .. Len(posted'[s]) :
           i + 1 \in 1 .. Len(posted[s]) /\ posted'[s][i] = posted[s][i + 1]
      /\ Head(posted[s]) \in Message \union {Close}
  BY DEF TypeOK
<1>2. posted' \in [Sides -> Seq(Message \union {Close})]
  BY <1>1 DEF TypeOK
<1>3. Head(posted[s]) # Close =>
        Head(posted[s]) \in Message /\ IsSent(Head(posted[s]), sent[s])
  BY <1>1 DEF AllSent, PostedSent
<1>4. \A t \in Sides : posted'[t] = posted[t] \/ PostedSent(t)'
  BY <1>1 DEF AllSent, PostedSent, TypeOK
<1> QED BY <1>2, <1>3, <1>4

(* The posted close: the end no longer writes.                             *)
LEMMA RunCloseStep ==
  ASSUME ConnectionInv, NEW s \in Sides, RunClose(s)
  PROVE  ConnectionInv'
<1> USE DEF ConnectionInv
<1>1. /\ posted[s] # << >> /\ posted' = [posted EXCEPT ![s] = Tail(@)]
      /\ open' = [open EXCEPT ![s] = FALSE]
      /\ UNCHANGED <<linked, m_qMessagesOut, writing, put, stream, input, network, sent>>
  BY DEF RunClose, Shut
<1>2. TypeOK'
  BY <1>1, PostedTail DEF TypeOK, input
<1>3. WritesOK' /\ ClientOK' /\ ServerOK'
  <2>1. \A t \in Sides : Live(t)' => Live(t)
    BY <1>1 DEF Live, TypeOK
  <2> QED BY <1>1, <2>1, WritersKept DEF input
<1>4. Quiet'
  BY <1>1 DEF Quiet, Reads, input
<1>5. AllSent'
  BY <1>1, PostedTail, SentKept DEF AllSent, input
<1> QED BY <1>2, <1>3, <1>4, <1>5

(* The posted send: it starts a write only on an empty queue.              *)
LEMMA RunSendStep ==
  ASSUME ConnectionInv, NEW s \in Sides, RunSend(s)
  PROVE  ConnectionInv'
<1> DEFINE m == Head(posted[s])
           queue == m_qMessagesOut[s]
           longer == Append(queue, m)
<1> USE DEF ConnectionInv
<1>1. /\ posted[s] # << >> /\ m # Close
      /\ posted' = [posted EXCEPT ![s] = Tail(@)]
      /\ m_qMessagesOut' = [m_qMessagesOut EXCEPT ![s] = longer]
      /\ writing' = IF queue = << >> THEN [writing EXCEPT ![s] = Append(@, "header")]
                                     ELSE writing
      /\ UNCHANGED <<open, linked, put, stream, input, network, sent>>
  BY DEF RunSend
<1>2. m \in Message /\ IsSent(m, sent[s])
  BY <1>1, PostedTail
<1>3. /\ queue \in Seq(Message) /\ longer \in Seq(Message) /\ longer # << >>
      /\ queue # << >> => Head(longer) = Head(queue)
      /\ \A i \in 1 .. Len(longer) :
           (i \in 1 .. Len(queue) /\ longer[i] = queue[i]) \/ longer[i] = m
  <2>1. queue \in Seq(Message)
    BY DEF TypeOK
  <2> HIDE DEF queue, m
  <2>2. /\ longer \in Seq(Message) /\ Len(longer) = Len(queue) + 1 /\ Len(queue) \in Nat
        /\ longer[Len(queue) + 1] = m
        /\ \A i \in 1 .. Len(queue) : longer[i] = queue[i]
    BY <1>2, <2>1
  <2> HIDE DEF longer
  <2>3. longer # << >> /\ Head(longer) = longer[1]
    BY <2>2
  <2>4. queue # << >> => Len(queue) > 0 /\ Head(queue) = queue[1]
    BY <2>1
  <2> QED BY <2>1, <2>2, <2>3, <2>4
<1> HIDE DEF m, queue, longer
<1>4. /\ m_qMessagesOut'[s] = longer
      /\ \A t \in Sides : t # s =>
           m_qMessagesOut'[t] = m_qMessagesOut[t] /\ writing'[t] = writing[t]
      /\ writing'[s] = IF queue = << >> THEN Append(writing[s], "header") ELSE writing[s]
  BY <1>1 DEF TypeOK, queue
<1>5. /\ WriteOK(s)' /\ Awaited(s)' = Awaited(s)
      /\ Writing(s, "validation")' <=> Writing(s, "validation")
      /\ Left(s, "validation")' <=> Left(s, "validation")
  <2>1. CASE queue = << >>
    <3>1. \A w \in MessageWrites : ~Put(s, w) /\ ~Left(s, w)
      BY <2>1 DEF WritesOK, WriteOK, Writing, queue
    <3>2. /\ OneOfEach(writing[s]) /\ put[s] \in 0 .. 2 /\ put[s] <= Len(writing[s])
          /\ "header" \in Writes
          /\ \A w \in Writes : SameKind(w, "header") =>
               ~IsPut(writing[s], put[s], w) /\ ~IsLeft(writing[s], put[s], w)
      BY <3>1 DEF WritesOK, WriteOK, Writes, MessageWrites, SameKind, Put, Left
    <3>3. /\ OneOfEach(writing[s])' /\ put'[s] <= Len(writing'[s])
          /\ \A w \in Writes : /\ Put(s, w)' <=> Put(s, w)
                               /\ Left(s, w)' <=> (Left(s, w) \/ w = "header")
      <4>1. /\ OneOfEach(Append(writing[s], "header"))
            /\ put[s] <= Len(Append(writing[s], "header"))
            /\ \A w \in Writes :
                 /\ IsPut(Append(writing[s], "header"), put[s], w)
                      <=> IsPut(writing[s], put[s], w)
                 /\ IsLeft(Append(writing[s], "header"), put[s], w)
                      <=> (IsLeft(writing[s], put[s], w) \/ w = "header")
        BY <3>2, StartAnother
      <4>2. writing'[s] = Append(writing[s], "header") /\ put'[s] = put[s]
        BY <1>1, <1>4, <2>1
      <4> QED BY <4>1, <4>2 DEF Put, Left
    <3>4. /\ \A w \in MessageWrites : ~Put(s, w)' /\ (Left(s, w)' => w = "header")
          /\ Put(s, "validation")' <=> Put(s, "validation")
          /\ Left(s, "validation")' <=> Left(s, "validation")
      BY <3>1, <3>3 DEF Writes, MessageWrites
    <3>5. WriteOK(s)'
      BY <1>1, <1>3, <1>4, <3>2, <3>3, <3>4 DEF WriteOK, Writing, MessageWrites
    <3>6. Awaited(s)' = NoBody /\ Awaited(s) = NoBody
      BY <3>1, <3>4 DEF Awaited, MessageWrites
    <3> QED BY <3>4, <3>5, <3>6 DEF Writing
  <2>2. CASE queue # << >>
    <3>1. /\ writing'[s] = writing[s] /\ put'[s] = put[s]
          /\ Head(m_qMessagesOut'[s]) = Head(m_qMessagesOut[s])
          /\ m_qMessagesOut'[s] # << >>
      BY <1>1, <1>3, <1>4, <2>2 DEF queue
    <3> QED BY <3>1 DEF WritesOK, WriteOK, Awaited, Writing, Put, Left
  <2> QED BY <2>1, <2>2
<1>6. ASSUME NEW t \in Sides, t # s
      PROVE  /\ WriteOK(t)' /\ Awaited(t)' = Awaited(t)
             /\ Writing(t, "validation")' <=> Writing(t, "validation")
             /\ Left(t, "validation")' <=> Left(t, "validation")
  BY <1>1, <1>4, <1>6, EndKept DEF WritesOK, Writes
<1>7. TypeOK'
  <2>1. m_qMessagesOut' \in [Sides -> Seq(Message)]
    BY <1>1, <1>3 DEF TypeOK
  <2>2. /\ posted' \in [Sides -> Seq(Message \union {Close})]
    BY <1>1, PostedTail
  <2>3. writing' \in [Sides -> Seq(Writes)]
    BY <1>1 DEF TypeOK, Writes
  <2>4. \A t \in Sides : put'[t] <= Len(writing'[t])
    BY <1>5, <1>6 DEF WriteOK
  <2> QED BY <1>1, <2>1, <2>2, <2>3, <2>4 DEF TypeOK, input
<1>8. WritesOK' /\ ClientOK' /\ ServerOK'
  <2>1. WritesOK'
    BY <1>5, <1>6 DEF WritesOK
  <2>2. OtherWriters
    BY <1>1, <1>5, <1>6 DEF OtherWriters, Live
  <2> QED BY <1>1, <2>1, <2>2, WireKept DEF input
<1>9. Quiet'
  <2>1. s = "server" => handshake = "validated"
    BY <1>2 DEF Quiet, IsSent
  <2> QED BY <1>1, <1>4, <2>1, PeerFacts DEF Quiet, Reads, input
<1>10. AllSent'
  <2>1. QueueSent(s)'
    BY <1>1, <1>2, <1>3, <1>4 DEF AllSent, QueueSent, queue
  <2> QED BY <1>1, <1>4, <2>1, PostedTail, SentKept DEF AllSent, input
<1> QED BY <1>7, <1>8, <1>9, <1>10

(* A write that fails closes the socket, so nothing follows it.            *)
LEMMA WriteFailsStep ==
  ASSUME ConnectionInv, NEW s \in Sides, WriteFails(s)
  PROVE  ConnectionInv'
<1> USE DEF ConnectionInv
<1>1. /\ put[s] = 0 /\ writing[s] # << >>
      /\ writing' = [writing EXCEPT ![s] = Tail(@)]
      /\ open' = [open EXCEPT ![s] = FALSE]
      /\ UNCHANGED <<linked, posted, m_qMessagesOut, put, stream, input, network, sent>>
  BY DEF WriteFails, Shut
<1>2. /\ writing'[s] = Tail(writing[s]) /\ put'[s] = 0 /\ ~open'[s]
      /\ \A t \in Sides : t # s => writing'[t] = writing[t] /\ open'[t] = open[t]
  BY <1>1 DEF TypeOK
<1>3. /\ WriteOK(s)' /\ ~Live(s)'
      /\ \A w \in Writes : ~Put(s, w)' /\ (Left(s, w)' => Left(s, w))
  <2>1. /\ OneOfEach(writing[s])' /\ put'[s] <= Len(writing'[s])
        /\ \A w \in Writes : ~Put(s, w)' /\ (Left(s, w)' => Left(s, w))
    BY <1>1, <1>2, DropFirst DEF Put, Left, WritesOK, WriteOK
  <2>2. WriteOK(s)'
    BY <1>1, <1>2, <2>1 DEF WritesOK, WriteOK, Writing, Writes, MessageWrites
  <2> QED BY <1>2, <2>1, <2>2 DEF Live
<1>4. ASSUME NEW t \in Sides, t # s
      PROVE  /\ WriteOK(t)' /\ Awaited(t)' = Awaited(t) /\ (Live(t)' => Live(t))
             /\ Writing(t, "validation")' <=> Writing(t, "validation")
             /\ Left(t, "validation")' <=> Left(t, "validation")
  BY <1>1, <1>2, <1>4, EndKept DEF WritesOK, Writes, Live
<1>5. TypeOK'
  <2>1. writing' \in [Sides -> Seq(Writes)]
    BY <1>1 DEF TypeOK
  <2>2. \A t \in Sides : put'[t] <= Len(writing'[t])
    BY <1>3, <1>4 DEF WriteOK
  <2> QED BY <1>1, <2>1, <2>2 DEF TypeOK, input
<1>6. WritesOK' /\ ClientOK' /\ ServerOK'
  <2>1. WritesOK'
    BY <1>3, <1>4 DEF WritesOK
  <2>2. OtherWriters
    BY <1>3, <1>4 DEF OtherWriters, Writing, Writes
  <2> QED BY <1>1, <2>1, <2>2, WireKept DEF input
<1>7. Quiet'
  BY <1>1, <1>2, PeerFacts DEF Quiet, Reads, input
<1>8. AllSent'
  BY <1>1, SentKept DEF AllSent, input
<1> QED BY <1>5, <1>6, <1>7, <1>8

(* The handler of a write starts what follows.                             *)
LEMMA StartStep ==
  ASSUME TypeOK, WritesOK, NEW s \in Sides, put[s] > 0,
         NEW then \in {<< >>, <<"header">>, <<"body">>},
         then # << >> => Head(writing[s]) \in MessageWrites,
         Start(s, then)
  PROVE  /\ writing' \in [Sides -> Seq(Writes)] /\ put' \in [Sides -> 0 .. 2]
         /\ Continues(writing[s], put[s], then, writing'[s])
         /\ put'[s] = put[s] - 1
         /\ writing[s] # << >>
         /\ \A t \in Sides : t # s => writing'[t] = writing[t] /\ put'[t] = put[t]
<1>1. /\ OneOfEach(writing[s]) /\ put[s] \in 0 .. 2 /\ put[s] <= Len(writing[s])
      /\ writing[s] \in Seq(Writes)
  BY DEF WritesOK, WriteOK, TypeOK
<1>2. /\ writing'[s] = Tail(writing[s]) \o then /\ put'[s] = put[s] - 1
      /\ \A t \in Sides : t # s => writing'[t] = writing[t] /\ put'[t] = put[t]
  BY DEF Start, TypeOK
<1>3. writing[s] # << >>
  BY <1>1
<1>4. Continues(writing[s], put[s], then, writing'[s])
  BY <1>1, <1>2, StartNext
<1>5. writing'[s] \in Seq(Writes) /\ put'[s] \in 0 .. 2
  BY <1>2, <1>4 DEF Continues, OneOfEach
<1>6. writing' \in [Sides -> Seq(Writes)] /\ put' \in [Sides -> 0 .. 2]
  BY <1>5 DEF Start, TypeOK
<1> QED BY <1>2, <1>3, <1>4, <1>6

(* The handlers of writes, when the end s is found to be well.             *)
LEMMA WriterSteps ==
  ASSUME ConnectionInv, NEW s \in Sides,
         UNCHANGED <<open, linked, posted, stream, input, network, sent>>,
         writing' \in [Sides -> Seq(Writes)], put' \in [Sides -> 0 .. 2],
         m_qMessagesOut' \in [Sides -> Seq(Message)], writing[s] # << >>,
         \A t \in Sides : t # s =>
           /\ writing'[t] = writing[t] /\ put'[t] = put[t]
           /\ m_qMessagesOut'[t] = m_qMessagesOut[t],
         WriteOK(s)', QueueSent(s)', Awaited(s)' = Awaited(s),
         Writing(s, "validation")' => Writing(s, "validation"),
         Left(s, "validation")' => Left(s, "validation")
  PROVE  ConnectionInv'
<1> USE DEF ConnectionInv
<1>1. ASSUME NEW t \in Sides, t # s
      PROVE  /\ WriteOK(t)' /\ Awaited(t)' = Awaited(t)
             /\ Writing(t, "validation")' <=> Writing(t, "validation")
             /\ Left(t, "validation")' <=> Left(t, "validation")
  BY <1>1, EndKept DEF WritesOK, Writes
<1>2. TypeOK'
  <2>1. \A t \in Sides : put'[t] <= Len(writing'[t])
    BY <1>1 DEF WriteOK
  <2> QED BY <2>1 DEF TypeOK, input
<1>3. WritesOK' /\ ClientOK' /\ ServerOK'
  <2>1. WritesOK'
    BY <1>1 DEF WritesOK
  <2>2. OtherWriters
    BY <1>1 DEF OtherWriters, Live
  <2> QED BY <2>1, <2>2, WireKept DEF input
<1>4. Quiet'
  BY PeerFacts DEF Quiet, Reads, input
<1>5. AllSent'
  BY SentKept DEF AllSent, input
<1> QED BY <1>2, <1>3, <1>4, <1>5

(* The message at the front was the last unit awaited.                     *)
LEMMA FinishStep ==
  ASSUME ConnectionInv, NEW s \in Sides, NEW what \in MessageWrites, Ended(s, what),
         what = "header" => Head(m_qMessagesOut[s]).body = NoBody,
         FinishMessage(s),
         UNCHANGED <<open, linked, posted, stream, input, network, sent>>
  PROVE  ConnectionInv'
<1> DEFINE then == IF Len(m_qMessagesOut[s]) = 1 THEN << >> ELSE <<"header">>
           queue == m_qMessagesOut[s]
<1> USE DEF ConnectionInv
<1>1. /\ put[s] > 0 /\ Head(writing[s]) = what /\ what # "validation"
      /\ m_qMessagesOut' = [m_qMessagesOut EXCEPT ![s] = Tail(@)] /\ Start(s, then)
  BY DEF Ended, FinishMessage, MessageWrites
<1>2. /\ then \in {<< >>, <<"header">>, <<"body">>} /\ then # <<"body">>
      /\ then = <<"header">> <=> Len(queue) # 1
  BY DEF queue
<1> HIDE DEF then
<1>3. /\ writing' \in [Sides -> Seq(Writes)] /\ put' \in [Sides -> 0 .. 2]
      /\ Continues(writing[s], put[s], then, writing'[s])
      /\ put'[s] = put[s] - 1
      /\ writing[s] # << >>
      /\ \A t \in Sides : t # s => writing'[t] = writing[t] /\ put'[t] = put[t]
  BY <1>1, <1>2, StartStep
<1>4. /\ Put(s, what)
      /\ \A w \in MessageWrites : /\ ~Put(s, w)' /\ ~Left(s, w)
                                  /\ Left(s, w)' <=> then = <<w>>
                                  /\ w # what => ~Put(s, w)
      /\ Put(s, "validation")' <=> Put(s, "validation")
      /\ Left(s, "validation")' <=> Left(s, "validation")
  BY <1>1, <1>3 DEF Continues, Put, Left
<1>5. Awaited(s) = NoBody /\ Awaited(s)' = NoBody
  BY <1>2, <1>4 DEF Awaited, MessageWrites
<1>6. queue \in Seq(Message) /\ queue # << >>
  BY <1>4 DEF TypeOK, WritesOK, WriteOK, Writing
<1>7. /\ m_qMessagesOut'[s] = Tail(queue)
      /\ Len(queue) # 1 => Tail(queue) # << >>
      /\ \A i \in 1 .. Len(Tail(queue)) :
           i + 1 \in 1 .. Len(queue) /\ Tail(queue)[i] = queue[i + 1]
      /\ m_qMessagesOut' \in [Sides -> Seq(Message)]
  <2>1. m_qMessagesOut'[s] = Tail(queue) /\ m_qMessagesOut' \in [Sides -> Seq(Message)]
    BY <1>1, <1>6 DEF TypeOK, queue
  <2> HIDE DEF queue
  <2>2. Len(queue) \in Nat /\ Len(queue) # 0 /\ Len(Tail(queue)) = Len(queue) - 1
    BY <1>6
  <2>3. Len(queue) # 1 => Len(Tail(queue)) # 0
    BY <2>2
  <2>4. \A i \in 1 .. Len(Tail(queue)) : Tail(queue)[i] = queue[i + 1]
    BY <1>6
  <2> QED BY <2>1, <2>2, <2>3, <2>4
<1>8. QueueSent(s)'
  BY <1>7 DEF AllSent, QueueSent
<1>9. WriteOK(s)'
  <2>1. OneOfEach(writing'[s]) /\ put'[s] \in 0 .. 2 /\ put'[s] <= Len(writing'[s])
    BY <1>3 DEF Continues
  <2>2. \A w \in MessageWrites : Writing(s, w)' => w = "header" /\ Len(queue) # 1
    BY <1>2, <1>4 DEF Writing, MessageWrites
  <2> QED BY <1>7, <2>1, <2>2 DEF WriteOK, MessageWrites
<1> QED BY <1>1, <1>3, <1>4, <1>5, <1>7, <1>8, <1>9, WriterSteps DEF Writing, TypeOK

(* The handler of a header: its body is next, or the next message.         *)
LEMMA HeaderWrittenStep ==
  ASSUME ConnectionInv, NEW s \in Sides, HeaderWritten(s)
  PROVE  ConnectionInv'
<1> USE DEF ConnectionInv
<1>1. /\ Ended(s, "header") /\ put[s] > 0 /\ Head(writing[s]) = "header"
      /\ UNCHANGED <<open, linked, posted, stream, input, network, sent>>
      /\ "header" \in MessageWrites
  BY DEF HeaderWritten, Ended, MessageWrites
<1>2. CASE /\ Head(m_qMessagesOut[s]).body # NoBody
           /\ Start(s, <<"body">>)
           /\ UNCHANGED m_qMessagesOut
  <2>1. /\ writing' \in [Sides -> Seq(Writes)] /\ put' \in [Sides -> 0 .. 2]
        /\ Continues(writing[s], put[s], <<"body">>, writing'[s])
        /\ put'[s] = put[s] - 1
        /\ writing[s] # << >>
        /\ \A t \in Sides : t # s => writing'[t] = writing[t] /\ put'[t] = put[t]
    BY <1>1, <1>2, StartStep
  <2>2. /\ Put(s, "header")
        /\ \A w \in MessageWrites : ~Put(s, w)' /\ (Left(s, w)' <=> <<"body">> = <<w>>)
        /\ Put(s, "validation")' <=> Put(s, "validation")
        /\ Left(s, "validation")' <=> Left(s, "validation")
    BY <1>1, <2>1 DEF Continues, Put, Left
  <2>3. Awaited(s)' = Awaited(s)
    BY <1>2, <2>2 DEF Awaited, MessageWrites
  <2>4. WriteOK(s)'
    <3>1. OneOfEach(writing'[s]) /\ put'[s] \in 0 .. 2 /\ put'[s] <= Len(writing'[s])
      BY <2>1 DEF Continues
    <3>2. m_qMessagesOut[s] # << >>
      BY <1>1, <2>2 DEF WritesOK, WriteOK, Writing
    <3> QED BY <1>2, <3>1, <3>2 DEF WriteOK
  <2>5. QueueSent(s)' /\ m_qMessagesOut' \in [Sides -> Seq(Message)]
    BY <1>1, <1>2 DEF AllSent, QueueSent, TypeOK
  <2> QED BY <1>1, <1>2, <2>1, <2>2, <2>3, <2>4, <2>5, WriterSteps DEF Writing
<1>3. CASE /\ Head(m_qMessagesOut[s]).body = NoBody
           /\ FinishMessage(s)
  BY <1>1, <1>3, FinishStep
<1> QED BY <1>2, <1>3 DEF HeaderWritten

(* The handler of a body: the message leaves the queue.                    *)
LEMMA BodyWrittenStep ==
  ASSUME ConnectionInv, NEW s \in Sides, BodyWritten(s)
  PROVE  ConnectionInv'
BY FinishStep DEF BodyWritten, MessageWrites

(* The handler of the handshake: the client reads from then on.            *)
LEMMA ValidationWrittenStep ==
  ASSUME ConnectionInv, NEW s \in Sides, ValidationWritten(s)
  PROVE  ConnectionInv'
<1> USE DEF ConnectionInv
<1>1. /\ put[s] > 0 /\ Head(writing[s]) = "validation" /\ Start(s, << >>)
      /\ reading' = IF s = "client" THEN [reading EXCEPT ![s] = "header"] ELSE reading
      /\ UNCHANGED <<open, linked, posted, m_qMessagesOut, stream, m_msgTemporaryIn,
                     delivered, handshake, network, sent>>
  BY DEF ValidationWritten, Ended, Read
<1>2. /\ writing' \in [Sides -> Seq(Writes)] /\ put' \in [Sides -> 0 .. 2]
      /\ Continues(writing[s], put[s], << >>, writing'[s])
      /\ put'[s] = put[s] - 1
      /\ writing[s] # << >>
      /\ \A t \in Sides : t # s => writing'[t] = writing[t] /\ put'[t] = put[t]
  BY <1>1, StartStep
<1>3. /\ Put(s, "validation") /\ ~Left(s, "validation")
      /\ ~Put(s, "validation")' /\ ~Left(s, "validation")'
      /\ \A w \in MessageWrites : (Put(s, w)' <=> Put(s, w)) /\ (Left(s, w)' <=> Left(s, w))
  BY <1>1, <1>2 DEF Continues, Put, Left
<1>4. WriteOK(s)' /\ Awaited(s)' = Awaited(s)
  <2>1. OneOfEach(writing'[s]) /\ put'[s] \in 0 .. 2 /\ put'[s] <= Len(writing'[s])
    BY <1>2 DEF Continues
  <2> QED BY <1>1, <1>3, <2>1 DEF WritesOK, WriteOK, Writing, MessageWrites, Awaited
<1>5. CASE s = "server"
  BY <1>1, <1>2, <1>3, <1>4, <1>5, WriterSteps
     DEF Writing, TypeOK, AllSent, QueueSent, input
<1>6. CASE s = "client"
  <2>1. ASSUME NEW t \in Sides, t # s
        PROVE  /\ WriteOK(t)' /\ Awaited(t)' = Awaited(t)
               /\ Writing(t, "validation")' <=> Writing(t, "validation")
               /\ Left(t, "validation")' <=> Left(t, "validation")
    BY <1>1, <1>2, <2>1, EndKept DEF WritesOK, Writes
  <2>2. TypeOK'
    <3>1. \A t \in Sides : put'[t] <= Len(writing'[t])
      BY <1>4, <2>1 DEF WriteOK
    <3>2. reading' \in [Sides -> Writes \union {"none"}]
      BY <1>1 DEF TypeOK, Writes
    <3> QED BY <1>1, <1>2, <3>1, <3>2 DEF TypeOK
  <2>3. WritesOK'
    BY <1>4, <2>1 DEF WritesOK
  <2>4. /\ reading["client"] = "none" /\ ~Unsolved /\ reading'["client"] = "header"
        /\ reading'["server"] = reading["server"]
        /\ ~Unsolved' /\ Wanted("client") = NoBody /\ Wanted("client")' = NoBody
        /\ linked["client"] = "yes" /\ linked["server"] = "yes" /\ ~Left("server", "validation")
        /\ InStep("server", stream["server"], NoBody)
    BY <1>1, <1>3, <1>6, PeerFacts
       DEF ClientOK, Unsolved, Wanted, Writing, TypeOK, Writes
  <2>5. ClientOK'
    BY <1>1, <1>3, <1>6, <2>1, <2>4, PeerFacts DEF ClientOK, Writing, InStep, Live
  <2>6. ServerOK'
    BY <1>1, <1>3, <1>4, <1>6, <2>1, <2>4, PeerFacts
       DEF ServerOK, Unanswered, InStep, Live, Reads, Wanted
  <2>7. Quiet'
    BY <1>1, <1>2, <2>4, PeerFacts DEF Quiet, Reads
  <2>8. AllSent'
    BY <1>1, <1>6, <2>4, PeerFacts
       DEF AllSent, QueueSent, PostedSent, StreamSent, ReadSent
  <2> QED BY <2>2, <2>3, <2>5, <2>6, <2>7, <2>8
<1> QED BY <1>5, <1>6, PeerFacts

(* The network fails: nothing is on its way and nothing follows.           *)
LEMMA BreakStep ==
  ASSUME ConnectionInv, Break
  PROVE  ConnectionInv'
<1> USE DEF ConnectionInv
<1>1. /\ network' \in {"reset", "lost"} /\ stream' = [s \in Sides |-> << >>]
      /\ UNCHANGED <<open, linked, output, input>>
  BY DEF Break
<1>2. \A s \in Sides : stream'[s] = << >> /\ ~Live(s)'
  BY <1>1 DEF Live
<1>3. TypeOK'
  <2>1. << >> \in Seq(Unit)
    OBVIOUS
  <2>2. stream' \in [Sides -> Seq(Unit)]
    BY <1>1, <2>1
  <2> QED BY <1>1, <2>2 DEF TypeOK, output, input
<1>4. /\ WritesOK'
      /\ \A s \in Sides, w \in Writes :
           (Left(s, w)' <=> Left(s, w)) /\ (Writing(s, w)' <=> Writing(s, w))
  BY <1>1, EndKept DEF WritesOK, output
<1>5. ClientOK' /\ ServerOK'
  BY <1>1, <1>2, <1>4, PeerFacts, FramedEmpty
     DEF ClientOK, ServerOK, Unanswered, Unsolved, Reads, InStep, Writes, input
<1>6. Quiet'
  BY <1>1 DEF Quiet, Reads, output, input
<1>7. AllSent'
  BY <1>1, <1>2 DEF AllSent, QueueSent, PostedSent, StreamSent, ReadSent, output, input
<1> QED BY <1>3, <1>4, <1>5, <1>6, <1>7

(* A read that fails ends the reading of its end.                          *)
LEMMA ReadFailsStep ==
  ASSUME ConnectionInv, NEW s \in Sides, ReadFails(s)
  PROVE  ConnectionInv'
<1> USE DEF ConnectionInv
<1>1. /\ reading[s] # "none" /\ reading' = [reading EXCEPT ![s] = "none"]
      /\ open' = [open EXCEPT ![s] = FALSE]
      /\ UNCHANGED <<linked, output, stream, m_msgTemporaryIn, delivered, handshake, network>>
  BY DEF ReadFails, Read, Shut
<1>2. /\ reading'[s] = "none" /\ ~open'[s] /\ ~Live(s)'
      /\ \A t \in Sides : t # s =>
           reading'[t] = reading[t] /\ Wanted(t)' = Wanted(t) /\ (Live(t)' <=> Live(t))
  BY <1>1 DEF TypeOK, Live, Wanted
<1>3. TypeOK'
  BY <1>1 DEF TypeOK, output
<1>4. /\ WritesOK'
      /\ \A t \in Sides, w \in Writes :
           (Left(t, w)' <=> Left(t, w)) /\ (Writing(t, w)' <=> Writing(t, w))
      /\ \A t \in Sides : Awaited(t)' = Awaited(t)
  BY <1>1, EndKept DEF WritesOK, output
<1>5. ClientOK'
  BY <1>1, <1>2, <1>4, PeerFacts DEF ClientOK, Unsolved, Reads, InStep, Writes
<1>6. ServerOK'
  BY <1>1, <1>2, <1>4, PeerFacts
     DEF ServerOK, Unanswered, Unsolved, Reads, InStep, Writes
<1>7. Quiet'
  BY <1>1, <1>2, PeerFacts DEF Quiet, Reads, output
<1>8. AllSent'
  BY <1>1, <1>2 DEF AllSent, QueueSent, PostedSent, StreamSent, ReadSent, output
<1> QED BY <1>3, <1>4, <1>5, <1>6, <1>7, <1>8

(* The client begins to wait for the challenge.                            *)
LEMMA ConnectToServerStep ==
  ASSUME ConnectionInv, ConnectToServer
  PROVE  ConnectionInv'
<1> USE DEF ConnectionInv
<1>1. /\ linked["client"] # "yes" /\ linked' = [linked EXCEPT !["client"] = "yes"]
      /\ reading' = [reading EXCEPT !["client"] = "validation"]
      /\ UNCHANGED <<open, m_msgTemporaryIn, delivered, handshake, output, stream, network>>
  BY DEF ConnectToServer, Connected, Read
<1>2. /\ linked'["client"] = "yes" /\ linked'["server"] = linked["server"]
      /\ reading'["client"] = "validation" /\ reading'["server"] = reading["server"]
      /\ Wanted("server")' = Wanted("server")
      /\ \A s \in Sides : Live(s)' <=> Live(s)
  BY <1>1, PeerFacts DEF TypeOK, Live, Wanted
<1>3. TypeOK'
  BY <1>1 DEF TypeOK, output, Writes
<1>4. /\ WritesOK'
      /\ \A t \in Sides, w \in Writes :
           (Left(t, w)' <=> Left(t, w)) /\ (Writing(t, w)' <=> Writing(t, w))
      /\ \A t \in Sides : Awaited(t)' = Awaited(t)
  BY <1>1, EndKept DEF WritesOK, output
<1>5. ClientOK'
  BY <1>1, <1>2, <1>4, PeerFacts DEF ClientOK, Unsolved, Reads, Writes
<1>6. ServerOK'
  BY <1>1, <1>2, <1>4, PeerFacts
     DEF ServerOK, Unanswered, Unsolved, Reads, InStep, Writes
<1>7. Quiet'
  BY <1>1, <1>2, PeerFacts DEF Quiet, Reads, output
<1>8. AllSent'
  BY <1>1, <1>2, PeerFacts
     DEF AllSent, QueueSent, PostedSent, StreamSent, ReadSent, output
<1> QED BY <1>3, <1>4, <1>5, <1>6, <1>7, <1>8

(* A connect that fails leaves the client where it was.                    *)
LEMMA ConnectFailsStep ==
  ASSUME ConnectionInv, ConnectFails
  PROVE  ConnectionInv'
<1> USE DEF ConnectionInv
<1>1. /\ linked["client"] # "yes" /\ linked' = [linked EXCEPT !["client"] = "failed"]
      /\ UNCHANGED <<open, input, output, stream, network>>
  BY DEF ConnectFails, Connected
<1>2. /\ linked'["client"] # "yes" /\ linked'["server"] = linked["server"]
      /\ \A s \in Sides : Wanted(s)' = Wanted(s) /\ (Live(s)' <=> Live(s))
  BY <1>1, PeerFacts DEF TypeOK, Live, Wanted, input
<1>3. TypeOK'
  BY <1>1 DEF TypeOK, input, output
<1>4. /\ WritesOK'
      /\ \A t \in Sides, w \in Writes :
           (Left(t, w)' <=> Left(t, w)) /\ (Writing(t, w)' <=> Writing(t, w))
      /\ \A t \in Sides : Awaited(t)' = Awaited(t)
  BY <1>1, EndKept DEF WritesOK, output
<1>5. ClientOK' /\ ServerOK'
  BY <1>1, <1>2, <1>4, PeerFacts
     DEF ClientOK, ServerOK, Unanswered, Unsolved, Reads, InStep, Writes, input
<1>6. Quiet'
  BY <1>1, <1>2, PeerFacts DEF Quiet, Reads, input, output
<1>7. AllSent'
  BY <1>1, <1>2 DEF AllSent, QueueSent, PostedSent, StreamSent, ReadSent, input, output
<1> QED BY <1>3, <1>4, <1>5, <1>6, <1>7

(* The server writes the challenge and waits for its answer.               *)
LEMMA ConnectToClientStep ==
  ASSUME ConnectionInv, ConnectToClient
  PROVE  ConnectionInv'
<1> USE DEF ConnectionInv
<1>1. /\ linked["server"] # "yes" /\ linked' = [linked EXCEPT !["server"] = "yes"]
      /\ writing' = [writing EXCEPT !["server"] = <<"validation">>]
      /\ reading' = [reading EXCEPT !["server"] = "validation"]
      /\ UNCHANGED <<open, posted, m_qMessagesOut, put, stream, m_msgTemporaryIn,
                     network, handshake, sent, delivered>>
  BY DEF ConnectToClient, Connected, Read
<1>2. /\ linked'["server"] = "yes" /\ linked'["client"] = linked["client"]
      /\ reading'["server"] = "validation" /\ reading'["client"] = reading["client"]
      /\ writing'["server"] = <<"validation">> /\ writing'["client"] = writing["client"]
      /\ Wanted("client")' = Wanted("client")
      /\ \A s \in Sides : Live(s)' <=> Live(s)
  BY <1>1, PeerFacts DEF TypeOK, Live, Wanted
<1>3. writing["server"] = << >> /\ put["server"] = 0 /\ handshake = "pending"
  <2>1. writing["server"] = << >> /\ handshake = "pending"
    BY <1>1 DEF Quiet
  <2>2. put["server"] \in 0 .. 2 /\ put["server"] <= Len(writing["server"])
    BY PeerFacts DEF TypeOK
  <2> QED BY <2>1, <2>2
<1>4. /\ WriteOK("server")' /\ Awaited("server")' = Awaited("server")
      /\ \A w \in Writes : ~Put("server", w)' /\ (Left("server", w)' <=> w = "validation")
  <2>1. \A w \in Writes : ~Put("server", w)' /\ (Left("server", w)' <=> w = "validation")
    BY <1>1, <1>2, <1>3 DEF Put, Left, IsPut, IsLeft
  <2>2. \A w \in Writes : ~Put("server", w) /\ ~Left("server", w)
    BY <1>3 DEF Put, Left, IsPut, IsLeft
  <2>3. OneOfEach(<<"validation">>) /\ 0 <= Len(<<"validation">>)
    BY DEF OneOfEach, Writes
  <2> QED BY <1>1, <1>2, <1>3, <2>1, <2>2, <2>3
             DEF WriteOK, Writing, Awaited, Writes, MessageWrites
<1>5. /\ WriteOK("client")' /\ Awaited("client")' = Awaited("client")
      /\ \A w \in Writes : /\ Left("client", w)' <=> Left("client", w)
                           /\ Writing("client", w)' <=> Writing("client", w)
  BY <1>1, <1>2, EndKept, PeerFacts DEF WritesOK
<1>6. TypeOK'
  <2>0. <<"validation">> \in Seq(Writes)
    BY DEF Writes
  <2>1. writing' \in [Sides -> Seq(Writes)]
    BY <1>1, <2>0 DEF TypeOK
  <2>2. \A s \in Sides : put'[s] <= Len(writing'[s])
    BY <1>4, <1>5, PeerFacts DEF WriteOK
  <2> QED BY <1>1, <2>1, <2>2 DEF TypeOK, Writes
<1>7. ClientOK'
  BY <1>1, <1>2, <1>4, <1>5, PeerFacts DEF ClientOK, Unsolved, Reads, Writes
<1>8. ServerOK'
  BY <1>1, <1>2, <1>3, <1>4, <1>5, PeerFacts
     DEF ServerOK, Unanswered, Unsolved, Reads, InStep, Writes
<1>9. Quiet'
  BY <1>1, <1>2, <1>3 DEF Quiet, Reads
<1>10. AllSent'
  BY <1>1, <1>2, PeerFacts DEF AllSent, QueueSent, PostedSent, StreamSent, ReadSent
<1> QED BY <1>4, <1>5, <1>6, <1>7, <1>8, <1>9, <1>10, PeerFacts DEF WritesOK

-----------------------------------------------------------------------------
(* The end s puts the write x on the wire, the unit u.                     *)
PutsUnit(s, x, u) ==
  /\ x \in Writes /\ u \in Unit
  /\ x \in MessageWrites =>
       /\ m_qMessagesOut[s] # << >>
       /\ Fits(u, Awaited(s)) /\ After(u) = Awaited(s)'
       /\ u.type \in {"header", "body"}
  /\ x = "validation" =>
       /\ u = (IF s = "server" THEN Challenge ELSE Response)
       /\ Awaited(s)' = Awaited(s)
  /\ u.type = "header" /\ ~u.empty => HasBody(u.id, sent[s])
  /\ put' \in [Sides -> 0 .. 2] /\ put'[s] <= Len(writing'[s])
  /\ Left(s, x) /\ ~IsLeft(writing'[s], put'[s], x)
  /\ WriteOK(s)'
  /\ \A w \in Writes : Writing(s, w)' <=> Writing(s, w)
  /\ \A w \in Writes : Left(s, w)' => Left(s, w)

(* The unit that is put on the wire is what the writer awaited.            *)
LEMMA NextUnit ==
  ASSUME ConnectionInv, NEW s \in Sides, Live(s), put[s] < Len(writing[s]),
         NEW CONSTANT x, x = writing[s][put[s] + 1],
         NEW CONSTANT u, u = Buffer(s, x),
         put' = [put EXCEPT ![s] = @ + 1], UNCHANGED <<writing, m_qMessagesOut>>
  PROVE  PutsUnit(s, x, u)
<1> USE DEF ConnectionInv
<1> USE DEF PutsUnit
<1> DEFINE m == Head(m_qMessagesOut[s])
<1>1. /\ OneOfEach(writing[s]) /\ put[s] \in 0 .. 2 /\ put[s] <= Len(writing[s])
      /\ put'[s] = put[s] + 1 /\ writing'[s] = writing[s]
  BY DEF WritesOK, WriteOK, TypeOK
<1>2. /\ put[s] + 1 \in 0 .. 2 /\ put[s] + 1 <= Len(writing[s]) /\ x \in Writes
      /\ Left(s, x) /\ ~Left(s, x)' /\ Put(s, x)'
      /\ \A w \in Writes : w # x =>
           (Put(s, w)' <=> Put(s, w)) /\ (Left(s, w)' <=> Left(s, w))
      /\ x \in MessageWrites => \A w \in MessageWrites :
           ~Put(s, w) /\ (w # x => ~Left(s, w))
  BY <1>1, PutNext DEF Put, Left
<1>3. /\ \A w \in Writes : Writing(s, w)' <=> Writing(s, w)
      /\ \A w \in Writes : Left(s, w)' => Left(s, w)
  BY <1>2 DEF Writing
<1>4. ~IsLeft(writing'[s], put'[s], x) /\ put' \in [Sides -> 0 .. 2] /\ put'[s] <= Len(writing'[s])
  BY <1>1, <1>2 DEF TypeOK, Left
<1>5. WriteOK(s)'
  BY <1>1, <1>2, <1>3 DEF WritesOK, WriteOK, Writes, MessageWrites
<1>6. ASSUME x \in MessageWrites
      PROVE  /\ m_qMessagesOut[s] # << >> /\ m \in Message
             /\ m.id \in 1 .. MaxSends /\ m.body \in {NoBody, m.id}
             /\ m.body # NoBody => HasBody(m.id, sent[s])
             /\ x = "body" => m.body # NoBody
  <2>1. m_qMessagesOut[s] # << >> /\ (x = "body" => m.body # NoBody)
    BY <1>2, <1>6 DEF WritesOK, WriteOK, Writing
  <2>2. m_qMessagesOut[s] \in Seq(Message)
    BY DEF TypeOK
  <2>3. m = m_qMessagesOut[s][1] /\ 1 \in 1 .. Len(m_qMessagesOut[s]) /\ m \in Message
    BY <2>1, <2>2
  <2>4. IsSent(m, sent[s]) /\ Numbered(sent[s])
    BY <2>3 DEF AllSent, QueueSent
  <2> QED BY <2>1, <2>3, <2>4 DEF IsSent, Numbered, HasBody, Message
<1>7. CASE x = "header"
  <2>1. u = Header(m)
    BY <1>7 DEF Buffer
  <2>2. /\ Header(m) \in Unit /\ Header(m).type = "header" /\ Header(m).id = m.id
        /\ Header(m).empty <=> m.body = NoBody
    BY <1>6, <1>7, MessageUnits DEF MessageWrites
  <2>3. Awaited(s) = NoBody /\ Awaited(s)' = m.body
    BY <1>2, <1>7 DEF Awaited, MessageWrites
  <2>4. Fits(Header(m), Awaited(s)) /\ After(Header(m)) = m.body
    BY <1>6, <1>7, <2>2, <2>3 DEF Fits, After, MessageWrites
  <2>5. Header(m).type = "header" /\ ~Header(m).empty => HasBody(Header(m).id, sent[s])
    BY <1>6, <1>7, <2>2 DEF MessageWrites
  <2> QED BY <1>2, <1>3, <1>4, <1>5, <1>6, <1>7, <2>1, <2>2, <2>3, <2>4, <2>5
             DEF MessageWrites
<1>8. CASE x = "body"
  <2>1. u = Body(m)
    BY <1>8 DEF Buffer
  <2>2. /\ Body(m) \in Unit /\ Body(m).type = "body" /\ Body(m).body = m.body
    BY <1>6, <1>8, MessageUnits DEF MessageWrites
  <2>3. Awaited(s) = m.body /\ Awaited(s)' = NoBody
    BY <1>2, <1>8 DEF Awaited, MessageWrites, Writes
  <2>4. Fits(Body(m), Awaited(s)) /\ After(Body(m)) = NoBody
    BY <1>6, <1>8, <2>2, <2>3 DEF Fits, After, MessageWrites
  <2> QED BY <1>2, <1>3, <1>4, <1>5, <1>6, <1>8, <2>1, <2>2, <2>3, <2>4
             DEF MessageWrites
<1>9. CASE x = "validation"
  <2>1. u = IF s = "server" THEN Challenge ELSE Response
    BY <1>9 DEF Buffer
  <2>2. u \in Unit /\ u.type \notin {"header", "body"}
    BY <2>1 DEF Unit, Challenge, Response
  <2>3. Awaited(s)' = Awaited(s)
    BY <1>2, <1>9 DEF Awaited, Writes
  <2> QED BY <1>2, <1>3, <1>4, <1>5, <1>9, <2>1, <2>2, <2>3 DEF MessageWrites
<1> QED BY <1>2, <1>7, <1>8, <1>9 DEF Writes

(* A unit of a message goes on from where the writer was.                  *)
LEMMA InStepAppend ==
  ASSUME NEW s \in Sides, NEW st \in Seq(Unit), NEW from, NEW u \in Unit,
         Live(s), InStep(s, st, from), Fits(u, Awaited(s)), After(u) = Awaited(s)'
  PROVE  /\ Framed(Append(st, u), from)
         /\ End(Append(st, u), from) = Awaited(s)'
BY FramedAppend DEF InStep

(* A unit is put on the wire: the other end stays in step.                 *)
LEMMA TransmitStep ==
  ASSUME ConnectionInv, NEW s \in Sides, Transmit(s)
  PROVE  ConnectionInv'
<1> USE DEF ConnectionInv
<1> PICK x : x = writing[s][put[s] + 1]
  OBVIOUS
<1> PICK u : u = Buffer(s, x)
  OBVIOUS
<1> DEFINE st == stream[s]
<1>1. /\ put[s] < Len(writing[s]) /\ Live(s)
      /\ stream' = [stream EXCEPT ![s] = Append(@, u)]
      /\ put' = [put EXCEPT ![s] = @ + 1]
      /\ UNCHANGED <<open, linked, posted, m_qMessagesOut, writing, sent, input, network>>
  BY DEF Transmit, Live
<1>0. PutsUnit(s, x, u)
  BY <1>1, NextUnit
<1> USE DEF PutsUnit
<1>2. PutsUnit(s, x, u) /\ ~Left(s, x)'
  BY <1>0 DEF Left
<1>3. /\ st \in Seq(Unit) /\ stream'[s] = Append(st, u) /\ Append(st, u) \in Seq(Unit)
      /\ \A t \in Sides : t # s => stream'[t] = stream[t]
  BY <1>1, <1>2 DEF TypeOK
<1> HIDE DEF st
<1>4. /\ Len(Append(st, u)) = Len(st) + 1 /\ Append(st, u) # << >>
      /\ \A i \in 1 .. Len(Append(st, u)) :
           (i \in 1 .. Len(st) /\ Append(st, u)[i] = st[i]) \/ Append(st, u)[i] = u
      /\ st # << >> => /\ Append(st, u)[1] = st[1] /\ 1 \in 1 .. Len(st)
                       /\ Tail(Append(st, u)) = Append(Tail(st), u)
                       /\ Tail(st) \in Seq(Unit)
      /\ st = << >> => Append(st, u)[1] = u /\ Tail(Append(st, u)) = << >>
  <2>1. u \in Unit
    BY <1>2
  <2>2. /\ Len(Append(st, u)) = Len(st) + 1 /\ Append(st, u) # << >>
        /\ \A i \in 1 .. Len(Append(st, u)) :
             (i \in 1 .. Len(st) /\ Append(st, u)[i] = st[i]) \/ Append(st, u)[i] = u
    BY ONLY <1>3, <2>1
  <2>3. st # << >> => Append(st, u)[1] = st[1] /\ 1 \in 1 .. Len(st)
    BY ONLY <1>3, <2>1
  <2>4. st # << >> => Tail(Append(st, u)) = Append(Tail(st), u) /\ Tail(st) \in Seq(Unit)
    BY ONLY <1>3, <2>1
  <2>5. st = << >> => Append(st, u)[1] = u /\ Tail(Append(st, u)) = << >>
    BY ONLY <1>3, <2>1
  <2> QED BY <2>2, <2>3, <2>4, <2>5
<1>5. ASSUME NEW t \in Sides, t # s
      PROVE  /\ WriteOK(t)' /\ Awaited(t)' = Awaited(t) /\ put'[t] <= Len(writing'[t])
             /\ \A w \in Writes : Writing(t, w)' <=> Writing(t, w)
             /\ \A w \in Writes : Left(t, w)' <=> Left(t, w)
  <2>1. put'[t] = put[t]
    BY <1>1, <1>5 DEF TypeOK
  <2> QED BY <1>1, <1>5, <2>1, EndKept DEF WritesOK, TypeOK
<1>6. TypeOK'
  <2>1. stream' \in [Sides -> Seq(Unit)]
    BY <1>1, <1>3 DEF TypeOK, st
  <2> QED BY <1>1, <1>2, <1>5, <2>1 DEF TypeOK, input
<1>7. WritesOK'
  BY <1>2, <1>5 DEF WritesOK
<1>8. /\ \A t \in Sides : (Live(t)' <=> Live(t)) /\ Wanted(t)' = Wanted(t)
      /\ \A t \in Sides : Reads(t)' <=> Reads(t)
      /\ Unsolved' <=> Unsolved
  BY <1>1 DEF Live, Wanted, Reads, Unsolved, input
<1>9. ASSUME NEW from, NEW tail \in Seq(Unit), x \in MessageWrites, InStep(s, tail, from)
      PROVE  /\ Framed(Append(tail, u), from)
             /\ End(Append(tail, u), from) = Awaited(s)'
  BY <1>1, <1>2, <1>9, InStepAppend
<1>13. ASSUME x \in MessageWrites, NEW t \in Sides, InStep(s, stream[s], Wanted(t))
       PROVE  InStep(s, stream[s], Wanted(t))'
  <2>1. stream'[s] = Append(stream[s], u) /\ stream[s] \in Seq(Unit)
    BY <1>3 DEF st
  <2>2. /\ Framed(Append(stream[s], u), Wanted(t))
        /\ End(Append(stream[s], u), Wanted(t)) = Awaited(s)'
    BY <1>9, <1>13, <2>1
  <2>3. Wanted(t)' = Wanted(t)
    BY <1>8
  <2> QED BY <2>1, <2>2, <2>3 DEF InStep
<1>14. ASSUME x \in MessageWrites, stream[s] # << >>, InStep(s, Tail(stream[s]), NoBody)
       PROVE  InStep(s, Tail(stream[s]), NoBody)'
  <2>1. /\ Tail(stream'[s]) = Append(Tail(stream[s]), u)
        /\ Tail(stream[s]) \in Seq(Unit)
    BY <1>3, <1>4, <1>14 DEF st
  <2>2. /\ Framed(Append(Tail(stream[s]), u), NoBody)
        /\ End(Append(Tail(stream[s]), u), NoBody) = Awaited(s)'
    BY <1>9, <1>14, <2>1
  <2> QED BY <2>1, <2>2 DEF InStep
<1>10. ClientOK' /\ ServerOK'
  <2>1. CASE s = "server"
    <3>1. /\ stream'["client"] = stream["client"] /\ Awaited("client")' = Awaited("client")
          /\ \A w \in Writes : /\ Writing("client", w)' <=> Writing("client", w)
                               /\ Left("client", w)' <=> Left("client", w)
      BY <1>3, <1>5, <2>1, PeerFacts
    <3>2. ServerOK'
      BY <1>1, <1>2, <1>8, <2>1, <3>1, PeerFacts
         DEF ServerOK, Unanswered, InStep, Writes, input
    <3>3. CASE x = "validation"
      <4>1. Left("server", "validation") /\ ~Left("server", "validation")' /\ linked["server"] = "yes"
        <5>1. linked["server"] # "yes" => ~Left("server", "validation")
          <6>1. linked["server"] # "yes" => Len(writing["server"]) = 0
            BY DEF Quiet
          <6>2. put["server"] \in 0 .. 2
            BY PeerFacts DEF TypeOK
          <6> QED BY <6>1, <6>2 DEF Left, IsLeft
        <5> QED BY <1>2, <2>1, <3>3, <5>1
      <4>2. stream["server"] = << >> /\ stream'["server"] = <<Challenge>>
        <5>1. stream["server"] = << >> /\ u = Challenge
          BY <1>2, <2>1, <3>3, <4>1 DEF ClientOK
        <5>2. stream'["server"] = Append(<< >>, Challenge)
          BY <1>3, <2>1, <5>1 DEF st
        <5>3. Append(<< >>, Challenge) = <<Challenge>>
          OBVIOUS
        <5> QED BY <5>1, <5>2, <5>3
      <4> QED BY <1>1, <1>8, <3>1, <3>2, <4>1, <4>2, PeerFacts
                 DEF ClientOK, Unsolved, Writes, input
    <3>4. CASE x \in MessageWrites
      <4>1. handshake = "validated" /\ ~Unanswered
        <5>1. m_qMessagesOut["server"] # << >> /\ m_qMessagesOut["server"] \in Seq(Message)
          BY <1>2, <2>1, <3>4 DEF TypeOK
        <5>2. 1 \in 1 .. Len(m_qMessagesOut["server"])
          BY <5>1
        <5>3. handshake = "validated"
          BY <5>2, PeerFacts DEF AllSent, QueueSent, IsSent, Quiet
        <5> QED BY <5>3 DEF ServerOK
      <4>2. InStep("server", stream["server"], Wanted("client")) =>
              InStep("server", stream["server"], Wanted("client"))'
        BY <1>13, <2>1, <3>4, PeerFacts DEF InStep
      <4> QED BY <1>1, <1>2, <1>8, <2>1, <3>1, <3>2, <4>1, <4>2, PeerFacts
                 DEF ClientOK, Unanswered, Unsolved, Writes, input
    <3> QED BY <1>2, <3>3, <3>4 DEF Writes, MessageWrites
  <2>2. CASE s = "client"
    <3>1. /\ stream'["server"] = stream["server"] /\ Awaited("server")' = Awaited("server")
          /\ \A w \in Writes : /\ Writing("server", w)' <=> Writing("server", w)
                               /\ Left("server", w)' <=> Left("server", w)
      BY <1>3, <1>5, <2>2, PeerFacts
    <3>2. ClientOK'
      BY <1>1, <1>2, <1>8, <2>2, <3>1, PeerFacts
         DEF ClientOK, Unsolved, InStep, Writes, input
    <3>3. CASE x = "validation"
      <4>1. Unanswered /\ ~Unanswered' /\ u = Response /\ ~Reads("server")
        BY <1>1, <1>2, <1>8, <2>2, <3>1, <3>3
           DEF Unanswered, ClientOK, ServerOK, Quiet, Writing, Writes, input
      <4>2. handshake = "pending" /\ stream["client"] # << >> =>
              stream'["client"][1].type # "response"
        BY <1>3, <1>4, <2>2, <4>1 DEF ServerOK, st
      <4>3. handshake = "pending" /\ stream["client"] = << >> =>
              InStep("client", Tail(stream["client"]), NoBody)'
        <5>1. ASSUME handshake = "pending", stream["client"] = << >>
              PROVE  /\ Tail(stream'["client"]) = << >> /\ Awaited("client")' = Awaited("client")
                     /\ Live("client")' <=> Live("client")
          BY <1>2, <1>3, <1>4, <1>8, <2>2, <3>3, <5>1 DEF st
        <5>2. ASSUME handshake = "pending", stream["client"] = << >>
              PROVE  InStep("client", << >>, NoBody)
          BY <5>2 DEF ServerOK
        <5> QED BY <5>1, <5>2 DEF InStep
      <4> QED BY <1>1, <1>3, <1>4, <1>8, <2>2, <3>2, <4>1, <4>2, <4>3, PeerFacts
                 DEF ServerOK, input
    <3>4. CASE x \in MessageWrites
      <4>1. u.type # "response" /\ (Unanswered' => Unanswered)
        BY <1>1, <1>2, <1>8, <2>2, <3>1, <3>4 DEF Unanswered, Writes, input
      <4>2. Unanswered' =>
              /\ handshake # "validated"
              /\ \A i \in 1 .. Len(stream'["client"]) : stream'["client"][i].type # "response"
        <5> SUFFICES ASSUME Unanswered'
                     PROVE  /\ handshake # "validated"
                            /\ \A i \in 1 .. Len(stream'["client"]) :
                                 stream'["client"][i].type # "response"
          OBVIOUS
        <5>1. /\ handshake # "validated"
              /\ \A i \in 1 .. Len(stream["client"]) :
                   stream["client"][i].type # "response"
          BY <4>1 DEF ServerOK
        <5>2. /\ stream["client"] \in Seq(Unit)
              /\ stream'["client"] = Append(stream["client"], u)
          BY <1>3, <2>2 DEF st
        <5> HIDE DEF st
        <5>3. ASSUME NEW i \in 1 .. Len(stream'["client"])
              PROVE  stream'["client"][i].type # "response"
          BY ONLY <4>1, <5>1, <5>2, <5>3
        <5> QED BY <5>1, <5>3
      <4>3. handshake = "pending" /\ stream'["client"][1].type = "response" =>
              InStep("client", Tail(stream["client"]), NoBody)'
        <5>1. ASSUME handshake = "pending", stream'["client"][1].type = "response"
              PROVE  /\ stream["client"] # << >> /\ stream["client"][1].type = "response"
          BY <1>3, <1>4, <2>2, <4>1, <5>1 DEF st
        <5> QED BY <1>14, <2>2, <3>4, <5>1 DEF ServerOK
      <4>4. Reads("server") => InStep("client", stream["client"], Wanted("server"))'
        BY <1>13, <2>2, <3>4, PeerFacts DEF ServerOK, InStep
      <4> QED BY <1>1, <1>3, <1>4, <1>8, <2>2, <3>2, <4>2, <4>3, <4>4, PeerFacts
                 DEF ServerOK, input
    <3> QED BY <1>2, <3>3, <3>4 DEF Writes, MessageWrites
  <2> QED BY <2>1, <2>2, PeerFacts
<1>11. Quiet'
  BY <1>1 DEF Quiet, Reads, input
<1>12. AllSent'
  <2>1. StreamSent(s)'
    <3>1. \A i \in 1 .. Len(st) :
            st[i].type = "header" /\ ~st[i].empty => HasBody(st[i].id, sent[s])
      BY DEF AllSent, StreamSent, st
    <3>2. u.type = "header" /\ ~u.empty => HasBody(u.id, sent[s])
      BY <1>2
    <3>3. st \in Seq(Unit) /\ stream'[s] = Append(st, u) /\ sent' = sent
      BY <1>1, <1>3
    <3>4. ASSUME NEW i \in 1 .. Len(stream'[s])
          PROVE  stream'[s][i].type = "header" /\ ~stream'[s][i].empty =>
                   HasBody(stream'[s][i].id, sent[s])
      BY ONLY <3>1, <3>2, <3>3, <3>4
    <3> QED BY ONLY <3>3, <3>4 DEF StreamSent
  <2>2. \A t \in Sides : t # s => StreamSent(t)'
    BY <1>1, <1>3 DEF AllSent, StreamSent
  <2> QED BY <1>1, <2>1, <2>2 DEF AllSent, QueueSent, PostedSent, ReadSent, input
<1> QED BY <1>6, <1>7, <1>10, <1>11, <1>12

-----------------------------------------------------------------------------
(* A unit leaves the stream of the end p.                                  *)
LEMMA StreamTail ==
  ASSUME TypeOK, AllSent, NEW p \in Sides, stream[p] # << >>,
         stream' = [stream EXCEPT ![p] = Tail(@)], UNCHANGED sent
  PROVE  /\ stream' \in [Sides -> Seq(Unit)]
         /\ stream[p] \in Seq(Unit) /\ stream'[p] = Tail(stream[p])
         /\ Head(stream[p]) \in Unit /\ Head(stream[p]) = stream[p][1]
         /\ 1 \in 1 .. Len(stream[p])
         /\ \A i \in 1 .. Len(stream'[p]) :
              i + 1 \in 1 .. Len(stream[p]) /\ stream'[p][i] = stream[p][i + 1]
         /\ \A t \in Sides : t # p => stream'[t] = stream[t]
         /\ \A t \in Sides : StreamSent(t)'
         /\ Head(stream[p]).type = "header" /\ ~Head(stream[p]).empty =>
              HasBody(Head(stream[p]).id, sent[p])
<1>1. stream[p] \in Seq(Unit)
  BY DEF TypeOK
<1>2. /\ Head(stream[p]) \in Unit /\ Head(stream[p]) = stream[p][1]
      /\ 1 \in 1 .. Len(stream[p])
      /\ Tail(stream[p]) \in Seq(Unit)
      /\ \A i \in 1 .. Len(Tail(stream[p])) :
           i + 1 \in 1 .. Len(stream[p]) /\ Tail(stream[p])[i] = stream[p][i + 1]
  BY <1>1
<1>3. /\ stream'[p] = Tail(stream[p]) /\ stream' \in [Sides -> Seq(Unit)]
      /\ \A t \in Sides : t # p => stream'[t] = stream[t]
  BY <1>2 DEF TypeOK
<1>4. \A t \in Sides : StreamSent(t)'
  BY <1>2, <1>3 DEF AllSent, StreamSent
<1>5. Head(stream[p]).type = "header" /\ ~Head(stream[p]).empty =>
        HasBody(Head(stream[p]).id, sent[p])
  BY <1>2 DEF AllSent, StreamSent
<1> QED BY <1>1, <1>2, <1>3, <1>4, <1>5

(* Steps that start and finish no write, but for the client's reply.       *)
LEMMA WritersIdle ==
  ASSUME WritesOK, UNCHANGED <<writing, put, m_qMessagesOut>>
  PROVE  /\ WritesOK'
         /\ \A t \in Sides : Awaited(t)' = Awaited(t)
         /\ \A t \in Sides, w \in Writes :
              (Left(t, w)' <=> Left(t, w)) /\ (Writing(t, w)' <=> Writing(t, w))
BY EndKept DEF WritesOK

(* The server reads the answer, and reads on only if it is one.            *)
LEMMA ServerValidatesStep ==
  ASSUME ConnectionInv, ServerValidates
  PROVE  ConnectionInv'
<1> USE DEF ConnectionInv
<1>1. /\ reading["server"] = "validation" /\ stream["client"] # << >>
      /\ stream' = [stream EXCEPT !["client"] = Tail(@)]
      /\ UNCHANGED <<linked, output, m_msgTemporaryIn, delivered, network>>
      /\ UNCHANGED <<writing, put, m_qMessagesOut, sent>>
  BY PeerFacts DEF ServerValidates, Receives, output
<1>2. /\ stream' \in [Sides -> Seq(Unit)]
      /\ Head(stream["client"]) \in Unit /\ Head(stream["client"]) = stream["client"][1]
      /\ 1 \in 1 .. Len(stream["client"])
      /\ stream'["client"] = Tail(stream["client"])
      /\ \A i \in 1 .. Len(stream'["client"]) :
           /\ i + 1 \in 1 .. Len(stream["client"])
           /\ stream'["client"][i] = stream["client"][i + 1]
      /\ stream'["server"] = stream["server"]
      /\ \A t \in Sides : StreamSent(t)'
  BY <1>1, PeerFacts, StreamTail
<1>3. /\ WritesOK'
      /\ \A t \in Sides : Awaited(t)' = Awaited(t)
      /\ \A t \in Sides, w \in Writes :
           (Left(t, w)' <=> Left(t, w)) /\ (Writing(t, w)' <=> Writing(t, w))
  BY <1>1, WritersIdle
<1>4. handshake = "pending" /\ linked["server"] = "yes"
  BY <1>1 DEF Quiet
<1>5. CASE /\ Head(stream["client"]) = Response
           /\ handshake' = "validated"
           /\ reading' = [reading EXCEPT !["server"] = "header"]
           /\ UNCHANGED open
  <2>1. /\ reading'["server"] = "header" /\ reading'["client"] = reading["client"]
        /\ Wanted("server")' = NoBody /\ Wanted("client")' = Wanted("client")
        /\ \A t \in Sides : Live(t)' <=> Live(t)
    BY <1>1, <1>5, PeerFacts DEF TypeOK, Wanted, Live
  <2>2. stream["client"][1].type = "response" /\ ~Unanswered
    BY <1>2, <1>5 DEF ServerOK, Response
  <2>3. ~Unanswered'
    BY <1>1, <1>3, <2>1, <2>2, PeerFacts DEF Unanswered, Unsolved, Writes
  <2>4. InStep("client", Tail(stream["client"]), NoBody)
    BY <1>1, <1>4, <2>2 DEF ServerOK
  <2>5. TypeOK'
    BY <1>1, <1>2, <1>5 DEF TypeOK, output, Writes
  <2>6. ClientOK'
    BY <1>1, <1>2, <1>3, <2>1, PeerFacts
       DEF ClientOK, Unsolved, Reads, InStep, Writes
  <2>7. ServerOK'
    BY <1>2, <1>3, <1>5, <2>1, <2>3, <2>4, PeerFacts DEF ServerOK, InStep
  <2>8. Quiet'
    BY <1>1, <1>4, <1>5, <2>1 DEF Quiet
  <2>9. AllSent'
    BY <1>1, <1>2, <2>1, PeerFacts
       DEF AllSent, QueueSent, PostedSent, ReadSent, output
  <2> QED BY <1>3, <2>5, <2>6, <2>7, <2>8, <2>9
<1>6. CASE /\ Head(stream["client"]) # Response
           /\ handshake' = "rejected"
           /\ reading' = [reading EXCEPT !["server"] = "none"]
           /\ open' = [open EXCEPT !["server"] = FALSE]
  <2>1. /\ reading'["server"] = "none" /\ reading'["client"] = reading["client"]
        /\ Wanted("client")' = Wanted("client")
        /\ ~Live("server")' /\ (Live("client")' <=> Live("client"))
    BY <1>1, <1>6, PeerFacts DEF TypeOK, Wanted, Live
  <2>2. Unanswered' => Unanswered
    BY <1>1, <1>3, <2>1, PeerFacts DEF Unanswered, Unsolved, Writes
  <2>3. TypeOK'
    BY <1>1, <1>2, <1>6 DEF TypeOK, output, Writes
  <2>4. ClientOK'
    BY <1>1, <1>2, <1>3, <2>1, PeerFacts
       DEF ClientOK, Unsolved, Reads, InStep, Writes
  <2>5. ServerOK'
    BY <1>2, <1>6, <2>1, <2>2 DEF ServerOK, Reads
  <2>6. Quiet'
    BY <1>1, <1>4, <1>6, <2>1 DEF Quiet, Reads, output
  <2>7. AllSent'
    BY <1>1, <1>2, <2>1, PeerFacts
       DEF AllSent, QueueSent, PostedSent, ReadSent, output
  <2> QED BY <1>3, <2>3, <2>4, <2>5, <2>6, <2>7
<1> QED BY <1>1, <1>5, <1>6, PeerFacts DEF ServerValidates, Arrived, Read, Shut

(* The client reads the challenge and answers it.                          *)
LEMMA ClientSolvesStep ==
  ASSUME ConnectionInv, ClientSolves
  PROVE  ConnectionInv'
<1> USE DEF ConnectionInv
<1>1. /\ reading["client"] = "validation" /\ stream["server"] # << >>
      /\ stream' = [stream EXCEPT !["server"] = Tail(@)]
      /\ writing' = [writing EXCEPT !["client"] = Append(@, "validation")]
      /\ reading' = [reading EXCEPT !["client"] = "none"]
      /\ UNCHANGED <<open, linked, posted, m_qMessagesOut, put, m_msgTemporaryIn,
                     delivered, handshake, network, sent>>
  BY PeerFacts DEF ClientSolves, Receives, Read
<1>2. /\ stream' \in [Sides -> Seq(Unit)]
      /\ stream'["server"] = Tail(stream["server"])
      /\ stream'["client"] = stream["client"]
      /\ \A t \in Sides : StreamSent(t)'
  BY <1>1, PeerFacts, StreamTail
<1>3. /\ reading'["client"] = "none" /\ reading'["server"] = reading["server"]
      /\ writing'["client"] = Append(writing["client"], "validation")
      /\ writing'["server"] = writing["server"]
      /\ Wanted("client")' = NoBody /\ Wanted("server")' = Wanted("server")
      /\ \A t \in Sides : Live(t)' <=> Live(t)
  BY <1>1, PeerFacts DEF TypeOK, Wanted, Live
<1>4. /\ Unsolved /\ linked["client"] = "yes" /\ linked["server"] = "yes"
      /\ stream["server"] = <<Challenge>> /\ ~Left("server", "validation")
      /\ ~Writing("client", "validation")
  BY <1>1 DEF ClientOK, Unsolved
<1>5. stream'["server"] = << >>
  BY <1>2, <1>4
<1>6. /\ WriteOK("client")' /\ Awaited("client")' = Awaited("client")
      /\ writing'["client"] \in Seq(Writes) /\ put'["client"] <= Len(writing'["client"])
  <2>1. /\ OneOfEach(writing["client"]) /\ put["client"] \in 0 .. 2
        /\ put["client"] <= Len(writing["client"])
        /\ "validation" \in Writes
        /\ \A w \in Writes : SameKind(w, "validation") =>
             ~IsPut(writing["client"], put["client"], w)
               /\ ~IsLeft(writing["client"], put["client"], w)
    BY <1>4, PeerFacts DEF WritesOK, WriteOK, Writes, SameKind, Writing, Put, Left
  <2>2. /\ OneOfEach(writing'["client"]) /\ put'["client"] <= Len(writing'["client"])
        /\ \A w \in MessageWrites : /\ Put("client", w)' <=> Put("client", w)
                                    /\ Left("client", w)' <=> Left("client", w)
    BY <1>1, <1>3, <2>1, StartAnother DEF Put, Left, Writes, MessageWrites
  <2> QED BY <1>1, <2>1, <2>2, PeerFacts
             DEF WritesOK, WriteOK, Writing, Awaited, OneOfEach, MessageWrites
<1>7. /\ WriteOK("server")' /\ Awaited("server")' = Awaited("server")
      /\ \A w \in Writes : Left("server", w)' <=> Left("server", w)
  BY <1>1, <1>3, EndKept, PeerFacts DEF WritesOK
<1>8. Unanswered /\ handshake # "validated" /\ Awaited("server") = NoBody
  <2>1. Unanswered /\ handshake # "validated"
    BY <1>4 DEF Unanswered, ServerOK
  <2>2. m_qMessagesOut["server"] = << >>
    <3>1. /\ m_qMessagesOut["server"] \in Seq(Message) /\ Len(sent["server"]) = 0
          /\ \A i \in 1 .. Len(m_qMessagesOut["server"]) :
               m_qMessagesOut["server"][i].id \in 1 .. Len(sent["server"])
      BY <2>1, PeerFacts DEF Quiet, AllSent, QueueSent, IsSent, TypeOK
    <3>2. Len(m_qMessagesOut["server"]) > 0 => 1 \in 1 .. Len(m_qMessagesOut["server"])
      BY <3>1
    <3> QED BY <3>1, <3>2
  <2>3. ~Put("server", "header") /\ ~Left("server", "body")
    BY <2>2, PeerFacts DEF WritesOK, WriteOK, Writing, MessageWrites
  <2> QED BY <2>1, <2>3 DEF Awaited
<1>9. TypeOK'
  <2>1. writing' \in [Sides -> Seq(Writes)]
    BY <1>1, <1>3, <1>6 DEF TypeOK
  <2>2. \A t \in Sides : put'[t] <= Len(writing'[t])
    BY <1>6, <1>7, PeerFacts DEF WriteOK
  <2> QED BY <1>1, <1>2, <2>1, <2>2 DEF TypeOK
<1>10. ClientOK'
  BY <1>1, <1>3, <1>4, <1>5, <1>7, <1>8, PeerFacts, FramedEmpty
     DEF ClientOK, Unsolved, Reads, InStep, Writes
<1>11. ServerOK'
  BY <1>1, <1>2, <1>3, <1>6, <1>8, PeerFacts DEF ServerOK, Reads, InStep
<1>12. Quiet'
  BY <1>1, <1>3, <1>4 DEF Quiet, Reads
<1>13. AllSent'
  BY <1>1, <1>2, <1>3, PeerFacts DEF AllSent, QueueSent, PostedSent, ReadSent
<1> QED BY <1>6, <1>7, <1>9, <1>10, <1>11, <1>12, <1>13, PeerFacts DEF WritesOK

(* An end that waits for a message gets the unit it waits for.             *)
LEMMA UnitArrives ==
  ASSUME ConnectionInv, NEW s \in Sides, NEW what \in {"header", "body"},
         Receives(s, what)
  PROVE  /\ stream[Peer(s)] # << >> /\ Arrived(s) \in Unit
         /\ Fits(Arrived(s), Wanted(s))
         /\ InStep(Peer(s), Tail(stream[Peer(s)]), After(Arrived(s)))
         /\ Arrived(s).type = "header" /\ ~Arrived(s).empty =>
              HasBody(Arrived(s).id, sent[Peer(s)])
<1> USE DEF ConnectionInv
<1>1. /\ Peer(s) \in Sides /\ stream[Peer(s)] # << >> /\ Reads(s)
      /\ stream[Peer(s)] \in Seq(Unit)
  BY PeerFacts DEF Receives, Reads, TypeOK
<1>2. InStep(Peer(s), stream[Peer(s)], Wanted(s))
  <2>1. CASE s = "server"
    BY <1>1, <2>1, PeerFacts DEF ServerOK
  <2>2. CASE s = "client"
    BY <1>1, <2>2, PeerFacts DEF ClientOK
  <2> QED BY <2>1, <2>2, PeerFacts
<1>3. /\ Fits(Head(stream[Peer(s)]), Wanted(s))
      /\ InStep(Peer(s), Tail(stream[Peer(s)]), After(Head(stream[Peer(s)])))
  BY <1>1, <1>2, FramedTail DEF InStep
<1>4. /\ Head(stream[Peer(s)]) \in Unit
      /\ Head(stream[Peer(s)]) = stream[Peer(s)][1] /\ 1 \in 1 .. Len(stream[Peer(s)])
  BY <1>1
<1>5. Head(stream[Peer(s)]).type = "header" /\ ~Head(stream[Peer(s)]).empty =>
        HasBody(Head(stream[Peer(s)]).id, sent[Peer(s)])
  BY <1>1, <1>4 DEF AllSent, StreamSent
<1> QED BY <1>1, <1>3, <1>4, <1>5 DEF Arrived

(* It then waits for the next one.                                         *)
LEMMA ReadStep ==
  ASSUME ConnectionInv, NEW s \in Sides, NEW what \in {"header", "body"},
         Receives(s, what),
         UNCHANGED <<open, linked, output, handshake, network>>,
         m_msgTemporaryIn' \in [Sides -> [id : 0 .. MaxSends, body : 0 .. MaxSends]],
         reading' \in [Sides -> Writes \union {"none"}],
         delivered' \in [Sides -> Seq(Message)],
         \A t \in Sides : t # s =>
           /\ reading'[t] = reading[t] /\ delivered'[t] = delivered[t]
           /\ m_msgTemporaryIn'[t] = m_msgTemporaryIn[t],
         reading'[s] \in {"header", "body"},
         Wanted(s)' = After(Arrived(s)),
         reading'[s] = "body" => HasBody(m_msgTemporaryIn'[s].id, sent[Peer(s)])
  PROVE  ConnectionInv'
<1> USE DEF ConnectionInv
<1>1. /\ Reads(s) /\ reading[s] \in {"header", "body"}
      /\ stream' = [stream EXCEPT ![Peer(s)] = Tail(@)]
      /\ UNCHANGED <<posted, m_qMessagesOut, writing, put, sent>>
  BY DEF Receives, Reads, output
<1>2. /\ stream[Peer(s)] # << >>
      /\ InStep(Peer(s), Tail(stream[Peer(s)]), After(Arrived(s)))
  BY UnitArrives
<1>3. /\ stream' \in [Sides -> Seq(Unit)]
      /\ stream'[Peer(s)] = Tail(stream[Peer(s)])
      /\ \A t \in Sides : t # Peer(s) => stream'[t] = stream[t]
      /\ \A t \in Sides : StreamSent(t)'
  BY <1>1, <1>2, PeerFacts, StreamTail
<1>4. /\ WritesOK'
      /\ \A t \in Sides : Awaited(t)' = Awaited(t)
      /\ \A t \in Sides, w \in Writes :
           (Left(t, w)' <=> Left(t, w)) /\ (Writing(t, w)' <=> Writing(t, w))
  BY <1>1, WritersIdle
<1>5. /\ \A t \in Sides : Live(t)' <=> Live(t)
      /\ \A t \in Sides : t # s =>
           Wanted(t)' = Wanted(t) /\ (Reads(t)' <=> Reads(t))
      /\ Reads(s)'
  BY DEF Live, Wanted, Reads
<1>6. TypeOK'
  BY <1>1, <1>3 DEF TypeOK
<1>7. /\ Framed(stream'[Peer(s)], Wanted(s)')
      /\ Live(Peer(s))' => End(stream'[Peer(s)], Wanted(s)') = Awaited(Peer(s))'
  BY <1>2, <1>3, <1>4, <1>5, PeerFacts DEF InStep
<1>8. AllSent'
  <2>1. ASSUME NEW t \in Sides
        PROVE  Numbered(sent[t])' /\ QueueSent(t)' /\ PostedSent(t)'
    BY <1>1, <2>1 DEF AllSent, QueueSent, PostedSent
  <2>2. ReadSent(s)'
    BY <1>1 DEF ReadSent
  <2>3. ASSUME NEW t \in Sides, t # s PROVE ReadSent(t)'
    BY <1>1, <2>3 DEF AllSent, ReadSent
  <2> QED BY <1>3, <2>1, <2>2, <2>3 DEF AllSent
<1>9. CASE s = "client"
  <2>1. /\ linked["client"] = "yes" /\ ~Writing("client", "validation") /\ ~Unsolved /\ ~Unsolved'
        /\ linked["server"] = "yes" /\ ~Left("server", "validation")
    BY <1>1, <1>9 DEF ClientOK, Unsolved
  <2>2. ClientOK'
    BY <1>4, <1>7, <1>9, <2>1, PeerFacts DEF ClientOK, InStep, Writes
  <2>3. ServerOK'
    <3>1. stream'["client"] = stream["client"] /\ (Reads("server")' <=> Reads("server"))
      BY <1>3, <1>5, <1>9, PeerFacts
    <3>2. /\ Awaited("client")' = Awaited("client")
          /\ Wanted("server")' = Wanted("server")
          /\ Live("client")' <=> Live("client")
          /\ Writing("client", "validation")' <=> Writing("client", "validation")
          /\ Left("server", "validation")' <=> Left("server", "validation")
      BY <1>4, <1>5, <1>9, PeerFacts DEF Writes
    <3> QED BY <1>1, <1>4, <1>9, <2>1, <3>1, <3>2, PeerFacts
            DEF ServerOK, Unanswered, InStep, Writes
  <2>4. Quiet'
    BY <1>1, <1>5, <1>9, PeerFacts DEF Quiet
  <2> QED BY <1>4, <1>6, <1>8, <2>2, <2>3, <2>4
<1>10. CASE s = "server"
  <2>1. handshake = "validated" /\ ~Unanswered
    BY <1>1, <1>10 DEF Quiet, ServerOK
  <2>2. Unsolved' <=> Unsolved
    BY <1>10, PeerFacts DEF Unsolved
  <2>3. ClientOK'
    BY <1>3, <1>4, <1>5, <1>10, <2>2, PeerFacts DEF ClientOK, InStep, Writes
  <2>4. ServerOK'
    BY <1>4, <1>7, <1>10, <2>1, <2>2, PeerFacts
       DEF ServerOK, Unanswered, InStep, Writes
  <2>5. Quiet'
    BY <1>1, <1>10, <2>1 DEF Quiet
  <2> QED BY <1>4, <1>6, <1>8, <2>3, <2>4, <2>5
<1> QED BY <1>9, <1>10, PeerFacts

(* A message is handed on.                                                 *)
LEMMA Delivery ==
  ASSUME TypeOK, NEW s \in Sides, m_msgTemporaryIn'[s] \in Message,
         AddToIncomingMessageQueue(s)
  PROVE  /\ delivered' \in [Sides -> Seq(Message)]
         /\ reading' \in [Sides -> Writes \union {"none"}] /\ reading'[s] = "header"
         /\ \A t \in Sides : t # s =>
              reading'[t] = reading[t] /\ delivered'[t] = delivered[t]
<1>1. delivered[s] \in Seq(Message)
  BY DEF TypeOK
<1>2. delivered' = [delivered EXCEPT ![s] = Append(@, m_msgTemporaryIn'[s])]
  BY DEF AddToIncomingMessageQueue
<1>3. delivered' \in [Sides -> Seq(Message)]
  BY <1>1, <1>2 DEF TypeOK
<1> QED BY <1>2, <1>3 DEF AddToIncomingMessageQueue, Read, TypeOK, Writes

(* A header is read: its body is wanted next, if it has one.               *)
LEMMA HeaderReadStep ==
  ASSUME ConnectionInv, NEW s \in Sides, HeaderRead(s)
  PROVE  ConnectionInv'
<1> USE DEF ConnectionInv
<1>1. /\ Receives(s, "header") /\ reading[s] = "header"
      /\ m_msgTemporaryIn' = [m_msgTemporaryIn EXCEPT ![s].id = Arrived(s).id]
      /\ UNCHANGED <<open, linked, output, handshake, network>>
  BY DEF HeaderRead, Receives
<1>2. /\ Arrived(s).type = "header" /\ Arrived(s) \in Unit
      /\ ~Arrived(s).empty => HasBody(Arrived(s).id, sent[Peer(s)])
  BY <1>1, UnitArrives DEF Fits, Wanted
<1>3. Arrived(s).id \in 1 .. MaxSends
  BY <1>2, UnitFacts
<1>4. /\ m_msgTemporaryIn' \in [Sides -> [id : 0 .. MaxSends, body : 0 .. MaxSends]]
      /\ m_msgTemporaryIn'[s].id = Arrived(s).id
      /\ m_msgTemporaryIn'[s].body = m_msgTemporaryIn[s].body
      /\ \A t \in Sides : t # s => m_msgTemporaryIn'[t] = m_msgTemporaryIn[t]
  <2>1. /\ Arrived(s).id \in 0 .. MaxSends
        /\ m_msgTemporaryIn[s] \in [id : 0 .. MaxSends, body : 0 .. MaxSends]
        /\ m_msgTemporaryIn \in [Sides -> [id : 0 .. MaxSends, body : 0 .. MaxSends]]
    BY <1>3 DEF TypeOK
  <2> DEFINE entry == [m_msgTemporaryIn[s] EXCEPT !.id = Arrived(s).id]
  <2>2. /\ entry \in [id : 0 .. MaxSends, body : 0 .. MaxSends]
        /\ entry.id = Arrived(s).id /\ entry.body = m_msgTemporaryIn[s].body
    BY <2>1
  <2>3. m_msgTemporaryIn' = [m_msgTemporaryIn EXCEPT ![s] = entry]
    BY <1>1
  <2> HIDE DEF entry
  <2> QED BY <2>1, <2>2, <2>3
<1>5. CASE ~Arrived(s).empty /\ Read(s, "body") /\ UNCHANGED delivered
  <2>1. /\ reading' \in [Sides -> Writes \union {"none"}] /\ reading'[s] = "body"
        /\ \A t \in Sides : t # s => reading'[t] = reading[t]
    BY <1>5 DEF Read, TypeOK, Writes
  <2>2. Wanted(s)' = After(Arrived(s))
    BY <1>2, <1>4, <1>5, <2>1 DEF Wanted, After
  <2>3. delivered' \in [Sides -> Seq(Message)]
    BY <1>5 DEF TypeOK
  <2> QED BY <1>1, <1>2, <1>4, <1>5, <2>1, <2>2, <2>3, ReadStep
<1>6. CASE Arrived(s).empty /\ AddToIncomingMessageQueue(s)
  <2>1. m_msgTemporaryIn'[s] \in Message
    BY <1>3, <1>4 DEF TypeOK, Message
  <2>2. /\ delivered' \in [Sides -> Seq(Message)]
        /\ reading' \in [Sides -> Writes \union {"none"}] /\ reading'[s] = "header"
        /\ \A t \in Sides : t # s =>
             reading'[t] = reading[t] /\ delivered'[t] = delivered[t]
    BY <1>6, <2>1, Delivery
  <2>3. Wanted(s)' = After(Arrived(s))
    BY <1>6, <2>2 DEF Wanted, After
  <2> QED BY <1>1, <1>4, <2>2, <2>3, ReadStep
<1> QED BY <1>5, <1>6 DEF HeaderRead

(* A body is read: it is the one of the header before it.                  *)
LEMMA BodyReadStep ==
  ASSUME ConnectionInv, NEW s \in Sides, BodyRead(s)
  PROVE  ConnectionInv'
<1> USE DEF ConnectionInv
<1>1. /\ Receives(s, "body") /\ reading[s] = "body"
      /\ m_msgTemporaryIn' = [m_msgTemporaryIn EXCEPT ![s].body = Arrived(s).body]
      /\ AddToIncomingMessageQueue(s)
      /\ UNCHANGED <<open, linked, output, handshake, network>>
  BY DEF BodyRead, Receives
<1>2. HasBody(m_msgTemporaryIn[s].id, sent[Peer(s)]) /\ Numbered(sent[Peer(s)])
  BY <1>1, PeerFacts DEF AllSent, ReadSent
<1>3. m_msgTemporaryIn[s].id \in 1 .. MaxSends
  <2>1. sent[Peer(s)] \in Seq(Message)
    BY PeerFacts DEF TypeOK
  <2> QED BY <1>2, <2>1, HistoryBound DEF HasBody
<1>4. Arrived(s).type = "body" /\ Arrived(s) \in Unit
  BY <1>1, <1>3, UnitArrives DEF Fits, Wanted, NoBody
<1>5. Arrived(s).body \in 0 .. MaxSends
  BY <1>4, UnitFacts
<1>6. /\ m_msgTemporaryIn' \in [Sides -> [id : 0 .. MaxSends, body : 0 .. MaxSends]]
      /\ m_msgTemporaryIn'[s] \in Message
      /\ \A t \in Sides : t # s => m_msgTemporaryIn'[t] = m_msgTemporaryIn[t]
  BY <1>1, <1>3, <1>5 DEF TypeOK, Message
<1>7. /\ delivered' \in [Sides -> Seq(Message)]
      /\ reading' \in [Sides -> Writes \union {"none"}] /\ reading'[s] = "header"
      /\ \A t \in Sides : t # s =>
           reading'[t] = reading[t] /\ delivered'[t] = delivered[t]
  BY <1>1, <1>6, Delivery
<1>8. Wanted(s)' = After(Arrived(s))
  BY <1>4, <1>7 DEF Wanted, After
<1> QED BY <1>1, <1>6, <1>7, <1>8, ReadStep

-----------------------------------------------------------------------------
(* Every step of either end, of its user or of the network keeps the       *)
(* invariant.                                                              *)
LEMMA NextStep == ConnectionInv /\ [Next]_vars => ConnectionInv'
<1> SUFFICES ASSUME ConnectionInv, [Next]_vars PROVE ConnectionInv'
  OBVIOUS
<1>1. CASE Break
  BY <1>1, BreakStep
<1>2. CASE UNCHANGED vars
  BY <1>2, StutterStep
<1>3. ASSUME NEW s \in Sides, User(s) PROVE ConnectionInv'
  BY <1>3, SendStep, DisconnectStep DEF User
<1>4. ASSUME NEW s \in Sides, Transmit(s) PROVE ConnectionInv'
  BY <1>4, TransmitStep
<1>5. ASSUME NEW s \in Sides, Handler(s) PROVE ConnectionInv'
  BY <1>5, ConnectToClientStep, ServerValidatesStep, ConnectToServerStep,
     ConnectFailsStep, ClientSolvesStep, RunSendStep, RunCloseStep, HeaderWrittenStep,
     BodyWrittenStep, ValidationWrittenStep, WriteFailsStep, HeaderReadStep, BodyReadStep, ReadFailsStep
     DEF Handler, Connects, Completes, Fails
<1> QED BY <1>1, <1>2, <1>3, <1>4, <1>5 DEF Next

(* The inductive invariant always holds: above all, the units on their way *)
(* to an end are framed from what its reader waits for (Wanted) to what    *)
(* the other end's writer has yet to send (Awaited).                       *)
THEOREM Inductive == Spec => []ConnectionInv
<1>1. Init => ConnectionInv
  BY InitStep
<1>2. ConnectionInv /\ [Next]_vars => ConnectionInv'
  BY NextStep
<1> QED BY <1>1, <1>2, PTL DEF Spec

(* Every variable has its type: the type invariant of the run conn_ends.   *)
THEOREM TypeCorrect == Spec => []TypeOK
<1>1. ConnectionInv => TypeOK
  BY DEF ConnectionInv
<1> QED BY <1>1, Inductive, PTL

(* At most one write of a message is in progress at each end, of the       *)
(* message at the front of its queue.                                      *)
THEOREM WritesAlone == Spec => []OneWriter
<1>1. ASSUME ConnectionInv PROVE OneWriter
  <2> USE <1>1 DEF ConnectionInv
  <2> SUFFICES ASSUME NEW s \in Sides,
                      NEW i \in DOMAIN writing[s], writing[s][i] # "validation",
                      NEW j \in DOMAIN writing[s], writing[s][j] # "validation"
               PROVE  i = j /\ m_qMessagesOut[s] # << >>
    BY DEF OneWriter
  <2>1. /\ writing[s] \in Seq(Writes)
        /\ Len(writing[s]) = 0 \/ Len(writing[s]) = 1 \/ Len(writing[s]) = 2
        /\ Len(writing[s]) = 2 => ~SameKind(writing[s][1], writing[s][2])
    BY DEF WritesOK, WriteOK, OneOfEach
  <2>2. /\ i \in 1 .. Len(writing[s]) /\ j \in 1 .. Len(writing[s])
        /\ writing[s][i] \in MessageWrites
    BY <2>1 DEF Writes, MessageWrites
  <2>3. i = j
    BY <2>1, <2>2 DEF SameKind
  <2>4. Writing(s, writing[s][i])
    <3>1. put[s] = 0 \/ put[s] = 1 \/ put[s] = 2
      BY DEF WritesOK, WriteOK
    <3>2. i = 1 \/ (i = 2 /\ Len(writing[s]) = 2)
      BY <2>1, <2>2
    <3>3. Len(writing[s]) > 0
      BY <2>1, <2>2
    <3> QED BY <3>1, <3>2, <3>3 DEF Writing, Put, Left, IsPut, IsLeft
  <2> QED BY <2>2, <2>3, <2>4 DEF WritesOK, WriteOK
<1> QED BY <1>1, Inductive, PTL

(* What an end reads as a header is a header, and what it reads as a body  *)
(* is the body of that header.                                             *)
THEOREM ReadsInStep == Spec => []Framing
<1>1. ASSUME ConnectionInv PROVE Framing
  <2> USE <1>1 DEF ConnectionInv
  <2> SUFFICES ASSUME NEW s \in Sides, reading[s] \in {"header", "body"},
                      stream[Peer(s)] # << >>
               PROVE  /\ Arrived(s).type = reading[s]
                      /\ reading[s] = "body" =>
                           Arrived(s).body = sent[Peer(s)][m_msgTemporaryIn[s].id].body
    BY DEF Framing
  <2>1. InStep(Peer(s), stream[Peer(s)], Wanted(s)) /\ stream[Peer(s)] \in Seq(Unit)
    <3>1. CASE s = "server"
      BY <3>1, PeerFacts DEF ServerOK, Reads, TypeOK
    <3>2. CASE s = "client"
      BY <3>2, PeerFacts DEF ClientOK, Reads, TypeOK
    <3> QED BY <3>1, <3>2, PeerFacts
  <2>2. Fits(Arrived(s), Wanted(s))
    BY <2>1, FramedTail DEF InStep, Arrived
  <2>3. CASE reading[s] = "header"
    BY <2>2, <2>3 DEF Fits, Wanted
  <2>4. CASE reading[s] = "body"
    <3>1. HasBody(m_msgTemporaryIn[s].id, sent[Peer(s)])
      BY <2>4, PeerFacts DEF AllSent, ReadSent
    <3>2. Wanted(s) = m_msgTemporaryIn[s].id /\ Wanted(s) # NoBody
      <4>1. sent[Peer(s)] \in Seq(Message)
        BY PeerFacts DEF TypeOK
      <4> QED BY <2>4, <3>1, <4>1 DEF Wanted, HasBody, NoBody
    <3> QED BY <2>2, <2>4, <3>1, <3>2 DEF Fits, HasBody
  <2> QED BY <2>3, <2>4
<1> QED BY <1>1, Inductive, PTL

-----------------------------------------------------------------------------
(* The order of messages.  Of n messages sent, those posted are the last   *)
(* ones, and a posted close lies among them.                               *)
Closes(q, i) == \E j \in i + 1 .. Len(q) : q[j] = Close
Later(q, i) == IF Closes(q, i) THEN 1 ELSE 0
TakenOf(n, q) == n - Len(q) + Later(q, 0)
InPlace(n, q) ==
  \A i \in 1 .. Len(q) :
    IF q[i] = Close THEN ~Closes(q, i)
    ELSE q[i].id = n - Len(q) + i + Later(q, i)

(* The last message that RunSend took, and those before it in the queue.   *)
Taken(s) == TakenOf(Len(sent[s]), posted[s])
Queued(k, q) == \A i \in 1 .. Len(q) : q[i].id = k - Len(q) + i

(* The headers on the wire are of messages that were sent.                 *)
IsHeaderOf(u, history) ==
  u.type = "header" =>
    u.id \in 1 .. Len(history) /\ (u.empty <=> history[u.id].body = NoBody)
HeadersSent(s) == \A i \in 1 .. Len(stream[s]) : IsHeaderOf(stream[s][i], sent[s])

SenderOrder(s) ==
  /\ InPlace(Len(sent[s]), posted[s])
  /\ Queued(Taken(s), m_qMessagesOut[s])
  /\ HeadersSent(s)

(* The last message of which a header was put on the wire, or read.        *)
HeaderOut(s) == Put(s, "header") \/ Writing(s, "body")
WrittenTo(s) == Taken(s) - Len(m_qMessagesOut[s]) + (IF HeaderOut(s) THEN 1 ELSE 0)
ReadTo(s) == Len(delivered[s]) + (IF reading[s] = "body" THEN 1 ELSE 0)

(* What the message that is read may be delivered with.                    *)
ReaderOrder(s) ==
  /\ reading[s] = "body" => m_msgTemporaryIn[s].id = Len(delivered[s]) + 1
  /\ m_msgTemporaryIn[s].body <= Len(delivered[s])

(* Each header is of the message after the one before it.                  *)
NumberOf(u) == IF u.type = "header" THEN u.id ELSE u.body
NextOf(u, n) == u.type = "header" => u.id = n + 1
InOrder(st, n) ==
  /\ st # << >> => NextOf(st[1], n)
  /\ \A i \in 1 .. Len(st) - 1 : NextOf(st[i + 1], NumberOf(st[i]))
LastOf(st, n) == IF st = << >> THEN n ELSE NumberOf(st[Len(st)])

(* The units st lead from the message n to the last one that p wrote.      *)
Ordered(p, st, n) == InOrder(st, n) /\ (Live(p) => LastOf(st, n) = WrittenTo(p))

ClientReads == Writing("client", "validation") \/ Reads("client")

ClientOrder ==
  /\ Unsolved \/ Writing("client", "validation") => delivered["client"] = << >>
  /\ ClientReads => Ordered("server", stream["server"], ReadTo("client"))

ServerOrder ==
  /\ handshake = "pending" /\ stream["client"] = << >> =>
       Ordered("client", << >>, 0)
  /\ /\ handshake = "pending" /\ stream["client"] # << >>
     /\ stream["client"][1].type = "response"
     => Ordered("client", Tail(stream["client"]), 0)
  /\ Reads("server") => Ordered("client", stream["client"], ReadTo("server"))

OrderInv ==
  /\ \A s \in Sides : SenderOrder(s) /\ ReaderOrder(s)
  /\ ClientOrder /\ ServerOrder

-----------------------------------------------------------------------------
(* Posted functions and the order of messages.                             *)
Functions == Seq(Message \union {Close})

(* A message posted has the number after the last one sent: all posted     *)
(* stay in place, and as many as before are taken.                         *)
LEMMA PostMessage ==
  ASSUME NEW q \in Functions, NEW n \in Nat, NEW m, m # Close, m.id = n + 1,
         InPlace(n, q)
  PROVE  InPlace(n + 1, Append(q, m)) /\ TakenOf(n + 1, Append(q, m)) = TakenOf(n, q)
<1> DEFINE new == Append(q, m)
<1>1. /\ Len(new) = Len(q) + 1 /\ Len(q) \in Nat /\ new[Len(q) + 1] = m
      /\ \A i \in 1 .. Len(q) : new[i] = q[i]
  BY DEF Functions
<1> HIDE DEF new
<1>2. \A i \in 0 .. Len(q) : Closes(new, i) <=> Closes(q, i)
  BY <1>1 DEF Closes
<1>3. ~Closes(new, Len(q) + 1)
  BY <1>1 DEF Closes
<1>4. TakenOf(n + 1, new) = TakenOf(n, q)
  BY <1>1, <1>2 DEF TakenOf, Later
<1>5. ASSUME NEW i \in 1 .. Len(new)
      PROVE  IF new[i] = Close THEN ~Closes(new, i)
             ELSE new[i].id = n + 1 - Len(new) + i + Later(new, i)
  <2>1. CASE i = Len(q) + 1
    BY <1>1, <1>3, <2>1 DEF Later
  <2>2. CASE i \in 1 .. Len(q)
    <3>1. new[i] = q[i] /\ (Closes(new, i) <=> Closes(q, i))
      BY <1>1, <1>2, <2>2
    <3>2. Later(new, i) = Later(q, i)
      BY <3>1 DEF Later
    <3>3. IF q[i] = Close THEN ~Closes(q, i)
          ELSE q[i].id = n - Len(q) + i + Later(q, i)
      BY <2>2 DEF InPlace
    <3>4. n + 1 - Len(new) = n - Len(q)
      BY <1>1
    <3> QED BY <3>1, <3>2, <3>3, <3>4
  <2> QED BY <1>1, <2>1, <2>2
<1> QED BY <1>4, <1>5 DEF InPlace, new

(* A close is posted with none before it: every message that is posted     *)
(* stays in place, and as many as before are taken.                        *)
LEMMA PostClose ==
  ASSUME NEW q \in Functions, NEW n \in Nat, InPlace(n, q),
         \A i \in DOMAIN q : q[i] # Close
  PROVE  InPlace(n, Append(q, Close)) /\ TakenOf(n, Append(q, Close)) = TakenOf(n, q)
<1> DEFINE new == Append(q, Close)
<1>1. /\ Len(new) = Len(q) + 1 /\ Len(q) \in Nat /\ new[Len(q) + 1] = Close
      /\ \A i \in 1 .. Len(q) : new[i] = q[i] /\ q[i] # Close
  BY DEF Functions
<1> HIDE DEF new
<1>2. \A i \in 0 .. Len(q) : Closes(new, i) /\ ~Closes(q, i)
  BY <1>1 DEF Closes
<1>3. ~Closes(new, Len(q) + 1)
  BY <1>1 DEF Closes
<1>4. TakenOf(n, new) = TakenOf(n, q)
  BY <1>1, <1>2 DEF TakenOf, Later
<1>5. ASSUME NEW i \in 1 .. Len(new)
      PROVE  IF new[i] = Close THEN ~Closes(new, i)
             ELSE new[i].id = n - Len(new) + i + Later(new, i)
  <2>1. CASE i = Len(q) + 1
    BY <1>1, <1>3, <2>1
  <2>2. CASE i \in 1 .. Len(q)
    <3>1. new[i] = q[i] /\ q[i] # Close /\ Closes(new, i) /\ ~Closes(q, i)
      BY <1>1, <1>2, <2>2
    <3>2. Later(new, i) = 1 /\ Later(q, i) = 0
      BY <3>1 DEF Later
    <3>3. q[i].id = n - Len(q) + i + Later(q, i)
      BY <2>2, <3>1 DEF InPlace
    <3>4. n - Len(new) + i + 1 = n - Len(q) + i + 0
      BY <1>1, <2>2
    <3> QED BY <3>1, <3>2, <3>3, <3>4
  <2> QED BY <1>1, <2>1, <2>2
<1> QED BY <1>4, <1>5 DEF InPlace, new

(* The posted function that runs is a close, which takes nothing, or the   *)
(* message after the last one taken.                                       *)
LEMMA RunPosted ==
  ASSUME NEW q \in Functions, NEW n \in Nat, InPlace(n, q), q # << >>
  PROVE  /\ InPlace(n, Tail(q))
         /\ Head(q) = Close => TakenOf(n, Tail(q)) = TakenOf(n, q)
         /\ Head(q) # Close => /\ TakenOf(n, Tail(q)) = TakenOf(n, q) + 1
                               /\ Head(q).id = TakenOf(n, q) + 1
<1> DEFINE new == Tail(q)
<1>1. /\ Len(new) = Len(q) - 1 /\ Len(q) \in Nat /\ Len(q) # 0 /\ Head(q) = q[1]
      /\ \A i \in 1 .. Len(new) : new[i] = q[i + 1]
  BY DEF Functions
<1> HIDE DEF new
<1>2. ASSUME NEW i \in 0 .. Len(new) PROVE Closes(new, i) <=> Closes(q, i + 1)
  <2>1. ASSUME NEW j \in i + 1 .. Len(new), new[j] = Close PROVE Closes(q, i + 1)
    <3>1. j + 1 \in (i + 1) + 1 .. Len(q) /\ q[j + 1] = Close
      BY <1>1, <2>1
    <3> QED BY <3>1 DEF Closes
  <2>2. ASSUME NEW j \in (i + 1) + 1 .. Len(q), q[j] = Close PROVE Closes(new, i)
    <3>1. j - 1 \in i + 1 .. Len(new) /\ j - 1 \in 1 .. Len(new) /\ (j - 1) + 1 = j
      BY <1>1
    <3>2. new[j - 1] = Close
      BY <1>1, <2>2, <3>1
    <3> QED BY <3>1, <3>2 DEF Closes
  <2> QED BY <2>1, <2>2 DEF Closes
<1>3. ASSUME NEW i \in 1 .. Len(new)
      PROVE  IF new[i] = Close THEN ~Closes(new, i)
             ELSE new[i].id = n - Len(new) + i + Later(new, i)
  <2>1. i + 1 \in 1 .. Len(q) /\ new[i] = q[i + 1]
    BY <1>1
  <2>2. Closes(new, i) <=> Closes(q, i + 1)
    BY <1>1, <1>2
  <2>3. Later(new, i) = Later(q, i + 1)
    BY <2>2 DEF Later
  <2>4. IF q[i + 1] = Close THEN ~Closes(q, i + 1)
        ELSE q[i + 1].id = n - Len(q) + (i + 1) + Later(q, i + 1)
    BY <2>1 DEF InPlace
  <2>5. n - Len(new) + i = n - Len(q) + (i + 1)
    BY <1>1
  <2> QED BY <2>1, <2>2, <2>3, <2>4, <2>5
<1>4. Closes(new, 0) <=> Closes(q, 1)
  BY <1>1, <1>2
<1>5. Closes(q, 0) <=> q[1] = Close \/ Closes(q, 1)
  BY <1>1 DEF Closes
<1>6. 1 \in 1 .. Len(q)
  BY <1>1
<1>7. CASE Head(q) = Close
  BY <1>1, <1>3, <1>4, <1>5, <1>6, <1>7 DEF InPlace, TakenOf, Later, new
<1>8. CASE Head(q) # Close
  <2>1. q[1].id = n - Len(q) + 1 + Later(q, 1)
    BY <1>1, <1>6, <1>8 DEF InPlace
  <2> QED BY <1>1, <1>3, <1>4, <1>5, <1>8, <2>1 DEF InPlace, TakenOf, Later, new
<1> QED BY <1>7, <1>8

(* How many are taken is a number, for the solvers.                        *)
LEMMA TakenInt ==
  ASSUME NEW q \in Functions, NEW n \in Nat
  PROVE  TakenOf(n, q) \in Int
<1>1. Len(q) \in Nat
  BY DEF Functions
<1>2. Later(q, 0) \in {0, 1}
  BY DEF Later
<1> QED BY <1>1, <1>2 DEF TakenOf

(* A message joins the queue with the number after the last one taken.     *)
LEMMA QueueAppend ==
  ASSUME NEW q \in Seq(Message), NEW k \in Int, NEW m, Queued(k, q), m.id = k + 1
  PROVE  Queued(k + 1, Append(q, m)) /\ Len(Append(q, m)) = Len(q) + 1
<1> DEFINE new == Append(q, m)
<1>1. /\ Len(new) = Len(q) + 1 /\ Len(q) \in Nat /\ new[Len(q) + 1] = m
      /\ \A i \in 1 .. Len(q) : new[i] = q[i]
  OBVIOUS
<1> HIDE DEF new
<1>2. ASSUME NEW i \in 1 .. Len(new) PROVE new[i].id = k + 1 - Len(new) + i
  <2>1. CASE i = Len(q) + 1
    BY <1>1, <2>1
  <2>2. CASE i \in 1 .. Len(q)
    BY <1>1, <2>2 DEF Queued
  <2> QED BY <1>1, <2>1, <2>2
<1> QED BY <1>1, <1>2 DEF Queued, new

(* The message at the front leaves the queue; those behind it keep their   *)
(* places.                                                                 *)
LEMMA QueueTail ==
  ASSUME NEW q \in Seq(Message), NEW k \in Int, Queued(k, q), q # << >>
  PROVE  /\ Queued(k, Tail(q)) /\ Len(Tail(q)) = Len(q) - 1
         /\ Head(q).id = k - Len(q) + 1
<1> DEFINE new == Tail(q)
<1>1. /\ Len(new) = Len(q) - 1 /\ Len(q) \in Nat /\ Len(q) # 0 /\ Head(q) = q[1]
      /\ \A i \in 1 .. Len(new) : new[i] = q[i + 1]
  OBVIOUS
<1> HIDE DEF new
<1>2. ASSUME NEW i \in 1 .. Len(new) PROVE new[i].id = k - Len(new) + i
  <2>1. i + 1 \in 1 .. Len(q)
    BY <1>1
  <2> QED BY <1>1, <2>1 DEF Queued
<1>3. 1 \in 1 .. Len(q)
  BY <1>1
<1> QED BY <1>1, <1>2, <1>3 DEF Queued, new

(* A unit put on the wire follows the last one there, and becomes the      *)
(* last.                                                                   *)
LEMMA OrderAppend ==
  ASSUME NEW st \in Seq(Unit), NEW u \in Unit, NEW n,
         InOrder(st, n), NextOf(u, LastOf(st, n))
  PROVE  InOrder(Append(st, u), n) /\ LastOf(Append(st, u), n) = NumberOf(u)
<1> DEFINE new == Append(st, u)
<1>1. /\ Len(new) = Len(st) + 1 /\ new # << >>
      /\ \A i \in 1 .. Len(st) : new[i] = st[i]
      /\ new[Len(st) + 1] = u
      /\ st = << >> <=> Len(st) = 0
      /\ Len(st) \in Nat
  OBVIOUS
<1> HIDE DEF new
<1>2. LastOf(new, n) = NumberOf(u)
  BY <1>1 DEF LastOf
<1>3. NextOf(new[1], n)
  <2>1. CASE Len(st) = 0
    BY <1>1, <2>1 DEF LastOf
  <2>2. CASE Len(st) # 0
    BY <1>1, <2>2 DEF InOrder
  <2> QED BY <2>1, <2>2
<1>4. ASSUME NEW i \in 1 .. Len(new) - 1
      PROVE  NextOf(new[i + 1], NumberOf(new[i]))
  <2>1. CASE i = Len(st)
    BY <1>1, <2>1 DEF LastOf
  <2>2. CASE i # Len(st)
    <3>1. i \in 1 .. Len(st) - 1 /\ i + 1 \in 1 .. Len(st) /\ i \in 1 .. Len(st)
      BY <1>1, <2>2
    <3> QED BY <3>1, <1>1 DEF InOrder
  <2> QED BY <2>1, <2>2
<1> QED BY <1>1, <1>2, <1>3, <1>4 DEF InOrder, new

(* The first unit is read: those behind it follow it.                      *)
LEMMA OrderTail ==
  ASSUME NEW st \in Seq(Unit), st # << >>, NEW n, InOrder(st, n)
  PROVE  /\ NextOf(Head(st), n)
         /\ InOrder(Tail(st), NumberOf(Head(st)))
         /\ LastOf(Tail(st), NumberOf(Head(st))) = LastOf(st, n)
<1> DEFINE new == Tail(st)
<1>1. /\ new \in Seq(Unit) /\ Len(new) = Len(st) - 1 /\ Head(st) = st[1]
      /\ \A i \in 1 .. Len(new) : new[i] = st[i + 1]
  OBVIOUS
<1>2. Len(st) \in Nat /\ Len(st) # 0
  OBVIOUS
<1> HIDE DEF new
<1>3. new = << >> <=> Len(new) = 0
  BY <1>1
<1>4. NextOf(Head(st), n)
  BY <1>1 DEF InOrder
<1>5. LastOf(new, NumberOf(Head(st))) = LastOf(st, n)
  BY <1>1, <1>2, <1>3 DEF LastOf
<1>6. new # << >> => NextOf(new[1], NumberOf(Head(st)))
  BY <1>1, <1>2, <1>3 DEF InOrder
<1>7. ASSUME NEW i \in 1 .. Len(new) - 1
      PROVE  NextOf(new[i + 1], NumberOf(new[i]))
  <2>1. /\ i + 1 \in 1 .. Len(st) - 1 /\ i + 1 \in 1 .. Len(new) /\ i \in 1 .. Len(new)
        /\ new[i] = st[i + 1] /\ new[i + 1] = st[(i + 1) + 1]
    BY <1>1, <1>2
  <2> QED BY <2>1 DEF InOrder
<1> QED BY <1>4, <1>5, <1>6, <1>7 DEF InOrder, new

(* With nothing on the wire the writer is where the reader is.             *)
LEMMA OrderEmpty == \A n : InOrder(<< >>, n) /\ LastOf(<< >>, n) = n
BY DEF InOrder, LastOf

-----------------------------------------------------------------------------
(* Steps that leave the wire alone: each end's messages stay in place and, *)
(* while it can write, it goes on from where it was.                       *)
WritersPlaced ==
  \A s \in Sides :
    /\ SenderOrder(s)'
    /\ Live(s)' => Live(s) /\ WrittenTo(s)' = WrittenTo(s)

ReadersPlaced ==
  /\ ClientReads' => ClientReads /\ ReadTo("client")' = ReadTo("client")
  /\ Reads("server")' => Reads("server") /\ ReadTo("server")' = ReadTo("server")
  /\ \A s \in Sides : reading'[s] = "body" => reading[s] = "body"
  /\ Unsolved' \/ Writing("client", "validation")' =>
       Unsolved \/ Writing("client", "validation")

(* A step that leaves the wire and places writers and readers keeps the    *)
(* order.                                                                  *)
LEMMA OrderKept ==
  ASSUME OrderInv, WritersPlaced, ReadersPlaced,
         UNCHANGED <<stream, delivered, m_msgTemporaryIn, handshake>>
  PROVE  OrderInv'
<1>1. ASSUME NEW s \in Sides PROVE SenderOrder(s)' /\ ReaderOrder(s)'
  BY DEF OrderInv, ReaderOrder, WritersPlaced, ReadersPlaced
<1>2. ASSUME NEW s \in Sides, NEW st, NEW n, Ordered(s, st, n)
      PROVE  InOrder(st, n) /\ (Live(s)' => LastOf(st, n) = WrittenTo(s)')
  BY <1>2 DEF Ordered, WritersPlaced
<1>3. ClientOrder'
  BY <1>2, PeerFacts DEF OrderInv, ClientOrder, ReadersPlaced, Ordered
<1>4. ServerOrder'
  BY <1>2, PeerFacts DEF OrderInv, ServerOrder, ReadersPlaced, Ordered
<1> QED BY <1>1, <1>3, <1>4 DEF OrderInv

(* An end whose own messages do not move.                                  *)
LEMMA SenderKept ==
  ASSUME NEW s \in Sides, SenderOrder(s),
         sent'[s] = sent[s], posted'[s] = posted[s],
         m_qMessagesOut'[s] = m_qMessagesOut[s], stream'[s] = stream[s]
  PROVE  SenderOrder(s)'
BY DEF SenderOrder, HeadersSent, Taken

(* An end that takes and puts out nothing is where it was.                 *)
LEMMA WrittenKept ==
  ASSUME NEW s \in Sides,
         sent'[s] = sent[s], posted'[s] = posted[s],
         m_qMessagesOut'[s] = m_qMessagesOut[s], HeaderOut(s)' <=> HeaderOut(s)
  PROVE  WrittenTo(s)' = WrittenTo(s)
BY DEF WrittenTo, Taken

(* What is put out depends on the writes of that end only.                 *)
LEMMA OutKept ==
  ASSUME NEW s \in Sides, writing'[s] = writing[s], put'[s] = put[s]
  PROVE  /\ HeaderOut(s)' <=> HeaderOut(s)
         /\ Writing(s, "validation")' <=> Writing(s, "validation")
BY DEF HeaderOut, Writing, Put, Left

(* A step that moves no read leaves the readers in place.                  *)
LEMMA ReadersKept ==
  ASSUME UNCHANGED <<linked, reading, delivered>>,
         Writing("client", "validation")' => Writing("client", "validation")
  PROVE  ReadersPlaced
BY DEF ReadersPlaced, ClientReads, Reads, ReadTo, Unsolved

(* Send keeps the order: it posts the next message.                        *)
LEMMA OrderSend ==
  ASSUME ConnectionInv, OrderInv, NEW s \in Sides, NEW empty \in BOOLEAN, Send(s, empty)
  PROVE  OrderInv'
<1> DEFINE n == Len(sent[s]) + 1
           m == [id |-> n, body |-> IF empty THEN NoBody ELSE n]
<1>1. /\ sent' = [sent EXCEPT ![s] = Append(@, m)]
      /\ posted' = [posted EXCEPT ![s] = Append(@, m)]
      /\ UNCHANGED <<open, linked, m_qMessagesOut, writing, put, stream, input, network>>
  BY DEF Send
<1>2. /\ m.id = Len(sent[s]) + 1 /\ Len(sent[s]) \in Nat /\ m # Close
      /\ sent[s] \in Seq(Message) /\ posted[s] \in Functions
  <2>1. sent[s] \in Seq(Message) /\ posted[s] \in Functions
    BY DEF ConnectionInv, TypeOK, Functions
  <2>2. m.id = n /\ n # 0 /\ Close.id = 0
    BY <2>1 DEF Close
  <2> QED BY <2>1, <2>2
<1> HIDE DEF m
<1>3. /\ sent'[s] = Append(sent[s], m) /\ posted'[s] = Append(posted[s], m)
      /\ \A t \in Sides : t # s => sent'[t] = sent[t] /\ posted'[t] = posted[t]
  BY <1>1 DEF ConnectionInv, TypeOK
<1>4. /\ Len(sent'[s]) = Len(sent[s]) + 1
      /\ \A i \in 1 .. Len(sent[s]) : sent'[s][i] = sent[s][i] /\ i \in 1 .. Len(sent'[s])
  BY <1>2, <1>3
<1>5. InPlace(Len(sent'[s]), posted'[s]) /\ Taken(s)' = Taken(s)
  BY <1>2, <1>3, <1>4, PostMessage DEF OrderInv, SenderOrder, Taken
<1>6. HeadersSent(s)'
  BY <1>1, <1>4 DEF OrderInv, SenderOrder, HeadersSent, IsHeaderOf
<1>7. SenderOrder(s)'
  BY <1>1, <1>5, <1>6 DEF OrderInv, SenderOrder
<1>8. \A t \in Sides : t # s => SenderOrder(t)'
  BY <1>1, <1>3, SenderKept DEF OrderInv
<1>9. \A t \in Sides : WrittenTo(t)' = WrittenTo(t)
  <2>1. \A t \in Sides : HeaderOut(t)' <=> HeaderOut(t)
    BY <1>1, OutKept
  <2>2. WrittenTo(s)' = WrittenTo(s)
    BY <1>1, <1>5, <2>1 DEF WrittenTo
  <2> QED BY <1>1, <1>3, <2>1, <2>2, WrittenKept
<1>10. WritersPlaced
  BY <1>1, <1>7, <1>8, <1>9 DEF WritersPlaced, Live
<1>11. ReadersPlaced
  BY <1>1, OutKept, ReadersKept, PeerFacts DEF input
<1> QED BY <1>1, <1>10, <1>11, OrderKept DEF input

(* Disconnect keeps it: it posts a close.                                  *)
LEMMA OrderDisconnect ==
  ASSUME ConnectionInv, OrderInv, NEW s \in Sides, Disconnect(s)
  PROVE  OrderInv'
<1>1. /\ posted' = [posted EXCEPT ![s] = Append(@, Close)]
      /\ \A i \in DOMAIN posted[s] : posted[s][i] # Close
      /\ UNCHANGED <<open, linked, m_qMessagesOut, writing, put, stream, input, network, sent>>
      /\ posted[s] \in Functions /\ Len(sent[s]) \in Nat
  BY DEF Disconnect, ConnectionInv, TypeOK, Functions
<1>2. /\ posted'[s] = Append(posted[s], Close)
      /\ \A t \in Sides : t # s => posted'[t] = posted[t]
  BY <1>1 DEF ConnectionInv, TypeOK
<1>3. InPlace(Len(sent'[s]), posted'[s]) /\ Taken(s)' = Taken(s)
  BY <1>1, <1>2, PostClose DEF OrderInv, SenderOrder, Taken
<1>4. \A t \in Sides : SenderOrder(t)'
  <2>1. SenderOrder(s)'
    BY <1>1, <1>3 DEF OrderInv, SenderOrder, HeadersSent
  <2> QED BY <1>1, <1>2, <2>1, SenderKept DEF OrderInv
<1>5. \A t \in Sides : WrittenTo(t)' = WrittenTo(t)
  <2>1. \A t \in Sides : HeaderOut(t)' <=> HeaderOut(t)
    BY <1>1, OutKept
  <2>2. WrittenTo(s)' = WrittenTo(s)
    BY <1>1, <1>3, <2>1 DEF WrittenTo
  <2> QED BY <1>1, <1>2, <2>1, <2>2, WrittenKept
<1>6. WritersPlaced
  BY <1>1, <1>4, <1>5 DEF WritersPlaced, Live
<1>7. ReadersPlaced
  BY <1>1, OutKept, ReadersKept, PeerFacts DEF input
<1> QED BY <1>1, <1>6, <1>7, OrderKept DEF input

(* The posted close keeps it: it takes no message.                         *)
LEMMA OrderRunClose ==
  ASSUME ConnectionInv, OrderInv, NEW s \in Sides, RunClose(s)
  PROVE  OrderInv'
<1>1. /\ posted[s] # << >> /\ Head(posted[s]) = Close
      /\ posted' = [posted EXCEPT ![s] = Tail(@)]
      /\ open' = [open EXCEPT ![s] = FALSE]
      /\ UNCHANGED <<linked, m_qMessagesOut, writing, put, stream, input, network, sent>>
      /\ posted[s] \in Functions /\ Len(sent[s]) \in Nat
  BY DEF RunClose, Shut, ConnectionInv, TypeOK, Functions
<1>2. /\ posted'[s] = Tail(posted[s])
      /\ \A t \in Sides : t # s => posted'[t] = posted[t] /\ open'[t] = open[t]
      /\ ~open'[s]
  BY <1>1 DEF ConnectionInv, TypeOK
<1>3. InPlace(Len(sent'[s]), posted'[s]) /\ Taken(s)' = Taken(s)
  BY <1>1, <1>2, RunPosted DEF OrderInv, SenderOrder, Taken
<1>4. \A t \in Sides : SenderOrder(t)'
  <2>1. SenderOrder(s)'
    BY <1>1, <1>3 DEF OrderInv, SenderOrder, HeadersSent
  <2> QED BY <1>1, <1>2, <2>1, SenderKept DEF OrderInv
<1>5. \A t \in Sides : t # s => WrittenTo(t)' = WrittenTo(t)
  BY <1>1, <1>2, OutKept, WrittenKept
<1>6. WritersPlaced
  BY <1>1, <1>2, <1>4, <1>5 DEF WritersPlaced, Live
<1>7. ReadersPlaced
  BY <1>1, OutKept, ReadersKept, PeerFacts DEF input
<1> QED BY <1>1, <1>6, <1>7, OrderKept DEF input

(* The posted message keeps it: it joins the queue as the next one.        *)
LEMMA OrderRunSend ==
  ASSUME ConnectionInv, OrderInv, NEW s \in Sides, RunSend(s)
  PROVE  OrderInv'
<1> DEFINE m == Head(posted[s])
           queue == m_qMessagesOut[s]
<1>1. /\ posted[s] # << >> /\ m # Close
      /\ posted' = [posted EXCEPT ![s] = Tail(@)]
      /\ m_qMessagesOut' = [m_qMessagesOut EXCEPT ![s] = Append(@, m)]
      /\ writing' = IF queue = << >> THEN [writing EXCEPT ![s] = Append(@, "header")]
                                     ELSE writing
      /\ UNCHANGED <<open, linked, put, stream, input, network, sent>>
  BY DEF RunSend
<1>2. /\ posted[s] \in Functions /\ Len(sent[s]) \in Nat /\ queue \in Seq(Message)
      /\ Len(queue) \in Nat /\ Taken(s) \in Int
  <2>1. posted[s] \in Functions /\ sent[s] \in Seq(Message) /\ queue \in Seq(Message)
    BY DEF ConnectionInv, TypeOK, Functions
  <2> QED BY <2>1, TakenInt DEF Taken
<1>3. /\ posted'[s] = Tail(posted[s]) /\ m_qMessagesOut'[s] = Append(queue, m)
      /\ writing'[s] = IF queue = << >> THEN Append(writing[s], "header") ELSE writing[s]
      /\ \A t \in Sides : t # s => /\ posted'[t] = posted[t]
                                   /\ m_qMessagesOut'[t] = m_qMessagesOut[t]
                                   /\ writing'[t] = writing[t]
  BY <1>1 DEF ConnectionInv, TypeOK
<1>4. /\ InPlace(Len(sent'[s]), posted'[s]) /\ Taken(s)' = Taken(s) + 1
      /\ m.id = Taken(s) + 1
  BY <1>1, <1>2, <1>3, RunPosted DEF OrderInv, SenderOrder, Taken
<1>5. Queued(Taken(s)', m_qMessagesOut'[s]) /\ Len(m_qMessagesOut'[s]) = Len(queue) + 1
  <2>1. Queued(Taken(s), queue)
    BY DEF OrderInv, SenderOrder
  <2> HIDE DEF m, queue
  <2> QED BY <1>2, <1>3, <1>4, <2>1, QueueAppend
<1>6. /\ HeaderOut(s)' <=> HeaderOut(s)
      /\ Writing(s, "validation")' <=> Writing(s, "validation")
  <2>1. CASE queue = << >>
    <3>1. \A w \in MessageWrites : ~Put(s, w) /\ ~Left(s, w)
      BY <2>1 DEF ConnectionInv, WritesOK, WriteOK, Writing
    <3>2. /\ OneOfEach(writing[s]) /\ put[s] \in 0 .. 2 /\ put[s] <= Len(writing[s])
          /\ "header" \in Writes
          /\ \A w \in Writes : SameKind(w, "header") =>
               ~IsPut(writing[s], put[s], w) /\ ~IsLeft(writing[s], put[s], w)
      BY <3>1 DEF ConnectionInv, WritesOK, WriteOK, Writes, MessageWrites, SameKind, Put, Left
    <3>3. \A w \in Writes :
            /\ IsPut(Append(writing[s], "header"), put[s], w)
                 <=> IsPut(writing[s], put[s], w)
            /\ IsLeft(Append(writing[s], "header"), put[s], w)
                 <=> (IsLeft(writing[s], put[s], w) \/ w = "header")
      BY <3>2, StartAnother
    <3>4. writing'[s] = Append(writing[s], "header") /\ put'[s] = put[s]
      BY <1>1, <1>3, <2>1
    <3> QED BY <3>3, <3>4 DEF HeaderOut, Writing, Put, Left, Writes
  <2>2. CASE queue # << >>
    BY <1>1, <1>3, <2>2, OutKept
  <2> QED BY <2>1, <2>2
<1>7. \A t \in Sides : SenderOrder(t)'
  <2>1. SenderOrder(s)'
    BY <1>1, <1>4, <1>5 DEF OrderInv, SenderOrder, HeadersSent
  <2> QED BY <1>1, <1>3, <2>1, SenderKept DEF OrderInv
<1>8. \A t \in Sides : WrittenTo(t)' = WrittenTo(t)
  <2>1. WrittenTo(s)' = WrittenTo(s)
    <3>1. Taken(s)' - Len(m_qMessagesOut'[s]) = Taken(s) - Len(m_qMessagesOut[s])
      BY <1>2, <1>4, <1>5
    <3> QED BY <1>6, <3>1 DEF WrittenTo
  <2> QED BY <1>1, <1>3, <2>1, OutKept, WrittenKept
<1>9. WritersPlaced
  BY <1>1, <1>7, <1>8 DEF WritersPlaced, Live
<1>10. ReadersPlaced
  <2>1. Writing("client", "validation")' <=> Writing("client", "validation")
    BY <1>1, <1>3, <1>6, OutKept, PeerFacts
  <2> QED BY <1>1, <2>1, ReadersKept DEF input
<1> QED BY <1>1, <1>9, <1>10, OrderKept DEF input

(* The handlers of writes and the failures, which leave what is posted.    *)
LEMMA OrderWriteFails ==
  ASSUME ConnectionInv, OrderInv, NEW s \in Sides, WriteFails(s)
  PROVE  OrderInv'
<1>1. /\ put[s] = 0 /\ writing[s] # << >>
      /\ writing' = [writing EXCEPT ![s] = Tail(@)]
      /\ open' = [open EXCEPT ![s] = FALSE]
      /\ UNCHANGED <<linked, posted, m_qMessagesOut, put, stream, input, network, sent>>
  BY DEF WriteFails, Shut
<1>2. /\ writing'[s] = Tail(writing[s]) /\ put'[s] = 0 /\ ~open'[s]
      /\ \A t \in Sides : t # s => writing'[t] = writing[t] /\ open'[t] = open[t]
  BY <1>1 DEF ConnectionInv, TypeOK
<1>3. Writing(s, "validation")' => Writing(s, "validation")
  BY <1>1, <1>2, DropFirst DEF ConnectionInv, WritesOK, WriteOK, Writing, Put, Left, Writes
<1>4. \A t \in Sides : t # s => WrittenTo(t)' = WrittenTo(t)
  BY <1>1, <1>2, OutKept, WrittenKept
<1>5. WritersPlaced
  BY <1>1, <1>2, <1>4, SenderKept DEF WritersPlaced, Live, OrderInv
<1>6. ReadersPlaced
  <2>1. Writing("client", "validation")' => Writing("client", "validation")
    BY <1>1, <1>2, <1>3, OutKept, PeerFacts
  <2> QED BY <1>1, <2>1, ReadersKept DEF input
<1> QED BY <1>1, <1>5, <1>6, OrderKept DEF input

(* A read that fails keeps it: an end that is closed reads no more.        *)
LEMMA OrderReadFails ==
  ASSUME ConnectionInv, OrderInv, NEW s \in Sides, ReadFails(s)
  PROVE  OrderInv'
<1>1. /\ reading[s] # "none" /\ reading' = [reading EXCEPT ![s] = "none"]
      /\ open' = [open EXCEPT ![s] = FALSE]
      /\ UNCHANGED <<linked, output, stream, m_msgTemporaryIn, delivered, handshake, network>>
  BY DEF ReadFails, Read, Shut
<1>2. /\ reading'[s] = "none" /\ ~open'[s]
      /\ \A t \in Sides : t # s => reading'[t] = reading[t] /\ open'[t] = open[t]
  BY <1>1 DEF ConnectionInv, TypeOK
<1>3. UNCHANGED <<posted, m_qMessagesOut, writing, put, sent>>
  BY <1>1 DEF output
<1>4. WritersPlaced
  <2>1. \A t \in Sides : WrittenTo(t)' = WrittenTo(t)
    BY <1>3, OutKept, WrittenKept
  <2>2. \A t \in Sides : SenderOrder(t)'
    BY <1>1, <1>3, SenderKept DEF OrderInv
  <2> QED BY <1>1, <1>2, <2>1, <2>2 DEF WritersPlaced, Live
<1>5. ReadersPlaced
  <2>0. Writing("client", "validation")' <=> Writing("client", "validation")
    BY <1>3, OutKept, PeerFacts
  <2>1. CASE s = "client"
    <3>1. ~Writing("client", "validation")
      BY <1>1, <2>1 DEF ConnectionInv, ClientOK
    <3>2. Unsolved' => Unsolved
      BY <1>1, <1>2, <2>1 DEF Unsolved
    <3>3. ~ClientReads'
      BY <1>2, <2>0, <2>1, <3>1 DEF ClientReads, Reads
    <3>4. /\ Reads("server")' <=> Reads("server")
          /\ ReadTo("server")' = ReadTo("server")
      BY <1>1, <1>2, <2>1, PeerFacts DEF Reads, ReadTo
    <3>5. \A t \in Sides : reading'[t] = "body" => reading[t] = "body"
      BY <1>2
    <3> QED BY <2>0, <3>1, <3>2, <3>3, <3>4, <3>5 DEF ReadersPlaced
  <2>2. CASE s = "server"
    <3>1. /\ ClientReads' <=> ClientReads
          /\ ReadTo("client")' = ReadTo("client") /\ (Unsolved' <=> Unsolved)
      BY <1>1, <1>2, <2>0, <2>2, PeerFacts DEF ClientReads, Reads, ReadTo, Unsolved
    <3>2. ~Reads("server")'
      BY <1>2, <2>2 DEF Reads
    <3>3. \A t \in Sides : reading'[t] = "body" => reading[t] = "body"
      BY <1>2
    <3> QED BY <2>0, <3>1, <3>2, <3>3 DEF ReadersPlaced
  <2> QED BY <2>1, <2>2, PeerFacts
<1> QED BY <1>1, <1>4, <1>5, OrderKept DEF output

(* The client's connect keeps it: nothing has been read.                   *)
LEMMA OrderConnectToServer ==
  ASSUME ConnectionInv, OrderInv, ConnectToServer
  PROVE  OrderInv'
<1>1. /\ linked["client"] # "yes" /\ linked' = [linked EXCEPT !["client"] = "yes"]
      /\ reading' = [reading EXCEPT !["client"] = "validation"]
      /\ UNCHANGED <<open, m_msgTemporaryIn, delivered, handshake, output, stream, network>>
  BY DEF ConnectToServer, Connected, Read
<1>2. reading'["client"] = "validation" /\ reading'["server"] = reading["server"]
  BY <1>1, PeerFacts DEF ConnectionInv, TypeOK
<1>3. UNCHANGED <<posted, m_qMessagesOut, writing, put, sent>>
  BY <1>1 DEF output
<1>4. WritersPlaced
  <2>1. \A t \in Sides : WrittenTo(t)' = WrittenTo(t)
    BY <1>3, OutKept, WrittenKept
  <2>2. \A t \in Sides : SenderOrder(t)'
    BY <1>1, <1>3, SenderKept DEF OrderInv
  <2> QED BY <1>1, <2>1, <2>2 DEF WritersPlaced, Live
<1>5. ReadersPlaced
  <2>1. Unsolved /\ ~Writing("client", "validation")
    BY <1>1 DEF ConnectionInv, ClientOK, Unsolved
  <2>2. ~ClientReads'
    <3>1. ~Writing("client", "validation")'
      BY <1>3, <2>1, OutKept, PeerFacts
    <3> QED BY <1>2, <3>1 DEF ClientReads, Reads
  <2>3. /\ Reads("server")' <=> Reads("server")
        /\ ReadTo("server")' = ReadTo("server")
    BY <1>1, <1>2 DEF Reads, ReadTo
  <2>4. \A t \in Sides : reading'[t] = "body" => reading[t] = "body"
    BY <1>2, PeerFacts
  <2> QED BY <2>1, <2>2, <2>3, <2>4 DEF ReadersPlaced
<1> QED BY <1>1, <1>4, <1>5, OrderKept DEF output

(* A connect that fails moves nothing.                                     *)
LEMMA OrderConnectFails ==
  ASSUME ConnectionInv, OrderInv, ConnectFails
  PROVE  OrderInv'
<1>1. /\ linked["client"] # "yes" /\ linked' = [linked EXCEPT !["client"] = "failed"]
      /\ UNCHANGED <<open, input, output, stream, network>>
  BY DEF ConnectFails, Connected
<1>2. UNCHANGED <<posted, m_qMessagesOut, writing, put, sent, reading,
                  m_msgTemporaryIn, delivered, handshake>>
  BY <1>1 DEF output, input
<1>3. WritersPlaced
  <2>1. \A t \in Sides : WrittenTo(t)' = WrittenTo(t)
    BY <1>2, OutKept, WrittenKept
  <2>2. \A t \in Sides : SenderOrder(t)'
    BY <1>1, <1>2, SenderKept DEF OrderInv
  <2> QED BY <1>1, <2>1, <2>2 DEF WritersPlaced, Live
<1>4. ReadersPlaced
  <2>1. ClientReads' <=> ClientReads
    BY <1>2, OutKept, PeerFacts DEF ClientReads, Reads
  <2>2. \A t \in Sides : /\ Reads(t)' <=> Reads(t)
                         /\ ReadTo(t)' = ReadTo(t)
    BY <1>2 DEF Reads, ReadTo
  <2>3. Unsolved
    BY <1>1 DEF Unsolved
  <2>4. \A t \in Sides : reading'[t] = "body" => reading[t] = "body"
    BY <1>2
  <2> QED BY <2>1, <2>2, <2>3, <2>4, PeerFacts DEF ReadersPlaced
<1> QED BY <1>1, <1>2, <1>3, <1>4, OrderKept

(* The server's accept keeps it: nothing has been read or written.         *)
LEMMA OrderConnectToClient ==
  ASSUME ConnectionInv, OrderInv, ConnectToClient
  PROVE  OrderInv'
<1>1. /\ linked["server"] # "yes" /\ linked' = [linked EXCEPT !["server"] = "yes"]
      /\ writing' = [writing EXCEPT !["server"] = <<"validation">>]
      /\ reading' = [reading EXCEPT !["server"] = "validation"]
      /\ UNCHANGED <<open, posted, m_qMessagesOut, put, stream, m_msgTemporaryIn,
                     network, handshake, sent, delivered>>
  BY DEF ConnectToClient, Connected, Read
<1>2. /\ linked'["client"] = linked["client"]
      /\ reading'["server"] = "validation" /\ reading'["client"] = reading["client"]
      /\ writing'["server"] = <<"validation">> /\ writing'["client"] = writing["client"]
  BY <1>1, PeerFacts DEF ConnectionInv, TypeOK
<1>3. writing["server"] = << >> /\ put["server"] = 0
  <2>1. writing["server"] = << >>
    BY <1>1 DEF ConnectionInv, Quiet
  <2>2. put["server"] \in 0 .. 2 /\ put["server"] <= Len(writing["server"])
    BY PeerFacts DEF ConnectionInv, TypeOK
  <2> QED BY <2>1, <2>2
<1>4. ~HeaderOut("server") /\ ~HeaderOut("server")'
  BY <1>1, <1>2, <1>3 DEF HeaderOut, Writing, Put, Left, IsPut, IsLeft
<1>5. \A t \in Sides : WrittenTo(t)' = WrittenTo(t)
  BY <1>1, <1>2, <1>4, OutKept, WrittenKept, PeerFacts
<1>6. WritersPlaced
  BY <1>1, <1>5, SenderKept DEF WritersPlaced, Live, OrderInv
<1>7. ReadersPlaced
  <2>1. Writing("client", "validation")' <=> Writing("client", "validation")
    BY <1>1, <1>2, OutKept, PeerFacts
  <2> QED BY <1>1, <1>2, <2>1, PeerFacts
          DEF ReadersPlaced, ClientReads, Reads, ReadTo, Unsolved
<1> QED BY <1>1, <1>6, <1>7, OrderKept

(* A message that is written whole leaves the queue, with its header out.  *)
LEMMA OrderFinish ==
  ASSUME ConnectionInv, OrderInv, NEW s \in Sides, NEW what \in MessageWrites,
         Ended(s, what), FinishMessage(s),
         UNCHANGED <<open, linked, posted, stream, input, network, sent>>
  PROVE  OrderInv'
<1> DEFINE then == IF Len(m_qMessagesOut[s]) = 1 THEN << >> ELSE <<"header">>
           queue == m_qMessagesOut[s]
<1>1. /\ put[s] > 0 /\ Head(writing[s]) = what
      /\ m_qMessagesOut' = [m_qMessagesOut EXCEPT ![s] = Tail(@)] /\ Start(s, then)
  BY DEF Ended, FinishMessage
<1>2. then \in {<< >>, <<"header">>, <<"body">>} /\ then # <<"body">>
  OBVIOUS
<1> HIDE DEF then
<1>3. /\ Continues(writing[s], put[s], then, writing'[s]) /\ put'[s] = put[s] - 1
      /\ \A t \in Sides : t # s => writing'[t] = writing[t] /\ put'[t] = put[t]
  BY <1>1, <1>2, StartStep DEF ConnectionInv
<1>4. /\ HeaderOut(s) /\ ~HeaderOut(s)' /\ queue # << >>
      /\ Writing(s, "validation")' <=> Writing(s, "validation")
  <2>1. /\ Put(s, what)
        /\ \A w \in MessageWrites : ~Put(s, w)' /\ (Left(s, w)' <=> then = <<w>>)
        /\ Put(s, "validation")' <=> Put(s, "validation")
        /\ Left(s, "validation")' <=> Left(s, "validation")
    BY <1>1, <1>3 DEF Continues, Put, Left
  <2>2. HeaderOut(s) /\ ~HeaderOut(s)'
    BY <1>2, <2>1 DEF HeaderOut, Writing, MessageWrites
  <2>3. queue # << >>
    BY <2>1 DEF ConnectionInv, WritesOK, WriteOK, Writing
  <2> QED BY <2>1, <2>2, <2>3 DEF Writing
<1>5. /\ queue \in Seq(Message) /\ Len(queue) \in Nat /\ Taken(s) \in Int
      /\ m_qMessagesOut'[s] = Tail(queue) /\ Taken(s)' = Taken(s)
      /\ \A t \in Sides : t # s => m_qMessagesOut'[t] = m_qMessagesOut[t]
  <2>1. queue \in Seq(Message) /\ posted[s] \in Functions /\ sent[s] \in Seq(Message)
    BY DEF ConnectionInv, TypeOK, Functions
  <2>2. Taken(s) \in Int /\ Taken(s)' = Taken(s)
    BY <2>1, TakenInt DEF Taken
  <2> QED BY <1>1, <2>1, <2>2 DEF ConnectionInv, TypeOK
<1>6. Queued(Taken(s), m_qMessagesOut'[s]) /\ Len(m_qMessagesOut'[s]) = Len(queue) - 1
  <2>1. Queued(Taken(s), queue)
    BY DEF OrderInv, SenderOrder
  <2> HIDE DEF queue
  <2> QED BY <1>4, <1>5, <2>1, QueueTail
<1>7. \A t \in Sides : SenderOrder(t)'
  <2>1. SenderOrder(s)'
    BY <1>5, <1>6 DEF OrderInv, SenderOrder, HeadersSent
  <2> QED BY <1>5, <2>1, SenderKept DEF OrderInv
<1>8. \A t \in Sides : WrittenTo(t)' = WrittenTo(t)
  <2>1. WrittenTo(s)' = WrittenTo(s)
    BY <1>4, <1>5, <1>6 DEF WrittenTo
  <2> QED BY <1>3, <1>5, <2>1, OutKept, WrittenKept
<1>9. WritersPlaced
  BY <1>7, <1>8 DEF WritersPlaced, Live
<1>10. ReadersPlaced
  <2>1. Writing("client", "validation")' <=> Writing("client", "validation")
    BY <1>3, <1>4, OutKept, PeerFacts
  <2> QED BY <2>1, ReadersKept DEF input
<1> QED BY <1>9, <1>10, OrderKept DEF input

(* The handler of a header keeps it.                                       *)
LEMMA OrderHeaderWritten ==
  ASSUME ConnectionInv, OrderInv, NEW s \in Sides, HeaderWritten(s)
  PROVE  OrderInv'
<1>1. /\ Ended(s, "header") /\ put[s] > 0 /\ Head(writing[s]) = "header"
      /\ UNCHANGED <<open, linked, posted, stream, input, network, sent>>
      /\ "header" \in MessageWrites
  BY DEF HeaderWritten, Ended, MessageWrites
<1>2. CASE Start(s, <<"body">>) /\ UNCHANGED m_qMessagesOut
  <2>1. /\ Continues(writing[s], put[s], <<"body">>, writing'[s])
        /\ put'[s] = put[s] - 1
        /\ \A t \in Sides : t # s => writing'[t] = writing[t] /\ put'[t] = put[t]
    BY <1>1, <1>2, StartStep DEF ConnectionInv
  <2>2. /\ Put(s, "header")
        /\ \A w \in MessageWrites : ~Put(s, w)' /\ (Left(s, w)' <=> <<"body">> = <<w>>)
        /\ Put(s, "validation")' <=> Put(s, "validation")
        /\ Left(s, "validation")' <=> Left(s, "validation")
    BY <1>1, <2>1 DEF Continues, Put, Left
  <2>3. /\ HeaderOut(s) /\ HeaderOut(s)'
        /\ Writing(s, "validation")' <=> Writing(s, "validation")
    BY <2>2 DEF HeaderOut, Writing, MessageWrites
  <2>4. \A t \in Sides : WrittenTo(t)' = WrittenTo(t)
    BY <1>1, <1>2, <2>1, <2>3, OutKept, WrittenKept
  <2>5. WritersPlaced
    BY <1>1, <1>2, <2>4, SenderKept DEF WritersPlaced, Live, OrderInv
  <2>6. ReadersPlaced
    <3>1. Writing("client", "validation")' <=> Writing("client", "validation")
      BY <2>1, <2>3, OutKept, PeerFacts
    <3> QED BY <1>1, <3>1, ReadersKept DEF input
  <2> QED BY <1>1, <2>5, <2>6, OrderKept DEF input
<1>3. CASE FinishMessage(s)
  BY <1>1, <1>3, OrderFinish
<1> QED BY <1>2, <1>3 DEF HeaderWritten

(* The handler of a body keeps it: the message is done.                    *)
LEMMA OrderBodyWritten ==
  ASSUME ConnectionInv, OrderInv, NEW s \in Sides, BodyWritten(s)
  PROVE  OrderInv'
BY OrderFinish DEF BodyWritten, MessageWrites

(* The handler of the client's answer keeps it: the first message is       *)
(* awaited.                                                                *)
LEMMA OrderValidationWritten ==
  ASSUME ConnectionInv, OrderInv, NEW s \in Sides, ValidationWritten(s)
  PROVE  OrderInv'
<1>1. /\ put[s] > 0 /\ Head(writing[s]) = "validation" /\ Start(s, << >>)
      /\ reading' = IF s = "client" THEN [reading EXCEPT ![s] = "header"] ELSE reading
      /\ UNCHANGED <<open, linked, posted, m_qMessagesOut, stream, m_msgTemporaryIn,
                     delivered, handshake, network, sent>>
  BY DEF ValidationWritten, Ended, Read
<1>2. /\ Continues(writing[s], put[s], << >>, writing'[s])
      /\ put'[s] = put[s] - 1
      /\ \A t \in Sides : t # s => writing'[t] = writing[t] /\ put'[t] = put[t]
  BY <1>1, StartStep DEF ConnectionInv
<1>3. /\ Put(s, "validation") /\ ~Put(s, "validation")' /\ ~Left(s, "validation")'
      /\ \A w \in MessageWrites : (Put(s, w)' <=> Put(s, w)) /\ (Left(s, w)' <=> Left(s, w))
  BY <1>1, <1>2 DEF Continues, Put, Left
<1>4. \A t \in Sides : WrittenTo(t)' = WrittenTo(t)
  <2>1. HeaderOut(s)' <=> HeaderOut(s)
    BY <1>3 DEF HeaderOut, Writing, MessageWrites
  <2> QED BY <1>1, <1>2, <2>1, OutKept, WrittenKept
<1>5. WritersPlaced
  BY <1>1, <1>4, SenderKept DEF WritersPlaced, Live, OrderInv
<1>6. ReadersPlaced
  <2>1. CASE s = "server"
    <3>1. Writing("client", "validation")' <=> Writing("client", "validation")
      BY <1>2, <2>1, OutKept, PeerFacts
    <3> QED BY <1>1, <2>1, <3>1, ReadersKept
  <2>2. CASE s = "client"
    <3>1. /\ reading["client"] = "none" /\ reading'["client"] = "header"
          /\ reading'["server"] = reading["server"]
          /\ Writing("client", "validation") /\ ~Unsolved'
      BY <1>1, <1>3, <2>2, PeerFacts
         DEF ConnectionInv, ClientOK, Unsolved, Writing, TypeOK
    <3> QED BY <1>1, <2>2, <3>1, PeerFacts DEF ReadersPlaced, ClientReads, Reads, ReadTo
  <2> QED BY <2>1, <2>2, PeerFacts
<1> QED BY <1>1, <1>5, <1>6, OrderKept

(* A failure of the network keeps it: nothing is on the wire.              *)
LEMMA OrderBreak ==
  ASSUME ConnectionInv, OrderInv, Break
  PROVE  OrderInv'
<1>1. /\ network' # "up" /\ stream' = [s \in Sides |-> << >>]
      /\ UNCHANGED <<open, linked, output, input>>
  BY DEF Break
<1>2. \A s \in Sides : stream'[s] = << >> /\ ~Live(s)'
  BY <1>1 DEF Live
<1>3. \A s \in Sides : SenderOrder(s)' /\ ReaderOrder(s)'
  BY <1>1, <1>2 DEF OrderInv, SenderOrder, ReaderOrder, HeadersSent, Taken, output, input
<1>4. ClientOrder'
  <2>1. Unsolved' \/ Writing("client", "validation")' =>
          Unsolved \/ Writing("client", "validation")
    BY <1>1, OutKept, PeerFacts DEF Unsolved, output, input
  <2> QED BY <1>1, <1>2, <2>1, PeerFacts, OrderEmpty
          DEF OrderInv, ClientOrder, Ordered, input
<1>5. ServerOrder'
  BY <1>2, PeerFacts, OrderEmpty DEF ServerOrder, Ordered
<1> QED BY <1>3, <1>4, <1>5 DEF OrderInv

(* A step that changes nothing keeps it.                                   *)
LEMMA OrderStutter == OrderInv /\ UNCHANGED vars => OrderInv'
<1> SUFFICES ASSUME OrderInv, UNCHANGED vars PROVE OrderInv'
  OBVIOUS
<1>1. WritersPlaced
  BY SenderKept, OutKept, WrittenKept DEF WritersPlaced, Live, OrderInv, vars
<1>2. ReadersPlaced
  BY ReadersKept, OutKept, PeerFacts DEF vars
<1> QED BY <1>1, <1>2, OrderKept DEF vars

-----------------------------------------------------------------------------
(* The unit that is put on the wire is of the message that is written.     *)
LEMMA OrderedUnit ==
  ASSUME ConnectionInv, OrderInv, NEW s \in Sides, Live(s), put[s] < Len(writing[s]),
         NEW CONSTANT x, x = writing[s][put[s] + 1],
         NEW CONSTANT u, u = Buffer(s, x),
         put' = [put EXCEPT ![s] = @ + 1],
         UNCHANGED <<writing, m_qMessagesOut, posted, sent>>
  PROVE  /\ IsHeaderOf(u, sent[s])
         /\ x \in MessageWrites =>
              NextOf(u, WrittenTo(s)) /\ NumberOf(u) = WrittenTo(s)'
         /\ x = "validation" => WrittenTo(s)' = WrittenTo(s)
<1> DEFINE queue == m_qMessagesOut[s]
           m == Head(queue)
<1>1. /\ OneOfEach(writing[s]) /\ put[s] \in 0 .. 2 /\ put[s] <= Len(writing[s])
      /\ put'[s] = put[s] + 1 /\ writing'[s] = writing[s]
  BY DEF ConnectionInv, WritesOK, WriteOK, TypeOK
<1>2. /\ x \in Writes
      /\ Left(s, x) /\ ~Left(s, x)' /\ Put(s, x)'
      /\ \A w \in Writes : w # x =>
           (Put(s, w)' <=> Put(s, w)) /\ (Left(s, w)' <=> Left(s, w))
      /\ x \in MessageWrites => \A w \in MessageWrites :
           ~Put(s, w) /\ (w # x => ~Left(s, w))
  BY <1>1, PutNext DEF Put, Left
<1>3. /\ queue \in Seq(Message) /\ Len(queue) \in Nat /\ Taken(s) \in Int
      /\ Taken(s)' = Taken(s) /\ m_qMessagesOut'[s] = queue
  <2>1. queue \in Seq(Message) /\ posted[s] \in Functions /\ sent[s] \in Seq(Message)
    BY DEF ConnectionInv, TypeOK, Functions
  <2>2. Taken(s) \in Int /\ Taken(s)' = Taken(s)
    BY <2>1, TakenInt DEF Taken
  <2> QED BY <2>1, <2>2
<1>4. ASSUME x \in MessageWrites
      PROVE  /\ m \in Message /\ IsSent(m, sent[s])
             /\ m.id = Taken(s) - Len(queue) + 1
             /\ m.body \in {NoBody, m.id}
             /\ x = "body" => m.body # NoBody
  <2>1. queue # << >> /\ (x = "body" => m.body # NoBody)
    BY <1>2, <1>4 DEF ConnectionInv, WritesOK, WriteOK, Writing
  <2>2. m = queue[1] /\ 1 \in 1 .. Len(queue) /\ m \in Message
    BY <1>3, <2>1
  <2>3. IsSent(m, sent[s]) /\ Numbered(sent[s])
    BY <2>2 DEF ConnectionInv, AllSent, QueueSent
  <2>4. Queued(Taken(s), queue)
    BY DEF OrderInv, SenderOrder
  <2>5. m.id = Taken(s) - Len(queue) + 1
    <3> HIDE DEF queue
    <3> QED BY <1>3, <2>1, <2>4, QueueTail
  <2> QED BY <2>1, <2>2, <2>3, <2>5 DEF IsSent, Numbered
<1>5. CASE x = "header"
  <2>1. u = Header(m)
    BY <1>5 DEF Buffer
  <2>2. /\ u.type = "header" /\ u.id = m.id
        /\ u.empty <=> m.body = NoBody
    BY <1>4, <1>5, <2>1, MessageUnits DEF MessageWrites
  <2>3. ~HeaderOut(s) /\ HeaderOut(s)'
    BY <1>2, <1>5 DEF HeaderOut, Writing, MessageWrites
  <2>4. WrittenTo(s) + 1 = m.id /\ WrittenTo(s)' = m.id
    BY <1>3, <1>4, <1>5, <2>3 DEF WrittenTo, MessageWrites
  <2>5. IsHeaderOf(u, sent[s])
    BY <1>4, <1>5, <2>2 DEF IsHeaderOf, IsSent, MessageWrites
  <2> QED BY <1>5, <2>2, <2>4, <2>5 DEF NextOf, NumberOf
<1>6. CASE x = "body"
  <2>1. u = Body(m)
    BY <1>6 DEF Buffer
  <2>2. u.type = "body" /\ u.body = m.id
    BY <1>4, <1>6, <2>1, MessageUnits DEF MessageWrites
  <2>3. HeaderOut(s)'
    BY <1>2, <1>6 DEF HeaderOut, Writing
  <2>4. WrittenTo(s)' = m.id
    BY <1>3, <1>4, <1>6, <2>3 DEF WrittenTo, MessageWrites
  <2> QED BY <1>6, <2>2, <2>4 DEF NextOf, NumberOf, IsHeaderOf
<1>7. CASE x = "validation"
  <2>1. u = IF s = "server" THEN Challenge ELSE Response
    BY <1>7 DEF Buffer
  <2>2. u.type # "header"
    BY <2>1 DEF Challenge, Response
  <2>3. HeaderOut(s)' <=> HeaderOut(s)
    BY <1>2, <1>7 DEF HeaderOut, Writing, Writes
  <2> QED BY <1>3, <1>7, <2>2, <2>3 DEF WrittenTo, IsHeaderOf, MessageWrites
<1> QED BY <1>2, <1>5, <1>6, <1>7 DEF Writes

(* A unit goes on the wire after those that are there.                     *)
LEMMA OrderTransmit ==
  ASSUME ConnectionInv, OrderInv, NEW s \in Sides, Transmit(s)
  PROVE  OrderInv'
<1> PICK x : x = writing[s][put[s] + 1]
  OBVIOUS
<1> PICK u : u = Buffer(s, x)
  OBVIOUS
<1> DEFINE st == stream[s]
<1>1. /\ put[s] < Len(writing[s]) /\ Live(s)
      /\ stream' = [stream EXCEPT ![s] = Append(@, u)]
      /\ put' = [put EXCEPT ![s] = @ + 1]
      /\ UNCHANGED <<open, linked, posted, m_qMessagesOut, writing, sent, input, network>>
  BY DEF Transmit, Live
<1>2. /\ u \in Unit /\ x \in Writes /\ Left(s, x)
      /\ x = "validation" => u = (IF s = "server" THEN Challenge ELSE Response)
      /\ x \in MessageWrites => u.type \in {"header", "body"}
      /\ Writing(s, "validation")' <=> Writing(s, "validation")
  <2>1. PutsUnit(s, x, u)
    BY <1>1, NextUnit
  <2> QED BY <2>1 DEF PutsUnit, Writes
<1>3. /\ IsHeaderOf(u, sent[s])
      /\ x \in MessageWrites => NextOf(u, WrittenTo(s)) /\ NumberOf(u) = WrittenTo(s)'
      /\ x = "validation" => WrittenTo(s)' = WrittenTo(s)
  BY <1>1, OrderedUnit
<1>4. /\ st \in Seq(Unit) /\ stream'[s] = Append(st, u)
      /\ \A t \in Sides : t # s => stream'[t] = stream[t] /\ put'[t] = put[t]
  BY <1>1 DEF ConnectionInv, TypeOK
<1>5. /\ \A t \in Sides : t # s => WrittenTo(t)' = WrittenTo(t)
      /\ \A t \in Sides : Live(t)' <=> Live(t)
  BY <1>1, <1>4, OutKept, WrittenKept DEF Live
<1>6. ASSUME NEW t \in Sides PROVE SenderOrder(t)' /\ ReaderOrder(t)'
  <2>1. ReaderOrder(t)'
    BY <1>1 DEF OrderInv, ReaderOrder, input
  <2>2. CASE t # s
    BY <1>1, <1>4, <2>1, <2>2, SenderKept DEF OrderInv
  <2>3. CASE t = s
    <3>1. \A i \in 1 .. Len(st) : IsHeaderOf(st[i], sent[s])
      BY DEF OrderInv, SenderOrder, HeadersSent
    <3> HIDE DEF st
    <3>2. ASSUME NEW i \in 1 .. Len(Append(st, u))
          PROVE  IsHeaderOf(Append(st, u)[i], sent[s])
      <4>1. (i \in 1 .. Len(st) /\ Append(st, u)[i] = st[i]) \/ Append(st, u)[i] = u
        BY <1>4
      <4> QED BY <1>3, <3>1, <4>1
    <3>3. HeadersSent(s)'
      BY <1>1, <1>4, <3>2 DEF HeadersSent
    <3> QED BY <1>1, <2>1, <2>3, <3>3 DEF OrderInv, SenderOrder, Taken
  <2> QED BY <2>2, <2>3
<1>7. ASSUME x \in MessageWrites, NEW tail \in Seq(Unit), NEW n, Ordered(s, tail, n)
      PROVE  InOrder(Append(tail, u), n) /\ LastOf(Append(tail, u), n) = WrittenTo(s)'
  <2>1. InOrder(tail, n) /\ LastOf(tail, n) = WrittenTo(s)
    BY <1>1, <1>7 DEF Ordered
  <2> QED BY <1>2, <1>3, <1>7, <2>1, OrderAppend
<1>8. /\ Unsolved' <=> Unsolved
      /\ \A t \in Sides : ReadTo(t)' = ReadTo(t) /\ (Reads(t)' <=> Reads(t))
      /\ UNCHANGED <<handshake, delivered>>
  BY <1>1 DEF Unsolved, ReadTo, Reads, input
<1>9. Writing("client", "validation")' <=> Writing("client", "validation")
  BY <1>1, <1>2, <1>4, OutKept, PeerFacts
<1>10. CASE s = "server"
  <2>1. ClientOrder'
    <3>1. CASE x = "validation"
      <4>1. ~ClientReads
        BY <1>2, <1>10, <3>1 DEF ConnectionInv, ClientOK, ClientReads
      <4> QED BY <1>8, <1>9, <4>1, PeerFacts DEF OrderInv, ClientOrder, ClientReads
    <3>2. CASE x \in MessageWrites
      <4>1. Ordered("server", stream["server"], ReadTo("client")) =>
              Ordered("server", stream["server"], ReadTo("client"))'
        <5> SUFFICES ASSUME Ordered("server", stream["server"], ReadTo("client"))
                     PROVE  Ordered("server", stream["server"], ReadTo("client"))'
          OBVIOUS
        <5>1. stream'["server"] = Append(stream["server"], u) /\ stream["server"] \in Seq(Unit)
          BY <1>4, <1>10
        <5>2. ReadTo("client")' = ReadTo("client")
          BY <1>8, PeerFacts
        <5>3. /\ InOrder(Append(stream["server"], u), ReadTo("client"))
              /\ LastOf(Append(stream["server"], u), ReadTo("client")) = WrittenTo("server")'
          BY <1>7, <1>10, <3>2, <5>1
        <5> QED BY <5>1, <5>2, <5>3 DEF Ordered
      <4> QED BY <1>8, <1>9, <4>1, PeerFacts DEF OrderInv, ClientOrder, ClientReads
    <3> QED BY <1>2, <3>1, <3>2 DEF Writes, MessageWrites
  <2>2. ServerOrder'
    BY <1>4, <1>5, <1>8, <1>10, PeerFacts DEF OrderInv, ServerOrder, Ordered
  <2> QED BY <1>6, <2>1, <2>2 DEF OrderInv
<1>11. CASE s = "client"
  <2>1. ClientOrder'
    BY <1>4, <1>5, <1>8, <1>9, <1>11, PeerFacts
       DEF OrderInv, ClientOrder, ClientReads, Ordered
  <2>2. /\ stream'["client"] # << >>
        /\ stream["client"] = << >> =>
             stream'["client"][1] = u /\ Tail(stream'["client"]) = << >>
        /\ stream["client"] # << >> =>
             /\ stream'["client"][1] = stream["client"][1]
             /\ Tail(stream'["client"]) = Append(Tail(stream["client"]), u)
             /\ Tail(stream["client"]) \in Seq(Unit)
    <3>1. st = stream["client"] /\ stream'["client"] = Append(st, u)
      BY <1>4, <1>11
    <3> HIDE DEF st
    <3> QED BY <1>4, <3>1
  <2>3. ServerOrder'
    <3>1. CASE x = "validation"
      <4>1. /\ ~Reads("server")
            /\ \A i \in 1 .. Len(stream["client"]) :
                 stream["client"][i].type # "response"
        BY <1>2, <1>11, <3>1 DEF ConnectionInv, ServerOK, Unanswered, Quiet
      <4>2. stream["client"] # << >> => stream'["client"][1].type # "response"
        <5>1. stream["client"] # << >> => 1 \in 1 .. Len(stream["client"])
          BY <1>4, <1>11
        <5> QED BY <2>2, <4>1, <5>1
      <4>3. Ordered("client", << >>, 0) => Ordered("client", << >>, 0)'
        BY <1>3, <1>5, <1>11, <3>1 DEF Ordered
      <4> QED BY <1>8, <2>2, <4>1, <4>2, <4>3, PeerFacts DEF OrderInv, ServerOrder
    <3>2. CASE x \in MessageWrites
      <4>1. u.type # "response"
        BY <1>2, <3>2
      <4>2. stream["client"] # << >> /\ Ordered("client", Tail(stream["client"]), 0) =>
              Ordered("client", Tail(stream["client"]), 0)'
        BY <1>7, <1>11, <2>2, <3>2 DEF Ordered
      <4>3. Ordered("client", stream["client"], ReadTo("server")) =>
              Ordered("client", stream["client"], ReadTo("server"))'
        <5> SUFFICES ASSUME Ordered("client", stream["client"], ReadTo("server"))
                     PROVE  Ordered("client", stream["client"], ReadTo("server"))'
          OBVIOUS
        <5>1. stream'["client"] = Append(stream["client"], u) /\ stream["client"] \in Seq(Unit)
          BY <1>4, <1>11
        <5>2. ReadTo("server")' = ReadTo("server")
          BY <1>8, PeerFacts
        <5>3. /\ InOrder(Append(stream["client"], u), ReadTo("server"))
              /\ LastOf(Append(stream["client"], u), ReadTo("server")) = WrittenTo("client")'
          BY <1>7, <1>11, <3>2, <5>1
        <5> QED BY <5>1, <5>2, <5>3 DEF Ordered
      <4> QED BY <1>8, <2>2, <4>1, <4>2, <4>3, PeerFacts DEF OrderInv, ServerOrder
    <3> QED BY <1>2, <3>1, <3>2 DEF Writes, MessageWrites
  <2> QED BY <1>6, <2>1, <2>3 DEF OrderInv
<1> QED BY <1>10, <1>11, PeerFacts

-----------------------------------------------------------------------------
(* A unit leaves the stream of the end p.                                  *)
LEMMA OrderStreamTail ==
  ASSUME ConnectionInv, OrderInv, NEW p \in Sides, stream[p] # << >>,
         stream' = [stream EXCEPT ![p] = Tail(@)],
         UNCHANGED <<sent, posted, m_qMessagesOut>>
  PROVE  /\ stream'[p] = Tail(stream[p]) /\ stream[p] \in Seq(Unit)
         /\ \A t \in Sides : t # p => stream'[t] = stream[t]
         /\ \A t \in Sides : SenderOrder(t)'
<1>1. /\ stream'[p] = Tail(stream[p]) /\ stream[p] \in Seq(Unit)
      /\ \A t \in Sides : t # p => stream'[t] = stream[t]
  BY DEF ConnectionInv, TypeOK
<1>2. \A i \in 1 .. Len(Tail(stream[p])) :
        i + 1 \in 1 .. Len(stream[p]) /\ Tail(stream[p])[i] = stream[p][i + 1]
  BY <1>1
<1>3. HeadersSent(p)'
  BY <1>1, <1>2 DEF OrderInv, SenderOrder, HeadersSent
<1>4. SenderOrder(p)'
  BY <1>3 DEF OrderInv, SenderOrder, Taken
<1> QED BY <1>1, <1>4, SenderKept DEF OrderInv

(* What the server makes of the answer.                                    *)
LEMMA OrderServerValidates ==
  ASSUME ConnectionInv, OrderInv, ServerValidates
  PROVE  OrderInv'
<1>1. /\ Receives("server", "validation") /\ reading["server"] = "validation"
      /\ stream["client"] # << >>
      /\ stream' = [stream EXCEPT !["client"] = Tail(@)]
      /\ UNCHANGED <<linked, output, m_msgTemporaryIn, delivered, network>>
  BY PeerFacts DEF ServerValidates, Receives
<1>2. UNCHANGED <<posted, m_qMessagesOut, writing, put, sent>>
  BY <1>1 DEF output
<1>3. /\ stream'["client"] = Tail(stream["client"]) /\ stream["client"] \in Seq(Unit)
      /\ stream'["server"] = stream["server"]
      /\ \A t \in Sides : SenderOrder(t)'
  BY <1>1, <1>2, OrderStreamTail, PeerFacts
<1>4. /\ handshake = "pending" /\ delivered["server"] = << >>
      /\ reading'["client"] = reading["client"]
      /\ reading'["server"] \in {"header", "none"} /\ handshake' # "pending"
      /\ \A t \in Sides : Live(t)' => Live(t)
  <2>1. handshake = "pending" /\ delivered["server"] = << >>
    BY <1>1 DEF ConnectionInv, Quiet
  <2>2. /\ open \in [Sides -> BOOLEAN]
        /\ reading \in [Sides -> Writes \union {"none"}]
    BY DEF ConnectionInv, TypeOK
  <2>3. /\ \/ reading' = [reading EXCEPT !["server"] = "header"]
           \/ reading' = [reading EXCEPT !["server"] = "none"]
        /\ handshake' # "pending"
    BY DEF ServerValidates, Read
  <2>4. /\ reading'["client"] = reading["client"]
        /\ reading'["server"] \in {"header", "none"}
    BY <2>2, <2>3, PeerFacts
  <2>5. open' = open \/ open' = [open EXCEPT !["server"] = FALSE]
    BY DEF ServerValidates, Shut
  <2>6. \A t \in Sides : Live(t)' => Live(t)
    BY <1>1, <2>2, <2>5 DEF Live
  <2> QED BY <2>1, <2>3, <2>4, <2>6
<1>5. /\ \A t \in Sides : WrittenTo(t)' = WrittenTo(t)
      /\ Writing("client", "validation")' <=> Writing("client", "validation")
  BY <1>2, OutKept, WrittenKept, PeerFacts
<1>6. ClientOrder'
  <2>1. (Unsolved' <=> Unsolved) /\ ReadTo("client")' = ReadTo("client")
    BY <1>1, <1>4 DEF Unsolved, ReadTo
  <2>2. ClientReads' <=> ClientReads
    BY <1>4, <1>5 DEF ClientReads, Reads
  <2>3. Ordered("server", stream["server"], ReadTo("client")) =>
          Ordered("server", stream["server"], ReadTo("client"))'
    BY <1>3, <1>4, <1>5, <2>1, PeerFacts DEF Ordered
  <2> QED BY <1>1, <1>5, <2>1, <2>2, <2>3, PeerFacts DEF OrderInv, ClientOrder
<1>7. Reads("server")' => Ordered("client", stream["client"], ReadTo("server"))'
  <2> SUFFICES ASSUME Reads("server")'
               PROVE  Ordered("client", stream["client"], ReadTo("server"))'
    OBVIOUS
  <2>1. Arrived("server") = Response
    BY PeerFacts DEF ServerValidates, Read, Reads, ConnectionInv, TypeOK
  <2>2. stream["client"][1].type = "response"
    BY <1>1, <1>3, <2>1, PeerFacts DEF Arrived, Response
  <2>3. Ordered("client", Tail(stream["client"]), 0)
    BY <1>1, <1>4, <2>2 DEF OrderInv, ServerOrder
  <2>4. ReadTo("server")' = 0
    BY <1>1, <1>4 DEF ReadTo
  <2> QED BY <1>3, <1>4, <1>5, <2>3, <2>4, PeerFacts DEF Ordered
<1>8. \A t \in Sides : ReaderOrder(t)'
  BY <1>1, <1>4, PeerFacts DEF OrderInv, ReaderOrder
<1> QED BY <1>3, <1>4, <1>6, <1>7, <1>8 DEF OrderInv, ServerOrder

(* A server that did not accept its client has nothing to write.           *)
LEMMA NothingWritten ==
  ASSUME ConnectionInv, OrderInv, handshake # "validated"
  PROVE  WrittenTo("server") = 0
<1> DEFINE q == posted["server"]
<1>1. /\ sent["server"] = << >> /\ q \in Functions
      /\ m_qMessagesOut["server"] \in Seq(Message)
  BY PeerFacts DEF ConnectionInv, Quiet, TypeOK, Functions
<1>2. Len(sent["server"]) = 0
  BY <1>1
<1>3. m_qMessagesOut["server"] = << >>
  <2>1. \A i \in 1 .. Len(m_qMessagesOut["server"]) : FALSE
    BY <1>2, PeerFacts DEF ConnectionInv, AllSent, QueueSent, IsSent
  <2>2. Len(m_qMessagesOut["server"]) > 0 => 1 \in 1 .. Len(m_qMessagesOut["server"])
    BY <1>1
  <2> QED BY <1>1, <2>1, <2>2
<1>4. \A i \in 1 .. Len(q) : q[i] = Close /\ ~Closes(q, i)
  <2>1. \A i \in 1 .. Len(q) : q[i] = Close
    BY <1>2, PeerFacts DEF ConnectionInv, AllSent, PostedSent, IsSent
  <2>2. InPlace(Len(sent["server"]), q)
    BY PeerFacts DEF OrderInv, SenderOrder
  <2> QED BY <2>1, <2>2 DEF InPlace
<1>5. Len(q) = 0 \/ Len(q) = 1
  <2>1. PICK k \in Nat : k = Len(q)
    BY <1>1 DEF Functions
  <2>2. ASSUME k > 1 PROVE FALSE
    <3>1. 1 \in 1 .. Len(q) /\ 2 \in 1 + 1 .. Len(q) /\ 2 \in 1 .. Len(q)
      BY <2>1, <2>2
    <3>2. Closes(q, 1)
      BY <1>4, <3>1 DEF Closes
    <3> QED BY <1>4, <3>1, <3>2
  <2>3. k = 0 \/ k = 1
    BY <2>2
  <2> QED BY <2>1, <2>3
<1>6. Taken("server") = 0
  <2>1. CASE Len(q) = 0
    BY <1>2, <2>1 DEF Taken, TakenOf, Later, Closes
  <2>2. CASE Len(q) = 1
    BY <1>2, <1>4, <2>2 DEF Taken, TakenOf, Later, Closes
  <2> QED BY <1>5, <2>1, <2>2
<1>7. ~HeaderOut("server")
  BY <1>3, PeerFacts DEF ConnectionInv, WritesOK, WriteOK, HeaderOut, Writing, MessageWrites
<1> QED BY <1>3, <1>6, <1>7 DEF WrittenTo

(* The client answers: nothing else of the server's has arrived.           *)
LEMMA OrderClientSolves ==
  ASSUME ConnectionInv, OrderInv, ClientSolves
  PROVE  OrderInv'
<1>1. /\ reading["client"] = "validation" /\ stream["server"] # << >>
      /\ stream' = [stream EXCEPT !["server"] = Tail(@)]
      /\ writing' = [writing EXCEPT !["client"] = Append(@, "validation")]
      /\ reading' = [reading EXCEPT !["client"] = "none"]
      /\ UNCHANGED <<open, linked, posted, m_qMessagesOut, put, m_msgTemporaryIn,
                     delivered, handshake, network, sent>>
  BY PeerFacts DEF ClientSolves, Receives, Read
<1>2. /\ stream'["server"] = Tail(stream["server"]) /\ stream'["client"] = stream["client"]
      /\ \A t \in Sides : SenderOrder(t)'
  BY <1>1, OrderStreamTail, PeerFacts
<1>3. /\ Unsolved /\ ~Writing("client", "validation") /\ handshake # "validated"
      /\ stream'["server"] = << >>
  <2>1. Unsolved
    BY <1>1 DEF Unsolved
  <2>2. ~Writing("client", "validation") /\ stream["server"] = <<Challenge>>
    BY <1>1, <2>1 DEF ConnectionInv, ClientOK
  <2>3. handshake # "validated"
    BY <2>1 DEF ConnectionInv, ServerOK, Unanswered
  <2> QED BY <1>2, <2>1, <2>2, <2>3
<1>4. /\ reading'["client"] = "none" /\ reading'["server"] = reading["server"]
      /\ writing'["client"] = Append(writing["client"], "validation")
      /\ writing'["server"] = writing["server"]
      /\ \A t \in Sides : Live(t)' <=> Live(t)
  BY <1>1, PeerFacts DEF ConnectionInv, TypeOK, Live
<1>5. HeaderOut("client")' <=> HeaderOut("client")
  <2>1. /\ OneOfEach(writing["client"]) /\ put["client"] \in 0 .. 2
        /\ put["client"] <= Len(writing["client"]) /\ "validation" \in Writes
        /\ \A w \in Writes : SameKind(w, "validation") =>
             /\ ~IsPut(writing["client"], put["client"], w)
             /\ ~IsLeft(writing["client"], put["client"], w)
    BY <1>3, PeerFacts
       DEF ConnectionInv, WritesOK, WriteOK, Writes, SameKind, Writing, Put, Left
  <2>2. \A w \in MessageWrites :
          /\ IsPut(Append(writing["client"], "validation"), put["client"], w)
               <=> IsPut(writing["client"], put["client"], w)
          /\ IsLeft(Append(writing["client"], "validation"), put["client"], w)
               <=> IsLeft(writing["client"], put["client"], w)
    BY <2>1, StartAnother DEF Writes, MessageWrites
  <2>3. put'["client"] = put["client"]
    BY <1>1
  <2> QED BY <1>4, <2>2, <2>3 DEF HeaderOut, Writing, Put, Left, MessageWrites
<1>6. \A t \in Sides : WrittenTo(t)' = WrittenTo(t)
  BY <1>1, <1>4, <1>5, OutKept, WrittenKept, PeerFacts
<1>7. ClientOrder'
  <2>1. delivered["client"] = << >> /\ ReadTo("client")' = 0
    <3>1. delivered["client"] = << >>
      BY <1>3 DEF OrderInv, ClientOrder
    <3>2. delivered'["client"] = << >> /\ reading'["client"] # "body"
      BY <1>1, <1>4, <3>1
    <3> QED BY <3>1, <3>2 DEF ReadTo
  <2>2. WrittenTo("server")' = 0
    BY <1>3, <1>6, NothingWritten, PeerFacts
  <2> QED BY <1>1, <1>3, <2>1, <2>2, OrderEmpty DEF ClientOrder, Ordered
<1>8. ServerOrder'
  <2>1. /\ Reads("server")' <=> Reads("server")
        /\ ReadTo("server")' = ReadTo("server")
    BY <1>1, <1>4 DEF Reads, ReadTo
  <2> QED BY <1>1, <1>2, <1>4, <1>6, <2>1, PeerFacts DEF OrderInv, ServerOrder, Ordered
<1>9. \A t \in Sides : ReaderOrder(t)'
  BY <1>1, <1>4, PeerFacts DEF OrderInv, ReaderOrder
<1> QED BY <1>2, <1>7, <1>8, <1>9 DEF OrderInv

(* An end reads the next unit of a message.                                *)
LEMMA OrderRead ==
  ASSUME ConnectionInv, OrderInv, NEW s \in Sides, NEW what \in {"header", "body"},
         Receives(s, what),
         UNCHANGED <<open, linked, output, handshake, network>>,
         \A t \in Sides : t # s =>
           /\ reading'[t] = reading[t] /\ delivered'[t] = delivered[t]
           /\ m_msgTemporaryIn'[t] = m_msgTemporaryIn[t],
         reading'[s] \in {"header", "body"},
         ReadTo(s)' = NumberOf(Arrived(s)),
         ReaderOrder(s)'
  PROVE  OrderInv'
<1> PICK p \in Sides : p = Peer(s)
  BY PeerFacts
<1> PICK u : u = Arrived(s)
  OBVIOUS
<1>1. /\ Reads(s) /\ Reads(s)' /\ stream[p] # << >>
      /\ stream' = [stream EXCEPT ![p] = Tail(@)]
      /\ UNCHANGED <<posted, m_qMessagesOut, writing, put, sent>>
  BY DEF Receives, Reads, output
<1>2. /\ stream'[p] = Tail(stream[p]) /\ stream[p] \in Seq(Unit) /\ u = Head(stream[p])
      /\ \A t \in Sides : t # p => stream'[t] = stream[t]
      /\ \A t \in Sides : SenderOrder(t)'
  BY <1>1, OrderStreamTail DEF Arrived
<1>3. /\ \A t \in Sides : WrittenTo(t)' = WrittenTo(t)
      /\ Writing("client", "validation")' <=> Writing("client", "validation")
      /\ \A t \in Sides : Live(t)' <=> Live(t)
  BY <1>1, OutKept, WrittenKept, PeerFacts DEF Live
<1>4. \A t \in Sides : ReaderOrder(t)'
  BY DEF OrderInv, ReaderOrder
<1>5. Ordered(p, stream[p], ReadTo(s)) => Ordered(p, stream[p], ReadTo(s))'
  <2> SUFFICES ASSUME Ordered(p, stream[p], ReadTo(s))
               PROVE  Ordered(p, stream[p], ReadTo(s))'
    OBVIOUS
  <2>1. InOrder(stream[p], ReadTo(s)) /\ (Live(p) => LastOf(stream[p], ReadTo(s)) = WrittenTo(p))
    BY DEF Ordered
  <2>2. /\ InOrder(Tail(stream[p]), NumberOf(u))
        /\ LastOf(Tail(stream[p]), NumberOf(u)) = LastOf(stream[p], ReadTo(s))
    BY <1>1, <1>2, <2>1, OrderTail
  <2>3. ReadTo(s)' = NumberOf(u)
    OBVIOUS
  <2> QED BY <1>2, <1>3, <2>1, <2>2, <2>3 DEF Ordered
<1>6. CASE s = "client"
  <2>1. p = "server"
    BY <1>6, PeerFacts
  <2>2. ~Unsolved /\ ~Unsolved' /\ ~Writing("client", "validation")
    BY <1>1, <1>6 DEF ConnectionInv, ClientOK, Unsolved, Reads
  <2>3. ClientOrder'
    BY <1>1, <1>3, <1>5, <1>6, <2>1, <2>2 DEF OrderInv, ClientOrder, ClientReads
  <2>4. ServerOrder'
    <3>1. /\ Reads("server")' <=> Reads("server")
          /\ ReadTo("server")' = ReadTo("server")
      BY <1>6, PeerFacts DEF Reads, ReadTo
    <3> QED BY <1>2, <1>3, <2>1, <3>1, PeerFacts DEF OrderInv, ServerOrder, Ordered
  <2> QED BY <1>2, <1>4, <2>3, <2>4 DEF OrderInv
<1>7. CASE s = "server"
  <2>1. p = "client"
    BY <1>7, PeerFacts
  <2>2. handshake = "validated"
    BY <1>1, <1>7 DEF ConnectionInv, Quiet
  <2>3. ServerOrder'
    BY <1>1, <1>5, <1>7, <2>1, <2>2 DEF OrderInv, ServerOrder
  <2>4. ClientOrder'
    <3>1. /\ Unsolved' <=> Unsolved
          /\ ReadTo("client")' = ReadTo("client")
          /\ delivered'["client"] = delivered["client"]
      BY <1>7, PeerFacts DEF Unsolved, ReadTo
    <3>2. ClientReads' <=> ClientReads
      BY <1>3, <1>7, PeerFacts DEF ClientReads, Reads
    <3> QED BY <1>2, <1>3, <2>1, <3>1, <3>2, PeerFacts DEF OrderInv, ClientOrder, Ordered
  <2> QED BY <1>2, <1>4, <2>3, <2>4 DEF OrderInv
<1> QED BY <1>6, <1>7, PeerFacts

(* What it reads is the next message's header, or that message's body.     *)
LEMMA NextArrives ==
  ASSUME ConnectionInv, OrderInv, NEW s \in Sides, NEW what \in {"header", "body"},
         Receives(s, what)
  PROVE  /\ what = "header" =>
              /\ Arrived(s).type = "header"
              /\ Arrived(s).id = Len(delivered[s]) + 1
              /\ IsHeaderOf(Arrived(s), sent[Peer(s)])
         /\ what = "body" =>
              /\ Arrived(s).type = "body"
              /\ m_msgTemporaryIn[s].id = Len(delivered[s]) + 1
              /\ Arrived(s).body = Len(delivered[s]) + 1
              /\ HasBody(Len(delivered[s]) + 1, sent[Peer(s)])
         /\ s = "server" => handshake = "validated"
<1> PICK p \in Sides : p = Peer(s)
  BY PeerFacts
<1>1. /\ reading[s] = what /\ Reads(s) /\ stream[p] # << >>
      /\ stream[p] \in Seq(Unit) /\ delivered[s] \in Seq(Message)
  BY DEF Receives, Reads, ConnectionInv, TypeOK
<1>2. Fits(Arrived(s), Wanted(s))
  BY UnitArrives
<1>3. s = "server" => handshake = "validated"
  BY <1>1 DEF ConnectionInv, Quiet
<1>4. CASE what = "header"
  <2>1. Arrived(s).type = "header" /\ ReadTo(s) = Len(delivered[s])
    BY <1>1, <1>2, <1>4 DEF Fits, Wanted, ReadTo
  <2>2. Ordered(p, stream[p], ReadTo(s))
    <3>1. CASE s = "server"
      BY <1>1, <3>1, PeerFacts DEF OrderInv, ServerOrder
    <3>2. CASE s = "client"
      BY <1>1, <3>2, PeerFacts DEF OrderInv, ClientOrder, ClientReads
    <3> QED BY <3>1, <3>2, PeerFacts
  <2>3. Arrived(s) = stream[p][1] /\ 1 \in 1 .. Len(stream[p])
    BY <1>1 DEF Arrived
  <2>4. NextOf(stream[p][1], ReadTo(s))
    BY <1>1, <2>2 DEF Ordered, InOrder
  <2>5. IsHeaderOf(stream[p][1], sent[p])
    BY <2>3 DEF OrderInv, SenderOrder, HeadersSent
  <2> QED BY <1>3, <1>4, <2>1, <2>3, <2>4, <2>5 DEF NextOf
<1>5. CASE what = "body"
  <2>1. m_msgTemporaryIn[s].id = Len(delivered[s]) + 1 /\ Len(delivered[s]) \in Nat
    BY <1>1, <1>5 DEF OrderInv, ReaderOrder
  <2>2. HasBody(m_msgTemporaryIn[s].id, sent[p])
    BY <1>1, <1>5 DEF ConnectionInv, AllSent, ReadSent
  <2>3. Wanted(s) = Len(delivered[s]) + 1 /\ Wanted(s) # NoBody
    BY <1>1, <1>5, <2>1 DEF Wanted, NoBody
  <2> QED BY <1>2, <1>3, <1>5, <2>1, <2>2, <2>3 DEF Fits
<1> QED BY <1>4, <1>5

(* Both ways in which a message is delivered.                              *)
LEMMA DeliveryIs ==
  ASSUME ConnectionInv, NEW s \in Sides,
         AddToIncomingMessageQueue(s),
         m_msgTemporaryIn' \in [Sides -> [id : 0 .. MaxSends, body : 0 .. MaxSends]]
  PROVE  /\ delivered' = [delivered EXCEPT ![s] = Append(@, m_msgTemporaryIn'[s])]
         /\ delivered'[s] = Append(delivered[s], m_msgTemporaryIn'[s])
         /\ delivered[s] \in Seq(Message) /\ Len(delivered'[s]) = Len(delivered[s]) + 1
         /\ reading'[s] = "header"
         /\ \A t \in Sides : t # s =>
              reading'[t] = reading[t] /\ delivered'[t] = delivered[t]
<1>1. /\ delivered' = [delivered EXCEPT ![s] = Append(@, m_msgTemporaryIn'[s])]
      /\ reading' = [reading EXCEPT ![s] = "header"]
  BY DEF AddToIncomingMessageQueue, Read
<1>2. /\ delivered'[s] = Append(delivered[s], m_msgTemporaryIn'[s])
      /\ delivered[s] \in Seq(Message)
      /\ \A t \in Sides : t # s =>
           reading'[t] = reading[t] /\ delivered'[t] = delivered[t]
      /\ reading'[s] = "header"
  BY <1>1 DEF ConnectionInv, TypeOK
<1>3. Len(delivered'[s]) = Len(delivered[s]) + 1
  BY <1>2
<1> QED BY <1>1, <1>2, <1>3

(* A header that is read is the next message's, and keeps the order.       *)
LEMMA OrderHeaderRead ==
  ASSUME ConnectionInv, ConnectionInv', OrderInv, NEW s \in Sides, HeaderRead(s)
  PROVE  OrderInv'
<1> PICK u : u = Arrived(s)
  OBVIOUS
<1>1. /\ Receives(s, "header") /\ reading[s] = "header"
      /\ m_msgTemporaryIn' = [m_msgTemporaryIn EXCEPT ![s].id = u.id]
      /\ UNCHANGED <<open, linked, output, handshake, network>>
  BY DEF HeaderRead, Receives
<1>2. /\ u.type = "header" /\ u.id = Len(delivered[s]) + 1 /\ NumberOf(u) = u.id
  BY <1>1, NextArrives DEF NumberOf
<1>3. /\ m_msgTemporaryIn' \in [Sides -> [id : 0 .. MaxSends, body : 0 .. MaxSends]]
      /\ m_msgTemporaryIn'[s].id = u.id
      /\ m_msgTemporaryIn'[s].body = m_msgTemporaryIn[s].body
      /\ \A t \in Sides : t # s => m_msgTemporaryIn'[t] = m_msgTemporaryIn[t]
      /\ m_msgTemporaryIn[s].body \in Nat /\ Len(delivered[s]) \in Nat
  <2>1. /\ m_msgTemporaryIn \in [Sides -> [id : 0 .. MaxSends, body : 0 .. MaxSends]]
        /\ m_msgTemporaryIn' \in [Sides -> [id : 0 .. MaxSends, body : 0 .. MaxSends]]
        /\ delivered[s] \in Seq(Message)
    BY DEF ConnectionInv, TypeOK
  <2>2. m_msgTemporaryIn[s] \in [id : 0 .. MaxSends, body : 0 .. MaxSends]
    BY <2>1
  <2>3. m_msgTemporaryIn'[s] = [m_msgTemporaryIn[s] EXCEPT !.id = u.id]
    BY <1>1, <2>1
  <2>4. \A t \in Sides : t # s => m_msgTemporaryIn'[t] = m_msgTemporaryIn[t]
    BY <1>1, <2>1
  <2> QED BY <2>1, <2>2, <2>3, <2>4
<1>4. m_msgTemporaryIn[s].body <= Len(delivered[s])
  BY DEF OrderInv, ReaderOrder
<1>5. CASE ~u.empty /\ Read(s, "body") /\ UNCHANGED delivered
  <2>1. /\ reading'[s] = "body" /\ \A t \in Sides : t # s => reading'[t] = reading[t]
    BY <1>5 DEF Read, ConnectionInv, TypeOK
  <2>2. ReadTo(s)' = NumberOf(u) /\ ReaderOrder(s)'
    BY <1>2, <1>3, <1>4, <1>5, <2>1 DEF ReadTo, ReaderOrder
  <2> QED BY <1>1, <1>3, <1>5, <2>1, <2>2, OrderRead
<1>6. CASE u.empty /\ AddToIncomingMessageQueue(s)
  <2>1. /\ Len(delivered'[s]) = Len(delivered[s]) + 1 /\ reading'[s] = "header"
        /\ \A t \in Sides : t # s =>
             reading'[t] = reading[t] /\ delivered'[t] = delivered[t]
    BY <1>3, <1>6, DeliveryIs
  <2>2. ReadTo(s)' = NumberOf(u) /\ ReaderOrder(s)'
    BY <1>2, <1>3, <1>4, <2>1 DEF ReadTo, ReaderOrder
  <2> QED BY <1>1, <1>3, <2>1, <2>2, OrderRead
<1> QED BY <1>5, <1>6 DEF HeaderRead

(* So does a body: the message it completes is delivered.                  *)
LEMMA OrderBodyRead ==
  ASSUME ConnectionInv, ConnectionInv', OrderInv, NEW s \in Sides, BodyRead(s)
  PROVE  OrderInv'
<1> PICK u : u = Arrived(s)
  OBVIOUS
<1>1. /\ Receives(s, "body") /\ reading[s] = "body"
      /\ m_msgTemporaryIn' = [m_msgTemporaryIn EXCEPT ![s].body = u.body]
      /\ AddToIncomingMessageQueue(s)
      /\ UNCHANGED <<open, linked, output, handshake, network>>
  BY DEF BodyRead, Receives
<1>2. u.type = "body" /\ u.body = Len(delivered[s]) + 1 /\ NumberOf(u) = u.body
  BY <1>1, NextArrives DEF NumberOf
<1>3. /\ m_msgTemporaryIn' \in [Sides -> [id : 0 .. MaxSends, body : 0 .. MaxSends]]
      /\ m_msgTemporaryIn'[s].body = u.body
      /\ \A t \in Sides : t # s => m_msgTemporaryIn'[t] = m_msgTemporaryIn[t]
      /\ Len(delivered[s]) \in Nat
  <2>1. /\ m_msgTemporaryIn \in [Sides -> [id : 0 .. MaxSends, body : 0 .. MaxSends]]
        /\ m_msgTemporaryIn' \in [Sides -> [id : 0 .. MaxSends, body : 0 .. MaxSends]]
        /\ delivered[s] \in Seq(Message)
    BY DEF ConnectionInv, TypeOK
  <2>2. m_msgTemporaryIn[s] \in [id : 0 .. MaxSends, body : 0 .. MaxSends]
    BY <2>1
  <2>3. m_msgTemporaryIn'[s] = [m_msgTemporaryIn[s] EXCEPT !.body = u.body]
    BY <1>1, <2>1
  <2>4. \A t \in Sides : t # s => m_msgTemporaryIn'[t] = m_msgTemporaryIn[t]
    BY <1>1, <2>1
  <2> QED BY <2>1, <2>2, <2>3, <2>4
<1>4. /\ Len(delivered'[s]) = Len(delivered[s]) + 1 /\ reading'[s] = "header"
      /\ \A t \in Sides : t # s =>
           reading'[t] = reading[t] /\ delivered'[t] = delivered[t]
  BY <1>1, <1>3, DeliveryIs
<1>5. ReadTo(s)' = NumberOf(u) /\ ReaderOrder(s)'
  BY <1>2, <1>3, <1>4 DEF ReadTo, ReaderOrder
<1> QED BY <1>1, <1>3, <1>4, <1>5, OrderRead

-----------------------------------------------------------------------------
(* At first nothing is sent.                                               *)
LEMMA OrderInit == Init => OrderInv
<1> SUFFICES ASSUME Init PROVE OrderInv
  OBVIOUS
<1>1. /\ \A s \in Sides : /\ Len(posted[s]) = 0 /\ Len(sent[s]) = 0
                           /\ Len(m_qMessagesOut[s]) = 0 /\ Len(stream[s]) = 0
                           /\ Len(delivered[s]) = 0 /\ delivered[s] = << >>
                           /\ reading[s] = "none" /\ stream[s] = << >>
                           /\ m_msgTemporaryIn[s].body = 0
                           /\ writing[s] = << >> /\ put[s] = 0
      /\ linked["client"] # "yes"
  BY PeerFacts DEF Init, NoBody
<1>2. ASSUME NEW s \in Sides
      PROVE  Taken(s) = 0 /\ ~HeaderOut(s) /\ ~Writing(s, "validation")
  <2>1. Taken(s) = 0
    <3>1. ~Closes(posted[s], 0)
      BY <1>1 DEF Closes
    <3> QED BY <1>1, <3>1 DEF Taken, TakenOf, Later
  <2>2. ASSUME NEW k PROVE ~Put(s, k) /\ ~Left(s, k)
    BY <1>1 DEF Put, Left, IsPut, IsLeft
  <2> QED BY <2>1, <2>2 DEF HeaderOut, Writing
<1>3. \A s \in Sides : WrittenTo(s) = 0 /\ ~Reads(s)
  BY <1>1, <1>2 DEF WrittenTo, Reads
<1>4. \A s \in Sides : SenderOrder(s) /\ ReaderOrder(s)
  <2> TAKE s \in Sides
  <2>1. InPlace(Len(sent[s]), posted[s])
    BY <1>1 DEF InPlace
  <2>2. Queued(Taken(s), m_qMessagesOut[s])
    BY <1>1 DEF Queued
  <2>3. HeadersSent(s)
    BY <1>1 DEF HeadersSent
  <2>4. ReaderOrder(s)
    BY <1>1 DEF ReaderOrder
  <2> QED BY <2>1, <2>2, <2>3, <2>4 DEF SenderOrder
<1> QED BY <1>1, <1>2, <1>3, <1>4, PeerFacts, OrderEmpty
        DEF OrderInv, ClientOrder, ServerOrder, ClientReads, Ordered

(* Every step keeps the order of messages.                                 *)
LEMMA OrderStep == ConnectionInv /\ ConnectionInv' /\ OrderInv /\ [Next]_vars => OrderInv'
<1> SUFFICES ASSUME ConnectionInv, ConnectionInv', OrderInv, [Next]_vars PROVE OrderInv'
  OBVIOUS
<1>1. CASE Break
  BY <1>1, OrderBreak
<1>2. CASE UNCHANGED vars
  BY <1>2, OrderStutter
<1>3. ASSUME NEW s \in Sides, User(s) PROVE OrderInv'
  BY <1>3, OrderSend, OrderDisconnect DEF User
<1>4. ASSUME NEW s \in Sides, Transmit(s) PROVE OrderInv'
  BY <1>4, OrderTransmit
<1>5. ASSUME NEW s \in Sides, Handler(s) PROVE OrderInv'
  BY <1>5, OrderConnectToClient, OrderServerValidates, OrderConnectToServer,
     OrderConnectFails, OrderClientSolves, OrderRunSend, OrderRunClose,
     OrderHeaderWritten, OrderBodyWritten, OrderValidationWritten, OrderWriteFails, OrderHeaderRead, OrderBodyRead, OrderReadFails
     DEF Handler, Connects, Completes, Fails
<1> QED BY <1>1, <1>2, <1>3, <1>4, <1>5 DEF Next

(* A message that is delivered is the next one of the peer, and whole.     *)
LEMMA DeliverySteps ==
  ASSUME ConnectionInv, ConnectionInv', OrderInv, NEW s \in Sides,
         HeaderRead(s) \/ BodyRead(s)
  PROVE  Abstract!Deliver(s) \/ UNCHANGED Abstract!vars
<1> PICK p \in Sides : p = Peer(s)
  BY PeerFacts
<1> PICK u : u = Arrived(s)
  OBVIOUS
<1> PICK n : n = Len(delivered[s]) + 1
  OBVIOUS
<1>0. Abstract!Peer(s) = p
  BY DEF Abstract!Peer, Abstract!Sides, Peer, Sides
<1>1. /\ sent' = sent /\ handshake' = handshake
      /\ m_msgTemporaryIn \in [Sides -> [id : 0 .. MaxSends, body : 0 .. MaxSends]]
      /\ m_msgTemporaryIn' \in [Sides -> [id : 0 .. MaxSends, body : 0 .. MaxSends]]
      /\ sent[p] \in Seq(Message) /\ Len(delivered[s]) \in Nat
      /\ m_msgTemporaryIn[s].body <= Len(delivered[s])
  <2>1. sent' = sent /\ handshake' = handshake
    BY DEF HeaderRead, BodyRead, output
  <2>2. /\ m_msgTemporaryIn \in [Sides -> [id : 0 .. MaxSends, body : 0 .. MaxSends]]
        /\ m_msgTemporaryIn' \in [Sides -> [id : 0 .. MaxSends, body : 0 .. MaxSends]]
    BY DEF ConnectionInv, TypeOK
  <2>3. sent[p] \in Seq(Message) /\ delivered[s] \in Seq(Message)
    BY DEF ConnectionInv, TypeOK
  <2>4. m_msgTemporaryIn[s].body <= Len(delivered[s])
    BY DEF OrderInv, ReaderOrder
  <2> QED BY <2>1, <2>2, <2>3, <2>4
<1>2. ASSUME NEW b \in 0 .. n, n \in 1 .. Len(sent[p]),
             sent[p][n].body # NoBody => b = sent[p][n].body,
             s = "server" => handshake = "validated",
             delivered' = [delivered EXCEPT ![s] = Append(@, [id |-> n, body |-> b])]
      PROVE  Abstract!Deliver(s)
  <2>1. s = "server" => (handshake = "validated")
    BY <1>2
  <2>2. (handshake = "validated")' = (handshake = "validated")
    BY <1>1
  <2>3. n <= Len(sent[p])
    BY <1>1, <1>2
  <2>4. \E c \in 0 .. n :
          /\ sent[p][n].body # 0 => c = sent[p][n].body
          /\ delivered' = [delivered EXCEPT ![s] = Append(@, [id |-> n, body |-> c])]
    BY <1>2 DEF NoBody
  <2>5. UNCHANGED <<sent, handshake = "validated">>
    BY <1>1, <2>2
  <2> QED BY ONLY <1>0, <2>1, <2>3, <2>4, <2>5, n = Len(delivered[s]) + 1
          DEF Abstract!Deliver, Abstract!NoBody
<1>3. CASE HeaderRead(s)
  <2>1. /\ Receives(s, "header")
        /\ m_msgTemporaryIn' = [m_msgTemporaryIn EXCEPT ![s].id = u.id]
    BY <1>3 DEF HeaderRead
  <2>2. /\ u.type = "header" /\ u.id = n /\ IsHeaderOf(u, sent[p])
        /\ s = "server" => handshake = "validated"
    BY <2>1, NextArrives
  <2>3. CASE UNCHANGED delivered
    BY <1>1, <2>3 DEF Abstract!vars
  <2>4. CASE u.empty /\ AddToIncomingMessageQueue(s)
    <3>1. n \in 1 .. Len(sent[p]) /\ sent[p][n].body = NoBody
      BY <2>2, <2>4 DEF IsHeaderOf
    <3>2. PICK b : b = m_msgTemporaryIn[s].body
      OBVIOUS
    <3>3. m_msgTemporaryIn'[s] = [id |-> n, body |-> b] /\ b \in 0 .. n
      <4>1. m_msgTemporaryIn[s] \in [id : 0 .. MaxSends, body : 0 .. MaxSends]
        BY <1>1
      <4>2. m_msgTemporaryIn'[s] = [m_msgTemporaryIn[s] EXCEPT !.id = n]
        BY <1>1, <2>1, <2>2
      <4>3. m_msgTemporaryIn'[s] = [id |-> n, body |-> b]
        BY <3>2, <4>1, <4>2
      <4>4. b \in 0 .. MaxSends
        BY <3>2, <4>1
      <4>5. b <= Len(delivered[s])
        BY <1>1, <3>2
      <4>6. b \in 0 .. n
        BY ONLY <1>1, <4>4, <4>5, n = Len(delivered[s]) + 1, ConnectionAssumption
      <4> QED BY <4>3, <4>6
    <3>4. delivered' = [delivered EXCEPT ![s] = Append(@, [id |-> n, body |-> b])]
      BY <1>1, <2>4, <3>3, DeliveryIs
    <3> QED BY <1>2, <2>2, <3>1, <3>3, <3>4
  <2> QED BY <1>3, <2>3, <2>4 DEF HeaderRead
<1>4. CASE BodyRead(s)
  <2>1. /\ Receives(s, "body") /\ AddToIncomingMessageQueue(s)
        /\ m_msgTemporaryIn' = [m_msgTemporaryIn EXCEPT ![s].body = u.body]
    BY <1>4 DEF BodyRead
  <2>2. /\ m_msgTemporaryIn[s].id = n /\ u.body = n /\ HasBody(n, sent[p])
        /\ s = "server" => handshake = "validated"
    BY <2>1, NextArrives
  <2>3. n \in 1 .. Len(sent[p]) /\ sent[p][n].body = n /\ n \in 0 .. n
    BY <1>1, <2>2 DEF HasBody
  <2>4. m_msgTemporaryIn'[s] = [id |-> n, body |-> n]
    <3>1. m_msgTemporaryIn[s] \in [id : 0 .. MaxSends, body : 0 .. MaxSends]
      BY <1>1
    <3>2. m_msgTemporaryIn'[s] = [m_msgTemporaryIn[s] EXCEPT !.body = n]
      BY <1>1, <2>1, <2>2
    <3> QED BY <2>2, <3>1, <3>2
  <2>5. delivered' = [delivered EXCEPT ![s] = Append(@, [id |-> n, body |-> n])]
    BY <1>1, <2>1, <2>4, DeliveryIs
  <2> QED BY <1>2, <2>2, <2>3, <2>5
<1> QED BY <1>3, <1>4

(* Every step of the connection is one of the link, or none.               *)
LEMMA LinkStep ==
  ASSUME ConnectionInv, ConnectionInv', OrderInv, [Next]_vars
  PROVE  [Abstract!Next]_(Abstract!vars)
<1>0. Abstract!Sides = Sides
  BY DEF Abstract!Sides, Sides
<1>1. CASE Break
  BY <1>1 DEF Break, output, input, Abstract!vars
<1>2. CASE UNCHANGED vars
  BY <1>2 DEF vars, Abstract!vars
<1>3. ASSUME NEW s \in Sides, User(s) PROVE [Abstract!Next]_(Abstract!vars)
  <2>1. CASE Disconnect(s)
    BY <2>1 DEF Disconnect, input, Abstract!vars
  <2>2. ASSUME NEW empty \in BOOLEAN, Send(s, empty)
        PROVE  Abstract!Send(s, empty)
    BY <2>2 DEF Send, Abstract!Send, input, Abstract!NoBody, NoBody
  <2> QED BY <1>0, <1>3, <2>1, <2>2 DEF User, Abstract!Next
<1>4. ASSUME NEW s \in Sides, Transmit(s) PROVE [Abstract!Next]_(Abstract!vars)
  BY <1>4 DEF Transmit, input, Abstract!vars
<1>5. ASSUME ServerValidates PROVE [Abstract!Next]_(Abstract!vars)
  <2>1. /\ sent' = sent /\ delivered' = delivered
        /\ handshake' = "validated" \/ handshake' = "rejected"
    BY <1>5 DEF ServerValidates, output
  <2>2. handshake = "pending"
    BY <1>5 DEF ServerValidates, Receives, ConnectionInv, Quiet
  <2>3. CASE handshake' = "validated"
    BY <2>1, <2>2, <2>3 DEF Abstract!Accept, Abstract!Next
  <2>4. CASE handshake' = "rejected"
    BY <2>1, <2>2, <2>4 DEF Abstract!vars
  <2> QED BY <2>1, <2>3, <2>4
<1>6. ASSUME NEW s \in Sides, HeaderRead(s) \/ BodyRead(s)
      PROVE  [Abstract!Next]_(Abstract!vars)
  BY <1>0, <1>6, DeliverySteps DEF Abstract!Next
<1>7. ASSUME NEW s \in Sides, Handler(s) PROVE [Abstract!Next]_(Abstract!vars)
  <2>1. ASSUME \/ ConnectToClient \/ ConnectToServer \/ ClientSolves
               \/ RunSend(s) \/ RunClose(s) \/ ReadFails(s)
               \/ ConnectFails \/ HeaderWritten(s) \/ BodyWritten(s)
               \/ ValidationWritten(s) \/ WriteFails(s)
        PROVE  UNCHANGED <<sent, delivered, handshake>>
    BY <2>1 DEF ConnectToClient, ConnectToServer, ConnectFails, ClientSolves, RunSend,
                RunClose, ReadFails, HeaderWritten, BodyWritten, ValidationWritten, WriteFails,
                output, input
  <2> QED BY <1>5, <1>6, <1>7, <2>1 DEF Handler, Connects, Completes, Fails, Abstract!vars
<1> QED BY <1>1, <1>2, <1>3, <1>4, <1>7 DEF Next

(* Connection implements Link: messages reach each end in the order they   *)
(* were sent, each once and with its own body if it has one, and the       *)
(* server gets none before it accepted the client, for any number of       *)
(* messages.                                                               *)
THEOREM RefinesLink == Spec => ImplementsLink
<1>1. Init => Abstract!Init
  BY DEF Init, Abstract!Init, Abstract!Sides, Sides
<1>2. Init => OrderInv
  BY OrderInit
<1>3. ConnectionInv /\ ConnectionInv' /\ OrderInv /\ [Next]_vars => OrderInv'
  BY OrderStep
<1>4. ConnectionInv /\ ConnectionInv' /\ OrderInv /\ [Next]_vars
        => [Abstract!Next]_(Abstract!vars)
  BY LinkStep
<1> QED BY <1>1, <1>2, <1>3, <1>4, Inductive, PTL DEF Spec, ImplementsLink, Abstract!Spec

-----------------------------------------------------------------------------
(* What the link promises, said of the two histories: what an end was      *)
(* given is the beginning of what the other end sent, message by message,  *)
(* and a message that was sent with a body was given with that body.       *)
BeginsLike(d, q) ==
  /\ Len(d) <= Len(q)
  /\ \A i \in 1 .. Len(d) :
       d[i].id = q[i].id /\ (q[i].body # NoBody => d[i].body = q[i].body)
DeliveredInOrder == \A s \in Sides : BeginsLike(delivered[s], sent[Peer(s)])

(* What was given stays the beginning when more is sent.                   *)
LEMMA MoreSent ==
  ASSUME NEW d \in Seq(Message), NEW q \in Seq(Message), NEW m, BeginsLike(d, q)
  PROVE  BeginsLike(d, Append(q, m))
<1>1. /\ Len(d) \in Nat /\ Len(q) \in Nat /\ Len(d) <= Len(q)
      /\ Len(Append(q, m)) = Len(q) + 1
      /\ \A i \in 1 .. Len(q) : Append(q, m)[i] = q[i]
  BY DEF BeginsLike
<1>2. \A i \in 1 .. Len(d) : i \in 1 .. Len(q)
  BY <1>1
<1> HIDE DEF Message
<1> QED BY <1>1, <1>2 DEF BeginsLike

(* And with the next message, if it comes with its body.                   *)
LEMMA NextGiven ==
  ASSUME NEW d \in Seq(Message), NEW q \in Seq(Message), NEW n, n = Len(d) + 1,
         BeginsLike(d, q), n <= Len(q), NEW m, m.id = q[n].id,
         q[n].body # NoBody => m.body = q[n].body
  PROVE  BeginsLike(Append(d, m), q)
<1>1. /\ Len(d) \in Nat /\ Len(q) \in Nat /\ Len(Append(d, m)) = n
      /\ Append(d, m)[n] = m
      /\ \A i \in 1 .. Len(d) : Append(d, m)[i] = d[i]
  OBVIOUS
<1>2. \A i \in 1 .. n : i \in 1 .. Len(d) \/ i = n
  BY <1>1
<1> QED BY <1>1, <1>2 DEF BeginsLike

(* A step of the link keeps it, where messages are numbered as sent.       *)
LEMMA GivenStep ==
  ASSUME ConnectionInv, DeliveredInOrder, [Abstract!Next]_(Abstract!vars)
  PROVE  DeliveredInOrder'
<1>0. /\ Abstract!Sides = Sides
      /\ \A s \in Sides : Abstract!Peer(s) = Peer(s) /\ Peer(s) \in Sides
      /\ Abstract!NoBody = NoBody
  BY PeerFacts DEF Abstract!Sides, Sides, Abstract!Peer, Peer, Abstract!NoBody, NoBody
<1>1. /\ sent \in [Sides -> Seq(Message)] /\ delivered \in [Sides -> Seq(Message)]
      /\ \A s \in Sides : Numbered(sent[s])
  BY DEF ConnectionInv, TypeOK, AllSent
<1>2. ASSUME NEW s \in Sides, NEW empty \in BOOLEAN, Abstract!Send(s, empty)
      PROVE  DeliveredInOrder'
  <2>1. PICK m : sent' = [sent EXCEPT ![s] = Append(@, m)]
    BY <1>2 DEF Abstract!Send
  <2>2. delivered' = delivered
    BY <1>2 DEF Abstract!Send
  <2>3. ASSUME NEW t \in Sides PROVE BeginsLike(delivered'[t], sent'[Peer(t)])
    <3>1. /\ delivered[t] \in Seq(Message) /\ sent[Peer(t)] \in Seq(Message)
          /\ BeginsLike(delivered[t], sent[Peer(t)])
      BY <1>0, <1>1 DEF DeliveredInOrder
    <3>2. CASE Peer(t) = s
      <4>1. sent'[Peer(t)] = Append(sent[Peer(t)], m)
        BY <1>1, <2>1, <3>2
      <4> QED BY <2>2, <3>1, <4>1, MoreSent
    <3>3. CASE Peer(t) # s
      BY <1>0, <1>1, <2>1, <2>2, <3>1, <3>3
    <3> QED BY <3>2, <3>3
  <2> QED BY <2>3 DEF DeliveredInOrder
<1>3. ASSUME NEW s \in Sides, Abstract!Deliver(s) PROVE DeliveredInOrder'
  <2> PICK q, n : q = sent[Peer(s)] /\ n = Len(delivered[s]) + 1
    OBVIOUS
  <2>1. /\ n <= Len(q) /\ sent' = sent
        /\ \E b \in 0 .. n :
             /\ q[n].body # NoBody => b = q[n].body
             /\ delivered' = [delivered EXCEPT ![s] = Append(@, [id |-> n, body |-> b])]
    BY <1>0, <1>3 DEF Abstract!Deliver
  <2>2. PICK b \in 0 .. n :
          /\ q[n].body # NoBody => b = q[n].body
          /\ delivered' = [delivered EXCEPT ![s] = Append(@, [id |-> n, body |-> b])]
    BY <2>1
  <2>3. PICK m : m = [id |-> n, body |-> b]
    OBVIOUS
  <2>4. /\ delivered[s] \in Seq(Message) /\ q \in Seq(Message)
        /\ BeginsLike(delivered[s], q) /\ Numbered(q)
    BY <1>0, <1>1 DEF DeliveredInOrder
  <2>5. m.id = q[n].id /\ (q[n].body # NoBody => m.body = q[n].body)
    <3>1. n \in 1 .. Len(q)
      <4>1. Len(delivered[s]) \in Nat /\ Len(q) \in Nat
        BY <2>4
      <4> QED BY <2>1, <4>1
    <3> QED BY <2>2, <2>3, <2>4, <3>1 DEF Numbered
  <2>6. BeginsLike(Append(delivered[s], m), q)
    BY <2>1, <2>4, <2>5, NextGiven
  <2>7. /\ delivered'[s] = Append(delivered[s], m)
        /\ \A t \in Sides : t # s => delivered'[t] = delivered[t]
    BY <1>1, <2>2, <2>3
  <2> QED BY <2>1, <2>6, <2>7 DEF DeliveredInOrder
<1>4. CASE Abstract!Accept
  BY <1>4 DEF Abstract!Accept, DeliveredInOrder
<1>5. CASE UNCHANGED Abstract!vars
  BY <1>5 DEF Abstract!vars, DeliveredInOrder
<1> QED BY <1>0, <1>2, <1>3, <1>4, <1>5 DEF Abstract!Next

(* However often either end fails, closes or has nothing more to read, the *)
(* user of an end has seen the first messages of the other's, in order,    *)
(* none missing in between and none twice, with their own bodies.          *)
THEOREM DeliversInOrder == Spec => []DeliveredInOrder
<1>1. Init => DeliveredInOrder
  BY PeerFacts DEF Init, DeliveredInOrder, BeginsLike
<1>2. ConnectionInv /\ DeliveredInOrder /\ [Abstract!Next]_(Abstract!vars)
        => DeliveredInOrder'
  BY GivenStep
<1> QED BY <1>1, <1>2, Inductive, RefinesLink, PTL
        DEF Spec, ImplementsLink, Abstract!Spec

-----------------------------------------------------------------------------
(* A client that sends nothing before its answer to the challenge was      *)
(* written: until the server has looked at it, that answer comes first.    *)
AnswerFirst ==
  IF stream["client"] = << >>
  THEN /\ sent["client"] = << >> /\ ~Reads("client")
       /\ ~Put("client", "validation")
  ELSE stream["client"][1] = Response
PatientInv ==
  /\ handshake # "rejected"
  /\ network # "up" => stream["client"] = << >>
  /\ handshake = "pending" /\ network = "up" => AnswerFirst

(* Steps that leave the client's units on the wire alone: there is an      *)
(* answer among them, or none is put there and nothing sent.               *)
LEMMA AnswerKept ==
  ASSUME PatientInv, handshake' = handshake, network' = network,
         stream'["client"] = stream["client"],
         stream["client"] = << >> /\ AnswerFirst =>
           /\ sent'["client"] = sent["client"]
           /\ Reads("client")' => Reads("client")
           /\ Put("client", "validation")' => Put("client", "validation")
  PROVE  PatientInv'
<1>1. CASE handshake = "pending" /\ network = "up"
  BY <1>1 DEF PatientInv, AnswerFirst
<1>2. CASE ~(handshake = "pending" /\ network = "up")
  BY <1>2 DEF PatientInv
<1> QED BY <1>1, <1>2

(* A client that sent nothing has no message to write.                     *)
LEMMA NothingSent ==
  ASSUME ConnectionInv, sent["client"] = << >>
  PROVE  /\ m_qMessagesOut["client"] = << >>
         /\ ~Writing("client", "header") /\ ~Writing("client", "body")
<1>1. "client" \in Sides
  BY DEF Sides
<1>2. m_qMessagesOut["client"] \in Seq(Message)
  BY <1>1 DEF ConnectionInv, TypeOK
<1>3. \A i \in 1 .. Len(m_qMessagesOut["client"]) : FALSE
  BY <1>1 DEF ConnectionInv, AllSent, QueueSent, IsSent
<1>4. m_qMessagesOut["client"] = << >>
  BY <1>2, <1>3
<1> QED BY <1>1, <1>4 DEF ConnectionInv, WritesOK, WriteOK, MessageWrites

(* The client's next unit goes out.                                        *)
LEMMA AnswerPut ==
  ASSUME ConnectionInv, PatientInv, Transmit("client")
  PROVE  PatientInv'
<1> PICK st, ws, n, u :
      /\ st = stream["client"] /\ ws = writing["client"] /\ n = put["client"]
      /\ u = Buffer("client", ws[n + 1])
  OBVIOUS
<1>1. /\ "client" \in Sides /\ st \in Seq(Unit) /\ OneOfEach(ws) /\ n \in 0 .. 2
  BY DEF Sides, ConnectionInv, TypeOK, WritesOK, WriteOK
<1>2. /\ network = "up" /\ n < Len(ws) /\ network' = network /\ handshake' = handshake
      /\ stream'["client"] = Append(st, u)
  BY <1>1 DEF Transmit, input, ConnectionInv, TypeOK
<1>3. Append(st, u) # << >> /\ (st # << >> => Append(st, u)[1] = st[1])
  <2>1. Len(Append(st, u)) = Len(st) + 1 /\ Len(st) \in Nat
    BY ONLY <1>1
  <2>2. Append(st, u) # << >>
    BY ONLY <1>1, <2>1
  <2>3. st # << >> => 1 \in 1 .. Len(st)
    BY ONLY <1>1
  <2>4. \A i \in 1 .. Len(st) : Append(st, u)[i] = st[i]
    BY ONLY <1>1
  <2> QED BY ONLY <2>2, <2>3, <2>4
<1>4. ASSUME handshake = "pending", st = << >> PROVE u = Response
  <2>1. sent["client"] = << >>
    BY <1>2, <1>4 DEF PatientInv, AnswerFirst
  <2>2. IsLeft(ws, n, ws[n + 1]) /\ ws[n + 1] \in Writes
    <3>1. n <= Len(ws)
      BY <1>1, <1>2 DEF OneOfEach
    <3> QED BY <1>1, <1>2, <3>1, PutNext
  <2>3. ws[n + 1] = "validation"
    BY <2>1, <2>2, NothingSent DEF Writing, Left, Writes
  <2> QED BY <2>3 DEF Buffer
<1>5. st = << >> => Append(st, u)[1] = u
  OBVIOUS
<1>6. handshake = "pending" => stream'["client"][1] = Response
  BY <1>2, <1>3, <1>4, <1>5 DEF PatientInv, AnswerFirst
<1> QED BY <1>2, <1>3, <1>6 DEF PatientInv, AnswerFirst

(* The server looks at the first unit, which is the answer.                *)
LEMMA AnswerAccepted ==
  ASSUME ConnectionInv, PatientInv, ServerValidates
  PROVE  PatientInv'
<1>1. Peer("server") = "client"
  BY PeerFacts
<1>2. /\ stream["client"] # << >> /\ reading["server"] = "validation"
  BY <1>1 DEF ServerValidates, Receives
<1>3. handshake = "pending" /\ network = "up"
  BY <1>2 DEF ConnectionInv, Quiet, PatientInv
<1>4. Arrived("server") = stream["client"][1]
  BY <1>1 DEF Arrived
<1>5. handshake' = "validated" /\ network' = network
  BY <1>2, <1>3, <1>4 DEF ServerValidates, PatientInv, AnswerFirst
<1> QED BY <1>3, <1>5 DEF PatientInv

(* The server reads messages only after it accepted the client.            *)
LEMMA AnswerPast ==
  ASSUME ConnectionInv, PatientInv, HeaderRead("server") \/ BodyRead("server")
  PROVE  PatientInv'
<1>1. Peer("server") = "client"
  BY PeerFacts
<1>2. /\ stream["client"] # << >> /\ Reads("server")
      /\ handshake' = handshake /\ network' = network
  BY <1>1 DEF HeaderRead, BodyRead, Receives, Reads
<1>3. handshake = "validated" /\ network = "up"
  BY <1>2 DEF ConnectionInv, Quiet, PatientInv
<1> QED BY <1>2, <1>3 DEF PatientInv

(* A write that starts behind those in progress is not on the wire.        *)
LEMMA StartedNotPut ==
  ASSUME ConnectionInv, NEW x, writing'["client"] = Append(writing["client"], x),
         put'["client"] = put["client"]
  PROVE  Put("client", "validation")' => Put("client", "validation")
<1> PICK ws, n : ws = writing["client"] /\ n = put["client"]
  OBVIOUS
<1>1. ws \in Seq(Writes) /\ n \in 0 .. 2 /\ n <= Len(ws)
  BY DEF Sides, ConnectionInv, WritesOK, WriteOK, OneOfEach
<1>2. \A i \in 1 .. Len(ws) : Append(ws, x)[i] = ws[i]
  BY <1>1
<1>3. IsPut(Append(ws, x), n, "validation") => IsPut(ws, n, "validation")
  BY <1>1, <1>2 DEF IsPut
<1> QED BY <1>3 DEF Put

(* A handler of a write of the client runs.                                *)
LEMMA AnswerWritten ==
  ASSUME ConnectionInv, PatientInv,
         \/ HeaderWritten("client") \/ BodyWritten("client")
         \/ ValidationWritten("client") \/ WriteFails("client")
  PROVE  PatientInv'
<1>1. /\ "client" \in Sides /\ OneOfEach(writing["client"])
      /\ writing["client"] \in Seq(Writes) /\ put["client"] \in 0 .. 2
  BY DEF Sides, ConnectionInv, WritesOK, WriteOK, OneOfEach
<1>2. CASE WriteFails("client")
  <2>1. /\ UNCHANGED <<handshake, network, stream, sent, reading>>
        /\ put'["client"] = 0
    BY <1>2 DEF WriteFails, input
  <2>2. ~Put("client", "validation")'
    BY <2>1 DEF Put, IsPut
  <2> QED BY <2>1, <2>2, AnswerKept DEF Reads
<1>3. ASSUME NEW w \in Writes, Ended("client", w)
      PROVE  Put("client", w)
  BY <1>1, <1>3 DEF Ended, Put, IsPut
<1>4. CASE ValidationWritten("client")
  <2>1. Put("client", "validation")
    BY <1>3, <1>4 DEF ValidationWritten, Writes
  <2>2. UNCHANGED <<handshake, network, stream>>
    BY <1>4 DEF ValidationWritten
  <2> QED BY <2>1, <2>2, AnswerKept DEF AnswerFirst
<1>5. CASE HeaderWritten("client") \/ BodyWritten("client")
  <2>1. Put("client", "header") \/ Put("client", "body")
    BY <1>3, <1>5 DEF HeaderWritten, BodyWritten, Writes
  <2>2. UNCHANGED <<handshake, network, stream>>
    BY <1>5 DEF HeaderWritten, BodyWritten, input
  <2>3. sent["client"] # << >>
    BY <2>1, NothingSent DEF Writing
  <2> QED BY <2>2, <2>3, AnswerKept DEF AnswerFirst
<1> QED BY <1>2, <1>4, <1>5

(* Every step of a connection with such a client.                          *)
LEMMA PatientStep ==
  ASSUME Patient, ConnectionInv, PatientInv, [Next]_vars
  PROVE  PatientInv'
<1>0. /\ Sides = {"server", "client"} /\ Peer("server") = "client"
      /\ Peer("client") = "server"
  BY PeerFacts
<1>t. /\ writing \in [Sides -> Seq(Writes)] /\ put \in [Sides -> 0 .. 2]
      /\ stream \in [Sides -> Seq(Unit)] /\ sent \in [Sides -> Seq(Message)]
      /\ reading \in [Sides -> Writes \union {"none"}]
  BY DEF ConnectionInv, TypeOK
<1>1. CASE Break
  BY <1>0, <1>1 DEF Break, input, PatientInv
<1>2. CASE UNCHANGED vars
  BY <1>2, AnswerKept DEF vars, Reads, Put
<1>3. ASSUME NEW s \in Sides, Disconnect(s) PROVE PatientInv'
  BY <1>3, AnswerKept DEF Disconnect, input, Reads, Put
<1>4. ASSUME NEW s \in Sides, NEW empty \in BOOLEAN, Send(s, empty)
      PROVE  PatientInv'
  <2>1. UNCHANGED <<writing, put, stream, reading, handshake, network>>
    BY <1>4 DEF Send, input
  <2>2. CASE s = "client"
    <3>1. Reads("client")
      BY <1>4, <2>2 DEF Send, MaySend, Reads
    <3> QED BY <2>1, <3>1, AnswerKept DEF AnswerFirst
  <2>3. CASE s # "client"
    <3>1. sent'["client"] = sent["client"]
      BY <1>0, <1>t, <1>4, <2>3 DEF Send
    <3> QED BY <2>1, <3>1, AnswerKept DEF Reads, Put
  <2> QED BY <2>2, <2>3
<1>5. ASSUME NEW s \in Sides, Transmit(s) PROVE PatientInv'
  <2>1. CASE s = "client"
    BY <1>5, <2>1, AnswerPut
  <2>2. CASE s # "client"
    <3>1. /\ UNCHANGED <<handshake, network, sent, reading, writing>>
          /\ stream'["client"] = stream["client"] /\ put'["client"] = put["client"]
      BY <1>0, <1>t, <1>5, <2>2 DEF Transmit, input
    <3> QED BY <3>1, AnswerKept DEF Reads, Put
  <2> QED BY <2>1, <2>2
<1>6. CASE ConnectToClient
  <2>1. /\ UNCHANGED <<handshake, network, sent, stream, put>>
        /\ writing'["client"] = writing["client"]
        /\ reading'["client"] = reading["client"]
    BY <1>0, <1>t, <1>6 DEF ConnectToClient, Read
  <2> QED BY <2>1, AnswerKept DEF Reads, Put
<1>7. CASE ConnectToServer
  <2>1. /\ UNCHANGED <<handshake, network, sent, stream, put, writing>>
        /\ reading'["client"] = "validation"
    BY <1>0, <1>t, <1>7 DEF ConnectToServer, Read, output
  <2> QED BY <2>1, AnswerKept DEF Reads, Put
<1>15. CASE ConnectFails
  BY <1>15, AnswerKept DEF ConnectFails, input, output, Reads, Put
<1>8. CASE ClientSolves
  <2>1. /\ UNCHANGED <<handshake, network, sent, put>>
        /\ writing'["client"] = Append(writing["client"], "validation")
        /\ reading'["client"] = "none"
        /\ stream'["client"] = stream["client"]
    BY <1>0, <1>t, <1>8 DEF ClientSolves, Receives, Read
  <2>2. Put("client", "validation")' => Put("client", "validation")
    BY <2>1, StartedNotPut
  <2> QED BY <2>1, <2>2, AnswerKept DEF Reads
<1>9. ASSUME NEW s \in Sides, RunSend(s) PROVE PatientInv'
  <2>1. UNCHANGED <<handshake, network, sent, put, reading, stream>>
    BY <1>9 DEF RunSend, input
  <2>2. \/ writing'["client"] = writing["client"]
        \/ writing'["client"] = Append(writing["client"], "header")
    BY <1>0, <1>t, <1>9 DEF RunSend
  <2>3. Put("client", "validation")' => Put("client", "validation")
    BY <2>1, <2>2, StartedNotPut DEF Put
  <2> QED BY <2>1, <2>3, AnswerKept DEF Reads
<1>10. ASSUME NEW s \in Sides, RunClose(s) PROVE PatientInv'
  BY <1>10, AnswerKept DEF RunClose, input, Reads, Put
<1>11. ASSUME NEW s \in Sides, s # "client",
              \/ HeaderWritten(s) \/ BodyWritten(s)
              \/ ValidationWritten(s) \/ WriteFails(s)
       PROVE  PatientInv'
  <2>1. /\ UNCHANGED <<handshake, network, sent, stream, reading>>
        /\ writing'["client"] = writing["client"] /\ put'["client"] = put["client"]
    BY <1>0, <1>t, <1>11
       DEF HeaderWritten, BodyWritten, ValidationWritten, WriteFails,
           FinishMessage, Start, input
  <2> QED BY <2>1, AnswerKept DEF Reads, Put
<1>12. ASSUME NEW s \in Sides, ReadFails(s) PROVE PatientInv'
  <2>1. /\ UNCHANGED <<handshake, network, sent, stream, writing, put>>
        /\ reading'["client"] \in {reading["client"], "none"}
    BY <1>0, <1>t, <1>12 DEF ReadFails, Read, output
  <2> QED BY <2>1, AnswerKept DEF Reads, Put
<1>13. CASE HeaderRead("client") \/ BodyRead("client")
  <2>1. /\ UNCHANGED <<handshake, network, sent, writing, put>>
        /\ Reads("client") /\ stream'["client"] = stream["client"]
    BY <1>0, <1>t, <1>13 DEF HeaderRead, BodyRead, Receives, Reads, output
  <2> QED BY <2>1, AnswerKept DEF AnswerFirst
<1>14. ASSUME NEW s \in Sides, Handler(s) PROVE PatientInv'
  BY <1>0, <1>6, <1>7, <1>8, <1>9, <1>10, <1>11, <1>12, <1>13, <1>14, <1>15,
     AnswerWritten, AnswerAccepted, AnswerPast DEF Handler, Connects, Completes, Fails
<1> QED BY <1>1, <1>2, <1>3, <1>4, <1>5, <1>14 DEF Next, User

(* The reach of the disagreement that the run conn_early shows: a client   *)
(* that waits until its answer is written before it sends is never turned  *)
(* away, whatever the network and both users do.                           *)
THEOREM PatientNotRejected ==
  ASSUME Patient
  PROVE  Spec => []RejectedIfWrong
<1>1. Init => PatientInv
  BY DEF Init, PatientInv, AnswerFirst, Sides, Reads, Put, IsPut
<1>2. ConnectionInv /\ PatientInv /\ [Next]_vars => PatientInv'
  BY PatientStep
<1>3. PatientInv => RejectedIfWrong
  BY DEF PatientInv, RejectedIfWrong
<1> QED BY <1>1, <1>2, <1>3, Inductive, PTL DEF Spec

-----------------------------------------------------------------------------
(* What a message that was sent without a body is given with: the body of  *)
(* the message before it, if there is one, which may itself be carried     *)
(* over from the one before that.                                          *)
BodyBefore(d, i) == IF i = 1 THEN NoBody ELSE d[i - 1].body
BodiesOf(d, q) ==
  \A i \in 1 .. Len(d) :
    d[i].body = IF q[i].body = NoBody THEN BodyBefore(d, i) ELSE q[i].body
BodiesCarryOver == \A s \in Sides : BodiesOf(delivered[s], sent[Peer(s)])

(* m_msgTemporaryIn has the body that is carried over.                     *)
LastBody(d) == IF d = << >> THEN NoBody ELSE d[Len(d)].body
CarryInv ==
  /\ BodiesCarryOver
  /\ \A s \in Sides : m_msgTemporaryIn[s].body = LastBody(delivered[s])

(* What is sent later has no part in it.                                   *)
LEMMA CarryMore ==
  ASSUME NEW d \in Seq(Message), NEW q \in Seq(Message), NEW m,
         Len(d) <= Len(q), BodiesOf(d, q)
  PROVE  BodiesOf(d, Append(q, m))
<1>1. /\ Len(d) \in Nat /\ Len(q) \in Nat
      /\ \A i \in 1 .. Len(q) : Append(q, m)[i] = q[i]
  OBVIOUS
<1>2. \A i \in 1 .. Len(d) : Append(q, m)[i] = q[i]
  BY <1>1
<1> QED BY <1>2 DEF BodiesOf

(* The next message, with the body that it has or the last one.            *)
LEMMA CarryNext ==
  ASSUME NEW d \in Seq(Message), NEW q \in Seq(Message), NEW n, n = Len(d) + 1,
         BodiesOf(d, q), NEW m,
         m.body = IF q[n].body = NoBody THEN LastBody(d) ELSE q[n].body
  PROVE  BodiesOf(Append(d, m), q) /\ LastBody(Append(d, m)) = m.body
<1> PICK e : e = Append(d, m)
  OBVIOUS
<1>1. /\ Len(d) \in Nat /\ Len(e) = n /\ e[n] = m /\ n \in Nat \ {0}
      /\ \A i \in 1 .. Len(d) : e[i] = d[i]
  OBVIOUS
<1>2. e # << >>
  BY <1>1
<1>3. BodyBefore(e, n) = LastBody(d)
  <2>1. CASE d = << >>
    BY <2>1 DEF BodyBefore, LastBody
  <2>2. CASE d # << >>
    <3>1. n # 1 /\ n - 1 \in 1 .. Len(d) /\ n - 1 = Len(d)
      BY <2>2
    <3> QED BY <1>1, <2>2, <3>1 DEF BodyBefore, LastBody
  <2> QED BY <2>1, <2>2
<1>4. ASSUME NEW i \in 1 .. Len(d) PROVE BodyBefore(e, i) = BodyBefore(d, i)
  <2>1. i = 1 \/ i - 1 \in 1 .. Len(d)
    BY <1>1
  <2> QED BY <1>1, <2>1 DEF BodyBefore
<1>5. ASSUME NEW i \in 1 .. n
      PROVE  e[i].body = IF q[i].body = NoBody THEN BodyBefore(e, i) ELSE q[i].body
  <2>1. i \in 1 .. Len(d) \/ i = n
    BY <1>1
  <2>2. CASE i \in 1 .. Len(d)
    BY <1>1, <1>4, <2>2 DEF BodiesOf
  <2>3. CASE i = n
    BY <1>1, <1>3, <2>3
  <2> QED BY <2>1, <2>2, <2>3
<1> QED BY <1>1, <1>2, <1>5 DEF BodiesOf, LastBody

(* Steps that neither send nor deliver.                                    *)
LEMMA CarryKept ==
  ASSUME CarryInv, sent' = sent, delivered' = delivered,
         \A s \in Sides : m_msgTemporaryIn'[s].body = m_msgTemporaryIn[s].body
  PROVE  CarryInv'
BY DEF CarryInv, BodiesCarryOver

(* A message is delivered.                                                 *)
LEMMA CarryDelivery ==
  ASSUME ConnectionInv, ConnectionInv', CarryInv, NEW s \in Sides, sent' = sent,
         AddToIncomingMessageQueue(s),
         \A t \in Sides : t # s => m_msgTemporaryIn'[t] = m_msgTemporaryIn[t],
         NEW n, n = Len(delivered[s]) + 1,
         LET body == sent[Peer(s)][n].body
         IN  m_msgTemporaryIn'[s].body =
               IF body = NoBody THEN m_msgTemporaryIn[s].body ELSE body
  PROVE  CarryInv'
<1> PICK d, q, m : /\ d = delivered[s] /\ q = sent[Peer(s)]
                   /\ m = m_msgTemporaryIn'[s]
  OBVIOUS
<1>1. /\ d \in Seq(Message) /\ q \in Seq(Message) /\ BodiesOf(d, q)
      /\ m_msgTemporaryIn[s].body = LastBody(d)
  BY PeerFacts DEF ConnectionInv, TypeOK, CarryInv, BodiesCarryOver
<1>2. /\ delivered'[s] = Append(d, m)
      /\ \A t \in Sides : t # s => delivered'[t] = delivered[t]
  <2>1. m_msgTemporaryIn' \in [Sides -> [id : 0 .. MaxSends, body : 0 .. MaxSends]]
    BY DEF ConnectionInv, TypeOK
  <2> QED BY <2>1, DeliveryIs
<1>3. BodiesOf(Append(d, m), q) /\ LastBody(Append(d, m)) = m.body
  <2>1. n = Len(d) + 1
    OBVIOUS
  <2>2. m.body = IF q[n].body = NoBody THEN LastBody(d) ELSE q[n].body
    BY <1>1
  <2> QED BY ONLY <1>1, <2>1, <2>2, CarryNext
<1>4. ASSUME NEW t \in Sides
      PROVE  /\ BodiesOf(delivered'[t], sent'[Peer(t)])
             /\ m_msgTemporaryIn'[t].body = LastBody(delivered'[t])
  <2>1. CASE t = s
    BY <1>2, <1>3, <2>1
  <2>2. CASE t # s
    BY <1>2, <2>2 DEF CarryInv, BodiesCarryOver
  <2> QED BY <2>1, <2>2
<1> QED BY <1>4 DEF CarryInv, BodiesCarryOver

(* A message is sent.                                                      *)
LEMMA CarrySend ==
  ASSUME ConnectionInv, DeliveredInOrder, CarryInv,
         NEW s \in Sides, NEW empty, Send(s, empty)
  PROVE  CarryInv'
<1>1. PICK m : sent' = [sent EXCEPT ![s] = Append(@, m)]
  BY DEF Send
<1>2. delivered' = delivered /\ m_msgTemporaryIn' = m_msgTemporaryIn
  BY DEF Send, input
<1>3. ASSUME NEW t \in Sides PROVE BodiesOf(delivered'[t], sent'[Peer(t)])
  <2>1. /\ delivered[t] \in Seq(Message) /\ sent[Peer(t)] \in Seq(Message)
        /\ Len(delivered[t]) <= Len(sent[Peer(t)])
        /\ BodiesOf(delivered[t], sent[Peer(t)])
    BY PeerFacts DEF ConnectionInv, TypeOK, DeliveredInOrder, BeginsLike,
                     CarryInv, BodiesCarryOver
  <2>2. BodiesOf(delivered[t], Append(sent[Peer(t)], m))
    BY <2>1, CarryMore
  <2>3. sent'[Peer(t)] \in {sent[Peer(t)], Append(sent[Peer(t)], m)}
    BY <1>1, PeerFacts DEF ConnectionInv, TypeOK
  <2> QED BY <1>2, <2>1, <2>2, <2>3
<1> QED BY <1>2, <1>3 DEF CarryInv, BodiesCarryOver

(* A header or a body is read.                                             *)
LEMMA CarryRead ==
  ASSUME ConnectionInv, ConnectionInv', OrderInv, CarryInv, NEW s \in Sides,
         HeaderRead(s) \/ BodyRead(s)
  PROVE  CarryInv'
<1> PICK n, u, p : /\ n = Len(delivered[s]) + 1 /\ u = Arrived(s) /\ p = Peer(s)
  OBVIOUS
<1>1. /\ m_msgTemporaryIn \in [Sides -> [id : 0 .. MaxSends, body : 0 .. MaxSends]]
      /\ sent' = sent /\ Len(delivered[s]) \in Nat
  <2>1. sent' = sent
    BY DEF HeaderRead, BodyRead, output
  <2> QED BY <2>1 DEF ConnectionInv, TypeOK
<1>2. CASE HeaderRead(s)
  <2>1. /\ Receives(s, "header")
        /\ m_msgTemporaryIn' = [m_msgTemporaryIn EXCEPT ![s].id = u.id]
    BY <1>2 DEF HeaderRead
  <2>2. u.type = "header" /\ u.id = n /\ IsHeaderOf(u, sent[p])
    BY <2>1, NextArrives
  <2>3. \A t \in Sides : /\ m_msgTemporaryIn'[t].body = m_msgTemporaryIn[t].body
                         /\ t # s => m_msgTemporaryIn'[t] = m_msgTemporaryIn[t]
    BY <1>1, <2>1
  <2>4. CASE UNCHANGED delivered
    BY <1>1, <2>3, <2>4, CarryKept
  <2>5. CASE u.empty /\ AddToIncomingMessageQueue(s)
    <3>1. sent[p][n].body = NoBody
      BY <2>2, <2>5 DEF IsHeaderOf
    <3> QED BY <1>1, <2>3, <2>5, <3>1, CarryDelivery
  <2> QED BY <1>2, <2>4, <2>5 DEF HeaderRead
<1>3. CASE BodyRead(s)
  <2>1. /\ Receives(s, "body") /\ AddToIncomingMessageQueue(s)
        /\ m_msgTemporaryIn' = [m_msgTemporaryIn EXCEPT ![s].body = u.body]
    BY <1>3 DEF BodyRead
  <2>2. u.body = n /\ HasBody(n, sent[p])
    BY <2>1, NextArrives
  <2>3. sent[p][n].body = n /\ n # NoBody
    BY <1>1, <2>2 DEF HasBody, NoBody
  <2>4. /\ m_msgTemporaryIn'[s].body = u.body
        /\ \A t \in Sides : t # s => m_msgTemporaryIn'[t] = m_msgTemporaryIn[t]
    BY <1>1, <2>1
  <2> QED BY <1>1, <2>1, <2>2, <2>3, <2>4, CarryDelivery
<1> QED BY <1>2, <1>3

(* Every step.                                                             *)
LEMMA CarryStep ==
  ASSUME ConnectionInv, ConnectionInv', OrderInv, DeliveredInOrder, CarryInv,
         [Next]_vars
  PROVE  CarryInv'
<1>1. CASE Break
  BY <1>1, CarryKept DEF Break, output, input
<1>2. CASE UNCHANGED vars
  BY <1>2, CarryKept DEF vars
<1>3. ASSUME NEW s \in Sides, User(s) PROVE CarryInv'
  <2>1. CASE Disconnect(s)
    BY <2>1, CarryKept DEF Disconnect, input
  <2>2. ASSUME NEW empty \in BOOLEAN, Send(s, empty) PROVE CarryInv'
    BY <2>2, CarrySend
  <2> QED BY <1>3, <2>1, <2>2 DEF User
<1>4. ASSUME NEW s \in Sides, Transmit(s) PROVE CarryInv'
  BY <1>4, CarryKept DEF Transmit, input
<1>5. ASSUME NEW s \in Sides, Handler(s) PROVE CarryInv'
  <2>1. ASSUME \/ ConnectToClient \/ ConnectToServer \/ ServerValidates
               \/ ClientSolves \/ RunSend(s) \/ RunClose(s) \/ ReadFails(s)
               \/ ConnectFails \/ HeaderWritten(s) \/ BodyWritten(s)
               \/ ValidationWritten(s) \/ WriteFails(s)
        PROVE  UNCHANGED <<sent, delivered, m_msgTemporaryIn>>
    BY <2>1 DEF ConnectToClient, ConnectToServer, ConnectFails, ServerValidates,
                ClientSolves, RunSend, RunClose, ReadFails, HeaderWritten, BodyWritten,
                ValidationWritten, WriteFails, output, input
  <2> QED BY <1>5, <2>1, CarryKept, CarryRead DEF Handler, Connects, Completes, Fails
<1> QED BY <1>1, <1>2, <1>3, <1>4, <1>5 DEF Next

(* The reach of the disagreement that the run conn_stale shows: a message  *)
(* without a body has the body of the message before it, and no other; one *)
(* with a body has its own.                                                *)
THEOREM BodiesFromBefore == Spec => []BodiesCarryOver
<1>1. Init => OrderInv
  BY OrderInit
<1>2. ConnectionInv /\ ConnectionInv' /\ OrderInv /\ [Next]_vars => OrderInv'
  BY OrderStep
<1>3. Init => CarryInv
  BY PeerFacts DEF Init, CarryInv, BodiesCarryOver, BodiesOf, LastBody
<1>4. /\ ConnectionInv /\ ConnectionInv' /\ OrderInv /\ DeliveredInOrder /\ CarryInv
      /\ [Next]_vars
      => CarryInv'
  BY CarryStep
<1>5. CarryInv => BodiesCarryOver
  BY DEF CarryInv
<1> QED BY <1>1, <1>2, <1>3, <1>4, <1>5, Inductive, DeliversInOrder, PTL DEF Spec

=============================================================================
