--------------------------- MODULE MsgCodecProofs ---------------------------
(***************************************************************************)
(* Proofs of the safety properties of MsgCodec, for any objects, strings,  *)
(* infos and texts.                                                        *)
(*                                                                         *)
(* The parser is a recursive function of the place in the text.  That it   *)
(* satisfies its equation, and what holds of it at every place, follow     *)
(* from the least place where it would not.                                *)
(***************************************************************************)
EXTENDS MsgCodec, TLAPS, FiniteSetTheorems, WellFoundedInduction

-----------------------------------------------------------------------------
(* A set of numbers that has a number has a least one.                     *)
LEMMA LeastNumber ==
  ASSUME NEW S, S \subseteq Nat, S # {}
  PROVE  \E i \in S : \A j \in S : i <= j
<1>1. \E i \in S : \A j \in S : ~(<<j, i>> \in OpToRel(<, Nat))
  BY NatLessThanWellFounded, WFMin, Zenon
<1>2. ASSUME NEW i \in S, NEW j \in S, ~(<<j, i>> \in OpToRel(<, Nat))
      PROVE  i <= j
  BY <1>2 DEF OpToRel
<1> QED BY <1>1, <1>2

(* Induction: numbers from 0 to n of which each is in S if those before    *)
(* it are.                                                                 *)
LEMMA UpTo ==
  ASSUME NEW n \in Nat, NEW S, 0 \in S,
         \A i \in 1 .. n : i - 1 \in S => i \in S
  PROVE  0 .. n \subseteq S
<1> DEFINE T == {i \in 0 .. n : i \notin S}
<1> SUFFICES ASSUME T # {} PROVE FALSE
  OBVIOUS
<1>1. PICK i \in T : \A j \in T : i <= j
  <2>1. T \subseteq Nat /\ T # {}
    OBVIOUS
  <2> HIDE DEF T
  <2> QED BY <2>1, LeastNumber
<1>2. i \in 1 .. n /\ i - 1 \notin T
  BY <1>1
<1> QED BY <1>1, <1>2

(* The parser's states are the function that the definition describes.     *)
LEMMA ParserRuns ==
  ASSUME NEW known, NEW start, NEW text, Len(text) \in Nat
  PROVE  Parsers(known, start, text) =
           [i \in 0 .. Len(text) |->
              IF i = 0 THEN start
              ELSE ParseUnit(known, Parsers(known, start, text)[i - 1], text[i])]
<1> DEFINE Run(n, r) == r = [i \in 0 .. n |->
                               IF i = 0 THEN start
                               ELSE ParseUnit(known, r[i - 1], text[i])]
           S == {n \in Nat : \E r : Run(n, r)}
<1>1. 0 \in S
  <2>1. Run(0, [i \in 0 .. 0 |-> start])
    OBVIOUS
  <2> QED BY <2>1
<1>2. ASSUME NEW n \in 1 .. Len(text), n - 1 \in S PROVE n \in S
  <2>1. PICK r : Run(n - 1, r)
    BY <1>2
  <2>2. PICK last : last = ParseUnit(known, r[n - 1], text[n])
    OBVIOUS
  <2> DEFINE longer == [i \in 0 .. n |-> IF i = n THEN last ELSE r[i]]
  <2>3. ASSUME NEW i \in 0 .. n
        PROVE  longer[i] = IF i = 0 THEN start
                           ELSE ParseUnit(known, longer[i - 1], text[i])
    <3>1. CASE i = n
      <4>1. longer[n] = last /\ longer[n - 1] = r[n - 1]
        OBVIOUS
      <4> QED BY <2>2, <3>1, <4>1
    <3>2. CASE i \in 0 .. n - 1
      <4>1. longer[i] = r[i] /\ (i # 0 => longer[i - 1] = r[i - 1])
        BY <3>2
      <4>2. r[i] = IF i = 0 THEN start ELSE ParseUnit(known, r[i - 1], text[i])
        BY <2>1, <3>2
      <4> QED BY <4>1, <4>2
    <3> QED BY <3>1, <3>2
  <2>4. Run(n, longer)
    BY <2>3
  <2> HIDE DEF Run, longer
  <2> QED BY <2>4
<1>3. Len(text) \in S
  <2> HIDE DEF S
  <2>1. 0 .. Len(text) \subseteq S
    BY <1>1, <1>2, UpTo
  <2> QED BY <2>1
<1>4. \E r : Run(Len(text), r)
  BY <1>3
<1>5. Parsers(known, start, text) = CHOOSE r : Run(Len(text), r)
  BY DEF Parsers
<1> QED BY <1>4, <1>5

(* What holds at the start and is kept by each unit holds at the end; at   *)
(* the place i the parser is in good[i].                                   *)
LEMMA ParserStays ==
  ASSUME NEW known, NEW start, NEW text, Len(text) \in Nat,
         NEW good, start \in good[0],
         \A i \in 1 .. Len(text) : \A p \in good[i - 1] :
           ParseUnit(known, p, text[i]) \in good[i]
  PROVE  /\ \A i \in 0 .. Len(text) : Parsers(known, start, text)[i] \in good[i]
         /\ Parsed(known, start, text) \in good[Len(text)]
<1> DEFINE run == Parsers(known, start, text)
           S == {i \in 0 .. Len(text) : run[i] \in good[i]}
<1>1. run[0] = start
  BY ParserRuns
<1>2. ASSUME NEW i \in 1 .. Len(text)
      PROVE  run[i] = ParseUnit(known, run[i - 1], text[i])
  BY ParserRuns
<1> HIDE DEF run
<1>3. 0 \in S
  BY <1>1
<1>4. ASSUME NEW i \in 1 .. Len(text), i - 1 \in S PROVE i \in S
  BY <1>2, <1>4
<1>5. 0 .. Len(text) \subseteq S
  <2> HIDE DEF S
  <2> QED BY <1>3, <1>4, UpTo
<1> QED BY <1>5 DEF Parsed, run

-----------------------------------------------------------------------------
(* The states of the parser, and units that name no field of the message.  *)
Known == {RequestFields, RespondFields}
AnyField == RequestFields \union RespondFields \union {"other"}
ParserState(known) ==
  [fields : [known -> Values], unknown : Seq(Unit),
   at : AnyField \union {"none", "failed"}]
NoTags(known, text) ==
  \A i \in 1 .. Len(text) : IsTag(text[i]) => text[i].tag \notin known

(* A unit is a tag or a value, which may be cut off.                       *)
LEMMA UnitFacts ==
  ASSUME NEW u \in Unit
  PROVE  \/ IsTag(u) /\ u = Tag(u.tag) /\ u.tag \in AnyField
         \/ ~IsTag(u) /\ u.value \in Values
<1>1. CASE u \in [tag : AnyField]
  BY <1>1 DEF IsTag, Tag
<1>2. CASE u \in [value : Values]
  BY <1>2 DEF IsTag
<1>3. CASE u \in [value : Values, cut : {TRUE}]
  BY <1>3 DEF IsTag
<1> QED BY <1>1, <1>2, <1>3 DEF Unit, AnyField

(* A tag is told from a value, and each has what it was made of.           *)
LEMMA TagFacts ==
  /\ \A f \in AnyField : Tag(f) \in Unit /\ IsTag(Tag(f)) /\ Tag(f).tag = f
  /\ \A v \in Values : /\ Value(v) \in Unit /\ ~IsTag(Value(v)) /\ ~IsCut(Value(v))
                       /\ Value(v).value = v
<1>1. \A f \in AnyField : Tag(f) \in Unit /\ IsTag(Tag(f)) /\ Tag(f).tag = f
  BY DEF Unit, IsTag, Tag, AnyField
<1>2. \A v \in Values : /\ Value(v) \in Unit /\ ~IsTag(Value(v)) /\ ~IsCut(Value(v))
                       /\ Value(v).value = v
  BY DEF Unit, IsTag, IsCut, Value
<1> QED BY <1>1, <1>2

(* No field has the name of a state of the parser.                         *)
LEMMA FieldFacts ==
  ASSUME NEW known \in Known
  PROVE  known \subseteq AnyField /\ "none" \notin AnyField /\ "failed" \notin AnyField
BY DEF Known, AnyField, RequestFields, RespondFields

(* What one unit does to the parser: it sets the field that was awaited,   *)
(* or keeps the value as unknown, or neither.                              *)
Takes(known, p, u, q) ==
  /\ q \in ParserState(known)
  /\ \/ q.fields = p.fields
     \/ /\ p.at \in known /\ ~IsTag(u)
        /\ q.fields = [p.fields EXCEPT ![p.at] = u.value]
  /\ \/ q.unknown = p.unknown
     \/ /\ p.at \in AnyField \ known /\ ~IsTag(u)
        /\ q.unknown = p.unknown \o <<Tag(p.at), Value(u.value)>>
  /\ q.at \in {"none", "failed"} \/ (IsTag(u) /\ q.at = u.tag)

(* Every unit does one of these, whatever the state of the parser.         *)
LEMMA UnitStep ==
  ASSUME NEW known \in Known, NEW p \in ParserState(known), NEW u \in Unit
  PROVE  Takes(known, p, u, ParseUnit(known, p, u))
<1> DEFINE q == ParseUnit(known, p, u)
<1> SUFFICES Takes(known, p, u, q)
  OBVIOUS
<1>1. /\ p.fields \in [known -> Values] /\ p.unknown \in Seq(Unit)
      /\ p.at \in AnyField \union {"none", "failed"}
      /\ p = [fields |-> p.fields, unknown |-> p.unknown, at |-> p.at]
  BY DEF ParserState
<1> known \subseteq AnyField /\ "none" \notin known /\ "failed" \notin known
  BY FieldFacts
<1>2. CASE p.at = "failed"
  <2>1. q = p
    BY <1>2 DEF ParseUnit
  <2> HIDE DEF q
  <2> QED BY <1>1, <1>2, <2>1 DEF Takes
<1>3. CASE p.at = "none"
  <2>1. q = [p EXCEPT !.at = IF IsTag(u) THEN u.tag ELSE "failed"]
    BY <1>3 DEF ParseUnit
  <2> HIDE DEF q
  <2>2. /\ q.fields = p.fields /\ q.unknown = p.unknown
        /\ q.at = (IF IsTag(u) THEN u.tag ELSE "failed")
        /\ q = [fields |-> q.fields, unknown |-> q.unknown, at |-> q.at]
    BY <1>1, <2>1
  <2>3. q.at \in AnyField \union {"failed"}
    BY <2>2, UnitFacts
  <2>4. q \in ParserState(known)
    BY <1>1, <2>2, <2>3 DEF ParserState
  <2> QED BY <2>2, <2>4 DEF Takes
<1>4. CASE p.at \in known /\ ~IsTag(u)
  <2>1. p.at # "failed" /\ p.at # "none"
    BY <1>4, FieldFacts
  <2> PICK next \in {"none", "failed"} : next = IF IsCut(u) THEN "failed" ELSE "none"
    OBVIOUS
  <2>2. q = [p EXCEPT !.fields[p.at] = u.value, !.at = next]
    BY <1>4, <2>1 DEF ParseUnit
  <2> HIDE DEF q
  <2>3. /\ q.fields = [p.fields EXCEPT ![p.at] = u.value] /\ q.unknown = p.unknown
        /\ q.at = next
        /\ q = [fields |-> q.fields, unknown |-> q.unknown, at |-> q.at]
    BY <1>1, <2>2
  <2>4. u.value \in Values
    BY <1>4, UnitFacts
  <2>5. [p.fields EXCEPT ![p.at] = u.value] \in [known -> Values]
    BY <1>1, <2>4
  <2>6. q \in ParserState(known)
    BY <1>1, <2>3, <2>5 DEF ParserState
  <2> QED BY <1>4, <2>3, <2>6 DEF Takes
<1>5. CASE p.at \in AnyField \ known /\ ~IsTag(u)
  <2>1. p.at # "failed" /\ p.at # "none"
    BY <1>5, FieldFacts
  <2> PICK next \in {"none", "failed"} : next = IF IsCut(u) THEN "failed" ELSE "none"
    OBVIOUS
  <2>2. q = [p EXCEPT !.unknown = @ \o <<Tag(p.at), Value(u.value)>>, !.at = next]
    BY <1>5, <2>1 DEF ParseUnit
  <2> HIDE DEF q
  <2>3. /\ q.fields = p.fields /\ q.unknown = p.unknown \o <<Tag(p.at), Value(u.value)>>
        /\ q.at = next
        /\ q = [fields |-> q.fields, unknown |-> q.unknown, at |-> q.at]
    BY <1>1, <2>2
  <2>4. Tag(p.at) \in Unit /\ Value(u.value) \in Unit
    BY <1>5, UnitFacts, TagFacts
  <2>5. p.unknown \o <<Tag(p.at), Value(u.value)>> \in Seq(Unit)
    BY <1>1, <2>4
  <2>6. q \in ParserState(known)
    BY <1>1, <2>3, <2>5 DEF ParserState
  <2> QED BY <1>5, <2>3, <2>6 DEF Takes
<1>6. CASE p.at \in AnyField /\ IsTag(u)
  <2>1. p.at # "failed" /\ p.at # "none"
    BY <1>6, FieldFacts
  <2>2. q = [p EXCEPT !.at = "failed"]
    BY <1>6, <2>1 DEF ParseUnit
  <2> HIDE DEF q
  <2>3. /\ q.fields = p.fields /\ q.unknown = p.unknown /\ q.at = "failed"
        /\ q = [fields |-> q.fields, unknown |-> q.unknown, at |-> q.at]
    BY <1>1, <2>2
  <2>4. q \in ParserState(known)
    BY <1>1, <2>3 DEF ParserState
  <2> QED BY <2>3, <2>4 DEF Takes
<1> QED BY <1>1, <1>2, <1>3, <1>4, <1>5, <1>6

(* Of a text the parser makes a message, which knows what it should.       *)
LEMMA ParsedTypes ==
  ASSUME NEW known \in Known, NEW start \in ParserState(known),
         NoTags(known, start.unknown), NEW text \in Seq(Unit)
  PROVE  /\ Parsed(known, start, text) \in ParserState(known)
         /\ NoTags(known, Parsed(known, start, text).unknown)
<1> DEFINE Good == {p \in ParserState(known) : NoTags(known, p.unknown)}
           good == [i \in 0 .. Len(text) |-> Good]
<1>1. Len(text) \in Nat /\ \A i \in 1 .. Len(text) : text[i] \in Unit
  OBVIOUS
<1>2. ASSUME NEW p \in Good, NEW u \in Unit PROVE ParseUnit(known, p, u) \in Good
  <2> p \in ParserState(known) /\ NoTags(known, p.unknown)
    BY <1>2
  <2> HIDE DEF Good, good
  <2> PICK q : q = ParseUnit(known, p, u)
    OBVIOUS
  <2> Takes(known, p, u, q)
    BY UnitStep
  <2>1. q \in ParserState(known)
    BY DEF Takes
  <2>2. ASSUME q.unknown = p.unknown PROVE NoTags(known, q.unknown)
    BY <2>2
  <2>3. ASSUME p.at \in AnyField \ known, ~IsTag(u),
               q.unknown = p.unknown \o <<Tag(p.at), Value(u.value)>>
        PROVE  NoTags(known, q.unknown)
    <3>1. p.unknown \in Seq(Unit) /\ Tag(p.at) \in Unit
      BY <2>3, TagFacts DEF ParserState
    <3> PICK v \in Unit : v = Value(u.value) /\ ~IsTag(v)
      BY <2>3, UnitFacts, TagFacts
    <3>2. /\ \A i \in 1 .. Len(p.unknown) : q.unknown[i] = p.unknown[i]
          /\ q.unknown[Len(p.unknown) + 1] = Tag(p.at)
          /\ q.unknown[Len(p.unknown) + 2] = v
          /\ Len(q.unknown) = Len(p.unknown) + 2 /\ Len(p.unknown) \in Nat
      BY <2>3, <3>1
    <3>3. ASSUME NEW i \in 1 .. Len(q.unknown), IsTag(q.unknown[i])
          PROVE  q.unknown[i].tag \notin known
      <4>1. CASE i \in 1 .. Len(p.unknown)
        BY <3>2, <3>3, <4>1 DEF NoTags
      <4>2. CASE i = Len(p.unknown) + 1
        BY <2>3, <3>2, <4>2, TagFacts
      <4>3. CASE i = Len(p.unknown) + 2
        BY <2>3, <3>2, <3>3, <4>3
      <4> QED BY <3>2, <4>1, <4>2, <4>3
    <3> QED BY <3>3 DEF NoTags
  <2>4. \/ q.unknown = p.unknown
        \/ /\ p.at \in AnyField \ known /\ ~IsTag(u)
           /\ q.unknown = p.unknown \o <<Tag(p.at), Value(u.value)>>
    BY DEF Takes
  <2>5. NoTags(known, q.unknown)
    BY <2>2, <2>3, <2>4
  <2> QED BY <2>1, <2>5 DEF Good
<1>3. start \in good[0]
  BY <1>1
<1>4. /\ \A i \in 1 .. Len(text) : good[i - 1] = Good /\ good[i] = Good
      /\ good[Len(text)] = Good
  BY <1>1
<1>5. Parsed(known, start, text) \in Good
  <2> HIDE DEF good, Good
  <2> QED BY <1>1, <1>2, <1>3, <1>4, ParserStays
<1> QED BY <1>5

(* Units that name no field change none.                                   *)
LEMMA ParsedUnknown ==
  ASSUME NEW known \in Known, NEW start \in ParserState(known), start.at \notin known,
         NEW text \in Seq(Unit), NoTags(known, text)
  PROVE  Parsed(known, start, text).fields = start.fields
<1> DEFINE Good == {p \in ParserState(known) :
                      p.fields = start.fields /\ p.at \notin known}
           good == [i \in 0 .. Len(text) |-> Good]
<1>1. Len(text) \in Nat /\ \A i \in 1 .. Len(text) : text[i] \in Unit
  OBVIOUS
<1>2. ASSUME NEW p \in Good, NEW i \in 1 .. Len(text)
      PROVE  ParseUnit(known, p, text[i]) \in Good
  <2> p \in ParserState(known) /\ p.fields = start.fields /\ p.at \notin known
    BY <1>2
  <2> text[i] \in Unit
    BY <1>1
  <2> HIDE DEF Good, good
  <2> PICK q : q = ParseUnit(known, p, text[i])
    OBVIOUS
  <2> Takes(known, p, text[i], q)
    BY UnitStep
  <2>1. /\ q \in ParserState(known) /\ q.fields = p.fields
        /\ q.at \in {"none", "failed"} \/ (IsTag(text[i]) /\ q.at = text[i].tag)
    BY DEF Takes
  <2>2. q.at \notin known
    BY <2>1, FieldFacts DEF NoTags
  <2> QED BY <2>1, <2>2 DEF Good
<1>3. start \in good[0]
  BY <1>1
<1>4. /\ \A i \in 1 .. Len(text) : good[i - 1] = Good /\ good[i] = Good
      /\ good[Len(text)] = Good
  BY <1>1
<1>5. Parsed(known, start, text) \in Good
  <2> HIDE DEF good, Good
  <2> QED BY <1>1, <1>2, <1>3, <1>4, ParserStays
<1> QED BY <1>5

-----------------------------------------------------------------------------
(* A text in two parts is parsed part by part.                             *)
LEMMA ParsedAppend ==
  ASSUME NEW known, NEW start, NEW s \in Seq(Unit), NEW t \in Seq(Unit)
  PROVE  Parsed(known, start, s \o t) = Parsed(known, Parsed(known, start, s), t)
<1> DEFINE whole == s \o t
           first == Parsers(known, start, s)
           end == Parsed(known, start, s)
           then == Parsers(known, end, t)
           good == [i \in 0 .. Len(whole) |->
                      IF i <= Len(s) THEN {first[i]} ELSE {then[i - Len(s)]}]
<1>1. /\ Len(s) \in Nat /\ Len(t) \in Nat /\ Len(whole) = Len(s) + Len(t)
      /\ \A i \in 1 .. Len(s) : whole[i] = s[i]
      /\ \A i \in 1 .. Len(t) : whole[Len(s) + i] = t[i]
  OBVIOUS
<1>2. /\ first[0] = start
      /\ \A i \in 1 .. Len(s) : first[i] = ParseUnit(known, first[i - 1], s[i])
  BY <1>1, ParserRuns
<1>3. /\ then[0] = end
      /\ \A i \in 1 .. Len(t) : then[i] = ParseUnit(known, then[i - 1], t[i])
  <2> HIDE DEF end
  <2> QED BY <1>1, ParserRuns
<1>4. first[Len(s)] = end
  BY DEF Parsed
<1> SUFFICES Parsed(known, start, whole) = Parsed(known, end, t)
  OBVIOUS
<1> HIDE DEF whole, first, then, end
<1>5. ASSUME NEW i \in 0 .. Len(s) PROVE good[i] = {first[i]}
  BY <1>1
<1>6. ASSUME NEW i \in 0 .. Len(t) PROVE good[Len(s) + i] = {then[i]}
  <2>1. Len(s) + i \in 0 .. Len(whole) /\ Len(s) + i - Len(s) = i
    BY <1>1
  <2>2. CASE i = 0
    <3>1. Len(s) + i = Len(s) /\ Len(s) <= Len(s)
      BY <1>1, <2>2
    <3> QED BY <1>3, <1>4, <2>1, <2>2, <3>1
  <2>3. CASE i # 0
    <3>1. ~(Len(s) + i <= Len(s))
      BY <1>1, <2>3
    <3> QED BY <2>1, <3>1
  <2> QED BY <2>2, <2>3
<1> HIDE DEF good
<1>7. start \in good[0] /\ good[Len(whole)] = {then[Len(t)]} /\ Len(whole) \in Nat
  <2>1. 0 \in 0 .. Len(s) /\ Len(t) \in 0 .. Len(t)
    BY <1>1
  <2> QED BY <1>1, <1>2, <1>5, <1>6, <2>1
<1>8. ASSUME NEW i \in 1 .. Len(whole), NEW p \in good[i - 1]
      PROVE  ParseUnit(known, p, whole[i]) \in good[i]
  <2>1. CASE i <= Len(s)
    <3>1. i \in 1 .. Len(s) /\ i \in 0 .. Len(s) /\ i - 1 \in 0 .. Len(s)
      BY <1>1, <2>1
    <3> QED BY <1>1, <1>2, <1>5, <1>8, <3>1
  <2>2. CASE i > Len(s)
    <3> PICK k : k = i - Len(s)
      OBVIOUS
    <3>1. /\ k \in 1 .. Len(t) /\ k \in 0 .. Len(t) /\ k - 1 \in 0 .. Len(t)
          /\ i = Len(s) + k /\ i - 1 = Len(s) + (k - 1)
      BY <1>1, <2>2
    <3>2. whole[i] = t[k] /\ then[k] = ParseUnit(known, then[k - 1], t[k])
      BY <1>1, <1>3, <3>1
    <3>3. good[i] = {then[k]} /\ good[i - 1] = {then[k - 1]}
      BY <1>6, <3>1
    <3> QED BY <1>8, <3>2, <3>3
  <2> QED BY <1>1, <2>1, <2>2
<1>9. Parsed(known, start, whole) \in good[Len(whole)]
  BY <1>7, <1>8, ParserStays
<1>10. then[Len(t)] = Parsed(known, end, t)
  BY DEF then, Parsed
<1> QED BY <1>7, <1>9, <1>10

(* The parser with v in field f.                                           *)
WithField(p, f, v) == [p EXCEPT !.fields[f] = v]

(* No text changes nothing; a tag of a field and a value set the field.    *)
LEMMA ParsedShort ==
  ASSUME NEW known \in Known, NEW p \in ParserState(known), p.at = "none"
  PROVE  /\ Parsed(known, p, << >>) = p
         /\ \A f \in known, v \in Values :
              Parsed(known, p, <<Tag(f), Value(v)>>) = WithField(p, f, v)
<1>1. Parsed(known, p, << >>) = p
  BY ParserRuns DEF Parsed
<1>2. ASSUME NEW f \in known, NEW v \in Values
      PROVE  Parsed(known, p, <<Tag(f), Value(v)>>) = WithField(p, f, v)
  <2> DEFINE text == <<Tag(f), Value(v)>>
             run == Parsers(known, p, text)
  <2>1. Len(text) = 2 /\ text[1] = Tag(f) /\ text[2] = Value(v)
    OBVIOUS
  <2> HIDE DEF text
  <2>2. /\ run[0] = p /\ run[1] = ParseUnit(known, run[0], text[1])
        /\ run[2] = ParseUnit(known, run[1], text[2])
    <3>1. /\ run[0] = p
          /\ \A i \in 1 .. 2 : run[i] = ParseUnit(known, run[i - 1], text[i])
      <4>1. Len(text) \in Nat
        BY <2>1
      <4>2. run = [i \in 0 .. Len(text) |->
                     IF i = 0 THEN p ELSE ParseUnit(known, run[i - 1], text[i])]
        BY <4>1, ParserRuns
      <4> HIDE DEF run
      <4> QED BY <2>1, <4>2
    <3> HIDE DEF run
    <3>2. 1 \in 1 .. 2 /\ 2 \in 1 .. 2 /\ 1 - 1 = 0 /\ 2 - 1 = 1
      OBVIOUS
    <3> QED BY <3>1, <3>2
  <2>3. Parsed(known, p, text) = run[2]
    BY <2>1 DEF Parsed
  <2> HIDE DEF run
  <2>4. f \in AnyField /\ f # "none" /\ f # "failed" /\ "failed" \notin known /\ "none" \notin known
    BY FieldFacts
  <2>5. run[1] = [p EXCEPT !.at = f]
    BY <2>1, <2>2, <2>4, TagFacts DEF ParseUnit
  <2>6. run[1].at = f /\ p \in [fields : [known -> Values], unknown : Seq(Unit),
                                at : AnyField \union {"none", "failed"}]
    BY <2>5 DEF ParserState
  <2>7. run[2] = [run[1] EXCEPT !.fields[f] = v, !.at = "none"]
    <3>1. ~IsTag(text[2]) /\ ~IsCut(text[2]) /\ text[2].value = v
      BY <2>1, TagFacts
    <3> QED BY <2>2, <2>4, <2>6, <3>1 DEF ParseUnit
  <2>8. run[2] = [p EXCEPT !.fields[f] = v]
    BY <2>5, <2>6, <2>7
  <2> QED BY <2>3, <2>8 DEF text, WithField
<1> QED BY <1>1, <1>2

(* What the text says of a field is what is in the field afterwards.       *)
LEMMA PieceTypes ==
  ASSUME NEW known \in Known, NEW F \in [known -> Values], NEW f \in known
  PROVE  Bytes(F, f) \in Seq(Unit) /\ Number(F, f) \in Seq(Unit)
<1>1. Tag(f) \in Unit /\ Value(F[f]) \in Unit
  BY FieldFacts, TagFacts
<1> QED BY <1>1 DEF Bytes, Number

(* Piece of a string field, parsed where that field is empty: the field    *)
(* has what it was written from.                                           *)
LEMMA BytesParsed ==
  ASSUME NEW known \in Known, NEW p \in ParserState(known), p.at = "none",
         NEW F \in [known -> Values], NEW f \in known, p.fields[f] = Empty
  PROVE  Parsed(known, p, Bytes(F, f)) = WithField(p, f, F[f])
<1> DEFINE q == WithField(p, f, F[f])
<1>1. F[f] \in Values /\ (F[f] = Empty => p = q)
  BY DEF ParserState, WithField
<1>2. CASE F[f] = Empty
  <2>1. Bytes(F, f) = << >>
    BY <1>2 DEF Bytes
  <2> QED BY <1>1, <1>2, <2>1, ParsedShort
<1>3. CASE F[f] # Empty
  <2>1. Bytes(F, f) = <<Tag(f), Value(F[f])>>
    BY <1>3 DEF Bytes
  <2> PICK v : v = F[f]
    OBVIOUS
  <2>2. Parsed(known, p, <<Tag(f), Value(v)>>) = WithField(p, f, v)
    BY <1>1, ParsedShort
  <2> QED BY <2>1, <2>2
<1> QED BY <1>2, <1>3

(* Likewise the piece of a number field, where that field is 0.            *)
LEMMA NumberParsed ==
  ASSUME NEW known \in Known, NEW p \in ParserState(known), p.at = "none",
         NEW F \in [known -> Values], NEW f \in known, p.fields[f] = 0
  PROVE  Parsed(known, p, Number(F, f)) = WithField(p, f, F[f])
<1> DEFINE q == WithField(p, f, F[f])
<1>1. F[f] \in Values /\ (F[f] = 0 => p = q)
  BY DEF ParserState, WithField
<1>2. CASE F[f] = 0
  <2>1. Number(F, f) = << >>
    BY <1>2 DEF Number
  <2> QED BY <1>1, <1>2, <2>1, ParsedShort
<1>3. CASE F[f] # 0
  <2>1. Number(F, f) = <<Tag(f), Value(F[f])>>
    BY <1>3 DEF Number
  <2> PICK v : v = F[f]
    OBVIOUS
  <2>2. Parsed(known, p, <<Tag(f), Value(v)>>) = WithField(p, f, v)
    BY <1>1, ParsedShort
  <2> QED BY <2>1, <2>2
<1> QED BY <1>2, <1>3

(* What is in a field was there at the start, or is in the text after the  *)
(* tag of the field, be it the start of a value that the text cuts off.    *)
LEMMA FieldsOfText ==
  ASSUME NEW known \in Known, NEW start \in ParserState(known), start.at = "none",
         NEW text \in Seq(Unit), NEW end, end = Parsed(known, start, text)
  PROVE  \A f \in known : \/ end.fields[f] = start.fields[f]
                           \/ InText(text, f, end.fields[f])
<1> DEFINE From(n, p, f) ==
             \/ p.fields[f] = start.fields[f]
             \/ \E i \in 2 .. n :
                  text[i - 1] = Tag(f) /\ ~IsTag(text[i]) /\ text[i].value = p.fields[f]
           Good(n) == {p \in ParserState(known) :
                         /\ p.at \in known => n > 0 /\ text[n] = Tag(p.at)
                         /\ \A f \in known : From(n, p, f)}
           good == [n \in 0 .. Len(text) |-> Good(n)]
<1>1. Len(text) \in Nat /\ \A i \in 1 .. Len(text) : text[i] \in Unit
  OBVIOUS
<1>2. "none" \notin known /\ "failed" \notin known /\ known \subseteq AnyField
  BY FieldFacts
<1>3. start \in Good(0)
  BY <1>2
<1>4. ASSUME NEW n \in 1 .. Len(text), NEW p \in Good(n - 1)
      PROVE  ParseUnit(known, p, text[n]) \in Good(n)
  <2>1. /\ p \in ParserState(known) /\ text[n] \in Unit
        /\ p.at \in known => n - 1 > 0 /\ text[n - 1] = Tag(p.at)
        /\ \A f \in known : From(n - 1, p, f)
    BY <1>1, <1>4
  <2> PICK q : q = ParseUnit(known, p, text[n])
    OBVIOUS
  <2>2. Takes(known, p, text[n], q)
    BY <2>1, UnitStep
  <2> HIDE DEF Good, good
  <2>3. q \in ParserState(known) /\ p.fields \in [known -> Values]
    BY <2>1, <2>2 DEF Takes, ParserState
  <2>4. q.at \in known => n > 0 /\ text[n] = Tag(q.at)
    BY <1>2, <2>1, <2>2, UnitFacts DEF Takes
  <2>5. ASSUME NEW f \in known PROVE From(n, q, f)
    <3>1. CASE q.fields[f] = p.fields[f]
      <4>1. From(n - 1, p, f)
        BY <2>1
      <4>2. 2 .. n - 1 \subseteq 2 .. n
        BY <1>1
      <4> QED BY <3>1, <4>1, <4>2
    <3>2. CASE p.at = f /\ ~IsTag(text[n]) /\ q.fields[f] = text[n].value
      <4>1. n \in 2 .. n /\ text[n - 1] = Tag(f)
        BY <1>1, <2>1, <3>2
      <4> QED BY <3>2, <4>1
    <3>3. \/ q.fields = p.fields
          \/ /\ p.at \in known /\ ~IsTag(text[n])
             /\ q.fields = [p.fields EXCEPT ![p.at] = text[n].value]
      BY <2>2 DEF Takes
    <3>4. q.fields[f] = p.fields[f]
            \/ (p.at = f /\ ~IsTag(text[n]) /\ q.fields[f] = text[n].value)
      BY <2>3, <3>3
    <3> QED BY <3>1, <3>2, <3>4
  <2>6. q \in Good(n)
    <3> HIDE DEF From
    <3> QED BY <2>3, <2>4, <2>5 DEF Good
  <2> QED BY <2>6
<1>5. /\ start \in good[0] /\ good[Len(text)] = Good(Len(text))
      /\ \A n \in 1 .. Len(text) : \A p \in good[n - 1] :
           ParseUnit(known, p, text[n]) \in good[n]
  <2> HIDE DEF Good
  <2> QED BY <1>1, <1>3, <1>4
<1>6. end \in Good(Len(text))
  <2> HIDE DEF Good, good
  <2> QED BY <1>1, <1>5, ParserStays
<1> QED BY <1>6 DEF InText

-----------------------------------------------------------------------------
(* A text that is reversed twice is as it was.                             *)
LEMMA ReversedTwice ==
  ASSUME NEW text \in Seq(Unit)
  PROVE  /\ Reverse(text) \in Seq(Unit) /\ Len(Reverse(text)) = Len(text)
         /\ Reverse(Reverse(text)) = text
<1>1. Len(text) \in Nat /\ text \in [1 .. Len(text) -> Unit]
  OBVIOUS
<1>2. Reverse(text) = [i \in 1 .. Len(text) |-> text[Len(text) - i + 1]]
  BY DEF Reverse
<1>3. \A i \in 1 .. Len(text) : Len(text) - i + 1 \in 1 .. Len(text)
  BY <1>1
<1>4. Reverse(text) \in [1 .. Len(text) -> Unit]
  BY <1>1, <1>2, <1>3
<1>5. Reverse(text) \in Seq(Unit) /\ Len(Reverse(text)) = Len(text)
  BY <1>1, <1>4
<1>6. Reverse(Reverse(text)) =
        [i \in 1 .. Len(text) |-> Reverse(text)[Len(text) - i + 1]]
  BY <1>5 DEF Reverse
<1>7. ASSUME NEW i \in 1 .. Len(text)
      PROVE  Reverse(text)[Len(text) - i + 1] = text[i]
  <2>1. Len(text) - (Len(text) - i + 1) + 1 = i
    BY <1>1
  <2> QED BY <1>2, <1>3, <2>1
<1> QED BY <1>1, <1>5, <1>6, <1>7

(* A number of 32 bits comes out of the unsigned one as it went in.        *)
LEMMA SignKept ==
  ASSUME MaxInt \in Nat, NEW i \in Numbers
  PROVE  Unsigned(i) \in UnsignedNumbers /\ Signed(Unsigned(i)) = i
BY DEF Numbers, UnsignedNumbers, Unsigned, Signed

(* The fields that are not empty, and whether a field is one of them.      *)
NotEmpty(F, S) == {f \in S : F[f] # Empty}
Has(F, f) == IF F[f] # Empty THEN 1 ELSE 0

(* One field more: one more to count if it is not empty.                   *)
LEMMA CountOne ==
  ASSUME NEW S, IsFiniteSet(S), NEW x, x \notin S, NEW F
  PROVE  /\ IsFiniteSet(S \union {x})
         /\ Cardinality(NotEmpty(F, S \union {x})) =
              Cardinality(NotEmpty(F, S)) + Has(F, x)
         /\ Cardinality(NotEmpty(F, S)) \in Nat
<1> DEFINE T == NotEmpty(F, S)
<1>1. IsFiniteSet(S \union {x}) /\ IsFiniteSet(T) /\ x \notin T /\ Cardinality(T) \in Nat
  BY FS_AddElement, FS_Subset, FS_CardinalityType DEF NotEmpty
<1>2. Cardinality(T \union {x}) = Cardinality(T) + 1
  BY <1>1, FS_AddElement
<1>3. NotEmpty(F, S \union {x}) = IF F[x] # Empty THEN T \union {x} ELSE T
  BY DEF NotEmpty
<1> QED BY <1>1, <1>2, <1>3 DEF Has

(* Of three and of four fields.                                            *)
LEMMA CountThree ==
  ASSUME NEW a, NEW b, NEW c, a # b, a # c, b # c, NEW F, NEW S, S = {a, b, c}
  PROVE  /\ IsFiniteSet(S)
         /\ Cardinality(NotEmpty(F, S)) = Has(F, a) + Has(F, b) + Has(F, c)
<1>1. IsFiniteSet({}) /\ NotEmpty(F, {}) = {} /\ Cardinality(NotEmpty(F, {})) = 0
  BY FS_EmptySet DEF NotEmpty
<1>2. \A d : Has(F, d) \in Nat
  BY DEF Has
<1>3. IsFiniteSet({a}) /\ Cardinality(NotEmpty(F, {a})) = Has(F, a)
  <2>1. {a} = {} \union {a} /\ a \notin {}
    OBVIOUS
  <2>2. IsFiniteSet({a}) /\ Cardinality(NotEmpty(F, {a})) = 0 + Has(F, a)
    BY ONLY <1>1, <2>1, CountOne
  <2> QED BY <1>2, <2>2
<1>4. IsFiniteSet({a, b}) /\ Cardinality(NotEmpty(F, {a, b})) = Has(F, a) + Has(F, b)
  <2>1. {a, b} = {a} \union {b} /\ b \notin {a}
    OBVIOUS
  <2> QED BY <1>3, <2>1, CountOne
<1>5. /\ IsFiniteSet({a, b, c})
      /\ Cardinality(NotEmpty(F, {a, b, c})) = Has(F, a) + Has(F, b) + Has(F, c)
  <2>1. {a, b, c} = {a, b} \union {c} /\ c \notin {a, b}
    OBVIOUS
  <2>2. /\ IsFiniteSet({a, b, c})
        /\ Cardinality(NotEmpty(F, {a, b, c})) =
             Cardinality(NotEmpty(F, {a, b})) + Has(F, c)
    BY ONLY <1>4, <2>1, CountOne
  <2> QED BY <1>4, <2>2
<1> QED BY <1>5

(* Four fields: as many are not empty as have one to count.                *)
LEMMA CountFour ==
  ASSUME NEW a, NEW b, NEW c, a # b, a # c, b # c, NEW F,
         NEW d, d \notin {a, b, c}, NEW S, S = {a, b, c, d}
  PROVE  Cardinality(NotEmpty(F, S)) = Has(F, a) + Has(F, b) + Has(F, c) + Has(F, d)
<1>1. PICK T : T = {a, b, c}
  OBVIOUS
<1>2. IsFiniteSet(T) /\ Cardinality(NotEmpty(F, T)) = Has(F, a) + Has(F, b) + Has(F, c)
  BY <1>1, CountThree
<1>3. S = T \union {d} /\ d \notin T
  BY <1>1
<1>4. Cardinality(NotEmpty(F, S)) = Cardinality(NotEmpty(F, T)) + Has(F, d)
  BY ONLY <1>2, <1>3, CountOne
<1> QED BY <1>2, <1>4

(* The room made for a message is the length of its text.                  *)
LEMMA SizeOfText ==
  ASSUME kind \in {"request", "respond"},
         NEW msg \in [fields : [Fields -> Values], unknown : Seq(Unit)]
  PROVE  ByteSize(msg) = Len(Serialize(msg))
<1> PICK F : F = msg.fields
  OBVIOUS
<1>1. F \in [Fields -> Values] /\ msg.unknown \in Seq(Unit) /\ Len(msg.unknown) \in Nat
  OBVIOUS
<1>2. ASSUME NEW f \in Fields
      PROVE  /\ Bytes(F, f) \in Seq(Unit) /\ Number(F, f) \in Seq(Unit)
             /\ Len(Bytes(F, f)) = 2 * Has(F, f) /\ Has(F, f) \in Nat
             /\ Len(Number(F, f)) = IF F[f] # 0 THEN 2 ELSE 0
  <2>1. F[f] \in Values /\ f \in AnyField
    BY <1>1 DEF Fields, AnyField
  <2>2. Tag(f) \in Unit /\ Value(F[f]) \in Unit
    BY <2>1, TagFacts
  <2> QED BY <2>2 DEF Bytes, Number, Has
<1>3. ASSUME NEW s \in Seq(Unit), NEW t \in Seq(Unit)
      PROVE  s \o t \in Seq(Unit) /\ Len(s \o t) = Len(s) + Len(t) /\ Len(s) \in Nat
  OBVIOUS
<1>4. ASSUME NEW a \in Seq(Unit), NEW b \in Seq(Unit), NEW c \in Seq(Unit),
             NEW d \in Seq(Unit), NEW s, s = a \o b \o c \o d
      PROVE  s \in Seq(Unit) /\ Len(s) = Len(a) + Len(b) + Len(c) + Len(d)
  BY <1>4
<1>5. CASE kind = "request"
  <2>1. Fields = RequestFields
    BY <1>5 DEF Fields
  <2>2. /\ "client_id" \in Fields /\ "server_id" \in Fields
        /\ "sign" \in Fields /\ "data" \in Fields
    BY <2>1 DEF RequestFields
  <2>3. Cardinality(NotEmpty(F, RequestFields)) =
          Has(F, "client_id") + Has(F, "server_id") + Has(F, "sign") + Has(F, "data")
    <3>1. /\ "client_id" # "server_id" /\ "client_id" # "sign" /\ "server_id" # "sign"
          /\ "data" \notin {"client_id", "server_id", "sign"}
          /\ RequestFields = {"client_id", "server_id", "sign", "data"}
      BY DEF RequestFields
    <3> QED BY <3>1, CountFour
  <2>4. /\ SerializeRequest(F) \in Seq(Unit)
        /\ Len(SerializeRequest(F)) =
             2 * Has(F, "client_id") + 2 * Has(F, "server_id")
               + 2 * Has(F, "sign") + 2 * Has(F, "data")
    <3>1. SerializeRequest(F) = Bytes(F, "client_id") \o Bytes(F, "server_id")
                                  \o Bytes(F, "sign") \o Bytes(F, "data")
      BY DEF SerializeRequest
    <3>2. /\ Bytes(F, "client_id") \in Seq(Unit) /\ Bytes(F, "server_id") \in Seq(Unit)
          /\ Bytes(F, "sign") \in Seq(Unit) /\ Bytes(F, "data") \in Seq(Unit)
          /\ Len(Bytes(F, "client_id")) = 2 * Has(F, "client_id")
          /\ Len(Bytes(F, "server_id")) = 2 * Has(F, "server_id")
          /\ Len(Bytes(F, "sign")) = 2 * Has(F, "sign")
          /\ Len(Bytes(F, "data")) = 2 * Has(F, "data")
      BY <1>2, <2>2
    <3> PICK a, b, c, d : /\ a = Bytes(F, "client_id") /\ b = Bytes(F, "server_id")
                          /\ c = Bytes(F, "sign") /\ d = Bytes(F, "data")
      OBVIOUS
    <3>3. /\ SerializeRequest(F) \in Seq(Unit)
          /\ Len(SerializeRequest(F)) = Len(a) + Len(b) + Len(c) + Len(d)
      BY <1>4, <3>1, <3>2
    <3> QED BY <3>2, <3>3
  <2>5. Serialize(msg) = SerializeRequest(F) \o msg.unknown
    BY <1>5 DEF Serialize
  <2>6. ByteSize(msg) = 2 * Cardinality(NotEmpty(F, RequestFields)) + Len(msg.unknown)
    BY <1>5 DEF ByteSize, RequestSize, NotEmpty, Quantify
  <2>7. Len(Serialize(msg)) = Len(SerializeRequest(F)) + Len(msg.unknown)
    BY <1>1, <1>3, <2>4, <2>5
  <2>8. /\ Has(F, "client_id") \in Nat /\ Has(F, "server_id") \in Nat
        /\ Has(F, "sign") \in Nat /\ Has(F, "data") \in Nat
    BY <1>2, <2>2
  <2>9. PICK i \in Nat, j \in Nat, k \in Nat, l \in Nat, u \in Nat :
          /\ i = Has(F, "client_id") /\ j = Has(F, "server_id")
          /\ k = Has(F, "sign") /\ l = Has(F, "data") /\ u = Len(msg.unknown)
    BY <1>1, <2>8
  <2>10. Len(Serialize(msg)) = 2 * i + 2 * j + 2 * k + 2 * l + u
    BY <2>4, <2>7, <2>9
  <2>11. ByteSize(msg) = 2 * (i + j + k + l) + u
    BY <2>3, <2>6, <2>9
  <2> QED BY ONLY <2>10, <2>11
<1>6. CASE kind = "respond"
  <2>1. Fields = RespondFields
    BY <1>6 DEF Fields
  <2>2. /\ "seckey_id" \in Fields /\ "client_id" \in Fields
        /\ "server_id" \in Fields /\ "data" \in Fields
    BY <2>1 DEF RespondFields
  <2>3. Cardinality(NotEmpty(F, RespondFields \ {"seckey_id"})) =
          Has(F, "client_id") + Has(F, "server_id") + Has(F, "data")
    <3> PICK a, b, c, S : /\ a = "client_id" /\ b = "server_id" /\ c = "data"
                          /\ S = RespondFields \ {"seckey_id"}
      OBVIOUS
    <3>1. S = {a, b, c} /\ a # b /\ a # c /\ b # c
      BY DEF RespondFields
    <3>2. Cardinality(NotEmpty(F, S)) = Has(F, a) + Has(F, b) + Has(F, c)
      BY ONLY <3>1, CountThree
    <3> QED BY <3>2
  <2>4. /\ SerializeRespond(F) \in Seq(Unit)
        /\ Len(SerializeRespond(F)) =
             (IF F["seckey_id"] # 0 THEN 2 ELSE 0) + 2 * Has(F, "client_id")
               + 2 * Has(F, "server_id") + 2 * Has(F, "data")
    <3>1. SerializeRespond(F) = Number(F, "seckey_id") \o Bytes(F, "client_id")
                                  \o Bytes(F, "server_id") \o Bytes(F, "data")
      BY DEF SerializeRespond
    <3>2. /\ Number(F, "seckey_id") \in Seq(Unit) /\ Bytes(F, "client_id") \in Seq(Unit)
          /\ Bytes(F, "server_id") \in Seq(Unit) /\ Bytes(F, "data") \in Seq(Unit)
          /\ Len(Number(F, "seckey_id")) = (IF F["seckey_id"] # 0 THEN 2 ELSE 0)
          /\ Len(Bytes(F, "client_id")) = 2 * Has(F, "client_id")
          /\ Len(Bytes(F, "server_id")) = 2 * Has(F, "server_id")
          /\ Len(Bytes(F, "data")) = 2 * Has(F, "data")
      BY <1>2, <2>2
    <3> PICK a, b, c, d : /\ a = Number(F, "seckey_id") /\ b = Bytes(F, "client_id")
                          /\ c = Bytes(F, "server_id") /\ d = Bytes(F, "data")
      OBVIOUS
    <3>3. /\ SerializeRespond(F) \in Seq(Unit)
          /\ Len(SerializeRespond(F)) = Len(a) + Len(b) + Len(c) + Len(d)
      BY <1>4, <3>1, <3>2
    <3> QED BY <3>2, <3>3
  <2>5. Serialize(msg) = SerializeRespond(F) \o msg.unknown
    BY <1>6 DEF Serialize
  <2>6. ByteSize(msg) = 2 * Cardinality(NotEmpty(F, RespondFields \ {"seckey_id"}))
                          + (IF F["seckey_id"] # 0 THEN 2 ELSE 0) + Len(msg.unknown)
    BY <1>6 DEF ByteSize, RespondSize, NotEmpty, Quantify
  <2>7. Len(Serialize(msg)) = Len(SerializeRespond(F)) + Len(msg.unknown)
    BY <1>1, <1>3, <2>4, <2>5
  <2>8. /\ Has(F, "client_id") \in Nat /\ Has(F, "server_id") \in Nat
        /\ Has(F, "data") \in Nat
    BY <1>2, <2>2
  <2>9. PICK i \in Nat, j \in Nat, k \in Nat, l \in Nat, u \in Nat :
          /\ i = Has(F, "client_id") /\ j = Has(F, "server_id")
          /\ k = Has(F, "data") /\ l = (IF F["seckey_id"] # 0 THEN 2 ELSE 0)
          /\ u = Len(msg.unknown)
    BY <1>1, <2>8
  <2>10. Len(Serialize(msg)) = l + 2 * i + 2 * j + 2 * k + u
    BY <2>4, <2>7, <2>9
  <2>11. ByteSize(msg) = 2 * (i + j + k) + l + u
    BY <2>3, <2>6, <2>9
  <2> QED BY ONLY <2>10, <2>11
<1> QED BY <1>5, <1>6

-----------------------------------------------------------------------------
(* A piece of a text that gives a field the value it has in F, when the    *)
(* field is as it was at the start.                                        *)
Writes(known, start, F, f, piece) ==
  /\ piece \in Seq(Unit)
  /\ \A p \in ParserState(known) :
       p.at = "none" /\ p.fields[f] = start.fields[f] =>
         Parsed(known, p, piece) = WithField(p, f, F[f])

AreFields(known, a, b, c, d) ==
  /\ known = {a, b, c, d}
  /\ a # b /\ a # c /\ a # d /\ b # c /\ b # d /\ c # d
Joins(text, A, B, C, D, rest) == text = A \o B \o C \o D \o rest

(* Four pieces give the values of four fields, whatever is unknown after   *)
(* them.                                                                   *)
LEMMA FourPieces ==
  ASSUME NEW known \in Known, NEW F \in [known -> Values],
         NEW a, NEW b, NEW c, NEW d, AreFields(known, a, b, c, d),
         NEW start \in ParserState(known), start.at = "none",
         NEW A, Writes(known, start, F, a, A), NEW B, Writes(known, start, F, b, B),
         NEW C, Writes(known, start, F, c, C), NEW D, Writes(known, start, F, d, D),
         NEW unknown \in Seq(Unit), NoTags(known, unknown),
         NEW text, Joins(text, A, B, C, D, unknown)
  PROVE  text \in Seq(Unit) /\ Parsed(known, start, text).fields = F
<1> DEFINE p1 == WithField(start, a, F[a])
           p2 == WithField(p1, b, F[b])
           p3 == WithField(p2, c, F[c])
           p4 == WithField(p3, d, F[d])
<1>1. /\ a \in known /\ b \in known /\ c \in known /\ d \in known
      /\ a # b /\ a # c /\ a # d /\ b # c /\ b # d /\ c # d
      /\ known = {a, b, c, d}
  BY DEF AreFields
<1>2. start.fields \in [known -> Values]
  BY DEF ParserState
<1>3. ASSUME NEW p \in ParserState(known), p.at = "none", NEW f \in known
      PROVE  /\ WithField(p, f, F[f]) \in ParserState(known)
             /\ WithField(p, f, F[f]).at = "none"
             /\ WithField(p, f, F[f]).fields = [p.fields EXCEPT ![f] = F[f]]
  <2>1. F[f] \in Values
    OBVIOUS
  <2>2. WithField(p, f, F[f]) \in ParserState(known)
    BY <2>1 DEF ParserState, WithField
  <2> QED BY <1>3, <2>2 DEF ParserState, WithField
<1>4. /\ Parsed(known, start, A) = p1 /\ p1 \in ParserState(known) /\ p1.at = "none"
      /\ p1.fields = [start.fields EXCEPT ![a] = F[a]]
  <2>1. Parsed(known, start, A) = p1
    BY DEF Writes
  <2> QED BY <1>1, <1>3, <2>1
<1> HIDE DEF p1
<1>5. /\ Parsed(known, p1, B) = p2 /\ p2 \in ParserState(known) /\ p2.at = "none"
      /\ p2.fields = [p1.fields EXCEPT ![b] = F[b]]
  <2>1. p1.fields[b] = start.fields[b]
    BY <1>1, <1>2, <1>4
  <2>2. Parsed(known, p1, B) = p2
    BY <1>4, <2>1 DEF Writes
  <2> QED BY <1>1, <1>3, <1>4, <2>2
<1> HIDE DEF p2
<1>6. /\ Parsed(known, p2, C) = p3 /\ p3 \in ParserState(known) /\ p3.at = "none"
      /\ p3.fields = [p2.fields EXCEPT ![c] = F[c]]
  <2>1. p1.fields \in [known -> Values]
    BY <1>4 DEF ParserState
  <2>2. p2.fields[c] = p1.fields[c] /\ p1.fields[c] = start.fields[c]
    BY <1>1, <1>2, <1>4, <1>5, <2>1
  <2>3. Parsed(known, p2, C) = p3
    BY <1>5, <2>2 DEF Writes
  <2> QED BY <1>1, <1>3, <1>5, <2>3
<1> HIDE DEF p3
<1>7. /\ Parsed(known, p3, D) = p4 /\ p4 \in ParserState(known) /\ p4.at = "none"
      /\ p4.fields = [p3.fields EXCEPT ![d] = F[d]]
  <2>1. p1.fields \in [known -> Values] /\ p2.fields \in [known -> Values]
    BY <1>4, <1>5 DEF ParserState
  <2>2. /\ p3.fields[d] = p2.fields[d] /\ p2.fields[d] = p1.fields[d]
        /\ p1.fields[d] = start.fields[d]
    BY <1>1, <1>2, <1>4, <1>5, <1>6, <2>1
  <2>3. Parsed(known, p3, D) = p4
    BY <1>6, <2>2 DEF Writes
  <2> QED BY <1>1, <1>3, <1>6, <2>3
<1> HIDE DEF p4
<1>8. p4.fields = F
  <2>1. /\ p1.fields \in [known -> Values] /\ p2.fields \in [known -> Values]
        /\ p3.fields \in [known -> Values] /\ p4.fields \in [known -> Values]
    BY <1>4, <1>5, <1>6, <1>7 DEF ParserState
  <2>2. /\ p4.fields[a] = F[a] /\ p4.fields[b] = F[b]
        /\ p4.fields[c] = F[c] /\ p4.fields[d] = F[d]
    BY <1>1, <1>2, <1>4, <1>5, <1>6, <1>7, <2>1
  <2>3. F \in [known -> Values]
    OBVIOUS
  <2>4. \A f \in known : p4.fields[f] = F[f]
    BY <1>1, <2>2
  <2> QED BY <2>1, <2>3, <2>4
<1>9. PICK s2, s3, s4 : s2 = A \o B /\ s3 = s2 \o C /\ s4 = s3 \o D
  OBVIOUS
<1>10. A \in Seq(Unit) /\ B \in Seq(Unit) /\ C \in Seq(Unit) /\ D \in Seq(Unit)
  BY DEF Writes
<1>11. s2 \in Seq(Unit) /\ s3 \in Seq(Unit) /\ s4 \in Seq(Unit)
  <2>1. s2 \in Seq(Unit)
    BY <1>9, <1>10
  <2>2. s3 \in Seq(Unit)
    BY <1>9, <1>10, <2>1
  <2> QED BY <1>9, <1>10, <2>1, <2>2
<1>12. Parsed(known, start, s2) = p2
  BY <1>4, <1>5, <1>9, <1>10, ParsedAppend
<1>13. Parsed(known, start, s3) = p3
  <2>1. Parsed(known, start, s2 \o C) = Parsed(known, p2, C)
    BY <1>10, <1>11, <1>12, ParsedAppend
  <2> QED BY <1>6, <1>9, <2>1
<1>14. Parsed(known, start, s4) = p4
  <2>1. Parsed(known, start, s3 \o D) = Parsed(known, p3, D)
    BY <1>10, <1>11, <1>13, ParsedAppend
  <2> QED BY <1>7, <1>9, <2>1
<1>15. Parsed(known, start, s4 \o unknown) = Parsed(known, p4, unknown)
  BY <1>11, <1>14, ParsedAppend
<1>16. Parsed(known, p4, unknown).fields = p4.fields
  <2>1. p4.at \notin known
    BY <1>7, FieldFacts
  <2> QED BY <1>7, <2>1, ParsedUnknown
<1>17. text = s4 \o unknown /\ s4 \o unknown \in Seq(Unit)
  BY <1>9, <1>11 DEF Joins
<1> QED BY <1>8, <1>15, <1>16, <1>17

(* The parser before a text, with the fields of a message.                 *)
Start(fields) == [fields |-> fields, unknown |-> << >>, at |-> "none"]

(* What is serialized and parsed, with anything unknown after it, is in    *)
(* the fields as it was.                                                   *)
LEMMA RequestRoundTrip ==
  ASSUME CodecAssumption, NEW F \in [RequestFields -> Values],
         NEW unknown \in Seq(Unit), NoTags(RequestFields, unknown)
  PROVE  /\ SerializeRequest(F) \o unknown \in Seq(Unit)
         /\ Parsed(RequestFields, Start(ClearedRequest),
                   SerializeRequest(F) \o unknown).fields = F
<1> PICK start, known, a, b, c, d :
      /\ start = Start(ClearedRequest) /\ known = RequestFields
      /\ a = "client_id" /\ b = "server_id" /\ c = "sign" /\ d = "data"
  OBVIOUS
<1>1. /\ known \in Known /\ F \in [known -> Values] /\ NoTags(known, unknown)
      /\ a \in known /\ b \in known /\ c \in known /\ d \in known
      /\ AreFields(known, a, b, c, d)
  BY DEF Known, RequestFields, AreFields
<1>2. /\ start \in ParserState(known) /\ start.at = "none"
      /\ \A f \in known : start.fields[f] = Empty
  BY DEF CodecAssumption, ParserState, ClearedRequest, Values, Start
<1>3. ASSUME NEW f \in known PROVE Writes(known, start, F, f, Bytes(F, f))
  <2>1. Bytes(F, f) \in Seq(Unit)
    BY <1>1, PieceTypes
  <2>2. ASSUME NEW p \in ParserState(known), p.at = "none",
               p.fields[f] = start.fields[f]
        PROVE  Parsed(known, p, Bytes(F, f)) = WithField(p, f, F[f])
    <3>1. p.fields[f] = Empty
      BY <1>2, <2>2
    <3>2. known \in Known /\ F \in [known -> Values]
      BY <1>1
    <3> QED BY ONLY <2>2, <3>1, <3>2, f \in known, p \in ParserState(known), BytesParsed
  <2> QED BY <2>1, <2>2 DEF Writes
<1>5. PICK A, B, C, D : /\ A = Bytes(F, a) /\ B = Bytes(F, b)
                        /\ C = Bytes(F, c) /\ D = Bytes(F, d)
  OBVIOUS
<1>6. /\ Writes(known, start, F, a, A) /\ Writes(known, start, F, b, B)
      /\ Writes(known, start, F, c, C) /\ Writes(known, start, F, d, D)
  BY <1>1, <1>3, <1>5
<1>7. PICK text : text = SerializeRequest(F) \o unknown
  OBVIOUS
<1>8. Joins(text, A, B, C, D, unknown)
  BY <1>5, <1>7 DEF Joins, SerializeRequest
<1>9. text \in Seq(Unit) /\ Parsed(known, start, text).fields = F
  BY <1>1, <1>2, <1>6, <1>8, FourPieces
<1> QED BY <1>7, <1>9

(* The text of a respond, with whatever unknown units behind it, gives     *)
(* the fields it was written from.                                         *)
LEMMA RespondRoundTrip ==
  ASSUME CodecAssumption, NEW F \in [RespondFields -> Values],
         NEW unknown \in Seq(Unit), NoTags(RespondFields, unknown)
  PROVE  /\ SerializeRespond(F) \o unknown \in Seq(Unit)
         /\ Parsed(RespondFields, Start(ClearedRespond),
                   SerializeRespond(F) \o unknown).fields = F
<1> PICK start, known, a, b, c, d :
      /\ start = Start(ClearedRespond) /\ known = RespondFields
      /\ a = "seckey_id" /\ b = "client_id" /\ c = "server_id" /\ d = "data"
  OBVIOUS
<1>1. /\ known \in Known /\ F \in [known -> Values] /\ NoTags(known, unknown)
      /\ a \in known /\ b \in known /\ c \in known /\ d \in known
      /\ AreFields(known, a, b, c, d)
  BY DEF Known, RespondFields, AreFields
<1>2. /\ start \in ParserState(known) /\ start.at = "none"
      /\ start.fields[a] = 0 /\ \A f \in {b, c, d} : start.fields[f] = Empty
  <2>1. ClearedRespond \in [RespondFields -> Values]
    BY DEF CodecAssumption, ClearedRespond, Values, UnsignedNumbers
  <2>2. ClearedRespond[a] = 0 /\ \A f \in {b, c, d} : ClearedRespond[f] = Empty
    BY <1>1 DEF ClearedRespond
  <2> QED BY <2>1, <2>2 DEF ParserState, Start
<1>3. ASSUME NEW f \in {b, c, d} PROVE Writes(known, start, F, f, Bytes(F, f))
  <2>1. Bytes(F, f) \in Seq(Unit) /\ f \in known
    BY <1>1, PieceTypes
  <2>2. ASSUME NEW p \in ParserState(known), p.at = "none",
               p.fields[f] = start.fields[f]
        PROVE  Parsed(known, p, Bytes(F, f)) = WithField(p, f, F[f])
    <3>1. p.fields[f] = Empty
      BY <1>2, <2>2
    <3> QED BY <1>1, <2>1, <2>2, <3>1, BytesParsed
  <2> QED BY <2>1, <2>2 DEF Writes
<1>4. Writes(known, start, F, a, Number(F, a))
  <2>1. Number(F, a) \in Seq(Unit) /\ a \in known
    BY <1>1, PieceTypes
  <2>2. ASSUME NEW p \in ParserState(known), p.at = "none",
               p.fields[a] = start.fields[a]
        PROVE  Parsed(known, p, Number(F, a)) = WithField(p, a, F[a])
    BY <1>1, <1>2, <2>1, <2>2, NumberParsed
  <2> QED BY <2>1, <2>2 DEF Writes
<1>5. PICK A, B, C, D : /\ A = Number(F, a) /\ B = Bytes(F, b)
                        /\ C = Bytes(F, c) /\ D = Bytes(F, d)
  OBVIOUS
<1>6. /\ Writes(known, start, F, a, A) /\ Writes(known, start, F, b, B)
      /\ Writes(known, start, F, c, C) /\ Writes(known, start, F, d, D)
  BY <1>3, <1>4, <1>5
<1>7. PICK text : text = SerializeRespond(F) \o unknown
  OBVIOUS
<1>8. Joins(text, A, B, C, D, unknown)
  BY <1>5, <1>7 DEF Joins, SerializeRespond
<1>9. text \in Seq(Unit) /\ Parsed(known, start, text).fields = F
  BY <1>1, <1>2, <1>6, <1>8, FourPieces
<1> QED BY <1>7, <1>9

-----------------------------------------------------------------------------
(* A protobuf message of the class of the objects; the values that stand   *)
(* for an info in it; the text of an info, with what else is in it.        *)
Message == [fields : [Fields -> Values], unknown : Seq(Unit)]
Wire(info) ==
  [f \in Fields |-> IF f = "seckey_id" THEN Unsigned(info[f]) ELSE info[f]]
TextOf(info, rest) == Serialize([fields |-> Wire(info), unknown |-> rest])

(* The info of a message's values, as DecodeMsg computes it.               *)
Unwire(fields) ==
  [f \in Fields |-> InInfo(f, fields[f])]

(* The fields of a message are those of its class.                         *)
LEMMA KindFacts ==
  ASSUME kind \in {"request", "respond"}
  PROVE  /\ Fields \in Known
         /\ kind = "request" => Fields = RequestFields
         /\ kind = "respond" => Fields = RespondFields
BY DEF Fields, Known

(* An info comes out of the message as it was put in.                      *)
LEMMA InfoFacts ==
  ASSUME CodecAssumption, kind \in {"request", "respond"}, NEW info \in Infos
  PROVE  /\ Wire(info) \in [Fields -> Values]
         /\ Unwire(Wire(info)) = info
<1>1. MaxInt \in Nat
  BY DEF CodecAssumption
<1>2. CASE kind = "request"
  <2>1. info \in [Fields -> Strings] /\ "seckey_id" \notin Fields
    BY <1>2 DEF CodecAssumption, Infos, Fields, RequestFields
  <2>2. Wire(info) = info /\ Unwire(Wire(info)) = info
    BY <2>1 DEF Wire, Unwire, InInfo
  <2> QED BY <2>1, <2>2 DEF Values
<1>3. CASE kind = "respond"
  <2>1. /\ info \in [Fields -> Strings \union Numbers]
        /\ \A f \in Fields : info[f] \in IF f = "seckey_id" THEN Numbers ELSE Strings
    BY <1>3 DEF CodecAssumption, Infos, Fields
  <2>2. ASSUME NEW f \in Fields
        PROVE  Wire(info)[f] \in Values /\ InInfo(f, Wire(info)[f]) = info[f]
    <3>1. CASE f = "seckey_id"
      <4>1. info[f] \in Numbers /\ Wire(info)[f] = Unsigned(info[f])
        BY <2>1, <3>1 DEF Wire
      <4> QED BY <1>1, <3>1, <4>1, SignKept DEF Values, InInfo
    <3>2. CASE f # "seckey_id"
      BY <2>1, <3>2 DEF Wire, Values, InInfo
    <3> QED BY <3>1, <3>2
  <2>3. Wire(info) \in [Fields -> Values]
    BY <2>2 DEF Wire
  <2>4. Unwire(Wire(info)) = [f \in Fields |-> info[f]]
    BY <2>2 DEF Unwire
  <2> QED BY <2>1, <2>3, <2>4
<1> QED BY <1>2, <1>3

(* What DecodeMsg does to a message, of any text.                          *)
LEMMA DecodeFacts ==
  ASSUME CodecAssumption, kind \in {"request", "respond"}, NEW old,
         NEW text \in Seq(Unit), NEW msg, msg = ParseFromString(old, text)
  PROVE  /\ msg \in Message /\ NoTags(Fields, msg.unknown)
         /\ \A F \in [Fields -> Values], rest \in Seq(Unit) :
              NoTags(Fields, rest) /\ text = Serialize([fields |-> F, unknown |-> rest])
                => msg.fields = F
         /\ \A f \in Fields : \/ msg.fields[f] = Cleared.fields[f]
                             \/ InText(text, f, msg.fields[f])
<1> PICK start : start = Start(Cleared.fields)
  OBVIOUS
<1> PICK end : end = Parsed(Fields, start, text)
  OBVIOUS
<1>1. msg = [fields |-> end.fields, unknown |-> end.unknown]
  BY DEF ParseFromString, ParseRequest, ParseRespond, ParseInto, Fields, Cleared, Start
<1>2. Cleared.fields \in [Fields -> Values]
  <2>1. 0 \in Values /\ Empty \in Values
    BY DEF CodecAssumption, Values, UnsignedNumbers
  <2>2. CASE kind = "request"
    BY <2>1, <2>2 DEF Cleared, ClearedRequest, Fields, RequestFields
  <2>3. CASE kind = "respond"
    BY <2>1, <2>3 DEF Cleared, ClearedRespond, Fields
  <2> QED BY <2>1, <2>2, <2>3
<1>3. /\ Fields \in Known /\ start \in ParserState(Fields) /\ start.at = "none"
      /\ start.fields = Cleared.fields /\ start.unknown = << >>
      /\ NoTags(Fields, start.unknown)
  BY <1>2, KindFacts DEF ParserState, NoTags, Start
<1>4. end \in ParserState(Fields) /\ NoTags(Fields, end.unknown)
  BY <1>3, ParsedTypes
<1>5. msg \in Message /\ NoTags(Fields, msg.unknown)
  BY <1>1, <1>4 DEF Message, ParserState
<1>6. ASSUME NEW F \in [Fields -> Values], NEW rest \in Seq(Unit), NoTags(Fields, rest),
             text = Serialize([fields |-> F, unknown |-> rest])
      PROVE  msg.fields = F
  <2>1. CASE kind = "request"
    <3>1. /\ Fields = RequestFields /\ text = SerializeRequest(F) \o rest
          /\ start = Start(ClearedRequest)
      BY <1>6, <2>1, KindFacts DEF Serialize, Cleared
    <3>2. /\ F \in [RequestFields -> Values] /\ NoTags(RequestFields, rest)
          /\ rest \in Seq(Unit)
      BY <1>6, <3>1
    <3>3. Parsed(RequestFields, Start(ClearedRequest), SerializeRequest(F) \o rest).fields = F
      BY ONLY CodecAssumption, <3>2, RequestRoundTrip
    <3> QED BY <1>1, <3>1, <3>3
  <2>2. CASE kind = "respond"
    <3>1. /\ Fields = RespondFields /\ text = SerializeRespond(F) \o rest
          /\ start = Start(ClearedRespond)
      BY <1>6, <2>2, KindFacts DEF Serialize, Cleared
    <3>2. /\ F \in [RespondFields -> Values] /\ NoTags(RespondFields, rest)
          /\ rest \in Seq(Unit)
      BY <1>6, <3>1
    <3>3. Parsed(RespondFields, Start(ClearedRespond), SerializeRespond(F) \o rest).fields = F
      BY ONLY CodecAssumption, <3>2, RespondRoundTrip
    <3> QED BY <1>1, <3>1, <3>3
  <2> QED BY <2>1, <2>2
<1>7. ASSUME NEW f \in Fields
      PROVE  msg.fields[f] = Cleared.fields[f] \/ InText(text, f, msg.fields[f])
  <2>1. end.fields[f] = start.fields[f] \/ InText(text, f, end.fields[f])
    BY <1>3, FieldsOfText
  <2>2. end.fields = msg.fields
    BY <1>1
  <2> QED BY <1>3, <2>1, <2>2
<1> QED BY <1>5, <1>6, <1>7

-----------------------------------------------------------------------------
(* The text is what from tells: of the info, as its fields and what else   *)
(* the sender's object had, or the very text.                              *)
ComesFrom(text, from) ==
  /\ text \in Seq(Unit)
  /\ \A info \in from.info : \E rest \in Seq(Unit) :
       NoTags(Fields, rest) /\ text = TextOf(info, rest)
  /\ from.text # << >> => text = from.text

(* The message stands for the info, if it stands for any.                  *)
StandsFor(msg, infos) ==
  /\ NoTags(Fields, msg.unknown)
  /\ \A info \in infos : msg.fields = Wire(info)

(* The inductive invariant: an object stands for the info it was given,    *)
(* and the text it has, like the one in the body, for what it comes from.  *)
CodecInv ==
  /\ CodecTypeOK
  /\ \A o \in Messages :
       StandsFor(msg_[o], given[o]) /\ ComesFrom(enc_str_[o], origin[o])
  /\ ComesFrom(Reverse(body), carried)
  /\ bodySize = Len(body)
  /\ DecodedIsSent /\ NothingFromBefore

(* What a message is written as is a text: that of the info in it.         *)
LEMMA SerializeTypes ==
  ASSUME kind \in {"request", "respond"}, NEW msg \in Message
  PROVE  /\ Serialize(msg) \in Seq(Unit)
         /\ \A info : msg.fields = Wire(info) => Serialize(msg) = TextOf(info, msg.unknown)
<1>1. \A f \in Fields : Bytes(msg.fields, f) \in Seq(Unit) /\ Number(msg.fields, f) \in Seq(Unit)
  <2>1. Fields \in Known /\ msg.fields \in [Fields -> Values]
    BY KindFacts DEF Message
  <2> QED BY <2>1, PieceTypes
<1>2. msg.unknown \in Seq(Unit)
  BY DEF Message
<1>3. Serialize(msg) \in Seq(Unit)
  <2>1. CASE kind = "request"
    <3> DEFINE B(f) == Bytes(msg.fields, f)
    <3>1. /\ B("client_id") \in Seq(Unit) /\ B("server_id") \in Seq(Unit)
          /\ B("sign") \in Seq(Unit) /\ B("data") \in Seq(Unit)
      BY <1>1, <2>1 DEF Fields, RequestFields
    <3>2. Serialize(msg) = B("client_id") \o B("server_id") \o B("sign") \o B("data")
                             \o msg.unknown
      BY <2>1 DEF Serialize, SerializeRequest
    <3> HIDE DEF B
    <3> QED BY <1>2, <3>1, <3>2
  <2>2. CASE kind = "respond"
    <3> DEFINE B(f) == Bytes(msg.fields, f)
               N == Number(msg.fields, "seckey_id")
    <3>1. /\ N \in Seq(Unit) /\ B("client_id") \in Seq(Unit)
          /\ B("server_id") \in Seq(Unit) /\ B("data") \in Seq(Unit)
      BY <1>1, <2>2 DEF Fields, RespondFields
    <3>2. Serialize(msg) = N \o B("client_id") \o B("server_id") \o B("data")
                             \o msg.unknown
      BY <2>2 DEF Serialize, SerializeRespond
    <3> HIDE DEF B, N
    <3> QED BY <1>2, <3>1, <3>2
  <2> QED BY <2>1, <2>2
<1>4. ASSUME NEW info, msg.fields = Wire(info)
      PROVE  Serialize(msg) = TextOf(info, msg.unknown)
  BY <1>4 DEF TextOf, Serialize
<1> QED BY <1>3, <1>4

(* A message that is new or cleared stands for nothing.                    *)
LEMMA ClearedFacts ==
  ASSUME CodecAssumption, kind \in {"request", "respond"}
  PROVE  Cleared \in Message /\ StandsFor(Cleared, {})
<1>1. 0 \in Values /\ Empty \in Values
  BY DEF CodecAssumption, Values, UnsignedNumbers
<1>2. Cleared.fields \in [Fields -> Values] /\ Cleared.unknown = << >>
  <2>1. CASE kind = "request"
    BY <1>1, <2>1 DEF Cleared, ClearedRequest, Fields
  <2>2. CASE kind = "respond"
    BY <1>1, <2>2 DEF Cleared, ClearedRespond, Fields
  <2> QED BY <2>1, <2>2
<1>3. Cleared \in Message
  BY <1>2 DEF Cleared, Message
<1>4. StandsFor(Cleared, {})
  BY <1>2 DEF StandsFor, NoTags
<1> QED BY <1>3, <1>4

(* The invariant holds of new objects and of no body.                      *)
LEMMA CodecInvInit ==
  ASSUME CodecAssumption, CodecInit
  PROVE  CodecInv
<1> USE DEF CodecInit
<1>1. kind \in {"request", "respond"}
  OBVIOUS
<1>2. Cleared \in Message /\ StandsFor(Cleared, {})
  BY <1>1, ClearedFacts
<1>3. NoOrigin \in Origin /\ NoOrigin.info = {} /\ NoOrigin.text = << >>
  BY DEF NoOrigin, Origin
<1>4. CodecTypeOK
  BY <1>1, <1>2, <1>3 DEF CodecTypeOK, Message
<1>5. ASSUME NEW text \in Seq(Unit) PROVE ComesFrom(text, NoOrigin)
  BY <1>3 DEF ComesFrom
<1>6. << >> \in Seq(Unit) /\ Reverse(<< >>) \in Seq(Unit)
  <2>1. PICK text : text = << >>
    OBVIOUS
  <2>2. text \in Seq(Unit)
    BY <2>1
  <2> QED BY <2>1, <2>2, ReversedTwice
<1>7. DecodedIsSent /\ NothingFromBefore
  BY <1>3 DEF DecodedIsSent, NothingFromBefore
<1>8. ASSUME NEW o \in Messages
      PROVE  StandsFor(msg_[o], given[o]) /\ ComesFrom(enc_str_[o], origin[o])
  <2>1. msg_[o] = Cleared /\ given[o] = {} /\ enc_str_[o] = << >> /\ origin[o] = NoOrigin
    OBVIOUS
  <2> QED BY <1>2, <1>5, <1>6, <2>1
<1> QED BY <1>4, <1>5, <1>6, <1>7, <1>8 DEF CodecInv

(* While the class of the objects stays, so does what stands for what.     *)
LEMMA KindKept ==
  ASSUME kind' = kind
  PROVE  /\ Fields' = Fields /\ Infos' = Infos /\ Foreign' = Foreign
         /\ Origin' = Origin /\ Message' = Message /\ Cleared' = Cleared
         /\ \A msg, infos : StandsFor(msg, infos) => StandsFor(msg, infos)'
         /\ \A text, from : ComesFrom(text, from) => ComesFrom(text, from)'
<1>1. Fields' = Fields /\ Infos' = Infos /\ Foreign' = Foreign
  BY DEF Fields, Infos, Foreign
<1>2. Origin' = Origin /\ Message' = Message /\ Cleared' = Cleared
  BY <1>1 DEF Origin, Message, Cleared
<1>3. \A info : Wire(info)' = Wire(info)
  BY <1>1 DEF Wire
<1>4. \A info, rest : TextOf(info, rest)' = TextOf(info, rest)
  BY <1>3 DEF TextOf, Serialize
<1>5. ASSUME NEW msg, NEW infos, StandsFor(msg, infos) PROVE StandsFor(msg, infos)'
  BY <1>1, <1>3, <1>5 DEF StandsFor
<1>6. ASSUME NEW text, NEW from, ComesFrom(text, from) PROVE ComesFrom(text, from)'
  BY <1>1, <1>4, <1>6 DEF ComesFrom
<1> QED BY <1>1, <1>2, <1>5, <1>6

(* A step keeps the invariant if it keeps the types, if what the message   *)
(* or the text of an object becomes is as it should be, and so is what is  *)
(* carried and what was decoded.                                           *)
LEMMA CodecStep ==
  ASSUME CodecInv, kind' = kind, CodecTypeOK', bodySize' = Len(body'),
         \A o \in Messages : \/ StandsFor(msg_'[o], given'[o])
                             \/ msg_'[o] = msg_[o] /\ given'[o] = given[o],
         \A o \in Messages : \/ ComesFrom(enc_str_'[o], origin'[o])
                             \/ enc_str_'[o] = enc_str_[o] /\ origin'[o] = origin[o],
         \/ ComesFrom(Reverse(body'), carried')
         \/ body' = body /\ carried' = carried,
         \/ DecodedIsSent' /\ NothingFromBefore'
         \/ decoded' = decoded
  PROVE  CodecInv'
<1>1. ASSUME NEW o \in Messages
      PROVE  StandsFor(msg_[o], given[o])' /\ ComesFrom(enc_str_[o], origin[o])'
  <2>1. StandsFor(msg_'[o], given'[o])
    BY DEF CodecInv
  <2>2. ComesFrom(enc_str_'[o], origin'[o])
    BY DEF CodecInv
  <2>3. PICK m, g, e, r : /\ m = msg_'[o] /\ g = given'[o]
                          /\ e = enc_str_'[o] /\ r = origin'[o]
    OBVIOUS
  <2>4. StandsFor(m, g)' /\ ComesFrom(e, r)'
    BY <2>1, <2>2, <2>3, KindKept
  <2>5. Fields' = Fields
    BY KindKept
  <2> QED BY <2>3, <2>4 DEF StandsFor, ComesFrom
<1>2. ComesFrom(Reverse(body), carried)'
  <2>1. ComesFrom(Reverse(body'), carried')
    BY DEF CodecInv
  <2>2. PICK e, r : e = Reverse(body') /\ r = carried'
    OBVIOUS
  <2>3. ComesFrom(e, r)'
    BY <2>1, <2>2, KindKept
  <2> QED BY <2>2, <2>3 DEF ComesFrom
<1>3. DecodedIsSent' /\ NothingFromBefore'
  <2>1. CASE decoded' = decoded
    BY <2>1, KindKept DEF CodecInv, DecodedIsSent, NothingFromBefore
  <2> QED BY <2>1
<1> QED BY <1>1, <1>2, <1>3 DEF CodecInv

(* No action changes the class of the objects, and each has its reasons to *)
(* keep the invariant.                                                     *)
LEMMA CodecInvInitInfo ==
  ASSUME CodecAssumption, CodecInv, NEW o \in Messages, NEW info \in Infos,
         InitInfo(o, info)
  PROVE  CodecInv'
<1>1. /\ kind \in {"request", "respond"} /\ kind' = kind
      /\ msg_' = [msg_ EXCEPT ![o] = SetFields(@, info)]
      /\ given' = [given EXCEPT ![o] = {info}]
      /\ UNCHANGED <<enc_str_, origin, body, bodySize, carried, decoded>>
      /\ msg_ \in [Messages -> Message]
      /\ given \in [Messages -> {{}} \union {{i} : i \in Infos}]
  BY DEF CodecInv, CodecTypeOK, InitInfo, Message
<1> DEFINE new == SetFields(msg_[o], info)
<1>2. /\ new.fields = Wire(info) /\ new.unknown = msg_[o].unknown
      /\ new = [fields |-> new.fields, unknown |-> new.unknown]
  <2> PICK old : old = msg_[o]
    OBVIOUS
  <2>1. old \in [fields : [Fields -> Values], unknown : Seq(Unit)]
    BY <1>1 DEF Message
  <2>2. new = [old EXCEPT !.fields = Wire(info)]
    BY DEF SetFields, Wire
  <2> HIDE DEF new
  <2> QED BY <2>1, <2>2
<1>3. msg_[o].unknown \in Seq(Unit) /\ Wire(info) \in [Fields -> Values]
  BY <1>1, InfoFacts DEF Message
<1> HIDE DEF new
<1>4. new \in Message
  BY <1>2, <1>3 DEF Message
<1>5. StandsFor(new, {info})
  BY <1>2 DEF CodecInv, StandsFor
<1>6. msg_' = [msg_ EXCEPT ![o] = new]
  BY <1>1 DEF new
<1>7. /\ msg_' \in [Messages -> Message]
      /\ given' \in [Messages -> {{}} \union {{i} : i \in Infos}]
  BY <1>1, <1>4, <1>6
<1>8. CodecTypeOK'
  BY <1>1, <1>7, KindKept DEF CodecInv, CodecTypeOK, Message
<1>9. ASSUME NEW x \in Messages
      PROVE  \/ StandsFor(msg_'[x], given'[x])
             \/ msg_'[x] = msg_[x] /\ given'[x] = given[x]
  BY <1>1, <1>5, <1>6
<1>10. bodySize' = Len(body')
  BY <1>1 DEF CodecInv
<1> QED BY <1>1, <1>8, <1>9, <1>10, CodecStep

(* EncodeMsg: the text is of the info that the object stands for.          *)
LEMMA CodecInvEncodeMsg ==
  ASSUME CodecAssumption, CodecInv, NEW o \in Messages, EncodeMsg(o)
  PROVE  CodecInv'
<1>1. /\ kind \in {"request", "respond"} /\ kind' = kind /\ given[o] # {}
      /\ body' = Reverse(Serialize(msg_[o])) /\ bodySize' = Len(body')
      /\ carried' = [info |-> given[o], text |-> << >>]
      /\ UNCHANGED <<msg_, enc_str_, origin, given, decoded>>
      /\ msg_[o] \in Message /\ given[o] \in {{}} \union {{i} : i \in Infos}
  BY DEF CodecInv, CodecTypeOK, EncodeMsg, Carry, Pushed, Message
<1> PICK text : text = Serialize(msg_[o])
  OBVIOUS
<1>2. text \in Seq(Unit)
  BY <1>1, SerializeTypes
<1>3. Reverse(text) \in Seq(Unit) /\ Reverse(Reverse(text)) = text
  BY <1>2, ReversedTwice
<1>4. ComesFrom(text, carried')
  <2>1. ASSUME NEW info \in given[o]
        PROVE  \E rest \in Seq(Unit) : NoTags(Fields, rest) /\ text = TextOf(info, rest)
    <3>1. msg_[o].fields = Wire(info) /\ NoTags(Fields, msg_[o].unknown)
      BY DEF CodecInv, StandsFor
    <3>2. msg_[o].unknown \in Seq(Unit)
      BY <1>1 DEF Message
    <3>3. text = TextOf(info, msg_[o].unknown)
      BY <1>1, <3>1, SerializeTypes
    <3> QED BY <3>1, <3>2, <3>3
  <2> QED BY <1>1, <1>2, <2>1 DEF ComesFrom
<1>5. carried' \in Origin
  BY <1>1 DEF Origin
<1>6. body' \in Seq(Unit) /\ bodySize' \in Nat
  BY <1>1, <1>3
<1>7. CodecTypeOK'
  BY <1>1, <1>5, <1>6, KindKept DEF CodecInv, CodecTypeOK
<1>8. ComesFrom(Reverse(body'), carried')
  BY <1>1, <1>3, <1>4
<1> QED BY <1>1, <1>7, <1>8, CodecStep

(* A body from elsewhere: it is of no info, and there is nothing to keep.  *)
LEMMA CodecInvArrive ==
  ASSUME CodecAssumption, CodecInv, NEW text \in Foreign, Arrive(text)
  PROVE  CodecInv'
<1>1. /\ kind \in {"request", "respond"} /\ kind' = kind
      /\ body' = Reverse(text) /\ bodySize' = Len(body')
      /\ carried' = [info |-> {}, text |-> text]
      /\ UNCHANGED <<msg_, enc_str_, origin, given, decoded>>
  BY DEF CodecInv, CodecTypeOK, Arrive, Carry, Pushed
<1>2. text \in Seq(Unit)
  BY DEF CodecAssumption, Foreign
<1>3. Reverse(text) \in Seq(Unit) /\ Reverse(Reverse(text)) = text
  BY <1>2, ReversedTwice
<1>4. carried' \in Origin
  BY <1>1 DEF Origin
<1>5. body' \in Seq(Unit) /\ bodySize' \in Nat
  BY <1>1, <1>3
<1>6. CodecTypeOK'
  BY <1>1, <1>4, <1>5, KindKept DEF CodecInv, CodecTypeOK
<1>7. ComesFrom(Reverse(body'), carried')
  BY <1>1, <1>2, <1>3 DEF ComesFrom
<1> QED BY <1>1, <1>6, <1>7, CodecStep

(* InitMsg with a text: the body turned round twice is what was encoded.   *)
LEMMA CodecInvInitText ==
  ASSUME CodecAssumption, CodecInv, NEW o \in Messages, InitText(o)
  PROVE  CodecInv'
<1>1. /\ kind \in {"request", "respond"} /\ kind' = kind
      /\ enc_str_' = [enc_str_ EXCEPT ![o] = Reverse(body)]
      /\ body' = << >> /\ bodySize' = 0
      /\ origin' = [origin EXCEPT ![o] = carried] /\ carried' = NoOrigin
      /\ UNCHANGED <<msg_, given, decoded>>
      /\ enc_str_ \in [Messages -> Seq(Unit)] /\ body \in Seq(Unit)
      /\ origin \in [Messages -> Origin] /\ carried \in Origin
  BY DEF CodecInv, CodecTypeOK, InitText, Popped
<1>2. Reverse(body) \in Seq(Unit)
  BY <1>1, ReversedTwice
<1>3. /\ enc_str_' \in [Messages -> Seq(Unit)] /\ origin' \in [Messages -> Origin]
      /\ carried' \in Origin
  BY <1>1, <1>2 DEF NoOrigin, Origin
<1> body' \in Seq(Unit) /\ bodySize' \in Nat
  BY <1>1
<1>4. CodecTypeOK'
  BY <1>1, <1>3, KindKept DEF CodecInv, CodecTypeOK
<1>5. ASSUME NEW x \in Messages
      PROVE  \/ ComesFrom(enc_str_'[x], origin'[x])
             \/ enc_str_'[x] = enc_str_[x] /\ origin'[x] = origin[x]
  BY <1>1 DEF CodecInv
<1>6. ComesFrom(Reverse(body'), carried')
  <2>1. Reverse(body') \in Seq(Unit)
    <3>1. body' \in Seq(Unit)
      BY <1>1
    <3> PICK text : text = body'
      OBVIOUS
    <3> QED BY <3>1, ReversedTwice
  <2> QED BY <1>1, <2>1 DEF ComesFrom, NoOrigin
<1>7. bodySize' = Len(body')
  BY <1>1
<1> QED BY <1>1, <1>4, <1>5, <1>6, <1>7, CodecStep

(* DecodeMsg: Clear, then the round trip of the text, then its sign.       *)
LEMMA CodecInvDecodeMsg ==
  ASSUME CodecAssumption, CodecInv, NEW o \in Messages, DecodeMsg(o)
  PROVE  CodecInv'
<1> PICK text, from, msg : /\ text = enc_str_[o] /\ from = origin[o]
                           /\ msg = ParseFromString(msg_[o], text)
  OBVIOUS
<1>1. /\ kind \in {"request", "respond"} /\ kind' = kind
      /\ msg_ \in [Messages -> Message]
      /\ given \in [Messages -> {{}} \union {{i} : i \in Infos}]
      /\ text \in Seq(Unit) /\ from \in Origin /\ ComesFrom(text, from)
  BY DEF CodecInv, CodecTypeOK, DecodeMsg, Message
<1>2. /\ msg_' = [msg_ EXCEPT ![o] = msg] /\ msg_'[o] = msg
      /\ given' = [given EXCEPT ![o] = from.info]
      /\ decoded' = [origin |-> from, fields |-> Unwire(msg.fields)]
      /\ UNCHANGED <<enc_str_, origin, body, bodySize, carried>>
  BY <1>1 DEF DecodeMsg, Unwire
<1>3. /\ msg \in Message /\ NoTags(Fields, msg.unknown)
      /\ \A F \in [Fields -> Values], rest \in Seq(Unit) :
           NoTags(Fields, rest) /\ text = Serialize([fields |-> F, unknown |-> rest])
             => msg.fields = F
      /\ \A f \in Fields : \/ msg.fields[f] = Cleared.fields[f]
                          \/ InText(text, f, msg.fields[f])
  <2> PICK old : old = msg_[o]
    OBVIOUS
  <2> text \in Seq(Unit) /\ msg = ParseFromString(old, text)
    BY <1>1
  <2> kind \in {"request", "respond"}
    BY <1>1
  <2> QED BY ONLY CodecAssumption, kind \in {"request", "respond"}, text \in Seq(Unit),
                  msg = ParseFromString(old, text), DecodeFacts
<1>4. from.info \in {{}} \union {{i} : i \in Infos} /\ from.info \subseteq Infos
  BY <1>1 DEF Origin
<1>5. ASSUME NEW info \in from.info
      PROVE  msg.fields = Wire(info) /\ Unwire(msg.fields) = info
  <2>1. PICK rest \in Seq(Unit) : NoTags(Fields, rest) /\ text = TextOf(info, rest)
    BY <1>1 DEF ComesFrom
  <2>2. info \in Infos /\ Wire(info) \in [Fields -> Values] /\ Unwire(Wire(info)) = info
    BY <1>1, <1>4, InfoFacts
  <2> QED BY <1>3, <2>1, <2>2 DEF TextOf
<1>6. /\ msg_' \in [Messages -> Message]
      /\ given' \in [Messages -> {{}} \union {{i} : i \in Infos}]
      /\ DOMAIN decoded'.fields = Fields /\ decoded'.origin \in Origin
  BY <1>1, <1>2, <1>3, <1>4 DEF Unwire
<1>7. CodecTypeOK'
  BY <1>1, <1>2, <1>6, KindKept DEF CodecInv, CodecTypeOK, Message
<1>8. ASSUME NEW x \in Messages
      PROVE  \/ StandsFor(msg_'[x], given'[x])
             \/ msg_'[x] = msg_[x] /\ given'[x] = given[x]
  <2>1. StandsFor(msg, from.info)
    BY <1>3, <1>5 DEF StandsFor
  <2> QED BY <1>1, <1>2, <2>1
<1>9. DecodedIsSent'
  BY <1>2, <1>5 DEF DecodedIsSent
<1>10. NothingFromBefore'
  <2>1. from.text # << >> => text = from.text
    BY <1>1 DEF ComesFrom
  <2>2. \A f \in Fields : /\ msg.fields[f] \in Values
                         /\ decoded'.fields[f] = InInfo(f, msg.fields[f])
    BY <1>2, <1>3 DEF Unwire, Message
  <2>3. Fields' = Fields /\ Cleared' = Cleared /\ decoded'.origin = from
    BY <1>1, <1>2, KindKept
  <2>4. ASSUME from.text # << >>, NEW f \in Fields
        PROVE  \E v \in Values : /\ v = Cleared.fields[f] \/ InText(from.text, f, v)
                                /\ decoded'.fields[f] = InInfo(f, v)
    BY <1>3, <2>1, <2>2, <2>4
  <2> QED BY <2>3, <2>4 DEF NothingFromBefore
<1>11. bodySize' = Len(body')
  BY <1>2 DEF CodecInv
<1> QED BY <1>1, <1>2, <1>7, <1>8, <1>9, <1>10, <1>11, CodecStep

(* CreateMsg: a new message, made of nothing.                              *)
LEMMA CodecInvCreateMsg ==
  ASSUME CodecAssumption, CodecInv, NEW o \in Messages, CreateMsg(o)
  PROVE  CodecInv'
<1>1. /\ kind \in {"request", "respond"} /\ kind' = kind
      /\ msg_' = [msg_ EXCEPT ![o] = Cleared]
      /\ enc_str_' = [enc_str_ EXCEPT ![o] = << >>]
      /\ origin' = [origin EXCEPT ![o] = NoOrigin]
      /\ given' = [given EXCEPT ![o] = {}]
      /\ UNCHANGED <<body, bodySize, carried, decoded>>
      /\ msg_ \in [Messages -> Message] /\ enc_str_ \in [Messages -> Seq(Unit)]
      /\ origin \in [Messages -> Origin]
      /\ given \in [Messages -> {{}} \union {{i} : i \in Infos}]
  BY DEF CodecInv, CodecTypeOK, CreateMsg, Message
<1>2. Cleared \in Message /\ StandsFor(Cleared, {})
  BY <1>1, ClearedFacts
<1>3. NoOrigin \in Origin /\ ComesFrom(<< >>, NoOrigin)
  BY DEF NoOrigin, Origin, ComesFrom
<1>4. /\ msg_' \in [Messages -> Message] /\ enc_str_' \in [Messages -> Seq(Unit)]
      /\ origin' \in [Messages -> Origin]
      /\ given' \in [Messages -> {{}} \union {{i} : i \in Infos}]
  BY <1>1, <1>2, <1>3
<1>5. CodecTypeOK'
  BY <1>1, <1>4, KindKept DEF CodecInv, CodecTypeOK, Message
<1>6. ASSUME NEW x \in Messages
      PROVE  /\ \/ StandsFor(msg_'[x], given'[x])
                \/ msg_'[x] = msg_[x] /\ given'[x] = given[x]
             /\ \/ ComesFrom(enc_str_'[x], origin'[x])
                \/ enc_str_'[x] = enc_str_[x] /\ origin'[x] = origin[x]
  BY <1>1, <1>2, <1>3
<1>7. bodySize' = Len(body')
  BY <1>1 DEF CodecInv
<1> QED BY <1>1, <1>5, <1>6, <1>7, CodecStep

(* Every operation of every object keeps the invariant.                    *)
LEMMA CodecInvNext ==
  ASSUME CodecAssumption, CodecInv, [CodecNext]_codecVars
  PROVE  CodecInv'
<1>1. ASSUME NEW o \in Messages, NEW info \in Infos, InitInfo(o, info)
      PROVE  CodecInv'
  BY <1>1, CodecInvInitInfo
<1>2. ASSUME NEW o \in Messages, EncodeMsg(o) PROVE CodecInv'
  BY <1>2, CodecInvEncodeMsg
<1>3. ASSUME NEW o \in Messages, InitText(o) PROVE CodecInv'
  BY <1>3, CodecInvInitText
<1>4. ASSUME NEW o \in Messages, DecodeMsg(o) PROVE CodecInv'
  BY <1>4, CodecInvDecodeMsg
<1>5. ASSUME NEW o \in Messages, CreateMsg(o) PROVE CodecInv'
  BY <1>5, CodecInvCreateMsg
<1>6. ASSUME NEW text \in Foreign, Arrive(text) PROVE CodecInv'
  BY <1>6, CodecInvArrive
<1>7. CASE UNCHANGED codecVars
  <2>1. /\ kind' = kind /\ msg_' = msg_ /\ enc_str_' = enc_str_ /\ origin' = origin
        /\ given' = given /\ body' = body /\ bodySize' = bodySize
        /\ carried' = carried /\ decoded' = decoded
    BY <1>7 DEF codecVars
  <2>2. CodecTypeOK' /\ bodySize' = Len(body')
    BY <2>1, KindKept DEF CodecInv, CodecTypeOK
  <2> QED BY <2>1, <2>2, CodecStep
<1> QED BY <1>1, <1>2, <1>3, <1>4, <1>5, <1>6, <1>7 DEF CodecNext

(* The invariant, in every behaviour.                                      *)
LEMMA CodecInvariant == CodecSpec => []CodecInv
<1>1. CodecInit => CodecInv
  BY CodecAssumption, CodecInvInit
<1>2. CodecInv /\ [CodecNext]_codecVars => CodecInv'
  BY CodecAssumption, CodecInvNext
<1> QED BY <1>1, <1>2, PTL DEF CodecSpec

-----------------------------------------------------------------------------
(* Every variable has its type: no parsed text, whatever it is, leaves     *)
(* anything but values in the fields and units in the unknown part.        *)
THEOREM CodecTypeCorrect == CodecSpec => []CodecTypeOK
<1>1. CodecInv => CodecTypeOK
  BY DEF CodecInv
<1> QED BY <1>1, CodecInvariant, PTL

(* What is decoded is what was given to be encoded, for any objects,       *)
(* strings and range of the number, any number of infos and texts before.  *)
THEOREM DecodedAsSent == CodecSpec => []DecodedIsSent
<1>1. CodecInv => DecodedIsSent
  BY DEF CodecInv
<1> QED BY <1>1, CodecInvariant, PTL

(* Each field, the number too, that is decoded from a text that no such    *)
(* object made has a value that this text has for it, whole or cut off, or *)
(* its default value, whatever the text is and wherever it ends.           *)
THEOREM NoneFromBefore == CodecSpec => []NothingFromBefore
<1>1. CodecInv => NothingFromBefore
  BY DEF CodecInv
<1> QED BY <1>1, CodecInvariant, PTL

(* The header has the length of the body, and the room that is made for a  *)
(* message's text is its length.                                           *)
THEOREM SizesRight == CodecSpec => []SizesAgree
<1>1. CodecInv => SizesAgree
  BY SizeOfText DEF CodecInv, CodecTypeOK, SizesAgree
<1> QED BY <1>1, CodecInvariant, PTL

=============================================================================
