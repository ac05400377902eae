------------------------------ MODULE MsgCodec ------------------------------
(***************************************************************************)
(* transmission_msg::proto: objects of RequestMsg or of RespondMsg, which  *)
(* encode and decode, each for one info or, by InitMessage, for several;   *)
(* the protobuf texts they make and read; and the body of the              *)
(* mine_net::Message that carries a text, a stack of bytes.                *)
(*                                                                         *)
(* A text is a sequence of tags and values, the units that a body is made  *)
(* of.  The tag "other" stands for all that a message does not know, a     *)
(* known number of another wire type included.                             *)
(***************************************************************************)
EXTENDS Integers, SequencesExt

CONSTANTS
  Messages,                    \* objects of RequestMsg or RespondMsg
  Strings,                     \* values of fields of bytes
  Empty,                       \* the empty string
  MaxInt,                      \* the largest std::int32_t
  RequestInfos, RespondInfos,  \* what is encoded: a value for each field
  RequestTexts, RespondTexts   \* some that none of the objects made

VARIABLES
  kind,      \* "request" or "respond", the class of the objects
  msg_,      \* of each object
  enc_str_,  \* of each object
  origin,    \* history: where its enc_str_ comes from
  given,     \* history: the info that its msg_ stands for
  body,      \* of the mine_net message under way
  bodySize,  \* in its header
  carried,   \* history: what it was made of, an info or a text
  decoded    \* the last result of DecodeMsg, and what it came from

codecVars ==
  <<kind, msg_, enc_str_, origin, given, body, bodySize, carried, decoded>>

(* What is in a text.  The end of the text may cut a value off: v is then  *)
(* what the reader gets, which finds zeros behind the end of its buffer.   *)
Tag(f) == [tag |-> f]
Value(v) == [value |-> v]
Cut(v) == [value |-> v, cut |-> TRUE]
IsTag(unit) == "tag" \in DOMAIN unit
IsCut(unit) == "cut" \in DOMAIN unit

RequestFields == {"client_id", "server_id", "sign", "data"}
RespondFields == {"seckey_id", "client_id", "server_id", "data"}

(* std::int32_t of RespondInfo and uint32 of the message.                  *)
Numbers == -(MaxInt + 1) .. MaxInt
UnsignedNumbers == 0 .. 2 * MaxInt + 1
Unsigned(i) == i % (2 * (MaxInt + 1))
Signed(u) == IF u <= MaxInt THEN u ELSE u - 2 * (MaxInt + 1)

Values == Strings \union UnsignedNumbers
Unit ==
  [tag : RequestFields \union RespondFields \union {"other"}]
    \union [value : Values] \union [value : Values, cut : {TRUE}]

ASSUME CodecAssumption ==
  /\ Empty \in Strings /\ MaxInt \in Nat
  /\ RequestInfos \subseteq [RequestFields -> Strings]
  /\ \A info \in RespondInfos :
       /\ info \in [RespondFields -> Strings \union Numbers]
       /\ \A f \in RespondFields :
            info[f] \in IF f = "seckey_id" THEN Numbers ELSE Strings
  /\ RequestTexts \union RespondTexts \subseteq Seq(Unit)
  /\ \A text \in RequestTexts \union RespondTexts :  \* after a tag a value is read
       text # << >> => ~IsTag(text[Len(text)])

Fields == IF kind = "request" THEN RequestFields ELSE RespondFields
Infos == IF kind = "request" THEN RequestInfos ELSE RespondInfos
Foreign == IF kind = "request" THEN RequestTexts ELSE RespondTexts

-----------------------------------------------------------------------------
(* A new or cleared protobuf message.                                      *)
ClearedRequest == [f \in RequestFields |-> Empty]
ClearedRespond ==
  [f \in RespondFields |-> IF f = "seckey_id" THEN 0 ELSE Empty]
Cleared ==
  [fields |-> IF kind = "request" THEN ClearedRequest ELSE ClearedRespond,
   unknown |-> << >>]

(* A field with its default value is not written.                          *)
Bytes(fields, f) ==
  IF fields[f] = Empty THEN << >> ELSE <<Tag(f), Value(fields[f])>>
Number(fields, f) ==
  IF fields[f] = 0 THEN << >> ELSE <<Tag(f), Value(fields[f])>>

SerializeRequest(fields) ==
  Bytes(fields, "client_id") \o Bytes(fields, "server_id")
    \o Bytes(fields, "sign") \o Bytes(fields, "data")
SerializeRespond(fields) ==
  Number(fields, "seckey_id") \o Bytes(fields, "client_id")
    \o Bytes(fields, "server_id") \o Bytes(fields, "data")

(* ByteSizeLong: what SerializeAsString makes room for.                    *)
RequestSize(msg) ==
  2 * Quantify(RequestFields, LAMBDA f : msg.fields[f] # Empty)
RespondSize(msg) ==
  2 * Quantify(RespondFields \ {"seckey_id"},
               LAMBDA f : msg.fields[f] # Empty)
    + (IF msg.fields["seckey_id"] # 0 THEN 2 ELSE 0)
ByteSize(msg) ==
  (IF kind = "request" THEN RequestSize(msg) ELSE RespondSize(msg))
    + Len(msg.unknown)

(* Mutant: what the message does not know is dropped.                      *)
SerializeKnown(msg) ==
  IF kind = "request" THEN SerializeRequest(msg.fields)
  ELSE SerializeRespond(msg.fields)

(* EncodeMsg.                                                              *)
Serialize(msg) ==
  (IF kind = "request" THEN SerializeRequest(msg.fields)
   ELSE SerializeRespond(msg.fields)) \o msg.unknown

(* The parser after one more unit: at is the tag whose value is awaited,   *)
(* "none" between fields; after an error it is "failed" and the rest of    *)
(* the text is left.  A value is read into its place before it is known to *)
(* be whole: what there is of it stays there.                              *)
ParseUnit(known, parser, unit) ==
  LET next == IF IsCut(unit) THEN "failed" ELSE "none"
  IN  CASE parser.at = "failed" -> parser
        [] parser.at = "none" ->
             [parser EXCEPT !.at = IF IsTag(unit) THEN unit.tag ELSE "failed"]
        [] parser.at \in known /\ ~IsTag(unit) ->
             [parser EXCEPT !.fields[parser.at] = unit.value, !.at = next]
        [] parser.at \notin known \union {"none", "failed"} /\ ~IsTag(unit) ->
             [parser EXCEPT !.unknown = @ \o <<Tag(parser.at), Value(unit.value)>>,
                            !.at = next]
        [] OTHER -> [parser EXCEPT !.at = "failed"]

(* The parser between all units of the text, and at its end.               *)
Parsers(known, start, text) ==
  LET after[i \in 0 .. Len(text)] ==
        IF i = 0 THEN start ELSE ParseUnit(known, after[i - 1], text[i])
  IN  after
Parsed(known, start, text) == Parsers(known, start, text)[Len(text)]

(* The new content of msg.                                                 *)
ParseInto(known, msg, text) ==
  LET start == [fields |-> msg.fields, unknown |-> msg.unknown, at |-> "none"]
      end == Parsed(known, start, text)
  IN  [fields |-> end.fields, unknown |-> end.unknown]

ParseRequest(msg, text) == ParseInto(RequestFields, msg, text)
ParseRespond(msg, text) == ParseInto(RespondFields, msg, text)

(* Mutant: the text is merged into what the message has.                   *)
MergeFromString(msg, text) ==
  IF kind = "request" THEN ParseRequest(msg, text) ELSE ParseRespond(msg, text)

(* The message is cleared first; DecodeMsg does not look whether it was    *)
(* parsed to its end.                                                      *)
ParseFromString(msg, text) ==
  IF kind = "request" THEN ParseRequest(Cleared, text)
  ELSE ParseRespond(Cleared, text)

-----------------------------------------------------------------------------
NoOrigin == [info |-> {}, text |-> << >>]
Origin == [info : {{}} \union {{i} : i \in Infos}, text : Foreign \union {<< >>}]

CodecInit ==
  /\ kind \in {"request", "respond"}
  /\ msg_ = [o \in Messages |-> Cleared]
  /\ enc_str_ = [o \in Messages |-> << >>]
  /\ origin = [o \in Messages |-> NoOrigin]
  /\ given = [o \in Messages |-> {}]
  /\ body = << >> /\ bodySize = 0 /\ carried = NoOrigin
  /\ decoded = [origin |-> NoOrigin, fields |-> Cleared.fields]

(* All fields are set; what is unknown stays.                              *)
SetFields(msg, info) ==
  [msg EXCEPT !.fields = [f \in Fields |->
     IF f = "seckey_id" THEN Unsigned(info[f]) ELSE info[f]]]

(* InitMessage(info), by the constructor or later.                         *)
InitInfo(o, info) ==
  /\ msg_' = [msg_ EXCEPT ![o] = SetFields(@, info)]
  /\ given' = [given EXCEPT ![o] = {info}]
  /\ UNCHANGED <<kind, enc_str_, origin, body, bodySize, carried, decoded>>

(* operator<< for each byte, from the last one to the first.               *)
Pushed(text) == Reverse(text)

(* A text is put into a new mine_net message.                              *)
Carry(text) ==
  /\ body' = Pushed(text)
  /\ bodySize' = Len(body')

EncodeMsg(o) ==
  /\ given[o] # {}
  /\ Carry(Serialize(msg_[o]))
  /\ carried' = [info |-> given[o], text |-> << >>]
  /\ UNCHANGED <<kind, msg_, enc_str_, origin, given, decoded>>

(* Someone else sends a text.                                              *)
Arrive(text) ==
  /\ Carry(text)
  /\ carried' = [info |-> {}, text |-> text]
  /\ UNCHANGED <<kind, msg_, enc_str_, origin, given, decoded>>

(* Mutant: the loop compares with msg.Size() as it shrinks.                *)
PoppedHalf(stack) ==
  Reverse(SubSeq(stack, Len(stack) - (Len(stack) + 1) \div 2 + 1, Len(stack)))

(* operator>> as often as the body had bytes at first.                     *)
Popped(stack) == Reverse(stack)

(* The text is extracted, and an object made or set for it.                *)
InitText(o) ==
  /\ carried # NoOrigin
  /\ enc_str_' = [enc_str_ EXCEPT ![o] = Popped(body)]
  /\ body' = << >> /\ bodySize' = 0
  /\ origin' = [origin EXCEPT ![o] = carried]
  /\ carried' = NoOrigin
  /\ UNCHANGED <<kind, msg_, given, decoded>>

(* The field of the info: a number is converted back.                      *)
InInfo(f, v) == IF f = "seckey_id" THEN Signed(v) ELSE v

DecodeMsg(o) ==
  /\ origin[o] # NoOrigin
  /\ msg_' = [msg_ EXCEPT ![o] = ParseFromString(@, enc_str_[o])]
  /\ decoded' = [origin |-> origin[o],
                 fields |-> [f \in Fields |-> InInfo(f, msg_'[o].fields[f])]]
  /\ given' = [given EXCEPT ![o] = origin[o].info]
  /\ UNCHANGED <<kind, enc_str_, origin, body, bodySize, carried>>

(* The factory makes a new object in place of an old one.                  *)
CreateMsg(o) ==
  /\ msg_' = [msg_ EXCEPT ![o] = Cleared]
  /\ enc_str_' = [enc_str_ EXCEPT ![o] = << >>]
  /\ origin' = [origin EXCEPT ![o] = NoOrigin]
  /\ given' = [given EXCEPT ![o] = {}]
  /\ UNCHANGED <<kind, body, bodySize, carried, decoded>>

CodecNext ==
  \/ \E o \in Messages :
       \/ \E info \in Infos : InitInfo(o, info)
       \/ EncodeMsg(o) \/ InitText(o) \/ DecodeMsg(o) \/ CreateMsg(o)
  \/ \E text \in Foreign : Arrive(text)

CodecSpec == CodecInit /\ [][CodecNext]_codecVars

-----------------------------------------------------------------------------
(* Every variable has its type.                                            *)
CodecTypeOK ==
  /\ kind \in {"request", "respond"}
  /\ msg_ \in [Messages -> [fields : [Fields -> Values], unknown : Seq(Unit)]]
  /\ enc_str_ \in [Messages -> Seq(Unit)] /\ body \in Seq(Unit)
  /\ origin \in [Messages -> Origin] /\ carried \in Origin
  /\ given \in [Messages -> {{}} \union {{i} : i \in Infos}]
  /\ bodySize \in Nat
  /\ DOMAIN decoded.fields = Fields /\ decoded.origin \in Origin

(* What is decoded is what was given to be encoded, whatever the two       *)
(* objects were used for before: empty strings and the number 0, which are *)
(* not in the text, and numbers below 0, which the text cannot have.       *)
DecodedIsSent ==
  \A info \in decoded.origin.info : decoded.fields = info

(* The text has v, or what the end left of v, as a value of f.             *)
InText(text, f, v) ==
  \E i \in 2 .. Len(text) :
    text[i - 1] = Tag(f) /\ ~IsTag(text[i]) /\ text[i].value = v

(* Of a text that no such object made, damaged or not, each field is one   *)
(* that the text has, whole or cut off, or has its default value: nothing  *)
(* is left of what the object was used for before.                         *)
NothingFromBefore ==
  LET text == decoded.origin.text
  IN  text # << >> =>
        \A f \in Fields : \E v \in Values :
          /\ v = Cleared.fields[f] \/ InText(text, f, v)
          /\ decoded.fields[f] = InInfo(f, v)

(* The header tells the reader how many bytes the body has, as many as     *)
(* protobuf makes room for.                                                *)
SizesAgree ==
  /\ bodySize = Len(body)
  /\ \A o \in Messages : ByteSize(msg_[o]) = Len(Serialize(msg_[o]))

=============================================================================
