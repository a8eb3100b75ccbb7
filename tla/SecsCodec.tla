----------------------------- MODULE SecsCodec -----------------------------
(***************************************************************************)
(* The bytes on the HSMS wire: SECS-II items                               *)
(* (src/tpt-ate-comm/src/secs/item.rs) and the frames that carry them      *)
(* (HsmsMessage::encode, from_bytes and read_message in hsms.rs).          *)
(*                                                                         *)
(* An item is its format and its values: the items of a list, or elements  *)
(* of the format's width, each as its big-endian bytes.  A Boolean element *)
(* is <<0>> or <<1>>, a text has one byte per element.                     *)
(***************************************************************************)
EXTENDS Integers, Sequences, SequencesExt, Utf8

CONSTANT Radix  \* number of values of a byte of a length (2^8)

ASSUME RadixAssumption == Radix \in Nat \ {0, 1}

----------------------------------------------------------------------------
(* Items                                                                   *)

\* The header byte of each format, without the number of length bytes.
FormatCode ==
  [List |-> 0, Binary |-> 32, Boolean |-> 36, Ascii |-> 64, Jis8 |-> 68,
   I8 |-> 96, I1 |-> 100, I2 |-> 104, I4 |-> 112, F8 |-> 128, F4 |-> 132,
   U8 |-> 160, U1 |-> 164, U2 |-> 168, U4 |-> 176]

ElementWidth(format) ==
  CASE format \in {"I2", "U2"} -> 2
    [] format \in {"I4", "F4", "U4"} -> 4
    [] format \in {"I8", "F8", "U8"} -> 8
    [] OTHER -> 1

BigEndian(n, width) == [i \in 1 .. width |-> (n \div Radix^(width - i)) % Radix]
ValueOf(digits) == FoldLeft(LAMBDA n, digit : n * Radix + digit, 0, digits)

\* push_header panics on a longer item.
MaxLength == Radix^3 - 1

LengthDigits(n) == IF n < Radix THEN 1 ELSE IF n < Radix^2 THEN 2 ELSE 3

ItemHeader(format, n) ==
  <<FormatCode[format] + LengthDigits(n)>> \o BigEndian(n, LengthDigits(n))

RECURSIVE EncodeItem(_)
EncodeItem(item) ==
  IF item.format = "List"
  THEN ItemHeader("List", Len(item.values))
         \o FlattenSeq([i \in DOMAIN item.values |-> EncodeItem(item.values[i])])
  ELSE ItemHeader(item.format, Len(FlattenSeq(item.values))) \o FlattenSeq(item.values)

RECURSIVE ItemEncodes(_)
ItemEncodes(item) ==
  IF item.format = "List"
  THEN /\ Len(item.values) <= MaxLength
       /\ \A i \in DOMAIN item.values : ItemEncodes(item.values[i])
  ELSE Len(FlattenSeq(item.values)) <= MaxLength

NoItem == [ok |-> FALSE]

\* decode_fixed: whole elements; what is left of an odd length is dropped.
Elements(bytes, width) ==
  [i \in 1 .. Len(bytes) \div width |-> SubSeq(bytes, (i - 1) * width + 1, i * width)]

FlatItem(format, bytes) ==
  [format |-> format,
   values |->
     CASE format = "Boolean" -> [i \in DOMAIN bytes |-> IF bytes[i] = 0 THEN <<0>> ELSE <<1>>]
       [] format = "Ascii" -> Elements(Lossy(bytes), 1)
       [] OTHER -> Elements(bytes, ElementWidth(format))]

\* Variant for a sensitivity check: the length is not compared with what is left.
DecodeFlatUnchecked(format, n, body) ==
  LET m == IF n > Len(body) THEN Len(body) ELSE n
  IN [ok |-> TRUE, item |-> FlatItem(format, SubSeq(body, 1, m)),
      rest |-> SubSeq(body, m + 1, Len(body))]

DecodeFlat(format, n, body) ==
  IF n > Len(body) THEN NoItem
  ELSE [ok |-> TRUE, item |-> FlatItem(format, SubSeq(body, 1, n)),
        rest |-> SubSeq(body, n + 1, Len(body))]

\* decode_item: an item off the front of data, and what follows it; and so
\* many items, the first that fails ending it.
RECURSIVE DecodeItem(_), DecodeItems(_, _)
DecodeItem(data) ==
  LET formats == {f \in DOMAIN FormatCode : data # <<>> /\ FormatCode[f] = data[1] - (data[1] % 4)}
      digits == data[1] % 4
      n == ValueOf(SubSeq(data, 2, digits + 1))
      body == SubSeq(data, digits + 2, Len(data))
  IN IF formats = {} \/ digits = 0 \/ Len(data) < digits + 1 THEN NoItem
     ELSE IF formats = {"List"} THEN DecodeItems(n, body)
     ELSE DecodeFlat(CHOOSE f \in formats : TRUE, n, body)

DecodeItems(n, data) ==
  IF n = 0 THEN [ok |-> TRUE, item |-> [format |-> "List", values |-> <<>>], rest |-> data]
  ELSE LET first == DecodeItem(data)
           others == DecodeItems(n - 1, first.rest)
       IN IF ~first.ok \/ ~others.ok THEN NoItem
          ELSE [others EXCEPT !.item.values = <<first.item>> \o @]

\* SecsItem::from_bytes: exactly one item.
ItemFromBytes(data) ==
  LET got == DecodeItem(data)
  IN IF got.ok /\ got.rest = <<>> THEN [ok |-> TRUE, item |-> got.item] ELSE NoItem

----------------------------------------------------------------------------
(* Frames                                                                  *)

SType ==
  [Data |-> 0, SelectReq |-> 1, SelectRsp |-> 2, DeselectReq |-> 3, DeselectRsp |-> 4,
   LinktestReq |-> 5, LinktestRsp |-> 6, Reject |-> 7, Separate |-> 9]

\* A Data message without a body.
NoBody == [format |-> "none", values |-> <<>>]

\* The ten bytes of the header.  Select.rsp and Reject.req put their own
\* fields over some of the system bytes.
FrameHeader(msg) ==
  CASE msg.stype = "Data" ->
         msg.session_id
           \o <<(msg.stream % 128) + (IF msg.w_bit THEN 128 ELSE 0), msg.function % 128, 0, 0>>
           \o msg.system_bytes
    [] msg.stype = "SelectRsp" ->
         <<0, 0, 0, 0, 0, SType["SelectRsp"]>> \o SubSeq(msg.system_bytes, 1, 3) \o <<msg.status>>
    [] msg.stype = "Reject" ->
         <<0, 0, 0, 0, 0, SType["Reject"], msg.system_bytes[1], msg.rejected_s, msg.rejected_f,
           msg.reason>>
    [] OTHER -> <<0, 0, 0, 0, 0, SType[msg.stype]>> \o msg.system_bytes

FrameBody(msg) ==
  IF msg.stype = "Data" /\ msg.body # NoBody THEN EncodeItem(msg.body) ELSE <<>>

Framed(header, body) == BigEndian(10 + Len(body), 4) \o header \o body

EncodeFrame(msg) == Framed(FrameHeader(msg), FrameBody(msg))

\* from_bytes on a whole frame, behind the length: a message, or an error.
FrameError == [stype |-> "error"]

DataOf(header, body) ==
  LET item == IF body = <<>> THEN [ok |-> TRUE, item |-> NoBody] ELSE ItemFromBytes(body)
  IN IF header[5] # 0 \/ ~item.ok THEN FrameError
     ELSE [stype |-> "Data", session_id |-> SubSeq(header, 1, 2), stream |-> header[3] % 128,
           w_bit |-> header[3] >= 128, function |-> header[4] % 128,
           system_bytes |-> SubSeq(header, 7, 10), body |-> item.item]

MessageOf(frame) ==
  LET header == SubSeq(frame, 1, 10)
      system == SubSeq(frame, 7, 10)
      stype == header[6]
  IN IF Len(frame) < 10 THEN FrameError ELSE
     CASE stype = SType["Data"] -> DataOf(header, SubSeq(frame, 11, Len(frame)))
       [] stype = SType["SelectRsp"] ->
            [stype |-> "SelectRsp", system_bytes |-> system,
             status |-> IF header[10] < 2 THEN header[10] ELSE 2]
       [] stype = SType["Reject"] ->
            [stype |-> "Reject", system_bytes |-> system, reason |-> header[10],
             rejected_s |-> header[8], rejected_f |-> header[9]]
       [] stype \in {SType[t] : t \in {"SelectReq", "LinktestReq", "LinktestRsp", "Separate"}} ->
            [stype |-> CHOOSE t \in DOMAIN SType : SType[t] = stype, system_bytes |-> system]
       [] OTHER ->
            [stype |-> "Reject", system_bytes |-> system, reason |-> stype,
             rejected_s |-> header[8], rejected_f |-> header[9]]

EndOfStream == [stype |-> "eof"]

\* Variant for a sensitivity check: an undecodable frame is left on the stream
\* behind its length.
ReadMessagePart(stream) ==
  LET n == ValueOf(SubSeq(stream, 1, 4))
      message == MessageOf(SubSeq(stream, 5, 4 + n))
  IN IF Len(stream) < 4 \/ Len(stream) < 4 + n THEN [message |-> EndOfStream, rest |-> <<>>]
     ELSE [message |-> message,
           rest |-> SubSeq(stream, IF message = FrameError THEN 5 ELSE 5 + n, Len(stream))]

\* read_message: four bytes, the rest of the frame, then the decoding.  A
\* frame is off the stream before it is decoded.
ReadMessage(stream) ==
  LET n == ValueOf(SubSeq(stream, 1, 4))
  IN IF Len(stream) < 4 \/ Len(stream) < 4 + n THEN [message |-> EndOfStream, rest |-> <<>>]
     ELSE [message |-> MessageOf(SubSeq(stream, 5, 4 + n)),
           rest |-> SubSeq(stream, 5 + n, Len(stream))]

\* What a reader gets off a stream until it ends.
RECURSIVE Deliveries(_)
Deliveries(stream) ==
  LET got == ReadMessage(stream)
  IN IF got.message = EndOfStream THEN <<>> ELSE <<got.message>> \o Deliveries(got.rest)

----------------------------------------------------------------------------
(* What the codecs guarantee                                               *)

\* An item that can be encoded is decoded from its bytes, from no proper part
\* of them and with nothing added; so items can follow one another in a list.
ItemRoundTrips(item) ==
  LET bytes == EncodeItem(item)
  IN ItemEncodes(item) =>
       /\ ItemFromBytes(bytes) = [ok |-> TRUE, item |-> item]
       /\ \A n \in 0 .. Len(bytes) - 1 : ~DecodeItem(SubSeq(bytes, 1, n)).ok
       /\ \A byte \in {0, 1, FormatCode["U1"] + 1} :
            /\ DecodeItem(Append(bytes, byte)).rest = <<byte>>
            /\ ~ItemFromBytes(Append(bytes, byte)).ok

\* Whatever bytes are accepted, what is accepted can be encoded again, reads
\* as the same item from then on and, but for a replaced text, is no longer.
AcceptedItemSettles(data) ==
  LET got == ItemFromBytes(data)
  IN got.ok =>
       /\ ItemEncodes(got.item)
       /\ ItemFromBytes(EncodeItem(got.item)) = got
       /\ IsUtf8(data) => Len(EncodeItem(got.item)) <= Len(data)

\* What arrives for a message: seven bits of the stream and of the function,
\* and the bytes that lie over the system bytes.
Arrives(msg) ==
  LET system == msg.system_bytes
  IN CASE msg.stype = "Data" -> [msg EXCEPT !.stream = @ % 128, !.function = @ % 128]
       [] msg.stype = "SelectRsp" -> [msg EXCEPT !.system_bytes[4] = msg.status]
       [] msg.stype = "Reject" ->
            [msg EXCEPT !.system_bytes = <<system[1], msg.rejected_s, msg.rejected_f, msg.reason>>]
       [] OTHER -> msg

\* Frames written one behind the other are delivered one by one, each as it
\* arrives or as an error of its own; of a stream that is cut short the whole
\* frames are delivered.  A frame is its bytes and what should arrive for it.
FramesStaySeparate(frames) ==
  LET Bytes(n) == FlattenSeq([i \in 1 .. n |-> frames[i].bytes])
  IN \A n \in DOMAIN frames : \A cut \in 0 .. Len(frames[n].bytes) :
       Deliveries(Bytes(n - 1) \o SubSeq(frames[n].bytes, 1, cut)) =
         [i \in 1 .. (IF cut = Len(frames[n].bytes) THEN n ELSE n - 1) |-> frames[i].arrives]
=============================================================================
