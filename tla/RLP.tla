--------------------------------- MODULE RLP ---------------------------------
(***************************************************************************)
(* algorithms/serialization.go, the RLP part: RLPEncode, RLPDecode, and a  *)
(* caller that reads an encoded value through RLPReader, item by item, a   *)
(* reader per list.  What is read may stop short of the whole encoding.    *)
(* A buffer that is decoded is as long as what it holds, so that a slice   *)
(* expression beyond its end panics.                                       *)
(*                                                                         *)
(* Operators named Fault... are wrong versions of the one that follows.    *)
(***************************************************************************)
EXTENDS Integers, Sequences, SequencesExt

CONSTANT RLPValues    (* values to encode: built of Bytes, Uint, List and Null *)

Bytes(data) == [kind |-> "bytes", data |-> data]
Uint(n) == [kind |-> "uint64", n |-> n]
List(items) == [kind |-> "list", items |-> items]
Null == [kind |-> "nil"]

VARIABLES
  stream,       (* the value sent, and its encoding or a part of it          *)
  pos,          (* bytes of it read                                          *)
  limits,       (* of the reader in use and those it came from: bytes left   *)
  strings,      (* what ReadString returned                                  *)
  outcome       (* of the caller: reading, done or error                     *)

rlpVars == <<stream, pos, limits, strings, outcome>>

-----------------------------------------------------------------------------
RECURSIVE EncodeBigEndian(_)
EncodeBigEndian(n) ==
  IF n < 256 THEN <<n>> ELSE Append(EncodeBigEndian(n \div 256), n % 256)

DecodeBigEndian(bytes) == FoldLeft(LAMBDA n, b : 256 * n + b, 0, bytes)

FaultShortLimit(base, payload) ==
  IF Len(payload) <= 56 THEN <<base + Len(payload)>> \o payload
  ELSE LET length == EncodeBigEndian(Len(payload))
       IN  <<base + 55 + Len(length)>> \o length \o payload

(* The header of a string, base 0x80, or of a list, base 0xc0. *)
WithHeader(base, payload) ==
  IF Len(payload) <= 55 THEN <<base + Len(payload)>> \o payload
  ELSE LET length == EncodeBigEndian(Len(payload))
       IN  <<base + 55 + Len(length)>> \o length \o payload

EncodeString(data) ==
  IF Len(data) = 1 /\ data[1] <= 127 THEN data ELSE WithHeader(128, data)

EncodeUint64(n) ==
  IF n = 0 THEN <<128>> ELSE IF n <= 127 THEN <<n>> ELSE EncodeString(EncodeBigEndian(n))

RECURSIVE Encode(_)
EncodeList(items) ==
  WithHeader(192, FlattenSeq([k \in 1..Len(items) |-> Encode(items[k])]))
Encode(v) ==
  CASE v.kind = "bytes" -> EncodeString(v.data)
    [] v.kind = "uint64" -> EncodeUint64(v.n)
    [] v.kind = "list" -> EncodeList(v.items)
    [] v.kind = "nil" -> <<128>>

-----------------------------------------------------------------------------
(* What RLPDecode returns: Go's byte, string, []byte or []interface{}.     *)
GoByte(b) == [type |-> "byte", is |-> b]
GoString == [type |-> "string", is |-> <<>>]
GoBytes(data) == [type |-> "[]byte", is |-> data]
GoList(items) == [type |-> "[]interface{}", is |-> items]

Failed == [ok |-> FALSE]
Item(value, used) == [ok |-> TRUE, value |-> value, used |-> used]

Slice(data, from, length) ==
  IF from - 1 + length <= Len(data) THEN SubSeq(data, from, from - 1 + length) ELSE <<-1>>

(* The header at offset: the bytes it takes and the length it announces.   *)
Header(data, offset, base) ==
  LET key == data[offset]
      lengthBytes == Slice(data, offset + 1, key - base - 55)
  IN  IF key <= base + 55 THEN [size |-> 1, length |-> key - base]
      ELSE IF lengthBytes = <<-1>> THEN [size |-> 0, length |-> 0]
      ELSE [size |-> 1 + Len(lengthBytes), length |-> DecodeBigEndian(lengthBytes)]

(***************************************************************************)
(* rlpDecodeItem, and its loop over the payload of a list.  Failed is an   *)
(* error or the panic of a slice expression.                               *)
(***************************************************************************)
RECURSIVE DecodeItem(_, _)
RECURSIVE DecodeItems(_, _, _)
DecodeItems(data, from, end) ==
  IF from >= end THEN [ok |-> TRUE, items |-> <<>>]
  ELSE LET first == DecodeItem(data, from)
       IN  IF ~first.ok THEN Failed
           ELSE LET rest == DecodeItems(data, from + first.used, end)
                IN  IF rest.ok THEN [ok |-> TRUE, items |-> <<first.value>> \o rest.items]
                    ELSE Failed

DecodeItem(data, offset) ==
  IF offset > Len(data) THEN Failed
  ELSE
    LET key == data[offset]
        header == Header(data, offset, IF key < 192 THEN 128 ELSE 192)
        start == offset + header.size
        used == header.size + header.length
        string == Slice(data, start, header.length)
        list == DecodeItems(data, start, offset + used)
    IN  CASE key <= 127 -> Item(GoByte(key), 1)
          [] key = 128 -> Item(GoString, 1)
          [] key = 192 -> Item(GoBytes(<<>>), 1)
          [] key > 128 /\ key < 192 ->
               IF header.size = 0 \/ string = <<-1>> THEN Failed
               ELSE Item(GoBytes(string), used)
          [] key > 192 ->
               IF header.size = 0 \/ ~list.ok THEN Failed ELSE Item(GoList(list.items), used)

-----------------------------------------------------------------------------
RLPInit ==
  /\ \E v \in RLPValues :
       LET whole == Encode(v)
       IN  \E sent \in {Len(whole)} \cup {k \in 0..Len(whole) : k <= 6 \/ k >= Len(whole) - 3} :
             stream = [value |-> v, bytes |-> SubSeq(whole, 1, sent)]
  /\ pos = 0
  /\ limits = <<Len(Encode(stream.value))>>
  /\ strings = <<>>
  /\ outcome = "reading"

(* io.ReadFull of n bytes can be served: by the stream and by every reader.*)
Available(n) == pos + n <= Len(stream.bytes) /\ \A k \in DOMAIN limits : n <= limits[k]
NoneLeft == pos = Len(stream.bytes) \/ Head(limits) = 0

(* The next item: its first byte, its header, and its bytes for ReadString.*)
Key == stream.bytes[pos + 1]
NextHeader == Header(stream.bytes, pos + 1, IF Key < 192 THEN 128 ELSE 192)
HeaderSize == IF Key <= 127 THEN 0 ELSE NextHeader.size
DataSize == IF Key <= 127 THEN 1 ELSE IF Key < 192 THEN NextHeader.length ELSE 0

Cut == ~NoneLeft /\ (NextHeader.size = 0 \/ ~Available(HeaderSize + DataSize))

(* io.EOF: no byte of the next chunk is left.  It is the end of a list to  *)
(* the caller, also when the chunk is the length or the data of an item.   *)
AtEOF ==
  \/ NoneLeft
  \/ Cut /\ Len(stream.bytes) = pos + (IF NextHeader.size = 0 THEN 1 ELSE HeaderSize)

ReadString ==
  /\ outcome = "reading" /\ ~NoneLeft /\ ~Cut /\ Key < 192
  /\ pos' = pos + HeaderSize + DataSize
  /\ limits' = [k \in DOMAIN limits |-> limits[k] - HeaderSize - DataSize]
  /\ strings' = Append(strings, [level |-> Len(limits),
                                 data |-> SubSeq(stream.bytes, pos + HeaderSize + 1, pos')])
  /\ UNCHANGED <<stream, outcome>>

FaultNoLimit(length) == Head(limits) - HeaderSize
Limit(length) == length

(* The reader of the list is used from here until it is at its end. *)
ReadList ==
  /\ outcome = "reading" /\ ~NoneLeft /\ ~Cut /\ Key >= 192
  /\ pos' = pos + HeaderSize
  /\ limits' = <<Limit(NextHeader.length)>> \o [k \in DOMAIN limits |-> limits[k] - HeaderSize]
  /\ UNCHANGED <<stream, strings, outcome>>

EndOfList ==
  /\ outcome = "reading" /\ AtEOF
  /\ pos' = IF Cut THEN Len(stream.bytes) ELSE pos
  /\ limits' = Tail(limits)
  /\ outcome' = IF Len(limits) = 1 THEN "done" ELSE "reading"
  /\ UNCHANGED <<stream, strings>>

(* io.ErrUnexpectedEOF: the stream ends inside a chunk. *)
ReadError ==
  /\ outcome = "reading" /\ Cut /\ ~AtEOF
  /\ outcome' = "error"
  /\ UNCHANGED <<stream, pos, limits, strings>>

RLPNext == ReadString \/ ReadList \/ EndOfList \/ ReadError

-----------------------------------------------------------------------------
BytesOf(v) ==
  CASE v.kind = "bytes" -> v.data
    [] v.kind = "uint64" -> IF v.n = 0 THEN <<>> ELSE EncodeBigEndian(v.n)
    [] v.kind = "nil" -> <<>>

(* The value RLPDecode is to return for v, by the types of the code.       *)
RECURSIVE DecodedForm(_)
DecodedForm(v) ==
  IF v.kind = "list"
  THEN IF v.items = <<>> THEN GoBytes(<<>>)
       ELSE GoList([k \in 1..Len(v.items) |-> DecodedForm(v.items[k])])
  ELSE LET b == BytesOf(v)
       IN  IF b = <<>> THEN GoString
           ELSE IF Len(b) = 1 /\ b[1] <= 127 THEN GoByte(b[1]) ELSE GoBytes(b)

(***************************************************************************)
(* Decoding an encoding gives back the value and its length, nested and at *)
(* either side of 55 and 255 bytes, but for what the types lose: a single  *)
(* byte below 0x80 comes back as a byte, an empty string as a Go string,   *)
(* and an empty list as an empty []byte.                                   *)
(***************************************************************************)
RoundTrip ==
  LET whole == Encode(stream.value)
  IN  DecodeItem(whole, 1) = Item(DecodedForm(stream.value), Len(whole))

(***************************************************************************)
(* No proper part of an encoding decodes: a message cut short is never     *)
(* taken for a shorter one.                                                *)
(***************************************************************************)
CutNeverDecodes ==
  Len(stream.bytes) < Len(Encode(stream.value)) => ~DecodeItem(stream.bytes, 1).ok

(***************************************************************************)
(* RLPDecode takes an encoding as a whole, or not at all.                  *)
(***************************************************************************)
DecodesWhole == RoundTrip /\ CutNeverDecodes

(* The strings in v, each with the number of readers it is read through.   *)
RECURSIVE StringsOf(_, _)
StringsOf(v, level) ==
  IF v.kind = "list"
  THEN FlattenSeq([k \in 1..Len(v.items) |-> StringsOf(v.items[k], level + 1)])
  ELSE <<[level |-> level, data |-> BytesOf(v)]>>

(***************************************************************************)
(* Reading list by list yields the strings of the value whole, in order    *)
(* and each from the reader of its own list, all of them when nothing was  *)
(* cut.  A stream cut between two chunks ends the lists without an error,  *)
(* and the strings are only the first ones.                                *)
(***************************************************************************)
ReadsInOrder ==
  LET all == StringsOf(stream.value, 1)
  IN  /\ IsPrefix(strings, all)
      /\ (outcome # "reading" /\ stream.bytes = Encode(stream.value)) =>
           outcome = "done" /\ strings = all
=============================================================================
