----------------------------- MODULE BitsPacker -----------------------------
(***************************************************************************)
(* The wire format of packet fields: bits_packer of the server             *)
(* (include/wise.kernel/net/protocol/bits/bits_packer.hpp) and Packer of   *)
(* the C# client (client/cs/wise/Packer.cs).  One side packs a series of   *)
(* fields, the other unpacks fields of the same types, in the same order,  *)
(* into fresh objects.  A side is a little-endian server, a big-endian     *)
(* server or a C# client.                                                  *)
(*                                                                         *)
(* A character is a number; the ones from Lead on take two bytes in UTF-8. *)
(* A std::string of the server holds UTF-8 bytes, a std::wstring holds     *)
(* characters; the field types "string" and "text" stand for them, and     *)
(* both are a string of the client.                                        *)
(***************************************************************************)
EXTENDS Integers, Sequences, SequencesExt

CONSTANTS ByteEnd,       \* a byte is a number below ByteEnd (256)
          Lead,          \* the bytes from Lead on start two-byte characters
          MaxString,     \* config::max_string_size
          MaxContainer,  \* config::max_container_size
          Defined,       \* the numbers the C# enumeration defines
          Fields,        \* the values that may be packed, for every field type
          MaxFields      \* bound on the fields of a packet

VARIABLES writer, reader, \* the two sides
          packed,         \* the fields packed so far, each a type and a value
          bytes, ends,    \* the packet, and where each field ends in it
          wvalid,         \* is_valid_ of the writer's packer
          sent,           \* the reader has the packet
          pos, got,       \* the read position and the fields unpacked
          rvalid          \* is_valid_ of the reader's packer

pvars == <<writer, reader, packed, bytes, ends, wvalid, sent, pos, got, rvalid>>

Sides == {"little", "big", "client"}

LengthEnd == ByteEnd * ByteEnd   \* lengths are uint16_t

-----------------------------------------------------------------------------
(* Packing.  A step of the packer appends bytes and says if it is valid.   *)

Put(b) == [ok |-> TRUE, out |-> b]

Refuse == [ok |-> FALSE, out |-> <<>>]

\* One pack call after another: the first that is refused ends the series,
\* and what was appended before it stays.
Then(a, b) == IF a.ok THEN [ok |-> b.ok, out |-> a.out \o b.out] ELSE a

Low(n, w) == [i \in 1..w |-> (n \div ByteEnd^(i - 1)) % ByteEnd]

\* The bytes of a number of w bytes in the memory of a side.
Memory(side, n, w) == IF side = "big" THEN Reverse(Low(n, w)) ELSE Low(n, w)

\* The packer that forgets to swap on a big-endian host.
WireUnswapped(side, b) == b

\* swap_endian on a big-endian host; the client shifts the bytes out itself.
Wire(side, b) == IF side = "big" THEN Reverse(b) ELSE b

PackNumber(side, n, w) == Put(Wire(side, Memory(side, n, w)))

Utf8(s) ==
  FoldLeft(LAMBDA b, c : b \o (IF c < Lead THEN <<c>> ELSE <<Lead, c - Lead + 1>>),
           <<>>, s)

Counted(side, b) == Then(PackNumber(side, Len(b) % LengthEnd, 2), Put(b))

PackString(side, s) ==
  IF side # "client" /\ Len(Utf8(s)) > MaxString THEN Refuse
                                                 ELSE Counted(side, Utf8(s))

PackBytes(side, b) ==
  IF side # "client" /\ Len(b) > MaxContainer THEN Refuse ELSE Counted(side, b)

PackText(side, s) ==
  IF side # "client" /\ Len(s) > MaxString THEN Refuse ELSE PackBytes(side, Utf8(s))

PackStrings(side, ss) ==
  IF side # "client" /\ Len(ss) > MaxContainer
  THEN Refuse
  ELSE FoldLeft(LAMBDA a, s : Then(a, PackString(side, s)),
                PackNumber(side, Len(ss) % LengthEnd, 2), ss)

PackDate(side, d) ==
  FoldLeft(LAMBDA a, n : Then(a, PackNumber(side, n, 2)), Put(<<>>), d)

\* std::map is walked in the order of its keys.
PackMap(side, m) ==
  IF Cardinality(DOMAIN m) > MaxContainer
  THEN Refuse
  ELSE FoldLeft(LAMBDA a, k : Then(Then(a, PackNumber(side, k, 1)),
                                   PackNumber(side, m[k], 1)),
                PackNumber(side, Cardinality(DOMAIN m), 2),
                SetToSortSeq(DOMAIN m, <))

PackField(side, type, v) ==
  CASE type = "bool"    -> PackNumber(side, IF v THEN 1 ELSE 0, 1)
    [] type = "u16"     -> PackNumber(side, v, 2)
    [] type = "enum"    -> PackNumber(side, v, 4)
    [] type = "date"    -> PackDate(side, v)
    [] type = "string"  -> PackString(side, v)
    [] type = "text"    -> PackText(side, v)
    [] type = "bytes"   -> PackBytes(side, v)
    [] type = "strings" -> PackStrings(side, v)
    [] type = "map"     -> PackMap(side, v)

-----------------------------------------------------------------------------
(* Unpacking.  A step starts from a read position and, while it is valid,  *)
(* yields a value and the next position.                                   *)

Fail == [ok |-> FALSE, at |-> 0, v |-> <<>>]

\* resize_buffer::read of n bytes.  The client's Packer expects its caller
\* to have checked that the bytes are there, so it is given whole packets.
Take(at, n) ==
  IF at + n <= Len(bytes)
  THEN [ok |-> TRUE, at |-> at + n, v |-> SubSeq(bytes, at + 1, at + n)]
  ELSE Fail

\* r with its value put through Op.
Mapped(r, Op(_)) == IF r.ok THEN [r EXCEPT !.v = Op(r.v)] ELSE r

Number(side, b) ==
  LET m == Wire(side, b)
      l == IF side = "big" THEN Reverse(m) ELSE m
  IN  FoldLeft(+, 0, [i \in DOMAIN l |-> l[i] * ByteEnd^(i - 1)])

UnpackNumber(side, at, w) == Mapped(Take(at, w), LAMBDA b : Number(side, b))

\* n values one after another, each unpacked by Op from where the last ended.
UnpackEach(n, at, Op(_)) ==
  FoldLeft(LAMBDA r, i :
             IF ~r.ok THEN r
             ELSE LET e == Op(r.at)
                  IN  IF e.ok THEN [e EXCEPT !.v = Append(r.v, @)] ELSE Fail,
           [ok |-> TRUE, at |-> at, v |-> <<>>], [i \in 1..n |-> i])

\* A length and that many bytes; a server refuses a length above max.
UnpackCounted(side, at, max) ==
  LET n == UnpackNumber(side, at, 2)
  IN  IF ~n.ok \/ (side # "client" /\ n.v > max) THEN Fail ELSE Take(n.at, n.v)

\* utf8to16, for the byte strings Utf8 makes.
Chars(b) ==
  FoldLeft(LAMBDA s, i :
             IF b[i] >= Lead THEN s
             ELSE Append(s, IF i > 1 /\ b[i - 1] >= Lead THEN Lead + b[i] - 1 ELSE b[i]),
           <<>>, [i \in DOMAIN b |-> i])

\* s = tv: a C string ends at the first zero byte.
CString(b) ==
  LET zeros == {i \in DOMAIN b : b[i] = 0}
  IN  IF zeros = {} THEN b ELSE SubSeq(b, 1, Min(zeros) - 1)

UnpackString(side, at) ==
  Mapped(UnpackCounted(side, at, MaxString),
         LAMBDA b : Chars(IF side = "client" THEN b ELSE CString(b)))

UnpackText(side, at) ==
  LET r == Mapped(UnpackCounted(side, at, MaxContainer), Chars)
  IN  IF r.ok /\ side # "client" /\ Len(r.v) > MaxString THEN Fail ELSE r

UnpackStrings(side, at) ==
  LET n == UnpackNumber(side, at, 2)
  IN  IF ~n.ok \/ (side # "client" /\ n.v > MaxContainer) THEN Fail
      ELSE UnpackEach(n.v, n.at, LAMBDA p : UnpackString(side, p))

\* emplace refuses a key that is there already.
UnpackMap(side, at) ==
  LET n  == UnpackNumber(side, at, 2)
      kv == UnpackEach(2 * n.v, n.at, LAMBDA p : UnpackNumber(side, p, 1))
      Key(i) == kv.v[2 * i - 1]
  IN  IF \/ ~n.ok \/ n.v > MaxContainer \/ ~kv.ok
         \/ \E i, j \in 1..n.v : i # j /\ Key(i) = Key(j)
      THEN Fail
      ELSE [kv EXCEPT !.v = [k \in {Key(i) : i \in 1..n.v} |->
                               kv.v[2 * (CHOOSE i \in 1..n.v : Key(i) = k)]]]

\* UnpackEnum throws when the client's enumeration lacks the number.
UnpackEnum(side, at) ==
  LET r == UnpackNumber(side, at, 4)
  IN  IF r.ok /\ side = "client" /\ r.v \notin Defined THEN Fail ELSE r

UnpackField(side, type, at) ==
  CASE type = "bool"    -> Mapped(UnpackNumber(side, at, 1), LAMBDA n : n > 0)
    [] type = "u16"     -> UnpackNumber(side, at, 2)
    [] type = "enum"    -> UnpackEnum(side, at)
    [] type = "date"    -> UnpackEach(3, at, LAMBDA p : UnpackNumber(side, p, 2))
    [] type = "string"  -> UnpackString(side, at)
    [] type = "text"    -> UnpackText(side, at)
    [] type = "bytes"   -> UnpackCounted(side, at, MaxContainer)
    [] type = "strings" -> UnpackStrings(side, at)
    [] type = "map"     -> UnpackMap(side, at)

-----------------------------------------------------------------------------
PInit ==
  /\ writer \in Sides /\ reader \in Sides
  /\ packed = <<>> /\ bytes = <<>> /\ ends = <<>> /\ wvalid = TRUE
  /\ sent = FALSE /\ pos = 0 /\ got = <<>> /\ rvalid = TRUE

\* pack(field).  Once invalid, a packer appends nothing more.  The client has
\* no map type.
Pack(type, v) ==
  /\ ~sent /\ Len(packed) < MaxFields
  /\ type = "map" => "client" \notin {writer, reader}
  /\ LET r == IF wvalid THEN PackField(writer, type, v) ELSE Refuse
     IN  /\ bytes' = bytes \o r.out
         /\ wvalid' = r.ok
         /\ packed' = Append(packed, <<type, v>>)
         /\ ends' = Append(ends, Len(bytes) + Len(r.out))
  /\ UNCHANGED <<writer, reader, sent, pos, got, rvalid>>

\* A packet whose fields were all packed goes to the reader.  A server may
\* meet the end of the packet before the end of the fields, when the two
\* sides disagree on them.
Send(n) ==
  /\ ~sent /\ wvalid
  /\ reader = "client" => n = Len(bytes)
  /\ n <= Len(bytes)
  /\ sent' = TRUE
  /\ bytes' = SubSeq(bytes, 1, n)
  /\ UNCHANGED <<writer, reader, packed, ends, wvalid, pos, got, rvalid>>

\* unpack(field) into a fresh object.
Unpack ==
  /\ sent /\ rvalid /\ Len(got) < Len(packed)
  /\ LET r == UnpackField(reader, packed[Len(got) + 1][1], pos)
     IN  IF r.ok
         THEN /\ pos' = r.at
              /\ got' = Append(got, r.v)
              /\ rvalid' = TRUE
         ELSE rvalid' = FALSE /\ UNCHANGED <<pos, got>>
  /\ UNCHANGED <<writer, reader, packed, bytes, ends, wvalid, sent>>

PNext ==
  \/ \E t \in DOMAIN Fields : \E x \in Fields[t] : Pack(t, x)
  \/ \E n \in 0..Len(bytes) : Send(n)
  \/ Unpack

PSpec == PInit /\ [][PNext]_pvars

-----------------------------------------------------------------------------
\* What the reader is to see of a packed field: a std::string ends at the
\* first zero character.
Seen(type, v) ==
  LET Cut(s) == LET zeros == {i \in DOMAIN s : s[i] = 0}
                IN  IF zeros = {} THEN s ELSE SubSeq(s, 1, Min(zeros) - 1)
  IN  CASE reader # "client" /\ type = "string"  -> Cut(v)
        [] reader # "client" /\ type = "strings" -> [i \in DOMAIN v |-> Cut(v[i])]
        [] OTHER -> v

\* The fields a client packs and a server refuses, and the other way round.
Unwelcome(type, v) ==
  IF reader = "client"
  THEN type = "enum" /\ v \notin Defined
  ELSE /\ writer = "client"
       /\ \/ type = "string"  /\ Len(Utf8(v)) > MaxString
          \/ type = "strings" /\ Len(v) > MaxContainer
          \/ type = "strings" /\ \E i \in DOMAIN v : Len(Utf8(v[i])) > MaxString
          \/ type = "text"    /\ Len(v) > MaxString
          \/ type = "text"    /\ Len(Utf8(v)) > MaxContainer
          \/ type = "bytes"   /\ Len(v) > MaxContainer

\* Every field unpacked, by either language on either kind of host, is the
\* one that was packed in its place, and the read position is where that
\* field ended.  Unpacking fails exactly at the first field that the packet
\* ends in, or that exceeds the limits of the server's bits_packer or the
\* enumeration of the client's Packer.
ReadsWhatWasPacked ==
  LET n == Len(got)
      Stops(k) == ends[k] > Len(bytes) \/ Unwelcome(packed[k][1], packed[k][2])
  IN  sent => /\ \A k \in 1..n : got[k] = Seen(packed[k][1], packed[k][2]) /\ ~Stops(k)
              /\ pos = IF n = 0 THEN 0 ELSE ends[n]
              /\ ~rvalid => Stops(n + 1)
=============================================================================
