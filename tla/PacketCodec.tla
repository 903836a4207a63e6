----------------------------- MODULE PacketCodec -----------------------------
(***************************************************************************)
(* Packet as a stream: values written with << on one host and read back    *)
(* with >> on another, of any types and in any order, before or after more *)
(* is written.                                                             *)
(*                                                                         *)
(* A byte is a number; a number of several bytes is the tuple of them, the *)
(* most significant first, whatever the host.  Signed and unsigned types   *)
(* of one width are read and written alike; int32 stands for both.  A      *)
(* std::size_t is wide enough for every length.  Wide characters are below *)
(* 2^16, which all hosts' wchar_t hold.                                    *)
(***************************************************************************)
EXTENDS Integers, Sequences, SequencesExt

CONSTANTS
  Writer, Reader,   \* byte order of the hosts: "little" or "big"
  Values,           \* the values that are written, per type
  Old, Junk,        \* what a destination keeps; what an uninitialised one holds
  MaxWrites, MaxReads

VARIABLES
  data,      \* data_
  readPos,   \* read_pos_
  isValid,   \* is_valid_
  sent,      \* what was written since clear(): <<type, value>>
  got        \* what was read since clear()

vars == <<data, readPos, isValid, sent, got>>

Scalars  == {"bool", "int16", "int32", "int64", "float"}
Texts    == {"string", "char*"}
Wides    == {"wstring", "wchar_t*"}
Vector   == "vector<int16>"
Types    == DOMAIN Values

Width == [bool |-> 1, int16 |-> 2, int32 |-> 4, int64 |-> 8, float |-> 4]

Byte == 0..255

\* Values have the widths of their types, and lengths fit in a byte; what a
\* destination keeps is no number.
PacketCodecAssumption ==
  /\ {Writer, Reader} \subseteq {"little", "big"}
  /\ Types \subseteq Scalars \cup Texts \cup Wides \cup {Vector}
  /\ \A type \in Types : \A v \in Values[type] :
       /\ type \in Scalars => v \in [1..Width[type] -> Byte]
       /\ type = "bool"    => v \in {<<0>>, <<1>>}
       /\ type \in Texts   => v \in Seq(Byte) /\ Len(v) < 256
       /\ type \in Wides   => v \in Seq([1..2 -> Byte]) /\ Len(v) < 256
       /\ type = Vector    => v \in Seq([1..2 -> Byte])
  /\ Old \notin [1..4 -> Byte]
  /\ {MaxWrites, MaxReads} \subseteq Nat

Init ==
  /\ data = <<>> /\ readPos = 0 /\ isValid = TRUE
  /\ sent = <<>> /\ got = <<>>
-----------------------------------------------------------------------------
(* Bytes *)

\* A number in a host's memory, and what htons and htonl make of it.
Memory(host, v) == IF host = "little" THEN Reverse(v) ELSE v
Swapped(host, v) == IF host = "little" THEN Reverse(v) ELSE v

\* The bytes of a number in the packet, and of the packet in a number: through
\* hton and ntoh, by shifts for 64 bits, and untouched for floating point.
Wire(host, type, v) ==
  IF type \in {"int16", "int32"} THEN Memory(host, Swapped(host, v))
  ELSE IF type = "float" THEN Memory(host, v) ELSE v

Length(n) == <<0, 0, 0, n>>
Number(b) == ((b[1] * 256 + b[2]) * 256 + b[3]) * 256 + b[4]

Encode(type, v) ==
  CASE type \in Scalars -> Wire(Writer, type, v)
    [] type \in Texts   -> Wire(Writer, "int32", Length(Len(v))) \o v
    [] type \in Wides   ->
         Wire(Writer, "int32", Length(Len(v)))
           \o FlattenSeq([i \in DOMAIN v |-> Wire(Writer, "int32", <<0, 0>> \o v[i])])
    [] type = Vector    -> FlattenSeq([i \in DOMAIN v |-> Wire(Writer, "int16", v[i])])

Write(type, v) ==
  /\ Len(sent) < MaxWrites
  /\ data' = data \o Encode(type, v)
  /\ sent' = Append(sent, <<type, v>>)
  /\ UNCHANGED <<readPos, isValid, got>>
-----------------------------------------------------------------------------
(* Reading: from position p, which the result moves; valid is is_valid_. *)

Bytes(p, n) == SubSeq(data, p + 1, p + n)

Unsticky(valid, p, n) == p + n <= Len(data)            \* forgets earlier failures
CheckSize(valid, p, n) == valid /\ p + n <= Len(data)

Scalar(type, valid, p) ==
  LET w == Width[type] IN
  IF CheckSize(valid, p, w)
  THEN [valid |-> TRUE, pos |-> p + w,
        value |-> LET v == Wire(Reader, type, Bytes(p, w)) IN
                  IF type = "bool" THEN (IF v = <<0>> THEN <<0>> ELSE <<1>>) ELSE v]
  ELSE [valid |-> FALSE, pos |-> p, value |-> Old]

\* The length is read first; an unreadable one counts as 0.  A std::string is
\* emptied then, an array keeps what it holds.
Text(type, valid, p) ==
  LET length == Scalar("int32", valid, p)
      n      == IF length.value = Old THEN 0 ELSE Number(length.value)
      each   == IF type \in Wides THEN 4 ELSE 1
      kept   == IF type \in {"string", "wstring"} THEN <<>> ELSE Old
  IN  IF n = 0 THEN [valid |-> length.valid, pos |-> length.pos, value |-> kept]
      ELSE IF ~CheckSize(length.valid, length.pos, n * each)
      THEN [valid |-> FALSE, pos |-> length.pos, value |-> kept]
      ELSE [valid |-> TRUE, pos |-> length.pos + n * each,
            value |-> [i \in 1..n |->
              IF each = 1 THEN data[length.pos + i]
              ELSE SubSeq(Wire(Reader, "int32", Bytes(length.pos + (i - 1) * 4, 4)), 3, 4)]]

\* A vector is read into the size it has; its elements come from a variable
\* that a failed read leaves uninitialised.
Elements(n, valid, p) ==
  LET whole == { k \in 0..n : k = 0 \/ CheckSize(valid, p, 2 * k) }
      k     == CHOOSE i \in whole : \A j \in whole : j <= i
  IN  [valid |-> valid /\ k = n, pos |-> p + 2 * k,
       value |-> [i \in 1..n |-> IF i <= k THEN Wire(Reader, "int16", Bytes(p + 2 * (i - 1), 2))
                                 ELSE Junk]]

Decode(type, n) ==
  CASE type \in Scalars       -> Scalar(type, isValid, readPos)
    [] type \in Texts \cup Wides -> Text(type, isValid, readPos)
    [] type = Vector          -> Elements(n, isValid, readPos)

Read(type, n) ==
  /\ Len(got) < MaxReads
  /\ LET r == Decode(type, n) IN
     /\ readPos' = r.pos /\ isValid' = r.valid
     /\ got' = Append(got, <<type, r.value>>)
  /\ UNCHANGED <<data, sent>>

Start == 0

Clear ==
  /\ data' = <<>> /\ readPos' = Start /\ isValid' = TRUE
  /\ sent' = <<>> /\ got' = <<>>

Next ==
  \/ \E type \in Types : \E v \in Values[type] : Write(type, v)
  \/ \E type \in Types, n \in 0..2 : (type = Vector \/ n = 0) /\ Read(type, n)
  \/ Clear

Spec == Init /\ [][Next]_vars
-----------------------------------------------------------------------------
(* Properties *)

\* No read leaves the packet, with whatever types it is read.
TypeOK ==
  /\ readPos \in 0..Len(data)
  /\ isValid \in BOOLEAN
  /\ Len(sent) <= MaxWrites /\ Len(got) <= MaxReads

\* Two values are of one type; vectors have to be of one size.
Alike(x, y) == x[1] = y[1] /\ (x[1] = Vector => Len(x[2]) = Len(y[2]))

InStep == Len(got) <= Len(sent) /\ \A i \in DOMAIN got : Alike(got[i], sent[i])

\* "data is interpreted correctly according to the endianness" (Packet.hpp:238):
\* who reads the types that were written and finds the packet valid has read
\* the values that were written, even if an earlier read came too early
RoundTrip == isValid /\ InStep => \A i \in DOMAIN got : got[i] = sent[i]

\* "True if all data was read" (Packet.hpp:75): and then the packet is at its
\* end, neither before nor after
EndsTogether ==
  isValid /\ InStep /\ Len(got) = Len(sent) => readPos = Len(data)

\* a read of the type that comes next succeeds
NextIsThere ==
  [][isValid /\ InStep /\ Len(got) < Len(sent) /\ got' # got /\ InStep' => isValid']_vars
=============================================================================
