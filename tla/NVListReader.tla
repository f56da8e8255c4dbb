---------------------------- MODULE NVListReader -----------------------------
(***************************************************************************)
(* A buffer with a packed nvlist in it, and NVListReader.Next              *)
(* (zfs/nvlist/decode.go), which steps through it.                         *)
(*                                                                         *)
(* In native encoding a list is its pairs followed by an end mark, a size  *)
(* of zero.  A list that is the value of a pair is not inside the pair: it *)
(* follows it, one after another for an array, and then the list the pair  *)
(* is in goes on.  A buffer is a record:                                   *)
(*   len      length of the buffer                                         *)
(*   size     length of the packed list, at most len                       *)
(*   encoding "native" or "other", from the header; what XDR looks like,   *)
(*            which the reader knows in parts, is not described            *)
(*   endian   "little" or "big", from the header                           *)
(*   at       the cells: at[o] is the pair or the end mark at offset o     *)
(*   pending  pending[o]: the lists not yet ended at offset o, the one the *)
(*            cell at o belongs to first (it is not in the bytes: it says  *)
(*            what they mean)                                              *)
(*   role     role[l]: what list l describes                               *)
(* A cell is a record: size (0 for an end mark), name, type, n (number of  *)
(* elements), sub (the lists that follow as its value), list (the one it   *)
(* belongs to).                                                            *)
(***************************************************************************)
EXTENDS Integers, Sequences

CONSTANTS
  ListId,     \* identities of lists
  PairName,   \* names of pairs
  Buffer,     \* Buffer[i]: the buffers the kernel fills
  Exported,   \* names of the dataset properties that become metrics
  MaxElements \* the reader's limit for numElements (65535)

HeaderLen == 12   \* encoding, endianness, reserved, version, flags
Int32Len == 4

Nested == {"nvlist", "nvlist_array"}
Type == Nested \cup
  {"unknown", "boolean", "byte", "int16", "uint16", "int32", "uint32", "int64", "uint64",
   "string", "byte_array", "int16_array", "uint16_array", "int32_array", "uint32_array",
   "int64_array", "uint64_array", "string_array", "hrtime", "boolean_value", "int8", "uint8",
   "boolean_array", "int8_array", "uint8_array", "double"}
Role == {"configs", "stats", "vdev", "props", "value", "ignored", "other"}

Cell == [size : Nat, name : PairName, type : Type, n : Nat,
         sub : Seq(ListId), list : ListId]

\* Where the cell after the one at o begins.
After(b, o) == o + (IF b.at[o].size = 0 THEN Int32Len ELSE b.at[o].size)

\* What the lists in the value of pair c describe.
SubRole(role, name) ==
  IF <<role, name>> \in {<<"stats", "vdev_tree">>, <<"vdev", "children">>} THEN "vdev"
  ELSE IF role = "props" THEN (IF name \in Exported THEN "value" ELSE "ignored")
  ELSE "other"

\* The cell at o continues the list that is innermost at o.
WellPlaced(b, o) ==
  LET c == b.at[o]
  IN  /\ o \in HeaderLen .. (b.size - 1)
      /\ After(b, o) \in DOMAIN b.pending
      /\ \A q \in DOMAIN b.at : q <= o \/ q >= After(b, o)
      /\ b.pending[o] # <<>>
      /\ c.list = Head(b.pending[o])
      /\ c.list \in DOMAIN b.role
      /\ c.size = 0 => b.pending[After(b, o)] = Tail(b.pending[o])
      /\ c.size > 0 => b.pending[After(b, o)] = c.sub \o b.pending[o]

\* A pair has room for its size and is followed by the lists of its value; the
\* value and the source of a property are not lists.
WellTyped(b, o) ==
  LET c == b.at[o]
  IN  c.size > 0 =>
      /\ c.size >= Int32Len
      /\ c.type = "nvlist" => Len(c.sub) = 1
      /\ c.type = "nvlist_array" => Len(c.sub) = c.n
      /\ c.type \notin Nested => c.sub = <<>>
      /\ b.role[c.list] \in {"value", "ignored"} => c.type \notin Nested
      /\ \A i \in DOMAIN c.sub :
           /\ c.sub[i] \in DOMAIN b.role
           /\ b.role[c.sub[i]] = SubRole(b.role[c.list], c.name)
      /\ \A q \in DOMAIN b.at :
           b.at[q].size > 0 /\ b.at[q].list = c.list /\ b.at[q].name = c.name => q = o

\* A list is the value of one pair, and in one place there, or is the outermost.
DistinctLists(b) ==
  \A o, q \in DOMAIN b.at : \A i \in DOMAIN b.at[o].sub :
    /\ b.at[o].sub[i] # Head(b.pending[HeaderLen])
    /\ \A j \in DOMAIN b.at[q].sub : b.at[o].sub[i] = b.at[q].sub[j] => o = q /\ i = j

WellFormed(b) ==
  /\ b.size \in Nat /\ b.len \in Nat /\ b.size <= b.len
  /\ b.encoding \in {"native", "other"}
  /\ b.endian \in {"little", "big"}
  /\ DOMAIN b.at \subseteq Nat
  /\ b.at \in [DOMAIN b.at -> Cell]
  /\ b.role \in [DOMAIN b.role -> Role]
  /\ DOMAIN b.pending = DOMAIN b.at \cup {b.size}
  /\ b.pending \in [DOMAIN b.pending -> Seq(ListId)]
  /\ b.size \notin DOMAIN b.at
  /\ HeaderLen \in DOMAIN b.at
  /\ Len(b.pending[HeaderLen]) = 1
  /\ b.pending[b.size] = <<>>
  /\ \A o \in DOMAIN b.at : WellPlaced(b, o) /\ WellTyped(b, o)
  /\ DistinctLists(b)

ASSUME BufferAssumption ==
  /\ MaxElements \in Nat
  /\ \A i \in DOMAIN Buffer : WellFormed(Buffer[i])

-----------------------------------------------------------------------------
(* readNvHeader, readInt32, readBytes and Next. *)

\* One byte more to spare.
MutantReadable(b, pos, n) == pos + n + 1 < b.len

\* The bounds check every read makes before it takes n bytes at pos: a read
\* that ends at the end of the buffer is refused.
Readable(b, pos, n) == pos + n < b.len

\* Next reads the header first when it is called at position 0.
HeaderOK(b, pos) ==
  pos = 0 => /\ b.encoding = "native"
             /\ b.endian = "little"
             /\ Readable(b, HeaderLen - Int32Len, Int32Len)

\* The error Next returns where it returns no pair: ErrInvalidEncoding, or
\* "conversion from big endian not yet supported", or else ErrInvalidData.
ReadError(b, pos) ==
  IF pos = 0 /\ b.encoding # "native" THEN "encoding"
  ELSE IF pos = 0 /\ b.endian = "big" THEN "endian"
  ELSE "invalid"

Start(pos) == IF pos = 0 THEN HeaderLen ELSE pos

\* Next can take the size at the start of the cell it is at.
SizeOK(b, pos) == HeaderOK(b, pos) /\ Readable(b, Start(pos), Int32Len)

\* Next returns io.EOF.
AtEnd(b, pos) == SizeOK(b, pos) /\ b.at[Start(pos)].size = 0

\* Next returns the type of a pair: the pair ends in the buffer (counted from
\* after its size field), and it has no more elements than the reader takes.
AtPair(b, pos) ==
  LET c == b.at[Start(pos)]
  IN  /\ SizeOK(b, pos)
      /\ c.size > 0
      /\ Readable(b, Start(pos) + Int32Len, c.size)
      /\ c.n <= MaxElements

\* A reader that moves on only where lists follow.
MutantNextPos(b, pos) ==
  IF b.at[Start(pos)].type \in Nested THEN After(b, Start(pos)) ELSE Start(pos)

\* Where Next leaves the reader.
NextPos(b, pos) == After(b, Start(pos))
=============================================================================
