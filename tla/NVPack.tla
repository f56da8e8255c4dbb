------------------------------- MODULE NVPack --------------------------------
(***************************************************************************)
(* Packing lists the way the kernel's nvlist_pack does in native encoding: *)
(* each pair, the lists of its value after it, and at the end of a list an *)
(* end mark.  Not code of this repository.                                 *)
(*                                                                         *)
(* A list is written as the sequence of pairs and end marks it is packed   *)
(* into; the j-th list of the k-th of them is called <<k, j>>.             *)
(***************************************************************************)
EXTENDS NVListReader, TLC

PairLen == 24   \* every pair gets the same length: only sums of them matter

Num(name) == <<[name |-> name, type |-> "uint64", n |-> 1, lists |-> 0]>>
Str(name) == <<[name |-> name, type |-> "string", n |-> 1, lists |-> 0]>>
Nums(name, n) == <<[name |-> name, type |-> "uint64_array", n |-> n, lists |-> 0]>>
Nv(name, list) == <<[name |-> name, type |-> "nvlist", n |-> 1, lists |-> 1]>> \o list
Nvs(name, n, lists) ==
  <<[name |-> name, type |-> "nvlist_array", n |-> n, lists |-> n]>> \o lists
End == <<[name |-> "", type |-> "end", n |-> 0, lists |-> 0]>>

\* list, n times.
Repeat(n, list) == [i \in 1 .. n * Len(list) |-> list[((i - 1) % Len(list)) + 1]]

\* The lists of the value of the k-th token, when role is what its own list
\* describes.
SubLists(w, k, role) ==
  [j \in 1 .. w[k].lists |-> [id |-> <<k, j>>, role |-> SubRole(role, w[k].name)]]

WireLen(token) == IF token.type = "end" THEN Int32Len ELSE PairLen

\* The tokens w of a list that describes role, in a buffer with room to spare.
Pack(w, role, encoding, endian, spare) ==
  LET open[k \in 1 .. Len(w) + 1] ==   \* the lists open before the k-th token
        IF k = 1 THEN <<[id |-> <<0, 0>>, role |-> role]>>
        ELSE LET before == open[k - 1]
             IN  IF w[k - 1].type = "end" THEN Tail(before)
                 ELSE SubLists(w, k - 1, Head(before).role) \o before
      offset[k \in 1 .. Len(w) + 1] ==
        IF k = 1 THEN HeaderLen ELSE offset[k - 1] + WireLen(w[k - 1])
      ids(s) == [i \in DOMAIN s |-> s[i].id]
      cell(k) ==
        [size |-> IF w[k].type = "end" THEN 0 ELSE PairLen,
         name |-> w[k].name,
         type |-> IF w[k].type = "end" THEN "string" ELSE w[k].type,
         n |-> w[k].n,
         sub |-> ids(SubLists(w, k, role)),
         list |-> Head(open[k]).id]
      index == [o \in {offset[k] : k \in 1 .. Len(w) + 1} |->
                  CHOOSE k \in 1 .. Len(w) + 1 : offset[k] = o]
      size == offset[Len(w) + 1]
      lists == UNION {{open[k][i] : i \in DOMAIN open[k]} : k \in 1 .. Len(w)}
  IN  [len |-> size + spare, size |-> size, encoding |-> encoding, endian |-> endian,
       at |-> [o \in DOMAIN index \ {size} |-> cell(index[o])],
       pending |-> [o \in DOMAIN index |-> ids(open[index[o]])],
       role |-> [l \in {r.id : r \in lists} |-> (CHOOSE r \in lists : r.id = l).role]]
=============================================================================
