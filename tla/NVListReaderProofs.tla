------------------------- MODULE NVListReaderProofs --------------------------
(***************************************************************************)
(* What the proofs about the users of NVListReader need: facts about       *)
(* sequences, and about the cells of packed lists.                         *)
(***************************************************************************)
EXTENDS NVListReader, SequenceTheorems, TLAPS

LEMMA Concat ==
  ASSUME NEW S, NEW s \in Seq(S), NEW t \in Seq(S)
  PROVE  /\ s \o t \in Seq(S)
         /\ Len(s \o t) = Len(s) + Len(t)
         /\ \A i \in 1 .. Len(s) : (s \o t)[i] = s[i]
         /\ \A i \in 1 .. Len(t) : (s \o t)[Len(s) + i] = t[i]
OBVIOUS

LEMMA ConcatLeft ==
  ASSUME NEW S, NEW s \in Seq(S), NEW t \in Seq(S), NEW i \in 1 .. Len(s)
  PROVE  (s \o t)[i] = s[i]
OBVIOUS

LEMMA ConcatRight ==
  ASSUME NEW S, NEW s \in Seq(S), NEW t \in Seq(S), NEW i \in 1 .. Len(t)
  PROVE  (s \o t)[Len(s) + i] = t[i]
OBVIOUS

LEMMA ConcatNonEmpty ==
  ASSUME NEW S, NEW s \in Seq(S), NEW t \in Seq(S), t # <<>>
  PROVE  s \o t # <<>>
<1>1. Len(s) \in Nat /\ Len(t) \in Nat /\ Len(t) # 0
  BY EmptySeq
<1>2. Len(s \o t) = Len(s) + Len(t)
  BY Concat
<1>3. Len(s \o t) # 0
  BY <1>1, <1>2
<1>. QED
  BY <1>3

LEMMA LastOne ==
  ASSUME NEW S, NEW s \in Seq(S), s # <<>>
  PROVE  Tail(s) = <<>> <=> Len(s) = 1
<1>1. Len(Tail(s)) = Len(s) - 1 /\ Tail(s) \in Seq(S) /\ Len(s) \in Nat
  OBVIOUS
<1>2. Tail(s) = <<>> <=> Len(Tail(s)) = 0
  BY <1>1, EmptySeq
<1>. QED
  BY <1>1, <1>2

LEMMA SecondPart ==
  ASSUME NEW m \in Nat, NEW n \in Nat, NEW i \in 1 .. (m + n), i \notin 1 .. m
  PROVE  \E j \in 1 .. n : i = m + j
<1>1. i - m \in 1 .. n /\ i = m + (i - m)
  OBVIOUS
<1>. QED
  BY <1>1

\* What BufferAssumption says of one cell.
LEMMA CellFacts ==
  ASSUME NEW k \in DOMAIN Buffer, NEW o \in DOMAIN Buffer[k].at
  PROVE  /\ o \in Nat
         /\ Buffer[k].at[o] \in Cell
         /\ WellPlaced(Buffer[k], o)
         /\ WellTyped(Buffer[k], o)
BY BufferAssumption DEF WellFormed

LEMMA BufferFacts ==
  ASSUME NEW k \in DOMAIN Buffer
  PROVE  /\ Buffer[k].size \in Nat
         /\ Buffer[k].len \in Nat
         /\ Buffer[k].size <= Buffer[k].len
         /\ DOMAIN Buffer[k].pending = DOMAIN Buffer[k].at \cup {Buffer[k].size}
         /\ Buffer[k].pending[Buffer[k].size] = <<>>
         /\ HeaderLen \in DOMAIN Buffer[k].at
         /\ Len(Buffer[k].pending[HeaderLen]) = 1
         /\ \A o \in DOMAIN Buffer[k].pending : Buffer[k].pending[o] \in Seq(ListId)
         /\ \A l \in DOMAIN Buffer[k].role : Buffer[k].role[l] \in Role
BY BufferAssumption DEF WellFormed

LEMMA OffsetFacts ==
  ASSUME NEW k \in DOMAIN Buffer, NEW q \in DOMAIN Buffer[k].at
  PROVE  q \in Nat /\ q >= HeaderLen /\ q < Buffer[k].size
<1>1. q \in Nat /\ q \in HeaderLen .. (Buffer[k].size - 1)
  BY CellFacts DEF WellPlaced
<1>2. Buffer[k].size \in Nat
  BY BufferFacts
<1>. QED
  BY <1>1, <1>2 DEF HeaderLen

\* The cell after one of a list that is not the last to end.
LEMMA NextCell ==
  ASSUME NEW k \in DOMAIN Buffer, NEW o \in DOMAIN Buffer[k].at,
         Buffer[k].pending[After(Buffer[k], o)] # <<>>
  PROVE  /\ After(Buffer[k], o) \in DOMAIN Buffer[k].at
         /\ After(Buffer[k], o) > o
         /\ Start(After(Buffer[k], o)) = After(Buffer[k], o)
<1>1. WellPlaced(Buffer[k], o) /\ o \in Nat /\ Buffer[k].at[o].size \in Nat
  BY CellFacts DEF Cell
<1>2. After(Buffer[k], o) \in DOMAIN Buffer[k].pending
  BY <1>1 DEF WellPlaced
<1>3. After(Buffer[k], o) \in DOMAIN Buffer[k].at
  BY <1>2, BufferFacts
<1>4. After(Buffer[k], o) \in Nat /\ After(Buffer[k], o) > o
  BY <1>1 DEF After, Int32Len
<1>. QED
  BY <1>1, <1>3, <1>4 DEF Start
=============================================================================
