-------------------------- MODULE KStatReaderProofs --------------------------
(***************************************************************************)
(* Proofs about KStatReader, for every set of files and every word the     *)
(* parsers of numbers may or may not take.                                 *)
(***************************************************************************)
EXTENDS KStatReader, SequenceTheorems, WellFoundedInduction, TLAPS

-----------------------------------------------------------------------------
(* Where the reader is within a line.  Line j + 1 is the one that follows    *)
(* the j-th line end: the titles for j = 1, then the rows.                   *)

NameOf(f, j) == IF j = 1 THEN "name" ELSE f.row[j - 1].name
DataOf(f, j) == IF j = 1 THEN <<"data">> ELSE f.row[j - 1].data

\* The type of line j + 1 is at s, and its data is behind d.
Split(f, j, s, d) ==
  LET from == f.end[j]
      to == f.end[j + 1]
  IN  /\ s \in Nat /\ d \in Nat
      /\ from + 2 < s /\ s < d /\ d < to
      /\ f.text[from + 1] = NameOf(f, j)
      /\ \A i \in (from + 2) .. (s - 1) : f.text[i] = SP
      /\ f.text[s] \in Word
      /\ j = 1 => f.text[s] = "type"
      /\ \A i \in (s + 1) .. d : f.text[i] = SP
      /\ DataOf(f, j) = SubSeq(f.text, d + 1, to - 1)
      /\ f.text[d + 1] # SP

\* At p the reader may read column c of line j + 1.  In the beginning of a line
\* that was cut it may be anywhere: it will not find the end of the line.
At(f, p, j, c) ==
  /\ j \in DOMAIN f.end
  /\ IF j + 1 \in DOMAIN f.end
     THEN \E s, d \in DOMAIN f.text :
            /\ Split(f, j, s, d)
            /\ p = IF c = 1 THEN f.end[j] ELSE IF c = 2 THEN f.end[j] + 2 ELSE s + 1
     ELSE IF c = 1 THEN p = f.end[j] ELSE p > f.end[j]

\* The type is that of the file.
TypeRead == IsNumber(<<Text[3]>>, Int32) /\ type = Int32[Text[3]] % 256

InHeader ==
  field \in 1 .. 7 =>
    /\ counters = NoCounters
    /\ file.end # <<>> => pos = 2 * (field - 1) /\ (field > 2 => TypeRead)

InTitles ==
  field \in 8 .. 10 =>
    /\ counters = NoCounters
    /\ At(file, pos, 1, field - 7)

InRow(k) ==
  /\ k >= 2
  /\ At(file, pos, k, field - 10)
  /\ AsWritten(k - 2)
  /\ field > 11 /\ k + 1 \in DOMAIN file.end => rowName = <<file.row[k - 1].name>>

InRows == field \in 11 .. 13 => \E k \in DOMAIN file.end : InRow(k)

IInv ==
  /\ TypeOK
  /\ InHeader /\ InTitles /\ InRows
  /\ CountersAsWritten /\ RefusesOnlyDamaged

-----------------------------------------------------------------------------
(* The first position that has a property.                                   *)

LEMMA SmallestIn ==
  ASSUME NEW S, S \subseteq Nat, S # {}
  PROVE  /\ Min(S) \in S
         /\ \A y \in S : Min(S) <= y
<1>1. PICK x \in S : \A y \in S : ~(<<y, x>> \in OpToRel(<, Nat))
  BY NatLessThanWellFounded, WFMin, Zenon
<1>2. ASSUME NEW y \in S PROVE x <= y
  <2>1. ~(y < x)
    BY <1>1, Zenon DEF OpToRel
  <2>. QED
    BY <2>1
<1>3. \E z \in S : \A y \in S : z <= y
  BY <1>2
<1>. QED
  BY <1>3, Zenon DEF Min

LEMMA MinIs ==
  ASSUME NEW S, S \subseteq Nat, NEW m \in S, \A y \in S : m <= y
  PROVE  Min(S) = m
<1>1. Min(S) \in S /\ \A y \in S : Min(S) <= y
  BY SmallestIn
<1>. DEFINE x == Min(S)
<1>2. x \in Nat /\ m \in Nat /\ x <= m /\ m <= x
  BY <1>1
<1>. HIDE DEF x
<1>3. x = m
  BY <1>2
<1>. QED
  BY <1>3 DEF x

\* What FileAssumption says of one file.
LEMMA FileFacts ==
  ASSUME NEW f \in File
  PROVE  /\ f.text \in Seq(Token)
         /\ Len(f.text) \in Nat
         /\ DOMAIN f.text = 1 .. Len(f.text)
         /\ f.end \in Seq(DOMAIN f.text)
         /\ Len(f.end) \in Nat
         /\ DOMAIN f.end = 1 .. Len(f.end)
         /\ \A j \in DOMAIN f.end : f.end[j] \in 1 .. Len(f.text)
         /\ f.row \in Seq(Row)
<1>1. f.text \in Seq(Token) /\ f.end \in Seq(DOMAIN f.text) /\ f.row \in Seq(Row)
  BY FileAssumption DEF WellFormed
<1>2. Len(f.text) \in Nat /\ DOMAIN f.text = 1 .. Len(f.text)
  BY <1>1
<1>. DEFINE D == DOMAIN f.text
            e == f.end
<1>3. e \in Seq(D)
  BY <1>1
<1>. HIDE DEF D, e
<1>4. Len(e) \in Nat /\ DOMAIN e = 1 .. Len(e) /\ \A j \in DOMAIN e : e[j] \in D
  BY <1>3
<1>. QED
  BY <1>1, <1>2, <1>4 DEF D, e

\* A line has no line end within it, the beginning of one after the last line none at all.
LEMMA NoLineEndWithin ==
  ASSUME NEW f \in File, NEW j \in DOMAIN f.end,
         NEW i \in DOMAIN f.text, f.end[j] < i,
         j + 1 \in DOMAIN f.end => i < f.end[j + 1]
  PROVE  f.text[i] # NL
<1>1. SUFFICES ASSUME f.text[i] = NL PROVE FALSE
  OBVIOUS
<1>2. PICK m \in DOMAIN f.end : f.end[m] = i
  BY <1>1, FileAssumption DEF WellFormed
<1>3. \A a, b \in DOMAIN f.end : a < b => f.end[a] < f.end[b]
  BY FileAssumption DEF WellFormed
<1>4. /\ Len(f.end) \in Nat /\ DOMAIN f.end = 1 .. Len(f.end)
      /\ f.end[j] \in Nat /\ f.end[m] \in Nat /\ i \in Nat
  BY FileFacts
<1>5. m > j
  <2>1. m # j
    BY <1>2, <1>4
  <2>2. ~(m < j)
    BY <1>2, <1>3, <1>4
  <2>. QED
    BY <1>4, <2>1, <2>2
<1>6. j + 1 \in DOMAIN f.end
  BY <1>4, <1>5
<1>7. m = j + 1 \/ j + 1 < m
  BY <1>4, <1>5
<1>8. f.end[j + 1] \in Nat /\ f.end[j + 1] <= i
  BY <1>2, <1>3, <1>4, <1>6, <1>7, FileFacts
<1>. QED
  BY <1>4, <1>6, <1>8

LEMMA NoLineEndAtAll ==
  ASSUME NEW f \in File, f.end = <<>>, NEW i \in DOMAIN f.text
  PROVE  f.text[i] # NL
BY FileAssumption DEF WellFormed

LEMMA LineEnds ==
  ASSUME NEW f \in File, NEW j \in DOMAIN f.end
  PROVE  /\ f.text[f.end[j]] = NL
         /\ f.end[j] \in DOMAIN f.text
         /\ j + 1 \in DOMAIN f.end => f.end[j] < f.end[j + 1]
<1>1. f.end[j] \in DOMAIN f.text /\ j \in Nat
  BY FileFacts
<1>2. f.text[f.end[j]] = NL
  BY <1>1, FileAssumption DEF WellFormed
<1>3. j + 1 \in DOMAIN f.end => f.end[j] < f.end[j + 1]
  <2>1. \A a, b \in DOMAIN f.end : a < b => f.end[a] < f.end[b]
    BY FileAssumption, Zenon DEF WellFormed
  <2>2. j < j + 1
    BY <1>1
  <2>. QED
    BY <2>1, <2>2, Zenon
<1>. QED
  BY <1>1, <1>2, <1>3

LEMMA RowCount ==
  ASSUME NEW f \in File
  PROVE  /\ Len(f.row) = IF Len(f.end) > 2 THEN Len(f.end) - 2 ELSE 0
         /\ DOMAIN f.row = 1 .. Len(f.row)
         /\ \A k \in DOMAIN f.row : f.row[k].name \in Word /\ f.row[k].data \in Seq(Word \cup {SP})
<1>1. f.row \in Seq(Row)
  BY FileFacts
<1>2. \A k \in DOMAIN f.row : f.row[k] \in Row
  BY <1>1
<1>3. DOMAIN f.row = 1 .. Len(f.row)
  BY <1>1
<1>. QED
  BY <1>2, <1>3, FileAssumption DEF WellFormed, Row

\* Every line after the first has its three columns.
LEMMA LineSplit ==
  ASSUME NEW f \in File, NEW j \in DOMAIN f.end, j + 1 \in DOMAIN f.end
  PROVE  \E s, d \in DOMAIN f.text : Split(f, j, s, d)
<1>. DEFINE from == f.end[j]
            to == f.end[j + 1]
            t == f.text
<1>1. /\ DOMAIN t = 1 .. Len(t) /\ Len(t) \in Nat /\ Len(f.end) \in Nat
      /\ DOMAIN f.end = 1 .. Len(f.end) /\ from \in 1 .. Len(t) /\ to \in 1 .. Len(t)
  BY FileFacts
<1>2. CASE j = 1
  <2>1. Columns(t, from, to, "name", "type", <<"data">>)
    BY <1>2, FileAssumption DEF WellFormed
  <2>. HIDE DEF from, to, t
  <2>2. PICK s, d \in (from + 1) .. to :
          /\ from + 2 < s /\ s < d /\ d < to
          /\ t[from + 1] = "name"
          /\ \A i \in (from + 2) .. (s - 1) : t[i] = SP
          /\ t[s] = "type"
          /\ \A i \in (s + 1) .. d : t[i] = SP
          /\ <<"data">> = SubSeq(t, d + 1, to - 1)
          /\ t[d + 1] # SP
    BY <2>1, Zenon DEF Columns
  <2>3. s \in DOMAIN t /\ d \in DOMAIN t /\ s \in Nat /\ d \in Nat
    BY <1>1, <2>2
  <2>4. Split(f, j, s, d)
    BY <1>2, <2>2, <2>3, TokenAssumption, Zenon DEF Split, NameOf, DataOf, from, to, t
  <2>. QED
    BY <2>3, <2>4 DEF t
<1>3. CASE j # 1
  <2>1. j - 1 \in DOMAIN f.row /\ j - 1 \in Int /\ (j - 1) + 1 = j /\ (j - 1) + 2 = j + 1
    BY <1>1, <1>3, RowCount
  <2>2. PICK w \in Word : Columns(t, from, to, f.row[j - 1].name, w, f.row[j - 1].data)
    <3>1. \E w \in Word : Columns(f.text, f.end[(j - 1) + 1], f.end[(j - 1) + 2],
                                  f.row[j - 1].name, w, f.row[j - 1].data)
      BY <2>1, FileAssumption, Zenon DEF WellFormed
    <3>. QED
      BY <2>1, <3>1, Zenon
  <2>. DEFINE n == f.row[j - 1].name
              v == f.row[j - 1].data
  <2>. HIDE DEF from, to, t, n, v
  <2>3. PICK s, d \in (from + 1) .. to :
          /\ from + 2 < s /\ s < d /\ d < to
          /\ t[from + 1] = n
          /\ \A i \in (from + 2) .. (s - 1) : t[i] = SP
          /\ t[s] = w
          /\ \A i \in (s + 1) .. d : t[i] = SP
          /\ v = SubSeq(t, d + 1, to - 1)
          /\ t[d + 1] # SP
    BY <2>2, Zenon DEF Columns, n, v
  <2>4. s \in DOMAIN t /\ d \in DOMAIN t /\ s \in Nat /\ d \in Nat
    BY <1>1, <2>3
  <2>5. Split(f, j, s, d)
    BY <1>3, <2>3, <2>4, Zenon DEF Split, NameOf, DataOf, from, to, t, n, v
  <2>. QED
    BY <2>4, <2>5 DEF t
<1>. QED
  BY <1>2, <1>3

-----------------------------------------------------------------------------
(* One read.                                                                 *)

\* The first delimiter ahead is the one found.
LEMMA NextDelimiter ==
  ASSUME Text \in Seq(Token), NEW b, NEW p \in Nat, NEW m \in (p + 1) .. Len(Text),
         Text[m] = b, \A i \in (p + 1) .. (m - 1) : Text[i] # b
  PROVE  Found(b, p) # {} /\ Min(Found(b, p)) = m
<1>. DEFINE n == Len(Text)
<1>1. n \in Nat
  OBVIOUS
<1>2. Found(b, p) = {i \in (p + 1) .. n : Text[i] = b}
  BY DEF Found
<1>. HIDE DEF n
<1>3. m \in Found(b, p) /\ Found(b, p) \subseteq Nat
  BY <1>1, <1>2 DEF n
<1>4. \A y \in Found(b, p) : m <= y
  BY <1>1, <1>2 DEF n
<1>. QED
  BY <1>3, <1>4, MinIs

LEMMA NoDelimiter ==
  ASSUME NEW b, NEW p, \A i \in (p + 1) .. Len(Text) : Text[i] # b
  PROVE  Found(b, p) = {}
BY DEF Found

LEMMA SkipSpaces ==
  ASSUME Text \in Seq(Token), NEW g \in 8 .. 13, NEW p \in Nat, NEW q \in p .. Len(Text),
         \A i \in (p + 1) .. q : Text[i] = SP,
         q = Len(Text) \/ Text[q + 1] # SP
  PROVE  Prefix(g, p) = q
<1>. DEFINE S == {i \in p .. Len(Text) : i = Len(Text) \/ Text[i + 1] # SP}
<1>1. Len(Text) \in Nat
  OBVIOUS
<1>2. q \in S /\ S \subseteq Nat
  BY <1>1
<1>3. ASSUME NEW y \in S, y < q PROVE FALSE
  <2>1. y + 1 \in (p + 1) .. q /\ y # Len(Text) /\ y \in p .. Len(Text)
    BY <1>1, <1>3
  <2>. QED
    BY <1>3, <2>1
<1>4. \A y \in S : q <= y
  BY <1>2, <1>3
<1>5. Min(S) = q
  <2>. HIDE DEF S
  <2>. QED
    BY <1>2, <1>4, MinIs
<1>. QED
  BY <1>5 DEF Prefix

\* A read begins where the reader is or further on, and leaves it behind that.
LEMMA ReadFacts ==
  ASSUME TypeOK, field # 0
  PROVE  /\ Prefix(field, pos) \in pos .. Len(Text)
         /\ Hits \subseteq Nat
         /\ Hits # {} => Min(Hits) \in (Prefix(field, pos) + 1) .. Len(Text)
         /\ Hits # {} => Text[Min(Hits)] = Delimiter(field)
         /\ Hits # {} => Read \in Seq(Token)
<1>1. /\ Text \in Seq(Token) /\ Len(Text) \in Nat /\ pos \in 0 .. Len(Text)
      /\ field \in 1 .. 13 /\ DOMAIN Text = 1 .. Len(Text)
  BY FileFacts DEF TypeOK, Text
<1>2. Prefix(field, pos) \in pos .. Len(Text)
  <2>1. CASE field <= 7
    <3>1. ~(field > 7)
      BY <1>1, <2>1
    <3>2. Prefix(field, pos) = pos
      BY <3>1 DEF Prefix
    <3>. QED
      BY <1>1, <3>2
  <2>2. CASE field > 7
    <3>. DEFINE S == {i \in pos .. Len(Text) : i = Len(Text) \/ Text[i + 1] # SP}
    <3>1. Len(Text) \in S /\ S \subseteq Nat /\ S \subseteq pos .. Len(Text)
      BY <1>1
    <3>2. Prefix(field, pos) = Min(S)
      BY <2>2 DEF Prefix
    <3>. HIDE DEF S
    <3>3. Min(S) \in S
      BY <3>1, SmallestIn
    <3>. QED
      BY <3>1, <3>2, <3>3
  <2>. QED
    BY <1>1, <2>1, <2>2
<1>. DEFINE p == Prefix(field, pos)
<1>3. Hits = {i \in (p + 1) .. Len(Text) : Text[i] = Delimiter(field)}
  BY DEF Hits, Found
<1>4. Hits \subseteq Nat
  BY <1>1, <1>2, <1>3
<1>5. ASSUME Hits # {}
      PROVE  /\ Min(Hits) \in (p + 1) .. Len(Text)
             /\ Text[Min(Hits)] = Delimiter(field)
             /\ Read \in Seq(Token)
  <2>1. Min(Hits) \in Hits
    BY <1>4, <1>5, SmallestIn
  <2>2. Min(Hits) \in (p + 1) .. Len(Text) /\ Text[Min(Hits)] = Delimiter(field)
    BY <1>3, <2>1
  <2>. DEFINE t == Text
              m == p + 1
              n == Min(Hits) - 1
  <2>3. m \in Int /\ n \in Int /\ \A i \in m .. n : t[i] \in Token
    BY <1>1, <1>2, <2>2
  <2>4. Read = SubSeq(t, m, n)
    BY DEF Read
  <2>. HIDE DEF t, m, n
  <2>5. SubSeq(t, m, n) \in Seq(Token)
    BY <2>3, SubSeqProperties
  <2>. QED
    BY <2>2, <2>4, <2>5
<1>. QED
  BY <1>2, <1>4, <1>5

LEMMA OneToken ==
  ASSUME Text \in Seq(Token), NEW m \in 1 .. Len(Text)
  PROVE  SubSeq(Text, m, m) = <<Text[m]>>
<1>. DEFINE t == Text
<1>1. t \in Seq(Token) /\ Len(t) \in Nat /\ m \in 1 .. Len(t) /\ m \in Nat /\ t[m] \in Token
  OBVIOUS
<1>. HIDE DEF t
<1>2. /\ SubSeq(t, m, m) \in Seq(Token)
      /\ Len(SubSeq(t, m, m)) = 1
      /\ SubSeq(t, m, m)[1] = t[m]
  <2>1. m \in Int /\ \A i \in m .. m : t[i] \in Token
    BY <1>1
  <2>2. /\ SubSeq(t, m, m) \in Seq(Token)
        /\ Len(SubSeq(t, m, m)) = IF m <= m THEN m - m + 1 ELSE 0
        /\ \A i \in 1 .. m - m + 1 : SubSeq(t, m, m)[i] = t[m + i - 1]
    BY <2>1, SubSeqProperties
  <2>3. m <= m /\ m - m + 1 = 1 /\ m + 1 - 1 = m
    BY <2>1
  <2>4. 1 \in 1 .. m - m + 1
    BY <2>3
  <2>. QED
    BY <2>2, <2>3, <2>4
<1>. DEFINE u == SubSeq(t, m, m)
            v == <<t[m]>>
<1>3. u \in Seq(Token) /\ Len(u) = 1 /\ u[1] = t[m]
  BY <1>2
<1>4. v \in Seq(Token) /\ Len(v) = 1 /\ v[1] = t[m]
  BY <1>1
<1>. HIDE DEF u, v
<1>5. u = v
  BY <1>3, <1>4, SeqEqual
<1>. QED
  BY <1>5 DEF u, v, t

LEMMA NotSpace ==
  /\ \A w \in Word : w # SP /\ w # NL
  /\ SP # NL
BY TokenAssumption

\* What precedes each of the following: the text and its lengths.
LEMMA TextFacts ==
  ASSUME TypeOK
  PROVE  /\ file \in File /\ Text = file.text /\ Text \in Seq(Token)
         /\ Len(Text) \in Nat /\ DOMAIN Text = 1 .. Len(Text)
         /\ pos \in Nat /\ pos <= Len(Text)
BY FileFacts DEF TypeOK, Text

\* The seven words of the first line.
LEMMA ReadsHeader ==
  ASSUME TypeOK, field \in 1 .. 7, file.end # <<>>, pos = 2 * (field - 1)
  PROVE  /\ Hits # {}
         /\ Min(Hits) = 2 * field
         /\ Read = <<Text[2 * field - 1]>>
         /\ file.end[1] = 14
<1>1. /\ file \in File /\ Text = file.text /\ Text \in Seq(Token)
      /\ Len(Text) \in Nat /\ DOMAIN Text = 1 .. Len(Text)
  BY TextFacts
<1>2. 1 \in DOMAIN file.end
  <2>1. file.end \in Seq(DOMAIN file.text) /\ Len(file.end) \in Nat /\ DOMAIN file.end = 1 .. Len(file.end)
    BY <1>1, FileFacts
  <2>2. Len(file.end) # 0
    BY <2>1, EmptySeq
  <2>. QED
    BY <2>1, <2>2
<1>3. /\ file.end[1] = 14
      /\ \A i \in 1 .. 13 : IF i % 2 = 1 THEN Text[i] \in Word ELSE Text[i] = SP
  BY <1>1, <1>2, FileAssumption DEF WellFormed
<1>4. Text[14] = NL /\ 14 <= Len(Text)
  <2>1. file.text[file.end[1]] = NL /\ file.end[1] \in DOMAIN file.text
    BY <1>1, <1>2, LineEnds
  <2>. QED
    BY <1>1, <1>3, <2>1
<1>5. Prefix(field, pos) = pos
  BY DEF Prefix
<1>6. Text[2 * field - 1] # Delimiter(field) /\ Text[2 * field] = Delimiter(field)
  <2>1. Text[2 * field - 1] \in Word
    <3>1. 2 * field - 1 \in 1 .. 13 /\ (2 * field - 1) % 2 = 1
      OBVIOUS
    <3>. QED
      BY <1>3, <3>1
  <2>2. CASE field = 7
    BY <1>4, <2>1, <2>2, NotSpace DEF Delimiter
  <2>3. CASE field # 7
    <3>1. 2 * field \in 1 .. 13 /\ (2 * field) % 2 # 1
      BY <2>3
    <3>2. Text[2 * field] = SP
      BY <1>3, <3>1
    <3>3. Delimiter(field) = SP
      BY <2>3 DEF Delimiter
    <3>. QED
      BY <2>1, <3>2, <3>3, NotSpace
  <2>. QED
    BY <2>2, <2>3
<1>. DEFINE m == 2 * field
<1>7. /\ pos \in Nat /\ m \in (pos + 1) .. Len(Text) /\ Text[m] = Delimiter(field)
      /\ \A i \in (pos + 1) .. (m - 1) : Text[i] # Delimiter(field)
  <2>1. pos = m - 2 /\ m \in 2 .. 14
    OBVIOUS
  <2>2. \A i \in (pos + 1) .. (m - 1) : i = 2 * field - 1
    BY <2>1
  <2>. QED
    BY <1>1, <1>4, <1>6, <2>1, <2>2
<1>8. Hits # {} /\ Min(Hits) = m
  <2>. HIDE DEF m
  <2>. QED
    BY <1>1, <1>5, <1>7, NextDelimiter DEF Hits
<1>9. Read = <<Text[2 * field - 1]>>
  <2>1. Read = SubSeq(Text, pos + 1, m - 1)
    BY <1>5, <1>8 DEF Read
  <2>2. pos + 1 = 2 * field - 1 /\ m - 1 = 2 * field - 1 /\ 2 * field - 1 \in 1 .. Len(Text)
    BY <1>1, <1>4
  <2>. QED
    BY <1>1, <2>1, <2>2, OneToken
<1>. QED
  BY <1>3, <1>8, <1>9

\* The three columns of a line.
LEMMA ReadsName ==
  ASSUME TypeOK, field \in {8, 11}, NEW j \in DOMAIN file.end, j + 1 \in DOMAIN file.end,
         NEW s, NEW d, Split(file, j, s, d), pos = file.end[j]
  PROVE  /\ Hits # {}
         /\ Min(Hits) = file.end[j] + 2
         /\ Read = <<NameOf(file, j)>>
<1>1. /\ file \in File /\ Text = file.text /\ Text \in Seq(Token)
      /\ Len(Text) \in Nat /\ DOMAIN Text = 1 .. Len(Text) /\ pos \in Nat
  BY TextFacts
<1>2. file.end[j + 1] \in 1 .. Len(Text)
  BY <1>1, FileFacts
<1>3. /\ s \in Nat /\ d \in Nat /\ pos + 2 < s /\ s < d /\ d < file.end[j + 1]
      /\ Text[pos + 1] = NameOf(file, j)
      /\ \A i \in (pos + 2) .. (s - 1) : Text[i] = SP
  BY <1>1 DEF Split
<1>10. pos + 2 <= Len(Text)
  <2>. DEFINE to == file.end[j + 1]
              n == Len(Text)
  <2>1. to \in 1 .. n /\ n \in Nat /\ d < to
    BY <1>1, <1>2, <1>3
  <2>. HIDE DEF to, n
  <2>2. pos + 2 <= n
    BY <1>1, <1>3, <2>1
  <2>. QED
    BY <2>2 DEF n
<1>4. NameOf(file, j) \in Word
  <2>1. j # 1 => j - 1 \in DOMAIN file.row
    <3>1. DOMAIN file.end = 1 .. Len(file.end) /\ Len(file.end) \in Nat
      BY <1>1, FileFacts
    <3>2. Len(file.row) = IF Len(file.end) > 2 THEN Len(file.end) - 2 ELSE 0
      BY <1>1, RowCount
    <3>3. DOMAIN file.row = 1 .. Len(file.row)
      BY <1>1, RowCount
    <3>. QED
      BY <3>1, <3>2, <3>3
  <2>. QED
    BY <1>1, <2>1, RowCount, TokenAssumption DEF NameOf
<1>5. Text[pos + 1] # SP /\ Text[pos + 2] = SP
  <2>1. pos + 2 \in (pos + 2) .. (s - 1)
    BY <1>1, <1>3
  <2>. QED
    BY <1>3, <1>4, <2>1, NotSpace
<1>6. Prefix(field, pos) = pos
  <2>1. pos \in pos .. Len(Text) /\ \A i \in (pos + 1) .. pos : Text[i] = SP
    BY <1>1, <1>10
  <2>2. field \in 8 .. 13
    OBVIOUS
  <2>. QED
    BY <1>1, <1>5, <2>1, <2>2, SkipSpaces
<1>7. Delimiter(field) = SP
  BY DEF Delimiter
<1>8. Hits # {} /\ Min(Hits) = pos + 2
  <2>. DEFINE m == pos + 2
  <2>1. /\ m \in (pos + 1) .. Len(Text) /\ Text[m] = SP
        /\ \A i \in (pos + 1) .. (m - 1) : Text[i] # SP
    <3>1. \A i \in (pos + 1) .. (m - 1) : i = pos + 1
      BY <1>1
    <3>. QED
      BY <1>1, <1>5, <1>10, <3>1
  <2>. HIDE DEF m
  <2>2. Hits # {} /\ Min(Hits) = m
    BY <1>1, <1>6, <1>7, <2>1, NextDelimiter DEF Hits
  <2>. QED
    BY <2>2 DEF m
<1>9. Read = <<NameOf(file, j)>>
  <2>1. Read = SubSeq(Text, pos + 1, (pos + 2) - 1)
    BY <1>6, <1>8 DEF Read
  <2>2. (pos + 2) - 1 = pos + 1 /\ pos + 1 \in 1 .. Len(Text)
    BY <1>1, <1>10
  <2>. QED
    BY <1>1, <1>3, <2>1, <2>2, OneToken
<1>. QED
  BY <1>8, <1>9

LEMMA ReadsType ==
  ASSUME TypeOK, field \in {9, 12}, NEW j \in DOMAIN file.end, j + 1 \in DOMAIN file.end,
         NEW s, NEW d, Split(file, j, s, d), pos = file.end[j] + 2
  PROVE  /\ Hits # {}
         /\ Min(Hits) = s + 1
         /\ Read = <<file.text[s]>>
<1>1. /\ file \in File /\ Text = file.text /\ Text \in Seq(Token)
      /\ Len(Text) \in Nat /\ DOMAIN Text = 1 .. Len(Text) /\ pos \in Nat
  BY TextFacts
<1>2. file.end[j + 1] \in 1 .. Len(Text) /\ file.end[j] \in Nat
  BY <1>1, FileFacts
<1>3. /\ s \in Nat /\ d \in Nat /\ pos < s /\ s < d /\ d < file.end[j + 1]
      /\ \A i \in pos .. (s - 1) : Text[i] = SP
      /\ Text[s] \in Word
      /\ \A i \in (s + 1) .. d : Text[i] = SP
  BY <1>1 DEF Split
<1>4. Text[s] # SP /\ Text[s + 1] = SP
  <2>1. s + 1 \in (s + 1) .. d
    BY <1>3
  <2>. QED
    BY <1>3, <2>1, NotSpace
<1>5. Prefix(field, pos) = s - 1
  <2>. DEFINE q == s - 1
  <2>1. /\ q \in pos .. Len(Text) /\ \A i \in (pos + 1) .. q : Text[i] = SP
        /\ Text[q + 1] # SP
    <3>1. q + 1 = s
      BY <1>3
    <3>2. \A i \in (pos + 1) .. q : i \in pos .. (s - 1)
      BY <1>1, <1>3
    <3>3. q \in pos .. Len(Text)
      BY <1>1, <1>2, <1>3
    <3>. QED
      BY <1>3, <1>4, <3>1, <3>2, <3>3
  <2>2. field \in 8 .. 13
    OBVIOUS
  <2>. HIDE DEF q
  <2>3. Prefix(field, pos) = q
    BY <1>1, <2>1, <2>2, SkipSpaces
  <2>. QED
    BY <2>3 DEF q
<1>6. Delimiter(field) = SP
  BY DEF Delimiter
<1>7. Hits # {} /\ Min(Hits) = s + 1
  <2>. DEFINE m == s + 1
              p == s - 1
  <2>1. /\ p \in Nat /\ m \in (p + 1) .. Len(Text) /\ Text[m] = SP
        /\ \A i \in (p + 1) .. (m - 1) : Text[i] # SP
    <3>1. \A i \in (p + 1) .. (m - 1) : i = s
      BY <1>3
    <3>2. p \in Nat /\ m \in (p + 1) .. Len(Text)
      BY <1>1, <1>2, <1>3
    <3>. QED
      BY <1>4, <3>1, <3>2
  <2>2. Prefix(field, pos) = p
    BY <1>5
  <2>. HIDE DEF m, p
  <2>3. Hits # {} /\ Min(Hits) = m
    BY <1>1, <1>6, <2>1, <2>2, NextDelimiter DEF Hits
  <2>. QED
    BY <2>3 DEF m
<1>8. Read = <<file.text[s]>>
  <2>1. Read = SubSeq(Text, (s - 1) + 1, (s + 1) - 1)
    BY <1>5, <1>7 DEF Read
  <2>2. (s - 1) + 1 = s /\ (s + 1) - 1 = s /\ s \in 1 .. Len(Text)
    BY <1>1, <1>2, <1>3
  <2>. QED
    BY <1>1, <2>1, <2>2, OneToken
<1>. QED
  BY <1>7, <1>8

LEMMA ReadsData ==
  ASSUME TypeOK, field \in {10, 13}, NEW j \in DOMAIN file.end, j + 1 \in DOMAIN file.end,
         NEW s, NEW d, Split(file, j, s, d), pos = s + 1
  PROVE  /\ Hits # {}
         /\ Min(Hits) = file.end[j + 1]
         /\ Read = DataOf(file, j)
<1>1. /\ file \in File /\ Text = file.text /\ Text \in Seq(Token)
      /\ Len(Text) \in Nat /\ DOMAIN Text = 1 .. Len(Text) /\ pos \in Nat
  BY TextFacts
<1>. DEFINE to == file.end[j + 1]
<1>2. to \in 1 .. Len(Text) /\ file.end[j] \in Nat
  BY <1>1, FileFacts
<1>3. /\ s \in Nat /\ d \in Nat /\ file.end[j] < s /\ s < d /\ d < to
      /\ \A i \in (s + 1) .. d : Text[i] = SP
      /\ Text[d + 1] # SP
      /\ DataOf(file, j) = SubSeq(Text, d + 1, to - 1)
  BY <1>1, <1>2 DEF Split
<1>4. Prefix(field, pos) = d
  <2>1. d \in pos .. Len(Text)
    BY <1>1, <1>2, <1>3
  <2>3. \A i \in (pos + 1) .. d : Text[i] = SP
    <3>1. \A i \in (pos + 1) .. d : i \in (s + 1) .. d
      BY <1>1, <1>3
    <3>. QED
      BY <1>3, <3>1
  <2>2. field \in 8 .. 13
    OBVIOUS
  <2>. QED
    BY <1>1, <1>3, <2>1, <2>2, <2>3, SkipSpaces
<1>5. Delimiter(field) = NL
  BY DEF Delimiter
<1>6. Hits # {} /\ Min(Hits) = to
  <2>1. Text[to] = NL
    BY <1>1, LineEnds
  <2>3. to \in (d + 1) .. Len(Text)
    <3>. HIDE DEF to
    <3>. QED
      BY <1>1, <1>2, <1>3
  <2>2. ASSUME NEW i \in (d + 1) .. (to - 1) PROVE Text[i] # NL
    <3>1. i \in DOMAIN file.text /\ file.end[j] < i /\ i < to
      BY <1>1, <1>2, <1>3
    <3>. QED
      BY <1>1, <3>1, NoLineEndWithin
  <2>. HIDE DEF to
  <2>. QED
    BY <1>1, <1>3, <1>4, <1>5, <2>1, <2>2, <2>3, NextDelimiter DEF Hits
<1>7. Read = DataOf(file, j)
  BY <1>3, <1>4, <1>6 DEF Read
<1>. QED
  BY <1>6, <1>7

\* In the beginning of a line that was cut there is no line end to find.
LEMMA NoLineEndAhead ==
  ASSUME TypeOK, field \in {10, 13}, NEW j \in DOMAIN file.end, j + 1 \notin DOMAIN file.end,
         pos >= file.end[j]
  PROVE  Hits = {}
<1>1. /\ file \in File /\ Text = file.text /\ Len(Text) \in Nat
      /\ DOMAIN Text = 1 .. Len(Text) /\ pos \in Nat
  BY TextFacts
<1>2. Prefix(field, pos) \in pos .. Len(Text) /\ file.end[j] \in Nat
  BY <1>1, ReadFacts, FileFacts
<1>3. ASSUME NEW i \in (Prefix(field, pos) + 1) .. Len(Text) PROVE Text[i] # NL
  <2>1. i \in DOMAIN file.text /\ file.end[j] < i
    BY <1>1, <1>2
  <2>. QED
    BY <1>1, <2>1, NoLineEndWithin
<1>4. Delimiter(field) = NL
  BY DEF Delimiter
<1>. QED
  BY <1>3, <1>4, NoDelimiter DEF Hits

LEMMA NoLineEndAheadOfHeader ==
  ASSUME TypeOK, field = 7, file.end = <<>>
  PROVE  Hits = {}
<1>1. /\ file \in File /\ Text = file.text /\ Len(Text) \in Nat
      /\ DOMAIN Text = 1 .. Len(Text) /\ pos \in Nat
  BY TextFacts
<1>2. ASSUME NEW i \in (pos + 1) .. Len(Text) PROVE Text[i] # NL
  <2>1. i \in DOMAIN file.text
    BY <1>1
  <2>. QED
    BY <1>1, <2>1, NoLineEndAtAll
<1>3. Delimiter(field) = NL /\ Prefix(field, pos) = pos
  BY DEF Delimiter, Prefix
<1>. QED
  BY <1>2, <1>3, NoDelimiter DEF Hits

-----------------------------------------------------------------------------
(* The reader moves from column to column and from line to line.             *)

LEMMA LineBegins ==
  ASSUME NEW f \in File, NEW j \in DOMAIN f.end
  PROVE  At(f, f.end[j], j, 1)
<1>1. CASE j + 1 \in DOMAIN f.end
  BY <1>1, LineSplit, Zenon DEF At
<1>2. CASE j + 1 \notin DOMAIN f.end
  BY <1>2, Zenon DEF At
<1>. QED
  BY <1>1, <1>2

LEMMA NextColumn ==
  ASSUME TypeOK, Hits # {}, NEW j, NEW c \in {1, 2},
         field \in {7 + c, 10 + c}, At(file, pos, j, c)
  PROVE  At(file, Min(Hits), j, c + 1)
<1>1. /\ file \in File /\ j \in DOMAIN file.end /\ Len(Text) \in Nat /\ pos \in Nat
      /\ field # 0 /\ file.end[j] \in Nat
  <2>1. file \in File /\ Len(Text) \in Nat /\ pos \in Nat /\ field # 0
    BY TextFacts
  <2>2. j \in DOMAIN file.end
    BY DEF At
  <2>3. file.end[j] \in 1 .. Len(file.text)
    BY <2>1, <2>2, FileFacts
  <2>. QED
    BY <2>1, <2>2, <2>3
<1>2. CASE j + 1 \in DOMAIN file.end
  <2>1. PICK s \in DOMAIN file.text, d \in DOMAIN file.text :
          /\ Split(file, j, s, d)
          /\ pos = IF c = 1 THEN file.end[j] ELSE IF c = 2 THEN file.end[j] + 2 ELSE s + 1
    BY <1>2, Zenon DEF At
  <2>2. CASE c = 1
    <3>1. field \in {8, 11} /\ pos = file.end[j] /\ c + 1 = 2
      BY <2>1, <2>2
    <3>2. Min(Hits) = file.end[j] + 2
      BY <1>1, <1>2, <2>1, <3>1, ReadsName
    <3>3. At(file, file.end[j] + 2, j, 2)
      BY <1>1, <1>2, <2>1 DEF At
    <3>. QED
      BY <3>1, <3>2, <3>3
  <2>3. CASE c = 2
    <3>1. field \in {9, 12} /\ pos = file.end[j] + 2 /\ c + 1 = 3
      BY <2>1, <2>3
    <3>2. Min(Hits) = s + 1
      BY <1>1, <1>2, <2>1, <3>1, ReadsType
    <3>3. At(file, s + 1, j, 3)
      BY <1>1, <1>2, <2>1 DEF At
    <3>. QED
      BY <3>1, <3>2, <3>3
  <2>. QED
    BY <2>2, <2>3
<1>3. CASE j + 1 \notin DOMAIN file.end
  <2>1. pos >= file.end[j]
    BY <1>1, <1>3 DEF At
  <2>2. /\ Prefix(field, pos) \in pos .. Len(Text)
        /\ Min(Hits) \in (Prefix(field, pos) + 1) .. Len(Text)
    BY <1>1, ReadFacts
  <2>3. Min(Hits) > file.end[j]
    BY <1>1, <2>1, <2>2
  <2>. QED
    BY <1>1, <1>3, <2>3 DEF At
<1>. QED
  BY <1>2, <1>3

LEMMA NextLine ==
  ASSUME TypeOK, Hits # {}, NEW j, field \in {10, 13}, At(file, pos, j, 3)
  PROVE  /\ j + 1 \in DOMAIN file.end
         /\ Min(Hits) = file.end[j + 1]
         /\ At(file, Min(Hits), j + 1, 1)
         /\ Read = DataOf(file, j)
<1>1. file \in File /\ j \in DOMAIN file.end /\ pos \in Nat /\ file.end[j] \in Nat
  BY TextFacts, FileFacts DEF At
<1>2. j + 1 \in DOMAIN file.end
  <2>1. SUFFICES ASSUME j + 1 \notin DOMAIN file.end PROVE FALSE
    OBVIOUS
  <2>2. pos >= file.end[j]
    BY <1>1, <2>1 DEF At
  <2>. QED
    BY <1>1, <2>1, <2>2, NoLineEndAhead
<1>3. PICK s \in DOMAIN file.text, d \in DOMAIN file.text :
        /\ Split(file, j, s, d)
        /\ pos = s + 1
  BY <1>2 DEF At
<1>4. Min(Hits) = file.end[j + 1] /\ Read = DataOf(file, j)
  BY <1>1, <1>2, <1>3, ReadsData
<1>. QED
  BY <1>1, <1>2, <1>4, LineBegins

-----------------------------------------------------------------------------
(* The invariant is inductive.                                               *)

LEMMA NoneYet ==
  ASSUME TypeOK, result = "none"
  PROVE  CountersAsWritten /\ RefusesOnlyDamaged
BY DEF CountersAsWritten, RefusesOnlyDamaged

LEMMA InitIInv == Init => IInv
<1>1. SUFFICES ASSUME Init PROVE IInv
  OBVIOUS
<1>2. file \in File /\ Len(Text) \in Nat
  BY <1>1, FileFacts DEF Init, Text
<1>3. <<>> \in Seq(Token) /\ NoCounters \in [Counter -> Nat]
  BY DEF NoCounters
<1>4. TypeOK
  BY <1>1, <1>2, <1>3 DEF Init, TypeOK
<1>5. InHeader /\ InTitles /\ InRows
  BY <1>1 DEF Init, InHeader, InTitles, InRows
<1>. QED
  BY <1>1, <1>4, <1>5, NoneYet DEF Init, IInv

\* A word that ParseInt or ParseUint takes, as it is read.
LEMMA NumberRead ==
  ASSUME NEW t, NEW numbers, IsNumber(t, numbers)
  PROVE  t[1] \in DOMAIN numbers /\ t = <<t[1]>>
BY DEF IsNumber

LEMMA HeaderTypeOK ==
  ASSUME TypeOK, ReadHeader
  PROVE  TypeOK'
<1>1. /\ field \in 1 .. 7 /\ Hits # {} /\ ~Refused /\ pos' = Min(Hits) /\ field' = field + 1
      /\ file' = file /\ rowName' = rowName /\ counters' = counters /\ result' = result
      /\ type' = IF field = 2 THEN Int32[Read[1]] % 256 ELSE type
  BY DEF ReadHeader, Succeeds
<1>2. pos' \in 0 .. Len(Text)
  BY <1>1, ReadFacts, TextFacts
<1>3. type' \in 0 .. 255
  <2>1. CASE field = 2
    <3>1. IsNumber(Read, Int32)
      BY <1>1, <2>1 DEF Refused
    <3>2. Read[1] \in DOMAIN Int32
      BY <3>1, NumberRead
    <3>3. Int32[Read[1]] \in Int
      BY <3>2, TokenAssumption
    <3>. DEFINE x == Int32[Read[1]]
    <3>. HIDE DEF x
    <3>4. x \in Int /\ type' = x % 256
      BY <1>1, <2>1, <3>3 DEF x
    <3>. QED
      BY <3>4
  <2>2. CASE field # 2
    BY <1>1, <2>2 DEF TypeOK
  <2>. QED
    BY <2>1, <2>2
<1>4. field' \in 0 .. 13 /\ field # 0 /\ field' # 0
  BY <1>1
<1>. QED
  BY <1>1, <1>2, <1>3, <1>4 DEF TypeOK, Text

LEMMA HeaderIInv ==
  ASSUME IInv, ReadHeader
  PROVE  IInv'
<1>1. /\ field \in 1 .. 7 /\ Hits # {} /\ ~Refused /\ pos' = Min(Hits) /\ field' = field + 1
      /\ file' = file /\ rowName' = rowName /\ counters' = counters /\ result' = result
      /\ type' = IF field = 2 THEN Int32[Read[1]] % 256 ELSE type
  BY DEF ReadHeader, Succeeds
<1>2. TypeOK /\ TypeOK' /\ InHeader /\ counters = NoCounters /\ result = "none"
  <2>1. TypeOK /\ InHeader
    BY DEF IInv
  <2>2. TypeOK'
    BY <2>1, HeaderTypeOK
  <2>3. field # 0
    BY <1>1
  <2>4. result = "none"
    BY <2>1, <2>3 DEF TypeOK
  <2>. QED
    BY <1>1, <2>1, <2>2, <2>4 DEF InHeader
<1>3. ASSUME file.end # <<>>
      PROVE  /\ pos' = 2 * field
             /\ file.end[1] = 14
             /\ field >= 2 => TypeRead'
  <2>1. pos = 2 * (field - 1) /\ (field > 2 => TypeRead)
    BY <1>1, <1>2, <1>3 DEF InHeader
  <2>2. Min(Hits) = 2 * field /\ Read = <<Text[2 * field - 1]>> /\ file.end[1] = 14
    BY <1>1, <1>2, <1>3, <2>1, ReadsHeader
  <2>3. ASSUME field = 2 PROVE TypeRead'
    <3>1. IsNumber(Read, Int32)
      BY <1>1, <2>3 DEF Refused
    <3>2. Read = <<Text[3]>>
      BY <2>2, <2>3
    <3>3. Read[1] = Text[3]
      BY <3>2
    <3>. QED
      BY <1>1, <2>3, <3>1, <3>2, <3>3 DEF TypeRead, Text
  <2>4. ASSUME field > 2 PROVE TypeRead'
    BY <1>1, <2>1, <2>4 DEF TypeRead, Text
  <2>. QED
    BY <1>1, <2>2, <2>3, <2>4
<1>4. InHeader'
  <2>1. file'.end # <<>> /\ field' \in 1 .. 7 => pos' = 2 * (field' - 1) /\ (field' > 2 => TypeRead')
    BY <1>1, <1>3
  <2>. QED
    BY <1>1, <1>2, <2>1 DEF InHeader, NoCounters
<1>5. InTitles'
  <2>1. SUFFICES ASSUME field = 7 PROVE At(file, pos', 1, 1)
    BY <1>1, <1>2 DEF InTitles, NoCounters
  <2>2. file.end # <<>> /\ file \in File
    BY <1>1, <1>2, <2>1, NoLineEndAheadOfHeader DEF TypeOK
  <2>3. pos' = file.end[1]
    BY <1>3, <2>1, <2>2
  <2>4. 1 \in DOMAIN file.end
    <3>1. file.end \in Seq(DOMAIN file.text) /\ Len(file.end) \in Nat /\ DOMAIN file.end = 1 .. Len(file.end)
      BY <2>2, FileFacts
    <3>2. Len(file.end) # 0
      BY <2>2, <3>1, EmptySeq
    <3>. QED
      BY <3>1, <3>2
  <2>. QED
    BY <2>2, <2>3, <2>4, LineBegins
<1>6. InRows'
  BY <1>1 DEF InRows
<1>7. CountersAsWritten' /\ RefusesOnlyDamaged'
  BY <1>1, <1>2 DEF CountersAsWritten, RefusesOnlyDamaged
<1>. QED
  BY <1>2, <1>4, <1>5, <1>6, <1>7 DEF IInv

LEMMA ColumnHeadersIInv ==
  ASSUME IInv, ReadColumnHeaders
  PROVE  IInv'
<1>1. /\ field \in 8 .. 10 /\ Hits # {} /\ pos' = Min(Hits) /\ field' = field + 1
      /\ file' = file /\ rowName' = rowName /\ counters' = counters /\ result' = result
      /\ type' = type
  BY DEF ReadColumnHeaders, Succeeds
<1>2. /\ TypeOK /\ counters = NoCounters /\ result = "none" /\ file \in File
      /\ At(file, pos, 1, field - 7)
  BY <1>1 DEF IInv, InTitles, TypeOK
<1>3. TypeOK'
  <2>1. pos' \in 0 .. Len(Text)
    BY <1>1, <1>2, ReadFacts, TextFacts
  <2>. QED
    BY <1>1, <1>2, <2>1 DEF TypeOK, Text
<1>4. InHeader'
  BY <1>1 DEF InHeader
<1>5. InTitles'
  <2>1. SUFFICES ASSUME field \in {8, 9} PROVE At(file, pos', 1, field' - 7)
    BY <1>1, <1>2 DEF InTitles, NoCounters
  <2>. DEFINE c == field - 7
  <2>2. c \in {1, 2} /\ field \in {7 + c, 10 + c} /\ c + 1 = field' - 7
    BY <1>1, <2>1
  <2>. HIDE DEF c
  <2>3. At(file, Min(Hits), 1, c + 1)
    BY <1>1, <1>2, <2>2, NextColumn DEF c
  <2>. QED
    BY <1>1, <2>2, <2>3
<1>6. InRows'
  <2>1. SUFFICES ASSUME field = 10 PROVE 2 \in DOMAIN file.end /\ InRow(2)'
    BY <1>1 DEF InRows
  <2>2. At(file, pos, 1, 3)
    BY <1>2, <2>1
  <2>3. 2 \in DOMAIN file.end /\ At(file, pos', 2, 1)
    BY <1>1, <1>2, <2>1, <2>2, NextLine
  <2>4. AsWritten(0)'
    BY <1>1, <1>2 DEF AsWritten, NoCounters
  <2>5. field' = 11 /\ field' - 10 = 1 /\ 2 - 2 = 0 /\ 2 >= 2
    BY <1>1, <2>1
  <2>. QED
    BY <1>1, <2>3, <2>4, <2>5 DEF InRow
<1>7. CountersAsWritten' /\ RefusesOnlyDamaged'
  BY <1>1, <1>2 DEF CountersAsWritten, RefusesOnlyDamaged
<1>. QED
  BY <1>3, <1>4, <1>5, <1>6, <1>7 DEF IInv

LEMMA NameIInv ==
  ASSUME IInv, ReadName
  PROVE  IInv'
<1>1. /\ field \in {11, 12} /\ Hits # {} /\ pos' = Min(Hits) /\ field' = field + 1
      /\ file' = file /\ counters' = counters /\ result' = result /\ type' = type
      /\ rowName' = IF field = 11 THEN Read ELSE rowName
  BY DEF ReadName, Succeeds
<1>2. TypeOK /\ result = "none" /\ file \in File
  BY <1>1 DEF IInv, TypeOK
<1>3. PICK k \in DOMAIN file.end : InRow(k)
  BY <1>1 DEF IInv, InRows
<1>4. TypeOK'
  <2>1. pos' \in 0 .. Len(Text) /\ Read \in Seq(Token)
    BY <1>1, <1>2, ReadFacts, TextFacts
  <2>. QED
    BY <1>1, <1>2, <2>1 DEF TypeOK, Text
<1>5. InHeader' /\ InTitles'
  BY <1>1 DEF InHeader, InTitles
<1>6. InRow(k)'
  <2>. DEFINE c == field - 10
  <2>1. c \in {1, 2} /\ field \in {7 + c, 10 + c} /\ c + 1 = field' - 10 /\ At(file, pos, k, c)
    BY <1>1, <1>3 DEF InRow
  <2>. HIDE DEF c
  <2>2. At(file, pos', k, field' - 10)
    <3>1. At(file, Min(Hits), k, c + 1)
      BY <1>1, <1>2, <2>1, NextColumn
    <3>. QED
      BY <1>1, <2>1, <3>1
  <2>3. ASSUME k + 1 \in DOMAIN file.end
        PROVE  rowName' = <<file.row[k - 1].name>>
    <3>1. CASE field = 11
      <4>1. c = 1
        BY <3>1 DEF c
      <4>2. PICK s \in DOMAIN file.text, d \in DOMAIN file.text :
              Split(file, k, s, d) /\ pos = file.end[k]
        BY <2>1, <2>3, <4>1 DEF At
      <4>3. Read = <<NameOf(file, k)>>
        BY <1>2, <2>3, <3>1, <4>2, ReadsName
      <4>4. k # 1
        BY <1>3 DEF InRow
      <4>. QED
        BY <1>1, <3>1, <4>3, <4>4 DEF NameOf
    <3>2. CASE field = 12
      BY <1>1, <1>3, <2>3, <3>2 DEF InRow
    <3>. QED
      BY <1>1, <3>1, <3>2
  <2>4. k >= 2 /\ AsWritten(k - 2)'
    BY <1>1, <1>3 DEF InRow, AsWritten
  <2>. QED
    BY <1>1, <2>2, <2>3, <2>4 DEF InRow
<1>7. InRows'
  BY <1>1, <1>6 DEF InRows
<1>8. CountersAsWritten' /\ RefusesOnlyDamaged'
  BY <1>1, <1>2 DEF CountersAsWritten, RefusesOnlyDamaged
<1>. QED
  BY <1>4, <1>5, <1>7, <1>8 DEF IInv

\* What ReadData stores is what the row says, and no other row has the name.
LEMMA DataAsWritten ==
  ASSUME IInv, ReadData, NEW k \in DOMAIN file.end, InRow(k)
  PROVE  /\ TypeOK'
         /\ k + 1 \in DOMAIN file.end
         /\ At(file, pos', k + 1, 1)
         /\ AsWritten(k - 1)'
<1>1. /\ field = 13 /\ Hits # {} /\ ~Refused /\ pos' = Min(Hits) /\ field' = 11
      /\ file' = file /\ rowName' = rowName /\ result' = result /\ type' = type
      /\ counters' = IF IsCounter THEN [counters EXCEPT ![rowName[1]] = UInt64[Read[1]]] ELSE counters
  BY DEF ReadData, Succeeds
<1>2. TypeOK /\ file \in File /\ counters \in [Counter -> Nat]
  BY DEF IInv, TypeOK
<1>3. k >= 2 /\ At(file, pos, k, 3) /\ AsWritten(k - 2) /\ k \in Nat
  BY <1>1, <1>2, FileFacts DEF InRow
<1>4. k + 1 \in DOMAIN file.end /\ At(file, pos', k + 1, 1) /\ Read = DataOf(file, k)
  BY <1>1, <1>2, <1>3, NextLine
<1>. DEFINE r == file.row[k - 1]
<1>5. rowName = <<r.name>> /\ Read = r.data
  BY <1>1, <1>3, <1>4 DEF InRow, DataOf
<1>6. k - 1 \in DOMAIN file.row /\ DOMAIN file.row = 1 .. Len(file.row)
  BY <1>2, <1>3, <1>4, RowCount, FileFacts
<1>7. IsCounter <=> r.name \in Counter
  <2>. HIDE DEF r
  <2>. QED
    BY <1>5 DEF IsCounter
<1>8. rowName[1] = r.name
  <2>. HIDE DEF r
  <2>. QED
    BY <1>5
<1>9. ASSUME r.name \in Counter
      PROVE  /\ r.data = <<Read[1]>> /\ Read[1] \in DOMAIN UInt64 /\ UInt64[Read[1]] \in Nat
             /\ counters' = [counters EXCEPT ![r.name] = UInt64[Read[1]]]
  <2>1. IsNumber(Read, UInt64)
    BY <1>1, <1>7, <1>9 DEF Refused
  <2>2. Read[1] \in DOMAIN UInt64 /\ Read = <<Read[1]>>
    BY <2>1, NumberRead
  <2>. QED
    BY <1>1, <1>5, <1>7, <1>8, <1>9, <2>2, TokenAssumption
<1>10. ASSUME r.name \notin Counter PROVE counters' = counters
  BY <1>1, <1>7, <1>10
<1>11. TypeOK'
  <2>1. pos' \in 0 .. Len(Text)
    BY <1>1, <1>2, ReadFacts, TextFacts
  <2>2. counters' \in [Counter -> Nat]
    <3>. HIDE DEF r
    <3>. QED
      BY <1>2, <1>9, <1>10
  <2>. QED
    BY <1>1, <1>2, <2>1, <2>2 DEF TypeOK, Text
<1>12. ASSUME NEW i \in 1 .. (k - 1), file.row[i].name \in Counter
       PROVE  \E w \in DOMAIN UInt64 :
                file.row[i].data = <<w>> /\ counters'[file.row[i].name] = UInt64[w]
  <2>1. CASE i = k - 1
    <3>1. r.name \in Counter /\ r = file.row[i]
      BY <1>12, <2>1
    <3>. HIDE DEF r
    <3>2. counters'[r.name] = UInt64[Read[1]]
      BY <1>2, <1>9, <3>1
    <3>. QED
      BY <1>9, <3>1, <3>2
  <2>2. CASE i # k - 1
    <3>1. i \in 1 .. (k - 2) /\ i \in DOMAIN file.row
      BY <1>3, <1>6, <2>2
    <3>2. PICK w \in DOMAIN UInt64 :
            file.row[i].data = <<w>> /\ counters[file.row[i].name] = UInt64[w]
      BY <1>3, <1>12, <3>1 DEF AsWritten
    <3>3. file.row[i].name # r.name
      BY <1>2, <1>6, <2>2, <3>1, FileAssumption DEF WellFormed
    <3>4. counters'[file.row[i].name] = counters[file.row[i].name]
      <4>. DEFINE n == file.row[i].name
      <4>1. n \in Counter /\ n # r.name
        BY <1>12, <3>3
      <4>. HIDE DEF n, r
      <4>2. counters'[n] = counters[n]
        BY <1>2, <1>9, <1>10, <4>1
      <4>. QED
        BY <4>2 DEF n
    <3>. QED
      BY <3>2, <3>4
  <2>. QED
    BY <2>1, <2>2
<1>13. ASSUME NEW c \in Counter, \A i \in 1 .. (k - 1) : file.row[i].name # c
       PROVE  counters'[c] = 0
  <2>1. \A i \in 1 .. (k - 2) : file.row[i].name # c
    <3>1. \A i \in 1 .. (k - 2) : i \in 1 .. (k - 1)
      BY <1>3
    <3>. QED
      BY <1>13, <3>1
  <2>2. counters[c] = 0
    BY <1>3, <2>1 DEF AsWritten
  <2>3. r.name # c
    <3>1. k - 1 \in 1 .. (k - 1)
      BY <1>3
    <3>. QED
      BY <1>13, <3>1
  <2>. HIDE DEF r
  <2>. QED
    BY <1>2, <1>9, <1>10, <2>2, <2>3
<1>14. AsWritten(k - 1)'
  BY <1>1, <1>12, <1>13 DEF AsWritten
<1>. QED
  BY <1>4, <1>11, <1>14

LEMMA DataIInv ==
  ASSUME IInv, ReadData
  PROVE  IInv'
<1>1. field = 13 /\ field' = 11 /\ file' = file /\ result' = result
  BY DEF ReadData
<1>2. TypeOK /\ result = "none" /\ file \in File
  BY <1>1 DEF IInv, TypeOK
<1>3. PICK k \in DOMAIN file.end : InRow(k)
  BY <1>1 DEF IInv, InRows
<1>4. TypeOK' /\ k + 1 \in DOMAIN file.end /\ At(file, pos', k + 1, 1) /\ AsWritten(k - 1)'
  BY <1>3, DataAsWritten
<1>5. k >= 2 /\ k \in Nat
  BY <1>2, <1>3, FileFacts DEF InRow
<1>6. InRow(k + 1)'
  <2>1. k + 1 >= 2 /\ (k + 1) - 2 = k - 1 /\ field' - 10 = 1 /\ ~(field' > 11)
    BY <1>1, <1>5
  <2>. QED
    BY <1>1, <1>4, <2>1 DEF InRow
<1>7. InHeader' /\ InTitles' /\ InRows'
  BY <1>1, <1>4, <1>6 DEF InHeader, InTitles, InRows
<1>8. CountersAsWritten' /\ RefusesOnlyDamaged'
  BY <1>1, <1>2 DEF CountersAsWritten, RefusesOnlyDamaged
<1>. QED
  BY <1>4, <1>7, <1>8 DEF IInv

\* After parseKStat has returned nothing but the result is to be shown.
LEMMA Returned ==
  ASSUME IInv, NEW r \in {"ok", "error"}, Return(r)
  PROVE  /\ TypeOK'
         /\ InHeader' /\ InTitles' /\ InRows'
         /\ r = "ok" => RefusesOnlyDamaged'
         /\ r = "error" => CountersAsWritten'
<1>1. /\ field' = 0 /\ result' = r /\ file' = file /\ pos' = pos /\ type' = type
      /\ rowName' = rowName /\ counters' = counters
  BY DEF Return
<1>2. TypeOK'
  BY <1>1 DEF IInv, TypeOK, Text
<1>3. InHeader' /\ InTitles' /\ InRows'
  BY <1>1 DEF InHeader, InTitles, InRows
<1>. QED
  BY <1>1, <1>2, <1>3 DEF CountersAsWritten, RefusesOnlyDamaged

LEMMA EOFIInv ==
  ASSUME IInv, ReadEOF
  PROVE  IInv'
<1>1. field = 11 /\ pos = Len(Text) /\ Return("ok")
  BY DEF ReadEOF, AtEOF
<1>2. file' = file /\ counters' = counters
  BY <1>1 DEF Return
<1>3. TypeOK /\ file \in File
  BY DEF IInv, TypeOK
<1>4. PICK k \in DOMAIN file.end : InRow(k)
  BY <1>1 DEF IInv, InRows
<1>5. /\ k >= 2 /\ At(file, pos, k, 1) /\ AsWritten(k - 2)
      /\ DOMAIN file.end = 1 .. Len(file.end) /\ Len(file.end) \in Nat
      /\ Len(Text) \in Nat /\ Text = file.text
  BY <1>1, <1>3, <1>4, FileFacts, TextFacts DEF InRow
<1>6. pos = file.end[k]
  BY <1>5 DEF At
<1>7. k = Len(file.end)
  <2>1. SUFFICES ASSUME k # Len(file.end) PROVE FALSE
    OBVIOUS
  <2>2. k + 1 \in DOMAIN file.end
    BY <1>5, <2>1
  <2>3. file.end[k] < file.end[k + 1] /\ file.end[k + 1] \in 1 .. Len(file.text)
    BY <1>3, <2>2, LineEnds, FileFacts
  <2>. QED
    BY <1>1, <1>5, <1>6, <2>3
<1>8. Len(file.row) = k - 2
  <2>1. Len(file.row) = IF Len(file.end) > 2 THEN Len(file.end) - 2 ELSE 0
    BY <1>3, RowCount
  <2>. QED
    BY <1>5, <1>7, <2>1
<1>9. Whole(file)
  BY <1>1, <1>5, <1>6, <1>7 DEF Whole
<1>10. CountersAsWritten'
  <2>1. AsWritten(k - 2)'
    BY <1>2, <1>5 DEF AsWritten
  <2>2. AsWritten(Len(file.row))'
    BY <1>2, <1>8, <2>1
  <2>. QED
    BY <1>2, <1>9, <2>2 DEF CountersAsWritten
<1>. QED
  BY <1>1, <1>10, Returned DEF IInv

\* A read that fails in the header.
LEMMA HeaderFails ==
  ASSUME IInv, field \in 1 .. 7, ~Succeeds
  PROVE  \/ ~Whole(file)
         \/ ~IsNumber(<<Text[3]>>, Int32)
         \/ Int32[Text[3]] % 256 # 1
<1>1. TypeOK /\ file \in File
  BY DEF IInv, TypeOK
<1>2. CASE file.end = <<>>
  BY <1>2 DEF Whole
<1>3. CASE file.end # <<>>
  <2>1. pos = 2 * (field - 1) /\ (field > 2 => TypeRead)
    BY <1>3 DEF IInv, InHeader
  <2>2. Hits # {} /\ Read = <<Text[2 * field - 1]>>
    BY <1>1, <1>3, <2>1, ReadsHeader
  <2>3. Refused
    BY <2>2 DEF Succeeds
  <2>4. CASE field = 2 /\ ~IsNumber(Read, Int32)
    <3>1. Read = <<Text[3]>>
      BY <2>2, <2>4
    <3>. QED
      BY <2>4, <3>1
  <2>5. CASE field = 7 /\ type # 1
    BY <2>1, <2>5 DEF TypeRead
  <2>. QED
    BY <2>3, <2>4, <2>5 DEF Refused
<1>. QED
  BY <1>2, <1>3

\* The titles are never refused in a file that has them.
LEMMA TitlesFail ==
  ASSUME IInv, field \in 8 .. 10, ~Succeeds
  PROVE  ~Whole(file)
<1>1. /\ TypeOK /\ file \in File /\ At(file, pos, 1, field - 7)
      /\ DOMAIN file.end = 1 .. Len(file.end) /\ Len(file.end) \in Nat
  BY FileFacts DEF IInv, TypeOK, InTitles
<1>2. CASE 2 \notin DOMAIN file.end
  BY <1>1, <1>2 DEF Whole
<1>3. CASE 2 \in DOMAIN file.end
  <2>1. 1 \in DOMAIN file.end /\ 1 + 1 = 2
    BY <1>1 DEF At
  <2>. DEFINE c == field - 7
  <2>2. PICK s \in DOMAIN file.text, d \in DOMAIN file.text :
          /\ Split(file, 1, s, d)
          /\ pos = IF c = 1 THEN file.end[1] ELSE IF c = 2 THEN file.end[1] + 2 ELSE s + 1
    BY <1>1, <1>3, <2>1 DEF At
  <2>3. CASE field = 8
    <3>1. pos = file.end[1]
      BY <2>2, <2>3
    <3>2. Hits # {} /\ Read = <<NameOf(file, 1)>>
      BY <1>1, <1>3, <2>1, <2>2, <2>3, <3>1, ReadsName
    <3>3. Title(field) = <<"name">>
      BY <2>3 DEF Title
    <3>. QED
      BY <2>3, <3>2, <3>3 DEF Succeeds, Refused, NameOf
  <2>4. CASE field = 9
    <3>1. pos = file.end[1] + 2
      BY <2>2, <2>4
    <3>2. Hits # {} /\ Read = <<file.text[s]>>
      BY <1>1, <1>3, <2>1, <2>2, <2>4, <3>1, ReadsType
    <3>3. Title(field) = <<"type">> /\ file.text[s] = "type"
      BY <2>2, <2>4 DEF Title, Split
    <3>. QED
      BY <2>4, <3>2, <3>3 DEF Succeeds, Refused
  <2>5. CASE field = 10
    <3>1. pos = s + 1
      BY <2>2, <2>5
    <3>2. Hits # {} /\ Read = DataOf(file, 1)
      BY <1>1, <1>3, <2>1, <2>2, <2>5, <3>1, ReadsData
    <3>3. Title(field) = <<"data">>
      BY <2>5 DEF Title
    <3>. QED
      BY <2>5, <3>2, <3>3 DEF Succeeds, Refused, DataOf
  <2>. QED
    BY <2>3, <2>4, <2>5
<1>. QED
  BY <1>2, <1>3

\* A read that fails in a row.
LEMMA RowFails ==
  ASSUME IInv, field \in 11 .. 13, ~AtEOF, ~Succeeds
  PROVE  \/ ~Whole(file)
         \/ \E k \in DOMAIN file.row :
              file.row[k].name \in Counter /\ ~IsNumber(file.row[k].data, UInt64)
<1>1. TypeOK /\ file \in File /\ Text = file.text /\ Len(Text) \in Nat /\ pos \in Nat /\ pos <= Len(Text)
  BY TextFacts DEF IInv
<1>2. PICK k \in DOMAIN file.end : InRow(k)
  BY DEF IInv, InRows
<1>3. /\ k >= 2 /\ k \in Nat /\ At(file, pos, k, field - 10)
      /\ DOMAIN file.end = 1 .. Len(file.end) /\ Len(file.end) \in Nat /\ file.end[k] \in Nat
  BY <1>1, <1>2, FileFacts DEF InRow
<1>4. CASE k + 1 \notin DOMAIN file.end
  <2>1. k = Len(file.end)
    BY <1>3, <1>4
  <2>2. file.end[k] # Len(Text)
    <3>1. CASE field = 11
      BY <1>3, <1>4, <3>1 DEF At, AtEOF
    <3>2. CASE field # 11
      <4>1. field - 10 # 1
        BY <3>2
      <4>2. pos > file.end[k]
        BY <1>3, <1>4, <4>1 DEF At
      <4>. QED
        BY <1>1, <1>3, <4>2
    <3>. QED
      BY <3>1, <3>2
  <2>. QED
    BY <1>1, <2>1, <2>2 DEF Whole
<1>5. CASE k + 1 \in DOMAIN file.end
  <2>. DEFINE c == field - 10
  <2>1. PICK s \in DOMAIN file.text, d \in DOMAIN file.text :
          /\ Split(file, k, s, d)
          /\ pos = IF c = 1 THEN file.end[k] ELSE IF c = 2 THEN file.end[k] + 2 ELSE s + 1
    BY <1>3, <1>5 DEF At
  <2>2. CASE field = 11
    <3>1. pos = file.end[k]
      BY <2>1, <2>2
    <3>2. Hits # {}
      BY <1>1, <1>5, <2>1, <2>2, <3>1, ReadsName
    <3>. QED
      BY <2>2, <3>2 DEF Succeeds, Refused
  <2>3. CASE field = 12
    <3>1. pos = file.end[k] + 2
      BY <2>1, <2>3
    <3>2. Hits # {}
      BY <1>1, <1>5, <2>1, <2>3, <3>1, ReadsType
    <3>. QED
      BY <2>3, <3>2 DEF Succeeds, Refused
  <2>4. CASE field = 13
    <3>1. pos = s + 1
      BY <2>1, <2>4
    <3>2. Hits # {} /\ Read = DataOf(file, k)
      BY <1>1, <1>5, <2>1, <2>4, <3>1, ReadsData
    <3>3. IsCounter /\ ~IsNumber(Read, UInt64)
      BY <2>4, <3>2 DEF Succeeds, Refused
    <3>4. Read = file.row[k - 1].data /\ rowName = <<file.row[k - 1].name>>
      BY <1>2, <1>3, <1>5, <2>4, <3>2 DEF DataOf, InRow
    <3>5. file.row[k - 1].name \in Counter
      BY <3>3, <3>4 DEF IsCounter
    <3>6. k - 1 \in DOMAIN file.row
      BY <1>1, <1>3, <1>5, RowCount
    <3>. QED
      BY <3>3, <3>4, <3>5, <3>6
  <2>. QED
    BY <2>2, <2>3, <2>4
<1>. QED
  BY <1>4, <1>5

LEMMA FailsIInv ==
  ASSUME IInv, ReadFails
  PROVE  IInv'
<1>1. field # 0 /\ ~AtEOF /\ ~Succeeds /\ Return("error")
  BY DEF ReadFails
<1>2. file' = file /\ field \in 1 .. 13
  BY <1>1 DEF Return, IInv, TypeOK
<1>3. \/ ~Whole(file)
      \/ ~IsNumber(<<file.text[3]>>, Int32)
      \/ Int32[file.text[3]] % 256 # 1
      \/ \E k \in DOMAIN file.row :
           file.row[k].name \in Counter /\ ~IsNumber(file.row[k].data, UInt64)
  <2>1. CASE field \in 1 .. 7
    BY <1>1, <2>1, HeaderFails DEF Text
  <2>2. CASE field \in 8 .. 10
    BY <1>1, <2>2, TitlesFail
  <2>3. CASE field \in 11 .. 13
    BY <1>1, <2>3, RowFails
  <2>. QED
    BY <1>2, <2>1, <2>2, <2>3
<1>4. RefusesOnlyDamaged'
  BY <1>2, <1>3 DEF RefusesOnlyDamaged
<1>. QED
  BY <1>1, <1>4, Returned DEF IInv

LEMMA StepIInv ==
  ASSUME IInv, [Parse]_vars
  PROVE  IInv'
<1>1. CASE Parse
  BY <1>1, HeaderIInv, ColumnHeadersIInv, NameIInv, DataIInv, EOFIInv, FailsIInv DEF Parse
<1>2. CASE UNCHANGED vars
  <2>1. /\ file' = file /\ pos' = pos /\ field' = field /\ type' = type
        /\ rowName' = rowName /\ counters' = counters /\ result' = result
    BY <1>2 DEF vars
  <2>2. TypeOK' /\ InHeader' /\ InTitles'
    BY <2>1 DEF IInv, TypeOK, Text, InHeader, InTitles, TypeRead, NoCounters
  <2>3. InRows'
    BY <2>1 DEF IInv, InRows, InRow, AsWritten
  <2>4. CountersAsWritten' /\ RefusesOnlyDamaged'
    BY <2>1 DEF IInv, CountersAsWritten, RefusesOnlyDamaged, AsWritten
  <2>. QED
    BY <2>2, <2>3, <2>4 DEF IInv
<1>. QED
  BY <1>1, <1>2

LEMMA Inductive == Spec => []IInv
<1>1. IInv /\ [Parse]_vars => IInv'
  BY StepIInv
<1>. QED
  BY InitIInv, <1>1, PTL DEF Spec

-----------------------------------------------------------------------------
(***************************************************************************)
(* The position stays within the file, the type within a byte, and         *)
(* parseKStat has returned exactly when it reads no more.                  *)
(***************************************************************************)
THEOREM Typing == Spec => []TypeOK
<1>1. IInv => TypeOK
  BY DEF IInv
<1>. QED
  BY Inductive, <1>1, PTL

(***************************************************************************)
(* The reader, which looks for delimiters only, takes every line as one    *)
(* row, whatever the words, the padding and the data, and wherever the     *)
(* file was cut (decode.go:151-187).                                       *)
(***************************************************************************)
THEOREM RowByRow == Spec => []RowsAreLines
<1>1. IInv => RowsAreLines
  <2>1. SUFFICES ASSUME IInv, field = 11
                 PROVE  \E k \in DOMAIN file.end : k >= 2 /\ pos = file.end[k] /\ AsWritten(k - 2)
    BY DEF RowsAreLines
  <2>2. PICK k \in DOMAIN file.end : InRow(k)
    BY <2>1 DEF IInv, InRows
  <2>3. k >= 2 /\ At(file, pos, k, 1) /\ AsWritten(k - 2)
    BY <2>1, <2>2 DEF InRow
  <2>4. pos = file.end[k]
    BY <2>3 DEF At
  <2>. QED
    BY <2>3, <2>4
<1>. QED
  BY Inductive, <1>1, PTL

(***************************************************************************)
(* When parseKStat returns nil, the file ended with a line and the         *)
(* counters are those of its rows (main.go:404-449).                       *)
(***************************************************************************)
THEOREM CountersAreRight == Spec => []CountersAsWritten
<1>1. IInv => CountersAsWritten
  BY DEF IInv
<1>. QED
  BY Inductive, <1>1, PTL

(***************************************************************************)
(* When it returns an error, the file was cut, of another kind, or has a   *)
(* counter that is not a number.                                           *)
(***************************************************************************)
THEOREM ErrorsAreTheFiles == Spec => []RefusesOnlyDamaged
<1>1. IInv => RefusesOnlyDamaged
  BY DEF IInv
<1>. QED
  BY Inductive, <1>1, PTL

\* The loop ends, or has less of the file ahead of it than before.
MovesOn == field' = 0 \/ (pos < pos' /\ pos' <= Len(Text))

(***************************************************************************)
(* No read leaves the reader where it was, not even one of an empty        *)
(* column, and none goes beyond the file (decode.go:26-64): the safety     *)
(* half of KStatEnds, for files of any length.                             *)
(***************************************************************************)
THEOREM EveryReadMovesOn == Spec => [][MovesOn]_vars
<1>1. ASSUME IInv, Parse
      PROVE  MovesOn
  <2>1. TypeOK
    BY <1>1 DEF IInv
  <2>2. CASE ReadHeader \/ ReadColumnHeaders \/ ReadName \/ ReadData
    <3>1. field # 0 /\ Hits # {} /\ pos' = Min(Hits)
      BY <2>2 DEF ReadHeader, ReadColumnHeaders, ReadName, ReadData, Succeeds
    <3>2. /\ Prefix(field, pos) \in pos .. Len(Text)
          /\ Min(Hits) \in (Prefix(field, pos) + 1) .. Len(Text)
      BY <2>1, <3>1, ReadFacts
    <3>3. pos \in Nat /\ Len(Text) \in Nat
      BY <2>1, TextFacts
    <3>. QED
      BY <3>1, <3>2, <3>3 DEF MovesOn
  <2>3. CASE ReadEOF \/ ReadFails
    BY <2>3 DEF ReadEOF, ReadFails, Return, MovesOn
  <2>. QED
    BY <1>1, <2>2, <2>3 DEF Parse
<1>2. IInv /\ [Parse]_vars => [MovesOn]_vars
  BY <1>1
<1>. QED
  BY Inductive, <1>2, PTL DEF Spec
=============================================================================
