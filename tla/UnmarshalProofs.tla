--------------------------- MODULE UnmarshalProofs ---------------------------
(***************************************************************************)
(* Proofs about Unmarshal, for all struct types and all packed lists.      *)
(***************************************************************************)
EXTENDS Unmarshal, NVListReaderProofs

\* Every list has a place.
Taken == \A m \in made : \A c \in Pairs(m.list) : ~Unplaced(m, c)

\* With what was set and the calls that were made, the pair c of its list is
\* where m has a place for it.
Placed(m, c, set, calls) ==
  \A s \in Slot(m.dest, c.name) :
    IF c.type \in Nested
    THEN \A i \in DOMAIN c.sub : [dest |-> Filled(s), list |-> c.sub[i]] \in calls
    ELSE \E g \in set : g.obj = m.list /\ g.name = c.name /\ g.elems = [i \in 1 .. c.n |-> i]

Served(m, c, set, calls) == Misread(c) \/ Placed(m, c, set, calls)

(***************************************************************************)
(* Of every buffer: the reader is at a cell, and there are not more calls  *)
(* than lists to be ended.  So the calls return before the buffer ends,    *)
(* also when they are out of step with the lists.                          *)
(***************************************************************************)
Inside ==
  pc = "reading" =>
    /\ result = "none"
    /\ Start(pos) \in DOMAIN B.at
    /\ Len(stack) <= Len(B.pending[Start(pos)])

\* Each call is for the list that is to be ended after those of the calls in it.
InStep ==
  /\ Len(stack) = Len(B.pending[Start(pos)])
  /\ \A i \in DOMAIN stack : stack[i] \in made /\ stack[i].list = B.pending[Start(pos)][i]

\* Each list is filled in from once, after the pair that it is the value of.
OneCallPerList ==
  /\ \A m, n \in made : m.list = n.list => m = n
  /\ \A m \in made :
       \/ m.list = Head(B.pending[HeaderLen])
       \/ \E q \in DOMAIN B.at :
            q < Start(pos) /\ \E i \in DOMAIN B.at[q].sub : B.at[q].sub[i] = m.list

\* What was read was read by a call for its list, and is where it has to be.
SoFarAsPacked ==
  /\ \A g \in got : g.of = g.obj
  /\ \A q \in DOMAIN B.at : q < Start(pos) =>
       /\ \E m \in made : m.list = B.at[q].list
       /\ B.at[q].size > 0 =>
            \A m \in made : m.list = B.at[q].list => Served(m, B.at[q], got, made)

IInv ==
  /\ TypeOK
  /\ Inside
  /\ Taken /\ pc = "reading" => InStep /\ OneCallPerList /\ SoFarAsPacked
  /\ FieldsAsPackedIfTaken

-----------------------------------------------------------------------------
(* The calls that are made for a pair.                                       *)

\* A pair has one place at most, and it is of a type that a field may have.
LEMMA SlotFacts ==
  ASSUME NEW t \in Struct \cup {Map}, NEW name
  PROVE  /\ \A s \in Slot(t, name) : s \in Primitive \cup Struct \cup {Map, Interface, Other}
         /\ \A s, u \in Slot(t, name) : s = u
         /\ t = Map => Slot(t, name) = {Interface}
<1>1. CASE t = Map
  BY <1>1 DEF Slot
<1>2. CASE t # Map
  <2>1. t \in Struct /\ Field[t] \in [DOMAIN Field[t] -> Primitive \cup Struct \cup {Map, Interface, Other}]
    BY <1>2, FieldAssumption
  <2>2. Slot(t, name) = {Field[t][n] : n \in {name} \cap DOMAIN Field[t]}
    BY <1>2 DEF Slot
  <2>. DEFINE T == Primitive \cup Struct \cup {Map, Interface, Other}
              F == Field[t]
  <2>3. F \in [DOMAIN F -> T] /\ Slot(t, name) = {F[n] : n \in {name} \cap DOMAIN F}
    BY <2>1, <2>2
  <2>. HIDE DEF T, F
  <2>4. \A s \in Slot(t, name) : s \in T
    BY <2>3
  <2>5. \A s, u \in Slot(t, name) : s = u
    BY <2>3
  <2>. QED
    BY <1>2, <2>4, <2>5 DEF T
<1>. QED
  BY <1>1, <1>2

\* What a list that is not refused is filled in to.
LEMMA FilledType ==
  ASSUME NEW e \in Call, NEW c \in Cell, ~Refuses(e, c), c.type \in Nested,
         NEW s \in Slot(e.dest, c.name)
  PROVE  Filled(s) \in Struct \cup {Map}
<1>1. e.dest \in Struct \cup {Map}
  BY DEF Call
<1>2. s \in Primitive \cup Struct \cup {Map, Interface, Other}
  BY <1>1, SlotFacts
<1>3. CASE c.type = "nvlist"
  <2>1. s \notin Primitive \cup {Other}
    BY <1>3 DEF Refuses
  <2>. QED
    BY <1>2, <2>1 DEF Filled
<1>4. CASE c.type = "nvlist_array"
  <2>1. e.dest = Map
    BY <1>4 DEF Refuses
  <2>2. s = Interface
    BY <1>1, <2>1, SlotFacts
  <2>. QED
    BY <2>2 DEF Filled
<1>. QED
  BY <1>3, <1>4 DEF Nested

LEMMA CallsType ==
  ASSUME NEW e \in Call, NEW c \in Cell, ~Refuses(e, c)
  PROVE  /\ Times(e, c) \in Nat
         /\ Calls(e, c) \in Seq(Call)
         /\ Len(Calls(e, c)) = Times(e, c)
         /\ \A i \in 1 .. Times(e, c) : Calls(e, c)[i] \in Call
<1>. DEFINE n == Times(e, c)
            d == Filled(CHOOSE s \in Slot(e.dest, c.name) : TRUE)
            l(i) == IF i \in DOMAIN c.sub THEN c.sub[i] ELSE c.list
            call(i) == [dest |-> d, list |-> l(i)]
<1>1. c.n \in Nat /\ c.sub \in Seq(ListId) /\ c.list \in ListId /\ c.type \in Type
  BY DEF Cell
<1>2. n \in Nat
  BY <1>1 DEF Times
<1>3. Calls(e, c) = [i \in 1 .. n |-> call(i)]
  BY DEF Calls
<1>4. ASSUME NEW i \in 1 .. n
      PROVE  call(i) \in Call
  <2>1. c.type \in Nested /\ Slot(e.dest, c.name) # {}
    BY <1>1, <1>4 DEF Times
  <2>2. d \in Struct \cup {Map}
    <3>1. (CHOOSE s \in Slot(e.dest, c.name) : TRUE) \in Slot(e.dest, c.name)
      BY <2>1, Zenon
    <3>. QED
      BY <2>1, <3>1, FilledType
  <2>3. l(i) \in ListId
    BY <1>1
  <2>. HIDE DEF d, l
  <2>. QED
    BY <2>2, <2>3 DEF Call
<1>. HIDE DEF call, n
<1>5. Calls(e, c) \in Seq(Call) /\ Len(Calls(e, c)) = n
  BY <1>2, <1>3, <1>4
<1>6. \A i \in 1 .. n : Calls(e, c)[i] \in Call
  BY <1>3, <1>4
<1>. QED
  BY <1>2, <1>5, <1>6 DEF n

\* Never more calls than lists that follow, and one for each where it has a place.
LEMMA TimesFacts ==
  ASSUME NEW k \in DOMAIN Buffer, NEW o \in DOMAIN Buffer[k].at, Buffer[k].at[o].size > 0,
         NEW e \in Call
  PROVE  LET c == Buffer[k].at[o]
         IN  /\ Times(e, c) <= Len(c.sub)
             /\ c.type \notin Nested \/ Slot(e.dest, c.name) # {} => Times(e, c) = Len(c.sub)
<1>. DEFINE c == Buffer[k].at[o]
<1>1. c \in Cell /\ WellTyped(Buffer[k], o)
  BY CellFacts
<1>2. /\ c.type \in Type /\ c.n \in Nat /\ Len(c.sub) \in Nat
      /\ c.type = "nvlist" => Len(c.sub) = 1
      /\ c.type = "nvlist_array" => Len(c.sub) = c.n
      /\ c.type \notin Nested => c.sub = <<>>
  BY <1>1 DEF WellTyped, Cell
<1>. HIDE DEF c
<1>3. c.type \notin Nested => Len(c.sub) = 0
  BY <1>2
<1>4. c.type \notin Nested \/ c.type = "nvlist" \/ c.type = "nvlist_array"
  BY DEF Nested
<1>5. "nvlist" \in Nested /\ "nvlist_array" \in Nested
  BY DEF Nested
<1>6. /\ c.type \notin Nested => Times(e, c) = 0
      /\ c.type \in Nested /\ Slot(e.dest, c.name) = {} => Times(e, c) = 0
      /\ c.type = "nvlist" /\ Slot(e.dest, c.name) # {} => Times(e, c) = 1
      /\ c.type = "nvlist_array" /\ Slot(e.dest, c.name) # {} => Times(e, c) = c.n
  <2>1. c.type \notin Nested \/ Slot(e.dest, c.name) = {} => Times(e, c) = 0
    BY DEF Times
  <2>2. ASSUME c.type \in Nested, Slot(e.dest, c.name) # {}
        PROVE  Times(e, c) = IF c.type = "nvlist_array" THEN c.n ELSE 1
    BY <2>2 DEF Times
  <2>. QED
    BY <1>5, <2>1, <2>2
<1>. DEFINE m == Len(c.sub)
            n == Times(e, c)
<1>7. n <= m /\ (c.type \notin Nested \/ Slot(e.dest, c.name) # {} => n = m)
  <2>1. CASE c.type \notin Nested
    BY <1>3, <1>6, <2>1
  <2>2. CASE c.type \in Nested /\ Slot(e.dest, c.name) = {}
    BY <1>2, <1>6, <2>2
  <2>3. CASE c.type \in Nested /\ Slot(e.dest, c.name) # {}
    <3>1. n = m /\ m \in Nat
      BY <1>2, <1>4, <1>6, <2>3
    <3>. HIDE DEF m, n
    <3>. QED
      BY <3>1
  <2>. QED
    BY <2>1, <2>2, <2>3
<1>. QED
  BY <1>7 DEF c

-----------------------------------------------------------------------------
(* What holds of every buffer.                                               *)

\* The reader is at a cell, and the innermost call is there.
LEMMA HereFacts ==
  ASSUME TypeOK, Inside, pc = "reading"
  PROVE  /\ buf \in DOMAIN Buffer
         /\ B = Buffer[buf]
         /\ Start(pos) \in DOMAIN B.at
         /\ Here = B.at[Start(pos)]
         /\ Here \in Cell
         /\ stack \in Seq(Call)
         /\ stack # <<>>
         /\ Head(stack) = stack[1]
         /\ 1 \in DOMAIN stack
         /\ Head(stack) \in Call
         /\ B.pending[Start(pos)] \in Seq(ListId)
         /\ B.pending[Start(pos)] # <<>>
         /\ WellPlaced(B, Start(pos))
<1>1. buf \in DOMAIN Buffer /\ Start(pos) \in DOMAIN B.at /\ stack # <<>> /\ stack \in Seq(Call)
  BY DEF TypeOK, Inside
<1>2. Here \in Cell /\ WellPlaced(B, Start(pos))
  BY <1>1, CellFacts DEF Here, B
<1>3. B.pending[Start(pos)] \in Seq(ListId)
  BY <1>1, BufferFacts DEF B
<1>4. Head(stack) = stack[1] /\ Head(stack) \in Call /\ 1 \in DOMAIN stack
  BY <1>1
<1>. QED
  BY <1>1, <1>2, <1>3, <1>4 DEF WellPlaced, Here, B

LEMMA UnmarshalBase ==
  ASSUME NEW t \in Struct \cup {Map}, NEW k \in DOMAIN Buffer, Unmarshal(t, k)
  PROVE  /\ TypeOK' /\ Inside'
         /\ B' = Buffer[k] /\ Start(pos)' = HeaderLen
         /\ Len(stack') = 1 /\ DOMAIN stack' = {1} /\ made' = {stack'[1]}
         /\ stack'[1].list = Buffer[k].pending[HeaderLen][1]
         /\ stack'[1].list = Head(Buffer[k].pending[HeaderLen])
<1>. DEFINE l == Head(Buffer[k].pending[HeaderLen])
            e == [dest |-> t, list |-> l]
<1>1. /\ pc' = "reading" /\ buf' = k /\ pos' = 0 /\ got' = {} /\ result' = "none"
      /\ stack' = <<e>> /\ made' = {Head(stack')}
  BY DEF Unmarshal
<1>2. /\ HeaderLen \in DOMAIN Buffer[k].at
      /\ Buffer[k].pending[HeaderLen] \in Seq(ListId)
      /\ Len(Buffer[k].pending[HeaderLen]) = 1
  BY BufferFacts
<1>3. l = Buffer[k].pending[HeaderLen][1] /\ l \in ListId
  BY <1>2
<1>4. e \in Call /\ e.list = l
  BY <1>3 DEF Call
<1>5. Start(pos)' = HeaderLen /\ B' = Buffer[k]
  BY <1>1 DEF Start, B
<1>. HIDE DEF e, l
<1>6. /\ stack' \in Seq(Call) /\ stack' # <<>> /\ Len(stack') = 1
      /\ DOMAIN stack' = {1} /\ stack'[1] = e /\ Head(stack') = e
  BY <1>1, <1>4
<1>7. TypeOK'
  BY <1>1, <1>4, <1>6 DEF TypeOK
<1>8. Inside'
  <2>1. HeaderLen \in DOMAIN B'.at /\ Len(stack') <= Len(B'.pending[HeaderLen])
    BY <1>2, <1>5, <1>6
  <2>. QED
    BY <1>1, <1>5, <2>1 DEF Inside
<1>. QED
  BY <1>1, <1>3, <1>4, <1>5, <1>6, <1>7, <1>8 DEF l

LEMMA SetType ==
  ASSUME TypeOK, NEW e \in Call, NEW c \in Cell
  PROVE  \A g \in Set(e, c) : g.obj \in ListId /\ g.name \in PairName /\ g.of \in ListId
<1>. DEFINE h == [obj |-> e.list, name |-> c.name, of |-> c.list, elems |-> Elements(c)]
<1>1. h.obj = e.list /\ h.name = c.name /\ h.of = c.list
  OBVIOUS
<1>2. e.list \in ListId /\ c.name \in PairName /\ c.list \in ListId
  BY DEF Call, Cell
<1>3. \A g \in Set(e, c) : g \in got \/ g = h
  BY DEF Set
<1>. HIDE DEF h
<1>. QED
  BY <1>1, <1>2, <1>3 DEF TypeOK

\* Where the reader is after a pair or an end mark.
LEMMA PairBase ==
  ASSUME TypeOK, Inside, ReadPair
  PROVE  LET e == Head(stack)
             o == Start(pos)
             p == After(B, o)
         IN  /\ TypeOK' /\ Inside'
             /\ Calls(e, Here) \in Seq(Call)
             /\ Len(Calls(e, Here)) = Times(e, Here)
             /\ stack' = Calls(e, Here) \o stack
             /\ p \in DOMAIN B.at /\ p > o /\ Start(pos)' = p /\ B' = B
             /\ B.pending[p] = Here.sub \o B.pending[o]
<1>. DEFINE e == Head(stack)
            o == Start(pos)
            c == Here
            new == Calls(e, c)
            p == After(B, o)
<1>1. /\ pc = "reading" /\ pc' = pc /\ buf' = buf /\ result' = result
      /\ c.size > 0
      /\ ~Refuses(e, c)
      /\ got' = Set(e, c)
      /\ stack' = new \o stack
      /\ made' = made \cup {new[i] : i \in 1 .. Times(e, c)}
      /\ pos' = p
  BY DEF ReadPair, AtPair, Here, NextPos
<1>2. /\ buf \in DOMAIN Buffer /\ o \in DOMAIN B.at /\ c = B.at[o] /\ c \in Cell
      /\ e \in Call /\ B = Buffer[buf] /\ WellPlaced(B, o)
      /\ B.pending[o] \in Seq(ListId) /\ B.pending[o] # <<>>
      /\ stack \in Seq(Call) /\ stack # <<>>
  BY <1>1, HereFacts
<1>3. /\ Times(e, c) \in Nat /\ new \in Seq(Call) /\ Len(new) = Times(e, c)
      /\ \A i \in 1 .. Times(e, c) : new[i] \in Call
  BY <1>1, <1>2, CallsType
<1>4. Times(e, c) <= Len(c.sub)
  BY <1>1, <1>2, TimesFacts
<1>5. B.pending[p] = c.sub \o B.pending[o] /\ c.sub \in Seq(ListId)
  BY <1>1, <1>2 DEF WellPlaced, Cell
<1>. DEFINE q == B.pending[o]
<1>6. q \in Seq(ListId) /\ q # <<>> /\ B.pending[p] = c.sub \o q
  BY <1>2, <1>5
<1>7. B.pending[p] # <<>> /\ Len(B.pending[p]) = Len(c.sub) + Len(q)
  <2>. HIDE DEF q, c
  <2>. QED
    BY <1>5, <1>6, ConcatNonEmpty, Concat
<1>8. p \in DOMAIN B.at /\ Start(p) = p /\ p > o
  BY <1>2, <1>7, NextCell
<1>9. B' = B /\ Start(pos)' = p
  BY <1>1, <1>8 DEF B, Start
<1>10. /\ stack' \in Seq(Call) /\ stack' # <<>>
       /\ Len(stack') = Len(new) + Len(stack)
  <2>. HIDE DEF new
  <2>. QED
    BY <1>1, <1>2, <1>3, ConcatNonEmpty, Concat
<1>11. TypeOK'
  <2>1. made' \subseteq Call
    BY <1>1, <1>3 DEF TypeOK
  <2>2. \A g \in got' : g.obj \in ListId /\ g.name \in PairName /\ g.of \in ListId
    BY <1>1, <1>2, SetType
  <2>3. pos' \in Nat
    BY <1>1, <1>2, <1>8, CellFacts
  <2>. QED
    BY <1>1, <1>2, <1>10, <2>1, <2>2, <2>3 DEF TypeOK
<1>12. Inside'
  <2>1. Len(stack) <= Len(q) /\ result = "none"
    BY <1>1 DEF Inside
  <2>2. Len(stack) \in Nat /\ Len(q) \in Nat /\ Len(c.sub) \in Nat
    BY <1>2, <1>5, <1>6
  <2>3. Len(stack') <= Len(B.pending[p])
    <3>. HIDE DEF q, c, new, p
    <3>. QED
      BY <1>3, <1>4, <1>7, <1>10, <2>1, <2>2
  <2>. QED
    BY <1>1, <1>8, <1>9, <2>1, <2>3 DEF Inside
<1>. QED
  BY <1>1, <1>3, <1>5, <1>8, <1>9, <1>11, <1>12

LEMMA EndBase ==
  ASSUME TypeOK, Inside, ReadEnd
  PROVE  LET o == Start(pos)
             p == After(B, o)
         IN  /\ TypeOK' /\ Inside'
             /\ B' = B /\ B.pending[p] = Tail(B.pending[o]) /\ p \in DOMAIN B.pending /\ p > o
             /\ Start(pos)' = p
             /\ stack' # <<>> => p \in DOMAIN B.at
<1>. DEFINE o == Start(pos)
            c == Here
            p == After(B, o)
            q == B.pending[o]
<1>1. /\ pc = "reading" /\ buf' = buf /\ made' = made /\ got' = got /\ pos' = p
      /\ stack' = Tail(stack) /\ c.size = 0
      /\ pc' = IF stack' = <<>> THEN "idle" ELSE "reading"
      /\ result' = IF stack' = <<>> THEN "ok" ELSE "none"
  BY DEF ReadEnd, AtEnd, Here, NextPos
<1>2. /\ buf \in DOMAIN Buffer /\ o \in DOMAIN B.at /\ c = B.at[o] /\ B = Buffer[buf]
      /\ WellPlaced(B, o) /\ q \in Seq(ListId) /\ q # <<>>
      /\ stack \in Seq(Call) /\ stack # <<>> /\ o \in Nat
  BY <1>1, HereFacts, CellFacts
<1>3. p \in DOMAIN B.pending /\ B.pending[p] = Tail(q) /\ p \in Nat /\ p > o
  BY <1>1, <1>2 DEF WellPlaced, After, Int32Len
<1>4. Start(p) = p /\ B' = B /\ Start(pos)' = p
  BY <1>1, <1>2, <1>3 DEF Start, B
<1>5. stack' \in Seq(Call) /\ Len(stack') = Len(stack) - 1 /\ Len(stack) \in Nat
  BY <1>1, <1>2
<1>6. Tail(q) \in Seq(ListId) /\ Len(Tail(q)) = Len(q) - 1 /\ Len(q) \in Nat
  <2>. HIDE DEF q
  <2>. QED
    BY <1>2
<1>7. Len(stack') <= Len(B.pending[p])
  <2>1. Len(stack) <= Len(q)
    BY <1>1 DEF Inside
  <2>. HIDE DEF q, p
  <2>. QED
    BY <1>3, <1>5, <1>6, <2>1
<1>8. ASSUME stack' # <<>> PROVE p \in DOMAIN B.at
  <2>1. Len(stack') # 0 /\ Len(stack') \in Nat
    BY <1>5, <1>8, EmptySeq
  <2>2. B.pending[p] # <<>>
    <3>1. Len(B.pending[p]) # 0
      <4>. HIDE DEF p, q
      <4>1. Len(B.pending[p]) \in Nat
        BY <1>3, <1>6
      <4>. QED
        BY <1>7, <2>1, <4>1
    <3>. QED
      BY <3>1
  <2>. QED
    BY <1>2, <2>2, NextCell
<1>9. TypeOK'
  BY <1>1, <1>2, <1>3, <1>5 DEF TypeOK
<1>10. Inside'
  BY <1>1, <1>4, <1>7, <1>8 DEF Inside
<1>. QED
  BY <1>1, <1>3, <1>4, <1>8, <1>9, <1>10

LEMMA FailBase ==
  ASSUME TypeOK, NEW outcome \in {"error", "panic"}, Fail(outcome)
  PROVE  TypeOK' /\ Inside'
<1>1. <<>> \in Seq(Call)
  OBVIOUS
<1>. QED
  BY <1>1 DEF Fail, TypeOK, Inside

-----------------------------------------------------------------------------
(* What holds of the lists that Unmarshal handles.                           *)

\* What is handled at the end was handled before.
LEMMA TakenBefore ==
  ASSUME made \subseteq made', B' = B, Taken'
  PROVE  Taken
<1>1. \A m \in made' : \A c \in Pairs(m.list) : ~Unplaced(m, c)
  BY DEF Taken, Pairs
<1>. QED
  BY <1>1 DEF Taken

\* The calls for a pair that is handled are for the lists that follow it, and
\* fill in what takes them.
LEMMA CallsAreRight ==
  ASSUME TypeOK, Inside, ReadPair, ~Unplaced(Head(stack), Here)
  PROVE  LET e == Head(stack)
             c == Here
         IN  /\ Times(e, c) = Len(c.sub)
             /\ \A i \in 1 .. Len(c.sub) :
                  /\ Calls(e, c)[i].list = c.sub[i]
                  /\ \A s \in Slot(e.dest, c.name) :
                       Calls(e, c)[i] = [dest |-> Filled(s), list |-> c.sub[i]]
             /\ \A i, j \in 1 .. Len(c.sub) : Calls(e, c)[i].dest = Calls(e, c)[j].dest
<1>. DEFINE e == Head(stack)
            o == Start(pos)
            c == Here
            S == Slot(e.dest, c.name)
            d == Filled(CHOOSE s \in S : TRUE)
<1>1. /\ buf \in DOMAIN Buffer /\ o \in DOMAIN Buffer[buf].at /\ c = Buffer[buf].at[o]
      /\ c \in Cell /\ c.size > 0 /\ e \in Call /\ c.sub \in Seq(ListId)
  BY HereFacts DEF ReadPair, AtPair, Here, Cell
<1>2. Times(e, c) = Len(c.sub)
  <2>1. c.type \notin Nested \/ S # {}
    BY DEF Unplaced
  <2>. QED
    BY <1>1, <2>1, TimesFacts
<1>3. ASSUME NEW i \in 1 .. Len(c.sub)
      PROVE  Calls(e, c)[i] = [dest |-> d, list |-> c.sub[i]]
  <2>1. i \in DOMAIN c.sub
    BY <1>1
  <2>. DEFINE l(j) == IF j \in DOMAIN c.sub THEN c.sub[j] ELSE c.list
  <2>2. Calls(e, c) = [j \in 1 .. Times(e, c) |-> [dest |-> d, list |-> l(j)]]
    BY DEF Calls
  <2>3. l(i) = c.sub[i]
    BY <2>1
  <2>. HIDE DEF l, d, c, e
  <2>. QED
    BY <1>2, <2>2, <2>3
<1>4. ASSUME NEW s \in S
      PROVE  d = Filled(s)
  <2>1. (CHOOSE x \in S : TRUE) \in S
    BY <1>4, Zenon
  <2>2. e.dest \in Struct \cup {Map}
    BY <1>1 DEF Call
  <2>3. (CHOOSE x \in S : TRUE) = s
    BY <1>4, <2>1, <2>2, SlotFacts
  <2>. QED
    BY <2>3
<1>. HIDE DEF d, c, e, S
<1>5. ASSUME NEW i \in 1 .. Len(c.sub)
      PROVE  Calls(e, c)[i].list = c.sub[i] /\ Calls(e, c)[i].dest = d
  <2>. DEFINE l == c.sub[i]
  <2>1. Calls(e, c)[i] = [dest |-> d, list |-> l]
    BY <1>3
  <2>. HIDE DEF l
  <2>2. Calls(e, c)[i].list = l /\ Calls(e, c)[i].dest = d
    BY <2>1
  <2>. QED
    BY <2>2 DEF l
<1>6. \A i \in 1 .. Len(c.sub) : \A s \in S :
        Calls(e, c)[i] = [dest |-> Filled(s), list |-> c.sub[i]]
  BY <1>3, <1>4
<1>. QED
  BY <1>2, <1>5, <1>6 DEF c, e, S

\* The innermost call is the one for the list the reader is in.
LEMMA InnermostCall ==
  ASSUME TypeOK, Inside, pc = "reading", InStep
  PROVE  Head(stack) \in made /\ Head(stack).list = Here.list
<1>1. Head(stack) = stack[1] /\ 1 \in DOMAIN stack
  BY HereFacts
<1>. DEFINE q == B.pending[Start(pos)]
<1>2. q \in Seq(ListId) /\ q # <<>> /\ Here.list = Head(q)
  BY HereFacts DEF WellPlaced
<1>3. stack[1] \in made /\ stack[1].list = q[1]
  BY <1>1 DEF InStep
<1>. HIDE DEF q
<1>4. Head(q) = q[1]
  BY <1>2
<1>. QED
  BY <1>1, <1>2, <1>3, <1>4

LEMMA PairHandled ==
  ASSUME TypeOK, Inside, ReadPair, InStep, Taken
  PROVE  ~Unplaced(Head(stack), Here)
<1>1. pc = "reading" /\ Here.size > 0
  BY DEF ReadPair, AtPair, Here
<1>2. Start(pos) \in DOMAIN B.at /\ Here = B.at[Start(pos)]
  BY <1>1, HereFacts
<1>3. Head(stack) \in made /\ Head(stack).list = Here.list
  BY <1>1, InnermostCall
<1>4. Here \in Pairs(Head(stack).list)
  BY <1>1, <1>2, <1>3 DEF Pairs
<1>. QED
  BY <1>3, <1>4 DEF Taken

\* The lists that follow a pair have not been seen before.
LEMMA NewLists ==
  ASSUME TypeOK, Inside, pc = "reading", OneCallPerList,
         NEW m \in made, NEW i \in DOMAIN Here.sub
  PROVE  m.list # Here.sub[i]
<1>. DEFINE o == Start(pos)
<1>1. buf \in DOMAIN Buffer /\ B = Buffer[buf] /\ o \in DOMAIN B.at /\ Here = B.at[o]
  BY HereFacts
<1>2. DistinctLists(B)
  BY <1>1, BufferAssumption DEF WellFormed
<1>3. B.at[o].sub[i] # Head(B.pending[HeaderLen])
  BY <1>1, <1>2 DEF DistinctLists
<1>4. ASSUME NEW q \in DOMAIN B.at, q < o, NEW j \in DOMAIN B.at[q].sub
      PROVE  B.at[q].sub[j] # B.at[o].sub[i]
  <2>1. B.at[o].sub[i] = B.at[q].sub[j] => o = q
    BY <1>1, <1>2 DEF DistinctLists
  <2>2. o \in Nat /\ q \in Nat
    BY <1>1, CellFacts
  <2>. QED
    BY <1>4, <2>1, <2>2
<1>5. \/ m.list = Head(B.pending[HeaderLen])
      \/ \E q \in DOMAIN B.at : q < o /\ \E j \in DOMAIN B.at[q].sub : B.at[q].sub[j] = m.list
  BY DEF OneCallPerList
<1>. QED
  BY <1>1, <1>3, <1>4, <1>5

LEMMA PairInStep ==
  ASSUME TypeOK, Inside, ReadPair, InStep, ~Unplaced(Head(stack), Here)
  PROVE  InStep'
<1>. DEFINE e == Head(stack)
            o == Start(pos)
            p == After(B, o)
            sub == Here.sub
            q == B.pending[o]
            new == Calls(e, Here)
<1>1. /\ new \in Seq(Call) /\ Len(new) = Times(e, Here) /\ stack' = new \o stack
      /\ Start(pos)' = p /\ B' = B /\ B.pending[p] = sub \o q
  BY PairBase
<1>2. sub \in Seq(ListId) /\ q \in Seq(ListId) /\ stack \in Seq(Call)
  BY HereFacts DEF ReadPair, Cell
<1>3. Len(new) = Len(sub) /\ \A i \in 1 .. Len(sub) : new[i].list = sub[i]
  BY <1>1, CallsAreRight
<1>4. Len(stack) = Len(q) /\ \A i \in DOMAIN stack : stack[i] \in made /\ stack[i].list = q[i]
  BY DEF InStep
<1>5. made' = made \cup {new[i] : i \in 1 .. Len(new)}
  BY <1>1 DEF ReadPair
<1>. HIDE DEF e, o, p, sub, q, new
<1>6. Len(sub) \in Nat /\ Len(q) \in Nat /\ DOMAIN stack = 1 .. Len(q)
  BY <1>2, <1>4
<1>7. Len(stack') = Len(sub) + Len(q) /\ Len(sub \o q) = Len(sub) + Len(q) /\ stack' \in Seq(Call)
  <2>1. new \o stack \in Seq(Call) /\ Len(new \o stack) = Len(new) + Len(stack)
    BY <1>1, <1>2, Concat
  <2>2. Len(sub \o q) = Len(sub) + Len(q)
    BY <1>2, Concat
  <2>. QED
    BY <1>1, <1>3, <1>4, <2>1, <2>2
<1>8. ASSUME NEW i \in DOMAIN stack'
      PROVE  stack'[i] \in made' /\ stack'[i].list = (sub \o q)[i]
  <2>1. i \in 1 .. (Len(sub) + Len(q))
    BY <1>7
  <2>2. CASE i \in 1 .. Len(sub)
    <3>1. stack'[i] = new[i] /\ (sub \o q)[i] = sub[i]
      BY <1>1, <1>2, <1>3, <2>2, ConcatLeft
    <3>2. new[i] \in made'
      BY <1>3, <1>5, <2>2
    <3>. QED
      BY <1>3, <2>2, <3>1, <3>2
  <2>3. CASE i \notin 1 .. Len(sub)
    <3>1. PICK j \in 1 .. Len(q) : i = Len(sub) + j
      BY <1>6, <2>1, <2>3, SecondPart
    <3>2. stack'[i] = stack[j]
      <4>1. (new \o stack)[Len(new) + j] = stack[j]
        <5>1. j \in 1 .. Len(stack)
          BY <1>4, <3>1
        <5>. QED
          BY <1>1, <1>2, <5>1, ConcatRight
      <4>. QED
        BY <1>1, <1>3, <3>1, <4>1
    <3>3. (sub \o q)[i] = q[j]
      BY <1>2, <3>1, ConcatRight
    <3>. QED
      BY <1>4, <1>5, <1>6, <3>1, <3>2, <3>3
  <2>. QED
    BY <2>2, <2>3
<1>. QED
  BY <1>1, <1>7, <1>8 DEF InStep

LEMMA PairOneCall ==
  ASSUME TypeOK, Inside, ReadPair, InStep, OneCallPerList, ~Unplaced(Head(stack), Here)
  PROVE  OneCallPerList'
<1>. DEFINE e == Head(stack)
            o == Start(pos)
            p == After(B, o)
            sub == Here.sub
            new == Calls(e, Here)
<1>1. /\ new \in Seq(Call) /\ Len(new) = Times(e, Here) /\ Start(pos)' = p /\ B' = B /\ p > o
      /\ p \in DOMAIN B.at
  BY PairBase
<1>2. /\ Len(new) = Len(sub) /\ \A i \in 1 .. Len(sub) : new[i].list = sub[i]
      /\ \A i, j \in 1 .. Len(sub) : new[i].dest = new[j].dest
  BY <1>1, CallsAreRight
<1>3. made' = made \cup {new[i] : i \in 1 .. Len(new)}
  BY <1>1 DEF ReadPair
<1>4. /\ sub \in Seq(ListId) /\ DOMAIN sub = 1 .. Len(sub) /\ o \in DOMAIN B.at /\ B.at[o].sub = sub
      /\ o \in Nat /\ p \in Nat /\ \A q \in DOMAIN B.at : q \in Nat
  <2>1. /\ sub \in Seq(ListId) /\ o \in DOMAIN B.at /\ B.at[o].sub = sub
        /\ buf \in DOMAIN Buffer /\ B = Buffer[buf]
    BY HereFacts DEF ReadPair, Cell
  <2>2. \A q \in DOMAIN B.at : q \in Nat
    BY <2>1, CellFacts
  <2>. QED
    BY <1>1, <2>1, <2>2
<1>5. \A m \in made, i \in DOMAIN sub : m.list # sub[i]
  BY NewLists DEF ReadPair
<1>6. \A m, n \in made : m.list = n.list => m = n
  BY DEF OneCallPerList
<1>7. \A m \in made :
        \/ m.list = Head(B.pending[HeaderLen])
        \/ \E q \in DOMAIN B.at : q < o /\ \E i \in DOMAIN B.at[q].sub : B.at[q].sub[i] = m.list
  BY DEF OneCallPerList
<1>. HIDE DEF e, o, p, sub, new
<1>8. \A m \in made' : m \in made \/ \E i \in 1 .. Len(sub) : m = new[i]
  BY <1>2, <1>3
<1>9. ASSUME NEW m \in made', NEW n \in made', m.list = n.list
      PROVE  m = n
  <2>1. CASE m \in made /\ n \in made
    BY <1>6, <1>9, <2>1
  <2>2. CASE m \notin made /\ n \in made
    BY <1>2, <1>4, <1>5, <1>8, <1>9, <2>2
  <2>3. CASE m \in made /\ n \notin made
    BY <1>2, <1>4, <1>5, <1>8, <1>9, <2>3
  <2>4. CASE m \notin made /\ n \notin made
    <3>1. PICK i \in 1 .. Len(sub) : m = new[i]
      BY <1>8, <2>4
    <3>2. PICK j \in 1 .. Len(sub) : n = new[j]
      BY <1>8, <2>4
    <3>3. new[i] \in Call /\ new[j] \in Call
      BY <1>1, <1>2, <3>1, <3>2
    <3>4. new[i].dest = new[j].dest /\ new[i].list = new[j].list
      BY <1>2, <1>9, <3>1, <3>2
    <3>. QED
      BY <3>1, <3>2, <3>3, <3>4 DEF Call
  <2>. QED
    BY <2>1, <2>2, <2>3, <2>4
<1>10. ASSUME NEW m \in made'
       PROVE  \/ m.list = Head(B.pending[HeaderLen])
              \/ \E q \in DOMAIN B.at :
                   q < p /\ \E i \in DOMAIN B.at[q].sub : B.at[q].sub[i] = m.list
  <2>1. CASE m \in made
    <3>1. \A q \in DOMAIN B.at : q < o => q < p
      BY <1>1, <1>4
    <3>. QED
      BY <1>7, <2>1, <3>1
  <2>2. CASE m \notin made
    <3>1. PICK i \in 1 .. Len(sub) : m = new[i]
      BY <1>8, <2>2
    <3>. QED
      BY <1>1, <1>2, <1>4, <3>1
  <2>. QED
    BY <2>1, <2>2
<1>. QED
  BY <1>1, <1>9, <1>10 DEF OneCallPerList

\* Arrays that are not misread are read element by element.
LEMMA ElementsInOrder ==
  ASSUME NEW c \in Cell, ~Misread(c)
  PROVE  Elements(c) = [i \in 1 .. c.n |-> i]
<1>. DEFINE n == c.n
<1>1. n \in Nat
  BY DEF Cell
<1>2. CASE c.type \in {"string_array", "boolean_array"}
  <2>1. n <= 1
    BY <1>1, <1>2 DEF Misread
  <2>2. \A i \in 1 .. n : i = 1
    <3>. HIDE DEF n
    <3>. QED
      BY <1>1, <2>1
  <2>3. Elements(c) = [i \in 1 .. n |-> 1]
    BY <1>2 DEF Elements
  <2>. HIDE DEF n
  <2>4. [i \in 1 .. n |-> 1] = [i \in 1 .. n |-> i]
    BY <2>2
  <2>. QED
    BY <2>3, <2>4 DEF n
<1>3. CASE c.type = "byte_array"
  <2>1. n % 8 = 0
    BY <1>3 DEF Misread
  <2>2. 8 * ((n + 7) \div 8) = n
    <3>. HIDE DEF n
    <3>. QED
      BY <1>1, <2>1
  <2>3. Elements(c) = [i \in 1 .. 8 * ((n + 7) \div 8) |-> IF i <= n THEN i ELSE 0]
    BY <1>3 DEF Elements
  <2>. HIDE DEF n
  <2>4. [i \in 1 .. n |-> IF i <= n THEN i ELSE 0] = [i \in 1 .. n |-> i]
    BY <1>1
  <2>. QED
    BY <2>2, <2>3, <2>4 DEF n
<1>4. CASE c.type \notin {"string_array", "boolean_array", "byte_array"}
  BY <1>4 DEF Elements
<1>. QED
  BY <1>2, <1>3, <1>4

\* A pair is set as it was packed, and stays as it was set.
LEMMA PairServed ==
  ASSUME TypeOK, Inside, ReadPair, ~Unplaced(Head(stack), Here)
  PROVE  Served(Head(stack), Here, got', made')
<1>. DEFINE e == Head(stack)
            c == Here
            new == Calls(e, c)
            h == [obj |-> e.list, name |-> c.name, of |-> c.list, elems |-> Elements(c)]
<1>1. got' = Set(e, c) /\ made' = made \cup {new[i] : i \in 1 .. Times(e, c)}
  BY DEF ReadPair
<1>2. c \in Cell /\ c.n \in Nat /\ c.type \in Type /\ DOMAIN c.sub = 1 .. Len(c.sub)
  BY HereFacts DEF ReadPair, Cell
<1>3. /\ Times(e, c) = Len(c.sub)
      /\ \A i \in 1 .. Len(c.sub) : \A s \in Slot(e.dest, c.name) :
           new[i] = [dest |-> Filled(s), list |-> c.sub[i]]
  BY CallsAreRight
<1>4. SUFFICES ASSUME ~Misread(c), NEW s \in Slot(e.dest, c.name)
               PROVE  IF c.type \in Nested
                      THEN \A i \in DOMAIN c.sub : [dest |-> Filled(s), list |-> c.sub[i]] \in made'
                      ELSE \E g \in got' :
                             g.obj = e.list /\ g.name = c.name /\ g.elems = [i \in 1 .. c.n |-> i]
  BY DEF Served, Placed
<1>5. CASE c.type \notin Nested
  <2>1. c.type \in Primitive
    <3>1. c.type # "unknown"
      BY DEF ReadPair, Refuses
    <3>2. c.type \notin {"hrtime", "double"}
      BY <1>4 DEF Misread
    <3>. QED
      BY <1>2, <1>5, <3>1, <3>2 DEF Primitive
  <2>2. h \in got'
    BY <1>1, <1>4, <2>1 DEF Set
  <2>3. Elements(c) = [i \in 1 .. c.n |-> i]
    BY <1>2, <1>4, ElementsInOrder
  <2>4. h.obj = e.list /\ h.name = c.name /\ h.elems = Elements(c)
    OBVIOUS
  <2>. HIDE DEF h, c, e
  <2>. QED
    BY <1>5, <2>2, <2>3, <2>4
<1>6. CASE c.type \in Nested
  <2>. HIDE DEF new, c, e
  <2>. QED
    BY <1>1, <1>2, <1>3, <1>4, <1>6
<1>. QED
  BY <1>5, <1>6

LEMMA StillServed ==
  ASSUME TypeOK, Inside, ReadPair, NEW m \in made,
         NEW q \in DOMAIN B.at, q < Start(pos), B.at[q].size > 0, B.at[q].list = m.list,
         Head(stack).list = Here.list, Served(m, B.at[q], got, made)
  PROVE  Served(m, B.at[q], got', made')
<1>. DEFINE e == Head(stack)
            o == Start(pos)
            c == Here
            x == B.at[q]
<1>1. /\ buf \in DOMAIN Buffer /\ B = Buffer[buf] /\ o \in DOMAIN B.at /\ c = B.at[o]
      /\ q \in Nat /\ o \in Nat /\ c.size > 0
  BY HereFacts, CellFacts DEF ReadPair, AtPair, Here
<1>2. ~(x.list = c.list /\ x.name = c.name)
  <2>1. WellTyped(B, o)
    BY <1>1, CellFacts
  <2>2. x.list = c.list /\ x.name = c.name => q = o
    BY <1>1, <2>1 DEF WellTyped
  <2>. QED
    BY <1>1, <2>2
<1>3. got' = Set(e, c) /\ made \subseteq made'
  BY DEF ReadPair
<1>4. \A g \in got : g.obj # e.list \/ g.name # c.name => g \in got'
  BY <1>3 DEF Set
<1>5. \A g \in got : g.obj = m.list /\ g.name = x.name => g \in got'
  BY <1>2, <1>4
<1>. HIDE DEF x
<1>6. SUFFICES ASSUME ~Misread(x), NEW s \in Slot(m.dest, x.name)
               PROVE  IF x.type \in Nested
                      THEN \A i \in DOMAIN x.sub : [dest |-> Filled(s), list |-> x.sub[i]] \in made'
                      ELSE \E g \in got' :
                             g.obj = m.list /\ g.name = x.name /\ g.elems = [i \in 1 .. x.n |-> i]
  BY DEF x, Served, Placed
<1>7. IF x.type \in Nested
      THEN \A i \in DOMAIN x.sub : [dest |-> Filled(s), list |-> x.sub[i]] \in made
      ELSE \E g \in got : g.obj = m.list /\ g.name = x.name /\ g.elems = [i \in 1 .. x.n |-> i]
  BY <1>6 DEF Served, Placed, x
<1>. QED
  BY <1>3, <1>5, <1>7, Zenon

\* There is nothing between the cell at the reader and the next one.
LEMMA NothingBetween ==
  ASSUME TypeOK, Inside, pc = "reading", NEW q \in DOMAIN B.at, q < After(B, Start(pos))
  PROVE  q < Start(pos) \/ q = Start(pos)
<1>. DEFINE o == Start(pos)
            p == After(B, o)
<1>1. buf \in DOMAIN Buffer /\ B = Buffer[buf] /\ o \in DOMAIN B.at /\ WellPlaced(B, o)
  BY HereFacts
<1>2. q \in Nat /\ o \in Nat /\ p \in Nat
  <2>1. q \in Nat /\ o \in Nat /\ B.at[o].size \in Nat
    BY <1>1, CellFacts DEF Cell
  <2>. QED
    BY <2>1 DEF After, Int32Len
<1>3. q <= o \/ q >= p
  BY <1>1 DEF WellPlaced
<1>. HIDE DEF p
<1>4. q < p
  BY DEF p
<1>. QED
  BY <1>2, <1>3, <1>4

LEMMA PairSoFar ==
  ASSUME TypeOK, Inside, ReadPair, InStep, OneCallPerList, SoFarAsPacked,
         ~Unplaced(Head(stack), Here)
  PROVE  SoFarAsPacked'
<1>. DEFINE e == Head(stack)
            o == Start(pos)
            c == Here
            p == After(B, o)
            new == Calls(e, c)
<1>1. /\ Start(pos)' = p /\ B' = B /\ pc = "reading"
      /\ got' = Set(e, c) /\ made' = made \cup {new[i] : i \in 1 .. Times(e, c)}
  BY PairBase DEF ReadPair
<1>2. e \in made /\ e.list = c.list /\ o \in DOMAIN B.at /\ c = B.at[o]
  BY <1>1, InnermostCall, HereFacts
<1>3. ASSUME NEW g \in got' PROVE g.of = g.obj
  <2>. DEFINE h == [obj |-> e.list, name |-> c.name, of |-> c.list, elems |-> Elements(c)]
  <2>1. g \in got \/ g = h
    BY <1>1, <1>3 DEF Set
  <2>2. h.of = h.obj
    BY <1>2
  <2>. HIDE DEF h
  <2>. QED
    BY <2>1, <2>2 DEF SoFarAsPacked
<1>4. OneCallPerList'
  BY PairOneCall
<1>5. \A m, n \in made' : m.list = n.list => m = n
  BY <1>4 DEF OneCallPerList
<1>6. ASSUME NEW q \in DOMAIN B.at, q < p
      PROVE  /\ \E m \in made' : m.list = B.at[q].list
             /\ B.at[q].size > 0 =>
                  \A m \in made' : m.list = B.at[q].list => Served(m, B.at[q], got', made')
  <2>1. CASE q = o
    <3>1. B.at[q] = c /\ e \in made'
      BY <1>1, <1>2, <2>1
    <3>2. ASSUME NEW m \in made', m.list = c.list PROVE Served(m, B.at[q], got', made')
      <4>1. m = e
        BY <1>2, <1>5, <3>1, <3>2
      <4>2. Served(e, c, got', made')
        BY PairServed
      <4>. QED
        BY <1>1, <3>1, <4>1, <4>2
    <3>. QED
      BY <1>2, <3>1, <3>2
  <2>2. CASE q < o
    <3>1. PICK n \in made : n.list = B.at[q].list
      BY <2>2 DEF SoFarAsPacked
    <3>2. n \in made'
      BY <1>1
    <3>3. ASSUME B.at[q].size > 0, NEW m \in made', m.list = B.at[q].list
          PROVE  Served(m, B.at[q], got', made')
      <4>1. m = n
        BY <1>5, <3>1, <3>2, <3>3
      <4>2. Served(n, B.at[q], got, made)
        BY <2>2, <3>1, <3>3 DEF SoFarAsPacked
      <4>. QED
        BY <1>2, <2>2, <3>1, <3>3, <4>1, <4>2, StillServed
    <3>. QED
      BY <3>1, <3>2, <3>3
  <2>. QED
    BY <1>1, <1>6, <2>1, <2>2, NothingBetween
<1>. HIDE DEF p
<1>. QED
  BY <1>1, <1>3, <1>6 DEF SoFarAsPacked

\* After an end mark: the outer call goes on in the outer list, or all is read.
LEMMA EndInStep ==
  ASSUME TypeOK, Inside, ReadEnd, InStep
  PROVE  /\ stack' # <<>> => InStep'
         /\ stack' = <<>> => \A q \in DOMAIN B.at : q < After(B, Start(pos))
<1>. DEFINE o == Start(pos)
            p == After(B, o)
            q == B.pending[o]
<1>1. /\ B' = B /\ B.pending[p] = Tail(q) /\ p \in DOMAIN B.pending /\ Start(pos)' = p
      /\ stack' = Tail(stack) /\ made' = made /\ pc = "reading"
  BY EndBase DEF ReadEnd
<1>2. /\ q \in Seq(ListId) /\ q # <<>> /\ stack \in Seq(Call) /\ stack # <<>>
      /\ buf \in DOMAIN Buffer /\ B = Buffer[buf]
  BY <1>1, HereFacts
<1>3. Len(stack) = Len(q) /\ \A i \in DOMAIN stack : stack[i] \in made /\ stack[i].list = q[i]
  BY DEF InStep
<1>. HIDE DEF o, p, q
<1>4. /\ Len(stack') = Len(stack) - 1 /\ DOMAIN stack' = 1 .. (Len(stack) - 1)
      /\ \A i \in DOMAIN stack' : i + 1 \in DOMAIN stack /\ stack'[i] = stack[i + 1]
  BY <1>1, <1>2
<1>5. Len(Tail(q)) = Len(q) - 1 /\ \A i \in 1 .. (Len(q) - 1) : Tail(q)[i] = q[i + 1]
  BY <1>2
<1>6. ASSUME stack' # <<>> PROVE InStep'
  <2>1. Len(stack') = Len(B.pending[p])
    BY <1>1, <1>3, <1>4, <1>5
  <2>2. \A i \in DOMAIN stack' : stack'[i] \in made' /\ stack'[i].list = B.pending[p][i]
    BY <1>1, <1>3, <1>4, <1>5
  <2>. QED
    BY <1>1, <2>1, <2>2 DEF InStep
<1>7. ASSUME stack' = <<>>, NEW x \in DOMAIN B.at PROVE x < p
  <2>1. B.pending[p] = <<>>
    <3>1. Len(stack') = 0
      BY <1>7
    <3>2. Tail(q) \in Seq(ListId) /\ Len(Tail(q)) = 0
      BY <1>2, <1>3, <1>4, <1>5, <3>1
    <3>. QED
      BY <1>1, <3>2, EmptySeq
  <2>2. p \notin DOMAIN B.at
    BY <1>2, <2>1, CellFacts DEF WellPlaced
  <2>3. p = B.size
    BY <1>1, <1>2, <2>2, BufferFacts
  <2>. QED
    BY <1>2, <2>3, OffsetFacts
<1>. QED
  BY <1>6, <1>7 DEF o, p

LEMMA EndSoFar ==
  ASSUME TypeOK, Inside, ReadEnd, InStep, OneCallPerList, SoFarAsPacked
  PROVE  /\ OneCallPerList'
         /\ SoFarAsPacked'
<1>. DEFINE o == Start(pos)
            p == After(B, o)
<1>1. /\ B' = B /\ Start(pos)' = p /\ made' = made /\ got' = got /\ pc = "reading"
      /\ Here.size = 0
  BY EndBase DEF ReadEnd, AtEnd, Here
<1>2. /\ Head(stack) \in made /\ Head(stack).list = Here.list /\ Here = B.at[o]
      /\ o \in DOMAIN B.at /\ B = Buffer[buf] /\ buf \in DOMAIN Buffer
  BY <1>1, InnermostCall, HereFacts
<1>3. \A q \in DOMAIN B.at : q \in Nat
  BY <1>2, CellFacts
<1>4. p \in Nat /\ p > o
  BY <1>1, <1>2, <1>3 DEF After, Int32Len
<1>5. OneCallPerList'
  <2>. HIDE DEF p
  <2>1. \A q \in DOMAIN B.at : q < o => q < p
    BY <1>2, <1>3, <1>4
  <2>. QED
    BY <1>1, <2>1 DEF OneCallPerList
<1>6. ASSUME NEW q \in DOMAIN B.at, q < p
      PROVE  /\ \E m \in made : m.list = B.at[q].list
             /\ B.at[q].size > 0 =>
                  \A m \in made : m.list = B.at[q].list => Served(m, B.at[q], got, made)
  <2>1. CASE q = o
    BY <1>1, <1>2, <2>1
  <2>2. CASE q < o
    BY <2>2 DEF SoFarAsPacked
  <2>. QED
    BY <1>1, <1>6, <2>1, <2>2, NothingBetween
<1>7. SoFarAsPacked'
  <2>. HIDE DEF p
  <2>. QED
    BY <1>1, <1>6 DEF SoFarAsPacked
<1>. QED
  BY <1>5, <1>7

\* FieldsAsPackedIfTaken says this of a result, by the offsets of the pairs.
AllServed ==
  /\ \A g \in got : g.of = g.obj
  /\ \A m \in made : \A q \in DOMAIN B.at :
       B.at[q].list = m.list /\ B.at[q].size > 0 => Served(m, B.at[q], got, made)

LEMMA ByOffset == FieldsAsPackedIfTaken <=> (result = "ok" /\ Taken => AllServed)
<1>1. ASSUME NEW m \in made
      PROVE  (\A c \in Pairs(m.list) : Served(m, c, got, made)) <=>
             \A q \in DOMAIN B.at :
               B.at[q].list = m.list /\ B.at[q].size > 0 => Served(m, B.at[q], got, made)
  BY DEF Pairs
<1>2. ASSUME NEW m, NEW c
      PROVE  Served(m, c, got, made) <=> Misread(c) \/ AsPacked(m, c)
  BY Zenon DEF Served, Placed, AsPacked
<1>3. FieldsAsPackedIfTaken <=>
        (result = "ok" /\ Taken =>
           /\ \A g \in got : g.of = g.obj
           /\ \A m \in made : \A c \in Pairs(m.list) : Served(m, c, got, made))
  BY <1>2, Zenon DEF FieldsAsPackedIfTaken, Taken
<1>. QED
  BY <1>1, <1>3 DEF AllServed

\* Once everything is read, everything is as it was packed.
LEMMA AllAsPacked ==
  SoFarAsPacked /\ (\A q \in DOMAIN B.at : q < Start(pos)) => FieldsAsPackedIfTaken
<1>. SUFFICES ASSUME SoFarAsPacked, \A q \in DOMAIN B.at : q < Start(pos)
              PROVE  FieldsAsPackedIfTaken
  OBVIOUS
<1>1. AllServed
  BY DEF AllServed, SoFarAsPacked
<1>. QED
  BY <1>1, ByOffset

-----------------------------------------------------------------------------
(* The invariant is inductive.                                               *)

LEMMA NotYet ==
  ASSUME result # "ok"
  PROVE  FieldsAsPackedIfTaken
BY DEF FieldsAsPackedIfTaken

LEMMA InitIInv == Init => IInv
<1>1. SUFFICES ASSUME Init PROVE IInv
  OBVIOUS
<1>2. TypeOK /\ Inside
  BY <1>1 DEF Init, TypeOK, Inside
<1>3. FieldsAsPackedIfTaken
  BY <1>1, NotYet DEF Init
<1>. QED
  BY <1>1, <1>2, <1>3 DEF Init, IInv

LEMMA UnmarshalIInv ==
  ASSUME NEW t \in Struct \cup {Map}, NEW k \in DOMAIN Buffer, Unmarshal(t, k)
  PROVE  IInv'
<1>1. /\ TypeOK' /\ Inside'
      /\ B' = Buffer[k] /\ Start(pos)' = HeaderLen
      /\ Len(stack') = 1 /\ DOMAIN stack' = {1} /\ made' = {stack'[1]}
      /\ stack'[1].list = Buffer[k].pending[HeaderLen][1]
      /\ stack'[1].list = Head(Buffer[k].pending[HeaderLen])
  BY UnmarshalBase
<1>2. result' = "none" /\ got' = {}
  BY DEF Unmarshal
<1>3. InStep'
  <2>1. Len(Buffer[k].pending[HeaderLen]) = 1
    BY BufferFacts
  <2>. QED
    BY <1>1, <2>1 DEF InStep
<1>4. OneCallPerList'
  BY <1>1 DEF OneCallPerList
<1>5. SoFarAsPacked'
  <2>1. \A q \in DOMAIN Buffer[k].at : ~(q < HeaderLen)
    BY OffsetFacts DEF HeaderLen
  <2>. QED
    BY <1>1, <1>2, <2>1 DEF SoFarAsPacked
<1>6. FieldsAsPackedIfTaken'
  BY <1>2 DEF FieldsAsPackedIfTaken
<1>. QED
  BY <1>1, <1>3, <1>4, <1>5, <1>6 DEF IInv

LEMMA PairIInv ==
  ASSUME IInv, ReadPair
  PROVE  IInv'
<1>1. TypeOK /\ Inside /\ pc = "reading" /\ result' = result /\ made \subseteq made'
  BY DEF IInv, ReadPair
<1>2. TypeOK' /\ Inside' /\ B' = B
  BY <1>1, PairBase
<1>3. ASSUME Taken'
      PROVE  InStep' /\ OneCallPerList' /\ SoFarAsPacked'
  <2>1. Taken
    BY <1>1, <1>2, <1>3, TakenBefore
  <2>2. InStep /\ OneCallPerList /\ SoFarAsPacked
    BY <1>1, <2>1 DEF IInv
  <2>3. ~Unplaced(Head(stack), Here)
    BY <1>1, <2>1, <2>2, PairHandled
  <2>. QED
    BY <1>1, <2>2, <2>3, PairInStep, PairOneCall, PairSoFar
<1>4. FieldsAsPackedIfTaken'
  BY <1>1 DEF Inside, FieldsAsPackedIfTaken
<1>. QED
  BY <1>2, <1>3, <1>4 DEF IInv

LEMMA EndIInv ==
  ASSUME IInv, ReadEnd
  PROVE  IInv'
<1>1. /\ TypeOK /\ Inside /\ pc = "reading" /\ made' = made
      /\ pc' = IF stack' = <<>> THEN "idle" ELSE "reading"
      /\ result' = IF stack' = <<>> THEN "ok" ELSE "none"
  BY DEF IInv, ReadEnd
<1>2. TypeOK' /\ Inside' /\ B' = B /\ Start(pos)' = After(B, Start(pos))
  BY <1>1, EndBase
<1>3. ASSUME Taken'
      PROVE  /\ OneCallPerList' /\ SoFarAsPacked'
             /\ stack' # <<>> => InStep'
             /\ stack' = <<>> => \A q \in DOMAIN B.at : q < After(B, Start(pos))
  <2>1. Taken
    BY <1>1, <1>2, <1>3, TakenBefore
  <2>2. InStep /\ OneCallPerList /\ SoFarAsPacked
    BY <1>1, <2>1 DEF IInv
  <2>. QED
    BY <1>1, <2>2, EndInStep, EndSoFar
<1>4. FieldsAsPackedIfTaken'
  <2>1. SUFFICES ASSUME Taken', result' = "ok" PROVE FieldsAsPackedIfTaken'
    BY DEF FieldsAsPackedIfTaken, Taken
  <2>2. stack' = <<>>
    BY <1>1, <2>1
  <2>3. SoFarAsPacked' /\ \A q \in DOMAIN B'.at : q < Start(pos)'
    BY <1>2, <1>3, <2>1, <2>2
  <2>4. (SoFarAsPacked /\ (\A q \in DOMAIN B.at : q < Start(pos)) => FieldsAsPackedIfTaken)'
    BY AllAsPacked, PTL
  <2>. QED
    BY <2>3, <2>4
<1>. QED
  BY <1>1, <1>2, <1>3, <1>4 DEF IInv

LEMMA FailIInv ==
  ASSUME IInv, PairFails \/ ReadFails
  PROVE  IInv'
<1>1. PICK outcome \in {"error", "panic"} : Fail(outcome)
  BY DEF PairFails, ReadFails
<1>2. TypeOK' /\ Inside'
  BY <1>1, FailBase DEF IInv
<1>3. pc' = "idle" /\ result' # "ok"
  BY <1>1 DEF Fail
<1>4. FieldsAsPackedIfTaken'
  BY <1>3 DEF FieldsAsPackedIfTaken
<1>. QED
  BY <1>2, <1>3, <1>4 DEF IInv

LEMMA StepIInv ==
  ASSUME IInv, [Next]_vars
  PROVE  IInv'
<1>1. CASE Next
  BY <1>1, UnmarshalIInv, PairIInv, EndIInv, FailIInv DEF Next
<1>2. CASE UNCHANGED vars
  <2>1. /\ pc' = pc /\ buf' = buf /\ pos' = pos /\ stack' = stack /\ made' = made
        /\ got' = got /\ result' = result
    BY <1>2 DEF vars
  <2>2. B' = B
    BY <2>1 DEF B
  <2>3. TypeOK' /\ Inside'
    BY <2>1, <2>2 DEF IInv, TypeOK, Inside
  <2>4. Taken' <=> Taken
    BY <2>1, <2>2 DEF Taken, Pairs
  <2>5. /\ InStep => InStep'
        /\ OneCallPerList => OneCallPerList'
        /\ SoFarAsPacked => SoFarAsPacked'
    BY <2>1, <2>2 DEF InStep, OneCallPerList, SoFarAsPacked
  <2>6. FieldsAsPackedIfTaken'
    <3>1. result = "ok" /\ Taken => AllServed
      BY ByOffset DEF IInv
    <3>2. AllServed => AllServed'
      BY <2>1, <2>2 DEF AllServed
    <3>3. (FieldsAsPackedIfTaken <=> (result = "ok" /\ Taken => AllServed))'
      BY ByOffset, PTL
    <3>. QED
      BY <2>1, <2>4, <3>1, <3>2, <3>3
  <2>. QED
    BY <2>1, <2>3, <2>4, <2>5, <2>6 DEF IInv
<1>. QED
  BY <1>1, <1>2

LEMMA Inductive == Spec => []IInv
<1>1. IInv /\ [Next]_vars => IInv'
  BY StepIInv
<1>. QED
  BY InitIInv, <1>1, PTL DEF Spec

-----------------------------------------------------------------------------
(***************************************************************************)
(* The calls are for structs and maps and for lists, also where Unmarshal  *)
(* loses track of the lists, and there is a call exactly while it reads.   *)
(***************************************************************************)
THEOREM Typing == Spec => []TypeOK
<1>1. IInv => TypeOK
  BY DEF IInv
<1>. QED
  BY Inductive, <1>1, PTL

(***************************************************************************)
(* Unmarshal never reads on behind the packed list: a list that it does    *)
(* not skip (zfs/nvlist/decode.go:554-561) lets it return too early, with  *)
(* fewer calls than lists, and never too late.                             *)
(***************************************************************************)
THEOREM StaysInside == Spec => []Inside
<1>1. IInv => Inside
  BY DEF IInv
<1>. QED
  BY Inductive, <1>1, PTL

(***************************************************************************)
(* Where every list has a place, every struct and map has what its own     *)
(* list says, in whatever way structs, maps, interfaces and arrays of      *)
(* lists are nested, but for the values of pairs that are misread: times   *)
(* and floating point numbers, arrays of more than one string or boolean,  *)
(* byte arrays with padding (zfs/nvlist/decode.go:334-398, 436-606).       *)
(***************************************************************************)
THEOREM FieldsAreRight == Spec => []FieldsAsPackedIfTaken
<1>1. IInv => FieldsAsPackedIfTaken
  BY DEF IInv
<1>. QED
  BY Inductive, <1>1, PTL

\* All calls have returned, a new outermost call is made, or there is less of
\* the packed list ahead than before.
MovesOn ==
  \/ pc = "idle" \/ pc' = "idle"
  \/ pos < pos' /\ pos' < B.size

(***************************************************************************)
(* Every call of Next from Unmarshal moves on and none goes beyond the     *)
(* packed list, so the recursion ends whatever lists it loses track of     *)
(* (zfs/nvlist/decode.go:436-606).                                         *)
(***************************************************************************)
THEOREM EveryPairMovesOn == Spec => [][MovesOn]_vars
<1>1. ASSUME IInv, Next
      PROVE  MovesOn
  <2>1. TypeOK /\ Inside /\ pos \in Nat
    BY <1>1 DEF IInv, TypeOK
  <2>2. ASSUME pc = "reading", After(B, Start(pos)) \in DOMAIN B.at, After(B, Start(pos)) > Start(pos)
        PROVE  pos < After(B, Start(pos)) /\ After(B, Start(pos)) < B.size
    <3>. DEFINE p == After(B, Start(pos))
    <3>1. p \in Nat /\ p < B.size /\ Start(pos) \in Nat
      BY <2>1, <2>2, HereFacts, OffsetFacts
    <3>2. pos <= Start(pos)
      BY <2>1 DEF Start, HeaderLen
    <3>3. p > Start(pos)
      BY <2>2
    <3>. HIDE DEF p
    <3>4. pos < p
      BY <2>1, <3>1, <3>2, <3>3
    <3>. QED
      BY <3>1, <3>4 DEF p
  <2>3. CASE ReadPair
    <3>1. pc = "reading" /\ pos' = After(B, Start(pos))
      BY <2>3 DEF ReadPair, NextPos
    <3>2. After(B, Start(pos)) \in DOMAIN B.at /\ After(B, Start(pos)) > Start(pos)
      BY <2>1, <2>3, PairBase
    <3>. QED
      BY <2>2, <3>1, <3>2 DEF MovesOn
  <2>4. CASE ReadEnd
    <3>1. /\ pc = "reading" /\ pos' = After(B, Start(pos))
          /\ pc' = IF stack' = <<>> THEN "idle" ELSE "reading"
      BY <2>4 DEF ReadEnd, NextPos
    <3>2. /\ After(B, Start(pos)) > Start(pos)
          /\ stack' # <<>> => After(B, Start(pos)) \in DOMAIN B.at
      BY <2>1, <2>4, EndBase
    <3>. QED
      BY <2>2, <3>1, <3>2 DEF MovesOn
  <2>5. CASE PairFails \/ ReadFails \/ \E t \in Struct \cup {Map}, i \in DOMAIN Buffer : Unmarshal(t, i)
    BY <2>5 DEF PairFails, ReadFails, Fail, Unmarshal, MovesOn
  <2>. QED
    BY <1>1, <2>3, <2>4, <2>5 DEF Next
<1>2. IInv /\ [Next]_vars => [MovesOn]_vars
  BY <1>1
<1>. QED
  BY Inductive, <1>2, PTL DEF Spec
=============================================================================
