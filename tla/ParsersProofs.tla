---------------------------- MODULE ParsersProofs ----------------------------
(***************************************************************************)
(* Proofs about Parsers, for every set of packed lists in which the arrays *)
(* that handlePool and parseVdevs skip have one element.                   *)
(***************************************************************************)
EXTENDS Parsers, NVListReaderProofs

(***************************************************************************)
(* handlePool and parseVdevs call Skip once for an array they do not look  *)
(* for (main.go:543, 609), which is right for one element.                 *)
(***************************************************************************)
SkippedArraysAreSingle ==
  \A k \in DOMAIN Buffer : \A o \in DOMAIN Buffer[k].at :
    LET c == Buffer[k].at[o]
        r == Buffer[k].role[c.list]
    IN  /\ c.size > 0
        /\ c.type = "nvlist_array"
        /\ r = "stats" \/ (r = "vdev" /\ c.name # "children")
        => c.n = 1

\* The function of a call is the one that knows the list's role.
Serves(e, role) ==
  \/ e.func = "collect" /\ role = "configs"
  \/ e.func = "handlePool" /\ role = "stats"
  \/ e.func = "parseVdevs" /\ role = "vdev"
  \/ e.func = "parseProps" /\ role = "props"
  \/ e.func = "parseValue" /\ role = "value" /\ e.arg \in Exported
  \/ e.func = "parseValue" /\ role = "ignored" /\ e.arg \notin Exported
  \/ e.func = "Skip" /\ role = "other"

CallsServe ==
  \A i \in DOMAIN stack :
    /\ stack[i].list \in DOMAIN B.role
    /\ Serves(stack[i], B.role[stack[i].list])

IInv == TypeOK /\ InStep /\ CallsServe

-----------------------------------------------------------------------------
(* The calls that are made for a pair.                                       *)

\* One call is made for each list that follows a pair.
LEMMA TimesIsRight ==
  ASSUME SkippedArraysAreSingle,
         NEW k \in DOMAIN Buffer, NEW o \in DOMAIN Buffer[k].at, Buffer[k].at[o].size > 0,
         NEW e \in Call,
         Serves(e, Buffer[k].role[Buffer[k].at[o].list]),
         ~Refuses(e, Buffer[k].at[o])
  PROVE  Times(e, Buffer[k].at[o]) = Len(Buffer[k].at[o].sub)
<1>. DEFINE c == Buffer[k].at[o]
            r == Buffer[k].role[c.list]
<1>1. c \in Cell /\ WellTyped(Buffer[k], o)
  BY CellFacts
<1>2. CASE c.type \notin Nested
  <2>1. c.sub = <<>>
    BY <1>1, <1>2 DEF WellTyped
  <2>. QED
    BY <1>2, <2>1 DEF Times
<1>3. CASE c.type = "nvlist"
  <2>1. Len(c.sub) = 1 /\ r \notin {"value", "ignored"}
    BY <1>1, <1>3 DEF WellTyped, Nested
  <2>2. e.func # "parseValue"
    BY <2>1 DEF Serves
  <2>. QED
    BY <1>3, <2>1, <2>2 DEF Times, Nested
<1>4. CASE c.type = "nvlist_array"
  <2>1. Len(c.sub) = c.n /\ r \notin {"value", "ignored"}
    BY <1>1, <1>4 DEF WellTyped, Nested
  <2>2. e.func # "parseValue"
    BY <2>1 DEF Serves
  <2>3. CASE Loops(e, c)
    BY <1>4, <2>1, <2>2, <2>3 DEF Times, Nested
  <2>4. CASE ~Loops(e, c)
    <3>1. e.func # "Skip"
      BY <2>4 DEF Loops
    <3>2. e.func \notin {"collect", "parseProps"}
      BY <1>4 DEF Refuses
    <3>3. r = "stats" \/ (r = "vdev" /\ c.name # "children")
      BY <2>2, <2>4, <3>1, <3>2 DEF Serves, Loops
    <3>4. c.n = 1
      BY <1>4, <3>3 DEF SkippedArraysAreSingle
    <3>. QED
      BY <1>4, <2>1, <2>2, <2>4, <3>4 DEF Times, Nested
  <2>. QED
    BY <2>3, <2>4
<1>. QED
  BY <1>2, <1>3, <1>4 DEF Nested

\* The calls made for a pair are for the lists that follow it, in order, and
\* each is of the function that knows the list.
LEMMA CallsAreRight ==
  ASSUME SkippedArraysAreSingle,
         NEW k \in DOMAIN Buffer, NEW o \in DOMAIN Buffer[k].at, Buffer[k].at[o].size > 0,
         NEW e \in Call,
         Serves(e, Buffer[k].role[Buffer[k].at[o].list]),
         ~Refuses(e, Buffer[k].at[o])
  PROVE  LET c == Buffer[k].at[o]
         IN  /\ Calls(e, c) \in Seq(Call)
             /\ Len(Calls(e, c)) = Len(c.sub)
             /\ \A i \in 1 .. Len(c.sub) :
                  /\ Calls(e, c)[i].list = c.sub[i]
                  /\ c.sub[i] \in DOMAIN Buffer[k].role
                  /\ Serves(Calls(e, c)[i], Buffer[k].role[c.sub[i]])
<1>. DEFINE c == Buffer[k].at[o]
            r == Buffer[k].role[c.list]
            call(i) == [func |-> Callee(e, c), list |-> c.sub[i], arg |-> c.name]
<1>1. c \in Cell /\ WellTyped(Buffer[k], o) /\ WellPlaced(Buffer[k], o)
  BY CellFacts
<1>2. c.sub \in Seq(ListId) /\ c.name \in PairName
  BY <1>1 DEF Cell
<1>3. Calls(e, c) = [i \in 1 .. Len(c.sub) |-> call(i)]
  <2>1. Times(e, c) = Len(c.sub)
    BY TimesIsRight
  <2>2. DOMAIN c.sub = 1 .. Len(c.sub)
    BY <1>2
  <2>. HIDE DEF c
  <2>. QED
    BY <2>1, <2>2 DEF Calls
<1>4. Callee(e, c) \in Function
  BY DEF Callee, Function
<1>5. ASSUME NEW i \in 1 .. Len(c.sub)
      PROVE  call(i) \in Call
  <2>1. c.sub[i] \in ListId
    BY <1>2
  <2>. HIDE DEF c
  <2>. QED
    BY <1>2, <1>4, <2>1 DEF Call
<1>6. Calls(e, c) \in Seq(Call) /\ Len(Calls(e, c)) = Len(c.sub)
  <2>1. Len(c.sub) \in Nat
    BY <1>2
  <2>. DEFINE n == Len(c.sub)
  <2>2. \A i \in 1 .. n : call(i) \in Call
    BY <1>5
  <2>. HIDE DEF call, c, n
  <2>. QED
    BY <1>3, <2>1, <2>2 DEF n
<1>7. ASSUME NEW i \in 1 .. Len(c.sub)
      PROVE  /\ c.sub[i] \in DOMAIN Buffer[k].role
             /\ Serves(call(i), Buffer[k].role[c.sub[i]])
  <2>1. c.sub[i] \in DOMAIN Buffer[k].role /\ Buffer[k].role[c.sub[i]] = SubRole(r, c.name)
    BY <1>1, <1>2 DEF WellTyped
  <2>3. CASE r # "value" /\ r # "ignored"
    BY <2>1, <2>3 DEF Serves, Callee, SubRole
  <2>4. CASE r \in {"value", "ignored"}
    <3>1. c.type \notin Nested
      BY <1>1, <2>4 DEF WellTyped
    <3>2. c.sub = <<>>
      BY <1>1, <3>1 DEF WellTyped
    <3>. QED
      BY <3>2
  <2>. QED
    BY <2>1, <2>3, <2>4
<1>8. ASSUME NEW i \in 1 .. Len(c.sub)
      PROVE  Calls(e, c)[i] = call(i) /\ call(i).list = c.sub[i]
  <2>. HIDE DEF c
  <2>. QED
    BY <1>3
<1>. HIDE DEF call
<1>. QED
  BY <1>6, <1>7, <1>8

-----------------------------------------------------------------------------
(* The calls stay in step with the lists.                                    *)

LEMMA StoreType ==
  ASSUME got \subseteq Stored, NEW e \in Call, NEW c \in Cell
  PROVE  Store(e, c) \subseteq Stored
<1>1. [obj |-> e.list, name |-> c.name, of |-> c.list] \in Stored
  BY DEF Call, Cell, Stored
<1>. QED
  BY <1>1 DEF Store

\* The reader is at a cell of the list the innermost call is for.
LEMMA HereFacts ==
  ASSUME IInv, pc = "reading"
  PROVE  /\ buf \in DOMAIN Buffer
         /\ Start(pos) \in DOMAIN B.at
         /\ Here \in Cell
         /\ stack # <<>>
         /\ Head(stack) = stack[1]
         /\ Head(stack) \in Call
         /\ Head(stack).list = Here.list
         /\ Here.list \in DOMAIN B.role
         /\ Serves(Head(stack), B.role[Here.list])
         /\ B.pending[Start(pos)] \in Seq(ListId)
<1>. USE DEF IInv
<1>1. buf \in DOMAIN Buffer /\ Start(pos) \in DOMAIN B.at /\ stack # <<>> /\ stack \in Seq(Call)
  BY DEF TypeOK, InStep
<1>2. Here \in Cell /\ WellPlaced(B, Start(pos))
  BY <1>1, CellFacts DEF Here, B
<1>3. B.pending[Start(pos)] \in Seq(ListId)
  BY <1>1, BufferFacts DEF B
<1>4. Head(stack) = stack[1] /\ Head(stack) \in Call /\ 1 \in DOMAIN stack
  BY <1>1
<1>5. B.pending[Start(pos)] # <<>> /\ Here.list = Head(B.pending[Start(pos)])
  BY <1>2 DEF WellPlaced, Here
<1>6. stack[1].list = B.pending[Start(pos)][1]
  BY <1>4 DEF InStep
<1>7. Head(stack).list = Here.list
  BY <1>3, <1>4, <1>5, <1>6
<1>8. Here.list \in DOMAIN B.role /\ Serves(Head(stack), B.role[Here.list])
  BY <1>4, <1>7 DEF CallsServe
<1>. QED
  BY <1>1, <1>2, <1>3, <1>4, <1>7, <1>8

LEMMA InitIInv == Init => IInv
BY DEF Init, IInv, TypeOK, InStep, CallsServe

LEMMA ParseIInv ==
  ASSUME IInv, NEW f \in Function, NEW k \in DOMAIN Buffer, Parse(f, k)
  PROVE  IInv'
<1>. DEFINE l == Head(Buffer[k].pending[HeaderLen])
            e == [func |-> f, list |-> l, arg |-> ""]
<1>1. /\ pc' = "reading" /\ root' = f /\ buf' = k /\ pos' = 0 /\ got' = {} /\ result' = "ok"
      /\ stack' = <<e>>
      /\ <<f, Buffer[k].role[l]>> \in Reads
  BY DEF Parse
<1>2. /\ HeaderLen \in DOMAIN Buffer[k].at
      /\ Buffer[k].pending[HeaderLen] \in Seq(ListId)
      /\ Len(Buffer[k].pending[HeaderLen]) = 1
      /\ HeaderLen \in DOMAIN Buffer[k].pending
  BY BufferFacts
<1>3. l = Buffer[k].pending[HeaderLen][1] /\ l \in ListId
  BY <1>2
<1>4. l \in DOMAIN Buffer[k].role
  BY <1>2, CellFacts DEF WellPlaced
<1>5. e \in Call
  BY <1>3 DEF Call
<1>7. Start(pos)' = HeaderLen /\ B' = Buffer[k]
  BY <1>1 DEF Start, B
<1>10. e.list = l
  OBVIOUS
<1>11. Serves(e, Buffer[k].role[l])
  BY <1>1 DEF Reads, Serves
<1>. HIDE DEF e, l
<1>12. /\ stack' \in Seq(Call) /\ stack' # <<>> /\ Len(stack') = 1
       /\ DOMAIN stack' = {1} /\ stack'[1] = e
  BY <1>1, <1>5
<1>6. TypeOK'
  BY <1>1, <1>12 DEF TypeOK
<1>8. InStep'
  BY <1>1, <1>2, <1>3, <1>7, <1>10, <1>12 DEF InStep
<1>9. CallsServe'
  BY <1>1, <1>4, <1>7, <1>10, <1>11, <1>12 DEF CallsServe
<1>. QED
  BY <1>6, <1>8, <1>9 DEF IInv

LEMMA ReadPairIInv ==
  ASSUME SkippedArraysAreSingle, IInv, ReadPair
  PROVE  IInv'
<1>. DEFINE e == Head(stack)
            o == Start(pos)
            c == Here
            new == Calls(e, c)
<1>1. /\ pc = "reading" /\ pc' = pc /\ root' = root /\ buf' = buf /\ result' = result
      /\ c.size > 0
      /\ ~Refuses(e, c)
      /\ got' = Store(e, c)
      /\ stack' = new \o stack
      /\ pos' = After(B, o)
  BY DEF ReadPair, AtPair, Here, NextPos
<1>2. /\ buf \in DOMAIN Buffer /\ o \in DOMAIN B.at /\ c = B.at[o] /\ c \in Cell
      /\ e \in Call /\ e.list = c.list /\ Serves(e, B.role[c.list])
      /\ B.pending[o] \in Seq(ListId)
  BY <1>1, HereFacts DEF Here
<1>3. /\ new \in Seq(Call)
      /\ Len(new) = Len(c.sub)
      /\ \A i \in 1 .. Len(c.sub) :
           /\ new[i].list = c.sub[i]
           /\ c.sub[i] \in DOMAIN B.role
           /\ Serves(new[i], B.role[c.sub[i]])
  BY <1>1, <1>2, CallsAreRight DEF B
<1>4. WellPlaced(B, o) /\ o \in Nat
  BY <1>2, CellFacts DEF B
<1>5. B.pending[After(B, o)] = c.sub \o B.pending[o] /\ B.pending[o] # <<>>
  BY <1>1, <1>2, <1>4 DEF WellPlaced
<1>6. c.sub \in Seq(ListId) /\ stack \in Seq(Call)
  BY <1>2 DEF Cell, IInv, TypeOK
<1>7. B.pending[After(B, o)] # <<>>
  BY <1>2, <1>5, <1>6
<1>8. After(B, o) \in DOMAIN B.at /\ Start(After(B, o)) = After(B, o)
  BY <1>2, <1>7, NextCell DEF B
<1>9. B' = B /\ Start(pos)' = After(B, o)
  BY <1>1, <1>8 DEF B, Start
<1>. HIDE DEF e, o, c, new
<1>10. TypeOK'
  <2>1. stack' \in Seq(Call) /\ stack' # <<>>
    BY <1>1, <1>3, <1>6 DEF IInv, TypeOK
  <2>2. got' \subseteq Stored
    BY <1>1, <1>2, StoreType DEF IInv, TypeOK
  <2>3. pos' \in Nat
    BY <1>1, <1>2, <1>8, CellFacts DEF B
  <2>. QED
    BY <1>1, <2>1, <2>2, <2>3 DEF IInv, TypeOK
<1>11. Len(stack) = Len(B.pending[o]) /\ \A i \in DOMAIN stack : stack[i].list = B.pending[o][i]
  BY <1>1 DEF IInv, InStep, o
<1>12. Len(stack') = Len(c.sub) + Len(stack) /\ DOMAIN stack' = 1 .. Len(stack')
  <2>1. Len(new \o stack) = Len(new) + Len(stack) /\ new \o stack \in Seq(Call)
    BY <1>3, <1>6, Concat
  <2>. QED
    BY <1>1, <1>3, <2>1
<1>13. ASSUME NEW i \in DOMAIN stack'
       PROVE  \/ /\ i \in 1 .. Len(c.sub)
                 /\ stack'[i] = new[i]
                 /\ (c.sub \o B.pending[o])[i] = c.sub[i]
              \/ \E j \in DOMAIN stack :
                   /\ stack'[i] = stack[j]
                   /\ (c.sub \o B.pending[o])[i] = B.pending[o][j]
  <2>1. CASE i \in 1 .. Len(c.sub)
    <3>1. stack'[i] = new[i]
      <4>1. i \in 1 .. Len(new)
        BY <1>3, <2>1
      <4>2. (new \o stack)[i] = new[i]
        BY <1>3, <1>6, <4>1, ConcatLeft
      <4>. QED
        BY <1>1, <4>2
    <3>2. (c.sub \o B.pending[o])[i] = c.sub[i]
      <4>. DEFINE p == B.pending[o]
                  q == c.sub
      <4>1. p \in Seq(ListId) /\ q \in Seq(ListId) /\ i \in 1 .. Len(q)
        BY <1>2, <1>6, <2>1
      <4>. HIDE DEF p, q
      <4>2. (q \o p)[i] = q[i]
        BY <4>1, ConcatLeft
      <4>. QED
        BY <4>2 DEF p, q
    <3>. QED
      BY <2>1, <3>1, <3>2
  <2>2. CASE i \notin 1 .. Len(c.sub)
    <3>0. Len(c.sub) \in Nat /\ Len(stack) \in Nat
      BY <1>6
    <3>1. PICK j \in 1 .. Len(stack) : i = Len(c.sub) + j
      <4>1. i \in 1 .. (Len(c.sub) + Len(stack))
        BY <1>12
      <4>. QED
        BY <2>2, <3>0, <4>1, SecondPart
    <3>2. stack'[i] = stack[j]
      <4>1. (new \o stack)[Len(new) + j] = stack[j]
        BY <1>3, <1>6, <3>1, ConcatRight
      <4>. QED
        BY <1>1, <1>3, <3>1, <4>1
    <3>3. (c.sub \o B.pending[o])[i] = B.pending[o][j]
      <4>1. j \in 1 .. Len(B.pending[o])
        BY <1>11
      <4>. DEFINE p == B.pending[o]
                  q == c.sub
      <4>2. p \in Seq(ListId) /\ q \in Seq(ListId)
        BY <1>2, <1>6
      <4>3. j \in 1 .. Len(p) /\ i = Len(q) + j
        BY <3>1, <4>1
      <4>. HIDE DEF p, q
      <4>4. (q \o p)[Len(q) + j] = p[j]
        BY <4>2, <4>3, ConcatRight
      <4>. QED
        BY <4>3, <4>4 DEF p, q
    <3>. QED
      BY <1>6, <3>1, <3>2, <3>3
  <2>. QED
    BY <2>1, <2>2
<1>14. InStep'
  <2>1. Len(stack') = Len(B.pending[After(B, o)])
    BY <1>2, <1>5, <1>6, <1>11, <1>12
  <2>2. \A i \in DOMAIN stack' : stack'[i].list = B.pending[After(B, o)][i]
    BY <1>3, <1>5, <1>11, <1>13
  <2>. QED
    BY <1>8, <1>9, <2>1, <2>2 DEF InStep
<1>15. CallsServe'
  BY <1>1, <1>3, <1>9, <1>13 DEF IInv, CallsServe
<1>. QED
  BY <1>10, <1>14, <1>15 DEF IInv

LEMMA ReadEndIInv ==
  ASSUME IInv, ReadEnd
  PROVE  IInv'
<1>. DEFINE o == Start(pos)
<1>1. /\ pc = "reading" /\ root' = root /\ buf' = buf /\ result' = result /\ got' = got
      /\ Here.size = 0
      /\ stack' = Tail(stack)
      /\ pc' = IF stack' = <<>> THEN "idle" ELSE "reading"
      /\ pos' = After(B, o)
  BY DEF ReadEnd, AtEnd, Here, NextPos
<1>2. /\ buf \in DOMAIN Buffer /\ o \in DOMAIN B.at /\ stack # <<>>
      /\ B.pending[o] \in Seq(ListId) /\ stack \in Seq(Call)
  BY <1>1, HereFacts DEF IInv, TypeOK
<1>3. WellPlaced(B, o) /\ o \in Nat /\ B.at[o] \in Cell
  BY <1>2, CellFacts DEF B
<1>4. B.pending[After(B, o)] = Tail(B.pending[o]) /\ B.pending[o] # <<>>
  BY <1>1, <1>3 DEF WellPlaced, Here
<1>5. B' = B
  BY <1>1 DEF B
<1>6. Len(stack) = Len(B.pending[o]) /\ \A i \in DOMAIN stack : stack[i].list = B.pending[o][i]
  BY <1>1 DEF IInv, InStep
<1>7. TypeOK'
  <2>1. stack' \in Seq(Call)
    BY <1>1, <1>2
  <2>2. pos' \in Nat
    BY <1>1, <1>3 DEF After, Cell, Int32Len
  <2>. QED
    BY <1>1, <2>1, <2>2 DEF IInv, TypeOK
<1>. HIDE DEF o
<1>8. /\ Len(stack') = Len(stack) - 1
      /\ DOMAIN stack' = 1 .. (Len(stack) - 1)
      /\ \A i \in DOMAIN stack' : i + 1 \in DOMAIN stack /\ stack'[i] = stack[i + 1]
  BY <1>1, <1>2
<1>9. InStep'
  <2>. SUFFICES ASSUME stack' # <<>> PROVE InStep'
    BY <1>1 DEF InStep
  <2>1. B.pending[After(B, o)] # <<>>
    BY <1>1, <1>2, <1>4, <1>6
  <2>2. After(B, o) \in DOMAIN B.at /\ Start(pos)' = After(B, o)
    BY <1>1, <1>2, <2>1, NextCell DEF B, Start
  <2>3. Len(stack') = Len(Tail(B.pending[o]))
    BY <1>2, <1>4, <1>6, <1>8
  <2>4. \A i \in DOMAIN stack' : Tail(B.pending[o])[i] = B.pending[o][i + 1]
    BY <1>2, <1>4, <1>6, <1>8
  <2>5. \A i \in DOMAIN stack' : stack'[i].list = Tail(B.pending[o])[i]
    BY <1>6, <1>8, <2>4
  <2>. QED
    BY <1>4, <1>5, <2>2, <2>3, <2>5 DEF InStep
<1>10. CallsServe'
  BY <1>1, <1>5, <1>8 DEF IInv, CallsServe
<1>. QED
  BY <1>7, <1>9, <1>10 DEF IInv

LEMMA FailIInv ==
  ASSUME IInv, ReadFails \/ PairRefused
  PROVE  IInv'
<1>1. /\ pc' = "idle" /\ stack' = <<>> /\ result' \in {"invalid", "encoding", "endian", "refused"}
      /\ root' = root /\ buf' = buf /\ pos' = pos /\ got' = got
  BY DEF ReadFails, PairRefused, Fail, ReadError
<1>. QED
  BY <1>1 DEF IInv, TypeOK, InStep, CallsServe

LEMMA NextIInv ==
  ASSUME SkippedArraysAreSingle
  PROVE  IInv /\ [Next]_vars => IInv'
<1>. SUFFICES ASSUME IInv, [Next]_vars PROVE IInv'
  OBVIOUS
<1>1. CASE UNCHANGED vars
  BY <1>1 DEF vars, IInv, TypeOK, InStep, CallsServe, B
<1>2. CASE Next
  BY <1>2, ParseIInv, ReadPairIInv, ReadEndIInv, FailIInv DEF Next, Walk
<1>. QED
  BY <1>1, <1>2

(***************************************************************************)
(* The variables of the parse keep their types.                            *)
(***************************************************************************)
THEOREM Typing == ASSUME SkippedArraysAreSingle PROVE Spec => []TypeOK
<1>1. IInv => TypeOK
  BY DEF IInv
<1>. QED
  BY <1>1, InitIInv, NextIInv, PTL DEF Spec

(***************************************************************************)
(* However the lists are nested, the loops of collect, handlePool,         *)
(* parseVdevs, parseProps, parseValue and Skip read the pairs of the lists *)
(* they were called for.                                                   *)
(***************************************************************************)
THEOREM StayInStep == ASSUME SkippedArraysAreSingle PROVE Spec => []InStep
<1>1. IInv => InStep
  BY DEF IInv
<1>. QED
  BY <1>1, InitIInv, NextIInv, PTL DEF Spec

-----------------------------------------------------------------------------
(* What the calls store.                                                     *)

\* What is stored so far and which checks were passed, and what follows from
\* them when the outermost call returns.
Faithful ==
  /\ pc = "reading" =>
       /\ root # "none" /\ result = "ok"
       /\ got = Entries(Start(pos))
       /\ pos > 0 => B.encoding = "native" /\ B.endian = "little"
       /\ \A q \in DOMAIN B.at : q < Start(pos) /\ B.at[q].size > 0 => B.at[q].n <= MaxElements
  /\ ParsedWhatWasPacked
  /\ InvalidIffUnreadable

\* A call keeps what the list's role says it should.
LEMMA KeepsIsMeans ==
  ASSUME NEW e \in Call, NEW c \in Cell, NEW r \in Role,
         Serves(e, r), ~Refuses(e, c),
         r \in {"value", "ignored"} => c.type \notin Nested
  PROVE  Keeps(e, c) <=> Means(r, c)
<1>2. CASE r \in {"configs", "props", "other"}
  <2>1. e.func \in {"collect", "parseProps", "Skip"} /\ (e.func = "collect" <=> r = "configs")
    BY <1>2 DEF Serves
  <2>2. LooksFor(e) = {}
    BY <2>1 DEF LooksFor
  <2>. QED
    BY <1>2, <2>1, <2>2 DEF Keeps, Means
<1>3. CASE r = "stats"
  <2>1. e.func = "handlePool" /\ LooksFor(e) = PoolPairs
    BY <1>3 DEF Serves, LooksFor
  <2>2. \A w \in PoolPairs : w[1] = c.name => w[2] = c.type
    BY <2>1 DEF Refuses
  <2>3. Keeps(e, c) <=> c.type \notin Nested /\ <<c.name, c.type>> \in PoolPairs
    BY <2>1 DEF Keeps
  <2>4. Means(r, c) <=> c.name \in {"state", "error_count"}
    BY <1>3 DEF Means
  <2>. QED
    BY <2>2, <2>3, <2>4 DEF PoolPairs, Nested
<1>4. CASE r = "vdev"
  <2>1. e.func = "parseVdevs" /\ LooksFor(e) = VdevPairs
    BY <1>4 DEF Serves, LooksFor
  <2>2. \A w \in VdevPairs : w[1] = c.name => w[2] = c.type
    BY <2>1 DEF Refuses
  <2>3. Keeps(e, c) <=> c.type \notin Nested /\ <<c.name, c.type>> \in VdevPairs
    BY <2>1 DEF Keeps
  <2>4. Means(r, c) <=> c.name \in {"type", "id", "path", "vdev_stats"}
    BY <1>4 DEF Means
  <2>. QED
    BY <2>2, <2>3, <2>4 DEF VdevPairs, Nested
<1>5. CASE r = "value"
  <2>1. e.func = "parseValue" /\ LooksFor(e) = {<<"value", "uint64">>}
    BY <1>5 DEF Serves, LooksFor, ValuePairs
  <2>2. c.name = "value" => c.type = "uint64"
    BY <2>1 DEF Refuses
  <2>. QED
    BY <1>5, <2>1, <2>2 DEF Keeps, Means, Nested
<1>6. CASE r = "ignored"
  <2>1. e.func = "parseValue" /\ LooksFor(e) = {}
    BY <1>6 DEF Serves, LooksFor, ValuePairs
  <2>. QED
    BY <1>6, <2>1 DEF Keeps, Means
<1>. QED
  BY <1>2, <1>3, <1>4, <1>5, <1>6 DEF Role

\* One cell further on, at most that cell is to be stored in addition.
LEMMA MeantStep ==
  ASSUME NEW o \in DOMAIN B.at, buf \in DOMAIN Buffer
  PROVE  /\ B.at[o].size = 0 => Meant(After(B, o)) = Meant(o)
         /\ B.at[o].size > 0 =>
              Meant(After(B, o)) =
                IF Means(B.role[B.at[o].list], B.at[o]) THEN Meant(o) \cup {o} ELSE Meant(o)
<1>1. WellPlaced(B, o) /\ o \in Nat /\ B.at[o].size \in Nat
  BY CellFacts DEF B, Cell
<1>2. After(B, o) > o /\ After(B, o) \in Nat
  BY <1>1 DEF After, Int32Len
<1>3. \A q \in DOMAIN B.at : q \in Nat /\ (q <= o \/ q >= After(B, o))
  BY <1>1, CellFacts DEF WellPlaced, B
<1>4. \A q \in DOMAIN B.at : q < After(B, o) <=> q < o \/ q = o
  BY <1>1, <1>2, <1>3
<1>. QED
  BY <1>1, <1>4 DEF Meant

LEMMA InitFaithful == Init => Faithful
BY DEF Init, Faithful, ParsedWhatWasPacked, InvalidIffUnreadable

LEMMA ParseFaithful ==
  ASSUME NEW f \in Function, NEW k \in DOMAIN Buffer, Parse(f, k)
  PROVE  Faithful'
<1>1. pc' = "reading" /\ root' = f /\ buf' = k /\ pos' = 0 /\ got' = {} /\ result' = "ok"
  BY DEF Parse
<1>2. B' = Buffer[k] /\ Start(pos)' = HeaderLen
  BY <1>1 DEF B, Start
<1>3. \A q \in DOMAIN Buffer[k].at : q \in Nat /\ q >= HeaderLen
  BY OffsetFacts
<1>4. \A q \in DOMAIN Buffer[k].at : ~(q < HeaderLen)
  BY <1>3 DEF HeaderLen
<1>5. Meant(Start(pos))' = {}
  BY <1>2, <1>4 DEF Meant
<1>6. Entries(Start(pos))' = {}
  BY <1>5 DEF Entries
<1>7. f # "none"
  BY DEF Function
<1>. QED
  BY <1>1, <1>2, <1>4, <1>6, <1>7 DEF Faithful, ParsedWhatWasPacked, InvalidIffUnreadable

LEMMA ReadPairFaithful ==
  ASSUME SkippedArraysAreSingle, IInv, IInv', Faithful, ReadPair
  PROVE  Faithful'
<1>. DEFINE e == Head(stack)
            c == Here
<1>0. PICK o \in Nat, p \in Nat : o = Start(pos) /\ p = After(B, o)
  <2>1. pc = "reading"
    BY DEF ReadPair
  <2>2. buf \in DOMAIN Buffer /\ Start(pos) \in DOMAIN B.at
    BY <2>1, HereFacts
  <2>3. Start(pos) \in Nat /\ B.at[Start(pos)].size \in Nat
    BY <2>2, CellFacts DEF B, Cell
  <2>4. After(B, Start(pos)) \in Nat
    BY <2>3 DEF After, Int32Len
  <2>. QED
    BY <2>3, <2>4
<1>1. /\ pc = "reading" /\ pc' = pc /\ root' = root /\ buf' = buf /\ result' = result
      /\ c.size > 0 /\ c.n <= MaxElements /\ HeaderOK(B, pos)
      /\ ~Refuses(e, c)
      /\ got' = Store(e, c)
      /\ pos' = p
  BY <1>0 DEF ReadPair, AtPair, SizeOK, Here, NextPos
<1>2. /\ buf \in DOMAIN Buffer /\ o \in DOMAIN B.at /\ c = B.at[o] /\ c \in Cell
      /\ e \in Call /\ e.list = c.list /\ Serves(e, B.role[c.list])
      /\ c.list \in DOMAIN B.role
  BY <1>0, <1>1, HereFacts DEF Here
<1>3. WellPlaced(B, o) /\ WellTyped(B, o) /\ o \in Nat /\ B.role[c.list] \in Role
  BY <1>2, CellFacts, BufferFacts DEF B
<1>4. p > 0
  BY <1>0, <1>1, <1>2, <1>3 DEF After, Cell, Int32Len
<1>5. B' = B /\ Start(pos)' = p
  BY <1>1, <1>4 DEF B, Start
<1>6. Keeps(e, c) <=> Means(B.role[c.list], c)
  <2>1. B.role[c.list] \in {"value", "ignored"} => c.type \notin Nested
    BY <1>1, <1>2, <1>3 DEF WellTyped
  <2>. HIDE DEF e, c
  <2>. QED
    BY <1>1, <1>2, <1>3, <2>1, KeepsIsMeans
<1>7. Meant(p)' = IF Keeps(e, c) THEN Meant(o) \cup {o} ELSE Meant(o)
  <2>1. Meant(p)' = Meant(p)
    BY <1>1, <1>5 DEF Meant
  <2>2. Meant(p) =
          IF Means(B.role[c.list], c) THEN Meant(o) \cup {o} ELSE Meant(o)
    BY <1>0, <1>1, <1>2, MeantStep
  <2>. QED
    BY <1>6, <2>1, <2>2
<1>8. got = Entries(o)
  BY <1>0, <1>1 DEF Faithful
<1>9. \A g \in got : g.obj # e.list \/ g.name # c.name
  <2>. SUFFICES ASSUME NEW q \in Meant(o) PROVE ~(B.at[q].list = c.list /\ B.at[q].name = c.name)
    BY <1>2, <1>8 DEF Entries, Entry
  <2>1. q \in DOMAIN B.at /\ q < o /\ B.at[q].size > 0
    BY DEF Meant
  <2>2. q # o
    BY <1>3, <2>1, CellFacts, <1>2 DEF B
  <2>. QED
    BY <1>1, <1>2, <1>3, <2>1, <2>2 DEF WellTyped
<1>10. got' = Entries(p)'
  <2>1. \A q : Entry(q)' = Entry(q)
    BY <1>5 DEF Entry
  <2>2. Entry(o) = [obj |-> e.list, name |-> c.name, of |-> c.list]
    BY <1>2 DEF Entry
  <2>3. {g \in got : g.obj # e.list \/ g.name # c.name} = got
    BY <1>9
  <2>4. got' = IF Keeps(e, c) THEN got \cup {Entry(o)} ELSE got
    BY <1>1, <2>2, <2>3 DEF Store
  <2>5. Entries(p)' = {Entry(q) : q \in Meant(p)'}
    BY <2>1 DEF Entries
  <2>. HIDE DEF e, c
  <2>. QED
    BY <1>7, <1>8, <2>4, <2>5 DEF Entries
<1>11. B.encoding = "native" /\ B.endian = "little"
  <2>1. pos = 0 \/ pos > 0
    BY DEF IInv, TypeOK
  <2>. QED
    BY <1>1, <2>1 DEF Faithful, HeaderOK
<1>12. \A q \in DOMAIN B.at : q < p /\ B.at[q].size > 0 => B.at[q].n <= MaxElements
  <2>1. \A q \in DOMAIN B.at : q <= o \/ q >= p
    BY <1>0, <1>3 DEF WellPlaced
  <2>2. \A q \in DOMAIN B.at : q \in Nat
    BY <1>2, CellFacts DEF B
  <2>3. \A q \in DOMAIN B.at : q < p => q < o \/ q = o
    BY <1>3, <1>4, <2>1, <2>2
  <2>. QED
    BY <1>0, <1>1, <1>2, <2>3 DEF Faithful
<1>. HIDE DEF e, c
<1>. QED
  BY <1>1, <1>5, <1>10, <1>11, <1>12
  DEF Faithful, ParsedWhatWasPacked, InvalidIffUnreadable

LEMMA ReadEndFaithful ==
  ASSUME IInv, IInv', Faithful, ReadEnd
  PROVE  Faithful'
<1>0. PICK o \in Nat, p \in Nat : o = Start(pos) /\ p = After(B, o)
  <2>1. pc = "reading"
    BY DEF ReadEnd
  <2>2. buf \in DOMAIN Buffer /\ Start(pos) \in DOMAIN B.at
    BY <2>1, HereFacts
  <2>3. Start(pos) \in Nat /\ B.at[Start(pos)].size \in Nat
    BY <2>2, CellFacts DEF B, Cell
  <2>4. After(B, Start(pos)) \in Nat
    BY <2>3 DEF After, Int32Len
  <2>. QED
    BY <2>3, <2>4
<1>1. /\ pc = "reading" /\ root' = root /\ buf' = buf /\ result' = result /\ got' = got
      /\ B.at[o].size = 0 /\ HeaderOK(B, pos) /\ Readable(B, o, Int32Len)
      /\ stack' = Tail(stack)
      /\ pc' = IF stack' = <<>> THEN "idle" ELSE "reading"
      /\ pos' = p
  BY <1>0 DEF ReadEnd, AtEnd, SizeOK, NextPos
<1>2. /\ buf \in DOMAIN Buffer /\ o \in DOMAIN B.at /\ B.pending[o] \in Seq(ListId)
      /\ stack \in Seq(Call) /\ stack # <<>>
  BY <1>0, <1>1, HereFacts DEF IInv, TypeOK
<1>3. WellPlaced(B, o) /\ o \in Nat
  BY <1>2, CellFacts DEF B
<1>4. p = o + 4 /\ p > 0
  BY <1>0, <1>1, <1>3 DEF After, Int32Len
<1>5. B' = B /\ Start(pos)' = p
  BY <1>1, <1>4 DEF B, Start
<1>6. Entries(p)' = Entries(o)
  <2>1. Meant(p)' = Meant(p)
    BY <1>1, <1>5 DEF Meant
  <2>2. Meant(p) = Meant(o)
    BY <1>0, <1>1, <1>2, MeantStep
  <2>. QED
    BY <1>5, <2>1, <2>2 DEF Entries, Entry
<1>7. got' = Entries(p)' /\ root # "none" /\ result = "ok"
  BY <1>0, <1>1, <1>6 DEF Faithful
<1>8. B.encoding = "native" /\ B.endian = "little"
  <2>1. pos = 0 \/ pos > 0
    BY DEF IInv, TypeOK
  <2>. QED
    BY <1>1, <2>1 DEF Faithful, HeaderOK
<1>9. \A q \in DOMAIN B.at : q < p /\ B.at[q].size > 0 => B.at[q].n <= MaxElements
  <2>1. \A q \in DOMAIN B.at : q <= o \/ q >= p
    BY <1>0, <1>3 DEF WellPlaced
  <2>2. \A q \in DOMAIN B.at : q \in Nat
    BY <1>2, CellFacts DEF B
  <2>3. \A q \in DOMAIN B.at : q < p => q < o \/ q = o
    BY <1>3, <1>4, <2>1, <2>2
  <2>. QED
    BY <1>0, <1>1, <2>3 DEF Faithful
<1>10. CASE stack' # <<>>
  <2>1. pc' = "reading"
    BY <1>1, <1>10
  <2>. QED
    BY <1>1, <1>5, <1>7, <1>8, <1>9, <2>1
    DEF Faithful, ParsedWhatWasPacked, InvalidIffUnreadable
<1>11. CASE stack' = <<>>
  <2>1. Len(B.pending[o]) = 1
    <3>1. Len(stack) = 1
      BY <1>1, <1>2, <1>11, LastOne
    <3>. QED
      BY <1>0, <1>1, <3>1 DEF IInv, InStep
  <2>2. B.pending[p] = <<>>
    <3>1. B.pending[p] = Tail(B.pending[o]) /\ B.pending[o] # <<>>
      BY <1>0, <1>1, <1>3 DEF WellPlaced
    <3>. QED
      BY <1>2, <2>1, <3>1, LastOne
  <2>3. p = B.size
    <3>1. p \in DOMAIN B.at \cup {B.size}
      BY <1>0, <1>2, <1>3, BufferFacts DEF WellPlaced, B
    <3>2. \A q \in DOMAIN B.at : B.pending[q] # <<>>
      BY <1>2, CellFacts DEF WellPlaced, B
    <3>. QED
      BY <2>2, <3>1, <3>2
  <2>4. got' = Entries(B.size)'
    BY <1>5, <1>7, <2>3
  <2>5. \A q \in DOMAIN B.at : q < p
    BY <1>2, <2>3, OffsetFacts DEF B
  <2>6. B.len # B.size
    BY <1>1, <1>2, <1>4, <2>3, BufferFacts DEF Readable, Int32Len, B
  <2>7. \A q \in DOMAIN B.at : B.at[q].size > 0 => ~(B.at[q].n > MaxElements)
    <3>1. ASSUME NEW q \in DOMAIN B.at PROVE B.at[q].n \in Nat
      BY <1>2, CellFacts DEF B, Cell
    <3>. QED
      BY <1>9, <2>5, <3>1, BufferAssumption
  <2>8. ~Unreadable'
    BY <1>5, <2>6, <2>7 DEF Unreadable
  <2>. QED
    BY <1>1, <1>5, <1>7, <1>8, <1>11, <2>4, <2>8
    DEF Faithful, ParsedWhatWasPacked, InvalidIffUnreadable
<1>. QED
  BY <1>10, <1>11

\* Where there is a byte to spare the bounds checks refuse nothing.
LEMMA ReadFailsFaithful ==
  ASSUME IInv, Faithful, ReadFails
  PROVE  Faithful'
<1>. DEFINE o == Start(pos)
            c == B.at[o]
<1>1. /\ pc = "reading" /\ pc' = "idle" /\ result' = ReadError(B, pos)
      /\ root' = root /\ buf' = buf /\ got' = got
      /\ ~AtPair(B, pos) /\ ~AtEnd(B, pos)
  BY DEF ReadFails, Fail
<1>2. buf \in DOMAIN Buffer /\ o \in DOMAIN B.at
  BY <1>1, HereFacts
<1>3. WellPlaced(B, o) /\ WellTyped(B, o) /\ o \in Nat /\ c \in Cell
  BY <1>2, CellFacts DEF B
<1>4. B.size \in Nat /\ B.len \in Nat /\ B.size <= B.len
  BY <1>2, BufferFacts DEF B
<1>5. \A q \in DOMAIN B.at : After(B, q) \in Nat /\ After(B, q) <= B.size /\ q + 4 <= After(B, q)
  <2>. SUFFICES ASSUME NEW q \in DOMAIN B.at
                PROVE  After(B, q) \in Nat /\ After(B, q) <= B.size /\ q + 4 <= After(B, q)
    OBVIOUS
  <2>1. WellPlaced(B, q) /\ WellTyped(B, q) /\ q \in Nat /\ B.at[q].size \in Nat
    BY <1>2, CellFacts DEF B, Cell
  <2>2. After(B, q) \in Nat /\ q + 4 <= After(B, q)
    BY <2>1 DEF After, WellTyped, Int32Len
  <2>3. After(B, q) \in DOMAIN B.at \cup {B.size}
    BY <1>2, <2>1, BufferFacts DEF WellPlaced, B
  <2>4. \A p \in DOMAIN B.at : p <= B.size
    BY <1>2, <1>4, OffsetFacts DEF B
  <2>. QED
    BY <1>4, <2>2, <2>3, <2>4
<1>6. ASSUME ReadError(B, pos) = "invalid", ~Unreadable' PROVE FALSE
  <2>1. /\ B.encoding = "native" /\ B.endian = "little"
        /\ B.size < B.len /\ (c.size > 0 => ~(c.n > MaxElements))
    <3>1. B' = B
      BY <1>1 DEF B
    <3>2. B.len # B.size /\ (c.size > 0 => ~(c.n > MaxElements))
      BY <1>2, <1>6, <3>1 DEF Unreadable
    <3>3. B.encoding \in {"native", "other"} /\ B.endian \in {"little", "big"}
      BY <1>2, BufferAssumption DEF WellFormed, B
    <3>4. pos = 0 \/ pos > 0
      BY DEF IInv, TypeOK
    <3>5. B.encoding = "native" /\ B.endian = "little"
      BY <1>1, <1>6, <3>3, <3>4 DEF ReadError, Faithful
    <3>. QED
      BY <1>4, <3>2, <3>5
  <2>2. HeaderOK(B, pos)
    <3>1. o >= HeaderLen
      BY <1>2, OffsetFacts DEF B
    <3>. QED
      BY <1>2, <1>3, <1>4, <1>5, <2>1, <3>1 DEF HeaderOK, Readable, HeaderLen, Int32Len
  <2>3. Readable(B, o, Int32Len)
    BY <1>2, <1>3, <1>4, <1>5, <2>1 DEF Readable, Int32Len
  <2>4. c.size > 0
    BY <1>1, <1>3, <2>2, <2>3 DEF AtEnd, SizeOK, Cell
  <2>5. B.pending[After(B, o)] # <<>>
    <3>1. c.sub \in Seq(ListId) /\ B.pending[o] \in Seq(ListId) /\ B.pending[o] # <<>>
      BY <1>1, <1>3, HereFacts DEF WellPlaced, Cell
    <3>2. B.pending[After(B, o)] = c.sub \o B.pending[o]
      BY <1>3, <2>4 DEF WellPlaced
    <3>. DEFINE p == B.pending[o]
                q == c.sub
                a == B.pending[After(B, o)]
    <3>3. p \in Seq(ListId) /\ q \in Seq(ListId) /\ p # <<>> /\ a = q \o p
      BY <3>1, <3>2
    <3>. HIDE DEF p, q, a
    <3>4. a # <<>>
      BY <3>3, ConcatNonEmpty
    <3>. QED
      BY <3>4 DEF a
  <2>6. After(B, o) \in DOMAIN B.at
    BY <1>2, <2>5, NextCell DEF B
  <2>7. After(B, o) + 4 <= B.size /\ After(B, o) = o + c.size
    BY <1>2, <1>3, <1>4, <1>5, <2>4, <2>6 DEF After
  <2>8. Readable(B, o + Int32Len, c.size)
    <3>. DEFINE m == c.size
                a == After(B, o)
                z == B.size
                l == B.len
    <3>1. m \in Nat /\ a \in Nat /\ z \in Nat /\ l \in Nat /\ o \in Nat
      BY <1>2, <1>3, <1>4, <1>5 DEF Cell
    <3>2. a + 4 <= z /\ a = o + m /\ z < l
      BY <2>1, <2>7
    <3>. HIDE DEF m, a, z, l, o
    <3>3. o + 4 + m < l
      BY <3>1, <3>2
    <3>. QED
      BY <3>3 DEF Readable, Int32Len, m, l
  <2>9. c.n <= MaxElements
    BY <1>3, <2>1, <2>4, BufferAssumption DEF Cell
  <2>. QED
    BY <1>1, <2>2, <2>3, <2>4, <2>8, <2>9 DEF AtPair, SizeOK
<1>7. /\ result' \in {"encoding", "endian", "invalid"}
      /\ result' = "encoding" => B.encoding # "native"
      /\ result' = "endian" => B.encoding = "native" /\ B.endian = "big"
  <2>1. B.encoding \in {"native", "other"} /\ B.endian \in {"little", "big"}
    BY <1>2, BufferAssumption DEF WellFormed, B
  <2>2. pos = 0 \/ pos > 0
    BY DEF IInv, TypeOK
  <2>. QED
    BY <1>1, <2>1, <2>2 DEF ReadError, Faithful
<1>8. B' = B
  BY <1>1 DEF B
<1>9. result' = "invalid" => Unreadable'
  BY <1>1, <1>6
<1>. QED
  BY <1>1, <1>7, <1>8, <1>9 DEF Faithful, ParsedWhatWasPacked, InvalidIffUnreadable

LEMMA PairRefusedFaithful ==
  ASSUME PairRefused
  PROVE  Faithful'
BY DEF PairRefused, Fail, Faithful, ParsedWhatWasPacked, InvalidIffUnreadable

LEMMA NextFaithful ==
  ASSUME SkippedArraysAreSingle
  PROVE  IInv /\ Faithful /\ [Next]_vars => Faithful'
<1>. SUFFICES ASSUME IInv, Faithful, [Next]_vars PROVE Faithful'
  OBVIOUS
<1>1. CASE UNCHANGED vars
  BY <1>1 DEF vars, Faithful, ParsedWhatWasPacked, InvalidIffUnreadable, Unreadable,
              Entries, Entry, Meant, B
<1>2. CASE Next
  <2>1. IInv'
    BY NextIInv
  <2>. QED
    BY <1>2, <2>1, ParseFaithful, ReadPairFaithful, ReadEndFaithful, ReadFailsFaithful,
       PairRefusedFaithful DEF Next, Walk
<1>. QED
  BY <1>1, <1>2

(***************************************************************************)
(* A parse that returns nil has stored, for each pool, vdev and property,  *)
(* exactly the pairs packed for it.                                        *)
(***************************************************************************)
THEOREM ParsesFaithfully == ASSUME SkippedArraysAreSingle PROVE Spec => []ParsedWhatWasPacked
<1>1. Faithful => ParsedWhatWasPacked
  BY DEF Faithful
<1>. QED
  BY <1>1, InitIInv, NextIInv, InitFaithful, NextFaithful, PTL DEF Spec

(***************************************************************************)
(* NVListReader calls a packed list invalid only when it has an array that *)
(* is too long or fills its buffer; it says so when the list is big endian *)
(* or in another encoding; and in none of these cases does a parse of it   *)
(* return nil.                                                             *)
(***************************************************************************)
THEOREM RefusesOnlyUnreadable == ASSUME SkippedArraysAreSingle PROVE Spec => []InvalidIffUnreadable
<1>1. Faithful => InvalidIffUnreadable
  BY DEF Faithful
<1>. QED
  BY <1>1, InitIInv, NextIInv, InitFaithful, NextFaithful, PTL DEF Spec

\* A parse begins or ends, or has less of the packed list ahead than before.
MovesOn ==
  \/ pc = "idle" \/ pc' = "idle"
  \/ pos < pos' /\ pos' < B.size

(***************************************************************************)
(* No sequence of calls comes back to a position it was at, and none goes  *)
(* beyond the packed list (zfs/nvlist/decode.go:162-243): the safety half  *)
(* of ParseEnds, for lists of any length and nesting.                      *)
(***************************************************************************)
THEOREM EveryStepMovesOn == ASSUME SkippedArraysAreSingle PROVE Spec => [][MovesOn]_vars
<1>1. ASSUME SkippedArraysAreSingle, IInv, IInv', Next
      PROVE  MovesOn
  <2>1. CASE ReadPair \/ ReadEnd
    <3>. DEFINE o == Start(pos)
                p == After(B, o)
    <3>1. pc = "reading" /\ pos' = p /\ buf' = buf
      BY <2>1 DEF ReadPair, ReadEnd, NextPos
    <3>2. buf \in DOMAIN Buffer /\ o \in DOMAIN B.at /\ pos \in Nat
      BY <1>1, <3>1, HereFacts DEF IInv, TypeOK
    <3>3. o \in Nat /\ B.at[o].size \in Nat
      BY <3>2, CellFacts DEF B, Cell
    <3>4. p \in Nat /\ p > o
      BY <3>3 DEF After, Int32Len
    <3>5. pos <= o
      BY <3>2 DEF Start, HeaderLen
    <3>6. pos < p
      <4>. HIDE DEF o, p
      <4>. QED
        BY <3>2, <3>3, <3>4, <3>5
    <3>7. ASSUME pc' = "reading"
          PROVE  p < B.size
      <4>1. Start(p) = p
        BY <3>3, <3>4 DEF Start
      <4>2. Start(pos') \in DOMAIN B'.at
        BY <1>1, <3>7 DEF IInv, InStep
      <4>3. B' = B
        BY <3>1 DEF B
      <4>4. p \in DOMAIN B.at
        BY <3>1, <4>1, <4>2, <4>3
      <4>. QED
        BY <3>2, <4>4, OffsetFacts DEF B
    <3>8. pc' \in {"idle", "reading"}
      BY <1>1 DEF IInv, TypeOK
    <3>. HIDE DEF o, p
    <3>. QED
      BY <3>1, <3>6, <3>7, <3>8 DEF MovesOn
  <2>2. CASE ReadFails \/ PairRefused
    BY <2>2 DEF ReadFails, PairRefused, Fail, MovesOn
  <2>3. CASE \E f \in Function, i \in DOMAIN Buffer : Parse(f, i)
    BY <2>3 DEF Parse, MovesOn
  <2>. QED
    BY <1>1, <2>1, <2>2, <2>3 DEF Next, Walk
<1>2. ASSUME SkippedArraysAreSingle
      PROVE  IInv /\ IInv' /\ [Next]_vars => [MovesOn]_vars
  BY <1>1, <1>2
<1>. QED
  BY <1>2, InitIInv, NextIInv, PTL DEF Spec
=============================================================================
