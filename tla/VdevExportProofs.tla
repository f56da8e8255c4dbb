-------------------------- MODULE VdevExportProofs ---------------------------
(***************************************************************************)
(* What VdevExport checks on small pools holds for every pool, whatever    *)
(* the shape of its tree, the names of its vdevs and their states.         *)
(***************************************************************************)
EXTENDS VdevExport, SequenceTheorems, TLAPS

Sent == {sent[i].vdev : i \in DOMAIN sent}
Called == {calls[i].vdev : i \in DOMAIN calls}

\* The name of v in r, and whether p is that of its parent, as it was sent in s.
NameIn(r, v) ==
  IF r.path[v] # Missing THEN Base[r.path[v]]
  ELSE IF r.type[v] = "root" THEN r.pool
  ELSE TypeId[<<r.type[v], r.id[v]>>]

NamedBy(r, s, p, v) ==
  IF v = r.root THEN p = <<>>
  ELSE \E k \in DOMAIN s : s[k].vdev \in Parents(r, v) /\ p = s[k].name

\* Nothing is called for twice, or again.
OnceInv ==
  /\ \A i, j \in DOMAIN calls : calls[i].vdev = calls[j].vdev => i = j
  /\ \A i, j \in DOMAIN sent : sent[i].vdev = sent[j].vdev => i = j
  /\ Sent \cap Called = {}

\* Names are made from the name of the parent, which was sent before.
NamesInv ==
  /\ \A i \in DOMAIN calls : NamedBy(resp, sent, calls[i].prefix, calls[i].vdev)
  /\ \A i \in DOMAIN sent : \E p \in Seq(Component) :
       NamedBy(resp, sent, p, sent[i].vdev) /\ sent[i].name = Append(p, NameIn(resp, sent[i].vdev))
  /\ \A i \in DOMAIN sent : sent[i].type = resp.type[sent[i].vdev]

\* What was sent was accepted.
ValidInv ==
  /\ \A i \in DOMAIN calls : \A k \in DOMAIN calls[i].prefix : calls[i].prefix[k] \in ValidUTF8
  /\ result = "error" => \E v \in resp.vdevs : v \notin Sent /\ OwnName(v) \notin ValidUTF8

\* While the walk goes on, what is below the vdevs that were sent is sent or
\* called for.
CoverInv ==
  /\ pc = "parse" => sent = <<>> /\ calls = <<>>
  /\ result = "ok" => calls = <<>>
  /\ pc = "walk" \/ result = "ok" =>
       /\ resp.root \in Sent \cup Called
       /\ \A v \in resp.vdevs : Parents(resp, v) \cap Sent # {} => v \in Sent \cup Called

\* Vdevs share their labels only if siblings share their own names and types.
DifferInv == SiblingsDiffer => LabelsDistinct

IInv == TypeOK /\ OnceInv /\ NamesInv /\ ValidInv /\ CoverInv /\ DifferInv

-----------------------------------------------------------------------------
LEMMA Formed ==
  ASSUME NEW r \in Response
  PROVE  /\ r.pool \in Component
         /\ r.state \in Nat \cup {Missing}
         /\ r.vdevs # {} => r.root \in r.vdevs
         /\ r.type \in [r.vdevs -> STRING]
         /\ r.path \in [r.vdevs -> Path \cup {Missing}]
         /\ r.id \in [r.vdevs -> Nat]
         /\ r.stats \in [r.vdevs -> Stats \cup {Missing}]
         /\ r.children \in [r.vdevs -> Seq(r.vdevs \ {r.root})]
         /\ \A v \in r.vdevs : r.path[v] = Missing /\ r.type[v] # "root" => <<r.type[v], r.id[v]>> \in DOMAIN TypeId
         /\ \A v \in r.vdevs : r.children[v] # <<>> => r.path[v] = Missing
         /\ \A v \in r.vdevs : r.type[v] = "root" => v = r.root
<1>1. WellFormed(r)
  BY ResponseAssumption
<1>. QED
  BY <1>1 DEF WellFormed

\* Every set of vdevs but for the root has one whose parent is not in it.
LEMMA Reachable ==
  ASSUME NEW r \in Response, NEW S \in SUBSET (r.vdevs \ {r.root}), S # {}
  PROVE  \E c \in S : \E v \in Parents(r, c) : v \notin S
<1>1. WellFormed(r)
  BY ResponseAssumption
<1>. QED
  BY <1>1 DEF WellFormed

\* A vdev has one parent, and one place among its children.
LEMMA OneParent ==
  ASSUME NEW r \in Response,
         NEW v \in r.vdevs, NEW w \in r.vdevs,
         NEW i \in DOMAIN r.children[v], NEW j \in DOMAIN r.children[w],
         r.children[v][i] = r.children[w][j]
  PROVE  v = w /\ i = j
<1>1. WellFormed(r)
  BY ResponseAssumption
<1>. QED
  BY <1>1 DEF WellFormed

LEMMA SameParent ==
  ASSUME NEW r \in Response, NEW c, NEW v \in Parents(r, c), NEW w \in Parents(r, c)
  PROVE  v = w
<1>1. PICK i \in DOMAIN r.children[v] : r.children[v][i] = c
  BY DEF Parents
<1>2. PICK j \in DOMAIN r.children[w] : r.children[w][j] = c
  BY DEF Parents
<1>. QED
  BY <1>1, <1>2, OneParent DEF Parents

LEMMA OwnNameType ==
  ASSUME resp \in Response, NEW v \in resp.vdevs
  PROVE  OwnName(v) \in Component
<1>1. CASE resp.path[v] # Missing
  <2>1. resp.path \in [resp.vdevs -> Path \cup {Missing}]
    BY Formed
  <2>2. resp.path[v] \in Path
    BY <1>1, <2>1
  <2>3. Base[resp.path[v]] \in Component
    BY <2>2, NameAssumption
  <2>. QED
    BY <1>1, <2>3 DEF OwnName
<1>2. CASE resp.path[v] = Missing /\ resp.type[v] = "root"
  BY <1>2, Formed DEF OwnName
<1>3. CASE resp.path[v] = Missing /\ resp.type[v] # "root"
  <2>1. <<resp.type[v], resp.id[v]>> \in DOMAIN TypeId
    BY <1>3, Formed
  <2>. QED
    BY <1>3, <2>1, NameAssumption DEF OwnName
<1>. QED
  BY <1>1, <1>2, <1>3

\* The states of util.go are in the lists of util.go.
LEMMA StatesListed ==
  ASSUME NEW s \in Nat, NEW a \in Nat
  PROVE  /\ PoolStateString(s) \in PoolStates
         /\ VDevStateString(s, a) \in VDevStates
<1>1. PoolStateString(s) \in PoolStates
  <2>1. CASE s \in 0 .. 7
    <3>1. s = 0 \/ s = 1 \/ s = 2 \/ s = 3 \/ s = 4 \/ s = 5 \/ s = 6 \/ s = 7
      BY <2>1
    <3>. QED
      BY <3>1 DEF PoolStateString, PoolStates
  <2>2. CASE s \notin 0 .. 7
    BY <2>2 DEF PoolStateString, PoolStates
  <2>. QED
    BY <2>1, <2>2
<1>2. VDevStateString(s, a) \in VDevStates
  <2>1. CASE s \in 1 .. 7
    <3>1. s = 1 \/ s = 2 \/ s = 3 \/ s = 4 \/ s = 5 \/ s = 6 \/ s = 7
      BY <2>1
    <3>. QED
      BY <3>1 DEF VDevStateString, VDevStates
  <2>2. CASE s \notin 1 .. 7
    BY <2>2 DEF VDevStateString, VDevStates
  <2>. QED
    BY <2>1, <2>2
<1>. QED
  BY <1>1, <1>2

LEMMA OneHotHolds ==
  ASSUME NEW S, NEW s
  PROVE  /\ OneHot(S, s) \in [S -> {0, 1}]
         /\ s \in S => \A t \in S : OneHot(S, s)[t] = 1 <=> t = s
         /\ s \notin S => \A t \in S : OneHot(S, s)[t] = 0
BY DEF OneHot

\* The gauges show the state, if there is one.
LEMMA PoolShown ==
  ASSUME resp \in Response
  PROVE  Shown(PoolStates, OneHot(PoolStates, PoolState), resp.state # Missing)
<1>1. CASE resp.state = Missing
  <2>1. PoolState \notin PoolStates
    BY <1>1 DEF PoolState, PoolStates
  <2>. QED
    BY <1>1, <2>1, OneHotHolds DEF Shown
<1>2. CASE resp.state # Missing
  <2>1. resp.state \in Nat
    BY <1>2, Formed
  <2>2. PoolState \in PoolStates
    BY <1>2, <2>1, StatesListed DEF PoolState
  <2>. QED
    BY <1>2, <2>2, OneHotHolds DEF Shown
<1>. QED
  BY <1>1, <1>2

LEMMA VdevShown ==
  ASSUME resp \in Response, NEW v \in resp.vdevs
  PROVE  Shown(VDevStates, OneHot(VDevStates, VdevState(v)), resp.stats[v] # Missing)
<1>1. CASE resp.stats[v] = Missing
  <2>1. VdevState(v) \notin VDevStates
    BY <1>1 DEF VdevState, VDevStates
  <2>. QED
    BY <1>1, <2>1, OneHotHolds DEF Shown
<1>2. CASE resp.stats[v] # Missing
  <2>0. resp.stats \in [resp.vdevs -> Stats \cup {Missing}]
    BY Formed
  <2>1. resp.stats[v] \in Stats
    BY <1>2, <2>0
  <2>2. resp.stats[v].state \in Nat /\ resp.stats[v].aux \in Nat
    BY <2>1 DEF Stats
  <2>3. VdevState(v) \in VDevStates
    BY <1>2, <2>2, StatesListed DEF VdevState
  <2>. QED
    BY <1>2, <2>3, OneHotHolds DEF Shown
<1>. QED
  BY <1>1, <1>2

-----------------------------------------------------------------------------
(* What one call of handleVdev does to the sequences.                       *)

LEMMA HeadCall ==
  ASSUME TypeOK, calls # <<>>
  PROVE  /\ Head(calls) = calls[1]
         /\ 1 \in DOMAIN calls
         /\ calls[1].vdev \in resp.vdevs
         /\ calls[1].prefix \in Seq(Component)
         /\ VdevName(calls[1]) \in Seq(Component)
         /\ pc = "walk" /\ result = "none"
<1>1. Head(calls) = calls[1] /\ 1 \in DOMAIN calls /\ calls[1] \in Call(resp)
  <2>1. calls \in Seq(Call(resp))
    BY DEF TypeOK
  <2>2. Len(calls) \in Nat /\ DOMAIN calls = 1 .. Len(calls) /\ Len(calls) # 0
    BY <2>1, LenProperties, EmptySeq
  <2>. QED
    BY <2>1, <2>2, LenProperties, HeadTailProperties
<1>2. calls[1].vdev \in resp.vdevs /\ calls[1].prefix \in Seq(Component)
  BY <1>1 DEF Call
<1>3. VdevName(calls[1]) \in Seq(Component)
  BY <1>2, OwnNameType, AppendProperties DEF VdevName, TypeOK
<1>4. pc = "walk" /\ result = "none"
  BY DEF TypeOK
<1>. QED
  BY <1>1, <1>2, <1>3, <1>4

\* The metrics of v follow n others, the calls for its m children take its place
\* before the k - 1 other calls.
Moves(v, n, m, k) ==
  /\ DOMAIN sent = 1 .. n
  /\ DOMAIN sent' = 1 .. (n + 1)
  /\ \A i \in 1 .. n : sent'[i] = sent[i]
  /\ sent'[n + 1] = Metrics(calls[1])
  /\ DOMAIN resp.children[v] = 1 .. m
  /\ k > 0
  /\ DOMAIN calls = 1 .. k
  /\ DOMAIN calls' = 1 .. (m + k - 1)
  /\ \A i \in 1 .. m : calls'[i].vdev = resp.children[v][i] /\ calls'[i].prefix = VdevName(calls[1])
  /\ \A i \in (m + 1) .. (m + k - 1) : calls'[i] = calls[i - m + 1]

LEMMA HandleVdevFacts ==
  ASSUME TypeOK, HandleVdev, NEW v, v = calls[1].vdev
  PROVE  /\ sent' \in Seq([vdev : resp.vdevs, name : Seq(Component), type : STRING,
                           states : [VDevStates -> {0, 1}]])
         /\ calls' \in Seq(Call(resp))
         /\ \E n, m, k \in Nat : Moves(v, n, m, k)
<1>. DEFINE T == [vdev : resp.vdevs, name : Seq(Component), type : STRING, states : [VDevStates -> {0, 1}]]
            C == Call(resp)
            h == calls[1]
            x == Metrics(calls[1])
            cc == ChildCalls(calls[1])
            nm == VdevName(calls[1])
            ch == resp.children[v]
            n == Len(sent)
            k == Len(calls)
            m == Len(ch)
<1>1. calls # <<>> /\ Head(calls) = h /\ v \in resp.vdevs /\ nm \in Seq(Component)
  BY HeadCall DEF HandleVdev
<1>2. resp \in Response /\ sent \in Seq(T) /\ calls \in Seq(C)
  BY DEF TypeOK
<1>3. x \in T
  <2>1. resp.type[v] \in STRING
    BY <1>1, <1>2, Formed
  <2>2. OneHot(VDevStates, VdevState(v)) \in [VDevStates -> {0, 1}]
    BY OneHotHolds
  <2>. QED
    BY <1>1, <2>1, <2>2 DEF Metrics
<1>4. ch \in Seq(resp.vdevs)
  <2>1. ch \in Seq(resp.vdevs \ {resp.root})
    BY <1>1, <1>2, Formed
  <2>. QED
    BY <2>1
<1>5. m \in Nat /\ DOMAIN ch = 1 .. m /\ \A i \in 1 .. m : ch[i] \in resp.vdevs
  BY <1>4, LenProperties
<1>6. /\ cc \in Seq(C)
      /\ Len(cc) = m
      /\ \A i \in 1 .. m : cc[i] = [vdev |-> ch[i], prefix |-> nm]
  <2>1. cc = [i \in 1 .. m |-> [vdev |-> ch[i], prefix |-> nm]]
    BY <1>5 DEF ChildCalls
  <2>2. \A i \in 1 .. m : [vdev |-> ch[i], prefix |-> nm] \in C
    BY <1>1, <1>5 DEF Call
  <2>. HIDE DEF cc, C, ch, nm, m
  <2>3. cc \in [1 .. m -> C]
    BY <2>1, <2>2
  <2>4. cc \in Seq(C)
    BY <1>5, <2>3
  <2>5. Len(cc) = m
    BY <1>5, <2>3, <2>4, LenProperties
  <2>. QED
    BY <2>1, <2>4, <2>5
<1>7. sent' = Append(sent, x) /\ calls' = cc \o Tail(calls)
  BY <1>1 DEF HandleVdev
<1>. HIDE DEF T, C, h, x, cc, nm, ch
<1>8. /\ n \in Nat /\ DOMAIN sent = 1 .. n
      /\ sent' \in Seq(T) /\ DOMAIN sent' = 1 .. (n + 1)
      /\ \A i \in 1 .. n : sent'[i] = sent[i]
      /\ sent'[n + 1] = x
  BY <1>2, <1>3, <1>7, AppendProperties, LenProperties
<1>9. /\ k \in Nat /\ k > 0 /\ DOMAIN calls = 1 .. k
      /\ Tail(calls) \in Seq(C) /\ Len(Tail(calls)) = k - 1
      /\ \A i \in 1 .. (k - 1) : Tail(calls)[i] = calls[i + 1]
  BY <1>1, <1>2, HeadTailProperties, LenProperties, EmptySeq
<1>10. /\ calls' \in Seq(C) /\ DOMAIN calls' = 1 .. (m + k - 1)
       /\ \A i \in 1 .. (m + k - 1) : calls'[i] = IF i <= m THEN cc[i] ELSE Tail(calls)[i - m]
  <2>. DEFINE tl == Tail(calls)
  <2>. HIDE DEF tl, m, k
  <2>1. tl \in Seq(C) /\ Len(tl) = k - 1 /\ calls' = cc \o tl
    BY <1>7, <1>9 DEF tl
  <2>2. /\ cc \o tl \in Seq(C)
        /\ Len(cc \o tl) = m + (k - 1)
        /\ \A i \in 1 .. m + (k - 1) : (cc \o tl)[i] = IF i <= m THEN cc[i] ELSE tl[i - m]
    <3>1. /\ cc \o tl \in Seq(C)
          /\ Len(cc \o tl) = Len(cc) + Len(tl)
          /\ \A i \in 1 .. Len(cc) + Len(tl) :
               (cc \o tl)[i] = IF i <= Len(cc) THEN cc[i] ELSE tl[i - Len(cc)]
      BY <1>6, <2>1, ConcatProperties
    <3>. DEFINE t == cc \o tl
    <3>. HIDE DEF t
    <3>2. /\ t \in Seq(C)
          /\ Len(t) = m + (k - 1)
          /\ \A i \in 1 .. m + (k - 1) : t[i] = IF i <= m THEN cc[i] ELSE tl[i - m]
      BY <1>6, <2>1, <3>1, Zenon DEF t
    <3>. QED
      BY <3>2 DEF t
  <2>3. DOMAIN (cc \o tl) = 1 .. (m + (k - 1))
    BY <2>2, LenProperties
  <2>4. m + (k - 1) = m + k - 1
    BY <1>5, <1>9
  <2>. QED
    BY <2>1, <2>2, <2>3, <2>4 DEF tl
<1>. HIDE DEF m, k, n
<1>11. /\ \A i \in 1 .. m : calls'[i].vdev = ch[i] /\ calls'[i].prefix = nm
       /\ \A i \in (m + 1) .. (m + k - 1) : calls'[i] = calls[i - m + 1]
  <2>1. ASSUME NEW i \in 1 .. m
        PROVE  calls'[i] = cc[i]
    BY <1>5, <1>9, <1>10
  <2>2. ASSUME NEW i \in (m + 1) .. (m + k - 1)
        PROVE  calls'[i] = calls[i - m + 1]
    <3>1. calls'[i] = Tail(calls)[i - m] /\ i - m \in 1 .. (k - 1)
      BY <1>5, <1>9, <1>10
    <3>. QED
      BY <1>9, <3>1
  <2>. QED
    BY <1>6, <2>1, <2>2
<1>. QED
  <2>1. Moves(v, n, m, k)
    BY <1>5, <1>8, <1>9, <1>10, <1>11 DEF Moves, x, ch, nm
  <2>. QED
    BY <1>5, <1>8, <1>9, <1>10, <2>1 DEF T, C

-----------------------------------------------------------------------------
(* The steps of the walk.                                                   *)

LEMMA HandleVdevType ==
  ASSUME TypeOK, HandleVdev
  PROVE  TypeOK'
<1>1. pc = "walk" /\ result = "none" /\ UNCHANGED <<resp, pc, pool, result>>
  BY HeadCall DEF HandleVdev
<1>2. /\ sent' \in Seq([vdev : resp.vdevs, name : Seq(Component), type : STRING,
                        states : [VDevStates -> {0, 1}]])
      /\ calls' \in Seq(Call(resp))
  BY HandleVdevFacts
<1>3. Call(resp)' = Call(resp)
  BY <1>1 DEF Call
<1>. QED
  BY <1>1, <1>2, <1>3 DEF TypeOK

\* The vdevs that were sent and are called for, and their places, before and
\* after a call of handleVdev for v.
LEMMA HandleVdevSets ==
  ASSUME TypeOK, OnceInv, HandleVdev, NEW v, v = calls[1].vdev
  PROVE  /\ v \in Called /\ v \notin Sent
         /\ Sent' = Sent \cup {v}
         /\ Called' = (Called \ {v}) \cup {resp.children[v][i] : i \in DOMAIN resp.children[v]}
         /\ \A i \in DOMAIN calls' :
              \/ /\ calls'[i].prefix = VdevName(calls[1])
                 /\ v \in Parents(resp, calls'[i].vdev)
              \/ \E j \in DOMAIN calls : j # 1 /\ calls'[i] = calls[j]
<1>0. PICK n, m, k \in Nat : Moves(v, n, m, k)
  BY HandleVdevFacts
<1>. DEFINE ch == resp.children[v]
            nm == VdevName(calls[1])
<1>. HIDE DEF ch, nm
<1>1. /\ DOMAIN sent = 1 .. n
      /\ DOMAIN sent' = 1 .. (n + 1)
      /\ \A i \in 1 .. n : sent'[i] = sent[i]
      /\ sent'[n + 1] = Metrics(calls[1])
      /\ DOMAIN ch = 1 .. m
      /\ k > 0
      /\ DOMAIN calls = 1 .. k
      /\ DOMAIN calls' = 1 .. (m + k - 1)
      /\ \A i \in 1 .. m : calls'[i].vdev = ch[i] /\ calls'[i].prefix = nm
      /\ \A i \in (m + 1) .. (m + k - 1) : calls'[i] = calls[i - m + 1]
  BY <1>0 DEF Moves, ch, nm
<1>2. v \in resp.vdevs
  BY HeadCall DEF HandleVdev
<1>3. Metrics(calls[1]).vdev = v
  BY DEF Metrics
<1>4. v \in Called /\ v \notin Sent
  <2>1. v \in Called
    BY <1>1 DEF Called
  <2>. QED
    BY <2>1 DEF OnceInv
<1>5. Sent' = Sent \cup {v}
  <2>1. ASSUME NEW w \in Sent' PROVE w \in Sent \cup {v}
    <3>1. PICK i \in DOMAIN sent' : w = sent'[i].vdev
      BY DEF Sent
    <3>2. CASE i \in 1 .. n
      BY <1>1, <3>1, <3>2 DEF Sent
    <3>3. CASE i = n + 1
      BY <1>1, <1>3, <3>1, <3>3
    <3>. QED
      BY <1>1, <3>2, <3>3
  <2>2. ASSUME NEW w \in Sent PROVE w \in Sent'
    BY <1>1 DEF Sent
  <2>3. v \in Sent'
    <3>1. n + 1 \in DOMAIN sent' /\ sent'[n + 1].vdev = v
      BY <1>1, <1>3
    <3>. QED
      BY <3>1 DEF Sent
  <2>. QED
    BY <2>1, <2>2, <2>3
<1>6. \A i \in DOMAIN calls' :
        \/ /\ calls'[i].prefix = nm
           /\ v \in Parents(resp, calls'[i].vdev)
        \/ \E j \in DOMAIN calls : j # 1 /\ calls'[i] = calls[j]
  <2>. SUFFICES ASSUME NEW i \in DOMAIN calls'
                PROVE  \/ /\ calls'[i].prefix = nm
                          /\ v \in Parents(resp, calls'[i].vdev)
                       \/ \E j \in DOMAIN calls : j # 1 /\ calls'[i] = calls[j]
    OBVIOUS
  <2>1. CASE i <= m
    <3>1. /\ i \in DOMAIN ch
          /\ calls'[i].prefix = nm
          /\ calls'[i].vdev = ch[i]
      BY <1>1, <2>1
    <3>. QED
      BY <1>2, <3>1 DEF Parents, ch
  <2>2. CASE ~(i <= m)
    <3>1. /\ i - m + 1 \in DOMAIN calls
          /\ i - m + 1 # 1
          /\ calls'[i] = calls[i - m + 1]
      BY <1>1, <2>2
    <3>. QED
      BY <3>1
  <2>. QED
    BY <2>1, <2>2
<1>7. Called' = (Called \ {v}) \cup {ch[i] : i \in DOMAIN ch}
  <2>1. ASSUME NEW w \in Called'
        PROVE  w \in (Called \ {v}) \cup {ch[i] : i \in DOMAIN ch}
    <3>1. PICK i \in DOMAIN calls' : w = calls'[i].vdev
      BY DEF Called
    <3>2. CASE i <= m
      BY <1>1, <3>1, <3>2
    <3>3. CASE ~(i <= m)
      <4>1. /\ i - m + 1 \in DOMAIN calls
            /\ i - m + 1 # 1
            /\ calls'[i] = calls[i - m + 1]
        BY <1>1, <3>3
      <4>2. 1 \in DOMAIN calls
        BY <1>1
      <4>. QED
        BY <3>1, <4>1, <4>2 DEF Called, OnceInv
    <3>. QED
      BY <3>2, <3>3
  <2>2. ASSUME NEW i \in DOMAIN ch
        PROVE  ch[i] \in Called'
    <3>1. i \in DOMAIN calls' /\ calls'[i].vdev = ch[i]
      BY <1>1
    <3>. QED
      BY <3>1 DEF Called
  <2>3. ASSUME NEW w \in Called, w # v
        PROVE  w \in Called'
    <3>1. PICK j \in DOMAIN calls : w = calls[j].vdev
      BY DEF Called
    <3>2. j + m - 1 \in DOMAIN calls' /\ calls'[j + m - 1] = calls[j]
      <4>1. j \in 2 .. k
        BY <1>1, <2>3, <3>1
      <4>2. j + m - 1 \in (m + 1) .. (m + k - 1) /\ (j + m - 1) - m + 1 = j
        BY <1>1, <4>1
      <4>. QED
        BY <1>1, <4>2
    <3>. QED
      BY <3>1, <3>2 DEF Called
  <2>. QED
    BY <2>1, <2>2, <2>3
<1>. QED
  BY <1>4, <1>5, <1>6, <1>7 DEF ch, nm

\* No child of a vdev that was not sent has been sent or called for.
LEMMA ChildrenNew ==
  ASSUME IInv, NEW v, v \notin Sent, NEW c, v \in Parents(resp, c)
  PROVE  c \notin Sent /\ c \notin Called /\ c # resp.root
<1>1. resp \in Response /\ v \in resp.vdevs
  BY DEF IInv, TypeOK, Parents
<1>2. c # resp.root
  <2>1. PICK i \in DOMAIN resp.children[v] : c = resp.children[v][i]
    BY DEF Parents
  <2>2. resp.children[v] \in Seq(resp.vdevs \ {resp.root})
    BY <1>1, Formed
  <2>3. c \in resp.vdevs \ {resp.root}
    BY <2>1, <2>2, LenProperties
  <2>. QED
    BY <2>3
<1>3. ASSUME NEW p, NamedBy(resp, sent, p, c)
      PROVE  FALSE
  <2>1. PICK k \in DOMAIN sent : sent[k].vdev \in Parents(resp, c)
    BY <1>2, <1>3 DEF NamedBy
  <2>2. sent[k].vdev = v
    BY <1>1, <2>1, SameParent
  <2>. QED
    BY <2>2 DEF Sent
<1>4. c \notin Sent
  BY <1>3 DEF IInv, NamesInv, Sent
<1>5. c \notin Called
  BY <1>3 DEF IInv, NamesInv, Called
<1>. QED
  BY <1>2, <1>4, <1>5

LEMMA HandleVdevOnce ==
  ASSUME IInv, HandleVdev
  PROVE  OnceInv'
<1>. DEFINE v == calls[1].vdev
            ch == resp.children[v]
<1>1. TypeOK /\ OnceInv /\ v \in resp.vdevs /\ resp \in Response
  BY HeadCall DEF HandleVdev, IInv, TypeOK
<1>2. PICK n, m, k \in Nat : Moves(v, n, m, k)
  BY <1>1, HandleVdevFacts
<1>3. /\ v \notin Sent
      /\ Sent' = Sent \cup {v}
      /\ Called' = (Called \ {v}) \cup {ch[i] : i \in DOMAIN ch}
  BY <1>1, HandleVdevSets
<1>4. \A i \in DOMAIN ch : v \in Parents(resp, ch[i])
  BY <1>1 DEF Parents
<1>5. \A i \in DOMAIN ch : ch[i] \notin Sent /\ ch[i] \notin Called
  BY <1>3, <1>4, ChildrenNew
<1>6. v \in Called
  BY <1>1, HandleVdevSets
<1>7. Sent' \cap Called' = {}
  BY <1>1, <1>3, <1>5, <1>6 DEF OnceInv
<1>8. \A i, j \in DOMAIN sent' : sent'[i].vdev = sent'[j].vdev => i = j
  <2>1. /\ DOMAIN sent = 1 .. n
        /\ DOMAIN sent' = 1 .. (n + 1)
        /\ \A i \in 1 .. n : sent'[i] = sent[i]
        /\ sent'[n + 1].vdev = v
    BY <1>2 DEF Moves, Metrics
  <2>2. \A i \in 1 .. n : sent[i].vdev # v
    BY <1>3, <2>1 DEF Sent
  <2>3. \A i, j \in 1 .. n : sent[i].vdev = sent[j].vdev => i = j
    BY <1>1, <2>1 DEF OnceInv
  <2>. HIDE DEF v
  <2>. QED
    BY <2>1, <2>2, <2>3
<1>9. \A i, j \in DOMAIN calls' : calls'[i].vdev = calls'[j].vdev => i = j
  <2>. HIDE DEF ch
  <2>1. /\ DOMAIN ch = 1 .. m
        /\ DOMAIN calls = 1 .. k
        /\ DOMAIN calls' = 1 .. (m + k - 1)
        /\ \A i \in 1 .. m : calls'[i].vdev = ch[i]
        /\ \A i \in (m + 1) .. (m + k - 1) : calls'[i] = calls[i - m + 1]
    BY <1>2 DEF Moves, ch
  <2>2. \A i, j \in 1 .. m : ch[i] = ch[j] => i = j
    BY <1>1, <2>1, OneParent DEF ch
  <2>3. \A i \in 1 .. m, j \in 1 .. k : ch[i] # calls[j].vdev
    BY <1>5, <2>1 DEF Called
  <2>4. \A i, j \in 1 .. k : calls[i].vdev = calls[j].vdev => i = j
    BY <1>1, <2>1 DEF OnceInv
  <2>5. \A i \in (m + 1) .. (m + k - 1) : i - m + 1 \in 1 .. k
    OBVIOUS
  <2>. SUFFICES ASSUME NEW i \in 1 .. (m + k - 1), NEW j \in 1 .. (m + k - 1),
                       calls'[i].vdev = calls'[j].vdev
                PROVE  i = j
    BY <2>1
  <2>6. CASE i <= m /\ j <= m
    BY <2>1, <2>2, <2>6
  <2>7. CASE i <= m /\ ~(j <= m)
    BY <2>1, <2>3, <2>5, <2>7
  <2>8. CASE ~(i <= m) /\ j <= m
    BY <2>1, <2>3, <2>5, <2>8
  <2>9. CASE ~(i <= m) /\ ~(j <= m)
    <3>1. i - m + 1 = j - m + 1
      BY <2>1, <2>4, <2>5, <2>9
    <3>. QED
      BY <3>1
  <2>. QED
    BY <2>6, <2>7, <2>8, <2>9
<1>. QED
  BY <1>7, <1>8, <1>9 DEF OnceInv

\* What was sent stays, and so do the names made from it.
LEMMA NamedByStays ==
  ASSUME NEW r, NEW s, NEW t, NEW p, NEW w, NamedBy(r, s, p, w),
         \A i \in DOMAIN s : i \in DOMAIN t /\ t[i] = s[i]
  PROVE  NamedBy(r, t, p, w)
BY DEF NamedBy

LEMMA OwnNameIn == ASSUME NEW w PROVE OwnName(w) = NameIn(resp, w)
BY DEF OwnName, NameIn

LEMMA HandleVdevNames ==
  ASSUME IInv, HandleVdev
  PROVE  NamesInv'
<1>. DEFINE v == calls[1].vdev
<1>1. TypeOK /\ OnceInv /\ v \in resp.vdevs /\ resp' = resp /\ 1 \in DOMAIN calls
  BY HeadCall DEF HandleVdev, IInv
<1>2. PICK n, m, k \in Nat : Moves(v, n, m, k)
  BY <1>1, HandleVdevFacts
<1>3. /\ DOMAIN sent = 1 .. n
      /\ DOMAIN sent' = 1 .. (n + 1)
      /\ \A i \in 1 .. n : sent'[i] = sent[i]
      /\ sent'[n + 1].vdev = v
      /\ sent'[n + 1].name = VdevName(calls[1])
  BY <1>2 DEF Moves, Metrics
<1>4. \A i \in DOMAIN sent : i \in DOMAIN sent' /\ sent'[i] = sent[i]
  BY <1>3
<1>5. ASSUME NEW i \in DOMAIN calls'
      PROVE  NamedBy(resp, sent', calls'[i].prefix, calls'[i].vdev)
  <2>1. CASE calls'[i].prefix = VdevName(calls[1]) /\ v \in Parents(resp, calls'[i].vdev)
    <3>1. calls'[i].vdev # resp.root
      <4>1. v \notin Sent
        BY <1>1, HandleVdevSets
      <4>. QED
        BY <1>1, <2>1, <4>1, ChildrenNew
    <3>2. n + 1 \in DOMAIN sent' /\ sent'[n + 1].name = calls'[i].prefix
      BY <1>3, <2>1
    <3>3. sent'[n + 1].vdev \in Parents(resp, calls'[i].vdev)
      BY <1>3, <2>1
    <3>. QED
      BY <3>1, <3>2, <3>3 DEF NamedBy
  <2>2. ASSUME NEW j \in DOMAIN calls, calls'[i] = calls[j]
        PROVE  NamedBy(resp, sent', calls'[i].prefix, calls'[i].vdev)
    <3>1. NamedBy(resp, sent, calls[j].prefix, calls[j].vdev)
      BY DEF IInv, NamesInv
    <3>2. NamedBy(resp, sent', calls[j].prefix, calls[j].vdev)
      BY <1>4, <3>1, NamedByStays
    <3>. QED
      BY <2>2, <3>2
  <2>. QED
    BY <1>1, <2>1, <2>2, HandleVdevSets
<1>6. ASSUME NEW i \in DOMAIN sent'
      PROVE  \E p \in Seq(Component) :
               /\ NamedBy(resp, sent', p, sent'[i].vdev)
               /\ sent'[i].name = Append(p, NameIn(resp, sent'[i].vdev))
  <2>1. CASE i \in DOMAIN sent
    <3>1. PICK p \in Seq(Component) :
            /\ NamedBy(resp, sent, p, sent[i].vdev)
            /\ sent[i].name = Append(p, NameIn(resp, sent[i].vdev))
      BY <2>1 DEF IInv, NamesInv
    <3>2. NamedBy(resp, sent', p, sent[i].vdev)
      BY <1>4, <3>1, NamedByStays
    <3>. QED
      BY <1>4, <2>1, <3>1, <3>2
  <2>2. CASE i = n + 1
    <3>1. NamedBy(resp, sent, calls[1].prefix, v) /\ calls[1].prefix \in Seq(Component)
      BY <1>1, HeadCall DEF IInv, NamesInv, HandleVdev
    <3>2. NamedBy(resp, sent', calls[1].prefix, v)
      BY <1>4, <3>1, NamedByStays
    <3>3. VdevName(calls[1]) = Append(calls[1].prefix, NameIn(resp, v))
      BY OwnNameIn DEF VdevName
    <3>. QED
      BY <1>3, <2>2, <3>1, <3>2, <3>3
  <2>. QED
    BY <1>3, <2>1, <2>2
<1>7. ASSUME NEW i \in DOMAIN sent'
      PROVE  sent'[i].type = resp.type[sent'[i].vdev]
  <2>1. CASE i \in DOMAIN sent
    BY <1>4, <2>1 DEF IInv, NamesInv
  <2>2. CASE i = n + 1
    BY <1>2, <2>2 DEF Moves, Metrics
  <2>. QED
    BY <1>3, <2>1, <2>2
<1>. QED
  BY <1>1, <1>5, <1>6, <1>7 DEF NamesInv

LEMMA HandleVdevValid ==
  ASSUME IInv, HandleVdev
  PROVE  ValidInv'
<1>1. TypeOK /\ OnceInv /\ result' = "none"
  BY HeadCall DEF HandleVdev, IInv
<1>2. \A i \in DOMAIN VdevName(calls[1]) : VdevName(calls[1])[i] \in ValidUTF8
  BY <1>1, HeadCall DEF HandleVdev, Accepted
<1>3. ASSUME NEW i \in DOMAIN calls'
      PROVE  \A k \in DOMAIN calls'[i].prefix : calls'[i].prefix[k] \in ValidUTF8
  <2>1. CASE calls'[i].prefix = VdevName(calls[1])
    BY <1>2, <2>1
  <2>2. ASSUME NEW j \in DOMAIN calls, calls'[i] = calls[j]
        PROVE  \A k \in DOMAIN calls'[i].prefix : calls'[i].prefix[k] \in ValidUTF8
    BY <2>2 DEF IInv, ValidInv
  <2>. QED
    BY <1>1, <2>1, <2>2, HandleVdevSets
<1>. QED
  BY <1>1, <1>3 DEF ValidInv

LEMMA HandleVdevCover ==
  ASSUME IInv, HandleVdev
  PROVE  CoverInv'
<1>. DEFINE v == calls[1].vdev
<1>1. TypeOK /\ OnceInv /\ pc = "walk" /\ UNCHANGED <<resp, pc, result>> /\ result = "none"
  BY HeadCall DEF HandleVdev, IInv
<1>2. /\ Sent' = Sent \cup {v}
      /\ Called' = (Called \ {v}) \cup {resp.children[v][i] : i \in DOMAIN resp.children[v]}
  BY <1>1, HandleVdevSets
<1>3. resp.root \in Sent' \cup Called'
  BY <1>1, <1>2 DEF IInv, CoverInv
<1>4. ASSUME NEW w \in resp.vdevs, NEW u \in Parents(resp, w), u \in Sent'
      PROVE  w \in Sent' \cup Called'
  <2>1. CASE u \in Sent
    <3>1. w \in Sent \cup Called
      BY <1>1, <2>1 DEF IInv, CoverInv
    <3>. QED
      BY <1>2, <3>1
  <2>2. CASE u = v
    <3>1. \E i \in DOMAIN resp.children[v] : resp.children[v][i] = w
      BY <2>2 DEF Parents
    <3>. QED
      BY <1>2, <3>1
  <2>. QED
    BY <1>2, <1>4, <2>1, <2>2
<1>5. \A w \in resp.vdevs : Parents(resp, w) \cap Sent' # {} => w \in Sent' \cup Called'
  BY <1>4
<1>. QED
  BY <1>1, <1>3, <1>5 DEF CoverInv

\* A name that was sent is not empty.
LEMMA SentType ==
  ASSUME IInv, NEW i \in DOMAIN sent
  PROVE  sent[i].vdev \in resp.vdevs /\ sent[i].name \in Seq(Component) /\ sent[i].name # <<>>
<1>1. sent[i].vdev \in resp.vdevs /\ sent[i].name \in Seq(Component)
  <2>. DEFINE T == [vdev : resp.vdevs, name : Seq(Component), type : STRING,
                    states : [VDevStates -> {0, 1}]]
  <2>1. sent \in Seq(T)
    BY DEF IInv, TypeOK
  <2>. HIDE DEF T
  <2>2. sent[i] \in T
    BY <2>1, LenProperties
  <2>. QED
    BY <2>2 DEF T
<1>2. PICK p \in Seq(Component) : sent[i].name = Append(p, NameIn(resp, sent[i].vdev))
  BY DEF IInv, NamesInv
<1>3. NameIn(resp, sent[i].vdev) \in Component
  BY <1>1, OwnNameType, OwnNameIn DEF TypeOK, IInv
<1>. QED
  BY <1>1, <1>2, <1>3, AppendProperties

\* What Append makes two names from.
LEMMA SameEnds ==
  ASSUME resp \in Response, NEW v \in resp.vdevs, NEW w \in resp.vdevs,
         NEW p \in Seq(Component), NEW q \in Seq(Component),
         Append(p, NameIn(resp, v)) = Append(q, NameIn(resp, w))
  PROVE  p = q /\ NameIn(resp, v) = NameIn(resp, w)
<1>. DEFINE a == NameIn(resp, v)
            b == NameIn(resp, w)
<1>1. a \in Component /\ b \in Component
  BY OwnNameType, OwnNameIn
<1>2. Append(p, a) = Append(q, b)
  OBVIOUS
<1>. HIDE DEF a, b
<1>3. p = q /\ a = b
  BY <1>1, <1>2, AppendInjective
<1>. QED
  BY <1>3 DEF a, b

\* A vdev with children has the name its type and id give, which tells its type.
LEMMA ParentNamesType ==
  ASSUME resp \in Response, NEW v \in resp.vdevs, NEW w \in resp.vdevs,
         v # resp.root, w # resp.root, resp.children[v] # <<>>, resp.children[w] # <<>>,
         NameIn(resp, v) = NameIn(resp, w)
  PROVE  resp.type[v] = resp.type[w]
<1>. DEFINE x == <<resp.type[v], resp.id[v]>>
            y == <<resp.type[w], resp.id[w]>>
<1>1. /\ resp.path[v] = Missing /\ resp.type[v] # "root"
      /\ resp.path[w] = Missing /\ resp.type[w] # "root"
  BY Formed
<1>2. x \in DOMAIN TypeId /\ y \in DOMAIN TypeId
  BY <1>1, Formed
<1>3. TypeId[x] = TypeId[y]
  BY <1>1 DEF NameIn
<1>. HIDE DEF x, y
<1>4. x = y
  BY <1>2, <1>3, NameAssumption
<1>. QED
  BY <1>4 DEF x, y

\* As long as siblings differ, parents with one name are one.
LEMMA SameNameParents ==
  ASSUME IInv, SiblingsDiffer, NEW k \in DOMAIN sent, NEW l \in DOMAIN sent,
         NEW c, NEW d, sent[k].vdev \in Parents(resp, c), sent[l].vdev \in Parents(resp, d),
         sent[k].name = sent[l].name
  PROVE  k = l
<1>. DEFINE v == sent[k].vdev
            w == sent[l].vdev
<1>1. resp \in Response /\ v \in resp.vdevs /\ w \in resp.vdevs
  BY SentType DEF IInv, TypeOK
<1>2. PICK p \in Seq(Component) : NamedBy(resp, sent, p, v) /\ sent[k].name = Append(p, NameIn(resp, v))
  BY DEF IInv, NamesInv
<1>3. PICK q \in Seq(Component) : NamedBy(resp, sent, q, w) /\ sent[l].name = Append(q, NameIn(resp, w))
  BY DEF IInv, NamesInv
<1>4. sent[k].type = resp.type[v] /\ sent[l].type = resp.type[w]
  BY DEF IInv, NamesInv
<1>5. resp.children[v] # <<>> /\ resp.children[w] # <<>>
  BY DEF Parents
<1>6. v = w => k = l
  BY DEF IInv, OnceInv
<1>. HIDE DEF v, w
<1>7. p = q /\ NameIn(resp, v) = NameIn(resp, w)
  BY <1>1, <1>2, <1>3, SameEnds
<1>8. CASE v = resp.root \/ w = resp.root
  <2>1. p = <<>>
    BY <1>2, <1>3, <1>7, <1>8 DEF NamedBy
  <2>2. v = resp.root /\ w = resp.root
    BY <1>2, <1>3, <1>7, <2>1, SentType DEF NamedBy
  <2>. QED
    BY <1>6, <2>2
<1>9. CASE v # resp.root /\ w # resp.root
  <2>1. resp.type[v] = resp.type[w]
    BY <1>1, <1>5, <1>7, <1>9, ParentNamesType
  <2>. QED
    BY <1>4, <2>1 DEF IInv, DifferInv, LabelsDistinct
<1>. QED
  BY <1>8, <1>9

\* As long as siblings differ, a vdev that was not sent has labels that were not
\* sent.
LEMMA FreshLabels ==
  ASSUME IInv, SiblingsDiffer, NEW v \in resp.vdevs, v \notin Sent,
         NEW p \in Seq(Component), NamedBy(resp, sent, p, v), NEW j \in DOMAIN sent,
         sent[j].type = resp.type[v]
  PROVE  sent[j].name # Append(p, NameIn(resp, v))
<1>. SUFFICES ASSUME sent[j].name = Append(p, NameIn(resp, v)) PROVE FALSE
  OBVIOUS
<1>. DEFINE w == sent[j].vdev
<1>1. TypeOK /\ resp \in Response /\ w \in resp.vdevs /\ w # v
  BY SentType DEF IInv, TypeOK, Sent
<1>2. PICK q \in Seq(Component) : NamedBy(resp, sent, q, w) /\ sent[j].name = Append(q, NameIn(resp, w))
  BY DEF IInv, NamesInv
<1>3. resp.type[w] = resp.type[v]
  BY DEF IInv, NamesInv
<1>. HIDE DEF w
<1>4. p = q /\ NameIn(resp, v) = NameIn(resp, w)
  BY <1>1, <1>2, SameEnds
<1>5. CASE v = resp.root \/ w = resp.root
  <2>1. p = <<>>
    BY <1>2, <1>4, <1>5 DEF NamedBy
  <2>2. v = resp.root /\ w = resp.root
    BY <1>2, <1>4, <1>5, <2>1, SentType DEF NamedBy
  <2>. QED
    BY <1>1, <2>2
<1>6. CASE v # resp.root /\ w # resp.root
  <2>1. PICK k \in DOMAIN sent : sent[k].vdev \in Parents(resp, v) /\ p = sent[k].name
    BY <1>6 DEF NamedBy
  <2>2. PICK l \in DOMAIN sent : sent[l].vdev \in Parents(resp, w) /\ q = sent[l].name
    BY <1>2, <1>6 DEF NamedBy
  <2>3. k = l
    BY <1>4, <2>1, <2>2, SameNameParents
  <2>. DEFINE u == sent[k].vdev
  <2>4. u \in resp.vdevs
    BY SentType
  <2>5. PICK a \in DOMAIN resp.children[u] : resp.children[u][a] = v
    BY <2>1 DEF Parents
  <2>6. PICK b \in DOMAIN resp.children[u] : resp.children[u][b] = w
    BY <2>2, <2>3 DEF Parents
  <2>7. a = b
    BY <1>3, <1>4, <2>4, <2>5, <2>6, OwnNameIn DEF SiblingsDiffer
  <2>. QED
    BY <1>1, <2>5, <2>6, <2>7
<1>. QED
  BY <1>5, <1>6

LEMMA SiblingsStay == resp' = resp => SiblingsDiffer' = SiblingsDiffer
BY DEF SiblingsDiffer, OwnName

LEMMA HandleVdevDiffer ==
  ASSUME IInv, HandleVdev
  PROVE  DifferInv'
<1>. DEFINE v == calls[1].vdev
            nm == VdevName(calls[1])
<1>1. /\ TypeOK /\ OnceInv /\ v \in resp.vdevs /\ resp' = resp /\ 1 \in DOMAIN calls
      /\ calls[1].prefix \in Seq(Component)
  BY HeadCall DEF HandleVdev, IInv
<1>2. PICK n, m, k \in Nat : Moves(v, n, m, k)
  BY <1>1, HandleVdevFacts
<1>3. /\ DOMAIN sent = 1 .. n
      /\ DOMAIN sent' = 1 .. (n + 1)
      /\ \A i \in 1 .. n : sent'[i] = sent[i]
      /\ sent'[n + 1].name = nm
      /\ sent'[n + 1].type = resp.type[v]
  BY <1>2 DEF Moves, Metrics
<1>4. v \notin Sent
  BY <1>1, HandleVdevSets
<1>5. NamedBy(resp, sent, calls[1].prefix, v)
  BY <1>1 DEF IInv, NamesInv
<1>6. nm = Append(calls[1].prefix, NameIn(resp, v))
  BY OwnNameIn DEF VdevName
<1>. SUFFICES ASSUME SiblingsDiffer
              PROVE  \A i, j \in DOMAIN sent' :
                       sent'[i].name = sent'[j].name /\ sent'[i].type = sent'[j].type => i = j
  BY <1>1, SiblingsStay DEF DifferInv, LabelsDistinct
<1>. DEFINE ty == resp.type[v]
<1>7. \A j \in DOMAIN sent : ~(sent[j].name = nm /\ sent[j].type = ty)
  BY <1>1, <1>4, <1>5, <1>6, FreshLabels
<1>8. \A i, j \in DOMAIN sent : sent[i].name = sent[j].name /\ sent[i].type = sent[j].type => i = j
  BY DEF IInv, DifferInv, LabelsDistinct
<1>. HIDE DEF v, nm, ty
<1>9. sent'[n + 1].name = nm /\ sent'[n + 1].type = ty
  BY <1>3 DEF ty
<1>. QED
  BY <1>3, <1>7, <1>8, <1>9

-----------------------------------------------------------------------------
(* The other steps, and the invariant.                                      *)

LEMMA InitInv == Init => IInv
<1>. SUFFICES ASSUME Init PROVE IInv
  OBVIOUS
<1>. USE DEF Init
<1>1. TypeOK
  BY DEF TypeOK
<1>2. DOMAIN sent = {} /\ DOMAIN calls = {}
  OBVIOUS
<1>. QED
  BY <1>1, <1>2 DEF IInv, OnceInv, NamesInv, ValidInv, CoverInv, DifferInv, LabelsDistinct, Sent, Called

LEMMA PanicsInv ==
  ASSUME IInv, ParsePanics
  PROVE  IInv'
<1>1. /\ pc = "parse" /\ sent = <<>> /\ calls = <<>> /\ UNCHANGED <<resp, calls, pool, sent>>
      /\ pc' = "done" /\ result' = "panic"
  BY DEF ParsePanics, IInv, CoverInv
<1>2. TypeOK'
  BY <1>1 DEF IInv, TypeOK, Call
<1>3. DOMAIN sent' = {} /\ DOMAIN calls' = {}
  BY <1>1
<1>. QED
  BY <1>1, <1>2, <1>3 DEF IInv, OnceInv, NamesInv, ValidInv, CoverInv, DifferInv, LabelsDistinct, Sent, Called

LEMMA SendPoolInv ==
  ASSUME IInv, SendPool
  PROVE  IInv'
<1>. DEFINE c == [vdev |-> resp.root, prefix |-> <<>>]
<1>1. /\ pc = "parse" /\ sent = <<>> /\ UNCHANGED <<resp, sent, result>> /\ result = "none"
      /\ pc' = "walk" /\ calls' = <<c>> /\ resp \in Response
      /\ pool' = OneHot(PoolStates, PoolState) /\ resp.vdevs # {}
  BY DEF SendPool, IInv, CoverInv, TypeOK
<1>2. c \in Call(resp) /\ Call(resp)' = Call(resp)
  <2>1. <<>> \in Seq(Component)
    OBVIOUS
  <2>2. resp.root \in resp.vdevs
    BY <1>1, Formed
  <2>. QED
    BY <1>1, <2>1, <2>2 DEF Call
<1>3. calls' \in Seq(Call(resp))' /\ calls' # <<>> /\ DOMAIN calls' = {1} /\ calls'[1] = c
  <2>. HIDE DEF c
  <2>1. <<c>> \in Seq(Call(resp)) /\ <<c>> # <<>> /\ DOMAIN <<c>> = {1} /\ <<c>>[1] = c
    BY <1>2
  <2>. QED
    BY <1>1, <1>2, <2>1
<1>4. pool' \in [PoolStates -> {0, 1}]
  BY <1>1, OneHotHolds
<1>5. TypeOK'
  BY <1>1, <1>3, <1>4 DEF IInv, TypeOK
<1>6. DOMAIN sent' = {} /\ calls'[1].vdev = resp.root /\ calls'[1].prefix = <<>>
  BY <1>1, <1>3
<1>7. Sent' = {} /\ Called' = {resp.root}
  BY <1>3, <1>6 DEF Sent, Called
<1>8. OnceInv'
  BY <1>3, <1>6, <1>7 DEF OnceInv
<1>9. NamesInv'
  BY <1>1, <1>3, <1>6 DEF NamesInv, NamedBy
<1>10. ValidInv'
  BY <1>1, <1>3, <1>6 DEF ValidInv
<1>11. CoverInv'
  BY <1>1, <1>7 DEF CoverInv
<1>12. DifferInv'
  BY <1>6 DEF DifferInv, LabelsDistinct
<1>. QED
  BY <1>5, <1>8, <1>9, <1>10, <1>11, <1>12 DEF IInv

LEMMA SendPoolPanicsInv ==
  ASSUME IInv, SendPoolPanics
  PROVE  IInv'
<1>1. /\ pc = "parse" /\ sent = <<>> /\ calls = <<>> /\ UNCHANGED <<resp, calls, sent>>
      /\ pc' = "done" /\ result' = "panic" /\ pool' = OneHot(PoolStates, PoolState)
  BY DEF SendPoolPanics, IInv, CoverInv
<1>2. pool' \in [PoolStates -> {0, 1}]
  BY <1>1, OneHotHolds
<1>3. TypeOK'
  BY <1>1, <1>2 DEF IInv, TypeOK, Call
<1>4. DOMAIN sent' = {} /\ DOMAIN calls' = {}
  BY <1>1
<1>. QED
  BY <1>1, <1>3, <1>4 DEF IInv, OnceInv, NamesInv, ValidInv, CoverInv, DifferInv, LabelsDistinct, Sent, Called

LEMMA HandleVdevInv ==
  ASSUME IInv, HandleVdev
  PROVE  IInv'
BY HandleVdevType, HandleVdevOnce, HandleVdevNames, HandleVdevValid, HandleVdevCover,
   HandleVdevDiffer DEF IInv

\* What was accepted before is accepted again, so the name refused is the vdev's own.
LEMMA RefusedName ==
  ASSUME IInv, calls # <<>>, ~Accepted(Head(calls))
  PROVE  OwnName(calls[1].vdev) \notin ValidUTF8
<1>. DEFINE p == calls[1].prefix
            a == OwnName(calls[1].vdev)
<1>1. /\ Head(calls) = calls[1] /\ 1 \in DOMAIN calls
      /\ calls[1].vdev \in resp.vdevs /\ p \in Seq(Component)
  BY HeadCall DEF IInv
<1>2. a \in Component
  BY <1>1, OwnNameType DEF IInv, TypeOK
<1>3. \A k \in DOMAIN p : p[k] \in ValidUTF8
  BY <1>1 DEF IInv, ValidInv
<1>4. \E i \in DOMAIN Append(p, a) : Append(p, a)[i] \notin ValidUTF8
  BY <1>1 DEF Accepted, VdevName
<1>. HIDE DEF p, a
<1>5. PICK i \in DOMAIN Append(p, a) : Append(p, a)[i] \notin ValidUTF8
  BY <1>4
<1>6. /\ Len(p) \in Nat /\ DOMAIN p = 1 .. Len(p)
      /\ DOMAIN Append(p, a) = 1 .. (Len(p) + 1)
      /\ \A k \in 1 .. Len(p) : Append(p, a)[k] = p[k]
      /\ Append(p, a)[Len(p) + 1] = a
  BY <1>1, <1>2, AppendProperties, LenProperties
<1>7. a \notin ValidUTF8
  BY <1>3, <1>5, <1>6
<1>. QED
  BY <1>7 DEF a

LEMMA HandleVdevFailsInv ==
  ASSUME IInv, HandleVdevFails
  PROVE  IInv'
<1>1. /\ calls # <<>> /\ calls' = <<>> /\ UNCHANGED <<resp, pool, sent>>
      /\ pc' = "done" /\ result' = "error"
  BY DEF HandleVdevFails
<1>2. TypeOK'
  BY <1>1 DEF IInv, TypeOK, Call
<1>3. DOMAIN calls' = {} /\ Called' = {} /\ Sent' = Sent
  BY <1>1 DEF Called, Sent
<1>4. OnceInv'
  BY <1>1, <1>3 DEF IInv, OnceInv
<1>5. NamesInv'
  BY <1>1, <1>3 DEF IInv, NamesInv
<1>6. ValidInv'
  <2>. DEFINE v == calls[1].vdev
  <2>1. v \in resp.vdevs /\ 1 \in DOMAIN calls
    BY <1>1, HeadCall DEF IInv
  <2>2. v \notin Sent
    BY <2>1 DEF IInv, OnceInv, Called
  <2>3. OwnName(v) \notin ValidUTF8
    BY <1>1, RefusedName DEF HandleVdevFails
  <2>. QED
    BY <1>1, <1>3, <2>1, <2>2, <2>3 DEF ValidInv, OwnName
<1>7. CoverInv'
  BY <1>1 DEF CoverInv
<1>8. DifferInv'
  BY <1>1, SiblingsStay DEF IInv, DifferInv, LabelsDistinct
<1>. QED
  BY <1>2, <1>4, <1>5, <1>6, <1>7, <1>8 DEF IInv

LEMMA ReturnsInv ==
  ASSUME IInv, HandleVdevReturns
  PROVE  IInv'
<1>1. /\ pc = "walk" /\ calls = <<>> /\ UNCHANGED <<resp, calls, pool, sent>>
      /\ pc' = "done" /\ result' = "ok"
  BY DEF HandleVdevReturns
<1>2. TypeOK'
  BY <1>1 DEF IInv, TypeOK, Call
<1>3. Called' = Called /\ Sent' = Sent
  BY <1>1 DEF Called, Sent
<1>4. OnceInv'
  BY <1>1, <1>3 DEF IInv, OnceInv
<1>5. NamesInv'
  BY <1>1 DEF IInv, NamesInv
<1>6. ValidInv'
  BY <1>1 DEF IInv, ValidInv
<1>7. CoverInv'
  BY <1>1, <1>3 DEF IInv, CoverInv
<1>8. DifferInv'
  BY <1>1, SiblingsStay DEF IInv, DifferInv, LabelsDistinct
<1>. QED
  BY <1>2, <1>4, <1>5, <1>6, <1>7, <1>8 DEF IInv

LEMMA StutterInv ==
  ASSUME IInv, UNCHANGED vars
  PROVE  IInv'
<1>1. UNCHANGED <<resp, pc, calls, pool, sent, result>>
  BY DEF vars
<1>2. TypeOK'
  BY <1>1 DEF IInv, TypeOK, Call
<1>3. Called' = Called /\ Sent' = Sent
  BY <1>1 DEF Called, Sent
<1>4. OnceInv' /\ NamesInv' /\ CoverInv'
  BY <1>1, <1>3 DEF IInv, OnceInv, NamesInv, CoverInv
<1>5. ValidInv'
  BY <1>1, <1>3 DEF IInv, ValidInv, OwnName
<1>6. DifferInv'
  BY <1>1, SiblingsStay DEF IInv, DifferInv, LabelsDistinct
<1>. QED
  BY <1>2, <1>4, <1>5, <1>6 DEF IInv

LEMMA StepInv == IInv /\ [Next]_vars => IInv'
BY PanicsInv, SendPoolInv, SendPoolPanicsInv, HandleVdevInv, HandleVdevFailsInv, ReturnsInv, StutterInv DEF Next

LEMMA AlwaysInv == Spec => []IInv
BY InitInv, StepInv, PTL DEF Spec

-----------------------------------------------------------------------------
(***************************************************************************)
(* The walk over the vdevs of any pool keeps its types: calls are pending  *)
(* only during the walk, and an error or a panic leaves none behind        *)
(* (main.go:135-216).                                                      *)
(***************************************************************************)
THEOREM Typing == Spec => []TypeOK
<1>1. IInv => TypeOK
  BY DEF IInv
<1>. QED
  BY <1>1, AlwaysInv, PTL

LEMMA AllReached ==
  ASSUME IInv, result = "ok"
  PROVE  Sent = resp.vdevs
<1>1. resp \in Response /\ calls = <<>>
  BY DEF IInv, TypeOK, CoverInv
<1>2. Called = {} /\ Sent \subseteq resp.vdevs
  BY <1>1, SentType DEF Called, Sent
<1>. DEFINE S == resp.vdevs \ Sent
<1>3. resp.root \in Sent
  BY <1>2 DEF IInv, CoverInv
<1>4. ASSUME S # {}
      PROVE  FALSE
  <2>1. S \in SUBSET (resp.vdevs \ {resp.root})
    BY <1>3
  <2>. HIDE DEF S
  <2>2. PICK c \in S : \E v \in Parents(resp, c) : v \notin S
    BY <1>1, <1>4, <2>1, Reachable
  <2>3. PICK v \in Parents(resp, c) : v \notin S
    BY <2>2
  <2>4. v \in Sent /\ c \in resp.vdevs /\ c \notin Sent
    BY <2>2, <2>3 DEF S, Parents
  <2>. QED
    BY <1>2, <2>3, <2>4 DEF IInv, CoverInv
<1>. QED
  BY <1>2, <1>4

(***************************************************************************)
(* Whatever the tree, a walk that returns nil has sent every vdev exactly  *)
(* once, and one that returns an error has met a name that the metrics     *)
(* library refuses (main.go:159-162, 208-213).                             *)
(***************************************************************************)
THEOREM AllSentOnce == Spec => []EveryVdevOnce
<1>1. ASSUME IInv PROVE EveryVdevOnce
  <2>1. \A i, j \in DOMAIN sent : sent[i].vdev = sent[j].vdev => i = j
    BY <1>1 DEF IInv, OnceInv
  <2>2. result = "ok" => \A v \in resp.vdevs : \E i \in DOMAIN sent : sent[i].vdev = v
    BY <1>1, AllReached DEF Sent
  <2>3. result = "error" => \E v \in resp.vdevs :
          ~(\E i \in DOMAIN sent : sent[i].vdev = v) /\ OwnName(v) \notin ValidUTF8
    BY <1>1 DEF IInv, ValidInv, Sent
  <2>. QED
    BY <2>1, <2>2, <2>3 DEF EveryVdevOnce
<1>. QED
  BY <1>1, AlwaysInv, PTL

\* Siblings with one name of their own were sent under one name.
LEMMA SiblingsShareLabels ==
  ASSUME IInv, result = "ok", LabelsDistinct
  PROVE  SiblingsDiffer
<1>. SUFFICES ASSUME NEW v \in resp.vdevs,
                     NEW i \in DOMAIN resp.children[v], NEW j \in DOMAIN resp.children[v],
                     OwnName(resp.children[v][i]) = OwnName(resp.children[v][j]),
                     resp.type[resp.children[v][i]] = resp.type[resp.children[v][j]]
              PROVE  i = j
  BY DEF SiblingsDiffer
<1>. DEFINE a == resp.children[v][i]
            b == resp.children[v][j]
<1>1. resp \in Response /\ NameIn(resp, a) = NameIn(resp, b) /\ resp.type[a] = resp.type[b]
  BY OwnNameIn DEF IInv, TypeOK
<1>2. a \in resp.vdevs \ {resp.root} /\ b \in resp.vdevs \ {resp.root}
  <2>1. resp.children[v] \in Seq(resp.vdevs \ {resp.root})
    BY <1>1, Formed
  <2>. QED
    BY <2>1, LenProperties
<1>3. v \in Parents(resp, a) /\ v \in Parents(resp, b)
  BY DEF Parents
<1>4. ASSUME a = b PROVE i = j
  BY <1>1, <1>4, OneParent
<1>. HIDE DEF a, b
<1>5. PICK x \in DOMAIN sent : sent[x].vdev = a
  BY <1>2, AllReached DEF Sent
<1>6. PICK y \in DOMAIN sent : sent[y].vdev = b
  BY <1>2, AllReached DEF Sent
<1>7. PICK p \in Seq(Component) : NamedBy(resp, sent, p, a) /\ sent[x].name = Append(p, NameIn(resp, a))
  BY <1>5 DEF IInv, NamesInv
<1>8. PICK q \in Seq(Component) : NamedBy(resp, sent, q, b) /\ sent[y].name = Append(q, NameIn(resp, b))
  BY <1>6 DEF IInv, NamesInv
<1>9. PICK k \in DOMAIN sent : sent[k].vdev \in Parents(resp, a) /\ p = sent[k].name
  BY <1>2, <1>7 DEF NamedBy
<1>10. PICK l \in DOMAIN sent : sent[l].vdev \in Parents(resp, b) /\ q = sent[l].name
  BY <1>2, <1>8 DEF NamedBy
<1>11. sent[k].vdev = v /\ sent[l].vdev = v
  BY <1>1, <1>3, <1>9, <1>10, SameParent
<1>12. k = l
  BY <1>11 DEF IInv, OnceInv
<1>13. sent[x].name = sent[y].name
  BY <1>1, <1>7, <1>8, <1>9, <1>10, <1>12
<1>14. sent[x].type = sent[y].type
  BY <1>1, <1>5, <1>6 DEF IInv, NamesInv
<1>15. x = y
  BY <1>13, <1>14 DEF LabelsDistinct
<1>. QED
  BY <1>4, <1>5, <1>6, <1>15

(***************************************************************************)
(* Whatever the tree and the paths in it, two vdevs of a pool have the     *)
(* same labels exactly if two siblings have the same name of their own and *)
(* the same type (main.go:136-149, 156, 208-209).                          *)
(***************************************************************************)
THEOREM LabelsCollideWithSiblings == Spec => []LabelsDiffer
<1>1. IInv => LabelsDiffer
  BY SiblingsShareLabels DEF IInv, DifferInv, LabelsDiffer
<1>. QED
  BY <1>1, AlwaysInv, PTL

\* The gauges of each vdev show its state.
LEMMA HandleVdevStates ==
  ASSUME IInv, OneStateHolds, HandleVdev
  PROVE  OneStateHolds'
<1>. DEFINE v == calls[1].vdev
            oh == OneHot(VDevStates, VdevState(v))
<1>1. TypeOK /\ v \in resp.vdevs /\ resp \in Response /\ pool' = pool /\ resp' = resp
  BY HeadCall DEF HandleVdev, IInv, TypeOK
<1>2. PICK n, m, k \in Nat : Moves(v, n, m, k)
  BY <1>1, HandleVdevFacts
<1>3. /\ DOMAIN sent = 1 .. n
      /\ DOMAIN sent' = 1 .. (n + 1)
      /\ \A i \in 1 .. n : sent'[i] = sent[i]
      /\ sent'[n + 1].vdev = v
      /\ sent'[n + 1].states = oh
  BY <1>2 DEF Moves, Metrics
<1>4. Shown(VDevStates, oh, resp.stats[v] # Missing)
  BY <1>1, VdevShown
<1>. HIDE DEF v, oh
<1>5. ASSUME NEW i \in DOMAIN sent'
      PROVE  Shown(VDevStates, sent'[i].states, resp.stats[sent'[i].vdev] # Missing)
  <2>1. CASE i \in 1 .. n
    <3>1. Shown(VDevStates, sent[i].states, resp.stats[sent[i].vdev] # Missing)
      BY <1>3, <2>1 DEF OneStateHolds
    <3>. QED
      BY <1>3, <2>1, <3>1
  <2>2. CASE i = n + 1
    BY <1>3, <1>4, <2>2
  <2>. QED
    BY <1>3, <2>1, <2>2
<1>6. pool' # <<>> => Shown(PoolStates, pool', resp'.state # Missing)
  BY <1>1 DEF OneStateHolds
<1>. QED
  BY <1>1, <1>5, <1>6 DEF OneStateHolds, Shown

LEMMA SendPoolStates ==
  ASSUME IInv, OneStateHolds, SendPool \/ SendPoolPanics
  PROVE  OneStateHolds'
<1>1. pool' = OneHot(PoolStates, PoolState) /\ UNCHANGED <<resp, sent>>
  BY DEF SendPool, SendPoolPanics
<1>2. Shown(PoolStates, OneHot(PoolStates, PoolState), resp.state # Missing)
  BY PoolShown DEF IInv, TypeOK
<1>. DEFINE oh == OneHot(PoolStates, PoolState)
<1>. HIDE DEF oh
<1>3. pool' = oh /\ Shown(PoolStates, oh, resp.state # Missing)
  BY <1>1, <1>2 DEF oh
<1>. QED
  BY <1>1, <1>3 DEF OneStateHolds, Shown

(***************************************************************************)
(* For all numbers a kernel may report, exactly one state of the pool and  *)
(* of each vdev is 1, and none if the pair with it is not there            *)
(* (main.go:151-163, 617-629, util.go).                                    *)
(***************************************************************************)
THEOREM ExactlyOneState == Spec => []OneStateHolds
<1>1. Init => OneStateHolds
  BY DEF Init, OneStateHolds
<1>2. IInv /\ OneStateHolds /\ [Next]_vars => OneStateHolds'
  <2>. SUFFICES ASSUME IInv, OneStateHolds, [Next]_vars
                PROVE  OneStateHolds'
    OBVIOUS
  <2>1. CASE UNCHANGED <<resp, pool, sent>>
    BY <2>1 DEF OneStateHolds, Shown
  <2>. QED
    BY <2>1, HandleVdevStates, SendPoolStates
    DEF Next, vars, ParsePanics, HandleVdevFails, HandleVdevReturns
<1>. QED
  BY <1>1, <1>2, AlwaysInv, PTL DEF Spec
=============================================================================
