--------------------------- MODULE CollectorProofs ---------------------------
(***************************************************************************)
(* Proofs about Collector: for every tree of names, every order of the     *)
(* directories' entries and every sequence of administrative commands.     *)
(***************************************************************************)
EXTENDS Collector, SequenceTheorems, TLAPS

(***************************************************************************)
(* Retrying ZFS_IOC_DATASET_LIST_NEXT is harmless: the kernel leaves Cmd   *)
(* alone when it returns ENOMEM, or it never returns it.                   *)
(***************************************************************************)
RetrySafe == ~CmdWrittenOnENOMEM \/ \A d \in Dataset : PropsSize[d] <= RespSize

Top == stack[Len(stack)]
InPools == pc \in {"pool", "stats", "list", "kstat"}

\* What exists has a parent.
ParentsLive == \A d \in Dataset : ns[d] # None => ns[Parent[d]] # None

\* Names that stayed what they were exist, and so did their parents.
StableInv ==
  /\ stable \subseteq Live
  /\ \A d \in stable \cap Dataset : Parent[d] \in stable

\* cmd is the request of the innermost level, which listed a child of its own.
WalkInv ==
  /\ resp >= RespSize
  /\ pc = "list" => cmd = Request(Top)
  /\ pc = "kstat" =>
       /\ Parent[listed.name] = Top.prefix
       /\ Top.prefix \in stable =>
            /\ listed.name \notin Reported
            /\ Position(Top.prefix, listed.name) = Top.cookie

\* Nothing a level has reported lies ahead of its cursor, and no directory
\* that stayed in place has two levels.
OnceInv ==
  /\ pc = "configs" => out = <<>>
  /\ todo \cap Reported = {}
  /\ pc = "stats" => cmd.name \notin Reported \cup todo
  /\ \A d \in Reported \cap Dataset : Parent[d] \in Reported
  /\ \A i \in DOMAIN stack : stack[i].prefix \in Reported
  /\ \A i, j \in DOMAIN stack :
       i # j /\ stack[i].prefix = stack[j].prefix => stack[i].prefix \notin stable
  /\ \A i \in DOMAIN stack : \A d \in Reported \cap Dataset :
       Parent[d] = stack[i].prefix /\ Parent[d] \in stable =>
         Position(Parent[d], d) <= stack[i].cookie
  /\ ReportedOnce

\* Whatever stayed in place is reported, or is still ahead of somebody.
Ahead(d) ==
  \/ pc = "kstat" /\ listed.name = d
  \/ \E i \in DOMAIN stack :
       stack[i].prefix = Parent[d] /\ stack[i].cookie < Position(Parent[d], d)

CoverInv ==
  /\ InPools => \A p \in stable \cap Pool :
       p \in Reported \cup todo \/ (pc = "stats" /\ cmd.name = p)
  /\ InPools => \A d \in stable \cap Dataset :
       Parent[d] \in Reported => d \in Reported \/ Ahead(d)
  /\ CleanScrapeIsComplete

ScanInv ==
  TypeOK /\ ParentsLive /\ StableInv /\ WalkInv /\ OnceInv /\ CoverInv

-----------------------------------------------------------------------------
(* The levels as a sequence.                                                 *)

\* A level moves its cursor.
LEMMA SetCookie ==
  ASSUME NEW s \in Seq(Frame), s # <<>>, NEW c \in Nat
  PROVE  LET t == [s EXCEPT ![Len(s)].cookie = c]
         IN  /\ t \in Seq(Frame) /\ t # <<>> /\ Len(t) = Len(s)
             /\ DOMAIN t = 1 .. Len(s) /\ DOMAIN s = 1 .. Len(s) /\ Len(s) \in Nat /\ Len(s) >= 1
             /\ t[Len(s)] = [prefix |-> s[Len(s)].prefix, cookie |-> c]
             /\ \A i \in 1 .. Len(s) : i # Len(s) => t[i] = s[i]
<1>. DEFINE f == [prefix |-> s[Len(s)].prefix, cookie |-> c]
<1>1. Len(s) \in Nat /\ Len(s) >= 1 /\ Len(s) \in 1 .. Len(s)
  <2>1. Len(s) \in Nat \ {0}
    BY EmptySeq
  <2>. QED
    BY <2>1
<1>2. s \in [1 .. Len(s) -> Frame] /\ DOMAIN s = 1 .. Len(s)
  BY LenProperties
<1>3. s[Len(s)] \in Frame
  BY <1>1, <1>2
<1>4. f \in Frame
  BY <1>3 DEF Frame
<1>5. [s EXCEPT ![Len(s)].cookie = c] = [s EXCEPT ![Len(s)] = [s[Len(s)] EXCEPT !.cookie = c]]
  OBVIOUS
<1>6. [s[Len(s)] EXCEPT !.cookie = c] = f
  BY <1>3 DEF Frame
<1>. HIDE DEF f
<1>7. LET t == [s EXCEPT ![Len(s)] = f]
      IN  /\ t \in Seq(Frame) /\ Len(t) = Len(s)
          /\ \A i \in 1 .. Len(s) : t[i] = IF i = Len(s) THEN f ELSE s[i]
  BY <1>1, <1>4, ExceptSeq
<1>8. [s EXCEPT ![Len(s)] = f] # <<>>
  BY <1>1, <1>7
<1>9. DOMAIN [s EXCEPT ![Len(s)] = f] = 1 .. Len(s)
  BY <1>2
<1>. QED
  BY <1>1, <1>2, <1>5, <1>6, <1>7, <1>8, <1>9 DEF f

\* A level returns.
LEMMA Pop ==
  ASSUME NEW s \in Seq(Frame), s # <<>>
  PROVE  LET t == SubSeq(s, 1, Len(s) - 1)
         IN  /\ t \in Seq(Frame) /\ Len(t) = Len(s) - 1
             /\ DOMAIN t = 1 .. Len(s) - 1 /\ DOMAIN s = 1 .. Len(s) /\ Len(s) \in Nat /\ Len(s) >= 1
             /\ \A i \in 1 .. Len(s) - 1 : t[i] = s[i]
<1>1. Len(s) \in Nat /\ Len(s) >= 1 /\ s \in [1 .. Len(s) -> Frame]
  <2>1. Len(s) \in Nat \ {0}
    BY EmptySeq
  <2>. QED
    BY <2>1, LenProperties
<1>2. \A i \in 1 .. Len(s) - 1 : s[i] \in Frame
  BY <1>1
<1>. DEFINE t == SubSeq(s, 1, Len(s) - 1)
<1>3. /\ t \in Seq(Frame)
      /\ Len(t) = IF 1 <= Len(s) - 1 THEN Len(s) - 1 - 1 + 1 ELSE 0
      /\ \A i \in 1 .. Len(s) - 1 - 1 + 1 : t[i] = s[1 + i - 1]
  <2>1. 1 \in Int /\ Len(s) - 1 \in Int
    BY <1>1
  <2>. QED
    BY <1>2, <2>1, SubSeqProperties
<1>. DEFINE n == Len(s)
<1>. HIDE DEF t, n
<1>4. Len(t) = n - 1
  <2>1. n \in Nat /\ n >= 1 /\ Len(t) = IF 1 <= n - 1 THEN n - 1 - 1 + 1 ELSE 0
    BY <1>1, <1>3 DEF n
  <2>. QED
    BY <2>1
<1>5. DOMAIN t = 1 .. n - 1
  BY <1>3, <1>4, LenProperties
<1>6. \A i \in 1 .. n - 1 : t[i] = s[i]
  <2>1. n \in Nat /\ \A i \in 1 .. n - 1 - 1 + 1 : t[i] = s[1 + i - 1]
    BY <1>1, <1>3 DEF n
  <2>2. n - 1 - 1 + 1 = n - 1 /\ \A i \in 1 .. n - 1 : 1 + i - 1 = i
    BY <2>1
  <2>. QED
    BY <2>1, <2>2
<1>. QED
  BY <1>1, <1>3, <1>4, <1>5, <1>6 DEF t, n

\* A level calls the next one.
LEMMA Push ==
  ASSUME NEW s \in Seq(Frame), NEW f \in Frame
  PROVE  LET t == Append(s, f)
         IN  /\ t \in Seq(Frame) /\ t # <<>> /\ Len(t) = Len(s) + 1 /\ Len(s) \in Nat
             /\ DOMAIN t = 1 .. Len(s) + 1 /\ DOMAIN s = 1 .. Len(s)
             /\ t[Len(s) + 1] = f
             /\ \A i \in 1 .. Len(s) : t[i] = s[i]
BY AppendProperties, LenProperties

-----------------------------------------------------------------------------
(* Types.                                                                    *)

LEMMA PositionType ==
  ASSUME KernelTypeOK, NEW n \in Name, NEW d \in Dataset, ns[n] # None
  PROVE  Position(n, d) \in Nat /\ Position(n, d) > 0
<1>1. ns[n] \in Objset /\ Leaf[d] \in Component
  BY NameAssumption DEF KernelTypeOK
<1>2. Hash[ns[n]] \in [Component -> Nat \ {0}]
  BY <1>1, HashAssumption
<1>3. Hash[ns[n]][Leaf[d]] \in Nat \ {0}
  BY <1>1, <1>2
<1>. QED
  BY <1>3 DEF Position

LEMMA KernelInitType == KernelInit => KernelTypeOK
<1>. SUFFICES ASSUME KernelInit PROVE KernelTypeOK
  OBVIOUS
<1>1. \A n \in Name : InitNs[n] \in Objset \cup {None}
  BY InitAssumption, ObjsetAssumption DEF Objset
<1>2. ns \in [Name -> Objset \cup {None}]
  BY <1>1, InitAssumption DEF KernelInit
<1>3. mounted \subseteq Objset
  BY <1>1, NameAssumption DEF KernelInit, Name
<1>. QED
  BY <1>2, <1>3, InitAssumption DEF KernelInit, KernelTypeOK

\* What a rename does to the names.
LEMMA RenameFacts ==
  ASSUME KernelTypeOK, NEW d \in Dataset, NEW e \in Dataset, Rename(d, e)
  PROVE  \E S \in SUBSET (Live \cap Dataset) : \E to \in [S -> Dataset \ Live] :
           /\ IsSubtree(S, d)
           /\ Parent[e] \notin S /\ ns[Parent[e]] # None
           /\ to[d] = e
           /\ \A x \in S \ {d} : Parent[to[x]] = to[Parent[x]]
           /\ \A n \in Name : (\E x \in S : to[x] = n) => ns'[n] \in Objset
           /\ \A n \in S : ns'[n] = None
           /\ \A n \in Name : n \notin S /\ ~(\E x \in S : to[x] = n) => ns'[n] = ns[n]
           /\ ns' \in [Name -> Objset \cup {None}]
<1>0. PICK S \in SUBSET (Live \cap Dataset) :
        /\ IsSubtree(S, d)
        /\ Parent[e] \notin S /\ ns[Parent[e]] # None
        /\ \E to \in [S -> Dataset \ Live] :
             /\ to[d] = e
             /\ \A x \in S \ {d} : Parent[to[x]] = to[Parent[x]] /\ Leaf[to[x]] = Leaf[x]
             /\ ns' = [n \in Name |->
                         IF \E x \in S : to[x] = n THEN ns[CHOOSE x \in S : to[x] = n]
                         ELSE IF n \in S THEN None ELSE ns[n]]
  BY DEF Rename
<1>1. PICK to \in [S -> Dataset \ Live] :
        /\ to[d] = e
        /\ \A x \in S \ {d} : Parent[to[x]] = to[Parent[x]]
        /\ ns' = [n \in Name |->
                    IF \E x \in S : to[x] = n THEN ns[CHOOSE x \in S : to[x] = n]
                    ELSE IF n \in S THEN None ELSE ns[n]]
  BY <1>0
<1>2. ASSUME NEW n \in Name, \E x \in S : to[x] = n
      PROVE  ns'[n] \in Objset
  <2>1. (CHOOSE x \in S : to[x] = n) \in S
    BY <1>2
  <2>2. ns[CHOOSE x \in S : to[x] = n] \in Objset
    BY <2>1 DEF Live, KernelTypeOK
  <2>. QED
    BY <1>1, <1>2, <2>2
<1>3. \A n \in S : ns'[n] = None
  <2>1. \A n \in S : n \in Name /\ ~(\E x \in S : to[x] = n)
    BY <1>1 DEF Name
  <2>. QED
    BY <1>1, <2>1
<1>4. \A n \in Name : n \notin S /\ ~(\E x \in S : to[x] = n) => ns'[n] = ns[n]
  BY <1>1
<1>5. ns' \in [Name -> Objset \cup {None}]
  <2>1. \A n \in Name : ns'[n] \in Objset \cup {None}
    BY <1>2, <1>3, <1>4 DEF KernelTypeOK
  <2>2. ns' = [n \in Name |-> ns'[n]]
    BY <1>1
  <2>. QED
    BY <2>1, <2>2
<1>. WITNESS S \in SUBSET (Live \cap Dataset)
<1>. WITNESS to \in [S -> Dataset \ Live]
<1>. QED
  BY <1>0, <1>1, <1>2, <1>3, <1>4, <1>5

LEMMA KernelStepType ==
  ASSUME KernelTypeOK, KernelStep
  PROVE  KernelTypeOK'
<1>. USE DEF KernelTypeOK
<1>1. ASSUME NEW n \in Name, Create(n) PROVE KernelTypeOK'
  <2>1. lastObj + 1 \in Objset
    BY <1>1, ObjsetAssumption DEF Create, Objset
  <2>. QED
    BY <1>1, <2>1, ObjsetAssumption DEF Create, Objset
<1>2. ASSUME NEW d \in Dataset, Destroy(d) PROVE KernelTypeOK'
  BY <1>2 DEF Destroy
<1>3. ASSUME NEW d \in Dataset, Mount(d) PROVE KernelTypeOK'
  BY <1>3 DEF Mount, Name
<1>4. ASSUME NEW d \in Dataset, Unmount(d) PROVE KernelTypeOK'
  BY <1>4 DEF Unmount
<1>5. ASSUME NEW p \in Pool, ExportPool(p) PROVE KernelTypeOK'
  BY <1>5 DEF ExportPool
<1>6. ASSUME NEW d \in Dataset, NEW e \in Dataset, Rename(d, e) PROVE KernelTypeOK'
  <2>1. ns' \in [Name -> Objset \cup {None}]
    BY <1>6, RenameFacts
  <2>. QED
    BY <1>6, <2>1 DEF Rename
<1>. QED
  BY <1>1, <1>2, <1>3, <1>4, <1>5, <1>6 DEF KernelStep

LEMMA InitType == Init => TypeOK
BY KernelInitType, SizeAssumption DEF Init, TypeOK, NoConfigs, NoCmd, NoListed, Name

LEMMA ReturnType ==
  ASSUME TypeOK, NEW res \in {"ok", "errno", "decode"}, Return(res),
         UNCHANGED <<kernelVars, stable, steady>>,
         out' \in Seq(PoolMetrics \cup DatasetMetrics)
  PROVE  TypeOK'
BY SizeAssumption
DEF TypeOK, Return, KernelTypeOK, kernelVars, NoConfigs, NoCmd, NoListed

LEMMA CollectStepType ==
  ASSUME TypeOK, Collect \/ CollectStep
  PROVE  TypeOK'
<1>1. CASE Collect
  BY <1>1 DEF Collect, TypeOK, KernelTypeOK, kernelVars, Live
<1>2. CASE PoolConfigs
  BY <1>2, SizeAssumption DEF PoolConfigs, TypeOK, KernelTypeOK, kernelVars, LivePools
<1>3. CASE GrowConfigs
  <2>1. LivePools \in SUBSET Pool
    BY DEF LivePools
  <2>2. ConfigsSize[LivePools] \in Nat \ {0}
    BY <1>3, <2>1, SizeAssumption DEF GrowConfigs, Fits, TypeOK
  <2>. QED
    BY <1>3, <2>2 DEF GrowConfigs, RequiredLength, TypeOK, KernelTypeOK, kernelVars
<1>4. CASE NextPool
  BY <1>4, SizeAssumption DEF NextPool, TypeOK, KernelTypeOK, kernelVars, Name
<1>5. CASE LastPool
  BY <1>5, ReturnType DEF LastPool, TypeOK
<1>6. CASE PoolStats
  <2>. DEFINE f == [prefix |-> cmd.name, cookie |-> 0]
  <2>1. cmd.name \in Pool /\ out \in Seq(PoolMetrics \cup DatasetMetrics)
    BY <1>6 DEF PoolStats, TypeOK
  <2>2. f \in Frame /\ [name |-> cmd.name] \in PoolMetrics
    BY <2>1 DEF Frame, PoolMetrics, Name
  <2>3. Append(out, [name |-> cmd.name]) \in Seq(PoolMetrics \cup DatasetMetrics)
    BY <2>1, <2>2
  <2>4. Request(f) \in [name : Name \cup {None}, cookie : Nat] /\ Request(f).name \in Name
    BY <2>1 DEF Request, Name
  <2>5. <<f>> \in Seq(Frame) /\ <<f>> # <<>>
    BY <2>2
  <2>6. stack' = <<f>> /\ cmd' = Request(f) /\ out' = Append(out, [name |-> cmd.name])
    BY <1>6 DEF PoolStats
  <2>. HIDE DEF f
  <2>. QED
    BY <1>6, <2>3, <2>4, <2>5, <2>6 DEF PoolStats, TypeOK, KernelTypeOK, kernelVars
<1>7. CASE GrowStats
  <2>1. StatsSize[cmd.name] \in Nat \ {0}
    BY <1>7, SizeAssumption DEF GrowStats, Fits, TypeOK
  <2>. QED
    BY <1>7, <2>1 DEF GrowStats, RequiredLength, TypeOK, KernelTypeOK, kernelVars
<1>8. CASE PoolStatsFails
  BY <1>8, ReturnType DEF PoolStatsFails, TypeOK
<1>9. CASE VdevExportFails
  <2>1. cmd.name \in Pool /\ out \in Seq(PoolMetrics \cup DatasetMetrics)
    BY <1>9 DEF VdevExportFails, TypeOK
  <2>2. [name |-> cmd.name] \in PoolMetrics
    BY <2>1 DEF PoolMetrics
  <2>3. Append(out, [name |-> cmd.name]) \in Seq(PoolMetrics \cup DatasetMetrics)
    BY <2>1, <2>2
  <2>. QED
    BY <1>9, <2>3, ReturnType DEF VdevExportFails
<1>10. CASE ListNext
  <2>1. PICK d \in Dataset :
          /\ IsNextEntry(cmd.name, cmd.cookie, d)
          /\ cmd' = [name |-> d, cookie |-> Position(cmd.name, d)]
          /\ stack' = [stack EXCEPT ![Len(stack)].cookie = cmd'.cookie]
          /\ listed' = [name |-> d, objset |-> ns[d]]
    BY <1>10 DEF ListNext
  <2>2. cmd.name \in Name /\ stack # <<>> /\ stack \in Seq(Frame)
    BY <1>10 DEF ListNext, TypeOK
  <2>3. ns[cmd.name] # None /\ ns[d] # None
    BY <2>1 DEF IsNextEntry, Remaining
  <2>4. Position(cmd.name, d) \in Nat
    BY <2>2, <2>3, PositionType DEF TypeOK
  <2>5. listed' \in Listed
    BY <2>1, <2>3 DEF Listed, TypeOK, KernelTypeOK, Name
  <2>6. stack' \in Seq(Frame) /\ stack' # <<>>
    BY <2>1, <2>2, <2>4, SetCookie
  <2>7. cmd' \in [name : Name \cup {None}, cookie : Nat]
    BY <2>1, <2>4 DEF Name
  <2>. QED
    BY <1>10, <2>5, <2>6, <2>7 DEF ListNext, TypeOK, KernelTypeOK, kernelVars
<1>11. CASE GrowProps
  <2>1. PICK d \in Dataset :
          /\ IsNextEntry(cmd.name, cmd.cookie, d)
          /\ ~Fits(PropsSize[d], resp)
          /\ resp' = PropsSize[d]
          /\ cmd' = AfterENOMEM(d)
    BY <1>11 DEF GrowProps, RequiredLength
  <2>2. cmd.name \in Name /\ cmd \in [name : Name \cup {None}, cookie : Nat]
    BY <1>11 DEF GrowProps, TypeOK
  <2>3. ns[cmd.name] # None
    BY <2>1 DEF IsNextEntry, Remaining
  <2>4. Position(cmd.name, d) \in Nat
    BY <2>2, <2>3, PositionType DEF TypeOK
  <2>5. cmd' \in [name : Name \cup {None}, cookie : Nat] /\ cmd'.name \in Name
    BY <2>1, <2>2, <2>4 DEF AfterENOMEM, Name
  <2>6. resp' \in Nat \ {0}
    BY <2>1, SizeAssumption DEF Fits, TypeOK
  <2>. QED
    BY <1>11, <2>5, <2>6 DEF GrowProps, TypeOK, KernelTypeOK, kernelVars
<1>12. CASE PropsFail
  BY <1>12, ReturnType DEF PropsFail, TypeOK
<1>13. CASE ListEnd
  <2>1. stack \in Seq(Frame) /\ stack # <<>> /\ Len(stack) \in Nat /\ Len(stack) >= 1
    <3>1. stack \in Seq(Frame) /\ stack # <<>>
      BY <1>13 DEF ListEnd, TypeOK
    <3>. QED
      BY <3>1, Pop
  <2>2. stack' \in Seq(Frame) /\ Len(stack') = Len(stack) - 1
    BY <1>13, <2>1, Pop DEF ListEnd
  <2>3. CASE Len(stack) = 1
    <3>1. stack' = <<>>
      BY <2>2, <2>3, EmptySeq
    <3>. QED
      BY <1>13, <2>3, <3>1, SizeAssumption
      DEF ListEnd, TypeOK, KernelTypeOK, kernelVars, NoCmd
  <2>4. CASE Len(stack) # 1
    <3>1. stack' # <<>>
      BY <2>1, <2>2, <2>4
    <3>2. stack[Len(stack) - 1] \in Frame
      <4>. DEFINE n == Len(stack)
      <4>0. n \in Nat /\ n >= 1 /\ n # 1
        BY <2>1, <2>4
      <4>. HIDE DEF n
      <4>1. n - 1 \in 1 .. n
        BY <4>0
      <4>. USE DEF n
      <4>. QED
        BY <2>1, <4>1, ElementOfSeq
    <3>3. cmd' \in [name : Name \cup {None}, cookie : Nat] /\ cmd'.name \in Name
      BY <1>13, <2>4, <3>2 DEF ListEnd, Request, Frame
    <3>. QED
      BY <1>13, <2>2, <2>4, <3>1, <3>3 DEF ListEnd, TypeOK, KernelTypeOK, kernelVars
  <2>. QED
    BY <2>3, <2>4
<1>14. CASE HandleDataset
  <2>. DEFINE f == [prefix |-> listed.name, cookie |-> 0]
              m == [name |-> listed.name, objset |-> listed.objset,
                    kstat |-> KStat(listed.objset)]
  <2>1. listed \in Listed /\ out \in Seq(PoolMetrics \cup DatasetMetrics) /\ stack \in Seq(Frame)
    BY <1>14 DEF HandleDataset, TypeOK
  <2>2. f \in Frame /\ m \in DatasetMetrics
    BY <2>1 DEF Frame, DatasetMetrics, Listed, Name, KStat
  <2>3. Request(f) \in [name : Name \cup {None}, cookie : Nat] /\ Request(f).name \in Name
    BY <2>1 DEF Request, Name, Listed
  <2>4. out' = Append(out, m) /\ stack' = Append(stack, f) /\ cmd' = Request(f)
    BY <1>14 DEF HandleDataset
  <2>. HIDE DEF f, m
  <2>5. out' \in Seq(PoolMetrics \cup DatasetMetrics)
    BY <2>1, <2>2, <2>4
  <2>6. stack' \in Seq(Frame) /\ stack' # <<>>
    BY <2>1, <2>2, <2>4
  <2>. QED
    BY <1>14, <2>3, <2>4, <2>5, <2>6 DEF HandleDataset, TypeOK, KernelTypeOK, kernelVars
<1>15. CASE OtherError
  BY <1>15, ReturnType DEF OtherError, TypeOK
<1>. QED
  BY <1>1, <1>2, <1>3, <1>4, <1>5, <1>6, <1>7, <1>8, <1>9, <1>10, <1>11, <1>12, <1>13,
     <1>14, <1>15 DEF CollectStep, Progress

LEMMA NextType == TypeOK /\ [Next]_vars => TypeOK'
<1>. SUFFICES ASSUME TypeOK, [Next]_vars PROVE TypeOK'
  OBVIOUS
<1>1. CASE Collect \/ CollectStep
  BY <1>1, CollectStepType
<1>2. CASE Administer
  <2>1. KernelTypeOK'
    BY <1>2, KernelStepType DEF Administer, TypeOK
  <2>. QED
    BY <1>2, <2>1 DEF Administer, TypeOK, collectVars
<1>3. CASE UNCHANGED vars
  BY <1>3 DEF vars, kernelVars, collectVars, TypeOK, KernelTypeOK
<1>. QED
  BY <1>1, <1>2, <1>3 DEF Next

(***************************************************************************)
(* Every variable of the collector and of the namespace keeps its type,    *)
(* and the levels of findDatasetsRecursive exist exactly while a pool's    *)
(* datasets are listed.                                                    *)
(***************************************************************************)
THEOREM Typing == Spec => []TypeOK
BY InitType, NextType, PTL DEF Spec

-----------------------------------------------------------------------------
(* The namespace changes under the scan.                                     *)

LEMMA SubtreeFacts ==
  ASSUME NEW S, NEW d \in Dataset, IsSubtree(S, d), NEW x \in Dataset, ns[x] # None
  PROVE  /\ Parent[x] \in S => x \in S
         /\ x \in S /\ x # d => Parent[x] \in S
BY DEF IsSubtree, Live, Name

\* A dataset that a step leaves alone has a parent that the step leaves alone.
LEMMA ParentUnchanged ==
  ASSUME KernelTypeOK, KernelStep,
         NEW d \in Dataset, ns[d] # None, ns[Parent[d]] # None, ns'[d] = ns[d]
  PROVE  ns'[Parent[d]] = ns[Parent[d]]
<1>0. Parent[d] \in Name /\ d \in Name /\ PoolOf[d] = PoolOf[Parent[d]]
  BY NameAssumption DEF Name
<1>1. ASSUME NEW n \in Name, Create(n) PROVE ns'[Parent[d]] = ns[Parent[d]]
  BY <1>0, <1>1 DEF Create, KernelTypeOK
<1>2. ASSUME NEW e \in Dataset, Destroy(e) PROVE ns'[Parent[d]] = ns[Parent[d]]
  BY <1>0, <1>2 DEF Destroy, KernelTypeOK
<1>3. ASSUME NEW e \in Dataset, Mount(e) \/ Unmount(e) PROVE ns'[Parent[d]] = ns[Parent[d]]
  BY <1>3 DEF Mount, Unmount
<1>4. ASSUME NEW p \in Pool, ExportPool(p) PROVE ns'[Parent[d]] = ns[Parent[d]]
  BY <1>0, <1>4 DEF ExportPool, KernelTypeOK
<1>5. ASSUME NEW x \in Dataset, NEW e \in Dataset, Rename(x, e)
      PROVE  ns'[Parent[d]] = ns[Parent[d]]
  <2>0. PICK S \in SUBSET (Live \cap Dataset) : \E to \in [S -> Dataset \ Live] :
          /\ IsSubtree(S, x)
          /\ \A n \in S : ns'[n] = None
          /\ \A n \in Name : n \notin S /\ ~(\E y \in S : to[y] = n) => ns'[n] = ns[n]
    BY <1>5, RenameFacts
  <2>1. PICK to \in [S -> Dataset \ Live] :
          /\ IsSubtree(S, x)
          /\ \A n \in S : ns'[n] = None
          /\ \A n \in Name : n \notin S /\ ~(\E y \in S : to[y] = n) => ns'[n] = ns[n]
    BY <2>0
  <2>2. Parent[d] \notin S
    BY <2>1, SubtreeFacts
  <2>3. ~(\E y \in S : to[y] = Parent[d])
    BY <1>0, <2>1 DEF Live
  <2>. QED
    BY <1>0, <2>1, <2>2, <2>3
<1>. QED
  BY <1>1, <1>2, <1>3, <1>4, <1>5 DEF KernelStep

LEMMA KernelParents ==
  ASSUME KernelTypeOK, ParentsLive, KernelStep
  PROVE  ParentsLive'
<1>. SUFFICES ASSUME NEW d \in Dataset, ns'[d] # None PROVE ns'[Parent[d]] # None
  BY DEF ParentsLive
<1>0. Parent[d] \in Name /\ d \in Name /\ PoolOf[d] = PoolOf[Parent[d]]
  BY NameAssumption DEF Name
<1>1. ASSUME NEW n \in Name, Create(n) PROVE ns'[Parent[d]] # None
  <2>1. lastObj + 1 # None
    BY <1>1, ObjsetAssumption DEF Create, Objset, KernelTypeOK
  <2>. QED
    BY <1>0, <1>1, <2>1 DEF Create, KernelTypeOK, ParentsLive
<1>2. ASSUME NEW e \in Dataset, Destroy(e) PROVE ns'[Parent[d]] # None
  BY <1>0, <1>2 DEF Destroy, KernelTypeOK, ParentsLive
<1>3. ASSUME NEW e \in Dataset, Mount(e) \/ Unmount(e) PROVE ns'[Parent[d]] # None
  BY <1>3 DEF Mount, Unmount, ParentsLive
<1>4. ASSUME NEW p \in Pool, ExportPool(p) PROVE ns'[Parent[d]] # None
  BY <1>0, <1>4 DEF ExportPool, KernelTypeOK, ParentsLive
<1>5. ASSUME NEW x \in Dataset, NEW e \in Dataset, Rename(x, e)
      PROVE  ns'[Parent[d]] # None
  <2>. DEFINE Moves(S, to) ==
         /\ IsSubtree(S, x)
         /\ Parent[e] \notin S /\ ns[Parent[e]] # None
         /\ to[x] = e
         /\ \A y \in S \ {x} : Parent[to[y]] = to[Parent[y]]
         /\ \A n \in Name : (\E y \in S : to[y] = n) => ns'[n] \in Objset
         /\ \A n \in S : ns'[n] = None
         /\ \A n \in Name : n \notin S /\ ~(\E y \in S : to[y] = n) => ns'[n] = ns[n]
  <2>0. PICK S \in SUBSET (Live \cap Dataset) : \E to \in [S -> Dataset \ Live] : Moves(S, to)
    BY <1>5, RenameFacts
  <2>1. PICK to \in [S -> Dataset \ Live] : Moves(S, to)
    BY <2>0
  <2>2. CASE \E y \in S : to[y] = d
    <3>1. PICK y \in S : to[y] = d
      BY <2>2
    <3>2. CASE y = x
      <4>1. Parent[d] = Parent[e]
        BY <2>1, <3>1, <3>2
      <4>2. Parent[d] \notin S /\ ns[Parent[d]] # None
        BY <2>1, <4>1
      <4>3. ~(\E z \in S : to[z] = Parent[d])
        BY <1>0, <4>2 DEF Live
      <4>. QED
        BY <1>0, <2>1, <4>2, <4>3
    <3>3. CASE y # x
      <4>1. Parent[y] \in S
        BY <2>1, <3>3, SubtreeFacts DEF Live
      <4>2. Parent[d] = to[Parent[y]]
        BY <2>1, <3>1, <3>3
      <4>3. ns'[Parent[d]] \in Objset
        BY <1>0, <2>1, <4>1, <4>2
      <4>. QED
        BY <4>3, ObjsetAssumption
    <3>. QED
      BY <3>2, <3>3
  <2>3. CASE ~(\E y \in S : to[y] = d)
    <3>1. d \notin S /\ ns'[d] = ns[d]
      BY <1>0, <2>1, <2>3
    <3>2. ns[d] # None /\ ns[Parent[d]] # None
      BY <3>1 DEF ParentsLive
    <3>3. ns'[Parent[d]] = ns[Parent[d]]
      BY <3>1, <3>2, ParentUnchanged
    <3>. QED
      BY <3>2, <3>3
  <2>. QED
    BY <2>2, <2>3
<1>. QED
  BY <1>1, <1>2, <1>3, <1>4, <1>5 DEF KernelStep

LEMMA AdministerScan ==
  ASSUME ScanInv, Administer
  PROVE  ScanInv'
<1>. USE DEF ScanInv
<1>1. TypeOK'
  BY NextType DEF Next
<1>2. ParentsLive'
  BY KernelParents DEF Administer, TypeOK
<1>3. stable' \subseteq stable /\ \A n \in stable' : ns'[n] = ns[n]
  BY DEF Administer
<1>4. StableInv'
  <2>1. stable' \subseteq Live'
    BY <1>3 DEF StableInv, Live
  <2>2. ASSUME NEW d \in stable' \cap Dataset PROVE Parent[d] \in stable'
    <3>1. Parent[d] \in stable /\ ns[d] # None /\ ns[Parent[d]] # None
      BY <1>3, <2>2 DEF StableInv, Live
    <3>2. ns'[Parent[d]] = ns[Parent[d]]
      BY <1>3, <2>2, <3>1, ParentUnchanged DEF Administer, TypeOK
    <3>. QED
      BY <3>1, <3>2 DEF Administer
  <2>. QED
    BY <2>1, <2>2 DEF StableInv
<1>5. /\ pc' = pc /\ todo' = todo /\ cmd' = cmd /\ resp' = resp /\ stack' = stack
      /\ listed' = listed /\ out' = out /\ result' = result
  BY DEF Administer, collectVars
<1>6. Reported' = Reported
  BY <1>5 DEF Reported
<1>7. \A n \in stable', d \in Dataset : Position(n, d)' = Position(n, d)
  BY <1>3 DEF Position
<1>8. WalkInv'
  <2>1. CASE pc = "kstat"
    <3>1. listed.name \in Dataset
      BY <2>1 DEF TypeOK, Listed
    <3>. QED
      BY <1>3, <1>5, <1>6, <1>7, <2>1, <3>1 DEF WalkInv, Top, Request
  <2>2. CASE pc # "kstat"
    BY <1>5, <2>2 DEF WalkInv, Top, Request
  <2>. QED
    BY <2>1, <2>2
<1>9. ReportedOnce'
  BY <1>3, <1>5 DEF OnceInv, ReportedOnce
<1>10. OnceInv'
  <2>1. ASSUME NEW i \in DOMAIN stack, NEW d \in Reported \cap Dataset,
               Parent[d] = stack[i].prefix, Parent[d] \in stable'
        PROVE  Position(Parent[d], d)' <= stack[i].cookie
    BY <1>3, <1>7, <2>1 DEF OnceInv
  <2>. QED
    BY <1>3, <1>5, <1>6, <1>9, <2>1 DEF OnceInv
<1>11. CoverInv'
  <2>1. ASSUME NEW d \in stable' \cap Dataset, Ahead(d) PROVE Ahead(d)'
    <3>1. Parent[d] \in stable'
      BY <1>4 DEF StableInv
    <3>2. Position(Parent[d], d)' = Position(Parent[d], d)
      BY <1>7, <3>1
    <3>. QED
      BY <1>5, <2>1, <3>2 DEF Ahead
  <2>2. CleanScrapeIsComplete'
    BY <1>3, <1>5, <1>6 DEF CoverInv, CleanScrapeIsComplete
  <2>. QED
    BY <1>3, <1>5, <1>6, <2>1, <2>2 DEF CoverInv, InPools
<1>. QED
  BY <1>1, <1>2, <1>4, <1>8, <1>10, <1>11

-----------------------------------------------------------------------------
(* The scan.                                                                 *)

\* What a step of the scan does not touch.
LEMMA Unmoved ==
  ASSUME ParentsLive, StableInv, UNCHANGED <<kernelVars, stable, steady>>
  PROVE  /\ ParentsLive' /\ StableInv'
         /\ ns' = ns /\ stable' = stable
         /\ \A n, d : Position(n, d)' = Position(n, d)
BY DEF ParentsLive, StableInv, Live, kernelVars, Position

\* Sending metrics for one more name.
LEMMA Send ==
  ASSUME NEW T, out \in Seq(T), NEW m \in T, out' = Append(out, m), stable' = stable,
         ReportedOnce,
         m.name \in Reported => m.name \in Dataset /\ Parent[m.name] \notin stable
  PROVE  /\ Reported' = Reported \cup {m.name}
         /\ ReportedOnce'
<1>. DEFINE n == Len(out)
<1>1. /\ n \in Nat
      /\ DOMAIN out = 1 .. n
      /\ DOMAIN out' = 1 .. (n + 1)
      /\ out'[n + 1] = m
      /\ \A i \in 1 .. n : out'[i] = out[i]
  BY AppendProperties, LenProperties
<1>. HIDE DEF n
<1>2. \A i \in 1 .. (n + 1) : i \in 1 .. n \/ i = n + 1
  BY <1>1
<1>3. Reported' = Reported \cup {m.name}
  <2>1. \A i \in DOMAIN out' : out'[i].name \in Reported \cup {m.name}
    BY <1>1, <1>2 DEF Reported
  <2>2. \A i \in 1 .. n : i \in 1 .. (n + 1)
    BY <1>1
  <2>3. \A x \in Reported : \E i \in DOMAIN out' : out'[i].name = x
    BY <1>1, <2>2 DEF Reported
  <2>4. n + 1 \in DOMAIN out' /\ out'[n + 1].name = m.name
    BY <1>1
  <2>. QED
    BY <2>1, <2>3, <2>4 DEF Reported
<1>4. ASSUME NEW i \in DOMAIN out', NEW j \in DOMAIN out',
             i < j, out'[i].name = out'[j].name
      PROVE  out'[i].name \in Dataset /\ Parent[out'[i].name] \notin stable
  <2>1. i \in 1 .. n
    BY <1>1, <1>4
  <2>2. CASE j \in 1 .. n
    BY <1>1, <1>4, <2>1, <2>2 DEF ReportedOnce
  <2>3. CASE j = n + 1
    <3>1. m.name \in Reported
      BY <1>1, <1>4, <2>1, <2>3 DEF Reported
    <3>. QED
      BY <1>1, <1>4, <2>1, <2>3, <3>1
  <2>. QED
    BY <1>1, <1>2, <2>2, <2>3
<1>. QED
  BY <1>3, <1>4 DEF ReportedOnce

\* An error: nothing is promised of the scrape.
LEMMA ReturnScan ==
  ASSUME ScanInv, TypeOK', NEW res \in {"errno", "decode"}, Return(res),
         UNCHANGED <<kernelVars, stable, steady>>,
         ReportedOnce',
         \A d \in Reported' \cap Dataset : Parent[d] \in Reported'
  PROVE  ScanInv'
<1>1. ParentsLive' /\ StableInv'
  BY Unmoved DEF ScanInv
<1>2. WalkInv'
  BY SizeAssumption DEF Return, WalkInv
<1>3. OnceInv'
  BY DEF Return, OnceInv
<1>4. CoverInv'
  BY DEF Return, CoverInv, InPools, CleanScrapeIsComplete
<1>. QED
  BY <1>1, <1>2, <1>3, <1>4 DEF ScanInv

LEMMA CollectScan ==
  ASSUME ScanInv, Collect
  PROVE  ScanInv'
<1>1. TypeOK'
  BY CollectStepType DEF ScanInv
<1>2. ParentsLive' /\ ns' = ns /\ stable' = Live
  BY DEF ScanInv, ParentsLive, Collect, kernelVars
<1>3. StableInv'
  BY <1>2, NameAssumption DEF ScanInv, ParentsLive, StableInv, Live
<1>4. out' = <<>> /\ stack' = <<>> /\ pc' = "configs" /\ result' = "none" /\ resp' = resp
  BY DEF Collect, ScanInv, TypeOK
<1>5. Reported' = {}
  BY <1>4 DEF Reported
<1>6. WalkInv'
  BY <1>4 DEF ScanInv, WalkInv
<1>7. OnceInv'
  BY <1>4, <1>5 DEF OnceInv, ReportedOnce
<1>8. CoverInv'
  BY <1>4 DEF CoverInv, InPools, CleanScrapeIsComplete
<1>. QED
  BY <1>1, <1>2, <1>3, <1>6, <1>7, <1>8 DEF ScanInv

LEMMA PoolConfigsScan ==
  ASSUME ScanInv, PoolConfigs
  PROVE  ScanInv'
<1>1. TypeOK'
  BY CollectStepType DEF ScanInv, CollectStep, Progress
<1>2. ParentsLive' /\ StableInv' /\ stable' = stable
  BY Unmoved DEF ScanInv, PoolConfigs
<1>3. /\ out' = <<>> /\ stack' = <<>> /\ pc' = "pool" /\ resp' = resp /\ todo' = LivePools
      /\ result' = result
  BY DEF PoolConfigs, ScanInv, TypeOK, OnceInv
<1>4. Reported' = {}
  BY <1>3 DEF Reported
<1>5. WalkInv'
  BY <1>3 DEF ScanInv, WalkInv
<1>6. OnceInv'
  BY <1>3, <1>4 DEF OnceInv, ReportedOnce
<1>7. stable \cap Pool \subseteq LivePools
  BY DEF ScanInv, StableInv, Live, LivePools
<1>8. CoverInv'
  BY <1>2, <1>3, <1>4, <1>7 DEF CoverInv, CleanScrapeIsComplete
<1>. QED
  BY <1>1, <1>2, <1>5, <1>6, <1>8 DEF ScanInv

LEMMA GrowScan ==
  ASSUME RetrySafe, ScanInv, GrowConfigs \/ GrowStats \/ GrowProps
  PROVE  ScanInv'
<1>1. TypeOK'
  BY CollectStepType DEF ScanInv, CollectStep, Progress
<1>2. UNCHANGED <<kernelVars, pc, todo, stack, listed, out, result, stable, steady>>
  BY DEF GrowConfigs, GrowStats, GrowProps
<1>3. /\ ParentsLive' /\ StableInv' /\ stable' = stable
      /\ \A n, d : Position(n, d)' = Position(n, d)
  BY <1>2, Unmoved DEF ScanInv
<1>4. resp' >= RespSize /\ cmd' = cmd
  <2>0. resp \in Nat /\ RespSize \in Nat /\ resp >= RespSize
    BY SizeAssumption DEF ScanInv, TypeOK, WalkInv
  <2>1. CASE GrowConfigs
    BY <2>0, <2>1 DEF GrowConfigs
  <2>2. CASE GrowStats
    <3>1. StatsSize[cmd.name] \in Nat
      BY <2>2, SizeAssumption DEF GrowStats, ScanInv, TypeOK
    <3>. QED
      BY <2>0, <2>2, <3>1 DEF GrowStats, Fits, RequiredLength
  <2>3. CASE GrowProps
    <3>1. PICK d \in Dataset : /\ ~Fits(PropsSize[d], resp)
                               /\ resp' = PropsSize[d]
                               /\ cmd' = AfterENOMEM(d)
      BY <2>3 DEF GrowProps, RequiredLength
    <3>2. PropsSize[d] \in Nat /\ PropsSize[d] > resp
      BY <2>0, <3>1, SizeAssumption DEF Fits
    <3>3. ~CmdWrittenOnENOMEM
      BY <2>0, <3>2 DEF RetrySafe
    <3>. QED
      BY <2>0, <3>1, <3>2, <3>3 DEF AfterENOMEM
  <2>. QED
    BY <2>1, <2>2, <2>3
<1>5. Reported' = Reported
  BY <1>2 DEF Reported
<1>6. WalkInv'
  BY <1>2, <1>3, <1>4, <1>5 DEF ScanInv, WalkInv, Top, Request
<1>7. OnceInv'
  BY <1>2, <1>3, <1>4, <1>5 DEF ScanInv, OnceInv, ReportedOnce
<1>8. CoverInv'
  BY <1>2, <1>3, <1>4, <1>5 DEF ScanInv, CoverInv, InPools, Ahead, CleanScrapeIsComplete
<1>. QED
  BY <1>1, <1>3, <1>6, <1>7, <1>8 DEF ScanInv

LEMMA NextPoolScan ==
  ASSUME ScanInv, NextPool
  PROVE  ScanInv'
<1>1. TypeOK'
  BY CollectStepType DEF ScanInv, CollectStep, Progress
<1>2. /\ ParentsLive' /\ StableInv' /\ stable' = stable
      /\ \A n, d : Position(n, d)' = Position(n, d)
  BY Unmoved DEF ScanInv, NextPool
<1>3. PICK p \in todo : todo' = todo \ {p} /\ cmd' = [name |-> p, cookie |-> 0]
  BY DEF NextPool
<1>4. /\ pc = "pool" /\ pc' = "stats" /\ resp' = RespSize /\ stack = <<>> /\ stack' = <<>>
      /\ out' = out /\ result' = result
  BY DEF NextPool, ScanInv, TypeOK
<1>5. Reported' = Reported
  BY <1>4 DEF Reported
<1>6. WalkInv'
  BY <1>4, SizeAssumption DEF WalkInv
<1>7. OnceInv'
  BY <1>2, <1>3, <1>4, <1>5 DEF ScanInv, OnceInv, ReportedOnce
<1>8. CoverInv'
  BY <1>2, <1>3, <1>4, <1>5 DEF ScanInv, CoverInv, InPools, Ahead, CleanScrapeIsComplete
<1>. QED
  BY <1>1, <1>2, <1>6, <1>7, <1>8 DEF ScanInv

\* No pool is left: what stayed in place was reported, from the pools down.
LEMMA LastPoolScan ==
  ASSUME ScanInv, LastPool
  PROVE  ScanInv'
<1>1. TypeOK'
  BY CollectStepType DEF ScanInv, CollectStep, Progress
<1>2. ParentsLive' /\ StableInv' /\ stable' = stable
  BY Unmoved DEF ScanInv, LastPool
<1>3. /\ pc = "pool" /\ todo = {} /\ stack = <<>> /\ pc' = "idle" /\ todo' = {} /\ stack' = <<>>
      /\ resp' = RespSize /\ out' = out
  BY DEF LastPool, Return, ScanInv, TypeOK
<1>4. Reported' = Reported
  BY <1>3 DEF Reported
<1>5. stable \subseteq Reported
  <2>1. stable \cap Pool \subseteq Reported
    BY <1>3 DEF ScanInv, CoverInv, InPools
  <2>. DEFINE U == (stable \cap Dataset) \ Reported
  <2>2. U = {}
    <3>. SUFFICES ASSUME U # {} PROVE FALSE
      OBVIOUS
    <3>1. PICK d \in U : Parent[d] \notin U
      BY TreeAssumption
    <3>2. Parent[d] \in stable /\ Parent[d] \in Pool \cup Dataset
      BY NameAssumption DEF ScanInv, StableInv, Name
    <3>3. Parent[d] \in Reported
      BY <2>1, <3>1, <3>2
    <3>. QED
      BY <1>3, <3>3 DEF ScanInv, CoverInv, InPools, Ahead
  <2>3. stable \subseteq Pool \cup Dataset
    BY DEF ScanInv, StableInv, Live, Name
  <2>. QED
    BY <2>1, <2>2, <2>3
<1>6. WalkInv'
  BY <1>3, SizeAssumption DEF WalkInv
<1>7. OnceInv'
  BY <1>2, <1>3, <1>4 DEF ScanInv, OnceInv, ReportedOnce
<1>8. CoverInv'
  BY <1>2, <1>3, <1>4, <1>5 DEF CoverInv, InPools, CleanScrapeIsComplete
<1>. QED
  BY <1>1, <1>2, <1>6, <1>7, <1>8 DEF ScanInv

\* The metrics of a pool are sent once.
LEMMA SendPool ==
  ASSUME ScanInv, pc = "stats", out' = Append(out, [name |-> cmd.name]), stable' = stable
  PROVE  /\ Reported' = Reported \cup {cmd.name}
         /\ ReportedOnce'
         /\ \A d \in Reported' \cap Dataset : d \in Reported
         /\ \A d \in Reported' \cap Dataset : Parent[d] \in Reported
<1>. DEFINE m == [name |-> cmd.name]
<1>1. cmd.name \in Pool /\ cmd.name \notin Dataset /\ cmd.name \notin Reported
  BY NameAssumption DEF ScanInv, TypeOK, OnceInv
<1>2. m \in PoolMetrics \cup DatasetMetrics /\ out \in Seq(PoolMetrics \cup DatasetMetrics)
  BY <1>1 DEF PoolMetrics, ScanInv, TypeOK
<1>3. m.name = cmd.name /\ out' = Append(out, m) /\ ReportedOnce
  BY DEF ScanInv, OnceInv
<1>. HIDE DEF m
<1>4. Reported' = Reported \cup {m.name} /\ ReportedOnce'
  BY <1>1, <1>2, <1>3, Send
<1>. QED
  BY <1>1, <1>3, <1>4 DEF ScanInv, OnceInv

LEMMA PoolStatsScan ==
  ASSUME ScanInv, PoolStats
  PROVE  ScanInv'
<1>. DEFINE f == [prefix |-> cmd.name, cookie |-> 0]
<1>1. TypeOK'
  BY CollectStepType DEF ScanInv, CollectStep, Progress
<1>2. /\ ParentsLive' /\ StableInv' /\ stable' = stable
      /\ \A n, d : Position(n, d)' = Position(n, d)
  BY Unmoved DEF ScanInv, PoolStats
<1>3. /\ pc = "stats" /\ pc' = "list" /\ cmd' = Request(f) /\ stack' = <<f>> /\ stack = <<>>
      /\ resp' = resp /\ todo' = todo /\ result' = result
      /\ out' = Append(out, [name |-> cmd.name])
  BY DEF PoolStats, ScanInv, TypeOK
<1>4. /\ cmd.name \in Pool /\ cmd.name \in Live /\ cmd.name \notin Reported \cup todo
      /\ cmd.name \notin Dataset
  BY <1>3, NameAssumption DEF PoolStats, ScanInv, TypeOK, OnceInv
<1>5. /\ Reported' = Reported \cup {cmd.name} /\ ReportedOnce'
      /\ \A d \in Reported' \cap Dataset : d \in Reported /\ Parent[d] \in Reported
  BY <1>2, <1>3, SendPool
<1>6. DOMAIN stack' = {1} /\ Len(stack') = 1 /\ stack'[1] = f
  BY <1>3
<1>7. f.prefix = cmd.name /\ f.cookie = 0
  OBVIOUS
<1>. HIDE DEF f
<1>8. WalkInv'
  BY <1>3, <1>6 DEF ScanInv, WalkInv, Top, Request
<1>9. OnceInv'
  <2>1. \A d \in Reported' \cap Dataset : Parent[d] # cmd.name
    BY <1>4, <1>5
  <2>. QED
    BY <1>3, <1>4, <1>5, <1>6, <1>7, <2>1 DEF ScanInv, OnceInv
<1>10. CoverInv'
  <2>1. ASSUME NEW d \in stable \cap Dataset, Parent[d] \in Reported'
        PROVE  d \in Reported' \/ Ahead(d)'
    <3>1. CASE Parent[d] = cmd.name
      <4>1. Position(Parent[d], d) > 0
        BY <1>4, <3>1, PositionType DEF Live, ScanInv, TypeOK
      <4>2. Position(Parent[d], d)' > 0
        BY <1>2, <4>1
      <4>. QED
        BY <1>6, <1>7, <3>1, <4>2 DEF Ahead
    <3>2. CASE Parent[d] # cmd.name
      <4>1. d \in Reported
        BY <1>3, <1>5, <2>1, <3>2 DEF ScanInv, CoverInv, InPools, Ahead
      <4>. QED
        BY <1>5, <4>1
    <3>. QED
      BY <3>1, <3>2
  <2>2. \A p \in stable \cap Pool : p \in Reported' \cup todo
    BY <1>3, <1>5 DEF ScanInv, CoverInv, InPools
  <2>. QED
    BY <1>2, <1>3, <2>1, <2>2 DEF CoverInv, CleanScrapeIsComplete
<1>. QED
  BY <1>1, <1>2, <1>8, <1>9, <1>10 DEF ScanInv

LEMMA ErrorScan ==
  ASSUME ScanInv, PoolStatsFails \/ VdevExportFails \/ PropsFail \/ OtherError
  PROVE  ScanInv'
<1>1. TypeOK'
  BY CollectStepType DEF ScanInv, CollectStep, Progress
<1>2. UNCHANGED <<kernelVars, stable, steady>>
  BY DEF PoolStatsFails, VdevExportFails, PropsFail, OtherError
<1>3. \E res \in {"errno", "decode"} : Return(res)
  BY DEF PoolStatsFails, VdevExportFails, PropsFail, OtherError
<1>4. ReportedOnce' /\ \A d \in Reported' \cap Dataset : Parent[d] \in Reported'
  <2>1. CASE VdevExportFails
    BY <1>2, <2>1, SendPool DEF VdevExportFails
  <2>2. CASE out' = out
    BY <1>2, <2>2 DEF ScanInv, OnceInv, ReportedOnce, Reported
  <2>. QED
    BY <2>1, <2>2 DEF PoolStatsFails, PropsFail, OtherError
<1>. QED
  BY <1>1, <1>2, <1>3, <1>4, ReturnScan

\* The innermost level, and where its request goes.
LEMMA TopFacts ==
  ASSUME ScanInv, pc \in {"list", "kstat"}
  PROVE  /\ stack \in Seq(Frame) /\ stack # <<>>
         /\ Len(stack) \in DOMAIN stack /\ Top \in Frame
         /\ Top.prefix \in Name /\ Top.cookie \in Nat
         /\ pc = "list" => cmd.name = Top.prefix /\ cmd.cookie = Top.cookie
<1>1. stack \in Seq(Frame) /\ stack # <<>>
  BY DEF ScanInv, TypeOK
<1>2. Len(stack) \in Nat /\ Len(stack) >= 1 /\ DOMAIN stack = 1 .. Len(stack)
  BY <1>1, Pop
<1>3. Len(stack) \in 1 .. Len(stack)
  BY <1>2
<1>4. Top \in Frame
  BY <1>1, <1>3, ElementOfSeq DEF Top
<1>. QED
  BY <1>1, <1>2, <1>3, <1>4 DEF Frame, ScanInv, WalkInv, Request

LEMMA ListNextScan ==
  ASSUME ScanInv, ListNext
  PROVE  ScanInv'
<1>1. TypeOK'
  BY CollectStepType DEF ScanInv, CollectStep, Progress
<1>2. /\ ParentsLive' /\ StableInv' /\ stable' = stable
      /\ \A n, d : Position(n, d)' = Position(n, d)
  BY Unmoved DEF ScanInv, ListNext
<1>3. PICK d \in Dataset :
        /\ IsNextEntry(cmd.name, cmd.cookie, d)
        /\ cmd' = [name |-> d, cookie |-> Position(cmd.name, d)]
        /\ stack' = [stack EXCEPT ![Len(stack)].cookie = cmd'.cookie]
        /\ listed' = [name |-> d, objset |-> ns[d]]
  BY DEF ListNext
<1>4. /\ pc = "list" /\ pc' = "kstat" /\ resp' = resp /\ todo' = todo /\ out' = out
      /\ result' = result
  BY DEF ListNext
<1>5. Reported' = Reported
  BY <1>4 DEF Reported
<1>6. PICK q \in Name, c \in Nat, n \in Nat :
        /\ q = Top.prefix /\ c = Top.cookie /\ n = Len(stack)
        /\ cmd.name = q /\ cmd.cookie = c
  BY <1>4, TopFacts, LenProperties
<1>7. Parent[d] = q /\ ns[q] # None /\ ns[d] # None /\ Position(q, d) > c
  BY <1>3, <1>6 DEF IsNextEntry, Remaining
<1>8. PICK w \in Nat : w = Position(q, d) /\ c < w
  BY <1>6, <1>7, PositionType DEF ScanInv, TypeOK
<1>9. /\ DOMAIN stack' = DOMAIN stack /\ n \in DOMAIN stack /\ Len(stack') = n
      /\ stack[n].prefix = q /\ stack[n].cookie = c
      /\ stack'[n].prefix = q /\ stack'[n].cookie = w
      /\ \A i \in DOMAIN stack : i # n => stack'[i] = stack[i]
  <2>1. stack \in Seq(Frame) /\ stack # <<>> /\ Len(stack) \in DOMAIN stack
    BY <1>4, TopFacts
  <2>2. cmd'.cookie = w
    BY <1>3, <1>6, <1>8
  <2>3. stack' = [stack EXCEPT ![Len(stack)].cookie = w]
    BY <1>3, <2>2
  <2>4. /\ Len(stack') = Len(stack) /\ DOMAIN stack' = DOMAIN stack
        /\ DOMAIN stack = 1 .. Len(stack)
        /\ stack'[Len(stack)] = [prefix |-> stack[Len(stack)].prefix, cookie |-> w]
        /\ \A i \in 1 .. Len(stack) : i # Len(stack) => stack'[i] = stack[i]
    BY <2>1, <2>3, SetCookie
  <2>5. stack[n].prefix = q /\ stack[n].cookie = c
    BY <1>6 DEF Top
  <2>. QED
    BY <1>6, <2>1, <2>4, <2>5
<1>10. \A i \in DOMAIN stack : stack'[i].prefix = stack[i].prefix
  BY <1>9
<1>11. WalkInv'
  <2>1. Top'.prefix = q /\ Top'.cookie = w
    BY <1>9 DEF Top
  <2>2. q \in stable => d \notin Reported
    BY <1>7, <1>8, <1>9 DEF ScanInv, OnceInv
  <2>3. listed'.name = d
    BY <1>3
  <2>. QED
    BY <1>2, <1>4, <1>5, <1>7, <1>8, <2>1, <2>2, <2>3 DEF ScanInv, WalkInv
<1>12. OnceInv'
  <2>1. ASSUME NEW i \in DOMAIN stack, NEW e \in Reported \cap Dataset,
               Parent[e] = stack[i].prefix, Parent[e] \in stable
        PROVE  Position(Parent[e], e) <= stack'[i].cookie
    <3>1. Position(Parent[e], e) <= stack[i].cookie
      BY <2>1 DEF ScanInv, OnceInv
    <3>2. CASE i # n
      BY <1>9, <3>1, <3>2
    <3>3. CASE i = n
      <4>1. Position(Parent[e], e) <= c
        BY <1>9, <3>1, <3>3
      <4>2. Position(Parent[e], e) \in Nat
        BY <1>7, <1>9, <2>1, <3>3, <1>6, PositionType DEF ScanInv, TypeOK
      <4>. QED
        BY <1>8, <1>9, <3>3, <4>1, <4>2
    <3>. QED
      BY <3>2, <3>3
  <2>2. ReportedOnce'
    BY <1>2, <1>4 DEF ScanInv, OnceInv, ReportedOnce
  <2>. QED
    BY <1>2, <1>4, <1>5, <1>9, <1>10, <2>1, <2>2 DEF ScanInv, OnceInv
<1>13. CoverInv'
  <2>1. ASSUME NEW e \in stable \cap Dataset, Ahead(e) PROVE Ahead(e)'
    <3>1. PICK i \in DOMAIN stack :
            stack[i].prefix = Parent[e] /\ stack[i].cookie < Position(Parent[e], e)
      BY <1>4, <2>1 DEF Ahead
    <3>2. CASE i # n
      BY <1>2, <1>9, <3>1, <3>2 DEF Ahead
    <3>3. CASE i = n
      <4>1. Parent[e] = q /\ Position(q, e) > c /\ ns[e] # None
        BY <1>6, <1>7, <1>9, <3>1, <3>3, PositionType DEF ScanInv, StableInv, Live, TypeOK
      <4>2. e \in Remaining(q, c)
        BY <1>7, <4>1 DEF Remaining
      <4>3. w <= Position(q, e) /\ Position(q, e) \in Nat
        BY <1>3, <1>6, <1>7, <1>8, <4>2, PositionType DEF IsNextEntry, ScanInv, TypeOK
      <4>4. CASE w = Position(q, e)
        <5>1. ns[q] \in Objset /\ Leaf[d] \in Component /\ Leaf[e] \in Component
          BY <1>6, <1>7, NameAssumption DEF ScanInv, TypeOK, KernelTypeOK
        <5>2. Leaf[d] = Leaf[e]
          BY <1>8, <4>4, <5>1, HashAssumption DEF Position
        <5>3. e = d
          BY <1>7, <4>1, <5>2, NameAssumption
        <5>. QED
          BY <1>3, <1>4, <5>3 DEF Ahead
      <4>5. CASE w < Position(q, e)
        BY <1>2, <1>9, <4>1, <4>5 DEF Ahead
      <4>. QED
        BY <1>8, <4>3, <4>4, <4>5
    <3>. QED
      BY <3>2, <3>3
  <2>. QED
    BY <1>2, <1>4, <1>5, <2>1 DEF ScanInv, CoverInv, InPools, CleanScrapeIsComplete
<1>. QED
  BY <1>1, <1>2, <1>11, <1>12, <1>13 DEF ScanInv

LEMMA ListEndScan ==
  ASSUME ScanInv, ListEnd
  PROVE  ScanInv'
<1>1. TypeOK'
  BY CollectStepType DEF ScanInv, CollectStep, Progress
<1>2. /\ ParentsLive' /\ StableInv' /\ stable' = stable
      /\ \A n, d : Position(n, d)' = Position(n, d)
  BY Unmoved DEF ScanInv, ListEnd
<1>3. /\ pc = "list" /\ todo' = todo /\ out' = out /\ result' = result
      /\ Remaining(cmd.name, cmd.cookie) = {}
      /\ stack' = SubSeq(stack, 1, Len(stack) - 1)
      /\ pc' \in {"pool", "list"}
  BY DEF ListEnd
<1>4. Reported' = Reported
  BY <1>3 DEF Reported
<1>5. PICK q \in Name, c \in Nat, n \in Nat :
        /\ q = Top.prefix /\ c = Top.cookie /\ n = Len(stack)
        /\ cmd.name = q /\ cmd.cookie = c
  BY <1>3, TopFacts, LenProperties
<1>6. /\ n >= 1 /\ DOMAIN stack = 1 .. n /\ DOMAIN stack' = 1 .. n - 1 /\ Len(stack') = n - 1
      /\ \A i \in 1 .. n - 1 : stack'[i] = stack[i]
      /\ stack[n].prefix = q /\ stack[n].cookie = c
  <2>1. stack \in Seq(Frame) /\ stack # <<>>
    BY <1>3, TopFacts
  <2>. QED
    BY <1>3, <1>5, <2>1, Pop DEF Top
<1>7. DOMAIN stack' \subseteq DOMAIN stack /\ \A i \in DOMAIN stack : i # n => i \in DOMAIN stack'
  BY <1>6
<1>8. WalkInv'
  <2>1. resp' >= RespSize
    <3>1. resp' \in {resp, RespSize} /\ RespSize \in Nat
      BY SizeAssumption DEF ListEnd
    <3>. QED
      BY <3>1 DEF ScanInv, WalkInv
  <2>2. ASSUME pc' = "list" PROVE cmd' = Request(Top)'
    <3>1. n # 1 /\ cmd' = Request(stack[n - 1])
      BY <1>3, <1>5, <2>2 DEF ListEnd
    <3>2. n - 1 \in 1 .. n - 1
      BY <1>6, <3>1
    <3>3. Top' = stack[n - 1]
      BY <1>6, <3>2 DEF Top
    <3>. QED
      BY <3>1, <3>3 DEF Request
  <2>. QED
    BY <1>3, <2>1, <2>2 DEF WalkInv
<1>9. OnceInv'
  <2>1. ReportedOnce'
    BY <1>2, <1>3 DEF ScanInv, OnceInv, ReportedOnce
  <2>2. \A i \in DOMAIN stack' : i \in DOMAIN stack /\ stack'[i] = stack[i]
    BY <1>6, <1>7
  <2>. QED
    BY <1>2, <1>3, <1>4, <2>1, <2>2 DEF ScanInv, OnceInv
<1>10. CoverInv'
  <2>1. ASSUME NEW e \in stable \cap Dataset, Ahead(e) PROVE Ahead(e)'
    <3>1. PICK i \in DOMAIN stack :
            stack[i].prefix = Parent[e] /\ stack[i].cookie < Position(Parent[e], e)
      BY <1>3, <2>1 DEF Ahead
    <3>2. i # n
      <4>. SUFFICES ASSUME i = n PROVE FALSE
        OBVIOUS
      <4>1. Parent[e] = q /\ ns[q] # None /\ ns[e] # None
        BY <1>6, <3>1 DEF ScanInv, StableInv, Live
      <4>2. Position(q, e) > c
        BY <1>5, <1>6, <3>1, <4>1, PositionType DEF ScanInv, TypeOK
      <4>3. e \in Remaining(q, c)
        BY <4>1, <4>2 DEF Remaining
      <4>. QED
        BY <1>3, <1>5, <4>3
    <3>. QED
      BY <1>2, <1>6, <1>7, <3>1, <3>2 DEF Ahead
  <2>. QED
    BY <1>2, <1>3, <1>4, <2>1 DEF ScanInv, CoverInv, InPools, CleanScrapeIsComplete
<1>. QED
  BY <1>1, <1>2, <1>8, <1>9, <1>10 DEF ScanInv

LEMMA HandleDatasetScan ==
  ASSUME ScanInv, HandleDataset
  PROVE  ScanInv'
<1>1. TypeOK'
  BY CollectStepType DEF ScanInv, CollectStep, Progress
<1>2. /\ ParentsLive' /\ StableInv' /\ stable' = stable
      /\ \A n, d : Position(n, d)' = Position(n, d)
  BY Unmoved DEF ScanInv, HandleDataset
<1>3. PICK d \in Dataset, m \in DatasetMetrics, f \in Frame :
        /\ d = listed.name /\ m.name = d
        /\ f = [prefix |-> d, cookie |-> 0]
        /\ out' = Append(out, m) /\ stack' = Append(stack, f) /\ cmd' = Request(f)
  <2>1. listed \in Listed
    BY DEF HandleDataset, ScanInv, TypeOK
  <2>. DEFINE m == [name |-> listed.name, objset |-> listed.objset,
                    kstat |-> KStat(listed.objset)]
              f == [prefix |-> listed.name, cookie |-> 0]
  <2>2. listed.name \in Dataset /\ m \in DatasetMetrics /\ f \in Frame
    BY <2>1 DEF DatasetMetrics, Listed, Frame, Name, KStat
  <2>3. m.name = listed.name
    OBVIOUS
  <2>4. out' = Append(out, m) /\ stack' = Append(stack, f) /\ cmd' = Request(f)
    BY DEF HandleDataset
  <2>. HIDE DEF m
  <2>. QED
    BY <2>2, <2>3, <2>4
<1>4. /\ pc = "kstat" /\ pc' = "list" /\ resp' = resp /\ todo' = todo /\ result' = result
  BY DEF HandleDataset
<1>5. PICK q \in Name, c \in Nat, n \in Nat : q = Top.prefix /\ c = Top.cookie /\ n = Len(stack)
  BY <1>4, TopFacts, LenProperties
<1>6. /\ f.prefix = d /\ f.cookie = 0
      /\ Len(stack') = n + 1 /\ DOMAIN stack = 1 .. n /\ DOMAIN stack' = 1 .. n + 1
      /\ n \in DOMAIN stack /\ stack[n].prefix = q /\ stack[n].cookie = c
      /\ stack'[n + 1] = f
      /\ \A i \in 1 .. n : stack'[i] = stack[i]
  <2>1. stack \in Seq(Frame) /\ Len(stack) \in DOMAIN stack
    BY <1>4, TopFacts
  <2>2. /\ Len(stack') = Len(stack) + 1
        /\ DOMAIN stack' = 1 .. Len(stack) + 1 /\ DOMAIN stack = 1 .. Len(stack)
        /\ stack'[Len(stack) + 1] = f
        /\ \A i \in 1 .. Len(stack) : stack'[i] = stack[i]
    BY <1>3, <2>1, Push
  <2>3. stack[n].prefix = q /\ stack[n].cookie = c
    BY <1>5 DEF Top
  <2>. QED
    BY <1>3, <1>5, <2>1, <2>2, <2>3
<1>7. \A i \in DOMAIN stack' : i = n + 1 \/ (i \in DOMAIN stack /\ stack'[i] = stack[i])
  BY <1>6
<1>8. DOMAIN stack \subseteq DOMAIN stack' /\ n + 1 \in DOMAIN stack' /\ n + 1 \notin DOMAIN stack
  BY <1>6
<1>9. /\ Parent[d] = q /\ q \in Reported
      /\ q \in stable => d \notin Reported /\ Position(q, d) = c
      /\ d \in stable => q \in stable
  <2>1. /\ Parent[d] = q
        /\ q \in stable => d \notin Reported /\ Position(q, d) = c
    BY <1>3, <1>4, <1>5 DEF ScanInv, WalkInv
  <2>2. q \in Reported
    BY <1>6 DEF ScanInv, OnceInv
  <2>3. d \in stable => q \in stable
    BY <2>1 DEF ScanInv, StableInv
  <2>. QED
    BY <2>1, <2>2, <2>3
<1>10. Reported' = Reported \cup {d} /\ ReportedOnce'
  <2>1. m \in PoolMetrics \cup DatasetMetrics /\ out \in Seq(PoolMetrics \cup DatasetMetrics)
    BY DEF ScanInv, TypeOK
  <2>2. ReportedOnce /\ (m.name \in Reported => m.name \in Dataset /\ Parent[m.name] \notin stable)
    BY <1>3, <1>9 DEF ScanInv, OnceInv
  <2>. QED
    BY <1>2, <1>3, <2>1, <2>2, Send
<1>11. WalkInv'
  <2>1. Top' = f
    BY <1>6 DEF Top
  <2>. QED
    BY <1>3, <1>4, <2>1 DEF ScanInv, WalkInv, Request
<1>12. OnceInv'
  <2>1. todo' \cap Reported' = {}
    BY <1>4, <1>10, NameAssumption DEF ScanInv, OnceInv, TypeOK
  <2>2. \A e \in Reported' \cap Dataset : Parent[e] \in Reported'
    BY <1>9, <1>10 DEF ScanInv, OnceInv
  <2>3. \A i \in DOMAIN stack' : stack'[i].prefix \in Reported'
    BY <1>6, <1>7, <1>10 DEF ScanInv, OnceInv
  <2>4. \A i \in DOMAIN stack : stack[i].prefix = d => d \notin stable
    BY <1>9 DEF ScanInv, OnceInv
  <2>5. \A i, j \in DOMAIN stack' :
          i # j /\ stack'[i].prefix = stack'[j].prefix => stack'[i].prefix \notin stable
    BY <1>6, <1>7, <2>4 DEF ScanInv, OnceInv
  <2>6. ASSUME NEW i \in DOMAIN stack', NEW e \in Reported' \cap Dataset,
               Parent[e] = stack'[i].prefix, Parent[e] \in stable
        PROVE  Position(Parent[e], e) <= stack'[i].cookie
    <3>1. CASE i = n + 1
      <4>1. Parent[e] = d /\ d \notin Reported
        BY <1>6, <1>9, <2>6, <3>1
      <4>2. Parent[e] \in Reported
        BY <1>9, <1>10, <4>1 DEF ScanInv, OnceInv
      <4>. QED
        BY <4>1, <4>2
    <3>2. CASE i \in DOMAIN stack /\ e \in Reported
      BY <1>7, <1>8, <2>6, <3>2 DEF ScanInv, OnceInv
    <3>3. CASE i \in DOMAIN stack /\ e = d
      <4>1. stack[i].prefix = q /\ q \in stable
        BY <1>6, <1>9, <2>6, <3>3
      <4>2. i = n
        BY <1>6, <3>3, <4>1 DEF ScanInv, OnceInv
      <4>. QED
        BY <1>5, <1>6, <1>9, <3>3, <4>1, <4>2
    <3>. QED
      BY <1>7, <1>10, <3>1, <3>2, <3>3
  <2>. QED
    BY <1>2, <1>4, <1>10, <2>1, <2>2, <2>3, <2>5, <2>6 DEF OnceInv
<1>13. CoverInv'
  <2>1. ASSUME NEW e \in stable \cap Dataset, Parent[e] \in Reported'
        PROVE  e \in Reported' \/ Ahead(e)'
    <3>1. CASE Parent[e] \in Reported
      <4>1. CASE e \in Reported \/ e = d
        BY <1>10, <4>1
      <4>2. CASE e \notin Reported /\ e # d
        <5>1. PICK i \in DOMAIN stack :
                stack[i].prefix = Parent[e] /\ stack[i].cookie < Position(Parent[e], e)
          BY <1>3, <1>4, <3>1, <4>2 DEF ScanInv, CoverInv, InPools, Ahead
        <5>. QED
          BY <1>2, <1>6, <1>8, <5>1 DEF Ahead
      <4>. QED
        BY <4>1, <4>2
    <3>2. CASE Parent[e] = d
      <4>1. d \in stable /\ d \in Name /\ ns[d] # None
        BY <3>2 DEF ScanInv, StableInv, Live
      <4>2. Position(d, e) > 0
        BY <4>1, PositionType DEF ScanInv, TypeOK
      <4>. QED
        BY <1>2, <1>6, <1>8, <3>2, <4>2 DEF Ahead
    <3>. QED
      BY <1>10, <2>1, <3>1, <3>2
  <2>2. \A p \in stable \cap Pool : p \in Reported' \cup todo
    BY <1>4, <1>10 DEF ScanInv, CoverInv, InPools
  <2>. QED
    BY <1>2, <1>4, <2>1, <2>2 DEF CoverInv, CleanScrapeIsComplete
<1>. QED
  BY <1>1, <1>2, <1>11, <1>12, <1>13 DEF ScanInv

LEMMA InitScan == Init => ScanInv
<1>. SUFFICES ASSUME Init PROVE ScanInv
  OBVIOUS
<1>1. ParentsLive
  BY InitAssumption DEF Init, KernelInit, ParentsLive
<1>2. Reported = {} /\ StableInv
  BY DEF Init, Reported, StableInv
<1>3. WalkInv
  BY SizeAssumption DEF Init, WalkInv
<1>4. OnceInv
  BY <1>2 DEF Init, OnceInv, ReportedOnce
<1>5. CoverInv
  BY DEF Init, CoverInv, InPools, CleanScrapeIsComplete
<1>. QED
  BY <1>1, <1>2, <1>3, <1>4, <1>5, InitType DEF ScanInv

LEMMA NextScan ==
  ASSUME RetrySafe, ScanInv, [Next]_vars
  PROVE  ScanInv'
<1>1. CASE UNCHANGED vars
  <2>1. UNCHANGED <<kernelVars, stable, steady>> /\ TypeOK'
    BY <1>1, NextType DEF vars, ScanInv
  <2>2. /\ ParentsLive' /\ StableInv' /\ stable' = stable
        /\ \A n, d : Position(n, d)' = Position(n, d)
    BY <2>1, Unmoved DEF ScanInv
  <2>3. UNCHANGED <<pc, todo, cmd, resp, stack, listed, out, result>>
    BY <1>1 DEF vars, collectVars
  <2>4. Reported' = Reported
    BY <2>3 DEF Reported
  <2>5. WalkInv'
    BY <2>2, <2>3, <2>4 DEF ScanInv, WalkInv, Top, Request
  <2>6. OnceInv'
    BY <2>2, <2>3, <2>4 DEF ScanInv, OnceInv, ReportedOnce
  <2>7. CoverInv'
    BY <2>2, <2>3, <2>4 DEF ScanInv, CoverInv, InPools, Ahead, CleanScrapeIsComplete
  <2>. QED
    BY <2>1, <2>2, <2>5, <2>6, <2>7 DEF ScanInv
<1>2. CASE Collect \/ Administer
  BY <1>2, CollectScan, AdministerScan
<1>3. CASE CollectStep
  BY <1>3, PoolConfigsScan, GrowScan, NextPoolScan, LastPoolScan, PoolStatsScan, ErrorScan,
     ListNextScan, ListEndScan, HandleDatasetScan DEF CollectStep, Progress
<1>. QED
  BY <1>1, <1>2, <1>3 DEF Next

(***************************************************************************)
(* Whatever administrators do between two system calls, a pool is sent to  *)
(* the registry at most once, and a dataset twice only if its directory    *)
(* was replaced during the scrape (main.go:644-694), provided that the     *)
(* retry of ZFS_IOC_DATASET_LIST_NEXT is harmless.                         *)
(***************************************************************************)
THEOREM SentOnce == ASSUME RetrySafe PROVE Spec => []ReportedOnce
<1>1. ScanInv => ReportedOnce
  BY DEF ScanInv, OnceInv
<1>. QED
  BY <1>1, InitScan, NextScan, PTL DEF Spec

(***************************************************************************)
(* Under the same hypothesis, a collect that returns nil has reported      *)
(* every pool and dataset that stayed what it was during the scrape.       *)
(***************************************************************************)
THEOREM NothingMissed == ASSUME RetrySafe PROVE Spec => []CleanScrapeIsComplete
<1>1. ScanInv => CleanScrapeIsComplete
  BY DEF ScanInv, CoverInv
<1>. QED
  BY <1>1, InitScan, NextScan, PTL DEF Spec

-----------------------------------------------------------------------------
(* Counters.                                                                 *)

\* What stayed mounted is mounted, and what was listed is still the object it
\* was if its name stayed what it was.
CountersInv ==
  /\ TypeOK
  /\ steady \subseteq mounted
  /\ pc = "kstat" => (listed.name \in stable => listed.objset = ns[listed.name])
  /\ OwnCounters

\* One entry of out is as OwnCounters wants it.
IsOwn(m) ==
  m.name \in Dataset =>
    /\ m.kstat \in {None, m.objset}
    /\ m.objset \in steady => m.kstat = m.objset
    /\ m.name \in stable => m.objset = ns[m.name]

LEMMA SendOwn ==
  ASSUME NEW T, out \in Seq(T), NEW m \in T, out' = Append(out, m), OwnCounters, IsOwn(m),
         UNCHANGED <<kernelVars, stable, steady>>
  PROVE  OwnCounters'
<1>. DEFINE n == Len(out)
<1>1. /\ n \in Nat
      /\ DOMAIN out = 1 .. n
      /\ DOMAIN out' = 1 .. (n + 1)
      /\ out'[n + 1] = m
      /\ \A i \in 1 .. n : out'[i] = out[i]
  BY AppendProperties, LenProperties
<1>. HIDE DEF n
<1>2. \A i \in DOMAIN out' : i = n + 1 \/ (i \in DOMAIN out /\ out'[i] = out[i])
  BY <1>1
<1>3. \A i \in DOMAIN out' : IsOwn(out'[i])
  BY <1>1, <1>2 DEF OwnCounters, IsOwn
<1>. QED
  BY <1>3 DEF OwnCounters, IsOwn, kernelVars

LEMMA NextCounters == CountersInv /\ [Next]_vars => CountersInv'
<1>. SUFFICES ASSUME CountersInv, [Next]_vars PROVE CountersInv'
  OBVIOUS
<1>0. TypeOK'
  BY NextType DEF CountersInv
<1>1. CASE Administer
  <2>1. /\ stable' \subseteq stable /\ \A n \in stable' : ns'[n] = ns[n]
        /\ steady' \subseteq steady /\ steady' \subseteq mounted'
        /\ pc' = pc /\ listed' = listed /\ out' = out
    BY <1>1 DEF Administer, collectVars
  <2>. QED
    BY <1>0, <2>1 DEF CountersInv, OwnCounters
<1>2. CASE Collect
  BY <1>0, <1>2 DEF Collect, CountersInv, OwnCounters, kernelVars
<1>3. CASE ListNext
  <2>1. PICK d \in Dataset : listed' = [name |-> d, objset |-> ns[d]]
    BY <1>3 DEF ListNext
  <2>2. UNCHANGED <<kernelVars, stable, steady, out>>
    BY <1>3 DEF ListNext
  <2>. QED
    BY <1>0, <2>1, <2>2 DEF CountersInv, OwnCounters, kernelVars
<1>4. CASE HandleDataset
  <2>. DEFINE m == [name |-> listed.name, objset |-> listed.objset,
                    kstat |-> KStat(listed.objset)]
  <2>1. listed \in Listed /\ out \in Seq(PoolMetrics \cup DatasetMetrics)
    BY <1>4 DEF HandleDataset, CountersInv, TypeOK
  <2>2. m \in DatasetMetrics
    BY <2>1 DEF DatasetMetrics, Listed, KStat
  <2>3. IsOwn(m)
    BY <1>4 DEF IsOwn, KStat, HandleDataset, CountersInv
  <2>4. out' = Append(out, m) /\ UNCHANGED <<kernelVars, stable, steady>> /\ pc' = "list"
    BY <1>4 DEF HandleDataset
  <2>. HIDE DEF m
  <2>5. OwnCounters'
    BY <2>1, <2>2, <2>3, <2>4, SendOwn DEF CountersInv
  <2>. QED
    BY <1>0, <2>4, <2>5 DEF CountersInv, kernelVars
<1>5. CASE PoolStats \/ VdevExportFails
  <2>. DEFINE m == [name |-> cmd.name]
  <2>1. cmd.name \in Pool /\ cmd.name \notin Dataset
        /\ out \in Seq(PoolMetrics \cup DatasetMetrics)
    BY <1>5, NameAssumption DEF PoolStats, VdevExportFails, CountersInv, TypeOK
  <2>2. m \in PoolMetrics /\ m.name \notin Dataset
    BY <2>1 DEF PoolMetrics
  <2>3. out' = Append(out, m) /\ UNCHANGED <<kernelVars, stable, steady>> /\ pc' # "kstat"
    BY <1>5 DEF PoolStats, VdevExportFails, Return
  <2>. HIDE DEF m
  <2>4. OwnCounters'
    BY <2>1, <2>2, <2>3, SendOwn DEF CountersInv, IsOwn
  <2>. QED
    BY <1>0, <2>3, <2>4 DEF CountersInv, kernelVars
<1>6. CASE /\ UNCHANGED <<kernelVars, stable, steady, out>>
           /\ pc' # "kstat" \/ UNCHANGED <<pc, listed>>
  BY <1>0, <1>6 DEF CountersInv, OwnCounters, kernelVars
<1>7. CASE UNCHANGED vars
  BY <1>6, <1>7 DEF vars, collectVars
<1>8. CASE CollectStep
  <2>1. CASE PoolConfigs \/ GrowConfigs \/ NextPool
    BY <1>6, <2>1 DEF PoolConfigs, GrowConfigs, NextPool
  <2>2. CASE LastPool \/ PoolStatsFails \/ PropsFail \/ OtherError
    BY <1>6, <2>2 DEF LastPool, PoolStatsFails, PropsFail, OtherError, Return
  <2>3. CASE GrowStats \/ GrowProps
    BY <1>6, <2>3 DEF GrowStats, GrowProps
  <2>4. CASE ListEnd
    BY <1>6, <2>4 DEF ListEnd
  <2>. QED
    BY <1>3, <1>4, <1>5, <1>8, <2>1, <2>2, <2>3, <2>4 DEF CollectStep, Progress
<1>. QED
  BY <1>1, <1>2, <1>7, <1>8 DEF Next

(***************************************************************************)
(* The counters reported with a dataset are those of the object its        *)
(* properties came from, whatever happens between the two reads            *)
(* (main.go:658-684).                                                      *)
(***************************************************************************)
THEOREM CountersAreOwn == Spec => []OwnCounters
<1>1. Init => CountersInv
  BY InitType DEF Init, CountersInv, OwnCounters
<1>2. CountersInv => OwnCounters
  BY DEF CountersInv
<1>. QED
  BY <1>1, <1>2, NextCounters, PTL DEF Spec
=============================================================================
