----------------------------- MODULE VdevExport ------------------------------
(***************************************************************************)
(* What handlePool sends for a pool once ZFS_IOC_POOL_STATS has answered   *)
(* (main.go): the state of the pool, then handleVdev for the vdevs, depth  *)
(* first, with the state names of zfs/ioctl/util.go.                       *)
(*                                                                         *)
(* The name of a vdev is its component behind those of its ancestors.      *)
(* Components hold no slash, so a joined name is modelled as the sequence  *)
(* of its components.                                                      *)
(***************************************************************************)
EXTENDS Integers, Sequences

CONSTANTS
  Component,  \* what a name is made of
  Path,       \* paths of devices and files
  Base,       \* Base[p]: what path.Base returns for p
  TypeId,     \* TypeId[t, i]: what "%s-%d" gives for type t and id i
  ValidUTF8,  \* the components the metrics library takes in a label
  Missing,    \* a pair that is not in a list, whose field keeps its zero value
  Response,   \* the responses to POOL_STATS
  MinStats    \* entries of vdev_stats the code reads: VDevStats_vs_fragmentation + 1

PoolStates == {"ACTIVE", "EXPORTED", "DESTROYED", "SPARE", "L2CACHE", "UNINITIALIZED",
               "UNAVAIL", "POTENTIALLY_ACTIVE", "UNKNOWN"}

\* A list of states without the one of a pool that was split off.
MutantVDevStates == {"OFFLINE", "REMOVED", "FAULTED", "UNAVAIL", "DEGRADED", "ONLINE", "UNKNOWN"}

VDevStates == {"OFFLINE", "REMOVED", "FAULTED", "SPLIT", "UNAVAIL", "DEGRADED", "ONLINE", "UNKNOWN"}

\* poolState_ACTIVE and so on, in the order of the enumeration.
PoolStateString(state) ==
  IF state \in 0 .. 7
  THEN <<"ACTIVE", "EXPORTED", "DESTROYED", "SPARE", "L2CACHE", "UNINITIALIZED",
         "UNAVAIL", "POTENTIALLY_ACTIVE">>[state + 1]
  ELSE "UNKNOWN"

\* The cases of vdevState_CLOSED (empty, without falling through to the next) up
\* to HEALTHY; CANT_OPEN is told apart by vdevAux_CORRUPT_DATA, BAD_LOG and
\* SPLIT_POOL.
VDevStateString(state, aux) ==
  IF state = 4 /\ aux \in {2, 13} THEN "FAULTED"
  ELSE IF state = 4 /\ aux = 15 THEN "SPLIT"
  ELSE IF state \in 1 .. 7
  THEN <<"UNKNOWN", "OFFLINE", "REMOVED", "UNAVAIL", "FAULTED", "DEGRADED", "ONLINE">>[state]
  ELSE "UNKNOWN"

(***************************************************************************)
(* A response: the pool, its state, and the vdevs, a tree: each is the     *)
(* child of one other except for the root, from which all can be reached.  *)
(* A list without vdev_tree has no vdevs at all.  Of the kernel, two facts *)
(* are taken: only vdevs without children have a path, and only the root   *)
(* of the tree has the type "root".                                        *)
(***************************************************************************)
Stats == [len : Nat, state : Nat, aux : Nat]

Parents(r, c) == {v \in r.vdevs : \E i \in DOMAIN r.children[v] : r.children[v][i] = c}

WellFormed(r) ==
  /\ r.pool \in Component
  /\ r.state \in Nat \cup {Missing}
  /\ r.vdevs # {} => r.root \in r.vdevs
  /\ r.type \in [r.vdevs -> STRING]
  /\ r.path \in [r.vdevs -> Path \cup {Missing}]
  /\ r.id \in [r.vdevs -> Nat]
  /\ r.stats \in [r.vdevs -> Stats \cup {Missing}]
  /\ r.children \in [r.vdevs -> Seq(r.vdevs \ {r.root})]
  /\ \A S \in SUBSET (r.vdevs \ {r.root}) : S # {} => \E c \in S : \E v \in Parents(r, c) : v \notin S
  /\ \A v, w \in r.vdevs : \A i \in DOMAIN r.children[v], j \in DOMAIN r.children[w] :
       r.children[v][i] = r.children[w][j] => v = w /\ i = j
  /\ \A v \in r.vdevs : r.path[v] = Missing /\ r.type[v] # "root" => <<r.type[v], r.id[v]>> \in DOMAIN TypeId
  /\ \A v \in r.vdevs : r.children[v] # <<>> => r.path[v] = Missing
  /\ \A v \in r.vdevs : r.type[v] = "root" => v = r.root

\* The id is what follows the last dash, so no two pairs give one name.
ASSUME NameAssumption ==
  /\ Base \in [Path -> Component]
  /\ \A x \in DOMAIN TypeId : TypeId[x] \in Component
  /\ \A x, y \in DOMAIN TypeId : TypeId[x] = TypeId[y] => x = y
  /\ Missing \notin Path
  /\ ValidUTF8 \subseteq Component
  /\ MinStats \in Nat

ASSUME ResponseAssumption == \A r \in Response : WellFormed(r)

VARIABLES
  resp,   \* the response
  pc,     \* parsing, walking the vdevs, or done with them
  calls,  \* handleVdev calls to come, the next one first, with vdevNamePrefix
  pool,   \* the metrics of the pool: none, or the value of each state
  sent,   \* the metrics of the vdevs, in the order they were sent
  result  \* ok, error, panic, or none yet

vars == <<resp, pc, calls, pool, sent, result>>

Init ==
  /\ resp \in Response
  /\ pc = "parse"
  /\ calls = <<>>
  /\ pool = <<>>
  /\ sent = <<>>
  /\ result = "none"

-----------------------------------------------------------------------------
\* The gauges of a state: one for each name in the list.
OneHot(states, state) == [s \in states |-> IF s = state THEN 1 ELSE 0]

\* The state strings handlePool and parseVdevs are left with: without the pair
\* the string stays empty, which is in neither list.
PoolState == IF resp.state = Missing THEN "" ELSE PoolStateString(resp.state)

VdevState(v) ==
  LET s == resp.stats[v]
  IN  IF s = Missing THEN "" ELSE VDevStateString(s.state, s.aux)

\* The parser has filled in the tree: parseVdevStats takes its entries from
\* the array of each vdev that has one, by their index.
InRange == \A v \in resp.vdevs : resp.stats[v] # Missing => resp.stats[v].len >= MinStats

\* An index past the end of vdev_stats stops the process.
ParsePanics ==
  /\ pc = "parse"
  /\ ~InRange
  /\ pc' = "done"
  /\ result' = "panic"
  /\ UNCHANGED <<resp, calls, pool, sent>>

\* The state and the errors of the pool are sent, handleVdev is called for the
\* root.
SendPool ==
  /\ pc = "parse"
  /\ InRange
  /\ resp.vdevs # {}
  /\ pc' = "walk"
  /\ pool' = OneHot(PoolStates, PoolState)
  /\ calls' = <<[vdev |-> resp.root, prefix |-> <<>>]>>
  /\ UNCHANGED <<resp, sent, result>>

\* Without vdev_tree they are sent as well, and handleVdev gets a nil pointer.
SendPoolPanics ==
  /\ pc = "parse"
  /\ resp.vdevs = {}
  /\ pc' = "done"
  /\ result' = "panic"
  /\ pool' = OneHot(PoolStates, PoolState)
  /\ UNCHANGED <<resp, calls, sent>>

OwnName(v) ==
  IF resp.path[v] # Missing THEN Base[resp.path[v]]
  ELSE IF resp.type[v] = "root" THEN resp.pool
  ELSE TypeId[<<resp.type[v], resp.id[v]>>]

\* A name without those of the ancestors.
MutantVdevName(c) == <<OwnName(c.vdev)>>

\* vdevName of a call.
VdevName(c) == Append(c.prefix, OwnName(c.vdev))

\* Only the first child is followed.
MutantChildCalls(c) ==
  [i \in DOMAIN resp.children[c.vdev] \cap {1} |->
     [vdev |-> resp.children[c.vdev][i], prefix |-> VdevName(c)]]

\* The calls handleVdev makes for the children, with its own name in front.
ChildCalls(c) ==
  [i \in DOMAIN resp.children[c.vdev] |->
     [vdev |-> resp.children[c.vdev][i], prefix |-> VdevName(c)]]

Metrics(c) ==
  [vdev |-> c.vdev, name |-> VdevName(c), type |-> resp.type[c.vdev],
   states |-> OneHot(VDevStates, VdevState(c.vdev))]

\* NewConstMetric takes the labels of c.
Accepted(c) == \A i \in DOMAIN VdevName(c) : VdevName(c)[i] \in ValidUTF8

\* handleVdev: all metrics of one vdev, then the calls for its children.
HandleVdev ==
  /\ calls # <<>>
  /\ Accepted(Head(calls))
  /\ sent' = Append(sent, Metrics(Head(calls)))
  /\ calls' = ChildCalls(Head(calls)) \o Tail(calls)
  /\ UNCHANGED <<resp, pc, pool, result>>

\* Errors that leave the callers where they are.
MutantHandleVdevFails ==
  /\ calls # <<>>
  /\ ~Accepted(Head(calls))
  /\ calls' = Tail(calls)
  /\ pc' = "done"
  /\ result' = "error"
  /\ UNCHANGED <<resp, pool, sent>>

\* The first metric of the vdev is refused: every caller returns the error.
HandleVdevFails ==
  /\ calls # <<>>
  /\ ~Accepted(Head(calls))
  /\ calls' = <<>>
  /\ pc' = "done"
  /\ result' = "error"
  /\ UNCHANGED <<resp, pool, sent>>

HandleVdevReturns ==
  /\ pc = "walk"
  /\ calls = <<>>
  /\ pc' = "done"
  /\ result' = "ok"
  /\ UNCHANGED <<resp, calls, pool, sent>>

Next == ParsePanics \/ SendPool \/ SendPoolPanics \/ HandleVdev \/ HandleVdevFails \/ HandleVdevReturns

Spec == Init /\ [][Next]_vars

-----------------------------------------------------------------------------
Call(r) == [vdev : r.vdevs, prefix : Seq(Component)]

TypeOK ==
  /\ resp \in Response
  /\ pc \in {"parse", "walk", "done"}
  /\ calls \in Seq(Call(resp))
  /\ pool = <<>> \/ pool \in [PoolStates -> {0, 1}]
  /\ sent \in Seq([vdev : resp.vdevs, name : Seq(Component), type : STRING,
                   states : [VDevStates -> {0, 1}]])
  /\ result \in {"none", "ok", "error", "panic"}
  /\ calls # <<>> => pc = "walk"
  /\ result = "none" <=> pc # "done"

\* No two children of a vdev have the same name of their own and the same type.
SiblingsDiffer ==
  \A v \in resp.vdevs : \A i, j \in DOMAIN resp.children[v] :
    LET a == resp.children[v][i]
        b == resp.children[v][j]
    IN  OwnName(a) = OwnName(b) /\ resp.type[a] = resp.type[b] => i = j

\* The labels are the pool, which is one, the name and the type.
LabelsDistinct ==
  \A i, j \in DOMAIN sent :
    sent[i].name = sent[j].name /\ sent[i].type = sent[j].type => i = j

(***************************************************************************)
(* The pedantic registry refuses a scrape in which two vdevs have the same *)
(* labels: pool, name and type (main.go:149, 156).  Names are built from   *)
(* base names of paths, types and ids while the walk goes up and down the  *)
(* tree (main.go:136-147, 208-209).  Two vdevs of a pool end up with the   *)
(* same labels exactly if two siblings have one name and one type, however *)
(* often a name occurs elsewhere in the tree: a file called mirror-0 next  *)
(* to the first mirror does no harm.                                       *)
(***************************************************************************)
LabelsDiffer ==
  /\ SiblingsDiffer => LabelsDistinct
  /\ result = "ok" /\ LabelsDistinct => SiblingsDiffer

(***************************************************************************)
(* A walk that returns nil has sent every vdev of the pool exactly once.   *)
(* One that returns an error has left out a vdev whose own name the        *)
(* metrics library refuses, and has sent no vdev twice (main.go:159-162,   *)
(* 208-213).                                                               *)
(***************************************************************************)
EveryVdevOnce ==
  LET Sent(v) == \E i \in DOMAIN sent : sent[i].vdev = v
  IN  /\ \A i, j \in DOMAIN sent : sent[i].vdev = sent[j].vdev => i = j
      /\ result = "ok" => \A v \in resp.vdevs : Sent(v)
      /\ result = "error" => \E v \in resp.vdevs : ~Sent(v) /\ OwnName(v) \notin ValidUTF8

\* One gauge is 1, or none if the pair is not there.
Shown(states, gauges, there) ==
  IF there THEN \E s \in states : \A t \in states : gauges[t] = 1 <=> t = s
  ELSE \A t \in states : gauges[t] = 0

(***************************************************************************)
(* Whatever numbers the kernel reports, also ones this build does not know,*)
(* exactly one state of a pool and of each vdev is 1 (main.go:151-163,     *)
(* 617-629): what VDevStateString and PoolStateString return is always in  *)
(* the lists the gauges are made from.  All of them are 0 only for a pool  *)
(* without state and a vdev without vdev_stats, which thus cannot be taken *)
(* for one in a state that is not known.                                   *)
(***************************************************************************)
OneStateHolds ==
  /\ pool # <<>> => Shown(PoolStates, pool, resp.state # Missing)
  /\ \A i \in DOMAIN sent : Shown(VDevStates, sent[i].states, resp.stats[sent[i].vdev] # Missing)
=============================================================================
