---------------------------- MODULE ZfsNamespace ----------------------------
(***************************************************************************)
(* The part of the ZFS kernel module the exporter looks at: the tree of    *)
(* pools and datasets, changed by administrators while a scrape runs, and  *)
(* what /dev/zfs and /proc/spl/kstat answer about it at one instant.  It   *)
(* is not code of this repository: it is modelled from how zfs/ioctl and   *)
(* main.go use it.                                                         *)
(*                                                                         *)
(* A dataset name is its parent's name and one more component.  The        *)
(* children of a dataset live in a directory object with an order of its   *)
(* own (Hash): the cookie of ZFS_IOC_DATASET_LIST_NEXT is a cursor in that *)
(* order, so two directories that have had the same name one after the     *)
(* other list the same components in different orders.                     *)
(***************************************************************************)
EXTENDS Naturals

CONSTANTS
  Pool,        \* pool names, also the names of the pools' root datasets
  Dataset,     \* names of the datasets below the roots
  Component,   \* last components of dataset names
  Parent,      \* Parent[d]: the name d without its last component
  Leaf,        \* Leaf[d]: the last component of d
  PoolOf,      \* PoolOf[n]: the pool n is in
  Mountable,   \* the names that are not volumes and may be mounted
  MaxObjset,   \* bound: number of object sets that ever exist
  None,        \* no object, no name
  Hash,        \* Hash[o][c]: cursor position of c in the directory of o
  InitNs,      \* the namespace before the first scrape
  InitLast     \* the last object set id given out before it

Name == Pool \cup Dataset
Objset == 1 .. MaxObjset

(***************************************************************************)
(* Names form trees rooted at the pools, a name is determined by its       *)
(* parent and its last component, and no two entries of a directory share  *)
(* a cursor position.                                                      *)
(***************************************************************************)
ASSUME NameAssumption ==
  /\ Pool \cap Dataset = {}
  /\ Parent \in [Dataset -> Name]
  /\ Leaf \in [Dataset -> Component]
  /\ PoolOf \in [Name -> Pool]
  /\ Mountable \subseteq Dataset
  /\ \A p \in Pool : PoolOf[p] = p
  /\ \A d \in Dataset : PoolOf[d] = PoolOf[Parent[d]]
  /\ \A d, e \in Dataset : Parent[d] = Parent[e] /\ Leaf[d] = Leaf[e] => d = e

ASSUME TreeAssumption ==
  \A S \in SUBSET Dataset : S # {} => \E d \in S : Parent[d] \notin S

ASSUME ObjsetAssumption ==
  /\ MaxObjset \in Nat
  /\ None \notin Objset
  /\ None \notin Name

ASSUME HashAssumption ==
  /\ Hash \in [Objset -> [Component -> Nat \ {0}]]
  /\ \A o \in Objset : \A c, e \in Component : Hash[o][c] = Hash[o][e] => c = e

ASSUME InitAssumption ==
  /\ InitLast \in 0 .. MaxObjset
  /\ InitNs \in [Name -> (1 .. InitLast) \cup {None}]
  /\ \A d \in Dataset : InitNs[d] # None => InitNs[Parent[d]] # None

VARIABLES
  ns,       \* the object set each name is bound to
  lastObj,  \* the last object set id that was given out; ids are not reused
  mounted   \* the object sets that are mounted: those have a kstat file

kernelVars == <<ns, lastObj, mounted>>

Live == {n \in Name : ns[n] # None}

KernelTypeOK ==
  /\ ns \in [Name -> Objset \cup {None}]
  /\ lastObj \in 0 .. MaxObjset
  /\ mounted \subseteq Objset

KernelInit ==
  /\ ns = InitNs
  /\ lastObj = InitLast
  /\ mounted \in SUBSET {InitNs[d] : d \in {e \in Mountable : InitNs[e] # None}}

-----------------------------------------------------------------------------
(* What the administrator does between two steps of the exporter. *)

\* A name that does not exist is bound to a new object: zfs create, zpool
\* create, zpool import.
Create(n) ==
  /\ ns[n] = None
  /\ n \in Dataset => ns[Parent[n]] # None
  /\ lastObj < MaxObjset
  /\ lastObj' = lastObj + 1
  /\ ns' = [ns EXCEPT ![n] = lastObj + 1]
  /\ UNCHANGED mounted

\* zfs destroy: the dataset has no children.
Destroy(d) ==
  /\ ns[d] # None
  /\ \A e \in Dataset : Parent[e] = d => ns[e] = None
  /\ ns' = [ns EXCEPT ![d] = None]
  /\ mounted' = mounted \ {ns[d]}
  /\ UNCHANGED lastObj

\* zpool export, zpool destroy.
ExportPool(p) ==
  /\ ns[p] # None
  /\ ns' = [n \in Name |-> IF PoolOf[n] = p THEN None ELSE ns[n]]
  /\ mounted' = mounted \ {ns[n] : n \in {m \in Name : PoolOf[m] = p}}
  /\ UNCHANGED lastObj

\* The datasets that exist at or below d.
IsSubtree(S, d) ==
  /\ S \subseteq Live \cap Dataset
  /\ \A e \in Live \cap Dataset : e \in S <=> (e = d \/ Parent[e] \in S)

\* zfs rename d e: the subtree of d moves, its objects (and their directories)
\* stay what they are.
Rename(d, e) ==
  /\ ns[d] # None
  /\ ns[e] = None
  /\ ns[Parent[e]] # None
  /\ PoolOf[e] = PoolOf[d]
  /\ \E S \in SUBSET (Live \cap Dataset) :
       /\ IsSubtree(S, d)
       /\ Parent[e] \notin S
       /\ \E to \in [S -> Dataset \ Live] :
            /\ to[d] = e
            /\ \A x \in S \ {d} : Parent[to[x]] = to[Parent[x]] /\ Leaf[to[x]] = Leaf[x]
            /\ ns' = [n \in Name |->
                        IF \E x \in S : to[x] = n THEN ns[CHOOSE x \in S : to[x] = n]
                        ELSE IF n \in S THEN None ELSE ns[n]]
  /\ UNCHANGED <<lastObj, mounted>>

Mount(d) ==
  /\ d \in Mountable
  /\ ns[d] # None /\ ns[d] \notin mounted
  /\ mounted' = mounted \cup {ns[d]}
  /\ UNCHANGED <<ns, lastObj>>

Unmount(d) ==
  /\ ns[d] \in mounted
  /\ mounted' = mounted \ {ns[d]}
  /\ UNCHANGED <<ns, lastObj>>

KernelStep ==
  \/ \E n \in Name : Create(n)
  \/ \E d \in Dataset : Destroy(d) \/ Mount(d) \/ Unmount(d)
  \/ \E p \in Pool : ExportPool(p)
  \/ \E d, e \in Dataset : Rename(d, e)

-----------------------------------------------------------------------------
(* What the kernel answers. *)

LivePools == {p \in Pool : ns[p] # None}

Position(dir, d) == Hash[ns[dir]][Leaf[d]]

\* The entries of dir's directory that a cursor at cookie has not passed.
Remaining(dir, cookie) ==
  {d \in Dataset : /\ Parent[d] = dir
                   /\ ns[dir] # None
                   /\ ns[d] # None
                   /\ Position(dir, d) > cookie}

\* d is what ZFS_IOC_DATASET_LIST_NEXT finds from (dir, cookie).
IsNextEntry(dir, cookie, d) ==
  /\ d \in Remaining(dir, cookie)
  /\ \A e \in Remaining(dir, cookie) : Position(dir, d) <= Position(dir, e)
=============================================================================
