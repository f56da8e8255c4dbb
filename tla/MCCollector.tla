----------------------------- MODULE MCCollector -----------------------------
(* Small instances of Collector.                                             *)
EXTENDS Collector, TLC

\* One pool with two directories that can be renamed into each other's place;
\* nothing is mounted.
TreePool == {"p"}
TreeDataset == {"p/a", "p/b", "p/a/x", "p/b/x"}
TreeComponent == {"a", "b", "x"}
TreeParent == "p/a" :> "p" @@ "p/b" :> "p" @@ "p/a/x" :> "p/a" @@ "p/b/x" :> "p/b"
TreeLeaf == "p/a" :> "a" @@ "p/b" :> "b" @@ "p/a/x" :> "x" @@ "p/b/x" :> "x"
TreePoolOf == [n \in TreePool \cup TreeDataset |-> "p"]
TreeInitNs == "p" :> 1 @@ "p/a" :> 2 @@ "p/b" :> 3 @@ "p/a/x" :> 4 @@ "p/b/x" :> None

\* Directories list their entries in one of two orders.
MCHash == [o \in Objset |->
             IF o % 2 = 1 THEN [c \in Component |-> CASE c = "a" -> 1 [] c = "b" -> 2 [] c = "x" -> 3]
                          ELSE [c \in Component |-> CASE c = "a" -> 3 [] c = "b" -> 2 [] c = "x" -> 1]]

NoneMountable == {}
UnitConfigs == [P \in SUBSET Pool |-> 1]
UnitStats == [p \in Pool |-> 1]
UnitProps == [d \in Dataset |-> 1]

\* One small pool, one pool too large for a new buffer, and a dataset with too
\* many properties for one; the datasets are mounted and unmounted.
RetryPool == {"p", "q"}
RetryDataset == {"p/a", "p/b"}
RetryComponent == {"a", "b"}
RetryParent == [d \in RetryDataset |-> "p"]
RetryLeaf == "p/a" :> "a" @@ "p/b" :> "b"
RetryPoolOf == "p" :> "p" @@ "p/a" :> "p" @@ "p/b" :> "p" @@ "q" :> "q"
RetryInitNs == "p" :> 1 @@ "p/a" :> 2 @@ "p/b" :> 3 @@ "q" :> 4
LargeConfigs == [P \in SUBSET Pool |-> IF P = Pool THEN 3 ELSE 1]
LargeStats == [p \in Pool |-> IF p = "q" THEN 3 ELSE 1]
LargeProps == [d \in Dataset |-> IF d = "p/b" THEN 3 ELSE 1]
=============================================================================
