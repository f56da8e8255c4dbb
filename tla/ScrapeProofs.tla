---------------------------- MODULE ScrapeProofs -----------------------------
(***************************************************************************)
(* Collector implements the safety part of Scrape: every step of the scan  *)
(* is a step of Scrape, or none, in the eyes of Collect, which calls it.   *)
(***************************************************************************)
EXTENDS CollectorProofs

\* Metrics for one more name, as Collect sees them.
LEMMA SentAppend ==
  ASSUME NEW T, out \in Seq(T), NEW m \in T, out' = Append(out, m)
  PROVE  SentFor' = Append(SentFor, m.name)
<1>. DEFINE n == Len(out)
<1>1. /\ n \in Nat
      /\ DOMAIN out = 1 .. n
      /\ DOMAIN out' = 1 .. (n + 1)
      /\ out'[n + 1] = m
      /\ \A i \in 1 .. n : out'[i] = out[i]
  BY AppendProperties, LenProperties
<1>. HIDE DEF n
<1>. DEFINE N == {out[i].name : i \in 1 .. n} \cup {m.name}
            s == [i \in 1 .. n |-> out[i].name]
<1>2. SentFor = s
  BY <1>1 DEF SentFor
<1>3. s \in [1 .. n -> N]
  OBVIOUS
<1>4. s \in Seq(N)
  BY <1>1, <1>3
<1>5. Len(s) = n
  BY <1>1
<1>. HIDE DEF N, s
<1>6. m.name \in N
  BY DEF N
<1>7. /\ DOMAIN Append(s, m.name) = 1 .. (n + 1)
      /\ \A i \in 1 .. n : Append(s, m.name)[i] = s[i]
      /\ Append(s, m.name)[n + 1] = m.name
      /\ Append(s, m.name) \in Seq(N)
  BY <1>1, <1>4, <1>5, <1>6, AppendProperties
<1>8. Append(s, m.name) = [i \in 1 .. (n + 1) |-> Append(s, m.name)[i]]
  BY <1>1, <1>4, <1>5, <1>6, <1>7
<1>9. \A i \in 1 .. (n + 1) : out'[i].name = Append(s, m.name)[i]
  BY <1>1, <1>7 DEF s
<1>. QED
  BY <1>1, <1>2, <1>8, <1>9 DEF SentFor

LEMMA SameSent == out' = out => SentFor' = SentFor
BY DEF SentFor

LEMMA NamesSent == Caller!SentNames = Reported
BY DEF SentFor, Caller!SentNames, Reported

LEMMA BeginStep ==
  ASSUME ScanInv, ScanInv', Collect
  PROVE  Caller!Begin
<1>1. pc = "idle" /\ pc' = "configs" /\ Verdict' = "none" /\ stable' \subseteq Name
  BY DEF Collect, Verdict, ScanInv, TypeOK
<1>2. SentFor' = <<>>
  BY DEF Collect, SentFor
<1>. QED
  BY <1>1, <1>2 DEF Caller!Begin

LEMMA ChangeStep ==
  ASSUME Administer
  PROVE  Caller!Change
<1>1. /\ stable' \subseteq stable
      /\ pc' = pc /\ SentFor' = SentFor /\ Verdict' = Verdict
  BY DEF Administer, collectVars, SentFor, Verdict
<1>. QED
  BY <1>1 DEF Caller!Change

\* The steps between two metrics.
LEMMA QuietStep ==
  ASSUME \/ PoolConfigs \/ GrowConfigs \/ NextPool \/ GrowStats
         \/ ListNext \/ GrowProps \/ ListEnd
  PROVE  UNCHANGED Caller!scrapeVars
<1>1. pc # "idle" /\ pc' # "idle" /\ UNCHANGED <<out, result, stable>>
  BY DEF PoolConfigs, GrowConfigs, NextPool, GrowStats, ListNext, GrowProps, ListEnd
<1>2. SentFor' = SentFor /\ Verdict' = Verdict
  BY <1>1 DEF SentFor, Verdict
<1>. QED
  BY <1>1, <1>2 DEF Caller!scrapeVars

LEMMA StatsMaySend ==
  ASSUME ScanInv, pc = "stats"
  PROVE  cmd.name \in Name /\ Caller!MaySend(cmd.name)
<1>1. cmd.name \in Pool /\ cmd.name \notin Reported
  BY DEF ScanInv, TypeOK, OnceInv
<1>. QED
  BY <1>1, NamesSent DEF Name, Caller!MaySend

LEMMA ListedMaySend ==
  ASSUME ScanInv, pc = "kstat"
  PROVE  listed.name \in Name /\ Caller!MaySend(listed.name)
<1>1. listed.name \in Dataset /\ Parent[listed.name] = Top.prefix
  BY DEF ScanInv, TypeOK, WalkInv, Listed
<1>2. listed.name \in Reported => Parent[listed.name] \notin stable
  BY <1>1 DEF ScanInv, WalkInv
<1>3. DOMAIN Parent = Dataset
  BY NameAssumption
<1>. QED
  BY <1>1, <1>2, <1>3, NamesSent DEF Name, Caller!MaySend

LEMMA PoolSent ==
  ASSUME ScanInv, pc = "stats", out' = Append(out, [name |-> cmd.name])
  PROVE  SentFor' = Append(SentFor, cmd.name)
<1>1. [name |-> cmd.name] \in PoolMetrics
  BY DEF ScanInv, TypeOK, PoolMetrics
<1>2. out \in Seq(PoolMetrics \cup DatasetMetrics)
  BY DEF ScanInv, TypeOK
<1>. QED
  BY <1>1, <1>2, SentAppend

LEMMA PoolStatsStep ==
  ASSUME ScanInv, PoolStats
  PROVE  Caller!Send
<1>1. /\ pc = "stats" /\ pc' = "list" /\ stable' = stable /\ Verdict' = Verdict
      /\ out' = Append(out, [name |-> cmd.name])
  BY DEF PoolStats, Verdict
<1>. QED
  BY <1>1, StatsMaySend, PoolSent DEF Caller!Send

LEMMA HandleDatasetStep ==
  ASSUME ScanInv, HandleDataset
  PROVE  Caller!Send
<1>1. /\ pc = "kstat" /\ pc' = "list" /\ stable' = stable /\ Verdict' = Verdict
  BY DEF HandleDataset, Verdict
<1>. DEFINE m == [name |-> listed.name, objset |-> listed.objset, kstat |-> KStat(listed.objset)]
<1>2. out' = Append(out, m) /\ m.name = listed.name
  BY DEF HandleDataset
<1>3. m \in DatasetMetrics
  BY <1>1 DEF ScanInv, TypeOK, Listed, DatasetMetrics, KStat
<1>4. out \in Seq(PoolMetrics \cup DatasetMetrics)
  BY DEF ScanInv, TypeOK
<1>. HIDE DEF m
<1>5. SentFor' = Append(SentFor, listed.name)
  BY <1>2, <1>3, <1>4, SentAppend
<1>. QED
  BY <1>1, <1>5, ListedMaySend DEF Caller!Send

LEMMA LastPoolStep ==
  ASSUME ScanInv, ScanInv', LastPool
  PROVE  Caller!Succeed \/ Caller!Fail
<1>1. /\ pc = "pool" /\ pc' = "idle" /\ out' = out /\ stable' = stable
      /\ result' \in {"ok", "decode"}
  BY DEF LastPool, Return
<1>2. SentFor' = SentFor /\ Reported' = Reported
  BY <1>1 DEF SentFor, Reported
<1>3. CASE result' = "ok"
  <2>1. stable \subseteq Reported
    BY <1>1, <1>2, <1>3 DEF ScanInv, CoverInv, CleanScrapeIsComplete
  <2>2. Verdict' = "ok"
    BY <1>3 DEF Verdict
  <2>. QED
    BY <1>1, <1>2, <2>1, <2>2, NamesSent DEF Caller!Succeed
<1>4. CASE result' = "decode"
  <2>1. Verdict' = "failed"
    BY <1>4 DEF Verdict
  <2>. QED
    BY <1>1, <1>2, <2>1 DEF Caller!Fail
<1>. QED
  BY <1>1, <1>3, <1>4

LEMMA FailStep ==
  ASSUME ScanInv, PoolStatsFails \/ PropsFail \/ OtherError \/ VdevExportFails
  PROVE  Caller!Fail
<1>1. /\ pc # "idle" /\ pc' = "idle" /\ stable' = stable
      /\ result' \in {"errno", "decode"}
  BY DEF PoolStatsFails, PropsFail, OtherError, VdevExportFails, Return
<1>2. Verdict' = "failed"
  BY <1>1 DEF Verdict
<1>3. CASE out' = out
  BY <1>1, <1>2, <1>3, SameSent DEF Caller!Fail
<1>4. CASE VdevExportFails
  <2>1. pc = "stats" /\ out' = Append(out, [name |-> cmd.name])
    BY <1>4 DEF VdevExportFails
  <2>. QED
    BY <1>1, <1>2, <2>1, StatsMaySend, PoolSent DEF Caller!Fail
<1>. QED
  BY <1>3, <1>4 DEF PoolStatsFails, PropsFail, OtherError

LEMMA ScrapeStep ==
  ASSUME ScanInv, ScanInv', [Next]_vars
  PROVE  [Caller!Next]_Caller!scrapeVars
<1>1. CASE UNCHANGED vars
  BY <1>1 DEF vars, collectVars, Caller!scrapeVars, SentFor, Verdict
<1>2. CASE Collect \/ Administer
  BY <1>2, BeginStep, ChangeStep DEF Caller!Next
<1>3. CASE CollectStep
  BY <1>3, QuietStep, PoolStatsStep, HandleDatasetStep, LastPoolStep, FailStep
  DEF CollectStep, Progress, Caller!Next
<1>. QED
  BY <1>1, <1>2, <1>3 DEF Next

(***************************************************************************)
(* For every tree of names, size of responses and interleaving, under      *)
(* RetrySafe, what Collect sees of collect is a scrape: metrics only while *)
(* it runs, no name again while its place is what it was, and a return     *)
(* without error only when all that stayed was sent (main.go:563-743).     *)
(***************************************************************************)
THEOREM CollectorImplementsScrape ==
  ASSUME RetrySafe
  PROVE  Spec => ImplementsScrapeSafely
<1>1. Init => Caller!Init
  BY DEF Init, Caller!Init, SentFor, Verdict
<1>2. Init => ScanInv
  BY InitScan
<1>3. ScanInv /\ [Next]_vars => ScanInv'
  BY NextScan
<1>4. ScanInv /\ ScanInv' /\ [Next]_vars => [Caller!Next]_Caller!scrapeVars
  BY ScrapeStep
<1>. QED
  BY <1>1, <1>2, <1>3, <1>4, PTL DEF Spec, ImplementsScrapeSafely, Caller!SafeSpec
=============================================================================
