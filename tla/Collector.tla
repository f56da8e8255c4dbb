----------------------------- MODULE Collector ------------------------------
(***************************************************************************)
(* One call of zfsCollector.Collect after another (main.go), with the      *)
(* retry loop of ZFSHandle.Ioctl (zfs/ioctl/ioctl.go) under it, while      *)
(* administrators change the pools and datasets (ZfsNamespace).            *)
(*                                                                         *)
(* One action is one system call and the code up to the next one: that is  *)
(* where the kernel's state can change under the exporter.  cmd is the one *)
(* ioctl.Cmd that all levels of findDatasetsRecursive share; the frames of *)
(* stack hold what is local to a level, its prefix and its cookie.         *)
(***************************************************************************)
EXTENDS ZfsNamespace, Sequences

CONSTANTS
  RespSize,     \* length of a new response buffer (256*1024)
  ConfigsSize,  \* ConfigsSize[P]: packed size of the ZFS_IOC_POOL_CONFIGS
                \* response when the pools are P
  StatsSize,    \* StatsSize[p]: packed size of p's ZFS_IOC_POOL_STATS response
  PropsSize,    \* PropsSize[d]: packed size of d's properties
  CmdWrittenOnENOMEM  \* does the kernel write the name and the cookie it found
                      \* into Cmd even when the properties do not fit?

ASSUME SizeAssumption ==
  /\ RespSize \in Nat \ {0}
  /\ ConfigsSize \in [SUBSET Pool -> Nat]
  /\ StatsSize \in [Pool -> Nat]
  /\ PropsSize \in [Dataset -> Nat]
  /\ CmdWrittenOnENOMEM \in BOOLEAN

VARIABLES
  pc,        \* the next system call
  configs,   \* collect's response: length of the buffer, size of the list in it
  todo,      \* pools of the POOL_CONFIGS response not read yet
  cmd,       \* Name and Cookie of handlePool's ioctl.Cmd
  resp,      \* length of handlePool's response buffer
  stack,     \* the active calls of findDatasetsRecursive, outermost first
  listed,    \* name and props.objsetid of the innermost call
  out,       \* what was sent to the metrics channel
  result,    \* what the last collect returned: ok, errno, decode, or none yet
  stable,    \* observer: names bound to one object since collect began
  steady     \* observer: object sets mounted since collect began

collectVars == <<pc, configs, todo, cmd, resp, stack, listed, out, result>>
vars == <<kernelVars, collectVars, stable, steady>>

Frame == [prefix : Name, cookie : Nat]
Listed == [name : Dataset, objset : Objset]
PoolMetrics == [name : Pool]
DatasetMetrics == [name : Dataset, objset : Objset, kstat : Objset \cup {None}]

NoConfigs == [len |-> RespSize, size |-> 0]
NoCmd == [name |-> None, cookie |-> 0]
NoListed == [name |-> None, objset |-> None]

\* The names metrics were sent for.
Reported == {out[i].name : i \in DOMAIN out}

Init ==
  /\ KernelInit
  /\ pc = "idle"
  /\ configs = NoConfigs
  /\ todo = {}
  /\ cmd = NoCmd
  /\ resp = RespSize
  /\ stack = <<>>
  /\ listed = NoListed
  /\ out = <<>>
  /\ result = "none"
  /\ stable = {}
  /\ steady = {}

-----------------------------------------------------------------------------
(* zfs/ioctl and zfs/nvlist, as collect and handlePool see them. *)

\* ENOMEM: the response does not fit the buffer, which Ioctl then replaces by
\* one of exactly the length the kernel asks for before it tries again.
Fits(size, len) == size <= len

\* A retry that keeps the length it had.
MutantRequiredLength(size, len) == len

RequiredLength(size, len) == size

\* NVListReader refuses a read that ends at the end of the buffer, so a list
\* is only read to its end when the buffer is longer than it.
Decodes(size, len) == size < len

\* A level that starts over at every request.
MutantRestartRequest(f) == [name |-> f.prefix, cookie |-> 0]

\* A level that continues at the shared Cmd's cookie instead of its own.
MutantSharedRequest(f) == [name |-> f.prefix, cookie |-> cmd.cookie]

\* cmd.Clear, cmd.SetName(prefix), cmd.Cookie = cookie: the request of a level.
Request(f) == [name |-> f.prefix, cookie |-> f.cookie]

\* What the kernel leaves in cmd when d's properties do not fit.
AfterENOMEM(d) ==
  IF CmdWrittenOnENOMEM THEN [name |-> d, cookie |-> Position(cmd.name, d)] ELSE cmd

-----------------------------------------------------------------------------
(* collect *)

\* An error that does not unwind the levels.
MutantReturn(res) ==
  /\ pc' = "idle"
  /\ result' = res
  /\ UNCHANGED <<configs, todo, cmd, resp, stack, listed>>

\* Leave collect and everything under it.
Return(res) ==
  /\ pc' = "idle"
  /\ result' = res
  /\ configs' = NoConfigs
  /\ todo' = {}
  /\ cmd' = NoCmd
  /\ resp' = RespSize
  /\ stack' = <<>>
  /\ listed' = NoListed

\* A collector that still has the metrics of the last scrape.
MutantCollect ==
  /\ pc = "idle"
  /\ pc' = "configs"
  /\ result' = "none"
  /\ stable' = Live
  /\ steady' = mounted
  /\ UNCHANGED <<kernelVars, configs, todo, cmd, resp, stack, listed, out>>

\* The registry calls Collect for a scrape.
Collect ==
  /\ pc = "idle"
  /\ pc' = "configs"
  /\ result' = "none"
  /\ out' = <<>>
  /\ stable' = Live
  /\ steady' = mounted
  /\ UNCHANGED <<kernelVars, configs, todo, cmd, resp, stack, listed>>

\* Ioctl(ZFS_IOC_POOL_CONFIGS): the pools there are now.
PoolConfigs ==
  /\ pc = "configs"
  /\ Fits(ConfigsSize[LivePools], configs.len)
  /\ pc' = "pool"
  /\ todo' = LivePools
  /\ configs' = [configs EXCEPT !.size = ConfigsSize[LivePools]]
  /\ UNCHANGED <<kernelVars, cmd, resp, stack, listed, out, result, stable, steady>>

GrowConfigs ==
  /\ pc = "configs"
  /\ ~Fits(ConfigsSize[LivePools], configs.len)
  /\ configs' = [configs EXCEPT !.len = RequiredLength(ConfigsSize[LivePools], configs.len)]
  /\ UNCHANGED <<kernelVars, pc, todo, cmd, resp, stack, listed, out, result, stable, steady>>

\* The loop of collect reads the next pool and enters handlePool.
NextPool ==
  /\ pc = "pool"
  /\ \E p \in todo :
       /\ todo' = todo \ {p}
       /\ cmd' = [name |-> p, cookie |-> 0]
  /\ resp' = RespSize
  /\ pc' = "stats"
  /\ UNCHANGED <<kernelVars, configs, stack, listed, out, result, stable, steady>>

\* The loop of collect reads the end of the list.
LastPool ==
  /\ pc = "pool"
  /\ todo = {}
  /\ Return(IF Decodes(configs.size, configs.len) THEN "ok" ELSE "decode")
  /\ UNCHANGED <<kernelVars, out, stable, steady>>

-----------------------------------------------------------------------------
(* handlePool *)

\* Ioctl(ZFS_IOC_POOL_STATS), the metrics of the pool and of its vdevs, and the
\* first request of findDatasetsRecursive(poolName).
PoolStats ==
  /\ pc = "stats"
  /\ cmd.name \in Live
  /\ Decodes(StatsSize[cmd.name], resp)
  /\ LET f == [prefix |-> cmd.name, cookie |-> 0]
     IN  /\ out' = Append(out, [name |-> cmd.name])
         /\ stack' = <<f>>
         /\ cmd' = Request(f)
  /\ pc' = "list"
  /\ UNCHANGED <<kernelVars, configs, todo, resp, listed, result, stable, steady>>

GrowStats ==
  /\ pc = "stats"
  /\ cmd.name \in Live
  /\ ~Fits(StatsSize[cmd.name], resp)
  /\ resp' = RequiredLength(StatsSize[cmd.name], resp)
  /\ UNCHANGED <<kernelVars, pc, configs, todo, cmd, stack, listed, out, result, stable, steady>>

\* A pool that is gone taken for the end of the list of pools.
MutantPoolStatsFails ==
  /\ pc = "stats"
  /\ cmd.name \notin Live
  /\ Return("ok")
  /\ UNCHANGED <<kernelVars, out, stable, steady>>

\* The pool is gone (ENOENT), or its response cannot be read to the end.
PoolStatsFails ==
  /\ pc = "stats"
  /\ \/ cmd.name \notin Live /\ Return("errno")
     \/ /\ cmd.name \in Live
        /\ Fits(StatsSize[cmd.name], resp)
        /\ ~Decodes(StatsSize[cmd.name], resp)
        /\ Return("decode")
  /\ UNCHANGED <<kernelVars, out, stable, steady>>

\* NewConstMetric refuses a label of a vdev: the pool's own metrics were sent.
VdevExportFails ==
  /\ pc = "stats"
  /\ cmd.name \in Live
  /\ Decodes(StatsSize[cmd.name], resp)
  /\ out' = Append(out, [name |-> cmd.name])
  /\ Return("errno")
  /\ UNCHANGED <<kernelVars, stable, steady>>

-----------------------------------------------------------------------------
(* findDatasetsRecursive *)

\* Ioctl(ZFS_IOC_DATASET_LIST_NEXT) finds d: the level keeps the cursor, the
\* name and the object set id of d for itself.
ListNext ==
  /\ pc = "list"
  /\ \E d \in Dataset :
       /\ IsNextEntry(cmd.name, cmd.cookie, d)
       /\ Decodes(PropsSize[d], resp)
       /\ cmd' = [name |-> d, cookie |-> Position(cmd.name, d)]
       /\ stack' = [stack EXCEPT ![Len(stack)].cookie = cmd'.cookie]
       /\ listed' = [name |-> d, objset |-> ns[d]]
  /\ pc' = "kstat"
  /\ UNCHANGED <<kernelVars, configs, todo, resp, out, result, stable, steady>>

\* The properties of d do not fit: Ioctl grows the buffer and makes the call
\* again with cmd as the kernel left it.
GrowProps ==
  /\ pc = "list"
  /\ \E d \in Dataset :
       /\ IsNextEntry(cmd.name, cmd.cookie, d)
       /\ ~Fits(PropsSize[d], resp)
       /\ resp' = RequiredLength(PropsSize[d], resp)
       /\ cmd' = AfterENOMEM(d)
  /\ UNCHANGED <<kernelVars, pc, configs, todo, stack, listed, out, result, stable, steady>>

PropsFail ==
  /\ pc = "list"
  /\ \E d \in Dataset :
       /\ IsNextEntry(cmd.name, cmd.cookie, d)
       /\ Fits(PropsSize[d], resp)
       /\ ~Decodes(PropsSize[d], resp)
  /\ Return("decode")
  /\ UNCHANGED <<kernelVars, out, stable, steady>>

\* A level that asks again when nothing is left.
MutantListEnd ==
  /\ pc = "list"
  /\ Remaining(cmd.name, cmd.cookie) = {}
  /\ cmd' = Request(stack[Len(stack)])
  /\ UNCHANGED <<kernelVars, pc, configs, todo, resp, stack, listed, out, result, stable, steady>>

\* ESRCH: nothing left under the prefix, or the prefix is gone.  The level
\* returns and its caller makes its next request; the outermost one returns
\* from handlePool, and collect skips the rest of the pool's configuration.
ListEnd ==
  /\ pc = "list"
  /\ Remaining(cmd.name, cmd.cookie) = {}
  /\ stack' = SubSeq(stack, 1, Len(stack) - 1)
  /\ IF Len(stack) = 1
     THEN pc' = "pool" /\ cmd' = NoCmd /\ resp' = RespSize
     ELSE UNCHANGED <<pc, resp>> /\ cmd' = Request(stack[Len(stack) - 1])
  /\ UNCHANGED <<kernelVars, configs, todo, listed, out, result, stable, steady>>

\* The counters of whatever has the dataset's name now.
MutantKStat(o) ==
  IF ns[listed.name] \in mounted THEN ns[listed.name] ELSE None

\* Reading /proc/spl/kstat/zfs/<pool>/objset-0x<id>: a file that does not exist
\* leaves the counters at zero.
KStat(o) == IF o \in mounted THEN o ELSE None

\* The kstat of the listed dataset is read, its metrics are sent, and the
\* level below it makes its first request.
HandleDataset ==
  /\ pc = "kstat"
  /\ out' = Append(out, [name |-> listed.name, objset |-> listed.objset,
                         kstat |-> KStat(listed.objset)])
  /\ LET f == [prefix |-> listed.name, cookie |-> 0]
     IN  /\ stack' = Append(stack, f)
         /\ cmd' = Request(f)
  /\ listed' = NoListed
  /\ pc' = "list"
  /\ UNCHANGED <<kernelVars, configs, todo, resp, result, stable, steady>>

-----------------------------------------------------------------------------
\* Any other errno of an ioctl, an error other than "not exist" of the kstat
\* file, a kstat that does not parse, labels that handleDataset's first export
\* refuses: every level returns it, Collect logs it.
OtherError ==
  /\ pc \in {"configs", "stats", "list", "kstat"}
  /\ Return("errno")
  /\ UNCHANGED <<kernelVars, out, stable, steady>>

\* What follows from the answer to a system call.
Progress ==
  \/ PoolConfigs \/ GrowConfigs \/ NextPool \/ LastPool
  \/ PoolStats \/ GrowStats \/ PoolStatsFails
  \/ ListNext \/ GrowProps \/ PropsFail \/ ListEnd
  \/ HandleDataset

CollectStep == Progress \/ VdevExportFails \/ OtherError

Administer ==
  /\ KernelStep
  /\ stable' = {n \in stable : ns'[n] = ns[n]}
  /\ steady' = steady \cap mounted'
  /\ UNCHANGED collectVars

Next == Collect \/ CollectStep \/ Administer

Spec == Init /\ [][Next]_vars

\* The goroutine the registry started for Collect runs and its system calls
\* return; neither administrators nor further scrapes nor the errors that would
\* end a scrape early are under any obligation.
FairSpec == Spec /\ WF_vars(Progress)

-----------------------------------------------------------------------------
TypeOK ==
  /\ KernelTypeOK
  /\ pc \in {"idle", "configs", "pool", "stats", "list", "kstat"}
  /\ configs \in [len : Nat \ {0}, size : Nat]
  /\ todo \subseteq Pool
  /\ cmd \in [name : Name \cup {None}, cookie : Nat]
  /\ resp \in Nat \ {0}
  /\ stack \in Seq(Frame)
  /\ listed \in Listed \cup {NoListed}
  /\ out \in Seq(PoolMetrics \cup DatasetMetrics)
  /\ result \in {"none", "ok", "errno", "decode"}
  /\ stable \subseteq Name
  /\ steady \subseteq Objset
  /\ pc \in {"list", "kstat"} <=> stack # <<>>
  /\ pc = "stats" => cmd.name \in Pool
  /\ pc = "list" => cmd.name \in Name
  /\ pc = "kstat" => listed \in Listed

(***************************************************************************)
(* The registry is pedantic: one metric collected twice with the same      *)
(* labels fails the whole scrape.  A pool is reported at most once, and a  *)
(* dataset twice only when the directory it was listed from was created,   *)
(* destroyed, renamed or replaced while collect ran (main.go:644-694).     *)
(***************************************************************************)
ReportedOnce ==
  \A i, j \in DOMAIN out :
    i < j /\ out[i].name = out[j].name =>
      out[i].name \in Dataset /\ Parent[out[i].name] \notin stable

(***************************************************************************)
(* When collect returns nil, every pool and dataset that existed, as the   *)
(* same object, for the whole scrape was reported, whatever was created,   *)
(* destroyed, renamed, exported or imported beside it.  A level that finds *)
(* its prefix gone returns nil too (main.go:652), so this is where a       *)
(* dataset could be lost without a trace in the log.                       *)
(***************************************************************************)
CleanScrapeIsComplete ==
  pc = "idle" /\ result = "ok" => stable \subseteq Reported

(***************************************************************************)
(* Properties and kstats are two reads of the kernel with steps of others  *)
(* between them.  The counters reported with a dataset are those of the    *)
(* object its properties came from, also when another dataset took its     *)
(* name in between; a dataset that stayed mounted is not reported with the *)
(* zeros of an unmounted one (main.go:658-684).                            *)
(***************************************************************************)
OwnCounters ==
  \A i \in DOMAIN out :
    out[i].name \in Dataset =>
      /\ out[i].kstat \in {None, out[i].objset}
      /\ out[i].objset \in steady => out[i].kstat = out[i].objset
      /\ out[i].name \in stable => out[i].objset = ns[out[i].name]

(***************************************************************************)
(* Collect returns, however busy the administrators are: no churn of names *)
(* keeps findDatasetsRecursive going for ever (main.go:647-694).  Where    *)
(* responses do not fit and Ioctl tries again, ImplementsScrape has it.    *)
(***************************************************************************)
ScrapeEnds == pc # "idle" ~> pc = "idle"

-----------------------------------------------------------------------------
(* collect as Collect sees it. *)

SentFor == [i \in DOMAIN out |-> out[i].name]

\* nil or an error, which Collect logs: the registry does not get it.
Verdict == IF result \in {"errno", "decode"} THEN "failed" ELSE result

Caller == INSTANCE Scrape WITH
  Origin <- Parent,
  running <- pc # "idle",
  kept <- stable,
  sent <- SentFor,
  verdict <- Verdict

(***************************************************************************)
(* The scan with its levels, cookies, buffers and retries does nothing     *)
(* that Scrape does not: metrics go out only between the call and the      *)
(* return of collect (main.go:703-736), at most one name per step, and the *)
(* error or nil it returns, which is what Collect logs, fits what was sent.*)
(***************************************************************************)
ImplementsScrapeSafely == Caller!SafeSpec

(***************************************************************************)
(* The same, and collect returns, also where responses exceed the buffer   *)
(* and change while Ioctl asks again (zfs/ioctl/ioctl.go:39-72).           *)
(***************************************************************************)
ImplementsScrape == Caller!Spec
=============================================================================
