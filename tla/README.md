# TLA+ models of prometheus-zfs-exporter

The exporter answers a Prometheus scrape by asking the ZFS kernel module, through
ioctls on `/dev/zfs` and files under `/proc/spl/kstat/zfs`, for its pools, their
vdevs and their datasets, while administrators change all of them. These modules
model the scan and the export (`main.go`), the ioctl wrapper and the life of the
process (`zfs/ioctl`, `main`), the decoding of packed nvlists (`zfs/nvlist`) and of
kstat files (`zfs/kstat`), check them with TLC on small instances, and prove the
safety of the decoding (of nvlists, of structs and of kstat files), the scan, the
export of vdevs and the start for every instance with TLAPS.

## 1. The system

| Part | State | Operations | Correct when |
|---|---|---|---|
| Scan: `Collect`, `collect`, `handlePool`, `findDatasetsRecursive` (`main.go:563-743`) | the pools still to read, one `Cmd` and one response buffer per pool, prefix and cookie per level | one ioctl after another, metrics sent on the way, an error leaves everything | a scrape without error misses nothing, nothing is sent twice, it ends |
| `ZFSHandle.Ioctl`, `Cmd` (`zfs/ioctl/ioctl.go`) | `Cmd`, the response buffer | the call, repeated with a larger buffer after `ENOMEM` | a repeated call answers the question that was asked |
| `NVListReader` (`zfs/nvlist/decode.go`) | buffer and position, the current pair | `Next`, `Skip`, the accessors | reads what was packed, refuses what it cannot read |
| Parsers: loops of `collect` and `handlePool`, `parseVdevs`, `parseProps`, `parseValue` | one shared reader, the recursion | look for pairs by name and type, call each other for nested lists | each value ends up in the object it was packed for |
| `NVListReader.Unmarshal` into structs (`zfs/nvlist/decode.go:436-606`) | the reader, the values being filled in | sets fields by name, calls itself for nested lists | fields and maps have what was packed for them |
| `handleVdev`, `parseVdevStats`, `util.go` | the recursion, the name of the parent | names, labels, one-hot states | no vdev is lost or sent twice, labels collide only where they must, one state is 1 if there is one |
| Kstat reader and `parseKStat` (`zfs/kstat/decode.go`, `main.go:404-449`) | text and position | reads up to the next delimiter | a row is a line, a cut file is an error |
| Process: `main`, `setup`, `NewZFSHandleWithPath`, HTTP (`main.go:745-782`, `ioctl.go:19-35`, `nixos/module.nix`) | `/dev/zfs`, the handle, the requests | open, create the node, open again, listen, answer, exit, restart | what is opened is the ZFS device, the service recovers |
| `handleDataset`, descriptors (`main.go:27-133`, `218-301`) | descriptors | send twelve gauges, register | straight-line code |
| The ZFS kernel module (external) | names, objects, mounts | create, destroy, rename, export, import, mount, unmount | assumed |

How they interact: the registry calls `Collect` in a goroutine of its own;
`collect` calls `handlePool` for each pool while it is in the middle of reading the
list of pools; `handlePool` and all levels of `findDatasetsRecursive` share one
`Cmd` and one buffer; all parsers of one response share one reader. Scrapes share
nothing but the file descriptor and the descriptors, which are written before the
first of them, so concurrent scrapes are as many copies of one scrape.

What is hard about it: between any two system calls the namespace may change under
the scan, a cookie outlives the directory it is a position in, `ESRCH` means two
things, `ENOMEM` repeats a call with a `Cmd` that was written to, the properties and
the counters of a dataset are read at different times, and the parsers have no check
that they are in the list they think they are in. Pairs may be missing or of types
nobody expected. The kstat reader knows delimiters
and no lines. What a start leaves in `/dev` is there for the next. `PROJECT.json` lists these hazards
with their lines and the properties that cover them.

## 2. The modules

                      Scrape
                         |  (Collector implements it)
    ZfsNamespace --- Collector ------ MCCollector          (TLC)
      (external)         \----------- CollectorProofs --- ScrapeProofs  (TLAPS)

    NVListReader --- Parsers -------- MCParsers            (TLC)
       |   |  \      Unmarshal ------ MCUnmarshal          (TLC)
       |   |   \------ NVPack  (external; used by both MC modules)
       |   \-------- NVListReaderProofs                    (TLAPS)
       |                |    \------- ParsersProofs        (with Parsers)
       |                \------------ UnmarshalProofs      (with Unmarshal)

    KStatReader --------------------- MCKStatReader        (TLC)
         \--------------------------- KStatReaderProofs    (TLAPS)
    VdevExport ---------------------- MCVdevExport         (TLC)
         \--------------------------- VdevExportProofs     (TLAPS)
    Exporter  (run as it is)
         \--------------------------- ExporterProofs       (TLAPS)

**ZfsNamespace** is the kernel as the exporter sees it. `ns` binds names to object
sets, ids are not reused, `mounted` are the object sets that have a kstat file. A
directory lists its entries in an order of its own (`Hash`), so a cookie kept while
another directory takes the name means something else there. Administrators take
one step of `KernelStep` between any two steps of the exporter. Assumptions: names
form finite-depth trees, no two entries of a directory share a position.

**Collector** has one action per system call, with the code up to the next one.

| Action | Code |
|---|---|
| `Collect` | `Collect` is called |
| `PoolConfigs`, `GrowConfigs` | the ioctl `ZFS_IOC_POOL_CONFIGS`, its retry |
| `NextPool`, `LastPool` | the loop of `collect`: the next pair, the end of the list |
| `PoolStats`, `GrowStats`, `PoolStatsFails`, `VdevExportFails` | `ZFS_IOC_POOL_STATS`, the pool's metrics, `handleVdev`, the first request of the outermost level |
| `ListNext`, `GrowProps`, `PropsFail`, `ListEnd` | `ZFS_IOC_DATASET_LIST_NEXT` finds a dataset, does not fit, is not decoded, returns `ESRCH` |
| `HandleDataset` | the kstat file is read, the metrics are sent, the next level is entered |
| `OtherError` | any other errno, an unreadable or malformed kstat |

`stack` holds prefix and cookie of the active levels, `cmd` is the one `Cmd` they
share, `resp` the length of the buffer they share. Metrics are reduced to the name
they are sent for, the object the properties came from and the object the counters
came from. Sizes of responses are constants; `Fits` and `Decodes` say what the buffer
allows (`Decodes` is what `ParsersProofs!RefusesOnlyUnreadable` establishes for the
reader: a list is read only when a byte is to spare). `stable` and `steady` are
observers: the names bound to one object, and the object sets mounted, since the
scrape began. `CmdWrittenOnENOMEM` says whether the kernel has written the name and
the cookie of what it found when it reports that the properties do not fit.

**NVListReader** describes a packed list as cells (pairs and end marks) at offsets;
`pending[o]` gives the lists that have not ended at `o`, which is what the bytes mean
and what no variable of the code holds. `WellFormed` is the native encoding; the
identities in it are the models' own, so each list has one for itself (`DistinctLists`),
without which "the list a value was taken from" would mean nothing. Pairs have any of
the types of `consts.go`; `Nested` tells those whose value is more lists. A buffer has an
encoding and a byte order; `HeaderOK` and `ReadError` are `readNvHeader` with its three
errors. `Readable`, `AtEnd`, `AtPair` and `NextPos` are `Next` with its bounds checks.

**Parsers** is the mutual recursion with its call stack: `LooksFor`, `Refuses`,
`Keeps`, `Callee` and `Loops` say what each function does with a pair, `ReadPair`
and `ReadEnd` are one call of `Next` with everything up to the following one.
`got` records, per object, from which list the value under a name was taken.

**Scrape** is what `collect` does in the eyes of `Collect`, without pools, levels, cookies
or buffers: metrics arrive for one name after another, a name comes
again only when what it was found in is no longer what it was, an `ok` scrape has
sent everything that stayed, and a scrape ends. `Collector!Caller` instantiates it:
`kept` is `stable`, `sent` the names in `out`, `verdict` whether `collect` returned nil.
`Collect` only logs that error (`main.go:738-743`): the registry never sees the verdict,
and its client cannot tell a scrape that was broken off from a whole one.

**Unmarshal** is the recursion of `NVListReader.Unmarshal` into structs and into
`map[string]interface{}`. A field is of a Go type that a pair can be set to, a struct, a
map, an interface, or `Other` (a pointer, say); nested lists in interfaces become maps.
`Slot` is the place a pair goes to, `GoType` what it is set as, `Primitive` whether the
switch sets it at all (not `hrtime` and `double`), `Mismatch` where reflection panics,
`Refuses` where an error is returned (among others for the type unknown),
`Elements` which element of an array ends up where.

**KStatReader** reads files of tokens (spaces, line ends, words). `Hits` are the
delimiters ahead, `Prefix` the spaces that a column ignores; `ReadHeader`,
`ReadColumnHeaders`, `ReadName`, `ReadData`, `ReadEOF` and `ReadFails` are one read each with
what `parseKStat` does about it. `WellFormed` is the kernel's format; where the lines
end is known to it and to the properties, not to the reader.

**VdevExport** is `handlePool` from the answer of `ZFS_IOC_POOL_STATS` on: `ParsePanics`
(`parseVdevStats` indexes an array that is too short), `SendPool` or, for a response
without `vdev_tree`, `SendPoolPanics` (`handleVdev` gets a nil pointer), then one `HandleVdev`
per vdev with the calls still to come in `calls`, `HandleVdevFails` when the metrics
library refuses a label, `HandleVdevReturns`. Names are sequences of components. `Missing`
stands for a pair that is not in the response: the state of the pool, the statistics or
the path of a vdev. `WellFormed` has what the kernel guarantees of a tree: one parent for
each vdev but the root, no path for a vdev with children, the type `root` for no other.

**Exporter** is the process. `root` says whether it runs as root, as `nixos/module.nix`
has it, or as a user; both are in one instance (`Root`). `FirstOpen`, `Mknod`, `SecondOpen(Fails)` are the system calls
of `NewZFSHandleWithPath`, `Listen(Fails)` the end of `main`, `Answer` a collection with
one of its outcomes, `Panic` one that ends the process, `Restart` the service manager;
`Load`, `Unload`, `TakePort` and `FreePort` are the world around it. What `Mknod`
creates is computed from the mode in the code (`FileType(Mode)`).

**NVPack** packs lists given as tokens, for TLC only; the **MC** modules hold the
instances.

## 3. The runs

| Run | Checks | States | Result |
|---|---|---|---|
| `Collector_tree` | `TypeOK`, `ReportedOnce`, `CleanScrapeIsComplete`, `ImplementsScrapeSafely`, `ScrapeEnds` | 302,562 | pass |
| `Collector_pools` | `ReportedOnce`, `CleanScrapeIsComplete`, `OwnCounters`, `ImplementsScrape` | 75,015 | pass |
| `Collector_enomem` | `CleanScrapeIsComplete` | | violation |
| `Parsers_all` | `TypeOK`, `InStep`, `ParsedWhatWasPacked`, `InvalidIffUnreadable`, `ParseEnds` | 1,854 | pass |
| `Parsers_spares` | `ParsedWhatWasPacked` | | violation |
| `Parsers_noroom` | `NotInvalid` | | violation |
| `KStatReader_files` | `TypeOK`, `RowsAreLines`, `CountersAsWritten`, `RefusesOnlyDamaged`, `KStatEnds` | 3,071 | pass |
| `VdevExport_trees` | `TypeOK`, `EveryVdevOnce`, `LabelsDiffer`, `OneStateHolds` | 2,994 | pass |
| `Exporter_service` | `TypeOK`, `OpensTheDevice`, `RecoversUnlessFileMade` | 1,148 | pass |
| `Exporter_root` | `RecoversOnceLoaded` | | violation |
| `Unmarshal_known` | `TypeOK`, `FieldsAsPackedIfTaken` | 2,740 | pass |
| `Unmarshal_unknown` | `FieldsAsPacked` | | violation |

*CleanScrapeIsComplete*: if `collect` returned nil, all pools and datasets that
existed as the same object during the whole scrape were reported. *ReportedOnce*: a
name is reported twice only if the directory it was listed from was replaced or
created meanwhile; the pedantic registry fails a scrape with a duplicate. That exception
is real: with plain uniqueness TLC finds the scan inside `p/a` when `p/a` is moved away
and a new `p/a`, which lists its entries in another order, takes its place. *OwnCounters*:
counters come from the object the properties came from. *ImplementsScrapeSafely*,
*ImplementsScrape*: each step of the scan is a step of `Scrape` or invisible to
`Collect`, and (the latter) every scrape comes to a verdict, also with responses that
have to be asked for again. *ScrapeEnds*, *ParseEnds*: a scrape (whose responses fit at
once), a parse returns. *InStep*: the pending calls are
those of the lists that have not ended. *ParsedWhatWasPacked*: a parse that returned
nil stored exactly what was packed. *InvalidIffUnreadable*: the reader gives the right
reason when it refuses a list (another encoding, big endian, invalid data), and none of
the lists it cannot read is ever parsed to nil.

*RowsAreLines*: whenever the kstat reader begins a row it is at the beginning of a
line and has stored the rows before it. *CountersAsWritten*: `parseKStat` returns nil
only for a file that is not cut within a line (one cut at a line end counts as whole),
with the counters in it. *RefusesOnlyDamaged*: it fails only
for a cut file, another kind of kstat, or a counter that is no number.
*EveryVdevOnce*: a walk that returns nil has sent each vdev once, one that fails met a
name the metrics library refuses. *LabelsDiffer*: two vdevs have the same labels
(name and type; the pool is one) exactly if two siblings have the same name of their own
and the same type. *OneStateHolds*: one state gauge is 1 whatever number the kernel
reports, and none is if it reports no state. *OpensTheDevice*: a process that serves has open
what `/dev/zfs` is: the device of a loaded module or, as root only, a file that `Mknod`
made. *RecoversOnceLoaded*: with the module loaded and the port free for good, the
process serves from the device again and again. *RecoversUnlessFileMade*: what is left of
that if it may be root: it serves again and again from the device, or for ever from a
file that `Mknod` left there. *FieldsAsPacked*: structs and maps have what was packed for
them. *FieldsAsPackedIfTaken*: the same where no nested list lacks a place, for all pairs
but those the code drops or sets wrongly without an error (`Misread`: `hrtime`, `double`,
arrays of more than one string or boolean, arrays of bytes with padding).

Bounds. `Collector_tree`: one pool, two directories with a possible child each, so
that a level can be below a directory that is renamed, replaced by another one or
swapped; five object sets, one of them new, so that one name can be given to another
object; two orders of entries, alternating with the object's id. `Collector_pools`
and `Collector_enomem`: two pools, one of them with two mountable datasets, and up to
two new objects, so that a pool can be exported and imported again in one scrape;
buffers of length 2, responses of sizes 1 and 3, so that each of the three ioctls
meets a response that fits and one that does not, and the size of the list of pools
changes while it is asked for (in `Collector_enomem` only the properties do not fit,
and one object is new). `Parsers_all`: three
shapes of vdev trees up to depth three, empty and non-empty lists of pools,
properties that are exported and that are not, pairs of unexpected types, 0, 1 and 8
spare bytes, big endian lists and lists in another encoding; `MaxElements` is 3 and one
array has 4 elements.
`KStatReader_files`: rows with empty data, one word, words with a space, numbers; each
file is cut after every token. `VdevExport_trees`: a single
device with all states and five auxiliary states, a stripe of three and two mirrors
with a replacement, over all choices of four paths (one device of the mirrors is
fixed), of which two share a base name and one is no UTF-8, so that siblings share name
and type, or the name only; a file called `mirror-0` beside a mirror; statistics that
are one entry short and one longer; responses without state, statistics or vdevs.
`Exporter_*`: two clients, so that
one request brings down the other's, as root and as a user. `Unmarshal_known`: seven
struct types over lists nested three deep with arrays of one to three lists, and pairs of
the types that are set, dropped, set wrongly and refused; `MaxElements` is 8. The number of objects
bounds creation, not renaming: `ScrapeEnds` holds with unlimited renames.

Fairness. `WF(Progress)`, `WF(Walk)`, `WF(Parse)`: the goroutine the registry
starts runs and a system call returns; no error that would end a scrape early is
relied upon. The code has no timeout, so none of these would hold of an ioctl that
hangs in the kernel. `WF(Setup)`: a started process runs. `WF(Restart)`:
`nixos/module.nix:48-49` has `Restart = "always"` with five seconds between attempts,
which stays below the rate at which systemd gives up. Nothing is assumed of
administrators, of the module or the port, of the next scrape or the next request.

### What the violation runs show

* `Collector_enomem`: `Ioctl` repeats `DATASET_LIST_NEXT` with the `Cmd` of the failed
  call (`ioctl.go:65-69`). If that holds the found name and cookie, the retry lists the
  children of the dataset that did not fit, and the dataset is missing from a scrape
  that returned nil. `Collector_pools` shows that all is well if `Cmd` is left alone;
  restoring it before `continue` would be the repair.
* `Parsers_spares`: `parseVdevs` (`main.go:543`) calls `Skip` once for an array. With two
  spares the root vdev gets the values of the second one and `error_count` is lost.
  `handlePool` has the same form (`main.go:608`) for arrays of the pool's own list.
* `Parsers_noroom`: the reader refuses a list that fills its buffer (`decode.go:123`),
  and after `ENOMEM` `Ioctl` makes exactly such a buffer, so a response larger than
  256 KiB is never decoded.
* `Exporter_root`: `unix.Mknod(path, 666, ...)` (`ioctl.go:22`) has its mode in decimal and
  no `S_IFCHR` in it, so root makes a regular file when the module is not loaded yet,
  opens and serves from it, and the module cannot make its node any more: no restart
  helps. `Exporter_service` shows that this is all that can go wrong, and only as root.
* `Unmarshal_unknown`: `Unmarshal` into a struct neither reads nor skips a list that no
  field takes (`decode.go:554-563`), so the pairs of that list become the struct's own.

### Read in the code, not modelled as runs

The properties of a pool's root dataset are never exported (the scan starts below
it). A closed vdev is reported as `UNKNOWN`: its case in `VDevStateString` is empty and
does not fall through. `StringArray` and `BooleanArray` repeat the first element
(`decode.go:393`, `344-355`), `ByteArray` goes on into the padding (`329-331`), and
`Unmarshal` has no case for `hrtime` and `double`, although `ErrUnsupportedType`
(`decode.go:21`) is declared for the first: all of that is modelled, and
`FieldsAsPackedIfTaken` says that nothing else is wrong.

Big endian lists are refused: "conversion from big endian not yet supported"
(`decode.go:103-105`), although the package comment says "in both big and little endian"
(`decode.go:2`) and that of `Unmarshal` "any endianness" (`decode.go:36`). The model has
the refusal as the code has it, with its own error. `InvalidIffUnreadable` says of such
lists that they are refused as big endian and never parsed to nil; that it
holds in `Parsers_all` is the disagreement with the comments (a finding in `PROJECT.json`). A kernel packs lists in the byte order of its
machine, so this concerns only big endian machines, where no scrape finds a pool.

## 4. The proofs

`NVListReaderProofs` has the lemmas about packed lists that the next two share.

`ParsersProofs`, for every set of well-formed buffers (`BufferAssumption`) under the
hypothesis `SkippedArraysAreSingle`: arrays that `handlePool` and `parseVdevs` do not look
for have one element. `Parsers_spares` shows that the hypothesis is needed.

* `Typing`, `StayInStep`: `TypeOK` and `InStep`. `InStep` is not inductive: whether
  the calls made for a pair are as many as the lists that follow depends on the
  function being the one for the list's role. `IInv` adds that (`CallsServe`).
* `ParsesFaithfully`, `RefusesOnlyUnreadable`: `ParsedWhatWasPacked` and
  `InvalidIffUnreadable`. The invariant `Faithful` says that while reading, `got` is what
  the pairs before the position say, none of which is unreadable; a pair's name is
  unique in its list, so that no value is overwritten.
* `EveryStepMovesOn`: between the beginning and the end of a parse each step moves the
  reader on, within the packed list. This is the part of `ParseEnds` that is not fairness.

`UnmarshalProofs`, for all struct types (`FieldAssumption`) and well-formed buffers:

* `Typing`, `StaysInside`: `TypeOK`, and that the reader is always at a cell of the packed
  list. These hold also where `Unmarshal` loses track of the lists: it makes at most as
  many calls for a pair as lists follow it, so there are never more calls than lists
  that have not ended (`Inside`), and the last call returns at the last end mark or earlier.
* `FieldsAreRight`: `FieldsAsPackedIfTaken`, for pairs of all types. Pairs that are misread
  do not disturb the others: they are neither nested lists nor do they move the reader
  elsewhere. The hypothesis of the property is about all calls that were
  made when `Unmarshal` returns; as calls are only added, it held at every step before.
  Under it (`Taken`) the invariant has three parts: the calls are those of the lists that
  have not ended (`InStep`); a list is filled in from once, after the pair that it is the
  value of (`OneCallPerList`), so a value set once is not replaced by that of another
  call; every pair behind the reader was read by a call for its own list and is where
  that call's struct or map has a place for it (`SoFarAsPacked`). At the last end mark all
  pairs are behind the reader.
* `EveryPairMovesOn`: as for the parsers, without hypothesis.

`KStatReaderProofs`, for every set of files in the kernel's format and of beginnings of
such files (`FileAssumption`), and for whatever words `ParseInt` and `ParseUint` take:

* `Typing`, `RowByRow`, `CountersAreRight`, `ErrorsAreTheFiles`: `TypeOK`, `RowsAreLines`,
  `CountersAsWritten` and `RefusesOnlyDamaged`. `RowsAreLines` says nothing while a row is
  read. `IInv` adds where in its line each read begins: `InHeader` counts the words of
  the first line, `InTitles` and `InRows` place the columns by `Split`, which says where a
  line has its type and its data. Then the next delimiter is the one the column ends
  with, so the reader never crosses a line end by accident. In the last line of a cut
  file a column may be taken from anywhere, but there is no line end ahead, so the read
  of the data fails and no row is made of it (`At`). That the smallest of the
  delimiters ahead exists is the well-foundedness of `<` on the naturals (`SmallestIn`).
* `EveryReadMovesOn`: each read that succeeds moves on within the file. This is the part
  of `KStatEnds` that is not fairness.

`CollectorProofs`, for every tree of names, order of entries, sizes and number of
objects:

* `Typing`: `TypeOK`, including that levels exist exactly while datasets are listed.
  It needs that a rename moves objects and makes none (`RenameFacts`).
* `SentOnce`, `NothingMissed`: `ReportedOnce` and `CleanScrapeIsComplete`, under
  `RetrySafe`: `Cmd` is not written on `ENOMEM`, or all properties fit the first
  buffer. `Collector_enomem` shows that the hypothesis is needed. The inductive
  invariant `ScanInv` has five parts besides the types. `ParentsLive` and `StableInv`:
  a name that stayed what it was has a parent that did (no command moves a parent
  and leaves its child, `ParentUnchanged`). `WalkInv`: the shared `Cmd` is the request
  of the innermost level, and what that level listed is not reported yet. `OnceInv`:
  nothing reported lies ahead of the cursor of its directory, and no directory that
  stayed has two levels. `CoverInv`: what stayed in a reported directory is reported
  or ahead of a cursor. When no pool is left the stack is empty, so nothing is ahead
  of anybody, and by `TreeAssumption` the reported names include all that stayed, from
  the pools down.
* `CountersAreOwn`: `OwnCounters`, without hypothesis. `CountersInv` adds that what
  stayed mounted is mounted and that a listed dataset whose name stayed is still the
  object its properties came from.

`ScrapeProofs`: `CollectorImplementsScrape`, under `RetrySafe`. From `ScanInv`, `SentOnce` and
`NothingMissed` each action is matched with a step of `Scrape`: `Collect` with `Begin`,
administrators with `Change`, the two actions that send metrics with `Send` or `Fail`,
the end of `collect` with `Succeed` or `Fail`, all others with no step.

`VdevExportProofs`, for every tree of vdevs (`ResponseAssumption`: each is the child of one
other, all are reached from the root), all paths, names and numbers:

* `Typing`: `TypeOK`.
* `AllSentOnce`: `EveryVdevOnce`. The invariant says that no vdev is called for twice or
  again (`OnceInv`), that what is below a sent vdev is sent or called for (`CoverInv`),
  and that all names so far were accepted (`ValidInv`). A child of the vdev at hand is
  new because its only parent was not sent before (`ChildrenNew`, from `NamesInv`).
* `LabelsCollideWithSiblings`: `LabelsDiffer`. `NamesInv`: a name is the vdev's own behind
  the name its parent was sent with. Equal names hence come from equally named parents.
  Labels have the type as well, which a parent's name does not: a parent of another type
  could have the same name. But a vdev with children has no path, so its own name is
  type and id, and `TypeId` is injective (`NameAssumption`): equally named
  parents have equal types (`SameNameParents`), by `DifferInv` they are one, and the
  two are siblings; and conversely.
* `ExactlyOneState`: `OneStateHolds`, for all natural numbers as states and for none.

`ExporterProofs`, for every set of clients, as root and as a user: `Typing`, and
`DeviceOpened`, which is `OpensTheDevice`. The invariant `DeviceInv` adds what `/dev/zfs` is
when the module is loaded and when it is not, that only root has a regular file there,
and that an open device keeps the module loaded.

The inductive invariants of `UnmarshalProofs` and `KStatReaderProofs` were checked with TLC on the instances of their
runs before they were proved. Every invariant that a passing run checks is proved, under
the hypotheses named above.

Model-checked only: the liveness properties `ScrapeEnds`, `ImplementsScrape` (its second
half), `ParseEnds`, `KStatEnds` and `RecoversUnlessFileMade`, which are outside what
the prover can do (fairness, ENABLED). Of `ParseEnds` and `KStatEnds` the theorems above
prove that every step has less ahead of it than the one before.

## 5. Not modelled

Generated constants and structs, packaging and the VM test (no behaviour); metric
descriptors and the gauges of a dataset (straight-line assignments); registry and HTTP
server beyond requests and answers (library; that a request is answered would only
restate that a collection ends, which is `ScrapeEnds`); `Unmarshal` into nil maps and maps
with other element types than `interface{}` (not used by the exporter, which does not call
`Unmarshal` at all); lists in XDR encoding, which the reader takes but the kernel
does not send through ioctls (an encoding that is neither native nor XDR is refused, and
is modelled); pointers and `KeepAlive` (no counterpart in TLA+); the bytes of names and numbers
(no property here is about them).

## 6. Plan

1. Done: `ZfsNamespace`, `Collector`, `Scrape`, `NVListReader`, `Parsers`, `Unmarshal`,
   `KStatReader`, `VdevExport`, `Exporter`, their runs; the theorems about the parsers,
   `Unmarshal`, the kstat reader, the scan and its refinement of `Scrape`, the export of
   vdevs and the start.
2. Left: the safety half of `ScrapeEnds` (a scan between two commands of administrators
   always has fewer names ahead of its cursors), in the way of the theorems that the
   readers move on.
