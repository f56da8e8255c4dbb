------------------------------- MODULE Parsers -------------------------------
(***************************************************************************)
(* The functions that walk a packed nvlist with one shared NVListReader:   *)
(* the loops of collect and handlePool, parseVdevs, parseProps, parseValue *)
(* (main.go) and Skip (zfs/nvlist/decode.go).                              *)
(*                                                                         *)
(* They call each other at every nested list, and the only thing that      *)
(* keeps them together is that each call reads up to and including the end *)
(* mark of the list it was made for.  stack holds the calls that have not  *)
(* returned, innermost first; a loop that makes n calls puts n on it.      *)
(***************************************************************************)
EXTENDS NVListReader

VARIABLES
  pc,      \* "idle" or "reading"
  root,    \* the outermost call
  buf,     \* which buffer it reads
  pos,     \* r.pos
  stack,   \* the calls: the function, the list it is made for, its argument
  got,     \* what was stored: into which object, under which name, from where
  result   \* "ok", or the error the outermost call returned

vars == <<pc, root, buf, pos, stack, got, result>>

Function == {"collect", "handlePool", "parseVdevs", "parseProps", "parseValue", "Skip"}
Call == [func : Function, list : ListId, arg : PairName \cup {""}]
Stored == [obj : ListId, name : PairName, of : ListId]

\* The function that is called with a response, by what the response describes.
Reads == {<<"collect", "configs">>, <<"handlePool", "stats">>, <<"parseProps", "props">>}

-----------------------------------------------------------------------------
(* What a call does with the pair Next returned. *)

\* The pairs handlePool, parseVdevs and parseValue look for and the types they
\* take them in.
PoolPairs == {<<"state", "uint64">>, <<"error_count", "uint64">>, <<"vdev_tree", "nvlist">>}
VdevPairs == {<<"children", "nvlist_array">>, <<"type", "string">>, <<"id", "uint64">>,
              <<"path", "string">>, <<"vdev_stats", "uint64_array">>}
ValuePairs(propName) == IF propName \in Exported THEN {<<"value", "uint64">>} ELSE {}

LooksFor(e) ==
  IF e.func = "handlePool" THEN PoolPairs
  ELSE IF e.func = "parseVdevs" THEN VdevPairs
  ELSE IF e.func = "parseValue" THEN ValuePairs(e.arg)
  ELSE {}

\* The call returns an error instead.
Refuses(e, c) ==
  \/ e.func \in {"collect", "parseProps"} /\ c.type # "nvlist"
  \/ \E w \in LooksFor(e) : w[1] = c.name /\ w[2] # c.type

Keeps(e, c) ==
  \/ e.func = "collect"
  \/ c.type \notin Nested /\ <<c.name, c.type>> \in LooksFor(e)

Callee(e, c) ==
  IF <<e.func, c.name>> \in {<<"handlePool", "vdev_tree">>, <<"parseVdevs", "children">>}
  THEN "parseVdevs"
  ELSE IF e.func = "parseProps" THEN "parseValue"
  ELSE "Skip"

\* Skip taking an array for one list.
MutantSkipLoops(e, c) == e.func = "parseVdevs" /\ c.name = "children"

\* parseVdevs reading the first child only.
MutantChildLoops(e, c) == e.func = "Skip"

\* Is the callee called for every element of an array?  handlePool and
\* parseVdevs call Skip once for the arrays they do not look for.
Loops(e, c) ==
  \/ e.func = "Skip"
  \/ e.func = "parseVdevs" /\ c.name = "children"

\* How many calls are made for the value of c.
Times(e, c) ==
  IF c.type \notin Nested \/ e.func = "parseValue" THEN 0
  ELSE IF c.type = "nvlist_array" /\ Loops(e, c) THEN c.n
  ELSE 1

Calls(e, c) ==
  [i \in 1 .. Times(e, c) |->
     [func |-> Callee(e, c),
      list |-> IF i \in DOMAIN c.sub THEN c.sub[i] ELSE c.list,
      arg |-> c.name]]

\* A pair of the same name overwrites what an object has.
Store(e, c) ==
  IF Keeps(e, c)
  THEN {g \in got : g.obj # e.list \/ g.name # c.name}
         \cup {[obj |-> e.list, name |-> c.name, of |-> c.list]}
  ELSE got

-----------------------------------------------------------------------------
B == Buffer[buf]
Here == B.at[Start(pos)]

Init ==
  /\ pc = "idle"
  /\ root = "none"
  /\ buf \in DOMAIN Buffer
  /\ pos = 0
  /\ stack = <<>>
  /\ got = {}
  /\ result = "ok"

\* A response has arrived and is read from its beginning.
Parse(f, i) ==
  /\ pc = "idle"
  /\ LET l == Head(Buffer[i].pending[HeaderLen])
     IN  /\ <<f, Buffer[i].role[l]>> \in Reads
         /\ stack' = <<[func |-> f, list |-> l, arg |-> ""]>>
  /\ pc' = "reading"
  /\ root' = f
  /\ buf' = i
  /\ pos' = 0
  /\ got' = {}
  /\ result' = "ok"

\* The innermost call reads a pair, stores it or makes calls for its value.
ReadPair ==
  /\ pc = "reading"
  /\ AtPair(B, pos)
  /\ LET e == Head(stack)
     IN  /\ ~Refuses(e, Here)
         /\ got' = Store(e, Here)
         /\ stack' = Calls(e, Here) \o stack
  /\ pos' = NextPos(B, pos)
  /\ UNCHANGED <<pc, root, buf, result>>

\* io.EOF: the innermost call returns nil, and with it perhaps the outermost.
ReadEnd ==
  /\ pc = "reading"
  /\ AtEnd(B, pos)
  /\ stack' = Tail(stack)
  /\ pc' = IF stack' = <<>> THEN "idle" ELSE "reading"
  /\ pos' = NextPos(B, pos)
  /\ UNCHANGED <<root, buf, got, result>>

\* An error that leaves calls behind.
MutantFail(err) ==
  /\ pc' = "idle"
  /\ result' = err
  /\ UNCHANGED <<root, buf, pos, stack, got>>

\* Every call returns the error of the one it made.
Fail(err) ==
  /\ pc' = "idle"
  /\ result' = err
  /\ stack' = <<>>
  /\ UNCHANGED <<root, buf, pos, got>>

\* Next returns an error other than io.EOF.
ReadFails ==
  /\ pc = "reading"
  /\ ~AtPair(B, pos) /\ ~AtEnd(B, pos)
  /\ Fail(ReadError(B, pos))

PairRefused ==
  /\ pc = "reading"
  /\ AtPair(B, pos)
  /\ Refuses(Head(stack), Here)
  /\ Fail("refused")

Walk == ReadPair \/ ReadEnd \/ ReadFails \/ PairRefused

Next == Walk \/ \E f \in Function, i \in DOMAIN Buffer : Parse(f, i)

Spec == Init /\ [][Next]_vars

\* Nothing a call waits for: the goroutine that parses runs.
FairSpec == Spec /\ WF_vars(Walk)

-----------------------------------------------------------------------------
TypeOK ==
  /\ pc \in {"idle", "reading"}
  /\ root \in Function \cup {"none"}
  /\ buf \in DOMAIN Buffer
  /\ pos \in Nat
  /\ stack \in Seq(Call)
  /\ got \subseteq Stored
  /\ result \in {"ok", "invalid", "encoding", "endian", "refused"}
  /\ pc = "reading" <=> stack # <<>>

(***************************************************************************)
(* The functions share one reader and no count of where they are.  At each *)
(* call of Next the reader is at a pair or an end mark of the list the     *)
(* innermost call was made for, and the calls that have not returned are,  *)
(* in order, for the lists that have not ended: nobody reads another       *)
(* list's pairs or returns at another list's end mark (main.go:487-552,    *)
(* 576-615, zfs/nvlist/decode.go:408-434).                                 *)
(***************************************************************************)
InStep ==
  pc = "reading" =>
    /\ Start(pos) \in DOMAIN B.at
    /\ Len(stack) = Len(B.pending[Start(pos)])
    /\ \A i \in DOMAIN stack : stack[i].list = B.pending[Start(pos)][i]

(***************************************************************************)
(* Is a pair of a list with this role one that is to be stored?            *)
(***************************************************************************)
Means(role, c) ==
  \/ role = "configs"
  \/ role = "stats" /\ c.name \in {"state", "error_count"}
  \/ role = "vdev" /\ c.name \in {"type", "id", "path", "vdev_stats"}
  \/ role = "value" /\ c.name = "value"

\* The pairs before offset p that are to be stored, and what is stored for one.
Meant(p) ==
  {o \in DOMAIN B.at : /\ o < p
                       /\ B.at[o].size > 0
                       /\ Means(B.role[B.at[o].list], B.at[o])}
Entry(o) == [obj |-> B.at[o].list, name |-> B.at[o].name, of |-> B.at[o].list]
Entries(p) == {Entry(o) : o \in Meant(p)}

(***************************************************************************)
(* When a parse returns nil, each pool, vdev and dataset property has      *)
(* exactly the values packed for it: none is missing, and none was taken   *)
(* from, or overwritten by, another list (main.go:303-402, 487-615).       *)
(***************************************************************************)
ParsedWhatWasPacked ==
  pc = "idle" /\ root # "none" /\ result = "ok" => got = Entries(B.size)

(***************************************************************************)
(* Which packed lists have data the reader calls invalid: those with an    *)
(* array of more elements than it takes, and those in a buffer without a   *)
(* byte to spare, which is what Ioctl makes after ENOMEM.                  *)
(***************************************************************************)
Unreadable ==
  \/ B.len = B.size
  \/ \E o \in DOMAIN B.at : B.at[o].size > 0 /\ B.at[o].n > MaxElements

(***************************************************************************)
(* The reader says why it refuses a packed list, and is right about it: in *)
(* another encoding, big endian ("not yet supported", though the package   *)
(* is said to know both orders, zfs/nvlist/decode.go:2, 36, 103-105), or   *)
(* invalid data, of the two kinds above only.  Of none of these does any   *)
(* parse return nil: the buffer is never so short, nor the header so read, *)
(* that data is lost in silence.                                           *)
(***************************************************************************)
InvalidIffUnreadable ==
  pc = "idle" /\ root # "none" =>
    /\ result = "encoding" => B.encoding # "native"
    /\ result = "endian" => B.encoding = "native" /\ B.endian = "big"
    /\ result = "invalid" => Unreadable
    /\ result = "ok" => B.encoding = "native" /\ B.endian = "little" /\ ~Unreadable

(***************************************************************************)
(* "Unmarshal parses a ZFS-style nvlist in native encoding", and Next      *)
(* takes "End indicated by zero size" (zfs/nvlist/decode.go:36, 179): a    *)
(* list the kernel packed is not refused as invalid data.                  *)
(***************************************************************************)
NotInvalid == result # "invalid"

(***************************************************************************)
(* Every parse returns, however the lists are nested: no sequence of calls *)
(* comes back to a position it was at.                                     *)
(***************************************************************************)
ParseEnds == pc = "reading" ~> pc = "idle"
=============================================================================
