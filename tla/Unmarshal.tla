----------------------------- MODULE Unmarshal -------------------------------
(***************************************************************************)
(* NVListReader.Unmarshal (zfs/nvlist/decode.go) into a struct or a map:   *)
(* fields take the pairs of their names, a field that is a struct, a map   *)
(* or an interface the list of its name, with a call of its own.  Lists in *)
(* interfaces and in maps become maps from strings to anything.  (Maps     *)
(* with elements of another type, and nil maps, are left out.)             *)
(***************************************************************************)
EXTENDS NVListReader

CONSTANTS
  Struct,    \* struct types
  Field,     \* Field[t]: the type of each exported field of t, by its name or tag
  Map,       \* map[string]interface{}, made by the caller
  Interface, \* interface{}
  Other      \* any other type: a nil pointer, an int, a slice of structs...

\* The types that have a case in the switch: lists, and values that are set.
Primitive == Type \ (Nested \cup {"unknown", "hrtime", "double"})

\* A field that is a pointer to a struct or a map counts as what it points to.
ASSUME FieldAssumption ==
  /\ Struct \cap Primitive = {}
  /\ Map \notin Struct \cup Primitive
  /\ Interface \notin Struct \cup Primitive \cup {Map}
  /\ Other \notin Struct \cup Primitive \cup {Map, Interface}
  /\ \A t \in Struct : Field[t] \in [DOMAIN Field[t] -> Primitive \cup Struct \cup {Map, Interface, Other}]

VARIABLES
  pc,     \* "idle" or "reading"
  buf,    \* which buffer is read
  pos,    \* r.pos
  stack,  \* the calls: what is filled in, and the list it is filled in from
  made,   \* all calls that were made
  got,    \* what was set: where, under which name, from which list, the elements
  result  \* of the outermost call

vars == <<pc, buf, pos, stack, made, got, result>>

Call == [dest : Struct \cup {Map}, list : ListId]

B == Buffer[buf]
Here == B.at[Start(pos)]

Init ==
  /\ pc = "idle"
  /\ buf \in DOMAIN Buffer
  /\ pos = 0
  /\ stack = <<>>
  /\ made = {}
  /\ got = {}
  /\ result = "none"

-----------------------------------------------------------------------------
\* What takes a pair: the field of that name if there is one, any key of a map.
Slot(t, name) ==
  IF t = Map THEN {Interface} ELSE {Field[t][n] : n \in {name} \cap DOMAIN Field[t]}

\* Types of pairs that are one type in Go.
GoType(type) ==
  CASE type = "byte" -> "uint8"
    [] type = "byte_array" -> "uint8_array"
    [] type = "boolean" -> "boolean_value"
    [] OTHER -> type

\* reflect's Set panics for a value of another type.
Mismatch(e, c) ==
  /\ c.type \in Primitive
  /\ \E s \in Slot(e.dest, c.name) :
       s # Interface /\ (s \in Primitive => GoType(s) # GoType(c.type))

\* TypeUnknown is invalid; arrays of lists are for maps only; a list is refused
\* by a field that is neither a struct nor a map nor an interface.
Refuses(e, c) ==
  \/ c.type = "unknown"
  \/ c.type = "nvlist_array" /\ e.dest # Map
  \/ c.type = "nvlist" /\ \E s \in Slot(e.dest, c.name) : s \in Primitive \cup {Other}

\* What is filled in from a list that s takes.
Filled(s) == IF s = Interface THEN Map ELSE s

\* An array of which the last element is missing.
MutantTimes(e, c) ==
  IF c.type \notin Nested \/ Slot(e.dest, c.name) = {} THEN 0
  ELSE IF c.type = "nvlist_array" /\ c.n > 1 THEN c.n - 1 ELSE 1

\* The calls made for c: none if it is a list that no field takes, which is not
\* skipped either.
Times(e, c) ==
  IF c.type \notin Nested \/ Slot(e.dest, c.name) = {} THEN 0
  ELSE IF c.type = "nvlist_array" THEN c.n ELSE 1

Calls(e, c) ==
  [i \in 1 .. Times(e, c) |->
     [dest |-> Filled(CHOOSE s \in Slot(e.dest, c.name) : TRUE),
      list |-> IF i \in DOMAIN c.sub THEN c.sub[i] ELSE c.list]]

\* What is set, by the elements of the pair: StringArraySafe and BooleanArray
\* read the first for each of them, ByteArray goes on into the padding (0).
Elements(c) ==
  IF c.type \in {"string_array", "boolean_array"} THEN [i \in 1 .. c.n |-> 1]
  ELSE IF c.type = "byte_array" THEN [i \in 1 .. 8 * ((c.n + 7) \div 8) |-> IF i <= c.n THEN i ELSE 0]
  ELSE [i \in 1 .. c.n |-> i]

\* setPrimitive; nothing is done with a type that has no case.
Set(e, c) ==
  IF c.type \in Primitive /\ Slot(e.dest, c.name) # {}
  THEN {g \in got : g.obj # e.list \/ g.name # c.name}
         \cup {[obj |-> e.list, name |-> c.name, of |-> c.list, elems |-> Elements(c)]}
  ELSE got

\* Unmarshal is called with a pointer to a t, or with a map.
Unmarshal(t, i) ==
  /\ pc = "idle"
  /\ pc' = "reading"
  /\ buf' = i
  /\ pos' = 0
  /\ stack' = <<[dest |-> t, list |-> Head(Buffer[i].pending[HeaderLen])]>>
  /\ made' = {Head(stack')}
  /\ got' = {}
  /\ result' = "none"

ReadPair ==
  /\ pc = "reading"
  /\ AtPair(B, pos)
  /\ LET e == Head(stack)
     IN  /\ ~Refuses(e, Here) /\ ~Mismatch(e, Here)
         /\ got' = Set(e, Here)
         /\ stack' = Calls(e, Here) \o stack
         /\ made' = made \cup {Calls(e, Here)[i] : i \in 1 .. Times(e, Here)}
  /\ pos' = NextPos(B, pos)
  /\ UNCHANGED <<pc, buf, result>>

\* io.EOF: the innermost call returns nil.
ReadEnd ==
  /\ pc = "reading"
  /\ AtEnd(B, pos)
  /\ stack' = Tail(stack)
  /\ pc' = IF stack' = <<>> THEN "idle" ELSE "reading"
  /\ result' = IF stack' = <<>> THEN "ok" ELSE "none"
  /\ pos' = NextPos(B, pos)
  /\ UNCHANGED <<buf, made, got>>

\* An error that only the innermost call returns.
MutantFail(outcome) ==
  /\ pc' = "idle"
  /\ stack' = Tail(stack)
  /\ result' = outcome
  /\ UNCHANGED <<buf, pos, made, got>>

\* An error is passed on by all calls, a panic leaves them.
Fail(outcome) ==
  /\ pc' = "idle"
  /\ stack' = <<>>
  /\ result' = outcome
  /\ UNCHANGED <<buf, pos, made, got>>

PairFails ==
  /\ pc = "reading"
  /\ AtPair(B, pos)
  /\ \/ Refuses(Head(stack), Here) /\ Fail("error")
     \/ Mismatch(Head(stack), Here) /\ Fail("panic")

ReadFails ==
  /\ pc = "reading"
  /\ ~AtPair(B, pos) /\ ~AtEnd(B, pos)
  /\ Fail("error")

Next ==
  \/ ReadPair \/ ReadEnd \/ PairFails \/ ReadFails
  \/ \E t \in Struct \cup {Map}, i \in DOMAIN Buffer : Unmarshal(t, i)

Spec == Init /\ [][Next]_vars

-----------------------------------------------------------------------------
TypeOK ==
  /\ pc \in {"idle", "reading"}
  /\ buf \in DOMAIN Buffer
  /\ pos \in Nat
  /\ stack \in Seq(Call)
  /\ made \subseteq Call
  /\ \A g \in got : g.obj \in ListId /\ g.name \in PairName /\ g.of \in ListId
  /\ result \in {"none", "ok", "error", "panic"}
  /\ pc = "reading" <=> stack # <<>>

\* The pairs of a list.
Pairs(l) == {B.at[o] : o \in {q \in DOMAIN B.at : B.at[q].list = l /\ B.at[q].size > 0}}

\* What m has a place for is there: the elements of c in their order, or each of
\* its lists, filled in from that list.
AsPacked(m, c) ==
  \A s \in Slot(m.dest, c.name) :
    IF c.type \in Nested
    THEN \A i \in DOMAIN c.sub : [dest |-> Filled(s), list |-> c.sub[i]] \in made
    ELSE \E g \in got : g.obj = m.list /\ g.name = c.name /\ g.elems = [i \in 1 .. c.n |-> i]

(***************************************************************************)
(* "an interface similar to that of encoding/json" (zfs/nvlist/decode.go:1,*)
(* 436-606): when Unmarshal returns nil, each struct and map has the       *)
(* values of those pairs of its own list that it has a place for, with all *)
(* elements in their order (334-398), each list that it has a place for    *)
(* was filled in from that list, and pairs it has no place for have left   *)
(* no trace.                                                               *)
(***************************************************************************)
FieldsAsPacked ==
  result = "ok" =>
    /\ \A g \in got : g.of = g.obj
    /\ \A m \in made : \A c \in Pairs(m.list) : AsPacked(m, c)

\* A list that nothing takes.
Unplaced(m, c) == c.type \in Nested /\ Slot(m.dest, c.name) = {}

\* A pair whose value Unmarshal loses without an error: it has no case for the
\* type, it repeats the first element, or it adds padding.
Misread(c) ==
  \/ c.type \in {"hrtime", "double"}
  \/ c.type \in {"string_array", "boolean_array"} /\ c.n > 1
  \/ c.type = "byte_array" /\ c.n % 8 # 0

(***************************************************************************)
(* The same where every list has a place, of all pairs but those.  Then    *)
(* the calls and the lists stay together, whatever the nesting, whichever  *)
(* pairs are ignored, and also where some pairs are not read right: they   *)
(* are the only values that are wrong or missing when Unmarshal returns    *)
(* nil (zfs/nvlist/decode.go:334-398, 489-603).                            *)
(***************************************************************************)
FieldsAsPackedIfTaken ==
  /\ result = "ok"
  /\ \A m \in made : \A c \in Pairs(m.list) : ~Unplaced(m, c)
  => /\ \A g \in got : g.of = g.obj
     /\ \A m \in made : \A c \in Pairs(m.list) : Misread(c) \/ AsPacked(m, c)
=============================================================================
