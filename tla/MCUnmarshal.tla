---------------------------- MODULE MCUnmarshal ------------------------------
(* Small instances of Unmarshal: lists with lists in them.                  *)
EXTENDS Unmarshal, NVPack

MCNames == {"", "name", "version", "hosts", "config", "stats", "children", "extra", "flags"}

\* A struct with a struct, a map and an interface in it, and some that differ
\* from it in the type of a field.
MCPool == "name" :> "string" @@ "version" :> "uint64" @@ "stats" :> "uint64_array"
            @@ "hosts" :> "string_array" @@ "config" :> "Config" @@ "extra" :> Interface
            @@ "flags" :> "uint8_array"
MCField == "Pool" :> MCPool
             @@ "Config" :> ("version" :> "uint64" @@ "children" :> Interface)
             @@ "Partial" :> ("version" :> Interface @@ "config" :> Interface @@ "extra" :> Map)
             @@ "NumberName" :> ("name" :> "uint64" @@ MCPool)
             @@ "StringConfig" :> ("config" :> "string" @@ MCPool)
             @@ "PointerConfig" :> ("config" :> Other @@ MCPool)
             @@ "StructExtra" :> ("extra" :> "Config" @@ MCPool)

Value(name, type, n) == <<[name |-> name, type |-> type, n |-> n, lists |-> 0]>>

\* Lists that a Config takes, and a list with arrays of lists in it.
Config(k) == IF k = 0 THEN End ELSE Num("version") \o Nv("children", Num("version") \o End) \o End
Tree(k) == Nvs("children", k, Repeat(k, Num("version") \o End)) \o Str("name") \o End

\* Values of types that are set, not set, set wrongly and refused.
Flags == <<Value("flags", "byte_array", 3), Value("flags", "byte_array", 8),
           Value("flags", "uint8_array", 3), Value("flags", "boolean_array", 2),
           Value("flags", "boolean", 0), Value("flags", "hrtime", 1),
           Value("flags", "double", 1), Value("flags", "unknown", 1)>>

PoolList(flags, hosts, config, extra) ==
  Str("name") \o Flags[flags] \o Nums("stats", 2) \o Value("hosts", "string_array", hosts)
    \o Nv("config", config) \o Nv("extra", extra) \o Num("version") \o End

Packs(ids, spares) ==
  [i \in ids \X spares |->
     Pack(PoolList(i[1][1], i[1][2], Config(i[1][3]), Tree(i[1][4])),
          "other", "native", "little", i[2])]

Known == Packs({2} \X {1, 2} \X {0, 1} \X (1 .. 3), {0, 8}) @@ Packs((1 .. 8) \X {1} \X {1} \X {2}, {8})
KnownLists == Known   \* TLC computes Known once, but not what a cfg names

\* A list no field takes, before a pair that one takes.
UnknownLists ==
  [i \in {1} |-> Pack(Str("name") \o Nv("stats", Num("version") \o End) \o Num("version") \o End,
                      "other", "native", "little", 8)]
MCListId == Nat \X Nat
=============================================================================
