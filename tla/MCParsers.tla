------------------------------ MODULE MCParsers ------------------------------
(* Responses of the shapes the kernel gives, packed, for Parsers.            *)
EXTENDS Parsers, NVPack

MCNames == {"", "p", "q", "state", "error_count", "vdev_tree", "features", "children",
            "type", "id", "path", "vdev_stats", "spares", "l2cache", "used", "mountpoint",
            "value", "source"}
MCExported == {"used"}

\* A leaf vdev, a vdev with children, and what follows them in the root vdev.
Disk == Str("type") \o Num("id") \o Str("path") \o Nums("vdev_stats", 2) \o End
Mirror(k) ==
  Str("type") \o Num("id") \o Nvs("children", k, Repeat(k, Disk)) \o Nums("vdev_stats", 2) \o End
Aux(name, k) == IF k = 0 THEN <<>> ELSE Nvs(name, k, Repeat(k, Disk))
Root(children, spares, caches) ==
  Str("type") \o Num("id") \o children \o Nums("vdev_stats", 2)
    \o Aux("spares", spares) \o Aux("l2cache", caches) \o End

Children == <<Nvs("children", 1, Disk),
              Nvs("children", 2, Disk \o Mirror(2)),
              Nvs("children", 2, Mirror(1) \o Disk)>>

Stats(children, spares, caches) ==
  Num("state") \o Nv("features", Nvs("p", 2, Disk \o End) \o Str("path") \o End)
    \o Nv("vdev_tree", Root(children, spares, caches)) \o Num("error_count") \o End

PoolEntry(p) ==
  Nv(p, Num("state") \o Nv("vdev_tree", Root(Children[1], 2, 0)) \o End)
Configs == <<End, PoolEntry("p") \o End, PoolEntry("p") \o PoolEntry("q") \o End>>

Property(name) ==
  Nv(name, (IF name = "used" THEN Num("value") ELSE Str("value")) \o Str("source") \o End)
Props == <<Property("mountpoint") \o Property("used") \o End, Property("used") \o End>>

\* Lists with pairs of other types than the exporter takes them in.
OddStats == <<Str("state") \o Nv("vdev_tree", Disk) \o End,
              Num("state") \o Nv("vdev_tree", Str("children") \o End) \o End,
              Nvs("vdev_tree", 1, Disk) \o End,
              Num("state") \o Nums("vdev_stats", 4) \o End>>
OddProps == <<Property("used") \o Num("mountpoint") \o End,
              Nv("used", Str("value") \o End) \o End>>

\* A response, named by its shape: pools with top-level vdevs, spares and cache
\* devices, lists of pools, properties of datasets.
Tokens(id) ==
  CASE id[1] = "stats" -> Stats(Children[id[2]], id[3], id[4])
    [] id[1] = "configs" -> Configs[id[2]]
    [] id[1] = "props" -> Props[id[2]]
    [] id[1] = "oddstats" -> OddStats[id[2]]
    [] id[1] = "oddprops" -> OddProps[id[2]]
Describes(id) ==
  CASE id[1] \in {"stats", "oddstats"} -> "stats"
    [] id[1] = "configs" -> "configs"
    [] id[1] \in {"props", "oddprops"} -> "props"

Simple == ({"configs"} \X (1 .. 3)) \cup ({"props"} \X (1 .. 2))
Odd == ({"oddstats"} \X (1 .. 4)) \cup ({"oddprops"} \X (1 .. 2))
Pools(tops, auxes) == {"stats"} \X tops \X auxes \X auxes

Packs(ids, encoding, endian, spares) ==
  [i \in ids \X {encoding} \X {endian} \X spares |->
     Pack(Tokens(i[1]), Describes(i[1]), i[2], i[3], i[4])]

\* At most one spare and one cache device.
Responses ==
  Packs(Simple \cup Odd \cup Pools(1 .. 3, {0, 1}), "native", "little", {0, 1, 8})
    @@ Packs(Simple, "native", "big", {8})
    @@ Packs(Simple, "other", "little", {8})
OneOfEach == Responses   \* TLC computes Responses once, but not what a cfg names

TwoSpares == Packs({<<"stats", 1, 2, 0>>}, "native", "little", {8})
NoRoom == Packs(Simple \cup Pools({1}, {0}), "native", "little", {0})

\* Ways to a list.
MCListId == Nat \X Nat
=============================================================================
