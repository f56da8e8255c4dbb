---------------------------- MODULE MCVdevExport -----------------------------
(* Small instances of VdevExport.                                            *)
EXTENDS VdevExport, TLC

Leaf == {"/dev/a", "/dev/b", "/var/a", "/dev/bad"}
MCPath == Leaf \cup {"/var/mirror-0"}
MCBase == "/dev/a" :> "a" @@ "/dev/b" :> "b" @@ "/var/a" :> "a" @@ "/dev/bad" :> "bad"
            @@ "/var/mirror-0" :> "mirror-0"
MCTypeId == <<"mirror", 0>> :> "mirror-0" @@ <<"mirror", 1>> :> "mirror-1" @@ <<"replacing", 1>> :> "replacing-1"
MCValid == {"p", "a", "b", "mirror-0", "mirror-1", "replacing-1"}
MCComponent == MCValid \cup {"bad"}
MCMinStats == 29

\* ONLINE and without auxiliary state.
Healthy == [len |-> MCMinStats, state |-> 7, aux |-> 0]
Vdev(type, id, path, children) == [type |-> type, id |-> id, path |-> path, children |-> children]

\* A response whose vdevs are the functions v and s, numbered from 1 as packed.
MCResponse(state, v, s) ==
  [pool |-> "p", state |-> state, root |-> 1, vdevs |-> DOMAIN v,
   type |-> [i \in DOMAIN v |-> v[i].type], id |-> [i \in DOMAIN v |-> v[i].id],
   path |-> [i \in DOMAIN v |-> v[i].path], children |-> [i \in DOMAIN v |-> v[i].children],
   stats |-> s]

AllHealthy(v) == [i \in DOMAIN v |-> Healthy]

\* A pool of one device.
Single == <<Vdev("root", 0, Missing, <<2>>), Vdev("disk", 0, "/dev/a", <<>>)>>

\* Two mirrors: devices x, y and z, w, the last being replaced by u.
Mirrors(x, y, z, w, u) ==
  <<Vdev("root", 0, Missing, <<2, 5>>),
    Vdev("mirror", 0, Missing, <<3, 4>>), Vdev("disk", 0, x, <<>>), Vdev("disk", 1, y, <<>>),
    Vdev("mirror", 1, Missing, <<6, 7>>), Vdev("disk", 0, z, <<>>),
    Vdev("replacing", 1, Missing, <<8, 9>>), Vdev("disk", 0, w, <<>>), Vdev("file", 1, u, <<>>)>>

\* Three devices without redundancy.
Stripe(x, y, z) ==
  <<Vdev("root", 0, Missing, <<2, 3, 4>>), Vdev("disk", 0, x, <<>>),
    Vdev("disk", 1, y, <<>>), Vdev("file", 2, z, <<>>)>>

\* A mirror and a file with the name of the mirror.
Mixed ==
  <<Vdev("root", 0, Missing, <<2, 5>>),
    Vdev("mirror", 0, Missing, <<3, 4>>), Vdev("disk", 0, "/dev/a", <<>>), Vdev("file", 1, "/var/a", <<>>),
    Vdev("file", 1, "/var/mirror-0", <<>>)>>

MCStats == [len : {MCMinStats}, state : 0 .. 8, aux : {0, 1, 2, 13, 15}]
             \cup [len : {MCMinStats - 1, MCMinStats + 1}, state : {7}, aux : {0}]
             \cup {Missing}

MCResponses ==
  {MCResponse(0, Single, <<Healthy, s>>) : s \in MCStats}
    \cup {MCResponse(n, Single, AllHealthy(Single)) : n \in (0 .. 8) \cup {Missing}}
    \cup {MCResponse(0, Mixed, AllHealthy(Mixed))}
    \cup {MCResponse(n, <<>>, <<>>) : n \in {0, Missing}}
    \cup {MCResponse(0, Stripe(x, y, z), AllHealthy(Stripe(x, y, z))) : x, y, z \in Leaf}
    \cup {MCResponse(0, Mirrors(x, "/dev/b", z, w, u), AllHealthy(Mirrors(x, "/dev/b", z, w, u))) :
            x, z, w, u \in Leaf}
=============================================================================
