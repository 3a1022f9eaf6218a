----------------------------- MODULE MCTransfer -----------------------------
(* Transfer between servers of different keys and versions. *)
EXTENDS Transfer

Site(a, s, b, acols, bcols) ==
    [aKey |-> a, secret |-> s, bKey |-> b, aCols |-> acols, bCols |-> bcols]

\* The same version and keys; a key on one side only; a secret of a lost key;
\* an old database, a newer B and an older one.
MCSites ==
    {Site("kA", "kA", "kB", {"id"}, {"id"}),
     Site("kA", "plain", "none", {"id", "api_key"}, {"id", "hook"}),
     Site("none", "plain", "kB", {"id", "api_key"}, {"id", "api_key"}),
     Site("kA", "kOld", "kB", {"id", "hook"}, {"id"})}

\* A piece of a recording, or nothing, left by an earlier migration.
MCEarlier == {<<"header">>}
NoEarlier == {}
=============================================================================
