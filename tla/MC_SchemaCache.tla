-------------------------- MODULE MC_SchemaCache --------------------------
(***************************************************************************)
(* Small instances of SchemaCache for TLC.                                 *)
(***************************************************************************)
EXTENDS SchemaCacheImpl, TLC

CONSTANTS t1, t2, n1, s1, s2

MC_Threads == {t1, t2}
MC_Names   == {n1}
MC_Schemas == {s1, s2}
Symmetry   == Permutations(MC_Threads)

T(lead, form, sym) == [lead |-> lead, form |-> form, sym |-> sym]

Get(name, id)      == [NoRequest EXCEPT !.op = "get", !.name = name, !.id = id]
Add(name, id, def) == [NoRequest EXCEPT !.op = "add", !.name = name, !.id = id,
                                        !.def = def]
Purge(age)         == [NoRequest EXCEPT !.op = "purge", !.max_age = age]
Destroy            == [NoRequest EXCEPT !.op = "destroy"]
Teardown           == [NoRequest EXCEPT !.op = "teardown"]

\* s2 does not parse.
MC_Unparsable == {s2}
MC_Published  == {T(FALSE, "string", s1), T(FALSE, "object", s2)}

\* Calls of every kind: by id, by name, with neither; definitions that are
\* stored, that get an id assigned, that do not load, and none at all.
MC_Requests ==
  {Get(NULL, 1), Get(n1, NoId), Get(NULL, NoId),
   Add(n1, NoId, T(FALSE, "object", s1)), Add(n1, 1, T(TRUE, "string", s1)),
   Add(n1, NoId, T(FALSE, "object", s2)), Add(NULL, 1, NULL),
   Purge(1), Destroy, Teardown}

\* The calls without those that only end in an error.
MC_QuiescedRequests == MC_Requests \ {Get(NULL, NoId), Add(NULL, 1, NULL)}

\* The same calls with a purge that takes whatever is older than this second,
\* so that a clock of two values is enough.
MC_PurgeNowRequests == (MC_Requests \ {Purge(1)}) \cup {Purge(0)}
===========================================================================
