--------------------------- MODULE MC_CppWrapper ---------------------------
(***************************************************************************)
(* A small instance of CppWrapper for TLC: two threads, two schemas.       *)
(***************************************************************************)
EXTENDS CppWrapper, TLC

CONSTANTS t1, t2, s1, s2

MC_Threads == {t1, t2}
Symmetry   == Permutations(MC_Threads)

Def(s) == [sym |-> s]
Id(s)  == IF s = s1 THEN 1 ELSE 2

Request(op, id, def, sym) == [op |-> op, id |-> id, def |-> def, sym |-> sym]

MC_Entries == {[id |-> Id(s), def |-> Def(s)] : s \in {s1, s2}}

\* Schema::get by id and by name, Schema::add of a definition and, since that
\* method ignores its definition, by id alone, and the lookup by
\* AvroImpl::deserialize; the second schema is only got and added.
MC_Requests ==
  {Request("get", Id(s), NULL, s) : s \in {s1, s2}}
  \cup {Request("add", -1, Def(s), s) : s \in {s1, s2}}
  \cup {Request("framing", Id(s1), NULL, s1), Request("get", -1, NULL, s1),
        Request("add", Id(s1), NULL, s1),
        Request("purge", -1, NULL, NULL), Request("teardown", -1, NULL, NULL)}
=============================================================================
