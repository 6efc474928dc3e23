--------------------------- MODULE MC_SerdesConf ---------------------------
(***************************************************************************)
(* Small instances of SerdesConf for TLC.                                  *)
(***************************************************************************)
EXTENDS SerdesConf, SequencesExt

App(api, avro_c, url, name, val, n) ==
  [api |-> api, avro_c |-> avro_c, url |-> url,
   other |-> [name |-> name, val |-> val], objs |-> n]

\* Two URLs, the second with a password that grows when it is escaped.
Two == <<"a", ",", "a", ":", "/", "@">>

\* All texts of up to four characters, and some with a prefix.
Short == BoundedSeq(Chars, 4)
Long  == {<<Proto>> \o s : s \in BoundedSeq(Chars \ {","}, 3)}

\* The second C++ application has room for two handles of one configuration
\* that still exists, and for a third without it.
MC_Apps ==
  {App("C", FALSE, <<"a">>, "debug", <<"all">>, 3),
   App("C++", FALSE, <<"a">>, "no.such.property", <<"a">>, 3),
   App("C++", FALSE, <<>>, "no.such.property", <<"a">>, 4)}
  \cup {App("C", TRUE, Two, "serializer.framing", v, 2) :
          v \in {<<"none">>, <<"a">>}}
  \cup {App("C", TRUE, Two, "deserializer.framing", <<"none">>, 2),
        App("C", FALSE, Two, "debug", <<>>, 2),
        App("C", FALSE, Two, "debug", <<"a">>, 2),
        App("C++", FALSE, Two, "debug", <<"all">>, 2)}
  \cup {App("C", TRUE, s, "debug", <<"all">>, 1) : s \in Short \cup Long}

\* With that room, what comes after a state with two URL lists is left out:
\* the applications with less room have it.
MC_Bound ==
  app.objs = 4 => Cardinality({l \in DOMAIN mem : mem[l].st = "live"}) <= 1
=============================================================================
