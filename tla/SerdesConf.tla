----------------------------- MODULE SerdesConf -----------------------------
(***************************************************************************)
(* Configuration objects and handles, of the C API (serdes.c) and of the   *)
(* C++ API (ConfImpl, HandleImpl, create_serdes), and who owns the URL     *)
(* list in each of them.                                                   *)
(*                                                                         *)
(* objs holds the serdes_conf_t and serdes_t objects, mem the URL lists,   *)
(* cpp the ConfImpl and HandleImpl objects; a pointer is an index, 0 is    *)
(* NULL, and malloc takes the first free place.  An object contains its    *)
(* URL list as a pointer to mem, which url_list_clear leaves dangling.     *)
(***************************************************************************)
EXTENDS UrlList

CONSTANTS
  Apps,  \* applications: the API they use, whether their library is built
         \* with Avro-C (ENABLE_AVRO_C), their value for schema.registry.url,
         \* another property with its value, and a bound on the number of
         \* objects that they have at a time
  NULL

ASSUME ConfAssumption ==
  \A a \in Apps :
    /\ a.api \in {"C", "C++"}
    /\ a.avro_c \in BOOLEAN
    /\ a.objs \in Nat
    /\ a.url \in Seq(Chars \cup {Proto})
    /\ \A i \in DOMAIN a.url :
         a.url[i] = Proto /\ i > 1 => a.url[i - 1] \in {",", Blank}
    /\ a.other.name # "schema.registry.url"

ASSUME NullAssumption == NULL \notin {"app", "avro_c", "trampoline"}

VARIABLES
  app,   \* the application
  mem,   \* URL lists
  objs,  \* serdes_conf_t and serdes_t objects
  own,   \* those that the C application has to destroy
  cpp    \* ConfImpl and HandleImpl objects

vars == <<app, mem, objs, own, cpp>>

\* struct serdes_conf_s, alone or inside a serdes_t.
Conf ==
  [st: {"live", "freed"}, kind: {"conf", "handle"}, list: Nat,
   serializer_framing: {"none", "cp1"}, deserializer_framing: {"none", "cp1"},
   debug: BOOLEAN, schema_load_cb: {NULL, "app", "avro_c", "trampoline"},
   log_cb: {NULL, "app", "trampoline"}, opaque: Nat]

List == [st: {"live", "freed", "corrupt"}, str: Seq(Symbols),
         urls: Seq(Seq(Symbols)), max_len: Nat]

\* conf_ or sd_, and log_cb_.
Impl == [st: {"live", "freed"}, kind: {"conf", "handle"}, ptr: Nat,
         log_cb_: BOOLEAN]

Init ==
  /\ app \in Apps
  /\ mem = <<>>
  /\ objs = <<>>
  /\ own = {}
  /\ cpp = <<>>
-----------------------------------------------------------------------------
(***************************************************************************)
(* The functions of serdes.c on a configuration c and the URL lists m.     *)
(***************************************************************************)
\* The place that malloc returns, and its new contents x.
Place(s) ==
  LET free == {i \in DOMAIN s : s[i].st # "live"} \cup {Len(s) + 1}
  IN  CHOOSE i \in free : \A j \in free : i <= j
malloc(s, x) == IF Place(s) > Len(s) THEN Append(s, x)
                ELSE [s EXCEPT ![Place(s)] = x]

FreedList == [st |-> "freed", str |-> <<>>, urls |-> <<>>, max_len |-> 0]

\* Freeing a list that is freed already corrupts the heap.  The pointers to
\* it are left as they are.
url_list_clear(m, list) ==
  IF list = 0 THEN m
  ELSE [m EXCEPT ![list] =
          IF @.st = "live" THEN FreedList ELSE [@ EXCEPT !.st = "corrupt"]]

serdes_conf_init(kind) ==
  [st |-> "live", kind |-> kind, list |-> 0, serializer_framing |-> "cp1",
   deserializer_framing |-> "cp1", debug |-> FALSE, schema_load_cb |-> NULL,
   log_cb |-> NULL, opaque |-> 0]

\* The lists that url_list_parse makes of the texts that an application sets.
Parsed ==
  [str \in {a.url : a \in Apps} \cup {<<>>} |-> url_list_parse(str)]

\* Mutant: the old list is forgotten when there is a new one.
SetUrlLeaks(m, c, val) ==
  [m |-> malloc(m, Parsed[val]),
   c |-> [c EXCEPT !.list = Place(m)],
   err |-> IF Parsed[val].urls = <<>> THEN "INVALID" ELSE "OK"]

\* serdes_conf_set of schema.registry.url: the old list is gone before it is
\* known whether there is a new one.
SetUrl(m, c, val) ==
  [m |-> malloc(url_list_clear(m, c.list), Parsed[val]),
   c |-> [c EXCEPT !.list = Place(url_list_clear(m, c.list))],
   err |-> IF Parsed[val].urls = <<>> THEN "INVALID" ELSE "OK"]

\* Mutant: every value is accepted.
SetFieldUnchecked(m, c, p, val, allowed) ==
  [m |-> m, err |-> "OK",
   c |-> [c EXCEPT ![p] = IF val \in DOMAIN allowed THEN allowed[val] ELSE NULL]]

\* serdes_conf_set of the other properties, p being the field and allowed the
\* values of the property.
SetField(m, c, p, val, allowed) ==
  IF val \in DOMAIN allowed
  THEN [m |-> m, c |-> [c EXCEPT ![p] = allowed[val]], err |-> "OK"]
  ELSE [m |-> m, c |-> c, err |-> "INVALID"]

Framing   == [v \in {<<"none">>, <<"cp1">>} |-> v[1]]
DebugFlag == [v \in {<<"all">>, <<>>, <<"none">>} |-> v = <<"all">>]

serdes_conf_set(m, c, name, val) ==
  CASE name = "schema.registry.url" -> SetUrl(m, c, val)
    [] name = "serializer.framing" ->
         SetField(m, c, "serializer_framing", val, Framing)
    [] name = "deserializer.framing" ->
         SetField(m, c, "deserializer_framing", val, Framing)
    [] name = "debug" -> SetField(m, c, "debug", val, DebugFlag)
    [] OTHER -> [m |-> m, c |-> c, err |-> "UNKNOWN"]

\* The properties an application sets, and values good and bad.  A value that
\* is missing at the end of the arguments of serdes_conf_new is NULL.
Settings ==
  {[name |-> "schema.registry.url", val |-> v] : v \in {app.url, <<>>}}
  \cup {app.other}
ArgLists ==
  {<<>>} \cup {<<s>> : s \in Settings}
  \cup {<<[name |-> "schema.registry.url", val |-> app.url], s>> :
          s \in Settings \cup {[name |-> "debug", val |-> NULL]}}

\* One turn of the loop of serdes_conf_new, r being what it has made so far.
SetArg(r, a) ==
  IF r.err # "OK" THEN r
  ELSE IF a.val = NULL THEN [r EXCEPT !.err = "MISSING"]
  ELSE serdes_conf_set(r.m, r.c, a.name, a.val)

\* What serdes_conf_new makes of its arguments.
ConfOf(m, args) ==
  LET made[i \in 0 .. Len(args)] ==
        IF i = 0 THEN [m |-> m, c |-> serdes_conf_init("conf"), err |-> "OK"]
        ELSE SetArg(made[i - 1], args[i])
  IN  made[Len(args)]

\* Mutant: the opaque pointer is not copied.
CopyWithoutOpaque(m, dst, src) ==
  LET has == src.list # 0
  IN  [m |-> IF has THEN malloc(m, Parsed[m[src.list].str]) ELSE m,
       c |-> [src EXCEPT !.kind = dst.kind, !.opaque = 0,
                         !.list = IF has THEN Place(m) ELSE dst.list]]

\* The list is parsed once more from its text, everything else is copied.
serdes_conf_copy0(m, dst, src) ==
  LET cleared == url_list_clear(m, dst.list)
      has     == src.list # 0
  IN  [m |-> IF has THEN malloc(cleared, Parsed[m[src.list].str])
             ELSE cleared,
       c |-> [src EXCEPT !.kind = dst.kind,
                         !.list = IF has THEN Place(cleared) ELSE dst.list]]

Gone == [serdes_conf_init("conf") EXCEPT !.st = "freed"]

\* serdes_new: copy the configuration at place conf of o, if there is one,
\* destroy it, and find a schema loader.  On failure all is destroyed.
serdes_new(m, o, conf) ==
  LET init == serdes_conf_init("handle")
      r    == IF conf = 0 THEN [m |-> m, c |-> init]
              ELSE serdes_conf_copy0(m, init, o[conf])
      ok   == r.c.schema_load_cb # NULL \/ app.avro_c
      c    == IF r.c.schema_load_cb # NULL THEN r.c
              ELSE [r.c EXCEPT !.schema_load_cb = "avro_c"]
      m1   == IF conf = 0 THEN r.m ELSE url_list_clear(r.m, o[conf].list)
      o1   == malloc(o, IF ok THEN c ELSE Gone)
  IN  [sd |-> IF ok THEN Place(o) ELSE 0,
       m  |-> IF ok THEN m1 ELSE url_list_clear(m1, c.list),
       o  |-> IF conf = 0 THEN o1 ELSE [o1 EXCEPT ![conf] = Gone]]
-----------------------------------------------------------------------------
(***************************************************************************)
(* The C API.                                                              *)
(***************************************************************************)
Live == {c \in DOMAIN objs : objs[c].st = "live"}
Room(n) == Cardinality(Live) + n <= app.objs

\* An object that is not returned is freed again.
serdes_conf_new(args) ==
  LET r == ConfOf(mem, args)
  IN  /\ Room(1)
      /\ IF r.err = "OK"
         THEN /\ mem' = r.m
              /\ objs' = malloc(objs, r.c)
              /\ own' = own \cup {Place(objs)}
         ELSE /\ mem' = url_list_clear(r.m, r.c.list)
              /\ objs' = malloc(objs, Gone)
              /\ UNCHANGED own
      /\ UNCHANGED <<app, cpp>>

Confs == {c \in own : objs[c].kind = "conf"}
Handles == {h \in own : objs[h].kind = "handle"}

ConfSet(c, s) ==
  LET r == serdes_conf_set(mem, objs[c], s.name, s.val)
  IN  /\ mem' = r.m
      /\ objs' = [objs EXCEPT ![c] = r.c]
      /\ UNCHANGED <<app, own, cpp>>

\* serdes_conf_set_schema_load_cb, _set_log_cb and _set_opaque, the pointer
\* being one of the application's own.
ConfSetCallbacks(c) ==
  /\ objs' = [objs EXCEPT ![c] = [@ EXCEPT !.schema_load_cb = "app",
                                           !.log_cb = "app"]]
  /\ UNCHANGED <<app, mem, own, cpp>>

serdes_conf_copy(c) ==
  LET r == serdes_conf_copy0(mem, serdes_conf_init("conf"), objs[c])
  IN  /\ Room(1)
      /\ mem' = r.m
      /\ objs' = malloc(objs, r.c)
      /\ own' = own \cup {Place(objs)}
      /\ UNCHANGED <<app, cpp>>

\* serdes_conf_destroy, and serdes_destroy once the schemas are gone.
Destroy(c) ==
  /\ mem' = url_list_clear(mem, objs[c].list)
  /\ objs' = [objs EXCEPT ![c] = Gone]
  /\ own' = own \ {c}
  /\ UNCHANGED <<app, cpp>>

\* serdes_new takes the configuration over whether it succeeds or not.
New(conf) ==
  LET r == serdes_new(mem, objs, conf)
  IN  /\ Room(1)
      /\ mem' = r.m
      /\ objs' = r.o
      /\ own' = (own \ {conf}) \cup ({r.sd} \ {0})
      /\ UNCHANGED <<app, cpp>>

\* The callback that serdes_log of a handle calls, and the opaque pointer it
\* gets, which log_cb_trampoline takes for the HandleImpl.
serdes_log(h) == [log_cb |-> objs[h].log_cb, hnd |-> objs[h].opaque]
-----------------------------------------------------------------------------
(***************************************************************************)
(* The C++ API.                                                            *)
(***************************************************************************)
ConfImpls == {i \in DOMAIN cpp : cpp[i].st = "live" /\ cpp[i].kind = "conf"}
HandleImpls == {i \in DOMAIN cpp : cpp[i].st = "live" /\ cpp[i].kind = "handle"}

CppConfCreate ==
  /\ Room(1)
  /\ objs' = malloc(objs, serdes_conf_init("conf"))
  /\ cpp' = malloc(cpp, [st |-> "live", kind |-> "conf", ptr |-> Place(objs),
                         log_cb_ |-> FALSE])
  /\ UNCHANGED <<app, mem, own>>

CppConfSet(i, s) ==
  LET c == cpp[i].ptr
      r == serdes_conf_set(mem, objs[c], s.name, s.val)
  IN  /\ mem' = r.m
      /\ objs' = [objs EXCEPT ![c] = r.c]
      /\ UNCHANGED <<app, own, cpp>>

CppConfSetLogCb(i) ==
  /\ cpp' = [cpp EXCEPT ![i].log_cb_ = TRUE]
  /\ UNCHANGED <<app, mem, objs, own>>

\* The destructors of ConfImpl and HandleImpl.
CppDelete(i) ==
  LET p == cpp[i].ptr
  IN  /\ mem' = url_list_clear(mem, objs[p].list)
      /\ objs' = [objs EXCEPT ![p] = Gone]
      /\ cpp' = [cpp EXCEPT ![i] = [st |-> "freed", kind |-> "conf",
                                      ptr |-> 0, log_cb_ |-> FALSE]]
      /\ UNCHANGED <<app, own>>

\* What create_serdes sets in its copy of the configuration.
Prepare(c, hnd, log) ==
  [c EXCEPT !.opaque = hnd,
            !.log_cb = IF log THEN "trampoline" ELSE @,
            !.schema_load_cb = "trampoline"]

\* The copy of the configuration of ConfImpl i, or the new one, that
\* create_serdes makes for HandleImpl hnd, with the URL lists.
ConfOfHandle(i, hnd) ==
  LET init == serdes_conf_init("conf")
      r    == IF i = 0 THEN [m |-> mem, c |-> init]
              ELSE serdes_conf_copy0(mem, init, objs[cpp[i].ptr])
  IN  [r EXCEPT !.c = IF i = 0 THEN [@ EXCEPT !.schema_load_cb = "trampoline"]
                      ELSE Prepare(@, hnd, cpp[i].log_cb_)]

\* Handle::create and Avro::create from the ConfImpl i, or without one:
\* create_serdes hands its configuration to serdes_new, which cannot fail
\* since there is a schema loader.
CppHandleCreate(i) ==
  /\ Room(2)
  /\ \E conf \in {ConfOfHandle(i, Place(cpp))} :
     \E r \in {serdes_new(conf.m, malloc(objs, conf.c), Place(objs))} :
       /\ mem' = r.m
       /\ objs' = r.o
       /\ cpp' = malloc(cpp, [st |-> "live", kind |-> "handle", ptr |-> r.sd,
                              log_cb_ |-> i # 0 /\ cpp[i].log_cb_])
  /\ UNCHANGED <<app, own>>
-----------------------------------------------------------------------------
CNext ==
  \/ \E args \in ArgLists : serdes_conf_new(args)
  \/ \E c \in Confs, s \in Settings : ConfSet(c, s)
  \/ \E c \in Confs : ConfSetCallbacks(c)
  \/ \E c \in Confs : serdes_conf_copy(c)
  \/ \E c \in own : Destroy(c)
  \/ \E c \in Confs \cup {0} : New(c)

CppNext ==
  \/ CppConfCreate
  \/ \E i \in ConfImpls, s \in Settings : CppConfSet(i, s)
  \/ \E i \in ConfImpls : CppConfSetLogCb(i)
  \/ \E i \in ConfImpls \cup HandleImpls : CppDelete(i)
  \/ \E i \in ConfImpls \cup {0} : CppHandleCreate(i)

Next ==
  \/ app.api = "C" /\ CNext
  \/ app.api = "C++" /\ CppNext

Spec == Init /\ [][Next]_vars
-----------------------------------------------------------------------------
(***************************************************************************)
(* Properties.                                                             *)
(***************************************************************************)
TypeOK ==
  /\ mem \in Seq(List)
  /\ objs \in Seq(Conf)
  /\ own \subseteq DOMAIN objs
  /\ cpp \in Seq(Impl)

\* Whatever the order of sets that succeed or fail, copies, hand-overs to
\* handles and destroys: every URL list that is allocated belongs to exactly
\* one object, that object is allocated, and no list is freed twice.  So no
\* list leaks, and none is used by one object after another one has freed it.
ListsOwned ==
  /\ \A c \in Live : objs[c].list # 0 => mem[objs[c].list].st = "live"
  /\ \A c, d \in Live : objs[c].list = objs[d].list /\ objs[c].list # 0 => c = d
  /\ \A l \in DOMAIN mem :
       /\ mem[l].st # "corrupt"
       /\ mem[l].st = "live" => \E c \in Live : objs[c].list = l

\* An object has exactly the URLs that its text lists, blanks before each and
\* a comma at the end not counting, and also after it was copied: user and
\* password of each are escaped, the other characters are those of the text.
UrlsOfText ==
  \A c \in Live : objs[c].list # 0 =>
    LET l == mem[objs[c].list]
        e == Elements(l.str)
    IN  /\ l.str \in {app.url, <<>>}
        /\ Len(l.urls) = Len(e)
        /\ \A i \in DOMAIN e :
             LET a == Auth(e[i])
             IN  /\ Len(l.urls[i]) = Len(e[i])
                 /\ \A j \in DOMAIN e[i] :
                      IF j \in (a.from .. a.t2 - 1) \ {a.t1}
                      THEN l.urls[i][j] \in {"a", "%xx"}
                      ELSE l.urls[i][j] = e[i][j]

\* The buffer that rest_req allocates once for all URLs of the list, from
\* max_len, holds the part that it copies of each of them.
TmpUrlFits ==
  \A c \in Live : objs[c].list # 0 =>
    \A i \in DOMAIN mem[objs[c].list].urls :
      url_len(mem[objs[c].list].urls[i]) <= mem[objs[c].list].max_len

\* A handle that logs through the trampoline calls the HandleImpl that it
\* belongs to, which exists and has a log callback, however many handles were
\* made from one configuration and whether that still exists or not.
LogReachesOwner ==
  \A h \in Live :
    LET log == serdes_log(h)
    IN  objs[h].kind = "handle" /\ log.log_cb = "trampoline" =>
          log.hnd \in HandleImpls /\ cpp[log.hnd].ptr = h /\ cpp[log.hnd].log_cb_
=============================================================================
