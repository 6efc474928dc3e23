-------------------------- MODULE CppWrapperProofs --------------------------
(***************************************************************************)
(* Proofs about CppWrapper, for any number of threads, schemas, requests   *)
(* and objects.                                                            *)
(***************************************************************************)
EXTENDS CppWrapper, TLAPS, SequenceTheorems

-----------------------------------------------------------------------------
(***************************************************************************)
(* The inductive invariant: as long as the application has been careful,   *)
(* the state is Good.                                                      *)
(***************************************************************************)
SchemaImpls ==
  [st : {"live", "abandoned", "freed"}, schema_ : Ptrs, via : {"get", "add"}]

TypeOK ==
  /\ open \in BOOLEAN
  /\ pending = [t \in Threads |-> pending[t]]
  /\ subject = [t \in Threads |-> subject[t]]
  /\ wpc = [t \in Threads |-> wpc[t]]
  /\ c_schema = [t \in Threads |-> c_schema[t]]
  /\ opaque = [c \in Ptrs |-> opaque[c]]
  /\ impls \in Seq(SchemaImpls)

\* An entry of the cache is one of the registry.
StoreInv ==
  /\ DOMAIN store \subseteq Ptrs
  /\ \A c \in DOMAIN store : store[c] \in Entries

\* The entries that answer a call are of the schema that it is about.
Consistent(r) ==
  \A e \in Entries :
    (r.op = "get" /\ r.id = e.id) \/ (r.op = "add" /\ r.def = e.def)
      => r.sym = e.def.sym

\* Where a thread is: outside, in the cache, between it and the end of the
\* call, or in a destructor; and what its call, the subject of that and its
\* c_schema then are.
Outside(t) ==
  wpc[t] = "idle" /\ pending[t] = NoRequest /\ subject[t] = 0 /\ c_schema[t] = 0
InCache(t) ==
  /\ \/ wpc[t] \in {"get", "framing"} /\ pending[t].op = "get"
     \/ wpc[t] = "add" /\ pending[t].op = "add"
  /\ c_schema[t] = 0
  /\ Consistent(pending[t])
  /\ subject[t] # 0 => /\ subject[t] \in DOMAIN store
                       /\ store[subject[t]].def.sym = pending[t].sym
Clearing(t) ==
  /\ wpc[t] \in {"purge", "teardown"} /\ pending[t].op = wpc[t]
  /\ subject[t] = 0 /\ c_schema[t] = 0
InWrapper(t) ==
  /\ wpc[t] \in {"framed", "opaque", "wrap", "wrap_added"}
  /\ pending[t] = NoRequest /\ subject[t] = 0
  /\ c_schema[t] \in DOMAIN store
InDestructor(t) ==
  /\ wpc[t] = "delete" /\ pending[t].op = "destroy"
  /\ subject[t] = c_schema[t]
  /\ c_schema[t] \in DOMAIN store

Phase(t) ==
  Outside(t) \/ InCache(t) \/ Clearing(t) \/ InWrapper(t) \/ InDestructor(t)

PhaseInv == \A t \in Threads : Phase(t)

\* While a Schema object is being deleted no other thread is busy with its
\* schema.
ApartInv ==
  \A t, u \in Threads : t # u /\ wpc[t] = "delete" => Busy(u) # Busy(t)

\* Two threads in schema_get after its C call have a schema each, or raced.
SoloInv ==
  \A t, u \in Threads : \A c \in Ptrs :
    t # u /\ Wrapping(t, c) /\ Wrapping(u, c) => c \in raced

\* The Schema objects that are held are those that exist and are not
\* forgotten.  An opaque pointer leads to one of the entry that exists.
HeldInv ==
  /\ held = {i \in DOMAIN impls : impls[i].st = "live"}
  /\ \A i \in held : impls[i].schema_ \in DOMAIN store
  /\ \A c \in Ptrs : opaque[c] # 0 => opaque[c] \in Wrappers(c)

\* A schema that is still to be made has no Schema object.
UsedInv ==
  /\ DOMAIN store \subseteq used
  /\ \A i \in DOMAIN impls : impls[i].schema_ \in used

\* The object that schema_get has made of an entry is the only such one, and
\* the one to which the entry points back until it is destroyed.
Made(c) == {i \in Wrappers(c) : impls[i].via = "get"}

SharedInv ==
  \A c \in DOMAIN store \ raced : \A i \in Made(c) :
    /\ \A j \in Made(c) : i = j
    /\ opaque[c] = i \/ \E t \in Threads : wpc[t] = "delete" /\ c_schema[t] = c

\* What a thread has found out, or its application has seen to, is still so.
Observed(t) ==
  /\ wpc[t] = "wrap" /\ c_schema[t] \notin raced => opaque[c_schema[t]] = 0
  /\ wpc[t] = "delete" => \A i \in held : impls[i].schema_ # c_schema[t]

CallInv == \A t \in Threads : Observed(t)

\* A purge, and the end of the handle, are alone.
AloneInv ==
  /\ \A t \in Threads : wpc[t] \in {"purge", "teardown"} =>
       held = {} /\ \A u \in Threads \ {t} : wpc[u] = "idle"
  /\ \A t \in Threads : wpc[t] = "teardown" => ~open
  /\ ~open => held = {} /\ \A t \in Threads : wpc[t] \in {"idle", "teardown"}
  /\ ~open /\ (\A t \in Threads : wpc[t] = "idle") => store = <<>>

Good ==
  /\ TypeOK
  /\ StoreInv
  /\ PhaseInv
  /\ ApartInv
  /\ SoloInv
  /\ HeldInv
  /\ UsedInv
  /\ SharedInv
  /\ CallInv
  /\ AloneInv
  /\ fault = "none"

IInv == careful => Good

-----------------------------------------------------------------------------
(***************************************************************************)
(* A thread and the others.                                                *)
(***************************************************************************)

\* Busy, as a function of the request r and the c_schema c of a thread.
BusyWith(r, c, s) ==
  IF r # NoRequest /\ r.op # "destroy" THEN r.sym
  ELSE IF c \in DOMAIN s THEN s[c].def.sym ELSE NULL

LEMMA BusyIs ==
  ASSUME NEW t
  PROVE  /\ Busy(t) = BusyWith(pending[t], c_schema[t], store)
         /\ Busy(t)' = BusyWith(pending'[t], c_schema'[t], store')
BY DEF Busy, BusyWith

\* NULL is no pointer.
LEMMA NullPointer ==
  ASSUME StoreInv
  PROVE  0 \notin DOMAIN store
BY WrapperAssumption DEF StoreInv, Ptrs

\* What a thread is busy with, by where it is.
LEMMA BusyByPhase ==
  ASSUME StoreInv, NEW t
  PROVE  /\ Outside(t) => Busy(t) = NULL
         /\ InCache(t) => Busy(t) = pending[t].sym
         /\ InWrapper(t) \/ InDestructor(t) =>
              Busy(t) = store[c_schema[t]].def.sym /\ Busy(t) # NULL
<1>1. 0 \notin DOMAIN store
  BY NullPointer
<1>2. \A c \in DOMAIN store : store[c].def.sym # NULL
  BY WrapperAssumption DEF StoreInv
<1> QED BY <1>1, <1>2
   DEF Busy, Outside, InCache, InWrapper, InDestructor, NoRequest

\* A thread that deletes is in the destructor, one that wraps in the wrapper.
LEMMA PhaseByPlace ==
  ASSUME PhaseInv, NEW t \in Threads
  PROVE  /\ wpc[t] = "delete" => InDestructor(t)
         /\ wpc[t] \in {"framed", "opaque", "wrap", "wrap_added"} => InWrapper(t)
         /\ wpc[t] = "idle" => Outside(t)
         /\ wpc[t] \in {"get", "framing", "add"} => InCache(t)
         /\ wpc[t] \in {"purge", "teardown"} => Clearing(t)
BY DEF PhaseInv, Phase, Outside, InCache, Clearing, InWrapper, InDestructor

\* A thread that does not move, and the entries it is at, which stay.
Still(u) ==
  /\ UNCHANGED <<wpc[u], pending[u], subject[u], c_schema[u]>>
  /\ \A c \in DOMAIN store : c = subject[u] \/ c = c_schema[u] =>
       c \in DOMAIN store' /\ store'[c] = store[c]

LEMMA StillKept ==
  ASSUME StoreInv, StoreInv', NEW u, Phase(u), Still(u)
  PROVE  Phase(u)' /\ Busy(u)' = Busy(u)
<1>1. 0 \notin DOMAIN store
  BY NullPointer
<1>2. 0 \notin DOMAIN store'
  BY WrapperAssumption DEF StoreInv, Ptrs
<1>3. Phase(u)'
  <2>1. Outside(u) => Outside(u)'
    BY DEF Still, Outside
  <2>2. InCache(u) => InCache(u)'
    BY DEF Still, InCache, Consistent
  <2>3. Clearing(u) => Clearing(u)'
    BY DEF Still, Clearing
  <2>4. InWrapper(u) => InWrapper(u)'
    BY DEF Still, InWrapper
  <2>5. InDestructor(u) => InDestructor(u)'
    BY DEF Still, InDestructor
  <2> QED BY <2>1, <2>2, <2>3, <2>4, <2>5 DEF Phase
<1>4. c_schema[u] = 0 \/ c_schema[u] \in DOMAIN store
  BY DEF Phase, Outside, InCache, Clearing, InWrapper, InDestructor
<1>5. Busy(u)' = Busy(u)
  BY <1>1, <1>2, <1>4, BusyIs DEF Still, BusyWith
<1> QED BY <1>3, <1>5

\* A step of thread t: what it is busy with then is not being deleted, and if
\* it deletes it is alone with that.
Apart(t) ==
  \A u \in Threads \ {t} :
    wpc[u] = "delete" \/ wpc'[t] = "delete" => Busy(t)' # Busy(u)

\* A step of thread t: when it comes to schema_get's part of another thread's
\* schema, they have raced.
Solo(t) ==
  \A u \in Threads \ {t} : \A c \in Ptrs :
    Wrapping(t, c)' /\ Wrapping(u, c) => c \in raced'

LEMMA ThreadStep ==
  ASSUME StoreInv, StoreInv', PhaseInv, ApartInv, SoloInv, NEW t \in Threads,
         \A u \in Threads \ {t} : Still(u), raced \subseteq raced',
         Phase(t)', Apart(t), Solo(t)
  PROVE  /\ PhaseInv' /\ ApartInv' /\ SoloInv'
         /\ \A u \in Threads \ {t} : Busy(u)' = Busy(u)
<1>1. \A u \in Threads \ {t} : Phase(u)' /\ Busy(u)' = Busy(u)
  BY StillKept DEF PhaseInv
<1>2. PhaseInv'
  BY <1>1 DEF PhaseInv
<1>3. \A u \in Threads \ {t} : wpc'[u] = wpc[u] /\ c_schema'[u] = c_schema[u]
  BY DEF Still
<1>4. ApartInv'
  BY <1>1, <1>3 DEF ApartInv, Apart
<1>5. SoloInv'
  <2>1. \A u \in Threads \ {t} : \A c \in Ptrs : Wrapping(u, c)' <=> Wrapping(u, c)
    BY <1>3 DEF Wrapping
  <2> QED BY <2>1 DEF SoloInv, Solo
<1> QED BY <1>1, <1>2, <1>4, <1>5

\* A thread that stays busy with the same schema, or ends its call.
LEMMA StaysApart ==
  ASSUME StoreInv, PhaseInv, ApartInv, NEW t \in Threads,
         Busy(t)' \in {Busy(t), NULL}, wpc'[t] # "delete"
  PROVE  Apart(t)
BY PhaseByPlace, BusyByPhase DEF ApartInv, Apart

\* A thread that goes on in schema_get with the same schema, or leaves it.
LEMMA StaysSolo ==
  ASSUME SoloInv, NEW t \in Threads, raced \subseteq raced',
         \/ wpc'[t] \notin {"opaque", "wrap"}
         \/ wpc[t] \in {"opaque", "wrap"} /\ c_schema'[t] = c_schema[t]
  PROVE  Solo(t)
BY DEF SoloInv, Solo, Wrapping

\* While a thread is in a call other than purge and serdes_destroy, no thread
\* is in one of these.
LEMMA NotAlone ==
  ASSUME AloneInv, NEW t \in Threads, wpc[t] \notin {"idle", "purge", "teardown"}
  PROVE  open /\ \A u \in Threads : wpc[u] \notin {"purge", "teardown"}
BY DEF AloneInv

LEMMA AloneKept ==
  ASSUME AloneInv, NEW t \in Threads, wpc[t] \notin {"idle", "purge", "teardown"},
         wpc'[t] \notin {"purge", "teardown"}, UNCHANGED open,
         \A u \in Threads \ {t} : UNCHANGED wpc[u]
  PROVE  AloneInv'
BY NotAlone DEF AloneInv

\* The cache keeps its entries, and a new one has an address of its own.
StoreGrows ==
  /\ DOMAIN store \subseteq DOMAIN store'
  /\ \A c \in DOMAIN store : store'[c] = store[c]
  /\ \A c \in DOMAIN store' : c \in DOMAIN store \/ c \notin used

\* The other threads stand still in a step of t.
OnlyThread(t) ==
  \A u \in Threads \ {t} :
    UNCHANGED <<wpc[u], pending[u], subject[u], c_schema[u]>>

\* No Schema object is made or deleted, though one may be forgotten or
\* returned again.
SameObjects ==
  /\ DOMAIN impls' = DOMAIN impls
  /\ \A i \in DOMAIN impls :
       /\ impls'[i].schema_ = impls[i].schema_ /\ impls'[i].via = impls[i].via
       /\ impls'[i].st = "freed" <=> impls[i].st = "freed"

LEMMA SameWrappers ==
  ASSUME SameObjects
  PROVE  \A c : Wrappers(c)' = Wrappers(c) /\ Made(c)' = Made(c)
<1>1. \A c : Wrappers(c)' =
        {i \in DOMAIN impls' : impls'[i].st # "freed" /\ impls'[i].schema_ = c}
  BY DEF Wrappers
<1>2. \A c : Wrappers(c)' = Wrappers(c)
  BY <1>1 DEF Wrappers, SameObjects
<1>3. \A c : Made(c)' = {i \in Wrappers(c)' : impls'[i].via = "get"}
  BY DEF Made
<1>4. \A c : Made(c)' = Made(c)
  BY <1>2, <1>3 DEF Made, Wrappers, SameObjects
<1> QED BY <1>2, <1>4

\* The objects that schema_get has made are then as they were.
LEMMA SharedKept ==
  ASSUME SharedInv, UsedInv, SameObjects, UNCHANGED opaque, raced \subseteq raced',
         \A c \in DOMAIN store' : c \in DOMAIN store \/ c \notin used,
         \A u \in Threads : wpc[u] = "delete" =>
           wpc'[u] = "delete" /\ c_schema'[u] = c_schema[u]
  PROVE  SharedInv'
<1>1. \A c : Made(c)' = Made(c)
  BY SameWrappers
<1>2. \A c : c \notin used => Made(c) = {}
  BY DEF Made, Wrappers, UsedInv
<1>3. ASSUME NEW c \in DOMAIN store' \ raced', NEW i \in Made(c)
      PROVE  /\ \A j \in Made(c) : i = j
             /\ opaque'[c] = i
                \/ \E t \in Threads : wpc'[t] = "delete" /\ c_schema'[t] = c
  <2>1. c \in DOMAIN store \ raced
    BY <1>2, <1>3
  <2>2. /\ \A j \in Made(c) : i = j
        /\ opaque[c] = i \/ \E t \in Threads : wpc[t] = "delete" /\ c_schema[t] = c
    BY <1>3, <2>1 DEF SharedInv
  <2> QED BY <2>2
<1> QED BY <1>1, <1>3 DEF SharedInv

\* A thread that stands still, and about whose schema nothing changes.
LEMMA ObservedKept ==
  ASSUME NEW u, Observed(u), UNCHANGED <<wpc[u], c_schema[u]>>,
         raced \subseteq raced',
         wpc[u] = "wrap" /\ c_schema[u] \notin raced' =>
           opaque'[c_schema[u]] = opaque[c_schema[u]],
         wpc[u] = "delete" => \A i \in held' :
            \/ i \in held /\ impls'[i].schema_ = impls[i].schema_
            \/ impls'[i].schema_ # c_schema[u]
  PROVE  Observed(u)'
BY DEF Observed

\* What a step of t leaves alone, if it makes and deletes no Schema object.
Quiet ==
  /\ StoreGrows
  /\ raced \subseteq raced'
  /\ used \subseteq used' /\ DOMAIN store' \subseteq used'
  /\ UNCHANGED <<opaque, impls, held>>

LEMMA QuietStep ==
  ASSUME StoreInv, StoreInv', PhaseInv, ApartInv, SoloInv, HeldInv, UsedInv,
         SharedInv, CallInv,
         NEW t \in Threads, OnlyThread(t), Quiet, wpc[t] # "delete",
         Phase(t)', Apart(t), Solo(t), Observed(t)'
  PROVE  PhaseInv' /\ ApartInv' /\ SoloInv' /\ HeldInv' /\ UsedInv' /\ SharedInv' /\ CallInv'
<1>1. \A u \in Threads \ {t} : Still(u)
  BY DEF OnlyThread, Still, Quiet, StoreGrows
<1>2. /\ PhaseInv' /\ ApartInv' /\ SoloInv'
      /\ \A u \in Threads \ {t} : Busy(u)' = Busy(u)
  BY <1>1, ThreadStep DEF Quiet
<1>3. SameObjects
  BY DEF Quiet, SameObjects
<1>4. HeldInv'
  <2>1. \A c : Wrappers(c)' = Wrappers(c)
    BY <1>3, SameWrappers
  <2> QED BY <2>1 DEF HeldInv, Quiet, StoreGrows
<1>5. UsedInv'
  BY DEF UsedInv, Quiet
<1>6. SharedInv'
  <2>1. \A u \in Threads : wpc[u] = "delete" =>
          wpc'[u] = "delete" /\ c_schema'[u] = c_schema[u]
    BY DEF OnlyThread
  <2> QED BY <1>3, <2>1, SharedKept DEF Quiet, StoreGrows
<1>7. CallInv'
  <2>1. ASSUME NEW u \in Threads \ {t} PROVE Observed(u)'
    <3>1. Observed(u) /\ UNCHANGED <<wpc[u], c_schema[u]>>
      BY DEF CallInv, OnlyThread
    <3> QED BY <3>1, ObservedKept DEF Quiet
  <2> QED BY <2>1 DEF CallInv
<1> QED BY <1>2, <1>4, <1>5, <1>6, <1>7

\* A function on the threads that changes for one of them.
LEMMA ExceptThread ==
  ASSUME NEW f, f = [u \in Threads |-> f[u]], NEW t \in Threads, NEW x
  PROVE  /\ [f EXCEPT ![t] = x] = [u \in Threads |-> [f EXCEPT ![t] = x][u]]
         /\ [f EXCEPT ![t] = x][t] = x
         /\ \A u \in Threads \ {t} : [f EXCEPT ![t] = x][u] = f[u]
OBVIOUS

\* Only a call of serdes_schema_get or _add has such a request.
LEMMA InCacheByRequest ==
  ASSUME PhaseInv, NEW t \in Threads, pending[t].op \in {"get", "add"}
  PROVE  InCache(t)
BY DEF PhaseInv, Phase, Outside, Clearing, InWrapper, InDestructor, NoRequest

-----------------------------------------------------------------------------
(***************************************************************************)
(* The steps.                                                              *)
(***************************************************************************)

\* The initial state is Good.
LEMMA InitGood ==
  ASSUME Init
  PROVE  Good
<1>1. /\ store = <<>> /\ open = TRUE /\ impls = <<>> /\ held = {} /\ fault = "none"
      /\ pending = [t \in Threads |-> NoRequest] /\ subject = [t \in Threads |-> 0]
      /\ wpc = [t \in Threads |-> "idle"] /\ c_schema = [t \in Threads |-> 0]
      /\ opaque = [c \in Ptrs |-> 0]
  BY DEF Init, Store!Init
<1>2. DOMAIN store = {} /\ DOMAIN impls = {}
  BY <1>1
<1>3. TypeOK
  BY <1>1 DEF TypeOK
<1>4. StoreInv
  BY <1>2 DEF StoreInv
<1>5. \A t \in Threads : Outside(t)
  BY <1>1 DEF Outside
<1>6. PhaseInv
  BY <1>5 DEF PhaseInv, Phase
<1>7. ApartInv /\ SoloInv /\ CallInv
  BY <1>1 DEF ApartInv, SoloInv, Wrapping, CallInv, Observed
<1>8. HeldInv /\ UsedInv
  BY <1>1, <1>2 DEF HeldInv, UsedInv
<1>9. SharedInv
  BY <1>2 DEF SharedInv
<1>10. AloneInv
  BY <1>1 DEF AloneInv
<1> QED BY <1>1, <1>3, <1>4, <1>6, <1>7, <1>8, <1>9, <1>10 DEF Good

\* The C request of a call.
LEMMA CRequestIs ==
  ASSUME NEW r \in Requests
  PROVE  /\ CRequest(r).op = IF r.op = "framing" THEN "get" ELSE r.op
         /\ CRequest(r).id = r.id /\ CRequest(r).def = r.def
         /\ CRequest(r).sym = r.sym
<1>1. DOMAIN r = {"op", "id", "def", "sym"}
  BY WrapperAssumption
<1> QED BY <1>1 DEF CRequest

\* A call begins: its schema is not being deleted, and a purge or the end of
\* the handle finds nothing held and no thread in a call.
LEMMA CallStep ==
  ASSUME Good, NEW t \in Threads, NEW r \in Requests, Call(t, r), careful'
  PROVE  Good'
<1> USE DEF Good
<1>1. /\ Idle(t) /\ CallRule(t, r) /\ open
      /\ pending' = [pending EXCEPT ![t] = CRequest(r)]
      /\ subject' = [subject EXCEPT ![t] = 0]
      /\ open' = (CRequest(r).op # "teardown")
      /\ wpc' = [wpc EXCEPT ![t] = r.op]
      /\ UNCHANGED <<store, opaque, impls, held, c_schema, used, raced, fault>>
  BY DEF Call, Store!Invoke, implVars
<1>2. /\ wpc'[t] = r.op /\ pending'[t] = CRequest(r) /\ subject'[t] = 0
      /\ OnlyThread(t)
      /\ wpc' = [u \in Threads |-> wpc'[u]]
      /\ pending' = [u \in Threads |-> pending'[u]]
      /\ subject' = [u \in Threads |-> subject'[u]]
  BY <1>1, ExceptThread DEF TypeOK, OnlyThread
<1>3. Outside(t)
  BY <1>1, PhaseByPlace DEF Idle
<1>4. /\ r.op \in {"get", "framing", "add", "purge", "teardown"}
      /\ \A e \in Entries :
           (r.op \in {"get", "framing"} /\ r.id = e.id)
             \/ (r.op = "add" /\ r.def = e.def) => r.sym = e.def.sym
  BY WrapperAssumption
<1>5. TypeOK'
  <2>1. open' \in BOOLEAN
    BY <1>1
  <2> QED BY <1>1, <1>2, <2>1 DEF TypeOK
<1>6. StoreInv' /\ Quiet
  BY <1>1 DEF StoreInv, Quiet, StoreGrows, UsedInv
<1>7. Solo(t) /\ Observed(t)' /\ wpc[t] # "delete"
  <2>1. wpc'[t] \notin {"opaque", "wrap", "delete"}
    BY <1>2, <1>4
  <2> QED BY <1>1, <1>3, <2>1, StaysSolo DEF Observed, Outside
<1>8. CASE r.op \in {"get", "framing", "add"}
  <2>1. \A u \in Threads : wpc[u] # "purge" /\ ~Deleting(u, r.sym)
    BY <1>1, <1>8 DEF CallRule
  <2>2. InCache(t)'
    <3>1. pending'[t].op = IF r.op = "framing" THEN "get" ELSE r.op
      BY <1>2, CRequestIs
    <3>2. pending'[t].sym = r.sym /\ pending'[t].id = r.id /\ pending'[t].def = r.def
      BY <1>2, CRequestIs
    <3>3. Consistent(pending[t])'
      BY <1>4, <1>8, <3>1, <3>2 DEF Consistent
    <3>4. c_schema'[t] = 0
      BY <1>1, <1>3 DEF Outside
    <3> QED BY <1>2, <1>8, <3>1, <3>2, <3>3, <3>4 DEF InCache
  <2>3. Busy(t)' = r.sym
    <3>1. pending'[t].op \in {"get", "add"} /\ pending'[t].sym = r.sym
      BY <1>2, <1>8, CRequestIs
    <3> QED BY <3>1, BusyIs DEF BusyWith, NoRequest
  <2>4. Apart(t)
    BY <1>2, <1>8, <2>1, <2>3 DEF Apart, Deleting
  <2>5. PhaseInv' /\ ApartInv' /\ SoloInv' /\ HeldInv' /\ UsedInv' /\ SharedInv' /\ CallInv'
    BY <1>2, <1>6, <1>7, <2>2, <2>4, QuietStep DEF Phase
  <2>6. AloneInv'
    <3>1. \A u \in Threads : wpc[u] \notin {"purge", "teardown"}
      BY <1>1, <2>1 DEF AloneInv
    <3>2. open'
      <4>1. CRequest(r).op # "teardown"
        BY <1>8, CRequestIs
      <4> QED BY <1>1, <4>1
    <3>3. \A u \in Threads : wpc'[u] \notin {"purge", "teardown"}
      BY <1>2, <1>8, <3>1 DEF OnlyThread
    <3> QED BY <3>2, <3>3 DEF AloneInv
  <2> QED BY <1>1, <1>5, <1>6, <2>5, <2>6
<1>9. CASE r.op \in {"purge", "teardown"}
  <2>1. held = {} /\ \A u \in Threads : Outside(u)
    <3>1. held = {} /\ OthersIdle(t)
      BY <1>1, <1>9 DEF CallRule
    <3> QED BY <1>3, <3>1, PhaseByPlace DEF OthersIdle, Idle
  <2>2. Phase(t)'
    <3>1. pending'[t].op = r.op
      BY <1>2, <1>9, CRequestIs
    <3>2. c_schema'[t] = 0
      BY <1>1, <1>3 DEF Outside
    <3> QED BY <1>2, <1>9, <3>1, <3>2 DEF Clearing, Phase
  <2>3. Apart(t)
    BY <1>2, <1>9, <2>1 DEF Apart, Outside
  <2>4. PhaseInv' /\ ApartInv' /\ SoloInv' /\ HeldInv' /\ UsedInv' /\ SharedInv' /\ CallInv'
    BY <1>2, <1>6, <1>7, <2>2, <2>3, QuietStep
  <2>5. AloneInv'
    <3>1. \A u \in Threads \ {t} : wpc'[u] = "idle"
      BY <1>2, <2>1 DEF Outside, OnlyThread
    <3>2. held' = {}
      BY <1>1, <2>1
    <3>3. open' <=> wpc'[t] = "purge"
      <4>1. CRequest(r).op = r.op
        BY <1>9, CRequestIs
      <4> QED BY <1>1, <1>2, <1>9, <4>1
    <3> QED BY <1>2, <1>9, <3>1, <3>2, <3>3 DEF AloneInv
  <2> QED BY <1>1, <1>5, <1>6, <2>4, <2>5
<1> QED BY <1>4, <1>8, <1>9

\* A schema is found: it is the one that the call is about.
LEMMA FindStep ==
  ASSUME Good, NEW t \in Threads, CFind(t)
  PROVE  Good'
<1> USE DEF Good
<1>1. InCache(t)
  BY InCacheByRequest DEF CFind, Store!Find
<1>2. PICK c \in Store!Answers(pending[t]) :
        /\ subject' = [subject EXCEPT ![t] = c]
        /\ UNCHANGED <<store, open, pending, opaque, impls, held, wpc, c_schema,
                       used, raced, fault>>
  <2>1. PICK c \in Store!Answers(pending[t]) : Store!Choose(t, c)
    BY DEF CFind, Store!Find
  <2>2. ~Store!Idle(t)
    <3>1. pending' = pending /\ pending[t].op \in {"get", "add"}
      BY DEF CFind, Store!Find
    <3>2. Store!Idle(t) => pending'[t] = NoRequest
      BY ExceptThread DEF Store!Idle, TypeOK
    <3> QED BY <3>1, <3>2 DEF NoRequest
  <2>3. subject' = [subject EXCEPT ![t] = c]
    BY <2>1, <2>2 DEF Store!Choose
  <2> QED BY <2>3 DEF CFind, Store!Find, implVars, history
<1>3. /\ subject'[t] = c /\ OnlyThread(t)
      /\ subject' = [u \in Threads |-> subject'[u]]
  BY <1>2, ExceptThread DEF TypeOK, OnlyThread
<1>4. c \in DOMAIN store /\ store[c].def.sym = pending[t].sym
  <2>1. c \in DOMAIN store /\ (IF pending[t].op = "get" THEN store[c].id = pending[t].id
                                                      ELSE store[c].def = pending[t].def)
    BY DEF Store!Answers
  <2>2. store[c] \in Entries
    BY <2>1 DEF StoreInv
  <2>3. pending[t].op = "get" \/ pending[t].op = "add"
    BY <1>1 DEF InCache
  <2>4. \/ pending[t].op = "get" /\ pending[t].id = store[c].id
        \/ pending[t].op = "add" /\ pending[t].def = store[c].def
    BY <2>1, <2>3
  <2>5. Consistent(pending[t])
    BY <1>1 DEF InCache
  <2>6. pending[t].sym = store[c].def.sym
    BY <2>2, <2>4, <2>5 DEF Consistent
  <2> QED BY <2>1, <2>6
<1>5. TypeOK' /\ StoreInv' /\ Quiet
  BY <1>2, <1>3 DEF TypeOK, StoreInv, Quiet, StoreGrows, UsedInv
<1>6. InCache(t)'
  BY <1>1, <1>2, <1>3, <1>4 DEF InCache, Consistent
<1>7. Busy(t)' = Busy(t)
  BY <1>2, BusyIs
<1>8. wpc'[t] = wpc[t] /\ wpc[t] \notin {"idle", "purge", "teardown", "opaque", "wrap", "delete"}
  BY <1>1, <1>2 DEF InCache
<1>9. Apart(t) /\ Solo(t) /\ Observed(t)'
  BY <1>2, <1>7, <1>8, StaysApart, StaysSolo DEF Observed
<1>10. PhaseInv' /\ ApartInv' /\ SoloInv' /\ HeldInv' /\ UsedInv' /\ SharedInv' /\ CallInv'
  BY <1>3, <1>5, <1>6, <1>8, <1>9, QuietStep DEF Phase
<1>11. AloneInv'
  BY <1>2, <1>8, AloneKept
<1> QED BY <1>2, <1>5, <1>10, <1>11

\* A schema is made: it is the one that the call is about.
LEMMA InsertStep ==
  ASSUME Good, NEW t \in Threads, NEW c \in Ptrs, NEW e \in Entries, CInsert(t, c, e)
  PROVE  Good'
<1> USE DEF Good
<1>1. InCache(t)
  BY InCacheByRequest DEF CInsert, Store!Insert
<1>2. /\ c \notin DOMAIN store /\ c \notin used /\ pending[t].sym = e.def.sym
      /\ store' = [d \in DOMAIN store \cup {c} |-> IF d = c THEN e ELSE store[d]]
      /\ used' = used \cup {c}
      /\ UNCHANGED <<open, pending, opaque, impls, held, wpc, c_schema, raced, fault>>
  BY DEF CInsert, Store!Insert, implVars
<1>3. subject' = [subject EXCEPT ![t] = c]
  <2>1. Store!Choose(t, c)
    BY DEF CInsert, Store!Insert
  <2>2. ~Store!Idle(t)
    <3>1. pending' = pending /\ pending[t].op \in {"get", "add"}
      BY DEF CInsert, Store!Insert
    <3>2. Store!Idle(t) => pending'[t] = NoRequest
      BY ExceptThread DEF Store!Idle, TypeOK
    <3> QED BY <3>1, <3>2 DEF NoRequest
  <2> QED BY <2>1, <2>2 DEF Store!Choose
<1>4. /\ subject'[t] = c /\ OnlyThread(t)
      /\ subject' = [u \in Threads |-> subject'[u]]
  BY <1>2, <1>3, ExceptThread DEF TypeOK, OnlyThread
<1>5. /\ DOMAIN store' = DOMAIN store \cup {c} /\ store'[c] = e
      /\ \A d \in DOMAIN store : store'[d] = store[d]
  BY <1>2
<1>6. TypeOK' /\ StoreInv'
  BY <1>2, <1>4, <1>5 DEF TypeOK, StoreInv
<1>7. Quiet
  BY <1>2, <1>5 DEF Quiet, StoreGrows, UsedInv
<1>8. InCache(t)'
  BY <1>1, <1>2, <1>4, <1>5 DEF InCache, Consistent
<1>9. Busy(t)' = Busy(t)
  <2>1. pending[t].op \in {"get", "add"}
    BY <1>1 DEF InCache
  <2> QED BY <1>2, <2>1, BusyIs DEF BusyWith, NoRequest
<1>10. wpc'[t] = wpc[t] /\ wpc[t] \notin {"idle", "purge", "teardown", "opaque", "wrap", "delete"}
  BY <1>1, <1>2 DEF InCache
<1>11. Apart(t) /\ Solo(t) /\ Observed(t)'
  BY <1>2, <1>9, <1>10, StaysApart, StaysSolo DEF Observed
<1>12. PhaseInv' /\ ApartInv' /\ SoloInv' /\ HeldInv' /\ UsedInv' /\ SharedInv' /\ CallInv'
  BY <1>4, <1>6, <1>7, <1>8, <1>10, <1>11, QuietStep DEF Phase
<1>13. AloneInv'
  BY <1>2, <1>10, AloneKept
<1> QED BY <1>2, <1>6, <1>12, <1>13

\* A C function returns: its schema is now that of c_schema, and when another
\* thread is in schema_get with it the two have raced; a purge or
\* serdes_destroy, alone until here, has left nothing.
LEMMA RespondStep ==
  ASSUME Good, NEW t \in Threads, CRespond(t)
  PROVE  Good'
<1> USE DEF Good
<1>1. PICK p \in After(t) :
        /\ wpc[t] \in {"get", "framing", "add", "purge", "teardown"}
        /\ pending[t].op = "teardown" => store = <<>>
        /\ pending' = [pending EXCEPT ![t] = NoRequest]
        /\ subject' = [subject EXCEPT ![t] = 0]
        /\ c_schema' = [c_schema EXCEPT ![t] = IF p = "idle" THEN 0 ELSE subject[t]]
        /\ wpc' = [wpc EXCEPT ![t] = p]
        /\ UNCHANGED <<store, open, opaque, impls, held, used, fault>>
  BY DEF CRespond, Store!Respond, Store!Idle, implVars
<1> DEFINE c == IF p = "idle" THEN 0 ELSE subject[t]
<1>2. /\ pending'[t] = NoRequest /\ subject'[t] = 0 /\ c_schema'[t] = c /\ wpc'[t] = p
      /\ OnlyThread(t)
      /\ wpc' = [u \in Threads |-> wpc'[u]]
      /\ pending' = [u \in Threads |-> pending'[u]]
      /\ subject' = [u \in Threads |-> subject'[u]]
      /\ c_schema' = [u \in Threads |-> c_schema'[u]]
  BY <1>1, ExceptThread DEF TypeOK, OnlyThread
<1>3. raced \subseteq raced'
      /\ \A u \in Threads : wpc[t] = "get" /\ Wrapping(u, subject[t]) =>
           subject[t] \in raced'
  BY DEF CRespond
<1>4. TypeOK' /\ StoreInv' /\ Quiet
  BY <1>1, <1>2, <1>3 DEF TypeOK, StoreInv, Quiet, StoreGrows, UsedInv
<1>5. InCache(t) \/ Clearing(t)
  BY <1>1, PhaseByPlace
<1>6. \/ p = "idle"
      \/ /\ InCache(t) /\ subject[t] # 0
         /\ p \in {"framed", "opaque", "wrap_added"}
         /\ p = "opaque" => wpc[t] = "get"
  <2>1. CASE subject[t] = 0
    BY <2>1 DEF After
  <2>2. CASE subject[t] # 0
    <3>1. InCache(t)
      BY <1>5, <2>2 DEF Clearing
    <3>2. wpc[t] \in {"get", "framing", "add"}
      BY <3>1 DEF InCache
    <3>3. CASE wpc[t] = "get"
      BY <2>2, <3>1, <3>3 DEF After
    <3>4. CASE wpc[t] = "framing"
      BY <2>2, <3>1, <3>4 DEF After
    <3>5. CASE wpc[t] = "add"
      BY <2>2, <3>1, <3>5 DEF After
    <3> QED BY <3>2, <3>3, <3>4, <3>5
  <2> QED BY <2>1, <2>2
<1>7. wpc[t] # "delete" /\ p # "delete" /\ Observed(t)'
  BY <1>1, <1>2, <1>6 DEF Observed
<1>8. CASE p = "idle"
  <2>1. Outside(t)'
    BY <1>2, <1>8 DEF Outside
  <2>2. Busy(t)' = NULL
    <3>1. c_schema'[t] = 0 /\ 0 \notin DOMAIN store' /\ pending'[t] = NoRequest
      BY <1>1, <2>1, NullPointer DEF Outside
    <3> QED BY <3>1, BusyIs DEF BusyWith
  <2>3. Apart(t) /\ Solo(t)
    BY <1>2, <1>3, <1>8, <2>2, StaysApart, StaysSolo
  <2>4. PhaseInv' /\ ApartInv' /\ SoloInv' /\ HeldInv' /\ UsedInv' /\ SharedInv' /\ CallInv'
    BY <1>2, <1>4, <1>7, <2>1, <2>3, QuietStep DEF Phase
  <2>5. AloneInv'
    <3>1. CASE InCache(t)
      BY <1>1, <1>2, <1>8, <3>1, AloneKept DEF InCache, OnlyThread
    <3>2. CASE Clearing(t)
      <4>1. held = {} /\ \A u \in Threads : wpc'[u] = "idle"
        BY <1>2, <1>8, <3>2 DEF Clearing, AloneInv, OnlyThread
      <4>2. ~open => store = <<>>
        BY <1>1, <3>2 DEF Clearing, AloneInv
      <4> QED BY <1>1, <4>1, <4>2 DEF AloneInv
    <3> QED BY <1>5, <3>1, <3>2
  <2> QED BY <1>1, <1>4, <2>4, <2>5
<1>9. CASE p # "idle"
  <2>1. c \in DOMAIN store /\ c = subject[t] /\ store[c].def.sym = pending[t].sym
    BY <1>6, <1>9 DEF InCache
  <2>2. InWrapper(t)'
    BY <1>1, <1>2, <1>6, <1>9, <2>1 DEF InWrapper
  <2>3. Busy(t)' = Busy(t)
    <3>1. Busy(t) = pending[t].sym
      BY <1>6, <1>9, BusyByPhase
    <3>2. Busy(t)' = store[c].def.sym
      BY <1>1, <1>2, <2>1, BusyIs DEF BusyWith
    <3> QED BY <2>1, <3>1, <3>2
  <2>4. Apart(t)
    BY <1>2, <1>7, <2>3, StaysApart
  <2>5. Solo(t)
    BY <1>2, <1>3, <1>6, <2>1 DEF Solo, Wrapping
  <2>6. PhaseInv' /\ ApartInv' /\ SoloInv' /\ HeldInv' /\ UsedInv' /\ SharedInv' /\ CallInv'
    BY <1>2, <1>4, <1>7, <2>2, <2>4, <2>5, QuietStep DEF Phase
  <2>7. AloneInv'
    BY <1>1, <1>2, <1>6, <1>9, AloneKept DEF OnlyThread, InCache
  <2> QED BY <1>1, <1>4, <2>6, <2>7
<1> QED BY <1>8, <1>9

\* The id of a framing is that of the schema, about which schema_get is called.
LEMMA FramedGetStep ==
  ASSUME Good, NEW t \in Threads, FramedGet(t)
  PROVE  Good'
<1> USE DEF Good
<1> DEFINE c == c_schema[t]
           r == [op |-> "get", id |-> store[c].id, def |-> NULL,
                 sym |-> store[c].def.sym]
<1>1. /\ wpc[t] = "framed" /\ c \in DOMAIN store /\ open
      /\ pending' = [pending EXCEPT ![t] = r]
      /\ subject' = [subject EXCEPT ![t] = 0]
      /\ open' = (r.op # "teardown")
      /\ wpc' = [wpc EXCEPT ![t] = "get"]
      /\ c_schema' = [c_schema EXCEPT ![t] = 0]
      /\ UNCHANGED <<store, opaque, impls, held, used, raced, fault>>
  BY DEF FramedGet, Store!Invoke, implVars, history
<1>2. /\ r.op = "get" /\ r.id = store[c].id /\ r.sym = store[c].def.sym /\ open' = open
  BY <1>1 DEF TypeOK
<1>3. store[c] \in Entries
  BY <1>1 DEF StoreInv
<1>4. Consistent(r)
  BY <1>2, <1>3, WrapperAssumption DEF Consistent
<1> HIDE DEF r
<1>5. /\ wpc'[t] = "get" /\ pending'[t] = r /\ subject'[t] = 0 /\ c_schema'[t] = 0
      /\ OnlyThread(t)
      /\ wpc' = [u \in Threads |-> wpc'[u]]
      /\ pending' = [u \in Threads |-> pending'[u]]
      /\ subject' = [u \in Threads |-> subject'[u]]
      /\ c_schema' = [u \in Threads |-> c_schema'[u]]
  BY <1>1, ExceptThread DEF TypeOK, OnlyThread
<1>6. TypeOK' /\ StoreInv' /\ Quiet
  BY <1>1, <1>2, <1>5 DEF TypeOK, StoreInv, Quiet, StoreGrows, UsedInv
<1>7. InCache(t)'
  BY <1>2, <1>4, <1>5 DEF InCache, Consistent
<1>8. Busy(t)' = Busy(t)
  <2>1. Busy(t) = store[c].def.sym
    BY <1>1, PhaseByPlace, BusyByPhase
  <2>2. Busy(t)' = r.sym
    BY <1>2, <1>5, BusyIs DEF BusyWith, NoRequest
  <2> QED BY <1>2, <2>1, <2>2
<1>9. Apart(t) /\ Solo(t) /\ Observed(t)'
  BY <1>1, <1>5, <1>8, StaysApart, StaysSolo DEF Observed
<1>10. PhaseInv' /\ ApartInv' /\ SoloInv' /\ HeldInv' /\ UsedInv' /\ SharedInv' /\ CallInv'
  BY <1>1, <1>5, <1>6, <1>7, <1>9, QuietStep DEF Phase
<1>11. AloneInv'
  BY <1>1, <1>2, <1>5, AloneKept DEF OnlyThread
<1> QED BY <1>1, <1>6, <1>10, <1>11

\* A Schema object changes its state only.
LEMMA ExceptImpl ==
  ASSUME TypeOK, NEW i \in DOMAIN impls, NEW s \in {"live", "abandoned", "freed"},
         impls' = [impls EXCEPT ![i].st = s]
  PROVE  /\ impls' \in Seq(SchemaImpls) /\ DOMAIN impls' = DOMAIN impls
         /\ impls'[i].st = s
         /\ impls'[i].schema_ = impls[i].schema_ /\ impls'[i].via = impls[i].via
         /\ \A j \in DOMAIN impls : j # i => impls'[j] = impls[j]
<1> DEFINE new == [impls[i] EXCEPT !.st = s]
<1>1. impls' = [impls EXCEPT ![i] = new]
  OBVIOUS
<1>2. impls \in Seq(SchemaImpls) /\ DOMAIN impls = 1 .. Len(impls) /\ Len(impls) \in Nat
      /\ impls[i] \in SchemaImpls
  BY DEF TypeOK
<1>3. /\ new \in SchemaImpls /\ new.st = s
      /\ new.schema_ = impls[i].schema_ /\ new.via = impls[i].via
  BY <1>2 DEF SchemaImpls
<1> HIDE DEF new
<1>4. impls' \in Seq(SchemaImpls)
  BY <1>1, <1>2, <1>3, ExceptSeq
<1> QED BY <1>1, <1>2, <1>3, <1>4

\* schema_get has read the opaque pointer: it leads to a Schema object that
\* exists, which is returned, or there is none.
LEMMA ReadOpaqueStep ==
  ASSUME Good, NEW t \in Threads, ReadOpaque(t)
  PROVE  Good'
<1> USE DEF Good
<1> DEFINE c == c_schema[t]
           i == opaque[c]
<1>1. /\ wpc[t] = "opaque" /\ c \in DOMAIN store
      /\ UNCHANGED <<store, pending, subject, open, opaque, used, raced, fault>>
  BY DEF ReadOpaque, storeVars, history
<1>2. InWrapper(t) /\ Busy(t) = store[c].def.sym /\ c \in Ptrs
  BY <1>1, PhaseByPlace, BusyByPhase DEF StoreInv
<1>3. StoreInv'
  BY <1>1 DEF StoreInv
<1>4. CASE i = 0
  <2>1. /\ wpc' = [wpc EXCEPT ![t] = "wrap"]
        /\ UNCHANGED <<c_schema, held, impls>>
    BY <1>4 DEF ReadOpaque
  <2>2. /\ OnlyThread(t) /\ wpc'[t] = "wrap"
        /\ wpc' = [u \in Threads |-> wpc'[u]]
    BY <1>1, <2>1, ExceptThread DEF TypeOK, OnlyThread
  <2>3. TypeOK' /\ Quiet
    BY <1>1, <2>1, <2>2 DEF TypeOK, Quiet, StoreGrows, UsedInv
  <2>4. InWrapper(t)' /\ Busy(t)' = Busy(t)
    BY <1>1, <1>2, <2>1, <2>2, BusyIs DEF InWrapper
  <2>5. Apart(t) /\ Solo(t) /\ Observed(t)'
    BY <1>1, <1>4, <2>1, <2>2, <2>4, StaysApart, StaysSolo DEF Observed
  <2>6. PhaseInv' /\ ApartInv' /\ SoloInv' /\ HeldInv' /\ UsedInv' /\ SharedInv' /\ CallInv'
    BY <1>1, <1>3, <2>2, <2>3, <2>4, <2>5, QuietStep DEF Phase
  <2>7. AloneInv'
    BY <1>1, <2>2, AloneKept DEF OnlyThread
  <2> QED BY <1>1, <1>3, <2>3, <2>6, <2>7
<1>5. CASE i # 0
  <2>1. /\ wpc' = [wpc EXCEPT ![t] = "idle"]
        /\ c_schema' = [c_schema EXCEPT ![t] = 0]
        /\ held' = held \cup {i}
        /\ impls' = [impls EXCEPT ![i].st = "live"]
    BY <1>5 DEF ReadOpaque, Done
  <2>2. /\ OnlyThread(t) /\ wpc'[t] = "idle" /\ c_schema'[t] = 0
        /\ wpc' = [u \in Threads |-> wpc'[u]]
        /\ c_schema' = [u \in Threads |-> c_schema'[u]]
    BY <1>1, <2>1, ExceptThread DEF TypeOK, OnlyThread
  <2>3. i \in DOMAIN impls /\ impls[i].st # "freed" /\ impls[i].schema_ = c
    BY <1>2, <1>5 DEF HeldInv, Wrappers
  <2>4. /\ impls' \in Seq(SchemaImpls) /\ DOMAIN impls' = DOMAIN impls
        /\ impls'[i].st = "live"
        /\ impls'[i].schema_ = impls[i].schema_ /\ impls'[i].via = impls[i].via
        /\ \A j \in DOMAIN impls : j # i => impls'[j] = impls[j]
    BY <2>1, <2>3, ExceptImpl
  <2>5. SameObjects
    BY <2>3, <2>4 DEF SameObjects
  <2> HIDE DEF i
  <2>6. TypeOK'
    BY <1>1, <2>2, <2>4 DEF TypeOK
  <2>7. Outside(t)' /\ Busy(t)' = NULL
    <3>1. Outside(t)'
      BY <1>1, <1>2, <2>2 DEF Outside, InWrapper
    <3>2. c_schema'[t] = 0 /\ 0 \notin DOMAIN store' /\ pending'[t] = NoRequest
      BY <1>1, <3>1, NullPointer DEF Outside
    <3> QED BY <3>1, <3>2, BusyIs DEF BusyWith
  <2>8. Apart(t) /\ Solo(t)
    BY <1>1, <2>2, <2>7, StaysApart, StaysSolo
  <2>9. PhaseInv' /\ ApartInv' /\ SoloInv'
    <3>1. \A u \in Threads \ {t} : Still(u)
      BY <1>1, <2>2 DEF OnlyThread, Still
    <3> QED BY <1>1, <1>3, <2>7, <2>8, <3>1, ThreadStep DEF Phase
  <2>10. HeldInv'
    <3>1. held' = {j \in DOMAIN impls' : impls'[j].st = "live"}
      BY <2>1, <2>3, <2>4 DEF HeldInv
    <3>2. \A j \in held' : impls'[j].schema_ \in DOMAIN store'
      BY <1>1, <2>1, <2>3, <2>5 DEF HeldInv, SameObjects
    <3>3. \A d : Wrappers(d)' = Wrappers(d)
      BY <2>5, SameWrappers
    <3> QED BY <1>1, <3>1, <3>2, <3>3 DEF HeldInv
  <2>11. UsedInv'
    BY <1>1, <2>5 DEF UsedInv, SameObjects
  <2>12. SharedInv'
    <3>1. \A u \in Threads : wpc[u] = "delete" =>
            wpc'[u] = "delete" /\ c_schema'[u] = c_schema[u]
      BY <1>1, <2>2 DEF OnlyThread
    <3> QED BY <1>1, <2>5, <3>1, SharedKept
  <2>13. CallInv'
    <3>1. ASSUME NEW u \in Threads \ {t} PROVE Observed(u)'
      <4>1. Observed(u) /\ UNCHANGED <<wpc[u], c_schema[u]>>
        BY <2>2 DEF CallInv, OnlyThread
      <4>2. wpc[u] = "delete" => c_schema[u] # c
        BY <1>2, PhaseByPlace, BusyByPhase DEF ApartInv
      <4>3. wpc[u] = "delete" => \A j \in held' :
              \/ j \in held /\ impls'[j].schema_ = impls[j].schema_
              \/ impls'[j].schema_ # c_schema[u]
        BY <2>1, <2>3, <2>4, <2>5, <4>2 DEF HeldInv, SameObjects
      <4> QED BY <1>1, <4>1, <4>3, ObservedKept
    <3>2. Observed(t)'
      BY <2>2 DEF Observed
    <3> QED BY <3>1, <3>2 DEF CallInv
  <2>14. AloneInv'
    BY <1>1, <2>2, AloneKept DEF OnlyThread
  <2> QED BY <1>1, <1>3, <2>6, <2>9, <2>10, <2>11, <2>12, <2>13, <2>14
<1> QED BY <1>4, <1>5

\* A Schema object is made: by schema_get it is the first of its entry, unless
\* two threads have raced, for the opaque pointer is NULL still.
LEMMA WrapStep ==
  ASSUME Good, NEW t \in Threads, Wrap(t) \/ WrapAdded(t)
  PROVE  Good'
<1> USE DEF Good
<1> DEFINE c == c_schema[t]
           k == Len(impls) + 1
<1>1. PICK via \in {"get", "add"} :
        /\ wpc[t] = IF via = "get" THEN "wrap" ELSE "wrap_added"
        /\ impls' = Append(impls, NewImpl(c, via))
        /\ opaque' = IF via = "get" THEN [opaque EXCEPT ![c] = k] ELSE opaque
        /\ held' = held \cup {k}
        /\ wpc' = [wpc EXCEPT ![t] = "idle"]
        /\ c_schema' = [c_schema EXCEPT ![t] = 0]
        /\ UNCHANGED <<store, pending, subject, open, used, raced, fault>>
  <2>1. CASE Wrap(t)
    BY <2>1 DEF Wrap, Done, storeVars, history
  <2>2. CASE WrapAdded(t)
    BY <2>2 DEF WrapAdded, Done, storeVars, history
  <2> QED BY <2>1, <2>2
<1>2. InWrapper(t)
  BY <1>1, PhaseByPlace
<1>3. c \in DOMAIN store /\ c \in Ptrs /\ Busy(t) = store[c].def.sym
  BY <1>2, BusyByPhase DEF InWrapper, StoreInv
<1>4. /\ OnlyThread(t) /\ wpc'[t] = "idle" /\ c_schema'[t] = 0
      /\ wpc' = [u \in Threads |-> wpc'[u]]
      /\ c_schema' = [u \in Threads |-> c_schema'[u]]
  BY <1>1, ExceptThread DEF TypeOK, OnlyThread
<1>5. /\ impls' \in Seq(SchemaImpls) /\ Len(impls) \in Nat /\ Len(impls') = k
      /\ \A i \in 1 .. Len(impls) : impls'[i] = impls[i]
      /\ impls'[k].st = "live" /\ impls'[k].schema_ = c /\ impls'[k].via = via
      /\ DOMAIN impls = 1 .. Len(impls) /\ DOMAIN impls' = 1 .. k
  <2> DEFINE new == NewImpl(c, via)
  <2>1. new \in SchemaImpls /\ new.st = "live" /\ new.schema_ = c /\ new.via = via
    BY <1>3 DEF NewImpl, SchemaImpls
  <2>2. impls' = Append(impls, new) /\ impls \in Seq(SchemaImpls)
    BY <1>1 DEF TypeOK
  <2> HIDE DEF new
  <2> QED BY <2>1, <2>2, AppendProperties
<1>6. /\ k \notin DOMAIN impls /\ DOMAIN impls' = DOMAIN impls \cup {k} /\ k # 0
      /\ \A i \in DOMAIN impls : impls'[i] = impls[i]
  BY <1>5
<1> HIDE DEF k
<1>7. opaque' = [d \in Ptrs |-> opaque'[d]]
      /\ (\A d \in Ptrs \ {c} : opaque'[d] = opaque[d])
      /\ opaque'[c] = IF via = "get" THEN k ELSE opaque[c]
  BY <1>1, <1>3 DEF TypeOK
<1>8. TypeOK' /\ StoreInv'
  BY <1>1, <1>4, <1>5, <1>7 DEF TypeOK, StoreInv
<1>9. \A u \in Threads \ {t} : wpc[u] = "delete" => c_schema[u] # c
  BY <1>3, PhaseByPlace, BusyByPhase DEF ApartInv
<1>10. Outside(t)' /\ Busy(t)' = NULL
  <2>1. Outside(t)'
    BY <1>1, <1>2, <1>4 DEF Outside, InWrapper
  <2>2. c_schema'[t] = 0 /\ 0 \notin DOMAIN store' /\ pending'[t] = NoRequest
    BY <1>1, <2>1, NullPointer DEF Outside
  <2> QED BY <2>1, <2>2, BusyIs DEF BusyWith
<1>11. PhaseInv' /\ ApartInv' /\ SoloInv'
  <2>1. \A u \in Threads \ {t} : Still(u)
    BY <1>1, <1>4 DEF OnlyThread, Still
  <2>2. Apart(t) /\ Solo(t)
    BY <1>1, <1>4, <1>10, StaysApart, StaysSolo
  <2> QED BY <1>1, <1>8, <1>10, <2>1, <2>2, ThreadStep DEF Phase
<1>12. \A d : Wrappers(d)' = Wrappers(d) \cup (IF d = c THEN {k} ELSE {})
  <2>1. \A d : Wrappers(d)' =
          {i \in DOMAIN impls' : impls'[i].st # "freed" /\ impls'[i].schema_ = d}
    BY DEF Wrappers
  <2> QED BY <1>5, <1>6, <2>1 DEF Wrappers
<1>13. HeldInv'
  <2>1. held' = {i \in DOMAIN impls' : impls'[i].st = "live"}
    BY <1>1, <1>5, <1>6 DEF HeldInv
  <2>2. \A i \in held' : impls'[i].schema_ \in DOMAIN store'
    BY <1>1, <1>3, <1>5, <1>6 DEF HeldInv
  <2>3. \A d \in Ptrs : opaque'[d] # 0 => opaque'[d] \in Wrappers(d)'
    BY <1>7, <1>12 DEF HeldInv
  <2> QED BY <2>1, <2>2, <2>3 DEF HeldInv
<1>14. UsedInv'
  BY <1>1, <1>3, <1>5, <1>6 DEF UsedInv
<1>15. SharedInv'
  <2>1. \A d : Made(d)' =
          Made(d) \cup (IF d = c /\ via = "get" THEN {k} ELSE {})
    <3>1. \A d : Made(d)' = {i \in Wrappers(d)' : impls'[i].via = "get"}
      BY DEF Made
    <3>2. \A d : \A i \in Wrappers(d) : i \in DOMAIN impls
      BY DEF Wrappers
    <3> QED BY <1>5, <1>6, <1>12, <3>1, <3>2 DEF Made
  <2>2. via = "get" /\ c \notin raced => Made(c) = {}
    <3> SUFFICES ASSUME via = "get", c \notin raced, NEW i \in Made(c)
                 PROVE  FALSE
      OBVIOUS
    <3>1. opaque[c] = 0
      BY <1>1 DEF CallInv, Observed
    <3>2. i # 0
      BY <1>5 DEF Made, Wrappers
    <3>3. \E u \in Threads : wpc[u] = "delete" /\ c_schema[u] = c
      BY <1>3, <3>1, <3>2 DEF SharedInv
    <3> QED BY <1>1, <1>9, <3>3
  <2>3. \A u \in Threads : wpc[u] = "delete" =>
          wpc'[u] = "delete" /\ c_schema'[u] = c_schema[u]
    BY <1>1, <1>4 DEF OnlyThread
  <2>4. ASSUME NEW d \in DOMAIN store \ raced, NEW i \in Made(d)'
        PROVE  /\ \A j \in Made(d)' : i = j
               /\ opaque'[d] = i
                  \/ \E u \in Threads : wpc'[u] = "delete" /\ c_schema'[u] = d
    <3>1. CASE d = c /\ via = "get"
      BY <1>7, <2>1, <2>2, <2>4, <3>1
    <3>2. CASE ~(d = c /\ via = "get")
      <4>1. Made(d)' = Made(d)
        BY <2>1, <3>2
      <4>2. opaque'[d] = opaque[d]
        BY <1>7, <3>2 DEF StoreInv
      <4>3. /\ \A j \in Made(d) : i = j
            /\ opaque[d] = i \/ \E u \in Threads : wpc[u] = "delete" /\ c_schema[u] = d
        BY <2>4, <4>1 DEF SharedInv
      <4> QED BY <2>3, <4>1, <4>2, <4>3
    <3> QED BY <3>1, <3>2
  <2> QED BY <1>1, <2>4 DEF SharedInv
<1>16. CallInv'
  <2>1. ASSUME NEW u \in Threads \ {t} PROVE Observed(u)'
    <3>1. Observed(u) /\ UNCHANGED <<wpc[u], c_schema[u]>>
      BY <1>4 DEF CallInv, OnlyThread
    <3>2. wpc[u] = "wrap" /\ c_schema[u] \notin raced' =>
            opaque'[c_schema[u]] = opaque[c_schema[u]]
      <4> SUFFICES ASSUME wpc[u] = "wrap", c_schema[u] \notin raced
                   PROVE  opaque'[c_schema[u]] = opaque[c_schema[u]]
        BY <1>1
      <4>1. c_schema[u] \in Ptrs
        BY PhaseByPlace DEF InWrapper, StoreInv
      <4>2. via = "get" => c_schema[u] # c
        BY <1>1, <1>3 DEF SoloInv, Wrapping
      <4> QED BY <1>7, <4>1, <4>2
    <3>3. wpc[u] = "delete" => \A i \in held' :
            \/ i \in held /\ impls'[i].schema_ = impls[i].schema_
            \/ impls'[i].schema_ # c_schema[u]
      BY <1>1, <1>5, <1>6, <1>9 DEF HeldInv
    <3> QED BY <1>1, <3>1, <3>2, <3>3, ObservedKept
  <2>2. Observed(t)'
    BY <1>4 DEF Observed
  <2> QED BY <2>1, <2>2 DEF CallInv
<1>17. AloneInv'
  <2>1. wpc[t] \in {"wrap", "wrap_added"}
    BY <1>1
  <2> QED BY <1>1, <1>4, <2>1, AloneKept DEF OnlyThread
<1> QED BY <1>1, <1>8, <1>11, <1>13, <1>14, <1>15, <1>16, <1>17

\* A Schema object is deleted: no other that is held leads to its entry, and no
\* call is about its schema.
LEMMA DeleteStep ==
  ASSUME Good, NEW t \in Threads, NEW i \in held, Delete(t, i), careful'
  PROVE  Good'
<1> USE DEF Good
<1> DEFINE c == impls[i].schema_
           destroy == [NoRequest EXCEPT !.op = "destroy"]
<1>1. /\ Idle(t) /\ open /\ c \in DOMAIN store
      /\ \A j \in held \ {i} : impls[j].schema_ # c
      /\ \A u \in Threads : wpc[u] # "purge" /\ Busy(u) # store[c].def.sym
      /\ opaque' = [opaque EXCEPT ![c] = 0]
      /\ pending' = [pending EXCEPT ![t] = destroy]
      /\ subject' = [subject EXCEPT ![t] = c]
      /\ open' = (destroy.op # "teardown")
      /\ impls' = [impls EXCEPT ![i].st = "freed"]
      /\ held' = held \ {i}
      /\ c_schema' = [c_schema EXCEPT ![t] = c]
      /\ wpc' = [wpc EXCEPT ![t] = "delete"]
      /\ UNCHANGED <<store, used, raced, fault>>
  BY DEF Delete, DeleteRule, Store!Invoke
<1>2. destroy.op = "destroy"
  BY DEF NoRequest
<1> HIDE DEF destroy
<1>3. /\ pending'[t] = destroy /\ subject'[t] = c /\ c_schema'[t] = c
      /\ wpc'[t] = "delete" /\ OnlyThread(t)
      /\ wpc' = [u \in Threads |-> wpc'[u]]
      /\ pending' = [u \in Threads |-> pending'[u]]
      /\ subject' = [u \in Threads |-> subject'[u]]
      /\ c_schema' = [u \in Threads |-> c_schema'[u]]
  BY <1>1, ExceptThread DEF TypeOK, OnlyThread
<1>4. /\ i \in DOMAIN impls /\ impls[i].st = "live"
      /\ \A j \in held : j \in DOMAIN impls
  BY DEF HeldInv
<1>5. /\ impls' \in Seq(SchemaImpls) /\ DOMAIN impls' = DOMAIN impls
      /\ impls'[i].st = "freed"
      /\ impls'[i].schema_ = c /\ impls'[i].via = impls[i].via
      /\ \A j \in DOMAIN impls : j # i => impls'[j] = impls[j]
  BY <1>1, <1>4, ExceptImpl
<1>6. /\ c \in Ptrs /\ opaque' = [d \in Ptrs |-> opaque'[d]]
      /\ \A d \in Ptrs : opaque'[d] = IF d = c THEN 0 ELSE opaque[d]
  BY <1>1 DEF TypeOK, StoreInv
<1>7. open'
  BY <1>1, <1>2
<1>8. TypeOK' /\ StoreInv'
  <2>1. open' \in BOOLEAN
    BY <1>1
  <2> QED BY <1>1, <1>3, <1>5, <1>6, <2>1 DEF TypeOK, StoreInv
<1>9. InDestructor(t)'
  BY <1>1, <1>2, <1>3 DEF InDestructor
<1>10. PhaseInv' /\ ApartInv' /\ SoloInv'
  <2>1. \A u \in Threads \ {t} : Still(u)
    BY <1>1, <1>3 DEF OnlyThread, Still
  <2>2. Busy(t)' = store[c].def.sym
    BY <1>1, <1>2, <1>3, BusyIs DEF BusyWith
  <2>3. Apart(t) /\ Solo(t)
    BY <1>1, <1>3, <2>2, StaysSolo DEF Apart
  <2> QED BY <1>1, <1>8, <1>9, <2>1, <2>3, ThreadStep DEF Phase
<1>11. \A j \in held' : /\ j \in held /\ j # i /\ impls'[j] = impls[j]
                        /\ impls[j].schema_ # c
  BY <1>1, <1>4, <1>5
<1>12. \A d : Wrappers(d)' = Wrappers(d) \ {i}
  <2>1. \A d : Wrappers(d)' =
          {j \in DOMAIN impls' : impls'[j].st # "freed" /\ impls'[j].schema_ = d}
    BY DEF Wrappers
  <2> QED BY <1>4, <1>5, <2>1 DEF Wrappers
<1>13. HeldInv'
  <2>1. held' = {j \in DOMAIN impls' : impls'[j].st = "live"}
    BY <1>1, <1>4, <1>5 DEF HeldInv
  <2>2. \A j \in held' : impls'[j].schema_ \in DOMAIN store'
    BY <1>1, <1>11 DEF HeldInv
  <2>3. \A d \in Ptrs : opaque'[d] # 0 => opaque'[d] \in Wrappers(d)'
    <3> SUFFICES ASSUME NEW d \in Ptrs, opaque'[d] # 0
                 PROVE  opaque'[d] \in Wrappers(d)'
      OBVIOUS
    <3>1. d # c /\ opaque'[d] = opaque[d]
      BY <1>6
    <3>2. opaque[d] \in Wrappers(d)
      BY <3>1 DEF HeldInv
    <3>3. i \notin Wrappers(d)
      BY <3>1 DEF Wrappers
    <3> QED BY <1>12, <3>1, <3>2, <3>3
  <2> QED BY <2>1, <2>2, <2>3 DEF HeldInv
<1>14. UsedInv'
  BY <1>1, <1>5 DEF UsedInv
<1>15. SharedInv'
  <2>1. \A d : Made(d)' = Made(d) \ {i}
    <3>1. \A d : Made(d)' = {j \in Wrappers(d)' : impls'[j].via = "get"}
      BY DEF Made
    <3>2. \A d : \A j \in Wrappers(d) : j \in DOMAIN impls
      BY DEF Wrappers
    <3> QED BY <1>5, <1>12, <3>1, <3>2 DEF Made
  <2>2. \A u \in Threads : wpc[u] = "delete" =>
          wpc'[u] = "delete" /\ c_schema'[u] = c_schema[u]
    BY <1>1, <1>3 DEF OnlyThread, Idle
  <2>3. ASSUME NEW d \in DOMAIN store \ raced, NEW j \in Made(d)'
        PROVE  /\ \A l \in Made(d)' : j = l
               /\ opaque'[d] = j
                  \/ \E u \in Threads : wpc'[u] = "delete" /\ c_schema'[u] = d
    <3>1. /\ \A l \in Made(d) : j = l
          /\ opaque[d] = j \/ \E u \in Threads : wpc[u] = "delete" /\ c_schema[u] = d
      BY <2>1, <2>3 DEF SharedInv
    <3>2. CASE d = c
      BY <1>3, <2>1, <3>1, <3>2
    <3>3. CASE d # c
      BY <1>6, <2>1, <2>2, <3>1, <3>3 DEF StoreInv
    <3> QED BY <3>2, <3>3
  <2> QED BY <1>1, <2>3 DEF SharedInv
<1>16. CallInv'
  <2>1. ASSUME NEW u \in Threads \ {t} PROVE Observed(u)'
    <3>1. Observed(u) /\ UNCHANGED <<wpc[u], c_schema[u]>>
      BY <1>3 DEF CallInv, OnlyThread
    <3>2. wpc[u] = "wrap" /\ c_schema[u] \notin raced' =>
            opaque'[c_schema[u]] = opaque[c_schema[u]]
      <4> SUFFICES ASSUME wpc[u] = "wrap"
                   PROVE  opaque'[c_schema[u]] = opaque[c_schema[u]]
        OBVIOUS
      <4>1. InWrapper(u) /\ Busy(u) = store[c_schema[u]].def.sym
        BY PhaseByPlace, BusyByPhase
      <4>2. c_schema[u] \in Ptrs /\ c_schema[u] # c
        BY <1>1, <4>1 DEF InWrapper, StoreInv
      <4> QED BY <1>6, <4>2
    <3>3. wpc[u] = "delete" => \A j \in held' :
            \/ j \in held /\ impls'[j].schema_ = impls[j].schema_
            \/ impls'[j].schema_ # c_schema[u]
      BY <1>11
    <3> QED BY <1>1, <3>1, <3>2, <3>3, ObservedKept
  <2>2. Observed(t)'
    BY <1>3, <1>11 DEF Observed
  <2> QED BY <2>1, <2>2 DEF CallInv
<1>17. AloneInv'
  <2>1. \A u \in Threads : wpc[u] \notin {"purge", "teardown"}
    BY <1>1 DEF AloneInv
  <2>2. \A u \in Threads : wpc'[u] \notin {"purge", "teardown"}
    BY <1>3, <2>1 DEF OnlyThread
  <2> QED BY <1>7, <2>2 DEF AloneInv
<1> QED BY <1>1, <1>8, <1>10, <1>13, <1>14, <1>15, <1>16, <1>17

\* serdes_schema_destroy removes the entry: no Schema object that is held and
\* no other thread is at it.
LEMMA DeleteEndStep ==
  ASSUME Good, NEW t \in Threads, DeleteEnd(t)
  PROVE  Good'
<1> USE DEF Good
<1> DEFINE c == c_schema[t]
<1>1. InDestructor(t)
  BY PhaseByPlace DEF DeleteEnd
<1>2. /\ wpc[t] = "delete" /\ subject[t] = c /\ c \in DOMAIN store
      /\ store' = [d \in DOMAIN store \ {c} |-> store[d]]
      /\ pending' = [pending EXCEPT ![t] = NoRequest]
      /\ subject' = [subject EXCEPT ![t] = 0]
      /\ wpc' = [wpc EXCEPT ![t] = "idle"]
      /\ c_schema' = [c_schema EXCEPT ![t] = 0]
      /\ UNCHANGED <<open, opaque, impls, held, used, raced, fault>>
  BY <1>1 DEF InDestructor, DeleteEnd, Store!Remove, Store!Idle, Done, implVars, history
<1>3. /\ pending'[t] = NoRequest /\ subject'[t] = 0 /\ c_schema'[t] = 0
      /\ wpc'[t] = "idle" /\ OnlyThread(t)
      /\ wpc' = [u \in Threads |-> wpc'[u]]
      /\ pending' = [u \in Threads |-> pending'[u]]
      /\ subject' = [u \in Threads |-> subject'[u]]
      /\ c_schema' = [u \in Threads |-> c_schema'[u]]
  BY <1>2, ExceptThread DEF TypeOK, OnlyThread
<1>4. DOMAIN store' = DOMAIN store \ {c} /\ \A d \in DOMAIN store' : store'[d] = store[d]
  BY <1>2
<1>5. TypeOK' /\ StoreInv'
  BY <1>2, <1>3, <1>4 DEF TypeOK, StoreInv
<1>6. \A u \in Threads \ {t} : subject[u] # c /\ c_schema[u] # c
  <2> SUFFICES ASSUME NEW u \in Threads \ {t}, subject[u] = c \/ c_schema[u] = c
               PROVE  FALSE
    OBVIOUS
  <2>1. Busy(u) # store[c].def.sym
    BY <1>1, <1>2, BusyByPhase DEF ApartInv
  <2>2. c # 0
    BY <1>2, NullPointer
  <2>3. Phase(u)
    BY DEF PhaseInv
  <2>4. InCache(u) /\ subject[u] = c
    <3>1. InWrapper(u) \/ InDestructor(u) =>
            c_schema[u] = c /\ Busy(u) = store[c_schema[u]].def.sym
      BY <2>2, BusyByPhase DEF InWrapper, InDestructor
    <3> QED BY <2>1, <2>2, <2>3, <3>1 DEF Phase, Outside, InCache, Clearing
  <2>5. Busy(u) = pending[u].sym
    BY <2>4, BusyByPhase
  <2>6. store[c].def.sym = pending[u].sym
    BY <2>2, <2>4 DEF InCache
  <2> QED BY <2>1, <2>5, <2>6
<1>7. PhaseInv' /\ ApartInv' /\ SoloInv'
  <2>1. \A u \in Threads \ {t} : Still(u)
    BY <1>3, <1>4, <1>6 DEF OnlyThread, Still
  <2>2. Outside(t)'
    BY <1>3 DEF Outside
  <2>3. Busy(t)' = NULL
    <3>1. 0 \notin DOMAIN store'
      BY <1>4, NullPointer
    <3> QED BY <1>3, <3>1, BusyIs DEF BusyWith
  <2>4. Apart(t) /\ Solo(t)
    BY <1>2, <1>3, <2>3, StaysApart, StaysSolo
  <2> QED BY <1>2, <1>5, <2>1, <2>2, <2>4, ThreadStep DEF Phase
<1>8. SameObjects
  BY <1>2 DEF SameObjects
<1>9. HeldInv'
  <2>1. \A d : Wrappers(d)' = Wrappers(d)
    BY <1>8, SameWrappers
  <2>2. \A i \in held : impls[i].schema_ \in DOMAIN store \ {c}
    BY <1>2 DEF HeldInv, CallInv, Observed
  <2> QED BY <1>2, <1>4, <2>1, <2>2 DEF HeldInv
<1>10. UsedInv'
  BY <1>2, <1>4 DEF UsedInv
<1>11. SharedInv'
  <2>1. \A d : Made(d)' = Made(d)
    BY <1>8, SameWrappers
  <2>2. ASSUME NEW d \in DOMAIN store' \ raced, NEW i \in Made(d)
        PROVE  /\ \A j \in Made(d) : i = j
               /\ opaque'[d] = i
                  \/ \E u \in Threads : wpc'[u] = "delete" /\ c_schema'[u] = d
    <3>1. d \in DOMAIN store \ raced /\ d # c
      BY <1>4
    <3>2. /\ \A j \in Made(d) : i = j
          /\ opaque[d] = i \/ \E u \in Threads : wpc[u] = "delete" /\ c_schema[u] = d
      BY <2>2, <3>1 DEF SharedInv
    <3>3. \A u \in Threads : wpc[u] = "delete" /\ c_schema[u] = d =>
            wpc'[u] = "delete" /\ c_schema'[u] = d
      BY <1>3, <3>1 DEF OnlyThread
    <3> QED BY <1>2, <3>2, <3>3
  <2> QED BY <1>2, <2>1, <2>2 DEF SharedInv
<1>12. CallInv'
  <2>1. ASSUME NEW u \in Threads \ {t} PROVE Observed(u)'
    <3>1. Observed(u) /\ UNCHANGED <<wpc[u], c_schema[u]>>
      BY <1>3 DEF CallInv, OnlyThread
    <3> QED BY <1>2, <3>1, ObservedKept
  <2>2. Observed(t)'
    BY <1>3 DEF Observed
  <2> QED BY <2>1, <2>2 DEF CallInv
<1>13. AloneInv'
  BY <1>2, <1>3, AloneKept DEF OnlyThread
<1> QED BY <1>2, <1>5, <1>7, <1>9, <1>10, <1>11, <1>12, <1>13

\* A purge, or the end of the handle, removes an entry: the application holds
\* no Schema object, and no other thread is in a call.
LEMMA RemoveStep ==
  ASSUME Good, NEW t \in Threads, NEW c \in DOMAIN store, CRemove(t, c)
  PROVE  Good'
<1> USE DEF Good
<1>1. Clearing(t)
  BY DEF CRemove, PhaseInv, Phase, Outside, InCache, InWrapper, InDestructor, NoRequest
<1>2. /\ store' = [d \in DOMAIN store \ {c} |-> store[d]]
      /\ UNCHANGED <<open, pending, subject, opaque, impls, held, wpc, c_schema,
                     used, raced, fault>>
  BY <1>1 DEF CRemove, Store!Remove, Clearing, implVars, history
<1>3. DOMAIN store' = DOMAIN store \ {c} /\ \A d \in DOMAIN store' : store'[d] = store[d]
  BY <1>2
<1>4. TypeOK' /\ StoreInv'
  BY <1>2, <1>3 DEF TypeOK, StoreInv
<1>5. held = {} /\ \A u \in Threads \ {t} : wpc[u] = "idle"
  BY <1>1 DEF Clearing, AloneInv
<1>6. \A u \in Threads : subject[u] = 0 /\ c_schema[u] = 0
  BY <1>1, <1>5, PhaseByPlace DEF Clearing, Outside
<1>7. 0 \notin DOMAIN store /\ 0 \notin DOMAIN store'
  BY <1>3, NullPointer
<1>8. \A u \in Threads : wpc[u] \notin {"opaque", "wrap", "delete"}
  BY <1>1, <1>5 DEF Clearing
<1>9. PhaseInv' /\ ApartInv' /\ SoloInv'
  <2>1. \A u \in Threads \ {t} : Still(u)
    BY <1>2, <1>6, <1>7 DEF Still
  <2>2. Clearing(t)'
    BY <1>1, <1>2 DEF Clearing
  <2>3. Apart(t) /\ Solo(t)
    BY <1>2, <1>8, StaysSolo DEF Apart
  <2> QED BY <1>2, <1>4, <2>1, <2>2, <2>3, ThreadStep DEF Phase
<1>10. SameObjects
  BY <1>2 DEF SameObjects
<1>11. HeldInv' /\ UsedInv'
  <2>1. \A d : Wrappers(d)' = Wrappers(d)
    BY <1>10, SameWrappers
  <2> QED BY <1>2, <1>3, <1>5, <2>1 DEF HeldInv, UsedInv
<1>12. SharedInv'
  BY <1>2, <1>3, <1>10, SharedKept
<1>13. CallInv'
  BY <1>2, <1>8 DEF CallInv, Observed
<1>14. AloneInv'
  <2>1. ~(~open /\ \A u \in Threads : wpc[u] = "idle")
    BY <1>1 DEF Clearing
  <2> QED BY <1>2, <2>1 DEF AloneInv
<1> QED BY <1>2, <1>4, <1>9, <1>11, <1>12, <1>13, <1>14

\* A Schema object is forgotten: it may still be found by its opaque pointer.
LEMMA AbandonStep ==
  ASSUME Good, NEW i \in held, Abandon(i)
  PROVE  Good'
<1> USE DEF Good
<1>1. /\ held' = held \ {i}
      /\ impls' = [impls EXCEPT ![i].st = "abandoned"]
      /\ UNCHANGED <<store, pending, subject, open, opaque, wpc, c_schema,
                     used, raced, fault>>
  BY DEF Abandon, storeVars, history
<1>2. i \in DOMAIN impls /\ impls[i].st = "live"
  BY DEF HeldInv
<1>3. /\ impls' \in Seq(SchemaImpls) /\ DOMAIN impls' = DOMAIN impls
      /\ impls'[i].st = "abandoned"
      /\ impls'[i].schema_ = impls[i].schema_ /\ impls'[i].via = impls[i].via
      /\ \A j \in DOMAIN impls : j # i => impls'[j] = impls[j]
  BY <1>1, <1>2, ExceptImpl
<1>4. SameObjects
  BY <1>2, <1>3 DEF SameObjects
<1>5. TypeOK' /\ StoreInv' /\ AloneInv'
  BY <1>1, <1>3 DEF TypeOK, StoreInv, AloneInv
<1>6. PhaseInv'
  BY <1>1 DEF PhaseInv, Phase, Outside, InCache, Consistent, Clearing, InWrapper,
              InDestructor
<1>7. ApartInv' /\ SoloInv'
  <2>1. \A u : Busy(u)' = Busy(u)
    BY <1>1, BusyIs
  <2> QED BY <1>1, <2>1 DEF ApartInv, SoloInv, Wrapping
<1>8. HeldInv'
  <2>1. held' = {j \in DOMAIN impls' : impls'[j].st = "live"}
    BY <1>1, <1>2, <1>3 DEF HeldInv
  <2>2. \A j \in held' : impls'[j].schema_ \in DOMAIN store'
    BY <1>1, <1>4 DEF HeldInv, SameObjects
  <2>3. \A d : Wrappers(d)' = Wrappers(d)
    BY <1>4, SameWrappers
  <2> QED BY <1>1, <2>1, <2>2, <2>3 DEF HeldInv
<1>9. UsedInv'
  BY <1>1, <1>4 DEF UsedInv, SameObjects
<1>10. SharedInv'
  BY <1>1, <1>4, SharedKept
<1>11. CallInv'
  <2>1. ASSUME NEW u \in Threads PROVE Observed(u)'
    <3>1. Observed(u)
      BY DEF CallInv
    <3>2. \A j \in held' : j \in held /\ impls'[j].schema_ = impls[j].schema_
      BY <1>1, <1>4 DEF HeldInv, SameObjects
    <3> QED BY <1>1, <3>1, <3>2, ObservedKept
  <2> QED BY <2>1 DEF CallInv
<1> QED BY <1>1, <1>5, <1>6, <1>7, <1>8, <1>9, <1>10, <1>11

\* No schema is touched that is gone.
LEMMA NothingFreedIsTouched ==
  ASSUME Good
  PROVE  ~TouchFreed
<1>1. \A t \in Threads : wpc[t] \in {"framed", "opaque", "wrap", "delete"} =>
        c_schema[t] \in DOMAIN store
  BY PhaseByPlace DEF Good, InWrapper, InDestructor
<1>2. \A i \in held : impls[i].schema_ \in DOMAIN store
  BY DEF Good, HeldInv
<1> QED BY <1>1, <1>2 DEF TouchFreed

-----------------------------------------------------------------------------
(***************************************************************************)
(* The theorems.                                                           *)
(***************************************************************************)

\* IInv is an invariant: whatever calls of get, add and deserialize overlap,
\* the state is Good until the application breaks one of its two rules.
THEOREM Inductive == Spec => []IInv
<1>1. Init => IInv
  BY InitGood DEF IInv
<1>2. IInv /\ [Next]_vars => IInv'
  <2> SUFFICES ASSUME IInv, [Next]_vars, careful'
               PROVE  Good'
    BY DEF IInv
  <2>1. ASSUME NEW t \in Threads, NEW r \in Requests, Call(t, r)
        PROVE  Good'
    <3>1. careful
      BY <2>1 DEF Call
    <3> QED BY <2>1, <3>1, CallStep DEF IInv
  <2>2. ASSUME NEW t \in Threads, CFind(t)
        PROVE  Good'
    <3>1. careful
      BY <2>2 DEF CFind, history
    <3> QED BY <2>2, <3>1, FindStep DEF IInv
  <2>3. ASSUME NEW t \in Threads, NEW c \in Ptrs, NEW e \in Entries, CInsert(t, c, e)
        PROVE  Good'
    <3>1. careful
      BY <2>3 DEF CInsert
    <3> QED BY <2>3, <3>1, InsertStep DEF IInv
  <2>4. ASSUME NEW t \in Threads, NEW c \in DOMAIN store, CRemove(t, c)
        PROVE  Good'
    <3>1. careful
      BY <2>4 DEF CRemove, history
    <3> QED BY <2>4, <3>1, RemoveStep DEF IInv
  <2>5. ASSUME NEW t \in Threads, CRespond(t)
        PROVE  Good'
    <3>1. careful
      BY <2>5 DEF CRespond
    <3> QED BY <2>5, <3>1, RespondStep DEF IInv
  <2>6. ASSUME NEW t \in Threads, FramedGet(t)
        PROVE  Good'
    <3>1. careful
      BY <2>6 DEF FramedGet, history
    <3> QED BY <2>6, <3>1, FramedGetStep DEF IInv
  <2>7. ASSUME NEW t \in Threads, ReadOpaque(t)
        PROVE  Good'
    <3>1. careful
      BY <2>7 DEF ReadOpaque, history
    <3> QED BY <2>7, <3>1, ReadOpaqueStep DEF IInv
  <2>8. ASSUME NEW t \in Threads, Wrap(t) \/ WrapAdded(t)
        PROVE  Good'
    <3>1. careful
      BY <2>8 DEF Wrap, WrapAdded, history
    <3> QED BY <2>8, <3>1, WrapStep DEF IInv
  <2>9. ASSUME NEW t \in Threads, NEW i \in held, Delete(t, i)
        PROVE  Good'
    <3>1. careful
      BY <2>9 DEF Delete
    <3> QED BY <2>9, <3>1, DeleteStep DEF IInv
  <2>10. ASSUME NEW t \in Threads, DeleteEnd(t)
         PROVE  Good'
    <3>1. careful
      BY <2>10 DEF DeleteEnd, history
    <3> QED BY <2>10, <3>1, DeleteEndStep DEF IInv
  <2>11. ASSUME NEW i \in held, Abandon(i)
         PROVE  Good'
    <3>1. careful
      BY <2>11 DEF Abandon, history
    <3> QED BY <2>11, <3>1, AbandonStep DEF IInv
  <2>12. ASSUME TouchFreed
         PROVE  Good'
    <3>1. careful
      BY <2>12 DEF TouchFreed
    <3> QED BY <2>12, <3>1, NothingFreedIsTouched DEF IInv
  <2>13. CASE UNCHANGED vars
    <3> USE <2>13 DEF vars, storeVars, implVars, history
    <3>1. careful /\ Good
      BY DEF IInv
    <3> USE <3>1 DEF Good
    <3>2. TypeOK' /\ StoreInv' /\ PhaseInv'
      BY DEF TypeOK, StoreInv, PhaseInv, Phase, Outside, InCache, Consistent,
             Clearing, InWrapper, InDestructor
    <3>3. \A u : Busy(u)' = Busy(u)
      BY BusyIs
    <3>4. ApartInv' /\ SoloInv'
      BY <3>3 DEF ApartInv, SoloInv, Wrapping
    <3>5. SameObjects
      BY DEF SameObjects
    <3>6. HeldInv' /\ UsedInv'
      <4>1. \A d : Wrappers(d)' = Wrappers(d)
        BY <3>5, SameWrappers
      <4> QED BY <4>1 DEF HeldInv, UsedInv
    <3>7. SharedInv'
      BY <3>5, SharedKept
    <3>8. CallInv' /\ AloneInv'
      BY DEF CallInv, Observed, AloneInv
    <3> QED BY <3>2, <3>4, <3>6, <3>7, <3>8
  <2> QED
    BY <2>1, <2>2, <2>3, <2>4, <2>5, <2>6, <2>7, <2>8, <2>9, <2>10, <2>11, <2>12,
       <2>13 DEF Next, Halt
<1> QED BY <1>1, <1>2, PTL DEF Spec

\* Two Schema objects of one serdes_schema_t come from schema_add, or from two
\* threads that were in schema_get with it at once, and from nothing else:
\* neither lookups through a framing nor forgotten or deleted objects make one.
THEOREM WrappedOnce == Spec => []SharedUnlessRaced
<1>1. IInv => SharedUnlessRaced
  <2> SUFFICES ASSUME IInv, careful, NEW c \in DOMAIN store \ raced,
                      NEW i \in Wrappers(c), NEW j \in Wrappers(c), i # j
               PROVE  "add" \in {impls[i].via, impls[j].via}
    BY DEF SharedUnlessRaced
  <2>1. impls[i].via \in {"get", "add"} /\ impls[j].via \in {"get", "add"}
    <3>1. impls \in Seq(SchemaImpls) /\ i \in DOMAIN impls /\ j \in DOMAIN impls
      BY DEF IInv, Good, TypeOK, Wrappers
    <3>2. impls[i] \in SchemaImpls /\ impls[j] \in SchemaImpls
      BY <3>1
    <3> QED BY <3>2 DEF SchemaImpls
  <2> QED BY <2>1 DEF IInv, Good, SharedInv, Made
<1> QED BY <1>1, Inductive, PTL

\* Every Schema object that a careful application holds can be used: it exists,
\* and so does its schema, also when a race has left a schema with two objects;
\* and the opaque pointer of a cached schema leads to no deleted object.
THEOREM HeldAreUsable == Spec => []HeldUsable
<1>1. IInv => HeldUsable
  BY DEF IInv, Good, StoreInv, HeldInv, HeldUsable
<1> QED BY <1>1, Inductive, PTL

\* Neither schema_get, nor the read of the id of a framing's schema, nor the
\* destructor of SchemaImpl touches a freed schema unless a rule was broken.
THEOREM NothingFreedTouched == Spec => []NoFreedAccess
<1>1. IInv => NoFreedAccess
  BY DEF IInv, Good, NoFreedAccess
<1> QED BY <1>1, Inductive, PTL

\* When the handle of a careful application is gone, so are all schemas and all
\* Schema objects that it has not forgotten.
THEOREM NothingIsLeft == Spec => []NothingLeft
<1>1. IInv => NothingLeft
  <2> SUFFICES ASSUME IInv, careful, ~open, \A t \in Threads : Idle(t)
               PROVE  store = <<>> /\ \A i \in DOMAIN impls : impls[i].st # "live"
    BY DEF NothingLeft
  <2> QED BY DEF IInv, Good, AloneInv, HeldInv, Idle
<1> QED BY <1>1, Inductive, PTL
=============================================================================
