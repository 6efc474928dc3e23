------------------------ MODULE SchemaCacheRefinement ------------------------
(***************************************************************************)
(* The proof that SchemaCache implements SchemaStore, and that nothing of  *)
(* the cache is left after serdes_destroy, for every number of threads,    *)
(* calls, schemas and registry ids.                                        *)
(***************************************************************************)
EXTENDS SchemaCacheImpl, SchemaCacheProofs

-----------------------------------------------------------------------------
(***************************************************************************)
(* What the refinement needs to know besides IInv.                         *)
(***************************************************************************)

\* Which calls a thread can be in at each point of the code.
CallOf(t) ==
  /\ pc[t] = "idle" => req[t] = NoRequest
  /\ pc[t] # "idle" => req[t] \in Requests
  /\ pc[t] \in {"add0", "fetch", "store", "mark"} => req[t].op \in {"get", "add"}
  /\ pc[t] \in {"purge", "expired"} => req[t].op = "purge"
  /\ pc[t] = "teardown" <=> req[t].op = "teardown"

CallInv == \A t \in Threads : CallOf(t)

\* A schema under construction is what the caller asked for.
BuildOf(t) ==
  /\ pc[t] = "fetch" => req[t].def = NULL
  /\ pc[t] = "store" => /\ req[t].id = NoId
                        /\ req[t].def # NULL
                        /\ heap[cur[t]].def.sym = req[t].def.sym

BuildInv == \A t \in Threads : BuildOf(t)

\* Once serdes_destroy is called no thread is in another call, and when it has
\* returned the list is empty.
AliveInv ==
  ~alive => /\ \A t \in Threads : pc[t] \in {"idle", "teardown"}
            /\ (\A t \in Threads : pc[t] = "idle") => sd_schemas = {}

RInv == CallInv /\ BuildInv /\ AliveInv
-----------------------------------------------------------------------------
(***************************************************************************)
(* What a step does to the store.                                          *)
(***************************************************************************)

\* A lookup that returns a schema returns one that matches.
LEMMA LookupMatches ==
  ASSUME TypeOK, NEW r, Lookup(r) # 0
  PROVE  Lookup(r) \in sd_schemas /\ Matches(Lookup(r), r)
<1> DEFINE S1 == {c \in sd_schemas : heap[c].id = r.id}
           S2 == {c \in sd_schemas : heap[c].def = r.def}
<1>1. Len(heap) \in Nat /\ S1 \subseteq 1 .. Len(heap) /\ S2 \subseteq 1 .. Len(heap)
  BY LenProperties DEF TypeOK, Cells
<1>2. /\ First(S1) # 0 => First(S1) \in S1
      /\ First(S2) # 0 => First(S2) \in S2
  <2> HIDE DEF S1, S2
  <2> QED BY <1>1, FirstProperty
<1>3. CASE r.op = "get"
  <2>1. Lookup(r) = First(S1)
    BY <1>3 DEF Lookup, serdes_schema_find_by_id
  <2> QED BY <1>2, <1>3, <2>1 DEF Matches
<1>4. CASE r.op # "get"
  <2>1. Lookup(r) = First(S2)
    BY <1>4 DEF Lookup, serdes_schema_find_by_definition
  <2> QED BY <1>2, <1>4, <2>1 DEF Matches
<1> QED BY <1>3, <1>4

\* Only the call of t goes on.
OnlyThread(t) ==
  \A u \in Threads : u # t => pc'[u] = pc[u] /\ req'[u] = req[u] /\ cur'[u] = cur[u]

\* The store is the same when the list is, with the ids and definitions in it.
LEMMA CachedSame ==
  ASSUME sd_schemas' = sd_schemas,
         \A c \in sd_schemas : heap'[c].id = heap[c].id /\ heap'[c].def = heap[c].def
  PROVE  Cached' = Cached
BY DEF Cached

\* Destroying a schema removes it, if it was in the list.
LEMMA CachedRemoved ==
  ASSUME TypeOK, NEW c, Destroyed(c)
  PROVE  /\ Cached' = [d \in DOMAIN Cached \ {c} |-> Cached[d]]
         /\ c \notin sd_schemas => Cached' = Cached
BY DEF Cached, Destroyed, TypeOK

\* Linking a schema v that was not in the list inserts it.
LEMMA CachedInserted ==
  ASSUME TypeOK, NEW c, c \notin sd_schemas, NEW v,
         Changed(c, v) \/ Allocated(c, v), sd_schemas' = sd_schemas \cup {c}
  PROVE  /\ c \in DOMAIN Cached'
         /\ Cached'[c] = [id |-> v.id, def |-> v.def]
         /\ Cached' = [d \in DOMAIN Cached \cup {c} |->
                         IF d = c THEN Cached'[c] ELSE Cached[d]]
<1>1. heap'[c] = v /\ \A d \in sd_schemas : heap'[d] = heap[d]
  BY DEF Changed, Allocated, TypeOK
<1> QED BY <1>1 DEF Cached

\* The subject of the one call that goes on is all that changes.
LEMMA SubjectsStep ==
  ASSUME NEW t \in Threads, OnlyThread(t)
  PROVE  Subjects' = [Subjects EXCEPT ![t] = Subject(t)']
BY DEF Subjects, Subject, OnlyThread

\* A call that returns has no subject any more.
LEMMA ReturnStep ==
  ASSUME TypeOK, NEW t \in Threads, Return(t)
  PROVE  Store!Idle(t) /\ OnlyThread(t)
<1>1. OnlyThread(t)
  BY DEF TypeOK, OnlyThread, Return
<1>2. Subject(t)' = 0
  BY DEF Subject, Return, NoRequest, TypeOK
<1> QED BY <1>1, <1>2, SubjectsStep DEF Store!Idle, Return

\* An abstract step, or none.
StoreStep == [Store!Next]_(Store!storeVars)

\* A step that keeps the list, the calls and their subjects is none.
LEMMA NoStep ==
  ASSUME NEW t \in Threads, OnlyThread(t), UNCHANGED <<sd_schemas, req, alive>>,
         \A c \in sd_schemas : heap'[c].id = heap[c].id /\ heap'[c].def = heap[c].def,
         Subject(t)' = Subject(t)
  PROVE  StoreStep
<1>1. Cached' = Cached
  BY CachedSame
<1>2. Subjects' = Subjects
  BY DEF Subjects, Subject, OnlyThread
<1> QED BY <1>1, <1>2 DEF StoreStep, Store!storeVars

\* A call that returns without the list being changed has responded.
LEMMA RespondStep ==
  ASSUME IInv, RInv, NEW t \in Threads, Return(t), UNCHANGED <<sd_schemas, alive>>,
         \A c \in sd_schemas : heap'[c].id = heap[c].id /\ heap'[c].def = heap[c].def,
         pc[t] # "teardown" \/ sd_schemas = {}
  PROVE  StoreStep
<1>1. Cached' = Cached
  BY CachedSame
<1>2. Store!Idle(t)
  BY ReturnStep DEF IInv
<1>3. req[t].op = "teardown" => Cached = <<>>
  BY DEF RInv, CallInv, CallOf, Cached
<1>4. Store!Respond(t)
  BY <1>1, <1>2, <1>3 DEF Store!Respond
<1> QED BY <1>4 DEF StoreStep, Store!Next
-----------------------------------------------------------------------------
(***************************************************************************)
(* Every step of SchemaCache is a step of SchemaStore or none.             *)
(***************************************************************************)

\* A call is invoked: the handle is open, and the subject is given only to
\* serdes_schema_destroy.
LEMMA CallStore ==
  ASSUME IInv, RInv, NEW t \in Threads, NEW r \in Requests, Call(t, r)
  PROVE  StoreStep
<1>1. Cached' = Cached
  BY CachedSame DEF Call
<1>2. OnlyThread(t)
  BY DEF OnlyThread, Call, IInv, TypeOK
<1>3. Subject(t)' = 0
  BY DEF Call, Subject, IInv, TypeOK
<1>4. Subjects' = [Subjects EXCEPT ![t] = 0]
  BY <1>2, <1>3, SubjectsStep
<1>5. Subjects'[t] = 0
  BY <1>4 DEF Subjects
<1>6. Store!Invoke(t, r, Subjects'[t])
  BY <1>1, <1>4, <1>5 DEF Call, MayCall, RInv, CallInv, CallOf, Store!Invoke
<1> QED BY <1>6 DEF StoreStep, Store!Next

LEMMA CallDestroyStore ==
  ASSUME IInv, RInv, NEW t \in Threads, NEW r \in Requests, NEW ss \in handed,
         CallDestroy(t, r, ss)
  PROVE  StoreStep
<1>1. Cached' = Cached
  BY CachedSame DEF CallDestroy
<1>2. OnlyThread(t)
  BY DEF OnlyThread, CallDestroy, IInv, TypeOK
<1>3. Subject(t)' = ss
  BY DEF CallDestroy, Subject, IInv, TypeOK
<1>4. Subjects' = [Subjects EXCEPT ![t] = ss]
  BY <1>2, <1>3, SubjectsStep
<1>5. Subjects'[t] = ss
  BY <1>4 DEF Subjects
<1>6. alive' = (r.op # "teardown")
  BY DEF CallDestroy, MayCall, IInv, TypeOK
<1>7. Store!Invoke(t, r, Subjects'[t])
  BY <1>1, <1>4, <1>5, <1>6
  DEF CallDestroy, MayCall, RInv, CallInv, CallOf, Store!Invoke
<1> QED BY <1>7 DEF StoreStep, Store!Next

\* A hit finds an entry that answers the call.
LEMMA LookupHitStore ==
  ASSUME IInv, RInv, NEW t \in Threads, LookupHit(t)
  PROVE  StoreStep
<1> DEFINE c == Lookup(req[t])
<1>1. c \in sd_schemas /\ Matches(c, req[t])
  BY LookupMatches DEF IInv, LookupHit
<1>2. c \in Store!Answers(req[t])
  BY <1>1 DEF Matches, Cached, Store!Answers
<1>3. Cached' = Cached
  BY CachedSame DEF LookupHit
<1>4. OnlyThread(t)
  BY DEF OnlyThread, LookupHit, IInv, TypeOK
<1>5. Subject(t)' = c /\ Subject(t) = 0
  BY DEF LookupHit, Subject, IInv, TypeOK
<1>6. Subjects' = [Subjects EXCEPT ![t] = c] /\ Subjects[t] = 0
  BY <1>4, <1>5, SubjectsStep DEF Subjects
<1>7. Store!Find(t)
  <2> HIDE DEF c
  <2> QED BY <1>2, <1>3, <1>6 DEF LookupHit, appVars, Store!Find, Store!Choose
<1> QED BY <1>7 DEF StoreStep, Store!Next

\* A new schema v, linked at c by the call of t that found none, is inserted.
LEMMA InsertStep ==
  ASSUME IInv, RInv, NEW t \in Threads, pc[t] \in {"add0", "fetch", "store"},
         NEW c, c \notin sd_schemas, NEW v, Changed(c, v) \/ Allocated(c, v),
         sd_schemas' = sd_schemas \cup {c}, UNCHANGED alive,
         Store!MadeFor(req[t], [id |-> v.id, def |-> v.def]),
         Store!Choose(t, c)
  PROVE  StoreStep
<1>1. /\ c \in DOMAIN Cached'
      /\ Cached'[c] = [id |-> v.id, def |-> v.def]
      /\ Cached' = [d \in DOMAIN Cached \cup {c} |->
                      IF d = c THEN Cached'[c] ELSE Cached[d]]
  BY CachedInserted DEF IInv
<1>2. Store!Answers(req[t]) = {}
  BY DEF IInv, MissInv, Matches, Cached, Store!Answers
<1>3. req[t].op \in {"get", "add"}
  BY DEF RInv, CallInv, CallOf
<1>4. Subjects[t] = 0
  BY <1>3 DEF Subjects, Subject
<1>5. alive
  BY DEF RInv, AliveInv
<1>6. c \notin DOMAIN Cached
  BY DEF Cached
<1>7. Store!MadeFor(req[t], Cached'[c])
  BY <1>1
<1>8. Store!Insert(t, c, Cached'[c])
  BY <1>1, <1>2, <1>3, <1>4, <1>5, <1>6, <1>7 DEF Store!Insert
<1> QED BY <1>1, <1>8 DEF StoreStep, Store!Next

\* A call whose request is not over yet has found the schema it stamps.
LEMMA ChooseStep ==
  ASSUME IInv, NEW t \in Threads, NEW c, OnlyThread(t), UNCHANGED req,
         pc'[t] = "mark", cur'[t] = c
  PROVE  Store!Choose(t, c)
<1>1. Subject(t)' = c
  BY DEF Subject
<1> QED BY <1>1, SubjectsStep DEF Store!Choose

LEMMA Add0AssignStore ==
  ASSUME IInv, RInv, NEW t \in Threads, Add0Assign(t)
  PROVE  StoreStep
<1> DEFINE v == [NewLoaded(req[t]) EXCEPT !.linked = TRUE]
           n == Len(heap) + 1
<1>1. /\ pc[t] = "add0"
      /\ req[t] \in Requests /\ req[t].id # NoId /\ req[t].def # NULL
  BY DEF IInv, LocalsInv, Add0Assign, NeedsRegistry
<1>2. /\ v \in Schema
      /\ v.id = req[t].id
      /\ v.def.sym = req[t].def.sym
  <2>1. req[t].def \in Text
    BY <1>1, CacheAssumption DEF Request
  <2> QED BY <1>1, <2>1, NewSchemaProperty, LoadProperty DEF Schema, NewLoaded, NewSchema
<1>3. Allocated(n, v)
  <2>1. heap' = Append(heap, v)
    BY DEF Add0Assign
  <2>2. TypeOK /\ v \in Schema
    BY <1>2 DEF IInv
  <2> HIDE DEF v
  <2> QED BY <2>1, <2>2, AppendCell
<1>4. /\ sd_schemas' = sd_schemas \cup {n}
      /\ UNCHANGED alive
  BY DEF Add0Assign, appVars
<1>5. Store!Choose(t, n)
  <2>1. OnlyThread(t) /\ UNCHANGED req /\ pc'[t] = "mark" /\ cur'[t] = n
    BY DEF Add0Assign, OnlyThread, IInv, TypeOK
  <2> QED BY <2>1, ChooseStep
<1> HIDE DEF v, n
<1>6. n \notin sd_schemas
  BY <1>3 DEF Allocated, IInv, TypeOK
<1>7. Store!MadeFor(req[t], [id |-> v.id, def |-> v.def])
  BY <1>1, <1>2 DEF Store!MadeFor, Store!NoId, NoId
<1> QED BY <1>1, <1>3, <1>4, <1>5, <1>6, <1>7, InsertStep

LEMMA StoreOkStore ==
  ASSUME IInv, RInv, NEW t \in Threads, StoreOk(t)
  PROVE  StoreStep
<1> DEFINE ss == cur[t]
           v == Stored(heap[ss])
<1>1. /\ pc[t] = "store"
      /\ ss \in Cells
      /\ heap[ss] \in Schema
      /\ ~heap[ss].linked
      /\ heap[ss].def \in Text
      /\ req[t].id = NoId
      /\ heap[ss].def.sym = req[t].def.sym
  BY ElementOfSeq DEF IInv, TypeOK, LocalsInv, StoreOk, Cells, RInv, BuildInv, BuildOf
<1>2. RegistryId(heap[ss].def.sym) \in Nat
  <2>1. RegistryPost(req[t].name, heap[ss].def)
    BY DEF StoreOk
  <2> QED BY <1>1, <2>1, RegistryPostProperty DEF IInv
<1>3. v \in Schema /\ v.id \in Nat /\ v.def = heap[ss].def
  BY <1>1, <1>2 DEF Stored, Schema
<1>4. Changed(ss, v)
  <2>1. heap' = [heap EXCEPT ![ss] = v]
    BY DEF StoreOk
  <2> HIDE DEF v, ss
  <2> QED BY <1>1, <1>3, <2>1, UpdateCell DEF IInv
<1>5. /\ sd_schemas' = sd_schemas \cup {ss}
      /\ UNCHANGED alive
  BY DEF StoreOk, appVars
<1>6. Store!Choose(t, ss)
  <2>1. OnlyThread(t) /\ UNCHANGED req /\ pc'[t] = "mark" /\ cur'[t] = ss
    BY DEF StoreOk, OnlyThread, IInv, TypeOK
  <2> QED BY <2>1, ChooseStep
<1>7. ss \notin sd_schemas
  BY <1>1 DEF IInv, ListIntegrity
<1> HIDE DEF v
<1>8. Store!MadeFor(req[t], [id |-> v.id, def |-> v.def])
  BY <1>1, <1>3 DEF Store!MadeFor, Store!NoId, NoId
<1> QED BY <1>1, <1>4, <1>5, <1>6, <1>7, <1>8, InsertStep

LEMMA FetchOkStore ==
  ASSUME IInv, RInv, NEW t \in Threads, FetchOk(t)
  PROVE  StoreStep
<1> DEFINE ss == cur[t]
           id == FetchedId(req[t])
           v == [Fetched(heap[ss], id) EXCEPT
                   !.t_handed = IF req[t].op = "get" THEN now ELSE @]
<1>1. /\ pc[t] = "fetch"
      /\ ss \in Cells
      /\ heap[ss] \in Schema
      /\ ~heap[ss].linked
      /\ req[t].def = NULL
      /\ now \in Nat
  BY ElementOfSeq DEF IInv, TypeOK, LocalsInv, FetchOk, Cells, RInv, BuildInv, BuildOf
<1>2. id \in DOMAIN reg_schemas /\ id \in Nat /\ reg_schemas[id] \in Text
  BY ElementOfSeq, LenProperties DEF IInv, TypeOK, FetchOk
<1>3. v \in Schema /\ v.id = id
  <2>1. serdes_schema_load(reg_schemas[id]) \in Text
    BY <1>2, LoadProperty
  <2> QED BY <1>1, <1>2, <2>1 DEF Fetched, Schema
<1>4. Changed(ss, v)
  <2>1. heap' = [heap EXCEPT ![ss] = v]
    BY DEF FetchOk
  <2> HIDE DEF v, ss
  <2> QED BY <1>1, <1>3, <2>1, UpdateCell DEF IInv
<1>5. /\ sd_schemas' = sd_schemas \cup {ss}
      /\ UNCHANGED alive
  BY DEF FetchOk, appVars
<1>6. Store!Choose(t, ss)
  <2>1. CASE req[t].op = "get"
    <3>1. Return(t)
      BY <2>1 DEF FetchOk
    <3> QED BY <3>1, ReturnStep DEF Store!Choose, IInv
  <2>2. CASE req[t].op # "get"
    <3>1. OnlyThread(t) /\ UNCHANGED req /\ pc'[t] = "mark" /\ cur'[t] = ss
      BY <2>2 DEF FetchOk, OnlyThread, IInv, TypeOK
    <3> QED BY <3>1, ChooseStep
  <2> QED BY <2>1, <2>2
<1>7. ss \notin sd_schemas
  BY <1>1 DEF IInv, ListIntegrity
<1>8. req[t].id # NoId => id = req[t].id
  BY DEF FetchedId
<1> HIDE DEF v, id
<1>9. Store!MadeFor(req[t], [id |-> v.id, def |-> v.def])
  BY <1>1, <1>2, <1>3, <1>8 DEF Store!MadeFor, Store!NoId, NoId
<1> QED BY <1>1, <1>4, <1>5, <1>6, <1>7, <1>9, InsertStep

\* A schema under construction is not in the list: that it is destroyed and
\* the call returns is not seen in the store.
LEMMA BuildFails ==
  ASSUME IInv, RInv, NEW t \in Threads, pc[t] \in {"fetch", "store"},
         serdes_schema_destroy0(cur[t]), Return(t), UNCHANGED alive
  PROVE  StoreStep
<1>1. cur[t] \in Cells /\ cur[t] \notin sd_schemas
  BY DEF IInv, LocalsInv, ListIntegrity
<1>2. Destroyed(cur[t])
  BY <1>1, Destroy0Property
<1>3. sd_schemas' = sd_schemas /\ \A c \in sd_schemas : heap'[c] = heap[c]
  BY <1>1, <1>2 DEF Destroyed, IInv, TypeOK
<1> QED BY <1>3, RespondStep

\* serdes_schema_destroy removes the schema it was called with: as nobody owns
\* sd_lock, a live schema is in the list.
LEMMA DestroyStore ==
  ASSUME IInv, RInv, NEW t \in Threads, serdes_schema_destroy(t)
  PROVE  StoreStep
<1>1. /\ cur[t] \in Cells
      /\ pc[t] = "lock"
      /\ req[t].op = "destroy"
      /\ sd_lock = NULL
      /\ heap[cur[t]].st = "live"
      /\ serdes_schema_destroy0(cur[t])
      /\ Return(t)
      /\ UNCHANGED alive
  BY DEF IInv, LocalsInv, serdes_schema_destroy, appVars
<1>2. cur[t] \in sd_schemas
  BY <1>1, OwnOrphan DEF IInv, ListIntegrity
<1>3. Cached' = [d \in DOMAIN Cached \ {cur[t]} |-> Cached[d]]
  BY <1>1, Destroy0Property, CachedRemoved DEF IInv
<1>4. Store!Idle(t)
  BY <1>1, ReturnStep DEF IInv
<1>5. cur[t] \in DOMAIN Cached /\ Subjects[t] = cur[t]
  BY <1>1, <1>2 DEF Cached, Subjects, Subject
<1>6. Store!Remove(t, cur[t])
  BY <1>1, <1>3, <1>4, <1>5 DEF Store!Remove
<1> QED BY <1>5, <1>6 DEF StoreStep, Store!Next

\* A purge and serdes_destroy remove one schema after the other.
LEMMA RemoveStep ==
  ASSUME IInv, RInv, NEW t \in Threads, NEW c \in sd_schemas,
         serdes_schema_destroy0(c),
         req[t].op \in {"purge", "teardown"}, OnlyThread(t), UNCHANGED <<req, alive>>,
         pc'[t] # "mark"
  PROVE  StoreStep
<1>1. c \in Cells
  BY DEF IInv, TypeOK
<1>2. Cached' = [d \in DOMAIN Cached \ {c} |-> Cached[d]]
  BY <1>1, Destroy0Property, CachedRemoved DEF IInv
<1>3. c \in DOMAIN Cached
  BY DEF Cached
<1>4. Subject(t)' = 0 /\ Subject(t) = 0
  BY DEF Subject, RInv, CallInv, CallOf
<1>5. Subjects' = Subjects
  BY <1>4 DEF Subjects, Subject, OnlyThread
<1>6. Store!Remove(t, c)
  BY <1>2, <1>3, <1>5 DEF Store!Remove
<1> QED BY <1>3, <1>6 DEF StoreStep, Store!Next
-----------------------------------------------------------------------------
(***************************************************************************)
(* RInv is preserved by every step.                                        *)
(***************************************************************************)

\* The definitions that other threads are storing stay as they are.
OthersKeep(t) ==
  \A u \in Threads : u # t /\ pc[u] = "store" =>
    heap'[cur[u]].def = heap[cur[u]].def

\* Nobody else stores one while t owns sd_lock or nobody does.
LEMMA LockedKeep ==
  ASSUME IInv, NEW t \in Threads, sd_lock = NULL \/ pc[t] \in LockedPcs
  PROVE  OthersKeep(t)
<1>1. sd_lock \in {t, NULL}
  BY DEF IInv, LockInv
<1> QED BY <1>1, OthersOutside DEF OthersKeep, LockedPcs

\* While a thread is in a call that is not serdes_destroy, the handle is open:
\* it is enough to look at that thread.
LEMMA OpenStep ==
  ASSUME RInv, NEW t \in Threads, pc[t] \notin {"idle", "teardown"},
         OnlyThread(t), OthersKeep(t), UNCHANGED alive, CallOf(t)', BuildOf(t)'
  PROVE  RInv'
<1>1. AliveInv'
  BY DEF RInv, AliveInv
<1>2. CallInv'
  BY DEF RInv, CallInv, CallOf, OnlyThread
<1>3. BuildInv'
  BY DEF RInv, BuildInv, BuildOf, OnlyThread, OthersKeep
<1> QED BY <1>1, <1>2, <1>3 DEF RInv

\* A call that returns leaves nothing to look at.
LEMMA ReturnRInv ==
  ASSUME IInv, RInv, NEW t \in Threads, pc[t] \notin {"idle", "teardown"},
         Return(t), OthersKeep(t), UNCHANGED alive
  PROVE  RInv'
<1>1. OnlyThread(t)
  BY ReturnStep DEF IInv
<1>2. CallOf(t)' /\ BuildOf(t)'
  BY DEF Return, CallOf, BuildOf, NoRequest, IInv, TypeOK
<1> QED BY <1>1, <1>2, OpenStep

\* A call that goes on, to the place p in the code, without a new schema.
LEMMA GoOnRInv ==
  ASSUME IInv, RInv, NEW t \in Threads, pc[t] \notin {"idle", "teardown"},
         OnlyThread(t), OthersKeep(t), UNCHANGED <<req, alive>>,
         \/ pc'[t] = pc[t] /\ pc[t] \notin {"fetch", "store"}
         \/ pc'[t] \in {"add0", "mark"} /\ req[t].op \in {"get", "add"}
         \/ pc'[t] \in {"purge", "expired"} /\ req[t].op = "purge"
  PROVE  RInv'
<1>1. CallOf(t)'
  BY DEF RInv, CallInv, CallOf
<1>2. BuildOf(t)'
  BY DEF BuildOf
<1> QED BY <1>1, <1>2, OpenStep

\* add0 allocates a schema to store, loaded from the caller's definition,
LEMMA Add0StoreRInv ==
  ASSUME IInv, RInv, NEW t \in Threads, Add0Store(t)
  PROVE  RInv'
<1> DEFINE v == NewLoaded(req[t])
           n == Len(heap) + 1
<1>1. /\ pc[t] = "add0"
      /\ req[t] \in Requests /\ req[t].id = NoId /\ req[t].def # NULL
      /\ req[t].op \in {"get", "add"}
  BY DEF IInv, LocalsInv, Add0Store, NeedsRegistry
<1>2. v \in Schema /\ v.def.sym = req[t].def.sym
  <2>1. req[t].def \in Text
    BY <1>1, CacheAssumption DEF Request
  <2> QED BY <1>1, <2>1, NewSchemaProperty, LoadProperty DEF NewLoaded, NewSchema, Schema
<1>3. Allocated(n, v)
  <2>1. heap' = Append(heap, v)
    BY DEF Add0Store
  <2>2. TypeOK /\ v \in Schema
    BY <1>2 DEF IInv
  <2> HIDE DEF v
  <2> QED BY <2>1, <2>2, AppendCell
<1>4. /\ pc'[t] = "store" /\ cur'[t] = n /\ UNCHANGED <<req, alive>>
      /\ OnlyThread(t)
  BY DEF Add0Store, appVars, OnlyThread, IInv, TypeOK
<1>5. OthersKeep(t)
  BY <1>1, LockedKeep, OthersOutside DEF LockedPcs
<1> HIDE DEF v, n
<1>6. CallOf(t)' /\ BuildOf(t)'
  BY <1>1, <1>2, <1>3, <1>4 DEF CallOf, BuildOf, Allocated
<1> QED BY <1>1, <1>4, <1>5, <1>6, OpenStep

\* or one to fetch.
LEMMA Add0FetchRInv ==
  ASSUME IInv, RInv, NEW t \in Threads, Add0Fetch(t)
  PROVE  RInv'
<1>1. /\ pc[t] = "add0"
      /\ req[t] \in Requests /\ req[t].def = NULL
      /\ req[t].op \in {"get", "add"}
  BY DEF IInv, LocalsInv, Add0Fetch
<1>2. pc'[t] = "fetch" /\ UNCHANGED <<req, alive>> /\ OnlyThread(t)
  BY DEF Add0Fetch, appVars, OnlyThread, IInv, TypeOK
<1>3. OthersKeep(t)
  BY <1>1, LockedKeep DEF LockedPcs
<1>4. CallOf(t)' /\ BuildOf(t)'
  BY <1>1, <1>2 DEF CallOf, BuildOf
<1> QED BY <1>1, <1>2, <1>3, <1>4, OpenStep

\* serdes_destroy goes on until the list is empty.
LEMMA TeardownRInv ==
  ASSUME IInv, RInv, NEW t \in Threads, TeardownNext(t) \/ TeardownEnd(t)
  PROVE  RInv'
<1>1. pc[t] = "teardown" /\ req[t].op = "teardown"
  BY DEF TeardownNext, TeardownEnd, RInv, CallInv, CallOf
<1>2. CASE TeardownNext(t)
  <2>1. sd_lock = NULL /\ UNCHANGED <<pc, req, cur, alive>>
    BY <1>2 DEF TeardownNext, threadVars, appVars
  <2>2. \A u \in Threads : pc[u] \notin {"fetch", "store"}
    BY <2>1, CacheAssumption DEF IInv, LockInv, LockedPcs
  <2>3. CallInv' /\ BuildInv'
    BY <2>1, <2>2 DEF RInv, CallInv, CallOf, BuildInv, BuildOf
  <2>4. AliveInv'
    BY <1>1, <2>1 DEF RInv, AliveInv
  <2> QED BY <2>3, <2>4 DEF RInv
<1>3. CASE TeardownEnd(t)
  <2>1. /\ Return(t) /\ OnlyThread(t) /\ sd_schemas = {}
        /\ UNCHANGED <<sd_schemas, heap, alive>>
    BY <1>3, ReturnStep DEF TeardownEnd, appVars, IInv
  <2>2. pc'[t] = "idle" /\ req'[t] = NoRequest
    BY <2>1 DEF Return, IInv, TypeOK
  <2>3. CallInv'
    BY <2>1, <2>2 DEF RInv, CallInv, CallOf, OnlyThread, NoRequest
  <2>4. BuildInv'
    BY <2>1, <2>2 DEF RInv, BuildInv, BuildOf, OnlyThread
  <2>5. AliveInv'
    BY <2>1, <2>2 DEF RInv, AliveInv, OnlyThread
  <2> QED BY <2>3, <2>4, <2>5 DEF RInv
<1> QED BY <1>2, <1>3

\* A call begins; serdes_destroy only while there is no other.
LEMMA CallRInv ==
  ASSUME IInv, RInv, NEW t \in Threads, NEW r \in Requests,
         \/ Call(t, r)
         \/ \E ss \in handed : CallDestroy(t, r, ss)
  PROVE  RInv'
<1>1. OnlyThread(t) /\ req'[t] = r /\ UNCHANGED heap
  BY DEF Call, CallDestroy, OnlyThread, IInv, TypeOK
<1>2. pc'[t] = IF r.op = "teardown" THEN "teardown" ELSE "lock"
  BY DEF Call, CallDestroy, IInv, TypeOK
<1>3. CallInv'
  <2>1. CallOf(t)'
    BY <1>1, <1>2 DEF CallOf
  <2> QED BY <1>1, <2>1 DEF RInv, CallInv, CallOf, OnlyThread
<1>4. BuildInv'
  BY <1>1, <1>2 DEF RInv, BuildInv, BuildOf, OnlyThread
<1>5. AliveInv'
  <2>1. CASE r.op = "teardown"
    <3>1. \A u \in Threads : pc[u] = "idle"
      BY <2>1 DEF Call, CallDestroy, MayCall
    <3> QED BY <1>1, <1>2, <2>1, <3>1 DEF AliveInv, OnlyThread
  <2>2. CASE r.op # "teardown"
    <3>1. alive' = TRUE
      <4>1. ASSUME Call(t, r) PROVE alive' = TRUE
        BY <2>2, <4>1 DEF Call
      <4>2. ASSUME NEW ss \in handed, CallDestroy(t, r, ss) PROVE alive' = TRUE
        BY <4>2 DEF CallDestroy, MayCall, IInv, TypeOK
      <4> QED BY <4>1, <4>2
    <3> QED BY <3>1 DEF AliveInv
  <2> QED BY <2>1, <2>2
<1> QED BY <1>3, <1>4, <1>5 DEF RInv

\* Neither is seen in the store.
LEMMA Add0Allocates ==
  ASSUME IInv, RInv, NEW t \in Threads, Add0Store(t) \/ Add0Fetch(t)
  PROVE  StoreStep
<1>1. OnlyThread(t) /\ UNCHANGED <<sd_schemas, req, alive>> /\ Subject(t)' = Subject(t)
  <2>1. /\ pc[t] = "add0" /\ pc'[t] \in {"fetch", "store"}
        /\ req[t].op \in {"get", "add"}
        /\ UNCHANGED <<sd_schemas, req, alive>>
    BY DEF Add0Store, Add0Fetch, appVars, IInv, TypeOK, LocalsInv
  <2>2. OnlyThread(t)
    BY DEF Add0Store, Add0Fetch, OnlyThread, IInv, TypeOK
  <2> QED BY <2>1, <2>2 DEF Subject
<1>2. \A c \in sd_schemas : heap'[c] = heap[c]
  <2>1. PICK v : heap' = Append(heap, v)
    BY DEF Add0Store, Add0Fetch
  <2>2. Len(heap) \in Nat /\ DOMAIN heap = 1 .. Len(heap) /\ heap \in Seq(Schema)
    BY LenProperties DEF IInv, TypeOK
  <2>3. \A c \in 1 .. Len(heap) : heap'[c] = heap[c]
    BY <2>1, <2>2
  <2> QED BY <2>3 DEF IInv, TypeOK, Cells
<1> QED BY <1>1, <1>2, NoStep

\* A step outside the cache is no step of the store.
LEMMA SameRefines ==
  ASSUME RInv, UNCHANGED <<pc, req, cur, sd_schemas, heap, alive>>
  PROVE  StoreStep /\ RInv'
<1>1. Cached' = Cached
  BY CachedSame
<1>2. Subjects' = Subjects
  BY DEF Subjects, Subject
<1>3. RInv'
  BY DEF RInv, CallInv, CallOf, BuildInv, BuildOf, AliveInv
<1> QED BY <1>1, <1>2, <1>3 DEF StoreStep, Store!storeVars

\* One step of a call in progress.
LEMMA StepRefines ==
  ASSUME IInv, RInv, NEW t \in Threads, Step(t)
  PROVE  StoreStep /\ RInv'
<1> USE DEF appVars, threadVars
<1>1. CASE LookupHit(t)
  <2>1. OnlyThread(t) /\ pc'[t] = "mark"
    BY <1>1 DEF LookupHit, OnlyThread, IInv, TypeOK
  <2>2. OthersKeep(t) /\ UNCHANGED <<req, alive>>
    BY <1>1 DEF LookupHit, OthersKeep
  <2> QED BY <1>1, <2>1, <2>2, LookupHitStore, GoOnRInv DEF LookupHit
<1>2. CASE LookupMiss(t)
  <2>1. OnlyThread(t) /\ pc'[t] = "add0" /\ Subject(t)' = Subject(t)
    BY <1>2 DEF LookupMiss, OnlyThread, Subject, IInv, TypeOK
  <2>2. OthersKeep(t) /\ UNCHANGED <<req, alive, sd_schemas, heap>>
    BY <1>2 DEF LookupMiss, OthersKeep
  <2> QED BY <1>2, <2>1, <2>2, NoStep, GoOnRInv DEF LookupMiss
<1>3. CASE Add0Reject(t)
  <2>1. OthersKeep(t) /\ Return(t) /\ UNCHANGED <<alive, sd_schemas, heap>>
    BY <1>3 DEF Add0Reject, OthersKeep
  <2> QED BY <1>3, <2>1, RespondStep, ReturnRInv DEF Add0Reject
<1>4. CASE Add0Assign(t)
  <2>1. OnlyThread(t) /\ pc'[t] = "mark" /\ UNCHANGED <<req, alive>>
    BY <1>4 DEF Add0Assign, OnlyThread, IInv, TypeOK
  <2>2. pc[t] = "add0" /\ req[t].op \in {"get", "add"} /\ OthersKeep(t)
    BY <1>4, LockedKeep DEF Add0Assign, IInv, LocalsInv, LockedPcs
  <2> QED BY <1>4, <2>1, <2>2, Add0AssignStore, GoOnRInv
<1>5. CASE Add0Store(t)
  BY <1>5, Add0StoreRInv, Add0Allocates
<1>6. CASE Add0Fetch(t)
  BY <1>6, Add0FetchRInv, Add0Allocates
<1>7. CASE StoreOk(t)
  <2>1. OnlyThread(t) /\ pc'[t] = "mark" /\ UNCHANGED <<req, alive>>
    BY <1>7 DEF StoreOk, OnlyThread, IInv, TypeOK
  <2>2. pc[t] = "store" /\ req[t].op \in {"get", "add"} /\ OthersKeep(t)
    BY <1>7, LockedKeep DEF StoreOk, IInv, LocalsInv, LockedPcs
  <2> QED BY <1>7, <2>1, <2>2, StoreOkStore, GoOnRInv
<1>8. CASE StoreFail(t) \/ FetchFail(t)
  <2>1. /\ pc[t] \in {"fetch", "store"} /\ serdes_schema_destroy0(cur[t])
        /\ Return(t) /\ UNCHANGED alive
    BY <1>8 DEF StoreFail, FetchFail
  <2>2. OthersKeep(t)
    BY <2>1, LockedKeep DEF LockedPcs
  <2> QED BY <2>1, <2>2, BuildFails, ReturnRInv
<1>9. CASE FetchOk(t)
  <2>1. pc[t] = "fetch" /\ req[t].op \in {"get", "add"} /\ OthersKeep(t) /\ UNCHANGED alive
    BY <1>9, LockedKeep DEF FetchOk, IInv, LocalsInv, LockedPcs
  <2>2. CASE Return(t)
    BY <1>9, <2>1, <2>2, FetchOkStore, ReturnRInv
  <2>3. CASE pc' = [pc EXCEPT ![t] = "mark"] /\ UNCHANGED <<req, cur>>
    <3>1. OnlyThread(t) /\ pc'[t] = "mark"
      BY <2>3 DEF OnlyThread, IInv, TypeOK
    <3> QED BY <1>9, <2>1, <2>3, <3>1, FetchOkStore, GoOnRInv
  <2> QED BY <1>9, <2>2, <2>3 DEF FetchOk
<1>10. CASE serdes_schema_mark_used(t)
  <2>1. /\ pc[t] = "mark" /\ Return(t) /\ UNCHANGED <<sd_schemas, alive>>
        /\ cur[t] \in Cells
    BY <1>10 DEF serdes_schema_mark_used, IInv, LocalsInv
  <2>2. \A c \in Cells : heap'[c].id = heap[c].id /\ heap'[c].def = heap[c].def
    <3>1. heap[cur[t]] \in Schema
      BY <2>1, ElementOfSeq DEF IInv, TypeOK, Cells
    <3>2. heap \in Seq(Schema) /\ DOMAIN heap = Cells
      BY LenProperties DEF IInv, TypeOK, Cells
    <3> QED BY <1>10, <2>1, <3>1, <3>2 DEF serdes_schema_mark_used, Schema
  <2>3. OthersKeep(t)
    BY <2>2 DEF OthersKeep, IInv, LocalsInv
  <2>4. \A c \in sd_schemas : heap'[c].id = heap[c].id /\ heap'[c].def = heap[c].def
    BY <2>2 DEF IInv, TypeOK
  <2> QED BY <2>1, <2>3, <2>4, RespondStep, ReturnRInv
<1>11. CASE MarkFreed(t) \/ DestroyFreed(t)
  <2>1. UNCHANGED <<pc, req, cur, sd_schemas, heap, alive>>
    BY <1>11 DEF MarkFreed, DestroyFreed
  <2> QED BY <2>1, SameRefines
<1>12. CASE serdes_schema_destroy(t)
  <2>1. pc[t] = "lock" /\ Return(t) /\ UNCHANGED alive /\ OthersKeep(t)
    BY <1>12, LockedKeep DEF serdes_schema_destroy
  <2> QED BY <1>12, <2>1, DestroyStore, ReturnRInv
<1>13. CASE PurgeBegin(t)
  <2>1. OnlyThread(t) /\ pc'[t] = "purge" /\ Subject(t)' = Subject(t)
    BY <1>13 DEF PurgeBegin, OnlyThread, Subject, IInv, TypeOK
  <2>2. OthersKeep(t) /\ UNCHANGED <<req, alive, sd_schemas, heap>>
    BY <1>13 DEF PurgeBegin, OthersKeep
  <2> QED BY <1>13, <2>1, <2>2, NoStep, GoOnRInv DEF PurgeBegin
<1>14. CASE PurgeCheck(t)
  <2>1. /\ OnlyThread(t) /\ pc[t] = "purge" /\ pc'[t] \in {"purge", "expired"}
        /\ req[t].op = "purge" /\ UNCHANGED req
    BY <1>14 DEF PurgeCheck, OnlyThread, IInv, TypeOK, RInv, CallInv, CallOf
  <2>2. Subject(t)' = Subject(t)
    BY <2>1 DEF Subject
  <2>3. OthersKeep(t) /\ UNCHANGED <<req, alive, sd_schemas, heap>>
    BY <1>14 DEF PurgeCheck, OthersKeep
  <2> QED BY <2>1, <2>2, <2>3, NoStep, GoOnRInv
<1>15. CASE PurgeDestroy(t)
  <2>1. /\ pc[t] = "expired" /\ cur[t] \in sd_schemas /\ req[t].op = "purge"
        /\ serdes_schema_destroy0(cur[t]) /\ UNCHANGED <<req, alive>>
    BY <1>15 DEF PurgeDestroy, IInv, LocalsInv, RInv, CallInv, CallOf
  <2>2. OnlyThread(t) /\ pc'[t] = "purge"
    BY <1>15 DEF PurgeDestroy, OnlyThread, IInv, TypeOK
  <2>3. OthersKeep(t)
    BY <2>1, LockedKeep DEF LockedPcs
  <2> QED BY <2>1, <2>2, <2>3, RemoveStep, GoOnRInv
<1>16. CASE PurgeEnd(t)
  <2>1. OthersKeep(t) /\ Return(t) /\ UNCHANGED <<alive, sd_schemas, heap>>
    BY <1>16 DEF PurgeEnd, OthersKeep
  <2> QED BY <1>16, <2>1, RespondStep, ReturnRInv DEF PurgeEnd
<1>17. CASE TeardownNext(t)
  <2>1. /\ pc[t] = "teardown" /\ First(sd_schemas) \in sd_schemas
        /\ serdes_schema_destroy0(First(sd_schemas))
        /\ UNCHANGED <<pc, req, cur, alive>>
    BY <1>17, LinkProperty DEF TeardownNext, IInv
  <2>2. OnlyThread(t) /\ pc'[t] # "mark" /\ req[t].op = "teardown"
    BY <2>1 DEF OnlyThread, RInv, CallInv, CallOf
  <2> QED BY <1>17, <2>1, <2>2, RemoveStep, TeardownRInv
<1>18. CASE TeardownEnd(t)
  <2>1. Return(t) /\ sd_schemas = {} /\ UNCHANGED <<alive, sd_schemas, heap>>
    BY <1>18 DEF TeardownEnd
  <2> QED BY <1>18, <2>1, RespondStep, TeardownRInv
<1> QED
  BY <1>1, <1>2, <1>3, <1>4, <1>5, <1>6, <1>7, <1>8, <1>9, <1>10, <1>11, <1>12,
     <1>13, <1>14, <1>15, <1>16, <1>17, <1>18
  DEF Step
-----------------------------------------------------------------------------
(***************************************************************************)
(* The theorems.                                                           *)
(***************************************************************************)

\* What the steps of Next do to RInv and to the store.
LEMMA NextRefines ==
  ASSUME IInv, RInv, [Next]_vars
  PROVE  StoreStep /\ RInv'
<1>1. ASSUME NEW t \in Threads, Step(t) PROVE StoreStep /\ RInv'
  BY <1>1, StepRefines
<1>2. ASSUME NEW t \in Threads, NEW r \in Requests, Call(t, r)
      PROVE  StoreStep /\ RInv'
  BY <1>2, CallStore, CallRInv
<1>3. ASSUME NEW t \in Threads, NEW r \in Requests, NEW ss \in handed,
             CallDestroy(t, r, ss)
      PROVE  StoreStep /\ RInv'
  BY <1>3, CallDestroyStore, CallRInv
<1>4. ASSUME \/ \E ss \in handed : UseFreed(ss)
             \/ Tick
             \/ \E n \in Names, def \in Published : RegistryPublish(n, def)
             \/ UNCHANGED vars
      PROVE  StoreStep /\ RInv'
  <2>1. UNCHANGED <<pc, req, cur, sd_schemas, heap, alive>>
    BY <1>4 DEF UseFreed, Tick, RegistryPublish, vars, threadVars, appVars
  <2> QED BY <2>1, SameRefines
<1> QED BY <1>1, <1>2, <1>3, <1>4 DEF Next, Halt

\* RInv holds together with IInv.
LEMMA RInvariant == Spec => [](IInv /\ RInv)
<1>1. Init => RInv
  BY DEF Init, RInv, CallInv, CallOf, BuildInv, BuildOf, AliveInv, NoRequest
<1>2. IInv /\ RInv /\ [Next]_vars => RInv'
  BY NextRefines
<1> QED BY <1>1, <1>2, Inductive, PTL DEF Spec

\* The cache implements the atomic store, whatever the threads, the registry
\* and the purges do.
THEOREM CacheImplementsStore == Spec => ImplementsStore
<1>1. Init => Store!Init
  <2> SUFFICES ASSUME Init PROVE Store!Init
    OBVIOUS
  <2>1. Cached = <<>>
    BY DEF Init, Cached
  <2>2. Subjects = [t \in Threads |-> 0]
    BY DEF Init, Subjects, Subject, NoRequest
  <2> QED BY <2>1, <2>2 DEF Init, Store!Init
<1>2. IInv /\ RInv /\ [Next]_vars => [Store!Next]_(Store!storeVars)
  BY NextRefines DEF StoreStep
<1> QED BY <1>1, <1>2, RInvariant, PTL DEF Spec, ImplementsStore, Store!Spec

\* When serdes_destroy has returned no schema is left allocated: the list is
\* empty and, as nobody is building a schema, a live one would be in it.
THEOREM NothingIsLeft == Spec => []TeardownFreesAll
<1>1. IInv /\ RInv => TeardownFreesAll
  <2> SUFFICES ASSUME IInv, RInv, ~alive, \A t \in Threads : pc[t] = "idle",
                      NEW c \in Cells, heap[c].st # "freed"
               PROVE  FALSE
    BY DEF TeardownFreesAll
  <2>1. sd_schemas = {}
    BY DEF RInv, AliveInv
  <2>2. heap[c].st = "live"
    <3>1. heap[c] \in Schema
      BY ElementOfSeq DEF IInv, TypeOK, Cells
    <3> QED BY <3>1 DEF Schema
  <2>3. ~heap[c].linked
    BY <2>1 DEF IInv, ListIntegrity
  <2> QED BY <2>2, <2>3 DEF IInv, NoOrphan
<1> QED BY <1>1, RInvariant, PTL
=============================================================================
