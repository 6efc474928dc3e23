-------------------------- MODULE SchemaCacheQuiesced --------------------------
(***************************************************************************)
(* Proofs about SchemaCache under an application that is quiesced: it      *)
(* purges and destroys only while no other thread uses the handle, and     *)
(* then forgets its pointers.  The library never touches a schema that is  *)
(* gone, and a purge spares what was marked within max_age.                *)
(***************************************************************************)
EXTENDS SchemaCacheRefinement

-----------------------------------------------------------------------------
(***************************************************************************)
(* What the application's discipline keeps true.                           *)
(***************************************************************************)

\* The schemas that calls hold outside sd_lock are in the list; an exclusive
\* call is alone, and the application has dropped its pointers.
QuietOf(t) ==
  /\ pc[t] = "mark" => cur[t] \in sd_schemas
  /\ req[t].op = "destroy" => cur[t] \in sd_schemas \ handed
  /\ req[t].op = "purge" => handed = {}
  /\ req[t].op \in Exclusive => \A u \in Threads : u # t => pc[u] = "idle"
  /\ pc[t] = "teardown" => ~alive

QInv ==
  /\ handed \subseteq sd_schemas
  /\ ~alive => handed = {}
  /\ \A t \in Threads : QuietOf(t)
  /\ fault = "none"

\* A step inside get or add, which links schemas at most.
LEMMA GetAddQuiet ==
  ASSUME RInv, RInv', QInv, NEW t \in Threads, OnlyThread(t),
         req[t].op \in {"get", "add"}, req'[t] \in {req[t], NoRequest},
         UNCHANGED <<alive, fault>>, sd_schemas \subseteq sd_schemas',
         handed' \subseteq sd_schemas', pc'[t] = "mark" => cur'[t] \in sd_schemas'
  PROVE  QInv'
<1>1. pc[t] \notin {"idle", "teardown"}
  BY DEF RInv, CallInv, CallOf, NoRequest
<1>2. alive /\ alive'
  BY <1>1 DEF RInv, AliveInv
<1>3. \A u \in Threads : req[u].op \notin Exclusive
  BY <1>1 DEF QInv, QuietOf, Exclusive
<1>4. \A u \in Threads : pc[u] # "teardown"
  BY <1>2 DEF QInv, QuietOf
<1>5. QuietOf(t)'
  BY <1>3 DEF QuietOf, Exclusive, NoRequest, RInv, CallInv, CallOf
<1>6. ASSUME NEW u \in Threads, u # t PROVE QuietOf(u)'
  BY <1>3, <1>4, <1>6 DEF QuietOf, Exclusive, OnlyThread, QInv
<1> QED BY <1>2, <1>5, <1>6 DEF QInv

\* A step inside a purge, a destroy or serdes_destroy, which unlinks at most.
LEMMA RemovalQuiet ==
  ASSUME RInv, RInv', QInv, NEW t \in Threads, OnlyThread(t),
         req[t].op \in {"purge", "destroy", "teardown"},
         req'[t] \in {req[t], NoRequest}, UNCHANGED <<alive, handed, fault>>,
         \/ UNCHANGED sd_schemas /\ cur'[t] = cur[t]
         \/ req[t].op = "destroy" /\ req'[t] = NoRequest
              /\ sd_schemas' = sd_schemas \ {cur[t]}
         \/ req[t].op # "destroy"
  PROVE  QInv'
<1>1. \A u \in Threads : u # t => pc[u] \in {"idle", "teardown"}
  BY DEF QInv, QuietOf, Exclusive, RInv, AliveInv, CallInv, CallOf
<1>2. \A u \in Threads : u # t => req[u].op \notin Exclusive
  BY <1>1 DEF RInv, CallInv, CallOf, NoRequest, Exclusive
<1>3. req[t].op # "destroy" => handed = {}
  BY DEF QInv, QuietOf, RInv, CallInv, CallOf
<1>4. handed' \subseteq sd_schemas'
  BY <1>3 DEF QInv, QuietOf
<1>5. QuietOf(t)'
  BY <1>1, <1>3 DEF QInv, QuietOf, Exclusive, OnlyThread, NoRequest, RInv, CallInv, CallOf, AliveInv
<1>6. ASSUME NEW u \in Threads, u # t PROVE QuietOf(u)'
  BY <1>1, <1>2, <1>6 DEF QuietOf, Exclusive, OnlyThread, QInv
<1> QED BY <1>4, <1>5, <1>6 DEF QInv

\* A call begins: an exclusive one when there is no other, and none at all
\* while there is an exclusive one.
LEMMA CallQuiet ==
  ASSUME Quiesce, IInv, RInv, RInv', QInv, NEW t \in Threads, NEW r \in Requests,
         \/ Call(t, r)
         \/ \E ss \in handed : CallDestroy(t, r, ss)
  PROVE  QInv'
<1>1. /\ OnlyThread(t) /\ req'[t] = r /\ alive /\ UNCHANGED <<sd_schemas, fault>>
      /\ pc[t] = "idle"
      /\ pc'[t] = IF r.op = "teardown" THEN "teardown" ELSE "lock"
      /\ \A u \in Threads : req[u].op \notin Exclusive
      /\ r.op \in Exclusive \cup {"teardown"} => \A u \in Threads : pc[u] = "idle"
  BY DEF Call, CallDestroy, MayCall, OnlyThread, IInv, TypeOK
<1>2. \A u \in Threads : pc[u] # "teardown"
  BY <1>1 DEF QInv, QuietOf
<1>3. CASE Call(t, r)
  <2>1. /\ r.op # "destroy"
        /\ alive' = (r.op # "teardown")
        /\ handed' = IF r.op \in {"teardown", "purge"} THEN {} ELSE handed
    BY <1>3 DEF Call
  <2>2. r.op = "teardown" => ~alive'
    BY <2>1
  <2>3. ~alive' => handed' = {}
    BY <2>1
  <2>4. QuietOf(t)'
    BY <1>1, <2>1, <2>2 DEF QuietOf, OnlyThread
  <2>5. ASSUME NEW u \in Threads, u # t PROVE QuietOf(u)'
    BY <1>1, <1>2, <2>5 DEF QuietOf, OnlyThread, QInv, Exclusive
  <2> QED BY <1>1, <2>1, <2>3, <2>4, <2>5 DEF QInv
<1>4. ASSUME NEW ss \in handed, CallDestroy(t, r, ss)
      PROVE  QInv'
  <2>1. /\ r.op = "destroy" /\ alive' = alive
        /\ cur'[t] = ss /\ handed' = handed \ {ss}
    BY <1>4 DEF CallDestroy, IInv, TypeOK
  <2>2. QuietOf(t)'
    BY <1>1, <2>1 DEF QuietOf, OnlyThread, QInv, Exclusive
  <2>3. ASSUME NEW u \in Threads, u # t PROVE QuietOf(u)'
    BY <1>1, <1>2, <2>3 DEF QuietOf, OnlyThread, QInv, Exclusive
  <2> QED BY <1>1, <2>1, <2>2, <2>3 DEF QInv
<1> QED BY <1>3, <1>4

\* What a destroyed schema leaves of the list.
LEMMA DestroyedList ==
  ASSUME IInv, NEW c \in Cells, serdes_schema_destroy0(c)
  PROVE  sd_schemas' = sd_schemas \ {c}
BY Destroy0Property DEF Destroyed

\* A step of a call in progress.
LEMMA StepQuiet ==
  ASSUME IInv, RInv, RInv', QInv, NEW t \in Threads, Step(t)
  PROVE  QInv'
<1> USE DEF appVars, threadVars
<1>1. ASSUME Return(t) PROVE OnlyThread(t) /\ req'[t] = NoRequest /\ pc'[t] = "idle"
  BY <1>1, ReturnStep DEF Return, IInv, TypeOK
<1>2. pc[t] \in {"add0", "fetch", "store", "mark"} => req[t].op \in {"get", "add"}
  BY DEF RInv, CallInv, CallOf
<1>3. pc[t] \in {"purge", "expired"} => req[t].op = "purge"
  BY DEF RInv, CallInv, CallOf
<1>4. pc[t] = "teardown" => req[t].op = "teardown"
  BY DEF RInv, CallInv, CallOf
<1>5. handed \subseteq sd_schemas /\ sd_schemas \subseteq Cells
  BY DEF QInv, IInv, TypeOK
<1>6. CASE LookupHit(t)
  <2>1. Lookup(req[t]) \in sd_schemas
    BY <1>6, LookupMatches DEF LookupHit, IInv
  <2>2. /\ OnlyThread(t) /\ cur'[t] = Lookup(req[t])
        /\ UNCHANGED <<req, alive, fault, handed, sd_schemas>>
        /\ req[t].op \in {"get", "add"}
    BY <1>6 DEF LookupHit, OnlyThread, IInv, TypeOK
  <2> QED BY <1>5, <2>1, <2>2, GetAddQuiet
<1>7. CASE LookupMiss(t) \/ Add0Store(t) \/ Add0Fetch(t)
  <2>1. /\ OnlyThread(t) /\ pc'[t] # "mark"
        /\ UNCHANGED <<req, alive, fault, handed, sd_schemas>>
    BY <1>7 DEF LookupMiss, Add0Store, Add0Fetch, OnlyThread, IInv, TypeOK
  <2>2. req[t].op \in {"get", "add"}
    BY <1>2, <1>7 DEF LookupMiss, Add0Store, Add0Fetch
  <2> QED BY <1>5, <2>1, <2>2, GetAddQuiet
<1>8. CASE Add0Reject(t)
  <2>1. Return(t) /\ pc[t] = "add0" /\ UNCHANGED <<alive, fault, handed, sd_schemas>>
    BY <1>8 DEF Add0Reject
  <2> QED BY <1>1, <1>2, <1>5, <2>1, GetAddQuiet
<1>9. CASE Add0Assign(t) \/ StoreOk(t)
  <2>1. /\ OnlyThread(t) /\ sd_schemas' = sd_schemas \cup {cur'[t]}
        /\ UNCHANGED <<req, alive, fault, handed>>
    BY <1>9 DEF Add0Assign, StoreOk, OnlyThread, IInv, TypeOK
  <2>2. req[t].op \in {"get", "add"}
    BY <1>2, <1>9 DEF Add0Assign, StoreOk
  <2> QED BY <1>5, <2>1, <2>2, GetAddQuiet
<1>10. CASE FetchOk(t)
  <2>1. /\ pc[t] = "fetch" /\ sd_schemas' = sd_schemas \cup {cur[t]}
        /\ UNCHANGED <<alive, fault>>
    BY <1>10 DEF FetchOk
  <2>2. CASE Return(t) /\ handed' = handed \cup {cur[t]}
    BY <1>1, <1>2, <1>5, <2>1, <2>2, GetAddQuiet
  <2>3. CASE pc' = [pc EXCEPT ![t] = "mark"] /\ UNCHANGED <<req, cur, handed>>
    <3>1. OnlyThread(t)
      BY <2>3 DEF OnlyThread, IInv, TypeOK
    <3> QED BY <1>2, <1>5, <2>1, <2>3, <3>1, GetAddQuiet
  <2> QED BY <1>10, <2>2, <2>3 DEF FetchOk
<1>11. CASE StoreFail(t) \/ FetchFail(t)
  <2>1. /\ pc[t] \in {"fetch", "store"} /\ serdes_schema_destroy0(cur[t])
        /\ Return(t) /\ UNCHANGED <<alive, fault, handed>>
    BY <1>11 DEF StoreFail, FetchFail
  <2>2. cur[t] \in Cells /\ cur[t] \notin sd_schemas
    BY <2>1 DEF IInv, LocalsInv, ListIntegrity
  <2>3. sd_schemas' = sd_schemas
    BY <2>1, <2>2, DestroyedList
  <2> QED BY <1>1, <1>2, <1>5, <2>1, <2>3, GetAddQuiet
<1>12. CASE serdes_schema_mark_used(t)
  <2>1. /\ pc[t] = "mark" /\ Return(t) /\ handed' = handed \cup {cur[t]}
        /\ UNCHANGED <<sd_schemas, alive, fault>>
    BY <1>12 DEF serdes_schema_mark_used
  <2>2. cur[t] \in sd_schemas
    BY <2>1 DEF QInv, QuietOf
  <2> QED BY <1>1, <1>2, <1>5, <2>1, <2>2, GetAddQuiet
<1>13. CASE MarkFreed(t) \/ DestroyFreed(t)
  <2>1. cur[t] \in sd_schemas /\ heap[cur[t]].st = "freed"
    BY <1>13 DEF MarkFreed, DestroyFreed, QInv, QuietOf
  <2> QED BY <2>1 DEF IInv, ListIntegrity
<1>14. CASE serdes_schema_destroy(t)
  <2>1. /\ req[t].op = "destroy" /\ serdes_schema_destroy0(cur[t]) /\ Return(t)
        /\ UNCHANGED <<alive, fault, handed>> /\ cur[t] \in Cells
    BY <1>5, <1>14 DEF serdes_schema_destroy, QInv, QuietOf
  <2>2. sd_schemas' = sd_schemas \ {cur[t]}
    BY <2>1, DestroyedList
  <2> QED BY <1>1, <2>1, <2>2, RemovalQuiet
<1>15. CASE PurgeBegin(t) \/ PurgeCheck(t) \/ PurgeDestroy(t)
  <2>1. OnlyThread(t) /\ UNCHANGED <<req, alive, fault, handed>>
    BY <1>15 DEF PurgeBegin, PurgeCheck, PurgeDestroy, OnlyThread, IInv, TypeOK
  <2>2. req[t].op = "purge"
    BY <1>3, <1>15 DEF PurgeBegin, PurgeCheck, PurgeDestroy
  <2> QED BY <2>1, <2>2, RemovalQuiet
<1>16. CASE PurgeEnd(t) \/ TeardownEnd(t)
  <2>1. Return(t) /\ UNCHANGED <<alive, fault, handed>>
    BY <1>16 DEF PurgeEnd, TeardownEnd
  <2>2. req[t].op \in {"purge", "teardown"}
    BY <1>3, <1>4, <1>16 DEF PurgeEnd, TeardownEnd
  <2> QED BY <1>1, <2>1, <2>2, RemovalQuiet
<1>17. CASE TeardownNext(t)
  <2>1. UNCHANGED <<pc, req, cur, alive, fault, handed>> /\ req[t].op = "teardown"
    BY <1>4, <1>17 DEF TeardownNext
  <2> QED BY <2>1, RemovalQuiet DEF OnlyThread
<1> QED
  BY <1>6, <1>7, <1>8, <1>9, <1>10, <1>11, <1>12, <1>13, <1>14, <1>15, <1>16, <1>17
  DEF Step

\* A quiesced application never makes the library touch a freed schema.
LEMMA QuietNext ==
  ASSUME Quiesce, IInv, RInv, QInv, [Next]_vars
  PROVE  QInv'
<1>1. RInv'
  BY NextRefines
<1>2. ASSUME NEW t \in Threads, Step(t) PROVE QInv'
  BY <1>1, <1>2, StepQuiet
<1>3. ASSUME NEW t \in Threads, NEW r \in Requests,
             Call(t, r) \/ \E ss \in handed : CallDestroy(t, r, ss)
      PROVE  QInv'
  BY <1>1, <1>3, CallQuiet
<1>4. ASSUME NEW ss \in handed, UseFreed(ss) PROVE QInv'
  BY <1>4 DEF UseFreed, QInv, IInv, ListIntegrity
<1>5. ASSUME \/ Tick
             \/ \E n \in Names, def \in Published : RegistryPublish(n, def)
             \/ UNCHANGED vars
      PROVE  QInv'
  <2>1. UNCHANGED <<pc, req, cur, sd_schemas, alive, fault, handed>>
    BY <1>5 DEF Tick, RegistryPublish, vars, threadVars, appVars
  <2> QED BY <2>1 DEF QInv, QuietOf
<1> QED BY <1>2, <1>3, <1>4, <1>5 DEF Next, Halt

THEOREM QuiescedIsSafe ==
  ASSUME Quiesce
  PROVE  Spec => []NoUseAfterFree
<1>1. Init => QInv
  BY DEF Init, QInv, QuietOf, NoRequest, Exclusive
<1>2. IInv /\ RInv /\ QInv /\ [Next]_vars => QInv'
  BY QuietNext
<1>3. QInv => NoUseAfterFree
  BY DEF QInv, NoUseAfterFree
<1> QED BY <1>1, <1>2, <1>3, RInvariant, PTL DEF Spec
-----------------------------------------------------------------------------
(***************************************************************************)
(* What a purge compares.                                                  *)
(***************************************************************************)

\* A call's part: a schema under construction has no stamp, a purge's limit
\* is max_age behind the clock, and what it is about to destroy is older.
StampOf(t) ==
  /\ pc[t] \in {"fetch", "store"} => heap[cur[t]].t_last_used = 0
  /\ req[t].op = "purge" => expiry[t] + req[t].max_age <= now
  /\ pc[t] = "expired" => heap[cur[t]].t_last_used < expiry[t]

\* A stamp is the time at which the schema was last returned.
StampInv ==
  /\ \A c \in Cells : heap[c].t_last_used # 0 =>
        heap[c].t_last_used = heap[c].t_handed
  /\ \A t \in Threads : StampOf(t)

\* No stamp changes, and new schemas have none.
StampsKept ==
  /\ Cells \subseteq Cells'
  /\ \A c \in Cells : /\ heap'[c].t_last_used = heap[c].t_last_used
                      /\ heap'[c].t_handed = heap[c].t_handed
  /\ \A c \in Cells' \ Cells : heap'[c].t_last_used = 0

LEMMA KeptStep ==
  ASSUME IInv, StampInv, StampsKept, NEW t \in Threads, OnlyThread(t),
         UNCHANGED <<expiry, now>>, StampOf(t)'
  PROVE  StampInv'
<1>1. ASSUME NEW u \in Threads, u # t PROVE StampOf(u)'
  <2>1. pc[u] \in {"fetch", "store", "expired"} => cur[u] \in Cells
    BY DEF IInv, LocalsInv, TypeOK
  <2> QED BY <1>1, <2>1 DEF StampInv, StampOf, OnlyThread, StampsKept
<1>2. \A c \in Cells' : heap'[c].t_last_used # 0 =>
        heap'[c].t_last_used = heap'[c].t_handed
  BY DEF StampInv, StampsKept
<1> QED BY <1>1, <1>2 DEF StampInv

\* Destroying a schema keeps what is in its freed memory,
LEMMA DestroyKeepsStamps ==
  ASSUME IInv, NEW ss \in Cells, serdes_schema_destroy0(ss)
  PROVE  StampsKept
<1>1. heap[ss] \in Schema
  BY ElementOfSeq DEF IInv, TypeOK, Cells
<1>2. /\ Freed(heap[ss]) \in Schema
      /\ Freed(heap[ss]).t_last_used = heap[ss].t_last_used
      /\ Freed(heap[ss]).t_handed = heap[ss].t_handed
  BY <1>1 DEF Freed, Schema
<1>3. Changed(ss, Freed(heap[ss]))
  BY <1>2, UpdateCell DEF serdes_schema_destroy0, IInv
<1> QED BY <1>2, <1>3 DEF Changed, StampsKept

\* and so does storing one.
LEMMA StoreKeepsStamps ==
  ASSUME IInv, NEW t \in Threads, StoreOk(t)
  PROVE  StampsKept
<1> DEFINE ss == cur[t]
           v == Stored(heap[ss])
<1>1. ss \in Cells /\ heap[ss] \in Schema /\ heap[ss].def \in Text
  BY ElementOfSeq DEF IInv, TypeOK, LocalsInv, StoreOk, Cells
<1>2. RegistryId(heap[ss].def.sym) \in Nat
  BY <1>1, RegistryPostProperty DEF IInv, StoreOk
<1>3. /\ v \in Schema
      /\ v.t_last_used = heap[ss].t_last_used
      /\ v.t_handed = heap[ss].t_handed
  BY <1>1, <1>2 DEF Stored, Schema
<1>4. Changed(ss, v)
  <2>1. heap' = [heap EXCEPT ![ss] = v]
    BY DEF StoreOk
  <2> HIDE DEF v, ss
  <2> QED BY <1>1, <1>3, <2>1, UpdateCell DEF IInv
<1> HIDE DEF v
<1> QED BY <1>3, <1>4 DEF Changed, StampsKept

\* A new schema has no stamp.
LEMMA NewHasNoStamp ==
  ASSUME IInv, NEW t \in Threads, Add0Assign(t) \/ Add0Store(t) \/ Add0Fetch(t)
  PROVE  /\ StampsKept
         /\ heap'[Len(heap) + 1].t_last_used = 0
<1>1. req[t] \in Requests
  BY DEF Add0Assign, Add0Store, Add0Fetch, IInv, LocalsInv
<1>2. PICK v \in Schema : heap' = Append(heap, v) /\ v.t_last_used = 0
  <2>1. NewSchema(req[t]) \in Schema /\ NewSchema(req[t]).t_last_used = 0
    BY <1>1, NewSchemaProperty DEF NewSchema
  <2>2. ASSUME req[t].def # NULL
        PROVE  /\ NewLoaded(req[t]) \in Schema
               /\ NewLoaded(req[t]).t_last_used = 0
               /\ [NewLoaded(req[t]) EXCEPT !.linked = TRUE] \in Schema
               /\ [NewLoaded(req[t]) EXCEPT !.linked = TRUE].t_last_used = 0
    <3>1. NewLoaded(req[t]) \in Schema
      BY <1>1, <2>2, NewSchemaProperty
    <3>2. NewLoaded(req[t]).t_last_used = 0
      BY DEF NewLoaded, NewSchema
    <3> QED BY <3>1, <3>2 DEF Schema
  <2>3. CASE Add0Assign(t)
    BY <2>2, <2>3 DEF Add0Assign, NeedsRegistry
  <2>4. CASE Add0Store(t)
    BY <2>2, <2>4 DEF Add0Store
  <2>5. CASE Add0Fetch(t)
    BY <2>1, <2>5 DEF Add0Fetch
  <2> QED BY <2>3, <2>4, <2>5
<1>3. Allocated(Len(heap) + 1, v)
  BY <1>2, AppendCell DEF IInv
<1> QED BY <1>2, <1>3 DEF Allocated, StampsKept

\* A get that fetched its schema has returned it, but not stamped it.
LEMMA FetchOkStamps ==
  ASSUME IInv, RInv, StampInv, NEW t \in Threads, FetchOk(t)
  PROVE  StampInv'
<1> DEFINE ss == cur[t]
           id == FetchedId(req[t])
           v == [Fetched(heap[ss], id) EXCEPT
                   !.t_handed = IF req[t].op = "get" THEN now ELSE @]
<1>1. /\ pc[t] = "fetch"
      /\ ss \in Cells
      /\ heap[ss] \in Schema
      /\ heap[ss].t_last_used = 0
      /\ now \in Nat
  BY ElementOfSeq DEF IInv, TypeOK, LocalsInv, FetchOk, Cells, StampInv, StampOf
<1>2. id \in DOMAIN reg_schemas /\ id \in Nat /\ reg_schemas[id] \in Text
  BY ElementOfSeq, LenProperties DEF IInv, TypeOK, FetchOk
<1>3. v \in Schema /\ v.t_last_used = 0
  <2>1. serdes_schema_load(reg_schemas[id]) \in Text
    BY <1>2, LoadProperty
  <2> QED BY <1>1, <1>2, <2>1 DEF Fetched, Schema
<1>4. Changed(ss, v)
  <2>1. heap' = [heap EXCEPT ![ss] = v]
    BY DEF FetchOk
  <2> HIDE DEF v, ss
  <2> QED BY <1>1, <1>3, <2>1, UpdateCell DEF IInv
<1>5. /\ OnlyThread(t) /\ UNCHANGED <<expiry, now>>
      /\ pc'[t] \notin {"fetch", "store", "expired"}
      /\ req'[t].op # "purge"
  BY <1>1 DEF FetchOk, Return, OnlyThread, IInv, TypeOK, NoRequest, RInv, CallInv, CallOf
<1>6. \A u \in Threads : u # t => pc[u] \notin {"fetch", "store", "expired"}
  BY <1>1, CacheAssumption DEF IInv, LockInv, LockedPcs
<1> HIDE DEF v, id
<1>7. \A u \in Threads : StampOf(u)'
  BY <1>5, <1>6 DEF StampInv, StampOf, OnlyThread
<1>8. \A c \in Cells' : heap'[c].t_last_used # 0 =>
        heap'[c].t_last_used = heap'[c].t_handed
  BY <1>1, <1>3, <1>4 DEF StampInv, Changed
<1> QED BY <1>7, <1>8 DEF StampInv

\* A stamp is set while no purge is under way, and not on a schema that is
\* under construction.
LEMMA MarkStamps ==
  ASSUME IInv, RInv, QInv, StampInv, NEW t \in Threads, serdes_schema_mark_used(t)
  PROVE  StampInv'
<1> DEFINE ss == cur[t]
           v == [heap[ss] EXCEPT !.t_last_used = now, !.t_handed = now]
<1>1. /\ pc[t] = "mark"
      /\ ss \in sd_schemas
      /\ ss \in Cells
      /\ heap[ss] \in Schema
      /\ now \in Nat
  BY ElementOfSeq
  DEF IInv, TypeOK, serdes_schema_mark_used, Cells, QInv, QuietOf
<1>2. v \in Schema /\ v.t_last_used = now /\ v.t_handed = now
  BY <1>1 DEF Schema
<1>3. Changed(ss, v)
  <2>1. heap' = [heap EXCEPT ![ss] = v]
    BY DEF serdes_schema_mark_used
  <2> HIDE DEF v, ss
  <2> QED BY <1>1, <1>2, <2>1, UpdateCell DEF IInv
<1>4. /\ OnlyThread(t) /\ UNCHANGED <<expiry, now>>
      /\ pc'[t] = "idle" /\ req'[t] = NoRequest
  <2>1. Return(t)
    BY DEF serdes_schema_mark_used
  <2> QED BY <2>1, ReturnStep DEF serdes_schema_mark_used, Return, IInv, TypeOK
<1> HIDE DEF v, ss
<1>5. StampOf(t)'
  BY <1>4 DEF StampOf, NoRequest
<1>6. ASSUME NEW u \in Threads, u # t PROVE StampOf(u)'
  <2>1. pc[u] # "expired"
    BY <1>1, <1>6 DEF QInv, QuietOf, RInv, CallInv, CallOf, Exclusive
  <2>2. pc[u] \in {"fetch", "store"} => cur[u] \in Cells /\ cur[u] # ss
    BY <1>1 DEF IInv, LocalsInv, ListIntegrity
  <2> QED BY <1>3, <1>4, <1>6, <2>1, <2>2
      DEF StampInv, StampOf, OnlyThread, Changed
<1>7. \A c \in Cells' : heap'[c].t_last_used # 0 =>
        heap'[c].t_last_used = heap'[c].t_handed
  BY <1>2, <1>3 DEF StampInv, Changed
<1> QED BY <1>5, <1>6, <1>7 DEF StampInv

\* The other steps of a call in progress.
LEMMA StepStamps ==
  ASSUME IInv, RInv, QInv, StampInv, NEW t \in Threads, Step(t)
  PROVE  StampInv'
<1> USE DEF appVars, threadVars
<1>1. UNCHANGED heap => StampsKept
  BY DEF StampsKept, Cells
<1>2. ASSUME Return(t), UNCHANGED <<expiry, now>>
      PROVE  OnlyThread(t) /\ StampOf(t)'
  <2>1. OnlyThread(t)
    BY <1>2, ReturnStep DEF IInv
  <2>2. pc'[t] = "idle" /\ req'[t] = NoRequest
    BY <1>2 DEF Return, IInv, TypeOK
  <2> QED BY <2>1, <2>2 DEF StampOf, NoRequest
<1>3. ASSUME OnlyThread(t), UNCHANGED <<req, expiry, now>>,
             pc'[t] \notin {"fetch", "store", "expired"}
      PROVE  StampOf(t)'
  BY <1>3 DEF StampInv, StampOf
<1>4. CASE LookupHit(t) \/ LookupMiss(t) \/ PurgeBegin(t)
  <2>1. /\ OnlyThread(t) /\ UNCHANGED <<heap, req, expiry, now>>
        /\ pc'[t] \in {"mark", "add0", "purge"}
    BY <1>4 DEF LookupHit, LookupMiss, PurgeBegin, OnlyThread, IInv, TypeOK
  <2> QED BY <1>1, <1>3, <2>1, KeptStep
<1>5. CASE Add0Reject(t) \/ PurgeEnd(t) \/ TeardownEnd(t)
  <2>1. Return(t) /\ UNCHANGED <<heap, expiry, now>>
    BY <1>5 DEF Add0Reject, PurgeEnd, TeardownEnd
  <2> QED BY <1>1, <1>2, <2>1, KeptStep
<1>6. CASE Add0Assign(t) \/ StoreOk(t)
  <2>1. /\ OnlyThread(t) /\ UNCHANGED <<req, expiry, now>> /\ pc'[t] = "mark"
    BY <1>6 DEF Add0Assign, StoreOk, OnlyThread, IInv, TypeOK
  <2> QED BY <1>3, <1>6, <2>1, KeptStep, NewHasNoStamp, StoreKeepsStamps
<1>7. CASE Add0Store(t) \/ Add0Fetch(t)
  <2>1. /\ OnlyThread(t) /\ UNCHANGED <<req, expiry, now>>
        /\ pc'[t] \in {"fetch", "store"} /\ cur'[t] = Len(heap) + 1
    BY <1>7 DEF Add0Store, Add0Fetch, OnlyThread, IInv, TypeOK
  <2>2. StampsKept /\ heap'[Len(heap) + 1].t_last_used = 0
    BY <1>7, NewHasNoStamp
  <2>3. StampOf(t)'
    BY <2>1, <2>2 DEF StampInv, StampOf
  <2> QED BY <2>1, <2>2, <2>3, KeptStep
<1>8. CASE StoreFail(t) \/ FetchFail(t) \/ serdes_schema_destroy(t)
  <2>1. /\ Return(t) /\ UNCHANGED <<expiry, now>>
        /\ cur[t] \in Cells /\ serdes_schema_destroy0(cur[t])
    BY <1>8 DEF StoreFail, FetchFail, serdes_schema_destroy, IInv, LocalsInv
  <2> QED BY <1>2, <2>1, KeptStep, DestroyKeepsStamps
<1>9. CASE MarkFreed(t) \/ DestroyFreed(t)
  <2>1. UNCHANGED <<heap, pc, req, cur, expiry, now>>
    BY <1>9 DEF MarkFreed, DestroyFreed
  <2> QED BY <2>1 DEF StampInv, StampOf, Cells
<1>10. CASE PurgeCheck(t)
  <2>1. OnlyThread(t) /\ UNCHANGED <<heap, req, expiry, now>> /\ pc[t] = "purge"
    BY <1>10 DEF PurgeCheck, OnlyThread, IInv, TypeOK
  <2>2. CASE Expired(t) /\ pc'[t] = "expired" /\ UNCHANGED cur
    <3>1. StampOf(t)'
      BY <2>1, <2>2 DEF StampInv, StampOf, Expired
    <3> QED BY <1>1, <2>1, <3>1, KeptStep
  <2>3. CASE pc'[t] = "purge"
    BY <1>1, <1>3, <2>1, <2>3, KeptStep
  <2> QED BY <1>10, <2>1, <2>2, <2>3 DEF PurgeCheck, IInv, TypeOK
<1>11. CASE PurgeDestroy(t)
  <2>1. /\ OnlyThread(t) /\ UNCHANGED <<req, expiry, now>> /\ pc'[t] = "purge"
        /\ cur[t] \in Cells /\ serdes_schema_destroy0(cur[t])
    BY <1>11 DEF PurgeDestroy, OnlyThread, IInv, TypeOK, LocalsInv
  <2> QED BY <1>3, <2>1, KeptStep, DestroyKeepsStamps
<1>12. CASE TeardownNext(t)
  <2>1. /\ UNCHANGED <<pc, cur, req, expiry, now>> /\ pc[t] = "teardown"
        /\ First(sd_schemas) \in Cells /\ serdes_schema_destroy0(First(sd_schemas))
    BY <1>12, LinkProperty DEF TeardownNext, IInv, TypeOK
  <2>2. OnlyThread(t)
    BY <2>1 DEF OnlyThread
  <2> QED BY <1>3, <2>1, <2>2, KeptStep, DestroyKeepsStamps
<1> QED
  BY <1>4, <1>5, <1>6, <1>7, <1>8, <1>9, <1>10, <1>11, <1>12, FetchOkStamps, MarkStamps
  DEF Step

\* A purge takes its limit from the clock when it is called, and the clock
\* does not go back.
LEMMA StampsNext ==
  ASSUME IInv, RInv, QInv, StampInv, [Next]_vars
  PROVE  StampInv'
<1>1. ASSUME NEW t \in Threads, Step(t) PROVE StampInv'
  BY <1>1, StepStamps
<1>2. ASSUME NEW t \in Threads, NEW r \in Requests, Call(t, r)
      PROVE  StampInv'
  <2>1. r.max_age \in Nat /\ now \in Nat
    BY CacheAssumption DEF Request, IInv, TypeOK
  <2>2. /\ OnlyThread(t) /\ UNCHANGED <<heap, now>>
        /\ pc'[t] \in {"lock", "teardown"} /\ req'[t] = r
        /\ expiry'[t] = IF r.op = "purge" THEN now - r.max_age ELSE 0
        /\ \A u \in Threads : u # t => expiry'[u] = expiry[u]
    BY <1>2 DEF Call, OnlyThread, IInv, TypeOK
  <2>3. StampOf(t)'
    BY <2>1, <2>2 DEF StampOf
  <2> QED BY <2>2, <2>3 DEF StampInv, StampOf, OnlyThread, Cells
<1>3. ASSUME NEW t \in Threads, NEW r \in Requests, NEW ss \in handed,
             CallDestroy(t, r, ss)
      PROVE  StampInv'
  <2>1. /\ OnlyThread(t) /\ UNCHANGED <<heap, expiry, now>>
        /\ pc'[t] = "lock" /\ req'[t].op = "destroy"
    BY <1>3 DEF CallDestroy, OnlyThread, IInv, TypeOK
  <2>2. StampOf(t)'
    BY <2>1 DEF StampOf
  <2> QED BY <2>1, <2>2, KeptStep DEF StampsKept, Cells
<1>4. ASSUME \/ \E ss \in handed : UseFreed(ss)
             \/ Tick
             \/ \E n \in Names, def \in Published : RegistryPublish(n, def)
             \/ UNCHANGED vars
      PROVE  StampInv'
  <2>1. UNCHANGED <<heap, pc, req, cur, expiry>> /\ now' \in {now, now + 1}
    BY <1>4 DEF UseFreed, Tick, RegistryPublish, vars, threadVars
  <2>2. ASSUME NEW t \in Threads PROVE StampOf(t)'
    <3>1. req[t].op = "purge" => req[t].max_age \in Nat
      BY CacheAssumption DEF Request, IInv, TypeOK, NoRequest
    <3>2. expiry[t] \in Int /\ now \in Nat
      BY DEF IInv, TypeOK
    <3> QED BY <2>1, <3>1, <3>2 DEF StampInv, StampOf
  <2> QED BY <2>1, <2>2 DEF StampInv, Cells
<1> QED BY <1>1, <1>2, <1>3, <1>4 DEF Next, Halt

\* A purge of a quiesced application spares what was stamped and returned at
\* most max_age ago: the stamp was older than the purge's limit when it was
\* compared, nobody has stamped the schema since, and time only went on.
THEOREM PurgeSpares ==
  ASSUME Quiesce
  PROVE  Spec => PurgeSparesMarked
<1>1. Init => QInv /\ StampInv
  BY DEF Init, QInv, QuietOf, NoRequest, Exclusive, StampInv, StampOf, Cells
<1>2. IInv /\ RInv /\ QInv /\ StampInv /\ [Next]_vars => (QInv /\ StampInv)'
  BY QuietNext, StampsNext
<1>3. IInv /\ RInv /\ StampInv =>
        \A t \in Threads : \A c \in PurgedBy(t) :
          heap[c].t_last_used # 0 => heap[c].t_handed + req[t].max_age < now
  <2> SUFFICES ASSUME IInv, RInv, StampInv, NEW t \in Threads, NEW c \in Cells,
                      pc[t] = "expired", cur[t] = c, heap[c].t_last_used # 0
               PROVE  heap[c].t_handed + req[t].max_age < now
    BY DEF PurgedBy
  <2>1. req[t].op = "purge" /\ req[t].max_age \in Nat
    BY CacheAssumption DEF RInv, CallInv, CallOf, Request
  <2>2. heap[c].t_handed < expiry[t] /\ expiry[t] + req[t].max_age <= now
    BY <2>1 DEF StampInv, StampOf
  <2>3. heap[c] \in Schema
    BY ElementOfSeq DEF IInv, TypeOK, Cells
  <2>4. heap[c].t_handed \in Nat /\ expiry[t] \in Int /\ now \in Nat
    BY <2>3 DEF Schema, IInv, TypeOK
  <2> QED BY <2>1, <2>2, <2>4
<1> QED BY <1>1, <1>2, <1>3, RInvariant, PTL DEF Spec, PurgeSparesMarked
=============================================================================
