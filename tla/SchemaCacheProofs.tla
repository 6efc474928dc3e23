------------------------- MODULE SchemaCacheProofs -------------------------
(***************************************************************************)
(* Proofs about SchemaCache for every number of threads, calls, schemas    *)
(* and registry ids.                                                       *)
(***************************************************************************)
EXTENDS SchemaCache, TLAPS, SequenceTheorems, WellFoundedInduction

-----------------------------------------------------------------------------
(***************************************************************************)
(* The inductive invariant.                                                *)
(***************************************************************************)

\* A thread owns sd_lock exactly in the regions of the code that hold it.
LockInv == \A t \in Threads : sd_lock = t <=> pc[t] \in LockedPcs

\* What the locals of a call mean at each point of the code.
LocalsInv ==
  \A t \in Threads :
    /\ pc[t] \in {"add0", "fetch", "store"} =>
          req[t] \in Requests /\ req[t].op \in {"get", "add"}
    /\ pc[t] \in {"fetch", "store"} =>
          /\ cur[t] \in Cells
          /\ heap[cur[t]].st = "live"
          /\ ~heap[cur[t]].linked
          /\ ~heap[cur[t]].assigned
    /\ pc[t] = "store" => heap[cur[t]].obj /\ heap[cur[t]].def \in Text
    /\ pc[t] = "mark" => cur[t] \in Cells
    /\ pc[t] = "lock" /\ req[t].op = "destroy" => cur[t] \in Cells
    /\ pc[t] = "purge" => cur[t] \in sd_schemas \cup {0}
    /\ pc[t] = "expired" => cur[t] \in sd_schemas

\* Does the lookup of request r return cell c?
Matches(c, r) == IF r.op = "get" THEN heap[c].id = r.id ELSE heap[c].def = r.def

\* LookupStillCurrent without First: the lookup matches no cached schema.
MissInv ==
  \A t \in Threads : pc[t] \in {"add0", "fetch", "store"} =>
    \A c \in sd_schemas : ~Matches(c, req[t])

IInv ==
  /\ TypeOK
  /\ LockInv
  /\ LocalsInv
  /\ ListIntegrity
  /\ NoOrphan
  /\ MissInv
  /\ AgreesWithRegistry
-----------------------------------------------------------------------------
(***************************************************************************)
(* The list: First returns the largest element of a set of cells.          *)
(***************************************************************************)

\* A nonempty set of naturals has a least element.
LEMMA LeastNat ==
  ASSUME NEW T, T \subseteq Nat, T # {}
  PROVE  \E x \in T : \A y \in T : x <= y
<1> DEFINE R == OpToRel(<, Nat)
<1>1. IsWellFoundedOn(R, Nat)
  BY NatLessThanWellFounded, Zenon
<1>2. PICK x \in T : \A y \in T : ~(<<y, x>> \in R)
  <2> HIDE DEF R
  <2> QED BY <1>1, WFMin
<1>3. \A y \in T : y < x => <<y, x>> \in R
  BY Zenon DEF OpToRel
<1>4. \A y \in T : ~(y < x)
  <2> HIDE DEF R
  <2> QED BY <1>2, <1>3
<1> HIDE DEF R
<1> QED BY <1>4

\* A nonempty set of cells has a largest element: mirror it at n.
LEMMA GreatestCell ==
  ASSUME NEW n \in Nat, NEW S, S \subseteq 1 .. n, S # {}
  PROVE  \E c \in S : \A d \in S : d <= c
<1> DEFINE T == {x \in Nat : \E c \in S : x = n - c}
<1>1. T \subseteq Nat /\ T # {}
  <2>1. PICK c \in S : TRUE
    OBVIOUS
  <2>2. n - c \in T
    OBVIOUS
  <2> QED BY <2>2
<1>2. PICK x \in T : \A y \in T : x <= y
  BY <1>1, LeastNat
<1>3. PICK c \in S : x = n - c
  OBVIOUS
<1>4. ASSUME NEW d \in S PROVE d <= c
  <2>1. n - d \in T
    OBVIOUS
  <2> QED BY <1>2, <1>3, <2>1
<1> QED BY <1>4

\* First returns NULL for an empty list and else a schema of the list.
LEMMA FirstProperty ==
  ASSUME NEW n \in Nat, NEW S, S \subseteq 1 .. n
  PROVE  /\ S = {} => First(S) = 0
         /\ S # {} => First(S) \in S
         /\ First(S) = 0 => S = {}
<1>1. CASE S = {}
  BY <1>1 DEF First
<1>2. CASE S # {}
  <2>1. \E c \in S : \A d \in S : d <= c
    BY <1>2, GreatestCell
  <2>2. First(S) \in S
    BY <1>2, <2>1 DEF First
  <2>3. First(S) # 0
    BY <2>2
  <2> QED BY <1>2, <2>2, <2>3
<1> QED BY <1>1, <1>2

\* A lookup returns NULL exactly when it matches no cached schema, and else
\* a cached schema that matches.
LEMMA LookupProperty ==
  ASSUME TypeOK, NEW r
  PROVE  /\ Lookup(r) = 0 <=> \A c \in sd_schemas : ~Matches(c, r)
         /\ Lookup(r) # 0 => Lookup(r) \in sd_schemas
<1> DEFINE S1 == {c \in sd_schemas : heap[c].id = r.id}
           S2 == {c \in sd_schemas : heap[c].def = r.def}
<1>1. Len(heap) \in Nat /\ S1 \subseteq 1 .. Len(heap) /\ S2 \subseteq 1 .. Len(heap)
  BY LenProperties DEF TypeOK, Cells
<1>2. /\ First(S1) = 0 <=> S1 = {}
      /\ First(S1) # 0 => First(S1) \in S1
      /\ First(S2) = 0 <=> S2 = {}
      /\ First(S2) # 0 => First(S2) \in S2
  <2> HIDE DEF S1, S2
  <2> QED BY <1>1, FirstProperty
<1>3. CASE r.op = "get"
  <2>1. Lookup(r) = First(S1)
    BY <1>3 DEF Lookup, serdes_schema_find_by_id
  <2> QED BY <1>2, <1>3, <2>1 DEF Matches
<1>4. CASE r.op # "get"
  <2>1. Lookup(r) = First(S2)
    BY <1>4 DEF Lookup, serdes_schema_find_by_definition
  <2> QED BY <1>2, <1>4, <2>1 DEF Matches
<1> QED BY <1>3, <1>4
-----------------------------------------------------------------------------
(***************************************************************************)
(* What a step does to the heap, the list and the registry.                *)
(***************************************************************************)

\* The schema ss becomes v.
Changed(ss, v) ==
  /\ heap' \in Seq(Schema)
  /\ Cells' = Cells
  /\ heap'[ss] = v
  /\ \A c \in Cells : c # ss => heap'[c] = heap[c]

\* The schema v is allocated at n.
Allocated(n, v) ==
  /\ heap' \in Seq(Schema)
  /\ Cells' = Cells \cup {n}
  /\ n \notin Cells
  /\ n \in Nat
  /\ heap'[n] = v
  /\ \A c \in Cells : heap'[c] = heap[c]

\* The schema ss is freed and no longer in the list.
Destroyed(ss) ==
  /\ heap' \in Seq(Schema)
  /\ Cells' = Cells
  /\ heap'[ss].st = "freed"
  /\ ~heap'[ss].linked
  /\ \A c \in Cells : c # ss => heap'[c] = heap[c]
  /\ sd_schemas' = sd_schemas \ {ss}

\* The registry forgets nothing.
RegistryGrows ==
  /\ reg_schemas' \in Seq(Text)
  /\ reg_latest' \in [Names -> Nat]
  /\ \A i \in DOMAIN reg_schemas :
        i \in DOMAIN reg_schemas' /\ reg_schemas'[i] = reg_schemas[i]

\* Assigning one schema, and appending one, keep the heap well-formed.
LEMMA UpdateCell ==
  ASSUME TypeOK, NEW ss \in Cells, NEW v \in Schema,
         heap' = [heap EXCEPT ![ss] = v]
  PROVE  Changed(ss, v)
<1>1. heap \in Seq(Schema) /\ ss \in 1 .. Len(heap)
  BY DEF TypeOK, Cells
<1> QED BY <1>1, ExceptSeq DEF Cells, Changed

\* An allocation returns an address that was never in use.
LEMMA AppendCell ==
  ASSUME TypeOK, NEW v \in Schema, heap' = Append(heap, v)
  PROVE  Allocated(Len(heap) + 1, v)
<1>1. heap \in Seq(Schema) /\ Len(heap) \in Nat
  BY LenProperties DEF TypeOK
<1> QED BY <1>1, AppendProperties DEF Cells, Allocated

\* serdes_schema_destroy0 unlinks and frees, whether or not it was linked.
LEMMA Destroy0Property ==
  ASSUME IInv, NEW ss \in Cells, serdes_schema_destroy0(ss)
  PROVE  Destroyed(ss)
<1>1. heap[ss] \in Schema
  BY ElementOfSeq DEF IInv, TypeOK, Cells
<1>2. /\ Freed(heap[ss]) \in Schema
      /\ Freed(heap[ss]).st = "freed"
      /\ ~Freed(heap[ss]).linked
  BY <1>1 DEF Freed, Schema
<1>3. heap' = [heap EXCEPT ![ss] = Freed(heap[ss])]
  BY DEF serdes_schema_destroy0
<1>4. Changed(ss, Freed(heap[ss]))
  BY <1>2, <1>3, UpdateCell DEF IInv
<1>5. sd_schemas' = sd_schemas \ {ss}
  BY DEF serdes_schema_destroy0, IInv, ListIntegrity
<1> QED BY <1>2, <1>4, <1>5 DEF Changed, Destroyed

\* A schema that was posted can be found at the registry under its id.
LEMMA RegistryPostProperty ==
  ASSUME TypeOK, NEW name, NEW def \in Text, RegistryPost(name, def)
  PROVE  /\ RegistryGrows
         /\ RegistryId(def.sym) \in Nat
         /\ RegistryId(def.sym) \in DOMAIN reg_schemas'
         /\ reg_schemas'[RegistryId(def.sym)].sym = def.sym
<1> USE DEF RegistryGrows
<1> DEFINE id == RegistryId(def.sym)
<1>1. /\ reg_schemas \in Seq(Text)
      /\ Len(reg_schemas) \in Nat
      /\ DOMAIN reg_schemas = 1 .. Len(reg_schemas)
  BY LenProperties DEF TypeOK
<1>2. /\ id <= Len(reg_schemas) =>
           id \in DOMAIN reg_schemas /\ reg_schemas[id].sym = def.sym
      /\ id > Len(reg_schemas) => id = Len(reg_schemas) + 1
      /\ id \in Nat
  BY <1>1 DEF RegistryId
<1>3. reg_latest' \in [Names -> Nat]
  BY <1>2 DEF RegistryPost, TypeOK
<1>4. CASE id <= Len(reg_schemas)
  <2>0. ~(id > Len(reg_schemas))
    BY <1>1, <1>2, <1>4
  <2>1. reg_schemas' = reg_schemas
    BY <2>0, Zenon DEF RegistryPost
  <2> QED BY <1>1, <1>2, <1>3, <1>4, <2>1
<1>5. CASE id > Len(reg_schemas)
  <2>1. reg_schemas' = Append(reg_schemas, def)
    BY <1>5 DEF RegistryPost
  <2>2. /\ reg_schemas' \in Seq(Text)
        /\ Len(reg_schemas') = Len(reg_schemas) + 1
        /\ DOMAIN reg_schemas' = 1 .. Len(reg_schemas')
        /\ \A i \in 1 .. Len(reg_schemas) : reg_schemas'[i] = reg_schemas[i]
        /\ reg_schemas'[Len(reg_schemas) + 1] = def
    BY <1>1, <2>1, AppendProperties, LenProperties
  <2> QED BY <1>1, <1>2, <1>3, <1>5, <2>2
<1> QED BY <1>1, <1>2, <1>4, <1>5

\* Loading keeps the schema that the text denotes.
LEMMA LoadProperty ==
  ASSUME NEW def \in Text
  PROVE  serdes_schema_load(def) \in Text /\ serdes_schema_load(def).sym = def.sym
BY DEF Text, serdes_schema_load

\* The schema that serdes_schema_add0 allocates, without and with its load.
LEMMA NewSchemaProperty ==
  ASSUME NEW r \in Requests
  PROVE  /\ NewSchema(r) \in Schema
         /\ NewSchema(r).st = "live"
         /\ ~NewSchema(r).linked
         /\ NewSchema(r).assigned <=> r.def # NULL /\ r.id # NoId
         /\ r.def # NULL => /\ NewLoaded(r) \in Schema
                            /\ NewLoaded(r).st = "live"
                            /\ ~NewLoaded(r).linked
                            /\ NewLoaded(r).assigned <=> r.id # NoId
                            /\ NewLoaded(r).obj
                            /\ NewLoaded(r).def \in Text
                            /\ NewLoaded(r).id = r.id
<1>1. r \in Request
  BY CacheAssumption
<1>2. NewSchema(r) \in Schema
  BY <1>1 DEF Request, Schema, NewSchema
<1>3. ASSUME r.def # NULL PROVE serdes_schema_load(r.def) \in Text
  BY <1>1, <1>3, LoadProperty DEF Request
<1>4. ASSUME r.def # NULL PROVE NewLoaded(r) \in Schema
  BY <1>2, <1>3, <1>4 DEF NewLoaded, Schema
<1> QED BY <1>2, <1>3, <1>4 DEF NewSchema, NewLoaded

\* The links that the loops over the list follow lead to schemas in it.
LEMMA LinkProperty ==
  ASSUME NEW t \in Threads, TypeOK
  PROVE  /\ First(sd_schemas) \in sd_schemas \cup {0}
         /\ Next_link(cur[t]) \in (sd_schemas \ {cur[t]}) \cup {0}
         /\ sd_schemas # {} => First(sd_schemas) \in sd_schemas
<1> DEFINE S == {c \in sd_schemas : c < cur[t]}
<1>1. Len(heap) \in Nat /\ sd_schemas \subseteq 1 .. Len(heap) /\ S \subseteq 1 .. Len(heap)
  BY LenProperties DEF TypeOK, Cells
<1>2. First(S) \in S \cup {0}
  <2> HIDE DEF S
  <2> QED BY <1>1, FirstProperty
<1>3. \A c \in S : c # cur[t]
  BY <1>1
<1> QED BY <1>1, <1>2, <1>3, FirstProperty DEF Next_link

\* While t owns sd_lock, or nobody does, no other thread is in a locked region.
LEMMA OthersOutside ==
  ASSUME IInv, NEW t \in Threads, sd_lock \in {t, NULL}
  PROVE  \A u \in Threads : u # t => pc[u] \notin LockedPcs
BY CacheAssumption DEF IInv, LockInv

\* Only the thread that owns sd_lock can be building a schema.
LEMMA OwnOrphan ==
  ASSUME IInv, NEW t \in Threads, sd_lock \in {t, NULL}, NEW c \in Cells,
         heap[c].st = "live", ~heap[c].linked
  PROVE  pc[t] \in {"fetch", "store"} /\ c = cur[t]
BY CacheAssumption DEF IInv, NoOrphan

\* The list survives a step that links a loaded schema,
LEMMA LinkKeepsList ==
  ASSUME IInv, NEW ss \in Cells', NEW v,
         Changed(ss, v) \/ Allocated(ss, v), RegistryGrows,
         sd_schemas' = sd_schemas \cup {ss},
         v.linked, v.st = "live", v.obj, v.def \in Text, v.id # NoId,
         v.assigned \/ (v.id \in DOMAIN reg_schemas'
                          /\ v.def.sym = reg_schemas'[v.id].sym)
  PROVE  ListIntegrity' /\ AgreesWithRegistry'
<1>1. /\ heap'[ss] = v
      /\ Cells' = Cells \cup {ss}
      /\ \A c \in Cells : c # ss => heap'[c] = heap[c]
  BY DEF Changed, Allocated
<1>2. ListIntegrity'
  BY <1>1 DEF IInv, TypeOK, ListIntegrity
<1>3. ASSUME NEW c \in sd_schemas', ~heap'[c].assigned
      PROVE  /\ heap'[c].id \in DOMAIN reg_schemas'
             /\ heap'[c].def.sym = reg_schemas'[heap'[c].id].sym
  <2>1. CASE c = ss
    BY <1>1, <1>3, <2>1
  <2>2. CASE c # ss
    <3>1. c \in sd_schemas /\ heap'[c] = heap[c]
      BY <1>1, <2>2 DEF IInv, TypeOK
    <3>2. /\ heap[c].id \in DOMAIN reg_schemas
          /\ heap[c].def.sym = reg_schemas[heap[c].id].sym
      BY <1>3, <3>1 DEF IInv, AgreesWithRegistry
    <3> QED BY <3>1, <3>2 DEF RegistryGrows
  <2> QED BY <2>1, <2>2
<1> QED BY <1>2, <1>3 DEF AgreesWithRegistry

\* one that destroys a schema,
LEMMA DestroyKeepsList ==
  ASSUME IInv, NEW ss \in Cells, Destroyed(ss), RegistryGrows
  PROVE  ListIntegrity' /\ AgreesWithRegistry'
<1>1. ListIntegrity'
  BY DEF IInv, TypeOK, ListIntegrity, Destroyed
<1>2. ASSUME NEW c \in sd_schemas', ~heap'[c].assigned
      PROVE  /\ heap'[c].id \in DOMAIN reg_schemas'
             /\ heap'[c].def.sym = reg_schemas'[heap'[c].id].sym
  <2>1. c \in sd_schemas /\ heap'[c] = heap[c]
    BY DEF IInv, TypeOK, Destroyed
  <2>2. /\ heap[c].id \in DOMAIN reg_schemas
        /\ heap[c].def.sym = reg_schemas[heap[c].id].sym
    BY <1>2, <2>1 DEF IInv, AgreesWithRegistry
  <2> QED BY <2>1, <2>2 DEF RegistryGrows
<1> QED BY <1>1, <1>2 DEF AgreesWithRegistry

\* and one that changes no field that it is about.
LEMMA SameKeepsList ==
  ASSUME IInv, RegistryGrows, Cells \subseteq Cells', UNCHANGED sd_schemas,
         \A c \in Cells' \ Cells : ~heap'[c].linked,
         \A c \in Cells : /\ heap'[c].st = heap[c].st
                          /\ heap'[c].id = heap[c].id
                          /\ heap'[c].def = heap[c].def
                          /\ heap'[c].obj = heap[c].obj
                          /\ heap'[c].linked = heap[c].linked
                          /\ heap'[c].assigned = heap[c].assigned
  PROVE  ListIntegrity' /\ AgreesWithRegistry'
<1>1. ListIntegrity'
  BY DEF IInv, TypeOK, ListIntegrity
<1>2. ASSUME NEW c \in sd_schemas', ~heap'[c].assigned
      PROVE  /\ heap'[c].id \in DOMAIN reg_schemas'
             /\ heap'[c].def.sym = reg_schemas'[heap'[c].id].sym
  <2>1. c \in Cells /\ c \in sd_schemas
    BY DEF IInv, TypeOK
  <2>2. /\ heap[c].id \in DOMAIN reg_schemas
        /\ heap[c].def.sym = reg_schemas[heap[c].id].sym
    BY <1>2, <2>1 DEF IInv, AgreesWithRegistry
  <2> QED BY <2>1, <2>2 DEF RegistryGrows
<1> QED BY <1>1, <1>2 DEF AgreesWithRegistry
-----------------------------------------------------------------------------
(***************************************************************************)
(* The actions that leave the heap, the list and the registry alone.       *)
(***************************************************************************)

\* The application enters the library,
LEMMA CallStep ==
  ASSUME IInv, NEW t \in Threads, NEW r \in Requests, Call(t, r)
  PROVE  IInv'
<1>a. expiry' \in [Threads -> Int]
  <2>1. r.max_age \in Nat /\ now \in Nat /\ expiry \in [Threads -> Int]
    BY CacheAssumption DEF Request, IInv, TypeOK
  <2> QED BY <2>1 DEF Call
<1>b. alive' \in BOOLEAN /\ calls' \in Nat /\ handed' \subseteq Cells
  BY DEF Call, IInv, TypeOK
<1> USE DEF IInv, Cells, Call, Return, threadVars, regVars, appVars
<1>1. TypeOK'
  BY CacheAssumption, <1>a, <1>b DEF TypeOK, Pcs
<1>2. LockInv'
  BY CacheAssumption DEF TypeOK, LockInv, LockedPcs
<1>3. LocalsInv'
  BY CacheAssumption, <1>a, <1>b DEF TypeOK, LocalsInv, NoRequest
<1>4. ListIntegrity' /\ AgreesWithRegistry'
  BY DEF ListIntegrity, AgreesWithRegistry
<1>5. NoOrphan'
  BY CacheAssumption DEF TypeOK, NoOrphan, LockInv, LockedPcs
<1>6. MissInv'
  BY CacheAssumption, <1>a, <1>b DEF TypeOK, MissInv, Matches
<1> QED BY <1>1, <1>2, <1>3, <1>4, <1>5, <1>6

\* with a schema to destroy,
LEMMA CallDestroyStep ==
  ASSUME IInv, NEW t \in Threads, NEW r \in Requests,
         NEW ss \in handed, CallDestroy(t, r, ss)
  PROVE  IInv'
<1> USE DEF IInv, Cells, CallDestroy, Return, threadVars, regVars, appVars
<1>1. TypeOK'
  BY CacheAssumption DEF TypeOK, Pcs
<1>2. LockInv'
  BY CacheAssumption DEF TypeOK, LockInv, LockedPcs
<1>3. LocalsInv'
  BY CacheAssumption DEF TypeOK, LocalsInv, NoRequest
<1>4. ListIntegrity' /\ AgreesWithRegistry'
  BY DEF ListIntegrity, AgreesWithRegistry
<1>5. NoOrphan'
  BY CacheAssumption DEF TypeOK, NoOrphan, LockInv, LockedPcs
<1>6. MissInv'
  BY CacheAssumption DEF TypeOK, MissInv, Matches
<1> QED BY <1>1, <1>2, <1>3, <1>4, <1>5, <1>6

\* or uses a dangling pointer.
LEMMA UseFreedStep ==
  ASSUME IInv, NEW ss \in handed, UseFreed(ss)
  PROVE  IInv'
<1> USE DEF IInv, Cells, UseFreed, Return, threadVars, regVars, appVars
<1>1. TypeOK'
  BY CacheAssumption DEF TypeOK, Pcs
<1>2. LockInv'
  BY CacheAssumption DEF TypeOK, LockInv, LockedPcs
<1>3. LocalsInv'
  BY CacheAssumption DEF TypeOK, LocalsInv, NoRequest
<1>4. ListIntegrity' /\ AgreesWithRegistry'
  BY DEF ListIntegrity, AgreesWithRegistry
<1>5. NoOrphan'
  BY CacheAssumption DEF TypeOK, NoOrphan, LockInv, LockedPcs
<1>6. MissInv'
  BY CacheAssumption DEF TypeOK, MissInv, Matches
<1> QED BY <1>1, <1>2, <1>3, <1>4, <1>5, <1>6

\* A lookup finds a schema of the list,
LEMMA LookupHitStep ==
  ASSUME IInv, NEW t \in Threads, LookupHit(t)
  PROVE  IInv'
<1>a. Lookup(req[t]) \in sd_schemas
  BY LookupProperty DEF IInv, LookupHit
<1> USE DEF IInv, Cells, LookupHit, Return, threadVars, regVars, appVars
<1>1. TypeOK'
  BY CacheAssumption, <1>a DEF TypeOK, Pcs
<1>2. LockInv'
  BY CacheAssumption DEF TypeOK, LockInv, LockedPcs
<1>3. LocalsInv'
  BY CacheAssumption, <1>a DEF TypeOK, LocalsInv, NoRequest
<1>4. ListIntegrity' /\ AgreesWithRegistry'
  BY DEF ListIntegrity, AgreesWithRegistry
<1>5. NoOrphan'
  BY CacheAssumption DEF TypeOK, NoOrphan, LockInv, LockedPcs
<1>6. MissInv'
  BY CacheAssumption, <1>a DEF TypeOK, MissInv, Matches
<1> QED BY <1>1, <1>2, <1>3, <1>4, <1>5, <1>6

\* or none, and the thread keeps the lock.
LEMMA LookupMissStep ==
  ASSUME IInv, NEW t \in Threads, LookupMiss(t)
  PROVE  IInv'
<1>a. \A c \in sd_schemas : ~Matches(c, req[t])
  BY LookupProperty DEF IInv, LookupMiss
<1> USE DEF IInv, Cells, LookupMiss, Return, threadVars, regVars, appVars
<1>1. TypeOK'
  BY CacheAssumption, <1>a DEF TypeOK, Pcs
<1>2. LockInv'
  BY CacheAssumption DEF TypeOK, LockInv, LockedPcs
<1>3. LocalsInv'
  BY CacheAssumption, <1>a DEF TypeOK, LocalsInv, NoRequest
<1>4. ListIntegrity' /\ AgreesWithRegistry'
  BY DEF ListIntegrity, AgreesWithRegistry
<1>5. NoOrphan'
  BY CacheAssumption DEF TypeOK, NoOrphan, LockInv, LockedPcs
<1>6. MissInv'
  BY CacheAssumption, <1>a DEF TypeOK, MissInv, Matches
<1> QED BY <1>1, <1>2, <1>3, <1>4, <1>5, <1>6

\* serdes_schema_add0 refuses.
LEMMA Add0RejectStep ==
  ASSUME IInv, NEW t \in Threads, Add0Reject(t)
  PROVE  IInv'
<1> USE DEF IInv, Cells, Add0Reject, Return, threadVars, regVars, appVars
<1>1. TypeOK'
  BY CacheAssumption DEF TypeOK, Pcs
<1>2. LockInv'
  BY CacheAssumption DEF TypeOK, LockInv, LockedPcs
<1>3. LocalsInv'
  BY CacheAssumption DEF TypeOK, LocalsInv, NoRequest
<1>4. ListIntegrity' /\ AgreesWithRegistry'
  BY DEF ListIntegrity, AgreesWithRegistry
<1>5. NoOrphan'
  BY CacheAssumption DEF TypeOK, NoOrphan, LockInv, LockedPcs
<1>6. MissInv'
  BY CacheAssumption DEF TypeOK, MissInv, Matches
<1> QED BY <1>1, <1>2, <1>3, <1>4, <1>5, <1>6

\* The schema to stamp is gone.
LEMMA MarkFreedStep ==
  ASSUME IInv, NEW t \in Threads, MarkFreed(t)
  PROVE  IInv'
<1> USE DEF IInv, Cells, MarkFreed, Return, threadVars, regVars, appVars
<1>1. TypeOK'
  BY CacheAssumption DEF TypeOK, Pcs
<1>2. LockInv'
  BY CacheAssumption DEF TypeOK, LockInv, LockedPcs
<1>3. LocalsInv'
  BY CacheAssumption DEF TypeOK, LocalsInv, NoRequest
<1>4. ListIntegrity' /\ AgreesWithRegistry'
  BY DEF ListIntegrity, AgreesWithRegistry
<1>5. NoOrphan'
  BY CacheAssumption DEF TypeOK, NoOrphan, LockInv, LockedPcs
<1>6. MissInv'
  BY CacheAssumption DEF TypeOK, MissInv, Matches
<1> QED BY <1>1, <1>2, <1>3, <1>4, <1>5, <1>6

\* The schema to destroy is gone.
LEMMA DestroyFreedStep ==
  ASSUME IInv, NEW t \in Threads, DestroyFreed(t)
  PROVE  IInv'
<1> USE DEF IInv, Cells, DestroyFreed, Return, threadVars, regVars, appVars
<1>1. TypeOK'
  BY CacheAssumption DEF TypeOK, Pcs
<1>2. LockInv'
  BY CacheAssumption DEF TypeOK, LockInv, LockedPcs
<1>3. LocalsInv'
  BY CacheAssumption DEF TypeOK, LocalsInv, NoRequest
<1>4. ListIntegrity' /\ AgreesWithRegistry'
  BY DEF ListIntegrity, AgreesWithRegistry
<1>5. NoOrphan'
  BY CacheAssumption DEF TypeOK, NoOrphan, LockInv, LockedPcs
<1>6. MissInv'
  BY CacheAssumption DEF TypeOK, MissInv, Matches
<1> QED BY <1>1, <1>2, <1>3, <1>4, <1>5, <1>6

\* A purge starts at the head of the list,
LEMMA PurgeBeginStep ==
  ASSUME IInv, NEW t \in Threads, PurgeBegin(t)
  PROVE  IInv'
<1>a. First(sd_schemas) \in sd_schemas \cup {0}
  BY LinkProperty DEF IInv
<1> USE DEF IInv, Cells, PurgeBegin, Return, threadVars, regVars, appVars
<1>1. TypeOK'
  BY CacheAssumption, <1>a DEF TypeOK, Pcs
<1>2. LockInv'
  BY CacheAssumption DEF TypeOK, LockInv, LockedPcs
<1>3. LocalsInv'
  BY CacheAssumption, <1>a DEF TypeOK, LocalsInv, NoRequest
<1>4. ListIntegrity' /\ AgreesWithRegistry'
  BY DEF ListIntegrity, AgreesWithRegistry
<1>5. NoOrphan'
  BY CacheAssumption DEF TypeOK, NoOrphan, LockInv, LockedPcs
<1>6. MissInv'
  BY CacheAssumption, <1>a DEF TypeOK, MissInv, Matches
<1> QED BY <1>1, <1>2, <1>3, <1>4, <1>5, <1>6

\* goes on to the next schema or keeps an expired one,
LEMMA PurgeCheckStep ==
  ASSUME IInv, NEW t \in Threads, PurgeCheck(t)
  PROVE  IInv'
<1>a. Next_link(cur[t]) \in sd_schemas \cup {0}
  BY LinkProperty DEF IInv
<1> USE DEF IInv, Cells, PurgeCheck, Return, threadVars, regVars, appVars
<1>1. TypeOK'
  BY CacheAssumption, <1>a DEF TypeOK, Pcs
<1>2. LockInv'
  BY CacheAssumption DEF TypeOK, LockInv, LockedPcs
<1>3. LocalsInv'
  BY CacheAssumption, <1>a DEF TypeOK, LocalsInv, NoRequest
<1>4. ListIntegrity' /\ AgreesWithRegistry'
  BY DEF ListIntegrity, AgreesWithRegistry
<1>5. NoOrphan'
  BY CacheAssumption DEF TypeOK, NoOrphan, LockInv, LockedPcs
<1>6. MissInv'
  BY CacheAssumption, <1>a DEF TypeOK, MissInv, Matches
<1> QED BY <1>1, <1>2, <1>3, <1>4, <1>5, <1>6

\* and ends.
LEMMA PurgeEndStep ==
  ASSUME IInv, NEW t \in Threads, PurgeEnd(t)
  PROVE  IInv'
<1> USE DEF IInv, Cells, PurgeEnd, Return, threadVars, regVars, appVars
<1>1. TypeOK'
  BY CacheAssumption DEF TypeOK, Pcs
<1>2. LockInv'
  BY CacheAssumption DEF TypeOK, LockInv, LockedPcs
<1>3. LocalsInv'
  BY CacheAssumption DEF TypeOK, LocalsInv, NoRequest
<1>4. ListIntegrity' /\ AgreesWithRegistry'
  BY DEF ListIntegrity, AgreesWithRegistry
<1>5. NoOrphan'
  BY CacheAssumption DEF TypeOK, NoOrphan, LockInv, LockedPcs
<1>6. MissInv'
  BY CacheAssumption DEF TypeOK, MissInv, Matches
<1> QED BY <1>1, <1>2, <1>3, <1>4, <1>5, <1>6

\* serdes_destroy ends.
LEMMA TeardownEndStep ==
  ASSUME IInv, NEW t \in Threads, TeardownEnd(t)
  PROVE  IInv'
<1> USE DEF IInv, Cells, TeardownEnd, Return, threadVars, regVars, appVars
<1>1. TypeOK'
  BY CacheAssumption DEF TypeOK, Pcs
<1>2. LockInv'
  BY CacheAssumption DEF TypeOK, LockInv, LockedPcs
<1>3. LocalsInv'
  BY CacheAssumption DEF TypeOK, LocalsInv, NoRequest
<1>4. ListIntegrity' /\ AgreesWithRegistry'
  BY DEF ListIntegrity, AgreesWithRegistry
<1>5. NoOrphan'
  BY CacheAssumption DEF TypeOK, NoOrphan, LockInv, LockedPcs
<1>6. MissInv'
  BY CacheAssumption DEF TypeOK, MissInv, Matches
<1> QED BY <1>1, <1>2, <1>3, <1>4, <1>5, <1>6

\* Time passes, or nothing happens.
LEMMA TickStep ==
  ASSUME IInv, Tick \/ UNCHANGED vars
  PROVE  IInv'
<1> USE DEF IInv, Cells, Tick, vars, threadVars, regVars, appVars
<1>1. TypeOK'
  <2>1. now' \in Nat
    BY DEF TypeOK
  <2> QED BY <2>1 DEF TypeOK
<1>2. LockInv' /\ LocalsInv'
  BY DEF LockInv, LocalsInv
<1>3. ListIntegrity' /\ NoOrphan'
  BY DEF ListIntegrity, NoOrphan
<1>4. MissInv' /\ AgreesWithRegistry'
  BY DEF MissInv, Matches, AgreesWithRegistry
<1> QED BY <1>1, <1>2, <1>3, <1>4
-----------------------------------------------------------------------------
(***************************************************************************)
(* The actions that allocate, link, stamp or destroy a schema.             *)
(***************************************************************************)

\* A definition with an id is loaded and linked at once.
LEMMA Add0AssignStep ==
  ASSUME IInv, NEW t \in Threads, Add0Assign(t)
  PROVE  IInv'
<1> DEFINE v == [NewLoaded(req[t]) EXCEPT !.linked = TRUE]
           n == Len(heap) + 1
<1>a. /\ pc[t] = "add0"
      /\ req[t] \in Requests /\ req[t].id # NoId /\ req[t].def # NULL
  BY DEF IInv, LocalsInv, Add0Assign, NeedsRegistry
<1>b. /\ v \in Schema
      /\ v.st = "live" /\ v.linked /\ v.obj /\ v.def \in Text /\ v.assigned
      /\ v.id # NoId
  BY <1>a, NewSchemaProperty DEF Schema, NewLoaded, NewSchema
<1>c. Allocated(n, v)
  <2>1. heap' = Append(heap, v)
    BY DEF Add0Assign
  <2>2. TypeOK /\ v \in Schema
    BY <1>b DEF IInv
  <2> HIDE DEF v
  <2> QED BY <2>1, <2>2, AppendCell
<1>d. /\ pc' = [pc EXCEPT ![t] = "mark"]
      /\ cur' = [cur EXCEPT ![t] = n]
      /\ sd_schemas' = sd_schemas \cup {n}
      /\ sd_lock' = NULL
  BY DEF Add0Assign, regVars, appVars
<1>e. UNCHANGED <<req, expiry, url_cnt, reg_schemas, reg_latest, now, handed,
                  fault, alive, calls>>
  BY DEF Add0Assign, regVars, appVars
<1>r. RegistryGrows
  BY <1>e DEF RegistryGrows, IInv, TypeOK
<1>y. sd_lock \in {t, NULL}
  BY <1>a DEF IInv, LockInv, LockedPcs
<1>z. \A u \in Threads : u # t => pc[u] \notin LockedPcs
  BY <1>y, OthersOutside
<1>o. \A c \in Cells : heap[c].st = "live" /\ ~heap[c].linked =>
        pc[t] \in {"fetch", "store"} /\ c = cur[t]
  BY <1>y, OwnOrphan
<1> HIDE DEF v, n
<1> USE DEF IInv, Allocated
<1>1. TypeOK'
  BY <1>a, <1>b, <1>c, <1>d, <1>e, <1>r DEF TypeOK, Pcs, RegistryGrows
<1>2. LockInv'
  BY CacheAssumption, <1>a, <1>b, <1>c, <1>d, <1>e, <1>r DEF TypeOK, LockInv, LockedPcs
<1>3. LocalsInv'
  BY <1>a, <1>b, <1>c, <1>d, <1>e, <1>r, <1>z DEF TypeOK, LocalsInv, LockedPcs
<1>4. ListIntegrity' /\ AgreesWithRegistry'
  BY <1>b, <1>c, <1>d, <1>r, LinkKeepsList
<1>5. NoOrphan'
  BY <1>a, <1>b, <1>c, <1>d, <1>e, <1>r, <1>o DEF NoOrphan, TypeOK
<1>6. MissInv'
  BY <1>a, <1>b, <1>c, <1>d, <1>e, <1>r, <1>z DEF TypeOK, MissInv, Matches, LockedPcs
<1> QED BY <1>1, <1>2, <1>3, <1>4, <1>5, <1>6

\* A definition without an id is loaded and going to be stored.
LEMMA Add0StoreStep ==
  ASSUME IInv, NEW t \in Threads, Add0Store(t)
  PROVE  IInv'
<1> DEFINE v == NewLoaded(req[t])
           n == Len(heap) + 1
<1>a. /\ pc[t] = "add0"
      /\ req[t] \in Requests /\ req[t].id = NoId /\ req[t].def # NULL
  BY DEF IInv, LocalsInv, Add0Store, NeedsRegistry
<1>b. /\ v \in Schema
      /\ v.st = "live" /\ ~v.linked /\ v.obj /\ v.def \in Text /\ ~v.assigned
  BY <1>a, NewSchemaProperty
<1>c. Allocated(n, v)
  <2>1. heap' = Append(heap, v)
    BY DEF Add0Store
  <2>2. TypeOK /\ v \in Schema
    BY <1>b DEF IInv
  <2> HIDE DEF v
  <2> QED BY <2>1, <2>2, AppendCell
<1>d. /\ pc' = [pc EXCEPT ![t] = "store"]
      /\ cur' = [cur EXCEPT ![t] = n]
      /\ UNCHANGED <<sd_schemas, sd_lock>>
  BY DEF Add0Store, regVars, appVars
<1>e. UNCHANGED <<req, expiry, url_cnt, reg_schemas, reg_latest, now, handed,
                  fault, alive, calls>>
  BY DEF Add0Store, regVars, appVars
<1>r. RegistryGrows
  BY <1>e DEF RegistryGrows, IInv, TypeOK
<1>y. sd_lock \in {t, NULL}
  BY <1>a DEF IInv, LockInv, LockedPcs
<1>z. \A u \in Threads : u # t => pc[u] \notin LockedPcs
  BY <1>y, OthersOutside
<1>o. \A c \in Cells : heap[c].st = "live" /\ ~heap[c].linked =>
        pc[t] \in {"fetch", "store"} /\ c = cur[t]
  BY <1>y, OwnOrphan
<1> HIDE DEF v, n
<1> USE DEF IInv, Allocated
<1>1. TypeOK'
  BY <1>a, <1>b, <1>c, <1>d, <1>e, <1>r DEF TypeOK, Pcs, RegistryGrows
<1>2. LockInv'
  BY CacheAssumption, <1>a, <1>b, <1>c, <1>d, <1>e, <1>r DEF TypeOK, LockInv, LockedPcs
<1>3. LocalsInv'
  BY <1>a, <1>b, <1>c, <1>d, <1>e, <1>r, <1>z DEF TypeOK, LocalsInv, LockedPcs
<1>4. ListIntegrity' /\ AgreesWithRegistry'
  BY <1>b, <1>c, <1>d, <1>r, SameKeepsList
<1>5. NoOrphan'
  <2>1. sd_lock = t
    BY <1>a DEF LockInv, LockedPcs
  <2>2. ASSUME NEW c \in Cells, heap'[c].st = "live", ~heap'[c].linked
        PROVE  FALSE
    BY <1>a, <1>c, <1>o, <2>2
  <2>3. sd_lock' = t /\ pc'[t] \in {"fetch", "store"} /\ cur'[t] = n
    BY <1>d, <2>1 DEF TypeOK
  <2> QED BY <1>c, <2>2, <2>3 DEF NoOrphan
<1>6. MissInv'
  BY <1>a, <1>b, <1>c, <1>d, <1>e, <1>r, <1>z DEF TypeOK, MissInv, Matches, LockedPcs
<1> QED BY <1>1, <1>2, <1>3, <1>4, <1>5, <1>6

\* No definition: an empty schema is allocated and going to be fetched.
LEMMA Add0FetchStep ==
  ASSUME IInv, NEW t \in Threads, Add0Fetch(t)
  PROVE  IInv'
<1> DEFINE v == NewSchema(req[t])
           n == Len(heap) + 1
<1>a. /\ pc[t] = "add0"
      /\ req[t] \in Requests /\ req[t].def = NULL
  BY DEF IInv, LocalsInv, Add0Fetch, NeedsRegistry
<1>b. v \in Schema /\ v.st = "live" /\ ~v.linked /\ ~v.assigned
  BY <1>a, NewSchemaProperty
<1>c. Allocated(n, v)
  <2>1. heap' = Append(heap, v)
    BY DEF Add0Fetch
  <2>2. TypeOK /\ v \in Schema
    BY <1>b DEF IInv
  <2> HIDE DEF v
  <2> QED BY <2>1, <2>2, AppendCell
<1>d. /\ pc' = [pc EXCEPT ![t] = "fetch"]
      /\ cur' = [cur EXCEPT ![t] = n]
      /\ UNCHANGED <<sd_schemas, sd_lock>>
  BY DEF Add0Fetch, regVars, appVars
<1>e. UNCHANGED <<req, expiry, url_cnt, reg_schemas, reg_latest, now, handed,
                  fault, alive, calls>>
  BY DEF Add0Fetch, regVars, appVars
<1>r. RegistryGrows
  BY <1>e DEF RegistryGrows, IInv, TypeOK
<1>y. sd_lock \in {t, NULL}
  BY <1>a DEF IInv, LockInv, LockedPcs
<1>z. \A u \in Threads : u # t => pc[u] \notin LockedPcs
  BY <1>y, OthersOutside
<1>o. \A c \in Cells : heap[c].st = "live" /\ ~heap[c].linked =>
        pc[t] \in {"fetch", "store"} /\ c = cur[t]
  BY <1>y, OwnOrphan
<1> HIDE DEF v, n
<1> USE DEF IInv, Allocated
<1>1. TypeOK'
  BY <1>a, <1>b, <1>c, <1>d, <1>e, <1>r DEF TypeOK, Pcs, RegistryGrows
<1>2. LockInv'
  BY CacheAssumption, <1>a, <1>b, <1>c, <1>d, <1>e, <1>r DEF TypeOK, LockInv, LockedPcs
<1>3. LocalsInv'
  BY <1>a, <1>b, <1>c, <1>d, <1>e, <1>r, <1>z DEF TypeOK, LocalsInv, LockedPcs
<1>4. ListIntegrity' /\ AgreesWithRegistry'
  BY <1>b, <1>c, <1>d, <1>r, SameKeepsList
<1>5. NoOrphan'
  <2>1. sd_lock = t
    BY <1>a DEF LockInv, LockedPcs
  <2>2. ASSUME NEW c \in Cells, heap'[c].st = "live", ~heap'[c].linked
        PROVE  FALSE
    BY <1>a, <1>c, <1>o, <2>2
  <2>3. sd_lock' = t /\ pc'[t] \in {"fetch", "store"} /\ cur'[t] = n
    BY <1>d, <2>1 DEF TypeOK
  <2> QED BY <1>c, <2>2, <2>3 DEF NoOrphan
<1>6. MissInv'
  BY <1>a, <1>b, <1>c, <1>d, <1>e, <1>r, <1>z DEF TypeOK, MissInv, Matches, LockedPcs
<1> QED BY <1>1, <1>2, <1>3, <1>4, <1>5, <1>6

\* The registry answers with an id: the schema is linked.
LEMMA StoreOkStep ==
  ASSUME IInv, NEW t \in Threads, StoreOk(t)
  PROVE  IInv'
<1> DEFINE ss == cur[t]
           v == Stored(heap[ss])
<1>a. /\ pc[t] = "store"
      /\ ss \in Cells
      /\ heap[ss] \in Schema
      /\ heap[ss].st = "live" /\ heap[ss].obj /\ heap[ss].def \in Text
      /\ ~heap[ss].linked /\ ~heap[ss].assigned
  BY ElementOfSeq DEF IInv, TypeOK, LocalsInv, StoreOk, Cells
<1>b. /\ RegistryGrows
      /\ RegistryId(heap[ss].def.sym) \in Nat
      /\ RegistryId(heap[ss].def.sym) \in DOMAIN reg_schemas'
      /\ reg_schemas'[RegistryId(heap[ss].def.sym)].sym = heap[ss].def.sym
  <2>1. RegistryPost(req[t].name, heap[ss].def)
    BY DEF StoreOk
  <2> QED BY <1>a, <2>1, RegistryPostProperty DEF IInv
<1>c. /\ v \in Schema
      /\ v.st = "live" /\ v.linked /\ v.obj /\ v.def \in Text
      /\ v.id # NoId
      /\ v.id \in DOMAIN reg_schemas' /\ v.def.sym = reg_schemas'[v.id].sym
  <2> DEFINE id == RegistryId(heap[ss].def.sym)
  <2>1. v = [heap[ss] EXCEPT !.id = id, !.linked = TRUE]
    BY DEF Stored
  <2>2. id \in Nat /\ id # NoId
    BY <1>b DEF NoId
  <2> HIDE DEF id, ss, v
  <2>3. /\ v \in Schema /\ v.id = id /\ v.linked
        /\ v.st = heap[ss].st /\ v.obj = heap[ss].obj /\ v.def = heap[ss].def
    BY <1>a, <2>1, <2>2 DEF Schema
  <2>4. id \in DOMAIN reg_schemas' /\ reg_schemas'[id].sym = heap[ss].def.sym
    BY <1>b DEF id
  <2> QED BY <1>a, <2>2, <2>3, <2>4
<1>d. Changed(ss, v)
  <2>1. heap' = [heap EXCEPT ![ss] = v]
    BY DEF StoreOk
  <2> HIDE DEF v, ss
  <2> QED BY <1>a, <1>c, <2>1, UpdateCell DEF IInv
<1>e. /\ pc' = [pc EXCEPT ![t] = "mark"]
      /\ sd_schemas' = sd_schemas \cup {ss}
      /\ sd_lock' = NULL
      /\ UNCHANGED <<req, cur, expiry, url_cnt, now, handed, fault, alive, calls>>
  BY DEF StoreOk, appVars
<1>y. sd_lock \in {t, NULL}
  BY <1>a DEF IInv, LockInv, LockedPcs
<1>z. \A u \in Threads : u # t => pc[u] \notin LockedPcs
  BY <1>y, OthersOutside
<1>o. \A c \in Cells : heap[c].st = "live" /\ ~heap[c].linked =>
        pc[t] \in {"fetch", "store"} /\ c = cur[t]
  BY <1>y, OwnOrphan
<1> HIDE DEF v
<1> USE DEF IInv, Changed
<1>1. TypeOK'
  BY <1>a, <1>b, <1>c, <1>d, <1>e DEF TypeOK, Pcs, RegistryGrows
<1>2. LockInv'
  BY CacheAssumption, <1>a, <1>b, <1>c, <1>d, <1>e DEF TypeOK, LockInv, LockedPcs
<1>3. LocalsInv'
  BY <1>a, <1>b, <1>c, <1>d, <1>e, <1>z DEF TypeOK, LocalsInv, LockedPcs
<1>4. ListIntegrity' /\ AgreesWithRegistry'
  BY <1>a, <1>b, <1>c, <1>d, <1>e, LinkKeepsList
<1>5. NoOrphan'
  BY <1>a, <1>b, <1>c, <1>d, <1>e, <1>o DEF NoOrphan, TypeOK
<1>6. MissInv'
  BY <1>a, <1>b, <1>c, <1>d, <1>e, <1>z DEF TypeOK, MissInv, Matches, LockedPcs
<1> QED BY <1>1, <1>2, <1>3, <1>4, <1>5, <1>6

\* The registry answers with a definition: the schema is loaded and linked.
LEMMA FetchOkStep ==
  ASSUME IInv, NEW t \in Threads, FetchOk(t)
  PROVE  IInv'
<1> DEFINE ss == cur[t]
           id == FetchedId(req[t])
           v == [Fetched(heap[ss], id) EXCEPT
                   !.t_handed = IF req[t].op = "get" THEN now ELSE @]
<1>a. /\ pc[t] = "fetch"
      /\ ss \in Cells
      /\ heap[ss] \in Schema
      /\ heap[ss].st = "live" /\ ~heap[ss].linked /\ ~heap[ss].assigned
  BY ElementOfSeq DEF IInv, TypeOK, LocalsInv, FetchOk, Cells
<1>b. id \in DOMAIN reg_schemas /\ id \in Nat /\ reg_schemas[id] \in Text
  BY ElementOfSeq, LenProperties DEF IInv, TypeOK, FetchOk
<1>c. /\ v \in Schema
      /\ v.st = "live" /\ v.linked /\ v.obj /\ v.def \in Text
      /\ v.id # NoId
      /\ v.id \in DOMAIN reg_schemas /\ v.def.sym = reg_schemas[v.id].sym
  <2>1. /\ serdes_schema_load(reg_schemas[id]) \in Text
        /\ serdes_schema_load(reg_schemas[id]).sym = reg_schemas[id].sym
    BY <1>b, LoadProperty
  <2>2. now \in Nat
    BY DEF IInv, TypeOK
  <2> DEFINE d == serdes_schema_load(reg_schemas[id])
             h == IF req[t].op = "get" THEN now ELSE heap[ss].t_handed
  <2>3. h \in Nat
    BY <1>a, <2>2 DEF Schema
  <2>4. v = [heap[ss] EXCEPT !.id = id, !.def = d, !.obj = TRUE,
                             !.linked = TRUE, !.t_handed = h]
    BY <1>a DEF Fetched, Schema
  <2>5. id # NoId
    BY <1>b DEF NoId
  <2> HIDE DEF id, ss, v, d, h
  <2>6. /\ v \in Schema /\ v.id = id /\ v.linked /\ v.obj
        /\ v.st = heap[ss].st /\ v.def = d
    BY <1>a, <1>b, <2>1, <2>3, <2>4 DEF Schema, d
  <2> QED BY <1>a, <1>b, <2>1, <2>5, <2>6 DEF d
<1>d. Changed(ss, v)
  <2>1. heap' = [heap EXCEPT ![ss] = v]
    BY DEF FetchOk
  <2> HIDE DEF v, ss
  <2> QED BY <1>a, <1>c, <2>1, UpdateCell DEF IInv
<1>e. /\ sd_schemas' = sd_schemas \cup {ss}
      /\ sd_lock' = NULL
      /\ handed' = handed \/ handed' = handed \cup {ss}
      /\ UNCHANGED <<expiry, url_cnt, reg_schemas, reg_latest, now, fault,
                     alive, calls>>
  BY DEF FetchOk, regVars, appVars
<1>f. \/ /\ pc' = [pc EXCEPT ![t] = "mark"]
         /\ UNCHANGED <<req, cur>>
      \/ /\ pc' = [pc EXCEPT ![t] = "idle"]
         /\ req' = [req EXCEPT ![t] = NoRequest]
         /\ cur' = [cur EXCEPT ![t] = 0]
  BY DEF FetchOk, Return
<1>r. RegistryGrows
  BY <1>e DEF RegistryGrows, IInv, TypeOK
<1>y. sd_lock \in {t, NULL}
  BY <1>a DEF IInv, LockInv, LockedPcs
<1>z. \A u \in Threads : u # t => pc[u] \notin LockedPcs
  BY <1>y, OthersOutside
<1>o. \A c \in Cells : heap[c].st = "live" /\ ~heap[c].linked =>
        pc[t] \in {"fetch", "store"} /\ c = cur[t]
  BY <1>y, OwnOrphan
<1> HIDE DEF v, id
<1> USE DEF IInv, Changed
<1>1. TypeOK'
  BY <1>a, <1>b, <1>c, <1>d, <1>e, <1>f DEF TypeOK, Pcs, RegistryGrows
<1>2. LockInv'
  BY CacheAssumption, <1>a, <1>b, <1>c, <1>d, <1>e, <1>f DEF TypeOK, LockInv, LockedPcs
<1>3. LocalsInv'
  BY <1>a, <1>b, <1>c, <1>d, <1>e, <1>f, <1>z DEF TypeOK, LocalsInv, LockedPcs
<1>4. ListIntegrity' /\ AgreesWithRegistry'
  BY <1>a, <1>b, <1>c, <1>d, <1>e, <1>r, LinkKeepsList
<1>5. NoOrphan'
  BY <1>a, <1>b, <1>c, <1>d, <1>e, <1>f, <1>o DEF NoOrphan, TypeOK
<1>6. MissInv'
  <2>1. ASSUME NEW u \in Threads
        PROVE  pc'[u] \notin {"add0", "fetch", "store"}
    <3>1. CASE u = t
      BY <1>f, <3>1 DEF TypeOK
    <3>2. CASE u # t
      BY <1>f, <1>z, <3>2 DEF TypeOK, LockedPcs
    <3> QED BY <3>1, <3>2
  <2> QED BY <2>1 DEF MissInv
<1> QED BY <1>1, <1>2, <1>3, <1>4, <1>5, <1>6

\* The fetch fails: the schema under construction is destroyed.
LEMMA FetchFailStep ==
  ASSUME IInv, NEW t \in Threads, FetchFail(t)
  PROVE  IInv'
<1> DEFINE ss == cur[t]
<1>a. /\ pc[t] = "fetch"
      /\ ss \in Cells
      /\ serdes_schema_destroy0(ss)
  BY DEF IInv, LocalsInv, TypeOK, FetchFail
<1>b. Destroyed(ss)
  BY <1>a, Destroy0Property
<1>c. /\ pc' = [pc EXCEPT ![t] = "idle"]
      /\ req' = [req EXCEPT ![t] = NoRequest]
      /\ cur' = [cur EXCEPT ![t] = 0]
      /\ sd_lock' = NULL
      /\ UNCHANGED <<expiry, url_cnt, reg_schemas, reg_latest, now, handed,
                     fault, alive, calls>>
  BY DEF FetchFail, Return, regVars, appVars
<1>r. RegistryGrows
  BY <1>c DEF RegistryGrows, IInv, TypeOK
<1>y. sd_lock \in {t, NULL}
  BY <1>a DEF IInv, LockInv, LockedPcs
<1>z. \A u \in Threads : u # t => pc[u] \notin LockedPcs
  BY <1>y, OthersOutside
<1>o. \A c \in Cells : heap[c].st = "live" /\ ~heap[c].linked =>
        pc[t] \in {"fetch", "store"} /\ c = cur[t]
  BY <1>y, OwnOrphan
<1> USE DEF IInv, Destroyed
<1>1. TypeOK'
  BY <1>a, <1>b, <1>c, <1>r DEF TypeOK, Pcs, RegistryGrows
<1>2. LockInv'
  BY CacheAssumption, <1>a, <1>b, <1>c, <1>r DEF TypeOK, LockInv, LockedPcs
<1>3. LocalsInv'
  BY <1>a, <1>b, <1>c, <1>r, <1>z DEF TypeOK, LocalsInv, LockedPcs
<1>4. ListIntegrity' /\ AgreesWithRegistry'
  BY <1>a, <1>b, <1>r, DestroyKeepsList
<1>5. NoOrphan'
  BY <1>a, <1>b, <1>c, <1>r, <1>o DEF NoOrphan, TypeOK
<1>6. MissInv'
  BY <1>a, <1>b, <1>c, <1>r, <1>z DEF TypeOK, MissInv, Matches, LockedPcs
<1> QED BY <1>1, <1>2, <1>3, <1>4, <1>5, <1>6

\* The same for a store; the registry may have kept the schema.
LEMMA StoreFailStep ==
  ASSUME IInv, NEW t \in Threads, StoreFail(t)
  PROVE  IInv'
<1> DEFINE ss == cur[t]
<1>a. /\ pc[t] = "store"
      /\ ss \in Cells
      /\ serdes_schema_destroy0(ss)
  BY DEF IInv, LocalsInv, TypeOK, StoreFail
<1>b. Destroyed(ss)
  BY <1>a, Destroy0Property
<1>c. /\ pc' = [pc EXCEPT ![t] = "idle"]
      /\ req' = [req EXCEPT ![t] = NoRequest]
      /\ cur' = [cur EXCEPT ![t] = 0]
      /\ sd_lock' = NULL
      /\ UNCHANGED <<expiry, url_cnt, now, handed,
                     fault, alive, calls>>
  BY DEF StoreFail, Return, appVars
<1>r. RegistryGrows
  <2>1. CASE RegistryPost(req[t].name, heap[ss].def)
    <3>1. heap[ss].def \in Text
      BY <1>a DEF IInv, LocalsInv
    <3> QED BY <2>1, <3>1, RegistryPostProperty DEF IInv
  <2>2. CASE UNCHANGED regVars
    BY <2>2 DEF RegistryGrows, IInv, TypeOK, regVars
  <2> QED BY <2>1, <2>2 DEF StoreFail
<1>y. sd_lock \in {t, NULL}
  BY <1>a DEF IInv, LockInv, LockedPcs
<1>z. \A u \in Threads : u # t => pc[u] \notin LockedPcs
  BY <1>y, OthersOutside
<1>o. \A c \in Cells : heap[c].st = "live" /\ ~heap[c].linked =>
        pc[t] \in {"fetch", "store"} /\ c = cur[t]
  BY <1>y, OwnOrphan
<1> USE DEF IInv, Destroyed
<1>1. TypeOK'
  BY <1>a, <1>b, <1>c, <1>r DEF TypeOK, Pcs, RegistryGrows
<1>2. LockInv'
  BY CacheAssumption, <1>a, <1>b, <1>c, <1>r DEF TypeOK, LockInv, LockedPcs
<1>3. LocalsInv'
  BY <1>a, <1>b, <1>c, <1>r, <1>z DEF TypeOK, LocalsInv, LockedPcs
<1>4. ListIntegrity' /\ AgreesWithRegistry'
  BY <1>a, <1>b, <1>r, DestroyKeepsList
<1>5. NoOrphan'
  BY <1>a, <1>b, <1>c, <1>r, <1>o DEF NoOrphan, TypeOK
<1>6. MissInv'
  BY <1>a, <1>b, <1>c, <1>r, <1>z DEF TypeOK, MissInv, Matches, LockedPcs
<1> QED BY <1>1, <1>2, <1>3, <1>4, <1>5, <1>6

\* The application destroys a schema.
LEMMA serdes_schema_destroyStep ==
  ASSUME IInv, NEW t \in Threads, serdes_schema_destroy(t)
  PROVE  IInv'
<1> DEFINE ss == cur[t]
<1>a. /\ pc[t] = "lock"
      /\ sd_lock = NULL
      /\ ss \in Cells
      /\ serdes_schema_destroy0(ss)
  BY DEF IInv, LocalsInv, TypeOK, serdes_schema_destroy
<1>b. Destroyed(ss)
  BY <1>a, Destroy0Property
<1>c. /\ pc' = [pc EXCEPT ![t] = "idle"]
      /\ req' = [req EXCEPT ![t] = NoRequest]
      /\ cur' = [cur EXCEPT ![t] = 0]
      /\ UNCHANGED sd_lock
      /\ UNCHANGED <<expiry, url_cnt, reg_schemas, reg_latest, now, handed,
                     fault, alive, calls>>
  BY DEF serdes_schema_destroy, Return, regVars, appVars
<1>r. RegistryGrows
  BY <1>c DEF RegistryGrows, IInv, TypeOK
<1>y. sd_lock \in {t, NULL}
  BY <1>a DEF IInv, LockInv, LockedPcs
<1>z. \A u \in Threads : u # t => pc[u] \notin LockedPcs
  BY <1>y, OthersOutside
<1>o. \A c \in Cells : heap[c].st = "live" /\ ~heap[c].linked =>
        pc[t] \in {"fetch", "store"} /\ c = cur[t]
  BY <1>y, OwnOrphan
<1> USE DEF IInv, Destroyed
<1>1. TypeOK'
  BY <1>a, <1>b, <1>c, <1>r DEF TypeOK, Pcs, RegistryGrows
<1>2. LockInv'
  BY CacheAssumption, <1>a, <1>b, <1>c, <1>r DEF TypeOK, LockInv, LockedPcs
<1>3. LocalsInv'
  BY <1>a, <1>b, <1>c, <1>r, <1>z DEF TypeOK, LocalsInv, LockedPcs
<1>4. ListIntegrity' /\ AgreesWithRegistry'
  BY <1>a, <1>b, <1>r, DestroyKeepsList
<1>5. NoOrphan'
  BY <1>a, <1>b, <1>c, <1>r, <1>o DEF NoOrphan, TypeOK
<1>6. MissInv'
  BY <1>a, <1>b, <1>c, <1>r, <1>z DEF TypeOK, MissInv, Matches, LockedPcs
<1> QED BY <1>1, <1>2, <1>3, <1>4, <1>5, <1>6

\* A purge destroys an expired schema and goes on to the next.
LEMMA PurgeDestroyStep ==
  ASSUME IInv, NEW t \in Threads, PurgeDestroy(t)
  PROVE  IInv'
<1> DEFINE ss == cur[t]
<1>a. /\ pc[t] = "expired"
      /\ ss \in sd_schemas
      /\ ss \in Cells
      /\ serdes_schema_destroy0(ss)
  BY DEF IInv, LocalsInv, TypeOK, PurgeDestroy
<1>b. Destroyed(ss)
  BY <1>a, Destroy0Property
<1>c. /\ pc' = [pc EXCEPT ![t] = "purge"]
      /\ cur' = [cur EXCEPT ![t] = Next_link(ss)]
      /\ UNCHANGED <<sd_lock, req>>
      /\ UNCHANGED <<expiry, url_cnt, reg_schemas, reg_latest, now, handed,
                     fault, alive, calls>>
  BY DEF PurgeDestroy, regVars, appVars
<1>d. Next_link(ss) \in (sd_schemas \ {ss}) \cup {0}
  BY LinkProperty DEF IInv
<1>r. RegistryGrows
  BY <1>c DEF RegistryGrows, IInv, TypeOK
<1>y. sd_lock \in {t, NULL}
  BY <1>a DEF IInv, LockInv, LockedPcs
<1>z. \A u \in Threads : u # t => pc[u] \notin LockedPcs
  BY <1>y, OthersOutside
<1>o. \A c \in Cells : heap[c].st = "live" /\ ~heap[c].linked =>
        pc[t] \in {"fetch", "store"} /\ c = cur[t]
  BY <1>y, OwnOrphan
<1> USE DEF IInv, Destroyed
<1>1. TypeOK'
  BY <1>a, <1>b, <1>c, <1>r, <1>d DEF TypeOK, Pcs, RegistryGrows
<1>2. LockInv'
  BY CacheAssumption, <1>a, <1>b, <1>c, <1>r, <1>d DEF TypeOK, LockInv, LockedPcs
<1>3. LocalsInv'
  BY <1>a, <1>b, <1>c, <1>r, <1>d, <1>z DEF TypeOK, LocalsInv, LockedPcs
<1>4. ListIntegrity' /\ AgreesWithRegistry'
  BY <1>a, <1>b, <1>r, DestroyKeepsList
<1>5. NoOrphan'
  BY <1>a, <1>b, <1>c, <1>r, <1>d, <1>o DEF NoOrphan, TypeOK
<1>6. MissInv'
  BY <1>a, <1>b, <1>c, <1>r, <1>d, <1>z DEF TypeOK, MissInv, Matches, LockedPcs
<1> QED BY <1>1, <1>2, <1>3, <1>4, <1>5, <1>6

\* serdes_destroy destroys the first schema.
LEMMA TeardownNextStep ==
  ASSUME IInv, NEW t \in Threads, TeardownNext(t)
  PROVE  IInv'
<1> DEFINE ss == First(sd_schemas)
<1>a. /\ pc[t] = "teardown"
      /\ sd_lock = NULL
      /\ ss \in Cells
      /\ serdes_schema_destroy0(ss)
  BY LinkProperty DEF IInv, LocalsInv, TypeOK, TeardownNext
<1>b. Destroyed(ss)
  BY <1>a, Destroy0Property
<1>c. /\ UNCHANGED <<sd_lock, pc, req, cur>>
      /\ UNCHANGED <<expiry, url_cnt, reg_schemas, reg_latest, now, handed,
                     fault, alive, calls>>
  BY DEF TeardownNext, threadVars, regVars, appVars
<1>r. RegistryGrows
  BY <1>c DEF RegistryGrows, IInv, TypeOK
<1>y. sd_lock \in {t, NULL}
  BY <1>a DEF IInv, LockInv, LockedPcs
<1>z. \A u \in Threads : u # t => pc[u] \notin LockedPcs
  BY <1>y, OthersOutside
<1>o. \A c \in Cells : heap[c].st = "live" /\ ~heap[c].linked =>
        pc[t] \in {"fetch", "store"} /\ c = cur[t]
  BY <1>y, OwnOrphan
<1> HIDE DEF ss
<1> USE DEF IInv, Destroyed
<1>1. TypeOK'
  BY <1>a, <1>b, <1>c, <1>r DEF TypeOK, Pcs, RegistryGrows
<1>2. LockInv'
  BY CacheAssumption, <1>a, <1>b, <1>c, <1>r DEF TypeOK, LockInv, LockedPcs
<1>3. LocalsInv'
  BY <1>a, <1>b, <1>c, <1>r, <1>z DEF TypeOK, LocalsInv, LockedPcs
<1>4. ListIntegrity' /\ AgreesWithRegistry'
  BY <1>a, <1>b, <1>r, DestroyKeepsList
<1>5. NoOrphan'
  BY <1>a, <1>b, <1>c, <1>r, <1>o DEF NoOrphan, TypeOK
<1>6. MissInv'
  BY <1>a, <1>b, <1>c, <1>r, <1>z DEF TypeOK, MissInv, Matches, LockedPcs
<1> QED BY <1>1, <1>2, <1>3, <1>4, <1>5, <1>6

\* The schema is stamped and returned: no field of the invariant changes.
LEMMA serdes_schema_mark_usedStep ==
  ASSUME IInv, NEW t \in Threads, serdes_schema_mark_used(t)
  PROVE  IInv'
<1> DEFINE ss == cur[t]
           v == [heap[ss] EXCEPT !.t_last_used = now, !.t_handed = now]
<1>a. /\ pc[t] = "mark"
      /\ ss \in Cells
      /\ heap[ss] \in Schema
      /\ now \in Nat
  BY ElementOfSeq DEF IInv, TypeOK, LocalsInv, serdes_schema_mark_used, Cells
<1>b. /\ v \in Schema
      /\ v.st = heap[ss].st /\ v.id = heap[ss].id /\ v.def = heap[ss].def
      /\ v.obj = heap[ss].obj /\ v.linked = heap[ss].linked
      /\ v.assigned = heap[ss].assigned
  BY <1>a DEF Schema
<1>c. Changed(ss, v)
  <2>1. heap' = [heap EXCEPT ![ss] = v]
    BY DEF serdes_schema_mark_used
  <2> HIDE DEF v, ss
  <2> QED BY <1>a, <1>b, <2>1, UpdateCell DEF IInv
<1>d. /\ pc' = [pc EXCEPT ![t] = "idle"]
      /\ req' = [req EXCEPT ![t] = NoRequest]
      /\ cur' = [cur EXCEPT ![t] = 0]
      /\ handed' = handed \cup {ss}
      /\ UNCHANGED <<sd_lock, sd_schemas, expiry, url_cnt, reg_schemas,
                     reg_latest, now, fault, alive, calls>>
  BY DEF serdes_schema_mark_used, Return, regVars, appVars
<1> HIDE DEF v
<1>e. /\ heap' \in Seq(Schema)
      /\ Cells' = Cells
      /\ \A c \in Cells : /\ heap'[c].st = heap[c].st
                           /\ heap'[c].id = heap[c].id
                           /\ heap'[c].def = heap[c].def
                           /\ heap'[c].obj = heap[c].obj
                           /\ heap'[c].linked = heap[c].linked
                           /\ heap'[c].assigned = heap[c].assigned
  BY <1>b, <1>c DEF Changed
<1>r. RegistryGrows
  BY <1>d DEF RegistryGrows, IInv, TypeOK
<1> USE DEF IInv
<1>1. TypeOK'
  BY <1>a, <1>d, <1>e DEF TypeOK, Pcs
<1>2. LockInv'
  BY <1>a, <1>d DEF TypeOK, LockInv, LockedPcs
<1>3. LocalsInv'
  <2> SUFFICES ASSUME NEW u \in Threads, u # t
               PROVE  LocalsInv!(u)'
    BY <1>d DEF LocalsInv, TypeOK
  <2> QED BY <1>d, <1>e DEF TypeOK, LocalsInv
<1>4. ListIntegrity' /\ AgreesWithRegistry'
  BY <1>d, <1>e, <1>r, SameKeepsList
<1>5. NoOrphan'
  BY <1>a, <1>d, <1>e DEF TypeOK, NoOrphan
<1>6. MissInv'
  BY <1>a, <1>d, <1>e DEF TypeOK, MissInv, Matches
<1> QED BY <1>1, <1>2, <1>3, <1>4, <1>5, <1>6

\* Another client publishes a schema.
LEMMA RegistryPublishStep ==
  ASSUME IInv, NEW n \in Names, NEW def \in Published, RegistryPublish(n, def)
  PROVE  IInv'
<1>a. RegistryGrows
  <2>1. def \in Text /\ RegistryPost(n, def)
    BY CacheAssumption DEF RegistryPublish
  <2> QED BY <2>1, RegistryPostProperty DEF IInv
<1>b. UNCHANGED <<sd_lock, sd_schemas, heap, pc, req, cur, expiry, url_cnt, now,
                  handed, fault, alive, calls>>
  BY DEF RegistryPublish, threadVars, appVars
<1> USE DEF IInv
<1>1. TypeOK'
  BY <1>a, <1>b DEF TypeOK, Cells, RegistryGrows
<1>2. LockInv' /\ LocalsInv'
  BY <1>b DEF LockInv, LocalsInv, Cells
<1>3. ListIntegrity' /\ AgreesWithRegistry'
  BY <1>a, <1>b, SameKeepsList DEF Cells
<1>4. NoOrphan' /\ MissInv'
  BY <1>b DEF NoOrphan, MissInv, Matches, Cells
<1> QED BY <1>1, <1>2, <1>3, <1>4
-----------------------------------------------------------------------------
(***************************************************************************)
(* The theorems.                                                           *)
(***************************************************************************)

\* A new handle satisfies IInv.
LEMMA InitIInv ==
  ASSUME Init
  PROVE  IInv
<1> USE DEF Init, Cells
<1>1. TypeOK
  BY CacheAssumption DEF TypeOK, Pcs
<1>2. LockInv /\ LocalsInv
  BY CacheAssumption DEF LockInv, LockedPcs, LocalsInv
<1>3. ListIntegrity /\ NoOrphan /\ MissInv /\ AgreesWithRegistry
  BY DEF ListIntegrity, NoOrphan, MissInv, AgreesWithRegistry
<1> QED BY <1>1, <1>2, <1>3 DEF IInv

\* A step of a thread inside the library preserves IInv.
LEMMA StepIInv ==
  ASSUME IInv, NEW t \in Threads, Step(t)
  PROVE  IInv'
BY LookupHitStep, LookupMissStep, Add0RejectStep, Add0AssignStep,
   Add0StoreStep, Add0FetchStep, StoreOkStep, StoreFailStep, FetchOkStep,
   FetchFailStep, serdes_schema_mark_usedStep, MarkFreedStep,
   serdes_schema_destroyStep, DestroyFreedStep, PurgeBeginStep,
   PurgeCheckStep, PurgeDestroyStep, PurgeEndStep, TeardownNextStep,
   TeardownEndStep, Zenon
DEF Step

\* IInv is inductive.
THEOREM Inductive == Spec => []IInv
<1>1. Init => IInv
  BY InitIInv
<1>2. IInv /\ [Next]_vars => IInv'
  <2> SUFFICES ASSUME IInv, [Next]_vars PROVE IInv'
    OBVIOUS
  <2>1. CASE UNCHANGED vars
    BY <2>1, TickStep
  <2>2. ASSUME NEW t \in Threads, Step(t) PROVE IInv'
    BY <2>2, StepIInv
  <2>3. ASSUME NEW t \in Threads, NEW r \in Requests, Call(t, r) PROVE IInv'
    BY <2>3, CallStep
  <2>4. ASSUME NEW t \in Threads, NEW r \in Requests, NEW ss \in handed,
               CallDestroy(t, r, ss)
        PROVE  IInv'
    BY <2>4, CallDestroyStep
  <2>5. ASSUME NEW ss \in handed, UseFreed(ss) PROVE IInv'
    BY <2>5, UseFreedStep
  <2>6. CASE Tick
    BY <2>6, TickStep
  <2>7. ASSUME NEW n \in Names, NEW def \in Published, RegistryPublish(n, def)
        PROVE  IInv'
    BY <2>7, RegistryPublishStep
  <2>8. CASE Halt
    BY <2>8, TickStep DEF Halt
  <2> QED BY <2>1, <2>2, <2>3, <2>4, <2>5, <2>6, <2>7, <2>8 DEF Next
<1> QED BY <1>1, <1>2, PTL DEF Spec

\* The variables keep their types.
THEOREM TypeCorrect == Spec => []TypeOK
BY Inductive, PTL DEF IInv

\* The list always holds exactly the linked schemas, live and fully loaded.
THEOREM ListIsSound == Spec => []ListIntegrity
BY Inductive, PTL DEF IInv

\* No error path of serdes_schema_add0 leaks a schema.
THEOREM NothingLeaks == Spec => []NoOrphan
BY Inductive, PTL DEF IInv

\* A lookup that missed still misses when its schema is linked.
THEOREM LookupsStayCurrent == Spec => []LookupStillCurrent
<1>1. IInv => LookupStillCurrent
  BY LookupProperty DEF IInv, MissInv, LookupStillCurrent
<1> QED BY <1>1, Inductive, PTL

\* The registry is asked by one thread at a time.
THEOREM OneRequestAtATime == Spec => []SingleFlight
<1>1. IInv => SingleFlight
  BY DEF IInv, LockInv, LockedPcs, SingleFlight
<1> QED BY <1>1, Inductive, PTL

\* A cached schema is the registry's schema of the same id.
THEOREM CacheAgrees == Spec => []AgreesWithRegistry
BY Inductive, PTL DEF IInv
=============================================================================
