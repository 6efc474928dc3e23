---------------------------- MODULE SchemaCache ----------------------------
(***************************************************************************)
(* The local schema cache of one serdes_t handle (src/src/schema-cache.c,  *)
(* struct serdes_s and serdes_schema_s of serdes_int.h, serdes_destroy of  *)
(* serdes.c), called by several application threads at once.               *)
(*                                                                         *)
(* A call of serdes_schema_get/_add first waits for sd_lock, looks the     *)
(* schema up, and on a miss keeps sd_lock while serdes_schema_add0 builds  *)
(* a new schema: it is allocated, loaded, and fetched from or stored at    *)
(* the registry by a blocking REST request.  Only the writes of            *)
(* ss_t_last_used happen outside sd_lock.                                  *)
(*                                                                         *)
(* A schema pointer is an index of the sequence heap: allocation appends,  *)
(* and an address is never given out twice, so a dangling pointer is seen  *)
(* as such.  Schemas are allocated and linked under sd_lock, one at a      *)
(* time and always at the head, so the list sd_schemas is the set of the   *)
(* linked pointers and its order, head first, is from the largest down.    *)
(***************************************************************************)
EXTENDS Integers, Sequences

CONSTANTS
  Threads,     \* application threads sharing the handle
  Names,       \* subject names
  Schemas,     \* the schemas that a definition text can denote
  Unparsable,  \* those of Schemas that the schema_load_cb refuses
  Requests,    \* the API calls the application makes
  Published,   \* texts that other clients register at the registry
  UrlCounts,   \* possible numbers of configured registry URLs
  Quiesce,     \* TRUE: the application purges and destroys only while no
               \* other thread uses the handle, and then drops its pointers
  MaxCalls,    \* bound on the number of API calls
  MaxIds,      \* bound on the number of schemas at the registry
  StartTime,   \* time(NULL) when the handle is created
  MaxTime,     \* bound on the clock
  NULL

(***************************************************************************)
(* The text of a schema definition: does it start with white space, is it  *)
(* a JSON object, a JSON string, or a string that serdes_schema_load has   *)
(* wrapped into an object, and which schema it denotes.                    *)
(***************************************************************************)
Text == [lead: BOOLEAN, form: {"object", "string", "wrapped"}, sym: Schemas]

NoId == -1

Request ==
  [op: {"get", "add", "purge", "destroy", "teardown"},
   name: Names \cup {NULL}, id: Nat \cup {NoId}, def: Text \cup {NULL},
   max_age: Nat]

NoRequest ==
  [op |-> "none", name |-> NULL, id |-> NoId, def |-> NULL, max_age |-> 0]

ASSUME CacheAssumption ==
  /\ NULL \notin Threads
  /\ NULL \notin Text
  /\ Requests \subseteq Request
  /\ \A r \in Requests : r.op = "get" => r.def = NULL
  /\ Published \subseteq Text
  /\ UrlCounts \subseteq Nat
  /\ Quiesce \in BOOLEAN
  /\ MaxCalls \in Nat
  /\ MaxIds \in Nat
  /\ StartTime \in Nat
  /\ MaxTime \in Nat

VARIABLES
  sd_lock,      \* owner of the handle's mutex, or NULL
  sd_schemas,   \* linked schemas (their order: see above)
  heap,         \* every serdes_schema_t ever allocated
  pc,           \* where each thread is in its call
  req,          \* the call each thread is in
  cur,          \* its local variable ss, 0 for a NULL pointer
  expiry,       \* the local variable expiry of serdes_schemas_purge
  url_cnt,      \* sd_conf.schema_registry_urls.cnt
  reg_schemas,  \* the registry: text of each id
  reg_latest,   \* the registry: latest id of each subject, 0 for none
  now,          \* time(NULL)
  handed,       \* history: pointers the application holds
  alive,        \* FALSE once serdes_destroy has been called
  fault,        \* history: where freed memory was accessed
  calls         \* number of API calls made so far

threadVars == <<pc, req, cur>>
regVars    == <<reg_schemas, reg_latest>>
appVars    == <<alive, calls>>
vars == <<sd_lock, sd_schemas, heap, pc, req, cur, expiry, url_cnt,
          reg_schemas, reg_latest, now, handed, alive, fault, calls>>

(***************************************************************************)
(* A serdes_schema_t.  obj says that ss_schema_obj is set.  The last three *)
(* are history fields: when get or add last returned the schema, whether   *)
(* the caller of add chose its id, and the text the caller of add gave.    *)
(***************************************************************************)
Schema ==
  [st: {"live", "freed"}, id: Nat \cup {NoId}, name: Names \cup {NULL},
   def: Text \cup {NULL}, obj: BOOLEAN, t_last_used: Nat, linked: BOOLEAN,
   t_handed: Nat, assigned: BOOLEAN, given: Text \cup {NULL}]

Pcs == {"idle", "lock", "add0", "fetch", "store", "mark", "purge", "expired",
        "teardown"}

\* The regions of the code in which a thread owns sd_lock.
LockedPcs == {"add0", "fetch", "store", "purge", "expired"}

Init ==
  /\ sd_lock = NULL
  /\ sd_schemas = {}
  /\ heap = <<>>
  /\ pc = [t \in Threads |-> "idle"]
  /\ req = [t \in Threads |-> NoRequest]
  /\ cur = [t \in Threads |-> 0]
  /\ expiry = [t \in Threads |-> 0]
  /\ url_cnt \in UrlCounts
  /\ reg_schemas = <<>>
  /\ reg_latest = [n \in Names |-> 0]
  /\ now = StartTime
  /\ handed = {}
  /\ alive = TRUE
  /\ fault = "none"
  /\ calls = 0
-----------------------------------------------------------------------------
(***************************************************************************)
(* Operators.                                                              *)
(***************************************************************************)

\* First element of a list, 0 (NULL) when it is empty.
First(S) == IF S = {} THEN 0 ELSE CHOOSE c \in S : \A d \in S : d <= c

serdes_schema_find_by_id(id) == First({c \in sd_schemas : heap[c].id = id})

\* The cached text and the caller's text are compared byte by byte.
serdes_schema_find_by_definition(def) ==
  First({c \in sd_schemas : heap[c].def = def})

Lookup(r) ==
  IF r.op = "get" THEN serdes_schema_find_by_id(r.id)
                  ELSE serdes_schema_find_by_definition(r.def)

\* Can the schema loader callback parse the definition?
schema_load_cb(def) == def.sym \notin Unparsable

\* The text serdes_schema_load keeps: left-trimmed, a string one wrapped.
serdes_schema_load(def) ==
  [lead |-> FALSE,
   form |-> IF def.form = "string" THEN "wrapped" ELSE def.form,
   sym  |-> def.sym]

\* calloc and the assignments at the top of serdes_schema_add0.
NewSchema(r) ==
  [st |-> "live", id |-> r.id, name |-> r.name, def |-> NULL, obj |-> FALSE,
   t_last_used |-> 0, linked |-> FALSE, t_handed |-> 0,
   assigned |-> r.def # NULL /\ r.id # NoId, given |-> r.def]

\* The same, with the caller's definition loaded.
NewLoaded(r) ==
  [NewSchema(r) EXCEPT !.def = serdes_schema_load(r.def), !.obj = TRUE]

\* Requests that serdes_schema_add0 fails without asking the registry.
NeedsRegistry(r) == r.def = NULL \/ r.id = NoId
Rejected(r) ==
  \/ r.id = NoId /\ r.name = NULL
  \/ r.def # NULL /\ r.name = NULL
  \/ r.def # NULL /\ ~schema_load_cb(r.def)
  \/ NeedsRegistry(r) /\ url_cnt = 0

\* What is left of a schema that was unloaded and freed.
Freed(s) == [s EXCEPT !.st = "freed", !.obj = FALSE, !.def = NULL,
                      !.name = NULL, !.linked = FALSE]

\* Mutant: LIST_REMOVE is forgotten.
DestroyKeepsLink(ss) ==
  /\ heap' = [heap EXCEPT ![ss] = [Freed(@) EXCEPT !.linked = heap[ss].linked]]
  /\ UNCHANGED sd_schemas

\* Unload, free and, when it is in the list, unlink the schema.
serdes_schema_destroy0(ss) ==
  /\ heap' = [heap EXCEPT ![ss] = Freed(heap[ss])]
  /\ sd_schemas' = IF heap[ss].linked THEN sd_schemas \ {ss} ELSE sd_schemas

\* The id under which the registry keeps a schema; it is the next free one
\* for a schema the registry has not seen (external: the Schema Registry).
RegistryId(sym) ==
  IF \E i \in DOMAIN reg_schemas : reg_schemas[i].sym = sym
  THEN CHOOSE i \in DOMAIN reg_schemas : reg_schemas[i].sym = sym
  ELSE Len(reg_schemas) + 1

RegistryPost(name, def) ==
  LET id == RegistryId(def.sym)
  IN  /\ id <= MaxIds
      /\ reg_schemas' = IF id > Len(reg_schemas) THEN Append(reg_schemas, def)
                                                 ELSE reg_schemas
      /\ reg_latest' = [reg_latest EXCEPT ![name] = id]

\* What serdes_schema_fetch and the end of serdes_schema_add0 make of the
\* schema s from the answer of the registry (mutant: the id is not taken).
FetchedWithoutId(s, id) ==
  [s EXCEPT !.def = serdes_schema_load(reg_schemas[id]), !.obj = TRUE,
            !.linked = TRUE]

Fetched(s, id) ==
  [s EXCEPT !.id = id, !.def = serdes_schema_load(reg_schemas[id]),
            !.obj = TRUE, !.linked = TRUE]

\* The same for serdes_schema_store, whose answer is the id alone.
Stored(s) == [s EXCEPT !.id = RegistryId(s.def.sym), !.linked = TRUE]

\* LIST_NEXT
Next_link(ss) == First({c \in sd_schemas : c < ss})

\* The call of thread t returns.
Return(t) ==
  /\ pc' = [pc EXCEPT ![t] = "idle"]
  /\ req' = [req EXCEPT ![t] = NoRequest]
  /\ cur' = [cur EXCEPT ![t] = 0]

\* What GET /schemas/ids/<id> or /subjects/<name>/versions/latest is about.
FetchedId(r) == IF r.id # NoId THEN r.id ELSE reg_latest[r.name]
-----------------------------------------------------------------------------
(***************************************************************************)
(* The application calls the library.                                      *)
(***************************************************************************)
Exclusive == {"purge", "destroy"}

MayCall(op) ==
  /\ alive
  /\ calls < MaxCalls
  /\ (op = "teardown" \/ (Quiesce /\ op \in Exclusive)) =>
        \A u \in Threads : pc[u] = "idle"
  /\ Quiesce => \A u \in Threads : req[u].op \notin Exclusive

\* serdes_schema_get, serdes_schema_add, serdes_schemas_purge (which reads
\* the clock before it waits for the lock) and serdes_destroy are entered.
Call(t, r) ==
  /\ pc[t] = "idle"
  /\ r.op # "destroy"
  /\ MayCall(r.op)
  /\ pc' = [pc EXCEPT ![t] = IF r.op = "teardown" THEN "teardown" ELSE "lock"]
  /\ req' = [req EXCEPT ![t] = r]
  /\ expiry' = [expiry EXCEPT ![t] = IF r.op = "purge" THEN now - r.max_age
                                                       ELSE 0]
  /\ alive' = (r.op # "teardown")
  /\ handed' = IF r.op = "teardown" \/ (Quiesce /\ r.op = "purge")
               THEN {} ELSE handed
  /\ calls' = calls + 1
  /\ UNCHANGED <<sd_lock, sd_schemas, heap, cur, url_cnt, reg_schemas,
                 reg_latest, now, fault>>

\* serdes_schema_destroy is entered with a pointer that is still valid.
CallDestroy(t, r, ss) ==
  /\ pc[t] = "idle"
  /\ r.op = "destroy"
  /\ MayCall("destroy")
  /\ heap[ss].st = "live"
  /\ pc' = [pc EXCEPT ![t] = "lock"]
  /\ req' = [req EXCEPT ![t] = r]
  /\ cur' = [cur EXCEPT ![t] = ss]
  /\ handed' = handed \ {ss}
  /\ calls' = calls + 1
  /\ UNCHANGED <<sd_lock, sd_schemas, heap, expiry, url_cnt, reg_schemas,
                 reg_latest, now, alive, fault>>

\* The application reads a schema it holds (serdes_schema_id, _name,
\* _definition, _object, _handle, _opaque, or a serializer) that is gone.
UseFreed(ss) ==
  /\ heap[ss].st = "freed"
  /\ fault' = "accessor"
  /\ UNCHANGED <<sd_lock, sd_schemas, heap, threadVars, expiry, url_cnt,
                 regVars, now, handed, appVars>>
-----------------------------------------------------------------------------
(***************************************************************************)
(* serdes_schema_get and serdes_schema_add.                                *)
(***************************************************************************)

\* Lock, find the schema, unlock.  The pointer is marked used afterwards.
LookupHit(t) ==
  /\ pc[t] = "lock"
  /\ req[t].op \in {"get", "add"}
  /\ sd_lock = NULL
  /\ Lookup(req[t]) # 0
  /\ cur' = [cur EXCEPT ![t] = Lookup(req[t])]
  /\ pc' = [pc EXCEPT ![t] = "mark"]
  /\ UNCHANGED <<sd_lock, sd_schemas, heap, req, expiry, url_cnt, regVars,
                 now, handed, fault, appVars>>

\* Mutant: sd_lock is released before serdes_schema_add0.
LookupMissUnlocks(t) ==
  /\ pc[t] = "lock"
  /\ req[t].op \in {"get", "add"}
  /\ sd_lock = NULL
  /\ Lookup(req[t]) = 0
  /\ pc' = [pc EXCEPT ![t] = "add0"]
  /\ UNCHANGED <<sd_lock, sd_schemas, heap, req, cur, expiry, url_cnt, regVars,
                 now, handed, fault, appVars>>

\* Lock, find nothing, and go on to serdes_schema_add0 with the lock held.
LookupMiss(t) ==
  /\ pc[t] = "lock"
  /\ req[t].op \in {"get", "add"}
  /\ sd_lock = NULL
  /\ Lookup(req[t]) = 0
  /\ sd_lock' = t
  /\ pc' = [pc EXCEPT ![t] = "add0"]
  /\ UNCHANGED <<sd_schemas, heap, req, cur, expiry, url_cnt, regVars, now,
                 handed, fault, appVars>>

\* Mutant: an early return that forgets to unlock.
Add0RejectKeepsLock(t) ==
  /\ pc[t] = "add0"
  /\ Rejected(req[t])
  /\ Return(t)
  /\ UNCHANGED <<sd_lock, sd_schemas, heap, expiry, url_cnt, regVars, now,
                 handed, fault, appVars>>

\* Bad arguments, a definition that does not load, or no registry to ask:
\* unlock and return NULL.
Add0Reject(t) ==
  /\ pc[t] = "add0"
  /\ Rejected(req[t])
  /\ sd_lock' = NULL
  /\ Return(t)
  /\ UNCHANGED <<sd_schemas, heap, expiry, url_cnt, regVars, now, handed,
                 fault, appVars>>

\* The caller gave a definition and its id: load it, link it, unlock.
Add0Assign(t) ==
  /\ pc[t] = "add0"
  /\ ~Rejected(req[t])
  /\ ~NeedsRegistry(req[t])
  /\ heap' = Append(heap, [NewLoaded(req[t]) EXCEPT !.linked = TRUE])
  /\ cur' = [cur EXCEPT ![t] = Len(heap) + 1]
  /\ sd_schemas' = sd_schemas \cup {Len(heap) + 1}
  /\ sd_lock' = NULL
  /\ pc' = [pc EXCEPT ![t] = "mark"]
  /\ UNCHANGED <<req, expiry, url_cnt, regVars, now, handed, fault, appVars>>

\* The caller gave a definition but no id: load it and POST it.
Add0Store(t) ==
  /\ pc[t] = "add0"
  /\ ~Rejected(req[t])
  /\ NeedsRegistry(req[t]) /\ req[t].def # NULL
  /\ heap' = Append(heap, NewLoaded(req[t]))
  /\ cur' = [cur EXCEPT ![t] = Len(heap) + 1]
  /\ pc' = [pc EXCEPT ![t] = "store"]
  /\ UNCHANGED <<sd_lock, sd_schemas, req, expiry, url_cnt, regVars, now,
                 handed, fault, appVars>>

\* No definition: GET it from the registry.
Add0Fetch(t) ==
  /\ pc[t] = "add0"
  /\ ~Rejected(req[t])
  /\ req[t].def = NULL
  /\ heap' = Append(heap, NewSchema(req[t]))
  /\ cur' = [cur EXCEPT ![t] = Len(heap) + 1]
  /\ pc' = [pc EXCEPT ![t] = "fetch"]
  /\ UNCHANGED <<sd_lock, sd_schemas, req, expiry, url_cnt, regVars, now,
                 handed, fault, appVars>>

\* serdes_schema_store succeeds: the id comes from the response.
StoreOk(t) ==
  /\ pc[t] = "store"
  /\ RegistryPost(req[t].name, heap[cur[t]].def)
  /\ heap' = [heap EXCEPT ![cur[t]] = Stored(heap[cur[t]])]
  /\ sd_schemas' = sd_schemas \cup {cur[t]}
  /\ sd_lock' = NULL
  /\ pc' = [pc EXCEPT ![t] = "mark"]
  /\ UNCHANGED <<req, cur, expiry, url_cnt, now, handed, fault, appVars>>

\* serdes_schema_store fails: the request was lost, refused or answered with
\* something that is no id; the registry may have kept the schema all the same.
StoreFail(t) ==
  /\ pc[t] = "store"
  /\ \/ RegistryPost(req[t].name, heap[cur[t]].def)
     \/ UNCHANGED regVars
  /\ serdes_schema_destroy0(cur[t])
  /\ sd_lock' = NULL
  /\ Return(t)
  /\ UNCHANGED <<expiry, url_cnt, now, handed, fault, appVars>>

\* serdes_schema_fetch succeeds: id and definition come from the response.
\* A get returns at once, an add marks the schema used first.
FetchOk(t) ==
  LET ss == cur[t]
      id == FetchedId(req[t])
      isGet == req[t].op = "get"
  IN  /\ pc[t] = "fetch"
      /\ id \in DOMAIN reg_schemas
      /\ schema_load_cb(reg_schemas[id])
      /\ heap' = [heap EXCEPT ![ss] =
                     [Fetched(heap[ss], id) EXCEPT
                        !.t_handed = IF isGet THEN now ELSE @]]
      /\ sd_schemas' = sd_schemas \cup {ss}
      /\ sd_lock' = NULL
      /\ IF isGet THEN Return(t) /\ handed' = handed \cup {ss}
                  ELSE /\ pc' = [pc EXCEPT ![t] = "mark"]
                       /\ UNCHANGED <<req, cur, handed>>
      /\ UNCHANGED <<expiry, url_cnt, regVars, now, fault, appVars>>

\* Mutant: the error path forgets serdes_schema_destroy0.
FetchFailLeaks(t) ==
  /\ pc[t] = "fetch"
  /\ sd_lock' = NULL
  /\ Return(t)
  /\ UNCHANGED <<sd_schemas, heap, expiry, url_cnt, regVars, now, handed,
                 fault, appVars>>

\* serdes_schema_fetch fails: request failed, unusable response, or the
\* definition does not load.
FetchFail(t) ==
  /\ pc[t] = "fetch"
  /\ serdes_schema_destroy0(cur[t])
  /\ sd_lock' = NULL
  /\ Return(t)
  /\ UNCHANGED <<expiry, url_cnt, regVars, now, handed, fault, appVars>>

\* Mutant: the schema is stamped with the -1 of a clock that failed.
MarkUsedWithoutClock(t) ==
  /\ pc[t] = "mark"
  /\ heap[cur[t]].st = "live"
  /\ heap' = [heap EXCEPT ![cur[t]] = [@ EXCEPT !.t_last_used = -1,
                                               !.t_handed = now]]
  /\ handed' = handed \cup {cur[t]}
  /\ Return(t)
  /\ UNCHANGED <<sd_lock, sd_schemas, expiry, url_cnt, regVars, now, fault,
                 appVars>>

\* After sd_lock was released: stamp the schema and return it.
serdes_schema_mark_used(t) ==
  /\ pc[t] = "mark"
  /\ heap[cur[t]].st = "live"
  /\ heap' = [heap EXCEPT ![cur[t]] = [@ EXCEPT !.t_last_used = now,
                                               !.t_handed = now]]
  /\ handed' = handed \cup {cur[t]}
  /\ Return(t)
  /\ UNCHANGED <<sd_lock, sd_schemas, expiry, url_cnt, regVars, now, fault,
                 appVars>>

\* The schema was destroyed between the unlock and the stamp.
MarkFreed(t) ==
  /\ pc[t] = "mark"
  /\ heap[cur[t]].st = "freed"
  /\ fault' = "mark_used"
  /\ UNCHANGED <<sd_lock, sd_schemas, heap, threadVars, expiry, url_cnt,
                 regVars, now, handed, appVars>>
-----------------------------------------------------------------------------
(***************************************************************************)
(* serdes_schema_destroy, serdes_schemas_purge and serdes_destroy.         *)
(***************************************************************************)

serdes_schema_destroy(t) ==
  /\ pc[t] = "lock"
  /\ req[t].op = "destroy"
  /\ sd_lock = NULL
  /\ heap[cur[t]].st = "live"
  /\ serdes_schema_destroy0(cur[t])
  /\ Return(t)
  /\ UNCHANGED <<sd_lock, expiry, url_cnt, regVars, now, handed, fault,
                 appVars>>

\* Somebody else destroyed it while this thread waited for the lock.
DestroyFreed(t) ==
  /\ pc[t] = "lock"
  /\ req[t].op = "destroy"
  /\ sd_lock = NULL
  /\ heap[cur[t]].st = "freed"
  /\ fault' = "destroy"
  /\ UNCHANGED <<sd_lock, sd_schemas, heap, threadVars, expiry, url_cnt,
                 regVars, now, handed, appVars>>

PurgeBegin(t) ==
  /\ pc[t] = "lock"
  /\ req[t].op = "purge"
  /\ sd_lock = NULL
  /\ sd_lock' = t
  /\ cur' = [cur EXCEPT ![t] = First(sd_schemas)]
  /\ pc' = [pc EXCEPT ![t] = "purge"]
  /\ UNCHANGED <<sd_schemas, heap, req, expiry, url_cnt, regVars, now, handed,
                 fault, appVars>>

\* Has the schema expired?  ss_t_last_used is read without ss_lock (mutant:
\* a schema that is exactly max_age old counts as expired).
ExpiredAtAge(t) == heap[cur[t]].t_last_used <= expiry[t]
Expired(t) == heap[cur[t]].t_last_used < expiry[t]

PurgeCheck(t) ==
  /\ pc[t] = "purge"
  /\ cur[t] # 0
  /\ IF Expired(t)
     THEN pc' = [pc EXCEPT ![t] = "expired"] /\ UNCHANGED cur
     ELSE cur' = [cur EXCEPT ![t] = Next_link(cur[t])] /\ UNCHANGED pc
  /\ UNCHANGED <<sd_lock, sd_schemas, heap, req, expiry, url_cnt, regVars, now,
                 handed, fault, appVars>>

PurgeDestroy(t) ==
  /\ pc[t] = "expired"
  /\ serdes_schema_destroy0(cur[t])
  /\ cur' = [cur EXCEPT ![t] = Next_link(cur[t])]
  /\ pc' = [pc EXCEPT ![t] = "purge"]
  /\ UNCHANGED <<sd_lock, req, expiry, url_cnt, regVars, now, handed, fault,
                 appVars>>

PurgeEnd(t) ==
  /\ pc[t] = "purge"
  /\ cur[t] = 0
  /\ sd_lock' = NULL
  /\ Return(t)
  /\ UNCHANGED <<sd_schemas, heap, expiry, url_cnt, regVars, now, handed,
                 fault, appVars>>

\* serdes_destroy destroys the first schema of the list until there is none.
TeardownNext(t) ==
  /\ pc[t] = "teardown"
  /\ sd_schemas # {}
  /\ sd_lock = NULL
  /\ serdes_schema_destroy0(First(sd_schemas))
  /\ UNCHANGED <<sd_lock, threadVars, expiry, url_cnt, regVars, now, handed,
                 fault, appVars>>

TeardownEnd(t) ==
  /\ pc[t] = "teardown"
  /\ sd_schemas = {}
  /\ Return(t)
  /\ UNCHANGED <<sd_lock, sd_schemas, heap, expiry, url_cnt, regVars, now,
                 handed, fault, appVars>>
-----------------------------------------------------------------------------
(***************************************************************************)
(* The environment: the clock, and other clients of the registry.          *)
(***************************************************************************)
Tick ==
  /\ now < MaxTime
  /\ now' = now + 1
  /\ UNCHANGED <<sd_lock, sd_schemas, heap, threadVars, expiry, url_cnt,
                 regVars, handed, fault, appVars>>

RegistryPublish(n, def) ==
  /\ RegistryPost(n, def)
  /\ UNCHANGED <<sd_lock, sd_schemas, heap, threadVars, expiry, url_cnt, now,
                 handed, fault, appVars>>

\* One step of a call in progress.
Step(t) ==
  \/ LookupHit(t) \/ LookupMiss(t)
  \/ Add0Reject(t) \/ Add0Assign(t) \/ Add0Store(t) \/ Add0Fetch(t)
  \/ StoreOk(t) \/ StoreFail(t) \/ FetchOk(t) \/ FetchFail(t)
  \/ serdes_schema_mark_used(t) \/ MarkFreed(t)
  \/ serdes_schema_destroy(t) \/ DestroyFreed(t)
  \/ PurgeBegin(t) \/ PurgeCheck(t) \/ PurgeDestroy(t) \/ PurgeEnd(t)
  \/ TeardownNext(t) \/ TeardownEnd(t)

\* A run of the library ends when memory is corrupted (nothing is claimed
\* about what follows), or when the application makes no further call.
Halt ==
  /\ fault # "none" \/ \A t \in Threads : pc[t] = "idle"
  /\ UNCHANGED vars

Next ==
  \/ /\ fault = "none"
     /\ \/ \E t \in Threads : Step(t)
        \/ \E t \in Threads, r \in Requests : Call(t, r)
        \/ \E t \in Threads, r \in Requests, ss \in handed :
              CallDestroy(t, r, ss)
        \/ \E ss \in handed : UseFreed(ss)
        \/ Tick
        \/ \E n \in Names, def \in Published : RegistryPublish(n, def)
  \/ Halt

Spec == Init /\ [][Next]_vars

\* A thread inside the library is scheduled, and a REST request ends.
Fairness == \A t \in Threads : WF_vars(fault = "none" /\ Step(t))

FairSpec == Spec /\ Fairness
-----------------------------------------------------------------------------
(***************************************************************************)
(* Properties.                                                             *)
(***************************************************************************)

Cells == 1 .. Len(heap)

\* The variables have their types and the locals of a call point into heap.
TypeOK ==
  /\ sd_lock \in Threads \cup {NULL}
  /\ sd_schemas \subseteq Cells
  /\ heap \in Seq(Schema)
  /\ pc \in [Threads -> Pcs]
  /\ req \in [Threads -> Requests \cup {NoRequest}]
  /\ cur \in [Threads -> Cells \cup {0}]
  /\ expiry \in [Threads -> Int]
  /\ url_cnt \in UrlCounts
  /\ reg_schemas \in Seq(Text)
  /\ reg_latest \in [Names -> Nat]
  /\ now \in Nat
  /\ handed \subseteq Cells
  /\ alive \in BOOLEAN
  /\ fault \in {"none", "accessor", "mark_used", "destroy"}
  /\ calls \in Nat

\* Whatever the interleaving of lookups, failing requests, purges and
\* destroys, the list holds exactly the schemas that are flagged linked, and
\* each of them is live and fully loaded: the guarantee in the comment of
\* serdes_schema_add0 that every lookup under sd_lock relies on.
ListIntegrity ==
  /\ \A c \in Cells : c \in sd_schemas <=> heap[c].linked
  /\ \A c \in sd_schemas : /\ heap[c].st = "live"
                           /\ heap[c].obj
                           /\ heap[c].def \in Text
                           /\ heap[c].id # NoId

\* No path of serdes_schema_add0 leaks a schema: one that is allocated and
\* not in the list is still being built by the thread that owns sd_lock.
NoOrphan ==
  \A c \in Cells :
    heap[c].st = "live" /\ ~heap[c].linked =>
      \E t \in Threads : /\ sd_lock = t
                         /\ pc[t] \in {"fetch", "store"}
                         /\ cur[t] = c

\* A miss is still a miss when its schema is about to be linked, although
\* the thread may have waited for the registry since it looked: otherwise
\* two threads that ask for one id would both fetch and cache it.
LookupStillCurrent ==
  \A t \in Threads :
    pc[t] \in {"add0", "fetch", "store"} => Lookup(req[t]) = 0

\* The registry is asked by one thread at a time.  rest_req advances the
\* index of the shared URL list, which has no lock of its own.
SingleFlight ==
  \A t, u \in Threads :
    {pc[t], pc[u]} \subseteq {"fetch", "store"} => t = u

\* A cached schema whose id was not chosen by the application is the schema
\* that the registry keeps under this id: serialised messages carry the id.
AgreesWithRegistry ==
  \A c \in sd_schemas :
    ~heap[c].assigned =>
      /\ heap[c].id \in DOMAIN reg_schemas
      /\ heap[c].def.sym = reg_schemas[heap[c].id].sym

\* When serdes_destroy has returned no schema is left allocated.
TeardownFreesAll ==
  ~alive /\ (\A t \in Threads : pc[t] = "idle") =>
    \A c \in Cells : heap[c].st = "freed"

\* An application that purges and destroys only while no other thread uses
\* the handle, and then forgets its pointers, never makes the library touch
\* a schema that is gone: neither in mark_used nor in serdes_schema_destroy.
NoUseAfterFree == fault = "none"

\* The schemas that a purge destroys in this step, and how old they may be.
PurgedBy(t) == {c \in Cells : pc[t] = "expired" /\ cur[t] = c
                              /\ heap[c].st = "live" /\ heap'[c].st = "freed"}

\* A purge spares a schema that was stamped and returned at most max_age
\* seconds ago, to the second (the application being quiesced).
PurgeSparesMarked ==
  [][\A t \in Threads : \A c \in PurgedBy(t) :
       heap[c].t_last_used # 0 => heap[c].t_handed + req[t].max_age < now]_vars

\* sd_lock, which is held across the request to the registry and the user's
\* callbacks, is always released again.
LockReleased ==
  \A t \in Threads : (sd_lock = t) ~> (sd_lock # t \/ fault # "none")

\* serdes.h of serdes_schemas_purge: "Purges any schemas from the local
\* schema cache that have not been used in `max_age` seconds."  So a schema
\* that get or add returned more recently is not purged.
PurgeOnlyUnused ==
  [][\A t \in Threads : \A c \in PurgedBy(t) :
       heap[c].t_handed + req[t].max_age < now]_vars

\* serdes.h of serdes_schema_get and _add: "The returned schema will be fully
\* loaded and immediately usable."  So the schema that a call found and is
\* about to stamp and return still exists.
ReturnedSchemaUsable ==
  \A t \in Threads : pc[t] = "mark" => heap[cur[t]].st = "live"

\* serdes.h of serdes_schema_add: "If an existing schema with an identical
\* schema exists in the cache it will be returned instead".  So an add never
\* goes on to make a new schema from a text that a cached one was made from.
IdenticalDefinitionReturned ==
  \A t \in Threads : pc[t] = "add0" /\ req[t].op = "add" /\ req[t].def # NULL =>
    \A c \in sd_schemas : heap[c].given # req[t].def
=============================================================================
