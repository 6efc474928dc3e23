----------------------------- MODULE CppWrapper -----------------------------
(***************************************************************************)
(* The Schema objects of the C++ API (schema_get, schema_add, SchemaImpl   *)
(* of src/src-cpp) on top of the cache of one handle.  A SchemaImpl points *)
(* to a serdes_schema_t and destroys it in its destructor; the opaque      *)
(* pointer of the serdes_schema_t points back, if schema_get made it.      *)
(*                                                                         *)
(* The cache is SchemaStore, which SchemaCache implements: a C function is *)
(* called by Invoke, takes effect in Find, Insert or Remove, and returns   *)
(* by Respond.  Between its return and the C++ code that handles its       *)
(* result other threads may act, also on the same schema: nothing here     *)
(* keeps a thread from any call.  What an application can observe to stay  *)
(* out of trouble is a history variable, on which the properties depend.   *)
(***************************************************************************)
EXTENDS Integers, Sequences, FiniteSets

CONSTANTS
  Threads,    \* application threads
  Requests,   \* the calls they make
  Entries,    \* the schemas at the registry: id and definition
  MaxImpls,   \* bound on the number of SchemaImpl objects
  MaxPtrs,    \* bound on the number of serdes_schema_t objects
  NULL

NoRequest == [op |-> "none", id |-> -1, def |-> NULL, sym |-> NULL]

VARIABLES
  store, pending, subject, open,  \* the cache: see SchemaStore
  opaque,    \* ss_opaque of each serdes_schema_t, an index of impls or 0
  impls,     \* every SchemaImpl ever made
  wpc,       \* where each thread is in the C++ code
  c_schema,  \* its local variable c_schema
  held,      \* the SchemaImpl objects that the application has to delete
  used,      \* history: addresses that a serdes_schema_t has had
  careful,   \* history: the application has kept its rules so far
  raced,     \* history: schemas that two threads were in schema_get with
  fault      \* history: where a freed object was accessed

storeVars == <<store, pending, subject, open>>
implVars  == <<opaque, impls, held>>
history   == <<used, careful, raced, fault>>
vars == <<storeVars, implVars, wpc, c_schema, history>>

Store == INSTANCE SchemaStore

Ptrs == 1 .. MaxPtrs

\* sym says which schema a request is about: that of the entries that answer
\* it.  The registry gives an id to one schema only.
ASSUME WrapperAssumption ==
  /\ MaxImpls \in Nat
  /\ MaxPtrs \in Nat
  /\ \A e \in Entries : e.id # Store!NoId /\ e.def.sym # NULL
  /\ \A e, f \in Entries : e.id = f.id => e.def.sym = f.def.sym
  /\ \A r \in Requests :
       /\ DOMAIN r = {"op", "id", "def", "sym"}
       /\ r.op \in {"get", "framing", "add", "purge", "teardown"}
       /\ \A e \in Entries :
            (r.op \in {"get", "framing"} /\ r.id = e.id)
              \/ (r.op = "add" /\ r.def = e.def) => r.sym = e.def.sym

Init ==
  /\ Store!Init
  /\ opaque = [c \in Ptrs |-> 0]
  /\ impls = <<>>
  /\ wpc = [t \in Threads |-> "idle"]
  /\ c_schema = [t \in Threads |-> 0]
  /\ held = {}
  /\ used = {}
  /\ careful = TRUE
  /\ raced = {}
  /\ fault = "none"
-----------------------------------------------------------------------------
(***************************************************************************)
(* The application.  It may call and delete whatever it likes; careful     *)
(* says that it has kept two rules, which it needs since nothing counts    *)
(* references and schema_add does not look at the opaque pointer:          *)
(*   - a Schema object is deleted only while no other object that is held  *)
(*     wraps the same serdes_schema_t, and no call about its schema is     *)
(*     under way or begins before the destructor is through;               *)
(*   - a purge, and the end of the handle, come when no Schema object is   *)
(*     held, and no other call overlaps with them.                         *)
(* Calls of get, add and deserialize may overlap as they like.             *)
(***************************************************************************)

\* The schema that a thread is busy with, NULL for none.
Busy(t) ==
  IF pending[t] # NoRequest /\ pending[t].op # "destroy" THEN pending[t].sym
  ELSE IF c_schema[t] \in DOMAIN store THEN store[c_schema[t]].def.sym ELSE NULL

Idle(t) == wpc[t] = "idle" /\ pending[t] = NoRequest

OthersIdle(t) == \A u \in Threads \ {t} : Idle(u)

Deleting(u, sym) == wpc[u] = "delete" /\ Busy(u) = sym

CallRule(t, r) ==
  IF r.op \in {"purge", "teardown"}
  THEN held = {} /\ OthersIdle(t)
  ELSE \A u \in Threads : wpc[u] # "purge" /\ ~Deleting(u, r.sym)

DeleteRule(i) ==
  LET c == impls[i].schema_
  IN  /\ \A j \in held \ {i} : impls[j].schema_ # c
      /\ \A u \in Threads : wpc[u] # "purge" /\ Busy(u) # store[c].def.sym

\* The C function that a call of the C++ API, or of serdes_framing_read by
\* AvroImpl::deserialize, begins with.
CRequest(r) == IF r.op = "framing" THEN [r EXCEPT !.op = "get"] ELSE r

\* The handle is deleted once, and not while it is in use.
Call(t, r) ==
  /\ Idle(t)
  /\ r.op = "teardown" => OthersIdle(t)
  /\ Store!Invoke(t, CRequest(r), 0)
  /\ wpc' = [wpc EXCEPT ![t] = r.op]
  /\ careful' = (careful /\ CallRule(t, r))
  /\ UNCHANGED <<implVars, c_schema, used, raced, fault>>

\* A Schema object is forgotten, though not deleted, as by decode_and_print of
\* the C++ consumer: schema_get may return it again.
Abandon(i) ==
  /\ open
  /\ held' = held \ {i}
  /\ impls' = [impls EXCEPT ![i].st = "abandoned"]
  /\ UNCHANGED <<storeVars, opaque, wpc, c_schema, history>>
-----------------------------------------------------------------------------
(***************************************************************************)
(* The cache.  A new serdes_schema_t has an address that none had before,  *)
(* so that a dangling pointer can be told, and a NULL opaque pointer.      *)
(***************************************************************************)
CFind(t) ==
  /\ UNCHANGED pending
  /\ Store!Find(t)
  /\ UNCHANGED <<implVars, wpc, c_schema, history>>

CInsert(t, c, e) ==
  /\ c \notin used
  /\ pending[t].sym = e.def.sym
  /\ UNCHANGED pending
  /\ Store!Insert(t, c, e)
  /\ used' = used \cup {c}
  /\ UNCHANGED <<implVars, wpc, c_schema, careful, raced, fault>>

CRemove(t, c) ==
  /\ pending[t].op \in {"purge", "teardown"}
  /\ Store!Remove(t, c)
  /\ UNCHANGED <<implVars, wpc, c_schema, history>>

\* The threads of schema_get between the C call and the end.
Wrapping(t, c) == wpc[t] \in {"opaque", "wrap"} /\ c_schema[t] = c

\* Where the C++ code goes on: AvroImpl::deserialize has a schema already or
\* uses that of the framing.
After(t) ==
  CASE subject[t] = 0 -> {"idle"}
    [] subject[t] # 0 /\ wpc[t] = "get" -> {"opaque"}
    [] subject[t] # 0 /\ wpc[t] = "add" -> {"wrap_added"}
    [] subject[t] # 0 /\ wpc[t] = "framing" -> {"idle", "framed"}

\* get, add, purge or serdes_destroy returns; NULL ends the C++ call as well.
CRespond(t) ==
  /\ wpc[t] \in {"get", "framing", "add", "purge", "teardown"}
  /\ pending[t] # NoRequest
  /\ Store!Respond(t)
  /\ \E p \in After(t) :
       /\ wpc' = [wpc EXCEPT ![t] = p]
       /\ c_schema' = [c_schema EXCEPT ![t] = IF p = "idle" THEN 0
                                               ELSE subject[t]]
  /\ raced' = raced \cup {c \in {subject[t]} :
                 wpc[t] = "get" /\ \E u \in Threads : Wrapping(u, c)}
  /\ UNCHANGED <<implVars, used, careful, fault>>
-----------------------------------------------------------------------------
(***************************************************************************)
(* schema_get, schema_add, the end of AvroImpl::deserialize's lookup, and  *)
(* the destructor of SchemaImpl.                                           *)
(***************************************************************************)
Done(t) ==
  /\ wpc' = [wpc EXCEPT ![t] = "idle"]
  /\ c_schema' = [c_schema EXCEPT ![t] = 0]

NewImpl(c, via) == [st |-> "live", schema_ |-> c, via |-> via]

\* AvroImpl::deserialize reads the id of the schema that serdes_framing_read
\* has returned and calls Schema::get with it.
FramedGet(t) ==
  LET c == c_schema[t]
  IN  /\ wpc[t] = "framed"
      /\ c \in DOMAIN store
      /\ open
      /\ Store!Invoke(t, [op |-> "get", id |-> store[c].id, def |-> NULL,
                          sym |-> store[c].def.sym], 0)
      /\ wpc' = [wpc EXCEPT ![t] = "get"]
      /\ c_schema' = [c_schema EXCEPT ![t] = 0]
      /\ UNCHANGED <<implVars, history>>

\* Mutant: a SchemaImpl is made before it is known whether there is one.
ReadOpaqueLate(t) ==
  LET c == c_schema[t]
  IN  /\ wpc[t] = "opaque"
      /\ c \in DOMAIN store
      /\ IF opaque[c] # 0
         THEN /\ Done(t)
              /\ held' = held \cup {opaque[c]}
              /\ impls' = Append(impls, NewImpl(c, "get"))
         ELSE /\ wpc' = [wpc EXCEPT ![t] = "wrap"]
              /\ UNCHANGED <<c_schema, held, impls>>
      /\ UNCHANGED <<storeVars, opaque, history>>

\* schema_get: is there a SchemaImpl already?
ReadOpaque(t) ==
  LET c == c_schema[t]
      i == opaque[c]
  IN  /\ wpc[t] = "opaque"
      /\ c \in DOMAIN store
      /\ \/ /\ i # 0
            /\ Done(t)
            /\ held' = held \cup {i}
            /\ impls' = [impls EXCEPT ![i].st = "live"]
         \/ /\ i = 0
            /\ wpc' = [wpc EXCEPT ![t] = "wrap"]
            /\ UNCHANGED <<c_schema, held, impls>>
      /\ UNCHANGED <<storeVars, opaque, history>>

\* Mutant: the new SchemaImpl is not made known to the serdes_schema_t.
WrapUnknown(t) ==
  LET c == c_schema[t]
  IN  /\ wpc[t] = "wrap"
      /\ c \in DOMAIN store
      /\ impls' = Append(impls, NewImpl(c, "get"))
      /\ held' = held \cup {Len(impls) + 1}
      /\ Done(t)
      /\ UNCHANGED <<storeVars, opaque, history>>

\* schema_get: make a SchemaImpl and point back to it.
Wrap(t) ==
  LET c == c_schema[t]
  IN  /\ wpc[t] = "wrap"
      /\ c \in DOMAIN store
      /\ impls' = Append(impls, NewImpl(c, "get"))
      /\ opaque' = [opaque EXCEPT ![c] = Len(impls) + 1]
      /\ held' = held \cup {Len(impls) + 1}
      /\ Done(t)
      /\ UNCHANGED <<storeVars, history>>

\* schema_add: make a SchemaImpl, whether there is one already or not.
WrapAdded(t) ==
  /\ wpc[t] = "wrap_added"
  /\ impls' = Append(impls, NewImpl(c_schema[t], "add"))
  /\ held' = held \cup {Len(impls) + 1}
  /\ Done(t)
  /\ UNCHANGED <<storeVars, opaque, history>>

\* Mutant: the destructor leaves the serdes_schema_t alone.
DeleteImplOnly(t, i) ==
  /\ Idle(t) /\ open
  /\ impls[i].schema_ \in DOMAIN store
  /\ impls' = [impls EXCEPT ![i].st = "freed"]
  /\ held' = held \ {i}
  /\ careful' = (careful /\ DeleteRule(i))
  /\ UNCHANGED <<storeVars, opaque, wpc, c_schema, used, raced, fault>>

\* Mutant: the destructor destroys the serdes_schema_t first.
DestroyFirst(t, i) ==
  LET c == impls[i].schema_
  IN  /\ Idle(t) /\ open
      /\ c \in DOMAIN store
      /\ store' = [d \in DOMAIN store \ {c} |-> store[d]]
      /\ impls' = [impls EXCEPT ![i].st = "freed"]
      /\ held' = held \ {i}
      /\ c_schema' = [c_schema EXCEPT ![t] = c]
      /\ wpc' = [wpc EXCEPT ![t] = "delete"]
      /\ careful' = (careful /\ DeleteRule(i))
      /\ UNCHANGED <<pending, subject, open, opaque, used, raced, fault>>

\* delete of a Schema: the destructor resets the opaque pointer and calls
\* serdes_schema_destroy.
Delete(t, i) ==
  LET c == impls[i].schema_
  IN  /\ Idle(t)
      /\ c \in DOMAIN store
      /\ opaque' = [opaque EXCEPT ![c] = 0]
      /\ Store!Invoke(t, [NoRequest EXCEPT !.op = "destroy"], c)
      /\ impls' = [impls EXCEPT ![i].st = "freed"]
      /\ held' = held \ {i}
      /\ c_schema' = [c_schema EXCEPT ![t] = c]
      /\ wpc' = [wpc EXCEPT ![t] = "delete"]
      /\ careful' = (careful /\ DeleteRule(i))
      /\ UNCHANGED <<used, raced, fault>>

DeleteEnd(t) ==
  /\ wpc[t] = "delete"
  /\ Store!Remove(t, subject[t])
  /\ Done(t)
  /\ UNCHANGED <<implVars, history>>

\* A serdes_schema_t that is gone is accessed: by schema_get, by the read of
\* its id in AvroImpl::deserialize, by a destructor or its call of
\* serdes_schema_destroy, or through a Schema that is held.
TouchFreed ==
  /\ \/ /\ \E t \in Threads : wpc[t] \in {"framed", "opaque", "wrap", "delete"}
                              /\ c_schema[t] \notin DOMAIN store
        /\ fault' = "library"
     \/ /\ \E i \in held : impls[i].schema_ \notin DOMAIN store
        /\ fault' = "schema"
  /\ UNCHANGED <<storeVars, implVars, wpc, c_schema, used, careful, raced>>

Halt ==
  /\ fault # "none" \/ (\A t \in Threads : Idle(t))
  /\ UNCHANGED vars

\* The bound on impls, counting those that a call under way may still make.
Room == Len(impls) + Cardinality({t \in Threads : ~Idle(t)}) < MaxImpls

Next ==
  \/ /\ fault = "none"
     /\ \/ \E t \in Threads, r \in Requests :
             (Room \/ r.op \in {"purge", "teardown"}) /\ Call(t, r)
        \/ \E t \in Threads : CFind(t)
        \/ \E t \in Threads, c \in Ptrs, e \in Entries : CInsert(t, c, e)
        \/ \E t \in Threads, c \in DOMAIN store : CRemove(t, c)
        \/ \E t \in Threads : CRespond(t)
        \/ \E t \in Threads : FramedGet(t)
        \/ \E t \in Threads : ReadOpaque(t)
        \/ \E t \in Threads : Wrap(t)
        \/ \E t \in Threads : WrapAdded(t)
        \/ \E t \in Threads, i \in held : Delete(t, i)
        \/ \E t \in Threads : DeleteEnd(t)
        \/ \E i \in held : Abandon(i)
        \/ TouchFreed
  \/ Halt

Spec == Init /\ [][Next]_vars
-----------------------------------------------------------------------------
(***************************************************************************)
(* Properties.                                                             *)
(***************************************************************************)
Wrappers(c) == {i \in DOMAIN impls : impls[i].st # "freed" /\ impls[i].schema_ = c}

\* A serdes_schema_t of the cache has one Schema object, whatever threads look
\* it up, forget it or delete it, unless schema_add made another (it never
\* looks for the one there is) or two threads were between the test and the
\* set of its opaque pointer in schema_get at once.
SharedUnlessRaced ==
  careful => \A c \in DOMAIN store \ raced :
               \A i, j \in Wrappers(c) :
                 i # j => "add" \in {impls[i].via, impls[j].via}

\* A Schema object that a careful application holds exists and its
\* serdes_schema_t is in the cache; an opaque pointer never leads to a deleted
\* object, also after a race that left a schema with two objects.
HeldUsable ==
  careful =>
    /\ \A i \in held : impls[i].st = "live" /\ impls[i].schema_ \in DOMAIN store
    /\ \A c \in DOMAIN store : opaque[c] # 0 => opaque[c] \in Wrappers(c)

\* Neither the library nor a Schema object ever touches a freed schema as long
\* as the two rules are kept, however gets and adds of one schema overlap.
NoFreedAccess == fault # "none" => ~careful

\* When the handle of a careful application has been deleted, no schema is left
\* and no Schema object but those that it has forgotten.
NothingLeft ==
  careful /\ ~open /\ (\A t \in Threads : Idle(t)) =>
    store = <<>> /\ \A i \in DOMAIN impls : impls[i].st # "live"
=============================================================================
