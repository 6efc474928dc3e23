---------------------------- MODULE SchemaStore ----------------------------
(***************************************************************************)
(* What a user of the schema cache may rely on: serdes_schema_get and _add *)
(* take effect in one atomic step between call and return, at which they   *)
(* find an entry of the store or, when there is none, insert one; entries  *)
(* never change; they go away only by a destroy, a purge or the end of the *)
(* handle; and once the handle is being destroyed nothing is inserted, and *)
(* serdes_destroy returns with an empty store.                             *)
(*                                                                         *)
(* There is no lock, no list, no request to a registry and no loading of   *)
(* definitions here: SchemaCache is shown to implement this specification. *)
(***************************************************************************)
EXTENDS Integers

CONSTANTS
  Threads,    \* application threads
  Requests,   \* the calls they make
  NoRequest,  \* what a thread that is not in a call has instead
  NULL

VARIABLES
  store,     \* the cached schemas: their ids and definitions by pointer
  pending,   \* the call each thread is in
  subject,   \* the schema its call is about to return or to destroy, or 0
  open       \* FALSE once serdes_destroy has been called

storeVars == <<store, pending, subject, open>>

NoId == -1

Init ==
  /\ store = <<>>
  /\ pending = [t \in Threads |-> NoRequest]
  /\ subject = [t \in Threads |-> 0]
  /\ open = TRUE

\* The entries that answer a call: a get asks for an id, which no entry has
\* when it asks by name, an add for an identical definition.
Answers(r) ==
  {c \in DOMAIN store : IF r.op = "get" THEN store[c].id = r.id
                                        ELSE store[c].def = r.def}

\* An entry made for a call has the id that was asked for or assigned, and is
\* of the schema that was given.
MadeFor(r, e) ==
  /\ e.id # NoId
  /\ r.id # NoId => e.id = r.id
  /\ r.def # NULL => e.def.sym = r.def.sym

Idle(t) ==
  /\ pending' = [pending EXCEPT ![t] = NoRequest]
  /\ subject' = [subject EXCEPT ![t] = 0]

Invoke(t, r, c) ==
  /\ pending[t] = NoRequest
  /\ open
  /\ c # 0 => r.op = "destroy"
  /\ pending' = [pending EXCEPT ![t] = r]
  /\ subject' = [subject EXCEPT ![t] = c]
  /\ open' = (r.op # "teardown")
  /\ UNCHANGED store

\* A get or add returns the schema c, now or after it has been stamped.
Choose(t, c) ==
  \/ subject' = [subject EXCEPT ![t] = c] /\ UNCHANGED pending
  \/ Idle(t)

Find(t) ==
  /\ pending[t].op \in {"get", "add"}
  /\ subject[t] = 0
  /\ \E c \in Answers(pending[t]) : Choose(t, c)
  /\ UNCHANGED <<store, open>>

\* Nothing answers the call: a new entry e is made for it.
Insert(t, c, e) ==
  /\ pending[t].op \in {"get", "add"}
  /\ subject[t] = 0
  /\ open
  /\ Answers(pending[t]) = {}
  /\ c \notin DOMAIN store
  /\ MadeFor(pending[t], e)
  /\ store' = [d \in DOMAIN store \cup {c} |-> IF d = c THEN e ELSE store[d]]
  /\ Choose(t, c)
  /\ UNCHANGED open

\* The call returns: with its subject, with NULL, or having nothing to return.
\* serdes_destroy returns only when the store is empty.
Respond(t) ==
  /\ pending[t].op = "teardown" => store = <<>>
  /\ Idle(t)
  /\ UNCHANGED <<store, open>>

\* A destroy removes its schema and returns, a purge or a teardown goes on.
Remove(t, c) ==
  /\ c \in DOMAIN store
  /\ store' = [d \in DOMAIN store \ {c} |-> store[d]]
  /\ \/ pending[t].op = "destroy" /\ subject[t] = c /\ Idle(t)
     \/ /\ pending[t].op \in {"purge", "teardown"}
        /\ UNCHANGED <<pending, subject>>
  /\ UNCHANGED open

Next ==
  \E t \in Threads :
    \/ \E r \in Requests : Invoke(t, r, subject'[t])
    \/ Find(t)
    \/ \E c \in DOMAIN store' : Insert(t, c, store'[c])
    \/ Respond(t)
    \/ \E c \in DOMAIN store : Remove(t, c)

Spec == Init /\ [][Next]_storeVars
=============================================================================
