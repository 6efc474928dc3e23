-------------------------- MODULE SchemaCacheImpl --------------------------
(***************************************************************************)
(* SchemaCache implements SchemaStore.  The store is the list of linked    *)
(* schemas; a get or add takes effect where it finds a schema under        *)
(* sd_lock, or where it links a new one before it releases the lock.       *)
(***************************************************************************)
EXTENDS SchemaCache

\* The schema that a call has found or made, or was asked to destroy.
Subject(t) == IF pc[t] = "mark" \/ req[t].op = "destroy" THEN cur[t] ELSE 0

\* The store: the schemas that are in the list.
Cached == [c \in sd_schemas |-> [id |-> heap[c].id, def |-> heap[c].def]]
Subjects == [t \in Threads |-> Subject(t)]

Store == INSTANCE SchemaStore WITH
  store <- Cached, pending <- req, subject <- Subjects, open <- alive

\* Whatever threads, failing requests and purges do, every get and add takes
\* effect atomically: it returns a schema that was in the cache at one moment
\* of the call, and it inserts one only if at that moment none answers it; a
\* schema that is in the cache never changes; nothing enters the cache of a
\* handle that is being destroyed, and serdes_destroy leaves nothing in it.
ImplementsStore == Store!Spec
=============================================================================
