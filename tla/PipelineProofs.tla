--------------------------- MODULE PipelineProofs ---------------------------
(***************************************************************************)
(* Proofs about Pipeline, for every set of schemas and any number of       *)
(* lines, messages and signals.                                            *)
(***************************************************************************)
EXTENDS Pipeline, TLAPS, SequenceTheorems

-----------------------------------------------------------------------------
(***************************************************************************)
(* The inductive invariant.                                                *)
(***************************************************************************)
Messages == [n : Nat, schema : Schemas \cup {NULL}]

TypeOK ==
  /\ producer \in {"C", "C++"} /\ consumer \in {"C", "C++"}
  /\ ppc \in {"start", "loop", "blocked", "schema", "str", "json", "serialize",
              "produce", "poll", "loop_end", "flush", "exited", "crashed"}
  /\ prun \in BOOLEAN /\ cut \in BOOLEAN
  /\ schema \in Schemas \cup {NULL}
  /\ typed \in Seq([line : {"schema", "str", "json"},
                    schema : Schemas \cup {NULL}, ok : BOOLEAN])
  /\ value \subseteq 1 .. Len(typed)
  /\ buf \in Seq({"none", "app", "kafka", "freed"})
  /\ Len(buf) = Len(typed)
  /\ outq \subseteq Messages /\ log \subseteq Messages
  /\ printed \subseteq Messages
  /\ cpc \in {"start", "loop", "parse", "exited", "crashed"}

\* The schema lines among the first i of t that succeeded, the last of them,
\* and the schema that it gives.
Lines(t, i) == {j \in 1 .. i : t[j].line = "schema" /\ t[j].ok}
IsLast(t, i, j) == j \in Lines(t, i) /\ \A k \in Lines(t, i) : k <= j
ForceIn(t, i) == t[CHOOSE j \in Lines(t, i) : \A k \in Lines(t, i) : k <= j].schema

\* A schema was in force from the first line on, and the producer uses it.
ForceInv ==
  /\ \A i \in 1 .. Len(typed) : \E j \in 1 .. i : IsLast(typed, i, j)
  /\ schema # NULL => typed # <<>> /\ schema = ForceIn(typed, Len(typed))

\* Line i of t was handed over to librdkafka.
HandedOver(t, i) == i \in 1 .. Len(t) /\ t[i].ok /\ t[i].line # "schema"

\* What the places in the producer say about the line being handled.  The C++
\* producer keeps its schema.
LineInv ==
  /\ ppc = "start" => typed = <<>> /\ schema = NULL
  /\ typed = <<>> => ppc \in {"start", "exited", "crashed"}
  /\ ppc \in {"schema", "str", "json", "serialize", "produce"} =>
       typed # <<>> /\ ~typed[Len(typed)].ok
  /\ ppc = "schema" => typed[Len(typed)].line = "schema"
  /\ ppc \in {"str", "json", "serialize", "produce"} =>
       typed[Len(typed)].line # "schema"
  /\ ppc \in {"schema", "str", "json", "serialize"} => buf[Len(typed)] = "none"
  /\ ppc \in {"json", "serialize", "produce"} => schema # NULL
  /\ producer = "C" => ppc \notin {"json", "serialize", "poll"}
  /\ producer = "C++" => /\ ppc \notin {"schema", "str"}
                         /\ typed # <<>> => schema # NULL

\* A message carries the schema of its line, also on its way to the consumer,
\* who handles a message of the topic.
Carries(m) == HandedOver(typed, m.n) /\ m.schema = ForceIn(typed, m.n)

MessageInv ==
  /\ \A m \in outq \cup log \cup printed : Carries(m)
  /\ cpc = "parse" => msg \in log

\* Only the line being handled has a buffer that is the application's, and
\* the values that are left are those of lines that failed.
BufferInv ==
  /\ \A i \in 1 .. Len(buf) :
       buf[i] = "app" => ppc \in {"produce", "crashed"} /\ i = Len(typed)
  /\ \A i \in value :
       /\ ~typed[i].ok /\ typed[i].line # "schema"
       /\ buf[i] = "none" \/ (ppc \in {"produce", "crashed"} /\ i = Len(typed))

\* What was handed over is in the queue until it is settled.
SettledInv ==
  /\ \A i \in 1 .. Len(typed) : HandedOver(typed, i) =>
       \/ i \in settled
       \/ \E m \in outq : m.n = i
       \/ producer = "C" /\ cut
  /\ producer = "C" \/ ppc = "start" => reports = {}
  /\ ppc = "flush" /\ producer = "C" /\ ~prun => cut
  /\ ppc = "exited" => /\ outq = {} /\ reports = {}
                       /\ \A i \in 1 .. Len(buf) : buf[i] \in {"none", "freed"}

IInv ==
  /\ TypeOK
  /\ ForceInv
  /\ LineInv
  /\ MessageInv
  /\ BufferInv
  /\ SettledInv
-----------------------------------------------------------------------------
(***************************************************************************)
(* The schema in force.                                                    *)
(***************************************************************************)

\* InForce, as a function of the lines.
LEMMA InForceOfTyped ==
  \A i : InForce(i) = ForceIn(typed, i)
BY DEF InForce, ForceIn, Lines

\* There is one last line.
LEMMA ForceOfLast ==
  ASSUME NEW t, NEW i \in Nat, NEW j, IsLast(t, i, j)
  PROVE  ForceIn(t, i) = t[j].schema
<1> DEFINE c == CHOOSE k \in Lines(t, i) : \A l \in Lines(t, i) : l <= k
<1>1. c \in Lines(t, i) /\ \A l \in Lines(t, i) : l <= c
  BY DEF IsLast
<1>2. c \in Int /\ j \in Int /\ j \in Lines(t, i)
  BY <1>1 DEF IsLast, Lines
<1>3. c <= j /\ j <= c
  BY <1>1, <1>2 DEF IsLast
<1>4. c = j
  BY <1>2, <1>3
<1> QED BY <1>4 DEF ForceIn

\* It only depends on the lines, and on the success of the schema lines.
LEMMA ForceSame ==
  ASSUME NEW t, NEW u, NEW i \in Nat, NEW j, IsLast(t, i, j),
         \A k \in 1 .. i : /\ u[k].line = t[k].line /\ u[k].schema = t[k].schema
                           /\ t[k].line = "schema" => u[k].ok = t[k].ok
  PROVE  IsLast(u, i, j) /\ ForceIn(u, i) = ForceIn(t, i)
<1>1. Lines(u, i) = Lines(t, i)
  BY DEF Lines
<1>2. IsLast(u, i, j)
  BY <1>1 DEF IsLast
<1>3. u[j].schema = t[j].schema
  BY DEF IsLast, Lines
<1> QED BY <1>2, <1>3, ForceOfLast

\* A line that has not succeeded does not change it.
LEMMA ForceOfNewLine ==
  ASSUME NEW t, NEW i \in Nat, NEW j, IsLast(t, i, j), ~t[i + 1].ok
  PROVE  IsLast(t, i + 1, j) /\ ForceIn(t, i + 1) = ForceIn(t, i)
<1>1. Lines(t, i + 1) = Lines(t, i)
  BY DEF Lines
<1>2. IsLast(t, i + 1, j)
  BY <1>1 DEF IsLast
<1>3. i + 1 \in Nat
  OBVIOUS
<1> QED BY <1>2, <1>3, ForceOfLast

\* How the lines change in any step: more may come, and the last one may turn
\* out to have succeeded.
Evolve ==
  /\ Len(typed') >= Len(typed)
  /\ \A k \in 1 .. Len(typed) :
       /\ typed'[k].line = typed[k].line /\ typed'[k].schema = typed[k].schema
       /\ typed[k].ok => typed'[k].ok
       /\ k # Len(typed) => typed'[k].ok = typed[k].ok

\* In no step does the schema that was in force at a line change once the
\* line was handed over.
LEMMA ForceKept ==
  ASSUME TypeOK, TypeOK', ForceInv, Evolve
  PROVE  \A i : HandedOver(typed, i) =>
           HandedOver(typed', i) /\ ForceIn(typed', i) = ForceIn(typed, i)
<1> SUFFICES ASSUME NEW i, HandedOver(typed, i)
             PROVE  /\ HandedOver(typed', i)
                    /\ ForceIn(typed', i) = ForceIn(typed, i)
  OBVIOUS
<1>1. Len(typed) \in Nat /\ Len(typed') \in Nat
  BY DEF TypeOK
<1>2. i \in 1 .. Len(typed) /\ typed[i].ok /\ typed[i].line # "schema"
  BY DEF HandedOver
<1>3. HandedOver(typed', i)
  BY <1>1, <1>2 DEF HandedOver, Evolve
<1>4. PICK j \in 1 .. i : IsLast(typed, i, j)
  BY <1>2 DEF ForceInv
<1>5. \A k \in 1 .. i : /\ typed'[k].line = typed[k].line
                        /\ typed'[k].schema = typed[k].schema
                        /\ typed[k].line = "schema" => typed'[k].ok = typed[k].ok
  BY <1>1, <1>2 DEF Evolve
<1>6. ForceIn(typed', i) = ForceIn(typed, i)
  BY <1>1, <1>2, <1>4, <1>5, ForceSame
<1> QED BY <1>3, <1>6

\* ForceInv depends on the lines and the schema only.
LEMMA ForceInvKept ==
  ASSUME ForceInv, UNCHANGED <<schema, typed>>
  PROVE  ForceInv'
BY DEF ForceInv

\* The lines do not change.
LEMMA NoEvolution ==
  ASSUME TypeOK, UNCHANGED typed
  PROVE  Evolve
BY DEF Evolve, TypeOK

\* The messages do not change.
LEMMA MessagesKept ==
  ASSUME IInv, TypeOK', Evolve, UNCHANGED <<outq, log, printed, msg, cpc>>
  PROVE  MessageInv'
<1>1. \A i : HandedOver(typed, i) =>
        HandedOver(typed', i) /\ ForceIn(typed', i) = ForceIn(typed, i)
  BY ForceKept DEF IInv
<1> QED BY <1>1 DEF IInv, MessageInv, Carries

\* A step of the consumer or of librdkafka that leaves the producer and its
\* queue alone.
LEMMA ProducerKept ==
  ASSUME IInv,
         UNCHANGED <<producer, ppc, prun, cut, schema, typed, value, buf, outq,
                     reports, settled>>
  PROVE  ForceInv' /\ LineInv' /\ BufferInv' /\ SettledInv'
<1>1. ForceInv'
  BY ForceInvKept DEF IInv
<1>2. LineInv'
  BY DEF IInv, LineInv
<1>3. BufferInv'
  BY DEF IInv, BufferInv
<1>4. SettledInv'
  BY DEF IInv, SettledInv, HandedOver
<1> QED BY <1>1, <1>2, <1>3, <1>4
-----------------------------------------------------------------------------
(***************************************************************************)
(* The steps of the producer.                                              *)
(***************************************************************************)

\* The initial states satisfy IInv.
LEMMA InitIInv ==
  ASSUME Init
  PROVE  IInv
<1>1. TypeOK
  <2>1. PICK p \in Programs : producer = p[1] /\ consumer = p[2]
    BY DEF Init
  <2>2. p \in {"C", "C++"} \X {"C", "C++"}
    BY PipelineAssumption
  <2>3. producer \in {"C", "C++"} /\ consumer \in {"C", "C++"}
    BY <2>1, <2>2
  <2>4. Len(typed) = 0 /\ Len(buf) = 0
    BY DEF Init
  <2>5. \A S : <<>> \in Seq(S)
    OBVIOUS
  <2>6. typed \in Seq([line : {"schema", "str", "json"},
                      schema : Schemas \cup {NULL}, ok : BOOLEAN])
    BY <2>5 DEF Init
  <2> QED BY <2>3, <2>4, <2>5, <2>6 DEF Init, TypeOK
<1>2. ForceInv /\ LineInv /\ MessageInv
  BY DEF Init, ForceInv, LineInv, MessageInv
<1>3. BufferInv /\ SettledInv
  BY DEF Init, BufferInv, SettledInv
<1> QED BY <1>1, <1>2, <1>3 DEF IInv

\* Nothing was handed over before the producer has a schema.
LEMMA StartIsEmpty ==
  ASSUME IInv, ppc = "start"
  PROVE  outq = {} /\ Len(buf) = 0
<1>1. Len(typed) = 0 /\ Len(buf) = 0
  BY DEF IInv, LineInv, TypeOK
<1>2. \A m \in outq : m.n \in 1 .. 0
  BY <1>1 DEF IInv, MessageInv, Carries, HandedOver
<1> QED BY <1>1, <1>2

\* The first schema is in force from the first line on.
LEMMA SetupStep ==
  ASSUME IInv, NEW s \in Schemas, ProducerSetup(s)
  PROVE  IInv'
<1> USE DEF regVars, inputVars, kafkaVars, consumerVars
<1>1. typed = <<>> /\ schema = NULL /\ value = {} /\ Len(typed) = 0
  BY DEF IInv, TypeOK, LineInv, ProducerSetup
<1>2. /\ typed' = <<[line |-> "schema", schema |-> s, ok |-> TRUE]>>
      /\ buf' = <<"none">> /\ schema' = s /\ ppc' = "loop"
      /\ UNCHANGED <<producer, consumer, prun, cut, value, outq, reports, settled,
                     log, cpc, msg, printed>>
  BY DEF ProducerSetup
<1>3. Len(typed') = 1 /\ Len(buf') = 1 /\ typed'[1].line = "schema" /\ typed'[1].ok
      /\ typed'[1].schema = s /\ buf'[1] = "none" /\ typed' # <<>>
  BY <1>2
<1>4. TypeOK'
  <2>1. TypeOK
    BY DEF IInv
  <2>2. typed' \in Seq([line : {"schema", "str", "json"},
                        schema : Schemas \cup {NULL}, ok : BOOLEAN])
    BY <1>2
  <2> QED BY <1>1, <1>2, <1>3, <2>1, <2>2 DEF TypeOK
<1>5. ForceInv'
  <2>1. IsLast(typed', 1, 1)
    BY <1>3 DEF IsLast, Lines
  <2>2. ForceIn(typed', 1) = s
    BY <1>3, <2>1, ForceOfLast
  <2> QED BY <1>2, <1>3, <2>1, <2>2 DEF ForceInv
<1>6. LineInv'
  BY <1>2, <1>3, PipelineAssumption DEF LineInv, IInv
<1>7. MessageInv'
  <2>1. Evolve
    BY <1>1, <1>3 DEF Evolve
  <2> QED BY <1>2, <1>4, <2>1, MessagesKept
<1>8. BufferInv'
  BY <1>1, <1>2, <1>3 DEF BufferInv
<1>9. SettledInv'
  BY <1>2, <1>3 DEF IInv, SettledInv, HandedOver
<1> QED BY <1>4, <1>5, <1>6, <1>7, <1>8, <1>9 DEF IInv

\* The steps that only move the producer, or change its run or its input.
LEMMA MoveStep ==
  ASSUME IInv,
         \/ ProducerFatal \/ LoopCondition \/ EndOfInput \/ OtherLine
         \/ Poll \/ LoopEnd \/ Signal
  PROVE  IInv'
<1> USE DEF regVars, inputVars, workVars, kafkaVars, consumerVars
<1>1. UNCHANGED <<producer, consumer, schema, typed, value, buf, outq, settled, log,
                  cpc, msg, printed>>
  BY DEF ProducerFatal, LoopCondition, EndOfInput, OtherLine, Poll, LoopEnd, Signal
<1>2. TypeOK
  BY DEF IInv
<1>3. \/ ppc = "start" /\ ppc' = "exited" /\ UNCHANGED <<prun, cut, reports>>
      \/ ppc = "loop" /\ ppc' \in {"blocked", "loop_end"}
         /\ UNCHANGED <<prun, cut, reports>>
      \/ ppc = "blocked" /\ ppc' \in {"loop", "loop_end"}
         /\ UNCHANGED <<prun, cut, reports>>
      \/ ppc = "poll" /\ ppc' = "loop" /\ reports' = {} /\ UNCHANGED <<prun, cut>>
      \/ ppc = "flush" /\ ppc' = "flush" /\ reports' = {} /\ UNCHANGED <<prun, cut>>
      \/ /\ ppc = "loop_end" /\ ppc' = "flush" /\ UNCHANGED <<cut, reports>>
         /\ prun' = IF producer = "C" THEN TRUE ELSE prun
      \/ /\ ppc # "exited" /\ ppc' \in {ppc, "crashed"} /\ prun' = FALSE /\ reports' = reports
         /\ cut' \in BOOLEAN /\ (cut => cut') /\ (ppc = "flush" => cut')
  BY <1>2 DEF TypeOK, ProducerFatal, LoopCondition, EndOfInput, OtherLine, Poll, LoopEnd, Signal
<1>4. TypeOK'
  <2>1. prun' \in BOOLEAN /\ cut' \in BOOLEAN
    BY <1>2, <1>3 DEF TypeOK
  <2>2. ppc' \in {"start", "loop", "blocked", "schema", "str", "json", "serialize",
                  "produce", "poll", "loop_end", "flush", "exited", "crashed"}
    BY <1>2, <1>3 DEF TypeOK
  <2> QED BY <1>1, <1>2, <2>1, <2>2 DEF TypeOK
<1>5. ForceInv'
  BY <1>1, ForceInvKept DEF IInv
<1>6. LineInv'
  BY <1>1, <1>3 DEF IInv, LineInv
<1>7. MessageInv'
  BY <1>1, <1>2, <1>4, MessagesKept, NoEvolution
<1>8. BufferInv'
  BY <1>1, <1>3 DEF IInv, BufferInv
<1>9. SettledInv'
  <2>1. \A i \in 1 .. Len(typed) : HandedOver(typed, i) =>
          \/ i \in settled \/ \E m \in outq : m.n = i
          \/ producer = "C" /\ cut'
    BY <1>3 DEF IInv, SettledInv
  <2>2. producer = "C" => reports' = {}
    BY <1>3 DEF IInv, SettledInv
  <2>3. ppc' = "flush" /\ producer = "C" /\ ~prun' => cut'
    BY <1>3 DEF IInv, SettledInv
  <2>4. ppc' = "exited" => ppc = "start" /\ reports' = reports
    BY <1>3
  <2>5. ppc = "start" => outq = {} /\ Len(buf) = 0
    BY StartIsEmpty
  <2>6. ppc' = "start" \/ ppc' = "exited" => reports' = {}
    BY <1>3 DEF IInv, SettledInv
  <2> QED BY <1>1, <2>1, <2>2, <2>3, <2>4, <2>5, <2>6 DEF SettledInv
<1> QED BY <1>4, <1>5, <1>6, <1>7, <1>8, <1>9 DEF IInv

\* A new line has not succeeded yet, so that the same schema stays in force.
LEMMA LineStep ==
  ASSUME IInv, NEW kind, NEW s \in Schemas \cup {NULL}, Line(kind, s)
  PROVE  IInv'
<1> USE DEF regVars, inputVars, kafkaVars, consumerVars
<1> DEFINE N == Len(typed)
           new == [line |-> kind, schema |-> s, ok |-> FALSE]
<1>1. /\ typed' = Append(typed, new) /\ buf' = Append(buf, "none")
      /\ UNCHANGED <<producer, consumer, prun, cut, schema, value, outq, reports,
                     settled, log, cpc, msg, printed>>
  BY DEF Line
<1>2. /\ ppc = "blocked" /\ kind \in {"schema", "str", "json"}
      /\ ppc' = IF kind = "other" THEN "loop" ELSE kind
      /\ producer = "C" => kind # "json"
      /\ producer # "C" => kind = "json"
  BY DEF Line, LineKinds
<1>3. TypeOK
  BY DEF IInv
<1>4. N \in Nat /\ Len(buf) = N
  BY <1>3 DEF TypeOK
<1>5. /\ typed' \in Seq([line : {"schema", "str", "json"},
                         schema : Schemas \cup {NULL}, ok : BOOLEAN])
      /\ Len(typed') = N + 1 /\ typed' # <<>>
      /\ \A i \in 1 .. N : typed'[i] = typed[i]
      /\ typed'[N + 1] = new
  <2>1. new \in [line : {"schema", "str", "json"},
                 schema : Schemas \cup {NULL}, ok : BOOLEAN]
    BY <1>2
  <2> DEFINE T == [line : {"schema", "str", "json"},
                   schema : Schemas \cup {NULL}, ok : BOOLEAN]
  <2>2. typed \in Seq(T) /\ new \in T
    BY <1>3, <2>1 DEF TypeOK
  <2> HIDE DEF new, T
  <2>3. /\ Append(typed, new) \in Seq(T)
        /\ Append(typed, new) # <<>>
        /\ Len(Append(typed, new)) = N + 1
        /\ \A i \in 1 .. N : Append(typed, new)[i] = typed[i]
        /\ Append(typed, new)[N + 1] = new
    BY <2>2, AppendProperties
  <2> QED BY <1>1, <2>3 DEF T
<1>6. /\ buf' \in Seq({"none", "app", "kafka", "freed"})
      /\ Len(buf') = N + 1
      /\ \A i \in 1 .. N : buf'[i] = buf[i]
      /\ buf'[N + 1] = "none"
  BY <1>1, <1>3, <1>4, AppendProperties DEF TypeOK
<1>7. typed'[N + 1].line = kind /\ typed'[N + 1].ok = FALSE
  BY <1>5
<1> HIDE DEF new
<1>8. TypeOK'
  BY <1>1, <1>2, <1>3, <1>4, <1>5, <1>6 DEF TypeOK
<1>9. Evolve
  BY <1>4, <1>5 DEF Evolve
<1>10. ForceInv'
  <2>1. ASSUME NEW i \in 1 .. N, NEW j, IsLast(typed, i, j)
        PROVE  IsLast(typed', i, j) /\ ForceIn(typed', i) = ForceIn(typed, i)
    <3>1. \A k \in 1 .. i : typed'[k] = typed[k]
      BY <1>4, <1>5
    <3>2. i \in Nat
      BY <1>4
    <3> QED BY <2>1, <3>1, <3>2, ForceSame
  <2>2. \A i \in 1 .. N : \E j \in 1 .. i : IsLast(typed', i, j)
    BY <2>1 DEF IInv, ForceInv
  <2>3. N # 0
    <3>1. ppc # "start"
      BY <1>2
    <3> QED BY <1>2, <1>3, <3>1 DEF IInv, LineInv, TypeOK
  <2>4. PICK j \in 1 .. N : IsLast(typed, N, j)
    BY <1>4, <2>3 DEF IInv, ForceInv
  <2>5. IsLast(typed', N, j) /\ ForceIn(typed', N) = ForceIn(typed, N)
    BY <1>4, <2>1, <2>3, <2>4
  <2>6. IsLast(typed', N + 1, j) /\ ForceIn(typed', N + 1) = ForceIn(typed, N)
    BY <1>4, <1>7, <2>5, ForceOfNewLine
  <2>7. \A i \in 1 .. N + 1 : \E k \in 1 .. i : IsLast(typed', i, k)
    BY <1>4, <2>2, <2>4, <2>6
  <2>8. schema' # NULL => schema' = ForceIn(typed', Len(typed'))
    BY <1>1, <1>5, <2>6 DEF IInv, ForceInv
  <2> QED BY <1>5, <2>7, <2>8 DEF ForceInv
<1>11. LineInv'
  <2>1. typed # <<>> /\ ppc' \in {"loop", "schema", "str", "json"}
    BY <1>2 DEF IInv, LineInv
  <2>2. producer = "C++" => kind = "json" /\ schema # NULL
    BY <1>2, <2>1 DEF IInv, LineInv
  <2>3. producer # "C++" => kind # "json"
    BY <1>2, <1>3 DEF TypeOK
  <2>4. ppc' # "loop" => ppc' = kind
    BY <1>2
  <2>5. buf'[Len(typed')] = "none" /\ ~typed'[Len(typed')].ok
        /\ typed'[Len(typed')].line = kind
    BY <1>5, <1>6, <1>7
  <2>6. schema' = schema /\ producer' = producer /\ typed' # <<>>
    BY <1>1, <1>5
  <2> QED BY <2>1, <2>2, <2>3, <2>4, <2>5, <2>6 DEF LineInv
<1>12. MessageInv'
  BY <1>1, <1>8, <1>9, MessagesKept
<1>13. BufferInv'
  BY <1>1, <1>2, <1>3, <1>4, <1>5, <1>6 DEF IInv, BufferInv, TypeOK
<1>14. SettledInv'
  <2>1. \A i \in 1 .. N + 1 : HandedOver(typed', i) => HandedOver(typed, i)
    BY <1>4, <1>5, <1>7 DEF HandedOver
  <2>2. \A i \in 1 .. N + 1 : HandedOver(typed', i) =>
          \/ i \in settled \/ \E m \in outq : m.n = i
          \/ producer = "C" /\ cut
    BY <2>1 DEF IInv, SettledInv, HandedOver
  <2>3. ppc' \notin {"flush", "exited", "start"}
    BY <1>2
  <2> QED BY <1>1, <1>5, <2>2, <2>3 DEF IInv, SettledInv
<1> QED BY <1>8, <1>10, <1>11, <1>12, <1>13, <1>14 DEF IInv

\* A schema line that succeeds is the last one, and its schema is used.
LEMMA SchemaLineStep ==
  ASSUME IInv, NEW ok \in BOOLEAN, SchemaLine(ok)
  PROVE  IInv'
<1> USE DEF regVars, inputVars, kafkaVars, consumerVars
<1> DEFINE N == Len(typed)
<1>1. /\ ppc = "schema" /\ ppc' = "loop"
      /\ typed' = [typed EXCEPT ![N].ok = ok]
      /\ schema' = IF ok THEN typed[N].schema ELSE NULL
      /\ UNCHANGED <<producer, consumer, prun, cut, value, buf, outq, reports,
                     settled, log, cpc, msg, printed>>
  BY DEF SchemaLine, n
<1>2. TypeOK
  BY DEF IInv
<1>3. N \in Nat \ {0} /\ ~typed[N].ok /\ typed[N].line = "schema"
  BY <1>1, <1>2 DEF IInv, LineInv, TypeOK
<1>4. typed[N] \in [line : {"schema", "str", "json"},
                    schema : Schemas \cup {NULL}, ok : BOOLEAN]
  <2>1. N \in 1 .. Len(typed)
    BY <1>3
  <2> QED BY <1>2, <2>1, ElementOfSeq DEF TypeOK
<1>5. /\ typed' \in Seq([line : {"schema", "str", "json"},
                         schema : Schemas \cup {NULL}, ok : BOOLEAN])
      /\ Len(typed') = N
      /\ \A i \in 1 .. N : typed'[i] = IF i = N THEN [typed[N] EXCEPT !.ok = ok]
                                       ELSE typed[i]
  <2>1. typed' = [typed EXCEPT ![N] = [typed[N] EXCEPT !.ok = ok]]
    BY <1>1
  <2>2. [typed[N] EXCEPT !.ok = ok] \in [line : {"schema", "str", "json"},
                                         schema : Schemas \cup {NULL}, ok : BOOLEAN]
    BY <1>4
  <2>3. N \in 1 .. Len(typed)
    BY <1>3
  <2> QED BY <1>2, <2>1, <2>2, <2>3, ExceptSeq DEF TypeOK
<1>6. /\ typed'[N].line = "schema" /\ typed'[N].ok = ok
      /\ typed'[N].schema = typed[N].schema
  BY <1>3, <1>4, <1>5
<1>7. TypeOK'
  <2>1. schema' \in Schemas \cup {NULL}
    BY <1>1, <1>4
  <2> QED BY <1>1, <1>2, <1>5, <2>1 DEF TypeOK
<1>8. Evolve
  BY <1>3, <1>5, <1>6 DEF Evolve
<1>9. ForceInv'
  <2>1. ASSUME NEW i \in 1 .. N - 1
        PROVE  \E j \in 1 .. i : IsLast(typed', i, j)
    <3>1. PICK j \in 1 .. i : IsLast(typed, i, j)
      BY <1>3, <2>1 DEF IInv, ForceInv
    <3>2. i \in Nat /\ \A k \in 1 .. i : typed'[k] = typed[k]
      BY <1>3, <1>5, <2>1
    <3> QED BY <3>1, <3>2, ForceSame
  <2>2. CASE ok = TRUE
    <3>1. IsLast(typed', N, N)
      <4>1. typed'[N].line = "schema" /\ typed'[N].ok = TRUE
        BY <1>6, <2>2
      <4>2. N \in Lines(typed', N)
        BY <1>3, <4>1 DEF Lines
      <4> QED BY <1>3, <4>2 DEF IsLast, Lines
    <3>2. ForceIn(typed', N) = schema'
      BY <1>1, <1>3, <1>6, <2>2, <3>1, ForceOfLast
    <3>3. \A i \in 1 .. N : \E j \in 1 .. i : IsLast(typed', i, j)
      BY <1>3, <2>1, <3>1
    <3>4. typed' # <<>>
      BY <1>3, <1>5
    <3> QED BY <1>5, <3>2, <3>3, <3>4 DEF ForceInv
  <2>3. CASE ok = FALSE
    <3>1. \A k \in 1 .. N : /\ typed'[k].line = typed[k].line
                            /\ typed'[k].schema = typed[k].schema
                            /\ typed[k].line = "schema" => typed'[k].ok = typed[k].ok
      BY <1>3, <1>4, <1>5, <1>6, <2>3
    <3>2. PICK j \in 1 .. N : IsLast(typed, N, j)
      BY <1>3 DEF IInv, ForceInv
    <3>3. IsLast(typed', N, j)
      BY <1>3, <3>1, <3>2, ForceSame
    <3>4. \A i \in 1 .. N : \E k \in 1 .. i : IsLast(typed', i, k)
      BY <1>3, <2>1, <3>2, <3>3
    <3> QED BY <1>1, <1>5, <2>3, <3>4 DEF ForceInv
  <2> QED BY <2>2, <2>3
<1>10. LineInv'
  BY <1>1, <1>3 DEF IInv, LineInv
<1>11. MessageInv'
  BY <1>1, <1>7, <1>8, MessagesKept
<1>12. BufferInv'
  <2>1. \A i \in value : i \in 1 .. N /\ i # N
    BY <1>2, <1>3 DEF IInv, TypeOK, BufferInv
  <2>2. \A i \in value : typed'[i] = typed[i]
    BY <1>5, <2>1
  <2> QED BY <1>1, <1>5, <2>1, <2>2 DEF IInv, BufferInv
<1>13. SettledInv'
  <2>1. \A i \in 1 .. N : HandedOver(typed', i) => HandedOver(typed, i)
    BY <1>5, <1>6 DEF HandedOver
  <2> QED BY <1>1, <1>5, <2>1 DEF IInv, SettledInv
<1> QED BY <1>7, <1>9, <1>10, <1>11, <1>12, <1>13 DEF IInv

\* A value is made or released, and a buffer may come or go with it; the line
\* has not succeeded, and no message is concerned.
LEMMA ValueStep ==
  ASSUME IInv,
         \/ \E ok \in BOOLEAN : StrLine(ok) \/ Json2Avro(ok) \/ Serialize(ok)
         \/ ProduceFail
  PROVE  IInv'
<1> USE DEF regVars, inputVars, kafkaVars, consumerVars
<1> DEFINE N == Len(typed)
<1>1. UNCHANGED <<producer, consumer, prun, cut, schema, typed, outq, reports,
                  settled, log, cpc, msg, printed>>
  BY DEF StrLine, Json2Avro, Serialize, ProduceFail
<1>2. \/ /\ ppc \in {"str", "json"} /\ value' = value \cup {N} /\ buf' = buf
         /\ ppc' \in {"crashed", "loop", "serialize"}
         /\ ppc' = "serialize" => ppc = "json"
      \/ /\ ppc \in {"str", "serialize"} /\ ppc' = "produce" /\ schema # NULL
         /\ value' \in {value \cup {N}, value \ {N}}
         /\ buf' = [buf EXCEPT ![N] = "app"]
      \/ ppc = "serialize" /\ ppc' = "loop" /\ value' = value \ {N} /\ buf' = buf
      \/ /\ ppc = "produce" /\ ppc' \in {"loop", "loop_end"}
         /\ value' = value \ {N} /\ buf' = [buf EXCEPT ![N] = "freed"]
  <2>1. ASSUME NEW ok \in BOOLEAN, StrLine(ok)
        PROVE  /\ ppc = "str" /\ value' = value \cup {N}
               /\ \/ ppc' \in {"crashed", "loop"} /\ buf' = buf
                  \/ /\ ppc' = "produce" /\ schema # NULL
                     /\ buf' = [buf EXCEPT ![N] = "app"]
    BY <2>1 DEF StrLine, n
  <2>2. ASSUME NEW ok \in BOOLEAN, Json2Avro(ok)
        PROVE  /\ ppc = "json" /\ value' = value \cup {N} /\ buf' = buf
               /\ ppc' \in {"serialize", "loop"}
    BY <2>2 DEF Json2Avro, n
  <2>3. ASSUME NEW ok \in BOOLEAN, Serialize(ok)
        PROVE  /\ ppc = "serialize" /\ value' = value \ {N} /\ schema # NULL
               /\ \/ ppc' = "loop" /\ buf' = buf
                  \/ ppc' = "produce" /\ buf' = [buf EXCEPT ![N] = "app"]
    BY <2>3 DEF Serialize, n, IInv, LineInv
  <2>4. ASSUME ProduceFail
        PROVE  /\ ppc = "produce" /\ ppc' \in {"loop", "loop_end"}
               /\ value' = value \ {N} /\ buf' = [buf EXCEPT ![N] = "freed"]
    BY <2>4 DEF ProduceFail, n
  <2> QED BY <2>1, <2>2, <2>3, <2>4
<1>3. TypeOK
  BY DEF IInv
<1>4. N \in Nat \ {0} /\ ~typed[N].ok /\ typed[N].line # "schema" /\ Len(buf) = N
  BY <1>2, <1>3 DEF IInv, LineInv, TypeOK
<1>5. /\ buf' \in Seq({"none", "app", "kafka", "freed"}) /\ Len(buf') = N
      /\ \A i \in 1 .. N : i # N => buf'[i] = buf[i]
      /\ buf' = buf \/ (ppc' = "produce" /\ buf'[N] = "app") \/ buf'[N] = "freed"
  <2>1. N \in 1 .. Len(buf)
    BY <1>4
  <2>2. ASSUME NEW x \in {"app", "freed"}, buf' = [buf EXCEPT ![N] = x]
        PROVE  /\ buf' \in Seq({"none", "app", "kafka", "freed"}) /\ Len(buf') = N
               /\ \A i \in 1 .. N : i # N => buf'[i] = buf[i]
               /\ buf'[N] = x
    BY <1>3, <1>4, <2>1, <2>2, ExceptSeq DEF TypeOK
  <2> QED BY <1>2, <1>3, <1>4, <2>2 DEF TypeOK
<1>6. TypeOK'
  <2>1. value' \subseteq 1 .. N
    <3>1. value' \subseteq value \cup {N}
      BY <1>2
    <3>2. value \subseteq 1 .. N
      BY <1>3 DEF TypeOK
    <3> QED BY <1>4, <3>1, <3>2
  <2>2. ppc' \in {"loop", "serialize", "produce", "loop_end", "crashed"}
    BY <1>2
  <2> QED BY <1>1, <1>3, <1>4, <1>5, <2>1, <2>2 DEF TypeOK
<1>7. ForceInv'
  BY <1>1, ForceInvKept DEF IInv
<1>8. LineInv'
  <2>1. typed # <<>>
    BY <1>2 DEF IInv, LineInv
  <2>2. ppc' \in {"loop", "serialize", "produce", "loop_end", "crashed"}
    BY <1>2
  <2>3. ppc' \in {"serialize", "produce"} => schema # NULL
    BY <1>2 DEF IInv, LineInv
  <2>4. ppc' = "serialize" => producer # "C" /\ buf'[N] = "none"
    BY <1>2 DEF IInv, LineInv
  <2> QED BY <1>1, <1>4, <2>1, <2>2, <2>3, <2>4 DEF IInv, LineInv
<1>9. MessageInv'
  BY <1>1, <1>3, <1>6, MessagesKept, NoEvolution
<1>10. BufferInv'
  <2>1. \A i \in 1 .. N : buf'[i] = "app" => ppc' = "produce" /\ i = N
    BY <1>2, <1>4, <1>5 DEF IInv, BufferInv
  <2>2. \A i \in value' : i \in value \/ i = N
    BY <1>2
  <2>3. \A i \in value' : ~typed[i].ok /\ typed[i].line # "schema"
    BY <1>4, <2>2 DEF IInv, BufferInv
  <2>4. \A i \in value' : i # N => buf'[i] = "none"
    BY <1>3, <1>4, <1>5, <2>2 DEF IInv, BufferInv, TypeOK
  <2>5. N \in value' => buf'[N] = "none" \/ ppc' = "produce"
    BY <1>2 DEF IInv, LineInv
  <2> QED BY <1>1, <1>5, <2>1, <2>3, <2>4, <2>5 DEF BufferInv
<1>11. SettledInv'
  <2>1. ppc' \notin {"flush", "exited", "start"}
    BY <1>2
  <2> QED BY <1>1, <2>1 DEF IInv, SettledInv
<1> QED BY <1>6, <1>7, <1>8, <1>9, <1>10, <1>11 DEF IInv

\* The message that is handed over has the schema that is in force.
LEMMA ProduceStep ==
  ASSUME IInv, ProduceOk
  PROVE  IInv'
<1> USE DEF regVars, inputVars, kafkaVars, consumerVars
<1> DEFINE N == Len(typed)
           m == [n |-> N, schema |-> schema]
<1>1. /\ ppc = "produce" /\ ppc' \in {"loop", "poll"}
      /\ ppc' = "poll" => producer # "C"
      /\ typed' = [typed EXCEPT ![N].ok = TRUE]
      /\ buf' = [buf EXCEPT ![N] = "kafka"]
      /\ outq' = outq \cup {m}
      /\ value' = value \ {N}
      /\ UNCHANGED <<producer, consumer, prun, cut, schema, reports, settled, log,
                     cpc, msg, printed>>
  BY DEF ProduceOk, n
<1>2. TypeOK
  BY DEF IInv
<1>3. N \in Nat \ {0} /\ ~typed[N].ok /\ typed[N].line # "schema" /\ schema # NULL
      /\ N \in 1 .. Len(typed) /\ N \in 1 .. Len(buf) /\ Len(buf) = N /\ typed # <<>>
  BY <1>1, <1>2 DEF IInv, LineInv, TypeOK
<1>4. typed[N] \in [line : {"schema", "str", "json"},
                    schema : Schemas \cup {NULL}, ok : BOOLEAN]
  BY <1>2, <1>3, ElementOfSeq DEF TypeOK
<1>5. /\ typed' \in Seq([line : {"schema", "str", "json"},
                         schema : Schemas \cup {NULL}, ok : BOOLEAN])
      /\ Len(typed') = N
      /\ \A i \in 1 .. N : typed'[i] = IF i = N THEN [typed[N] EXCEPT !.ok = TRUE]
                                       ELSE typed[i]
  <2>1. typed' = [typed EXCEPT ![N] = [typed[N] EXCEPT !.ok = TRUE]]
    BY <1>1
  <2>2. [typed[N] EXCEPT !.ok = TRUE] \in [line : {"schema", "str", "json"},
                                           schema : Schemas \cup {NULL}, ok : BOOLEAN]
    BY <1>4
  <2> QED BY <1>2, <1>3, <2>1, <2>2, ExceptSeq DEF TypeOK
<1>6. /\ typed'[N].line = typed[N].line /\ typed'[N].ok
      /\ typed'[N].schema = typed[N].schema
  BY <1>3, <1>4, <1>5
<1>7. /\ buf' \in Seq({"none", "app", "kafka", "freed"}) /\ Len(buf') = N
      /\ \A i \in 1 .. N : buf'[i] = IF i = N THEN "kafka" ELSE buf[i]
  BY <1>1, <1>2, <1>3, ExceptSeq DEF TypeOK
<1>8. m \in Messages /\ m.n = N /\ m.schema = schema
  BY <1>2, <1>3 DEF Messages, TypeOK
<1> HIDE DEF m
<1>9. TypeOK'
  <2>1. value' \subseteq 1 .. N
    BY <1>1, <1>2 DEF TypeOK
  <2> QED BY <1>1, <1>2, <1>3, <1>5, <1>7, <1>8, <2>1 DEF TypeOK
<1>10. Evolve
  BY <1>3, <1>5, <1>6 DEF Evolve
<1>11. \A i, j : i \in 1 .. N /\ IsLast(typed, i, j) =>
         IsLast(typed', i, j) /\ ForceIn(typed', i) = ForceIn(typed, i)
  <2> SUFFICES ASSUME NEW i \in 1 .. N, NEW j, IsLast(typed, i, j)
               PROVE  IsLast(typed', i, j) /\ ForceIn(typed', i) = ForceIn(typed, i)
    OBVIOUS
  <2>1. \A k \in 1 .. i : /\ typed'[k].line = typed[k].line
                          /\ typed'[k].schema = typed[k].schema
                          /\ typed[k].line = "schema" => typed'[k].ok = typed[k].ok
    BY <1>3, <1>5, <1>6
  <2>2. i \in Nat
    BY <1>3
  <2> QED BY <2>1, <2>2, ForceSame
<1>12. ForceInv'
  <2>1. \A i \in 1 .. N : \E j \in 1 .. i : IsLast(typed', i, j)
    BY <1>11 DEF IInv, ForceInv
  <2>2. ForceIn(typed', N) = ForceIn(typed, N)
    BY <1>3, <1>11 DEF IInv, ForceInv
  <2>3. typed' # <<>>
    BY <1>3, <1>5
  <2> QED BY <1>1, <1>5, <2>1, <2>2, <2>3 DEF IInv, ForceInv
<1>13. LineInv'
  <2>1. typed' # <<>>
    BY <1>3, <1>5
  <2> QED BY <1>1, <1>3, <2>1 DEF IInv, LineInv
<1>14. \A i : HandedOver(typed, i) =>
         HandedOver(typed', i) /\ ForceIn(typed', i) = ForceIn(typed, i)
  BY <1>2, <1>9, <1>10, ForceKept DEF IInv
<1>15. MessageInv'
  <2>1. HandedOver(typed', N)
    BY <1>3, <1>5, <1>6 DEF HandedOver
  <2>2. schema = ForceIn(typed', N)
    BY <1>3, <1>11 DEF IInv, ForceInv
  <2>3. HandedOver(typed', m.n) /\ m.schema = ForceIn(typed', m.n)
    BY <1>8, <2>1, <2>2
  <2>4. \A l \in outq \cup log \cup printed :
          HandedOver(typed', l.n) /\ l.schema = ForceIn(typed', l.n)
    BY <1>14 DEF IInv, MessageInv, Carries
  <2> QED BY <1>1, <2>3, <2>4 DEF IInv, MessageInv, Carries
<1>16. BufferInv'
  <2>1. \A i \in value' : i \in value /\ i # N /\ i \in 1 .. N
    BY <1>1, <1>2 DEF TypeOK
  <2>2. \A i \in value' : typed'[i] = typed[i] /\ buf'[i] = buf[i]
    BY <1>5, <1>7, <2>1
  <2> QED BY <1>1, <1>5, <1>7, <2>1, <2>2 DEF IInv, BufferInv
<1>17. SettledInv'
  <2>1. \A i \in 1 .. N : i # N /\ HandedOver(typed', i) => HandedOver(typed, i)
    BY <1>5 DEF HandedOver
  <2>2. \E l \in outq' : l.n = N
    BY <1>1, <1>8
  <2>3. \A l \in outq : l \in outq'
    BY <1>1
  <2> QED BY <1>1, <1>5, <2>1, <2>2, <2>3 DEF IInv, SettledInv
<1> QED BY <1>9, <1>12, <1>13, <1>15, <1>16, <1>17 DEF IInv

\* The producer ends with an empty queue.
LEMMA FlushedStep ==
  ASSUME IInv, Flushed
  PROVE  IInv'
<1> USE DEF regVars, inputVars, kafkaVars, consumerVars
<1>1. /\ ppc = "flush" /\ ppc' = "exited"
      /\ (outq = {} /\ reports = {}) \/ (producer = "C" /\ ~prun)
      /\ outq' = {}
      /\ buf' = [i \in DOMAIN buf |-> IF buf[i] = "kafka" THEN "freed" ELSE buf[i]]
      /\ UNCHANGED <<producer, consumer, prun, cut, schema, typed, value, reports,
                     settled, log, cpc, msg, printed>>
  BY DEF Flushed
<1>2. TypeOK
  BY DEF IInv
<1>3. /\ Len(buf) \in Nat /\ DOMAIN buf = 1 .. Len(buf) /\ Len(buf) = Len(typed)
      /\ \A i \in 1 .. Len(buf) : buf[i] \in {"none", "app", "kafka", "freed"}
  BY <1>2 DEF TypeOK
<1>4. /\ buf' \in Seq({"none", "app", "kafka", "freed"}) /\ Len(buf') = Len(buf)
      /\ \A i \in 1 .. Len(buf) :
           buf'[i] = IF buf[i] = "kafka" THEN "freed" ELSE buf[i]
  BY <1>1, <1>3
<1>5. TypeOK'
  BY <1>1, <1>2, <1>4 DEF TypeOK
<1>6. ForceInv'
  BY <1>1, ForceInvKept DEF IInv
<1>7. LineInv'
  BY <1>1 DEF IInv, LineInv
<1>8. MessageInv'
  BY <1>1 DEF IInv, MessageInv, Carries
<1>9. BufferInv'
  <2>1. \A i \in 1 .. Len(buf) : buf'[i] # "app"
    BY <1>1, <1>4 DEF IInv, BufferInv
  <2>2. \A i \in value : i \in 1 .. Len(buf) /\ buf[i] = "none"
    BY <1>1, <1>2 DEF IInv, BufferInv, TypeOK
  <2> QED BY <1>1, <1>4, <2>1, <2>2 DEF IInv, BufferInv
<1>10. SettledInv'
  <2>1. \A i \in 1 .. Len(buf') : buf'[i] \in {"none", "freed"}
    BY <1>1, <1>3, <1>4 DEF IInv, BufferInv
  <2>2. CASE outq = {} /\ reports = {}
    BY <1>1, <2>1, <2>2 DEF IInv, SettledInv
  <2>3. CASE producer = "C" /\ ~prun
    <3>1. cut /\ reports = {}
      BY <1>1, <2>3 DEF IInv, SettledInv
    <3> QED BY <1>1, <2>1, <2>3, <3>1 DEF SettledInv
  <2> QED BY <1>1, <2>2, <2>3
<1> QED BY <1>5, <1>6, <1>7, <1>8, <1>9, <1>10 DEF IInv

-----------------------------------------------------------------------------
(***************************************************************************)
(* The steps of librdkafka.                                                *)
(***************************************************************************)

\* A message enters the topic.
LEMMA AckLostStep ==
  ASSUME IInv, NEW m \in outq, AckLost(m)
  PROVE  IInv'
<1> USE DEF regVars, inputVars, workVars, consumerVars
<1>1. /\ log' = log \cup {m}
      /\ UNCHANGED <<producer, consumer, ppc, prun, cut, schema, typed, value, buf,
                     outq, reports, settled, cpc, msg, printed>>
  BY DEF AckLost
<1>2. TypeOK'
  BY <1>1 DEF IInv, TypeOK
<1>3. MessageInv'
  BY <1>1 DEF IInv, MessageInv, Carries
<1> QED BY <1>1, <1>2, <1>3, ProducerKept DEF IInv

\* A message leaves the queue, delivered or not, and is settled.
LEMMA SettleStep ==
  ASSUME IInv, NEW m \in outq, Deliver(m) \/ Expire(m)
  PROVE  IInv'
<1> USE DEF regVars, inputVars, consumerVars
<1>1. TypeOK
  BY DEF IInv
<1>2. /\ outq' = outq \ {m} /\ buf' = [buf EXCEPT ![m.n] = "freed"]
      /\ settled' = settled \cup {m.n}
      /\ reports' = IF producer = "C++" THEN reports \cup {m.n} ELSE reports
      /\ log' \in {log, log \cup {m}}
      /\ UNCHANGED <<producer, consumer, ppc, prun, cut, schema, typed, value, cpc,
                     msg, printed>>
  BY DEF Deliver, Expire, Settle
<1>3. HandedOver(typed, m.n)
  BY DEF IInv, MessageInv, Carries
<1>4. m.n \in 1 .. Len(buf) /\ m.n \in 1 .. Len(typed) /\ typed[m.n].ok
  BY <1>1, <1>3 DEF HandedOver, TypeOK
<1>5. /\ buf' \in Seq({"none", "app", "kafka", "freed"}) /\ Len(buf') = Len(buf)
      /\ \A i \in 1 .. Len(buf) : buf'[i] = IF i = m.n THEN "freed" ELSE buf[i]
  BY <1>1, <1>2, <1>4, ExceptSeq DEF TypeOK
<1>6. TypeOK'
  BY <1>1, <1>2, <1>5 DEF TypeOK
<1>7. ForceInv'
  BY <1>2, ForceInvKept DEF IInv
<1>8. ppc \notin {"start", "exited"}
  BY StartIsEmpty DEF IInv, SettledInv
<1>9. LineInv'
  <2>1. ppc \in {"schema", "str", "json", "serialize"} => m.n # Len(typed)
    BY <1>4 DEF IInv, LineInv
  <2>2. ppc \in {"schema", "str", "json", "serialize"} => Len(typed) \in 1 .. Len(buf)
    <3>1. ppc \in {"schema", "str", "json", "serialize"} => typed # <<>>
      BY DEF IInv, LineInv
    <3> QED BY <1>1, <3>1 DEF TypeOK
  <2> QED BY <1>2, <1>5, <2>1, <2>2 DEF IInv, LineInv
<1>10. MessageInv'
  BY <1>2 DEF IInv, MessageInv, Carries
<1>11. BufferInv'
  <2>1. \A i \in value : i # m.n /\ i \in 1 .. Len(buf)
    BY <1>1, <1>4 DEF IInv, BufferInv, TypeOK
  <2> QED BY <1>2, <1>5, <2>1 DEF IInv, BufferInv
<1>12. SettledInv'
  <2>1. \A i \in 1 .. Len(typed) : HandedOver(typed, i) =>
          \/ i \in settled' \/ \E l \in outq' : l.n = i
          \/ producer = "C" /\ cut
    BY <1>2 DEF IInv, SettledInv
  <2> QED BY <1>2, <1>8, <2>1 DEF IInv, SettledInv
<1> QED BY <1>6, <1>7, <1>9, <1>10, <1>11, <1>12 DEF IInv

-----------------------------------------------------------------------------
(***************************************************************************)
(* The steps of the consumer.                                              *)
(***************************************************************************)

\* The steps that print nothing: start, the next message, an error, the end.
LEMMA ConsumerMoveStep ==
  ASSUME IInv,
         \/ \E ok \in BOOLEAN : ConsumerStart(ok)
         \/ Consume \/ ConsumeError \/ ConsumerStop \/ ConsumerSignal
  PROVE  IInv'
<1> USE DEF regVars, inputVars, workVars, kafkaVars
<1>1. UNCHANGED <<producer, consumer, ppc, prun, cut, schema, typed, value, buf,
                  outq, reports, settled, log, printed>>
  BY DEF ConsumerStart, Consume, ConsumeError, ConsumerStop, ConsumerSignal
<1>2. /\ cpc' \in {"start", "loop", "parse", "exited", "crashed"}
      /\ cpc' = "parse" => msg' \in log \/ (cpc = "parse" /\ msg' = msg)
  BY DEF ConsumerStart, Consume, ConsumeError, ConsumerStop, ConsumerSignal, IInv, TypeOK
<1>3. TypeOK'
  BY <1>1, <1>2 DEF IInv, TypeOK
<1>4. MessageInv'
  BY <1>1, <1>2 DEF IInv, MessageInv, Carries
<1> QED BY <1>1, <1>3, <1>4, ProducerKept DEF IInv

\* What is printed is of the message that was consumed.
LEMMA ParseStep ==
  ASSUME IInv, Parse
  PROVE  IInv'
<1> USE DEF regVars, inputVars, workVars, kafkaVars
<1>1. /\ cpc = "parse" /\ cpc' = "loop"
      /\ UNCHANGED <<producer, consumer, ppc, prun, cut, schema, typed, value, buf,
                     outq, reports, settled, log>>
      /\ printed' \in {printed, printed \cup {[n |-> msg.n, schema |-> msg.schema]}}
  BY DEF Parse, Deserialized, NotDeserialized
<1>2. msg \in Messages /\ Carries(msg)
  BY <1>1 DEF IInv, MessageInv, TypeOK
<1>3. msg = [n |-> msg.n, schema |-> msg.schema]
  BY <1>2 DEF Messages
<1>4. TypeOK'
  BY <1>1, <1>2, <1>3 DEF IInv, TypeOK
<1>5. MessageInv'
  BY <1>1, <1>2, <1>3 DEF IInv, MessageInv, Carries
<1> QED BY <1>1, <1>4, <1>5, ProducerKept DEF IInv

-----------------------------------------------------------------------------
(***************************************************************************)
(* The theorems.                                                           *)
(***************************************************************************)

\* IInv is an invariant: it holds at first and every step preserves it.
THEOREM Inductive == Spec => []IInv
<1>1. Init => IInv
  BY InitIInv
<1>2. IInv /\ [Next]_vars => IInv'
  <2> SUFFICES ASSUME IInv, [Next]_vars
               PROVE  IInv'
    OBVIOUS
  <2>1. CASE Input
    BY <2>1, LineStep, MoveStep DEF Input
  <2>2. CASE Work
    BY <2>2, SetupStep, MoveStep, SchemaLineStep, ValueStep, ProduceStep, FlushedStep
       DEF Work
  <2>3. CASE Signal
    BY <2>3, MoveStep
  <2>4. ASSUME NEW m \in outq, Deliver(m) \/ Expire(m)
        PROVE  IInv'
    BY <2>4, SettleStep
  <2>5. ASSUME NEW m \in outq, AckLost(m)
        PROVE  IInv'
    BY <2>5, AckLostStep
  <2>6. CASE \/ \E ok \in BOOLEAN : ConsumerStart(ok)
             \/ Consume \/ ConsumeError \/ ConsumerStop \/ ConsumerSignal
    BY <2>6, ConsumerMoveStep
  <2>7. CASE Parse
    BY <2>7, ParseStep
  <2>8. CASE UNCHANGED vars
    <3> USE DEF vars, regVars, inputVars, workVars, kafkaVars, consumerVars
    <3>1. TypeOK'
      BY <2>8 DEF IInv, TypeOK
    <3>2. MessageInv'
      BY <2>8 DEF IInv, MessageInv, Carries
    <3> QED BY <2>8, <3>1, <3>2, ProducerKept DEF IInv
  <2> QED BY <2>1, <2>2, <2>3, <2>4, <2>5, <2>6, <2>7, <2>8 DEF Next
<1> QED BY <1>1, <1>2, PTL DEF Spec

\* A consumer decodes each message with the schema that was in force when its
\* line was typed, and prints only what was handed over (serdes_schema_add and
\* rd_kafka_produce of run_producer, parse_msg of run_consumer), with any
\* number of lines, schemas and failures, and in whatever order, and however
\* often, the messages come.
THEOREM PrintsAsTyped == Spec => []PrintedAsTyped
<1>1. IInv => PrintedAsTyped
  <2> SUFFICES ASSUME IInv, NEW m \in printed
               PROVE  typed[m.n].ok /\ m.schema = InForce(m.n)
    BY DEF PrintedAsTyped
  <2>1. Carries(m)
    BY DEF IInv, MessageInv
  <2> QED BY <2>1, InForceOfTyped DEF Carries, HandedOver
<1> QED BY <1>1, Inductive, PTL

\* When the producer ends, what it handed over is settled, unless a signal cut
\* the flush of the C program short, every report was seen, no buffer is left,
\* and of the values only those of lines that failed, for every input.
THEOREM HandsAllOver == Spec => []AllHandedOver
<1>1. IInv => AllHandedOver
  <2> SUFFICES ASSUME IInv, ppc = "exited"
               PROVE  /\ \A i \in DOMAIN typed :
                           typed[i].ok /\ typed[i].line # "schema" =>
                             i \in settled \/ (producer = "C" /\ cut)
                      /\ reports = {}
                      /\ \A i \in DOMAIN buf : buf[i] \in {"none", "freed"}
                      /\ \A i \in value : buf[i] = "none"
    BY DEF AllHandedOver
  <2>1. /\ outq = {} /\ reports = {}
        /\ \A i \in 1 .. Len(buf) : buf[i] \in {"none", "freed"}
    BY DEF IInv, SettledInv
  <2>2. DOMAIN typed = 1 .. Len(typed) /\ DOMAIN buf = 1 .. Len(buf)
    BY DEF IInv, TypeOK
  <2>4. \A i \in 1 .. Len(typed) : HandedOver(typed, i) =>
          i \in settled \/ (producer = "C" /\ cut)
    BY <2>1 DEF IInv, SettledInv
  <2>5. \A i \in value : buf[i] = "none"
    BY DEF IInv, BufferInv
  <2> QED BY <2>1, <2>2, <2>4, <2>5 DEF HandedOver
<1> QED BY <1>1, Inductive, PTL
=============================================================================
