------------------------------ MODULE Pipeline ------------------------------
(***************************************************************************)
(* The example programs at work: a producer (run_producer of               *)
(* serdes-kafka-avro-client.c, or kafka-serdes-avro-console-producer.cpp)  *)
(* turns lines of its input into messages of a topic, a consumer           *)
(* (run_consumer, or kafka-serdes-avro-console-consumer.cpp) prints them.  *)
(* Each has a handle of its own; they share the Schema Registry.           *)
(*                                                                         *)
(* librdkafka, the input and the registry are external: a message that was *)
(* handed over is delivered, once or more often, or expires, and nothing   *)
(* is said of the order, for several messages are in flight and the C++    *)
(* producer leaves the partition to the partitioner; requests to the       *)
(* registry may fail, or never end; a signal may come at any time.         *)
(***************************************************************************)
EXTENDS Integers, Sequences

CONSTANTS
  Programs,    \* the APIs, "C" or "C++", of a producer and of a consumer
  Schemas,     \* schemas, by their ids
  MaxLines,    \* bound on the number of lines that are typed
  MaxSignals,  \* bound on the number of signals to the producer
  NULL

ASSUME PipelineAssumption ==
  /\ Programs \subseteq {"C", "C++"} \X {"C", "C++"}
  /\ NULL \notin Schemas
  /\ MaxLines \in Nat /\ MaxSignals \in Nat

VARIABLES
  producer, consumer,  \* which programs these are
  registered,  \* the schemas at the registry
  \* the producer:
  ppc, prun,   \* where it is, and its variable run
  stdin,       \* whether stdin is open
  schema,      \* its variable schema
  typed,       \* history: the lines it read, and whether all went well
  value,       \* the lines whose avro_value_t or GenericDatum is allocated
  buf,         \* who owns the serialized message of each line
  signals,     \* how many signals it got
  cut,         \* history: one of them during the flush
  \* librdkafka:
  outq,        \* the messages that it has to deliver
  reports,     \* delivery reports that wait for poll
  settled,     \* history: messages that were delivered or have expired
  log,         \* the messages in the topic
  \* the consumer:
  cpc, crun,   \* where it is, and its variable run
  msg,         \* the message it is handling
  printed,     \* history: the values it has printed
  stopped      \* history: whether it got a signal

regVars      == <<producer, consumer, registered>>
inputVars    == <<prun, stdin, signals, cut>>
workVars     == <<schema, typed, value, buf>>
kafkaVars    == <<outq, reports, settled, log>>
consumerVars == <<cpc, crun, msg, printed, stopped>>
vars == <<regVars, ppc, inputVars, workVars, kafkaVars, consumerVars>>

Init ==
  /\ \E p \in Programs : producer = p[1] /\ consumer = p[2]
  /\ registered = {}
  /\ ppc = "start" /\ prun = TRUE /\ stdin = "open" /\ schema = NULL
  /\ typed = <<>> /\ value = {} /\ buf = <<>> /\ signals = 0 /\ cut = FALSE
  /\ outq = {} /\ reports = {} /\ settled = {} /\ log = {}
  /\ cpc = "start" /\ crun = TRUE /\ msg = NULL
  /\ printed = {} /\ stopped = FALSE
-----------------------------------------------------------------------------
(***************************************************************************)
(* The producer.                                                           *)
(***************************************************************************)

\* Get a schema that is registered, or register one, and go on.
ProducerSetup(s) ==
  /\ ppc = "start"
  /\ schema' = s
  /\ registered' = registered \cup {s}
  /\ typed' = <<[line |-> "schema", schema |-> s, ok |-> TRUE]>>
  /\ buf' = <<"none">>
  /\ ppc' = "loop"
  /\ UNCHANGED <<producer, consumer, inputVars, value, kafkaVars, consumerVars>>

\* FATAL: a bad option, no handle, no schema or no producer.  The C++ program
\* also stops here when it was given no topic.
ProducerFatal ==
  /\ ppc = "start"
  /\ ppc' = "exited"
  /\ UNCHANGED <<regVars, inputVars, workVars, kafkaVars, consumerVars>>

\* The loop condition: run is read first, then fgets or getline blocks.
LoopCondition ==
  /\ ppc = "loop"
  /\ ppc' = IF prun THEN "blocked" ELSE "loop_end"
  /\ UNCHANGED <<regVars, inputVars, workVars, kafkaVars, consumerVars>>

LineKinds == IF producer = "C" THEN {"schema", "str"} ELSE {"json"}

Line(kind, s) ==
  /\ ppc = "blocked"
  /\ stdin = "open"
  /\ Len(typed) <= MaxLines
  /\ kind \in LineKinds
  /\ s # NULL <=> kind = "schema"
  /\ typed' = Append(typed, [line |-> kind, schema |-> s, ok |-> FALSE])
  /\ buf' = Append(buf, "none")
  /\ ppc' = kind
  /\ UNCHANGED <<regVars, inputVars, schema, value, kafkaVars, consumerVars>>

\* The C program does nothing about a line without a prefix.
OtherLine ==
  /\ ppc = "blocked"
  /\ stdin = "open"
  /\ producer = "C"
  /\ ppc' = "loop"
  /\ UNCHANGED <<regVars, inputVars, workVars, kafkaVars, consumerVars>>

\* The input ends; or the signal handler of the C program has closed it; or
\* the signal has interrupted the read of the C++ program.
EndOfInput ==
  /\ ppc = "blocked"
  /\ ppc' = "loop_end"
  /\ UNCHANGED <<regVars, inputVars, workVars, kafkaVars, consumerVars>>

n == Len(typed)  \* the line being handled

\* Mutant: the new schema is registered, but not used.
SchemaLineUnused(ok) ==
  /\ ppc = "schema"
  /\ typed' = [typed EXCEPT ![n].ok = ok]
  /\ registered' = IF ok THEN registered \cup {typed[n].schema} ELSE registered
  /\ ppc' = "loop"
  /\ UNCHANGED <<producer, consumer, inputVars, schema, value, buf, kafkaVars,
                 consumerVars>>

\* "schema: ": serdes_schema_add, whose result replaces the schema, NULL too.
SchemaLine(ok) ==
  /\ ppc = "schema"
  /\ schema' = IF ok THEN typed[n].schema ELSE NULL
  /\ typed' = [typed EXCEPT ![n].ok = ok]
  /\ registered' = IF ok THEN registered \cup {typed[n].schema} ELSE registered
  /\ ppc' = "loop"
  /\ UNCHANGED <<producer, consumer, inputVars, value, buf, kafkaVars, consumerVars>>

\* "str: ": a string value, whatever the schema.  No schema, no program.
StrLine(ok) ==
  /\ ppc = "str"
  /\ value' = value \cup {n}
  /\ IF schema = NULL THEN ppc' = "crashed" /\ UNCHANGED buf
     ELSE IF ok THEN ppc' = "produce" /\ buf' = [buf EXCEPT ![n] = "app"]
     ELSE ppc' = "loop" /\ UNCHANGED buf
  /\ UNCHANGED <<regVars, inputVars, schema, typed, kafkaVars, consumerVars>>

\* json2avro, which leaves its datum behind when it fails.
Json2Avro(ok) ==
  /\ ppc = "json"
  /\ value' = value \cup {n}
  /\ ppc' = IF ok THEN "serialize" ELSE "loop"
  /\ UNCHANGED <<regVars, inputVars, schema, typed, buf, kafkaVars, consumerVars>>

\* serialize, to a vector that lives until the end of the iteration.
Serialize(ok) ==
  /\ ppc = "serialize"
  /\ value' = value \ {n}
  /\ ppc' = IF ok THEN "produce" ELSE "loop"
  /\ buf' = IF ok THEN [buf EXCEPT ![n] = "app"] ELSE buf
  /\ UNCHANGED <<regVars, inputVars, schema, typed, kafkaVars, consumerVars>>

\* The message is handed over.  The C program gives its buffer away, the C++
\* program has it copied, and then serves the delivery reports.
ProduceOk ==
  /\ ppc = "produce"
  /\ typed' = [typed EXCEPT ![n].ok = TRUE]
  /\ buf' = [buf EXCEPT ![n] = "kafka"]
  /\ outq' = outq \cup {[n |-> n, schema |-> schema]}
  /\ value' = value \ {n}
  /\ ppc' = IF producer = "C" THEN "loop" ELSE "poll"
  /\ UNCHANGED <<regVars, inputVars, schema, reports, settled, log, consumerVars>>

\* librdkafka does not take it, as when its queue is full.  The C program
\* frees the buffer and goes on, the C++ program leaves the loop.
ProduceFail ==
  /\ ppc = "produce"
  /\ buf' = [buf EXCEPT ![n] = "freed"]
  /\ value' = value \ {n}
  /\ ppc' = IF producer = "C" THEN "loop" ELSE "loop_end"
  /\ UNCHANGED <<regVars, inputVars, schema, typed, kafkaVars, consumerVars>>

\* poll calls dr_cb for each report; only the C++ program calls it.
Poll ==
  /\ ppc \in {"poll", "flush"}
  /\ producer = "C++"
  /\ ppc = "flush" => reports # {}
  /\ reports' = {}
  /\ ppc' = IF ppc = "poll" THEN "loop" ELSE "flush"
  /\ UNCHANGED <<regVars, inputVars, workVars, outq, settled, log, consumerVars>>

\* Mutant: run is not set again.
LoopEndStays ==
  /\ ppc = "loop_end"
  /\ ppc' = "flush"
  /\ UNCHANGED <<regVars, inputVars, workVars, kafkaVars, consumerVars>>

\* Behind the loop the C program sets run once more.
LoopEnd ==
  /\ ppc = "loop_end"
  /\ ppc' = "flush"
  /\ prun' = IF producer = "C" THEN TRUE ELSE prun
  /\ UNCHANGED <<regVars, stdin, signals, cut, workVars, kafkaVars, consumerVars>>

\* Wait for the messages, the C program only as long as run is set; then the
\* producer is destroyed with all the messages it still has.
Flushed ==
  /\ ppc = "flush"
  /\ \/ outq = {} /\ reports = {}
     \/ producer = "C" /\ ~prun
  /\ outq' = {}
  /\ buf' = [i \in DOMAIN buf |-> IF buf[i] = "kafka" THEN "freed" ELSE buf[i]]
  /\ ppc' = "exited"
  /\ UNCHANGED <<regVars, inputVars, schema, typed, value, reports, settled, log,
                 consumerVars>>

\* Mutant: the input is left open.
SignalLeavesInput ==
  /\ signals < MaxSignals
  /\ ppc \notin {"exited", "crashed"}
  /\ signals' = signals + 1
  /\ prun' = FALSE
  /\ cut' = (cut \/ ppc = "flush")
  /\ UNCHANGED <<regVars, ppc, stdin, workVars, kafkaVars, consumerVars>>

\* sig_term of the producer.  That of the C program closes stdin, also when it
\* has been closed before or is being read: behaviour that C does not define,
\* here that nothing else happens or that the program crashes.
Signal ==
  /\ signals < MaxSignals
  /\ ppc \notin {"exited", "crashed"}
  /\ signals' = signals + 1
  /\ prun' = FALSE
  /\ stdin' = IF producer = "C" THEN "closed" ELSE stdin
  /\ cut' = (cut \/ ppc = "flush")
  /\ \/ UNCHANGED ppc
     \/ /\ producer = "C"
        /\ stdin = "closed" \/ ppc = "blocked"
        /\ ppc' = "crashed"
  /\ UNCHANGED <<regVars, workVars, kafkaVars, consumerVars>>
-----------------------------------------------------------------------------
(***************************************************************************)
(* librdkafka and the broker.                                              *)
(***************************************************************************)

\* A message is done with, and its buffer is freed.
Settle(m) ==
  /\ outq' = outq \ {m}
  /\ buf' = [buf EXCEPT ![m.n] = "freed"]
  /\ settled' = settled \cup {m.n}
  /\ reports' = IF producer = "C++" THEN reports \cup {m.n} ELSE reports
  /\ UNCHANGED <<regVars, ppc, inputVars, schema, typed, value, consumerVars>>

\* Any of the messages: the brokers of the partitions answer in any order, and
\* one that is sent again is overtaken by those sent after it.
Deliver(m) ==
  /\ log' = log \cup {m}
  /\ Settle(m)

Expire(m) ==
  /\ UNCHANGED log
  /\ Settle(m)

\* The acknowledgement is lost: the message is in the topic and will be sent
\* once more.
AckLost(m) ==
  /\ log' = log \cup {m}
  /\ UNCHANGED <<regVars, ppc, inputVars, workVars, outq, reports, settled,
                 consumerVars>>
-----------------------------------------------------------------------------
(***************************************************************************)
(* The consumer.                                                           *)
(***************************************************************************)
\* It subscribes; or an option is bad or something cannot be created: FATAL.
ConsumerStart(ok) ==
  /\ cpc = "start"
  /\ cpc' = IF ok THEN "loop" ELSE "exited"
  /\ UNCHANGED <<regVars, ppc, inputVars, workVars, kafkaVars, crun,
                 msg, printed, stopped>>

\* A message of the topic.  It may come more than once, as it is in the topic
\* more than once after a lost acknowledgement, and the messages of several
\* partitions come in any order.  A timeout and the end of a partition change
\* nothing.
Consume ==
  /\ cpc = "loop" /\ crun
  /\ msg' \in log
  /\ cpc' = "parse"
  /\ UNCHANGED <<regVars, ppc, inputVars, workVars, kafkaVars, crun,
                 printed, stopped>>

\* An error instead of a message ends the C++ program, not the C program.
ConsumeError ==
  /\ cpc = "loop" /\ crun
  /\ consumer = "C++"
  /\ crun' = FALSE
  /\ UNCHANGED <<regVars, ppc, inputVars, workVars, kafkaVars, cpc,
                 msg, printed, stopped>>

\* The schema that the framing names is registered (and maybe cached),
\* the value is read with it and printed.
Deserialized ==
  /\ cpc = "parse"
  /\ msg.schema \in registered
  /\ printed' = printed \cup {[n |-> msg.n, schema |-> msg.schema]}
  /\ cpc' = "loop" /\ msg' = NULL
  /\ UNCHANGED <<regVars, ppc, inputVars, workVars, kafkaVars, crun, stopped>>

\* The registry does not answer, or the value cannot be read or converted, as
\* when the C producer wrote a string for a schema of another type.
\* The C program prints nothing, the C++ program the bytes as they are.
NotDeserialized ==
  /\ cpc = "parse"
  /\ cpc' = "loop" /\ msg' = NULL
  /\ UNCHANGED <<regVars, ppc, inputVars, workVars, kafkaVars, crun, printed,
                 stopped>>

\* The loop ends.  A consumer has no messages to wait for.
ConsumerStop ==
  /\ cpc = "loop" /\ ~crun
  /\ crun' = (consumer = "C")
  /\ cpc' = "exited"
  /\ UNCHANGED <<regVars, ppc, inputVars, workVars, kafkaVars, msg,
                 printed, stopped>>

\* sig_term of the consumer; the C program has the one of the producer.
ConsumerSignal ==
  /\ cpc \notin {"exited", "crashed"}
  /\ \/ ~stopped /\ UNCHANGED cpc
     \/ stopped /\ consumer = "C" /\ cpc' = "crashed"
  /\ stopped' = TRUE
  /\ crun' = FALSE
  /\ UNCHANGED <<regVars, ppc, inputVars, workVars, kafkaVars, msg, printed>>
-----------------------------------------------------------------------------
Input ==
  \/ EndOfInput \/ OtherLine
  \/ \E kind \in LineKinds, s \in Schemas \cup {NULL} : Line(kind, s)

Work ==
  \/ \E s \in Schemas : ProducerSetup(s)
  \/ ProducerFatal
  \/ LoopCondition
  \/ \E ok \in BOOLEAN :
       SchemaLine(ok) \/ StrLine(ok) \/ Json2Avro(ok) \/ Serialize(ok)
  \/ ProduceOk
  \/ ProduceFail
  \/ Poll
  \/ LoopEnd
  \/ Flushed

Parse == Deserialized \/ NotDeserialized

Next ==
  \/ Input \/ Work \/ Signal
  \/ \E m \in outq : Deliver(m) \/ Expire(m) \/ AckLost(m)
  \/ \E ok \in BOOLEAN : ConsumerStart(ok)
  \/ Consume \/ ConsumeError \/ Parse \/ ConsumerStop \/ ConsumerSignal

Spec == Init /\ [][Next]_vars

\* Where a program asks the registry, which may take for ever, since no
\* request has a timeout; and where getline waits for input: sig_term of the
\* C++ producer does not close it, and a signal before getline does not
\* interrupt getline.
Requesting == ppc \in {"start", "schema"}
Reading    == producer = "C++" /\ ppc = "blocked"

(***************************************************************************)
(* Both programs run, unless they wait for the registry or for getline;    *)
(* librdkafka settles every message (message.timeout.ms is finite); fgets  *)
(* fails when stdin is closed.                                             *)
(***************************************************************************)
FairSpec ==
  /\ Spec
  /\ WF_vars(~Requesting /\ Work)
  /\ WF_vars(stdin = "closed" /\ EndOfInput)
  /\ WF_vars(\E m \in outq : Deliver(m) \/ Expire(m))
  /\ WF_vars(\E ok \in BOOLEAN : ConsumerStart(ok))
  /\ WF_vars(ConsumerStop)
-----------------------------------------------------------------------------
(***************************************************************************)
(* Properties.                                                             *)
(***************************************************************************)

\* The schema in force at line i: that of the last schema line that succeeded.
InForce(i) ==
  LET lines == {j \in 1 .. i : typed[j].line = "schema" /\ typed[j].ok}
  IN  typed[CHOOSE j \in lines : \A k \in lines : k <= j].schema

\* Whatever fails on the way, however often schemas change while messages are
\* queued, however often librdkafka sends a message and in whatever order: a
\* consumer decodes each message with the schema that was in force when its
\* line was typed, and prints only what the producer has handed over.
PrintedAsTyped ==
  \A m \in printed :
    typed[m.n].ok /\ m.schema = InForce(m.n)

\* When the producer ends, every message it handed over is settled, unless the
\* C program got a signal while it was waiting for that, and the C++ program
\* has seen every report.  No buffer is left, and of the values only those of
\* lines that failed: the two programs do not release them on these paths.
AllHandedOver ==
  ppc = "exited" =>
    /\ \A i \in DOMAIN typed :
         typed[i].ok /\ typed[i].line # "schema" =>
           i \in settled \/ (producer = "C" /\ cut)
    /\ reports = {}
    /\ \A i \in DOMAIN buf : buf[i] \in {"none", "freed"}
    /\ \A i \in value : buf[i] = "none"

\* A program that has got a signal ends, also when messages are queued and the
\* brokers do not answer, unless it waits for one of two things that nothing
\* bounds: an answer of the registry, and, in the C++ producer, a line of the
\* input.  If these come, it ends; it does not begin to wait for them anew.
SignalEnds ==
  /\ signals > 0 /\ ~Requesting /\ ~Reading ~> ppc \in {"exited", "crashed"}
  /\ stopped /\ cpc # "parse" ~> cpc \in {"exited", "crashed"}
=============================================================================
