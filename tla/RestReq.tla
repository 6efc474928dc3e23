------------------------------ MODULE RestReq ------------------------------
(***************************************************************************)
(* The REST client of src/src/rest.c: rest_get and rest_post run rest_req, *)
(* which tries the URLs of the handle's url_list_t one after the other and *)
(* collects the answer of one of them in a rest_response_t.                *)
(*                                                                         *)
(* The caller holds sd_lock (SchemaCache!SingleFlight), so requests follow *)
(* one another and share nothing but the position idx in the URL list.     *)
(* libcurl is external: it may fail at any time, also in the middle of a   *)
(* body, and hands over a body in pieces of any size.                      *)
(***************************************************************************)
EXTENDS Integers

CONSTANTS
  Counts,       \* possible numbers of configured URLs
  Codes,        \* HTTP status codes that servers answer with
  MaxBody,      \* bound on the bytes of one answer
  IntMax,       \* largest value of the C type int
  MaxRequests,  \* bound on the number of requests
  None

ASSUME RestAssumption ==
  /\ Counts \subseteq Nat \ {0}  \* fetch and store return early for 0 URLs
  /\ Codes \subseteq Nat
  /\ MaxBody \in Nat
  /\ IntMax \in Nat
  /\ MaxRequests \in Nat
  /\ None \notin Nat

VARIABLES
  cnt,        \* ul->cnt
  idx,        \* ul->idx
  start_idx,  \* local of rest_req
  phase,      \* where rest_req is
  code,       \* rr->code
  errstr,     \* is rr->errstr set?
  len,        \* rr->len
  size,       \* rr->size
  payload,    \* rr->payload: which URL each byte came from
  tried,      \* history: URLs asked by this request
  up,         \* history: URLs that answer throughout this request
  outcome,    \* history: how the last attempt ended
  requests    \* number of requests so far

urlVars  == <<cnt, up, requests>>
rrVars   == <<code, errstr, len, size, payload>>
vars == <<cnt, idx, start_idx, phase, code, errstr, len, size, payload, tried,
          up, outcome, requests>>

Urls  == 0 .. cnt - 1
Bytes == 1 .. 2 * MaxBody

CURLE_HTTP_RETURNED_ERROR == 22

rest_response_failed(c) == c < 100 \/ c > 299

Init ==
  /\ cnt \in Counts
  /\ idx = 0
  /\ start_idx = 0
  /\ phase = "idle"
  /\ code = 0 /\ errstr = FALSE /\ len = 0 /\ size = 0
  /\ payload = [b \in Bytes |-> None]
  /\ tried = {}
  /\ up = {}
  /\ outcome = "none"
  /\ requests = 0
-----------------------------------------------------------------------------
(***************************************************************************)
(* The response object.                                                    *)
(***************************************************************************)

rest_response_set_result(c, fmt) ==
  /\ code' = c
  /\ errstr' = (errstr \/ fmt)

\* rest_response_new(0): calloc.
rest_response_new ==
  /\ code' = 0 /\ errstr' = FALSE /\ len' = 0 /\ size' = 0
  /\ payload' = [b \in Bytes |-> None]

\* Mutants: the length, or the error string, of the failed attempt is kept.
ResetKeepsLen ==
  /\ code' = 0 /\ errstr' = FALSE
  /\ UNCHANGED <<len, size, payload>>
ResetKeepsErrstr ==
  /\ code' = 0 /\ len' = 0
  /\ UNCHANGED <<errstr, size, payload>>

\* The buffer and its size are kept for the next attempt.
rest_response_reset ==
  /\ code' = 0 /\ errstr' = FALSE /\ len' = 0
  /\ UNCHANGED <<size, payload>>

\* The size of the buffer after it has grown (mutant: when it need not be
\* doubled the length asked for replaces the size).
GrowToAddSize(add_size) ==
  IF add_size < size THEN size + size ELSE add_size
rest_response_grow(add_size) ==
  size + (IF add_size < size THEN size ELSE add_size)
-----------------------------------------------------------------------------
(***************************************************************************)
(* rest_req.                                                               *)
(***************************************************************************)

\* rest_get or rest_post is called; S are the servers that can be reached.
Begin(S) ==
  /\ phase = "idle"
  /\ requests < MaxRequests
  /\ rest_response_new
  /\ start_idx' = idx
  /\ phase' = "setup"
  /\ tried' = {}
  /\ up' = S
  /\ outcome' = "none"
  /\ requests' = requests + 1
  /\ UNCHANGED <<cnt, idx>>

\* do_curl_setopt fails, before the loop or for the URL of an attempt: the
\* response of the attempt before is returned with this error.
SetoptFail ==
  /\ phase \in {"setup", "loop"}
  /\ rest_response_set_result(-1, TRUE)
  /\ phase' = "done"
  /\ outcome' = "setopt"
  /\ UNCHANGED <<urlVars, idx, start_idx, len, size, payload, tried>>

\* The next URL is set, the response reset, and the request performed.
Attempt ==
  /\ phase \in {"setup", "loop"}
  /\ rest_response_reset
  /\ tried' = tried \cup {idx}
  /\ phase' = "perform"
  /\ outcome' = "none"
  /\ UNCHANGED <<urlVars, idx, start_idx>>

\* n bytes of the body arrive.  Nothing limits a body: a sum that is larger
\* than an int is undefined, and the model does not follow the program then.
rest_curl_write_cb(n) ==
  LET new_size == IF len + n > size THEN rest_response_grow(n) ELSE size
  IN  /\ phase = "perform"
      /\ len + n <= MaxBody
      /\ len' = len + n
      /\ \/ /\ new_size <= IntMax
            /\ size' = new_size
            /\ payload' = [b \in Bytes |-> IF b \in len + 1 .. len + n THEN idx
                                                                   ELSE payload[b]]
            /\ UNCHANGED phase
         \/ /\ new_size > IntMax
            /\ phase' = "undefined"
            /\ UNCHANGED <<size, payload>>
      /\ UNCHANGED <<urlVars, idx, start_idx, code, errstr, tried, outcome>>

\* The position after a failed attempt (mutants: it runs off the list, stays
\* at the last URL for ever, skips a URL).
RunOffList == idx + 1
StayAtLastUrl == IF idx + 1 = cnt THEN idx ELSE idx + 1
SkipUrl == (idx + 2) % cnt
NextUrl == (idx + 1) % cnt

\* curl_easy_perform fails, possibly after a part of the body has arrived.
PerformFail ==
  /\ phase = "perform"
  /\ idx \notin up
  /\ rest_response_set_result(-1, TRUE)
  /\ idx' = NextUrl
  /\ phase' = IF NextUrl # start_idx THEN "loop" ELSE "done"
  /\ outcome' = "transport"
  /\ UNCHANGED <<urlVars, start_idx, len, size, payload, tried>>

\* curl_easy_perform succeeds: whatever the server said ends the loop.
PerformOk(c) ==
  /\ phase = "perform"
  /\ rest_response_set_result(c, FALSE)
  /\ phase' = "done"
  /\ outcome' = "answer"
  /\ UNCHANGED <<urlVars, idx, start_idx, len, size, payload, tried>>

\* It succeeds but there is no status code.
PerformNoCode ==
  /\ phase = "perform"
  /\ rest_response_set_result(CURLE_HTTP_RETURNED_ERROR, TRUE)
  /\ phase' = "done"
  /\ outcome' = "no_code"
  /\ UNCHANGED <<urlVars, idx, start_idx, len, size, payload, tried>>

\* The caller has read the response and destroys it.
rest_response_destroy ==
  /\ phase = "done"
  /\ phase' = "idle"
  /\ UNCHANGED <<urlVars, idx, start_idx, rrVars, tried, outcome>>

\* No further request is made.
Finished ==
  /\ \/ phase = "idle" /\ requests = MaxRequests
     \/ phase = "undefined"
  /\ UNCHANGED vars

Step ==
  \/ SetoptFail \/ Attempt
  \/ \E n \in 1 .. MaxBody : rest_curl_write_cb(n)
  \/ PerformFail
  \/ \E c \in Codes : PerformOk(c)
  \/ PerformNoCode
  \/ rest_response_destroy

Next ==
  \/ \E S \in SUBSET Urls : Begin(S)
  \/ Step
  \/ Finished

Spec == Init /\ [][Next]_vars

\* A request that was begun goes on, and libcurl ends every transfer.
FairSpec == Spec /\ WF_vars(Step)
-----------------------------------------------------------------------------
(***************************************************************************)
(* Properties.                                                             *)
(***************************************************************************)

\* The variables have their types; idx is a position of the URL list.
TypeOK ==
  /\ cnt \in Counts
  /\ idx \in Urls
  /\ start_idx \in Urls
  /\ phase \in {"idle", "setup", "loop", "perform", "done", "undefined"}
  /\ code \in Int
  /\ errstr \in BOOLEAN
  /\ len \in Int
  /\ size \in Int
  /\ payload \in [Bytes -> Urls \cup {None}]
  /\ tried \subseteq Urls
  /\ up \subseteq Urls
  /\ outcome \in {"none", "setopt", "transport", "answer", "no_code"}
  /\ requests \in Nat

\* The write callback never copies past the end of the buffer, however an
\* answer is cut into pieces and however large the buffer was left by an
\* earlier attempt; and its sums stay inside int unless this answer alone is
\* larger than half the range of int.
BufferSafe ==
  IF phase = "undefined" THEN 2 * len > IntMax
                         ELSE 0 <= len /\ len <= size /\ size <= IntMax

\* Every byte of a returned response comes from the URL that was asked last:
\* what a server sent before its connection broke is not mixed into the
\* answer of the next one.
PayloadFromLastUrl ==
  phase = "perform" \/ (phase = "done" /\ outcome \in {"answer", "no_code"}) =>
    \A b \in 1 .. len : payload[b] = idx

\* No URL is asked twice by one request: a POST is never sent again to a
\* server that may have handled it.
NoUrlTwice == phase = "loop" => idx \notin tried

\* A request ends for lack of connection only if no server could be reached,
\* wherever in the list the request before it had stopped.
FailoverReachesUp == phase = "done" /\ outcome = "transport" => up = {}

\* The error string is set exactly for the failures of this side, also when
\* a server answers after the connection to an earlier one failed:
\* rest_response_strerror takes the server's payload only without it.
ErrorSource ==
  phase = "done" => (errstr <=> outcome \in {"setopt", "transport", "no_code"})

\* Every request ends, whatever fails on the way, short of an answer that
\* takes the program out of the range of int.
RequestEnds == phase # "idle" ~> phase \in {"done", "undefined"}

\* rest.h of rest_get: "The URLs will be tried in a round-robin fashion until
\* one returns a succesful response or all URLs have been exhausted."
TriedUntilSuccess ==
  phase = "done" /\ outcome # "setopt" /\ rest_response_failed(code) =>
    tried = Urls
=============================================================================
