--------------------------- MODULE RestReqProofs ---------------------------
(***************************************************************************)
(* Proofs about RestReq for every number of URLs, every size and every way *)
(* of cutting an answer into pieces.                                       *)
(***************************************************************************)
EXTENDS RestReq, TLAPS

-----------------------------------------------------------------------------
(***************************************************************************)
(* The inductive invariant.                                                *)
(***************************************************************************)

\* An answer has at most MaxBody bytes, whatever IntMax is.
BufferInv == len \in 0 .. MaxBody /\ BufferSafe

\* Is URL j between start_idx and idx, going round the list?
Passed(j) == IF start_idx <= idx THEN start_idx <= j /\ j < idx
                                 ELSE start_idx <= j \/ j < idx

\* The URLs tried so far are the ones passed, and none of them is up.
TriedInv ==
  /\ phase = "setup" => idx = start_idx /\ tried = {}
  /\ phase = "loop" =>
       idx # start_idx /\ \A j \in Urls : j \in tried <=> Passed(j)
  /\ phase = "perform" =>
       \A j \in Urls : j \in tried <=> Passed(j) \/ j = idx
  /\ phase \in {"setup", "loop", "perform"} =>
       \A j \in tried : j \in up => phase = "perform" /\ j = idx

\* An attempt starts without an error string.
ErrstrInv == phase = "perform" => ~errstr

IInv ==
  /\ TypeOK
  /\ BufferInv
  /\ PayloadFromLastUrl
  /\ TriedInv
  /\ FailoverReachesUp
  /\ ErrstrInv
  /\ ErrorSource

\* The step from one URL to the next, without the remainder.
LEMMA NextUrlProperty ==
  ASSUME TypeOK
  PROVE  /\ NextUrl = IF idx + 1 = cnt THEN 0 ELSE idx + 1
         /\ NextUrl \in Urls
<1>1. cnt \in Nat \ {0} /\ idx \in 0 .. cnt - 1
  BY RestAssumption DEF TypeOK, Urls
<1>2. CASE idx + 1 = cnt
  BY <1>1, <1>2 DEF NextUrl, Urls
<1>3. CASE idx + 1 < cnt
  BY <1>1, <1>3 DEF NextUrl, Urls
<1> QED BY <1>1, <1>2, <1>3

\* The initial state satisfies IInv.
LEMMA InitIInv ==
  ASSUME Init
  PROVE  IInv
<1>1. TypeOK
  <2>1. cnt \in Counts /\ cnt \in Nat \ {0}
    BY RestAssumption DEF Init
  <2>2. 0 \in Urls
    BY <2>1 DEF Urls
  <2>3. /\ code \in Int /\ len \in Int /\ size \in Int
        /\ payload \in [Bytes -> Urls \cup {None}]
    BY DEF Init
  <2>4. errstr \in BOOLEAN
    BY DEF Init
  <2>5. /\ phase = "idle" /\ outcome = "none" /\ tried = {} /\ up = {}
        /\ requests = 0 /\ idx \in Urls /\ start_idx \in Urls
    BY <2>2 DEF Init
  <2> QED BY <2>1, <2>3, <2>4, <2>5 DEF TypeOK
<1>2. BufferInv
  BY RestAssumption DEF Init, BufferInv, BufferSafe
<1> QED BY <1>1, <1>2 DEF Init, IInv, PayloadFromLastUrl, TriedInv,
                          FailoverReachesUp, ErrstrInv, ErrorSource

\* A request begins.
LEMMA BeginStep ==
  ASSUME IInv, NEW S \in SUBSET Urls, Begin(S)
  PROVE  IInv'
<1> USE DEF IInv, Begin, rest_response_new
<1>1. TypeOK'
  <2>1. Urls' = Urls /\ Bytes' = Bytes
    BY DEF Urls, Bytes
  <2>2. /\ cnt' \in Counts /\ idx' \in Urls /\ start_idx' \in Urls
        /\ requests' \in Nat
    BY DEF TypeOK
  <2>3. code' \in Int /\ len' \in Int /\ size' \in Int
    BY DEF TypeOK
  <2>4. errstr' \in BOOLEAN
    OBVIOUS
  <2>5. payload' \in [Bytes -> Urls \cup {None}]
    BY DEF TypeOK
  <2>6. tried' \subseteq Urls /\ up' \subseteq Urls
    BY DEF TypeOK
  <2>7. phase' = "setup" /\ outcome' = "none"
    OBVIOUS
  <2> QED BY <2>1, <2>2, <2>3, <2>4, <2>5, <2>6, <2>7 DEF TypeOK
<1>2. BufferInv'
  BY RestAssumption DEF BufferInv, BufferSafe
<1>3. TriedInv'
  BY DEF TriedInv
<1> QED BY <1>1, <1>2, <1>3 DEF PayloadFromLastUrl, FailoverReachesUp, ErrstrInv,
                                ErrorSource

\* An option cannot be set.
LEMMA SetoptFailStep ==
  ASSUME IInv, SetoptFail
  PROVE  IInv'
<1> USE DEF IInv, SetoptFail, rest_response_set_result, urlVars
<1>1. TypeOK'
  <2>1. errstr' \in BOOLEAN
    BY Zenon DEF TypeOK
  <2> QED BY <2>1 DEF TypeOK, Urls, Bytes
<1>2. BufferInv'
  BY DEF BufferInv, BufferSafe
<1> QED BY <1>1, <1>2 DEF PayloadFromLastUrl, TriedInv, FailoverReachesUp,
                          ErrstrInv, ErrorSource

\* An attempt starts with an empty response.
LEMMA AttemptStep ==
  ASSUME IInv, Attempt
  PROVE  IInv'
<1> USE DEF IInv, Attempt, rest_response_reset, urlVars
<1>1. TypeOK'
  <2>1. Urls' = Urls /\ Bytes' = Bytes
    BY DEF Urls, Bytes
  <2>2. /\ cnt' \in Counts /\ idx' \in Urls /\ start_idx' \in Urls
        /\ requests' \in Nat
    BY DEF TypeOK
  <2>3. code' \in Int /\ len' \in Int /\ size' \in Int
    BY DEF TypeOK
  <2>4. errstr' \in BOOLEAN
    OBVIOUS
  <2>5. payload' \in [Bytes -> Urls \cup {None}]
    BY DEF TypeOK
  <2>6. tried' \subseteq Urls /\ up' \subseteq Urls
    BY DEF TypeOK
  <2>7. phase' = "perform" /\ outcome' = "none"
    OBVIOUS
  <2> QED BY <2>1, <2>2, <2>3, <2>4, <2>5, <2>6, <2>7 DEF TypeOK
<1>2. BufferInv'
  BY RestAssumption DEF BufferInv, BufferSafe, TypeOK
<1>3. PayloadFromLastUrl'
  BY DEF PayloadFromLastUrl
<1>4. TriedInv'
  BY RestAssumption DEF TriedInv, TypeOK, Urls, Passed
<1> QED BY <1>1, <1>2, <1>3, <1>4 DEF FailoverReachesUp, ErrstrInv, ErrorSource

\* A piece of the body arrives.
LEMMA WriteStep ==
  ASSUME IInv, NEW n \in 1 .. MaxBody, rest_curl_write_cb(n)
  PROVE  IInv'
<1> USE DEF IInv, rest_curl_write_cb, urlVars
<1>1. /\ len \in Nat /\ size \in Nat /\ n \in Nat \ {0} /\ MaxBody \in Nat
      /\ phase = "perform" /\ len <= size /\ size <= IntMax
      /\ len + n <= MaxBody /\ IntMax \in Nat
  BY RestAssumption DEF BufferInv, BufferSafe, TypeOK
<1> DEFINE new_size == IF len + n > size THEN rest_response_grow(n) ELSE size
<1>2. /\ new_size \in Nat /\ len + n <= new_size
      /\ new_size > IntMax => 2 * (len + n) > IntMax
  <2>1. CASE len + n <= size
    BY <1>1, <2>1
  <2>2. CASE len + n > size /\ n < size
    BY <1>1, <2>2 DEF rest_response_grow
  <2>3. CASE len + n > size /\ n >= size
    BY <1>1, <2>3 DEF rest_response_grow
  <2> QED BY <1>1, <2>1, <2>2, <2>3
<1>3. /\ Urls' = Urls /\ Bytes' = Bytes
      /\ len' = len + n /\ len' \in 0 .. MaxBody
      /\ UNCHANGED <<cnt, up, requests, idx, start_idx, code, errstr, tried, outcome>>
  BY <1>1 DEF Urls, Bytes
<1> HIDE DEF new_size
<1>4. CASE new_size <= IntMax
  <2>1. /\ size' = new_size /\ phase' = "perform"
        /\ payload' = [b \in Bytes |-> IF b \in len + 1 .. len + n THEN idx
                                                                   ELSE payload[b]]
    BY <1>1, <1>2, <1>4 DEF new_size
  <2>2. BufferInv'
    BY <1>1, <1>2, <1>3, <1>4, <2>1 DEF BufferInv, BufferSafe
  <2>3. payload' \in [Bytes -> Urls \cup {None}]
    BY <2>1 DEF TypeOK
  <2>4. TypeOK'
    BY <1>1, <1>2, <1>3, <2>1, <2>3 DEF TypeOK
  <2>5. PayloadFromLastUrl'
    BY <1>1, <1>3, <2>1 DEF PayloadFromLastUrl, Bytes
  <2>6. TriedInv'
    BY <1>1, <1>3, <2>1 DEF TriedInv, Passed
  <2> QED BY <1>1, <1>3, <2>1, <2>2, <2>4, <2>5, <2>6
          DEF FailoverReachesUp, ErrstrInv, ErrorSource
<1>5. CASE new_size > IntMax
  <2>1. phase' = "undefined" /\ UNCHANGED <<size, payload>>
    BY <1>1, <1>2, <1>5 DEF new_size
  <2>2. BufferInv'
    BY <1>2, <1>3, <1>5, <2>1 DEF BufferInv, BufferSafe
  <2>3. TypeOK'
    BY <1>1, <1>3, <2>1 DEF TypeOK
  <2> QED BY <1>3, <2>1, <2>2, <2>3
          DEF PayloadFromLastUrl, TriedInv, FailoverReachesUp, ErrstrInv,
              ErrorSource
<1> QED BY <1>1, <1>2, <1>4, <1>5

\* The connection fails: to the next URL, or the list is exhausted.
LEMMA PerformFailStep ==
  ASSUME IInv, PerformFail
  PROVE  IInv'
<1> USE DEF IInv, PerformFail, rest_response_set_result, urlVars
<1>0. /\ cnt \in Nat \ {0}
      /\ idx \in Urls /\ start_idx \in Urls /\ up \subseteq Urls
      /\ idx' = IF idx + 1 = cnt THEN 0 ELSE idx + 1
      /\ idx' \in Urls
  BY RestAssumption, NextUrlProperty DEF TypeOK
<1>1. TypeOK'
  <2>1. Urls' = Urls /\ Bytes' = Bytes
    BY DEF Urls, Bytes
  <2>2. /\ cnt' \in Counts /\ idx' \in Urls /\ start_idx' \in Urls
        /\ requests' \in Nat
    BY <1>0 DEF TypeOK
  <2>3. code' \in Int /\ len' \in Int /\ size' \in Int
    BY DEF TypeOK
  <2>4. errstr' \in BOOLEAN
    BY Zenon DEF TypeOK
  <2>5. payload' \in [Bytes -> Urls \cup {None}]
    BY DEF TypeOK
  <2>6. tried' \subseteq Urls /\ up' \subseteq Urls
    BY DEF TypeOK
  <2>7. phase' \in {"loop", "done"} /\ outcome' = "transport"
    OBVIOUS
  <2> QED BY <2>1, <2>2, <2>3, <2>4, <2>5, <2>6, <2>7 DEF TypeOK
<1>2. BufferInv'
  BY DEF BufferInv, BufferSafe
<1>3. ASSUME NEW j \in Urls, idx' # start_idx
      PROVE  Passed(j)' <=> Passed(j) \/ j = idx
  BY <1>0, <1>3 DEF Passed, Urls
<1>4. ASSUME NEW j \in Urls, idx' = start_idx
      PROVE  Passed(j) \/ j = idx
  BY <1>0, <1>4 DEF Passed, Urls
<1>5. TriedInv'
  BY <1>0, <1>3 DEF TriedInv, Urls
<1>6. FailoverReachesUp'
  BY <1>0, <1>4 DEF TriedInv, FailoverReachesUp
<1> QED BY <1>1, <1>2, <1>5, <1>6 DEF PayloadFromLastUrl, ErrstrInv, ErrorSource

\* A server answers, with or without a status code.
LEMMA AnswerStep ==
  ASSUME IInv, (\E c \in Codes : PerformOk(c)) \/ PerformNoCode
  PROVE  IInv'
<1> USE DEF IInv, PerformOk, PerformNoCode, rest_response_set_result, urlVars
<1>1. TypeOK'
  <2>1. Urls' = Urls /\ Bytes' = Bytes
    BY DEF Urls, Bytes
  <2>2. /\ cnt' \in Counts /\ idx' \in Urls /\ start_idx' \in Urls
        /\ requests' \in Nat
    BY DEF TypeOK
  <2>3. code' \in Int
    BY RestAssumption DEF CURLE_HTTP_RETURNED_ERROR
  <2>4. errstr' \in BOOLEAN
    BY Zenon DEF TypeOK
  <2>5. len' \in Int /\ size' \in Int /\ payload' \in [Bytes -> Urls \cup {None}]
    BY DEF TypeOK
  <2>6. tried' \subseteq Urls /\ up' \subseteq Urls
    BY DEF TypeOK
  <2>7. phase' = "done" /\ outcome' \in {"answer", "no_code"}
    OBVIOUS
  <2> QED BY <2>1, <2>2, <2>3, <2>4, <2>5, <2>6, <2>7 DEF TypeOK
<1>2. BufferInv'
  BY DEF BufferInv, BufferSafe
<1>3. PayloadFromLastUrl'
  BY DEF PayloadFromLastUrl
<1>4. ErrorSource'
  BY DEF ErrorSource, ErrstrInv, TypeOK
<1> QED BY <1>1, <1>2, <1>3, <1>4 DEF TriedInv, FailoverReachesUp, ErrstrInv

\* The response is destroyed, or nothing happens.
LEMMA DestroyStep ==
  ASSUME IInv, rest_response_destroy \/ UNCHANGED vars
  PROVE  IInv'
<1> USE DEF IInv, rest_response_destroy, vars, urlVars, rrVars
<1>1. TypeOK'
  BY DEF TypeOK, Urls, Bytes
<1>2. BufferInv' /\ PayloadFromLastUrl'
  BY DEF BufferInv, BufferSafe, PayloadFromLastUrl
<1>3. TriedInv'
  BY DEF TriedInv, Passed, Urls
<1> QED BY <1>1, <1>2, <1>3 DEF FailoverReachesUp, ErrstrInv, ErrorSource

\* IInv is inductive.
THEOREM Inductive == Spec => []IInv
<1>1. Init => IInv
  BY InitIInv
<1>2. IInv /\ [Next]_vars => IInv'
  BY BeginStep, SetoptFailStep, AttemptStep, WriteStep, PerformFailStep,
     AnswerStep, DestroyStep
  DEF Next, Step, Finished
<1> QED BY <1>1, <1>2, PTL DEF Spec

\* The variables keep their types: idx never leaves the URL list.
THEOREM TypeCorrect == Spec => []TypeOK
BY Inductive, PTL DEF IInv

\* The write callback stays inside the buffer for answers of any size, however
\* they are cut; and its sums leave the range of int only for a single answer
\* of more than half of that range, never by what earlier attempts left.
THEOREM BufferIsSafe == Spec => []BufferSafe
BY Inductive, PTL DEF IInv, BufferInv

\* A response is never a mix of what two servers sent.
THEOREM PayloadIsPure == Spec => []PayloadFromLastUrl
BY Inductive, PTL DEF IInv

\* No server gets one request twice.
THEOREM NoUrlIsAskedTwice == Spec => []NoUrlTwice
<1>1. IInv => NoUrlTwice
  BY DEF IInv, TypeOK, TriedInv, Passed, Urls, NoUrlTwice
<1> QED BY <1>1, Inductive, PTL

\* A request that fails for lack of connection found no server at all.
THEOREM FailoverIsComplete == Spec => []FailoverReachesUp
BY Inductive, PTL DEF IInv

\* The error string and the kind of failure always belong together.
THEOREM ErrorsAreAttributed == Spec => []ErrorSource
BY Inductive, PTL DEF IInv
=============================================================================
