-------------------------- MODULE SerdesConfProofs --------------------------
(***************************************************************************)
(* Proofs about SerdesConf and UrlList, for all applications, texts,       *)
(* values and numbers of objects: first what url_list_parse makes of any   *)
(* text, then what each function does with the lists, then each action.    *)
(***************************************************************************)
EXTENDS SerdesConf, WellFoundedInduction, SequenceTheorems, FiniteSetTheorems,
        TLAPS

-----------------------------------------------------------------------------
(***************************************************************************)
(* Induction and recursion on natural numbers, for sets instead of         *)
(* predicates and for functions instead of operators: WFMin of the library *)
(* takes no operator, so that it can be used here.                         *)
(***************************************************************************)
\* A set of natural numbers that is not empty has a least element.
LEMMA LeastNat ==
  ASSUME NEW T, T \subseteq Nat, T # {}
  PROVE  \E m \in T : \A k \in T : m <= k
<1> DEFINE R == OpToRel(<, Nat)
<1>1. IsWellFoundedOn(R, Nat)
  BY NatLessThanWellFounded
<1>2. \A i, j \in Nat : i < j => <<i, j>> \in R
  BY DEF OpToRel
<1> HIDE DEF R
<1>3. \E x \in T : \A y \in T : ~ (<<y, x>> \in R)
  BY <1>1, WFMin
<1>4. PICK m \in T : \A y \in T : ~ (<<y, m>> \in R)
  BY <1>3
<1>5. \A k \in T : m <= k
  <2> TAKE k \in T
  <2>1. k \in Nat /\ m \in Nat /\ <<k, m>> \notin R
    BY <1>4
  <2>2. ~ (k < m)
    BY <2>1, <1>2
  <2> QED
    BY <2>1, <2>2
<1> QED
  BY <1>5

\* A set that has 0 and the successor of every number in it has them all.
LEMMA NatSetInduction ==
  ASSUME NEW T, 0 \in T, \A n \in Nat : n \in T => n + 1 \in T
  PROVE  Nat \subseteq T
<1> SUFFICES ASSUME NEW x \in Nat, x \notin T PROVE FALSE
  OBVIOUS
<1> DEFINE U == {n \in Nat : n \notin T}
<1>1. PICK m \in U : \A k \in U : m <= k
  BY LeastNat
<1>2. m # 0 /\ m - 1 \in Nat
  BY <1>1
<1>3. m - 1 \in T
  BY <1>1, <1>2
<1> QED
  BY <1>2, <1>3, <1>1

\* A set of natural numbers with a bound has a greatest element.
LEMMA GreatestNat ==
  ASSUME NEW T, T \subseteq Nat, T # {}, NEW b \in Nat, \A k \in T : k <= b
  PROVE  \E m \in T : \A k \in T : k <= m
<1> DEFINE U == {b - k : k \in T}
<1>1. U \subseteq Nat /\ U # {}
  <2>1. \A k \in T : b - k \in Nat
    OBVIOUS
  <2> QED
    BY <2>1
<1>2. PICK d \in U : \A e \in U : d <= e
  BY <1>1, LeastNat
<1>3. PICK m \in T : d = b - m
  BY <1>2
<1>4. \A k \in T : b - m <= b - k
  BY <1>2, <1>3
<1> QED
  BY <1>3, <1>4

\* The function on 0 .. n that begins with b and goes on with the steps G.
Stepwise(f, n, V, b, G) ==
  /\ f \in [0 .. n -> V]
  /\ f[0] = b
  /\ \A i \in 1 .. n : f[i] = G[i][f[i - 1]]

\* A function that is defined step by step exists.
LEMMA StepwiseExists ==
  ASSUME NEW n \in Nat, NEW V, NEW b \in V, NEW G \in [1 .. n -> [V -> V]]
  PROVE  \E f : Stepwise(f, n, V, b, G)
<1> DEFINE Good(m, f) == f[0] = b /\ \A i \in 1 .. m : f[i] = G[i][f[i - 1]]
           T == {m \in Nat : m <= n => \E f \in [0 .. m -> V] : Good(m, f)}
<1>1. 0 \in T
  <2>1. [i \in 0 .. 0 |-> b] \in [0 .. 0 -> V] /\ Good(0, [i \in 0 .. 0 |-> b])
    OBVIOUS
  <2> QED
    BY <2>1
<1>2. ASSUME NEW m \in Nat, m \in T PROVE m + 1 \in T
  <2> SUFFICES ASSUME m + 1 <= n
               PROVE  \E f \in [0 .. m + 1 -> V] : Good(m + 1, f)
    OBVIOUS
  <2>1. PICK f \in [0 .. m -> V] : Good(m, f)
    BY <1>2
  <2> DEFINE g == [i \in 0 .. m + 1 |-> IF i = m + 1 THEN G[m + 1][f[m]] ELSE f[i]]
  <2>2. G[m + 1][f[m]] \in V
    <3>1. f[m] \in V /\ m + 1 \in 1 .. n
      OBVIOUS
    <3>2. G[m + 1] \in [V -> V]
      BY <3>1
    <3> QED
      BY <3>1, <3>2
  <2>3. g \in [0 .. m + 1 -> V]
    BY <2>2
  <2>4. g[0] = b
    BY <2>1
  <2>5. ASSUME NEW i \in 1 .. m + 1 PROVE g[i] = G[i][g[i - 1]]
    <3>1. CASE i = m + 1
      <4>1. g[i] = G[m + 1][f[m]] /\ g[i - 1] = f[m]
        BY <3>1
      <4> QED
        BY <4>1, <3>1
    <3>2. CASE i # m + 1
      <4>1. i \in 1 .. m /\ g[i] = f[i] /\ g[i - 1] = f[i - 1]
        BY <3>2
      <4> QED
        BY <4>1, <2>1
    <3> QED
      BY <3>1, <3>2
  <2> QED
    BY <2>3, <2>4, <2>5
<1>3. n \in T
  <2> HIDE DEF T
  <2> QED
    BY <1>1, <1>2, NatSetInduction
<1>4. PICK f \in [0 .. n -> V] : Good(n, f)
  BY <1>3
<1> QED
  BY <1>4 DEF Stepwise

-----------------------------------------------------------------------------
(***************************************************************************)
(* The helpers of UrlList.                                                 *)
(***************************************************************************)
LEMMA WidthNat == \A ch : Width(ch) \in Nat
BY DEF Width

\* strlen is the last of the sums that it adds up.
SumsOf(s, f) ==
  /\ f \in [0 .. Len(s) -> Nat]
  /\ f[0] = 0
  /\ \A i \in 1 .. Len(s) : f[i] = f[i - 1] + Width(s[i])

\* strlen is the sum of the widths of the symbols.
LEMMA StrlenSums ==
  ASSUME NEW S, NEW s \in Seq(S)
  PROVE  \E f : SumsOf(s, f) /\ strlen(s) = f[Len(s)]
<1> DEFINE n == Len(s)
           G == [i \in 1 .. n |-> [v \in Nat |-> v + Width(s[i])]]
           F == CHOOSE f : f = [i \in 0 .. n |->
                                 IF i = 0 THEN 0 ELSE f[i - 1] + Width(s[i])]
<1>1. n \in Nat
  BY LenProperties
<1>2. G \in [1 .. n -> [Nat -> Nat]]
  BY WidthNat
<1>3. PICK f : Stepwise(f, n, Nat, 0, G)
  <2>1. 0 \in Nat
    OBVIOUS
  <2> HIDE DEF G, n
  <2> QED
    BY <1>1, <1>2, <2>1, StepwiseExists, Zenon
<1>4. ASSUME NEW i \in 0 .. n
      PROVE  f[i] = IF i = 0 THEN 0 ELSE f[i - 1] + Width(s[i])
  <2>1. CASE i = 0
    BY <1>3, <2>1 DEF Stepwise
  <2>2. CASE i # 0
    <3>1. f[i - 1] \in Nat /\ i \in 1 .. n
      BY <2>2, <1>1, <1>3 DEF Stepwise
    <3>2. f[i] = G[i][f[i - 1]]
      BY <1>3, <2>2 DEF Stepwise
    <3>3. G[i][f[i - 1]] = f[i - 1] + Width(s[i])
      BY <3>1
    <3> QED
      BY <2>2, <3>2, <3>3
  <2> QED
    BY <2>1, <2>2
<1>5. f = [i \in 0 .. n |-> IF i = 0 THEN 0 ELSE f[i - 1] + Width(s[i])]
  <2>1. f = [i \in 0 .. n |-> f[i]]
    BY <1>3 DEF Stepwise
  <2> QED
    BY <1>4, <2>1
<1>6. F = [i \in 0 .. n |-> IF i = 0 THEN 0 ELSE F[i - 1] + Width(s[i])]
  BY <1>5
<1>7. strlen(s) = F[Len(s)]
  BY DEF strlen
<1> HIDE DEF F
<1>8. F[0] = 0 /\ \A i \in 1 .. n : F[i] = F[i - 1] + Width(s[i])
  BY <1>6, <1>1
<1>9. F \in [0 .. n -> Nat]
  <2> DEFINE T == {m \in Nat : m <= n => F[m] \in Nat}
  <2>1. 0 \in T
    BY <1>8
  <2>2. ASSUME NEW m \in Nat, m \in T PROVE m + 1 \in T
    <3> SUFFICES ASSUME m + 1 <= n PROVE F[m + 1] \in Nat
      OBVIOUS
    <3>1. F[m] \in Nat /\ F[m + 1] = F[m] + Width(s[m + 1])
      BY <2>2, <1>8, <1>1
    <3> QED
      BY <3>1, WidthNat
  <2>3. Nat \subseteq T
    <3> HIDE DEF T
    <3> QED
      BY <2>1, <2>2, NatSetInduction
  <2>4. \A i \in 0 .. n : F[i] \in Nat
    BY <2>3, <1>1
  <2> QED
    BY <2>4, <1>6
<1> QED
  BY <1>7, <1>8, <1>9 DEF SumsOf

\* A length is a natural number.
LEMMA StrlenNat ==
  ASSUME NEW S, NEW s \in Seq(S)
  PROVE  strlen(s) \in Nat
<1>1. PICK f : SumsOf(s, f) /\ strlen(s) = f[Len(s)]
  BY StrlenSums
<1> QED
  BY <1>1, LenProperties DEF SumsOf

\* A part at the beginning of a text is no longer than the text.
LEMMA StrlenPrefix ==
  ASSUME NEW S, NEW s \in Seq(S), NEW n \in 0 .. Len(s)
  PROVE  strlen(SubSeq(s, 1, n)) <= strlen(s)
<1> DEFINE p == SubSeq(s, 1, n)
<1>1. /\ Len(s) \in Nat /\ n \in Nat /\ n <= Len(s)
      /\ p \in Seq(S) /\ Len(p) = n /\ \A i \in 1 .. n : p[i] = s[i]
  <2>1. Len(s) \in Nat
    BY LenProperties
  <2>2. \A i \in 1 .. n : s[i] \in S
    BY <2>1, ElementOfSeq
  <2>3. /\ p \in Seq(S)
        /\ Len(p) = IF 1 <= n THEN n - 1 + 1 ELSE 0
        /\ \A i \in 1 .. n - 1 + 1 : p[i] = s[1 + i - 1]
    BY <2>1, <2>2, SubSeqProperties
  <2>4. n - 1 + 1 = n /\ \A i \in 1 .. n : 1 + i - 1 = i
    BY <2>1
  <2> QED
    BY <2>1, <2>3, <2>4
<1>2. PICK f : SumsOf(s, f) /\ strlen(s) = f[Len(s)]
  BY StrlenSums
<1> HIDE DEF p
<1>3. PICK g : SumsOf(p, g) /\ strlen(p) = g[Len(p)]
  BY StrlenSums, <1>1
<1> DEFINE T == {m \in Nat : (m <= n => g[m] = f[m])
                              /\ (n <= m /\ m <= Len(s) => f[n] <= f[m])}
<1>4. 0 \in T
  BY <1>1, <1>2, <1>3 DEF SumsOf
<1>5. ASSUME NEW m \in Nat, m \in T PROVE m + 1 \in T
  <2>1. ASSUME m + 1 <= n PROVE g[m + 1] = f[m + 1]
    <3>1. g[m] = f[m] /\ p[m + 1] = s[m + 1]
      BY <2>1, <1>5, <1>1
    <3>2. g[m + 1] = g[m] + Width(p[m + 1])
      BY <2>1, <1>1, <1>3 DEF SumsOf
    <3>3. f[m + 1] = f[m] + Width(s[m + 1])
      BY <2>1, <1>1, <1>2 DEF SumsOf
    <3> QED
      BY <3>1, <3>2, <3>3
  <2>2. ASSUME n <= m + 1, m + 1 <= Len(s) PROVE f[n] <= f[m + 1]
    <3>1. f[n] \in Nat /\ f[m + 1] \in Nat
      BY <1>1, <1>2, <2>2 DEF SumsOf
    <3>2. CASE n = m + 1
      BY <3>1, <3>2
    <3>3. CASE n <= m
      <4>1. f[n] <= f[m] /\ f[m] \in Nat
        BY <3>3, <2>2, <1>5, <1>1, <1>2 DEF SumsOf
      <4>2. f[m + 1] = f[m] + Width(s[m + 1])
        BY <2>2, <1>1, <1>2 DEF SumsOf
      <4> QED
        BY <3>1, <4>1, <4>2, WidthNat
    <3> QED
      BY <3>2, <3>3, <2>2, <1>1
  <2> QED
    BY <2>1, <2>2
<1>6. Nat \subseteq T
  <2> HIDE DEF T
  <2> QED
    BY <1>4, <1>5, NatSetInduction
<1>7. g[n] = f[n] /\ f[n] <= f[Len(s)]
  BY <1>6, <1>1
<1> QED
  BY <1>1, <1>2, <1>3, <1>7 DEF p

\* strchr finds the first place of the character.
LEMMA StrchrFinds ==
  ASSUME NEW S, NEW s \in Seq(S), NEW ch, NEW i \in 1 .. Len(s) + 1
  PROVE  /\ strchr(s, ch, i) \in i .. Len(s) + 1
         /\ strchr(s, ch, i) <= Len(s) => s[strchr(s, ch, i)] = ch
         /\ \A k \in i .. strchr(s, ch, i) - 1 : s[k] # ch
<1> DEFINE at == {j \in i .. Len(s) : s[j] = ch}
           t  == CHOOSE j \in at : \A k \in at : j <= k
<1>1. Len(s) \in Nat /\ at \subseteq Nat
  BY LenProperties
<1>2. strchr(s, ch, i) = IF at = {} THEN Len(s) + 1 ELSE t
  BY DEF strchr
<1>3. CASE at = {}
  <2>1. strchr(s, ch, i) = Len(s) + 1
    BY <1>2, <1>3
  <2> QED
    BY <2>1, <1>1, <1>3
<1>4. CASE at # {}
  <2>1. \E j \in at : \A k \in at : j <= k
    <3> HIDE DEF at
    <3> QED
      BY <1>1, <1>4, LeastNat
  <2>2. t \in at /\ \A k \in at : t <= k
    BY <2>1
  <2>3. strchr(s, ch, i) = t
    BY <1>2, <1>4
  <2> HIDE DEF t
  <2>4. t \in i .. Len(s) /\ s[t] = ch
    BY <2>2
  <2>5. \A k \in i .. t - 1 : s[k] # ch
    <3> SUFFICES ASSUME NEW k \in i .. t - 1, s[k] = ch PROVE FALSE
      OBVIOUS
    <3>1. k \in at
      BY <2>4, <1>1
    <3> QED
      BY <3>1, <2>2, <2>4, <1>1
  <2> QED
    BY <2>3, <2>4, <2>5, <1>1
<1> QED
  BY <1>3, <1>4

\* SkipBlanks stops at the first place that is no blank.
LEMMA SkipBlanksStops ==
  ASSUME NEW S, NEW s \in Seq(S), NEW i \in 1 .. Len(s) + 1
  PROVE  /\ SkipBlanks(s, i) \in i .. Len(s) + 1
         /\ \A k \in i .. SkipBlanks(s, i) - 1 : s[k] = Blank
         /\ SkipBlanks(s, i) <= Len(s) => s[SkipBlanks(s, i)] # Blank
<1> DEFINE T == {j \in i .. Len(s) + 1 : j <= Len(s) => s[j] # Blank}
           Stop(j) == /\ \A k \in i .. j - 1 : s[k] = Blank
                      /\ j <= Len(s) => s[j] # Blank
<1>0. Len(s) \in Nat
  BY LenProperties
<1>1. T \subseteq Nat
  <2>1. i \in Nat /\ \A j \in i .. Len(s) + 1 : j \in Nat
    BY <1>0
  <2> QED
    BY <2>1
<1>2. Len(s) + 1 \in T
  <2>1. Len(s) + 1 \in i .. Len(s) + 1 /\ ~ (Len(s) + 1 <= Len(s))
    BY <1>0
  <2> QED
    BY <2>1
<1>3. PICK j \in T : \A k \in T : j <= k
  <2> HIDE DEF T
  <2> QED
    BY <1>1, <1>2, LeastNat
<1>4. Stop(j)
  <2> SUFFICES ASSUME NEW k \in i .. j - 1, s[k] # Blank PROVE FALSE
    BY <1>3
  <2>1. j \in i .. Len(s) + 1
    BY <1>3
  <2>2. k \in i .. Len(s) + 1 /\ ~ (j <= k)
    BY <2>1, <1>0
  <2>3. k \in T
    BY <2>2
  <2> QED
    BY <2>2, <2>3, <1>3
<1>5. \E x \in i .. Len(s) + 1 : Stop(x)
  BY <1>4
<1>6. SkipBlanks(s, i) = CHOOSE x \in i .. Len(s) + 1 : Stop(x)
  BY DEF SkipBlanks
<1> HIDE DEF Stop
<1>7. SkipBlanks(s, i) \in i .. Len(s) + 1 /\ Stop(SkipBlanks(s, i))
  BY <1>5, <1>6
<1> QED
  BY <1>7 DEF Stop

\* What rest_req copies of a URL is no longer than the URL.
LEMMA UrlLenBound ==
  ASSUME NEW S, NEW url \in Seq(S)
  PROVE  url_len(url) \in Int /\ url_len(url) <= strlen(url)
<1> DEFINE Tail0(n) == \A i \in n + 1 .. Len(url) : url[i] = "/"
           End(n) == Tail0(n) /\ (n > 0 => url[n] # "/")
           T == {n \in 0 .. Len(url) : Tail0(n)}
           N == CHOOSE n \in 0 .. Len(url) : End(n)
<1>1. Len(url) \in Nat /\ T \subseteq Nat
  BY LenProperties
<1>2. Len(url) \in T
  BY <1>1
<1>3. PICK n \in T : \A k \in T : n <= k
  <2> HIDE DEF T
  <2> QED
    BY <1>1, <1>2, LeastNat
<1>4. End(n)
  <2> SUFFICES ASSUME n > 0, url[n] = "/" PROVE FALSE
    BY <1>3
  <2>1. n - 1 \in 0 .. Len(url) /\ n - 1 + 1 = n /\ ~ (n <= n - 1)
    BY <1>3, <1>1
  <2>2. ASSUME NEW i \in n .. Len(url) PROVE url[i] = "/"
    BY <1>3, <1>1
  <2>3. n - 1 \in T
    BY <2>1, <2>2, <1>1
  <2> QED
    BY <2>1, <2>3, <1>3
<1>5. N \in 0 .. Len(url)
  <2> HIDE DEF End
  <2> QED
    BY <1>3, <1>4
<1>6. url_len(url) = strlen(SubSeq(url, 1, N))
                      - (IF N > 0 /\ url[N] = Proto THEN 2 ELSE 0)
  BY DEF url_len
<1> HIDE DEF N
<1>7. \A i \in 1 .. N : url[i] \in S
  BY <1>5, <1>1, ElementOfSeq
<1>8. SubSeq(url, 1, N) \in Seq(S)
  BY <1>5, <1>7, <1>1, SubSeqProperties
<1>9. strlen(SubSeq(url, 1, N)) \in Nat /\ strlen(url) \in Nat
  BY <1>8, StrlenNat
<1>10. strlen(SubSeq(url, 1, N)) <= strlen(url)
  BY <1>5, StrlenPrefix
<1> QED
  BY <1>6, <1>9, <1>10

\* url_encode: a URL keeps its length, only user and password change, and they
\* are escaped.
LEMMA AuthPlaces ==
  ASSUME NEW S, NEW s \in Seq(S)
  PROVE  LET a == Auth(s)
         IN  /\ a.from \in 1 .. Len(s) + 1
             /\ \/ a.t1 = 0 /\ a.t2 = 0
                \/ /\ a.t1 \in a.from .. a.t2 - 1 /\ a.t2 \in a.from .. Len(s)
                   /\ s[a.t1] = ":" /\ s[a.t2] = "@"
<1> DEFINE from == IF s # <<>> /\ s[1] = Proto THEN 2 ELSE 1
           t1   == strchr(s, ":", from)
           t2   == strchr(s, "@", from)
           has  == t2 <= Len(s) /\ t1 < t2
<1>1. Auth(s) = [from |-> from, t1 |-> IF has THEN t1 ELSE 0,
                 t2 |-> IF has THEN t2 ELSE 0]
  BY DEF Auth
<1>2. Len(s) \in Nat /\ (s # <<>> => Len(s) > 0)
  BY LenProperties, EmptySeq
<1>3. from \in 1 .. Len(s) + 1
  BY <1>2
<1> HIDE DEF from
<1>4. /\ t1 \in from .. Len(s) + 1 /\ (t1 <= Len(s) => s[t1] = ":")
      /\ t2 \in from .. Len(s) + 1 /\ (t2 <= Len(s) => s[t2] = "@")
  BY <1>3, StrchrFinds
<1> HIDE DEF t1, t2
<1>5. CASE has
  <2>1. Auth(s) = [from |-> from, t1 |-> t1, t2 |-> t2]
    BY <1>1, <1>5
  <2>2. t1 \in from .. t2 - 1 /\ t2 \in from .. Len(s) /\ t1 <= Len(s)
    BY <1>5, <1>4, <1>3, <1>2
  <2> QED
    BY <2>1, <2>2, <1>3, <1>4
<1>6. CASE ~ has
  BY <1>1, <1>3, <1>6
<1> QED
  BY <1>5, <1>6

Encoded(s, u) ==
  LET a == Auth(s)
  IN  /\ Len(u) = Len(s)
      /\ \A j \in DOMAIN s :
           IF j \in (a.from .. a.t2 - 1) \ {a.t1}
           THEN u[j] \in {"a", "%xx"} ELSE u[j] = s[j]

\* curl_easy_escape, symbol by symbol: no symbol is left that url_encode cuts at.
LEMMA EscapeKeeps ==
  ASSUME NEW s \in Seq(Symbols)
  PROVE  /\ curl_easy_escape(s) \in Seq(Symbols)
         /\ Len(curl_easy_escape(s)) = Len(s)
         /\ \A i \in 1 .. Len(s) : curl_easy_escape(s)[i] \in {"a", "%xx"}
<1>1. Len(s) \in Nat /\ DOMAIN s = 1 .. Len(s)
  BY LenProperties
<1>2. curl_easy_escape(s) = [i \in 1 .. Len(s) |-> IF s[i] = "a" THEN "a" ELSE "%xx"]
  BY <1>1 DEF curl_easy_escape
<1>3. {"a", "%xx"} \subseteq Symbols
  BY DEF Symbols, Chars
<1>4. curl_easy_escape(s) \in [1 .. Len(s) -> Symbols]
  BY <1>2, <1>3
<1>5. curl_easy_escape(s) \in Seq(Symbols)
  BY <1>4, <1>1, SeqDef
<1>6. Len(curl_easy_escape(s)) = Len(s)
  <2>1. DOMAIN curl_easy_escape(s) = 1 .. Len(curl_easy_escape(s))
    BY <1>5, LenProperties
  <2>2. DOMAIN curl_easy_escape(s) = 1 .. Len(s)
    BY <1>2
  <2>3. Len(curl_easy_escape(s)) \in Nat
    BY <1>5, LenProperties
  <2>4. \A m, n \in Nat : 1 .. m = 1 .. n => m = n
    OBVIOUS
  <2> QED
    BY <2>1, <2>2, <2>3, <2>4, <1>1
<1> QED
  BY <1>2, <1>5, <1>6

\* A part of a text, with its places.
LEMMA PartOf ==
  ASSUME NEW S, NEW s \in Seq(S), NEW m \in 1 .. Len(s) + 1,
         NEW n \in 0 .. Len(s), m <= n + 1
  PROVE  /\ SubSeq(s, m, n) \in Seq(S)
         /\ Len(SubSeq(s, m, n)) = n - m + 1
         /\ \A i \in 1 .. n - m + 1 : SubSeq(s, m, n)[i] = s[m + i - 1]
<1>1. Len(s) \in Nat
  BY LenProperties
<1>2. \A i \in m .. n : s[i] \in S
  BY <1>1, ElementOfSeq
<1>3. /\ SubSeq(s, m, n) \in Seq(S)
      /\ Len(SubSeq(s, m, n)) = IF m <= n THEN n - m + 1 ELSE 0
      /\ \A i \in 1 .. n - m + 1 : SubSeq(s, m, n)[i] = s[m + i - 1]
  BY <1>1, <1>2, SubSeqProperties
<1> QED
  BY <1>1, <1>3

\* url_encode keeps all but user and password, which it escapes.
LEMMA EncodeKeeps ==
  ASSUME NEW s \in Seq(Symbols)
  PROVE  url_encode(s) \in Seq(Symbols) /\ Encoded(s, url_encode(s))
<1> DEFINE a == Auth(s)
           from == a.from
           t1 == a.t1
           t2 == a.t2
<1>1. Len(s) \in Nat /\ DOMAIN s = 1 .. Len(s)
  BY LenProperties
<1>2. /\ from \in 1 .. Len(s) + 1
      /\ \/ t1 = 0 /\ t2 = 0
         \/ /\ t1 \in from .. t2 - 1 /\ t2 \in from .. Len(s)
            /\ s[t1] = ":" /\ s[t2] = "@"
  BY AuthPlaces
<1>3. CASE t2 = 0
  <2>1. url_encode(s) = s
    BY <1>3 DEF url_encode
  <2>2. from .. t2 - 1 = {}
    BY <1>2, <1>3
  <2> QED
    BY <2>1, <2>2 DEF Encoded
<1>4. CASE t2 # 0
  <2>0. /\ t1 \in Nat /\ t2 \in Nat /\ from \in Nat
        /\ 1 <= from /\ from <= t1 /\ t1 < t2 /\ t2 <= Len(s)
        /\ s[t1] = ":" /\ s[t2] = "@"
    BY <1>1, <1>2, <1>4
  <2> DEFINE b == SubSeq(s, 1, from - 1)
             u0 == SubSeq(s, from, t1 - 1)
             p0 == SubSeq(s, t1 + 1, t2 - 1)
             u == curl_easy_escape(u0)
             p == curl_easy_escape(p0)
             e == SubSeq(s, t2 + 1, Len(s))
             s1 == b \o u
             s2 == s1 \o <<":">>
             s3 == s2 \o p
             s4 == s3 \o <<"@">>
             s5 == s4 \o e
  <2>1. url_encode(s) = s5
    BY <1>4 DEF url_encode
  <2> HIDE DEF from, t1, t2
  <2>2. /\ b \in Seq(Symbols) /\ Len(b) = from - 1
        /\ \A i \in 1 .. from - 1 : b[i] = s[i]
    <3>1. 1 \in 1 .. Len(s) + 1 /\ from - 1 \in 0 .. Len(s) /\ 1 <= from - 1 + 1
      BY <2>0, <1>1
    <3>2. /\ b \in Seq(Symbols) /\ Len(b) = from - 1 - 1 + 1
          /\ \A i \in 1 .. from - 1 - 1 + 1 : b[i] = s[1 + i - 1]
      BY <3>1, PartOf
    <3> QED
      BY <3>2, <2>0
  <2>3. u0 \in Seq(Symbols) /\ Len(u0) = t1 - from
    <3>1. from \in 1 .. Len(s) + 1 /\ t1 - 1 \in 0 .. Len(s) /\ from <= t1 - 1 + 1
      BY <2>0, <1>1
    <3>2. u0 \in Seq(Symbols) /\ Len(u0) = t1 - 1 - from + 1
      BY <3>1, PartOf
    <3> QED
      BY <3>2, <2>0
  <2>4. p0 \in Seq(Symbols) /\ Len(p0) = t2 - 1 - t1
    <3>1. t1 + 1 \in 1 .. Len(s) + 1 /\ t2 - 1 \in 0 .. Len(s)
          /\ t1 + 1 <= t2 - 1 + 1
      BY <2>0, <1>1
    <3>2. p0 \in Seq(Symbols) /\ Len(p0) = t2 - 1 - (t1 + 1) + 1
      BY <3>1, PartOf
    <3> QED
      BY <3>2, <2>0
  <2>5. /\ e \in Seq(Symbols) /\ Len(e) = Len(s) - t2
        /\ \A j \in t2 + 1 .. Len(s) : e[j - t2] = s[j]
    <3>1. t2 + 1 \in 1 .. Len(s) + 1 /\ Len(s) \in 0 .. Len(s)
          /\ t2 + 1 <= Len(s) + 1
      BY <2>0, <1>1
    <3>2. /\ e \in Seq(Symbols) /\ Len(e) = Len(s) - (t2 + 1) + 1
          /\ \A i \in 1 .. Len(s) - (t2 + 1) + 1 : e[i] = s[t2 + 1 + i - 1]
      BY <3>1, PartOf
    <3>3. Len(s) - (t2 + 1) + 1 = Len(s) - t2
      BY <2>0, <1>1
    <3>4. ASSUME NEW j \in t2 + 1 .. Len(s) PROVE e[j - t2] = s[j]
      <4>1. /\ j - t2 \in 1 .. Len(s) - (t2 + 1) + 1
            /\ t2 + 1 + (j - t2) - 1 = j
        BY <2>0, <1>1
      <4> HIDE DEF e
      <4> QED
        BY <3>2, <4>1
    <3> QED
      BY <3>2, <3>3, <3>4
  <2>6. /\ u \in Seq(Symbols) /\ Len(u) = t1 - from
        /\ \A i \in 1 .. t1 - from : u[i] \in {"a", "%xx"}
    <3> HIDE DEF u0
    <3> QED
      BY <2>3, EscapeKeeps
  <2>7. /\ p \in Seq(Symbols) /\ Len(p) = t2 - 1 - t1
        /\ \A i \in 1 .. t2 - 1 - t1 : p[i] \in {"a", "%xx"}
    <3> HIDE DEF p0
    <3> QED
      BY <2>4, EscapeKeeps
  <2>8. \A x \in Symbols : <<x>> \in Seq(Symbols) /\ Len(<<x>>) = 1 /\ <<x>>[1] = x
    OBVIOUS
  <2>9. ":" \in Symbols /\ "@" \in Symbols
    BY DEF Symbols, Chars
  <2> HIDE DEF a, b, u, p, e
  <2>10. /\ s1 \in Seq(Symbols) /\ Len(s1) = t1 - 1
         /\ \A i \in 1 .. t1 - 1 :
              s1[i] = IF i <= from - 1 THEN b[i] ELSE u[i - (from - 1)]
    <3>1. /\ s1 \in Seq(Symbols) /\ Len(s1) = Len(b) + Len(u)
          /\ \A i \in 1 .. Len(b) + Len(u) :
               s1[i] = IF i <= Len(b) THEN b[i] ELSE u[i - Len(b)]
      BY <2>2, <2>6, ConcatProperties
    <3>2. Len(b) + Len(u) = t1 - 1
      BY <2>0, <2>2, <2>6
    <3> QED
      BY <3>1, <3>2, <2>2
  <2> HIDE DEF s1
  <2>11. /\ s2 \in Seq(Symbols) /\ Len(s2) = t1
         /\ \A i \in 1 .. t1 : s2[i] = IF i < t1 THEN s1[i] ELSE ":"
    <3> DEFINE c == <<":">>
    <3>1. c \in Seq(Symbols) /\ Len(c) = 1 /\ c[1] = ":"
      BY <2>8, <2>9
    <3> HIDE DEF c
    <3>2. /\ s2 \in Seq(Symbols) /\ Len(s2) = t1 - 1 + 1
          /\ \A i \in 1 .. t1 - 1 + 1 :
               s2[i] = IF i <= t1 - 1 THEN s1[i] ELSE c[i - (t1 - 1)]
      <4>1. /\ s1 \o c \in Seq(Symbols) /\ Len(s1 \o c) = Len(s1) + Len(c)
            /\ \A i \in 1 .. Len(s1) + Len(c) :
                 (s1 \o c)[i] = IF i <= Len(s1) THEN s1[i] ELSE c[i - Len(s1)]
        BY <3>1, <2>10, ConcatProperties
      <4>2. s2 = s1 \o c
        BY DEF c
      <4> QED
        BY <4>1, <4>2, <3>1, <2>10
    <3> HIDE DEF s2
    <3> QED
      BY <3>1, <3>2, <2>0
  <2> HIDE DEF s2
  <2>12. /\ s3 \in Seq(Symbols) /\ Len(s3) = t2 - 1
         /\ \A i \in 1 .. t2 - 1 : s3[i] = IF i <= t1 THEN s2[i] ELSE p[i - t1]
    <3>1. /\ s3 \in Seq(Symbols) /\ Len(s3) = Len(s2) + Len(p)
          /\ \A i \in 1 .. Len(s2) + Len(p) :
               s3[i] = IF i <= Len(s2) THEN s2[i] ELSE p[i - Len(s2)]
      BY <2>7, <2>11, ConcatProperties
    <3>2. Len(s2) + Len(p) = t2 - 1
      BY <2>0, <2>7, <2>11
    <3> QED
      BY <3>1, <3>2, <2>11
  <2> HIDE DEF s3
  <2>13. /\ s4 \in Seq(Symbols) /\ Len(s4) = t2
         /\ \A i \in 1 .. t2 : s4[i] = IF i < t2 THEN s3[i] ELSE "@"
    <3> DEFINE c == <<"@">>
    <3>1. c \in Seq(Symbols) /\ Len(c) = 1 /\ c[1] = "@"
      BY <2>8, <2>9
    <3> HIDE DEF c
    <3>2. /\ s4 \in Seq(Symbols) /\ Len(s4) = t2 - 1 + 1
          /\ \A i \in 1 .. t2 - 1 + 1 :
               s4[i] = IF i <= t2 - 1 THEN s3[i] ELSE c[i - (t2 - 1)]
      <4>1. /\ s3 \o c \in Seq(Symbols) /\ Len(s3 \o c) = Len(s3) + Len(c)
            /\ \A i \in 1 .. Len(s3) + Len(c) :
                 (s3 \o c)[i] = IF i <= Len(s3) THEN s3[i] ELSE c[i - Len(s3)]
        BY <3>1, <2>12, ConcatProperties
      <4>2. s4 = s3 \o c
        BY DEF c
      <4> QED
        BY <4>1, <4>2, <3>1, <2>12
    <3> HIDE DEF s4
    <3> QED
      BY <3>1, <3>2, <2>0
  <2> HIDE DEF s4
  <2>14. /\ s5 \in Seq(Symbols) /\ Len(s5) = Len(s)
         /\ \A i \in 1 .. Len(s) : s5[i] = IF i <= t2 THEN s4[i] ELSE e[i - t2]
    <3>1. /\ s5 \in Seq(Symbols) /\ Len(s5) = Len(s4) + Len(e)
          /\ \A i \in 1 .. Len(s4) + Len(e) :
               s5[i] = IF i <= Len(s4) THEN s4[i] ELSE e[i - Len(s4)]
      BY <2>5, <2>13, ConcatProperties
    <3>2. Len(s4) + Len(e) = Len(s)
      BY <2>0, <2>5, <2>13, <1>1
    <3> QED
      BY <3>1, <3>2, <2>13
  <2> HIDE DEF s5
  <2>15. ASSUME NEW j \in 1 .. Len(s)
         PROVE  IF j \in (from .. t2 - 1) \ {t1}
                THEN s5[j] \in {"a", "%xx"} ELSE s5[j] = s[j]
    <3>0. j \in Nat /\ 1 <= j /\ j <= Len(s)
      BY <1>1
    <3>1. CASE j < from
      <4>0. /\ j \in 1 .. t1 - 1 /\ j \in 1 .. t1 /\ j \in 1 .. t2 - 1 /\ j \in 1 .. t2
            /\ j < t1 /\ j <= t1 /\ j < t2 /\ j <= t2 /\ j <= from - 1
            /\ j \in 1 .. from - 1
        BY <3>0, <3>1, <2>0
      <4>1. s5[j] = s4[j] /\ s4[j] = s3[j] /\ s3[j] = s2[j] /\ s2[j] = s1[j]
        BY <4>0, <2>11, <2>12, <2>13, <2>14
      <4>2. s1[j] = b[j] /\ b[j] = s[j]
        BY <4>0, <2>2, <2>10
      <4> QED
        BY <4>1, <4>2, <3>0, <3>1, <2>0
    <3>2. CASE from <= j /\ j < t1
      <4>0. /\ j \in 1 .. t1 - 1 /\ j \in 1 .. t1 /\ j \in 1 .. t2 - 1 /\ j \in 1 .. t2
            /\ j < t1 /\ j <= t1 /\ j < t2 /\ j <= t2 /\ ~ (j <= from - 1)
        BY <3>0, <3>2, <2>0
      <4>1. s5[j] = s4[j] /\ s4[j] = s3[j] /\ s3[j] = s2[j] /\ s2[j] = s1[j]
        BY <4>0, <2>11, <2>12, <2>13, <2>14
      <4>2. s1[j] = u[j - (from - 1)] /\ j - (from - 1) \in 1 .. t1 - from
        BY <3>0, <3>2, <2>0, <2>10
      <4> QED
        BY <4>1, <4>2, <2>6, <3>0, <3>2, <2>0
    <3>3. CASE j = t1
      <4>1. s5[j] = s4[j] /\ s4[j] = s3[j] /\ s3[j] = s2[j] /\ s2[j] = ":"
        BY <3>0, <3>3, <2>0, <2>11, <2>12, <2>13, <2>14
      <4> QED
        BY <4>1, <3>3, <2>0
    <3>4. CASE t1 < j /\ j < t2
      <4>0. /\ j \in 1 .. t2 - 1 /\ j \in 1 .. t2
            /\ ~ (j <= t1) /\ j < t2 /\ j <= t2
        BY <3>0, <3>4, <2>0
      <4>1. s5[j] = s4[j] /\ s4[j] = s3[j] /\ s3[j] = p[j - t1]
        BY <4>0, <2>12, <2>13, <2>14
      <4>2. j - t1 \in 1 .. t2 - 1 - t1
        BY <3>0, <3>4, <2>0
      <4> QED
        BY <4>1, <4>2, <2>7, <3>0, <3>4, <2>0
    <3>5. CASE j = t2
      <4>1. s5[j] = s4[j] /\ s4[j] = "@"
        BY <3>0, <3>5, <2>0, <2>13, <2>14
      <4> QED
        BY <4>1, <3>5, <2>0
    <3>6. CASE t2 < j
      <4>1. s5[j] = e[j - t2] /\ j - t2 \in 1 .. Len(s) - t2
        BY <3>0, <3>6, <2>0, <2>14, <1>1
      <4>2. j \in t2 + 1 .. Len(s)
        BY <3>0, <3>6, <2>0, <1>1
      <4>3. e[j - t2] = s[j]
        BY <4>2, <2>5
      <4> QED
        BY <4>1, <4>3, <3>0, <3>6, <2>0
    <3> QED
      BY <3>0, <3>1, <3>2, <3>3, <3>4, <3>5, <3>6, <2>0
  <2> QED
    BY <2>1, <2>14, <2>15, <1>1 DEF Encoded, a, from, t1, t2
<1> QED
  BY <1>3, <1>4

-----------------------------------------------------------------------------
(***************************************************************************)
(* The loop of url_list_parse.  A turn of it that begins at place i takes  *)
(* the piece Piece(str, i) and leaves the next one to begin at             *)
(* NextPlace(str, i), which is further on.                                 *)
(***************************************************************************)
PieceStart(str, i) == SkipBlanks(str, i)
PieceEnd(str, i) == strchr(str, ",", PieceStart(str, i))
Piece(str, i) == SubSeq(str, PieceStart(str, i), PieceEnd(str, i) - 1)
NextPlace(str, i) ==
  IF PieceEnd(str, i) <= Len(str) THEN PieceEnd(str, i) + 1 ELSE PieceEnd(str, i)

\* Where the piece that begins at place i starts and ends, and where the loop of
\* url_list_parse goes on.
LEMMA PiecePlaces ==
  ASSUME NEW str \in Seq(Symbols), NEW i \in 1 .. Len(str)
  PROVE  /\ PieceStart(str, i) \in i .. PieceEnd(str, i)
         /\ PieceEnd(str, i) \in i .. Len(str) + 1
         /\ NextPlace(str, i) \in i + 1 .. Len(str) + 1
         /\ \A k \in i .. PieceStart(str, i) - 1 : str[k] = Blank
         /\ PieceStart(str, i) <= Len(str) => str[PieceStart(str, i)] # Blank
         /\ PieceEnd(str, i) <= Len(str) => str[PieceEnd(str, i)] = ","
         /\ \A k \in PieceStart(str, i) .. PieceEnd(str, i) - 1 : str[k] # ","
         /\ Piece(str, i) \in Seq(Symbols)
<1> DEFINE s == PieceStart(str, i)
           t == PieceEnd(str, i)
<1>0. Len(str) \in Nat /\ i \in 1 .. Len(str) + 1
  BY LenProperties
<1>1. /\ s \in i .. Len(str) + 1
      /\ \A k \in i .. s - 1 : str[k] = Blank
      /\ s <= Len(str) => str[s] # Blank
  BY <1>0, SkipBlanksStops DEF PieceStart
<1> HIDE DEF s
<1>2. s \in 1 .. Len(str) + 1
  BY <1>0, <1>1
<1>3. t = strchr(str, ",", s)
  BY DEF PieceEnd, s
<1>4. /\ t \in s .. Len(str) + 1
      /\ t <= Len(str) => str[t] = ","
      /\ \A k \in s .. t - 1 : str[k] # ","
  <2>1. /\ strchr(str, ",", s) \in s .. Len(str) + 1
        /\ strchr(str, ",", s) <= Len(str) => str[strchr(str, ",", s)] = ","
        /\ \A k \in s .. strchr(str, ",", s) - 1 : str[k] # ","
    BY <1>2, StrchrFinds
  <2> HIDE DEF t
  <2> QED
    BY <2>1, <1>3
<1> HIDE DEF t
<1>5. NextPlace(str, i) = IF t <= Len(str) THEN t + 1 ELSE t
  BY DEF NextPlace, t
<1>6. t \in i .. Len(str) + 1 /\ s \in i .. t
  <2>1. i \in Int /\ Len(str) + 1 \in Int
    BY <1>0
  <2>2. s \in Int /\ i <= s
    BY <2>1, <1>1
  <2>3. t \in s .. Len(str) + 1
    BY <1>4
  <2>4. t \in Int /\ s <= t /\ t <= Len(str) + 1
    BY <2>1, <2>2, <2>3
  <2> QED
    BY <2>1, <2>2, <2>4
<1>7. NextPlace(str, i) \in i + 1 .. Len(str) + 1
  BY <1>0, <1>5, <1>6
<1>8. Piece(str, i) \in Seq(Symbols)
  <2>1. t - 1 \in 0 .. Len(str) /\ s <= t - 1 + 1
    BY <1>0, <1>6
  <2>2. SubSeq(str, s, t - 1) \in Seq(Symbols)
    BY <1>2, <2>1, PartOf
  <2> QED
    BY <2>2 DEF Piece, s, t
<1> QED
  BY <1>1, <1>4, <1>6, <1>7, <1>8 DEF s, t

\* The results of the loop from each place on.
Results(str, f) ==
  /\ f \in [1 .. Len(str) + 1 -> Seq(Seq(Symbols))]
  /\ f[Len(str) + 1] = <<>>
  /\ \A i \in 1 .. Len(str) :
       f[i] = <<Piece(str, i)>> \o f[NextPlace(str, i)]

\* A piece in front of the others.
LEMMA OnePieceMore ==
  ASSUME NEW str \in Seq(Symbols), NEW i \in 1 .. Len(str),
         NEW rest \in Seq(Seq(Symbols))
  PROVE  /\ <<Piece(str, i)>> \o rest \in Seq(Seq(Symbols))
         /\ Len(<<Piece(str, i)>> \o rest) = Len(rest) + 1
         /\ (<<Piece(str, i)>> \o rest)[1] = Piece(str, i)
         /\ \A m \in 1 .. Len(rest) : (<<Piece(str, i)>> \o rest)[m + 1] = rest[m]
<1> DEFINE S == Seq(Symbols)
           p == Piece(str, i)
           one == <<p>>
<1>1. p \in S
  BY PiecePlaces
<1> HIDE DEF S, p
<1>2. one \in Seq(S) /\ Len(one) = 1 /\ one[1] = p
  BY <1>1
<1>3. rest \in Seq(S)
  BY DEF S
<1> HIDE DEF one
<1>4. Len(rest) \in Nat
  BY <1>3, LenProperties
<1>5. /\ one \o rest \in Seq(S)
      /\ Len(one \o rest) = 1 + Len(rest)
      /\ \A m \in 1 .. 1 + Len(rest) :
           (one \o rest)[m] = IF m <= 1 THEN one[m] ELSE rest[m - 1]
  <2>1. /\ one \o rest \in Seq(S)
        /\ Len(one \o rest) = Len(one) + Len(rest)
        /\ \A m \in 1 .. Len(one) + Len(rest) :
             (one \o rest)[m] = IF m <= Len(one) THEN one[m] ELSE rest[m - Len(one)]
    BY <1>2, <1>3, ConcatProperties
  <2> QED
    BY <2>1, <1>2
<1>6. (one \o rest)[1] = p
  BY <1>2, <1>4, <1>5
<1>7. ASSUME NEW m \in 1 .. Len(rest)
      PROVE  (one \o rest)[m + 1] = rest[m]
  <2>1. m + 1 \in 1 .. 1 + Len(rest) /\ ~ (m + 1 <= 1) /\ m + 1 - 1 = m
    BY <1>4
  <2> QED
    BY <1>5, <2>1
<1>8. Len(one \o rest) = Len(rest) + 1
  BY <1>4, <1>5
<1> QED
  BY <1>5, <1>6, <1>7, <1>8 DEF S, p, one

\* The loop of url_list_parse, by the function that Pieces is defined with.
LEMMA ResultsExist ==
  ASSUME NEW str \in Seq(Symbols)
  PROVE  \E f : Results(str, f)
<1> DEFINE n == Len(str)
           V == Seq(Seq(Symbols))
           Good(m, f) ==
             /\ f \in [n + 1 - m .. n + 1 -> V]
             /\ f[n + 1] = <<>>
             /\ \A i \in n + 1 - m .. n :
                  f[i] = <<Piece(str, i)>> \o f[NextPlace(str, i)]
           T == {m \in Nat : m <= n => \E f : Good(m, f)}
<1>0. n \in Nat
  BY LenProperties
<1>1. 0 \in T
  <2> DEFINE f == [i \in n + 1 - 0 .. n + 1 |-> <<>>]
  <2>1. <<>> \in V
    BY EmptySeq
  <2>2. f \in [n + 1 - 0 .. n + 1 -> V]
    BY <2>1
  <2>3. f[n + 1] = <<>> /\ n + 1 - 0 .. n = {}
    BY <1>0
  <2>4. Good(0, f)
    BY <2>2, <2>3
  <2> QED
    BY <2>4
<1>2. ASSUME NEW m \in Nat, m \in T PROVE m + 1 \in T
  <2> SUFFICES ASSUME m + 1 <= n PROVE \E f : Good(m + 1, f)
    OBVIOUS
  <2>1. PICK f : Good(m, f)
    BY <1>0, <1>2
  <2> DEFINE p == n - m
             x == <<Piece(str, p)>> \o f[NextPlace(str, p)]
             g == [i \in n + 1 - (m + 1) .. n + 1 |-> IF i = p THEN x ELSE f[i]]
  <2>2. p \in 1 .. n /\ n + 1 - (m + 1) = p /\ n + 1 - m = p + 1
    BY <1>0
  <2>3. NextPlace(str, p) \in p + 1 .. n + 1
    BY <2>2, PiecePlaces
  <2>4. f[NextPlace(str, p)] \in V
    BY <2>1, <2>2, <2>3
  <2>5. x \in V
    BY <2>2, <2>4, OnePieceMore
  <2> HIDE DEF p, x
  <2>6. ASSUME NEW i \in p .. n + 1
        PROVE  g[i] = IF i = p THEN x ELSE f[i]
    BY <2>2
  <2>7. g \in [n + 1 - (m + 1) .. n + 1 -> V]
    <3>1. \A i \in n + 1 - (m + 1) .. n + 1 : i # p => f[i] \in V
      <4> TAKE i \in n + 1 - (m + 1) .. n + 1
      <4> HAVE i # p
      <4>1. i \in n + 1 - m .. n + 1
        BY <2>2, <1>0
      <4> QED
        BY <4>1, <2>1
    <3> QED
      BY <3>1, <2>5
  <2>8. g[n + 1] = <<>>
    <3>1. n + 1 \in p .. n + 1 /\ n + 1 # p
      BY <1>0, <2>2
    <3> QED
      BY <3>1, <2>6, <2>1
  <2>9. ASSUME NEW i \in n + 1 - (m + 1) .. n
        PROVE  g[i] = <<Piece(str, i)>> \o g[NextPlace(str, i)]
    <3>1. i \in 1 .. n /\ i \in p .. n + 1
      BY <2>2, <1>0
    <3>2. NextPlace(str, i) \in i + 1 .. n + 1
      BY <3>1, PiecePlaces
    <3>3. NextPlace(str, i) \in p .. n + 1 /\ NextPlace(str, i) # p
      BY <2>2, <3>1, <3>2, <1>0
    <3>4. g[NextPlace(str, i)] = f[NextPlace(str, i)]
      BY <2>6, <3>3
    <3>5. CASE i = p
      BY <2>6, <3>1, <3>4, <3>5 DEF x
    <3>6. CASE i # p
      <4>1. i \in n + 1 - m .. n
        BY <2>2, <3>1, <3>6, <1>0
      <4> QED
        BY <4>1, <2>1, <2>6, <3>1, <3>4, <3>6
    <3> QED
      BY <3>5, <3>6
  <2> HIDE DEF g
  <2>10. Good(m + 1, g)
    BY <2>7, <2>8, <2>9
  <2> QED
    BY <2>10
<1>3. n \in T
  <2> HIDE DEF T
  <2> QED
    BY <1>0, <1>1, <1>2, NatSetInduction
<1>4. PICK f : Good(n, f)
  BY <1>3, <1>0
<1>5. n + 1 - n = 1
  BY <1>0
<1> QED
  BY <1>4, <1>5 DEF Results

\* What url_list_parse takes for the URLs is the result from the beginning on.
LEMMA PiecesResults ==
  ASSUME NEW str \in Seq(Symbols)
  PROVE  \E f : Results(str, f) /\ Pieces(str) = f[1]
<1> DEFINE n == Len(str)
           V == Seq(Seq(Symbols))
           From(f, i) == IF i > n THEN <<>>
                         ELSE <<Piece(str, i)>> \o f[NextPlace(str, i)]
           F == CHOOSE f : f = [i \in 1 .. n + 1 |-> From(f, i)]
<1>0. n \in Nat
  BY LenProperties
<1>1. PICK f : Results(str, f)
  BY ResultsExist
<1>2. ASSUME NEW i \in 1 .. n + 1 PROVE f[i] = From(f, i)
  <2>1. CASE i = n + 1
    BY <2>1, <1>0, <1>1 DEF Results
  <2>2. CASE i # n + 1
    <3>1. i \in 1 .. n /\ ~ (i > n)
      BY <2>2, <1>0
    <3> QED
      BY <3>1, <1>1 DEF Results
  <2> QED
    BY <2>1, <2>2
<1>3. f = [i \in 1 .. n + 1 |-> From(f, i)]
  <2>1. f = [i \in 1 .. n + 1 |-> f[i]]
    BY <1>1 DEF Results
  <2> HIDE DEF From
  <2> QED
    BY <1>2, <2>1
<1>4. F = [i \in 1 .. n + 1 |-> From(F, i)]
  <2> HIDE DEF From
  <2> QED
    BY <1>3
<1>5. Pieces(str) = F[1]
  BY DEF Pieces, Piece, PieceStart, PieceEnd, NextPlace
<1> HIDE DEF F
<1>6. \A i \in 1 .. n + 1 : F[i] = From(F, i)
  <2> HIDE DEF From
  <2> QED
    BY <1>4
<1>7. F[n + 1] = <<>>
  <2>1. n + 1 \in 1 .. n + 1 /\ n + 1 > n
    BY <1>0
  <2> QED
    BY <1>6, <2>1
<1>8. ASSUME NEW i \in 1 .. n PROVE F[i] = <<Piece(str, i)>> \o F[NextPlace(str, i)]
  <2>1. i \in 1 .. n + 1 /\ ~ (i > n)
    BY <1>0
  <2> QED
    BY <1>6, <2>1
<1>9. \A i \in 1 .. n + 1 : F[i] \in V
  <2> DEFINE T == {m \in Nat : \A k \in 1 .. n + 1 : k >= n + 1 - m => F[k] \in V}
  <2>1. 0 \in T
    <3>1. <<>> \in V
      BY EmptySeq
    <3>2. \A k \in 1 .. n + 1 : k >= n + 1 - 0 => k = n + 1
      BY <1>0
    <3> QED
      BY <3>1, <3>2, <1>7
  <2>2. ASSUME NEW m \in Nat, m \in T PROVE m + 1 \in T
    <3> SUFFICES ASSUME NEW k \in 1 .. n + 1, k >= n + 1 - (m + 1)
                 PROVE  F[k] \in V
      BY <1>0
    <3>1. CASE k >= n + 1 - m
      BY <2>2, <3>1
    <3>2. CASE ~ (k >= n + 1 - m)
      <4>1. k \in 1 .. n /\ k = n - m
        BY <1>0, <3>2
      <4>2. NextPlace(str, k) \in k + 1 .. n + 1
        BY <4>1, PiecePlaces
      <4>3. NextPlace(str, k) \in 1 .. n + 1 /\ NextPlace(str, k) >= n + 1 - m
        BY <4>1, <4>2, <1>0
      <4>4. F[NextPlace(str, k)] \in V
        BY <4>3, <2>2
      <4> QED
        BY <4>1, <4>4, <1>8, OnePieceMore
    <3> QED
      BY <3>1, <3>2
  <2>3. Nat \subseteq T
    <3> HIDE DEF T
    <3> QED
      BY <2>1, <2>2, NatSetInduction
  <2>4. n \in T
    BY <2>3, <1>0
  <2> QED
    BY <2>4, <1>0
<1>10. F \in [1 .. n + 1 -> V]
  <2> HIDE DEF From, V
  <2> QED
    BY <1>4, <1>9
<1> QED
  BY <1>5, <1>7, <1>8, <1>10 DEF Results

\* The pieces are texts.
LEMMA PiecesType ==
  ASSUME NEW str \in Seq(Symbols)
  PROVE  Pieces(str) \in Seq(Seq(Symbols))
<1>1. PICK f : Results(str, f) /\ Pieces(str) = f[1]
  BY PiecesResults
<1>2. Len(str) \in Nat
  BY LenProperties
<1> QED
  BY <1>1, <1>2 DEF Results

-----------------------------------------------------------------------------
(***************************************************************************)
(* The pieces are the elements of the reference definition, which counts   *)
(* the commas of the text instead of looking for the next one.             *)
(***************************************************************************)
Ended(str) ==
  IF str # <<>> /\ str[Len(str)] = "," THEN str ELSE Append(str, ",")
Commas(str) == {i \in DOMAIN Ended(str) : Ended(str)[i] = ","}
Before(str, b) == {j \in Commas(str) : j < b}
Nth(str, n) == CHOOSE i \in Commas(str) : Cardinality(Before(str, i)) = n - 1
Begin(str, n) == IF n = 1 THEN 1 ELSE Nth(str, n - 1) + 1
Blanks(str, n) ==
  {i \in Begin(str, n) .. Nth(str, n) - 1 :
     \A j \in Begin(str, n) .. i : Ended(str)[j] = Blank}
Element(str, n) ==
  SubSeq(Ended(str), Begin(str, n) + Cardinality(Blanks(str, n)),
         Nth(str, n) - 1)

\* Elements without its local definitions.
LEMMA ElementsAre ==
  ASSUME NEW str
  PROVE  Elements(str) = IF str = <<>> THEN <<>>
                         ELSE [n \in 1 .. Cardinality(Commas(str)) |-> Element(str, n)]
BY DEF Elements, Element, Blanks, Begin, Nth, Before, Commas, Ended

IsComma(x) == x = ","

\* The text with a comma at its end.
LEMMA EndedIs ==
  ASSUME NEW str \in Seq(Symbols), str # <<>>
  PROVE  /\ Len(str) \in Nat \ {0}
         /\ Ended(str) \in Seq(Symbols)
         /\ \A i \in 1 .. Len(str) : Ended(str)[i] = str[i]
         /\ \/ Len(Ended(str)) = Len(str) /\ IsComma(str[Len(str)])
            \/ /\ Len(Ended(str)) = Len(str) + 1 /\ ~ IsComma(str[Len(str)])
               /\ IsComma(Ended(str)[Len(str) + 1])
<1> DEFINE c == ","
<1>1. Len(str) \in Nat \ {0}
  BY EmptySeq
<1>2. c \in Symbols
  BY DEF Symbols, Chars
<1>3. IsComma(c)
  BY DEF IsComma
<1>4. Ended(str) = IF IsComma(str[Len(str)]) THEN str ELSE Append(str, c)
  BY DEF Ended, IsComma
<1> HIDE DEF c
<1>5. /\ Append(str, c) \in Seq(Symbols)
      /\ Len(Append(str, c)) = Len(str) + 1
      /\ \A i \in 1 .. Len(str) : Append(str, c)[i] = str[i]
      /\ Append(str, c)[Len(str) + 1] = c
  BY <1>2, AppendProperties
<1>6. CASE IsComma(str[Len(str)])
  BY <1>1, <1>4, <1>6
<1>7. CASE ~ IsComma(str[Len(str)])
  BY <1>1, <1>3, <1>4, <1>5, <1>7
<1> QED
  BY <1>6, <1>7

\* The commas of a text, the one at its end included.
LEMMA CommasAre ==
  ASSUME NEW str \in Seq(Symbols), str # <<>>
  PROVE  /\ Commas(str) \subseteq 1 .. Len(str) + 1
         /\ \A i \in 1 .. Len(str) : i \in Commas(str) <=> IsComma(str[i])
         /\ Len(str) + 1 \in Commas(str) <=> ~ IsComma(str[Len(str)])
         /\ \A b : IsFiniteSet(Before(str, b)) /\ Cardinality(Before(str, b)) \in Nat
         /\ IsFiniteSet(Commas(str)) /\ Cardinality(Commas(str)) \in Nat
<1> DEFINE e == Ended(str)
<1>1. /\ Len(str) \in Nat \ {0}
      /\ e \in Seq(Symbols)
      /\ \A i \in 1 .. Len(str) : e[i] = str[i]
      /\ \/ Len(e) = Len(str) /\ IsComma(str[Len(str)])
         \/ /\ Len(e) = Len(str) + 1 /\ ~ IsComma(str[Len(str)])
            /\ IsComma(e[Len(str) + 1])
  BY EndedIs
<1>2. Commas(str) = {i \in DOMAIN e : IsComma(e[i])}
  BY DEF Commas, IsComma
<1> HIDE DEF e
<1>3. DOMAIN e = 1 .. Len(e)
  BY <1>1, LenProperties
<1>4. Commas(str) \subseteq 1 .. Len(str) + 1
  <2>1. 1 .. Len(e) \subseteq 1 .. Len(str) + 1
    BY <1>1
  <2> QED
    BY <1>2, <1>3, <2>1
<1>5. ASSUME NEW i \in 1 .. Len(str) PROVE i \in Commas(str) <=> IsComma(str[i])
  <2>1. i \in 1 .. Len(e) /\ e[i] = str[i]
    BY <1>1
  <2> QED
    BY <2>1, <1>2, <1>3
<1>6. Len(str) + 1 \in Commas(str) <=> ~ IsComma(str[Len(str)])
  <2>1. CASE Len(e) = Len(str) /\ IsComma(str[Len(str)])
    <3>1. Len(str) + 1 \notin 1 .. Len(e)
      BY <2>1, <1>1
    <3> QED
      BY <2>1, <3>1, <1>2, <1>3
  <2>2. CASE /\ Len(e) = Len(str) + 1 /\ ~ IsComma(str[Len(str)])
             /\ IsComma(e[Len(str) + 1])
    <3>1. Len(str) + 1 \in 1 .. Len(e)
      BY <2>2, <1>1
    <3> QED
      BY <2>2, <3>1, <1>2, <1>3
  <2> QED
    BY <1>1, <2>1, <2>2
<1>7. IsFiniteSet(1 .. Len(str) + 1)
  BY <1>1, FS_Interval
<1>8. IsFiniteSet(Commas(str)) /\ Cardinality(Commas(str)) \in Nat
  BY <1>4, <1>7, FS_Subset, FS_CardinalityType
<1>9. ASSUME NEW b
      PROVE  IsFiniteSet(Before(str, b)) /\ Cardinality(Before(str, b)) \in Nat
  <2>1. Before(str, b) \subseteq Commas(str)
    BY DEF Before
  <2> QED
    BY <1>8, <2>1, FS_Subset, FS_CardinalityType
<1> QED
  BY <1>4, <1>5, <1>6, <1>8, <1>9

\* One comma more before a place behind the next one.
LEMMA NextRank ==
  ASSUME NEW str \in Seq(Symbols), str # <<>>, NEW i \in Commas(str)
  PROVE  Cardinality(Before(str, i + 1)) = Cardinality(Before(str, i)) + 1
<1>1. Commas(str) \subseteq Nat /\ Len(str) \in Nat
  BY CommasAre, LenProperties
<1>2. Before(str, i + 1) = Before(str, i) \cup {i} /\ i \notin Before(str, i)
  BY <1>1 DEF Before
<1>3. IsFiniteSet(Before(str, i))
  BY CommasAre
<1> QED
  BY <1>2, <1>3, FS_AddElement

\* A later comma has more commas before it.
LEMMA RankGrows ==
  ASSUME NEW str \in Seq(Symbols), str # <<>>,
         NEW i \in Commas(str), NEW j \in Commas(str), i < j
  PROVE  Cardinality(Before(str, i)) < Cardinality(Before(str, j))
<1>1. Commas(str) \subseteq Nat /\ Len(str) \in Nat
  BY CommasAre, LenProperties
<1>2. Before(str, i + 1) \subseteq Before(str, j)
  BY <1>1 DEF Before
<1>3. /\ IsFiniteSet(Before(str, j)) /\ Cardinality(Before(str, j)) \in Nat
      /\ Cardinality(Before(str, i)) \in Nat
  BY CommasAre
<1>4. Cardinality(Before(str, i + 1)) <= Cardinality(Before(str, j))
  BY <1>2, <1>3, FS_Subset
<1> QED
  BY <1>3, <1>4, NextRank

\* The comma with n - 1 commas before it is the n-th.
LEMMA NthIs ==
  ASSUME NEW str \in Seq(Symbols), str # <<>>, NEW i \in Commas(str),
         NEW n, Cardinality(Before(str, i)) = n - 1
  PROVE  Nth(str, n) = i
<1> DEFINE r(x) == Cardinality(Before(str, x))
<1>1. Commas(str) \subseteq Nat /\ Len(str) \in Nat /\ \A b : r(b) \in Nat
  BY CommasAre, LenProperties
<1>2. ASSUME NEW j \in Commas(str), r(j) = r(i) PROVE j = i
  <2>1. i \in Nat /\ j \in Nat /\ r(i) \in Nat
    BY <1>1
  <2>2. ~ (i < j)
    <3> SUFFICES ASSUME i < j PROVE FALSE
      OBVIOUS
    <3>1. r(i) < r(j)
      BY RankGrows
    <3> HIDE DEF r
    <3> QED
      BY <1>2, <2>1, <3>1
  <2>3. ~ (j < i)
    <3> SUFFICES ASSUME j < i PROVE FALSE
      OBVIOUS
    <3>1. r(j) < r(i)
      BY RankGrows
    <3> HIDE DEF r
    <3> QED
      BY <1>2, <2>1, <3>1
  <2> QED
    BY <2>1, <2>2, <2>3
<1>3. Nth(str, n) = CHOOSE j \in Commas(str) : r(j) = n - 1
  BY DEF Nth
<1> HIDE DEF r
<1>4. (CHOOSE j \in Commas(str) : r(j) = r(i)) = i
  BY <1>2
<1>5. r(i) = n - 1
  BY DEF r
<1> QED
  BY <1>3, <1>4, <1>5

\* An element begins behind the comma of the one before it.
LEMMA BeginIs ==
  ASSUME NEW str, NEW n, NEW k, n # 1, k = n - 1
  PROVE  Begin(str, n) = Nth(str, k) + 1
BY DEF Begin

\* A turn of the loop begins at the beginning of the text or after a comma.
Starts(str, b) == b \in 1 .. Len(str) + 1 /\ (b = 1 \/ b - 1 \in Commas(str))

\* No comma is before the first place.
LEMMA FirstRank ==
  ASSUME NEW str \in Seq(Symbols), str # <<>>
  PROVE  Cardinality(Before(str, 1)) = 0
<1>1. Len(str) \in Nat /\ Commas(str) \subseteq 1 .. Len(str) + 1
  BY CommasAre, LenProperties
<1>2. Before(str, 1) = {}
  <2> SUFFICES ASSUME NEW j \in Commas(str), j < 1 PROVE FALSE
    BY DEF Before
  <2>1. j \in 1 .. Len(str) + 1
    BY <1>1
  <2> QED
    BY <1>1, <2>1
<1> QED
  BY <1>2, FS_EmptySet

\* The turn that begins at b takes the next element.
LEMMA PieceIsElement ==
  ASSUME NEW str \in Seq(Symbols), str # <<>>,
         NEW b \in 1 .. Len(str), Starts(str, b)
  PROVE  LET r == Cardinality(Before(str, b))
             t == PieceEnd(str, b)
         IN  /\ Piece(str, b) = Element(str, r + 1)
             /\ t \in Commas(str)
             /\ Cardinality(Before(str, t + 1)) = r + 1
<1> DEFINE N == Len(str)
           e == Ended(str)
           r == Cardinality(Before(str, b))
           s == PieceStart(str, b)
           t == PieceEnd(str, b)
<1>0. /\ N \in Nat /\ N # 0 /\ b \in Nat /\ 1 <= b /\ b <= N
      /\ Commas(str) \subseteq 1 .. N + 1
  BY EndedIs, CommasAre
<1>1. s \in b .. t /\ t \in b .. N + 1
  BY PiecePlaces
<1>2. /\ \A k \in b .. s - 1 : str[k] = Blank
      /\ s <= N => str[s] # Blank
  BY PiecePlaces
<1>3. /\ t <= N => IsComma(str[t])
      /\ \A k \in s .. t - 1 : ~ IsComma(str[k])
  BY PiecePlaces DEF IsComma
<1> HIDE DEF s, t
<1>4. ~ IsComma(Blank)
  BY DEF IsComma, Blank
<1>5. s \in Nat /\ t \in Nat /\ b <= s /\ s <= t /\ t <= N + 1
  <2>1. s \in Int /\ t \in Int
    BY <1>0, <1>1
  <2> QED
    BY <1>0, <1>1, <2>1
<1>6. ASSUME NEW k \in b .. t - 1 PROVE ~ IsComma(str[k]) /\ k \in 1 .. N
  <2>0. k \in 1 .. N /\ (k \in b .. s - 1 \/ k \in s .. t - 1)
    BY <1>0, <1>5
  <2> QED
    BY <2>0, <1>2, <1>3, <1>4
<1>7. t \in Commas(str)
  <2>1. CASE t <= N
    <3>1. t \in 1 .. N
      BY <2>1, <1>0, <1>5
    <3> QED
      BY <3>1, <2>1, <1>3, CommasAre
  <2>2. CASE t = N + 1
    <3>1. N \in b .. t - 1
      BY <2>2, <1>0
    <3>2. ~ IsComma(str[N])
      BY <3>1, <1>6
    <3> QED
      BY <3>2, <2>2, CommasAre
  <2> QED
    BY <2>1, <2>2, <1>0, <1>5
<1>8. Before(str, t) = Before(str, b)
  <2>1. ASSUME NEW j \in Commas(str), j < t PROVE j < b
    <3> SUFFICES ASSUME ~ (j < b) PROVE FALSE
      OBVIOUS
    <3>0. j \in 1 .. N + 1
      BY <1>0
    <3>1. j \in b .. t - 1
      BY <1>0, <1>5, <2>1, <3>0
    <3>2. j \in 1 .. N /\ ~ IsComma(str[j])
      BY <3>1, <1>6
    <3> QED
      BY <3>2, CommasAre
  <2>2. \A j \in Commas(str) : j < b => j < t
    <3> TAKE j \in Commas(str)
    <3>1. j \in 1 .. N + 1
      BY <1>0
    <3> QED
      BY <3>1, <1>0, <1>5
  <2> QED
    BY <2>1, <2>2 DEF Before
<1>11. r \in Nat
  BY CommasAre
<1> DEFINE n == r + 1
<1>19. n \in Nat /\ n = r + 1 /\ r = n - 1
  BY <1>11
<1> HIDE DEF n
<1>9. Nth(str, n) = t
  <2>1. Cardinality(Before(str, t)) = n - 1
    BY <1>8, <1>19
  <2> QED
    BY <2>1, <1>7, NthIs
<1>10. Cardinality(Before(str, t + 1)) = r + 1
  BY <1>7, <1>8, NextRank
<1>12. Begin(str, n) = b
  <2>1. CASE b = 1
    <3>1. r = 0
      BY <2>1, FirstRank
    <3>2. n = 1
      BY <3>1, <1>19
    <3> QED
      BY <2>1, <3>2 DEF Begin
  <2>2. CASE b # 1
    <3>1. b - 1 \in Commas(str)
      BY <2>2 DEF Starts
    <3>2. b - 1 + 1 = b
      BY <1>0
    <3>3. r = Cardinality(Before(str, b - 1)) + 1
      BY <3>1, <3>2, NextRank
    <3>4. Cardinality(Before(str, b - 1)) \in Nat
      BY CommasAre
    <3>5. Nth(str, r) = b - 1
      <4>1. Cardinality(Before(str, b - 1)) = r - 1
        BY <3>3, <3>4
      <4> QED
        BY <3>1, <4>1, NthIs
    <3>6. n # 1
      BY <3>3, <3>4, <1>19
    <3> HIDE DEF r
    <3>7. Begin(str, n) = Nth(str, r) + 1
      BY <3>6, <1>19, BeginIs
    <3> QED
      BY <3>2, <3>5, <3>7
  <2> QED
    BY <2>1, <2>2
<1>13. \A i \in 1 .. N : e[i] = str[i]
  BY EndedIs
<1>14. Blanks(str, n) = b .. s - 1
  <2>1. Blanks(str, n) = {i \in b .. t - 1 : \A j \in b .. i : e[j] = Blank}
    BY <1>9, <1>12 DEF Blanks
  <2>2. ASSUME NEW i \in b .. s - 1
        PROVE  i \in b .. t - 1 /\ \A j \in b .. i : e[j] = Blank
    <3>1. i \in b .. t - 1
      BY <1>0, <1>5
    <3>2. \A j \in b .. i : j \in 1 .. N /\ j \in b .. s - 1
      BY <1>0, <1>5
    <3> QED
      BY <3>1, <3>2, <1>2, <1>13
  <2>3. ASSUME NEW i \in b .. t - 1, \A j \in b .. i : e[j] = Blank
        PROVE  i \in b .. s - 1
    <3> SUFFICES ASSUME ~ (i <= s - 1) PROVE FALSE
      BY <1>0, <1>5
    <3>1. s \in b .. i /\ s \in 1 .. N /\ s <= N
      BY <1>0, <1>5
    <3> QED
      BY <3>1, <2>3, <1>2, <1>13
  <2> QED
    BY <2>1, <2>2, <2>3
<1>15. b + Cardinality(Blanks(str, n)) = s
  <2>1. Cardinality(b .. s - 1) = IF b > s - 1 THEN 0 ELSE s - 1 - b + 1
    BY <1>0, <1>5, FS_Interval
  <2> QED
    BY <2>1, <1>14, <1>0, <1>5
<1>16. Element(str, n) = SubSeq(e, s, t - 1)
  BY <1>9, <1>12, <1>15 DEF Element
<1>17. SubSeq(e, s, t - 1) = SubSeq(str, s, t - 1)
  <2>1. /\ s \in 1 .. N + 1 /\ t - 1 \in 0 .. N /\ s <= t - 1 + 1
        /\ e \in Seq(Symbols) /\ Len(e) \in Nat /\ N <= Len(e)
    BY <1>0, <1>5, EndedIs, LenProperties
  <2>2. s \in 1 .. Len(e) + 1 /\ t - 1 \in 0 .. Len(e)
    BY <2>1, <1>0
  <2> DEFINE p == SubSeq(e, s, t - 1)
             q == SubSeq(str, s, t - 1)
  <2>3. /\ p \in Seq(Symbols) /\ Len(p) = t - 1 - s + 1
        /\ \A i \in 1 .. t - 1 - s + 1 : p[i] = e[s + i - 1]
    BY <2>1, <2>2, PartOf
  <2>4. /\ q \in Seq(Symbols) /\ Len(q) = t - 1 - s + 1
        /\ \A i \in 1 .. t - 1 - s + 1 : q[i] = str[s + i - 1]
    BY <2>1, PartOf
  <2>5. \A i \in 1 .. t - 1 - s + 1 : s + i - 1 \in 1 .. N
    BY <1>0, <1>5
  <2> HIDE DEF p, q
  <2>6. \A i \in 1 .. Len(p) : p[i] = q[i]
    BY <2>3, <2>4, <2>5, <1>13
  <2>7. p = q
    BY <2>3, <2>4, <2>6, SeqEqual
  <2> QED
    BY <2>7 DEF p, q
<1>18. Piece(str, b) = SubSeq(str, s, t - 1)
  BY DEF Piece, s, t
<1> QED
  BY <1>7, <1>10, <1>16, <1>17, <1>18, <1>19 DEF t

\* For a text of any length the loop of url_list_parse finds exactly the elements
\* between the commas, a comma at the end closing the last one.
THEOREM PiecesAreElements ==
  ASSUME NEW str \in Seq(Symbols)
  PROVE  Pieces(str) = Elements(str)
<1> DEFINE N == Len(str)
           K == Cardinality(Commas(str))
           r(b) == Cardinality(Before(str, b))
<1>1. PICK f : Results(str, f) /\ Pieces(str) = f[1]
  BY PiecesResults
<1>2. CASE str = <<>>
  <2>1. Len(str) + 1 = 1
    BY <1>2, EmptySeq
  <2>2. f[1] = <<>>
    BY <1>1, <2>1 DEF Results
  <2> QED
    BY <1>1, <1>2, <2>2, ElementsAre
<1>3. CASE str # <<>>
  <2> DEFINE Good(b) == /\ Len(f[b]) = K - r(b)
                        /\ \A m \in 1 .. K - r(b) : f[b][m] = Element(str, r(b) + m)
             T == {m \in Nat : \A b \in 1 .. N + 1 :
                                 b >= N + 1 - m /\ Starts(str, b) => Good(b)}
  <2>0. /\ N \in Nat /\ N # 0 /\ K \in Nat /\ \A b : r(b) \in Nat
        /\ Commas(str) \subseteq 1 .. N + 1
    BY <1>3, EndedIs, CommasAre
  <2>1. ASSUME Starts(str, N + 1) PROVE r(N + 1) = K
    <3>1. N \in Commas(str)
      <4>1. N + 1 # 1 /\ N + 1 - 1 = N
        BY <2>0
      <4> QED
        BY <2>1, <4>1 DEF Starts
    <3>2. N \in 1 .. N
      BY <2>0
    <3>3. N + 1 \notin Commas(str)
      BY <1>3, <3>1, <3>2, CommasAre
    <3>4. \A j \in Commas(str) : j < N + 1
      <4> TAKE j \in Commas(str)
      <4>1. j \in 1 .. N + 1 /\ j # N + 1
        BY <2>0, <3>3
      <4> QED
        BY <2>0, <4>1
    <3>5. Before(str, N + 1) = Commas(str)
      BY <3>4 DEF Before
    <3> QED
      BY <3>5
  <2>2. 0 \in T
    <3> SUFFICES ASSUME NEW b \in 1 .. N + 1, b >= N + 1 - 0, Starts(str, b)
                 PROVE  Good(b)
      OBVIOUS
    <3>1. b = N + 1
      BY <2>0
    <3>2. r(b) = K
      BY <2>1, <3>1
    <3>3. f[b] = <<>>
      BY <1>1, <3>1 DEF Results
    <3>4. K - r(b) = 0 /\ Len(f[b]) = 0
      BY <2>0, <3>2, <3>3, EmptySeq
    <3> QED
      BY <3>4
  <2>3. ASSUME NEW m \in Nat, m \in T PROVE m + 1 \in T
    <3> SUFFICES ASSUME NEW b \in 1 .. N + 1, b >= N + 1 - (m + 1), Starts(str, b)
                 PROVE  Good(b)
      OBVIOUS
    <3>1. CASE b >= N + 1 - m
      BY <2>3, <3>1
    <3>2. CASE ~ (b >= N + 1 - m)
      <4> DEFINE t == PieceEnd(str, b)
                 n == NextPlace(str, b)
      <4>1. b \in 1 .. N /\ b = N - m
        BY <2>0, <3>2
      <4>2. /\ Piece(str, b) = Element(str, r(b) + 1)
            /\ t \in Commas(str)
            /\ r(t + 1) = r(b) + 1
        BY <1>3, <4>1, PieceIsElement
      <4>3. n \in b + 1 .. N + 1 /\ n = IF t <= N THEN t + 1 ELSE t
        BY <4>1, PiecePlaces DEF NextPlace
      <4>4. f[b] = <<Piece(str, b)>> \o f[n]
        BY <1>1, <4>1 DEF Results
      <4>5. n \in 1 .. N + 1 /\ n >= N + 1 - m
        BY <4>1, <4>3, <2>0
      <4>6. f[n] \in Seq(Seq(Symbols)) /\ Len(f[n]) \in Nat
        BY <1>1, <4>5, LenProperties DEF Results
      <4> HIDE DEF t, n
      <4>7. /\ Len(f[b]) = Len(f[n]) + 1
            /\ f[b][1] = Piece(str, b)
            /\ \A k \in 1 .. Len(f[n]) : f[b][k + 1] = f[n][k]
        BY <4>1, <4>4, <4>6, OnePieceMore
      <4>8. /\ Len(f[n]) = K - (r(b) + 1)
            /\ \A k \in 1 .. K - (r(b) + 1) : f[n][k] = Element(str, r(b) + 1 + k)
        <5>0. t \in 1 .. N + 1
          BY <4>2, <2>0
        <5>1. CASE t <= N
          <6>1. n = t + 1 /\ n - 1 = t
            BY <4>3, <5>0, <5>1, <2>0
          <6>2. Starts(str, n)
            BY <6>1, <4>2, <4>5 DEF Starts
          <6>3. Good(n)
            BY <6>2, <4>5, <2>3
          <6>4. r(n) = r(b) + 1
            BY <6>1, <4>2
          <6> QED
            BY <6>3, <6>4
        <5>2. CASE t = N + 1
          <6>1. n = N + 1
            BY <4>3, <5>2, <2>0
          <6>2. f[n] = <<>>
            BY <1>1, <6>1 DEF Results
          <6>3. \A j \in Commas(str) : j < t + 1
            <7> TAKE j \in Commas(str)
            <7>1. j \in 1 .. N + 1
              BY <2>0
            <7> QED
              BY <7>1, <5>2, <2>0
          <6>4. Before(str, t + 1) = Commas(str)
            BY <6>3 DEF Before
          <6>5. K = r(b) + 1
            BY <6>4, <4>2
          <6>6. K - (r(b) + 1) = 0 /\ Len(f[n]) = 0
            BY <6>2, <6>5, <2>0, EmptySeq
          <6> QED
            BY <6>6
        <5> QED
          BY <5>0, <5>1, <5>2, <2>0
      <4>9. r(b) \in Nat
        BY <2>0
      <4> HIDE DEF r, K
      <4>10. Len(f[b]) = K - r(b)
        BY <4>7, <4>8, <4>9, <2>0
      <4>11. ASSUME NEW k \in 1 .. K - r(b)
             PROVE  f[b][k] = Element(str, r(b) + k)
        <5>1. CASE k = 1
          BY <5>1, <4>2, <4>7
        <5>2. CASE k # 1
          <6>1. /\ k - 1 \in 1 .. K - (r(b) + 1) /\ k - 1 \in 1 .. Len(f[n])
                /\ k - 1 + 1 = k /\ r(b) + 1 + (k - 1) = r(b) + k
            BY <5>2, <4>8, <4>9, <2>0
          <6>2. f[b][k - 1 + 1] = f[n][k - 1]
            BY <6>1, <4>7
          <6>3. f[n][k - 1] = Element(str, r(b) + 1 + (k - 1))
            BY <6>1, <4>8
          <6> QED
            BY <6>1, <6>2, <6>3
        <5> QED
          BY <5>1, <5>2
      <4> QED
        BY <4>10, <4>11
    <3> QED
      BY <3>1, <3>2
  <2>4. Nat \subseteq T
    <3> HIDE DEF T
    <3> QED
      BY <2>2, <2>3, NatSetInduction
  <2>5. N \in T
    BY <2>4, <2>0
  <2>6. 1 \in 1 .. N + 1 /\ 1 >= N + 1 - N /\ Starts(str, 1)
    BY <2>0 DEF Starts
  <2>7. Good(1)
    BY <2>5, <2>6
  <2>8. r(1) = 0
    BY <1>3, FirstRank
  <2>9. Len(f[1]) = K /\ \A m \in 1 .. K : f[1][m] = Element(str, m)
    <3>1. K - r(1) = K /\ \A m \in 1 .. K : r(1) + m = m
      BY <2>0, <2>8
    <3> HIDE DEF r, K
    <3> QED
      BY <2>7, <3>1
  <2>10. f[1] \in Seq(Seq(Symbols))
    BY <1>1, <2>6 DEF Results
  <2>11. f[1] \in [1 .. Len(f[1]) -> Seq(Symbols)]
    BY <2>10, LenProperties
  <2>12. f[1] = [m \in 1 .. K |-> Element(str, m)]
    BY <2>9, <2>11
  <2> QED
    BY <1>1, <1>3, <2>12, ElementsAre
<1> QED
  BY <1>2, <1>3

-----------------------------------------------------------------------------
(***************************************************************************)
(* The list that url_list_parse makes of a text.                           *)
(***************************************************************************)
LEMMA BoundExists ==
  ASSUME NEW n \in Nat, NEW g \in [1 .. n -> Nat]
  PROVE  \E b \in Nat : \A i \in 1 .. n : g[i] <= b
<1> DEFINE T == {m \in Nat : m <= n => \E b \in Nat : \A i \in 1 .. m : g[i] <= b}
<1>1. 0 \in T
  <2>1. \A i \in 1 .. 0 : g[i] <= 0
    OBVIOUS
  <2> QED
    BY <2>1
<1>2. ASSUME NEW m \in Nat, m \in T PROVE m + 1 \in T
  <2> SUFFICES ASSUME m + 1 <= n
               PROVE  \E b \in Nat : \A i \in 1 .. m + 1 : g[i] <= b
    OBVIOUS
  <2>1. PICK b \in Nat : \A i \in 1 .. m : g[i] <= b
    BY <1>2
  <2>2. g[m + 1] \in Nat
    OBVIOUS
  <2>3. \A i \in 1 .. m + 1 : g[i] <= b + g[m + 1]
    <3> TAKE i \in 1 .. m + 1
    <3>1. g[i] \in Nat
      OBVIOUS
    <3>2. CASE i = m + 1
      BY <2>2, <3>2
    <3>3. CASE i # m + 1
      BY <2>1, <2>2, <3>1, <3>3
    <3> QED
      BY <3>2, <3>3
  <2> QED
    BY <2>2, <2>3
<1>3. Nat \subseteq T
  <2> HIDE DEF T
  <2> QED
    BY <1>1, <1>2, NatSetInduction
<1>4. n \in T
  BY <1>3
<1> QED
  BY <1>4

\* Longest is a maximum.
LEMMA LongestIs ==
  ASSUME NEW lens, lens \subseteq Nat, NEW b \in Nat, \A m \in lens : m <= b
  PROVE  Longest(lens) \in Nat /\ \A m \in lens : m <= Longest(lens)
<1> DEFINE T == lens \cup {0}
<1>1. T \subseteq Nat /\ T # {} /\ \A m \in T : m <= b
  OBVIOUS
<1>2. Longest(lens) = CHOOSE n \in T : \A m \in T : m <= n
  BY DEF Longest
<1>3. \A m \in lens : m \in T
  OBVIOUS
<1> HIDE DEF T
<1>4. \E n \in T : \A m \in T : m <= n
  BY <1>1, GreatestNat
<1>5. Longest(lens) \in T /\ \A m \in T : m <= Longest(lens)
  BY <1>2, <1>4
<1> QED
  BY <1>1, <1>3, <1>5

\* What the properties say of one list.
GoodList(l) ==
  LET e == Elements(l.str)
  IN  /\ Len(l.urls) = Len(e)
      /\ \A i \in DOMAIN e : Encoded(e[i], l.urls[i])
      /\ \A i \in DOMAIN l.urls : url_len(l.urls[i]) <= l.max_len

\* url_list_parse of any text: the list has the elements of the text, encoded, and
\* max_len covers each of them.
LEMMA ParseIsGood ==
  ASSUME NEW str \in Seq(Symbols)
  PROVE  LET l == url_list_parse(str)
         IN  l \in List /\ l.st = "live" /\ l.str = str /\ GoodList(l)
<1> DEFINE S == Seq(Symbols)
           pieces == Pieces(str)
           N == Len(pieces)
           urls == [i \in DOMAIN pieces |-> url_encode(pieces[i])]
           lens == {strlen(url_encode(pieces[i])) : i \in DOMAIN pieces}
<1>1. pieces \in Seq(S) /\ pieces = Elements(str)
  BY PiecesType, PiecesAreElements
<1>2. url_list_parse(str) =
        [st |-> "live", str |-> str, max_len |-> Longest(lens), urls |-> urls]
  BY DEF url_list_parse, MaxLen
<1> HIDE DEF pieces
<1>3. N \in Nat /\ DOMAIN pieces = 1 .. N
  BY <1>1, LenProperties
<1>4. \A i \in 1 .. N : pieces[i] \in S
  BY <1>1, ElementOfSeq
<1>5. \A i \in 1 .. N :
        url_encode(pieces[i]) \in S /\ Encoded(pieces[i], url_encode(pieces[i]))
  BY <1>4, EncodeKeeps
<1> HIDE DEF S
<1>6. urls = [i \in 1 .. N |-> url_encode(pieces[i])]
  BY <1>3
<1>7. urls \in [1 .. N -> S]
  BY <1>5, <1>6
<1>8. urls \in Seq(S)
  BY <1>3, <1>7, SeqDef
<1>9. Len(urls) = N /\ DOMAIN urls = 1 .. N
  <2>1. DOMAIN urls = 1 .. Len(urls) /\ Len(urls) \in Nat
    BY <1>8, LenProperties
  <2>2. DOMAIN urls = 1 .. N
    BY <1>7
  <2>3. \A m, n \in Nat : 1 .. m = 1 .. n => m = n
    OBVIOUS
  <2> HIDE DEF urls, N
  <2> QED
    BY <2>1, <2>2, <2>3, <1>3
<1>10. \A i \in 1 .. N : urls[i] = url_encode(pieces[i])
  BY <1>6
<1>11. \A i \in 1 .. N : strlen(urls[i]) \in Nat
  BY <1>5, <1>10, StrlenNat DEF S
<1>12. lens = {strlen(urls[i]) : i \in 1 .. N}
  BY <1>3, <1>10
<1> HIDE DEF urls, lens, N
<1>13. Longest(lens) \in Nat /\ \A m \in lens : m <= Longest(lens)
  <2> DEFINE g == [i \in 1 .. N |-> strlen(urls[i])]
  <2>1. g \in [1 .. N -> Nat]
    BY <1>11
  <2> HIDE DEF g
  <2>2. PICK b \in Nat : \A i \in 1 .. N : g[i] <= b
    BY <2>1, <1>3, BoundExists
  <2>3. \A i \in 1 .. N : strlen(urls[i]) <= b
    BY <2>2 DEF g
  <2>4. lens \subseteq Nat /\ \A m \in lens : m <= b
    BY <2>3, <1>11, <1>12
  <2> QED
    BY <2>4, LongestIs
<1>14. \A i \in 1 .. N : url_len(urls[i]) <= Longest(lens)
  <2> TAKE i \in 1 .. N
  <2>1. urls[i] \in Seq(Symbols)
    BY <1>7 DEF S
  <2>2. url_len(urls[i]) \in Int /\ url_len(urls[i]) <= strlen(urls[i])
    BY <2>1, UrlLenBound
  <2>3. strlen(urls[i]) <= Longest(lens)
    BY <1>12, <1>13
  <2>4. strlen(urls[i]) \in Nat /\ Longest(lens) \in Nat
    BY <1>11, <1>13
  <2> QED
    BY <2>2, <2>3, <2>4
<1>15. url_list_parse(str) \in List
  BY <1>2, <1>8, <1>13 DEF List, S
<1>16. GoodList(url_list_parse(str))
  BY <1>1, <1>2, <1>3, <1>5, <1>9, <1>10, <1>14 DEF GoodList, N
<1> QED
  BY <1>2, <1>15, <1>16

-----------------------------------------------------------------------------
(***************************************************************************)
(* Places.                                                                 *)
(***************************************************************************)
LiveIn(s) == {c \in DOMAIN s : s[c].st = "live"}

\* malloc returns a place where nothing live is.
LEMMA PlaceIsFree ==
  ASSUME NEW S, NEW s \in Seq(S)
  PROVE  Place(s) \in 1 .. Len(s) + 1 /\ Place(s) \notin LiveIn(s)
<1> DEFINE free == {i \in DOMAIN s : s[i].st # "live"} \cup {Len(s) + 1}
<1>1. Len(s) \in Nat /\ DOMAIN s = 1 .. Len(s)
  BY LenProperties
<1>2. free \subseteq Nat /\ free # {}
  BY <1>1
<1>3. Place(s) = CHOOSE i \in free : \A j \in free : i <= j
  BY DEF Place
<1>4. free \subseteq 1 .. Len(s) + 1 /\ free \cap LiveIn(s) = {}
  BY <1>1 DEF LiveIn
<1> HIDE DEF free
<1>5. Place(s) \in free
  BY <1>2, <1>3, LeastNat
<1> QED
  BY <1>4, <1>5

\* t is s but for x at place p, which was not live.
Taken(S, s, p, x, t) ==
  /\ t \in Seq(S)
  /\ DOMAIN t = DOMAIN s \cup {p}
  /\ t[p] = x
  /\ \A i \in DOMAIN s : i # p => t[i] = s[i]
  /\ p \in Nat \ {0}
  /\ p \notin LiveIn(s)
  /\ \A i \in LiveIn(s) : t[i] = s[i]
  /\ x.st = "live" => LiveIn(t) = LiveIn(s) \cup {p}
  /\ x.st # "live" => LiveIn(t) = LiveIn(s)

\* What malloc leaves as it was, and what it writes.
LEMMA MallocTakes ==
  ASSUME NEW S, NEW s \in Seq(S), NEW x \in S
  PROVE  Taken(S, s, Place(s), x, malloc(s, x))
<1> DEFINE p == Place(s)
           t == malloc(s, x)
<1>1. Len(s) \in Nat /\ DOMAIN s = 1 .. Len(s)
  BY LenProperties
<1>2. p \in 1 .. Len(s) + 1 /\ p \notin LiveIn(s)
  BY PlaceIsFree
<1>3. t = IF p > Len(s) THEN Append(s, x) ELSE [s EXCEPT ![p] = x]
  BY DEF malloc
<1> HIDE DEF p, t
<1>4. /\ t \in Seq(S)
      /\ DOMAIN t = DOMAIN s \cup {p}
      /\ t[p] = x
      /\ \A i \in DOMAIN s : i # p => t[i] = s[i]
  <2>1. CASE p > Len(s)
    <3>1. p = Len(s) + 1 /\ t = Append(s, x)
      BY <1>1, <1>2, <1>3, <2>1
    <3>2. /\ t \in Seq(S) /\ Len(t) = Len(s) + 1
          /\ \A i \in 1 .. Len(s) : t[i] = s[i]
          /\ t[Len(s) + 1] = x
      BY <3>1, AppendProperties
    <3>3. DOMAIN t = 1 .. Len(s) + 1
      BY <3>2, LenProperties
    <3>4. 1 .. Len(s) + 1 = (1 .. Len(s)) \cup {Len(s) + 1}
      BY <1>1
    <3> QED
      BY <1>1, <3>1, <3>2, <3>3, <3>4
  <2>2. CASE ~ (p > Len(s))
    <3>1. p \in 1 .. Len(s) /\ t = [s EXCEPT ![p] = x]
      BY <1>1, <1>2, <1>3, <2>2
    <3>2. /\ t \in Seq(S) /\ Len(t) = Len(s)
          /\ \A i \in 1 .. Len(s) : t[i] = IF i = p THEN x ELSE s[i]
      BY <3>1, ExceptSeq
    <3>3. DOMAIN t = 1 .. Len(s)
      BY <3>2, LenProperties
    <3> QED
      BY <1>1, <3>1, <3>2, <3>3
  <2> QED
    BY <2>1, <2>2
<1>5. p \in Nat \ {0}
  BY <1>1, <1>2
<1>6. \A i \in LiveIn(s) : t[i] = s[i]
  BY <1>2, <1>4 DEF LiveIn
<1>7. /\ x.st = "live" => LiveIn(t) = LiveIn(s) \cup {p}
      /\ x.st # "live" => LiveIn(t) = LiveIn(s)
  <2>1. ASSUME NEW i PROVE i \in LiveIn(t) <=> (i \in LiveIn(s) \/ (i = p /\ x.st = "live"))
    <3>1. CASE i = p
      BY <1>2, <1>4, <3>1 DEF LiveIn
    <3>2. CASE i # p
      <4>1. i \in DOMAIN t <=> i \in DOMAIN s
        BY <1>4, <3>2
      <4>2. i \in DOMAIN s => t[i] = s[i]
        BY <1>4, <3>2
      <4> QED
        BY <4>1, <4>2, <3>2 DEF LiveIn
    <3> QED
      BY <3>1, <3>2
  <2>2. CASE x.st = "live"
    BY <2>1, <2>2, Zenon
  <2>3. CASE x.st # "live"
    BY <2>1, <2>3, Zenon
  <2> QED
    BY <2>2, <2>3
<1> QED
  BY <1>2, <1>4, <1>5, <1>6, <1>7 DEF Taken, p, t

\* Writing at one place.
LEMMA WriteAt ==
  ASSUME NEW S, NEW s \in Seq(S), NEW c \in DOMAIN s, NEW x \in S
  PROVE  /\ [s EXCEPT ![c] = x] \in Seq(S)
         /\ DOMAIN [s EXCEPT ![c] = x] = DOMAIN s
         /\ [s EXCEPT ![c] = x][c] = x
         /\ \A i \in DOMAIN s : i # c => [s EXCEPT ![c] = x][i] = s[i]
         /\ x.st = "live" => LiveIn([s EXCEPT ![c] = x]) = LiveIn(s) \cup {c}
         /\ x.st # "live" => LiveIn([s EXCEPT ![c] = x]) = LiveIn(s) \ {c}
<1> DEFINE t == [s EXCEPT ![c] = x]
<1>1. DOMAIN s = 1 .. Len(s)
  BY LenProperties
<1>2. t \in Seq(S)
  BY <1>1, ExceptSeq
<1>3. /\ DOMAIN t = DOMAIN s /\ t[c] = x
      /\ \A i \in DOMAIN s : i # c => t[i] = s[i]
  OBVIOUS
<1> HIDE DEF t
<1>4. /\ x.st = "live" => LiveIn(t) = LiveIn(s) \cup {c}
      /\ x.st # "live" => LiveIn(t) = LiveIn(s) \ {c}
  <2>1. ASSUME NEW i
        PROVE  i \in LiveIn(t) <=>
                 ((i = c /\ x.st = "live") \/ (i # c /\ i \in LiveIn(s)))
    <3>1. CASE i = c
      BY <1>3, <3>1 DEF LiveIn
    <3>2. CASE i # c
      BY <1>3, <3>2 DEF LiveIn
    <3> QED
      BY <3>1, <3>2
  <2> QED
    BY <2>1
<1> QED
  BY <1>2, <1>3, <1>4 DEF t

-----------------------------------------------------------------------------
(***************************************************************************)
(* Who owns the URL lists m: the objects S of o, one list each at most,    *)
(* and l is a list that is in no object yet, or in none any more.          *)
(***************************************************************************)
Texts == {app.url, <<>>}

Lists(m) ==
  /\ m \in Seq(List)
  /\ \A k \in DOMAIN m :
       m[k].st = "live" => \E t \in Texts : m[k] = url_list_parse(t)

Owned(m, o, S, l) ==
  /\ \A c \in S : o[c].list # 0 => o[c].list \in LiveIn(m) /\ o[c].list # l
  /\ \A c, d \in S : o[c].list = o[d].list /\ o[c].list # 0 => c = d
  /\ l # 0 => l \in LiveIn(m)
  /\ \A k \in DOMAIN m : m[k].st # "corrupt"
  /\ \A k \in LiveIn(m) : k = l \/ \E c \in S : o[c].list = k

Heap(m, o, S, l) == Lists(m) /\ Owned(m, o, S, l)

\* What an application sets as list of URLs is a text.
LEMMA TextsAre ==
  ASSUME app \in Apps
  PROVE  Texts \subseteq Seq(Symbols)
<1>1. app.url \in Seq(Chars \cup {Proto})
  BY ConfAssumption
<1>2. Chars \cup {Proto} \subseteq Symbols
  BY DEF Symbols
<1>3. app.url \in Seq(Symbols)
  BY <1>1, <1>2, SeqMonotonic
<1>4. <<>> \in Seq(Symbols)
  BY EmptySeq
<1> QED
  BY <1>3, <1>4 DEF Texts

\* Parsed is url_list_parse on these texts.
LEMMA ParsedIs ==
  ASSUME app \in Apps, NEW t \in Texts
  PROVE  Parsed[t] = url_list_parse(t) /\ Parsed[t] \in List /\ Parsed[t].st = "live"
<1>1. t \in {a.url : a \in Apps} \cup {<<>>}
  BY DEF Texts
<1>2. Parsed[t] = url_list_parse(t)
  BY <1>1 DEF Parsed
<1>3. t \in Seq(Symbols)
  BY TextsAre
<1> QED
  BY <1>2, <1>3, ParseIsGood

\* url_list_clear of the list that no object has.
LEMMA ClearHeap ==
  ASSUME NEW m, NEW o, NEW S, NEW l, Heap(m, o, S, l)
  PROVE  Heap(url_list_clear(m, l), o, S, 0)
<1> DEFINE m2 == url_list_clear(m, l)
<1>1. CASE l = 0
  <2>1. m2 = m
    BY <1>1 DEF url_list_clear
  <2> QED
    BY <1>1, <2>1
<1>2. CASE l # 0
  <2>1. l \in DOMAIN m /\ m[l].st = "live" /\ m \in Seq(List)
    BY <1>2 DEF Heap, Owned, Lists, LiveIn
  <2>2. m2 = [m EXCEPT ![l] = FreedList]
    BY <1>2, <2>1 DEF url_list_clear
  <2>3. FreedList \in List /\ FreedList.st = "freed"
    BY EmptySeq DEF FreedList, List
  <2>4. /\ m2 \in Seq(List) /\ DOMAIN m2 = DOMAIN m /\ m2[l] = FreedList
        /\ \A i \in DOMAIN m : i # l => m2[i] = m[i]
        /\ LiveIn(m2) = LiveIn(m) \ {l}
    <3> DEFINE f == FreedList
               e == [m EXCEPT ![l] = f]
    <3>1. f \in List
      BY <2>3
    <3> HIDE DEF f
    <3>2. /\ e \in Seq(List) /\ DOMAIN e = DOMAIN m /\ e[l] = f
          /\ \A i \in DOMAIN m : i # l => e[i] = m[i]
          /\ f.st # "live" => LiveIn(e) = LiveIn(m) \ {l}
      BY <2>1, <3>1, WriteAt
    <3>3. m2 = e
      BY <2>2 DEF f
    <3> HIDE DEF e, m2
    <3> QED
      BY <2>3, <3>2, <3>3 DEF f
  <2> HIDE DEF m2
  <2>6. Lists(m2)
    BY <2>3, <2>4 DEF Heap, Lists
  <2>7. Owned(m2, o, S, 0)
    <3>1. \A c \in S : o[c].list # 0 => o[c].list \in LiveIn(m2) /\ o[c].list # 0
      BY <2>4 DEF Heap, Owned
    <3>2. \A c, d \in S : o[c].list = o[d].list /\ o[c].list # 0 => c = d
      BY DEF Heap, Owned
    <3>3. \A k \in DOMAIN m2 : m2[k].st # "corrupt"
      BY <2>3, <2>4 DEF Heap, Owned
    <3>4. \A k \in LiveIn(m2) : k = 0 \/ \E c \in S : o[c].list = k
      BY <2>4 DEF Heap, Owned
    <3> QED
      BY <3>1, <3>2, <3>3, <3>4 DEF Owned
  <2> QED
    BY <2>6, <2>7 DEF Heap, m2
<1> QED
  BY <1>1, <1>2

\* A new list, in no object yet.
LEMMA AllocHeap ==
  ASSUME app \in Apps, NEW m, NEW o, NEW S, Heap(m, o, S, 0), NEW t \in Texts
  PROVE  Heap(malloc(m, Parsed[t]), o, S, Place(m)) /\ Place(m) \in Nat
<1> DEFINE x == Parsed[t]
           m2 == malloc(m, x)
           l == Place(m)
<1>1. x = url_list_parse(t) /\ x \in List /\ x.st = "live"
  BY ParsedIs
<1> HIDE DEF x
<1>2. m \in Seq(List)
  BY DEF Heap, Lists
<1>3. /\ m2 \in Seq(List) /\ DOMAIN m2 = DOMAIN m \cup {l} /\ m2[l] = x
      /\ \A i \in DOMAIN m : i # l => m2[i] = m[i]
      /\ l \in Nat \ {0} /\ l \notin LiveIn(m)
      /\ LiveIn(m2) = LiveIn(m) \cup {l}
  <2>0. x \in List
    BY <1>1
  <2>1. Taken(List, m, l, x, m2)
    BY <2>0, <1>2, MallocTakes
  <2> HIDE DEF m2, l
  <2> QED
    BY <1>1, <2>1 DEF Taken
<1> HIDE DEF m2, l
<1>4. Lists(m2)
  BY <1>1, <1>3 DEF Heap, Lists
<1>5. Owned(m2, o, S, l)
  <2>1. \A c \in S : o[c].list # 0 => o[c].list \in LiveIn(m2) /\ o[c].list # l
    BY <1>3 DEF Heap, Owned
  <2>2. \A c, d \in S : o[c].list = o[d].list /\ o[c].list # 0 => c = d
    BY DEF Heap, Owned
  <2>3. l \in LiveIn(m2)
    BY <1>3
  <2>4. \A k \in DOMAIN m2 : m2[k].st # "corrupt"
    BY <1>1, <1>3 DEF Heap, Owned
  <2>5. \A k \in LiveIn(m2) : k = l \/ \E c \in S : o[c].list = k
    <3> TAKE k \in LiveIn(m2)
    <3>1. CASE k = l
      BY <3>1
    <3>2. CASE k # l
      <4>1. k \in LiveIn(m)
        BY <1>3, <3>2
      <4>2. 0 \notin DOMAIN m /\ k \in DOMAIN m
        BY <1>2, <4>1, LenProperties DEF LiveIn
      <4> QED
        BY <4>1, <4>2 DEF Heap, Owned
    <3> QED
      BY <3>1, <3>2
  <2> QED
    BY <2>1, <2>2, <2>3, <2>4, <2>5 DEF Owned
<1> QED
  BY <1>3, <1>4, <1>5 DEF Heap, m2, l, x

\* An object c takes the list, or loses it.
LEMMA PutHeap ==
  ASSUME NEW m, NEW o, NEW S, NEW l, Heap(m, o, S, l),
         NEW o2, NEW c, c \notin S, o2[c].list = l,
         \A d \in S : o2[d].list = o[d].list
  PROVE  Heap(m, o2, S \cup {c}, 0)
<1>1. \A d \in S \cup {c} :
        o2[d].list # 0 => o2[d].list \in LiveIn(m) /\ o2[d].list # 0
  BY DEF Heap, Owned
<1>2. ASSUME NEW d \in S \cup {c}, NEW e \in S \cup {c},
             o2[d].list = o2[e].list, o2[d].list # 0
      PROVE  d = e
  <2>1. CASE d = c /\ e # c
    BY <1>2, <2>1 DEF Heap, Owned
  <2>2. CASE d # c /\ e = c
    BY <1>2, <2>2 DEF Heap, Owned
  <2>3. CASE d # c /\ e # c
    BY <1>2, <2>3 DEF Heap, Owned
  <2> QED
    BY <2>1, <2>2, <2>3
<1>3. \A k \in DOMAIN m : m[k].st # "corrupt"
  BY DEF Heap, Owned
<1>4. \A k \in LiveIn(m) : k = 0 \/ \E d \in S \cup {c} : o2[d].list = k
  BY DEF Heap, Owned
<1>5. Owned(m, o2, S \cup {c}, 0)
  BY <1>1, <1>2, <1>3, <1>4 DEF Owned
<1> QED
  BY <1>5 DEF Heap

\* An object gives its list up.
LEMMA TakeHeap ==
  ASSUME NEW m, NEW o, NEW S, Heap(m, o, S, 0), NEW c \in S
  PROVE  Heap(m, o, S \ {c}, o[c].list)
<1>0. 0 \notin LiveIn(m)
  BY LenProperties DEF Heap, Lists, LiveIn
<1>1. \A d \in S \ {c} :
        o[d].list # 0 => o[d].list \in LiveIn(m) /\ o[d].list # o[c].list
  BY DEF Heap, Owned
<1>2. \A d, e \in S \ {c} : o[d].list = o[e].list /\ o[d].list # 0 => d = e
  BY DEF Heap, Owned
<1>3. o[c].list # 0 => o[c].list \in LiveIn(m)
  BY DEF Heap, Owned
<1>4. \A k \in DOMAIN m : m[k].st # "corrupt"
  BY DEF Heap, Owned
<1>5. \A k \in LiveIn(m) : k = o[c].list \/ \E d \in S \ {c} : o[d].list = k
  BY <1>0 DEF Heap, Owned
<1>6. Owned(m, o, S \ {c}, o[c].list)
  BY <1>1, <1>2, <1>3, <1>4, <1>5 DEF Owned
<1> QED
  BY <1>6 DEF Heap

\* Only the list pointers of the objects matter.
LEMMA SameHeap ==
  ASSUME NEW m, NEW o, NEW S, NEW l, Heap(m, o, S, l),
         NEW o2, \A d \in S : o2[d].list = o[d].list
  PROVE  Heap(m, o2, S, l)
BY DEF Heap, Owned

-----------------------------------------------------------------------------
(***************************************************************************)
(* The functions of serdes.c keep this.                                    *)
(***************************************************************************)
LEMMA InitConf ==
  ASSUME NEW kind \in {"conf", "handle"}
  PROVE  /\ serdes_conf_init(kind) \in Conf
         /\ serdes_conf_init(kind).st = "live"
         /\ serdes_conf_init(kind).kind = kind
         /\ serdes_conf_init(kind).list = 0
         /\ serdes_conf_init(kind).opaque = 0
         /\ serdes_conf_init(kind).schema_load_cb = NULL
         /\ serdes_conf_init(kind).log_cb = NULL
BY DEF serdes_conf_init, Conf

\* A destroyed object.
LEMMA GoneConf == Gone \in Conf /\ Gone.st = "freed"
<1> DEFINE c == serdes_conf_init("conf")
<1>1. c \in Conf
  BY InitConf
<1> HIDE DEF c
<1>2. Gone = [c EXCEPT !.st = "freed"]
  BY DEF Gone, c
<1> QED
  BY <1>1, <1>2 DEF Conf

\* What serdes_conf_set leaves as it was.
Kept(c, c2) ==
  /\ c2 \in Conf
  /\ c2.st = c.st /\ c2.kind = c.kind
  /\ c2.schema_load_cb = c.schema_load_cb
  /\ c2.log_cb = c.log_cb /\ c2.opaque = c.opaque

Errs == {"OK", "INVALID", "UNKNOWN", "MISSING"}

SetDone(r, c, o, S) ==
  Kept(c, r.c) /\ Heap(r.m, o, S, r.c.list) /\ r.err \in Errs

\* serdes_conf_set of schema.registry.url, to a list with URLs or without.
LEMMA SetUrlHeap ==
  ASSUME app \in Apps, NEW m, NEW o, NEW S, NEW c \in Conf,
         Heap(m, o, S, c.list), NEW val \in Texts
  PROVE  SetDone(SetUrl(m, c, val), c, o, S)
<1> DEFINE m1 == url_list_clear(m, c.list)
           m2 == malloc(m1, Parsed[val])
           l == Place(m1)
           err == IF Parsed[val].urls = <<>> THEN "INVALID" ELSE "OK"
           r == SetUrl(m, c, val)
<1>1. Heap(m1, o, S, 0)
  BY ClearHeap
<1> HIDE DEF m1
<1>2. Heap(m2, o, S, l) /\ l \in Nat
  BY <1>1, AllocHeap
<1>3. err \in Errs
  BY DEF Errs
<1>4. r = [m |-> m2, c |-> [c EXCEPT !.list = l], err |-> err]
  BY DEF SetUrl, m1
<1> HIDE DEF m2, l, err, r
<1>5. Kept(c, [c EXCEPT !.list = l]) /\ [c EXCEPT !.list = l].list = l
  BY <1>2 DEF Kept, Conf
<1> DEFINE c2 == [c EXCEPT !.list = l]
<1> HIDE DEF c2
<1>6. r.m = m2 /\ r.c = c2 /\ r.err = err
  BY <1>4 DEF c2
<1>7. Kept(c, c2) /\ c2.list = l
  BY <1>5 DEF c2
<1>8. SetDone(r, c, o, S)
  BY <1>2, <1>3, <1>6, <1>7 DEF SetDone
<1> QED
  BY <1>8 DEF r

\* serdes_conf_set of a property of one field.
LEMMA SetFieldHeap ==
  ASSUME NEW m, NEW o, NEW S, NEW c \in Conf, Heap(m, o, S, c.list),
         NEW p, NEW val, NEW allowed,
         \/ p \in {"serializer_framing", "deserializer_framing"} /\ allowed = Framing
         \/ p = "debug" /\ allowed = DebugFlag
  PROVE  SetDone(SetField(m, c, p, val, allowed), c, o, S)
<1> DEFINE x == allowed[val]
           r == SetField(m, c, p, val, allowed)
<1>1. CASE val \notin DOMAIN allowed
  <2>1. r = [m |-> m, c |-> c, err |-> "INVALID"]
    BY <1>1 DEF SetField
  <2> QED
    BY <2>1 DEF SetDone, Kept, Errs
<1>2. CASE val \in DOMAIN allowed
  <2>1. r = [m |-> m, c |-> [c EXCEPT ![p] = x], err |-> "OK"]
    BY <1>2 DEF SetField
  <2>2. \/ /\ p \in {"serializer_framing", "deserializer_framing"}
           /\ x \in {"none", "cp1"}
        \/ p = "debug" /\ x \in BOOLEAN
    <3>1. CASE allowed = Framing
      <4>1. DOMAIN Framing = {<<"none">>, <<"cp1">>}
            /\ \A v \in {<<"none">>, <<"cp1">>} : Framing[v] = v[1]
        BY DEF Framing
      <4>2. val = <<"none">> \/ val = <<"cp1">>
        BY <1>2, <3>1, <4>1
      <4>3. x \in {"none", "cp1"}
        BY <3>1, <4>1, <4>2
      <4>4. CASE p \in {"serializer_framing", "deserializer_framing"}
        BY <4>3, <4>4
      <4>5. CASE p = "debug" /\ allowed = DebugFlag
        BY <1>2, <4>5 DEF DebugFlag
      <4> QED
        BY <4>4, <4>5
    <3>2. CASE p = "debug" /\ allowed = DebugFlag
      BY <1>2, <3>2 DEF DebugFlag
    <3> QED
      BY <3>1, <3>2
  <2> HIDE DEF x, r
  <2>3. CASE p = "serializer_framing"
    <3>1. [c EXCEPT ![p] = x] = [c EXCEPT !.serializer_framing = x]
      BY <2>3
    <3>2. Kept(c, [c EXCEPT !.serializer_framing = x])
          /\ [c EXCEPT !.serializer_framing = x].list = c.list
      BY <2>2, <2>3 DEF Kept, Conf
    <3> QED
      BY <2>1, <3>1, <3>2 DEF SetDone, Errs, r
  <2>4. CASE p = "deserializer_framing"
    <3>1. [c EXCEPT ![p] = x] = [c EXCEPT !.deserializer_framing = x]
      BY <2>4
    <3>2. Kept(c, [c EXCEPT !.deserializer_framing = x])
          /\ [c EXCEPT !.deserializer_framing = x].list = c.list
      BY <2>2, <2>4 DEF Kept, Conf
    <3> QED
      BY <2>1, <3>1, <3>2 DEF SetDone, Errs, r
  <2>5. CASE p = "debug"
    <3>1. [c EXCEPT ![p] = x] = [c EXCEPT !.debug = x]
      BY <2>5
    <3>2. x \in BOOLEAN
      BY <2>2, <2>5
    <3>3. Kept(c, [c EXCEPT !.debug = x])
          /\ [c EXCEPT !.debug = x].list = c.list
      BY <3>2 DEF Kept, Conf
    <3> QED
      BY <2>1, <3>1, <3>3 DEF SetDone, Errs, r
  <2> QED
    BY <2>2, <2>3, <2>4, <2>5
<1> QED
  BY <1>1, <1>2

GoodArg(name, val) == name = "schema.registry.url" => val \in Texts

\* serdes_conf_set of any property to any value.
LEMMA SetHeap ==
  ASSUME app \in Apps, NEW m, NEW o, NEW S, NEW c \in Conf,
         Heap(m, o, S, c.list), NEW name, NEW val, GoodArg(name, val)
  PROVE  SetDone(serdes_conf_set(m, c, name, val), c, o, S)
<1> DEFINE r == serdes_conf_set(m, c, name, val)
<1>1. CASE name = "schema.registry.url"
  <2>1. r = SetUrl(m, c, val)
    BY <1>1 DEF serdes_conf_set
  <2> QED
    BY <2>1, <1>1, SetUrlHeap DEF GoodArg
<1>2. CASE name = "serializer.framing"
  <2>1. r = SetField(m, c, "serializer_framing", val, Framing)
    BY <1>2 DEF serdes_conf_set
  <2> QED
    BY <2>1, SetFieldHeap
<1>3. CASE name = "deserializer.framing"
  <2>1. r = SetField(m, c, "deserializer_framing", val, Framing)
    BY <1>3 DEF serdes_conf_set
  <2> QED
    BY <2>1, SetFieldHeap
<1>4. CASE name = "debug"
  <2>1. r = SetField(m, c, "debug", val, DebugFlag)
    BY <1>4 DEF serdes_conf_set
  <2> QED
    BY <2>1, SetFieldHeap
<1>5. CASE name \notin {"schema.registry.url", "serializer.framing",
                        "deserializer.framing", "debug"}
  <2>1. r = [m |-> m, c |-> c, err |-> "UNKNOWN"]
    BY <1>5 DEF serdes_conf_set
  <2> QED
    BY <2>1 DEF SetDone, Kept, Errs
<1> QED
  BY <1>1, <1>2, <1>3, <1>4, <1>5

\* The list is copied by parsing its text again.
LEMMA CopyHeap ==
  ASSUME app \in Apps, NEW m, NEW o, NEW S, Heap(m, o, S, 0),
         NEW src, src \in S, o[src] \in Conf,
         NEW dst, dst \in Conf, dst.list = 0
  PROVE  LET r == serdes_conf_copy0(m, dst, o[src])
         IN  /\ Heap(r.m, o, S, r.c.list)
             /\ r.c \in Conf
             /\ r.c.kind = dst.kind /\ r.c.st = o[src].st
             /\ r.c.log_cb = o[src].log_cb /\ r.c.opaque = o[src].opaque
             /\ r.c.schema_load_cb = o[src].schema_load_cb
<1> DEFINE s == o[src]
           r == serdes_conf_copy0(m, dst, s)
<1>1. url_list_clear(m, dst.list) = m
  BY DEF url_list_clear
<1>2. dst.kind \in {"conf", "handle"}
  BY DEF Conf
<1>3. CASE s.list = 0
  <2>1. r = [m |-> m, c |-> [s EXCEPT !.kind = dst.kind, !.list = 0]]
    BY <1>1, <1>3 DEF serdes_conf_copy0
  <2> DEFINE c == [s EXCEPT !.kind = dst.kind, !.list = 0]
  <2>2. /\ c \in Conf /\ c.list = 0
        /\ c.kind = dst.kind /\ c.st = s.st
        /\ c.log_cb = s.log_cb /\ c.opaque = s.opaque
        /\ c.schema_load_cb = s.schema_load_cb
    BY <1>2 DEF Conf
  <2> HIDE DEF c
  <2>3. r.m = m /\ r.c = c
    BY <2>1 DEF c
  <2>4. Heap(m, o, S, c.list)
    BY <2>2
  <2> HIDE DEF r
  <2> QED
    BY <2>2, <2>3, <2>4 DEF r
<1>4. CASE s.list # 0
  <2> DEFINE l == Place(m)
             c == [s EXCEPT !.kind = dst.kind, !.list = l]
             t == m[s.list].str
  <2>1. s.list \in LiveIn(m)
    BY <1>4 DEF Heap, Owned
  <2>2. PICK u \in Texts : m[s.list] = url_list_parse(u)
    BY <2>1 DEF Heap, Lists, LiveIn
  <2>3. t = u
    BY <2>2 DEF url_list_parse
  <2>4. r = [m |-> malloc(m, Parsed[t]), c |-> c]
    BY <1>1, <1>4 DEF serdes_conf_copy0
  <2> HIDE DEF t
  <2>5. Heap(malloc(m, Parsed[t]), o, S, l) /\ l \in Nat
    BY <2>2, <2>3, AllocHeap
  <2> HIDE DEF l
  <2>6. /\ c \in Conf /\ c.list = l
        /\ c.kind = dst.kind /\ c.st = s.st
        /\ c.log_cb = s.log_cb /\ c.opaque = s.opaque
        /\ c.schema_load_cb = s.schema_load_cb
    BY <1>2, <2>5 DEF Conf
  <2> HIDE DEF c
  <2>7. r.m = malloc(m, Parsed[t]) /\ r.c = c
    BY <2>4
  <2>8. Heap(r.m, o, S, r.c.list)
    BY <2>5, <2>6, <2>7
  <2> HIDE DEF r
  <2> QED
    BY <2>6, <2>7, <2>8 DEF r
<1> QED
  BY <1>3, <1>4

\* The loop of serdes_conf_new, by the function that the model defines it with.
MadeStart(m) == [m |-> m, c |-> serdes_conf_init("conf"), err |-> "OK"]

Made(o, S) ==
  {r \in [m : Seq(List), c : Conf, err : Errs] :
     /\ Heap(r.m, o, S, r.c.list)
     /\ r.c.st = "live" /\ r.c.kind = "conf" /\ r.c.log_cb = NULL}

GoodArgs(args) ==
  Len(args) \in Nat /\ \A i \in 1 .. Len(args) : GoodArg(args[i].name, args[i].val)

\* The properties that an application sets.
LEMMA SettingsAreGood ==
  ASSUME app \in Apps, NEW s \in Settings
  PROVE  GoodArg(s.name, s.val)
<1>1. app.other.name # "schema.registry.url"
  BY ConfAssumption
<1>2. \A v \in {app.url, <<>>} : GoodArg("schema.registry.url", v)
  BY DEF GoodArg, Texts
<1>3. GoodArg(app.other.name, app.other.val)
  BY <1>1 DEF GoodArg
<1>4. CASE s = app.other
  BY <1>3, <1>4
<1>5. CASE \E v \in {app.url, <<>>} : s = [name |-> "schema.registry.url", val |-> v]
  BY <1>2, <1>5
<1> QED
  BY <1>4, <1>5 DEF Settings

\* The arguments that an application gives to serdes_conf_new.
LEMMA ArgsAreGood ==
  ASSUME app \in Apps, NEW args \in ArgLists
  PROVE  GoodArgs(args)
<1>1. \A s \in Settings : GoodArg(s.name, s.val)
  BY SettingsAreGood
<1> DEFINE first == [name |-> "schema.registry.url", val |-> app.url]
           last  == [name |-> "debug", val |-> NULL]
<1>2. GoodArg(first.name, first.val) /\ GoodArg(last.name, last.val)
  BY DEF GoodArg, Texts
<1>3. \/ args = <<>>
      \/ \E s \in Settings : args = <<s>>
      \/ \E s \in Settings \cup {last} : args = <<first, s>>
  BY DEF ArgLists
<1> HIDE DEF first, last
<1>4. CASE args = <<>>
  BY <1>4 DEF GoodArgs
<1>5. CASE \E s \in Settings : args = <<s>>
  <2>1. PICK s \in Settings : args = <<s>>
    BY <1>5
  <2>2. Len(args) = 1 /\ args[1] = s
    BY <2>1
  <2> QED
    BY <2>2, <1>1 DEF GoodArgs
<1>6. CASE \E s \in Settings \cup {last} : args = <<first, s>>
  <2>1. PICK s \in Settings \cup {last} : args = <<first, s>>
    BY <1>6
  <2>2. Len(args) = 2 /\ args[1] = first /\ args[2] = s
    BY <2>1
  <2>3. GoodArg(s.name, s.val)
    BY <1>1, <1>2
  <2>4. \A i \in 1 .. 2 : i = 1 \/ i = 2
    OBVIOUS
  <2> QED
    BY <2>2, <2>3, <2>4, <1>2 DEF GoodArgs
<1> QED
  BY <1>3, <1>4, <1>5, <1>6

\* The three parts of what serdes_conf_set returns.
LEMMA ResultShape ==
  ASSUME NEW m, NEW c, NEW name, NEW val
  PROVE  LET q == serdes_conf_set(m, c, name, val)
         IN  q = [m |-> q.m, c |-> q.c, err |-> q.err]
<1>1. CASE name = "schema.registry.url"
  BY <1>1 DEF serdes_conf_set, SetUrl
<1>2. CASE name = "serializer.framing"
  BY <1>2 DEF serdes_conf_set, SetField
<1>3. CASE name = "deserializer.framing"
  BY <1>3 DEF serdes_conf_set, SetField
<1>4. CASE name = "debug"
  BY <1>4 DEF serdes_conf_set, SetField
<1>5. CASE name \notin {"schema.registry.url", "serializer.framing",
                        "deserializer.framing", "debug"}
  BY <1>5 DEF serdes_conf_set
<1> QED
  BY <1>1, <1>2, <1>3, <1>4, <1>5

\* One turn of the loop of serdes_conf_new.
LEMMA SetArgMade ==
  ASSUME app \in Apps, NEW o, NEW S, NEW r \in Made(o, S), NEW a,
         GoodArg(a.name, a.val)
  PROVE  SetArg(r, a) \in Made(o, S)
<1>0. /\ r.m \in Seq(List) /\ r.c \in Conf /\ r.err \in Errs
      /\ Heap(r.m, o, S, r.c.list)
      /\ r.c.st = "live" /\ r.c.kind = "conf" /\ r.c.log_cb = NULL
      /\ r = [m |-> r.m, c |-> r.c, err |-> r.err]
  BY DEF Made
<1>1. CASE r.err # "OK"
  BY <1>1 DEF SetArg
<1>2. CASE r.err = "OK" /\ a.val = NULL
  <2>1. SetArg(r, a) = [m |-> r.m, c |-> r.c, err |-> "MISSING"]
    BY <1>0, <1>2 DEF SetArg
  <2> QED
    BY <2>1, <1>0 DEF Made, Errs
<1>3. CASE r.err = "OK" /\ a.val # NULL
  <2> DEFINE q == serdes_conf_set(r.m, r.c, a.name, a.val)
  <2>1. SetArg(r, a) = q
    BY <1>3 DEF SetArg
  <2>2. SetDone(q, r.c, o, S)
    BY <1>0, SetHeap
  <2>3. q = [m |-> q.m, c |-> q.c, err |-> q.err]
    BY ResultShape
  <2> HIDE DEF q
  <2>4. q.m \in Seq(List)
    BY <2>2 DEF SetDone, Heap, Lists
  <2>5. /\ q.c \in Conf /\ q.err \in Errs /\ Heap(q.m, o, S, q.c.list)
        /\ q.c.st = "live" /\ q.c.kind = "conf" /\ q.c.log_cb = NULL
    BY <2>2, <1>0 DEF SetDone, Kept
  <2>6. q \in Made(o, S)
    BY <2>3, <2>4, <2>5 DEF Made
  <2> QED
    BY <2>1, <2>6
<1> QED
  BY <1>1, <1>2, <1>3

\* All turns: by recursion on the place in the arguments.
LEMMA ConfOfMade ==
  ASSUME app \in Apps, NEW m, NEW o, NEW S, Heap(m, o, S, 0),
         NEW args, GoodArgs(args)
  PROVE  ConfOf(m, args) \in Made(o, S)
<1> DEFINE n == Len(args)
           V == Made(o, S)
           b == MadeStart(m)
           G == [i \in 1 .. n |-> [v \in V |-> SetArg(v, args[i])]]
           F == CHOOSE f : f = [i \in 0 .. n |->
                                 IF i = 0 THEN b ELSE SetArg(f[i - 1], args[i])]
<1>0. n \in Nat /\ \A i \in 1 .. n : GoodArg(args[i].name, args[i].val)
  BY DEF GoodArgs
<1>1. ConfOf(m, args) = F[n]
  BY DEF ConfOf, MadeStart
<1>2. b \in V
  <2> DEFINE c == serdes_conf_init("conf")
  <2>1. c \in Conf /\ c.st = "live" /\ c.kind = "conf" /\ c.list = 0 /\ c.log_cb = NULL
    BY InitConf
  <2> HIDE DEF c
  <2>2. b = [m |-> m, c |-> c, err |-> "OK"]
    BY DEF MadeStart, c
  <2>3. m \in Seq(List) /\ "OK" \in Errs
    BY DEF Heap, Lists, Errs
  <2> HIDE DEF b
  <2> QED
    BY <2>1, <2>2, <2>3 DEF Made
<1>3. \A i \in 1 .. n : \A v \in V : SetArg(v, args[i]) \in V
  BY <1>0, SetArgMade
<1> HIDE DEF V, b
<1>4. G \in [1 .. n -> [V -> V]]
  BY <1>3
<1>5. PICK f : Stepwise(f, n, V, b, G)
  <2> HIDE DEF G, n
  <2> QED
    BY <1>0, <1>2, <1>4, StepwiseExists
<1>6. \A i \in 1 .. n : f[i - 1] \in V
  <2>1. f \in [0 .. n -> V]
    BY <1>5 DEF Stepwise
  <2>2. \A i \in 1 .. n : i - 1 \in 0 .. n
    BY <1>0
  <2> HIDE DEF n
  <2> QED
    BY <2>1, <2>2
<1>7. ASSUME NEW i \in 0 .. n
      PROVE  f[i] = IF i = 0 THEN b ELSE SetArg(f[i - 1], args[i])
  <2>1. CASE i = 0
    BY <1>5, <2>1 DEF Stepwise
  <2>2. CASE i # 0
    <3>1. i \in 1 .. n /\ f[i - 1] \in V
      BY <2>2, <1>0, <1>6
    <3>2. f[i] = G[i][f[i - 1]]
      BY <1>5, <3>1 DEF Stepwise
    <3>3. G[i][f[i - 1]] = SetArg(f[i - 1], args[i])
      BY <3>1
    <3> QED
      BY <2>2, <3>2, <3>3
  <2> QED
    BY <2>1, <2>2
<1>8. f = [i \in 0 .. n |-> IF i = 0 THEN b ELSE SetArg(f[i - 1], args[i])]
  <2>1. f = [i \in 0 .. n |-> f[i]]
    BY <1>5 DEF Stepwise
  <2> QED
    BY <1>7, <2>1
<1>9. F = [i \in 0 .. n |-> IF i = 0 THEN b ELSE SetArg(F[i - 1], args[i])]
  BY <1>8
<1> HIDE DEF F, G
<1>10. F[n] \in V
  <2> DEFINE T == {k \in Nat : k <= n => F[k] \in V}
  <2>1. 0 \in T
    <3>1. F[0] = b
      BY <1>0, <1>9
    <3> QED
      BY <3>1, <1>2
  <2>2. ASSUME NEW k \in Nat, k \in T PROVE k + 1 \in T
    <3> SUFFICES ASSUME k + 1 <= n PROVE F[k + 1] \in V
      OBVIOUS
    <3>1. F[k] \in V /\ k + 1 \in 1 .. n /\ k + 1 \in 0 .. n /\ k + 1 # 0
          /\ k + 1 - 1 = k
      BY <2>2, <1>0
    <3>2. F[k + 1] = SetArg(F[k], args[k + 1])
      BY <3>1, <1>9
    <3> QED
      BY <3>1, <3>2, <1>3
  <2>3. Nat \subseteq T
    <3> HIDE DEF T
    <3> QED
      BY <2>1, <2>2, NatSetInduction
  <2>4. n \in T
    BY <1>0, <2>3
  <2> QED
    BY <2>4, <1>0
<1> QED
  BY <1>1, <1>10 DEF V

\* An object at a new place takes the list.
LEMMA PutNew ==
  ASSUME NEW m, NEW o \in Seq(Conf), NEW l, Heap(m, o, LiveIn(o), l),
         NEW x \in Conf, x.st = "live", x.list = l
  PROVE  Heap(m, malloc(o, x), LiveIn(malloc(o, x)), 0)
<1> DEFINE o2 == malloc(o, x)
           p == Place(o)
<1>1. Taken(Conf, o, p, x, o2)
  BY MallocTakes
<1> HIDE DEF o2, p
<1>2. p \notin LiveIn(o) /\ o2[p].list = l /\ LiveIn(o2) = LiveIn(o) \cup {p}
  BY <1>1 DEF Taken
<1>3. \A d \in LiveIn(o) : o2[d].list = o[d].list
  BY <1>1 DEF Taken
<1>4. Heap(m, o2, LiveIn(o) \cup {p}, 0)
  BY <1>2, <1>3, PutHeap
<1> QED
  BY <1>2, <1>4 DEF o2

\* What is at the place of an object that is destroyed.
Without(o, c, o2) ==
  /\ o2 \in Seq(Conf)
  /\ LiveIn(o2) = LiveIn(o) \ {c}
  /\ \A d \in LiveIn(o2) : o2[d] = o[d]

\* Writing Gone at a place does this.
LEMMA GoneAt ==
  ASSUME NEW o \in Seq(Conf), NEW c \in DOMAIN o
  PROVE  Without(o, c, [o EXCEPT ![c] = Gone])
<1> DEFINE g == Gone
<1>1. g \in Conf /\ g.st # "live"
  BY GoneConf
<1> HIDE DEF g
<1> DEFINE e == [o EXCEPT ![c] = g]
<1>3. /\ e \in Seq(Conf) /\ DOMAIN e = DOMAIN o
      /\ \A i \in DOMAIN o : i # c => e[i] = o[i]
      /\ g.st # "live" => LiveIn(e) = LiveIn(o) \ {c}
  BY <1>1, WriteAt
<1> HIDE DEF e
<1>5. \A d \in LiveIn(e) : d \in DOMAIN o /\ d # c
  BY <1>1, <1>3 DEF LiveIn
<1>6. Without(o, c, e)
  BY <1>1, <1>3, <1>5 DEF Without
<1> QED
  BY <1>6 DEF e, g

\* What is left when an object is destroyed.
Dropped(o, c, m2, o2) == Without(o, c, o2) /\ Heap(m2, o2, LiveIn(o2), 0)

\* An object is destroyed: url_list_clear frees its list.
LEMMA DropOne ==
  ASSUME NEW m, NEW o \in Seq(Conf), Heap(m, o, LiveIn(o), 0), NEW c \in LiveIn(o)
  PROVE  Dropped(o, c, url_list_clear(m, o[c].list), [o EXCEPT ![c] = Gone])
<1> DEFINE o2 == [o EXCEPT ![c] = Gone]
           m2 == url_list_clear(m, o[c].list)
<1>1. c \in DOMAIN o
  BY DEF LiveIn
<1>2. Without(o, c, o2)
  BY <1>1, GoneAt
<1>3. Heap(m2, o, LiveIn(o) \ {c}, 0)
  BY TakeHeap, ClearHeap
<1> HIDE DEF o2, m2
<1>4. /\ LiveIn(o2) = LiveIn(o) \ {c}
      /\ \A d \in LiveIn(o2) : o2[d].list = o[d].list
  BY <1>2 DEF Without
<1>5. Heap(m2, o2, LiveIn(o2), 0)
  BY <1>3, <1>4, SameHeap
<1>6. Dropped(o, c, m2, o2)
  BY <1>2, <1>5 DEF Dropped
<1> QED
  BY <1>6 DEF o2, m2

\* An object at a new place that is gone at once.
LEMMA PutGone ==
  ASSUME NEW o \in Seq(Conf)
  PROVE  /\ malloc(o, Gone) \in Seq(Conf)
         /\ LiveIn(malloc(o, Gone)) = LiveIn(o)
         /\ \A d \in LiveIn(o) : malloc(o, Gone)[d] = o[d]
<1> DEFINE g == Gone
           o2 == malloc(o, g)
<1>1. g \in Conf /\ g.st # "live"
  BY GoneConf
<1> HIDE DEF g
<1>2. Taken(Conf, o, Place(o), g, o2)
  BY <1>1, MallocTakes
<1> HIDE DEF o2
<1>3. o2 \in Seq(Conf) /\ LiveIn(o2) = LiveIn(o) /\ \A d \in LiveIn(o) : o2[d] = o[d]
  BY <1>1, <1>2 DEF Taken
<1> QED
  BY <1>3 DEF o2, g

\* What serdes_new promises of the configuration conf that it takes over, or
\* of none, and of the handle that it returns, or of none.
NewDone(r, o, conf) ==
  LET kept == LiveIn(o) \ {conf}
  IN  /\ r.o \in Seq(Conf)
      /\ Heap(r.m, r.o, LiveIn(r.o), 0)
      /\ LiveIn(r.o) = kept \cup ({r.sd} \ {0})
      /\ \A d \in kept : r.o[d] = o[d]
      /\ r.sd \notin LiveIn(o)
      /\ r.sd # 0 =>
           /\ r.o[r.sd].kind = "handle"
           /\ conf = 0 => r.o[r.sd].log_cb = NULL
           /\ conf # 0 => /\ r.o[r.sd].log_cb = o[conf].log_cb
                          /\ r.o[r.sd].opaque = o[conf].opaque
      /\ conf # 0 /\ o[conf].schema_load_cb # NULL => r.sd # 0

\* serdes_new keeps that promise, whether it succeeds or fails.
LEMMA NewHeap ==
  ASSUME app \in Apps, NEW m, NEW o \in Seq(Conf), Heap(m, o, LiveIn(o), 0),
         NEW conf, conf = 0 \/ conf \in LiveIn(o)
  PROVE  NewDone(serdes_new(m, o, conf), o, conf)
<1> DEFINE init == serdes_conf_init("handle")
           q    == IF conf = 0 THEN [m |-> m, c |-> init]
                   ELSE serdes_conf_copy0(m, init, o[conf])
           ok   == q.c.schema_load_cb # NULL \/ app.avro_c
           c    == IF q.c.schema_load_cb # NULL THEN q.c
                   ELSE [q.c EXCEPT !.schema_load_cb = "avro_c"]
           m1   == IF conf = 0 THEN q.m ELSE url_list_clear(q.m, o[conf].list)
           o1   == malloc(o, IF ok THEN c ELSE Gone)
           r    == serdes_new(m, o, conf)
           p    == Place(o)
<1>1. r = [sd |-> IF ok THEN p ELSE 0,
           m  |-> IF ok THEN m1 ELSE url_list_clear(m1, c.list),
           o  |-> IF conf = 0 THEN o1 ELSE [o1 EXCEPT ![conf] = Gone]]
  BY DEF serdes_new
<1>2. 0 \notin LiveIn(o)
  BY LenProperties DEF LiveIn
<1>3. /\ q.c \in Conf /\ Heap(q.m, o, LiveIn(o), q.c.list)
      /\ q.c.st = "live" /\ q.c.kind = "handle"
      /\ conf = 0 => q.c.log_cb = NULL
      /\ conf # 0 => /\ q.c.log_cb = o[conf].log_cb
                     /\ q.c.opaque = o[conf].opaque
                     /\ q.c.schema_load_cb = o[conf].schema_load_cb
  <2>0. /\ init \in Conf /\ init.st = "live" /\ init.kind = "handle"
        /\ init.list = 0 /\ init.log_cb = NULL
    BY InitConf
  <2> HIDE DEF init
  <2>1. CASE conf = 0
    <3>1. q.m = m /\ q.c = init
      BY <2>1
    <3> HIDE DEF q
    <3> QED
      BY <2>0, <2>1, <3>1
  <2>2. CASE conf # 0
    <3>1. q = serdes_conf_copy0(m, init, o[conf])
      BY <2>2
    <3>2. conf \in LiveIn(o) /\ o[conf] \in Conf /\ o[conf].st = "live"
      BY <2>2, ElementOfSeq, LenProperties DEF LiveIn
    <3> HIDE DEF q
    <3>3. /\ Heap(q.m, o, LiveIn(o), q.c.list)
          /\ q.c \in Conf
          /\ q.c.kind = init.kind /\ q.c.st = o[conf].st
          /\ q.c.log_cb = o[conf].log_cb /\ q.c.opaque = o[conf].opaque
          /\ q.c.schema_load_cb = o[conf].schema_load_cb
      BY <3>1, <3>2, <2>0, CopyHeap
    <3> QED
      BY <2>0, <2>2, <3>2, <3>3
  <2> QED
    BY <2>1, <2>2
<1>4. /\ c \in Conf /\ c.st = "live" /\ c.kind = "handle" /\ c.list = q.c.list
      /\ c.log_cb = q.c.log_cb /\ c.opaque = q.c.opaque
  <2> HIDE DEF q
  <2> QED
    BY <1>3 DEF Conf
<1> HIDE DEF q, c
\* The new object, whether it is kept or not.
<1> DEFINE oc == malloc(o, c)
           od == IF conf = 0 THEN oc ELSE [oc EXCEPT ![conf] = Gone]
<1>5. Taken(Conf, o, p, c, oc) /\ Heap(q.m, oc, LiveIn(oc), 0)
  BY <1>3, <1>4, MallocTakes, PutNew
<1> HIDE DEF oc, p
<1>6. /\ oc \in Seq(Conf) /\ LiveIn(oc) = LiveIn(o) \cup {p} /\ p \notin LiveIn(o)
      /\ p # 0 /\ oc[p] = c /\ \A d \in LiveIn(o) : oc[d] = o[d]
  BY <1>4, <1>5 DEF Taken
<1>7. /\ od \in Seq(Conf) /\ Heap(m1, od, LiveIn(od), 0)
      /\ LiveIn(od) = (LiveIn(o) \ {conf}) \cup {p}
      /\ od[p] = c /\ \A d \in LiveIn(o) \ {conf} : od[d] = o[d]
  <2>1. CASE conf = 0
    <3>1. od = oc /\ m1 = q.m
      BY <2>1
    <3>2. LiveIn(o) \ {conf} = LiveIn(o)
      BY <2>1, <1>2
    <3> HIDE DEF od, m1
    <3> QED
      BY <3>1, <3>2, <1>5, <1>6
  <2>2. CASE conf # 0
    <3>1. conf \in LiveIn(o) /\ conf \in LiveIn(oc) /\ oc[conf] = o[conf] /\ conf # p
      BY <2>2, <1>6
    <3>2. od = [oc EXCEPT ![conf] = Gone] /\ m1 = url_list_clear(q.m, oc[conf].list)
      BY <2>2, <3>1
    <3> HIDE DEF od, m1
    <3>3. /\ Heap(m1, od, LiveIn(od), 0) /\ od \in Seq(Conf)
          /\ LiveIn(od) = LiveIn(oc) \ {conf}
          /\ \A d \in LiveIn(od) : od[d] = oc[d]
      <4>1. /\ oc \in Seq(Conf) /\ Heap(q.m, oc, LiveIn(oc), 0)
            /\ conf \in LiveIn(oc) /\ od = [oc EXCEPT ![conf] = Gone]
            /\ m1 = url_list_clear(q.m, oc[conf].list)
        BY <1>5, <1>6, <3>1, <3>2
      <4>2. Dropped(oc, conf, m1, od)
        BY <4>1, DropOne
      <4> QED
        BY <4>2 DEF Dropped, Without
    <3>4. p \in LiveIn(od) /\ \A d \in LiveIn(o) \ {conf} : d \in LiveIn(od)
      BY <1>6, <3>1, <3>3
    <3>5. LiveIn(od) = (LiveIn(o) \ {conf}) \cup {p}
      BY <1>6, <3>1, <3>3
    <3> QED
      BY <1>6, <3>3, <3>4, <3>5
  <2> QED
    BY <2>1, <2>2
<1>8. CASE ok
  <2>1. r.sd = p /\ r.m = m1 /\ r.o = od
    BY <1>1, <1>8 DEF oc
  <2> HIDE DEF r, od, m1
  <2>2. {r.sd} \ {0} = {p}
    BY <2>1, <1>6
  <2>3. r.sd # 0 /\ r.sd \notin LiveIn(o)
    BY <2>1, <1>6
  <2>4. /\ r.o[r.sd].kind = "handle"
        /\ conf = 0 => r.o[r.sd].log_cb = NULL
        /\ conf # 0 => /\ r.o[r.sd].log_cb = o[conf].log_cb
                       /\ r.o[r.sd].opaque = o[conf].opaque
    BY <2>1, <1>3, <1>4, <1>7
  <2>5. /\ r.o \in Seq(Conf) /\ Heap(r.m, r.o, LiveIn(r.o), 0)
        /\ LiveIn(r.o) = (LiveIn(o) \ {conf}) \cup ({r.sd} \ {0})
        /\ \A d \in LiveIn(o) \ {conf} : r.o[d] = o[d]
    BY <2>1, <2>2, <1>7
  <2>6. NewDone(r, o, conf)
    BY <2>3, <2>4, <2>5 DEF NewDone
  <2> QED
    BY <2>6 DEF r
<1>9. CASE ~ ok
  <2> DEFINE og == malloc(o, Gone)
             oh == IF conf = 0 THEN og ELSE [og EXCEPT ![conf] = Gone]
             m2 == url_list_clear(m1, c.list)
  <2>1. r.sd = 0 /\ r.m = m2 /\ r.o = oh
    BY <1>1, <1>9
  <2>2. /\ og \in Seq(Conf) /\ LiveIn(og) = LiveIn(o)
        /\ \A d \in LiveIn(o) : og[d] = o[d]
    BY PutGone
  <2> HIDE DEF og
  <2>3. /\ oh \in Seq(Conf) /\ LiveIn(oh) = LiveIn(o) \ {conf}
        /\ \A d \in LiveIn(oh) : oh[d] = o[d]
    <3>1. CASE conf = 0
      <4>1. oh = og /\ LiveIn(o) \ {conf} = LiveIn(o)
        BY <3>1, <1>2
      <4> HIDE DEF oh
      <4> QED
        BY <4>1, <2>2
    <3>2. CASE conf # 0
      <4>1. oh = [og EXCEPT ![conf] = Gone] /\ conf \in DOMAIN og
        BY <3>2, <2>2 DEF LiveIn
      <4> HIDE DEF oh
      <4>2. /\ oh \in Seq(Conf) /\ LiveIn(oh) = LiveIn(og) \ {conf}
            /\ \A d \in LiveIn(oh) : oh[d] = og[d]
        <5>1. Without(og, conf, oh)
          BY <4>1, <2>2, GoneAt
        <5> QED
          BY <5>1 DEF Without
      <4> QED
        BY <4>2, <2>2
    <3> QED
      BY <3>1, <3>2
  <2>4. Heap(m2, oh, LiveIn(oh), 0)
    <3> DEFINE K == LiveIn(o) \ {conf}
    <3>1. p \in LiveIn(od) /\ LiveIn(od) \ {p} = K /\ od[p].list = c.list
      BY <1>6, <1>7
    <3> HIDE DEF od, m1
    <3>2. Heap(m1, od, K, c.list)
      BY <1>7, <3>1, TakeHeap
    <3>3. Heap(m2, od, K, 0)
      BY <3>2, ClearHeap
    <3>4. \A d \in K : oh[d].list = od[d].list
      BY <1>7, <2>3
    <3> HIDE DEF K, m2, oh
    <3>5. Heap(m2, oh, K, 0)
      BY <3>3, <3>4, SameHeap
    <3> QED
      BY <3>5, <2>3 DEF K
  <2> HIDE DEF r, oh, m2, m1, od
  <2>5. {r.sd} \ {0} = {} /\ 0 \notin LiveIn(o)
    BY <2>1, <1>2
  <2>6. LiveIn(oh) = LiveIn(o) \ {conf}
    BY <2>3
  <2>8. /\ r.o \in Seq(Conf) /\ Heap(r.m, r.o, LiveIn(r.o), 0)
        /\ LiveIn(r.o) = (LiveIn(o) \ {conf}) \cup ({r.sd} \ {0})
        /\ \A d \in LiveIn(o) \ {conf} : r.o[d] = o[d]
    BY <2>1, <2>3, <2>4, <2>5, <2>6
  <2>9. r.sd = 0 /\ r.sd \notin LiveIn(o)
    BY <2>1, <2>5
  <2>7. ~ (conf # 0 /\ o[conf].schema_load_cb # NULL)
    BY <1>3, <1>9
  <2>10. NewDone(r, o, conf)
    BY <2>7, <2>8, <2>9 DEF NewDone
  <2> QED
    BY <2>10 DEF r
<1> QED
  BY <1>8, <1>9


-----------------------------------------------------------------------------
(***************************************************************************)
(* The objects, and who holds them.  The C application owns some of the    *)
(* live objects, and each ConfImpl and each HandleImpl holds one of the    *)
(* others, alone and of its own kind.  A configuration never logs through  *)
(* the trampoline: only the copy does that create_serdes hands over.       *)
(***************************************************************************)
Held(o, w, p) ==
  /\ \A i \in LiveIn(p) : /\ p[i].ptr \in LiveIn(o) \ w
                          /\ o[p[i].ptr].kind = p[i].kind
  /\ \A i, j \in LiveIn(p) : p[i].ptr = p[j].ptr => i = j

\* The handle h is the one of the HandleImpl that its opaque pointer points to.
Answered(o, p, h) ==
  /\ o[h].kind = "handle"
  /\ o[h].opaque \in LiveIn(p)
  /\ p[o[h].opaque].kind = "handle"
  /\ p[o[h].opaque].ptr = h
  /\ p[o[h].opaque].log_cb_

Objects(o, w, p) ==
  /\ o \in Seq(Conf)
  /\ w \subseteq LiveIn(o)
  /\ p \in Seq(Impl)
  /\ Held(o, w, p)
  /\ \A h \in LiveIn(o) : o[h].log_cb = "trampoline" => Answered(o, p, h)

\* The inductive invariant.
IInv ==
  /\ app \in Apps
  /\ Heap(mem, objs, LiveIn(objs), 0)
  /\ Objects(objs, own, cpp)

\* NULL is no callback.
LEMMA NoNull ==
  /\ NULL # "trampoline" /\ NULL # "app" /\ NULL # "avro_c"
BY NullAssumption

\* Of the objects of before, K are still there, of the same kind, with the
\* same opaque pointer, and with the same log callback or the application's.
\* The others were the application's.  The objects in A are new.
Alike(c, d) ==
  d.kind = c.kind /\ d.opaque = c.opaque /\ (d.log_cb = c.log_cb \/ d.log_cb = "app")

Later(o, w, o2, w2, K, A) ==
  /\ o2 \in Seq(Conf)
  /\ K \subseteq LiveIn(o) /\ LiveIn(o) \ K \subseteq w
  /\ LiveIn(o2) = K \cup A
  /\ \A d \in K : Alike(o[d], o2[d])
  /\ \A d \in A : d \notin LiveIn(o) /\ o2[d].log_cb # "trampoline"
  /\ \A d \in w2 : (d \in w /\ d \in K) \/ d \in A

\* Such a change leaves the objects with their holders.
LEMMA LaterObjects ==
  ASSUME NEW o, NEW w, NEW p, Objects(o, w, p),
         NEW o2, NEW w2, NEW K, NEW A, Later(o, w, o2, w2, K, A)
  PROVE  Objects(o2, w2, p)
<1>0. /\ o2 \in Seq(Conf)
      /\ K \subseteq LiveIn(o) /\ LiveIn(o) \ K \subseteq w
      /\ LiveIn(o2) = K \cup A
      /\ \A d \in K : Alike(o[d], o2[d])
      /\ \A d \in A : d \notin LiveIn(o) /\ o2[d].log_cb # "trampoline"
      /\ \A d \in w2 : (d \in w /\ d \in K) \/ d \in A
  BY DEF Later
<1>1. w2 \subseteq LiveIn(o2)
  BY <1>0
<1>2. \A i \in LiveIn(p) :
        /\ p[i].ptr \in K /\ p[i].ptr \notin w2
        /\ p[i].ptr \in LiveIn(o2)
        /\ o2[p[i].ptr].kind = p[i].kind
  BY <1>0 DEF Objects, Held, Alike
<1>3. Held(o2, w2, p)
  BY <1>2 DEF Objects, Held
<1>4. ASSUME NEW h \in LiveIn(o2), o2[h].log_cb = "trampoline"
      PROVE  Answered(o2, p, h)
  <2>1. h \in K /\ h \in LiveIn(o)
    BY <1>0, <1>4
  <2>2. Alike(o[h], o2[h])
    BY <1>0, <2>1
  <2>3. Answered(o, p, h)
    BY <2>1, <2>2, <1>4 DEF Objects, Alike
  <2> QED
    BY <2>2, <2>3 DEF Answered, Alike
<1> QED
  BY <1>0, <1>1, <1>3, <1>4 DEF Objects

\* One more object a, and a ConfImpl or HandleImpl x that holds it.
LEMMA OneMoreImpl ==
  ASSUME NEW o, NEW w, NEW p, Objects(o, w, p),
         NEW o2 \in Seq(Conf), NEW a, a \notin LiveIn(o),
         LiveIn(o2) = LiveIn(o) \cup {a},
         \A d \in LiveIn(o) : o2[d] = o[d],
         NEW x \in Impl, x.st = "live", x.ptr = a, x.kind = o2[a].kind,
         o2[a].log_cb = "trampoline" =>
           x.kind = "handle" /\ o2[a].opaque = Place(p) /\ x.log_cb_
  PROVE  Objects(o2, w, malloc(p, x))
<1> DEFINE q == malloc(p, x)
           n == Place(p)
<1>0. p \in Seq(Impl)
  BY DEF Objects
<1>1. Taken(Impl, p, n, x, q)
  BY <1>0, MallocTakes
<1> HIDE DEF q, n
<1>2. /\ q \in Seq(Impl) /\ LiveIn(q) = LiveIn(p) \cup {n} /\ n \notin LiveIn(p)
      /\ q[n] = x /\ \A i \in LiveIn(p) : q[i] = p[i]
  BY <1>1 DEF Taken
<1>3. \A i \in LiveIn(p) : /\ q[i] = p[i] /\ p[i].ptr \in LiveIn(o)
                           /\ p[i].ptr \notin w /\ p[i].ptr # a
                           /\ o2[p[i].ptr].kind = p[i].kind
  BY <1>2 DEF Objects, Held
<1>4. a \notin w /\ w \subseteq LiveIn(o2)
  BY DEF Objects
<1>5. Held(o2, w, q)
  <2>1. \A i \in LiveIn(q) : q[i].ptr \in LiveIn(o2) \ w /\ o2[q[i].ptr].kind = q[i].kind
    BY <1>2, <1>3, <1>4
  <2>2. \A i, j \in LiveIn(q) : q[i].ptr = q[j].ptr => i = j
    BY <1>2, <1>3 DEF Objects, Held
  <2> QED
    BY <2>1, <2>2 DEF Held
<1>6. ASSUME NEW h \in LiveIn(o2), o2[h].log_cb = "trampoline"
      PROVE  Answered(o2, q, h)
  <2>1. CASE h = a
    <3>1. o2[h].opaque = n
      BY <1>6, <2>1 DEF n
    <3> QED
      BY <1>2, <1>6, <2>1, <3>1 DEF Answered
  <2>2. CASE h # a
    <3>1. h \in LiveIn(o) /\ o2[h] = o[h]
      BY <2>2
    <3>2. Answered(o, p, h)
      BY <3>1, <1>6 DEF Objects
    <3> QED
      BY <3>1, <3>2, <1>2 DEF Answered
  <2> QED
    BY <2>1, <2>2
<1>7. Objects(o2, w, q)
  BY <1>2, <1>4, <1>5, <1>6 DEF Objects
<1> QED
  BY <1>7 DEF q

\* A ConfImpl or HandleImpl is gone, and with it the object that it held.
LEMMA OneImplLess ==
  ASSUME NEW o, NEW w, NEW p, Objects(o, w, p),
         NEW i \in LiveIn(p), NEW x \in Impl, x.st # "live",
         NEW o2, Without(o, p[i].ptr, o2)
  PROVE  Objects(o2, w, [p EXCEPT ![i] = x])
<1> DEFINE q == [p EXCEPT ![i] = x]
           a == p[i].ptr
<1>0. p \in Seq(Impl) /\ i \in DOMAIN p
  BY DEF Objects, LiveIn
<1>1. /\ q \in Seq(Impl) /\ DOMAIN q = DOMAIN p
      /\ \A j \in DOMAIN p : j # i => q[j] = p[j]
      /\ x.st # "live" => LiveIn(q) = LiveIn(p) \ {i}
  BY <1>0, WriteAt
<1> HIDE DEF q
<1>2. LiveIn(q) = LiveIn(p) \ {i} /\ \A j \in LiveIn(q) : j \in LiveIn(p) /\ q[j] = p[j]
  BY <1>1 DEF LiveIn
<1>3. /\ o2 \in Seq(Conf) /\ LiveIn(o2) = LiveIn(o) \ {a}
      /\ \A d \in LiveIn(o2) : o2[d] = o[d]
  BY DEF Without
<1>4. \A j \in LiveIn(q) : p[j].ptr # a
  BY <1>2 DEF Objects, Held
<1> HIDE DEF a
<1>5. \A j \in LiveIn(q) : /\ q[j].ptr = p[j].ptr /\ p[j].ptr \in LiveIn(o2)
                           /\ p[j].ptr \notin w
                           /\ o2[p[j].ptr].kind = p[j].kind
  BY <1>2, <1>3, <1>4 DEF Objects, Held
<1>6. a \notin w /\ w \subseteq LiveIn(o2)
  BY <1>3 DEF Objects, Held, a
<1>7. Held(o2, w, q)
  BY <1>2, <1>5 DEF Objects, Held
<1>8. ASSUME NEW h \in LiveIn(o2), o2[h].log_cb = "trampoline"
      PROVE  Answered(o2, q, h)
  <2>1. h \in LiveIn(o) /\ o2[h] = o[h] /\ h # a
    BY <1>3
  <2>2. Answered(o, p, h)
    BY <2>1, <1>8 DEF Objects
  <2>3. o[h].opaque \in LiveIn(q)
    BY <2>1, <2>2, <1>2 DEF Answered, a
  <2> QED
    BY <2>1, <2>2, <2>3, <1>2 DEF Answered
<1>9. Objects(o2, w, q)
  BY <1>1, <1>3, <1>6, <1>7, <1>8 DEF Objects
<1> QED
  BY <1>9 DEF q

\* A ConfImpl gets a log callback.
LEMMA LogCbSet ==
  ASSUME NEW o, NEW w, NEW p, Objects(o, w, p), NEW i \in LiveIn(p)
  PROVE  Objects(o, w, [p EXCEPT ![i].log_cb_ = TRUE])
<1> DEFINE q == [p EXCEPT ![i].log_cb_ = TRUE]
           x == [p[i] EXCEPT !.log_cb_ = TRUE]
<1>0. p \in Seq(Impl) /\ i \in DOMAIN p /\ p[i] \in Impl
  BY ElementOfSeq, LenProperties DEF Objects, LiveIn
<1>1. /\ x \in Impl /\ x.st = p[i].st /\ x.kind = p[i].kind /\ x.ptr = p[i].ptr
      /\ x.log_cb_ = TRUE
  BY <1>0 DEF Impl
<1>2. x.st = "live"
  BY <1>1 DEF LiveIn
<1>3. q = [p EXCEPT ![i] = x]
  OBVIOUS
<1> HIDE DEF x, q
<1>4. /\ q \in Seq(Impl) /\ LiveIn(q) = LiveIn(p) \cup {i} /\ q[i] = x
      /\ DOMAIN q = DOMAIN p
      /\ \A j \in DOMAIN p : j # i => q[j] = p[j]
  <2> DEFINE e == [p EXCEPT ![i] = x]
  <2>1. /\ e \in Seq(Impl) /\ e[i] = x
        /\ DOMAIN e = DOMAIN p
        /\ \A j \in DOMAIN p : j # i => e[j] = p[j]
        /\ x.st = "live" => LiveIn(e) = LiveIn(p) \cup {i}
    BY <1>0, <1>1, WriteAt
  <2>2. q = e
    BY <1>3
  <2> HIDE DEF e
  <2> QED
    BY <2>1, <2>2, <1>2
<1>5. /\ LiveIn(q) = LiveIn(p)
      /\ \A j \in LiveIn(p) : /\ q[j].kind = p[j].kind /\ q[j].ptr = p[j].ptr
                              /\ p[j].log_cb_ => q[j].log_cb_
  BY <1>1, <1>4 DEF LiveIn
<1>6. Held(o, w, q)
  BY <1>5 DEF Objects, Held
<1>7. \A h \in LiveIn(o) : o[h].log_cb = "trampoline" => Answered(o, q, h)
  BY <1>5 DEF Objects, Answered
<1> QED
  BY <1>4, <1>6, <1>7 DEF Objects, q

-----------------------------------------------------------------------------
(***************************************************************************)
(* Every step keeps the inductive invariant.                               *)
(***************************************************************************)
LEMMA InitIInv == Init => IInv
<1> SUFFICES ASSUME Init PROVE IInv
  OBVIOUS
<1>1. LiveIn(<<>>) = {}
  BY DEF LiveIn
<1>2. \A S : <<>> \in Seq(S)
  BY EmptySeq
<1>3. Heap(<<>>, <<>>, {}, 0)
  BY <1>1, <1>2 DEF Heap, Lists, Owned
<1>4. Objects(<<>>, {}, <<>>)
  BY <1>1, <1>2 DEF Objects, Held
<1> QED
  BY <1>1, <1>3, <1>4 DEF IInv, Init

\* The URL lists are those of the same application as before.
LEMMA Assembled ==
  ASSUME app \in Apps, app' = app, cpp' = cpp,
         Heap(mem', objs', LiveIn(objs'), 0), Objects(objs', own', cpp)
  PROVE  IInv'
BY DEF IInv, Heap, Lists, Owned, Texts

\* The application gets a new object.
LEMMA ObjectGiven ==
  ASSUME IInv, NEW x \in Conf, x.st = "live", x.log_cb # "trampoline",
         Heap(mem', objs, LiveIn(objs), x.list),
         objs' = malloc(objs, x), own' = own \cup {Place(objs)},
         UNCHANGED <<app, cpp>>
  PROVE  IInv'
<1>0. objs \in Seq(Conf) /\ Objects(objs, own, cpp) /\ app \in Apps
  BY DEF IInv, Objects
<1>1. Heap(mem', objs', LiveIn(objs'), 0)
  BY <1>0, PutNew
<1> DEFINE a == Place(objs)
<1>2. Taken(Conf, objs, a, x, objs')
  BY <1>0, MallocTakes
<1> HIDE DEF a
<1>3. /\ objs' \in Seq(Conf) /\ LiveIn(objs') = LiveIn(objs) \cup {a}
      /\ a \notin LiveIn(objs) /\ objs'[a] = x
      /\ \A d \in LiveIn(objs) : objs'[d] = objs[d]
  BY <1>2 DEF Taken
<1>4. own' = own \cup {a} /\ own \subseteq LiveIn(objs)
  BY <1>0 DEF Objects, a
<1>5. Objects(objs', own', cpp)
  <2> DEFINE K == LiveIn(objs)
             A == {a}
  <2>1. \A d \in K : Alike(objs[d], objs'[d])
    BY <1>3 DEF Alike
  <2>2. /\ K \subseteq LiveIn(objs) /\ LiveIn(objs) \ K \subseteq own
        /\ \A d \in A : d \notin LiveIn(objs) /\ objs'[d].log_cb # "trampoline"
        /\ LiveIn(objs') = K \cup A
        /\ \A d \in own' : (d \in own /\ d \in K) \/ d \in A
    BY <1>3, <1>4
  <2> HIDE DEF K, A
  <2>3. Later(objs, own, objs', own', K, A)
    BY <1>0, <1>3, <2>1, <2>2 DEF Later
  <2> QED
    BY <1>0, <2>3, LaterObjects
<1> QED
  BY <1>0, <1>1, <1>5, Assembled

\* An object changes, and with it perhaps its list.
LEMMA ObjectChanged ==
  ASSUME IInv, NEW c \in LiveIn(objs), NEW x \in Conf, x.st = "live",
         Alike(objs[c], x),
         Heap(mem', objs, LiveIn(objs) \ {c}, x.list),
         objs' = [objs EXCEPT ![c] = x],
         UNCHANGED <<app, own, cpp>>
  PROVE  IInv'
<1>0. /\ objs \in Seq(Conf) /\ Objects(objs, own, cpp) /\ app \in Apps
      /\ c \in DOMAIN objs /\ own \subseteq LiveIn(objs)
  BY DEF IInv, Objects, LiveIn
<1> DEFINE e == [objs EXCEPT ![c] = x]
<1>1. /\ e \in Seq(Conf) /\ e[c] = x
      /\ \A i \in DOMAIN objs : i # c => e[i] = objs[i]
      /\ x.st = "live" => LiveIn(e) = LiveIn(objs) \cup {c}
  BY <1>0, WriteAt
<1>2. objs' = e
  OBVIOUS
<1> HIDE DEF e
<1>3. /\ objs' \in Seq(Conf) /\ objs'[c] = x /\ LiveIn(objs') = LiveIn(objs)
      /\ \A d \in LiveIn(objs) : d # c => objs'[d] = objs[d]
  BY <1>1, <1>2 DEF LiveIn
<1>4. Heap(mem', objs', LiveIn(objs'), 0)
  <2> DEFINE S == LiveIn(objs) \ {c}
  <2>1. c \notin S /\ objs'[c].list = x.list /\ \A d \in S : objs'[d].list = objs[d].list
    BY <1>3
  <2>2. S \cup {c} = LiveIn(objs')
    BY <1>3
  <2> HIDE DEF S
  <2>3. Heap(mem', objs, S, x.list)
    BY DEF S
  <2>4. Heap(mem', objs', S \cup {c}, 0)
    BY <2>1, <2>3, PutHeap
  <2> QED
    BY <2>2, <2>4
<1>5. Objects(objs', own', cpp)
  <2> DEFINE K == LiveIn(objs)
             A == {}
  <2>1. \A d \in K : Alike(objs[d], objs'[d])
    BY <1>3 DEF Alike
  <2>2. /\ K \subseteq LiveIn(objs) /\ LiveIn(objs) \ K \subseteq own
        /\ \A d \in A : d \notin LiveIn(objs) /\ objs'[d].log_cb # "trampoline"
        /\ LiveIn(objs') = K \cup A
        /\ \A d \in own' : (d \in own /\ d \in K) \/ d \in A
    BY <1>0, <1>3
  <2> HIDE DEF K, A
  <2>3. Later(objs, own, objs', own', K, A)
    BY <1>0, <1>3, <2>1, <2>2 DEF Later
  <2> QED
    BY <1>0, <2>3, LaterObjects
<1> QED
  BY <1>0, <1>4, <1>5, Assembled

\* What holds of an object that is there.
LEMMA ObjectIs ==
  ASSUME IInv, NEW c \in LiveIn(objs)
  PROVE  /\ objs[c] \in Conf /\ objs[c].st = "live" /\ c \in DOMAIN objs
         /\ Heap(mem, objs, LiveIn(objs) \ {c}, objs[c].list)
<1>1. objs \in Seq(Conf) /\ Heap(mem, objs, LiveIn(objs), 0)
  BY DEF IInv, Objects
<1>2. Heap(mem, objs, LiveIn(objs) \ {c}, objs[c].list)
  BY <1>1, TakeHeap
<1> QED
  BY <1>1, <1>2, ElementOfSeq, LenProperties DEF LiveIn

\* What the application has is there, and no configuration logs through the
\* trampoline.
LEMMA OwnIsLive ==
  ASSUME IInv
  PROVE  /\ own \subseteq LiveIn(objs)
         /\ Confs \subseteq own /\ Handles \subseteq own
         /\ \A c \in LiveIn(objs) : objs[c].kind = "conf" => objs[c].log_cb # "trampoline"
BY DEF IInv, Objects, Answered, Confs, Handles

\* serdes_conf_new: the object is returned, or freed again after an error.
LEMMA ConfNewStep ==
  ASSUME IInv, NEW args \in ArgLists, serdes_conf_new(args)
  PROVE  IInv'
<1> DEFINE r == ConfOf(mem, args)
<1>0. /\ app \in Apps /\ Heap(mem, objs, LiveIn(objs), 0) /\ objs \in Seq(Conf)
      /\ Objects(objs, own, cpp) /\ UNCHANGED <<app, cpp>>
  BY DEF IInv, Objects, serdes_conf_new
<1>1. r \in Made(objs, LiveIn(objs))
  BY <1>0, ArgsAreGood, ConfOfMade
<1>2. \/ /\ mem' = r.m /\ objs' = malloc(objs, r.c)
         /\ own' = own \cup {Place(objs)}
      \/ /\ mem' = url_list_clear(r.m, r.c.list) /\ objs' = malloc(objs, Gone)
         /\ own' = own
  BY DEF serdes_conf_new
<1> HIDE DEF r
<1>3. /\ r.c \in Conf /\ r.c.st = "live" /\ r.c.log_cb # "trampoline"
      /\ Heap(r.m, objs, LiveIn(objs), r.c.list)
  BY <1>1, NoNull DEF Made
<1>4. CASE /\ mem' = r.m /\ objs' = malloc(objs, r.c)
           /\ own' = own \cup {Place(objs)}
  BY <1>0, <1>3, <1>4, ObjectGiven
<1>5. CASE /\ mem' = url_list_clear(r.m, r.c.list) /\ objs' = malloc(objs, Gone)
           /\ own' = own
  <2>1. Heap(mem', objs, LiveIn(objs), 0)
    BY <1>3, <1>5, ClearHeap
  <2>2. /\ objs' \in Seq(Conf) /\ LiveIn(objs') = LiveIn(objs)
        /\ \A d \in LiveIn(objs) : objs'[d] = objs[d]
    BY <1>0, <1>5, PutGone
  <2>3. Heap(mem', objs', LiveIn(objs'), 0)
    BY <2>1, <2>2, SameHeap
  <2>4. Objects(objs', own', cpp)
    <3> DEFINE K == LiveIn(objs)
               A == {}
    <3>1. \A d \in K : Alike(objs[d], objs'[d])
      BY <2>2 DEF Alike
    <3>2. /\ K \subseteq LiveIn(objs) /\ LiveIn(objs) \ K \subseteq own
          /\ \A d \in A : d \notin LiveIn(objs) /\ objs'[d].log_cb # "trampoline"
          /\ LiveIn(objs') = K \cup A
          /\ \A d \in own' : (d \in own /\ d \in K) \/ d \in A
      BY <1>0, <1>5, <2>2 DEF Objects
    <3> HIDE DEF K, A
    <3>3. Later(objs, own, objs', own', K, A)
      BY <1>0, <2>2, <3>1, <3>2 DEF Later
    <3> QED
      BY <1>0, <3>3, LaterObjects
  <2> QED
    BY <1>0, <2>3, <2>4, Assembled
<1> QED
  BY <1>2, <1>4, <1>5

\* ConfSet and CppConfSet.
LEMMA SetStep ==
  ASSUME IInv, NEW c \in LiveIn(objs), NEW s \in Settings,
         NEW r, r = serdes_conf_set(mem, objs[c], s.name, s.val),
         mem' = r.m, objs' = [objs EXCEPT ![c] = r.c],
         UNCHANGED <<app, own, cpp>>
  PROVE  IInv'
<1>1. app \in Apps /\ GoodArg(s.name, s.val)
  BY SettingsAreGood DEF IInv
<1>2. objs[c] \in Conf /\ objs[c].st = "live" /\ Heap(mem, objs, LiveIn(objs) \ {c}, objs[c].list)
  BY ObjectIs
<1>3. SetDone(r, objs[c], objs, LiveIn(objs) \ {c})
  BY <1>1, <1>2, SetHeap
<1>4. /\ r.c \in Conf /\ r.c.st = "live" /\ Alike(objs[c], r.c)
      /\ Heap(mem', objs, LiveIn(objs) \ {c}, r.c.list)
  BY <1>2, <1>3 DEF SetDone, Kept, Alike
<1> QED
  BY <1>4, ObjectChanged

\* serdes_conf_set of the C API.
LEMMA ConfSetStep ==
  ASSUME IInv, NEW c \in Confs, NEW s \in Settings, ConfSet(c, s)
  PROVE  IInv'
<1>1. c \in LiveIn(objs)
  BY OwnIsLive
<1> QED
  BY <1>1, SetStep DEF ConfSet

\* serdes_conf_set_schema_load_cb, _set_log_cb and _set_opaque.
LEMMA ConfSetCallbacksStep ==
  ASSUME IInv, NEW c \in Confs, ConfSetCallbacks(c)
  PROVE  IInv'
<1> DEFINE x == [objs[c] EXCEPT !.schema_load_cb = "app", !.log_cb = "app"]
<1>1. c \in LiveIn(objs)
  BY OwnIsLive
<1>2. objs[c] \in Conf /\ objs[c].st = "live" /\ Heap(mem, objs, LiveIn(objs) \ {c}, objs[c].list)
  BY <1>1, ObjectIs
<1>3. objs' = [objs EXCEPT ![c] = x] /\ UNCHANGED <<app, mem, own, cpp>>
  BY DEF ConfSetCallbacks
<1>4. x \in Conf /\ x.st = "live" /\ Alike(objs[c], x) /\ x.list = objs[c].list
  BY <1>2 DEF Conf, Alike
<1> HIDE DEF x
<1> QED
  BY <1>1, <1>2, <1>3, <1>4, ObjectChanged

\* serdes_conf_copy.
LEMMA ConfCopyStep ==
  ASSUME IInv, NEW c \in Confs, serdes_conf_copy(c)
  PROVE  IInv'
<1> DEFINE dst == serdes_conf_init("conf")
           r == serdes_conf_copy0(mem, dst, objs[c])
<1>1. /\ c \in LiveIn(objs) /\ objs[c].kind = "conf" /\ objs[c].log_cb # "trampoline"
  BY OwnIsLive DEF Confs
<1>2. objs[c] \in Conf /\ objs[c].st = "live"
  BY <1>1, ObjectIs
<1>3. dst \in Conf /\ dst.list = 0
  BY InitConf
<1>4. app \in Apps /\ Heap(mem, objs, LiveIn(objs), 0)
  BY DEF IInv
<1>5. /\ mem' = r.m /\ objs' = malloc(objs, r.c) /\ own' = own \cup {Place(objs)}
      /\ UNCHANGED <<app, cpp>>
  BY DEF serdes_conf_copy
<1> HIDE DEF dst
<1>6. /\ Heap(r.m, objs, LiveIn(objs), r.c.list)
      /\ r.c \in Conf /\ r.c.st = objs[c].st /\ r.c.log_cb = objs[c].log_cb
  BY <1>1, <1>2, <1>3, <1>4, CopyHeap
<1> HIDE DEF r
<1> QED
  BY <1>1, <1>2, <1>5, <1>6, ObjectGiven

\* serdes_conf_destroy and serdes_destroy.
LEMMA DestroyStep ==
  ASSUME IInv, NEW c \in own, Destroy(c)
  PROVE  IInv'
<1>0. /\ c \in LiveIn(objs) /\ objs \in Seq(Conf) /\ Objects(objs, own, cpp)
      /\ Heap(mem, objs, LiveIn(objs), 0) /\ app \in Apps /\ own \subseteq LiveIn(objs)
  BY OwnIsLive DEF IInv, Objects
<1>1. /\ mem' = url_list_clear(mem, objs[c].list) /\ objs' = [objs EXCEPT ![c] = Gone]
      /\ own' = own \ {c} /\ UNCHANGED <<app, cpp>>
  BY DEF Destroy
<1>2. Dropped(objs, c, mem', objs')
  BY <1>0, <1>1, DropOne
<1>3. /\ Heap(mem', objs', LiveIn(objs'), 0) /\ objs' \in Seq(Conf)
      /\ LiveIn(objs') = LiveIn(objs) \ {c}
      /\ \A d \in LiveIn(objs') : objs'[d] = objs[d]
  BY <1>2 DEF Dropped, Without
<1>4. Objects(objs', own', cpp)
  <2> DEFINE K == LiveIn(objs) \ {c}
             A == {}
  <2>1. \A d \in K : Alike(objs[d], objs'[d])
    BY <1>3 DEF Alike
  <2>2. /\ K \subseteq LiveIn(objs) /\ LiveIn(objs) \ K \subseteq own
        /\ \A d \in A : d \notin LiveIn(objs) /\ objs'[d].log_cb # "trampoline"
        /\ LiveIn(objs') = K \cup A
        /\ \A d \in own' : (d \in own /\ d \in K) \/ d \in A
    BY <1>0, <1>1, <1>3
  <2> HIDE DEF K, A
  <2>3. Later(objs, own, objs', own', K, A)
    BY <1>0, <1>3, <2>1, <2>2 DEF Later
  <2> QED
    BY <1>0, <2>3, LaterObjects
<1> QED
  BY <1>0, <1>1, <1>3, <1>4, Assembled

\* serdes_new of the C API, which takes the configuration over.
LEMMA NewStep ==
  ASSUME IInv, NEW conf \in Confs \cup {0}, New(conf)
  PROVE  IInv'
<1> DEFINE r == serdes_new(mem, objs, conf)
<1>0. /\ objs \in Seq(Conf) /\ Objects(objs, own, cpp)
      /\ Heap(mem, objs, LiveIn(objs), 0) /\ app \in Apps
      /\ own \subseteq LiveIn(objs)
      /\ conf # 0 => conf \in own /\ objs[conf].log_cb # "trampoline"
  BY OwnIsLive DEF IInv, Objects, Confs
<1>1. conf = 0 \/ conf \in LiveIn(objs)
  BY <1>0
<1>2. NewDone(r, objs, conf)
  BY <1>0, <1>1, NewHeap
<1>3. /\ mem' = r.m /\ objs' = r.o /\ own' = (own \ {conf}) \cup ({r.sd} \ {0})
      /\ app' = app /\ cpp' = cpp
  BY DEF New
<1> HIDE DEF r
<1> DEFINE K == LiveIn(objs) \ {conf}
           A == {r.sd} \ {0}
<1>4. /\ objs' \in Seq(Conf) /\ Heap(mem', objs', LiveIn(objs'), 0)
      /\ LiveIn(objs') = K \cup A /\ \A d \in K : objs'[d] = objs[d]
      /\ r.sd \notin LiveIn(objs)
  BY <1>2, <1>3 DEF NewDone
<1>5. r.sd # 0 => objs'[r.sd].log_cb # "trampoline"
  BY <1>0, <1>2, <1>3, NoNull DEF NewDone
<1>6. Later(objs, own, objs', own', K, A)
  <2>1. \A d \in K : Alike(objs[d], objs'[d])
    BY <1>4 DEF Alike
  <2>2. conf \in LiveIn(objs) => conf \in own
    <3>1. 0 \notin LiveIn(objs)
      BY <1>0, LenProperties DEF LiveIn
    <3> QED
      BY <1>0, <3>1
  <2>3. K \subseteq LiveIn(objs) /\ LiveIn(objs) \ K \subseteq own
    BY <2>2
  <2>4. \A d \in A : d \notin LiveIn(objs) /\ objs'[d].log_cb # "trampoline"
    BY <1>4, <1>5
  <2>5. \A d \in own' : (d \in own /\ d \in K) \/ d \in A
    BY <1>0, <1>3
  <2> HIDE DEF K, A
  <2> QED
    BY <1>4, <2>1, <2>3, <2>4, <2>5 DEF Later
<1>7. Objects(objs', own', cpp)
  BY <1>0, <1>6, LaterObjects
<1> QED
  BY <1>0, <1>3, <1>4, <1>7, Assembled

\* The same as Assembled, when a ConfImpl or HandleImpl comes or goes.
LEMMA AssembledCpp ==
  ASSUME app \in Apps, app' = app, own' = own,
         Heap(mem', objs', LiveIn(objs'), 0), Objects(objs', own, cpp')
  PROVE  IInv'
BY DEF IInv, Heap, Lists, Owned, Texts

\* Conf::create.
LEMMA CppConfCreateStep ==
  ASSUME IInv, CppConfCreate
  PROVE  IInv'
<1> DEFINE x == serdes_conf_init("conf")
           a == Place(objs)
           y == [st |-> "live", kind |-> "conf", ptr |-> a, log_cb_ |-> FALSE]
<1>0. /\ objs \in Seq(Conf) /\ Objects(objs, own, cpp)
      /\ Heap(mem, objs, LiveIn(objs), 0) /\ app \in Apps
  BY DEF IInv, Objects
<1>1. /\ x \in Conf /\ x.st = "live" /\ x.kind = "conf" /\ x.list = 0
      /\ x.log_cb # "trampoline"
  BY InitConf, NoNull
<1>2. /\ objs' = malloc(objs, x) /\ cpp' = malloc(cpp, y)
      /\ UNCHANGED <<app, mem, own>>
  BY DEF CppConfCreate
<1> HIDE DEF x
<1>3. Heap(mem, objs', LiveIn(objs'), 0)
  BY <1>0, <1>1, <1>2, PutNew
<1>4. Taken(Conf, objs, a, x, objs')
  BY <1>0, <1>1, <1>2, MallocTakes
<1> HIDE DEF a
<1>5. /\ objs' \in Seq(Conf) /\ LiveIn(objs') = LiveIn(objs) \cup {a}
      /\ a \notin LiveIn(objs) /\ objs'[a] = x /\ a \in Nat
      /\ \A d \in LiveIn(objs) : objs'[d] = objs[d]
  BY <1>1, <1>4 DEF Taken
<1>6. y \in Impl /\ y.st = "live" /\ y.ptr = a /\ y.kind = objs'[a].kind
  BY <1>1, <1>5 DEF Impl
<1> HIDE DEF y
<1>7. Objects(objs', own, malloc(cpp, y))
  BY <1>0, <1>1, <1>5, <1>6, OneMoreImpl
<1> QED
  BY <1>0, <1>2, <1>3, <1>7, AssembledCpp

\* ConfImpl::set.
LEMMA CppConfSetStep ==
  ASSUME IInv, NEW i \in ConfImpls, NEW s \in Settings, CppConfSet(i, s)
  PROVE  IInv'
<1>1. i \in LiveIn(cpp)
  BY DEF ConfImpls, LiveIn
<1>2. cpp[i].ptr \in LiveIn(objs)
  BY <1>1 DEF IInv, Objects, Held
<1> QED
  BY <1>2, SetStep DEF CppConfSet

\* ConfImpl::set_log_cb.
LEMMA CppConfSetLogCbStep ==
  ASSUME IInv, NEW i \in ConfImpls, CppConfSetLogCb(i)
  PROVE  IInv'
<1>1. i \in LiveIn(cpp)
  BY DEF ConfImpls, LiveIn
<1>2. /\ app \in Apps /\ Objects(objs, own, cpp)
      /\ Heap(mem, objs, LiveIn(objs), 0)
  BY DEF IInv
<1>3. cpp' = [cpp EXCEPT ![i].log_cb_ = TRUE] /\ UNCHANGED <<app, mem, objs, own>>
  BY DEF CppConfSetLogCb
<1>4. Objects(objs, own, cpp')
  BY <1>1, <1>2, <1>3, LogCbSet
<1> QED
  BY <1>2, <1>3, <1>4, AssembledCpp

\* The destructors of ConfImpl and HandleImpl.
LEMMA CppDeleteStep ==
  ASSUME IInv, NEW i \in ConfImpls \cup HandleImpls, CppDelete(i)
  PROVE  IInv'
<1> DEFINE p == cpp[i].ptr
           y == [st |-> "freed", kind |-> "conf", ptr |-> 0, log_cb_ |-> FALSE]
<1>0. /\ objs \in Seq(Conf) /\ Objects(objs, own, cpp)
      /\ Heap(mem, objs, LiveIn(objs), 0) /\ app \in Apps
  BY DEF IInv, Objects
<1>1. i \in LiveIn(cpp)
  BY DEF ConfImpls, HandleImpls, LiveIn
<1>2. p \in LiveIn(objs)
  BY <1>0, <1>1 DEF Objects, Held
<1>3. /\ mem' = url_list_clear(mem, objs[p].list)
      /\ objs' = [objs EXCEPT ![p] = Gone]
      /\ cpp' = [cpp EXCEPT ![i] = y]
      /\ UNCHANGED <<app, own>>
  BY DEF CppDelete
<1>4. Dropped(objs, p, mem', objs')
  BY <1>0, <1>2, <1>3, DropOne
<1>5. y \in Impl /\ y.st # "live"
  BY DEF Impl
<1> HIDE DEF y
<1>6. Without(objs, p, objs') /\ Heap(mem', objs', LiveIn(objs'), 0)
  BY <1>4 DEF Dropped
<1>7. Objects(objs', own, [cpp EXCEPT ![i] = y])
  BY <1>0, <1>1, <1>5, <1>6, OneImplLess
<1> QED
  BY <1>0, <1>3, <1>6, <1>7, AssembledCpp

\* What create_serdes hands to serdes_new.
LEMMA ConfOfHandleIs ==
  ASSUME IInv, NEW i \in ConfImpls \cup {0}, NEW hnd \in Nat
  PROVE  LET q == ConfOfHandle(i, hnd)
         IN  /\ q.c \in Conf /\ q.c.st = "live"
             /\ Heap(q.m, objs, LiveIn(objs), q.c.list)
             /\ q.c.schema_load_cb = "trampoline"
             /\ q.c.log_cb = "trampoline" =>
                  q.c.opaque = hnd /\ i # 0 /\ cpp[i].log_cb_
<1> DEFINE init == serdes_conf_init("conf")
           q == ConfOfHandle(i, hnd)
<1>0. /\ app \in Apps /\ Objects(objs, own, cpp)
      /\ Heap(mem, objs, LiveIn(objs), 0)
  BY DEF IInv
<1>1. /\ init \in Conf /\ init.st = "live" /\ init.list = 0
      /\ init.log_cb # "trampoline"
  BY InitConf, NoNull
<1>2. CASE i = 0
  <2> DEFINE c == [init EXCEPT !.schema_load_cb = "trampoline"]
  <2>1. q = [m |-> mem, c |-> c]
    BY <1>2 DEF ConfOfHandle
  <2> HIDE DEF init
  <2>2. /\ c \in Conf /\ c.st = "live" /\ c.list = 0 /\ c.log_cb # "trampoline"
        /\ c.schema_load_cb = "trampoline"
    BY <1>1 DEF Conf
  <2> HIDE DEF c, q
  <2> QED
    BY <1>0, <2>1, <2>2 DEF q
<1>3. CASE i # 0
  <2> DEFINE p == cpp[i].ptr
             r == serdes_conf_copy0(mem, init, objs[p])
             log == cpp[i].log_cb_
             c == Prepare(r.c, hnd, log)
  <2>1. q = [r EXCEPT !.c = c]
    BY <1>3 DEF ConfOfHandle
  <2>2. i \in LiveIn(cpp) /\ cpp[i].kind = "conf"
    BY <1>3 DEF ConfImpls, LiveIn
  <2>3. p \in LiveIn(objs) /\ objs[p].kind = "conf"
    BY <1>0, <2>2 DEF Objects, Held
  <2>4. objs[p].log_cb # "trampoline"
    BY <2>3, OwnIsLive
  <2>5. objs[p] \in Conf /\ objs[p].st = "live"
    BY <2>3, ObjectIs
  <2> HIDE DEF p, init
  <2>6. /\ r.c \in Conf /\ r.c.st = "live" /\ r.c.log_cb # "trampoline"
        /\ Heap(r.m, objs, LiveIn(objs), r.c.list)
    BY <1>0, <1>1, <2>3, <2>4, <2>5, CopyHeap
  <2>7. r = [m |-> r.m, c |-> r.c]
    BY DEF serdes_conf_copy0
  <2>8. cpp[i] \in Impl
    BY <1>0, <2>2, ElementOfSeq, LenProperties DEF Objects, LiveIn
  <2>9. log \in BOOLEAN
    BY <2>8 DEF Impl
  <2> HIDE DEF r, log
  <2>10. /\ c \in Conf /\ c.st = "live" /\ c.list = r.c.list
         /\ c.opaque = hnd /\ c.schema_load_cb = "trampoline"
         /\ c.log_cb = IF log THEN "trampoline" ELSE r.c.log_cb
    BY <2>6, <2>9 DEF Prepare, Conf
  <2> HIDE DEF c
  <2>11. q.c = c /\ q.m = r.m
    BY <2>1, <2>7
  <2> HIDE DEF q
  <2>12. q.c.log_cb = "trampoline" => log
    BY <2>6, <2>10, <2>11
  <2>13. /\ q.c \in Conf /\ q.c.st = "live"
         /\ Heap(q.m, objs, LiveIn(objs), q.c.list)
         /\ q.c.schema_load_cb = "trampoline"
    BY <2>6, <2>10, <2>11
  <2>14. q.c.log_cb = "trampoline" => q.c.opaque = hnd /\ i # 0 /\ cpp[i].log_cb_
    BY <1>3, <2>10, <2>11, <2>12 DEF log
  <2> QED
    BY <2>13, <2>14 DEF q
<1> QED
  BY <1>2, <1>3

\* create_serdes: a copy is made, changed and handed to serdes_new.
LEMMA CppHandleCreateStep ==
  ASSUME IInv, NEW i \in ConfImpls \cup {0}, CppHandleCreate(i)
  PROVE  IInv'
<1> DEFINE n == Place(cpp)
           q == ConfOfHandle(i, n)
           c == Place(objs)
           o1 == malloc(objs, q.c)
           r == serdes_new(q.m, o1, c)
           y == [st |-> "live", kind |-> "handle", ptr |-> r.sd,
                 log_cb_ |-> i # 0 /\ cpp[i].log_cb_]
<1>0. /\ objs \in Seq(Conf) /\ Objects(objs, own, cpp) /\ cpp \in Seq(Impl)
      /\ app \in Apps
  BY DEF IInv, Objects
<1>1. /\ mem' = r.m /\ objs' = r.o /\ cpp' = malloc(cpp, y)
      /\ UNCHANGED <<app, own>>
  BY DEF CppHandleCreate
<1>2. n \in Nat
  BY <1>0, PlaceIsFree
<1> HIDE DEF n
<1>3. /\ q.c \in Conf /\ q.c.st = "live"
      /\ Heap(q.m, objs, LiveIn(objs), q.c.list)
      /\ q.c.schema_load_cb = "trampoline"
      /\ q.c.log_cb = "trampoline" =>
           q.c.opaque = n /\ i # 0 /\ cpp[i].log_cb_
  BY <1>2, ConfOfHandleIs
<1> HIDE DEF q
\* The configuration that is handed over.
<1>4. Taken(Conf, objs, c, q.c, o1) /\ Heap(q.m, o1, LiveIn(o1), 0)
  BY <1>0, <1>3, MallocTakes, PutNew
<1> HIDE DEF o1, c
<1>5. /\ o1 \in Seq(Conf) /\ LiveIn(o1) = LiveIn(objs) \cup {c}
      /\ c \notin LiveIn(objs) /\ o1[c] = q.c /\ c \in Nat \ {0}
      /\ \A d \in LiveIn(objs) : o1[d] = objs[d]
  BY <1>3, <1>4 DEF Taken
\* The handle that takes it over.
<1>6. NewDone(r, o1, c)
  BY <1>0, <1>4, <1>5, NewHeap
<1> HIDE DEF r
<1>7. r.sd # 0
  BY <1>3, <1>5, <1>6, NoNull DEF NewDone
<1>8. /\ objs' \in Seq(Conf) /\ Heap(mem', objs', LiveIn(objs'), 0)
      /\ LiveIn(objs') = (LiveIn(o1) \ {c}) \cup {r.sd}
      /\ \A d \in LiveIn(o1) \ {c} : objs'[d] = o1[d]
      /\ r.sd \notin LiveIn(o1)
      /\ objs'[r.sd].kind = "handle"
      /\ objs'[r.sd].log_cb = q.c.log_cb /\ objs'[r.sd].opaque = q.c.opaque
  <2>1. {r.sd} \ {0} = {r.sd} /\ c # 0
    BY <1>5, <1>7
  <2> QED
    BY <1>1, <1>5, <1>6, <1>7, <2>1 DEF NewDone
<1>9. /\ LiveIn(objs') = LiveIn(objs) \cup {r.sd} /\ r.sd \notin LiveIn(objs)
      /\ \A d \in LiveIn(objs) : objs'[d] = objs[d]
  <2>1. LiveIn(o1) \ {c} = LiveIn(objs)
    BY <1>5
  <2> QED
    BY <1>5, <1>8, <2>1
<1>10. r.sd \in Nat
  BY <1>8, LenProperties DEF LiveIn
<1>11. (i # 0 /\ cpp[i].log_cb_ \in BOOLEAN) \/ i = 0
  <2>1. CASE i # 0
    <3>1. i \in DOMAIN cpp
      BY <2>1 DEF ConfImpls
    <3>2. cpp[i] \in Impl
      BY <1>0, <3>1, ElementOfSeq, LenProperties
    <3> QED
      BY <2>1, <3>2 DEF Impl
  <2> QED
    BY <2>1
<1>12. y \in Impl /\ y.st = "live" /\ y.ptr = r.sd /\ y.kind = "handle"
  <2> DEFINE log == i # 0 /\ cpp[i].log_cb_
  <2>1. log \in BOOLEAN
    BY <1>11
  <2> HIDE DEF log
  <2>2. y = [st |-> "live", kind |-> "handle", ptr |-> r.sd, log_cb_ |-> log]
    BY DEF log
  <2> QED
    BY <2>1, <2>2, <1>10 DEF Impl
<1>13. objs'[r.sd].log_cb = "trampoline" =>
         objs'[r.sd].opaque = Place(cpp) /\ y.log_cb_
  BY <1>3, <1>8 DEF n
<1> HIDE DEF y
<1>14. Objects(objs', own, malloc(cpp, y))
  <2>1. objs'[r.sd].log_cb = "trampoline" =>
          y.kind = "handle" /\ objs'[r.sd].opaque = Place(cpp) /\ y.log_cb_
    BY <1>12, <1>13
  <2>2. y.kind = objs'[r.sd].kind
    BY <1>8, <1>12
  <2> QED
    BY <1>0, <1>8, <1>9, <1>12, <2>1, <2>2, OneMoreImpl
<1> QED
  BY <1>0, <1>1, <1>8, <1>14, AssembledCpp

-----------------------------------------------------------------------------
(***************************************************************************)
(* The theorems.                                                           *)
(***************************************************************************)
LEMMA NextIInv ==
  ASSUME IInv, [Next]_vars
  PROVE  IInv'
<1>1. CASE CNext
  <2>1. CASE \E args \in ArgLists : serdes_conf_new(args)
    BY <2>1, ConfNewStep
  <2>2. CASE \E c \in Confs, s \in Settings : ConfSet(c, s)
    BY <2>2, ConfSetStep
  <2>3. CASE \E c \in Confs : ConfSetCallbacks(c)
    BY <2>3, ConfSetCallbacksStep
  <2>4. CASE \E c \in Confs : serdes_conf_copy(c)
    BY <2>4, ConfCopyStep
  <2>5. CASE \E c \in own : Destroy(c)
    BY <2>5, DestroyStep
  <2>6. CASE \E c \in Confs \cup {0} : New(c)
    BY <2>6, NewStep
  <2> QED
    BY <1>1, <2>1, <2>2, <2>3, <2>4, <2>5, <2>6 DEF CNext
<1>2. CASE CppNext
  <2>1. CASE CppConfCreate
    BY <2>1, CppConfCreateStep
  <2>2. CASE \E i \in ConfImpls, s \in Settings : CppConfSet(i, s)
    BY <2>2, CppConfSetStep
  <2>3. CASE \E i \in ConfImpls : CppConfSetLogCb(i)
    BY <2>3, CppConfSetLogCbStep
  <2>4. CASE \E i \in ConfImpls \cup HandleImpls : CppDelete(i)
    BY <2>4, CppDeleteStep
  <2>5. CASE \E i \in ConfImpls \cup {0} : CppHandleCreate(i)
    BY <2>5, CppHandleCreateStep
  <2> QED
    BY <1>2, <2>1, <2>2, <2>3, <2>4, <2>5 DEF CppNext
<1>3. CASE UNCHANGED vars
  BY <1>3 DEF vars, IInv, Heap, Lists, Owned, Texts
<1> QED
  BY <1>1, <1>2, <1>3 DEF Next

\* In every state the URL lists are where the objects say, each with what its
\* text lists, and the C++ objects hold what is there.
THEOREM Inductive == Spec => []IInv
<1>1. Init => IInv
  BY InitIInv
<1>2. IInv /\ [Next]_vars => IInv'
  BY NextIInv
<1> QED
  BY <1>1, <1>2, PTL DEF Spec

\* The variables always have their types.
THEOREM TypeCorrect == Spec => []TypeOK
<1>1. IInv => TypeOK
  BY DEF IInv, Objects, LiveIn, Heap, Lists, TypeOK
<1> QED
  BY <1>1, Inductive, PTL

\* Through all sets, copies, hand-overs and destroys of both APIs, no URL list
\* leaks, is shared or is freed twice.
THEOREM ListsHaveOwners == Spec => []ListsOwned
<1>1. ASSUME IInv PROVE ListsOwned
  <2>1. Live = LiveIn(objs)
    BY DEF Live, LiveIn
  <2>2. Owned(mem, objs, LiveIn(objs), 0)
    BY <1>1 DEF IInv, Heap
  <2>3. \A c \in Live : objs[c].list # 0 => mem[objs[c].list].st = "live"
    BY <2>1, <2>2 DEF Owned, LiveIn
  <2>4. \A c, d \in Live : objs[c].list = objs[d].list /\ objs[c].list # 0 => c = d
    BY <2>1, <2>2 DEF Owned
  <2>5. \A l \in DOMAIN mem : mem[l].st # "corrupt"
    BY <2>2 DEF Owned
  <2>6. 0 \notin LiveIn(mem)
    BY <1>1, LenProperties DEF IInv, Heap, Lists, LiveIn
  <2>7. \A l \in LiveIn(mem) : \E c \in Live : objs[c].list = l
    BY <2>1, <2>2, <2>6 DEF Owned
  <2>8. \A l \in DOMAIN mem : mem[l].st = "live" => \E c \in Live : objs[c].list = l
    BY <2>7 DEF LiveIn
  <2> QED
    BY <2>3, <2>4, <2>5, <2>8 DEF ListsOwned
<1> QED
  BY <1>1, Inductive, PTL

\* The list of an object that is there.
LEMMA ListIsGood ==
  ASSUME IInv, NEW c \in Live, objs[c].list # 0
  PROVE  LET l == mem[objs[c].list]
         IN  l.str \in Texts /\ GoodList(l) /\ l \in List
<1>1. Live = LiveIn(objs)
  BY DEF Live, LiveIn
<1>2. objs[c].list \in LiveIn(mem)
  BY <1>1 DEF IInv, Heap, Owned
<1> DEFINE k == objs[c].list
<1>3. k \in LiveIn(mem) /\ mem \in Seq(List)
  BY <1>2 DEF IInv, Heap, Lists
<1>4. mem[k].str \in Texts /\ mem[k] = url_list_parse(mem[k].str)
  <2>1. k \in DOMAIN mem /\ mem[k].st = "live"
    BY <1>3 DEF LiveIn
  <2>2. PICK t \in Texts : mem[k] = url_list_parse(t)
    BY <2>1 DEF IInv, Heap, Lists
  <2>3. t \in Seq(Symbols)
    BY TextsAre DEF IInv
  <2>4. url_list_parse(t).str = t
    BY <2>3, ParseIsGood
  <2> QED
    BY <2>2, <2>4
<1>5. mem[k].str \in Seq(Symbols)
  BY <1>4, TextsAre DEF IInv
<1> HIDE DEF k
<1>6. GoodList(url_list_parse(mem[k].str)) /\ url_list_parse(mem[k].str) \in List
  BY <1>5, ParseIsGood
<1>7. GoodList(mem[k]) /\ mem[k] \in List
  BY <1>4, <1>6
<1> QED
  BY <1>4, <1>7 DEF k

\* Every object has exactly the URLs that its text lists, also after copies.
THEOREM UrlsAreOfText == Spec => []UrlsOfText
<1>1. ASSUME IInv PROVE UrlsOfText
  <2> SUFFICES ASSUME NEW c \in Live, objs[c].list # 0
               PROVE  LET l == mem[objs[c].list]
                          e == Elements(l.str)
                      IN  /\ l.str \in {app.url, <<>>}
                          /\ Len(l.urls) = Len(e)
                          /\ \A i \in DOMAIN e : Encoded(e[i], l.urls[i])
    BY DEF UrlsOfText, Encoded
  <2> QED
    BY <1>1, ListIsGood DEF GoodList, Texts
<1> QED
  BY <1>1, Inductive, PTL

\* The buffer of rest_req has room for the part that it copies of each URL,
\* for every text, user, password and number of URLs.
THEOREM BufferFits == Spec => []TmpUrlFits
<1>1. ASSUME IInv PROVE TmpUrlFits
  BY <1>1, ListIsGood DEF GoodList, TmpUrlFits
<1> QED
  BY <1>1, Inductive, PTL

\* A handle logs to the HandleImpl that it belongs to.
THEOREM LogHasOwner == Spec => []LogReachesOwner
<1>1. ASSUME IInv PROVE LogReachesOwner
  <2> SUFFICES ASSUME NEW h \in Live, objs[h].kind = "handle",
                      objs[h].log_cb = "trampoline"
               PROVE  /\ objs[h].opaque \in HandleImpls
                      /\ cpp[objs[h].opaque].ptr = h
                      /\ cpp[objs[h].opaque].log_cb_
    BY DEF LogReachesOwner, serdes_log
  <2>1. h \in LiveIn(objs)
    BY DEF Live, LiveIn
  <2>2. Answered(objs, cpp, h)
    BY <1>1, <2>1 DEF IInv, Objects
  <2> QED
    BY <2>2 DEF Answered, HandleImpls, LiveIn
<1> QED
  BY <1>1, Inductive, PTL
====
