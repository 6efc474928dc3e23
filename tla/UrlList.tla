------------------------------ MODULE UrlList ------------------------------
(***************************************************************************)
(* The list of registry URLs (url_list_t of rest.h) and how it is made     *)
(* from the value of schema.registry.url: url_encode, url_list_parse and   *)
(* the bytes of it that rest_req copies into its buffer.                   *)
(*                                                                         *)
(* A text is a sequence of symbols.  A symbol is one character, but for    *)
(* the prefix "http://", which url_encode treats as one and which may only *)
(* begin a URL, and "%xx", which stands for every escaped character.  The  *)
(* character "a" stands for all those that need no escape.                 *)
(***************************************************************************)
EXTENDS Integers, Sequences, FiniteSets

Proto   == "http://"
Blank   == " "
Chars   == {"a", ":", "@", "/", ",", Blank}
Symbols == Chars \cup {Proto, "%xx"}

Width(ch) == IF ch = Proto THEN 7 ELSE IF ch = "%xx" THEN 3 ELSE 1

\* strlen
strlen(s) ==
  LET sum[i \in 0 .. Len(s)] == IF i = 0 THEN 0 ELSE sum[i-1] + Width(s[i])
  IN  sum[Len(s)]

\* The first place of ch in s from place i on, or the place after the end.
strchr(s, ch, i) ==
  LET at == {j \in i .. Len(s) : s[j] = ch}
  IN  IF at = {} THEN Len(s) + 1 ELSE CHOOSE j \in at : \A k \in at : j <= k

\* Mutant: blanks are taken for a part of the URL.
KeepBlanks(s, i) == i

\* The first place from i on that is no blank.
SkipBlanks(s, i) ==
  CHOOSE j \in i .. Len(s) + 1 :
    /\ \A k \in i .. j - 1 : s[k] = Blank
    /\ j <= Len(s) => s[j] # Blank

\* curl_easy_escape, of libcurl.
curl_easy_escape(s) ==
  [i \in DOMAIN s |-> IF s[i] = "a" THEN "a" ELSE "%xx"]

\* Where user and password are: the places of the ":" and of the "@", if the
\* URL, behind the prefix, has a ":" before an "@"; else 0 and 0.
Auth(s) ==
  LET from == IF s # <<>> /\ s[1] = Proto THEN 2 ELSE 1
      t1   == strchr(s, ":", from)
      t2   == strchr(s, "@", from)
      has  == t2 <= Len(s) /\ t1 < t2
  IN  [from |-> from, t1 |-> IF has THEN t1 ELSE 0, t2 |-> IF has THEN t2 ELSE 0]

\* Escape user and password, each on its own.
url_encode(s) ==
  LET a == Auth(s)
  IN  IF a.t2 = 0 THEN s
      ELSE SubSeq(s, 1, a.from - 1)
           \o curl_easy_escape(SubSeq(s, a.from, a.t1 - 1)) \o <<":">>
           \o curl_easy_escape(SubSeq(s, a.t1 + 1, a.t2 - 1)) \o <<"@">>
           \o SubSeq(s, a.t2 + 1, Len(s))

\* The loop of url_list_parse: the pieces of the text that become URLs.
Pieces(str) ==
  LET from[i \in 1 .. Len(str) + 1] ==
        IF i > Len(str) THEN <<>>
        ELSE LET s == SkipBlanks(str, i)
                 t == strchr(str, ",", s)
             IN  <<SubSeq(str, s, t - 1)>>
                   \o from[IF t <= Len(str) THEN t + 1 ELSE t]
  IN  from[1]

\* The longest URL's length (mutant: taken before the URL is encoded).
Longest(lens) == CHOOSE n \in lens \cup {0} : \A m \in lens \cup {0} : m <= n
MaxLenOfPieces(pieces) == Longest({strlen(pieces[i]) : i \in DOMAIN pieces})
MaxLen(pieces) == Longest({strlen(url_encode(pieces[i])) : i \in DOMAIN pieces})

\* A list is one allocation here: url_list_clear frees all its parts.
url_list_parse(str) ==
  LET pieces == Pieces(str)
  IN  [st |-> "live", str |-> str, max_len |-> MaxLen(pieces),
       urls |-> [i \in DOMAIN pieces |-> url_encode(pieces[i])]]

\* How much of a URL rest_req copies: not the slashes at its end, nor those of
\* a prefix that nothing follows.
url_len(url) ==
  LET n == CHOOSE n \in 0 .. Len(url) :
             /\ \A i \in n + 1 .. Len(url) : url[i] = "/"
             /\ n > 0 => url[n] # "/"
  IN  strlen(SubSeq(url, 1, n)) - (IF n > 0 /\ url[n] = Proto THEN 2 ELSE 0)
-----------------------------------------------------------------------------
(***************************************************************************)
(* Reference definitions.                                                  *)
(***************************************************************************)

\* What is between two neighbouring commas, the ends of the text counting as
\* commas (an end after a comma not once more), without leading blanks.
Elements(str) ==
  LET s      == IF str # <<>> /\ str[Len(str)] = "," THEN str ELSE Append(str, ",")
      comma  == {i \in DOMAIN s : s[i] = ","}
      Nth(n) == CHOOSE i \in comma : Cardinality({j \in comma : j < i}) = n - 1
      Begin(n) == IF n = 1 THEN 1 ELSE Nth(n - 1) + 1
      Blanks(n) == {i \in Begin(n) .. Nth(n) - 1 :
                      \A j \in Begin(n) .. i : s[j] = Blank}
  IN  IF str = <<>> THEN <<>>
      ELSE [n \in 1 .. Cardinality(comma) |->
              SubSeq(s, Begin(n) + Cardinality(Blanks(n)), Nth(n) - 1)]
=============================================================================
