-------------------------- MODULE RequestTextProofs --------------------------
(***************************************************************************)
(* What parse_request_line() accepts and what parse_headers() leaves in a  *)
(* connection, for lines of any length and any number of them.             *)
(***************************************************************************)
EXTENDS RequestText, HttpConnProofs

\* First() finds the first token of the set, if there is one.
FirstOf(s, K, k) ==
    \/ k = 0 /\ \A i \in 1..Len(s) : s[i] \notin K
    \/ k \in 1..Len(s) /\ s[k] \in K /\ \A i \in 1..(k - 1) : s[i] \notin K

LEMMA FirstIsLeast ==
    ASSUME NEW T, NEW s \in Seq(T), NEW K
    PROVE  FirstOf(s, K, First(s, K))
<1> DEFINE I == {i \in 1..Len(s) : s[i] \in K}
<1>0. Len(s) \in Nat
  OBVIOUS
<1>1. First(s, K) = IF I # {} THEN Min(I) ELSE 0
  BY DEF First, SelectInSeq
<1>2. CASE I = {}
  BY <1>1, <1>2 DEF FirstOf
<1>3. CASE I # {}
  <2>1. \E x \in I : \A y \in I : x <= y
    <3>1. I \in SUBSET Nat
      BY <1>0
    <3> HIDE DEF I
    <3> QED
      BY <1>3, <3>1, LeastNumber
  <2>2. Min(I) \in I /\ \A y \in I : Min(I) <= y
    <3> HIDE DEF I
    <3> QED
      BY <2>1 DEF Min
  <2>3. PICK k \in I : k = First(s, K) /\ \A y \in I : k <= y
    BY <1>1, <1>3, <2>2
  <2>4. \A i \in 1..(k - 1) : s[i] \notin K
    BY <1>0, <2>3
  <2> QED
    BY <2>3, <2>4 DEF FirstOf
<1> QED
  BY <1>2, <1>3

LEMMA OnlyFirst ==
    ASSUME NEW T, NEW s \in Seq(T), NEW K, NEW j, NEW k, FirstOf(s, K, j), FirstOf(s, K, k)
    PROVE  j = k
<1>0. Len(s) \in Nat
  OBVIOUS
<1>1. j # 0 <=> k # 0
  BY <1>0 DEF FirstOf
<1>2. CASE j # 0
  <2>1. j \in 1..Len(s) /\ k \in 1..Len(s)
    BY <1>1, <1>2 DEF FirstOf
  <2>2. ~(j < k) /\ ~(k < j)
    BY <1>0, <1>1, <1>2, <2>1 DEF FirstOf
  <2> QED
    BY <1>0, <2>1, <2>2
<1> QED
  BY <1>1, <1>2

\* A set of numbers up to n has a greatest one.
LEMMA GreatestNumber ==
    ASSUME NEW n \in Nat, NEW S \in SUBSET (1..n), S # {}
    PROVE  \E i \in S : \A j \in S : j <= i
<1> DEFINE R == {k \in Nat : \A j \in S : j <= k}
<1>1. n \in R
  OBVIOUS
<1>2. PICK k \in R : \A y \in R : k <= y
  <2>1. R \in SUBSET Nat /\ R # {}
    BY <1>1
  <2> HIDE DEF R
  <2> QED
    BY <2>1, LeastNumber
<1>3. ASSUME k \notin S PROVE FALSE
  <2>1. PICK x \in S : TRUE
    OBVIOUS
  <2>2. k >= 1 /\ k - 1 \in Nat
    BY <1>2, <2>1
  <2>3. \A j \in S : j <= k - 1
    BY <1>2, <1>3, <2>2
  <2> QED
    BY <1>2, <2>2, <2>3
<1> QED
  BY <1>2, <1>3

\* The tokens on either side of the k-th.
LEMMA AfterTokens ==
    ASSUME NEW T, NEW s \in Seq(T), NEW k \in 0..Len(s)
    PROVE  /\ After(s, k) \in Seq(T) /\ Len(After(s, k)) = Len(s) - k
           /\ \A i \in 1..(Len(s) - k) : After(s, k)[i] = s[k + i]
<1>1. Len(s) \in Nat /\ k \in Nat /\ k <= Len(s)
  OBVIOUS
<1> QED
  BY <1>1 DEF After

LEMMA BeforeTokens ==
    ASSUME NEW T, NEW s \in Seq(T), NEW k \in 1..Len(s)
    PROVE  /\ Before(s, k) \in Seq(T) /\ Len(Before(s, k)) = k - 1
           /\ \A i \in 1..(k - 1) : Before(s, k)[i] = s[i]
<1>1. Len(s) \in Nat /\ k \in Nat /\ k <= Len(s) /\ 1 <= k
  OBVIOUS
<1> QED
  BY <1>1 DEF Before

LEMMA OneToken ==
    ASSUME NEW T, NEW s \in Seq(T), NEW a
    PROVE  s = <<a>> <=> Len(s) = 1 /\ s[1] = a
<1>1. ASSUME Len(s) = 1, s[1] = a PROVE s = <<a>>
  <2>1. DOMAIN s = 1..1 /\ s = [i \in 1..1 |-> s[i]]
    BY <1>1
  <2> QED
    BY <1>1, <2>1
<1> QED
  BY <1>1

LEMMA TwoTokens ==
    ASSUME NEW T, NEW s \in Seq(T), NEW a, NEW b
    PROVE  s = <<a, b>> <=> Len(s) = 2 /\ s[1] = a /\ s[2] = b
<1>1. ASSUME Len(s) = 2, s[1] = a, s[2] = b PROVE s = <<a, b>>
  <2>1. DOMAIN s = 1..2 /\ s = [i \in 1..2 |-> s[i]]
    BY <1>1
  <2> QED
    BY <1>1, <2>1
<1> QED
  BY <1>1
-----------------------------------------------------------------------------
(* The URL. *)

\* A path, or http:// and a host up to a path.
IsUrl(w) ==
    /\ Len(w) >= 1
    /\ \/ w[1] = "PATH"
       \/ w[1] = "SCHEME" /\ \E i \in 2..Len(w) : w[i] \in Slashed

\* UrlOf() cuts such a word down to its path, and answers nothing for any other.
LEMMA UrlIsPath ==
    ASSUME NEW T, NEW w \in Seq(T)
    PROVE  /\ UrlOf(w) \in Seq(T)
           /\ UrlOf(w) # <<>> <=> IsUrl(w)
           /\ UrlOf(w) # <<>> => Head(UrlOf(w)) \in Slashed
<1>0. Len(w) \in Nat /\ (w # <<>> <=> Len(w) >= 1) /\ (w # <<>> => Head(w) = w[1])
  OBVIOUS
<1>1. CASE w # <<>> /\ Head(w) = "SCHEME"
  <2> DEFINE t == Tail(w)
             k == First(t, Slashed)
  <2>1. t \in Seq(T) /\ Len(t) = Len(w) - 1 /\ \A i \in 1..Len(t) : t[i] = w[i + 1]
    BY <1>1
  <2>2. FirstOf(t, Slashed, k)
    <3> HIDE DEF t
    <3> QED
      BY <2>1, FirstIsLeast
  <2>3. UrlOf(w) = IF k = 0 THEN <<>> ELSE After(w, k)
    BY <1>1 DEF UrlOf
  <2> HIDE DEF t, k
  <2>4. IsUrl(w) <=> \E i \in 2..Len(w) : w[i] \in Slashed
    BY <1>0, <1>1 DEF IsUrl
  <2>5. CASE k = 0
    <3>1. \A i \in 2..Len(w) : i - 1 \in 1..Len(t) /\ w[i] = t[i - 1]
      BY <1>0, <2>1
    <3>2. \A i \in 2..Len(w) : w[i] \notin Slashed
      BY <2>2, <2>5, <3>1 DEF FirstOf
    <3> QED
      BY <2>3, <2>4, <2>5, <3>2
  <2>6. CASE k # 0
    <3>1. k \in 1..Len(t) /\ t[k] \in Slashed
      BY <2>2, <2>6 DEF FirstOf
    <3>2. k + 1 \in 2..Len(w) /\ w[k + 1] \in Slashed
      BY <1>0, <2>1, <3>1
    <3>3. UrlOf(w) = After(w, k)
      BY <2>3, <2>6
    <3>4. /\ After(w, k) \in Seq(T) /\ Len(After(w, k)) = Len(w) - k
          /\ After(w, k)[1] = w[k + 1]
      <4>1. k \in 0..Len(w) /\ 1 \in 1..(Len(w) - k)
        BY <1>0, <2>1, <3>1
      <4> QED
        BY <4>1, AfterTokens
    <3>5. After(w, k) # <<>> /\ Head(After(w, k)) = w[k + 1]
      BY <1>0, <2>1, <3>1, <3>4
    <3> QED
      BY <2>4, <3>2, <3>3, <3>4, <3>5
  <2> QED
    BY <2>5, <2>6
<1>2. CASE w # <<>> /\ Head(w) = "PATH"
  <2>1. UrlOf(w) = w
    BY <1>2 DEF UrlOf
  <2> QED
    BY <1>0, <1>2, <2>1 DEF IsUrl, Slashed
<1>3. CASE ~(w # <<>> /\ Head(w) \in {"SCHEME", "PATH"})
  <2>1. UrlOf(w) = <<>>
    BY <1>3 DEF UrlOf
  <2>2. ~IsUrl(w)
    BY <1>0, <1>3 DEF IsUrl
  <2> QED
    BY <2>1, <2>2
<1> QED
  BY <1>1, <1>2, <1>3
-----------------------------------------------------------------------------
(* The request line. *)

\* The grammar, with the two blanks at 2 and u + 1.
GetLine(s, u) ==
    /\ u = Len(s) - 2 /\ u >= 3
    /\ s[1] = "GET" /\ s[2] = "SP" /\ s[u + 1] = "SP" /\ s[u + 2] = "HTTP/1.1"
    /\ \A i \in 3..u : s[i] # "SP"
    /\ \/ s[3] = "PATH"
       \/ s[3] = "SCHEME" /\ \E i \in 4..u : s[i] \in Slashed

LEMMA Grammar ==
    ASSUME NEW T, NEW s \in Seq(T)
    PROVE  IsRequestLine(s) <=> GetLine(s, Len(s) - 2)
<1>0. Len(s) \in Nat
  OBVIOUS
<1>1. ASSUME NEW u \in 3..(Len(s) - 2)
      PROVE  /\ SubSeq(s, 1, 2) = <<"GET", "SP">> <=> s[1] = "GET" /\ s[2] = "SP"
             /\ SubSeq(s, u + 1, Len(s)) = <<"SP", "HTTP/1.1">>
                  <=> u = Len(s) - 2 /\ s[u + 1] = "SP" /\ s[u + 2] = "HTTP/1.1"
  <2> DEFINE a == SubSeq(s, 1, 2)
             b == SubSeq(s, u + 1, Len(s))
  <2>1. u \in Nat /\ 3 <= u /\ u <= Len(s) - 2
    BY <1>0
  <2>2. a \in Seq(T) /\ Len(a) = 2 /\ a[1] = s[1] /\ a[2] = s[2]
    BY <1>0, <2>1
  <2>3. b \in Seq(T) /\ Len(b) = Len(s) - u /\ b[1] = s[u + 1] /\ b[2] = s[u + 2]
    <3>1. b = After(s, u)
      BY DEF After
    <3>2. /\ After(s, u) \in Seq(T) /\ Len(After(s, u)) = Len(s) - u
          /\ \A i \in 1..(Len(s) - u) : After(s, u)[i] = s[u + i]
      <4>1. u \in 0..Len(s)
        BY <1>0, <2>1
      <4> QED
        BY <4>1, AfterTokens
    <3>3. 1 \in 1..(Len(s) - u) /\ 2 \in 1..(Len(s) - u)
      BY <1>0, <2>1
    <3>4. After(s, u)[1] = s[u + 1] /\ After(s, u)[2] = s[u + 2]
      BY <3>2, <3>3
    <3> QED
      BY <3>1, <3>2, <3>4
  <2> HIDE DEF a, b
  <2>4. a = <<"GET", "SP">> <=> s[1] = "GET" /\ s[2] = "SP"
    BY <2>2, TwoTokens
  <2>5. b = <<"SP", "HTTP/1.1">>
          <=> Len(b) = 2 /\ s[u + 1] = "SP" /\ s[u + 2] = "HTTP/1.1"
    <3>1. b \in Seq(T)
      BY <2>3
    <3>2. b = <<"SP", "HTTP/1.1">> <=> Len(b) = 2 /\ b[1] = "SP" /\ b[2] = "HTTP/1.1"
      BY <3>1, TwoTokens
    <3> QED
      BY <2>3, <3>2
  <2>6. Len(b) = 2 <=> u = Len(s) - 2
    BY <1>0, <2>1, <2>3
  <2> QED
    BY <2>4, <2>5, <2>6 DEF a, b
<1>2. ASSUME IsRequestLine(s) PROVE GetLine(s, Len(s) - 2)
  <2>1. PICK u \in 3..(Len(s) - 2) :
          /\ SubSeq(s, 1, 2) = <<"GET", "SP">>
          /\ SubSeq(s, u + 1, Len(s)) = <<"SP", "HTTP/1.1">>
          /\ \A i \in 3..u : s[i] # "SP"
          /\ \/ s[3] = "PATH"
             \/ s[3] = "SCHEME" /\ \E i \in 4..u : s[i] \in Slashed
    BY <1>2 DEF IsRequestLine
  <2>2. u = Len(s) - 2
    BY <1>1, <2>1
  <2>3. GetLine(s, u)
    BY <1>0, <1>1, <2>1 DEF GetLine
  <2> QED
    BY <2>2, <2>3
<1>3. ASSUME GetLine(s, Len(s) - 2) PROVE IsRequestLine(s)
  <2> DEFINE v == Len(s) - 2
  <2>0. v \in Int /\ v >= 3
    BY <1>0, <1>3 DEF GetLine
  <2> HIDE DEF v
  <2>1. PICK u \in 3..v : u = v /\ GetLine(s, u)
    BY <1>3, <2>0 DEF v
  <2> QED
    BY <1>1, <2>1 DEF GetLine, IsRequestLine
<1> QED
  BY <1>2, <1>3

\* The second half of the line, once the first blank is found: the url and the version.
LEMMA SplitRest ==
    ASSUME NEW T, NEW rest \in Seq(T), NEW sep, FirstOf(rest, {"SP"}, sep)
    PROVE  (/\ sep # 0
            /\ After(rest, sep) = <<"HTTP/1.1">>
            /\ UrlOf(Before(rest, sep)) # <<>>)
             <=> (LET v == Len(rest) - 1
                  IN  /\ v >= 2
                      /\ rest[v] = "SP" /\ rest[v + 1] = "HTTP/1.1"
                      /\ \A i \in 1..(v - 1) : rest[i] # "SP"
                      /\ \/ rest[1] = "PATH"
                         \/ rest[1] = "SCHEME" /\ \E i \in 2..(v - 1) : rest[i] \in Slashed)
<1>0. Len(rest) \in Nat
  OBVIOUS
<1> DEFINE v == Len(rest) - 1
<1>1. ASSUME sep # 0 PROVE sep \in 1..Len(rest) /\ rest[sep] = "SP"
                           /\ \A i \in 1..(sep - 1) : rest[i] # "SP"
  BY <1>1 DEF FirstOf
<1>2. ASSUME sep # 0
      PROVE  After(rest, sep) = <<"HTTP/1.1">> <=> sep = v /\ rest[v + 1] = "HTTP/1.1"
  <2>1. sep \in 0..Len(rest)
    BY <1>0, <1>1, <1>2
  <2>2. /\ After(rest, sep) \in Seq(T) /\ Len(After(rest, sep)) = Len(rest) - sep
        /\ \A i \in 1..(Len(rest) - sep) : After(rest, sep)[i] = rest[sep + i]
    BY <2>1, AfterTokens
  <2>3. After(rest, sep) = <<"HTTP/1.1">>
          <=> Len(After(rest, sep)) = 1 /\ After(rest, sep)[1] = "HTTP/1.1"
    BY <2>2, OneToken
  <2>4. Len(rest) - sep = 1 <=> sep = v
    BY <1>0, <2>1
  <2>5. sep = v => 1 \in 1..(Len(rest) - sep) /\ sep + 1 = v + 1
    BY <1>0, <2>1
  <2>6. sep = v => After(rest, sep)[1] = rest[v + 1]
    BY <2>2, <2>5
  <2> QED
    BY <2>2, <2>3, <2>4, <2>6
<1>3. ASSUME sep # 0
      PROVE  UrlOf(Before(rest, sep)) # <<>> <=>
               /\ sep >= 2
               /\ \/ rest[1] = "PATH"
                  \/ rest[1] = "SCHEME" /\ \E i \in 2..(sep - 1) : rest[i] \in Slashed
  <2> DEFINE w == Before(rest, sep)
  <2>1. sep \in 1..Len(rest) /\ sep \in Nat
    BY <1>0, <1>1, <1>3
  <2>2. w \in Seq(T) /\ Len(w) = sep - 1 /\ \A i \in 1..(sep - 1) : w[i] = rest[i]
    BY <2>1, BeforeTokens
  <2> HIDE DEF w
  <2>3. UrlOf(w) # <<>> <=> IsUrl(w)
    BY <2>2, UrlIsPath
  <2>4. IsUrl(w) <=> /\ sep >= 2
                     /\ \/ w[1] = "PATH"
                        \/ w[1] = "SCHEME" /\ \E i \in 2..(sep - 1) : w[i] \in Slashed
    BY <2>1, <2>2 DEF IsUrl
  <2>5. sep >= 2 => w[1] = rest[1]
    BY <2>1, <2>2
  <2>6. \A i \in 2..(sep - 1) : w[i] = rest[i]
    BY <2>1, <2>2
  <2> QED
    BY <2>3, <2>4, <2>5, <2>6 DEF w
<1>4. ASSUME sep # 0, sep = v PROVE v \in Nat
  BY <1>0, <1>1, <1>4
<1>5. ASSUME v >= 2, rest[v] = "SP", \A i \in 1..(v - 1) : rest[i] # "SP"
      PROVE  sep = v
  <2>1. v \in 1..Len(rest)
    BY <1>0, <1>5
  <2>2. FirstOf(rest, {"SP"}, v)
    BY <1>5, <2>1 DEF FirstOf
  <2> HIDE DEF v
  <2> QED
    BY <2>2, OnlyFirst
<1>6. v \in Int /\ (v >= 2 => v # 0)
  <2>1. PICK n \in Nat : n = Len(rest)
    BY <1>0
  <2> QED
    BY <2>1
<1> HIDE DEF v
<1>7. (/\ sep # 0 /\ After(rest, sep) = <<"HTTP/1.1">> /\ UrlOf(Before(rest, sep)) # <<>>)
        <=> (/\ v >= 2 /\ rest[v] = "SP" /\ rest[v + 1] = "HTTP/1.1"
             /\ \A i \in 1..(v - 1) : rest[i] # "SP"
             /\ \/ rest[1] = "PATH"
                \/ rest[1] = "SCHEME" /\ \E i \in 2..(v - 1) : rest[i] \in Slashed)
  BY <1>1, <1>2, <1>3, <1>5, <1>6
<1> QED
  BY <1>7 DEF v

\* The condition under which UrlAndVersion() goes on.
Accepted(s, sep) ==
    /\ sep # 0
    /\ Before(s, sep) = <<"GET">>
    /\ First(After(s, sep), {"SP"}) # 0
    /\ After(After(s, sep), First(After(s, sep), {"SP"})) = <<"HTTP/1.1">>
    /\ UrlOf(Before(After(s, sep), First(After(s, sep), {"SP"}))) # <<>>

LEMMA AcceptedLines ==
    ASSUME NEW T, NEW s \in Seq(T), NEW sep, FirstOf(s, {"SP"}, sep)
    PROVE  Accepted(s, sep) <=> IsRequestLine(s)
<1> DEFINE u == Len(s) - 2
           rest == After(s, 2)
           v == Len(rest) - 1
<1>0. PICK n \in Nat : n = Len(s)
  OBVIOUS
<1>1. ASSUME sep # 0
      PROVE  Before(s, sep) = <<"GET">> <=> sep = 2 /\ s[1] = "GET"
  <2>1. sep \in 1..Len(s) /\ sep \in Nat
    BY <1>0, <1>1 DEF FirstOf
  <2>2. /\ Before(s, sep) \in Seq(T) /\ Len(Before(s, sep)) = sep - 1
        /\ \A i \in 1..(sep - 1) : Before(s, sep)[i] = s[i]
    BY <2>1, BeforeTokens
  <2>3. Before(s, sep) = <<"GET">>
          <=> Len(Before(s, sep)) = 1 /\ Before(s, sep)[1] = "GET"
    BY <2>2, OneToken
  <2>4. sep - 1 = 1 <=> sep = 2
    BY <2>1
  <2>5. sep = 2 => Before(s, sep)[1] = s[1]
    BY <2>2
  <2> QED
    BY <2>2, <2>3, <2>4, <2>5
<1>2. ASSUME Len(s) >= 2
      PROVE  /\ rest \in Seq(T) /\ Len(rest) = n - 2
             /\ \A i \in 1..(n - 2) : rest[i] = s[2 + i]
  <2>1. 2 \in 0..Len(s)
    BY <1>0, <1>2
  <2> QED
    BY <1>0, <2>1, AfterTokens
<1>3. ASSUME Len(s) >= 2, s[1] = "GET", s[2] = "SP"
      PROVE  sep = 2
  <2>1. FirstOf(s, {"SP"}, 2)
    BY <1>0, <1>3 DEF FirstOf
  <2> QED
    BY <2>1, OnlyFirst
<1>4. ASSUME Len(s) >= 2, sep = 2, s[1] = "GET"
      PROVE  Accepted(s, sep) <=> GetLine(s, u)
  <2>1. FirstOf(rest, {"SP"}, First(rest, {"SP"}))
    BY <1>2, <1>4, FirstIsLeast
  <2>2. s[2] = "SP"
    BY <1>4 DEF FirstOf
  <2>3. Accepted(s, sep) <=> /\ First(rest, {"SP"}) # 0
                             /\ After(rest, First(rest, {"SP"})) = <<"HTTP/1.1">>
                             /\ UrlOf(Before(rest, First(rest, {"SP"}))) # <<>>
    BY <1>1, <1>4 DEF Accepted
  <2>4. Accepted(s, sep)
          <=> (/\ v >= 2
               /\ rest[v] = "SP" /\ rest[v + 1] = "HTTP/1.1"
               /\ \A i \in 1..(v - 1) : rest[i] # "SP"
               /\ \/ rest[1] = "PATH"
                  \/ rest[1] = "SCHEME" /\ \E i \in 2..(v - 1) : rest[i] \in Slashed)
    <3>1. rest \in Seq(T)
      BY <1>2, <1>4
    <3> HIDE DEF rest
    <3> QED
      BY <2>1, <2>3, <3>1, SplitRest
  <2>5. n >= 2 /\ u = n - 2 /\ v = n - 3
    BY <1>0, <1>2, <1>4
  <2>6. \A i \in 1..(n - 2) : rest[i] = s[2 + i]
    BY <1>2, <1>4
  <2> HIDE DEF rest, u, v
  <2>7. CASE n < 5
    <3>1. ~(v >= 2) /\ ~(u >= 3)
      BY <2>5, <2>7
    <3> QED
      BY <2>4, <3>1 DEF GetLine
  <2>8. CASE n >= 5
    <3>1. v >= 2 /\ u >= 3 /\ u = Len(s) - 2
      BY <1>0, <2>5, <2>8
    <3>2. rest[v] = s[u + 1] /\ rest[v + 1] = s[u + 2] /\ rest[1] = s[3]
      <4>1. v \in 1..(n - 2) /\ v + 1 \in 1..(n - 2) /\ 1 \in 1..(n - 2)
        BY <2>5, <2>8
      <4>2. 2 + v = u + 1 /\ 2 + (v + 1) = u + 2 /\ 2 + 1 = 3
        BY <2>5
      <4>3. rest[v] = s[2 + v] /\ rest[v + 1] = s[2 + (v + 1)] /\ rest[1] = s[2 + 1]
        BY <2>6, <4>1
      <4> QED
        BY <4>2, <4>3
    <3>3. \A i \in 1..(v - 1) : rest[i] = s[2 + i] /\ 2 + i \in 3..u
      BY <2>5, <2>6, <2>8
    <3>4. \A i \in 3..u : s[i] = rest[i - 2] /\ i - 2 \in 1..(v - 1)
      BY <2>5, <2>6, <2>8
    <3>5. (\A i \in 1..(v - 1) : rest[i] # "SP") <=> \A i \in 3..u : s[i] # "SP"
      BY <3>3, <3>4
    <3>6. (\E i \in 2..(v - 1) : rest[i] \in Slashed) <=> \E i \in 4..u : s[i] \in Slashed
      <4>1. \A i \in 2..(v - 1) : rest[i] = s[2 + i] /\ 2 + i \in 4..u
        BY <2>5, <2>6, <2>8
      <4>2. \A i \in 4..u : s[i] = rest[i - 2] /\ i - 2 \in 2..(v - 1)
        BY <2>5, <2>6, <2>8
      <4> QED
        BY <4>1, <4>2
    <3> QED
      BY <1>4, <2>2, <2>4, <3>1, <3>2, <3>5, <3>6 DEF GetLine
  <2> QED
    BY <2>7, <2>8
<1>5. Accepted(s, sep) => Len(s) >= 2 /\ sep = 2 /\ s[1] = "GET"
  <2>1. Accepted(s, sep) => sep = 2 /\ s[1] = "GET"
    BY <1>1 DEF Accepted
  <2> QED
    BY <1>0, <2>1 DEF FirstOf
<1>6. GetLine(s, u) => Len(s) >= 2 /\ sep = 2 /\ s[1] = "GET"
  <2>1. GetLine(s, u) => Len(s) >= 2 /\ s[1] = "GET" /\ s[2] = "SP"
    BY <1>0 DEF GetLine
  <2> QED
    BY <1>3, <2>1
<1>7. Accepted(s, sep) <=> GetLine(s, u)
  BY <1>4, <1>5, <1>6
<1> QED
  BY <1>7, Grammar
-----------------------------------------------------------------------------
(* The two parsers on a connection. *)

\* What m_content_length may hold, and the connections of RequestText.
Lengths == Leftover \cup {0} \cup {Numbers[t] : t \in DOMAIN Numbers}
TextConns ==
    [m_check_state : {"REQUESTLINE", "HEADER", "CONTENT"}, m_checked_index : {0},
     m_start_line : {0}, m_read_buf : {<<>>}, m_url : Seq(LineTokens), m_linger : BOOLEAN,
     m_content_length : Lengths]

\* A connection after init(), which found g in m_content_length.
IsNew(c, g) ==
    /\ c \in TextConns /\ c.m_check_state = "REQUESTLINE"
    /\ c.m_linger = FALSE /\ c.m_content_length = g

\* The first init() of a slot, and a later one.
LEMMA RawIsNew == ASSUME NEW g \in Lengths PROVE IsNew(RawConn(g), g)
<1>1. <<>> \in Seq(LineTokens)
  OBVIOUS
<1>2. PICK c : c = RawConn(g)
  OBVIOUS
<1>3. c = [m_check_state |-> "REQUESTLINE", m_checked_index |-> 0, m_start_line |-> 0,
           m_read_buf |-> <<>>, m_url |-> <<>>, m_linger |-> FALSE, m_content_length |-> g]
  BY <1>2 DEF RawConn, init
<1>4. IsNew(c, g)
  BY <1>1, <1>3 DEF IsNew, TextConns
<1> QED
  BY <1>2, <1>4

LEMMA InitIsNew == ASSUME NEW c \in TextConns PROVE IsNew(init(c), c.m_content_length)
<1>1. <<>> \in Seq(LineTokens)
  OBVIOUS
<1> QED
  BY <1>1 DEF init, IsNew, TextConns

\* What parse_request_line() answers for s according to the grammar.
ByGrammar(r, s, g) ==
    /\ r.conn \in TextConns
    /\ r.conn.m_linger = FALSE /\ r.conn.m_content_length = g
    /\ r.code \in {"FAULT", "BAD_REQUEST", "NO_REQUEST"}
    /\ r.conn.m_check_state = "HEADER" <=> IsRequestLine(s)
    /\ r.code = "FAULT" <=> \A i \in DOMAIN s : s[i] # "SP"
    /\ r.code = "NO_REQUEST" => Head(r.conn.m_url) \in Slashed

LEMMA LineParsed ==
    ASSUME NEW s \in Seq(LineTokens), NEW c, NEW g, IsNew(c, g),
           NEW r, r = parse_request_line(c, s)
    PROVE  ByGrammar(r, s, g)
<1> DEFINE sep == First(s, {"SP"})
           rest == After(s, sep)
           sep2 == First(rest, {"SP"})
           url == UrlOf(Before(rest, sep2))
<1>0. DOMAIN s = 1..Len(s) /\ Len(s) \in Nat
  OBVIOUS
<1>1. FirstOf(s, {"SP"}, sep)
  BY FirstIsLeast
<1>2. Accepted(s, sep) <=> IsRequestLine(s)
  <2> HIDE DEF sep
  <2> QED
    BY <1>1, AcceptedLines
<1>3. sep = 0 <=> \A i \in DOMAIN s : s[i] # "SP"
  BY <1>0, <1>1 DEF FirstOf
<1>4. CASE sep = 0
  <2>1. r = Answer(c, "FAULT")
    BY <1>4 DEF parse_request_line, SplitAt
  <2>2. r.conn = c /\ r.code = "FAULT"
    BY <2>1 DEF Answer
  <2>3. ~Accepted(s, sep)
    BY <1>4 DEF Accepted
  <2> QED
    BY <1>2, <1>3, <1>4, <2>2, <2>3 DEF IsNew, ByGrammar
<1>5. CASE sep # 0 /\ ~Accepted(s, sep)
  <2>1. r = UrlAndVersion(c, Before(s, sep), rest, sep2)
    BY <1>5 DEF parse_request_line, SplitAt
  <2>2. r = Answer(c, "BAD_REQUEST")
    BY <1>5, <2>1 DEF UrlAndVersion, Accepted
  <2>3. r.conn = c /\ r.code = "BAD_REQUEST"
    BY <2>2 DEF Answer
  <2> QED
    BY <1>2, <1>3, <1>5, <2>3 DEF IsNew, ByGrammar
<1>6. CASE Accepted(s, sep)
  <2>0. sep # 0 /\ sep2 # 0
    BY <1>6 DEF Accepted
  <2>1. r = UrlAndVersion(c, Before(s, sep), rest, sep2)
    BY <2>0 DEF parse_request_line, SplitAt
  <2>2. r = Answer([c EXCEPT !.m_url = url, !.m_check_state = "HEADER"], "NO_REQUEST")
    BY <1>6, <2>1 DEF UrlAndVersion, Accepted
  <2>3. url \in Seq(LineTokens) /\ Head(url) \in Slashed
    <3>1. sep \in 0..Len(s)
      BY <1>0, <1>1 DEF FirstOf
    <3>2. rest \in Seq(LineTokens)
      <4> HIDE DEF sep
      <4> QED
        BY <3>1, AfterTokens
    <3>3. FirstOf(rest, {"SP"}, sep2)
      <4> HIDE DEF rest
      <4> QED
        BY <3>2, FirstIsLeast
    <3>4. url # <<>>
      BY <1>6 DEF Accepted
    <3> HIDE DEF rest, sep2, url
    <3>5. sep2 \in 1..Len(rest)
      BY <2>0, <3>3 DEF FirstOf
    <3>6. Before(rest, sep2) \in Seq(LineTokens)
      BY <3>2, <3>5, BeforeTokens
    <3> QED
      BY <3>4, <3>6, UrlIsPath DEF url
  <2> HIDE DEF sep, url
  <2>4. /\ r.conn = [c EXCEPT !.m_url = url, !.m_check_state = "HEADER"]
        /\ r.code = "NO_REQUEST"
    BY <2>2 DEF Answer
  <2>5. c \in TextConns /\ c.m_linger = FALSE /\ c.m_content_length = g
    BY DEF IsNew
  <2>6. /\ r.conn \in TextConns /\ r.conn.m_url = url /\ r.conn.m_check_state = "HEADER"
        /\ r.conn.m_linger = c.m_linger /\ r.conn.m_content_length = c.m_content_length
    BY <2>3, <2>4, <2>5 DEF TextConns
  <2> QED
    BY <1>2, <1>3, <1>6, <2>0, <2>3, <2>4, <2>5, <2>6 DEF ByGrammar
<1> QED
  BY <1>4, <1>5, <1>6

\* What a header line says about the two fields that are kept.
KeepsAlive(line) ==
    line # <<>> /\ Head(line) = "Connection:" /\ SkipBlanks(Tail(line)) = <<"keep-alive">>
HasLength(line) == line # <<>> /\ Head(line) = "Content-Length:"

LEMMA HeaderParsed ==
    ASSUME NEW c \in TextConns, NEW line, NEW r, r = parse_headers(c, line)
    PROVE  /\ r.conn \in TextConns
           /\ r.conn.m_linger <=> c.m_linger \/ KeepsAlive(line)
           /\ r.conn.m_content_length = IF HasLength(line) THEN atol(SkipBlanks(Tail(line)))
                                        ELSE c.m_content_length
           /\ line = <<>> => ((r.code = "GET_REQUEST") <=> (c.m_content_length = 0))
           /\ r.code # "none"
<1> DEFINE value == SkipBlanks(Tail(line))
<1>1. CASE line = <<>>
  BY <1>1 DEF parse_headers, Answer, KeepsAlive, HasLength, TextConns
<1>2. CASE line # <<>>
  <2>1. r.conn = Header(c, Head(line), value) /\ r.code = "NO_REQUEST"
    BY <1>2 DEF parse_headers, Answer
  <2>2. atol(value) \in Lengths
    BY DEF atol, Lengths
  <2> HIDE DEF value
  <2>3. CASE Head(line) = "Connection:"
    <3> DEFINE b == c.m_linger \/ value = <<"keep-alive">>
    <3>1. r.conn = [c EXCEPT !.m_linger = b] /\ b \in BOOLEAN
      BY <2>1, <2>3 DEF Header, Linger
    <3>2. b <=> c.m_linger \/ KeepsAlive(line)
      BY <1>2, <2>3 DEF KeepsAlive, value
    <3>3. ~HasLength(line)
      BY <2>3 DEF HasLength
    <3> HIDE DEF b
    <3>4. /\ r.conn \in TextConns /\ r.conn.m_linger = b
          /\ r.conn.m_content_length = c.m_content_length
      BY <3>1 DEF TextConns
    <3> QED
      BY <1>2, <2>1, <3>2, <3>3, <3>4
  <2>4. CASE Head(line) = "Content-Length:"
    <3>1. r.conn = [c EXCEPT !.m_content_length = atol(value)]
      BY <2>1, <2>4 DEF Header
    <3>2. /\ r.conn \in TextConns /\ r.conn.m_linger = c.m_linger
          /\ r.conn.m_content_length = atol(value)
      BY <2>2, <3>1 DEF TextConns
    <3>3. HasLength(line) /\ ~KeepsAlive(line)
      BY <1>2, <2>4 DEF HasLength, KeepsAlive
    <3> QED
      BY <1>2, <2>1, <3>2, <3>3 DEF value
  <2>5. CASE Head(line) \notin {"Connection:", "Content-Length:"}
    <3>1. r.conn = c
      BY <2>1, <2>5 DEF Header
    <3>2. ~HasLength(line) /\ ~KeepsAlive(line)
      BY <2>5 DEF HasLength, KeepsAlive
    <3> QED
      BY <1>2, <2>1, <3>1, <3>2
  <2> QED
    BY <2>3, <2>4, <2>5
<1> QED
  BY <1>1, <1>2

\* LengthOf() of one line more.
LEMMA LengthOfAppend ==
    ASSUME NEW H, NEW h \in Seq(H), NEW line \in H, NEW before
    PROVE  LengthOf(Append(h, line), before) =
               IF HasLength(line) THEN atol(SkipBlanks(Tail(line))) ELSE LengthOf(h, before)
<1> DEFINE g == Append(h, line)
           n == Len(h)
           I == {i \in DOMAIN h : HasLength(h[i])}
           J == {i \in DOMAIN g : HasLength(g[i])}
           last(S) == CHOOSE i \in S : \A j \in S : j <= i
<1>0. n \in Nat /\ DOMAIN h = 1..n
  OBVIOUS
<1>1. /\ DOMAIN g = 1..(n + 1) /\ g[n + 1] = line
      /\ \A i \in 1..n : g[i] = h[i]
  BY <1>0
<1>2. /\ LengthOf(h, before) = IF I = {} THEN before ELSE atol(SkipBlanks(Tail(h[last(I)])))
      /\ LengthOf(g, before) = IF J = {} THEN before ELSE atol(SkipBlanks(Tail(g[last(J)])))
  BY DEF LengthOf, Announcing, HasLength
<1> HIDE DEF g
<1>3. CASE HasLength(line)
  <2>1. n + 1 \in J /\ \A j \in J : j <= n + 1
    BY <1>0, <1>1, <1>3
  <2>2. J \subseteq Int
    BY <1>0, <1>1
  <2> HIDE DEF J
  <2>3. last(J) = n + 1
    <3>1. \A i \in J : (\A j \in J : j <= i) => i = n + 1
      BY <1>0, <2>1, <2>2
    <3> QED
      BY <2>1, <3>1
  <2>4. J # {}
    BY <2>1
  <2> HIDE DEF last
  <2> QED
    BY <1>1, <1>2, <1>3, <2>3, <2>4 DEF g
<1>4. CASE ~HasLength(line)
  <2>1. J = I
    BY <1>0, <1>1, <1>4
  <2>2. ASSUME I # {} PROVE last(I) \in 1..n
    <3>0. I \in SUBSET Nat /\ I \subseteq 1..n
      BY <1>0
    <3>1. \E i \in I : \A j \in I : j <= i
      <4> HIDE DEF I
      <4> QED
        BY <1>0, <2>2, <3>0, GreatestNumber
    <3> HIDE DEF I
    <3>2. last(I) \in I
      BY <3>1
    <3> QED
      BY <3>0, <3>2
  <2> HIDE DEF I, J, last
  <2>3. I # {} => g[last(I)] = h[last(I)]
    BY <1>1, <2>2
  <2> QED
    BY <1>2, <1>4, <2>1, <2>3 DEF g
<1> QED
  BY <1>3, <1>4
-----------------------------------------------------------------------------
(* The invariant. *)

\* Before the line is parsed the connection is new.
TextOK ==
    /\ text \in Seq(LineTokens) /\ headers \in Seq(HeaderLines) /\ conn \in TextConns
    /\ code = "none" => IsNew(conn, left) /\ headers = <<>>

IInv == TextOK /\ RequestLineGrammar /\ HeaderFields

LEMMA NoHeaders == DOMAIN <<>> = {} /\ \A before : LengthOf(<<>>, before) = before
<1>1. DOMAIN <<>> = {}
  OBVIOUS
<1> QED
  BY <1>1 DEF LengthOf, Announcing

LEMMA InitInv == Init => IInv
<1> SUFFICES ASSUME Init PROVE IInv
  OBVIOUS
<1>0. PICK g \in Lengths : g = left
  BY DEF Init, Lengths
<1>1. conn = RawConn(g) /\ text = <<>> /\ headers = <<>> /\ code = "none"
  BY <1>0 DEF Init
<1>2. IsNew(conn, left)
  BY <1>0, <1>1, RawIsNew
<1>3. TextOK
  BY <1>1, <1>2 DEF IsNew, TextOK
<1>4. RequestLineGrammar
  BY <1>1 DEF RequestLineGrammar
<1>5. HeaderFields
  BY <1>1, <1>2, NoHeaders DEF IsNew, HeaderFields
<1> QED
  BY <1>3, <1>4, <1>5 DEF IInv

LEMMA TokenInv == ASSUME IInv, NEW t \in LineTokens, Token(t) PROVE IInv'
<1>1. TextOK'
  BY DEF IInv, TextOK, Token
<1>2. RequestLineGrammar'
  BY DEF Token, RequestLineGrammar
<1>3. HeaderFields'
  BY DEF IInv, Token, HeaderFields
<1> QED
  BY <1>1, <1>2, <1>3 DEF IInv

LEMMA RequestLineInv == ASSUME IInv, RequestLine PROVE IInv'
<1>0. /\ text \in Seq(LineTokens) /\ IsNew(conn, left) /\ headers = <<>>
      /\ text' = text /\ headers' = headers /\ left' = left
  BY DEF IInv, TextOK, RequestLine
<1>1. PICK r : r = parse_request_line(conn, text)
  OBVIOUS
<1>2. conn' = r.conn /\ code' = r.code
  BY <1>0, <1>1 DEF RequestLine
<1>3. ByGrammar(r, text, left)
  BY <1>0, <1>1, LineParsed, Zenon
<1>4. TextOK'
  BY <1>0, <1>2, <1>3 DEF IInv, TextOK, ByGrammar
<1>5. RequestLineGrammar'
  BY <1>0, <1>2, <1>3 DEF RequestLineGrammar, IsRequestLine, Slashed, ByGrammar
<1>6. HeaderFields'
  BY <1>0, <1>2, <1>3, NoHeaders DEF HeaderFields, ByGrammar
<1> QED
  BY <1>4, <1>5, <1>6 DEF IInv

LEMMA HeaderLineInv == ASSUME IInv, NEW line \in HeaderLines, HeaderLine(line) PROVE IInv'
<1>0. /\ text \in Seq(LineTokens) /\ headers \in Seq(HeaderLines) /\ conn \in TextConns
      /\ text' = text /\ headers' = Append(headers, line) /\ left' = left
  BY DEF IInv, TextOK, HeaderLine
<1>1. PICK r : r = parse_headers(conn, line)
  OBVIOUS
<1>2. conn' = r.conn /\ code' = r.code
  BY <1>1 DEF HeaderLine
<1>3. /\ r.conn \in TextConns
      /\ r.conn.m_linger <=> conn.m_linger \/ KeepsAlive(line)
      /\ r.conn.m_content_length = IF HasLength(line) THEN atol(SkipBlanks(Tail(line)))
                                   ELSE conn.m_content_length
      /\ line = <<>> => ((r.code = "GET_REQUEST") <=> (conn.m_content_length = 0))
      /\ r.code # "none"
  BY <1>0, <1>1, HeaderParsed
<1>4. /\ headers' \in Seq(HeaderLines) /\ headers' # <<>> /\ Last(headers') = line
      /\ Len(headers) \in Nat /\ DOMAIN headers = 1..Len(headers)
      /\ DOMAIN headers' = 1..(Len(headers) + 1) /\ headers'[Len(headers) + 1] = line
      /\ \A i \in 1..Len(headers) : headers'[i] = headers[i]
  BY <1>0 DEF Last
<1>5. TextOK'
  BY <1>0, <1>2, <1>3, <1>4 DEF TextOK
<1>6. RequestLineGrammar'
  BY <1>4 DEF RequestLineGrammar
<1>7. conn.m_linger <=> \E i \in DOMAIN headers : KeepsAlive(headers[i])
  BY DEF IInv, HeaderFields, KeepsAlive
<1>8. conn'.m_linger <=> \E i \in DOMAIN headers' : KeepsAlive(headers'[i])
  BY <1>2, <1>3, <1>4, <1>7
<1>9. conn'.m_content_length = LengthOf(headers', left)
  <2>1. conn.m_content_length = LengthOf(headers, left)
    BY DEF IInv, HeaderFields
  <2>2. LengthOf(Append(headers, line), left) =
            IF HasLength(line) THEN atol(SkipBlanks(Tail(line))) ELSE LengthOf(headers, left)
    BY <1>0, LengthOfAppend
  <2> QED
    BY <1>0, <1>2, <1>3, <2>1, <2>2
<1>10. line = <<>> => ((code' = "GET_REQUEST") <=> (LengthOf(headers', left) = 0))
  <2>1. line = <<>> => conn'.m_content_length = conn.m_content_length
    BY <1>2, <1>3 DEF HasLength
  <2> QED
    BY <1>2, <1>3, <1>9, <2>1
<1>11. HeaderFields'
  BY <1>0, <1>4, <1>8, <1>9, <1>10 DEF HeaderFields, KeepsAlive
<1> QED
  BY <1>5, <1>6, <1>11 DEF IInv

LEMMA ReuseInv == ASSUME IInv, Reuse PROVE IInv'
<1>1. /\ conn \in TextConns /\ conn' = init(conn) /\ left' = conn.m_content_length
      /\ text' = <<>> /\ headers' = <<>> /\ code' = "none"
  BY DEF IInv, TextOK, Reuse
<1>2. IsNew(conn, left)'
  <2>1. IsNew(init(conn), conn.m_content_length)
    BY <1>1, InitIsNew
  <2> QED
    BY <1>1, <2>1 DEF IsNew
<1>3. TextOK'
  BY <1>1, <1>2 DEF IsNew, TextOK
<1>4. RequestLineGrammar'
  BY <1>1 DEF RequestLineGrammar
<1>5. HeaderFields'
  BY <1>1, <1>2, NoHeaders DEF IsNew, HeaderFields
<1> QED
  BY <1>3, <1>4, <1>5 DEF IInv

LEMMA NextInv == ASSUME IInv, [Next]_textvars PROVE IInv'
<1>1. ASSUME UNCHANGED textvars PROVE IInv'
  <2>1. TextOK'
    BY <1>1 DEF IInv, TextOK, textvars
  <2>2. RequestLineGrammar'
    BY <1>1 DEF IInv, RequestLineGrammar, textvars
  <2>3. HeaderFields'
    BY <1>1 DEF IInv, HeaderFields, textvars
  <2> QED
    BY <2>1, <2>2, <2>3 DEF IInv
<1> QED
  BY <1>1, TokenInv, RequestLineInv, HeaderLineInv, ReuseInv DEF Next

\* parse_request_line() goes on to the headers exactly for GET blank url blank
\* HTTP/1.1 with a path or an http:// url, reads through a null pointer exactly when
\* the line has no blank, and keeps a url that begins with a path (http_conn.cpp:171-207),
\* whatever the tokens and the length of the line.
THEOREM LinesByGrammar == Spec => []RequestLineGrammar
<1>1. IInv => RequestLineGrammar
  BY DEF IInv
<1> QED
  BY <1>1, InitInv, NextInv, PTL DEF Spec

\* After any number of header lines, in the slot's first connection or any later one,
\* m_linger is what the lines say together and m_content_length what the last
\* Content-Length says or, without one, what init() found there; the empty line ends
\* the request exactly when that is 0 (http_conn.cpp:62-73, 210-246).
THEOREM HeadersAddUp == Spec => []HeaderFields
<1>1. IInv => HeaderFields
  BY DEF IInv
<1> QED
  BY <1>1, InitInv, NextInv, PTL DEF Spec
==============================================================================
