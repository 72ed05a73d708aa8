----------------------------- MODULE CanonProofs -----------------------------
(***************************************************************************)
(* What the canonicalizations do to a host name or a URI of any length.    *)
(***************************************************************************)
EXTENDS Canon, SequenceTheorems, WellFoundedInduction, FiniteSetTheorems, TLAPS

-----------------------------------------------------------------------------
(* The least and the greatest of a set of positions *)

\* A set of natural numbers has a least element: CanonServerName and CutQuery
\* cut at the first of the places they look for.
LEMMA LeastOf ==
    ASSUME NEW T, T \subseteq Nat, T # {}
    PROVE  \E x \in T : \A y \in T : x <= y
<1>1. PICK R : R = OpToRel(<, Nat)
  OBVIOUS
<1>2. IsWellFoundedOn(R, Nat)
  BY <1>1, NatLessThanWellFounded
<1>3. PICK x \in T : \A y \in T : ~(<<y, x>> \in R)
  BY <1>2, WFMin
<1>4. \A m, n \in Nat : n < m => <<n, m>> \in R
  BY <1>1 DEF OpToRel
<1>5. ASSUME NEW y \in T PROVE x <= y
  <2>1. x \in Nat /\ y \in Nat /\ <<y, x>> \notin R
    BY <1>3
  <2>2. ~(y < x)
    BY <1>4, <2>1
  <2> QED BY <2>1, <2>2
<1> QED
  BY <1>5

\* The community modules' Min is that element ...
LEMMA MinIs ==
    ASSUME NEW T, T \subseteq Nat, T # {}
    PROVE  Min(T) \in T /\ \A y \in T : Min(T) <= y
  BY LeastOf DEF Min

\* ... and Max the greatest, of a set with a bound: the last place in a text.
LEMMA MaxIs ==
    ASSUME NEW T, NEW n \in Nat, T \subseteq 0..n, T # {}
    PROVE  Max(T) \in T /\ \A y \in T : y <= Max(T)
<1> DEFINE U == { n - y : y \in T }
<1>1. U \subseteq Nat
  OBVIOUS
<1>2. U # {}
  <2>1. PICK y \in T : TRUE
    OBVIOUS
  <2>2. n - y \in U
    OBVIOUS
  <2> QED BY <2>2
<1>3. PICK u \in U : \A v \in U : u <= v
  BY <1>1, <1>2, LeastOf
<1>4. PICK m \in T : u = n - m
  OBVIOUS
<1>5. \A y \in T : m >= y
  <2> TAKE y \in T
  <2>1. u <= n - y
    BY <1>3
  <2> QED BY <1>4, <2>1
<1>6. \E x \in T : \A y \in T : x >= y
  BY <1>5
<1> HIDE DEF U
<1>7. Max(T) \in T /\ \A y \in T : Max(T) >= y
  BY <1>6 DEF Max
<1> QED
  BY <1>7

\* A part of a sequence.
LEMMA Part ==
    ASSUME NEW S, NEW s \in Seq(S), NEW m \in Nat \ {0}, NEW n \in Int, n <= Len(s)
    PROVE  /\ SubSeq(s, m, n) \in Seq(S)
           /\ Len(SubSeq(s, m, n)) = (IF m <= n THEN n - m + 1 ELSE 0)
           /\ \A i \in 1..(n - m + 1) : SubSeq(s, m, n)[i] = s[m + i - 1]
<1>1. \A i \in m..n : s[i] \in S
  OBVIOUS
<1> QED
  BY <1>1, SubSeqProperties

\* A prefix.
LEMMA Prefix ==
    ASSUME NEW S, NEW s \in Seq(S), NEW n \in Nat, n <= Len(s)
    PROVE  /\ SubSeq(s, 1, n) \in Seq(S) /\ Len(SubSeq(s, 1, n)) = n
           /\ \A i \in 1..n : SubSeq(s, 1, n)[i] = s[i]
<1>1. /\ SubSeq(s, 1, n) \in Seq(S)
      /\ Len(SubSeq(s, 1, n)) = (IF 1 <= n THEN n - 1 + 1 ELSE 0)
      /\ \A i \in 1..(n - 1 + 1) : SubSeq(s, 1, n)[i] = s[1 + i - 1]
  BY Part
<1>2. \A i \in 1..n : i \in 1..(n - 1 + 1) /\ 1 + i - 1 = i
  OBVIOUS
<1> QED
  BY <1>1, <1>2

-----------------------------------------------------------------------------
(* Host names *)

\* The space is none of the other characters a host name is written with.
LEMMA SpaceIs ==
    Space \notin {".", "[", "]", ":", "a", "A", "0"}
  BY Zenon DEF Space

Loose(c) == c \in {Space, "."}

\* Nothing is left to trim.
Trimmed(s) == s # <<>> => s[1] # Space /\ ~Loose(s[Len(s)])

\* Trimming cuts a piece out of the text.
LEMMA TrimIs ==
    ASSUME NEW S, NEW s \in Seq(S)
    PROVE  LET t == trimDotsAndSpace(s)
           IN  /\ t \in Seq(S) /\ Trimmed(t)
               /\ t # <<>> => \E m \in 1..Len(s) :
                     /\ \A i \in 1..Len(t) : m + i - 1 \in 1..Len(s) /\ t[i] = s[m + i - 1]
                     /\ \A i \in 1..(m - 1) : s[i] = Space
               /\ Trimmed(s) => t = s
<1> DEFINE kept == { i \in DOMAIN s : s[i] \notin {Space, "."} }
           solid == { i \in DOMAIN s : s[i] # Space }
           m == Min(solid)
           n == Max(kept)
           t == trimDotsAndSpace(s)
<1>1. DOMAIN s = 1..Len(s) /\ Len(s) \in Nat
  OBVIOUS
<1>2. CASE kept = {}
  <2>1. t = <<>>
    BY <1>2 DEF trimDotsAndSpace
  <2>2. ASSUME Trimmed(s) PROVE s = <<>>
    <3> SUFFICES ASSUME s # <<>> PROVE FALSE
      OBVIOUS
    <3>1. Len(s) \in DOMAIN s
      BY <1>1, EmptySeq
    <3> QED BY <1>2, <2>2, <3>1 DEF Trimmed, Loose
  <2> QED BY <2>1, <2>2 DEF Trimmed
<1>3. CASE kept # {}
  <2>1. m \in solid /\ \A i \in solid : m <= i
    <3>1. solid \subseteq Nat /\ solid # {}
      BY <1>1, <1>3
    <3> HIDE DEF solid
    <3> QED BY <3>1, MinIs
  <2>2. n \in kept /\ \A i \in kept : i <= n
    <3>1. kept \subseteq 0..Len(s)
      BY <1>1
    <3> HIDE DEF kept
    <3> QED BY <1>1, <1>3, <3>1, MaxIs
  <2>3. t = SubSeq(s, m, n)
    BY <1>3 DEF trimDotsAndSpace
  <2>4. /\ m \in 1..Len(s) /\ s[m] # Space /\ n \in 1..Len(s) /\ ~Loose(s[n]) /\ m <= n
        /\ \A i \in 1..(m - 1) : s[i] = Space
    <3>1. /\ \A i : i \in solid <=> i \in 1..Len(s) /\ s[i] # Space
          /\ \A i : i \in kept <=> i \in 1..Len(s) /\ ~Loose(s[i])
          /\ kept \subseteq solid
      BY <1>1 DEF Loose
    <3> HIDE DEF m, n, kept, solid
    <3> QED BY <1>1, <2>1, <2>2, <3>1
  <2>5. /\ Trimmed(s) => s # <<>> /\ m = 1
        /\ Trimmed(s) => n = Len(s)
    <3> SUFFICES ASSUME Trimmed(s) PROVE m = 1 /\ n = Len(s)
      BY <1>1, <2>4, EmptySeq
    <3>1. s # <<>>
      BY <1>1, <2>4, EmptySeq
    <3>2. 1 \in solid /\ Len(s) \in kept
      BY <1>1, <2>4, <3>1 DEF Trimmed, Loose
    <3> HIDE DEF m, n, kept, solid
    <3>3. m <= 1 /\ Len(s) <= n
      BY <2>1, <2>2, <3>2
    <3>4. m \in 1..Len(s) /\ n \in 1..Len(s)
      BY <2>4
    <3>5. Len(s) \in Nat /\ m \in Int /\ n \in Int /\ 1 <= m /\ n <= Len(s)
      BY <1>1, <3>4
    <3>6. m = 1
      BY <3>3, <3>5
    <3>7. n = Len(s)
      BY <3>3, <3>5
    <3> QED BY <3>6, <3>7
  <2> HIDE DEF m, n, kept, solid
  <2>6. /\ t \in Seq(S) /\ Len(t) = n - m + 1
        /\ \A i \in 1..(n - m + 1) : t[i] = s[m + i - 1]
    BY <2>3, <2>4, <1>1, Part
  <2> HIDE DEF t
  <2>7. \A i \in 1..Len(t) : m + i - 1 \in 1..Len(s) /\ t[i] = s[m + i - 1]
    BY <1>1, <2>4, <2>6
  <2>8. t[1] = s[m] /\ t[Len(t)] = s[n]
    <3>1. 1 \in 1..(n - m + 1) /\ Len(t) \in 1..(n - m + 1)
      BY <1>1, <2>4, <2>6
    <3>2. m + 1 - 1 = m /\ m + Len(t) - 1 = n
      BY <1>1, <2>4, <2>6
    <3> QED BY <2>6, <3>1, <3>2
  <2>9. Trimmed(s) => t = s
    <3> SUFFICES ASSUME Trimmed(s) PROVE t = s
      OBVIOUS
    <3>1. Len(t) = Len(s) /\ \A i \in 1..Len(t) : t[i] = s[i]
      BY <1>1, <2>4, <2>5, <2>6
    <3> QED BY <2>6, <3>1, SeqEqual
  <2>10. Trimmed(t)
    BY <2>4, <2>8 DEF Trimmed
  <2> QED BY <2>4, <2>6, <2>7, <2>9, <2>10 DEF t
<1> QED
  BY <1>2, <1>3

\* Nothing appears that was not there, and a text that does not begin with
\* white space keeps its beginning.
LEMMA TrimKeeps ==
    ASSUME NEW S, NEW s \in Seq(S)
    PROVE  LET t == trimDotsAndSpace(s)
           IN  /\ \A c : Places(s, c) = {} => Places(t, c) = {}
               /\ t # <<>> /\ s[1] # Space => t[1] = s[1]
<1> DEFINE t == trimDotsAndSpace(s)
<1>1. /\ t \in Seq(S)
      /\ t # <<>> => \E m \in 1..Len(s) :
            /\ \A i \in 1..Len(t) : m + i - 1 \in 1..Len(s) /\ t[i] = s[m + i - 1]
            /\ \A i \in 1..(m - 1) : s[i] = Space
  BY TrimIs
<1> HIDE DEF t
<1>2. CASE t = <<>>
  BY <1>2 DEF Places, t
<1>3. CASE t # <<>>
  <2>1. PICK m \in 1..Len(s) :
            /\ \A i \in 1..Len(t) : m + i - 1 \in 1..Len(s) /\ t[i] = s[m + i - 1]
            /\ \A i \in 1..(m - 1) : s[i] = Space
    BY <1>1, <1>3
  <2>2. DOMAIN t = 1..Len(t) /\ DOMAIN s = 1..Len(s) /\ Len(t) \in Nat \ {0} /\ Len(s) \in Nat
    BY <1>1, <1>3, EmptySeq, LenProperties
  <2>3. \A c : Places(s, c) = {} => Places(t, c) = {}
    BY <2>1, <2>2 DEF Places
  <2>4. ASSUME s[1] # Space PROVE t[1] = s[1]
    <3>1. m = 1
      BY <2>1, <2>2, <2>4
    <3> QED BY <2>1, <2>2, <3>1
  <2> QED BY <2>3, <2>4 DEF t
<1> QED
  BY <1>2, <1>3

\* Lowering case changes letters only: the colons and the brackets stay in
\* their places, and nothing is left to lower.
LEMMA LowerIs ==
    ASSUME NEW S, "a" \in S, NEW s \in Seq(S)
    PROVE  LET l == asciiLower(s)
           IN  /\ l \in Seq(S) /\ Len(l) = Len(s) /\ asciiLower(l) = l
               /\ \A i \in 1..Len(s) : l[i] = IF s[i] = "A" THEN "a" ELSE s[i]
               /\ \A c \in {":", "[", "]"} : Places(l, c) = Places(s, c)
               /\ Trimmed(s) => Trimmed(l)
<1> DEFINE l == asciiLower(s)
<1>1. DOMAIN s = 1..Len(s) /\ Len(s) \in Nat /\ \A i \in 1..Len(s) : s[i] \in S
  BY LenProperties, ElementOfSeq
<1>2. l = [i \in 1..Len(s) |-> IF s[i] = "A" THEN "a" ELSE s[i]]
  BY <1>1 DEF asciiLower
<1>3. l \in [1..Len(s) -> S]
  BY <1>1, <1>2
<1>4. l \in Seq(S) /\ Len(l) = Len(s) /\ DOMAIN l = 1..Len(s)
  <2>1. l \in Seq(S)
    BY <1>1, <1>3
  <2> QED BY <1>1, <1>2, <2>1, LenProperties
<1>5. \A i \in 1..Len(s) : l[i] = IF s[i] = "A" THEN "a" ELSE s[i]
  BY <1>2
<1> HIDE DEF l
<1>6. asciiLower(l) = l
  <2>1. asciiLower(l) = [i \in 1..Len(s) |-> IF l[i] = "A" THEN "a" ELSE l[i]]
    BY <1>4 DEF asciiLower
  <2>2. \A i \in 1..Len(s) : l[i] # "A"
    BY <1>5
  <2>3. l = [i \in 1..Len(s) |-> l[i]]
    BY <1>3
  <2> QED BY <2>1, <2>2, <2>3
<1>7. \A c \in {":", "[", "]"} : Places(l, c) = Places(s, c)
  BY <1>1, <1>4, <1>5 DEF Places
<1>8. ASSUME Trimmed(s) PROVE Trimmed(l)
  <2> SUFFICES ASSUME l # <<>> PROVE l[1] # Space /\ ~Loose(l[Len(l)])
    BY DEF Trimmed
  <2>1. Len(s) \in Nat \ {0}
    BY <1>4, EmptySeq
  <2>2. s # <<>> /\ 1 \in 1..Len(s) /\ Len(s) \in 1..Len(s)
    BY <2>1, EmptySeq
  <2>3. s[1] # Space /\ ~Loose(s[Len(s)])
    BY <1>8, <2>2 DEF Trimmed
  <2>4. Space # "a" /\ ~Loose("a")
    BY SpaceIs DEF Loose
  <2> QED BY <1>4, <1>5, <2>2, <2>3, <2>4
<1> QED
  BY <1>4, <1>5, <1>6, <1>7, <1>8 DEF l

\* The places of a character are finitely many positions.
LEMMA PlacesIs ==
    ASSUME NEW S, NEW s \in Seq(S), NEW c
    PROVE  /\ \A i : i \in Places(s, c) <=> i \in 1..Len(s) /\ s[i] = c
           /\ Places(s, c) \subseteq 1..Len(s) /\ Len(s) \in Nat
           /\ IsFiniteSet(Places(s, c))
<1>1. DOMAIN s = 1..Len(s) /\ Len(s) \in Nat
  BY LenProperties
<1>2. \A i : i \in Places(s, c) <=> i \in 1..Len(s) /\ s[i] = c
  BY <1>1 DEF Places
<1>3. Places(s, c) \subseteq 1..Len(s)
  BY <1>2
<1>4. IsFiniteSet(1..Len(s))
  BY <1>1, FS_Interval
<1> QED
  BY <1>1, <1>2, <1>3, <1>4, FS_Subset

\* A name without its brackets is trimmed, and has none left.
Bare(h) == ~(h # <<>> /\ Head(h) = "[" /\ Places(h, "]") # {})

\* Taking off the brackets leaves a trimmed name without a closing one.
LEMMA BracketsIs ==
    ASSUME NEW S, NEW h \in Seq(S), Trimmed(h)
    PROVE  LET b == StripBrackets(h)
           IN  /\ b \in Seq(S) /\ Trimmed(b)
               /\ Bare(h) => b = h
               /\ ~Bare(h) => Places(b, "]") = {}
<1> DEFINE b == StripBrackets(h)
<1>1. CASE Bare(h)
  BY <1>1 DEF Bare, StripBrackets
<1>2. CASE ~Bare(h)
  <2> DEFINE P == Places(h, "]")
             m == Min(P)
             cut == SubSeq(h, 2, m - 1)
  <2>1. P # {} /\ b = trimDotsAndSpace(cut)
    BY <1>2 DEF Bare, StripBrackets
  <2>2. /\ P \subseteq Nat /\ Len(h) \in Nat
        /\ \A i : i \in P <=> i \in 1..Len(h) /\ h[i] = "]"
    BY PlacesIs
  <2>3. m \in P /\ \A i \in P : m <= i
    <3> HIDE DEF P
    <3> QED BY <2>1, <2>2, MinIs
  <2>4. m \in 1..Len(h)
    BY <2>2, <2>3
  <2> HIDE DEF m, P
  <2>5. /\ cut \in Seq(S)
        /\ Len(cut) = (IF 2 <= m - 1 THEN m - 1 - 2 + 1 ELSE 0)
        /\ \A i \in 1..(m - 1 - 2 + 1) : cut[i] = h[2 + i - 1]
    BY <2>2, <2>4, Part
  <2> HIDE DEF cut
  <2>6. ASSUME NEW i \in 1..Len(cut) PROVE cut[i] # "]"
    <3>1. /\ i \in 1..(m - 1 - 2 + 1) /\ 2 + i - 1 \in 1..Len(h) /\ ~(m <= 2 + i - 1)
      BY <2>2, <2>4, <2>5
    <3> QED BY <2>2, <2>3, <2>5, <3>1
  <2>7. Places(cut, "]") = {}
    BY <2>5, <2>6, PlacesIs
  <2>8. b \in Seq(S) /\ Trimmed(b) /\ Places(b, "]") = {}
    BY <2>1, <2>5, <2>7, TrimIs, TrimKeeps
  <2> QED BY <1>2, <2>8
<1> QED
  BY <1>1, <1>2

\* One colon with nothing but digits behind it.
HasPort(h) ==
    /\ Cardinality(Places(h, ":")) = 1
    /\ isASCIIDigits(SubSeq(h, Max(Places(h, ":")) + 1, Len(h)))

\* A name without its port has no colon and begins as before.
LEMMA PortIs ==
    ASSUME NEW S, NEW h \in Seq(S)
    PROVE  LET p == StripPort(h)
           IN  /\ p \in Seq(S)
               /\ ~HasPort(h) => p = h
               /\ HasPort(h) => Places(p, ":") = {}
               /\ \A c : Places(h, c) = {} => Places(p, c) = {}
               /\ p # <<>> => h # <<>> /\ p[1] = h[1]
<1> DEFINE p == StripPort(h)
<1>1. CASE ~HasPort(h)
  BY <1>1 DEF HasPort, StripPort
<1>2. CASE HasPort(h)
  <2> DEFINE P == Places(h, ":")
  <2>1. /\ p = SubSeq(h, 1, Max(P) - 1) /\ Cardinality(P) = 1
    BY <1>2 DEF HasPort, StripPort
  <2>2. /\ \A i : i \in P <=> i \in 1..Len(h) /\ h[i] = ":"
        /\ IsFiniteSet(P) /\ Len(h) \in Nat
    BY PlacesIs
  <2> HIDE DEF P
  <2>3. PICK k : P = {k}
    BY <2>1, <2>2, FS_Singleton
  <2>4. k \in 1..Len(h) /\ Max(P) = k
    <3>1. k \in 1..Len(h) /\ P \subseteq 0..Len(h) /\ P # {}
      BY <2>2, <2>3
    <3>2. Max(P) \in P
      BY <2>2, <3>1, MaxIs
    <3> QED BY <2>3, <3>1, <3>2
  <2>5. /\ p \in Seq(S) /\ Len(p) = k - 1 /\ k - 1 \in Nat
        /\ \A i \in 1..(k - 1) : p[i] = h[i]
    <3>1. k - 1 \in Nat /\ k - 1 <= Len(h)
      BY <2>2, <2>4
    <3>2. p = SubSeq(h, 1, k - 1)
      BY <2>1, <2>4
    <3> QED BY <3>1, <3>2, Prefix
  <2> HIDE DEF p
  <2>6. \A i \in 1..Len(p) : i \in 1..Len(h) /\ p[i] = h[i] /\ i # k
    BY <2>2, <2>4, <2>5
  <2>7. \A i \in 1..Len(p) : h[i] # ":"
    BY <2>2, <2>3, <2>6
  <2>8. Places(p, ":") = {}
    <3>1. \A i : i \in Places(p, ":") <=> i \in 1..Len(p) /\ p[i] = ":"
      BY <2>5, PlacesIs
    <3> QED BY <2>6, <2>7, <3>1
  <2>9. ASSUME NEW c, Places(h, c) = {} PROVE Places(p, c) = {}
    <3>1. /\ \A i : i \in Places(p, c) <=> i \in 1..Len(p) /\ p[i] = c
          /\ \A i : i \in Places(h, c) <=> i \in 1..Len(h) /\ h[i] = c
      BY <2>5, PlacesIs
    <3> QED BY <2>6, <2>9, <3>1
  <2>10. ASSUME p # <<>> PROVE h # <<>> /\ p[1] = h[1]
    <3>1. Len(p) \in Nat \ {0}
      BY <2>5, <2>10, EmptySeq
    <3>2. 1 \in 1..Len(p) /\ 1 \in 1..Len(h)
      BY <2>6, <3>1
    <3>3. h # <<>>
      BY <3>2, <2>2, EmptySeq
    <3> QED BY <2>6, <3>2, <3>3
  <2> QED BY <1>2, <2>5, <2>8, <2>9, <2>10 DEF p
<1> QED
  BY <1>1, <1>2

\* Lower case has a port where the text has one.
LEMMA LowerPort ==
    ASSUME NEW S, "a" \in S, NEW s \in Seq(S), ~HasPort(s)
    PROVE  ~HasPort(asciiLower(s))
<1> DEFINE l == asciiLower(s)
           P == Places(s, ":")
<1> SUFFICES ASSUME HasPort(l) PROVE FALSE
  OBVIOUS
<1>1. /\ l \in Seq(S) /\ Len(l) = Len(s) /\ Places(l, ":") = P
      /\ \A i \in 1..Len(s) : l[i] = IF s[i] = "A" THEN "a" ELSE s[i]
  BY LowerIs
<1> HIDE DEF l
<1>2. Cardinality(P) = 1 /\ isASCIIDigits(SubSeq(l, Max(P) + 1, Len(l)))
  BY <1>1 DEF HasPort
<1>3. Max(P) \in 1..Len(s) /\ Len(s) \in Nat
  <2>1. P \subseteq 1..Len(s) /\ IsFiniteSet(P) /\ Len(s) \in Nat
    BY PlacesIs
  <2> HIDE DEF P
  <2>2. P # {}
    BY <1>2, <2>1, FS_Singleton
  <2>3. P \subseteq 0..Len(s)
    BY <2>1
  <2> QED BY <2>1, <2>2, <2>3, MaxIs
<1> DEFINE m == Max(P) + 1
           k == Len(s) - m + 1
           u == SubSeq(s, m, Len(s))
           v == SubSeq(l, m, Len(s))
<1>4. m \in Nat \ {0} /\ k \in Nat /\ \A i \in 1..k : m + i - 1 \in 1..Len(s)
  BY <1>3
<1> HIDE DEF P, m
<1>5. /\ u \in Seq(S) /\ Len(u) = (IF m <= Len(s) THEN k ELSE 0)
      /\ \A i \in 1..k : u[i] = s[m + i - 1]
  BY <1>3, <1>4, Part
<1>6. /\ v \in Seq(S) /\ Len(v) = (IF m <= Len(s) THEN k ELSE 0)
      /\ \A i \in 1..k : v[i] = l[m + i - 1]
  BY <1>1, <1>3, <1>4, Part
<1>7. isASCIIDigits(v)
  BY <1>1, <1>2 DEF m
<1> HIDE DEF k, u, v
<1>8. v # <<>> /\ \A i \in 1..Len(v) : v[i] = "0"
  <2>1. v # <<>> /\ ToSet(v) \subseteq {"0"}
    BY <1>7 DEF isASCIIDigits
  <2>2. DOMAIN v = 1..Len(v)
    BY <1>6, LenProperties
  <2> QED BY <2>1, <2>2 DEF ToSet
<1>9. Len(v) \in Nat \ {0}
  BY <1>6, <1>8, EmptySeq
<1>10. Len(u) = k /\ Len(v) = k /\ k # 0
  BY <1>5, <1>6, <1>9
<1>11. \A i \in 1..k : u[i] = "0"
  BY <1>1, <1>4, <1>5, <1>6, <1>8, <1>10
<1>12. isASCIIDigits(u)
  <2>1. u # <<>>
    BY <1>10, EmptySeq
  <2>2. DOMAIN u = 1..k
    BY <1>5, <1>10, LenProperties
  <2> QED BY <1>11, <2>1, <2>2 DEF isASCIIDigits, ToSet
<1> QED
  BY <1>2, <1>12 DEF HasPort, u, m, P

\* Nothing is left for CanonServerName to do.
Canonical(x) == Trimmed(x) /\ Bare(x) /\ ~HasPort(x) /\ asciiLower(x) = x

\* A canonical name is what CanonServerName makes of it.
LEMMA CanonicalStays ==
    ASSUME NEW S, NEW x \in Seq(S), Canonical(x)
    PROVE  CanonServerName(x) = x
<1>1. trimDotsAndSpace(x) = x
  BY TrimIs DEF Canonical
<1>2. StripBrackets(x) = x
  BY BracketsIs DEF Canonical
<1>3. StripPort(x) = x
  BY PortIs DEF Canonical
<1> QED
  BY <1>1, <1>2, <1>3 DEF CanonServerName, Canonical

\* Whatever is written, nothing is left to do once it is canonical: neither
\* cutting the brackets nor the port exposes another layer.
LEMMA BecomesCanonical ==
    ASSUME NEW S, "a" \in S, NEW h \in Seq(S)
    PROVE  CanonServerName(h) \in Seq(S) /\ Canonical(CanonServerName(h))
<1> DEFINE t == trimDotsAndSpace(h)
           b == StripBrackets(t)
           p == StripPort(b)
           q == trimDotsAndSpace(p)
           x == asciiLower(q)
<1>1. t \in Seq(S) /\ Trimmed(t)
  BY TrimIs
<1> HIDE DEF t
<1>2. /\ b \in Seq(S) /\ Trimmed(b) /\ (Bare(t) => b = t)
      /\ (~Bare(t) => Places(b, "]") = {})
  BY <1>1, BracketsIs
<1> HIDE DEF b
<1>3. /\ p \in Seq(S) /\ (~HasPort(b) => p = b) /\ (HasPort(b) => Places(p, ":") = {})
      /\ (\A c : Places(b, c) = {} => Places(p, c) = {})
      /\ (p # <<>> => b # <<>> /\ p[1] = b[1])
  BY <1>2, PortIs
<1> HIDE DEF p
<1>4. /\ q \in Seq(S) /\ Trimmed(q) /\ (Trimmed(p) => q = p)
      /\ (\A c : Places(p, c) = {} => Places(q, c) = {})
      /\ (q # <<>> /\ p[1] # Space => q[1] = p[1])
  BY <1>3, TrimIs, TrimKeeps
<1>5. q # <<>> => p # <<>>
  <2>1. Trimmed(<<>>)
    BY DEF Trimmed
  <2> QED BY <1>4, <2>1
<1> HIDE DEF q
<1>6. /\ x \in Seq(S) /\ Len(x) = Len(q) /\ asciiLower(x) = x
      /\ (\A i \in 1..Len(q) : x[i] = IF q[i] = "A" THEN "a" ELSE q[i])
      /\ Places(x, ":") = Places(q, ":") /\ Places(x, "]") = Places(q, "]")
      /\ Trimmed(x)
  BY <1>4, LowerIs
<1> HIDE DEF x
<1>7. Bare(x)
  <2> SUFFICES ASSUME x # <<>>, Head(x) = "[", Places(x, "]") # {}
               PROVE  FALSE
    BY DEF Bare
  <2>1. Len(q) \in Nat \ {0} /\ x[1] = "["
    BY <1>6, EmptySeq
  <2>2. q # <<>> /\ q[1] = "["
    BY <1>6, <2>1, EmptySeq
  <2>3. p # <<>> /\ b # <<>> /\ p[1] = b[1]
    BY <1>3, <1>5, <2>2
  <2>4. Places(b, "]") # {}
    BY <1>3, <1>4, <1>6
  <2>5. b = t /\ Bare(t) /\ t # <<>>
    BY <1>2, <2>3, <2>4
  <2>6. t[1] # Space /\ q[1] = p[1]
    BY <1>1, <1>4, <2>2, <2>3, <2>5 DEF Trimmed
  <2>7. Head(t) = "["
    BY <2>2, <2>3, <2>5, <2>6, <1>1
  <2> QED BY <2>4, <2>5, <2>7 DEF Bare
<1>8. ~HasPort(x)
  <2>1. CASE HasPort(b)
    <3>1. Places(x, ":") = {}
      BY <1>3, <1>4, <1>6, <2>1
    <3>2. Cardinality(Places(x, ":")) = 0
      BY <3>1, FS_EmptySet
    <3> QED BY <3>2 DEF HasPort
  <2>2. CASE ~HasPort(b)
    <3>1. q = b
      BY <1>2, <1>3, <1>4, <2>2
    <3> QED BY <1>4, <2>2, <3>1, LowerPort DEF x
  <2> QED BY <2>1, <2>2
<1>9. CanonServerName(h) = x
  BY DEF CanonServerName, x, q, p, b, t
<1> QED
  BY <1>6, <1>7, <1>8, <1>9 DEF Canonical

\* A layer that canonicalizes a host once more does not change its name
\* (CanonServerName).
THEOREM CanonicalOnce ==
    ASSUME NEW S, "a" \in S, NEW h \in Seq(S)
    PROVE  CanonServerName(CanonServerName(h)) = CanonServerName(h)
  BY BecomesCanonical, CanonicalStays

\* Brackets around a host do not change its name (CanonServerName).
THEOREM BracketsDoNotCount ==
    ASSUME NEW S, {"[", "]"} \subseteq S, NEW h \in Seq(S), Places(h, "]") = {}
    PROVE  CanonServerName(<<"[">> \o h \o <<"]">>) = CanonServerName(h)
<1> DEFINE g == <<"[">> \o h \o <<"]">>
           n == Len(h)
           t == trimDotsAndSpace(h)
<1>1. /\ g \in Seq(S) /\ Len(g) = n + 2 /\ n \in Nat /\ g[1] = "[" /\ g[n + 2] = "]"
      /\ \A i \in 1..n : g[i + 1] = h[i]
  <2>1. /\ <<"[">> \in Seq(S) /\ Len(<<"[">>) = 1 /\ <<"[">>[1] = "["
        /\ <<"]">> \in Seq(S) /\ Len(<<"]">>) = 1 /\ <<"]">>[1] = "]" /\ n \in Nat
    OBVIOUS
  <2>2. PICK o \in Seq(S) : o = <<"[">> /\ Len(o) = 1 /\ o[1] = "["
    BY <2>1
  <2>3. PICK e \in Seq(S) : e = <<"]">> /\ Len(e) = 1 /\ e[1] = "]"
    BY <2>1
  <2>4. /\ o \o h \in Seq(S) /\ Len(o \o h) = 1 + n
        /\ \A i \in 1..(1 + n) : (o \o h)[i] = IF i <= 1 THEN o[i] ELSE h[i - 1]
    BY <2>2, ConcatProperties
  <2>5. PICK f \in Seq(S) : f = o \o h
    BY <2>4
  <2>6. /\ f \o e \in Seq(S) /\ Len(f \o e) = 1 + n + 1
        /\ \A i \in 1..(1 + n + 1) : (f \o e)[i] = IF i <= 1 + n THEN f[i] ELSE e[i - (1 + n)]
    BY <2>3, <2>4, <2>5, ConcatProperties
  <2>7. g = f \o e
    BY <2>2, <2>3, <2>5
  <2> HIDE DEF g, n
  <2>8. g[1] = "["
    BY <2>1, <2>2, <2>4, <2>5, <2>6, <2>7
  <2>9. g[n + 2] = "]"
    <3>1. n + 2 \in 1..(1 + n + 1) /\ ~(n + 2 <= 1 + n) /\ n + 2 - (1 + n) = 1
      BY <2>1
    <3>2. g[n + 2] = e[n + 2 - (1 + n)]
      BY <2>1, <2>6, <2>7, <3>1
    <3> QED BY <2>3, <3>1, <3>2
  <2>10. ASSUME NEW i \in 1..n PROVE g[i + 1] = h[i]
    <3>1. /\ i + 1 \in 1..(1 + n + 1) /\ i + 1 <= 1 + n /\ i + 1 \in 1..(1 + n)
          /\ ~(i + 1 <= 1) /\ i + 1 - 1 = i
      BY <2>1
    <3> QED BY <2>4, <2>5, <2>6, <2>7, <3>1
  <2> QED BY <2>1, <2>6, <2>7, <2>8, <2>9, <2>10
<1> HIDE DEF g
<1>2. trimDotsAndSpace(g) = g
  <2>1. Trimmed(g)
    BY <1>1, SpaceIs DEF Trimmed, Loose
  <2> QED BY <1>1, <2>1, TrimIs
<1>3. /\ \A i : i \in Places(h, "]") <=> i \in 1..n /\ h[i] = "]"
      /\ \A i : i \in Places(g, "]") <=> i \in 1..(n + 2) /\ g[i] = "]"
  <2>1. \A i : i \in Places(g, "]") <=> i \in 1..Len(g) /\ g[i] = "]"
    BY <1>1, PlacesIs
  <2> QED BY <1>1, <2>1, PlacesIs
<1>4. Places(g, "]") = {n + 2}
  <2> HIDE DEF n
  <2>1. n + 2 \in Places(g, "]")
    BY <1>1, <1>3
  <2>2. ASSUME NEW i \in Places(g, "]") PROVE i = n + 2
    <3>1. i \in 1..(n + 2) /\ g[i] = "]"
      BY <1>3
    <3>2. i # 1
      BY <1>1, <3>1
    <3>3. ASSUME i # n + 2 PROVE FALSE
      <4>1. i - 1 \in 1..n /\ (i - 1) + 1 = i
        BY <1>1, <3>1, <3>2, <3>3
      <4>2. g[i] = h[i - 1]
        BY <1>1, <4>1
      <4> QED BY <1>3, <3>1, <4>1, <4>2
    <3> QED BY <3>3
  <2> QED BY <2>1, <2>2
<1>5. Min(Places(g, "]")) = n + 2
  <2> HIDE DEF n
  <2>1. Places(g, "]") \subseteq Nat /\ Places(g, "]") # {}
    <3>1. n + 2 \in Nat
      BY <1>1
    <3> QED BY <1>4, <3>1
  <2>2. Min(Places(g, "]")) \in Places(g, "]")
    BY <2>1, MinIs
  <2> QED BY <1>4, <2>2
<1>6. SubSeq(g, 2, n + 1) = h
  <2>1. /\ SubSeq(g, 2, n + 1) \in Seq(S)
        /\ Len(SubSeq(g, 2, n + 1)) = (IF 2 <= n + 1 THEN n + 1 - 2 + 1 ELSE 0)
        /\ \A i \in 1..(n + 1 - 2 + 1) : SubSeq(g, 2, n + 1)[i] = g[2 + i - 1]
    <3> HIDE DEF n
    <3> QED BY <1>1, Part
  <2>2. Len(SubSeq(g, 2, n + 1)) = Len(h)
    BY <1>1, <2>1
  <2>3. \A i \in 1..n : i \in 1..(n + 1 - 2 + 1) /\ 2 + i - 1 = i + 1
    BY <1>1
  <2>4. \A i \in 1..n : SubSeq(g, 2, n + 1)[i] = h[i]
    BY <1>1, <2>1, <2>3
  <2> QED BY <2>1, <2>2, <2>4, SeqEqual
<1>7. StripBrackets(g) = t
  <2>1. g # <<>> /\ Head(g) = "["
    BY <1>1, EmptySeq
  <2>2. Places(g, "]") # {} /\ n + 2 - 1 = n + 1
    BY <1>1, <1>4
  <2>3. StripBrackets(g) = trimDotsAndSpace(SubSeq(g, 2, Min(Places(g, "]")) - 1))
    BY <2>1, <2>2 DEF StripBrackets
  <2>4. Min(Places(g, "]")) - 1 = n + 1
    BY <1>5, <2>2
  <2> HIDE DEF n
  <2> QED BY <1>6, <2>3, <2>4
<1>8. StripBrackets(t) = t
  <2>1. Places(t, "]") = {}
    BY TrimKeeps
  <2> QED BY <2>1 DEF StripBrackets
<1> QED
  BY <1>2, <1>7, <1>8 DEF CanonServerName, g

\* A bare IPv6 literal is its own name: none of its colons begins a port
\* (CanonServerName).
THEOREM LiteralStays ==
    ASSUME NEW S, NEW h \in Seq(S), Cardinality(Places(h, ":")) > 1,
           ToSet(h) \subseteq {"a", "0", ":"}
    PROVE  CanonServerName(h) = h
<1>1. DOMAIN h = 1..Len(h) /\ Len(h) \in Nat
  BY LenProperties
<1>2. \A i \in 1..Len(h) : h[i] \in {"a", "0", ":"}
  BY <1>1 DEF ToSet
<1>3. Trimmed(h)
  <2> SUFFICES ASSUME h # <<>> PROVE h[1] # Space /\ ~Loose(h[Len(h)])
    BY DEF Trimmed
  <2>1. 1 \in 1..Len(h) /\ Len(h) \in 1..Len(h)
    BY EmptySeq
  <2> QED BY <1>2, <2>1, SpaceIs DEF Loose
<1>4. Bare(h)
  <2>1. Places(h, "]") = {}
    BY <1>1, <1>2 DEF Places
  <2> QED BY <2>1 DEF Bare
<1>5. ~HasPort(h)
  <2>1. Cardinality(Places(h, ":")) # 1
    OBVIOUS
  <2> QED BY <2>1 DEF HasPort
<1>6. asciiLower(h) = h
  <2>1. asciiLower(h) = [i \in DOMAIN h |-> h[i]]
    BY <1>1, <1>2 DEF asciiLower
  <2> QED BY <2>1
<1> QED
  BY <1>3, <1>4, <1>5, <1>6, CanonicalStays DEF Canonical
-----------------------------------------------------------------------------
(* Paths *)

\* The characters of a URI: what is written, and how often it is escaped.
Chars(U) == \A c \in U : c = <<c[1], c[2]>> /\ c[2] \in Nat

\* Nothing is escaped, and nothing looks as if it were or begins a query.
Plain(dec) == \A i \in DOMAIN dec : dec[i] = <<dec[i][1], 0>> /\ dec[i][1] \notin {"%", "?"}

\* Cutting the query off leaves text of the same characters.
LEMMA CutIs ==
    ASSUME NEW U, NEW uri \in Seq(U)
    PROVE  CutQuery(uri) \in Seq(U)
<1> DEFINE Q == { i \in DOMAIN uri : uri[i] = <<"?", 0>> }
<1>1. CASE Q = {}
  <2>1. CutQuery(uri) = uri
    BY <1>1 DEF CutQuery
  <2> QED BY <2>1
<1>2. CASE Q # {}
  <2>1. CutQuery(uri) = SubSeq(uri, 1, Min(Q) - 1)
    BY <1>2 DEF CutQuery
  <2>2. DOMAIN uri = 1..Len(uri) /\ Len(uri) \in Nat
    BY LenProperties
  <2>3. Q \subseteq 1..Len(uri) /\ Q \subseteq Nat
    BY <2>2
  <2> HIDE DEF Q
  <2>4. Min(Q) \in Q
    BY <1>2, <2>3, MinIs
  <2>5. Min(Q) \in 1..Len(uri)
    BY <2>3, <2>4
  <2>6. Min(Q) - 1 \in Nat /\ Min(Q) - 1 <= Len(uri)
    BY <2>2, <2>5
  <2> QED BY <2>1, <2>6, Prefix
<1> QED
  BY <1>1, <1>2

\* One layer of escaping is taken off, where there is one.
LEMMA OneLess ==
    ASSUME NEW d \in Nat
    PROVE  Max({d - 1, 0}) = IF d = 0 THEN 0 ELSE d - 1
<1> DEFINE T == {d - 1, 0}
           m == IF d = 0 THEN 0 ELSE d - 1
<1>1. m \in T /\ \A y \in T : m >= y
  OBVIOUS
<1>2. \A x \in T : (\A y \in T : x >= y) => x = m
  OBVIOUS
<1> HIDE DEF m, T
<1>3. Max(T) \in T /\ \A y \in T : Max(T) >= y
  BY <1>1 DEF Max
<1>4. Max(T) = m
  BY <1>2, <1>3
<1> QED
  BY <1>4 DEF m, T

\* One pass of decoding leaves a text of which nothing is refused plain.
LEMMA DecodeIs ==
    ASSUME NEW U, Chars(U), NEW raw \in Seq(U), ~Ambiguous(Decode(raw))
    PROVE  Plain(Decode(raw))
<1> DEFINE dec == Decode(raw)
<1>1. DOMAIN dec = DOMAIN raw /\ DOMAIN raw = 1..Len(raw)
  BY LenProperties DEF Decode
<1> SUFFICES ASSUME NEW i \in DOMAIN raw
             PROVE  dec[i] = <<dec[i][1], 0>> /\ dec[i][1] \notin {"%", "?"}
  BY <1>1 DEF Plain
<1>2. raw[i][2] \in Nat
  BY <1>1, ElementOfSeq DEF Chars
<1>3. dec[i] = <<raw[i][1], Max({raw[i][2] - 1, 0})>>
  BY DEF Decode
<1>4. Max({raw[i][2] - 1, 0}) \in Nat
  BY <1>2, OneLess
<1>5. ~(dec[i][2] > 0) /\ dec[i][1] \notin {"%", "?"}
  BY <1>1 DEF Ambiguous
<1> QED
  BY <1>3, <1>4, <1>5

\* A plain text reads the same however often it is decoded or cut.
LEMMA PlainStays ==
    ASSUME NEW raw, Plain(Decode(raw))
    PROVE  /\ Decode(Decode(raw)) = Decode(raw)
           /\ CutQuery(Decode(raw)) = Decode(raw)
<1> DEFINE dec == Decode(raw)
<1>1. dec = [i \in DOMAIN dec |-> dec[i]]
  BY DEF Decode
<1> HIDE DEF dec
<1>2. \A i \in DOMAIN dec : dec[i] = <<dec[i][1], 0>> /\ dec[i][1] \notin {"%", "?"}
  BY DEF Plain, dec
<1>3. Decode(dec) = dec
  <2>1. Decode(dec) = [i \in DOMAIN dec |-> <<dec[i][1], Max({dec[i][2] - 1, 0})>>]
    BY DEF Decode
  <2>2. ASSUME NEW i \in DOMAIN dec PROVE <<dec[i][1], Max({dec[i][2] - 1, 0})>> = dec[i]
    <3>1. dec[i][2] = 0
      BY <1>2
    <3>2. Max({0 - 1, 0}) = 0
      BY OneLess
    <3> QED BY <1>2, <3>1, <3>2
  <2> QED BY <1>1, <2>1, <2>2
<1>4. CutQuery(dec) = dec
  <2>1. \A i \in DOMAIN dec : dec[i] # <<"?", 0>>
    BY <1>2
  <2> QED BY <2>1 DEF CutQuery
<1> QED
  BY <1>3, <1>4 DEF dec

\* A path other than "/" is the cleaned text of one decoding, and neither
\* another decoding nor another cut changes that text (cleanURIPath).
THEOREM DecodedOnce ==
    ASSUME NEW U, Chars(U), NEW uri \in Seq(U), cleanURIPath(uri) # Root
    PROVE  LET dec == Decode(CutQuery(uri))
           IN  /\ cleanURIPath(uri) = Clean(dec)
               /\ Decode(dec) = dec /\ CutQuery(dec) = dec
<1> DEFINE raw == CutQuery(uri)
<1>1. raw \in Seq(U)
  BY CutIs
<1>2. ~Ambiguous(Decode(raw)) /\ cleanURIPath(uri) = Clean(Decode(raw))
  BY DEF cleanURIPath
<1> HIDE DEF raw
<1>3. Plain(Decode(raw))
  BY <1>1, <1>2, DecodeIs
<1> QED
  BY <1>2, <1>3, PlainStays DEF raw
=============================================================================
