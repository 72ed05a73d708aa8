-------------------------- MODULE ResolutionProofs --------------------------
(***************************************************************************)
(* Whom a request comes from and what it is for, for any number of         *)
(* proxies, any X-Forwarded-For and any target headers a client may send;  *)
(* and one name for every spelling of a host, one reading of every path,   *)
(* for texts of every length.                                              *)
(***************************************************************************)
EXTENDS Resolution, CanonProofs

-----------------------------------------------------------------------------
(* The entries of X-Forwarded-For *)

\* p is a place of a foreign entry, to the right of every other one.
Right(xff, p) ==
    /\ p \in Foreign(xff)
    /\ \A q \in Foreign(xff) : q[1] < p[1] \/ (q[1] = p[1] /\ q[2] <= p[2])

\* What X-Forwarded-For says once a proxy of ours has passed the request on:
\* the right-most foreign entry is the sender, or there is none because some
\* proxy dropped the header.
Traced(xff, sender, dropped) ==
    \/ Foreign(xff) = {} /\ dropped
    \/ \E p \in Foreign(xff) : Right(xff, p) /\ At(xff, p)[1] = sender

\* A place is a header line and a part of it.
LEMMA PlaceIs ==
    ASSUME NEW xff \in Seq(Seq(Entries)), NEW p
    PROVE  p \in forwardedList(xff) <=>
             /\ p = <<p[1], p[2]>> /\ p[1] \in 1..Len(xff) /\ p[2] \in 1..Len(xff[p[1]])
<1>1. ASSUME NEW i \in 1..Len(xff) PROVE DOMAIN xff[i] = 1..Len(xff[i])
  OBVIOUS
<1>2. DOMAIN xff = 1..Len(xff)
  OBVIOUS
<1>3. p \in forwardedList(xff) <=> \E i \in 1..Len(xff) : p \in {i} \X (1..Len(xff[i]))
  BY <1>1, <1>2 DEF forwardedList
<1>4. ASSUME NEW i \in 1..Len(xff), p \in {i} \X (1..Len(xff[i]))
      PROVE  p = <<p[1], p[2]>> /\ p[1] \in 1..Len(xff) /\ p[2] \in 1..Len(xff[p[1]])
  <2>1. p[1] = i /\ p[2] \in 1..Len(xff[i]) /\ p = <<p[1], p[2]>>
    BY <1>4
  <2> QED BY <2>1
<1>5. ASSUME p = <<p[1], p[2]>>, p[1] \in 1..Len(xff), p[2] \in 1..Len(xff[p[1]])
      PROVE  \E i \in 1..Len(xff) : p \in {i} \X (1..Len(xff[i]))
  <2>1. p \in {p[1]} \X (1..Len(xff[p[1]]))
    BY <1>5
  <2> QED BY <1>5, <2>1
<1> QED
  BY <1>3, <1>4, <1>5

\* The walk from the right ends at the right-most foreign entry.
LEMMA RightMostIs ==
    ASSUME NEW xff \in Seq(Seq(Entries)), NEW p, Right(xff, p)
    PROVE  RightMost(Foreign(xff)) = p
<1>1. ASSUME NEW q \in Foreign(xff)
      PROVE  q = <<q[1], q[2]>> /\ q[1] \in Nat /\ q[2] \in Nat
  <2>1. q \in forwardedList(xff)
    BY DEF Foreign
  <2>2. q = <<q[1], q[2]>> /\ q[1] \in 1..Len(xff) /\ q[2] \in 1..Len(xff[q[1]])
    BY <2>1, PlaceIs
  <2>3. xff[q[1]] \in Seq(Entries)
    BY <2>2
  <2> QED BY <2>2, <2>3
<1> DEFINE Top(q) == \A r \in Foreign(xff) : r[1] < q[1] \/ (r[1] = q[1] /\ r[2] <= q[2])
<1>2. p \in Foreign(xff) /\ Top(p)
  BY DEF Right
<1>3. ASSUME NEW q \in Foreign(xff), Top(q) PROVE q = p
  <2>1. p[1] < q[1] \/ (p[1] = q[1] /\ p[2] <= q[2])
    BY <1>2, <1>3
  <2>2. q[1] < p[1] \/ (q[1] = p[1] /\ q[2] <= p[2])
    BY <1>2, <1>3
  <2>3. q[1] = p[1] /\ q[2] = p[2]
    BY <2>1, <2>2, <1>1, <1>2
  <2> QED BY <2>3, <1>1, <1>2
<1>4. RightMost(Foreign(xff)) = CHOOSE q \in Foreign(xff) : Top(q)
  BY DEF RightMost
<1> HIDE DEF Top
<1>5. RightMost(Foreign(xff)) \in Foreign(xff) /\ Top(RightMost(Foreign(xff)))
  BY <1>2, <1>4
<1> QED
  BY <1>3, <1>5

\* A proxy adds the address of its peer behind all others, in a line of its
\* own or at the end of the last one: an address of ours hides nothing, the
\* sender's becomes the right-most foreign entry.
LEMMA Appended ==
    ASSUME NEW xff \in Seq(Seq(Entries)), NEW new \in Seq(Seq(Entries)),
           NEW peer \in Entries, NEW last,
           last \in forwardedList(new), At(new, last) = peer,
           \A q : q \in forwardedList(new) <=> q \in forwardedList(xff) \/ q = last,
           \A q \in forwardedList(xff) : /\ At(new, q) = At(xff, q) /\ q # last
                                         /\ q[1] < last[1] \/ (q[1] = last[1] /\ q[2] <= last[2])
    PROVE  /\ isTrusted(peer) => Foreign(new) = Foreign(xff)
           /\ ~isTrusted(peer) /\ ~ParseFails(peer) => Right(new, last)
<1>1. \A q : q \in Foreign(new) <=>
              q \in Foreign(xff) \/ (q = last /\ ~ParseFails(peer) /\ ~isTrusted(peer))
  BY DEF Foreign
<1>2. isTrusted(peer) => Foreign(new) = Foreign(xff)
  BY <1>1
<1>3. ASSUME ~isTrusted(peer), ~ParseFails(peer) PROVE Right(new, last)
  <2>1. last \in Foreign(new)
    BY <1>1, <1>3
  <2>2. last[1] \in Int /\ last[2] \in Int
    <3>1. last[1] \in 1..Len(new) /\ last[2] \in 1..Len(new[last[1]])
      BY PlaceIs
    <3>2. new[last[1]] \in Seq(Entries)
      BY <3>1
    <3> QED BY <3>1, <3>2
  <2>3. ASSUME NEW q \in Foreign(new)
        PROVE  q[1] < last[1] \/ (q[1] = last[1] /\ q[2] <= last[2])
    <3>1. q = last \/ q \in forwardedList(xff)
      BY <1>1 DEF Foreign
    <3> QED BY <2>2, <3>1
  <2> QED BY <2>1, <2>3 DEF Right
<1> QED
  BY <1>2, <1>3
\* A header line of its own.
LEMMA AppendedLine ==
    ASSUME NEW xff \in Seq(Seq(Entries)), NEW peer \in Entries
    PROVE  LET new == Append(xff, <<peer>>)
           IN  /\ new \in Seq(Seq(Entries))
               /\ \E last : /\ isTrusted(peer) => Foreign(new) = Foreign(xff)
                            /\ ~isTrusted(peer) /\ ~ParseFails(peer) => Right(new, last)
                            /\ At(new, last) = peer
                            /\ \A q \in forwardedList(xff) : At(new, q) = At(xff, q)
<1> DEFINE new == Append(xff, <<peer>>)
           n == Len(xff) + 1
<1>1. /\ new \in Seq(Seq(Entries)) /\ Len(new) = n /\ new[n] = <<peer>> /\ n \in Nat
      /\ \A i \in 1..Len(xff) : new[i] = xff[i] /\ i < n /\ i \in Int
  OBVIOUS
<1>2. Len(new[n]) = 1 /\ new[n][1] = peer
  BY <1>1
<1> HIDE DEF new, n
<1>3. <<n, 1>> \in forwardedList(new) /\ At(new, <<n, 1>>) = peer
  <2>1. n \in 1..Len(new) /\ 1 \in 1..Len(new[n])
    BY <1>1, <1>2 DEF n
  <2> QED BY <2>1, <1>1, <1>2, PlaceIs DEF At
<1>4. ASSUME NEW q PROVE q \in forwardedList(new) <=> q \in forwardedList(xff) \/ q = <<n, 1>>
  <2>1. ASSUME q \in forwardedList(new) PROVE q \in forwardedList(xff) \/ q = <<n, 1>>
    <3>1. q = <<q[1], q[2]>> /\ q[1] \in 1..Len(new) /\ q[2] \in 1..Len(new[q[1]])
      BY <2>1, <1>1, PlaceIs
    <3>2. CASE q[1] = n
      <4>1. q[2] = 1
        BY <3>1, <3>2, <1>2
      <4> QED BY <4>1, <3>1, <3>2
    <3>3. CASE q[1] # n
      <4>1. q[1] \in 1..Len(xff)
        BY <3>1, <3>3, <1>1 DEF n
      <4> QED BY <4>1, <3>1, <1>1, PlaceIs
    <3> QED BY <3>2, <3>3
  <2>2. ASSUME q \in forwardedList(xff) PROVE q \in forwardedList(new)
    <3>1. q = <<q[1], q[2]>> /\ q[1] \in 1..Len(xff) /\ q[2] \in 1..Len(xff[q[1]])
      BY <2>2, PlaceIs
    <3>2. q[1] \in 1..Len(new)
      BY <3>1, <1>1 DEF n
    <3> QED BY <3>1, <3>2, <1>1, PlaceIs
  <2> QED BY <2>1, <2>2, <1>3
<1>5. ASSUME NEW q \in forwardedList(xff)
      PROVE  /\ At(new, q) = At(xff, q) /\ q # <<n, 1>>
             /\ q[1] < n \/ (q[1] = n /\ q[2] <= 1)
  <2>1. q[1] \in 1..Len(xff)
    BY PlaceIs
  <2> QED BY <2>1, <1>1 DEF At
<1>6. /\ isTrusted(peer) => Foreign(new) = Foreign(xff)
      /\ ~isTrusted(peer) /\ ~ParseFails(peer) => Right(new, <<n, 1>>)
  <2> DEFINE last == <<n, 1>>
  <2>1. last[1] = n /\ last[2] = 1
    OBVIOUS
  <2> HIDE DEF last
  <2>2. last \in forwardedList(new) /\ At(new, last) = peer
    BY <1>3 DEF last
  <2>3. \A q : q \in forwardedList(new) <=> q \in forwardedList(xff) \/ q = last
    BY <1>4 DEF last
  <2>4. \A q \in forwardedList(xff) :
          /\ At(new, q) = At(xff, q) /\ q # last
          /\ q[1] < last[1] \/ (q[1] = last[1] /\ q[2] <= last[2])
    BY <1>5, <2>1 DEF last
  <2>5. /\ isTrusted(peer) => Foreign(new) = Foreign(xff)
        /\ ~isTrusted(peer) /\ ~ParseFails(peer) => Right(new, last)
    BY <1>1, <2>2, <2>3, <2>4, Appended
  <2> QED BY <2>5 DEF last
<1> QED
  BY <1>1, <1>3, <1>5, <1>6 DEF new

\* The end of the last header line.
LEMMA AppendedPart ==
    ASSUME NEW xff \in Seq(Seq(Entries)), xff # <<>>, NEW peer \in Entries
    PROVE  LET new == Append(Front(xff), Append(Last(xff), peer))
           IN  /\ new \in Seq(Seq(Entries))
               /\ \E last : /\ isTrusted(peer) => Foreign(new) = Foreign(xff)
                            /\ ~isTrusted(peer) /\ ~ParseFails(peer) => Right(new, last)
                            /\ At(new, last) = peer
                            /\ \A q \in forwardedList(xff) : At(new, q) = At(xff, q)
<1> DEFINE n == Len(xff)
           line == xff[n]
           m == Len(line) + 1
           new == Append(Front(xff), Append(Last(xff), peer))
<1>1. n \in Nat \ {0}
  OBVIOUS
<1>2. line \in Seq(Entries) /\ Last(xff) = line /\ m \in Nat \ {0}
  BY <1>1 DEF Last
<1>3. /\ Append(line, peer) \in Seq(Entries) /\ Len(Append(line, peer)) = m
      /\ Append(line, peer)[m] = peer
      /\ \A j \in 1..Len(line) : Append(line, peer)[j] = line[j] /\ j < m /\ j \in Int
  BY <1>2
<1>4. /\ Front(xff) \in Seq(Seq(Entries)) /\ Len(Front(xff)) = n - 1
      /\ \A i \in 1..(n - 1) : Front(xff)[i] = xff[i]
  <2>1. \A i \in 1..(n - 1) : xff[i] \in Seq(Entries)
    BY <1>1
  <2> HIDE DEF n
  <2>2. /\ SubSeq(xff, 1, n - 1) \in Seq(Seq(Entries))
        /\ Len(SubSeq(xff, 1, n - 1)) = IF 1 <= n - 1 THEN n - 1 - 1 + 1 ELSE 0
        /\ \A i \in 1..(n - 1 - 1 + 1) : SubSeq(xff, 1, n - 1)[i] = xff[1 + i - 1]
    BY <2>1, <1>1, SubSeqProperties
  <2>3. Front(xff) = SubSeq(xff, 1, n - 1)
    BY DEF Front, n
  <2>4. \A i \in 1..(n - 1) : i \in 1..(n - 1 - 1 + 1) /\ 1 + i - 1 = i
    BY <1>1
  <2> QED BY <2>2, <2>3, <2>4, <1>1
<1>5. /\ new \in Seq(Seq(Entries)) /\ Len(new) = n /\ new[n] = Append(line, peer)
      /\ \A i \in 1..(n - 1) : new[i] = xff[i]
  <2> HIDE DEF n, line, m
  <2>1. new = Append(Front(xff), Append(line, peer))
    BY <1>2
  <2> HIDE DEF new
  <2>2. /\ new \in Seq(Seq(Entries)) /\ Len(new) = Len(Front(xff)) + 1
        /\ new[Len(Front(xff)) + 1] = Append(line, peer)
        /\ \A i \in 1..Len(Front(xff)) : new[i] = Front(xff)[i]
    BY <2>1, <1>3, <1>4
  <2> QED BY <2>2, <1>4, <1>1
<1> HIDE DEF new, m, line, n
<1>6. <<n, m>> \in forwardedList(new) /\ At(new, <<n, m>>) = peer
  <2>1. n \in 1..Len(new) /\ m \in 1..Len(new[n])
    BY <1>1, <1>2, <1>3, <1>5
  <2> QED BY <2>1, <1>3, <1>5, PlaceIs DEF At
<1>7. ASSUME NEW q PROVE q \in forwardedList(new) <=> q \in forwardedList(xff) \/ q = <<n, m>>
  <2>1. ASSUME q \in forwardedList(new) PROVE q \in forwardedList(xff) \/ q = <<n, m>>
    <3>1. q = <<q[1], q[2]>> /\ q[1] \in 1..n /\ q[2] \in 1..Len(new[q[1]])
      BY <2>1, <1>5, PlaceIs
    <3>2. CASE q[1] = n /\ q[2] = m
      BY <3>1, <3>2
    <3>3. CASE q[1] = n /\ q[2] # m
      <4>1. q[2] \in 1..Len(line)
        BY <3>1, <3>3, <1>2, <1>3, <1>5 DEF m
      <4> QED BY <4>1, <3>1, <3>3, PlaceIs DEF n, line
    <3>4. CASE q[1] # n
      <4>1. q[1] \in 1..(n - 1)
        BY <3>1, <3>4, <1>1
      <4>2. new[q[1]] = xff[q[1]]
        BY <4>1, <1>5
      <4> QED BY <4>2, <3>1, PlaceIs DEF n
    <3> QED BY <3>2, <3>3, <3>4
  <2>2. ASSUME q \in forwardedList(xff) PROVE q \in forwardedList(new)
    <3>1. q = <<q[1], q[2]>> /\ q[1] \in 1..n /\ q[2] \in 1..Len(xff[q[1]])
      BY <2>2, PlaceIs DEF n
    <3>2. q[2] \in 1..Len(new[q[1]])
      <4>1. CASE q[1] = n
        BY <4>1, <3>1, <1>2, <1>3, <1>5 DEF line, m
      <4>2. CASE q[1] # n
        <5>1. q[1] \in 1..(n - 1)
          BY <3>1, <4>2, <1>1
        <5> QED BY <5>1, <3>1, <1>5
      <4> QED BY <4>1, <4>2
    <3> QED BY <3>1, <3>2, <1>5, PlaceIs
  <2> QED BY <2>1, <2>2, <1>6
<1>8. ASSUME NEW q \in forwardedList(xff)
      PROVE  /\ At(new, q) = At(xff, q) /\ q # <<n, m>>
             /\ q[1] < n \/ (q[1] = n /\ q[2] <= m)
  <2>1. q[1] \in 1..n /\ q[2] \in 1..Len(xff[q[1]])
    BY PlaceIs DEF n
  <2>2. CASE q[1] = n
    <3>1. q[2] \in 1..Len(line)
      BY <2>1, <2>2 DEF line
    <3>2. new[n][q[2]] = line[q[2]] /\ q[2] < m /\ q[2] \in Int
      BY <3>1, <1>3, <1>5
    <3> QED BY <2>2, <3>2, <1>2 DEF At, line
  <2>3. CASE q[1] # n
    <3>1. q[1] \in 1..(n - 1) /\ q[1] < n
      BY <2>1, <2>3, <1>1
    <3> QED BY <3>1, <1>5, <2>3 DEF At
  <2> QED BY <2>2, <2>3
<1>9. /\ isTrusted(peer) => Foreign(new) = Foreign(xff)
      /\ ~isTrusted(peer) /\ ~ParseFails(peer) => Right(new, <<n, m>>)
  <2> DEFINE last == <<n, m>>
  <2>1. last[1] = n /\ last[2] = m
    OBVIOUS
  <2> HIDE DEF last
  <2>2. last \in forwardedList(new) /\ At(new, last) = peer
    BY <1>6 DEF last
  <2>3. \A q : q \in forwardedList(new) <=> q \in forwardedList(xff) \/ q = last
    BY <1>7 DEF last
  <2>4. \A q \in forwardedList(xff) :
          /\ At(new, q) = At(xff, q) /\ q # last
          /\ q[1] < last[1] \/ (q[1] = last[1] /\ q[2] <= last[2])
    BY <1>8, <2>1 DEF last
  <2>5. /\ isTrusted(peer) => Foreign(new) = Foreign(xff)
        /\ ~isTrusted(peer) /\ ~ParseFails(peer) => Right(new, last)
    BY <1>5, <2>2, <2>3, <2>4, Appended
  <2> QED BY <2>5 DEF last
<1> QED
  BY <1>5, <1>6, <1>8, <1>9 DEF new

\* Appending keeps the trace, whichever of the two the proxy does.
LEMMA TraceKept ==
    ASSUME NEW xff \in Seq(Seq(Entries)), NEW new, NEW peer \in Entries, NEW last,
           NEW sender, NEW dropped, ~ParseFails(peer),
           isTrusted(peer) => Foreign(new) = Foreign(xff) /\ Traced(xff, sender, dropped),
           ~isTrusted(peer) => Right(new, last) /\ peer[1] = sender,
           At(new, last) = peer,
           \A q \in forwardedList(xff) : At(new, q) = At(xff, q)
    PROVE  Traced(new, sender, dropped)
<1>1. CASE ~isTrusted(peer)
  BY <1>1 DEF Traced, Right
<1>2. CASE isTrusted(peer) /\ Foreign(xff) = {} /\ dropped
  BY <1>2 DEF Traced
<1>3. CASE isTrusted(peer) /\ ~(Foreign(xff) = {} /\ dropped)
  <2>1. PICK p \in Foreign(xff) : Right(xff, p) /\ At(xff, p)[1] = sender
    BY <1>3 DEF Traced
  <2>2. p \in forwardedList(xff) /\ Right(new, p)
    BY <1>3, <2>1 DEF Right, Foreign
  <2> QED BY <1>3, <2>1, <2>2 DEF Traced
<1> QED
  BY <1>1, <1>2, <1>3
-----------------------------------------------------------------------------
(* The request on its way *)

WireShape(w) ==
    DOMAIN w = {"sender", "from", "real", "line", "xff", "claim", "made"}

\* What the proxy that routes the request says of it.
Routed(real) == [host |-> <<real.host>>, uri |-> real.uri]

\* What the engines answer to the request as it stands.
Answer(w) == [ ip |-> ClientIP(w), target |-> resolveTarget(w),
               site |-> [b \in BOOLEAN |-> siteClientIP(w, b)] ]

\* A request that no proxy has passed on yet is the sender's own.
AsSent(w) == w.from[1] = w.sender /\ w.line = w.real

\* One that a proxy has passed on comes from an address of ours, has a trace of
\* its sender, and the headers of the chosen convention are true.
PassedOn(w, dropped) ==
    /\ w.from[1] \in Proxy /\ Traced(w.xff, w.sender, dropped)
    /\ w.claim[Chosen] = Routed(w.real)

WireOK(w) ==
    /\ WireShape(w) /\ w.sender \in Client
    /\ w.from \in (Client \cup Proxy) \X Spelling
    /\ w.xff \in Seq(Seq(Entries)) /\ DOMAIN w.claim = ToSet(Convention)
    /\ firstHostInChain(<<w.real.host>>) # Nothing /\ CanonServerName(w.real.host) # Nothing
    /\ w.real.uri # Nothing
    /\ \A c \in ToSet(Convention) \ {Chosen} : w.claim[c] = w.made[c]

\* The inductive invariant of the request.
WireInv ==
    /\ hops \in Nat
    /\ wire = Nothing => hops = 0 /\ answer = Nothing
    /\ wire # Nothing => /\ WireOK(wire)
                         /\ hops = 0 => AsSent(wire)
                         /\ hops > 0 => PassedOn(wire, stripped)
    /\ answer # Nothing => answer = Answer(wire)

\* An address parses, and a client's is not trusted.
LEMMA Parses ==
    ASSUME NEW a \in Client \cup Proxy, NEW e \in Spellings(a)
    PROVE  /\ e \in (Client \cup Proxy) \X Spelling /\ e \in Entries /\ e[1] = a
           /\ ~ParseFails(e) /\ (isTrusted(e) <=> a \in Proxy)
<1>1. e[1] = a /\ e = <<e[1], e[2]>> /\ e[2] \in Spelling
  BY DEF Spellings
<1>2. a # "" /\ a # "junk"
  BY ResolutionAssumption
<1>3. e # Junk /\ e # Blank
  <2>1. Junk[1] = "junk" /\ Blank[1] = ""
    BY DEF Junk, Blank
  <2> QED BY <1>1, <1>2, <2>1
<1> QED
  BY <1>1, <1>3 DEF Entries, ParseFails, isTrusted

\* A client's request is its own.
LEMMA SendKeeps ==
    ASSUME WireInv, Send
    PROVE  WireInv'
<1>1. PICK r \in Requests :
        wire' = [ sender |-> r.client, from |-> <<r.client, r.spelling>>,
                  real |-> [host |-> r.host, uri |-> r.uri],
                  line |-> [host |-> r.host, uri |-> r.uri],
                  xff |-> r.xff, claim |-> r.claim, made |-> r.claim ]
  BY DEF Send
<1>2. hops = 0 /\ answer = Nothing /\ UNCHANGED <<hops, answer, stripped>>
  BY DEF Send, WireInv
<1>3. WireOK(wire')
  BY <1>1, ResolutionAssumption DEF WireOK, WireShape
<1>4. AsSent(wire')
  BY <1>1 DEF AsSent
<1> QED
  BY <1>2, <1>3, <1>4 DEF WireInv

\* A proxy passes a request on whose X-Forwarded-For, as it leaves it, traces
\* the sender.
LEMMA ForwardKeeps ==
    ASSUME WireInv, wire # Nothing, NEW p \in Proxy, NEW spelled \in Spellings(p), NEW xff,
           Forward(spelled, xff), xff \in Seq(Seq(Entries)),
           Traced(xff, wire.sender, stripped')
    PROVE  WireInv'
<1> DEFINE w == [wire EXCEPT !.from = spelled, !.xff = xff, !.line = Upstream,
                             !.claim[Chosen] = [host |-> <<wire.real.host>>,
                                                uri |-> wire.real.uri]]
<1>1. WireOK(wire) /\ hops \in Nat
  BY DEF WireInv
<1>2. /\ wire' = w /\ hops' = hops + 1 /\ answer' = Nothing /\ answer = Nothing
  BY DEF Forward
<1>3. /\ WireShape(w) /\ w.sender = wire.sender /\ w.from = spelled /\ w.xff = xff
      /\ w.real = wire.real /\ w.made = wire.made
      /\ w.claim = [wire.claim EXCEPT ![Chosen] = Routed(wire.real)]
      /\ "sender" \in DOMAIN w
  <2>1. DOMAIN wire = {"sender", "from", "real", "line", "xff", "claim", "made"}
    BY <1>1 DEF WireOK, WireShape
  <2>2. DOMAIN w = DOMAIN wire
    OBVIOUS
  <2>3. /\ w.sender = wire.sender /\ w.from = spelled /\ w.xff = xff
        /\ w.real = wire.real /\ w.made = wire.made
    BY <2>1
  <2>4. w.claim = [wire.claim EXCEPT ![Chosen] = Routed(wire.real)]
    BY <2>1 DEF Routed
  <2> QED BY <2>1, <2>2, <2>3, <2>4 DEF WireShape
<1> HIDE DEF w
<1>5. w # Nothing
  BY <1>3 DEF Nothing
<1>6. spelled \in (Client \cup Proxy) \X Spelling /\ spelled[1] \in Proxy
  BY Parses
<1>7. /\ DOMAIN w.claim = ToSet(Convention) /\ w.claim[Chosen] = Routed(wire.real)
      /\ \A c \in ToSet(Convention) \ {Chosen} : w.claim[c] = wire.made[c]
  BY <1>1, <1>3, ResolutionAssumption DEF WireOK
<1>8. WireOK(w)
  BY <1>1, <1>3, <1>6, <1>7 DEF WireOK
<1>9. PassedOn(w, stripped')
  BY <1>3, <1>6, <1>7 DEF PassedOn
<1> QED
  BY <1>1, <1>2, <1>5, <1>8, <1>9 DEF WireInv

\* The address the request came from, spelled by the next proxy.
LEMMA PeerIs ==
    ASSUME WireInv, wire # Nothing, NEW peer \in Spellings(wire.from[1])
    PROVE  /\ peer \in Entries /\ ~ParseFails(peer)
           /\ isTrusted(peer) => hops > 0 /\ Traced(wire.xff, wire.sender, stripped)
           /\ ~isTrusted(peer) => hops = 0 /\ peer[1] = wire.sender
<1>1. WireOK(wire) /\ hops \in Nat /\ wire.from[1] \in Client \cup Proxy
  BY DEF WireInv, WireOK
<1>2. /\ peer \in Entries /\ peer[1] = wire.from[1] /\ ~ParseFails(peer)
      /\ (isTrusted(peer) <=> wire.from[1] \in Proxy)
  BY <1>1, Parses
<1>3. wire.sender \in Client /\ wire.sender \notin Proxy
  BY <1>1, ResolutionAssumption DEF WireOK
<1>4. CASE hops = 0
  BY <1>2, <1>3, <1>4 DEF WireInv, AsSent
<1>5. CASE hops > 0
  BY <1>2, <1>5 DEF WireInv, PassedOn
<1> QED
  BY <1>1, <1>4, <1>5

\* A proxy that appends its peer's address keeps the trace: either the peer is
\* the client itself, or another proxy behind which the trace already lies.
LEMMA AppendKeeps ==
    ASSUME WireInv, NEW p \in Proxy, AppendXFF(p)
    PROVE  WireInv'
<1>1. wire # Nothing /\ stripped' = stripped
  BY DEF AppendXFF
<1>2. wire.xff \in Seq(Seq(Entries))
  BY <1>1 DEF WireInv, WireOK
<1>3. PICK spelled \in Spellings(p), peer \in Spellings(wire.from[1]) :
        \/ Forward(spelled, Append(wire.xff, <<peer>>))
        \/ /\ wire.xff # <<>>
           /\ Forward(spelled, Append(Front(wire.xff), Append(Last(wire.xff), peer)))
  BY DEF AppendXFF
<1>4. /\ peer \in Entries /\ ~ParseFails(peer)
      /\ isTrusted(peer) => Traced(wire.xff, wire.sender, stripped)
      /\ ~isTrusted(peer) => peer[1] = wire.sender
  BY <1>1, PeerIs
<1>5. CASE Forward(spelled, Append(wire.xff, <<peer>>))
  <2> DEFINE new == Append(wire.xff, <<peer>>)
  <2>1. /\ new \in Seq(Seq(Entries))
        /\ \E last : /\ isTrusted(peer) => Foreign(new) = Foreign(wire.xff)
                     /\ ~isTrusted(peer) /\ ~ParseFails(peer) => Right(new, last)
                     /\ At(new, last) = peer
                     /\ \A q \in forwardedList(wire.xff) : At(new, q) = At(wire.xff, q)
    BY <1>2, <1>4, AppendedLine
  <2> HIDE DEF new
  <2>2. Traced(new, wire.sender, stripped)
    BY <1>2, <1>4, <2>1, TraceKept
  <2> QED BY <1>1, <1>5, <2>1, <2>2, ForwardKeeps DEF new
<1>6. CASE /\ wire.xff # <<>>
           /\ Forward(spelled, Append(Front(wire.xff), Append(Last(wire.xff), peer)))
  <2> DEFINE new == Append(Front(wire.xff), Append(Last(wire.xff), peer))
  <2>1. /\ new \in Seq(Seq(Entries))
        /\ \E last : /\ isTrusted(peer) => Foreign(new) = Foreign(wire.xff)
                     /\ ~isTrusted(peer) /\ ~ParseFails(peer) => Right(new, last)
                     /\ At(new, last) = peer
                     /\ \A q \in forwardedList(wire.xff) : At(new, q) = At(wire.xff, q)
    BY <1>2, <1>4, <1>6, AppendedPart
  <2> HIDE DEF new
  <2>2. Traced(new, wire.sender, stripped)
    BY <1>2, <1>4, <2>1, TraceKept
  <2> QED BY <1>1, <1>6, <2>1, <2>2, ForwardKeeps DEF new
<1> QED
  BY <1>3, <1>5, <1>6
\* One entry, that of the peer, is all there is.
LEMMA ReplaceKeeps ==
    ASSUME WireInv, NEW p \in Proxy, ReplaceXFF(p)
    PROVE  WireInv'
<1>1. wire # Nothing /\ stripped' = (stripped \/ hops > 0)
  BY DEF ReplaceXFF
<1>2. PICK spelled \in Spellings(p), peer \in Spellings(wire.from[1]) :
        Forward(spelled, << <<peer>> >>)
  BY DEF ReplaceXFF
<1>3. /\ peer \in Entries /\ ~ParseFails(peer)
      /\ isTrusted(peer) => hops > 0
      /\ ~isTrusted(peer) => peer[1] = wire.sender
  BY <1>1, PeerIs
<1> DEFINE new == << <<peer>> >>
<1>4. <<>> \in Seq(Seq(Entries)) /\ new = Append(<<>>, <<peer>>)
  OBVIOUS
<1>5. Foreign(<<>>) = {}
  BY DEF Foreign, forwardedList
<1> HIDE DEF new
<1>6. /\ new \in Seq(Seq(Entries))
      /\ \E last : /\ isTrusted(peer) => Foreign(new) = Foreign(<<>>)
                   /\ ~isTrusted(peer) /\ ~ParseFails(peer) => Right(new, last)
                   /\ At(new, last) = peer
  <2>1. PICK none \in Seq(Seq(Entries)) : none = <<>>
    BY <1>4
  <2>2. Append(none, <<peer>>) = new
    BY <1>4, <2>1
  <2>3. LET long == Append(none, <<peer>>)
        IN  /\ long \in Seq(Seq(Entries))
            /\ \E last : /\ isTrusted(peer) => Foreign(long) = Foreign(none)
                         /\ ~isTrusted(peer) /\ ~ParseFails(peer) => Right(long, last)
                         /\ At(long, last) = peer
                         /\ \A q \in forwardedList(none) : At(long, q) = At(none, q)
    BY <1>3, AppendedLine
  <2>4. Foreign(none) = Foreign(<<>>)
    BY <2>1
  <2> QED BY <2>2, <2>3, <2>4
<1>7. Traced(new, wire.sender, stripped')
  BY <1>1, <1>3, <1>5, <1>6 DEF Traced, Right
<1> QED
  BY <1>1, <1>2, <1>6, <1>7, ForwardKeeps DEF new

\* A proxy that drops the header leaves none to trace, and is remembered.
LEMMA StripKeeps ==
    ASSUME WireInv, NEW p \in Proxy, StripXFF(p)
    PROVE  WireInv'
<1>1. wire # Nothing /\ stripped'
  BY DEF StripXFF
<1>2. PICK spelled \in Spellings(p) : Forward(spelled, <<>>)
  BY DEF StripXFF
<1>3. <<>> \in Seq(Seq(Entries)) /\ Foreign(<<>>) = {}
  BY DEF Foreign, forwardedList
<1>4. Traced(<<>>, wire.sender, stripped')
  BY <1>1, <1>3 DEF Traced
<1> QED
  BY <1>1, <1>2, <1>3, <1>4, ForwardKeeps

\* Every step of the wire keeps its invariant; writing a text does not touch it.
LEMMA WireStep ==
    ASSUME WireInv, [Next]_vars
    PROVE  WireInv'
<1>1. CASE Resolve
  BY <1>1 DEF Resolve, WireInv, Answer
<1>2. ASSUME NEW kind, NEW chars, NEW max, Write(kind, chars, max) PROVE WireInv'
  BY <1>2 DEF Write, WireInv
<1>3. CASE UNCHANGED vars
  BY <1>3 DEF vars, WireInv
<1> QED
  BY <1>1, <1>2, <1>3, SendKeeps, AppendKeeps, ReplaceKeeps, StripKeeps DEF Next

\* The engines answer a request whose headers trace it to its sender or to
\* nobody, whatever way the request came.
LEMMA WireIsInvariant == Spec => []WireInv
<1>1. Init => WireInv
  BY DEF Init, WireInv
<1> QED
  BY <1>1, WireStep, PTL DEF Spec

-----------------------------------------------------------------------------
(* Whom the request comes from *)

\* The walk finds the sender, or nobody where the header was dropped.
LEMMA Walk ==
    ASSUME WireInv, wire # Nothing, isTrusted(wire.from)
    PROVE  /\ Foreign(wire.xff) = {} => stripped
           /\ Foreign(wire.xff) # {} =>
                At(wire.xff, RightMost(Foreign(wire.xff)))[1] = wire.sender
<1>1. WireOK(wire) /\ hops \in Nat
  BY DEF WireInv
<1>2. hops > 0
  <2>1. wire.from[1] \in Proxy /\ wire.sender \notin Proxy
    BY <1>1, ResolutionAssumption DEF isTrusted, WireOK
  <2> QED BY <1>1, <2>1 DEF WireInv, AsSent
<1>3. Traced(wire.xff, wire.sender, stripped)
  BY <1>2 DEF WireInv, PassedOn
<1>4. CASE Foreign(wire.xff) = {} /\ stripped
  BY <1>4
<1>5. CASE \E p \in Foreign(wire.xff) : Right(wire.xff, p) /\ At(wire.xff, p)[1] = wire.sender
  <2>1. PICK p \in Foreign(wire.xff) : Right(wire.xff, p) /\ At(wire.xff, p)[1] = wire.sender
    BY <1>5
  <2>2. RightMost(Foreign(wire.xff)) = p
    BY <1>1, <2>1, RightMostIs DEF WireOK
  <2> QED BY <2>1, <2>2
<1> QED
  BY <1>3, <1>4, <1>5 DEF Traced

\* A request that no proxy of ours passed on comes from its sender.
LEMMA Direct ==
    ASSUME WireInv, wire # Nothing, ~isTrusted(wire.from)
    PROVE  wire.from[1] = wire.sender /\ wire.line = wire.real
<1>1. hops \in Nat /\ ~(hops > 0)
  BY DEF WireInv, PassedOn, isTrusted
<1> QED
  BY <1>1 DEF WireInv, AsSent

\* Only the address counts, not its spelling.
LEMMA KeyIs ==
    ASSUME NEW e, NEW a, e[1] = a
    PROVE  CanonIP(e) = CanonIP(<<a, "plain">>)
  BY DEF CanonIP

\* What the resolvers answer on such a wire is the sender's address or nothing.
LEMMA Keyed ==
    ASSUME WireInv
    PROVE  ClientKeyed
<1> SUFFICES ASSUME answer # Nothing
             PROVE  /\ {answer.ip, answer.site[TRUE]}
                         \subseteq {CanonIP(<<wire.sender, "plain">>), Denied}
                    /\ answer.site[FALSE] = CanonIP(wire.from)
  BY DEF ClientKeyed
<1>1. wire # Nothing /\ answer = Answer(wire)
  BY DEF WireInv
<1>2. /\ answer.ip = ClientIP(wire) /\ answer.site[TRUE] = siteClientIP(wire, TRUE)
      /\ answer.site[FALSE] = siteClientIP(wire, FALSE)
  BY <1>1 DEF Answer
<1>3. siteClientIP(wire, FALSE) = CanonIP(wire.from)
  BY DEF siteClientIP
<1>4. CASE ~isTrusted(wire.from)
  <2>1. ClientIP(wire) = CanonIP(wire.from) /\ siteClientIP(wire, TRUE) = CanonIP(wire.from)
    BY <1>4 DEF ClientIP, siteClientIP
  <2>2. CanonIP(wire.from) = CanonIP(<<wire.sender, "plain">>)
    BY <1>1, <1>4, Direct, KeyIs
  <2> QED BY <1>2, <1>3, <2>1, <2>2
<1>5. CASE isTrusted(wire.from) /\ Foreign(wire.xff) # {}
  <2> DEFINE e == At(wire.xff, RightMost(Foreign(wire.xff)))
  <2>1. ClientIP(wire) = CanonIP(e) /\ siteClientIP(wire, TRUE) = CanonIP(e)
    BY <1>5 DEF ClientIP, siteClientIP
  <2>2. CanonIP(e) = CanonIP(<<wire.sender, "plain">>)
    BY <1>1, <1>5, Walk, KeyIs
  <2> QED BY <1>2, <1>3, <2>1, <2>2
<1>6. CASE isTrusted(wire.from) /\ Foreign(wire.xff) = {}
  <2>1. ClientIP(wire) = Denied /\ siteClientIP(wire, TRUE) = Denied
    BY <1>6 DEF ClientIP, siteClientIP
  <2> QED BY <1>2, <1>3, <2>1
<1> QED
  BY <1>4, <1>5, <1>6

\* Whatever a client writes into X-Forwarded-For and however many proxies of
\* the operator pass the request on, a grant is keyed on the nearest sender
\* outside or the request is denied (ClientIP, clientIP of the Caddy module).
THEOREM KeyedOnTheSender == Spec => []ClientKeyed
<1>1. WireInv => ClientKeyed
  BY Keyed
<1> QED
  BY <1>1, WireIsInvariant, PTL

\* ... and it is the sender's address where no proxy dropped the header.
LEMMA Reached ==
    ASSUME WireInv
    PROVE  ClientReached
<1> SUFFICES ASSUME answer # Nothing, ~stripped, wire.sender \notin Zoned
             PROVE  answer.ip # Denied /\ answer.site[TRUE] # Denied
  BY DEF ClientReached
<1>1. wire # Nothing /\ answer = Answer(wire) /\ wire.sender \in Client
  BY DEF WireInv, WireOK
<1>2. answer.ip = ClientIP(wire) /\ answer.site[TRUE] = siteClientIP(wire, TRUE)
  BY <1>1 DEF Answer
<1>3. ASSUME NEW e, e[1] = wire.sender PROVE CanonIP(e) # Denied
  BY <1>1, <1>3, ResolutionAssumption DEF CanonIP
<1>4. CASE ~isTrusted(wire.from)
  <2>1. ClientIP(wire) = CanonIP(wire.from) /\ siteClientIP(wire, TRUE) = CanonIP(wire.from)
    BY <1>4 DEF ClientIP, siteClientIP
  <2> QED BY <1>1, <1>2, <1>3, <1>4, <2>1, Direct
<1>5. CASE isTrusted(wire.from)
  <2> DEFINE e == At(wire.xff, RightMost(Foreign(wire.xff)))
  <2>1. Foreign(wire.xff) # {} /\ e[1] = wire.sender
    BY <1>1, <1>5, Walk
  <2>2. ClientIP(wire) = CanonIP(e) /\ siteClientIP(wire, TRUE) = CanonIP(e)
    BY <1>5, <2>1 DEF ClientIP, siteClientIP
  <2> HIDE DEF e
  <2> QED BY <1>2, <1>3, <2>1, <2>2
<1> QED
  BY <1>4, <1>5

\* A client with a canonical address is not denied while every proxy passes on
\* the address it got the request from (ClientIP).
THEOREM SenderIsReached == Spec => []ClientReached
<1>1. WireInv => ClientReached
  BY Reached
<1> QED
  BY <1>1, WireIsInvariant, PTL

-----------------------------------------------------------------------------
(* What the request is for *)

\* The conventions are read in an order.
LEMMA ConventionIs ==
    /\ DOMAIN Convention \subseteq Int
    /\ \E k \in DOMAIN Convention : Convention[k] = Chosen
    /\ \A i \in DOMAIN Convention : Convention[i] \in ToSet(Convention)
<1>1. DOMAIN Convention = 1..Len(Convention) /\ Len(Convention) \in Nat
  <2>1. Convention \in Seq({"forwarded", "original-url", "original"})
    BY ResolutionAssumption
  <2> QED BY <2>1, LenProperties
<1>2. Chosen \in ToSet(Convention)
  BY ResolutionAssumption
<1> QED
  BY <1>1, <1>2 DEF ToSet

\* The target of a request whose chosen convention tells the truth is the true
\* one unless two claims conflict, and then one of them is another convention's.
LEMMA TargetIs ==
    ASSUME NEW w, isTrusted(w.from), NEW real, w.claim[Chosen] = Routed(real),
           firstHostInChain(<<real.host>>) # Nothing, CanonServerName(real.host) # Nothing,
           real.uri # Nothing
    PROVE  LET service == CanonServerName(real.host)
               uri == cleanURIPath(real.uri)
           IN  \/ resolveTarget(w) = [service |-> service, uri |-> uri, conflict |-> FALSE]
               \/ /\ resolveTarget(w) = Conflict
                  /\ \E c \in ToSet(Convention) \ {Chosen} :
                       \/ /\ firstHostInChain(w.claim[c].host) # Nothing
                          /\ CanonServerName(firstHostInChain(w.claim[c].host)) # service
                       \/ w.claim[c].uri # Nothing /\ cleanURIPath(w.claim[c].uri) # uri
<1> DEFINE views == forwardedViews(w)
           name(i) == CanonServerName(views[i].host)
           path(i) == cleanURIPath(views[i].uri)
           named == { i \in Hosts(views) : name(i) # Nothing }
           byName == \E i \in named, j \in Hosts(views) : i < j /\ name(i) # name(j)
           byPath == \E i, j \in Uris(views) : path(i) # path(j)
           service == CanonServerName(real.host)
           uri == cleanURIPath(real.uri)
<1>1. /\ DOMAIN views = DOMAIN Convention
      /\ \A i \in DOMAIN Convention :
           /\ views[i].host = firstHostInChain(w.claim[Convention[i]].host)
           /\ views[i].uri = w.claim[Convention[i]].uri
  BY DEF forwardedViews
<1>2. firstHostInChain(<<real.host>>) = real.host
  <2>1. Head(<<real.host>>) = real.host
    OBVIOUS
  <2>2. firstHostInChain(<<real.host>>) \in {Nothing, Head(<<real.host>>)}
    BY DEF firstHostInChain
  <2> QED BY <2>1, <2>2
<1>3. ASSUME NEW i \in DOMAIN Convention, Convention[i] = Chosen
      PROVE  views[i].host = real.host /\ views[i].uri = real.uri
  BY <1>1, <1>2, <1>3 DEF Routed
<1>4. resolveTarget(w) =
        IF byName \/ byPath THEN Conflict
        ELSE [ service |-> IF named = {} THEN Line(w).service
                           ELSE name(CHOOSE i \in named : TRUE),
               uri |-> IF Uris(views) = {} THEN Line(w).uri
                       ELSE path(CHOOSE i \in Uris(views) : TRUE),
               conflict |-> FALSE ]
  BY DEF resolveTarget
<1>5. Hosts(views) \subseteq DOMAIN Convention /\ Uris(views) \subseteq DOMAIN Convention
  BY <1>1 DEF Hosts, Uris
<1>6. /\ \A i \in Hosts(views) : views[i].host # Nothing
      /\ \A i \in Uris(views) : views[i].uri # Nothing
  BY DEF Hosts, Uris
<1>7. PICK k \in DOMAIN Convention : Convention[k] = Chosen
  BY ConventionIs
<1>8. k \in named /\ k \in Uris(views) /\ name(k) = service /\ path(k) = uri
  BY <1>1, <1>2, <1>3, <1>7 DEF Hosts, Uris
<1> DEFINE Differs(c) == \/ /\ firstHostInChain(w.claim[c].host) # Nothing
                            /\ CanonServerName(firstHostInChain(w.claim[c].host)) # service
                         \/ w.claim[c].uri # Nothing /\ cleanURIPath(w.claim[c].uri) # uri
<1>9. ASSUME NEW i \in Hosts(views), name(i) # service
      PROVE  \E c \in ToSet(Convention) \ {Chosen} : Differs(c)
  <2>1. Convention[i] # Chosen /\ Convention[i] \in ToSet(Convention)
    BY <1>3, <1>5, <1>9, ConventionIs
  <2>2. Differs(Convention[i])
    BY <1>1, <1>5, <1>6, <1>9
  <2> QED BY <2>1, <2>2
<1>10. ASSUME NEW i \in Uris(views), path(i) # uri
       PROVE  \E c \in ToSet(Convention) \ {Chosen} : Differs(c)
  <2>1. Convention[i] # Chosen /\ Convention[i] \in ToSet(Convention)
    BY <1>3, <1>5, <1>10, ConventionIs
  <2>2. Differs(Convention[i])
    BY <1>1, <1>5, <1>6, <1>10
  <2> QED BY <2>1, <2>2
<1> HIDE DEF Differs, views
<1>11. CASE byName
  <2>1. PICK i \in named, j \in Hosts(views) : name(i) # name(j)
    BY <1>11
  <2>2. name(i) # service \/ name(j) # service
    BY <2>1
  <2>3. \E c \in ToSet(Convention) \ {Chosen} : Differs(c)
    BY <1>9, <2>2
  <2> QED BY <1>4, <1>11, <2>3 DEF Differs
<1>12. CASE byPath
  <2>1. PICK i \in Uris(views), j \in Uris(views) : path(i) # path(j)
    BY <1>12
  <2>2. path(i) # uri \/ path(j) # uri
    BY <2>1
  <2>3. \E c \in ToSet(Convention) \ {Chosen} : Differs(c)
    BY <1>10, <2>2
  <2> QED BY <1>4, <1>12, <2>3 DEF Differs
<1>13. CASE ~byName /\ ~byPath
  <2>1. \A i \in named : name(i) = service
    <3> SUFFICES ASSUME NEW i \in named PROVE name(i) = name(k)
      BY <1>8
    <3>1. i \in Int /\ k \in Int /\ i \in Hosts(views) /\ k \in Hosts(views)
      BY <1>5, <1>8, ConventionIs
    <3>2. CASE i < k
      BY <1>8, <1>13, <3>1, <3>2
    <3>3. CASE k < i
      BY <1>8, <1>13, <3>1, <3>3
    <3>4. CASE i = k
      BY <3>4
    <3> QED BY <3>1, <3>2, <3>3, <3>4
  <2>2. \A i \in Uris(views) : path(i) = uri
    BY <1>8, <1>13
  <2>3. (CHOOSE i \in named : TRUE) \in named
        /\ (CHOOSE i \in Uris(views) : TRUE) \in Uris(views)
    BY <1>8
  <2> QED BY <1>4, <1>8, <1>13, <2>1, <2>2, <2>3
<1> QED
  BY <1>11, <1>12, <1>13
\* A claim that the client made and that reads otherwise than the truth.
LEMMA Truthful ==
    ASSUME WireInv
    PROVE  TargetFaithful
<1> DEFINE service == CanonServerName(wire.real.host)
           uri == cleanURIPath(wire.real.uri)
           real == [service |-> service, uri |-> uri, conflict |-> FALSE]
           Differs(v) == \/ /\ firstHostInChain(v.host) # Nothing
                            /\ CanonServerName(Head(v.host)) # service
                         \/ v.uri # Nothing /\ cleanURIPath(v.uri) # uri
<1> SUFFICES ASSUME answer # Nothing
             PROVE  \/ answer.target = real
                    \/ /\ answer.target = Conflict
                       /\ \E c \in ToSet(Convention) \ {Chosen} : Differs(wire.made[c])
  <2>1. real # Conflict
    BY DEF Conflict
  <2> QED BY <2>1 DEF TargetFaithful
<1>1. wire # Nothing /\ answer = Answer(wire) /\ WireOK(wire) /\ hops \in Nat
  BY DEF WireInv
<1>2. answer.target = resolveTarget(wire)
  BY <1>1 DEF Answer
<1>3. CASE ~isTrusted(wire.from)
  <2>1. wire.line = wire.real
    BY <1>1, <1>3, Direct
  <2>2. resolveTarget(wire) = Line(wire)
    BY <1>3 DEF resolveTarget
  <2> QED BY <1>2, <2>1, <2>2 DEF Line
<1>4. CASE isTrusted(wire.from)
  <2>1. wire.claim[Chosen] = Routed(wire.real)
    <3>1. wire.from[1] \in Proxy /\ wire.sender \notin Proxy
      BY <1>1, <1>4, ResolutionAssumption DEF isTrusted, WireOK
    <3>2. hops > 0
      BY <1>1, <3>1 DEF WireInv, AsSent
    <3> QED BY <1>1, <3>2 DEF WireInv, PassedOn
  <2>2. \/ resolveTarget(wire) = real
        \/ /\ resolveTarget(wire) = Conflict
           /\ \E c \in ToSet(Convention) \ {Chosen} :
                \/ /\ firstHostInChain(wire.claim[c].host) # Nothing
                   /\ CanonServerName(firstHostInChain(wire.claim[c].host)) # service
                \/ wire.claim[c].uri # Nothing /\ cleanURIPath(wire.claim[c].uri) # uri
    BY <1>1, <1>4, <2>1, TargetIs DEF WireOK
  <2>3. ASSUME NEW c \in ToSet(Convention) \ {Chosen},
               \/ /\ firstHostInChain(wire.claim[c].host) # Nothing
                  /\ CanonServerName(firstHostInChain(wire.claim[c].host)) # service
               \/ wire.claim[c].uri # Nothing /\ cleanURIPath(wire.claim[c].uri) # uri
        PROVE  Differs(wire.made[c])
    <3>1. wire.claim[c] = wire.made[c]
      BY <1>1 DEF WireOK
    <3>2. firstHostInChain(wire.made[c].host) \in {Nothing, Head(wire.made[c].host)}
      BY DEF firstHostInChain
    <3> QED BY <2>3, <3>1, <3>2
  <2> QED BY <1>2, <2>2, <2>3
<1> QED
  BY <1>3, <1>4

\* The service and path the engine decides on are the ones the proxy routes
\* on; a client that claims others in the headers of another convention gets
\* a conflict, and only such a client does (resolveTarget).
THEOREM TargetIsTheRoute == Spec => []TargetFaithful
<1>1. WireInv => TargetFaithful
  BY Truthful
<1> QED
  BY <1>1, WireIsInvariant, PTL
-----------------------------------------------------------------------------
(* The texts *)

TextInv ==
    /\ text.kind \in {"none", "host", "uri"}
    /\ text.kind = "none" => text.chars = <<>>
    /\ text.kind = "host" => text.chars \in Seq(HostChars)
    /\ text.kind = "uri" => text.chars \in Seq(UriChars)

\* One more character leaves a text of the same kind.
LEMMA WriteKeeps ==
    ASSUME TextInv, NEW kind \in {"host", "uri"}, NEW chars, NEW max, Write(kind, chars, max),
           \/ kind = "host" /\ chars = HostChars
           \/ kind = "uri" /\ chars = UriChars
    PROVE  TextInv'
<1>1. text.chars \in Seq(chars)
  <2>1. text.kind \in {"none", kind}
    BY DEF Write
  <2>2. <<>> \in Seq(chars)
    OBVIOUS
  <2> QED BY <2>1, <2>2 DEF TextInv
<1>2. PICK c \in chars : text' = [kind |-> kind, chars |-> Append(text.chars, c)]
  BY DEF Write
<1>3. Append(text.chars, c) \in Seq(chars)
  BY <1>1
<1>4. text'.kind = kind /\ text'.chars \in Seq(chars)
  BY <1>2, <1>3
<1> QED
  BY <1>4 DEF TextInv

\* What is written is a sequence of the characters of its kind.
LEMMA TextIsInvariant == Spec => []TextInv
<1>1. Init => TextInv
  BY DEF Init, TextInv, NoText
<1>2. ASSUME TextInv, [Next]_vars PROVE TextInv'
  <2>1. CASE UNCHANGED text
    BY <1>2, <2>1 DEF TextInv
  <2>2. CASE Send \/ Resolve \/ (\E p \in Proxy : AppendXFF(p) \/ ReplaceXFF(p) \/ StripXFF(p))
    BY <2>1, <2>2 DEF Send, Resolve, AppendXFF, ReplaceXFF, StripXFF, Forward
  <2>3. CASE Write("host", HostChars, MaxHost) \/ Write("uri", UriChars, MaxUri)
    BY <1>2, <2>3, WriteKeeps
  <2>4. CASE UNCHANGED vars
    BY <2>1, <2>4 DEF vars
  <2> QED BY <1>2, <2>2, <2>3, <2>4 DEF Next
<1> QED
  BY <1>1, <1>2, PTL DEF Spec

\* OneName for a host written with those characters, by CanonicalOnce,
\* BracketsDoNotCount and LiteralStays.
LEMMA Named ==
    ASSUME TextInv
    PROVE  OneName
<1> SUFFICES ASSUME text.kind = "host" PROVE OneName
  BY DEF OneName
<1> DEFINE h == text.chars
           S == HostChars \cup {"[", "]", "a"}
<1>1. h \in Seq(S)
  <2>1. h \in Seq(HostChars)
    BY DEF TextInv
  <2>2. HostChars \subseteq S
    OBVIOUS
  <2> HIDE DEF S, h
  <2> QED BY <2>1, <2>2
<1>2. "a" \in S /\ {"[", "]"} \subseteq S
  OBVIOUS
<1> HIDE DEF h, S
<1>3. CanonServerName(CanonServerName(h)) = CanonServerName(h)
  BY <1>1, <1>2, CanonicalOnce
<1>4. Places(h, "]") = {} => CanonServerName(<<"[">> \o h \o <<"]">>) = CanonServerName(h)
  BY <1>1, <1>2, BracketsDoNotCount
<1>5. Cardinality(Places(h, ":")) > 1 /\ ToSet(h) \subseteq {"a", "0", ":"} =>
        CanonServerName(h) = h
  BY <1>1, LiteralStays
<1> QED
  BY <1>3, <1>4, <1>5 DEF OneName, h

\* Every spelling of a host is one service, for hosts of every length
\* (CanonServerName).
THEOREM EveryHostHasOneName == Spec => []OneName
<1>1. TextInv => OneName
  BY Named
<1> QED
  BY <1>1, TextIsInvariant, PTL

\* OneReading for a URI written with those characters, by DecodedOnce.
LEMMA ReadOnce ==
    ASSUME TextInv
    PROVE  OneReading
<1> SUFFICES ASSUME text.kind = "uri", cleanURIPath(text.chars) # Root,
                    NEW n \in 1..2, NEW again \in BOOLEAN
             PROVE  Reading(text.chars, n, again) = cleanURIPath(text.chars)
  BY DEF OneReading
<1> DEFINE uri == text.chars
           dec == Decode(CutQuery(uri))
           pass(u) == IF again THEN CutQuery(Decode(u)) ELSE Decode(u)
<1>1. uri \in Seq(UriChars) /\ Chars(UriChars)
  BY ResolutionAssumption DEF TextInv, Chars
<1>2. cleanURIPath(uri) = Clean(dec) /\ Decode(dec) = dec /\ CutQuery(dec) = dec
  BY <1>1, DecodedOnce
<1>3. pass(CutQuery(uri)) = dec
  BY <1>2
<1>4. pass(dec) = dec
  BY <1>2
<1>5. Reading(uri, n, again) =
        Clean(IF n = 1 THEN pass(CutQuery(uri)) ELSE pass(pass(CutQuery(uri))))
  BY DEF Reading
<1> HIDE DEF dec, pass
<1> QED
  BY <1>2, <1>3, <1>4, <1>5

\* An endpoint's path reads the same to every component on the way, whether
\* it decodes once or twice and cuts the query before or after, for URIs of
\* every length (cleanURIPath).
THEOREM EveryPathHasOneReading == Spec => []OneReading
<1>1. TextInv => OneReading
  BY ReadOnce
<1> QED
  BY <1>1, TextIsInvariant, PTL
=============================================================================
