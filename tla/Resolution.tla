----------------------------- MODULE Resolution -----------------------------
(***************************************************************************)
(* What a request is for and whom it comes from: ClientIP and              *)
(* resolveTarget of authorizer/realip.go and clientIP of                   *)
(* adapters/caddy/jitaccess.go, for a request that a client sends with     *)
(* whatever headers it likes and that any number of the operator's own     *)
(* proxies pass on.                                                        *)
(*                                                                         *)
(* A proxy of the operator appends the address it got the request from to  *)
(* X-Forwarded-For, replaces the header by it, or strips the header; it    *)
(* describes the request it routes in the headers of one convention and    *)
(* leaves those of the others as they come.                                *)
(***************************************************************************)
EXTENDS Canon

CONSTANTS
    Client,       \* addresses outside trusted_proxies
    Proxy,        \* addresses inside
    Zoned,        \* the addresses among Client that carry an IPv6 zone
    Mask,         \* Mask[a]: a cut to ipv6_prefix, itself if IPv4
    Convention,   \* "forwarded", "original-url", "original", in the order read
    Chosen,       \* the convention the proxies use
    Requests,     \* what clients send: [client, spelling, host, uri, xff, claim]
    Upstream,     \* host and URI of the subrequest to the Authorizer itself
    HostChars, UriChars, MaxHost, MaxUri,    \* bounds of the texts looked at
    MaxHops       \* bound on the proxies a request passes

VARIABLES
    text,         \* a host or URI written down: [kind, chars]
    wire,         \* the request under way, as the next receiver gets it
    hops,         \* proxies passed
    stripped,     \* some proxy dropped X-Forwarded-For
    answer        \* what the engines make of the request

vars == <<text, wire, hops, stripped, answer>>

\* An address is spelled plainly or as an IPv4-mapped IPv6 address, with or
\* without port and brackets; Junk is any entry that is no address, Blank the
\* empty one.
Spelling == {"plain", "mapped"}
Junk == <<"junk", "plain">>
Blank == <<"", "plain">>
Spellings(a) == {a} \X Spelling
Entries == ((Client \cup Proxy) \X Spelling) \cup {Junk, Blank}
Nothing == <<>>
NoText == [kind |-> "none", chars |-> <<>>]

-----------------------------------------------------------------------------
(* ClientIP *)

ParseFails(entry) == entry \in {Junk, Blank}

\* trusted_proxies contains the address; Unmap undoes the spelling, and no
\* prefix contains an address with a zone.
isTrusted(entry) == entry[1] \in Proxy

Denied == "denied"

\* Unmap, then mask; an address with a zone is an error.
CanonIP(entry) == IF entry[1] \in Zoned THEN Denied ELSE Mask[entry[1]]

\* The places of the entries, <<header line, part of the line>>.  forwardedList
\* flattens them in this order; the empty parts it drops do not parse either.
forwardedList(xff) == UNION { {i} \X DOMAIN xff[i] : i \in DOMAIN xff }

RightMost(places) ==
    CHOOSE p \in places : \A q \in places : q[1] < p[1] \/ (q[1] = p[1] /\ q[2] <= p[2])

At(xff, place) == xff[place[1]][place[2]]

\* The entries that parse and are not one of our own hops.
Foreign(xff) ==
    { p \in forwardedList(xff) : ~ParseFails(At(xff, p)) /\ ~isTrusted(At(xff, p)) }

\* Falls back to the proxy's own address.
ClientIP_PeerFallback(w) ==
    CASE ~isTrusted(w.from) -> CanonIP(w.from)
      [] isTrusted(w.from) /\ Foreign(w.xff) # {} -> CanonIP(At(w.xff, RightMost(Foreign(w.xff))))
      [] OTHER -> CanonIP(w.from)

\* Takes the entry that the nearest proxy wrote, whoever it names.
ClientIP_LastEntry(w) ==
    LET last == RightMost(forwardedList(w.xff))
    IN  CASE ~isTrusted(w.from) -> CanonIP(w.from)
          [] isTrusted(w.from) /\ Foreign(w.xff) # {} ->
               IF last \in Foreign(w.xff) THEN CanonIP(At(w.xff, last)) ELSE Denied
          [] OTHER -> Denied

\* DIRECT: the peer.  PROXY: the right-most entry that is not one of our own
\* hops, or nobody.
ClientIP(w) ==
    CASE ~isTrusted(w.from) -> CanonIP(w.from)
      [] isTrusted(w.from) /\ Foreign(w.xff) # {} -> CanonIP(At(w.xff, RightMost(Foreign(w.xff))))
      [] OTHER -> Denied

\* clientIP of the Caddy module: the peer unless trust_forwarded is set, else
\* the same walk.
siteClientIP(w, trustForwarded) ==
    CASE ~trustForwarded \/ ~isTrusted(w.from) -> CanonIP(w.from)
      [] trustForwarded /\ isTrusted(w.from) /\ Foreign(w.xff) # {} ->
           CanonIP(At(w.xff, RightMost(Foreign(w.xff))))
      [] OTHER -> Denied

-----------------------------------------------------------------------------
(* resolveTarget *)

\* The first entry of a comma-joined chain, without white space around it.
firstHostInChain(chain) ==
    IF chain = <<>> \/ ToSet(Head(chain)) \subseteq {Space} THEN Nothing ELSE Head(chain)

\* What each convention claims, in order; one that is absent claims nothing.
\* A relative or unparseable X-Original-URL claims a path only.
forwardedViews(w) ==
    [ i \in DOMAIN Convention |->
        [ host |-> firstHostInChain(w.claim[Convention[i]].host),
          uri |-> w.claim[Convention[i]].uri ] ]

\* The target the request line itself names.
Line(w) == [ service |-> CanonServerName(w.line.host),
             uri |-> cleanURIPath(w.line.uri), conflict |-> FALSE ]

Conflict == [service |-> Nothing, uri |-> Root, conflict |-> TRUE]

Hosts(views) == { i \in DOMAIN views : views[i].host # Nothing }
Uris(views) == { i \in DOMAIN views : views[i].uri # Nothing }

\* Lets the last convention that claims something win.
resolveTarget_LastWins(w) ==
    LET views == forwardedViews(w)
    IN  IF ~isTrusted(w.from) THEN Line(w)
        ELSE [ service |-> IF Hosts(views) = {} THEN Line(w).service
                           ELSE CanonServerName(views[Max(Hosts(views))].host),
               uri |-> IF Uris(views) = {} THEN Line(w).uri
                       ELSE cleanURIPath(views[Max(Uris(views))].uri),
               conflict |-> FALSE ]

\* The loop over the views keeps the host and the path claimed last.  A host
\* that differs from the one kept is a conflict, unless that one is canonically
\* empty and so counts as none; two paths that differ always are.
resolveTarget(w) ==
    LET views == forwardedViews(w)
        name(i) == CanonServerName(views[i].host)
        path(i) == cleanURIPath(views[i].uri)
        named == { i \in Hosts(views) : name(i) # Nothing }
        conflict == \/ \E i \in named, j \in Hosts(views) : i < j /\ name(i) # name(j)
                    \/ \E i, j \in Uris(views) : path(i) # path(j)
    IN  CASE ~isTrusted(w.from) -> Line(w)
          [] isTrusted(w.from) /\ conflict -> Conflict
          [] OTHER -> [ service |-> IF named = {} THEN Line(w).service
                                    ELSE name(CHOOSE i \in named : TRUE),
                        uri |-> IF Uris(views) = {} THEN Line(w).uri
                                ELSE path(CHOOSE i \in Uris(views) : TRUE),
                        conflict |-> FALSE ]

-----------------------------------------------------------------------------
(* The request on its way *)

\* A client is not one of our proxies, and what it asks for has a name: its
\* Host does not come to nothing, its URI is not empty.  The rest says what
\* the constants are.
ASSUME ResolutionAssumption ==
    /\ Client \cap Proxy = {} /\ (Client \cup Proxy) \cap {"", "junk"} = {}
    /\ \A a \in Client : Mask[a] # Denied
    /\ Convention \in Seq({"forwarded", "original-url", "original"})
    /\ Chosen \in ToSet(Convention)
    /\ \A r \in Requests :
         /\ r.client \in Client /\ r.spelling \in Spelling
         /\ r.xff \in Seq(Seq(Entries)) /\ DOMAIN r.claim = ToSet(Convention)
         /\ firstHostInChain(<<r.host>>) # Nothing /\ CanonServerName(r.host) # Nothing
         /\ r.uri # Nothing
    /\ \A c \in UriChars : c = <<c[1], c[2]>> /\ c[2] \in Nat

\* A client, or a proxy that is not the operator's, sends what it likes.
\* sender: the nearest sender outside the operator's network; real: what it
\* asks for and the first proxy routes on; line: Host and path of this hop;
\* claim: the target headers, made: as the client made them up.
Send ==
    /\ wire = Nothing /\ text = NoText
    /\ \E r \in Requests :
         LET real == [host |-> r.host, uri |-> r.uri]
         IN  wire' = [ sender |-> r.client, from |-> <<r.client, r.spelling>>, real |-> real,
                       line |-> real, xff |-> r.xff, claim |-> r.claim, made |-> r.claim ]
    /\ UNCHANGED <<text, hops, stripped, answer>>

\* A proxy passes the request on and sets the headers of its convention.
Forward(spelled, xff) ==
    /\ answer = Nothing /\ hops < MaxHops
    /\ wire' = [wire EXCEPT !.from = spelled, !.xff = xff, !.line = Upstream,
                            !.claim[Chosen] = [host |-> <<wire.real.host>>,
                                               uri |-> wire.real.uri]]
    /\ hops' = hops + 1
    /\ UNCHANGED <<text, answer>>

\* Adds a header line of its own or to the last one.
AppendXFF(p) ==
    /\ wire # Nothing
    /\ \E spelled \in Spellings(p), peer \in Spellings(wire.from[1]) :
         \/ Forward(spelled, Append(wire.xff, <<peer>>))
         \/ /\ wire.xff # <<>>
            /\ Forward(spelled, Append(Front(wire.xff), Append(Last(wire.xff), peer)))
    /\ UNCHANGED stripped

ReplaceXFF(p) ==
    /\ wire # Nothing
    /\ \E spelled \in Spellings(p), peer \in Spellings(wire.from[1]) :
         Forward(spelled, << <<peer>> >>)
    /\ stripped' = (stripped \/ hops > 0)

StripXFF(p) ==
    /\ wire # Nothing
    /\ \E spelled \in Spellings(p) : Forward(spelled, <<>>)
    /\ stripped' = TRUE

Resolve ==
    /\ wire # Nothing /\ answer = Nothing
    /\ answer' = [ ip |-> ClientIP(wire), target |-> resolveTarget(wire),
                   site |-> [b \in BOOLEAN |-> siteClientIP(wire, b)] ]
    /\ UNCHANGED <<text, wire, hops, stripped>>

\* Every host name and every URI up to a length, a character at a time.
Write(kind, chars, max) ==
    /\ wire = Nothing /\ text.kind \in {"none", kind} /\ Len(text.chars) < max
    /\ \E c \in chars : text' = [kind |-> kind, chars |-> Append(text.chars, c)]
    /\ UNCHANGED <<wire, hops, stripped, answer>>

Init ==
    /\ text = NoText /\ wire = Nothing /\ hops = 0 /\ stripped = FALSE
    /\ answer = Nothing

Next ==
    \/ Send \/ Resolve
    \/ \E p \in Proxy : AppendXFF(p) \/ ReplaceXFF(p) \/ StripXFF(p)
    \/ Write("host", HostChars, MaxHost) \/ Write("uri", UriChars, MaxUri)

Spec == Init /\ [][Next]_vars

-----------------------------------------------------------------------------
(* Properties *)

\* The address a grant is keyed on is that of the nearest sender outside the
\* operator's network or the request is denied, whatever the client wrote
\* into X-Forwarded-For, however many proxies the request passed and however
\* they spell an address; without trust_forwarded it is that of the peer.
ClientKeyed ==
    answer # Nothing =>
        /\ {answer.ip, answer.site[TRUE]} \subseteq {CanonIP(<<wire.sender, "plain">>), Denied}
        /\ answer.site[FALSE] = CanonIP(wire.from)

\* A client whose address has a canonical form is not denied while every
\* proxy passes on what it knows.
ClientReached ==
    answer # Nothing /\ ~stripped /\ wire.sender \notin Zoned =>
        answer.ip # Denied /\ answer.site[TRUE] # Denied

\* "The proxy sets exactly one authoritatively, so a client that appends
\* another creates a disagreement and gets denied" (forwardedView): the
\* target is the host and path the proxy routes on, or a conflict; and it is
\* a conflict only when the client did claim something that reads otherwise.
TargetFaithful ==
    answer # Nothing =>
        LET real == [ service |-> CanonServerName(wire.real.host),
                      uri |-> cleanURIPath(wire.real.uri), conflict |-> FALSE ]
            Differs(v) == \/ /\ firstHostInChain(v.host) # Nothing
                             /\ CanonServerName(Head(v.host)) # real.service
                          \/ v.uri # Nothing /\ cleanURIPath(v.uri) # real.uri
        IN  /\ answer.target \in {real, Conflict}
            /\ answer.target = Conflict =>
                 \E c \in ToSet(Convention) \ {Chosen} : Differs(wire.made[c])

\* "Two layers canonicalizing the same Host a different number of times would
\* hold two different names" (trimDotsAndSpace): CanonServerName is
\* idempotent, and brackets around a host do not change its name, so every
\* spelling of a host is one service.
OneName ==
    text.kind = "host" =>
        LET h == text.chars
        IN  /\ CanonServerName(CanonServerName(h)) = CanonServerName(h)
            /\ Places(h, "]") = {} =>
                 CanonServerName(<<"[">> \o h \o <<"]">>) = CanonServerName(h)
            /\ Cardinality(Places(h, ":")) > 1 /\ ToSet(h) \subseteq {"a", "0", ":"} =>
                 CanonServerName(h) = h

\* What a component reads that decodes n times, and cuts the query again
\* after each pass or not.
Reading(uri, n, again) ==
    LET pass(u) == IF again THEN CutQuery(Decode(u)) ELSE Decode(u)
        once == pass(CutQuery(uri))
    IN  Clean(IF n = 1 THEN once ELSE pass(once))

\* A path that cleanURIPath reads as anything but "/", so every endpoint,
\* reads the same to a proxy or WAF that decodes once or twice and that cuts
\* the query before or after.
OneReading ==
    text.kind = "uri" /\ cleanURIPath(text.chars) # Root =>
        \A n \in 1..2, again \in BOOLEAN :
            Reading(text.chars, n, again) = cleanURIPath(text.chars)

\* A path that cleanURIPath has cleaned reads the same when it is cleaned
\* again, and a raw path that the mux routes without a redirect is the path
\* that cleanURIPath reads.
CleanedOnce ==
    text.kind = "uri" =>
        LET uri == text.chars
            path == cleanURIPath(uri)
            raw == \A i \in DOMAIN uri : uri[i][2] = 0 /\ uri[i][1] \notin {"%", "?"}
        IN  /\ cleanURIPath(Render(path)) = path
            /\ raw /\ uri[1] = <<"/", 0>> /\ ~muxWouldRedirect(uri) =>
                 uri \in {Render(path), Append(Render(path), <<"/", 0>>)}
=============================================================================
