------------------------------ MODULE SiteGate ------------------------------
(***************************************************************************)
(* The in-process gate of the Caddy module (adapters/caddy/jitaccess.go);  *)
(* the Traefik plugin has the same state and handlers.                     *)
(*                                                                         *)
(* Handler instances are immutable: a reload provisions new ones, and a    *)
(* request stays with the instance it arrived at.  Grants, spent nonces,   *)
(* codes, windows, the nonce key and lastSweep are process-wide: instances *)
(* of different sites, and of different configs of one site, share them.   *)
(* There is no sweeper: a request that finds the last sweep old enough     *)
(* sweeps all the stores before it is served.                              *)
(*                                                                         *)
(* Every element of Request is one HTTP request.  Each call of a store is  *)
(* a step, and so is each critical section of maybeSweep.                  *)
(***************************************************************************)
EXTENDS Registry, Sequences

CONSTANTS
    Request,        \* HTTP requests and calls of MintEnrollCode; a nonce, cookie
                    \* or code is named for the request that drew it
    Scenes,         \* the mixes of paths, <<prefix, rest>>, they ask for
    MintCall,       \* stands for a call of MintEnrollCode
    Sites,          \* name -> jit_access block of a config file
    Generations,    \* sets of site names: the configs an operator loads
    Kid, Segment, Service, IP, Secret,
    Device,         \* the <<kid, secret>> pairs clients hold
    ShortSecret,    \* secrets of fewer than 16 bytes, or not base64url
    Unresolved,     \* stands for an address clientIP cannot determine
    Subnet,         \* Subnet[ip]: ip with an IPv6 address cut to its /64
    Second,         \* units of a configured duration in a second
    DefaultTTL,     \* default of grant_ttl and nonce_ttl
    DefaultRate,    \* default of rate_limit (10 in the code)
    MaxEntries, WindowLen,    \* of the rate limiter
    SweepEvery,     \* seconds between sweeps (60 in the code)
    CodeTTL,        \* lifetime of a minted code
    MaxTime         \* bound of the clock

ASSUME SiteGateAssumption ==
    /\ SweepEvery \in Nat /\ CodeTTL \in Nat
    /\ DefaultTTL \in Nat /\ Second \in Nat \ {0}
    /\ \A g \in Generations : g \subseteq DOMAIN Sites
    /\ \A s \in DOMAIN Sites : Sites[s].grantTTL \in Nat

\* Names and addresses are sequences of segments.  Provision takes a negative
\* duration as it is: none is configured here.
ASSUME TypesAssumption ==
    /\ Service \subseteq Seq(Segment) /\ IP \subseteq Seq(Segment)
    /\ MaxTime \in Nat /\ SweepEvery <= MaxTime
    /\ Device \subseteq Kid \X Secret
    /\ \A s \in DOMAIN Sites :
         /\ Sites[s].hosts \subseteq Service /\ Sites[s].nonceTTL \in Nat
         /\ \A kid \in DOMAIN Sites[s].tokens : Sites[s].tokens[kid].secret \in Secret

VARIABLES
    now,            \* the clock, in seconds
    uri,            \* uri[p]: what p asks for, fixed in the initial state
    live,           \* the site names of the config that serves new requests
    lastSweep,
    grants, byKid, spent, codes, window,    \* the process-wide stores
    minted,         \* nonces handed out: id -> [ts, service, ip]
    req             \* request -> its handler's control state and locals

\* History, read by the properties only.
VARIABLES
    issued,         \* code -> [kid, exp] as minted
    delivered       \* code -> number of times its secret was handed out

stores == <<grants, byKid, spent, codes, window>>
history == <<issued, delivered>>
vars == <<now, uri, live, lastSweep, stores, minted, req, history>>

NoneYet == <<>>
Time == 0..MaxTime
Cookie == Request
FP == {NoFP} \cup { SecretHash(s) : s \in Secret }

Grants == INSTANCE GrantStore WITH Offer <- {}
Nonces == INSTANCE NonceStore
Codes == INSTANCE EnrollStore
Limiter == INSTANCE RateLimiter

-----------------------------------------------------------------------------
(* Provision and Validate *)

Default(value, unset, default) == IF value = unset THEN default ELSE value
Seconds(duration) == duration \div Second

\* The settings of a handler instance.  Only a duration of 0 takes the
\* default; one that is shorter than a second ends up as 0 seconds.
Provision(s) ==
    LET site == Sites[s]
    IN  [ prefix |-> site.prefix,
          grantTTL |-> Seconds(Default(site.grantTTL, 0, DefaultTTL)),
          nonceTTL |-> Seconds(Default(site.nonceTTL, 0, DefaultTTL)),
          failureMode |-> Default(site.failureMode, "", "interstitial"),
          binding |-> Default(site.binding, "", Grants!BindingIP),
          rateLimit |-> IF site.rateLimit <= 0 THEN DefaultRate ELSE site.rateLimit,
          reg |-> [ tokens |-> [ kid \in DOMAIN site.tokens |->
                      [ secret |-> site.tokens[kid].secret, alg |-> AlgHMACSHA256,
                        expires |-> site.tokens[kid].expires ] ],
                    services |-> [ any \in {AnyService} |-> site.allow ] ] ]

\* The errors of Provision and Validate.
Accepted(s) ==
    /\ \A kid \in DOMAIN Sites[s].tokens : Sites[s].tokens[kid].secret \notin ShortSecret
    /\ Provision(s).failureMode \in {"interstitial", "stealth"}
    /\ Provision(s).binding \in {Grants!BindingIP, Grants!BindingIPCookie}
    /\ Sites[s].tokens # <<>> /\ Sites[s].allow # {}

-----------------------------------------------------------------------------
(* Requests *)

Endpoints == {"challenge", "respond", "enroll", "register"}

\* What a request may carry besides the host and the cookie.
Body(p) ==
    CASE uri[p][2] = "respond" -> [device : Device, nonce : DOMAIN minted]
      [] uri[p][2] = "enroll" -> [code : DOMAIN issued]
      [] OTHER -> {NoneYet}

HandedOut == { q \in Request : \E g \in req[q].g : g.cookieHash = Grants!CookieHash(q)
                                                   /\ req[q].out = "granted" }

\* h: the instance; host, ip, cookie, body: the request; t: the clock;
\* g: the grant in hand; swept: when it began a sweep, {} if it did not.
Idle == [ pc |-> "idle", h |-> "", host |-> <<>>, ip |-> <<>>, cookie |-> Grants!NoCookie, body |-> NoneYet, t |-> 0, g |-> {},
          out |-> "", swept |-> {} ]

At(p, label) == req[p].pc = label
Goto(p, r) == req' = [req EXCEPT ![p] = r]
Site(p) == Provision(req[p].h)

\* The handler returns; what the properties compare with later is kept.
Answer(p, r, out) ==
    Goto(p, [ (IF out \in {"granted", "allow"} THEN r ELSE [Idle EXCEPT !.swept = r.swept])
                EXCEPT !.pc = "done", !.out = out ])
Deny(p) == Answer(p, req[p], "deny")

\* A request for a host of some instance that serves now.  clientIP and
\* CanonServerName are pure; ServeHTTP begins with now().
Arrive(p) ==
    /\ At(p, "idle") /\ uri[p] # MintCall
    /\ \E h \in live :
       \E host \in Sites[h].hosts, ip \in IP \cup {Unresolved},
          cookie \in {Grants!NoCookie} \cup HandedOut :
       \E body \in Body(p) :
         Goto(p, [Idle EXCEPT !.pc = "maybeSweep", !.h = h, !.host = host, !.ip = ip,
                              !.cookie = cookie, !.body = body, !.t = now])
    /\ UNCHANGED <<now, uri, live, lastSweep, stores, minted, history>>

-----------------------------------------------------------------------------
(* maybeSweep *)

\* Computes the age of the last sweep with an unsigned integer: a reading of
\* the clock from before it wraps around.
MaybeSweep_Unsigned(p) ==
    /\ At(p, "maybeSweep")
    /\ \/ /\ req[p].t - lastSweep \in 0..(SweepEvery - 1)
          /\ Goto(p, [req[p] EXCEPT !.pc = "route"])
          /\ UNCHANGED lastSweep
       \/ /\ req[p].t - lastSweep \notin 0..(SweepEvery - 1)
          /\ lastSweep' = req[p].t
          /\ Goto(p, [req[p] EXCEPT !.pc = "sweepGrants", !.swept = {req[p].t}])
    /\ UNCHANGED <<now, uri, live, stores, minted, history>>

\* Keeps the time of the next sweep where the code keeps that of the last.
MaybeSweep_KeepsNext(p) ==
    /\ At(p, "maybeSweep")
    /\ \/ /\ req[p].t - lastSweep < SweepEvery
          /\ Goto(p, [req[p] EXCEPT !.pc = "route"])
          /\ UNCHANGED lastSweep
       \/ /\ req[p].t - lastSweep >= SweepEvery
          /\ lastSweep' = req[p].t + SweepEvery
          /\ Goto(p, [req[p] EXCEPT !.pc = "sweepGrants", !.swept = {req[p].t}])
    /\ UNCHANGED <<now, uri, live, stores, minted, history>>

\* The test and the assignment under sweepMu; t may lie before lastSweep.
MaybeSweep(p) ==
    /\ At(p, "maybeSweep")
    /\ \/ /\ req[p].t - lastSweep < SweepEvery
          /\ Goto(p, [req[p] EXCEPT !.pc = "route"])
          /\ UNCHANGED lastSweep
       \/ /\ req[p].t - lastSweep >= SweepEvery
          /\ lastSweep' = req[p].t
          /\ Goto(p, [req[p] EXCEPT !.pc = "sweepGrants", !.swept = {req[p].t}])
    /\ UNCHANGED <<now, uri, live, stores, minted, history>>

\* Empties the store once a minute instead of dropping what has expired.
SweepGrants_All(p) ==
    /\ At(p, "sweepGrants")
    /\ grants' = <<>> /\ byKid' = <<>>
    /\ Goto(p, [req[p] EXCEPT !.pc = "sweepNonces"])
    /\ UNCHANGED <<now, uri, live, lastSweep, spent, codes, window, minted, history>>

\* The four sweeps run after sweepMu is released.
SweepGrants(p) ==
    /\ At(p, "sweepGrants")
    /\ Grants!Sweep(req[p].t)
    /\ Goto(p, [req[p] EXCEPT !.pc = "sweepNonces"])
    /\ UNCHANGED <<now, uri, live, lastSweep, spent, codes, window, minted, history>>

SweepNonces(p) ==
    /\ At(p, "sweepNonces")
    /\ Nonces!Sweep(req[p].t)
    /\ Goto(p, [req[p] EXCEPT !.pc = "sweepCodes"])
    /\ UNCHANGED <<now, uri, live, lastSweep, grants, byKid, codes, window, minted, history>>

SweepCodes(p) ==
    /\ At(p, "sweepCodes")
    /\ Codes!Sweep(req[p].t)
    /\ Goto(p, [req[p] EXCEPT !.pc = "sweepLimiter"])
    /\ UNCHANGED <<now, uri, live, lastSweep, grants, byKid, spent, window, minted, history>>

SweepLimiter(p) ==
    /\ At(p, "sweepLimiter")
    /\ Limiter!Sweep(req[p].t)
    /\ Goto(p, [req[p] EXCEPT !.pc = "route"])
    /\ UNCHANGED <<now, uri, live, lastSweep, grants, byKid, spent, codes, minted, history>>

-----------------------------------------------------------------------------
(* ServeHTTP *)

\* A request that cannot be identified is denied, after it may have swept.
\* A path under the prefix is an endpoint or dark; the others are gated, and
\* now() is read before IsAllowed takes the lock.
Route(p) ==
    /\ At(p, "route")
    /\ LET r == req[p]
           endpoint == uri[p][1] = Site(p).prefix
       IN  \/ r.ip = Unresolved /\ Deny(p)
           \/ /\ r.ip # Unresolved /\ endpoint /\ uri[p][2] \in Endpoints \ {"register"}
              /\ Goto(p, [r EXCEPT !.pc = "throttle"])
           \/ /\ r.ip # Unresolved /\ endpoint /\ uri[p][2] = "register"
              /\ Site(p).failureMode # "stealth"
              /\ Answer(p, r, "page")
           \/ /\ r.ip # Unresolved /\ endpoint
              /\ \/ uri[p][2] \notin Endpoints
                 \/ uri[p][2] = "register" /\ Site(p).failureMode = "stealth"
              /\ Deny(p)
           \/ /\ r.ip # Unresolved /\ ~endpoint
              /\ Goto(p, [r EXCEPT !.pc = "check", !.t = now])
    /\ UNCHANGED <<now, uri, live, lastSweep, stores, minted, history>>

TooWeak(g, site) ==
    site.binding = Grants!BindingIPCookie /\ g.binding # Grants!BindingIPCookie

\* Takes the instances of one host for one site.
CheckGrant_AnyInstance(p) ==
    /\ At(p, "check")
    /\ LET r == req[p]
           g == UNION { Grants!IsAllowed(r.host, r.ip, Provision(s).reg, r.t, r.cookie) :
                          s \in { x \in DOMAIN Sites : r.host \in Sites[x].hosts } }
       IN  IF g # {} /\ \A x \in g : ~TooWeak(x, Site(p))
           THEN Answer(p, [r EXCEPT !.g = g], "allow")
           ELSE Deny(p)
    /\ UNCHANGED <<now, uri, live, lastSweep, stores, minted, history>>

CheckGrant(p) ==
    /\ At(p, "check")
    /\ LET r == req[p]
           g == Grants!IsAllowed(r.host, r.ip, Site(p).reg, r.t, r.cookie)
       IN  IF g # {} /\ \A x \in g : ~TooWeak(x, Site(p))
           THEN Answer(p, [r EXCEPT !.g = g], "allow")
           ELSE Deny(p)
    /\ UNCHANGED <<now, uri, live, lastSweep, stores, minted, history>>

-----------------------------------------------------------------------------
(* handleChallenge, handleRespond, handleEnroll *)

AfterThrottle == [challenge |-> "mint", respond |-> "verify", enroll |-> "peek"]

\* sharedRL.Allow, the first act of all three handlers.
Throttle(p) ==
    /\ At(p, "throttle")
    /\ \E ok \in BOOLEAN :
         /\ Limiter!Allow(<<req[p].host, Subnet[req[p].ip]>>, Site(p).rateLimit, now, ok)
         /\ IF ok THEN Goto(p, [req[p] EXCEPT !.pc = AfterThrottle[uri[p][2]]])
                  ELSE Deny(p)
    /\ UNCHANGED <<now, uri, live, lastSweep, grants, byKid, spent, codes, minted, history>>

\* The nonce carries host, address and time under the process's key.
IssueNonce(p) ==
    /\ At(p, "mint")
    /\ minted' = [ n \in DOMAIN minted \cup {p} |->
                     IF n = p THEN [ts |-> now, service |-> req[p].host, ip |-> req[p].ip]
                              ELSE minted[n] ]
    /\ Answer(p, req[p], "nonce")
    /\ UNCHANGED <<now, uri, live, lastSweep, stores, history>>

VerifyNonce(n, service, ip, t, ttl) ==
    /\ minted[n].service = service /\ minted[n].ip = ip
    /\ minted[n].ts <= t /\ t - minted[n].ts < ttl

\* n := now(), VerifyNonce, and the checks against the instance's registry.
VerifyKnock(p) ==
    /\ At(p, "verify")
    /\ LET r == [req[p] EXCEPT !.t = now]
           reg == Site(p).reg
           kid == r.body.device[1]
       IN  IF /\ VerifyNonce(r.body.nonce, r.host, r.ip, now, Site(p).nonceTTL)
              /\ Known(reg, kid) /\ ~IsExpired(reg.tokens[kid], now)
              /\ AllowedForService(reg, kid, AnyService)
              /\ r.body.device[2] = reg.tokens[kid].secret
           THEN Goto(p, [r EXCEPT !.pc = "claim"])
           ELSE Deny(p)
    /\ UNCHANGED <<now, uri, live, lastSweep, stores, minted, history>>

ClaimNonce(p) ==
    /\ At(p, "claim")
    /\ \/ /\ Nonces!Claim(req[p].body.nonce, req[p].t, Site(p).nonceTTL)
          /\ Goto(p, [req[p] EXCEPT !.pc = "put"])
       \/ /\ Nonces!AlreadySpent(req[p].body.nonce, req[p].t)
          /\ Deny(p)
          /\ UNCHANGED spent
    /\ UNCHANGED <<now, uri, live, lastSweep, grants, byKid, codes, window, minted, history>>

KnockGrant(p) ==
    [ kid |-> req[p].body.device[1], service |-> req[p].host, ip |-> req[p].ip,
      binding |-> Site(p).binding,
      cookieHash |-> IF Site(p).binding = Grants!BindingIPCookie
                     THEN Grants!CookieHash(p) ELSE Grants!NoHash,
      exp |-> req[p].t + Site(p).grantTTL, manual |-> FALSE,
      secretFP |-> Fingerprint(Site(p).reg, req[p].body.device[1]) ]

PutGrant(p) ==
    /\ At(p, "put")
    /\ Grants!Put(KnockGrant(p), IF req[p].cookie = Grants!NoCookie THEN Grants!NoHash
                                 ELSE Grants!CookieHash(req[p].cookie))
    /\ Answer(p, [req[p] EXCEPT !.g = {KnockGrant(p)}], "granted")
    /\ UNCHANGED <<now, uri, live, lastSweep, spent, codes, window, minted, history>>

\* Burns whatever live code it is shown.
PeekCode_NoLookup(p) ==
    /\ At(p, "peek")
    /\ IF Codes!Live(req[p].body.code, now)
       THEN Goto(p, [req[p] EXCEPT !.pc = "consume"])
       ELSE Deny(p)
    /\ UNCHANGED <<now, uri, live, lastSweep, stores, minted, history>>

\* Peek, and the lookup of the kid in the instance's registry.
PeekCode(p) ==
    /\ At(p, "peek")
    /\ IF /\ Codes!Live(req[p].body.code, now)
          /\ Known(Site(p).reg, codes[req[p].body.code].kid)
       THEN Goto(p, [req[p] EXCEPT !.pc = "consume"])
       ELSE Deny(p)
    /\ UNCHANGED <<now, uri, live, lastSweep, stores, minted, history>>

\* Consume, the second lookup, and the secret in the answer.
ConsumeCode(p) ==
    /\ At(p, "consume")
    /\ LET code == req[p].body.code
       IN  /\ Codes!Consume(code)
           /\ IF Codes!Live(code, now) /\ Known(Site(p).reg, codes[code].kid)
              THEN /\ delivered' = [delivered EXCEPT ![code] = @ + 1]
                   /\ Answer(p, req[p], "secret")
              ELSE Deny(p) /\ UNCHANGED delivered
    /\ UNCHANGED <<now, uri, live, lastSweep, grants, byKid, spent, window, minted, issued>>

-----------------------------------------------------------------------------
(* The operator and the clock *)

MintEnrollCode(p) ==
    /\ At(p, "idle") /\ uri[p] = MintCall
    /\ \E kid \in Kid :
         /\ Codes!Put(p, kid, now + CodeTTL)
         /\ issued' = [ c \in DOMAIN issued \cup {p} |->
                          IF c = p THEN [kid |-> kid, exp |-> now + CodeTTL] ELSE issued[c] ]
    /\ Answer(p, req[p], "code")
    /\ UNCHANGED <<now, uri, live, lastSweep, grants, byKid, spent, window, minted, delivered>>

\* The server provisions every handler of the new config before it serves
\* any; one that is refused leaves the old config in place.
Reload(g) ==
    /\ g # live
    /\ \A s \in g : Accepted(s)
    /\ live' = g
    /\ UNCHANGED <<now, uri, lastSweep, stores, minted, req, history>>

Tick ==
    /\ now < MaxTime
    /\ now' = now + 1
    /\ UNCHANGED <<uri, live, lastSweep, stores, minted, req, history>>

-----------------------------------------------------------------------------

\* lastSweep is 0 in a new process, long before the clock's first value.
Init ==
    /\ now = SweepEvery /\ lastSweep = 0 /\ uri \in Scenes
    /\ live \in { g \in Generations : \A s \in g : Accepted(s) }
    /\ Grants!GrantStoreInit /\ Nonces!NonceStoreInit /\ Codes!EnrollStoreInit
    /\ Limiter!RateLimiterInit
    /\ minted = <<>>
    /\ req = [p \in Request |-> Idle]
    /\ issued = <<>> /\ delivered = [c \in Request |-> 0]

SweepStep(p) == SweepGrants(p) \/ SweepNonces(p) \/ SweepCodes(p) \/ SweepLimiter(p)

Handle(p) ==
    \/ Arrive(p) \/ MaybeSweep(p) \/ SweepStep(p) \/ Route(p) \/ CheckGrant(p)
    \/ Throttle(p) \/ IssueNonce(p)
    \/ VerifyKnock(p) \/ ClaimNonce(p) \/ PutGrant(p)
    \/ PeekCode(p) \/ ConsumeCode(p)

Next ==
    \/ \E p \in Request : Handle(p) \/ MintEnrollCode(p)
    \/ \E g \in Generations : Reload(g)
    \/ Tick

Spec == Init /\ [][Next]_vars

-----------------------------------------------------------------------------
(* Properties *)

Labels ==
    { "idle", "maybeSweep", "sweepGrants", "sweepNonces", "sweepCodes", "sweepLimiter",
      "route", "check", "throttle", "mint", "verify", "claim", "put", "peek", "consume",
      "done" }

\* Types of the process's state; lastSweep is a time that has passed.
TypeOK ==
    /\ now \in Time /\ lastSweep \in 0..now
    /\ live \in Generations /\ \A s \in live : Accepted(s)
    /\ Grants!GrantStoreTypeOK
    /\ DOMAIN spent \subseteq DOMAIN minted /\ \A n \in DOMAIN spent : spent[n] \in Nat
    /\ \A c \in DOMAIN codes : c \in DOMAIN issued /\ codes[c] = issued[c]
    /\ \A k \in DOMAIN window : window[k].start \in Time /\ window[k].n \in Nat \ {0}
    /\ \A n \in DOMAIN minted : minted[n].ts \in Time
    /\ \A p \in Request :
         /\ req[p].pc \in Labels /\ req[p].t \in 0..now
         /\ req[p].g \subseteq Grants!Grant /\ req[p].h \in DOMAIN Sites \cup {""}

\* ServeHTTP lets a request through only on a knock from the same address
\* for the same host, through whatever instance, with the secret that the
\* request's own instance holds for that kid and allows; on an ip+cookie
\* site only with the cookie of that very knock.  Neither the stores that
\* all instances share nor a reload between knock and request opens a site
\* to a device that its config does not name.
GateJustified ==
    \A p \in Request : \A g \in req[p].g :
        req[p].out = "allow" =>
        \E q \in Request :
            LET reg == Site(p).reg
            IN  /\ req[q].out = "granted" /\ req[q].g = {g}
                /\ req[q].host = req[p].host /\ req[q].ip = req[p].ip
                /\ req[p].t < g.exp
                /\ Authorize(reg, req[q].body.device[1], req[p].host, req[p].t)
                /\ reg.tokens[req[q].body.device[1]].secret = req[q].body.device[2]
                /\ Grants!BindingIPCookie \in {Site(p).binding, Site(q).binding} =>
                     req[p].cookie = q

\* Sweeps begin at least SweepEvery seconds apart by the clock readings they
\* use, however many requests come after a quiet minute and however late one
\* of them gets to sweepMu with its reading.
SweepSpaced ==
    \A p, q \in Request : p # q =>
        \A t \in req[p].swept, u \in req[q].swept : t - u >= SweepEvery \/ u - t >= SweepEvery

\* What maybeSweep's comment says ("nothing here is required for
\* correctness"), as far as it goes: a sweep, even one that runs late with
\* its old reading of the clock, closes no site.  Whatever an instance would
\* let through now or later before the sweep it lets through after it.
SweepClosesNothing ==
    [][ \A p \in Request : SweepGrants(p) =>
          \A s \in DOMAIN Sites, ip \in IP, t \in now..MaxTime,
             cookie \in {Grants!NoCookie} \cup HandedOut : \A host \in Sites[s].hosts :
            Grants!IsAllowed(host, ip, Provision(s).reg, t, cookie) # {} =>
            Grants!IsAllowed(host, ip, Provision(s).reg, t, cookie)' # {} ]_vars

\* "Peek, validate, then burn" (handleEnroll): until it expires a code is in
\* the store or was exchanged for its secret, never both and never neither;
\* a site that does not serve its kid cannot destroy it, nor can a sweep or
\* a lost race.
CodeKept ==
    \A c \in DOMAIN issued :
        /\ delivered[c] <= 1
        /\ now < issued[c].exp => (c \in DOMAIN codes <=> delivered[c] = 0)
=============================================================================
