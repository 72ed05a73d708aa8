----------------------------- MODULE Authorizer -----------------------------
(***************************************************************************)
(* The forward-auth Authorizer (authorizer/server.go, admin.go, config.go):*)
(* HTTP handler goroutines, a SIGHUP reload, a sweeper goroutine and the   *)
(* clock, over the stores of the portable core.                            *)
(*                                                                         *)
(* Every element of Request is one HTTP request, served by the handler     *)
(* ask[p] names.  A handler takes s.mu for each config() and registry()    *)
(* and the mutex of a store for each call, and holds nothing in between:   *)
(* each such access is a step of its own and what it read is kept in       *)
(* req[p].  An identity the server draws at random (nonce, cookie, code)   *)
(* is the request that drew it.                                            *)
(*                                                                         *)
(* The requests modelled are those the checks before the first state       *)
(* access let through (trusted peer, unambiguous target, admin bearer,     *)
(* method, decodable body); the others are denied and change nothing, as a *)
(* request for an unconfigured service or with a foreign nonce is here.    *)
(***************************************************************************)
EXTENDS Registry, Sequences, Functions

CONSTANTS
    Request,      \* HTTP requests
    Starts,       \* <<handlers the requests go to, config name>> at the start
    Configs,      \* name -> config file content, finalized
    Kid, Segment, Service, IP,
    Secret,       \* device secrets
    Subnet,       \* Subnet[ip]: ip with an IPv6 address cut to its /64
    Uri,          \* normalized paths, as <<prefix, rest>>
    MaxEntries, WindowLen,          \* of the rate limiter
    MinEnrollTTL, MaxEnrollTTL,     \* clamp of adminEnrollCode (300, 604800)
    AdminTTL,     \* TTLs an admin asks for, 0 for the default
    MaxTime,      \* bound of the clock
    SweepAt,      \* when the sweeper's ticker fires (every 60 s in the code)
    MaxRestarts   \* bound on restarts of the process

\* A request draws an identity that is no empty cookie; finalize checks the
\* TTLs of a config and leaves those of its services as they are.
ASSUME AuthorizerAssumption ==
    /\ "" \notin Request
    /\ \A start \in Starts : start[2] \in DOMAIN Configs
    /\ \A c \in DOMAIN Configs :
         /\ Configs[c].nonceTTL \in Nat /\ Configs[c].grantTTL \in Nat
         /\ \A s \in DOMAIN Configs[c].services : Configs[c].services[s].grantTTL \in Int

\* Names and addresses are sequences of segments; finalize refuses any other
\* binding, and TTLs and limits are whole numbers.
ASSUME TypesAssumption ==
    /\ Service \subseteq Seq(Segment) /\ IP \subseteq Seq(Segment)
    /\ MinEnrollTTL \in Nat /\ MaxEnrollTTL \in Nat /\ AdminTTL \subseteq Int
    /\ MaxTime \in Nat /\ MaxRestarts \in Nat
    /\ \A c \in DOMAIN Configs :
         /\ Configs[c].enrollTTL \in Int /\ Configs[c].rateLimit \in Int
         /\ \A s \in DOMAIN Configs[c].services :
              Configs[c].services[s].binding \in {"", "ip", "ip+cookie"}

VARIABLES
    now,          \* the clock, in seconds
    ask,          \* ask[p]: the handler that serves request p, fixed at the start
    cfg,          \* s.cfg, and s.reg built from it: swapped together
    epoch,        \* the process: a new one draws a new nonce key
    grants, byKid, spent, codes, window,    \* the stores
    minted,       \* nonces handed out: id -> [ts, service, ip, epoch]
    req,          \* request -> its handler's control state and locals
    sweep         \* the sweeper: [pc, t]

\* History, read by the properties only.
VARIABLES
    claims,       \* nonce -> number of successful claims
    delivered     \* code -> number of times its secret was handed out

stores == <<grants, byKid, spent, codes, window>>
history == <<claims, delivered>>
vars == <<now, ask, cfg, epoch, stores, minted, req, sweep, history>>

ManualKid == "__manual__"
NoneYet == <<>>
Time == 0..MaxTime
Cookie == Request
Tokens == UNION { Range(Configs[c].tokens) : c \in DOMAIN Configs }
FP == {NoFP} \cup { SecretHash(token.secret) : token \in Tokens }

Grants == INSTANCE GrantStore WITH Offer <- {}
Nonces == INSTANCE NonceStore
Codes == INSTANCE EnrollStore
Limiter == INSTANCE RateLimiter

-----------------------------------------------------------------------------
(* Configuration *)

RegistryOf(c) ==
    [ tokens |-> [ kid \in DOMAIN Configs[c].tokens |->
                     [ secret |-> Configs[c].tokens[kid].secret, alg |-> AlgHMACSHA256,
                       expires |-> Configs[c].tokens[kid].expires ] ],
      services |-> [ s \in DOMAIN Configs[c].services |-> Configs[c].services[s].tokens ] ]

KnownService(c, service) == service \in DOMAIN Configs[c].services

\* Leaves the default binding empty.
binding_NoDefault(svc) == svc.binding

binding(svc) == IF svc.binding = "" THEN Grants!BindingIP ELSE svc.binding

grantTTL(c, svc) == IF svc.grantTTL > 0 THEN svc.grantTTL ELSE Configs[c].grantTTL

\* The buckets are per service and per source, IPv6 by /64.
RateKey(service, ip) == <<service, Subnet[ip]>>

-----------------------------------------------------------------------------
(* Requests *)

Protocol == {"challenge", "respond", "enroll"}
Admin == {"adminGrant", "adminRevoke", "adminRevokeToken", "adminEnrollCode"}

\* The place of a request that never comes.
NoRequest == "none"

\* Cookies and codes the server may have handed out so far.
HandedOut(kind) == { q \in Request : ask[q] = kind /\ req[q].out \in {"granted", "code"} }

\* What a client may send.  A nonce is one that was minted, for whatever
\* service and address, by this process or the one before it; a forged one
\* fails its MAC as one of another address does.
Inputs(kind) ==
    CASE kind = "challenge" -> [service : Service, ip : IP]
      [] kind = "respond" ->
           [ service : Service, ip : IP, kid : Kid \ {ManualKid}, secret : Secret,
             nonce : DOMAIN minted,
             cookie : {Grants!NoCookie} \cup HandedOut("respond") ]
      [] kind = "enroll" ->
           [service : Service, ip : IP, code : HandedOut("adminEnrollCode")]
      [] kind = "authz" ->
           [ service : Service, ip : IP, uri : Uri,
             cookie : {Grants!NoCookie} \cup HandedOut("respond") ]
      [] kind = "adminGrant" ->
           [service : Service, ip : IP, kid : Kid, ttl : AdminTTL]
      [] kind = "adminRevoke" -> [service : Service, ip : IP]
      [] kind = "adminRevokeToken" -> [kid : Kid]
      [] kind = "adminEnrollCode" -> [kid : Kid, ttl : AdminTTL]

\* svc, cfg, reg: the configs that resolve(), config() and registry() read;
\* t: the clock; g: the grant in hand.  seen is history: the configs current
\* since the request began.
Idle == [ pc |-> "idle", in |-> NoneYet, svc |-> "", cfg |-> "", reg |-> "",
          t |-> 0, g |-> {}, out |-> "", seen |-> {} ]
Begin(in) == [Idle EXCEPT !.in = in, !.seen = {cfg}]

At(p, label) == req[p].pc = label
Goto(p, r) == req' = [req EXCEPT ![p] = r]

\* The handler returns and its locals are gone; what the properties compare
\* with later is kept: the grant and, of a request let through, the time and
\* the configs it saw.
Answer(p, r, out) ==
    Goto(p, [ Idle EXCEPT !.pc = "done", !.in = r.in, !.g = r.g, !.out = out,
                          !.t = IF out = "allow" THEN r.t ELSE 0,
                          !.seen = IF out = "allow" THEN r.seen ELSE {} ])
Deny(p) == Goto(p, [Idle EXCEPT !.pc = "done", !.out = "deny"])

Active(p) == req[p].pc \notin {"idle", "done"}

\* The service config that resolve() read.
Svc(r) == Configs[r.svc].services[r.in.service]

\* resolve(): the first read of the config.  An unknown service is denied at
\* once by the knock endpoints; handleAuthz looks at c.known later.
Resolve(p) ==
    /\ At(p, "idle") /\ ask[p] \in Protocol \cup {"authz"}
    /\ \E in \in Inputs(ask[p]) :
         LET r == [Begin(in) EXCEPT !.svc = cfg]
         IN  \/ ask[p] = "authz" /\ Goto(p, [r EXCEPT !.pc = "config"])
             \/ /\ ask[p] \in Protocol /\ KnownService(cfg, in.service)
                /\ Goto(p, [r EXCEPT !.pc = "throttle"])
             \/ /\ ask[p] \in Protocol /\ ~KnownService(cfg, in.service)
                /\ Deny(p)
    /\ UNCHANGED <<now, ask, cfg, epoch, stores, minted, sweep, history>>

AfterThrottle == [challenge |-> "mint", respond |-> "nonce", enroll |-> "peek"]

\* The second read of the config, for the limit, and rl.Allow.
Throttle(p) ==
    /\ At(p, "throttle")
    /\ \E ok \in BOOLEAN :
         /\ Limiter!Allow(RateKey(req[p].in.service, req[p].in.ip),
                          Configs[cfg].rateLimit, now, ok)
         /\ IF ok THEN Goto(p, [req[p] EXCEPT !.pc = AfterThrottle[ask[p]], !.cfg = cfg])
                  ELSE Deny(p)
    /\ UNCHANGED <<now, ask, cfg, epoch, grants, byKid, spent, codes, minted, sweep, history>>

-----------------------------------------------------------------------------
(* handleChallenge: the nonce carries its own MAC, the server keeps nothing *)

IssueNonce(p) ==
    /\ At(p, "mint")
    /\ minted' = [ n \in DOMAIN minted \cup {p} |->
                     IF n = p THEN [ ts |-> now, service |-> req[p].in.service,
                                     ip |-> req[p].in.ip, epoch |-> epoch ]
                              ELSE minted[n] ]
    /\ Answer(p, req[p], "nonce")
    /\ UNCHANGED <<now, ask, cfg, epoch, stores, sweep, history>>

-----------------------------------------------------------------------------
(* handleRespond: the knock *)

\* The MAC, under this process's key, covers service, address and ts.
VerifyNonce(n, service, ip, t, ttl) ==
    /\ minted[n].epoch = epoch
    /\ minted[n].service = service /\ minted[n].ip = ip
    /\ minted[n].ts <= t /\ t - minted[n].ts < ttl

CheckNonce(p) ==
    /\ At(p, "nonce")
    /\ LET r == req[p]
       IN  IF VerifyNonce(r.in.nonce, r.in.service, r.in.ip, now, Configs[r.cfg].nonceTTL)
           THEN Goto(p, [r EXCEPT !.pc = "proof", !.t = now])
           ELSE Deny(p)
    /\ UNCHANGED <<now, ask, cfg, epoch, stores, minted, sweep, history>>

\* Authorize and VerifyProof.  A proof is a MAC under the device's secret
\* over service, kid and nonce: it verifies iff the secret is the token's.
Proves(r, reg) ==
    /\ Authorize(reg, r.in.kid, r.in.service, r.t)
    /\ r.in.secret = reg.tokens[r.in.kid].secret

\* The registry is read here.
CheckProof(p) ==
    /\ At(p, "proof")
    /\ IF Proves(req[p], RegistryOf(cfg))
       THEN Goto(p, [req[p] EXCEPT !.pc = "claim", !.reg = cfg])
       ELSE Deny(p)
    /\ UNCHANGED <<now, ask, cfg, epoch, stores, minted, sweep, history>>

ClaimNonce(p) ==
    /\ At(p, "claim")
    /\ \/ /\ Nonces!Claim(req[p].in.nonce, req[p].t, Configs[req[p].cfg].nonceTTL)
          /\ claims' = [claims EXCEPT ![req[p].in.nonce] = @ + 1]
          /\ Goto(p, [req[p] EXCEPT !.pc = "put"])
       \/ /\ Nonces!AlreadySpent(req[p].in.nonce, req[p].t)
          /\ Deny(p)
          /\ UNCHANGED <<spent, claims>>
    /\ UNCHANGED <<now, ask, cfg, epoch, grants, byKid, codes, window, minted, sweep,
                   delivered>>

\* The grant of a knock; with ip+cookie binding its cookie is p itself.
KnockGrant(p, r) ==
    LET bound == binding(Svc(r)) = Grants!BindingIPCookie
    IN  [ kid |-> r.in.kid, service |-> r.in.service, ip |-> r.in.ip,
          binding |-> binding(Svc(r)),
          cookieHash |-> IF bound THEN Grants!CookieHash(p) ELSE Grants!NoHash,
          exp |-> r.t + grantTTL(r.cfg, Svc(r)), manual |-> FALSE,
          secretFP |-> Fingerprint(RegistryOf(r.reg), r.in.kid) ]

\* The cookie the request carried names the record to retire.
OldHash(cookie) ==
    IF cookie = Grants!NoCookie THEN Grants!NoHash ELSE Grants!CookieHash(cookie)

PutGrant(p) ==
    /\ At(p, "put")
    /\ LET g == KnockGrant(p, req[p])
       IN  /\ Grants!Put(g, OldHash(req[p].in.cookie))
           /\ Answer(p, [req[p] EXCEPT !.g = {g}], "granted")
    /\ UNCHANGED <<now, ask, cfg, epoch, spent, codes, window, minted, sweep, history>>

-----------------------------------------------------------------------------
(* handleEnroll: a one-time code for the device secret *)

PeekCode(p) ==
    /\ At(p, "peek")
    /\ IF Codes!Live(req[p].in.code, now)
       THEN Goto(p, [req[p] EXCEPT !.pc = "lookup"])
       ELSE Deny(p)
    /\ UNCHANGED <<now, ask, cfg, epoch, stores, minted, sweep, history>>

\* The kid of a code never changes: codes are drawn once.
CodeKid(code) == req[code].in.kid

\* Leaves the kid to the lookup after Consume.
LookupKid_Later(p) ==
    /\ At(p, "lookup")
    /\ Goto(p, [req[p] EXCEPT !.pc = "consume"])
    /\ UNCHANGED <<now, ask, cfg, epoch, stores, minted, sweep, history>>

LookupKid(p) ==
    /\ At(p, "lookup")
    /\ IF Known(RegistryOf(cfg), CodeKid(req[p].in.code))
       THEN Goto(p, [req[p] EXCEPT !.pc = "consume"])
       ELSE Deny(p)
    /\ UNCHANGED <<now, ask, cfg, epoch, stores, minted, sweep, history>>

ConsumeCode(p) ==
    /\ At(p, "consume")
    /\ Codes!Consume(req[p].in.code)
    /\ IF Codes!Live(req[p].in.code, now)
       THEN Goto(p, [req[p] EXCEPT !.pc = "deliver"])
       ELSE Deny(p)
    /\ UNCHANGED <<now, ask, cfg, epoch, grants, byKid, spent, window, minted, sweep, history>>

\* The kid may be gone from the registry by now.
DeliverSecret(p) ==
    /\ At(p, "deliver")
    /\ \/ /\ Known(RegistryOf(cfg), CodeKid(req[p].in.code))
          /\ delivered' = [delivered EXCEPT ![req[p].in.code] = @ + 1]
          /\ Answer(p, req[p], "secret")
       \/ /\ ~Known(RegistryOf(cfg), CodeKid(req[p].in.code))
          /\ Deny(p)
          /\ UNCHANGED delivered
    /\ UNCHANGED <<now, ask, cfg, epoch, stores, minted, sweep, claims>>

-----------------------------------------------------------------------------
(* handleAuthz: the forward-auth decision *)

Endpoints == {"challenge", "respond", "enroll", "register"}

\* cfg := s.config(), the carve-out of the protocol endpoints, c.known.
AuthzConfig(p) ==
    /\ At(p, "config")
    /\ LET r == req[p]
           carvedOut == r.in.uri \in {Configs[cfg].prefix} \X Endpoints
       IN  \/ carvedOut /\ Answer(p, r, "pass")
           \/ /\ ~carvedOut /\ ~KnownService(r.svc, r.in.service)
              /\ Deny(p)
           \/ /\ ~carvedOut /\ KnownService(r.svc, r.in.service)
              /\ Goto(p, [r EXCEPT !.pc = "registry", !.cfg = cfg])
    /\ UNCHANGED <<now, ask, cfg, epoch, stores, minted, sweep, history>>

\* The arguments of IsAllowed are read before it locks the store.
AuthzRegistry(p) ==
    /\ At(p, "registry")
    /\ Goto(p, [req[p] EXCEPT !.pc = "clock", !.reg = cfg])
    /\ UNCHANGED <<now, ask, cfg, epoch, stores, minted, sweep, history>>

AuthzClock(p) ==
    /\ At(p, "clock")
    /\ Goto(p, [req[p] EXCEPT !.pc = "check", !.t = now])
    /\ UNCHANGED <<now, ask, cfg, epoch, stores, minted, sweep, history>>

\* A grant weaker than the binding the service asks for now.
TooWeak(g, svc) == binding(svc) = Grants!BindingIPCookie /\ g.binding # Grants!BindingIPCookie

AuthzCheck(p) ==
    /\ At(p, "check")
    /\ LET r == req[p]
           g == Grants!IsAllowed(r.in.service, r.in.ip, RegistryOf(r.reg), r.t, r.in.cookie)
       IN  IF g # {} /\ \A x \in g : ~TooWeak(x, Svc(r))
           THEN Answer(p, [r EXCEPT !.g = g], "allow")
           ELSE Deny(p)
    /\ UNCHANGED <<now, ask, cfg, epoch, stores, minted, sweep, history>>

-----------------------------------------------------------------------------
(* The admin API *)

\* adminGrant: config, then clock and registry, then the store.  No kid
\* (here ManualKid) makes a break-glass grant with no token behind it.
AdminGrantConfig(p) ==
    /\ At(p, "idle") /\ ask[p] = "adminGrant"
    /\ \E in \in Inputs("adminGrant") :
         Goto(p, [Begin(in) EXCEPT !.pc = "grantClock", !.cfg = cfg])
    /\ UNCHANGED <<now, ask, cfg, epoch, stores, minted, sweep, history>>

AdminGrantClock(p) ==
    /\ At(p, "grantClock")
    /\ Goto(p, [req[p] EXCEPT !.pc = "grantLookup", !.t = now])
    /\ UNCHANGED <<now, ask, cfg, epoch, stores, minted, sweep, history>>

AdminGrantLookup(p) ==
    /\ At(p, "grantLookup")
    /\ Goto(p, [req[p] EXCEPT !.pc = "grantPut", !.reg = cfg])
    /\ UNCHANGED <<now, ask, cfg, epoch, stores, minted, sweep, history>>

AdminTTLFor(r) == IF r.in.ttl > 0 THEN r.in.ttl ELSE Configs[r.cfg].grantTTL

AdminGrantPut(p) ==
    /\ At(p, "grantPut")
    /\ LET r == req[p]
           g == [ kid |-> r.in.kid, service |-> r.in.service, ip |-> r.in.ip,
                  binding |-> Grants!BindingIP, cookieHash |-> Grants!NoHash,
                  exp |-> r.t + AdminTTLFor(r), manual |-> r.in.kid = ManualKid,
                  secretFP |-> Fingerprint(RegistryOf(r.reg), r.in.kid) ]
       IN  /\ Grants!Put(g, Grants!NoHash)
           /\ Answer(p, [r EXCEPT !.g = {g}], "granted")
    /\ UNCHANGED <<now, ask, cfg, epoch, spent, codes, window, minted, sweep, history>>

AdminRevoke(p) ==
    /\ At(p, "idle") /\ ask[p] = "adminRevoke"
    /\ \E in \in Inputs("adminRevoke") :
         /\ Grants!Revoke(in.service, in.ip)
         /\ Answer(p, Begin(in), "revoked")
    /\ UNCHANGED <<now, ask, cfg, epoch, spent, codes, window, minted, sweep, history>>

AdminRevokeToken(p) ==
    /\ At(p, "idle") /\ ask[p] = "adminRevokeToken"
    /\ \E in \in Inputs("adminRevokeToken") :
         /\ Grants!RevokeToken(in.kid)
         /\ Answer(p, Begin(in), "revoked")
    /\ UNCHANGED <<now, ask, cfg, epoch, spent, codes, window, minted, sweep, history>>

\* adminEnrollCode: the registry, then config, clock and the store.
AdminCodeLookup(p) ==
    /\ At(p, "idle") /\ ask[p] = "adminEnrollCode"
    /\ \E in \in Inputs("adminEnrollCode") :
         IF Known(RegistryOf(cfg), in.kid)
         THEN Goto(p, [Begin(in) EXCEPT !.pc = "codeConfig"])
         ELSE Deny(p)
    /\ UNCHANGED <<now, ask, cfg, epoch, stores, minted, sweep, history>>

AdminCodeConfig(p) ==
    /\ At(p, "codeConfig")
    /\ Goto(p, [req[p] EXCEPT !.pc = "codePut", !.cfg = cfg])
    /\ UNCHANGED <<now, ask, cfg, epoch, stores, minted, sweep, history>>

Clamp(ttl) ==
    IF ttl < MinEnrollTTL THEN MinEnrollTTL
    ELSE IF ttl > MaxEnrollTTL THEN MaxEnrollTTL ELSE ttl

AdminCodePut(p) ==
    /\ At(p, "codePut")
    /\ LET r == req[p]
           ttl == IF r.in.ttl > 0 THEN r.in.ttl ELSE Configs[r.cfg].enrollTTL
       IN  Codes!Put(p, r.in.kid, now + Clamp(ttl))
    /\ Answer(p, req[p], "code")
    /\ UNCHANGED <<now, ask, cfg, epoch, grants, byKid, spent, window, minted, sweep, history>>

-----------------------------------------------------------------------------
(* Background: sweeper, reload, restart, clock *)

\* One reading of the clock serves four sweeps, each under its own mutex.
SweepStart ==
    /\ sweep.pc = "wait" /\ now \in SweepAt
    /\ sweep' = [pc |-> "grants", t |-> now]
    /\ UNCHANGED <<now, ask, cfg, epoch, stores, minted, req, history>>

SweepGrants ==
    /\ sweep.pc = "grants"
    /\ Grants!Sweep(sweep.t)
    /\ sweep' = [sweep EXCEPT !.pc = "nonces"]
    /\ UNCHANGED <<now, ask, cfg, epoch, spent, codes, window, minted, req, history>>

\* Goes on to the codes and leaves the spent nonces where they are.
SweepNonces_Skipped ==
    /\ sweep.pc = "nonces"
    /\ sweep' = [sweep EXCEPT !.pc = "codes"]
    /\ UNCHANGED <<now, ask, cfg, epoch, stores, minted, req, history>>

SweepNonces ==
    /\ sweep.pc = "nonces"
    /\ Nonces!Sweep(sweep.t)
    /\ sweep' = [sweep EXCEPT !.pc = "codes"]
    /\ UNCHANGED <<now, ask, cfg, epoch, grants, byKid, codes, window, minted, req, history>>

SweepCodes ==
    /\ sweep.pc = "codes"
    /\ Codes!Sweep(sweep.t)
    /\ sweep' = [sweep EXCEPT !.pc = "limiter"]
    /\ UNCHANGED <<now, ask, cfg, epoch, grants, byKid, spent, window, minted, req, history>>

SweepLimiter ==
    /\ sweep.pc = "limiter"
    /\ Limiter!Sweep(sweep.t)
    /\ sweep' = [pc |-> "wait", t |-> 0]
    /\ UNCHANGED <<now, ask, cfg, epoch, grants, byKid, spent, codes, minted, req, history>>

\* SIGHUP.  A config that moves a listener is refused and changes nothing.
Reload(c) ==
    /\ c # cfg
    /\ Configs[c].listen = Configs[cfg].listen
    /\ cfg' = c
    /\ req' = [ p \in Request |->
                  IF Active(p) THEN [req[p] EXCEPT !.seen = @ \cup {c}] ELSE req[p] ]
    /\ UNCHANGED <<now, ask, epoch, stores, minted, sweep, history>>

\* The process ends, with or without draining, and a new one starts: empty
\* stores, a new nonce key, the config as the file has it then.
Restart(c) ==
    /\ epoch < MaxRestarts
    /\ epoch' = epoch + 1
    /\ cfg' = c
    /\ grants' = <<>> /\ byKid' = <<>> /\ spent' = <<>>
    /\ codes' = <<>> /\ window' = <<>>
    /\ req' = [ p \in Request |->
                  IF Active(p) THEN [Idle EXCEPT !.pc = "done", !.out = "lost"] ELSE req[p] ]
    /\ sweep' = [pc |-> "wait", t |-> 0]
    /\ UNCHANGED <<now, ask, minted, history>>

Tick ==
    /\ now < MaxTime
    /\ now' = now + 1
    /\ UNCHANGED <<ask, cfg, epoch, stores, minted, req, sweep, history>>

-----------------------------------------------------------------------------

Init ==
    /\ now = 0 /\ epoch = 0
    /\ \E start \in Starts : ask = start[1] /\ cfg = start[2]
    /\ Grants!GrantStoreInit /\ Nonces!NonceStoreInit /\ Codes!EnrollStoreInit
    /\ Limiter!RateLimiterInit
    /\ minted = <<>>
    /\ req = [p \in Request |-> Idle]
    /\ sweep = [pc |-> "wait", t |-> 0]
    /\ claims = [p \in Request |-> 0] /\ delivered = [p \in Request |-> 0]

\* A step of a handler that is under way.
Handle(p) ==
    \/ Throttle(p) \/ IssueNonce(p)
    \/ CheckNonce(p) \/ CheckProof(p) \/ ClaimNonce(p) \/ PutGrant(p)
    \/ PeekCode(p) \/ LookupKid(p) \/ ConsumeCode(p) \/ DeliverSecret(p)
    \/ AuthzConfig(p) \/ AuthzRegistry(p) \/ AuthzClock(p) \/ AuthzCheck(p)
    \/ AdminGrantClock(p) \/ AdminGrantLookup(p) \/ AdminGrantPut(p)
    \/ AdminCodeConfig(p) \/ AdminCodePut(p)

\* A request arrives.
Arrive(p) ==
    \/ Resolve(p) \/ AdminGrantConfig(p) \/ AdminRevoke(p) \/ AdminRevokeToken(p)
    \/ AdminCodeLookup(p)

Sweeper == SweepStart \/ SweepGrants \/ SweepNonces \/ SweepCodes \/ SweepLimiter

Next ==
    \/ \E p \in Request : Arrive(p) \/ Handle(p)
    \/ Sweeper
    \/ \E c \in DOMAIN Configs : Reload(c) \/ Restart(c)
    \/ Tick

Spec == Init /\ [][Next]_vars

\* Goroutines that can run do run: no handler step and no sweep waits for
\* anything but a mutex that is released at once.
FairSpec ==
    /\ Spec
    /\ \A p \in Request : WF_vars(Handle(p))
    /\ WF_vars(Sweeper)

-----------------------------------------------------------------------------
(* Properties *)

Labels ==
    { "idle", "throttle", "mint", "nonce", "proof", "claim", "put", "peek", "lookup",
      "consume", "deliver", "config", "registry", "clock", "check", "grantClock",
      "grantLookup", "grantPut", "codeConfig", "codePut", "done" }

\* Types of the server's state.
TypeOK ==
    /\ now \in Time /\ cfg \in DOMAIN Configs /\ epoch \in 0..MaxRestarts
    /\ Grants!GrantStoreTypeOK
    /\ DOMAIN spent \subseteq DOMAIN minted /\ \A n \in DOMAIN spent : spent[n] \in Nat
    /\ \A c \in DOMAIN codes : codes[c].kid \in Kid /\ codes[c].exp \in Nat
    /\ \A k \in DOMAIN window : window[k].start \in Time /\ window[k].n \in Nat \ {0}
    /\ \A n \in DOMAIN minted : minted[n].ts \in Time /\ minted[n].epoch \in 0..epoch
    /\ \A p \in Request :
         /\ req[p].pc \in Labels /\ req[p].t \in Time
         /\ req[p].g \subseteq Grants!Grant
         /\ {req[p].svc, req[p].cfg, req[p].reg} \subseteq DOMAIN Configs \cup {""}
         /\ req[p].seen \subseteq DOMAIN Configs

\* handleAuthz opens a service only to a client that some knock or admin
\* call backs: the grant was put for this service and address, it has not
\* run out, and at some moment of the request the registry authorized the
\* kid for this service with the very secret that the knock proved (or an
\* admin opened the address by hand).  A token removed, expired, rotated or
\* taken off the allow-list before the request began opens nothing, whatever
\* was stored or in flight at that time; a device-bound grant opens only for
\* the browser that holds the cookie of that very knock.
AllowJustified ==
    \A p \in Request : \A g \in req[p].g :
        req[p].out = "allow" =>
        \E q \in Request :
            /\ req[q].out = "granted" /\ req[q].g = {g}
            /\ req[q].in.service = req[p].in.service /\ req[q].in.ip = req[p].in.ip
            /\ req[p].t < g.exp
            /\ g.binding = Grants!BindingIPCookie => req[p].in.cookie = q
            /\ \/ ask[q] = "adminGrant" /\ req[q].in.kid = ManualKid
               \/ \E c \in req[p].seen :
                    /\ Authorize(RegistryOf(c), req[q].in.kid, req[p].in.service, req[p].t)
                    /\ ask[q] = "respond" =>
                         RegistryOf(c).tokens[g.kid].secret = req[q].in.secret
                    /\ ask[q] = "adminGrant" => Fingerprint(RegistryOf(c), g.kid) = g.secretFP

\* Verify-then-burn with the code's timing: while a nonce is fresh it is
\* claimed at most once, whatever knocks race for it and whenever the
\* sweeper runs.
NonceFreshOnce ==
    \A n \in DOMAIN minted : claims[n] > 1 =>
        \E c \in DOMAIN Configs : now >= minted[n].ts + Configs[c].nonceTTL

\* A nonce is claimed once and never again (core/SPEC.md:117, DESIGN.md:351).
NonceSingleUse == \A n \in Request : claims[n] <= 1

\* A code is exchanged for a device secret at most once, with any number of
\* enroll requests, reloads and sweeps in between Peek and Consume.
EnrollOnce == \A c \in Request : delivered[c] <= 1

\* p has consumed its code.
Burned(p) == req[p].pc = "deliver"

\* "Validate BEFORE consuming" (server.go): no request costs anybody a code
\* that it cannot serve.  Before its time a code leaves the store by a restart
\* or into the hands of one handler, and that handler refuses the secret only
\* if a reload took the kid out of the registry while it was under way; a
\* code whose kid was gone when the request came in survives it.
BurnedForCause ==
    [][ /\ \A c \in DOMAIN codes \ DOMAIN codes' :
             \/ now >= codes[c].exp \/ epoch' # epoch
             \/ \E p \in Request : ~Burned(p) /\ Burned(p)' /\ req'[p].in.code = c
        /\ \A p \in Request :
             Burned(p) /\ req'[p].out = "deny" =>
                \E c, d \in req[p].seen : /\ Known(RegistryOf(c), CodeKid(req[p].in.code))
                                         /\ ~Known(RegistryOf(d), CodeKid(req[p].in.code))
      ]_vars

\* A later knock from the same place carried q's cookie.
Superseded(q) ==
    \E k \in Request : /\ ask[k] = "respond" /\ req[k].out = "granted"
                       /\ req[k].in.cookie = q
                       /\ req[k].in.service = req[q].in.service /\ req[k].in.ip = req[q].in.ip

\* With ip+cookie binding the store holds one record per device: devices
\* behind one address do not evict each other before their grants expire,
\* and a browser's next knock retires the record of its previous cookie
\* (GrantKeyCookie and Put).  Stated for a server nobody restarts or asks to
\* revoke.
OneRecordPerDevice ==
    \A q \in Request : \A g \in req[q].g :
        /\ ask[q] = "respond" /\ g.binding = Grants!BindingIPCookie
        /\ epoch = 0 /\ \A r \in Request : ask[r] \notin {"adminRevoke", "adminRevokeToken"}
        => /\ Superseded(q) => g \notin Grants!Range(grants)
           /\ now < g.exp /\ ~Superseded(q) => g \in Grants!Range(grants)

\* An admin revocation removes every grant it names and no other.
\* revoke-token reaches the grants through byKid, so a key left in the index
\* of a kid whose grant was overwritten, retired or swept would cost somebody
\* else's access, and a key missing there would leave a lost device inside.
RevokesExactly ==
    [][ \A p \in Request :
          req[p].out # "revoked" /\ req'[p].out = "revoked" =>
              LET in == req'[p].in
                  Named(g) == IF ask[p] = "adminRevoke" THEN g.service = in.service /\ g.ip = in.ip
                                                       ELSE g.kid = in.kid
              IN  grants' = Grants!Dropped(grants, { k \in DOMAIN grants : Named(grants[k]) })
      ]_vars

\* The sweeper reclaims what has expired: no expired grant, spent nonce or
\* enrollment code stays in its store, however often it is put again.
Reclaimed ==
    /\ \A s \in Service, i \in IP :
         LET Stale == \E g \in Grants!Range(grants) :
                         g.service = s /\ g.ip = i /\ now >= g.exp
         IN  Stale ~> ~Stale
    /\ \A n \in Request :
         LET Stale == \/ \E x \in {n} \cap DOMAIN spent : now >= spent[x]
                     \/ \E x \in {n} \cap DOMAIN codes : now >= codes[x].exp
         IN  Stale ~> ~Stale
=============================================================================
