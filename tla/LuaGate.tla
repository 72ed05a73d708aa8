------------------------------- MODULE LuaGate -------------------------------
(***************************************************************************)
(* The Lua gate: core/lua/jitaccess/core/store.lua over the shared         *)
(* dictionaries of nginx, the access phase of the OpenResty adapter        *)
(* (openresty.lua) and the management API of the BunkerWeb plugin          *)
(* (jitaccess.lua) on the same store.                                      *)
(*                                                                         *)
(* Workers are processes: each dictionary operation is atomic, everything  *)
(* between two of them interleaves with other workers.  A worker keeps the *)
(* config and the nonce key of the init() that it was forked from, and the *)
(* old workers finish their requests after a reload.  A worker's time is   *)
(* the one cached when it took up the request (or its body).               *)
(*                                                                         *)
(* The dictionaries are taken to be large enough that nothing is evicted.  *)
(***************************************************************************)
EXTENDS Registry, Integers, Sequences, Functions

CONSTANTS
    Request,      \* requests; a nonce, cookie or code is named for its request
    Scenes,       \* the mixes of endpoints the requests go to
    Configs,      \* name -> the options of init()
    Starts,       \* names of the configs that nginx starts with
    Kid, Service, IP,
    Device,       \* the <<kid, secret>> pairs clients hold
    AdminTTL,     \* TTLs an admin asks for
    CodeTTL,      \* lifetimes of an enrollment code
    MarkerTTL,    \* lifetime of a claim marker (900 in the code)
    MaxStall,     \* seconds that a worker may take over the exchange of a code
    MaxReloads, MaxTime

VARIABLES
    now,          \* the clock, in seconds
    ask,          \* ask[p]: the endpoint p goes to, fixed in the initial state
    master,       \* the last init(): [cfg, key], which new workers fork from
    grants,       \* jit_grants: key -> [val, till]
    spent, codes, marker,    \* jit_nonces: three key prefixes
    minted,       \* nonces handed out: id -> [ts, service, ip, key]
    req           \* request -> its worker's control state and locals

\* History, read by the properties only.
VARIABLES
    claims,       \* nonce -> number of successful claims
    delivered     \* code -> number of times its secret was handed out

dicts == <<grants, spent, codes, marker>>
history == <<claims, delivered>>
vars == <<now, ask, master, dicts, minted, req, history>>

-----------------------------------------------------------------------------
(* Shared dictionaries *)

\* A TTL of 0 means that the entry never expires.
Never == 0
Entry(val, t, ttl) == [val |-> val, till |-> IF ttl = 0 THEN Never ELSE t + ttl]
Present(d, k, t) == k \in DOMAIN d /\ (d[k].till = Never \/ t < d[k].till)
With(d, k, e) == [ x \in DOMAIN d \cup {k} |-> IF x = k THEN e ELSE d[x] ]
Without(d, k) == Restrict(d, DOMAIN d \ {k})

NoHash == <<>>
Hash(cookie) == <<"sha256", cookie>>
NoCookie == ""

\* A name, an address and a hash are the sequences of their segments between
\* colons, so that two records may have one key.
grant_key(service, ip, hash) == service \o ip \o hash

-----------------------------------------------------------------------------
(* init() *)

registry(c) ==
    [ tokens |-> [ kid \in DOMAIN Configs[c].tokens |->
                     [ secret |-> Configs[c].tokens[kid].secret, alg |-> AlgHMACSHA256,
                       expires |-> Configs[c].tokens[kid].expires ] ],
      services |-> [ s \in DOMAIN Configs[c].services |-> Configs[c].services[s].tokens ] ]

\* A grant_ttl of the service, 0 included, overrides the general one.
grant_ttl(c, service) ==
    LET own == Configs[c].services[service].grantTTL
    IN  IF own = <<>> THEN Configs[c].grantTTL ELSE own[1]

-----------------------------------------------------------------------------
(* Requests *)

Knocks == {"challenge", "respond", "enroll"}
Api == {"grant", "revoke", "revoke-token", "enroll-code"}
\* These read only the dictionaries, whatever config their worker has.
StoreOnly == Api \ {"enroll-code"}

\* nginx starts with a config that parses; lifetimes are whole seconds.
ASSUME LuaGateAssumption ==
    /\ Scenes \subseteq [Request -> Knocks \cup Api \cup {"page"}]
    /\ Starts \subseteq DOMAIN Configs
    /\ \A c \in DOMAIN Configs : Configs[c].nonceTTL \in Nat
    /\ CodeTTL \subseteq Nat \ {0} /\ MarkerTTL \in Nat /\ MaxTime \in Nat
    /\ MaxStall \in Nat /\ MaxStall < MarkerTTL

Answered(out) == { q \in Request : req[q].out = out }

\* What the requests of each endpoint carry.
Inputs(endpoint) ==
    CASE endpoint = "respond" -> [device : Device, nonce : DOMAIN minted]
      [] endpoint = "enroll" -> [code : Answered("code")]
      [] endpoint = "page" ->
           [cookie : {NoCookie} \cup { q \in Answered("granted") : ask[q] = "respond" }]
      [] endpoint = "grant" -> [ttl : AdminTTL, kid : Kid]
      [] endpoint = "enroll-code" -> [ttl : CodeTTL, kid : Kid]
      [] endpoint = "revoke-token" -> [kid : Kid]
      [] OTHER -> {<<>>}

\* The name and the address it is for: an API call on a kid has neither.
Targets(endpoint) ==
    IF endpoint \in {"revoke-token", "enroll-code"} THEN {<<<<>>, <<>>>>} ELSE Service \X IP

\* cfg, key: the worker's; t: its time; rec: the record in hand, as a set;
\* todo: keys left of a scan; before: history, the records a revocation is to
\* remove.
Idle == [ pc |-> "idle", cfg |-> "", key |-> 0, service |-> <<>>, ip |-> <<>>,
          in |-> <<>>, t |-> 0, rec |-> {}, todo |-> {}, before |-> {}, out |-> "" ]

At(p, label) == req[p].pc = label
Goto(p, r) == req' = [req EXCEPT ![p] = r]
Answer(p, r, out) ==
    Goto(p, [ (IF out \in {"granted", "allow"} THEN [r EXCEPT !.key = 0]
               ELSE [Idle EXCEPT !.in = IF out = "code" THEN r.in ELSE <<>>,
                                 !.cfg = IF out = "limited" THEN r.cfg ELSE "",
                                 !.before = r.before])
              EXCEPT !.pc = "done", !.out = out ])
deny(p) == Answer(p, req[p], "deny")

Svc(r) == Configs[r.cfg].services[r.service]

AfterRoute(endpoint) ==
    CASE endpoint \in Knocks -> "rate_ok" [] endpoint = "page" -> "get_cookie"
      [] OTHER -> endpoint

\* A worker takes the request.  The service name and the address come from
\* nginx; an unconfigured service is refused.
Access(p) ==
    /\ At(p, "idle")
    /\ \E at \in Targets(ask[p]), in \in Inputs(ask[p]) :
         LET worker == IF ask[p] \in StoreOnly THEN Idle
                       ELSE [Idle EXCEPT !.cfg = master.cfg, !.key = master.key]
             r == [worker EXCEPT !.pc = AfterRoute(ask[p]), !.service = at[1],
                                 !.ip = at[2], !.in = in, !.t = now]
         IN  IF ask[p] \notin Api /\ at[1] \notin DOMAIN Configs[master.cfg].services
             THEN deny(p) ELSE Goto(p, r)
    /\ UNCHANGED <<now, ask, master, dicts, minted, history>>

-----------------------------------------------------------------------------
(* rate_ok *)

Nil == "nil"

\* rate_ok(sname, ip) with the limit switched off.  With a limit it builds
\* the key of the counter from both arguments, and a nil raises an error.
Unlimited(c) == Configs[c].rateLimit <= 0
Raises(sname, ip) == Nil \in {sname, ip}

\* The handlers call rate_ok(ip): sname is the address and ip is nil.
rate_ok(p) ==
    /\ At(p, "rate_ok")
    /\ \/ /\ Unlimited(req[p].cfg)
          /\ Goto(p, [req[p] EXCEPT !.pc = ask[p], !.t = now])
       \/ /\ ~Unlimited(req[p].cfg) /\ Raises("ip", Nil)
          /\ Answer(p, req[p], "limited")
    /\ UNCHANGED <<now, ask, master, dicts, minted, history>>

-----------------------------------------------------------------------------
(* challenge and respond *)

challenge(p) ==
    /\ At(p, "challenge")
    /\ minted' = With(minted, p, [ ts |-> req[p].t, service |-> req[p].service,
                                   ip |-> req[p].ip, key |-> req[p].key ])
    /\ Answer(p, req[p], "nonce")
    /\ UNCHANGED <<now, ask, master, dicts, history>>

verify_nonce(n, r) ==
    /\ minted[n].key = r.key
    /\ minted[n].service = r.service /\ minted[n].ip = r.ip
    /\ minted[n].ts <= r.t /\ r.t - minted[n].ts < Configs[r.cfg].nonceTTL

\* verify_nonce, authorize and verify_proof, all against the worker's own.
respond(p) ==
    /\ At(p, "respond")
    /\ LET r == req[p]
           reg == registry(r.cfg)
           kid == r.in.device[1]
       IN  IF /\ verify_nonce(r.in.nonce, r)
              /\ Authorize(reg, kid, r.service, r.t)
              /\ reg.tokens[kid].secret = r.in.device[2]
           THEN Goto(p, [r EXCEPT !.pc = "nonce_claim"])
           ELSE deny(p)
    /\ UNCHANGED <<now, ask, master, dicts, minted, history>>

\* Writes the marker with set, which succeeds whether or not it is there.
nonce_claim_Set(p) ==
    /\ At(p, "nonce_claim")
    /\ LET n == req[p].in.nonce
       IN  /\ spent' = With(spent, n, Entry(TRUE, req[p].t, Configs[req[p].cfg].nonceTTL))
           /\ claims' = [claims EXCEPT ![n] = @ + 1]
    /\ Goto(p, [req[p] EXCEPT !.pc = "put_grant"])
    /\ UNCHANGED <<now, ask, master, grants, codes, marker, minted, delivered>>

\* add() succeeds when the marker is absent or has expired.
nonce_claim(p) ==
    /\ At(p, "nonce_claim")
    /\ LET n == req[p].in.nonce
       IN  \/ /\ ~Present(spent, n, req[p].t)
              /\ spent' = With(spent, n, Entry(TRUE, req[p].t, Configs[req[p].cfg].nonceTTL))
              /\ claims' = [claims EXCEPT ![n] = @ + 1]
              /\ Goto(p, [req[p] EXCEPT !.pc = "put_grant"])
           \/ /\ Present(spent, n, req[p].t)
              /\ deny(p)
              /\ UNCHANGED <<spent, claims>>
    /\ UNCHANGED <<now, ask, master, grants, codes, marker, minted, delivered>>

\* by is history: the request that put the record.
record(p, kid, ttl, binding, hash, manual, fp) ==
    [ kid |-> kid, service |-> req[p].service, ip |-> req[p].ip, binding |-> binding,
      cookie_hash |-> hash, manual |-> manual, exp |-> req[p].t + ttl,
      secret_fp |-> fp, by |-> p ]

put_grant(p, rec, ttl) ==
    /\ grants' = With(grants, grant_key(rec.service, rec.ip, rec.cookie_hash),
                      Entry(rec, req[p].t, ttl))
    /\ Answer(p, [req[p] EXCEPT !.rec = {rec}], "granted")
    /\ UNCHANGED <<now, ask, master, spent, codes, marker, minted, history>>

\* The record of an earlier cookie stays until it expires.
PutKnock(p) ==
    /\ At(p, "put_grant")
    /\ LET r == req[p]
           ttl == grant_ttl(r.cfg, r.service)
           bound == Svc(r).binding = "ip+cookie"
       IN  put_grant(p, record(p, r.in.device[1], ttl, Svc(r).binding,
                               IF bound THEN Hash(p) ELSE NoHash, FALSE,
                               Fingerprint(registry(r.cfg), r.in.device[1])), ttl)

-----------------------------------------------------------------------------
(* enroll *)

\* enroll_code_peek, and the lookup of its kid.
enroll(p) ==
    /\ At(p, "enroll")
    /\ IF /\ Present(codes, req[p].in.code, req[p].t)
          /\ Known(registry(req[p].cfg), codes[req[p].in.code].val)
       THEN Goto(p, [req[p] EXCEPT !.pc = "consume_get"])
       ELSE deny(p)
    /\ UNCHANGED <<now, ask, master, dicts, minted, history>>

\* enroll_code_consume: get, add of the claim marker, delete.
ConsumeGet(p) ==
    /\ At(p, "consume_get")
    /\ IF Present(codes, req[p].in.code, req[p].t)
       THEN Goto(p, [req[p] EXCEPT !.pc = "consume_add"])
       ELSE deny(p)
    /\ UNCHANGED <<now, ask, master, dicts, minted, history>>

\* Reads, then deletes, without a marker in between.
ConsumeAdd_NoMarker(p) ==
    /\ At(p, "consume_add")
    /\ Goto(p, [req[p] EXCEPT !.pc = "consume_delete"])
    /\ UNCHANGED <<now, ask, master, dicts, minted, history>>

ConsumeAdd(p) ==
    /\ At(p, "consume_add")
    /\ \/ /\ ~Present(marker, req[p].in.code, req[p].t)
          /\ marker' = With(marker, req[p].in.code, Entry(TRUE, req[p].t, MarkerTTL))
          /\ Goto(p, [req[p] EXCEPT !.pc = "consume_delete"])
       \/ /\ Present(marker, req[p].in.code, req[p].t)
          /\ deny(p)
          /\ UNCHANGED marker
    /\ UNCHANGED <<now, ask, master, grants, spent, codes, minted, history>>

\* The delete, and the answer with the secret: the kid is still in the
\* worker's registry.
ConsumeDelete(p) ==
    /\ At(p, "consume_delete")
    /\ codes' = Without(codes, req[p].in.code)
    /\ delivered' = [delivered EXCEPT ![req[p].in.code] = @ + 1]
    /\ Answer(p, req[p], "secret")
    /\ UNCHANGED <<now, ask, master, grants, spent, marker, minted, claims>>

-----------------------------------------------------------------------------
(* The gate *)

CookieHash(r) == IF r.in.cookie = NoCookie THEN NoHash ELSE Hash(r.in.cookie)

\* get_grant: the record under the cookie's key, else the one under the
\* plain key.
GetCookie(p) ==
    /\ At(p, "get_cookie")
    /\ LET r == req[p]
           k == grant_key(r.service, r.ip, CookieHash(r))
       IN  IF CookieHash(r) # NoHash /\ Present(grants, k, r.t)
           THEN Goto(p, [r EXCEPT !.pc = "is_allowed", !.rec = {grants[k].val}])
           ELSE Goto(p, [r EXCEPT !.pc = "get_plain"])
    /\ UNCHANGED <<now, ask, master, dicts, minted, history>>

GetPlain(p) ==
    /\ At(p, "get_plain")
    /\ LET r == req[p]
           k == grant_key(r.service, r.ip, NoHash)
       IN  IF Present(grants, k, r.t)
           THEN Goto(p, [r EXCEPT !.pc = "is_allowed", !.rec = {grants[k].val}])
           ELSE deny(p)
    /\ UNCHANGED <<now, ask, master, dicts, minted, history>>

\* Leaves the record's expiry to the dictionary.
Admits_DictExpiry(g, r) ==
    /\ g.service = r.service /\ g.ip = r.ip
    /\ \/ g.manual
       \/ /\ Authorize(registry(r.cfg), g.kid, r.service, r.t)
          /\ g.secret_fp = Fingerprint(registry(r.cfg), g.kid)
    /\ g.binding = "ip+cookie" => g.cookie_hash = CookieHash(r)

\* The checks of is_allowed on the record it got.
Admits(g, r) ==
    /\ g.service = r.service /\ g.ip = r.ip
    /\ r.t < g.exp
    /\ \/ g.manual
       \/ /\ Authorize(registry(r.cfg), g.kid, r.service, r.t)
          /\ g.secret_fp = Fingerprint(registry(r.cfg), g.kid)
    /\ g.binding = "ip+cookie" => g.cookie_hash = CookieHash(r)

\* is_allowed, and the refusal of a binding weaker than the service's.
is_allowed(p) ==
    /\ At(p, "is_allowed")
    /\ IF \A g \in req[p].rec :
            /\ Admits(g, req[p])
            /\ Svc(req[p]).binding = "ip+cookie" => g.binding = "ip+cookie"
       THEN Answer(p, req[p], "allow")
       ELSE deny(p)
    /\ UNCHANGED <<now, ask, master, dicts, minted, history>>

-----------------------------------------------------------------------------
(* The management API *)

\* A manual grant for a kid, "__manual__" by default; a ttl of 0 is passed on to the dictionary.
ApiGrant(p) ==
    /\ At(p, "grant")
    /\ put_grant(p, record(p, req[p].in.kid, req[p].in.ttl, "ip", NoHash, TRUE, NoFP),
                 req[p].in.ttl)

ApiEnrollCode(p) ==
    /\ At(p, "enroll-code")
    /\ \/ /\ Known(registry(req[p].cfg), req[p].in.kid)
          /\ codes' = With(codes, p, Entry(req[p].in.kid, req[p].t, req[p].in.ttl))
          /\ Answer(p, req[p], "code")
       \/ /\ ~Known(registry(req[p].cfg), req[p].in.kid)
          /\ deny(p)
          /\ UNCHANGED codes
    /\ UNCHANGED <<now, ask, master, grants, spent, marker, minted, history>>

\* The records that a revocation is for.
Matches(rec, r) ==
    IF "kid" \in DOMAIN r.in THEN rec.kid = r.in.kid
    ELSE rec.service = r.service /\ rec.ip = r.ip

Stored(t) == { grants[k].val : k \in { x \in DOMAIN grants : Present(grants, x, t) } }

\* del_grant deletes the plain key first.
DeletePlain(p) ==
    /\ At(p, "revoke")
    /\ grants' = Without(grants, grant_key(req[p].service, req[p].ip, NoHash))
    /\ Goto(p, [req[p] EXCEPT !.pc = "revoke-token",
                  !.before = { rec \in Stored(req[p].t) : Matches(rec, req[p]) }])
    /\ UNCHANGED <<now, ask, master, spent, codes, marker, minted, history>>

\* get_keys without the argument 0: a bounded number of keys, here one.
get_keys_Bounded(t) ==
    LET live == { k \in DOMAIN grants : Present(grants, k, t) }
    IN  { k \in live : k = CHOOSE x \in live : TRUE }

get_keys(t) == { k \in DOMAIN grants : Present(grants, k, t) }

\* Both revocations scan the keys there are now ...
Scan(p) ==
    /\ At(p, "revoke-token")
    /\ Goto(p, [req[p] EXCEPT !.pc = "scan_get", !.todo = get_keys(req[p].t),
                  !.before = @ \cup { rec \in Stored(req[p].t) : Matches(rec, req[p]) }])
    /\ UNCHANGED <<now, ask, master, dicts, minted, history>>

\* ... get each one, and delete it if the record is one they are for.
ScanGet(p) ==
    /\ At(p, "scan_get")
    /\ \/ /\ req[p].todo = {}
          /\ Answer(p, req[p], "revoked")
       \/ \E k \in req[p].todo :
            IF Present(grants, k, req[p].t) /\ Matches(grants[k].val, req[p])
            THEN Goto(p, [req[p] EXCEPT !.pc = "scan_delete", !.rec = {k}, !.todo = @ \ {k}])
            ELSE Goto(p, [req[p] EXCEPT !.todo = @ \ {k}])
    /\ UNCHANGED <<now, ask, master, dicts, minted, history>>

ScanDelete(p) ==
    /\ At(p, "scan_delete")
    /\ grants' = Restrict(grants, DOMAIN grants \ req[p].rec)
    /\ Goto(p, [req[p] EXCEPT !.pc = "scan_get", !.rec = {}])
    /\ UNCHANGED <<now, ask, master, spent, codes, marker, minted, history>>

-----------------------------------------------------------------------------
(* Reload and clock *)

\* init() draws a new nonce key and the dictionaries survive.
Reload(c) ==
    /\ c # master.cfg /\ master.key < MaxReloads
    /\ master' = [cfg |-> c, key |-> master.key + 1]
    /\ UNCHANGED <<now, ask, dicts, minted, req, history>>

\* From reading the body on, enroll does not yield: the worker has the code in
\* hand for as long as the process is held up, and no longer.
Exchanging(p) == ask[p] = "enroll" /\ req[p].pc \notin {"idle", "rate_ok", "done"}

Tick ==
    /\ now < MaxTime
    /\ \A p \in Request : Exchanging(p) => now < req[p].t + MaxStall
    /\ now' = now + 1
    /\ UNCHANGED <<ask, master, dicts, minted, req, history>>

Init ==
    /\ now = 0 /\ ask \in Scenes
    /\ master \in [cfg : Starts, key : {0}]
    /\ grants = <<>> /\ spent = <<>> /\ codes = <<>> /\ marker = <<>>
    /\ minted = <<>> /\ req = [p \in Request |-> Idle]
    /\ claims = [p \in Request |-> 0] /\ delivered = [p \in Request |-> 0]

Handle(p) ==
    \/ Access(p) \/ rate_ok(p)
    \/ challenge(p) \/ respond(p) \/ nonce_claim(p) \/ PutKnock(p)
    \/ enroll(p) \/ ConsumeGet(p) \/ ConsumeAdd(p) \/ ConsumeDelete(p)
    \/ GetCookie(p) \/ GetPlain(p) \/ is_allowed(p)
    \/ ApiGrant(p) \/ ApiEnrollCode(p)
    \/ DeletePlain(p) \/ Scan(p) \/ ScanGet(p) \/ ScanDelete(p)

Next ==
    \/ \E p \in Request : Handle(p)
    \/ \E c \in DOMAIN Configs : Reload(c)
    \/ Tick

Spec == Init /\ [][Next]_vars

-----------------------------------------------------------------------------
(* Properties *)

\* access() lets a request fall through to the upstream only on a record
\* that has not run out and that an admin put by hand or a knock put for the
\* same service and address, with the secret that the worker's registry
\* holds for the kid; a dictionary entry that never expires and a record from
\* before a reload open nothing by themselves.
LuaJustified ==
    \A p \in Request : \A g \in req[p].rec :
        req[p].out = "allow" =>
        LET q == g.by
            reg == registry(req[p].cfg)
            ttl == IF ask[q] = "grant" THEN req[q].in.ttl
                   ELSE grant_ttl(req[q].cfg, req[q].service)
        IN  /\ ask[q] \in {"grant", "respond"} /\ req[q].t + ttl > req[p].t
            /\ req[q].service = req[p].service /\ req[q].ip = req[p].ip
            /\ ask[q] = "respond" =>
                 /\ Authorize(reg, req[q].in.device[1], req[p].service, req[p].t)
                 /\ reg.tokens[req[q].in.device[1]].secret = req[q].in.device[2]
                 /\ "ip+cookie" \in {g.binding, Svc(req[p]).binding} => req[p].in.cookie = q

\* A nonce is claimed once in its life, whatever workers race for it: init()
\* draws the nonce key anew, so no config with a longer nonce_ttl verifies a
\* nonce whose marker has run out under a shorter one.
LuaNonceOnce == \A n \in Request : claims[n] <= 1

\* "add on a shared dict IS atomic across workers, so the winner of a claim
\* marker is the single consumer" (store.lua): a code is exchanged once, and
\* until it expires it is in the dictionary or was exchanged.
LuaCodeOnce ==
    \A c \in Answered("code") :
        /\ delivered[c] <= 1
        /\ Present(codes, c, now) => delivered[c] = 0
        /\ c \notin DOMAIN codes => delivered[c] = 1

\* Once del_grant or revoke_token has returned, no record that it was for
\* and that was stored when it began is left, although it scans key by key
\* while other workers put and delete.
RevokeComplete ==
    \A p \in Request : req[p].out = "revoked" => Stored(now) \cap req[p].before = {}

\* A knock is refused for its rate only after rate_limit attempts on the
\* service from that source ("rate_limit = 10, -- knock attempts per minute
\* per source address", adapters/openresty/conf/jitaccess.conf).
RefusedByQuota ==
    \A p \in Answered("limited") :
        Cardinality({ q \in Request \ {p} :
                        ask[q] \in Knocks /\ req[q].pc \notin {"idle", "rate_ok"} })
            >= Configs[req[p].cfg].rateLimit
=============================================================================
