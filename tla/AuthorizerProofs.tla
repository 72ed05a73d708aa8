-------------------------- MODULE AuthorizerProofs --------------------------
(***************************************************************************)
(* The Authorizer, for any number of requests, configs, services, devices  *)
(* and addresses: what an allow rests on, a code exchanged once, a nonce   *)
(* claimed once while it is fresh, one record per device, and the types.   *)
(* The first part says what each step of a handler does and leaves alone;  *)
(* the invariants build on that.                                           *)
(***************************************************************************)
EXTENDS Authorizer, TLAPS

-----------------------------------------------------------------------------
(* What a step of a handler does to the requests *)

\* The requests are records with the fields of Idle.
Shape == DOMAIN req = Request /\ \A p \in Request : DOMAIN req[p] = DOMAIN Idle

\* Only p's handler moves.
Alone(p) ==
    /\ Shape' /\ UNCHANGED ask
    /\ \A q \in Request \ {p} : req'[q] = req[q]

\* It goes on to label with what the client sent.
Advances(p, label) ==
    /\ Alone(p)
    /\ req'[p].pc = label
    /\ req'[p].in = req[p].in /\ req'[p].out = req[p].out /\ req'[p].g = req[p].g
    /\ req'[p].svc = req[p].svc /\ req'[p].seen = req[p].seen

\* It returns.
Returns(p, out) ==
    /\ Alone(p)
    /\ req'[p].pc = "done" /\ req'[p].out = out

Refuses(p) == Returns(p, "deny") /\ req'[p].g = {}

\* Goto with a record of the right fields moves p's handler only.
LEMMA GotoEffect ==
    ASSUME Shape, NEW p \in Request, NEW r, DOMAIN r = DOMAIN Idle, Goto(p, r), UNCHANGED ask
    PROVE  Alone(p) /\ req'[p] = r
  BY DEF Shape, Goto, Alone

\* Answer keeps what the client sent and the grant.
LEMMA AnswerEffect ==
    ASSUME Shape, NEW p \in Request, NEW r, NEW out, Answer(p, r, out), UNCHANGED ask
    PROVE  /\ Returns(p, out)
           /\ req'[p].in = r.in /\ req'[p].g = r.g
           /\ out = "allow" => req'[p].t = r.t /\ req'[p].seen = r.seen
<1> DEFINE a == [ Idle EXCEPT !.pc = "done", !.in = r.in, !.g = r.g, !.out = out,
                              !.t = IF out = "allow" THEN r.t ELSE 0,
                              !.seen = IF out = "allow" THEN r.seen ELSE {} ]
<1>1. /\ DOMAIN a = DOMAIN Idle
      /\ a.pc = "done" /\ a.in = r.in /\ a.g = r.g /\ a.out = out
      /\ out = "allow" => a.t = r.t /\ a.seen = r.seen
  BY DEF Idle
<1>2. Goto(p, a)
  BY DEF Answer
<1> HIDE DEF a
<1> QED
  BY <1>1, <1>2, GotoEffect DEF Returns

\* A handler that denies forgets the request and holds no grant.
LEMMA DenyEffect ==
    ASSUME Shape, NEW p \in Request, Deny(p), UNCHANGED ask
    PROVE  Refuses(p)
<1> DEFINE a == [Idle EXCEPT !.pc = "done", !.out = "deny"]
<1>1. DOMAIN a = DOMAIN Idle /\ a.pc = "done" /\ a.out = "deny" /\ a.g = {}
  BY DEF Idle
<1>2. Goto(p, a)
  BY DEF Deny
<1> HIDE DEF a
<1> QED
  BY <1>1, <1>2, GotoEffect DEF Refuses, Returns

\* A change of label, and of one of the fields that a handler reads into.
LEMMA PcEffect ==
    ASSUME Shape, NEW p \in Request, NEW l, UNCHANGED ask,
           Goto(p, [req[p] EXCEPT !.pc = l])
    PROVE  /\ Advances(p, l)
           /\ req'[p].t = req[p].t /\ req'[p].cfg = req[p].cfg /\ req'[p].reg = req[p].reg
  BY DEF Shape, Goto, Alone, Advances, Idle

\* A step that stores s.now() keeps the configs the handler has read.
LEMMA TimeEffect ==
    ASSUME Shape, NEW p \in Request, NEW l, NEW t, UNCHANGED ask,
           Goto(p, [req[p] EXCEPT !.pc = l, !.t = t])
    PROVE  /\ Advances(p, l)
           /\ req'[p].t = t /\ req'[p].cfg = req[p].cfg /\ req'[p].reg = req[p].reg
  BY DEF Shape, Goto, Alone, Advances, Idle

\* A step that stores s.registry() keeps the clock reading and s.config().
LEMMA RegEffect ==
    ASSUME Shape, NEW p \in Request, NEW l, NEW c, UNCHANGED ask,
           Goto(p, [req[p] EXCEPT !.pc = l, !.reg = c])
    PROVE  /\ Advances(p, l)
           /\ req'[p].t = req[p].t /\ req'[p].cfg = req[p].cfg /\ req'[p].reg = c
  BY DEF Shape, Goto, Alone, Advances, Idle

\* A step that stores s.config() keeps the clock reading and s.registry().
LEMMA CfgEffect ==
    ASSUME Shape, NEW p \in Request, NEW l, NEW c, UNCHANGED ask,
           Goto(p, [req[p] EXCEPT !.pc = l, !.cfg = c])
    PROVE  /\ Advances(p, l)
           /\ req'[p].t = req[p].t /\ req'[p].cfg = c /\ req'[p].reg = req[p].reg
  BY DEF Shape, Goto, Alone, Advances, Idle

\* A request comes in.
Arrives(p, in, label) ==
    /\ Alone(p)
    /\ req'[p].pc = label /\ req'[p].in = in
    /\ req'[p].out = "" /\ req'[p].g = {} /\ req'[p].seen = {cfg}

\* resolve(): a request is denied, or goes on with the config it was resolved
\* by; a protocol endpoint goes on only for a service of that config.
LEMMA ResolveEffect ==
    ASSUME Shape, NEW p \in Request, Resolve(p)
    PROVE  /\ req[p].pc = "idle"
           /\ \/ Refuses(p)
              \/ \E in \in Inputs(ask[p]) :
                   \/ Arrives(p, in, "config") /\ ask[p] = "authz" /\ req'[p].svc = cfg
                   \/ /\ Arrives(p, in, "throttle") /\ ask[p] \in Protocol
                      /\ req'[p].svc = cfg /\ KnownService(cfg, in.service)
<1>1. UNCHANGED ask /\ req[p].pc = "idle"
  BY DEF Resolve, At
<1>2. ASSUME NEW in, NEW l, Goto(p, [[Begin(in) EXCEPT !.svc = cfg] EXCEPT !.pc = l])
      PROVE  Arrives(p, in, l) /\ req'[p].svc = cfg
  BY <1>1, <1>2 DEF Shape, Goto, Alone, Arrives, Begin, Idle
<1> QED
  BY <1>1, <1>2, DenyEffect DEF Resolve

\* adminGrant begins with s.config(), adminEnrollCode with the registry.
LEMMA AdminArriveEffect ==
    ASSUME Shape, NEW p \in Request, AdminGrantConfig(p) \/ AdminCodeLookup(p)
    PROVE  /\ req[p].pc = "idle"
           /\ \/ Refuses(p)
              \/ \E in \in Inputs(ask[p]) :
                   \/ /\ AdminGrantConfig(p) /\ ask[p] = "adminGrant"
                      /\ Arrives(p, in, "grantClock") /\ req'[p].cfg = cfg
                   \/ /\ AdminCodeLookup(p) /\ ask[p] = "adminEnrollCode"
                      /\ Arrives(p, in, "codeConfig")
<1>1. UNCHANGED ask /\ req[p].pc = "idle"
  BY DEF AdminGrantConfig, AdminCodeLookup, At
<1>2. ASSUME NEW in, Goto(p, [Begin(in) EXCEPT !.pc = "grantClock", !.cfg = cfg])
      PROVE  Arrives(p, in, "grantClock") /\ req'[p].cfg = cfg
  BY <1>1, <1>2 DEF Shape, Goto, Alone, Arrives, Begin, Idle
<1>3. ASSUME NEW in, Goto(p, [Begin(in) EXCEPT !.pc = "codeConfig"])
      PROVE  Arrives(p, in, "codeConfig")
  BY <1>1, <1>3 DEF Shape, Goto, Alone, Arrives, Begin, Idle
<1>4. CASE AdminGrantConfig(p)
  BY <1>1, <1>2, <1>4 DEF AdminGrantConfig
<1>5. CASE AdminCodeLookup(p)
  BY <1>1, <1>3, <1>5, DenyEffect DEF AdminCodeLookup
<1> QED
  BY <1>4, <1>5

\* Records go and none changes.
Shrinks ==
    /\ DOMAIN grants' \subseteq DOMAIN grants
    /\ \A k \in DOMAIN grants' : grants'[k] = grants[k]

\* The revocations and the sweep of the store only take records away.
LEMMA RevokeShrinks ==
    ASSUME NEW s, NEW i, Grants!Revoke(s, i)
    PROVE  Shrinks
  BY DEF Shrinks, Grants!Revoke, Grants!Dropped, Grants!Restrict

\* RevokeToken only takes grants out of the store.
LEMMA RevokeTokenShrinks ==
    ASSUME NEW kid, Grants!RevokeToken(kid)
    PROVE  Shrinks
  BY DEF Shrinks, Grants!RevokeToken, Grants!Dropped, Grants!Restrict

\* GrantStore.Sweep only takes grants out of the store.
LEMMA SweepShrinks ==
    ASSUME NEW t, Grants!Sweep(t)
    PROVE  Shrinks
  BY DEF Shrinks, Grants!Sweep, Grants!Dropped, Grants!Restrict

\* A Put leaves the new grant and records that were there before.
LEMMA PutAdds ==
    ASSUME NEW g, NEW h, Grants!Put(g, h)
    PROVE  \A k \in DOMAIN grants' :
             grants'[k] = g \/ (k \in DOMAIN grants /\ grants'[k] = grants[k])
  BY DEF Grants!Put, Grants!Retired

\* The two revocations of the admin API return at once, with no grant in
\* hand and no grant added.
LEMMA AdminRevokeEffect ==
    ASSUME Shape, NEW p \in Request, AdminRevoke(p) \/ AdminRevokeToken(p)
    PROVE  /\ req[p].pc = "idle"
           /\ Returns(p, "revoked") /\ req'[p].g = {}
           /\ Shrinks
<1>1. ASSUME NEW in, Answer(p, Begin(in), "revoked"), UNCHANGED ask
      PROVE  Returns(p, "revoked") /\ req'[p].g = {}
  <2>1. Begin(in).g = {}
    BY DEF Begin, Idle
  <2> QED
    BY <1>1, <2>1, AnswerEffect
<1>2. CASE AdminRevoke(p)
  <2>1. PICK in \in Inputs("adminRevoke") :
            Grants!Revoke(in.service, in.ip) /\ Answer(p, Begin(in), "revoked")
    BY <1>2 DEF AdminRevoke
  <2>2. req[p].pc = "idle" /\ UNCHANGED ask
    BY <1>2 DEF AdminRevoke, At
  <2> QED
    BY <1>1, <2>1, <2>2, RevokeShrinks
<1>3. CASE AdminRevokeToken(p)
  <2>1. PICK in \in Inputs("adminRevokeToken") :
            Grants!RevokeToken(in.kid) /\ Answer(p, Begin(in), "revoked")
    BY <1>3 DEF AdminRevokeToken
  <2>2. req[p].pc = "idle" /\ UNCHANGED ask
    BY <1>3 DEF AdminRevokeToken, At
  <2> QED
    BY <1>1, <2>1, <2>2, RevokeTokenShrinks
<1> QED
  BY <1>2, <1>3

\* allowKnock: a refused knock is denied, the others go on to their handler
\* with the config read then.
LEMMA ThrottleEffect ==
    ASSUME Shape, NEW p \in Request, Throttle(p)
    PROVE  /\ req[p].pc = "throttle"
           /\ \/ Refuses(p)
              \/ Advances(p, AfterThrottle[ask[p]]) /\ req'[p].cfg = cfg
  BY DenyEffect, CfgEffect DEF Throttle, At

\* handleChallenge mints one nonce, dated by the clock and keyed by the
\* process, and leaves the other nonces as they were.
LEMMA IssueNonceEffect ==
    ASSUME Shape, NEW p \in Request, IssueNonce(p)
    PROVE  /\ req[p].pc = "mint"
           /\ Returns(p, "nonce") /\ req'[p].g = req[p].g
           /\ DOMAIN minted' = DOMAIN minted \cup {p}
           /\ \A n \in DOMAIN minted \ {p} : minted'[n] = minted[n]
           /\ minted'[p].ts = now /\ minted'[p].epoch = epoch
  BY AnswerEffect DEF IssueNonce, At

\* handleRespond reads the clock once and goes on only with a nonce that
\* VerifyNonce accepts at that time.
LEMMA CheckNonceEffect ==
    ASSUME Shape, NEW p \in Request, CheckNonce(p)
    PROVE  /\ req[p].pc = "nonce"
           /\ \/ Refuses(p)
              \/ /\ Advances(p, "proof")
                 /\ req'[p].t = now /\ req'[p].cfg = req[p].cfg /\ req'[p].reg = req[p].reg
                 /\ VerifyNonce(req[p].in.nonce, req[p].in.service, req[p].in.ip, now,
                                Configs[req[p].cfg].nonceTTL)
  BY DenyEffect, TimeEffect DEF CheckNonce, At

\* handleRespond reads the registry once and goes on only with a proof by a
\* token that registry authorizes.
LEMMA CheckProofEffect ==
    ASSUME Shape, NEW p \in Request, CheckProof(p)
    PROVE  /\ req[p].pc = "proof"
           /\ \/ Refuses(p)
              \/ /\ Advances(p, "claim")
                 /\ req'[p].t = req[p].t /\ req'[p].cfg = req[p].cfg /\ req'[p].reg = cfg
                 /\ Proves(req[p], RegistryOf(cfg))
  BY DenyEffect, RegEffect DEF CheckProof, At

\* NonceStore.Claim decides whether the knock goes on, and counts.
LEMMA ClaimNonceEffect ==
    ASSUME Shape, NEW p \in Request, ClaimNonce(p)
    PROVE  /\ req[p].pc = "claim"
           /\ \/ Refuses(p) /\ UNCHANGED <<spent, claims>>
              \/ /\ Advances(p, "put")
                 /\ req'[p].t = req[p].t /\ req'[p].cfg = req[p].cfg
                 /\ req'[p].reg = req[p].reg
                 /\ Nonces!Claim(req[p].in.nonce, req[p].t, Configs[req[p].cfg].nonceTTL)
                 /\ claims' = [claims EXCEPT ![req[p].in.nonce] = @ + 1]
  BY DenyEffect, PcEffect DEF ClaimNonce, At

\* A knock that claimed its nonce answers with the grant it puts.
LEMMA PutGrantEffect ==
    ASSUME Shape, NEW p \in Request, PutGrant(p)
    PROVE  /\ req[p].pc = "put"
           /\ Returns(p, "granted") /\ req'[p].in = req[p].in
           /\ req'[p].g = {KnockGrant(p, req[p])}
           /\ Grants!Put(KnockGrant(p, req[p]), OldHash(req[p].in.cookie))
<1>1. ASSUME NEW g, Answer(p, [req[p] EXCEPT !.g = {g}], "granted"), UNCHANGED ask
      PROVE  Returns(p, "granted") /\ req'[p].in = req[p].in /\ req'[p].g = {g}
  <2> DEFINE r == [req[p] EXCEPT !.g = {g}]
  <2>1. r.in = req[p].in /\ r.g = {g}
    BY DEF Shape, Idle
  <2> HIDE DEF r
  <2> QED
    BY <1>1, <2>1, AnswerEffect DEF r
<1> QED
  BY <1>1 DEF PutGrant, At

\* handleEnroll looks at the code before anything else.
LEMMA PeekCodeEffect ==
    ASSUME Shape, NEW p \in Request, PeekCode(p)
    PROVE  req[p].pc = "peek" /\ (Refuses(p) \/ Advances(p, "lookup"))
  BY DenyEffect, PcEffect DEF PeekCode, At

\* handleEnroll then looks the code's kid up.
LEMMA LookupKidEffect ==
    ASSUME Shape, NEW p \in Request, LookupKid(p)
    PROVE  /\ req[p].pc = "lookup"
           /\ \/ Refuses(p)
              \/ Advances(p, "consume") /\ Known(RegistryOf(cfg), CodeKid(req[p].in.code))
  BY DenyEffect, PcEffect DEF LookupKid, At

\* Consume takes the code out and only a live code goes on to delivery.
LEMMA ConsumeCodeEffect ==
    ASSUME Shape, NEW p \in Request, ConsumeCode(p)
    PROVE  /\ req[p].pc = "consume" /\ Codes!Consume(req[p].in.code)
           /\ \/ Refuses(p)
              \/ Advances(p, "deliver") /\ Codes!Live(req[p].in.code, now)
  BY DenyEffect, PcEffect DEF ConsumeCode, At

\* The secret goes out once per pass through the last step of handleEnroll.
LEMMA DeliverSecretEffect ==
    ASSUME Shape, NEW p \in Request, DeliverSecret(p)
    PROVE  /\ req[p].pc = "deliver"
           /\ \/ /\ Refuses(p) /\ UNCHANGED delivered
                 /\ ~Known(RegistryOf(cfg), CodeKid(req[p].in.code))
              \/ /\ Returns(p, "secret") /\ req'[p].g = req[p].g
                 /\ delivered' = [delivered EXCEPT ![req[p].in.code] = @ + 1]
  BY DenyEffect, AnswerEffect DEF DeliverSecret, At

\* handleAuthz: the carve-out passes, an unknown service is denied.
LEMMA AuthzConfigEffect ==
    ASSUME Shape, NEW p \in Request, AuthzConfig(p)
    PROVE  /\ req[p].pc = "config"
           /\ \/ Refuses(p)
              \/ Returns(p, "pass") /\ req'[p].g = req[p].g
              \/ Advances(p, "registry") /\ KnownService(req[p].svc, req[p].in.service)
  BY DenyEffect, AnswerEffect, CfgEffect DEF AuthzConfig, At

\* handleAuthz reads the registry after it was resolved.
LEMMA AuthzRegistryEffect ==
    ASSUME Shape, NEW p \in Request, AuthzRegistry(p)
    PROVE  req[p].pc = "registry" /\ Advances(p, "clock") /\ req'[p].reg = cfg
  BY RegEffect DEF AuthzRegistry, At

\* handleAuthz reads the clock after the registry.
LEMMA AuthzClockEffect ==
    ASSUME Shape, NEW p \in Request, AuthzClock(p)
    PROVE  /\ req[p].pc = "clock" /\ Advances(p, "check")
           /\ req'[p].reg = req[p].reg /\ req'[p].t = now
  BY TimeEffect DEF AuthzClock, At

\* handleAuthz allows with what IsAllowed returned for the registry and the
\* clock it had read, or denies.
LEMMA AuthzCheckEffect ==
    ASSUME Shape, NEW p \in Request, AuthzCheck(p)
    PROVE  /\ req[p].pc = "check"
           /\ \/ Refuses(p)
              \/ /\ Returns(p, "allow")
                 /\ req'[p].in = req[p].in /\ req'[p].t = req[p].t
                 /\ req'[p].seen = req[p].seen
                 /\ req'[p].g = Grants!IsAllowed(req[p].in.service, req[p].in.ip,
                                                 RegistryOf(req[p].reg), req[p].t,
                                                 req[p].in.cookie)
<1>1. ASSUME NEW g, Answer(p, [req[p] EXCEPT !.g = g], "allow"), UNCHANGED ask
      PROVE  /\ Returns(p, "allow") /\ req'[p].g = g
             /\ req'[p].in = req[p].in /\ req'[p].t = req[p].t /\ req'[p].seen = req[p].seen
  <2> DEFINE r == [req[p] EXCEPT !.g = g]
  <2>1. r.in = req[p].in /\ r.g = g /\ r.t = req[p].t /\ r.seen = req[p].seen
    BY DEF Shape, Idle
  <2> HIDE DEF r
  <2> QED
    BY <1>1, <2>1, AnswerEffect DEF r
<1> QED
  BY <1>1, DenyEffect DEF AuthzCheck, At

\* adminGrant reads the clock after the config.
LEMMA AdminGrantClockEffect ==
    ASSUME Shape, NEW p \in Request, AdminGrantClock(p)
    PROVE  /\ req[p].pc = "grantClock" /\ Advances(p, "grantLookup")
           /\ req'[p].t = now /\ req'[p].cfg = req[p].cfg
  BY TimeEffect DEF AdminGrantClock, At

\* adminGrant reads the registry for the fingerprint after the clock.
LEMMA AdminGrantLookupEffect ==
    ASSUME Shape, NEW p \in Request, AdminGrantLookup(p)
    PROVE  /\ req[p].pc = "grantLookup" /\ Advances(p, "grantPut")
           /\ req'[p].t = req[p].t /\ req'[p].cfg = req[p].cfg /\ req'[p].reg = cfg
  BY RegEffect DEF AdminGrantLookup, At

\* The grant that adminGrant puts.
HandGrant(r) ==
    [ kid |-> r.in.kid, service |-> r.in.service, ip |-> r.in.ip,
      binding |-> Grants!BindingIP, cookieHash |-> Grants!NoHash,
      exp |-> r.t + AdminTTLFor(r), manual |-> r.in.kid = ManualKid,
      secretFP |-> Fingerprint(RegistryOf(r.reg), r.in.kid) ]

\* adminGrant answers with the grant it puts.
LEMMA AdminGrantPutEffect ==
    ASSUME Shape, NEW p \in Request, AdminGrantPut(p)
    PROVE  /\ req[p].pc = "grantPut"
           /\ Returns(p, "granted") /\ req'[p].in = req[p].in
           /\ req'[p].g = {HandGrant(req[p])}
           /\ Grants!Put(HandGrant(req[p]), Grants!NoHash)
<1>1. ASSUME NEW g, Answer(p, [req[p] EXCEPT !.g = {g}], "granted"), UNCHANGED ask
      PROVE  Returns(p, "granted") /\ req'[p].in = req[p].in /\ req'[p].g = {g}
  <2> DEFINE r == [req[p] EXCEPT !.g = {g}]
  <2>1. r.in = req[p].in /\ r.g = {g}
    BY DEF Shape, Idle
  <2> HIDE DEF r
  <2> QED
    BY <1>1, <2>1, AnswerEffect DEF r
<1> QED
  BY <1>1 DEF AdminGrantPut, At, HandGrant

\* adminEnrollCode reads the config for the default TTL.
LEMMA AdminCodeConfigEffect ==
    ASSUME Shape, NEW p \in Request, AdminCodeConfig(p)
    PROVE  req[p].pc = "codeConfig" /\ Advances(p, "codePut") /\ req'[p].cfg = cfg
  BY CfgEffect DEF AdminCodeConfig, At

\* adminEnrollCode stores the code it drew and nothing else.
LEMMA AdminCodePutEffect ==
    ASSUME Shape, NEW p \in Request, AdminCodePut(p)
    PROVE  /\ req[p].pc = "codePut"
           /\ Returns(p, "code") /\ req'[p].in = req[p].in /\ req'[p].g = req[p].g
           /\ DOMAIN codes' = DOMAIN codes \cup {p}
  BY AnswerEffect DEF AdminCodePut, At, Codes!Put

-----------------------------------------------------------------------------
(* Control *)

Knocking == {"nonce", "proof", "claim", "put"}
Enrolling == {"peek", "lookup", "consume", "deliver"}
Deciding == {"config", "registry", "clock", "check"}
Granting == {"grantClock", "grantLookup", "grantPut"}
Coding == {"codeConfig", "codePut"}

\* A handler is at a label of its own.
LabelOf(p) ==
    /\ req[p].pc = "throttle" => ask[p] \in Protocol
    /\ req[p].pc = "mint" => ask[p] = "challenge"
    /\ req[p].pc \in Knocking => ask[p] = "respond"
    /\ req[p].pc \in Enrolling => ask[p] = "enroll"
    /\ req[p].pc \in Deciding => ask[p] = "authz"
    /\ req[p].pc \in Granting => ask[p] = "adminGrant"
    /\ req[p].pc \in Coding => ask[p] = "adminEnrollCode"

\* The nonce and the code that a client shows are ones the server drew.
InputOf(p) ==
    Active(p) =>
        /\ ask[p] = "respond" => req[p].in.nonce \in DOMAIN minted
        /\ ask[p] = "enroll" => req[p].in.code \in HandedOut("adminEnrollCode")

Control ==
    /\ Shape
    /\ DOMAIN minted \subseteq Request /\ \A n \in DOMAIN minted : req[n].pc = "done"
    /\ \A p \in Request : /\ LabelOf(p) /\ InputOf(p)
                          /\ req[p].out # "" => req[p].pc = "done"

\* The steps that lead to a label or an answer.
Comes(p) ==
    /\ req'[p].pc = "nonce" => Throttle(p)
    /\ req'[p].pc = "proof" => CheckNonce(p)
    /\ req'[p].pc = "claim" => CheckProof(p)
    /\ req'[p].pc = "put" => ClaimNonce(p)
    /\ req'[p].pc = "consume" => LookupKid(p)
    /\ req'[p].pc = "deliver" => ConsumeCode(p)
    /\ req'[p].pc = "clock" => AuthzRegistry(p)
    /\ req'[p].pc = "check" => AuthzClock(p)
    /\ req'[p].out = "allow" => AuthzCheck(p)
    /\ req'[p].out = "granted" => PutGrant(p) \/ AdminGrantPut(p)
    /\ req'[p].out = "revoked" => AdminRevoke(p) \/ AdminRevokeToken(p)
    /\ req'[p].g # {} => \/ req'[p].g = req[p].g
                         \/ PutGrant(p) \/ AdminGrantPut(p) \/ AuthzCheck(p)

\* What any step of p's handler does.
Moves(p) ==
    /\ Alone(p)
    /\ req[p].pc # "done"
    /\ LabelOf(p)'
    /\ req'[p].out # "" => req'[p].pc = "done"
    /\ req[p].pc # "idle" /\ Active(p)' => req'[p].in = req[p].in
    /\ req[p].pc = "idle" /\ Active(p)' => req'[p].in \in Inputs(ask[p])
    /\ Active(p)' => req'[p].seen = IF req[p].pc = "idle" THEN {cfg} ELSE req[p].seen
    /\ req[p].pc # "idle" /\ Active(p)' => req'[p].svc = req[p].svc
    /\ req[p].pc = "idle" /\ Active(p)' /\ ask[p] \in Protocol
         => req'[p].svc = cfg /\ KnownService(cfg, req'[p].in.service)
    /\ Comes(p)

\* An arriving request takes one of the moves above.
LEMMA ArriveMoves ==
    ASSUME Control, NEW p \in Request, Arrive(p)
    PROVE  Moves(p)
<1> USE DEF Moves, Comes, Control, Alone, Arrives, Returns, Refuses, LabelOf, Active,
            Knocking, Enrolling, Deciding, Granting, Coding, Protocol
<1>1. CASE Resolve(p)
  BY <1>1, ResolveEffect
<1>2. CASE AdminGrantConfig(p) \/ AdminCodeLookup(p)
  BY <1>2, AdminArriveEffect
<1>3. CASE AdminRevoke(p) \/ AdminRevokeToken(p)
  BY <1>3, AdminRevokeEffect
<1> QED
  BY <1>1, <1>2, <1>3 DEF Arrive

\* So does every later step of a handler, and none of them is the first.
LEMMA HandleMoves ==
    ASSUME Control, NEW p \in Request, Handle(p)
    PROVE  Moves(p) /\ req[p].pc # "idle"
<1> USE DEF Moves, Comes, Control, Alone, Advances, Returns, Refuses, LabelOf, Active,
            Knocking, Enrolling, Deciding, Granting, Coding
<1>1. CASE Throttle(p)
  <2> DEFINE next == AfterThrottle[ask[p]]
  <2>1. \/ ask[p] = "challenge" /\ next = "mint"
        \/ ask[p] = "respond" /\ next = "nonce"
        \/ ask[p] = "enroll" /\ next = "peek"
    <3>1. ask[p] = "challenge" \/ ask[p] = "respond" \/ ask[p] = "enroll"
      BY <1>1, ThrottleEffect DEF Protocol
    <3>2. /\ AfterThrottle["challenge"] = "mint"
          /\ AfterThrottle["respond"] = "nonce"
          /\ AfterThrottle["enroll"] = "peek"
      BY DEF AfterThrottle
    <3> QED
      BY <3>1, <3>2
  <2>2. req[p].pc = "throttle" /\ (Refuses(p) \/ Advances(p, next))
    BY <1>1, ThrottleEffect
  <2> HIDE DEF next
  <2> QED
    BY <1>1, <2>1, <2>2
<1>2. CASE IssueNonce(p)
  BY <1>2, IssueNonceEffect
<1>3. CASE CheckNonce(p)
  BY <1>3, CheckNonceEffect
<1>4. CASE CheckProof(p)
  BY <1>4, CheckProofEffect
<1>5. CASE ClaimNonce(p)
  BY <1>5, ClaimNonceEffect
<1>6. CASE PutGrant(p)
  BY <1>6, PutGrantEffect
<1>7. CASE PeekCode(p)
  BY <1>7, PeekCodeEffect
<1>8. CASE LookupKid(p)
  BY <1>8, LookupKidEffect
<1>9. CASE ConsumeCode(p)
  BY <1>9, ConsumeCodeEffect
<1>10. CASE DeliverSecret(p)
  BY <1>10, DeliverSecretEffect
<1>11. CASE AuthzConfig(p)
  BY <1>11, AuthzConfigEffect
<1>12. CASE AuthzRegistry(p)
  BY <1>12, AuthzRegistryEffect
<1>13. CASE AuthzClock(p)
  BY <1>13, AuthzClockEffect
<1>14. CASE AuthzCheck(p)
  BY <1>14, AuthzCheckEffect
<1>15. CASE AdminGrantClock(p)
  BY <1>15, AdminGrantClockEffect
<1>16. CASE AdminGrantLookup(p)
  BY <1>16, AdminGrantLookupEffect
<1>17. CASE AdminGrantPut(p)
  BY <1>17, AdminGrantPutEffect
<1>18. CASE AdminCodeConfig(p)
  BY <1>18, AdminCodeConfigEffect
<1>19. CASE AdminCodePut(p)
  BY <1>19, AdminCodePutEffect
<1> QED
  BY <1>1, <1>2, <1>3, <1>4, <1>5, <1>6, <1>7, <1>8, <1>9, <1>10, <1>11, <1>12, <1>13, <1>14, <1>15, <1>16, <1>17, <1>18, <1>19
     DEF Handle

\* What a reload or a restart does to the requests.
LEMMA ReloadEffect ==
    ASSUME Shape, NEW c, Reload(c)
    PROVE  /\ Shape' /\ UNCHANGED ask /\ cfg' = c
           /\ \A q \in Request :
                /\ ~Active(q) => req'[q] = req[q]
                /\ Active(q) => req'[q].seen = req[q].seen \cup {c}
                /\ req'[q].pc = req[q].pc /\ req'[q].in = req[q].in
                /\ req'[q].out = req[q].out /\ req'[q].g = req[q].g
                /\ req'[q].t = req[q].t /\ req'[q].cfg = req[q].cfg
                /\ req'[q].reg = req[q].reg /\ req'[q].svc = req[q].svc
  BY DEF Shape, Reload, Idle

\* A restart loses the requests under way and no answer already given.
LEMMA RestartEffect ==
    ASSUME Shape, NEW c, Restart(c)
    PROVE  /\ Shape' /\ UNCHANGED ask /\ cfg' = c
           /\ \A q \in Request :
                /\ ~Active(q) => req'[q] = req[q]
                /\ Active(q) => /\ req'[q].pc = "done" /\ req'[q].out = "lost"
                                /\ req'[q].g = {}
<1> DEFINE lost == [Idle EXCEPT !.pc = "done", !.out = "lost"]
<1>1. /\ DOMAIN lost = DOMAIN Idle /\ lost.pc = "done" /\ lost.out = "lost" /\ lost.g = {}
  BY DEF Idle
<1>2. /\ req' = [ p \in Request |-> IF Active(p) THEN lost ELSE req[p] ]
      /\ UNCHANGED ask /\ cfg' = c
  BY DEF Restart
<1> HIDE DEF lost
<1> QED
  BY <1>1, <1>2 DEF Shape

\* What the step of a handler leaves alone.
HandleFrame(p) ==
    /\ UNCHANGED <<now, cfg, epoch, sweep>>
    /\ UNCHANGED minted \/ IssueNonce(p)
    /\ UNCHANGED <<spent, claims>> \/ ClaimNonce(p)
    /\ UNCHANGED codes \/ ConsumeCode(p) \/ AdminCodePut(p)
    /\ UNCHANGED delivered \/ DeliverSecret(p)
    /\ UNCHANGED <<grants, byKid>> \/ PutGrant(p) \/ AdminGrantPut(p)
    /\ UNCHANGED window \/ Throttle(p)

\* What no handler step touches, by handler: the clock and the process, and
\* each store but the one its step locks.
LEMMA HandleKeeps ==
    ASSUME NEW p \in Request, Handle(p)
    PROVE  HandleFrame(p)
<1> USE DEF HandleFrame, stores, history
<1>1. CASE Throttle(p)
  BY <1>1 DEF Throttle
<1>2. CASE IssueNonce(p)
  BY <1>2 DEF IssueNonce
<1>3. CASE CheckNonce(p)
  BY <1>3 DEF CheckNonce
<1>4. CASE CheckProof(p)
  BY <1>4 DEF CheckProof
<1>5. CASE ClaimNonce(p)
  BY <1>5 DEF ClaimNonce
<1>6. CASE PutGrant(p)
  BY <1>6 DEF PutGrant
<1>7. CASE PeekCode(p)
  BY <1>7 DEF PeekCode
<1>8. CASE LookupKid(p)
  BY <1>8 DEF LookupKid
<1>9. CASE ConsumeCode(p)
  BY <1>9 DEF ConsumeCode
<1>10. CASE DeliverSecret(p)
  BY <1>10 DEF DeliverSecret
<1>11. CASE AuthzConfig(p)
  BY <1>11 DEF AuthzConfig
<1>12. CASE AuthzRegistry(p)
  BY <1>12 DEF AuthzRegistry
<1>13. CASE AuthzClock(p)
  BY <1>13 DEF AuthzClock
<1>14. CASE AuthzCheck(p)
  BY <1>14 DEF AuthzCheck
<1>15. CASE AdminGrantClock(p)
  BY <1>15 DEF AdminGrantClock
<1>16. CASE AdminGrantLookup(p)
  BY <1>16 DEF AdminGrantLookup
<1>17. CASE AdminGrantPut(p)
  BY <1>17 DEF AdminGrantPut
<1>18. CASE AdminCodeConfig(p)
  BY <1>18 DEF AdminCodeConfig
<1>19. CASE AdminCodePut(p)
  BY <1>19 DEF AdminCodePut
<1> QED
  BY <1>1, <1>2, <1>3, <1>4, <1>5, <1>6, <1>7, <1>8, <1>9, <1>10, <1>11, <1>12, <1>13, <1>14, <1>15, <1>16, <1>17, <1>18, <1>19
     DEF Handle

ArriveFrame ==
    /\ UNCHANGED <<now, cfg, epoch, sweep, minted, spent, codes, claims, delivered>>
    /\ Shrinks

\* An arriving request changes the grants only, and only by removal.
LEMMA ArriveKeeps ==
    ASSUME Shape, NEW p \in Request, Arrive(p)
    PROVE  ArriveFrame
<1> USE DEF ArriveFrame, stores, history
<1>1. CASE Resolve(p)
  BY <1>1 DEF Resolve, Shrinks
<1>2. CASE AdminGrantConfig(p)
  BY <1>2 DEF AdminGrantConfig, Shrinks
<1>3. CASE AdminCodeLookup(p)
  BY <1>3 DEF AdminCodeLookup, Shrinks
<1>4. CASE AdminRevoke(p)
  BY <1>4, AdminRevokeEffect DEF AdminRevoke
<1>5. CASE AdminRevokeToken(p)
  BY <1>5, AdminRevokeEffect DEF AdminRevokeToken
<1> QED
  BY <1>1, <1>2, <1>3, <1>4, <1>5 DEF Arrive

\* Steps of the sweeper, a reload, a restart and the clock.
SweeperFrame ==
    /\ UNCHANGED <<now, ask, cfg, epoch, minted, req, claims, delivered>>
    /\ Shrinks
    /\ \/ sweep'.t = sweep.t /\ Nonces!Sweep(sweep.t) /\ UNCHANGED codes
       \/ sweep'.t \in {now, sweep.t, 0} /\ UNCHANGED spent /\ DOMAIN codes' \subseteq DOMAIN codes

\* The sweeper leaves requests, clock and history alone.
LEMMA SweeperKeeps ==
    ASSUME Sweeper
    PROVE  SweeperFrame
<1> USE DEF SweeperFrame, stores, history
<1>1. CASE SweepStart
  BY <1>1 DEF SweepStart, Shrinks
<1>2. CASE SweepGrants
  BY <1>2, SweepShrinks DEF SweepGrants
<1>3. CASE SweepNonces
  BY <1>3 DEF SweepNonces, Shrinks
<1>4. CASE SweepCodes
  BY <1>4 DEF SweepCodes, Shrinks, Codes!Sweep, Codes!Restrict
<1>5. CASE SweepLimiter
  BY <1>5 DEF SweepLimiter, Shrinks
<1> QED
  BY <1>1, <1>2, <1>3, <1>4, <1>5 DEF Sweeper

\* A request that has been answered stays as it is.
LEMMA DoneKept ==
    ASSUME Control, [Next]_vars
    PROVE  UNCHANGED ask /\ \A q \in Request : req[q].pc = "done" => req'[q] = req[q]
<1>1. CASE \E p \in Request : Arrive(p) \/ Handle(p)
  BY <1>1, ArriveMoves, HandleMoves DEF Moves, Alone
<1>2. CASE Sweeper
  BY <1>2, SweeperKeeps DEF SweeperFrame
<1>3. CASE \E c \in DOMAIN Configs : Reload(c) \/ Restart(c)
  BY <1>3, ReloadEffect, RestartEffect DEF Control, Active
<1>4. CASE Tick \/ UNCHANGED vars
  BY <1>4 DEF Tick, vars
<1> QED
  BY <1>1, <1>2, <1>3, <1>4 DEF Next

\* A nonce stays minted with the fields it was minted with.
LEMMA MintedKept ==
    ASSUME Control, [Next]_vars
    PROVE  /\ DOMAIN minted \subseteq DOMAIN minted'
           /\ \A n \in DOMAIN minted : minted'[n] = minted[n]
<1>1. CASE \E p \in Request : Arrive(p)
  BY <1>1, ArriveKeeps DEF ArriveFrame, Control
<1>2. ASSUME NEW p \in Request, Handle(p)
      PROVE  /\ DOMAIN minted \subseteq DOMAIN minted'
             /\ \A n \in DOMAIN minted : minted'[n] = minted[n]
  <2>1. CASE UNCHANGED minted
    BY <2>1
  <2>2. CASE IssueNonce(p)
    BY <2>2, IssueNonceEffect DEF Control
  <2> QED
    BY <1>2, <2>1, <2>2, HandleKeeps DEF HandleFrame
<1>3. CASE Sweeper
  BY <1>3, SweeperKeeps DEF SweeperFrame
<1>4. CASE \E c \in DOMAIN Configs : Reload(c) \/ Restart(c)
  BY <1>4 DEF Reload, Restart
<1>5. CASE Tick \/ UNCHANGED vars
  BY <1>5 DEF Tick, vars
<1> QED
  BY <1>1, <1>2, <1>3, <1>4, <1>5 DEF Next

\* Codes that were handed out stay so.
LEMMA HandedOutKept ==
    ASSUME Control, [Next]_vars, NEW kind
    PROVE  HandedOut(kind) \subseteq HandedOut(kind)'
<1>1. \A q \in Request : req[q].out # "" => req[q].pc = "done"
  BY DEF Control
<1> QED
  BY <1>1, DoneKept DEF HandedOut

\* The inputs of a request in flight stay inputs.
LEMMA InputsKept ==
    ASSUME Control, [Next]_vars, NEW p \in Request,
           Active(p)' => \/ Active(p) /\ req'[p].in = req[p].in
                        \/ req'[p].in \in Inputs(ask[p])
    PROVE  InputOf(p)'
<1>1. InputOf(p) /\ UNCHANGED ask
  BY DoneKept DEF Control
<1>2. ASSUME NEW in \in Inputs("respond")
      PROVE  in.nonce \in DOMAIN minted
  BY DEF Inputs
<1>3. ASSUME NEW in \in Inputs("enroll")
      PROVE  in.code \in HandedOut("adminEnrollCode")
  BY DEF Inputs
<1>4. CASE ask[p] = "respond"
  BY <1>1, <1>2, <1>4, MintedKept DEF InputOf
<1>5. CASE ask[p] = "enroll"
  BY <1>1, <1>3, <1>5, HandedOutKept DEF InputOf
<1> QED
  BY <1>1, <1>4, <1>5 DEF InputOf

\* The control state of the handlers is an inductive invariant by itself.
LEMMA ControlStep ==
    ASSUME Control, [Next]_vars
    PROVE  Control'
<1>1. ASSUME NEW p \in Request, Arrive(p) \/ Handle(p)
      PROVE  Control'
  <2>1. Moves(p)
    BY <1>1, ArriveMoves, HandleMoves
  <2>2. \A q \in Request : LabelOf(q)' /\ (req'[q].out # "" => req'[q].pc = "done")
    BY <2>1 DEF Moves, Alone, LabelOf, Control
  <2>3. \A q \in Request : InputOf(q)'
    <3>1. ASSUME NEW q \in Request
          PROVE  Active(q)' => \/ Active(q) /\ req'[q].in = req[q].in
                              \/ req'[q].in \in Inputs(ask[q])
      BY <2>1 DEF Moves, Alone, Active
    <3> QED
      BY <3>1, InputsKept
  <2>4. DOMAIN minted' \subseteq Request /\ \A n \in DOMAIN minted' : req'[n].pc = "done"
    <3>1. CASE UNCHANGED minted
      BY <3>1, <2>1, DoneKept DEF Control
    <3>2. CASE IssueNonce(p)
      <4>1. DOMAIN minted' = DOMAIN minted \cup {p} /\ req'[p].pc = "done"
        BY <3>2, IssueNonceEffect DEF Control, Returns
      <4> QED
        BY <4>1, DoneKept DEF Control
    <3> QED
      BY <1>1, <3>1, <3>2, ArriveKeeps, HandleKeeps DEF ArriveFrame, HandleFrame, Control
  <2> QED
    BY <2>1, <2>2, <2>3, <2>4 DEF Control, Moves, Alone
<1>2. ASSUME NEW c \in DOMAIN Configs, Reload(c) \/ Restart(c)
      PROVE  Control'
  <2>1. /\ Shape' /\ UNCHANGED <<ask, minted>>
        /\ \A q \in Request :
             \/ req'[q] = req[q]
             \/ req'[q].pc = "done"
             \/ /\ req'[q].pc = req[q].pc /\ req'[q].in = req[q].in
                /\ req'[q].out = req[q].out
    BY <1>2, ReloadEffect, RestartEffect DEF Control, Reload, Restart
  <2>2. ASSUME NEW q \in Request
        PROVE  LabelOf(q)' /\ (req'[q].out # "" => req'[q].pc = "done")
    <3>1. LabelOf(q) /\ (req[q].out # "" => req[q].pc = "done")
      BY DEF Control
    <3>2. CASE req'[q].pc = "done"
      BY <3>2 DEF LabelOf, Knocking, Enrolling, Deciding, Granting, Coding
    <3>3. CASE req'[q].pc = req[q].pc /\ req'[q].out = req[q].out
      BY <2>1, <3>1, <3>3 DEF LabelOf
    <3> QED
      BY <2>1, <3>2, <3>3
  <2>3. \A q \in Request : InputOf(q)'
    <3>1. ASSUME NEW q \in Request
          PROVE  Active(q)' => Active(q) /\ req'[q].in = req[q].in
      BY <2>1 DEF Active
    <3> QED
      BY <3>1, InputsKept
  <2> QED
    BY <2>1, <2>2, <2>3, DoneKept DEF Control
<1>3. CASE Sweeper \/ Tick \/ UNCHANGED vars
  <2>1. UNCHANGED <<ask, minted, req>>
    BY <1>3, SweeperKeeps DEF SweeperFrame, Tick, vars
  <2> QED
    BY <2>1 DEF Control, Shape, LabelOf, InputOf, Active, HandedOut
<1> QED
  BY <1>1, <1>2, <1>3 DEF Next

\* The handlers start in control.
LEMMA ControlInit ==
    ASSUME Init
    PROVE  Control
<1>1. minted = <<>> /\ req = [p \in Request |-> Idle]
  BY DEF Init
<1>2. DOMAIN minted = {}
  BY <1>1
<1>3. \A p \in Request : req[p].pc = "idle" /\ req[p].out = ""
  BY <1>1 DEF Idle
<1> QED
  BY <1>1, <1>2, <1>3 DEF Control, Shape, LabelOf, InputOf, Active,
                         Knocking, Enrolling, Deciding, Granting, Coding

-----------------------------------------------------------------------------
(* AllowJustified *)

\* Request q put g: a knock that proved the secret g is bound to, or an admin.
Backs(q, g) ==
    /\ req[q].out = "granted" /\ req[q].g = {g}
    /\ req[q].in.service = g.service /\ req[q].in.ip = g.ip /\ req[q].in.kid = g.kid
    /\ g.binding = Grants!BindingIPCookie => g.cookieHash = Grants!CookieHash(q)
    /\ \/ ask[q] = "adminGrant" /\ (g.manual => g.kid = ManualKid)
       \/ ask[q] = "respond" /\ ~g.manual /\ g.secretFP = SecretHash(req[q].in.secret)

\* What the handlers in flight carry.
InFlight(p) ==
    /\ req[p].pc \in {"claim", "put"} => Proves(req[p], RegistryOf(req[p].reg))
    /\ Active(p) => cfg \in req[p].seen
    /\ req[p].pc \in {"clock", "check"} => req[p].reg \in req[p].seen

\* The store only holds grants that some request put.
Backed == \A k \in DOMAIN grants : \E q \in Request : Backs(q, grants[k])

AllowInv ==
    /\ Control
    /\ \A p \in Request : InFlight(p)
    /\ Backed
    /\ AllowJustified

\* What AllowJustified asks of a request p that g let through.
Justified(p, g) ==
    \E q \in Request :
        /\ req[q].out = "granted" /\ req[q].g = {g}
        /\ req[q].in.service = req[p].in.service /\ req[q].in.ip = req[p].in.ip
        /\ req[p].t < g.exp
        /\ g.binding = Grants!BindingIPCookie => req[p].in.cookie = q
        /\ \/ ask[q] = "adminGrant" /\ req[q].in.kid = ManualKid
           \/ \E c \in req[p].seen :
                /\ Authorize(RegistryOf(c), req[q].in.kid, req[p].in.service, req[p].t)
                /\ ask[q] = "respond" =>
                     RegistryOf(c).tokens[g.kid].secret = req[q].in.secret
                /\ ask[q] = "adminGrant" => Fingerprint(RegistryOf(c), g.kid) = g.secretFP

\* A request that backs a grant keeps backing it: answers never change.
LEMMA BacksKept ==
    ASSUME Control, [Next]_vars, NEW q \in Request, NEW g, Backs(q, g)
    PROVE  Backs(q, g)'
<1>1. req'[q] = req[q] /\ UNCHANGED ask
  BY DoneKept DEF Control, Backs
<1> QED
  BY <1>1 DEF Backs

\* What justified an answer keeps justifying it: answers, and the configs an
\* allowed request saw, never change.
LEMMA JustifiedKept ==
    ASSUME Control, [Next]_vars, NEW p \in Request, NEW g,
           req[p].out = "allow", Justified(p, g)
    PROVE  Justified(p, g)'
<1>1. UNCHANGED ask /\ req'[p] = req[p]
  BY DoneKept DEF Control
<1>2. \A q \in Request : req[q].out = "granted" => req'[q] = req[q]
  BY DoneKept DEF Control
<1> QED
  BY <1>1, <1>2 DEF Justified

\* Only a handler that puts a grant adds to the store.
LEMMA OnlyPutAdds ==
    ASSUME Control, [Next]_vars, ~\E p \in Request : Handle(p)
    PROVE  Shrinks
<1>1. ASSUME NEW p \in Request, Arrive(p)
      PROVE  Shrinks
  BY <1>1, ArriveKeeps DEF ArriveFrame, Control
<1>2. CASE Sweeper
  BY <1>2, SweeperKeeps DEF SweeperFrame
<1>3. ASSUME NEW c \in DOMAIN Configs, Reload(c)
      PROVE  Shrinks
  BY <1>3 DEF Reload, stores, Shrinks
<1>4. ASSUME NEW c \in DOMAIN Configs, Restart(c)
      PROVE  Shrinks
  <2>1. grants' = <<>>
    BY <1>4 DEF Restart
  <2>2. DOMAIN grants' = {}
    BY <2>1
  <2> QED
    BY <2>2 DEF Shrinks
<1>5. CASE Tick \/ UNCHANGED vars
  BY <1>5 DEF Tick, vars, stores, Shrinks
<1> QED
  BY <1>1, <1>2, <1>3, <1>4, <1>5 DEF Next

\* Backed', with the grant named before the request.
LEMMA BackedNext ==
    ASSUME \A k \in DOMAIN grants' : \A g : g = grants'[k] => \E q \in Request : Backs(q, g)'
    PROVE  Backed'
  BY DEF Backed, Backs

\* Every grant in the store after a step was put by some request: Put adds
\* the grant its handler answers with, every other operation only removes.
LEMMA BackedStep ==
    ASSUME Control, [Next]_vars, \A p \in Request : InFlight(p), Backed
    PROVE  Backed'
<1>1. ASSUME NEW k \in DOMAIN grants, NEW g, g = grants[k]
      PROVE  \E q \in Request : Backs(q, g)'
  <2>1. PICK q \in Request : Backs(q, g)
    BY <1>1 DEF Backed
  <2> QED
    BY <2>1, BacksKept
<1>2. ASSUME Shrinks
      PROVE  Backed'
  <2>1. ASSUME NEW k \in DOMAIN grants', NEW g, g = grants'[k]
        PROVE  \E q \in Request : Backs(q, g)'
    <3>1. k \in DOMAIN grants /\ g = grants[k]
      BY <1>2, <2>1 DEF Shrinks
    <3> QED
      BY <1>1, <3>1
  <2> QED
    BY <2>1, BackedNext
<1>3. ASSUME NEW p \in Request, Handle(p)
      PROVE  Backed'
  <2>1. ASSUME NEW f, NEW h, Grants!Put(f, h), Backs(p, f)'
        PROVE  Backed'
    <3>1. ASSUME NEW k \in DOMAIN grants', NEW g, g = grants'[k]
          PROVE  \E q \in Request : Backs(q, g)'
      <4>1. CASE g = f
        BY <2>1, <4>1
      <4>2. CASE k \in DOMAIN grants /\ g = grants[k]
        BY <1>1, <4>2
      <4> QED
        BY <2>1, <3>1, <4>1, <4>2, PutAdds
    <3> QED
      BY <3>1, BackedNext
  <2>2. CASE PutGrant(p)
    <3>1. PICK g : g = KnockGrant(p, req[p])
      OBVIOUS
    <3>2. /\ Grants!Put(g, OldHash(req[p].in.cookie))
          /\ req'[p].out = "granted" /\ req'[p].g = {g} /\ req'[p].in = req[p].in
          /\ UNCHANGED ask
      BY <2>2, <3>1, PutGrantEffect DEF Control, Returns, Alone
    <3>3. ask[p] = "respond" /\ Proves(req[p], RegistryOf(req[p].reg))
      BY <2>2, PutGrantEffect DEF Control, LabelOf, Knocking, InFlight
    <3>4. /\ g.service = req[p].in.service /\ g.ip = req[p].in.ip /\ g.kid = req[p].in.kid
          /\ g.binding = Grants!BindingIPCookie => g.cookieHash = Grants!CookieHash(p)
          /\ g.manual = FALSE
          /\ g.secretFP = Fingerprint(RegistryOf(req[p].reg), req[p].in.kid)
      BY <3>1 DEF KnockGrant
    <3>5. g.secretFP = SecretHash(req[p].in.secret)
      BY <3>3, <3>4 DEF Proves, Authorize, Fingerprint
    <3>6. Backs(p, g)'
      BY <3>2, <3>3, <3>4, <3>5 DEF Backs
    <3>7. PICK h : h = OldHash(req[p].in.cookie)
      OBVIOUS
    <3> QED
      BY <2>1, <3>2, <3>6, <3>7
  <2>3. CASE AdminGrantPut(p)
    <3>1. PICK g : g = HandGrant(req[p])
      OBVIOUS
    <3>2. /\ Grants!Put(g, Grants!NoHash)
          /\ req'[p].out = "granted" /\ req'[p].g = {g} /\ req'[p].in = req[p].in
          /\ UNCHANGED ask
      BY <2>3, <3>1, AdminGrantPutEffect DEF Control, Returns, Alone
    <3>3. ask[p] = "adminGrant"
      BY <2>3, AdminGrantPutEffect DEF Control, LabelOf, Granting
    <3>4. /\ g.service = req[p].in.service /\ g.ip = req[p].in.ip /\ g.kid = req[p].in.kid
          /\ g.binding # Grants!BindingIPCookie /\ (g.manual => g.kid = ManualKid)
      BY <3>1 DEF HandGrant, Grants!BindingIP, Grants!BindingIPCookie
    <3>5. Backs(p, g)'
      BY <3>2, <3>3, <3>4 DEF Backs
    <3> QED
      BY <2>1, <3>2, <3>5
  <2>4. CASE UNCHANGED grants
    BY <1>2, <2>4 DEF Shrinks
  <2> QED
    BY <1>3, <2>2, <2>3, <2>4, HandleKeeps DEF HandleFrame
<1>4. CASE ~\E p \in Request : Handle(p)
  BY <1>2, <1>4, OnlyPutAdds
<1> QED
  BY <1>3, <1>4

\* What a handler carries from one step to the next.
LEMMA InFlightStep ==
    ASSUME Control, [Next]_vars, \A p \in Request : InFlight(p), NEW q \in Request
    PROVE  InFlight(q)'
<1>1. ASSUME NEW p \in Request, Arrive(p) \/ Handle(p)
      PROVE  InFlight(q)'
  <2>1. Moves(p) /\ UNCHANGED cfg
    BY <1>1, ArriveMoves, HandleMoves, ArriveKeeps, HandleKeeps
       DEF ArriveFrame, HandleFrame, Control
  <2>2. CASE q # p
    BY <2>1, <2>2 DEF Moves, Alone, InFlight, Active, Proves
  <2>3. CASE q = p
    <3>1. Active(p)' => cfg' \in req'[p].seen
      BY <2>1 DEF Moves, InFlight, Active
    <3>2. req'[p].pc \in {"clock", "check"} => req'[p].reg \in req'[p].seen
      <4>1. CASE AuthzRegistry(p)
        BY <4>1, AuthzRegistryEffect DEF Control, InFlight, Active, Advances
      <4>2. CASE AuthzClock(p)
        BY <4>2, AuthzClockEffect DEF Control, InFlight, Advances
      <4> QED
        BY <2>1, <4>1, <4>2 DEF Moves, Comes
    <3>3. req'[p].pc \in {"claim", "put"} => Proves(req[p], RegistryOf(req[p].reg))'
      <4>1. CASE CheckProof(p)
        BY <4>1, CheckProofEffect DEF Control, Advances, Refuses, Returns, Proves
      <4>2. CASE ClaimNonce(p)
        <5>1. /\ req[p].pc = "claim"
              /\ \/ req'[p].pc = "done"
                 \/ /\ req'[p].in = req[p].in /\ req'[p].t = req[p].t
                    /\ req'[p].reg = req[p].reg
          BY <4>2, ClaimNonceEffect DEF Control, Advances, Refuses, Returns
        <5> QED
          BY <5>1 DEF InFlight, Proves
      <4> QED
        BY <2>1, <4>1, <4>2 DEF Moves, Comes
    <3> QED
      BY <2>3, <3>1, <3>2, <3>3 DEF InFlight
  <2> QED
    BY <2>2, <2>3
<1>2. ASSUME NEW c \in DOMAIN Configs, Reload(c)
      PROVE  InFlight(q)'
  BY <1>2, ReloadEffect DEF Control, InFlight, Active, Proves
<1>3. ASSUME NEW c \in DOMAIN Configs, Restart(c)
      PROVE  InFlight(q)'
  BY <1>3, RestartEffect DEF Control, InFlight, Active
<1>4. CASE Sweeper \/ Tick \/ UNCHANGED vars
  <2>1. UNCHANGED <<cfg, req>>
    BY <1>4, SweeperKeeps DEF SweeperFrame, Tick, vars
  <2> QED
    BY <2>1 DEF InFlight, Active, Proves
<1> QED
  BY <1>1, <1>2, <1>3, <1>4 DEF Next

\* The registry that the store consults is the one of the server.
LEMMA SameRegistry ==
    ASSUME NEW reg, NEW kid, NEW service, NEW t
    PROVE  /\ Grants!Authorize(reg, kid, service, t) = Authorize(reg, kid, service, t)
           /\ Grants!Fingerprint(reg, kid) = Fingerprint(reg, kid)
  BY DEF Grants!Authorize, Authorize, Grants!Fingerprint, Fingerprint, Grants!Known, Known,
         Grants!IsExpired, IsExpired, Grants!NeverExpires, NeverExpires,
         Grants!AllowedForService, AllowedForService, Grants!allowKey, allowKey,
         Grants!AnyService, AnyService, Grants!AnyKid, AnyKid,
         Grants!AlgHMACSHA256, AlgHMACSHA256, Grants!SecretHash, SecretHash,
         Grants!NoFP, NoFP

\* handleAuthz answers "allow" for grants that justify it.
LEMMA CheckJustified ==
    ASSUME Control, NEW p \in Request, AuthzCheck(p), InFlight(p), [Next]_vars,
           Backed, req'[p].out = "allow", NEW g \in req'[p].g
    PROVE  Justified(p, g)'
<1> DEFINE reg == RegistryOf(req[p].reg)
<1>1. /\ req'[p].in = req[p].in /\ req'[p].t = req[p].t /\ req'[p].seen = req[p].seen
      /\ req'[p].g = Grants!IsAllowed(req[p].in.service, req[p].in.ip, reg, req[p].t,
                                      req[p].in.cookie)
      /\ req[p].pc = "check"
  BY AuthzCheckEffect DEF Control, Refuses, Returns
<1>2. PICK k \in DOMAIN grants :
        /\ grants[k] = g
        /\ Grants!Admits(g, req[p].in.service, req[p].in.ip, reg, req[p].t, req[p].in.cookie)
  BY <1>1 DEF Grants!IsAllowed
<1>3. PICK q \in Request : Backs(q, g)
  BY <1>2 DEF Backed
<1>4. Backs(q, g)' /\ UNCHANGED ask /\ req'[q] = req[q]
  BY <1>3, BacksKept, DoneKept DEF Control, Backs
<1>5. req[p].reg \in req[p].seen
  BY <1>1 DEF InFlight
<1>6. g.binding = Grants!BindingIPCookie => req[p].in.cookie = q
  BY <1>2, <1>3 DEF Grants!Admits, Backs, Grants!CookieHash
<1>7. /\ req[p].t < g.exp /\ g.service = req[p].in.service /\ g.ip = req[p].in.ip
      /\ \/ g.manual
         \/ Authorize(reg, g.kid, req[p].in.service, req[p].t) /\ g.secretFP = Fingerprint(reg, g.kid)
  BY <1>2, SameRegistry DEF Grants!Admits
<1>8. CASE g.manual
  BY <1>1, <1>3, <1>4, <1>6, <1>7, <1>8 DEF Justified, Backs
<1>9. CASE Authorize(reg, g.kid, req[p].in.service, req[p].t) /\ g.secretFP = Fingerprint(reg, g.kid)
  <2>1. ask[q] = "respond" => reg.tokens[g.kid].secret = req[q].in.secret
    BY <1>3, <1>9 DEF Backs, Authorize, Fingerprint, SecretHash
  <2> HIDE DEF reg
  <2>2. /\ Authorize(reg, req[q].in.kid, req[p].in.service, req[p].t)
        /\ ask[q] = "respond" => reg.tokens[g.kid].secret = req[q].in.secret
        /\ ask[q] = "adminGrant" => Fingerprint(reg, g.kid) = g.secretFP
    BY <1>3, <1>9, <2>1 DEF Backs
  <2> QED
    BY <1>1, <1>3, <1>4, <1>5, <1>6, <1>7, <2>2 DEF Justified, Backs, reg
<1> QED
  BY <1>7, <1>8, <1>9

\* Every step preserves AllowInv.
LEMMA AllowStep ==
    ASSUME AllowInv, [Next]_vars
    PROVE  AllowInv'
<1>1. Control' /\ \A q \in Request : InFlight(q)'
  BY ControlStep, InFlightStep DEF AllowInv
<1>2. Backed'
  BY BackedStep DEF AllowInv
<1>3. ASSUME NEW p \in Request, req'[p].out = "allow", NEW g \in req'[p].g
      PROVE  Justified(p, g)'
  <2>1. CASE req'[p] = req[p]
    <3>1. Control /\ req[p].out = "allow" /\ g \in req[p].g /\ AllowJustified
      BY <1>3, <2>1 DEF AllowInv
    <3>2. Justified(p, g)
      BY <3>1 DEF AllowJustified, Justified
    <3> QED
      BY <3>1, <3>2, JustifiedKept
  <2>2. CASE req'[p] # req[p]
    <3>1. AuthzCheck(p)
      <4>1. ASSUME NEW q \in Request, Arrive(q) \/ Handle(q)
            PROVE  AuthzCheck(p)
        BY <1>3, <2>2, <4>1, ArriveMoves, HandleMoves DEF AllowInv, Moves, Alone, Comes
      <4>2. ASSUME NEW c \in DOMAIN Configs, Reload(c) \/ Restart(c)
            PROVE  FALSE
        BY <1>3, <2>2, <4>2, ReloadEffect, RestartEffect DEF AllowInv, Control, Active
      <4>3. CASE Sweeper \/ Tick \/ UNCHANGED vars
        BY <2>2, <4>3, SweeperKeeps DEF SweeperFrame, Tick, vars
      <4> QED
        BY <4>1, <4>2, <4>3 DEF Next
    <3> QED
      BY <1>3, <3>1, CheckJustified DEF AllowInv
  <2> QED
    BY <2>1, <2>2
<1> QED
  BY <1>1, <1>2, <1>3 DEF AllowInv, AllowJustified, Justified

\* handleAuthz lets a request through only for a grant that a knock or an
\* admin call put and that the registry still authorizes.
THEOREM Allowed == Spec => []AllowJustified
<1>1. Init => AllowInv
  <2> SUFFICES ASSUME Init PROVE AllowInv
    OBVIOUS
  <2>1. Control
    BY ControlInit
  <2>2. grants = <<>> /\ req = [p \in Request |-> Idle]
    BY DEF Init, Grants!GrantStoreInit
  <2>3. DOMAIN grants = {}
    BY <2>2
  <2>4. \A p \in Request : req[p].pc = "idle" /\ req[p].g = {}
    BY <2>2 DEF Idle
  <2> QED
    BY <2>1, <2>3, <2>4 DEF AllowInv, InFlight, Active, AllowJustified, Backed
<1>2. AllowInv /\ [Next]_vars => AllowInv'
  BY AllowStep
<1>3. AllowInv => AllowJustified
  BY DEF AllowInv
<1> QED
  BY <1>1, <1>2, <1>3, PTL DEF Spec

-----------------------------------------------------------------------------
(* EnrollOnce *)

\* The code whose secret handler p is about to deliver.
Delivers(p, c) == req[p].pc = "deliver" /\ req[p].in.code = c

\* A code whose secret has been delivered is gone for good.
UsedUp(c) ==
    /\ delivered[c] = 1 /\ req[c].pc = "done" /\ c \notin DOMAIN codes
    /\ \A p \in Request : ~Delivers(p, c)

CodesDrawn == DOMAIN codes \subseteq Request /\ \A c \in DOMAIN codes : req[c].pc = "done"

\* Who is about to deliver has taken the code out of the store, alone.
OneDeliverer ==
    /\ \A p, q, c \in Request : Delivers(p, c) /\ Delivers(q, c) => p = q
    /\ \A p \in Request, c \in DOMAIN codes : ~Delivers(p, c)

EnrollInv ==
    /\ Control
    /\ CodesDrawn /\ OneDeliverer
    /\ DOMAIN delivered = Request
    /\ \A c \in Request : delivered[c] = 0 \/ UsedUp(c)

\* A step that hands out nothing, draws no code and takes none.
LEMMA QuietForCodes ==
    ASSUME EnrollInv, [Next]_vars, UNCHANGED delivered,
           DOMAIN codes' \subseteq DOMAIN codes,
           \A p \in Request : req'[p].pc = "deliver" =>
               req[p].pc = "deliver" /\ req'[p].in = req[p].in
    PROVE  EnrollInv'
<1>1. Control' /\ \A q \in Request : req[q].pc = "done" => req'[q] = req[q]
  BY ControlStep, DoneKept DEF EnrollInv
<1>2. \A p, c \in Request : Delivers(p, c)' => Delivers(p, c)
  BY DEF Delivers
<1>3. CodesDrawn'
  BY <1>1 DEF EnrollInv, CodesDrawn
<1>4. OneDeliverer'
  BY <1>2, <1>3 DEF EnrollInv, OneDeliverer, CodesDrawn
<1>5. \A c \in Request : UsedUp(c) => UsedUp(c)'
  BY <1>1, <1>2 DEF UsedUp
<1> QED
  BY <1>1, <1>3, <1>4, <1>5 DEF EnrollInv

\* Consume takes the code for one enroll request only.
LEMMA ConsumeStep ==
    ASSUME EnrollInv, [Next]_vars, NEW p \in Request, ConsumeCode(p)
    PROVE  EnrollInv'
<1>1. PICK c : c = req[p].in.code
  OBVIOUS
<1>2. /\ Alone(p) /\ req[p].pc = "consume" /\ UNCHANGED delivered
      /\ DOMAIN codes' = DOMAIN codes \ {c}
      /\ \/ req'[p].pc = "done"
         \/ req'[p].pc = "deliver" /\ req'[p].in = req[p].in /\ c \in DOMAIN codes
  BY <1>1, ConsumeCodeEffect
     DEF EnrollInv, Control, Refuses, Returns, Advances, ConsumeCode, history,
         Codes!Consume, Codes!Restrict, Codes!Live
<1>3. CASE req'[p].pc = "done"
  BY <1>2, <1>3, QuietForCodes DEF Alone
<1>4. CASE req'[p].pc = "deliver" /\ req'[p].in = req[p].in /\ c \in DOMAIN codes
  <2>1. Control' /\ \A q \in Request : req[q].pc = "done" => req'[q] = req[q]
    BY ControlStep, DoneKept DEF EnrollInv
  <2>2. ASSUME NEW q \in Request, NEW d
        PROVE  Delivers(q, d)' <=> Delivers(q, d) \/ (q = p /\ d = c)
    BY <1>1, <1>2, <1>4 DEF Delivers, Alone
  <2>3. CodesDrawn'
    BY <1>2, <2>1 DEF EnrollInv, CodesDrawn
  <2>4. OneDeliverer'
    BY <1>2, <1>4, <2>2 DEF EnrollInv, OneDeliverer, CodesDrawn
  <2>5. \A d \in Request : UsedUp(d) => UsedUp(d)'
    BY <1>2, <1>4, <2>1, <2>2 DEF UsedUp
  <2> QED
    BY <1>2, <2>1, <2>3, <2>4, <2>5 DEF EnrollInv
<1> QED
  BY <1>2, <1>3, <1>4

\* The secret goes out once for the code consumed.
LEMMA DeliverStep ==
    ASSUME EnrollInv, [Next]_vars, NEW p \in Request, DeliverSecret(p)
    PROVE  EnrollInv'
<1>1. PICK c : c = req[p].in.code
  OBVIOUS
<1>2. /\ Alone(p) /\ req[p].pc = "deliver" /\ req'[p].pc = "done" /\ UNCHANGED codes
      /\ \/ UNCHANGED delivered
         \/ delivered' = [delivered EXCEPT ![c] = @ + 1]
  BY <1>1, DeliverSecretEffect
     DEF EnrollInv, Control, Refuses, Returns, DeliverSecret, stores
<1>3. CASE UNCHANGED delivered
  BY <1>2, <1>3, QuietForCodes DEF Alone
<1>4. CASE delivered' = [delivered EXCEPT ![c] = @ + 1]
  <2>1. Control' /\ \A q \in Request : req[q].pc = "done" => req'[q] = req[q]
    BY ControlStep, DoneKept DEF EnrollInv
  <2>2. c \in Request /\ req[c].pc = "done"
    BY <1>1, <1>2 DEF EnrollInv, Control, InputOf, Active, LabelOf, Enrolling, HandedOut
  <2>3. Delivers(p, c)
    BY <1>1, <1>2 DEF Delivers
  <2>4. \A q, d \in Request : Delivers(q, d)' => Delivers(q, d) /\ q # p
    BY <1>2 DEF Delivers, Alone
  <2>5. CodesDrawn' /\ OneDeliverer'
    BY <1>2, <2>1, <2>4 DEF EnrollInv, CodesDrawn, OneDeliverer
  <2>6. delivered[c] = 0
    BY <2>2, <2>3 DEF EnrollInv, UsedUp
  <2>7. UsedUp(c)'
    BY <1>2, <1>4, <2>1, <2>2, <2>3, <2>4, <2>6 DEF EnrollInv, UsedUp, OneDeliverer
  <2>8. ASSUME NEW d \in Request, d # c
        PROVE  delivered'[d] = 0 \/ UsedUp(d)'
    BY <1>2, <1>4, <2>1, <2>4, <2>8 DEF EnrollInv, UsedUp
  <2> QED
    BY <1>4, <2>1, <2>5, <2>7, <2>8 DEF EnrollInv
<1> QED
  BY <1>2, <1>3, <1>4

\* A code drawn now has been used by nobody.
LEMMA DrawStep ==
    ASSUME EnrollInv, [Next]_vars, NEW p \in Request, AdminCodePut(p)
    PROVE  EnrollInv'
<1>1. /\ Alone(p) /\ req[p].pc = "codePut" /\ req'[p].pc = "done" /\ UNCHANGED delivered
      /\ DOMAIN codes' = DOMAIN codes \cup {p}
  BY AdminCodePutEffect DEF EnrollInv, Control, Returns, AdminCodePut, history
<1>2. Control' /\ \A q \in Request : req[q].pc = "done" => req'[q] = req[q]
  BY ControlStep, DoneKept DEF EnrollInv
<1>3. \A q, d \in Request : Delivers(q, d)' => Delivers(q, d) /\ q # p
  BY <1>1 DEF Delivers, Alone
<1>4. \A q \in Request : ~Delivers(q, p)
  BY <1>1 DEF EnrollInv, Control, InputOf, Active, LabelOf, Enrolling, HandedOut, Delivers
<1>5. CodesDrawn' /\ OneDeliverer'
  BY <1>1, <1>2, <1>3, <1>4 DEF EnrollInv, CodesDrawn, OneDeliverer
<1>6. \A d \in Request : UsedUp(d) => UsedUp(d)'
  BY <1>1, <1>2, <1>3 DEF UsedUp
<1> QED
  BY <1>1, <1>2, <1>5, <1>6 DEF EnrollInv

\* Every step preserves EnrollInv.
LEMMA EnrollStep ==
    ASSUME EnrollInv, [Next]_vars
    PROVE  EnrollInv'
<1>1. ASSUME NEW p \in Request, Arrive(p) \/ Handle(p),
             ~ConsumeCode(p), ~DeliverSecret(p), ~AdminCodePut(p)
      PROVE  EnrollInv'
  <2>1. Moves(p)
    BY <1>1, ArriveMoves, HandleMoves DEF EnrollInv
  <2>2. UNCHANGED <<codes, delivered>>
    BY <1>1, ArriveKeeps, HandleKeeps DEF EnrollInv, Control, ArriveFrame, HandleFrame
  <2>3. \A q \in Request : req'[q].pc = "deliver" =>
            req[q].pc = "deliver" /\ req'[q].in = req[q].in
    BY <1>1, <2>1 DEF Moves, Alone, Comes
  <2> QED
    BY <2>2, <2>3, QuietForCodes
<1>2. ASSUME NEW c \in DOMAIN Configs, Reload(c) \/ Restart(c)
      PROVE  EnrollInv'
  <2>1. UNCHANGED delivered /\ DOMAIN codes' \subseteq DOMAIN codes
    <3>1. CASE Reload(c)
      BY <3>1 DEF Reload, stores, history
    <3>2. CASE Restart(c)
      <4>1. codes' = <<>> /\ UNCHANGED delivered
        BY <3>2 DEF Restart, history
      <4>2. DOMAIN codes' = {}
        BY <4>1
      <4> QED
        BY <4>1, <4>2
    <3> QED
      BY <1>2, <3>1, <3>2
  <2>2. \A q \in Request : req'[q].pc = "deliver" =>
            req[q].pc = "deliver" /\ req'[q].in = req[q].in
    BY <1>2, ReloadEffect, RestartEffect DEF EnrollInv, Control
  <2> QED
    BY <2>1, <2>2, QuietForCodes
<1>3. CASE Sweeper \/ Tick \/ UNCHANGED vars
  <2>1. UNCHANGED <<req, delivered>> /\ DOMAIN codes' \subseteq DOMAIN codes
    BY <1>3, SweeperKeeps DEF SweeperFrame, Tick, vars, stores, history
  <2> QED
    BY <2>1, QuietForCodes
<1> QED
  BY <1>1, <1>2, <1>3, ConsumeStep, DeliverStep, DrawStep DEF Next

\* handleEnroll exchanges a code for a device secret at most once.
THEOREM EnrolledOnce == Spec => []EnrollOnce
<1>1. Init => EnrollInv
  <2> SUFFICES ASSUME Init PROVE EnrollInv
    OBVIOUS
  <2>1. Control
    BY ControlInit
  <2>2. codes = <<>> /\ delivered = [p \in Request |-> 0] /\ req = [p \in Request |-> Idle]
    BY DEF Init, Codes!EnrollStoreInit
  <2>3. DOMAIN codes = {}
    BY <2>2
  <2>4. \A p \in Request : req[p].pc = "idle"
    BY <2>2 DEF Idle
  <2> QED
    BY <2>1, <2>2, <2>3, <2>4 DEF EnrollInv, CodesDrawn, OneDeliverer, Delivers
<1>2. EnrollInv /\ [Next]_vars => EnrollInv'
  BY EnrollStep
<1>3. EnrollInv => EnrollOnce
  BY DEF EnrollInv, UsedUp, EnrollOnce
<1> QED
  BY <1>1, <1>2, <1>3, PTL DEF Spec

-----------------------------------------------------------------------------
(* NonceFreshOnce *)

\* The freshness of n has ended under the TTL of some config.
Stale(n) == \E c \in DOMAIN Configs : now >= minted[n].ts + Configs[c].nonceTTL

\* The record of n lasts as long as its freshness under some TTL.
Remembered(n) ==
    n \in DOMAIN spent /\ \E c \in DOMAIN Configs :
                            spent[n] >= minted[n].ts + Configs[c].nonceTTL

NonceTypes ==
    /\ now \in Nat /\ epoch \in Nat /\ cfg \in DOMAIN Configs
    /\ sweep.t \in Nat /\ sweep.t <= now
    /\ \A n \in DOMAIN minted :
         minted[n].ts \in Nat /\ minted[n].epoch \in Nat /\ minted[n].epoch <= epoch
    /\ DOMAIN claims = Request /\ \A n \in Request : claims[n] \in Nat
    /\ \A n \in DOMAIN spent : spent[n] \in Nat

\* A knock past VerifyNonce holds a nonce of this process, minted before t.
Verified(p) ==
    /\ req[p].pc \in {"nonce", "proof", "claim"} => req[p].cfg \in DOMAIN Configs
    /\ req[p].pc \in {"proof", "claim"} =>
         /\ req[p].t \in Nat /\ req[p].t <= now
         /\ minted[req[p].in.nonce].epoch = epoch
         /\ minted[req[p].in.nonce].ts <= req[p].t

\* A nonce of this process that was claimed is on record until it is stale.
Claimed(n) ==
    claims[n] > 0 =>
        n \in DOMAIN minted /\ (minted[n].epoch = epoch => Remembered(n) \/ Stale(n))

NonceInv ==
    /\ Control /\ NonceTypes
    /\ \A p \in Request : Verified(p)
    /\ \A n \in Request : Claimed(n)
    /\ NonceFreshOnce

\* finalize leaves every config a nonce TTL.
LEMMA NonceTTL == \A c \in DOMAIN Configs : Configs[c].nonceTTL \in Nat
  BY AuthorizerAssumption

\* The nonce of a knock under way.
LEMMA NonceOf ==
    ASSUME Control, NEW p \in Request, req[p].pc \in Knocking
    PROVE  req[p].in.nonce \in DOMAIN minted /\ req[p].in.nonce \in Request
  BY DEF Control, InputOf, LabelOf, Active, Knocking

\* Nonces and clock readings stay in the past of the clock.
LEMMA NonceTypesStep ==
    ASSUME NonceInv, [Next]_vars
    PROVE  NonceTypes'
<1> USE DEF NonceInv, NonceTypes
<1>1. ASSUME NEW p \in Request, Arrive(p)
      PROVE  NonceTypes'
  BY <1>1, ArriveKeeps DEF Control, ArriveFrame
<1>2. ASSUME NEW p \in Request, Handle(p)
      PROVE  NonceTypes'
  <2>1. UNCHANGED <<now, epoch, cfg, sweep>>
    BY <1>2, HandleKeeps DEF HandleFrame
  <2>2. \A n \in DOMAIN minted' :
          minted'[n].ts \in Nat /\ minted'[n].epoch \in Nat /\ minted'[n].epoch <= epoch
    <3>1. CASE UNCHANGED minted
      BY <3>1
    <3>2. CASE IssueNonce(p)
      <4>1. /\ DOMAIN minted' = DOMAIN minted \cup {p}
            /\ \A n \in DOMAIN minted \ {p} : minted'[n] = minted[n]
            /\ minted'[p].ts = now /\ minted'[p].epoch = epoch
        BY <3>2, IssueNonceEffect DEF Control
      <4>2. minted'[p].ts \in Nat /\ minted'[p].epoch \in Nat /\ minted'[p].epoch <= epoch
        BY <4>1
      <4> QED
        BY <4>1, <4>2
    <3> QED
      BY <1>2, <3>1, <3>2, HandleKeeps DEF HandleFrame
  <2>3. /\ DOMAIN claims' = Request /\ \A n \in Request : claims'[n] \in Nat
        /\ \A n \in DOMAIN spent' : spent'[n] \in Nat
    <3>1. CASE UNCHANGED <<spent, claims>>
      BY <3>1
    <3>2. CASE Advances(p, "put") /\ ClaimNonce(p)
      <4> DEFINE ttl == Configs[req[p].cfg].nonceTTL
      <4>1. /\ req[p].pc = "claim"
            /\ Nonces!Claim(req[p].in.nonce, req[p].t, ttl)
            /\ claims' = [claims EXCEPT ![req[p].in.nonce] = @ + 1]
        BY <3>2, ClaimNonceEffect DEF Control, Refuses, Returns, Advances
      <4>2. req[p].t \in Nat /\ ttl \in Nat
        BY <4>1, AuthorizerAssumption DEF Verified
      <4> HIDE DEF ttl
      <4> QED
        BY <4>1, <4>2 DEF Nonces!Claim
    <3> QED
      BY <1>2, <3>1, <3>2, HandleKeeps, ClaimNonceEffect DEF Control, HandleFrame
  <2> QED
    BY <2>1, <2>2, <2>3
<1>3. CASE Sweeper
  <2>1. SweeperFrame
    BY <1>3, SweeperKeeps
  <2>2. sweep'.t \in Nat /\ sweep'.t <= now
    BY <2>1 DEF SweeperFrame
  <2>3. \A n \in DOMAIN spent' : spent'[n] \in Nat
    BY <2>1 DEF SweeperFrame, Nonces!Sweep, Nonces!Restrict
  <2> QED
    BY <2>1, <2>2, <2>3 DEF SweeperFrame
<1>4. ASSUME NEW c \in DOMAIN Configs, Reload(c)
      PROVE  NonceTypes'
  BY <1>4 DEF Reload, stores, history
<1>5. ASSUME NEW c \in DOMAIN Configs, Restart(c)
      PROVE  NonceTypes'
  <2>1. /\ UNCHANGED <<now, minted, claims>> /\ cfg' = c /\ epoch' = epoch + 1
        /\ spent' = <<>> /\ sweep'.t = 0
    BY <1>5 DEF Restart, history
  <2>2. DOMAIN spent' = {}
    BY <2>1
  <2> QED
    BY <2>1, <2>2
<1>6. CASE Tick
  BY <1>6 DEF Tick, stores, history
<1>7. CASE UNCHANGED vars
  BY <1>7 DEF vars, stores, history
<1> QED
  BY <1>1, <1>2, <1>3, <1>4, <1>5, <1>6, <1>7 DEF Next

\* A handler between CheckNonce and Claim holds a nonce that was fresh when
\* it read the clock: nonces keep their date, the handler its reading.
LEMMA VerifiedStep ==
    ASSUME NonceInv, [Next]_vars, NEW q \in Request
    PROVE  Verified(q)'
<1>1. ASSUME UNCHANGED epoch, req'[q].pc = req[q].pc, req'[q].in = req[q].in,
             req'[q].t = req[q].t, req'[q].cfg = req[q].cfg, now' \in Nat, now <= now'
      PROVE  Verified(q)'
  <2>1. req[q].pc \in {"proof", "claim"} =>
            minted'[req[q].in.nonce] = minted[req[q].in.nonce]
    BY NonceOf, MintedKept DEF NonceInv, Knocking
  <2> QED
    BY <1>1, <2>1 DEF NonceInv, NonceTypes, Verified
<1>2. ASSUME NEW p \in Request, Arrive(p) \/ Handle(p)
      PROVE  Verified(q)'
  <2>1. Moves(p) /\ UNCHANGED <<now, epoch, cfg>>
    BY <1>2, ArriveMoves, HandleMoves, ArriveKeeps, HandleKeeps
       DEF NonceInv, Control, ArriveFrame, HandleFrame
  <2>2. CASE q # p
    <3>1. req'[q] = req[q]
      BY <2>1, <2>2 DEF Moves, Alone
    <3>2. now' \in Nat /\ now <= now'
      BY <2>1 DEF NonceInv, NonceTypes
    <3> QED
      BY <1>1, <2>1, <3>1, <3>2
  <2>3. CASE q = p /\ Throttle(p)
    BY <2>1, <2>3, ThrottleEffect
       DEF NonceInv, NonceTypes, Control, Verified, Moves, Comes, Refuses, Returns, CheckNonce, CheckProof, At
  <2>4. CASE q = p /\ CheckNonce(p)
    <3>1. /\ req[p].pc = "nonce"
          /\ \/ req'[p].pc = "done"
             \/ /\ req'[p].t = now /\ req'[p].cfg = req[p].cfg
                /\ req'[p].in = req[p].in
                /\ minted[req[p].in.nonce].epoch = epoch
                /\ minted[req[p].in.nonce].ts <= now
      BY <2>4, CheckNonceEffect
         DEF NonceInv, Control, Advances, Refuses, Returns, VerifyNonce
    <3>2. minted'[req[p].in.nonce] = minted[req[p].in.nonce]
      BY <3>1, NonceOf, MintedKept DEF NonceInv, Knocking
    <3> QED
      BY <2>1, <2>4, <3>1, <3>2 DEF NonceInv, NonceTypes, Verified
  <2>5. CASE q = p /\ CheckProof(p)
    <3>1. /\ req[p].pc = "proof"
          /\ \/ req'[p].pc = "done"
             \/ /\ req'[p].t = req[p].t /\ req'[p].cfg = req[p].cfg
                /\ req'[p].in = req[p].in
      BY <2>5, CheckProofEffect DEF NonceInv, Control, Advances, Refuses, Returns
    <3>2. minted'[req[p].in.nonce] = minted[req[p].in.nonce]
      BY <3>1, NonceOf, MintedKept DEF NonceInv, Knocking
    <3> QED
      BY <2>1, <2>5, <3>1, <3>2 DEF NonceInv, NonceTypes, Verified
  <2> QED
    BY <2>1, <2>2, <2>3, <2>4, <2>5 DEF Moves, Comes, Verified
<1>3. ASSUME NEW c \in DOMAIN Configs, Reload(c)
      PROVE  Verified(q)'
  <2>1. UNCHANGED <<now, epoch>> /\ now' \in Nat /\ now <= now'
    BY <1>3 DEF Reload, NonceInv, NonceTypes
  <2> QED
    BY <1>1, <1>3, <2>1, ReloadEffect DEF NonceInv, Control
<1>4. ASSUME NEW c \in DOMAIN Configs, Restart(c)
      PROVE  Verified(q)'
  BY <1>4, RestartEffect DEF NonceInv, Control, Verified, Active
<1>5. CASE Sweeper \/ Tick \/ UNCHANGED vars
  <2>1. UNCHANGED <<epoch, req>> /\ (now' = now \/ now' = now + 1)
    BY <1>5, SweeperKeeps DEF SweeperFrame, Tick, vars
  <2> QED
    BY <1>1, <2>1 DEF NonceInv, NonceTypes
<1> QED
  BY <1>2, <1>3, <1>4, <1>5 DEF Next

\* Time passes for a nonce in one direction only.
LEMMA StaleKept ==
    ASSUME NonceInv, [Next]_vars, NEW n \in DOMAIN minted, Stale(n)
    PROVE  Stale(n)'
<1>1. now' \in Nat /\ now <= now'
  <2>1. ASSUME NEW p \in Request, Arrive(p) \/ Handle(p)
        PROVE  now' \in Nat /\ now <= now'
    <3>1. now' = now
      BY <2>1, ArriveKeeps, HandleKeeps DEF NonceInv, Control, ArriveFrame, HandleFrame
    <3> QED
      BY <3>1 DEF NonceInv, NonceTypes
  <2>2. CASE \E c \in DOMAIN Configs : Reload(c) \/ Restart(c)
    BY <2>2 DEF NonceInv, NonceTypes, Reload, Restart
  <2>3. CASE Sweeper \/ Tick \/ UNCHANGED vars
    BY <2>3, SweeperKeeps DEF NonceInv, NonceTypes, SweeperFrame, Tick, vars
  <2> QED
    BY <2>1, <2>2, <2>3 DEF Next
<1>2. minted'[n] = minted[n]
  BY MintedKept DEF NonceInv
<1> QED
  BY <1>1, <1>2, NonceTTL DEF NonceInv, NonceTypes, Stale

\* A successful claim: the nonce is on record from now on, and it was not
\* claimed before unless it is stale.
LEMMA ClaimStep ==
    ASSUME NonceInv, [Next]_vars, NEW p \in Request, ClaimNonce(p), Advances(p, "put"),
           NEW n, n = req[p].in.nonce
    PROVE  /\ Claimed(n)'
           /\ claims'[n] > 1 => Stale(n)
           /\ \A m \in Request : m # n => claims'[m] = claims[m]
           /\ \A m \in DOMAIN spent : m # n => m \in DOMAIN spent' /\ spent'[m] = spent[m]
<1> DEFINE c == req[p].cfg
           t == req[p].t
<1>1. /\ req[p].pc = "claim" /\ Nonces!Claim(n, t, Configs[c].nonceTTL)
      /\ claims' = [claims EXCEPT ![n] = @ + 1]
  BY ClaimNonceEffect DEF NonceInv, Control, Refuses, Returns, Advances
<1>2. n \in DOMAIN minted /\ n \in Request
  BY <1>1, NonceOf DEF NonceInv, Knocking
<1>3. /\ c \in DOMAIN Configs /\ Configs[c].nonceTTL \in Nat
      /\ t \in Nat /\ t <= now /\ minted[n].epoch = epoch
      /\ minted[n].ts <= t /\ minted[n].ts \in Nat
      /\ now \in Nat /\ claims[n] \in Nat /\ Claimed(n)
      /\ DOMAIN claims = Request
  BY <1>1, <1>2, NonceTTL DEF NonceInv, NonceTypes, Verified
<1>4. minted'[n] = minted[n] /\ n \in DOMAIN minted'
  BY <1>2, MintedKept DEF NonceInv
<1> HIDE DEF c, t
<1>5. n \in DOMAIN spent' /\ spent'[n] = t + Configs[c].nonceTTL
  BY <1>1 DEF Nonces!Claim
<1>6. Remembered(n)'
  BY <1>3, <1>4, <1>5 DEF Remembered
<1>7. claims'[n] = claims[n] + 1
  BY <1>1, <1>2, <1>3
<1>8. ASSUME claims[n] > 0
      PROVE  Stale(n)
  <2>1. CASE Remembered(n)
    <3>1. PICK d \in DOMAIN Configs : spent[n] >= minted[n].ts + Configs[d].nonceTTL
      BY <2>1 DEF Remembered
    <3>2. spent[n] \in Nat /\ ~(t < spent[n])
      BY <1>1, <2>1 DEF Remembered, Nonces!Claim, Nonces!AlreadySpent, NonceInv, NonceTypes
    <3>3. Configs[d].nonceTTL \in Nat
      BY AuthorizerAssumption
    <3>4. now >= minted[n].ts + Configs[d].nonceTTL
      BY <1>3, <3>1, <3>2, <3>3
    <3> QED
      BY <3>4 DEF Stale
  <2> QED
    BY <1>3, <1>8, <2>1 DEF Claimed
<1> QED
  BY <1>1, <1>2, <1>3, <1>4, <1>6, <1>7, <1>8 DEF Claimed, Nonces!Claim

\* A nonce that this step does not claim.
LEMMA UnclaimedStep ==
    ASSUME NonceInv, [Next]_vars, NEW n \in Request, UNCHANGED epoch, claims'[n] = claims[n],
           n \in DOMAIN spent =>
               \/ n \in DOMAIN spent' /\ spent'[n] = spent[n]
               \/ n \in DOMAIN minted /\ Remembered(n) => Stale(n)
    PROVE  Claimed(n)'
<1>1. Claimed(n)
  BY DEF NonceInv
<1>2. n \in DOMAIN minted => n \in DOMAIN minted' /\ minted'[n] = minted[n]
  BY MintedKept DEF NonceInv
<1>3. n \in DOMAIN minted /\ Stale(n) => Stale(n)'
  BY StaleKept
<1>4. n \in DOMAIN minted /\ Remembered(n) => Remembered(n)' \/ Stale(n)
  BY <1>2 DEF Remembered
<1> QED
  BY <1>1, <1>2, <1>3, <1>4 DEF Claimed

\* Every step preserves NonceInv.
LEMMA NonceStep ==
    ASSUME NonceInv, [Next]_vars
    PROVE  NonceInv'
<1>1. Control' /\ NonceTypes' /\ \A p \in Request : Verified(p)'
  BY ControlStep, NonceTypesStep, VerifiedStep DEF NonceInv
<1>2. ASSUME NEW n \in Request, claims'[n] = claims[n], n \in DOMAIN minted'
      PROVE  claims'[n] > 1 => Stale(n)'
  <2>1. claims[n] > 1 => n \in DOMAIN minted
    BY DEF NonceInv, NonceTypes, Claimed
  <2>2. claims[n] > 1 => Stale(n)
    BY <2>1 DEF NonceInv, NonceFreshOnce, Stale
  <2> QED
    BY <1>2, <2>1, <2>2, StaleKept
<1>3. ASSUME NEW n \in Request
      PROVE  Claimed(n)' /\ (n \in DOMAIN minted' /\ claims'[n] > 1 => Stale(n)')
  <2>1. ASSUME NEW p \in Request, Arrive(p) \/ Handle(p)
        PROVE  Claimed(n)' /\ (n \in DOMAIN minted' /\ claims'[n] > 1 => Stale(n)')
    <3>1. UNCHANGED epoch
      BY <2>1, ArriveKeeps, HandleKeeps DEF NonceInv, Control, ArriveFrame, HandleFrame
    <3>2. CASE UNCHANGED <<spent, claims>>
      BY <1>2, <3>1, <3>2, UnclaimedStep
    <3>3. CASE ClaimNonce(p) /\ Advances(p, "put")
      <4>1. CASE n = req[p].in.nonce
        <5>1. n \in DOMAIN minted
          BY <3>3, <4>1, ClaimNonceEffect, NonceOf DEF NonceInv, Control, Knocking
        <5> QED
          BY <3>3, <4>1, <5>1, ClaimStep, StaleKept
      <4>2. CASE n # req[p].in.nonce
        <5>1. PICK m : m = req[p].in.nonce
          OBVIOUS
        <5>2. /\ claims'[n] = claims[n]
              /\ n \in DOMAIN spent => n \in DOMAIN spent' /\ spent'[n] = spent[n]
          BY <3>3, <4>2, <5>1, ClaimStep
        <5> QED
          BY <1>2, <3>1, <5>2, UnclaimedStep
      <4> QED
        BY <4>1, <4>2
    <3> QED
      BY <2>1, <3>2, <3>3, ArriveKeeps, HandleKeeps, ClaimNonceEffect
         DEF NonceInv, Control, ArriveFrame, HandleFrame
  <2>2. CASE Sweeper
    <3>1. SweeperFrame
      BY <2>2, SweeperKeeps
    <3>2. UNCHANGED <<epoch, claims>>
      BY <3>1 DEF SweeperFrame
    <3>3. ASSUME n \in DOMAIN spent, ~(n \in DOMAIN spent' /\ spent'[n] = spent[n]),
                 n \in DOMAIN minted, Remembered(n)
          PROVE  Stale(n)
      <4>1. sweep.t >= spent[n] /\ sweep.t <= now
        BY <3>1, <3>3 DEF SweeperFrame, Nonces!Sweep, Nonces!Restrict, NonceInv, NonceTypes
      <4>2. PICK d \in DOMAIN Configs : spent[n] >= minted[n].ts + Configs[d].nonceTTL
        BY <3>3 DEF Remembered
      <4>3. now >= minted[n].ts + Configs[d].nonceTTL
        BY <3>3, <4>1, <4>2, NonceTTL DEF NonceInv, NonceTypes
      <4> QED
        BY <4>3 DEF Stale
    <3> QED
      BY <1>2, <3>2, <3>3, UnclaimedStep
  <2>3. ASSUME NEW c \in DOMAIN Configs, Restart(c)
        PROVE  Claimed(n)' /\ (n \in DOMAIN minted' /\ claims'[n] > 1 => Stale(n)')
    <3>1. epoch' = epoch + 1 /\ UNCHANGED <<claims, minted>>
      BY <2>3 DEF Restart, history
    <3>2. n \in DOMAIN minted => minted[n].epoch # epoch'
      BY <3>1 DEF NonceInv, NonceTypes
    <3>3. Claimed(n)'
      BY <3>1, <3>2 DEF NonceInv, Claimed
    <3> QED
      BY <1>2, <3>1, <3>3
  <2>4. CASE (\E c \in DOMAIN Configs : Reload(c)) \/ Tick \/ UNCHANGED vars
    <3>1. UNCHANGED <<epoch, claims, spent>>
      BY <2>4 DEF Reload, Tick, vars, stores, history
    <3> QED
      BY <1>2, <3>1, UnclaimedStep
  <2> QED
    BY <2>1, <2>2, <2>3, <2>4 DEF Next
<1>4. NonceFreshOnce'
  BY <1>1, <1>3 DEF Control, NonceFreshOnce, Stale
<1> QED
  BY <1>1, <1>3, <1>4 DEF NonceInv

\* The server starts with no nonce minted and none spent.
LEMMA NonceInit ==
    ASSUME Init
    PROVE  NonceInv
<1>1. Control
  BY ControlInit
<1>2. /\ now = 0 /\ epoch = 0 /\ sweep = [pc |-> "wait", t |-> 0]
      /\ minted = <<>> /\ spent = <<>> /\ claims = [p \in Request |-> 0]
      /\ req = [p \in Request |-> Idle]
  BY DEF Init, Nonces!NonceStoreInit
<1>3. cfg \in DOMAIN Configs
  BY AuthorizerAssumption DEF Init
<1>4. DOMAIN minted = {} /\ DOMAIN spent = {} /\ sweep.t = 0
  BY <1>2
<1>5. \A p \in Request : req[p].pc = "idle"
  BY <1>2 DEF Idle
<1>6. NonceTypes
  BY <1>2, <1>3, <1>4 DEF NonceTypes
<1> QED
  BY <1>1, <1>2, <1>4, <1>5, <1>6 DEF NonceInv, Verified, Claimed, NonceFreshOnce

\* NonceInv is an invariant of the Authorizer.
LEMMA NonceInvariant == Spec => []NonceInv
<1>1. Init => NonceInv
  BY NonceInit
<1>2. NonceInv /\ [Next]_vars => NonceInv'
  BY NonceStep
<1> QED
  BY <1>1, <1>2, PTL DEF Spec

\* handleRespond claims a nonce at most once while it is fresh.
THEOREM NonceClaimedOnce == Spec => []NonceFreshOnce
<1>1. NonceInv => NonceFreshOnce
  BY DEF NonceInv
<1> QED
  BY <1>1, NonceInvariant, PTL
-----------------------------------------------------------------------------
(* OneRecordPerDevice *)

\* The cookies a client may show.
Shown == {Grants!NoCookie} \cup HandedOut("respond")

\* A knock that was answered with the grant g.
Knocked(q, g) ==
    /\ ask[q] = "respond" /\ req[q].out = "granted" /\ req[q].g = {g}
    /\ g.service = req[q].in.service /\ g.ip = req[q].in.ip
    /\ g.service \in Service /\ g.ip \in IP /\ g.exp \in Int
    /\ g.binding = Grants!BindingIPCookie => g.cookieHash = Grants!CookieHash(q)
    /\ req[q].in.cookie \in Shown

\* What the handler of a knock or of a grant by hand goes by.
Holding(p) ==
    /\ Active(p) /\ ask[p] \in {"respond", "adminGrant"} =>
         req[p].in.service \in Service /\ req[p].in.ip \in IP
    /\ Active(p) /\ ask[p] = "respond" =>
         /\ req[p].in.cookie \in Shown
         /\ req[p].svc \in DOMAIN Configs /\ KnownService(req[p].svc, req[p].in.service)
    /\ req[p].pc = "put" => req[p].t \in Nat /\ req[p].cfg \in DOMAIN Configs
    /\ ask[p] = "respond" => /\ \A g \in req[p].g : Knocked(p, g)
                             /\ req[p].out = "granted" => req[p].in.cookie \in Shown

\* A record is filed under the key of its own fields, and one for a device
\* belongs to a knock.
Filed(k, g) ==
    /\ k = Grants!keyFor(g) /\ g.service \in Service /\ g.ip \in IP
    /\ g.binding = Grants!BindingIPCookie => \E q \in Request : Knocked(q, g)

AllFiled == \A k \in DOMAIN grants : \A g : g = grants[k] => Filed(k, g)

DeviceInv ==
    /\ \A p \in Request : Holding(p)
    /\ AllFiled
    /\ OneRecordPerDevice

\* An answered knock stays answered.
LEMMA KnockedKept ==
    ASSUME Control, [Next]_vars, NEW q \in Request, NEW g, Knocked(q, g)
    PROVE  Knocked(q, g)'
<1>1. req'[q] = req[q] /\ UNCHANGED ask
  BY DoneKept DEF Control, Knocked
<1>2. Shown \subseteq Shown'
  BY HandedOutKept DEF Shown
<1> QED
  BY <1>1, <1>2 DEF Knocked

\* Grant TTLs are numbers.
LEMMA GrantTTL ==
    \A c \in DOMAIN Configs :
        /\ Configs[c].grantTTL \in Int
        /\ \A s \in DOMAIN Configs[c].services : Configs[c].services[s].grantTTL \in Int
<1>1. \A c \in DOMAIN Configs : Configs[c].grantTTL \in Nat
  BY AuthorizerAssumption
<1>2. \A c \in DOMAIN Configs :
        \A s \in DOMAIN Configs[c].services : Configs[c].services[s].grantTTL \in Int
  BY AuthorizerAssumption
<1> QED
  BY <1>1, <1>2

\* A knock puts a grant for its own client, under a cookie of its own.
LEMMA KnockGrantIs ==
    ASSUME NonceInv, NEW p \in Request, req[p].pc = "put", Holding(p), NEW g,
           g = KnockGrant(p, req[p])
    PROVE  /\ g.service = req[p].in.service /\ g.ip = req[p].in.ip
           /\ g.service \in Service /\ g.ip \in IP /\ g.exp \in Int
           /\ \/ g.binding = Grants!BindingIPCookie /\ g.cookieHash = Grants!CookieHash(p)
              \/ g.binding # Grants!BindingIPCookie /\ g.cookieHash = Grants!NoHash
           /\ ask[p] = "respond" /\ req[p].in.cookie \in Shown
<1>1. ask[p] = "respond" /\ Active(p)
  BY DEF NonceInv, Control, LabelOf, Knocking, Active
<1>2. /\ req[p].in.service \in Service /\ req[p].in.ip \in IP /\ req[p].in.cookie \in Shown
      /\ req[p].svc \in DOMAIN Configs /\ KnownService(req[p].svc, req[p].in.service)
      /\ req[p].t \in Nat /\ req[p].cfg \in DOMAIN Configs
  BY <1>1 DEF Holding
<1>3. Svc(req[p]).grantTTL \in Int /\ Configs[req[p].cfg].grantTTL \in Int
  BY <1>2, GrantTTL DEF Svc, KnownService
<1>4. grantTTL(req[p].cfg, Svc(req[p])) \in Int
  BY <1>3 DEF grantTTL
<1>5. /\ g.service = req[p].in.service /\ g.ip = req[p].in.ip
      /\ g.exp = req[p].t + grantTTL(req[p].cfg, Svc(req[p]))
      /\ g.binding = binding(Svc(req[p]))
      /\ g.cookieHash = IF binding(Svc(req[p])) = Grants!BindingIPCookie
                        THEN Grants!CookieHash(p) ELSE Grants!NoHash
  BY DEF KnockGrant
<1>6. g.exp \in Int
  BY <1>2, <1>4, <1>5
<1> QED
  BY <1>1, <1>2, <1>5, <1>6

\* Every step leaves the handlers with what they go by.
LEMMA HoldingStep ==
    ASSUME NonceInv, NonceInv', \A p \in Request : Holding(p), [Next]_vars, NEW p \in Request
    PROVE  Holding(p)'
<1>0. /\ Control /\ UNCHANGED ask /\ cfg \in DOMAIN Configs
      /\ Shown \subseteq Shown' /\ Holding(p)
  BY DoneKept, HandedOutKept DEF NonceInv, NonceTypes, Shown
<1>1. CASE req[p].pc = "done"
  <2>1. req'[p] = req[p]
    BY <1>0, <1>1, DoneKept
  <2>2. ask[p] = "respond" => \A g \in req'[p].g : Knocked(p, g)'
    BY <1>0, <2>1, KnockedKept DEF Holding
  <2> QED
    BY <1>0, <1>1, <2>1, <2>2 DEF Holding, Active
<1>2. CASE req'[p] = req[p]
  <2>1. ask[p] = "respond" => \A g \in req'[p].g : Knocked(p, g)'
    BY <1>0, <1>2, KnockedKept DEF Holding
  <2> QED
    BY <1>0, <1>2, <2>1 DEF Holding, Active
<1>3. ASSUME Moves(p), Arrive(p) \/ Handle(p) PROVE Holding(p)'
  <2>1. Active(p)' /\ ask[p] \in {"respond", "adminGrant"} =>
           req'[p].in.service \in Service /\ req'[p].in.ip \in IP
    <3>1. CASE req[p].pc = "idle"
      <4>1. \A in \in Inputs("respond") : in.service \in Service /\ in.ip \in IP
        BY DEF Inputs
      <4>2. \A in \in Inputs("adminGrant") : in.service \in Service /\ in.ip \in IP
        BY DEF Inputs
      <4> QED
        BY <1>3, <3>1, <4>1, <4>2 DEF Moves
    <3>2. CASE req[p].pc # "idle"
      BY <1>0, <1>3, <3>2 DEF Moves, Holding, Active
    <3> QED
      BY <3>1, <3>2
  <2>2. Active(p)' /\ ask[p] = "respond" =>
           /\ req'[p].in.cookie \in Shown'
           /\ req'[p].svc \in DOMAIN Configs /\ KnownService(req'[p].svc, req'[p].in.service)
    <3>1. CASE req[p].pc = "idle"
      <4>1. \A in \in Inputs("respond") : in.cookie \in Shown
        BY DEF Inputs, Shown
      <4> QED
        BY <1>0, <1>3, <3>1, <4>1 DEF Moves, Protocol
    <3>2. CASE req[p].pc # "idle"
      BY <1>0, <1>3, <3>2 DEF Moves, Holding, Active
    <3> QED
      BY <3>1, <3>2
  <2>3. req'[p].pc = "put" => req'[p].t \in Nat /\ req'[p].cfg \in DOMAIN Configs
    <3> SUFFICES ASSUME req'[p].pc = "put"
                 PROVE  req'[p].t \in Nat /\ req'[p].cfg \in DOMAIN Configs
      OBVIOUS
    <3>1. ClaimNonce(p)
      BY <1>3 DEF Moves, Comes
    <3>2. req[p].pc = "claim" /\ req'[p].t = req[p].t /\ req'[p].cfg = req[p].cfg
      BY <1>0, <3>1, ClaimNonceEffect DEF Control, Refuses, Returns
    <3> QED
      BY <3>2 DEF NonceInv, Verified
  <2>4. ASSUME ask[p] = "respond", NEW g \in req'[p].g PROVE Knocked(p, g)'
    <3>1. CASE PutGrant(p)
      <4>1. /\ req[p].pc = "put" /\ req'[p].out = "granted" /\ req'[p].in = req[p].in
            /\ req'[p].g = {KnockGrant(p, req[p])}
        BY <1>0, <3>1, PutGrantEffect DEF Control, Returns
      <4>2. g = KnockGrant(p, req[p]) /\ req'[p].g = {g}
        BY <2>4, <4>1
      <4> QED
        BY <1>0, <4>1, <4>2, KnockGrantIs DEF Knocked
    <3>2. CASE ~PutGrant(p)
      <4>1. ~AdminGrantPut(p) /\ ~AuthzCheck(p)
        BY <1>0, <2>4, AdminGrantPutEffect, AuthzCheckEffect
        DEF Control, LabelOf, Granting, Deciding
      <4>2. req'[p].g = req[p].g
        BY <1>3, <2>4, <3>2, <4>1 DEF Moves, Comes
      <4> QED
        BY <1>0, <2>4, <4>2, KnockedKept DEF Holding
    <3> QED
      BY <3>1, <3>2
  <2>5. ASSUME ask[p] = "respond", req'[p].out = "granted" PROVE req'[p].in.cookie \in Shown'
    <3>1. ~AdminGrantPut(p)
      BY <1>0, <2>5, AdminGrantPutEffect DEF Control, LabelOf, Granting
    <3>2. PutGrant(p)
      BY <1>3, <2>5, <3>1 DEF Moves, Comes
    <3>3. req[p].pc = "put" /\ req'[p].in = req[p].in
      BY <1>0, <3>2, PutGrantEffect DEF Control
    <3> QED
      BY <1>0, <2>5, <3>3 DEF Holding, Active
  <2> QED
    BY <1>0, <2>1, <2>2, <2>3, <2>4, <2>5 DEF Holding
<1>4. ASSUME NEW q \in Request, Arrive(q) \/ Handle(q) PROVE Holding(p)'
  <2>1. Moves(q)
    BY <1>0, <1>4, ArriveMoves, HandleMoves
  <2>2. CASE q = p
    BY <1>3, <1>4, <2>1, <2>2
  <2>3. CASE q # p
    BY <1>2, <2>1, <2>3 DEF Moves, Alone
  <2> QED
    BY <2>2, <2>3
<1>5. CASE Sweeper
  BY <1>2, <1>5, SweeperKeeps DEF SweeperFrame
<1>6. ASSUME NEW c \in DOMAIN Configs, Reload(c) PROVE Holding(p)'
  <2>1. /\ req'[p].pc = req[p].pc /\ req'[p].in = req[p].in /\ req'[p].g = req[p].g
        /\ req'[p].t = req[p].t /\ req'[p].cfg = req[p].cfg /\ req'[p].svc = req[p].svc
        /\ req'[p].out = req[p].out
    BY <1>0, <1>6, ReloadEffect DEF Control
  <2>2. ask[p] = "respond" => \A g \in req'[p].g : Knocked(p, g)'
    BY <1>0, <2>1, KnockedKept DEF Holding
  <2> QED
    BY <1>0, <2>1, <2>2 DEF Holding, Active
<1>7. ASSUME NEW c \in DOMAIN Configs, Restart(c) PROVE Holding(p)'
  <2>1. CASE Active(p)
    <3>1. req'[p].pc = "done" /\ req'[p].g = {} /\ req'[p].out # "granted"
      BY <1>0, <1>7, <2>1, RestartEffect DEF Control
    <3> QED
      BY <3>1 DEF Holding, Active
  <2>2. CASE ~Active(p)
    BY <1>0, <1>2, <1>7, <2>2, RestartEffect DEF Control
  <2> QED
    BY <2>1, <2>2
<1>8. CASE Tick \/ UNCHANGED vars
  BY <1>2, <1>8 DEF Tick, vars
<1> QED
  BY <1>4, <1>5, <1>6, <1>7, <1>8 DEF Next

\* What Put leaves in the store.
LEMMA PutLeaves ==
    ASSUME NEW g, NEW h, Grants!Put(g, h)
    PROVE  /\ DOMAIN grants' = (DOMAIN grants \ Grants!Retired(g, h)) \cup {Grants!keyFor(g)}
           /\ grants'[Grants!keyFor(g)] = g
           /\ \A k \in DOMAIN grants \ Grants!Retired(g, h) :
                k # Grants!keyFor(g) => grants'[k] = grants[k]
<1>1. grants' = [ x \in (DOMAIN grants \ Grants!Retired(g, h)) \cup {Grants!keyFor(g)} |->
                    IF x = Grants!keyFor(g) THEN g ELSE grants[x] ]
  BY DEF Grants!Put
<1> QED
  BY <1>1

\* Hashes of cookies are not empty, and those of two cookies differ.
LEMMA HashesDiffer ==
    /\ \A c : Grants!CookieHash(c) # Grants!NoHash
    /\ \A c, d : Grants!CookieHash(c) = Grants!CookieHash(d) => c = d
  BY DEF Grants!CookieHash, Grants!NoHash

\* When no two slots share a key, neither do two devices, or a device and the
\* plain key of an address.
LEMMA KeysApart ==
    ASSUME Grants!KeysUnambiguous,
           NEW s \in Service, NEW i \in IP, NEW c \in Request,
           NEW u \in Service, NEW j \in IP
    PROVE  /\ \A d \in Request :
                Grants!GrantKeyCookie(s, i, Grants!CookieHash(c))
                  = Grants!GrantKeyCookie(u, j, Grants!CookieHash(d)) => s = u /\ i = j /\ c = d
           /\ Grants!GrantKeyCookie(s, i, Grants!CookieHash(c)) # Grants!GrantKey(u, j)
<1> DEFINE a == <<s, i, Grants!CookieHash(c)>>
           b == <<u, j, Grants!NoHash>>
           e(d) == <<u, j, Grants!CookieHash(d)>>
<1>1. /\ a \in Grants!Slots /\ b \in Grants!Slots /\ \A d \in Request : e(d) \in Grants!Slots
  BY DEF Grants!Slots, Grants!Hash, Cookie
<1>2. /\ Grants!SlotKey(a) = Grants!GrantKeyCookie(s, i, Grants!CookieHash(c))
      /\ Grants!SlotKey(b) = Grants!GrantKey(u, j)
      /\ \A d \in Request :
           Grants!SlotKey(e(d)) = Grants!GrantKeyCookie(u, j, Grants!CookieHash(d))
  BY HashesDiffer DEF Grants!SlotKey
<1>3. Grants!SlotKey(a) = Grants!SlotKey(b) => a = b
  BY <1>1 DEF Grants!KeysUnambiguous
<1>4. \A d \in Request : Grants!SlotKey(a) = Grants!SlotKey(e(d)) => a = e(d)
  BY <1>1 DEF Grants!KeysUnambiguous
<1>5. a # b /\ \A d \in Request : a = e(d) => s = u /\ i = j /\ c = d
  BY HashesDiffer
<1> QED
  BY <1>2, <1>3, <1>4, <1>5

\* Every step leaves the records filed under their keys.
LEMMA FiledStep ==
    ASSUME NonceInv, DeviceInv, [Next]_vars
    PROVE  AllFiled'
<1>0. Control
  BY DEF NonceInv
<1>1. ASSUME NEW k, NEW g, Filed(k, g) PROVE Filed(k, g)'
  BY <1>0, <1>1, KnockedKept DEF Filed, Grants!keyFor
<1>2. ASSUME Shrinks PROVE AllFiled'
  <2>1. ASSUME NEW k \in DOMAIN grants', NEW g, g = grants'[k] PROVE Filed(k, g)'
    <3>1. k \in DOMAIN grants /\ g = grants[k]
      BY <1>2, <2>1 DEF Shrinks
    <3> QED
      BY <1>1, <3>1 DEF DeviceInv, AllFiled
  <2> QED
    BY <2>1 DEF AllFiled
<1>3. ASSUME NEW f, NEW h, Grants!Put(f, h), Filed(Grants!keyFor(f), f)' PROVE AllFiled'
  <2>1. ASSUME NEW k \in DOMAIN grants', NEW g, g = grants'[k] PROVE Filed(k, g)'
    <3>1. CASE k = Grants!keyFor(f)
      BY <1>3, <2>1, <3>1, PutLeaves
    <3>2. CASE k # Grants!keyFor(f)
      <4>1. k \in DOMAIN grants \ Grants!Retired(f, h) /\ g = grants[k]
        <5>1. DOMAIN grants' = (DOMAIN grants \ Grants!Retired(f, h)) \cup {Grants!keyFor(f)}
          BY <1>3, PutLeaves
        <5>2. k \in DOMAIN grants \ Grants!Retired(f, h)
          BY <2>1, <3>2, <5>1
        <5>3. \A x \in DOMAIN grants \ Grants!Retired(f, h) :
                x # Grants!keyFor(f) => grants'[x] = grants[x]
          BY <1>3, PutLeaves
        <5> QED
          BY <2>1, <3>2, <5>2, <5>3
      <4> QED
        BY <1>1, <4>1 DEF DeviceInv, AllFiled
    <3> QED
      BY <3>1, <3>2
  <2> QED
    BY <2>1 DEF AllFiled
<1>4. ASSUME NEW p \in Request, Handle(p) PROVE AllFiled'
  <2>1. CASE UNCHANGED grants
    BY <1>2, <2>1 DEF Shrinks
  <2>2. CASE PutGrant(p)
    <3>1. PICK g : g = KnockGrant(p, req[p])
      OBVIOUS
    <3>2. /\ Grants!Put(g, OldHash(req[p].in.cookie)) /\ req[p].pc = "put" /\ UNCHANGED ask
          /\ req'[p].out = "granted" /\ req'[p].g = {g} /\ req'[p].in = req[p].in
      BY <1>0, <2>2, <3>1, PutGrantEffect DEF Control, Returns, Alone
    <3>3. PICK h : h = OldHash(req[p].in.cookie)
      OBVIOUS
    <3>4. Knocked(p, g)'
      BY <1>0, <3>1, <3>2, KnockGrantIs, HandedOutKept DEF DeviceInv, Knocked, Shown
    <3>5. Filed(Grants!keyFor(g), g)'
      BY <3>4 DEF Filed, Knocked, Grants!keyFor
    <3> QED
      BY <1>3, <3>2, <3>3, <3>5
  <2>3. CASE AdminGrantPut(p)
    <3>1. PICK g : g = HandGrant(req[p])
      OBVIOUS
    <3>2. Grants!Put(g, Grants!NoHash) /\ req[p].pc = "grantPut"
      BY <1>0, <2>3, <3>1, AdminGrantPutEffect DEF Control
    <3>3. ask[p] = "adminGrant" /\ Active(p)
      BY <1>0, <3>2 DEF Control, LabelOf, Granting, Active
    <3>4. req[p].in.service \in Service /\ req[p].in.ip \in IP
      BY <3>3 DEF DeviceInv, Holding
    <3>5. g.service \in Service /\ g.ip \in IP /\ g.binding # Grants!BindingIPCookie
      BY <3>1, <3>4 DEF HandGrant, Grants!BindingIP, Grants!BindingIPCookie
    <3>6. Filed(Grants!keyFor(g), g)'
      BY <3>5 DEF Filed, Grants!keyFor
    <3> QED
      BY <1>3, <3>2, <3>6
  <2> QED
    BY <1>4, <2>1, <2>2, <2>3, HandleKeeps DEF HandleFrame
<1>5. CASE ~\E p \in Request : Handle(p)
  BY <1>0, <1>2, <1>5, OnlyPutAdds
<1> QED
  BY <1>4, <1>5

\* Only the sweeper takes a record out of the store, and then one that has
\* expired, when nobody restarts or revokes.
LEMMA OnlySweepDrops ==
    ASSUME Control, [Next]_vars, epoch \in Nat, epoch' = 0,
           \A r \in Request : ask[r] \notin {"adminRevoke", "adminRevokeToken"},
           \A p \in Request : ~PutGrant(p) /\ ~AdminGrantPut(p)
    PROVE  \/ UNCHANGED grants
           \/ Grants!Sweep(sweep.t) /\ UNCHANGED now
<1>1. ASSUME NEW p \in Request, Handle(p) PROVE UNCHANGED grants
  BY <1>1, HandleKeeps DEF HandleFrame
<1>2. ASSUME NEW p \in Request, Arrive(p) PROVE UNCHANGED grants
  <2>1. ~AdminRevoke(p) /\ ~AdminRevokeToken(p)
    BY DEF AdminRevoke, AdminRevokeToken
  <2> QED
    BY <1>2, <2>1 DEF Arrive, Resolve, AdminGrantConfig, AdminCodeLookup, stores
<1>3. CASE Sweeper
  BY <1>3 DEF Sweeper, SweepStart, SweepGrants, SweepNonces, SweepCodes, SweepLimiter, stores
<1>4. ASSUME NEW c \in DOMAIN Configs, Reload(c) \/ Restart(c) PROVE UNCHANGED grants
  <2>1. ~Restart(c)
    BY DEF Restart
  <2> QED
    BY <1>4, <2>1 DEF Reload, stores
<1>5. CASE Tick \/ UNCHANGED vars
  BY <1>5 DEF Tick, vars, stores
<1> QED
  BY <1>1, <1>2, <1>3, <1>4, <1>5 DEF Next

\* What a Put does to the record g of knock q.
LEMMA PutSpares ==
    ASSUME Grants!KeysUnambiguous, NonceInv, DeviceInv,
           NEW q \in Request, NEW g, Knocked(q, g), g.binding = Grants!BindingIPCookie,
           NEW f, NEW h, Grants!Put(f, h),
           f.service \in Service, f.ip \in IP,
           \/ f.binding # Grants!BindingIPCookie
           \/ \E p \in Request \ {q} : f.cookieHash = Grants!CookieHash(p),
           h = Grants!NoHash \/ \E c \in Request : h = Grants!CookieHash(c),
           h = Grants!NoHash \/ h # f.cookieHash
    PROVE  /\ g \in Grants!Range(grants') => g \in Grants!Range(grants)
           /\ g \in Grants!Range(grants') =>
                ~(h = Grants!CookieHash(q) /\ f.service = g.service /\ f.ip = g.ip)
           /\ g \in Grants!Range(grants) =>
                \/ g \in Grants!Range(grants')
                \/ h = Grants!CookieHash(q) /\ f.service = g.service /\ f.ip = g.ip
<1> DEFINE k == Grants!keyFor(g)
<1>1. /\ g.service \in Service /\ g.ip \in IP
      /\ g.cookieHash = Grants!CookieHash(q)
      /\ k = Grants!GrantKeyCookie(g.service, g.ip, Grants!CookieHash(q))
  BY HashesDiffer DEF Knocked, Grants!keyFor
<1>2. f # g
  BY <1>1, HashesDiffer
<1>3. Grants!keyFor(f) # k
  <2>1. CASE f.binding = Grants!BindingIPCookie /\ f.cookieHash # Grants!NoHash
    <3>1. PICK p \in Request \ {q} : f.cookieHash = Grants!CookieHash(p)
      BY <2>1
    <3>2. Grants!keyFor(f) = Grants!GrantKeyCookie(f.service, f.ip, Grants!CookieHash(p))
      BY <2>1, <3>1 DEF Grants!keyFor
    <3> QED
      BY <1>1, <3>1, <3>2, KeysApart
  <2>2. CASE ~(f.binding = Grants!BindingIPCookie /\ f.cookieHash # Grants!NoHash)
    <3>1. Grants!keyFor(f) = Grants!GrantKey(f.service, f.ip)
      BY <2>2 DEF Grants!keyFor
    <3> QED
      BY <1>1, <3>1, KeysApart
  <2> QED
    BY <2>1, <2>2
<1>4. k \in DOMAIN grants =>
        (k \in Grants!Retired(f, h) <=>
           h = Grants!CookieHash(q) /\ f.service = g.service /\ f.ip = g.ip)
  <2> SUFFICES ASSUME k \in DOMAIN grants
               PROVE  k \in Grants!Retired(f, h) <=>
                        h = Grants!CookieHash(q) /\ f.service = g.service /\ f.ip = g.ip
    OBVIOUS
  <2>1. k \in Grants!Retired(f, h) <=>
           h # Grants!NoHash /\ k = Grants!GrantKeyCookie(f.service, f.ip, h)
    BY DEF Grants!Retired
  <2>2. CASE h = Grants!NoHash
    BY <2>1, <2>2, HashesDiffer
  <2>3. ASSUME NEW c \in Request, h = Grants!CookieHash(c)
        PROVE  k \in Grants!Retired(f, h) <=>
                 h = Grants!CookieHash(q) /\ f.service = g.service /\ f.ip = g.ip
    <3>1. k = Grants!GrantKeyCookie(f.service, f.ip, h) =>
             f.service = g.service /\ f.ip = g.ip /\ c = q
      <4> HIDE DEF k
      <4>1. ASSUME k = Grants!GrantKeyCookie(f.service, f.ip, h)
            PROVE  Grants!GrantKeyCookie(g.service, g.ip, Grants!CookieHash(q))
                     = Grants!GrantKeyCookie(f.service, f.ip, Grants!CookieHash(c))
        BY <1>1, <2>3, <4>1
      <4>2. Grants!GrantKeyCookie(g.service, g.ip, Grants!CookieHash(q))
              = Grants!GrantKeyCookie(f.service, f.ip, Grants!CookieHash(c))
            => g.service = f.service /\ g.ip = f.ip /\ q = c
        BY <1>1, KeysApart
      <4> QED
        BY <4>1, <4>2
    <3>2. h = Grants!CookieHash(q) => c = q
      BY <2>3, HashesDiffer
    <3> QED
      BY <1>1, <2>1, <2>3, <3>1, <3>2, HashesDiffer
  <2> QED
    BY <2>2, <2>3
<1>5. g \in Grants!Range(grants) <=> k \in DOMAIN grants /\ grants[k] = g
  BY DEF Grants!Range, DeviceInv, AllFiled, Filed
<1> HIDE DEF k
<1>6. /\ DOMAIN grants' = (DOMAIN grants \ Grants!Retired(f, h)) \cup {Grants!keyFor(f)}
      /\ grants'[Grants!keyFor(f)] = f
      /\ \A x \in DOMAIN grants \ Grants!Retired(f, h) :
           x # Grants!keyFor(f) => grants'[x] = grants[x]
  BY PutLeaves
<1>7. g \in Grants!Range(grants') => k \in DOMAIN grants /\ k \notin Grants!Retired(f, h)
                                     /\ grants[k] = g
  <2> SUFFICES ASSUME NEW x \in DOMAIN grants', grants'[x] = g
               PROVE  /\ k \in DOMAIN grants /\ k \notin Grants!Retired(f, h)
                      /\ grants[k] = g
    BY DEF Grants!Range
  <2>1. x # Grants!keyFor(f)
    BY <1>2, <1>6
  <2>2. x \in DOMAIN grants \ Grants!Retired(f, h) /\ grants[x] = g
    BY <1>6, <2>1
  <2>3. x = k
    BY <2>2 DEF DeviceInv, AllFiled, Filed, k
  <2> QED
    BY <2>2, <2>3
<1>8. k \in DOMAIN grants \ Grants!Retired(f, h) /\ grants[k] = g => g \in Grants!Range(grants')
  BY <1>3, <1>6 DEF Grants!Range
<1> QED
  BY <1>4, <1>5, <1>7, <1>8

\* A step answers a knock with a grant only by PutGrant.
LEMMA OnlyPutAnswers ==
    ASSUME Control, [Next]_vars, NEW r \in Request,
           ask[r] = "respond", req'[r].out = "granted", req[r].out # "granted"
    PROVE  PutGrant(r)
<1>1. ASSUME NEW p \in Request, Arrive(p) \/ Handle(p) PROVE PutGrant(r)
  <2>1. Moves(p)
    BY <1>1, ArriveMoves, HandleMoves
  <2>2. p = r
    BY <2>1 DEF Moves, Alone
  <2>3. ~AdminGrantPut(r)
    BY AdminGrantPutEffect DEF Control, LabelOf, Granting
  <2> QED
    BY <2>1, <2>2, <2>3 DEF Moves, Comes
<1>2. CASE Sweeper
  BY <1>2, SweeperKeeps DEF SweeperFrame
<1>3. ASSUME NEW c \in DOMAIN Configs, Reload(c) \/ Restart(c) PROVE FALSE
  BY <1>3, ReloadEffect, RestartEffect DEF Control
<1>4. CASE Tick \/ UNCHANGED vars
  BY <1>4 DEF Tick, vars
<1> QED
  BY <1>1, <1>2, <1>3, <1>4 DEF Next

\* The request p shows q's cookie from where q was.
Follows(p, q) ==
    /\ req[p].in.cookie = q
    /\ req[p].in.service = req[q].in.service /\ req[p].in.ip = req[q].in.ip

\* An answered knock is superseded by the PutGrant of one that shows its
\* cookie, and by nothing else.
LEMMA SupersededStep ==
    ASSUME Control, [Next]_vars, NEW q \in Request, req[q].pc = "done"
    PROVE  /\ Superseded(q) => Superseded(q)'
           /\ Superseded(q)' => Superseded(q) \/ \E p \in Request : PutGrant(p) /\ Follows(p, q)
           /\ \A p \in Request : PutGrant(p) /\ Follows(p, q) => Superseded(q)'
<1>1. req'[q] = req[q] /\ UNCHANGED ask
  BY DoneKept
<1>2. ASSUME NEW r \in Request, req[r].out = "granted" PROVE req'[r] = req[r]
  BY <1>2, DoneKept DEF Control
<1>3. ASSUME NEW p \in Request, PutGrant(p)
      PROVE  ask[p] = "respond" /\ req'[p].out = "granted" /\ req'[p].in = req[p].in
  BY <1>3, PutGrantEffect DEF Control, LabelOf, Knocking, Returns
<1>4. Superseded(q) => Superseded(q)'
  BY <1>1, <1>2 DEF Superseded
<1>5. \A p \in Request : PutGrant(p) /\ Follows(p, q) => Superseded(q)'
  BY <1>1, <1>3 DEF Superseded, Follows
<1>6. ASSUME Superseded(q)'
      PROVE  Superseded(q) \/ \E p \in Request : PutGrant(p) /\ Follows(p, q)
  <2>1. PICK r \in Request : /\ ask[r] = "respond" /\ req'[r].out = "granted"
                             /\ req'[r].in.cookie = q
                             /\ req'[r].in.service = req[q].in.service
                             /\ req'[r].in.ip = req[q].in.ip
    BY <1>1, <1>6 DEF Superseded
  <2>2. CASE req[r].out = "granted"
    BY <1>2, <2>1, <2>2 DEF Superseded
  <2>3. CASE req[r].out # "granted"
    <3>1. PutGrant(r)
      BY <2>1, <2>3, OnlyPutAnswers
    <3> QED
      BY <1>3, <2>1, <3>1 DEF Follows
  <2> QED
    BY <2>2, <2>3
<1> QED
  BY <1>4, <1>5, <1>6

\* The record of a device is in the store, while it lives and until the
\* browser's next knock retires it.
Kept(q, g) ==
    /\ Superseded(q) => g \notin Grants!Range(grants)
    /\ now < g.exp /\ ~Superseded(q) => g \in Grants!Range(grants)

\* Every step keeps the record of a device, when nobody restarts or revokes.
LEMMA KeptStep ==
    ASSUME Grants!KeysUnambiguous, NonceInv, NonceInv', DeviceInv, [Next]_vars, epoch' = 0,
           \A r \in Request : ask[r] \notin {"adminRevoke", "adminRevokeToken"},
           NEW q \in Request, NEW g, Knocked(q, g), g.binding = Grants!BindingIPCookie,
           Kept(q, g)
    PROVE  Kept(q, g)'
<1>0. /\ Control /\ req[q].pc = "done" /\ g.exp \in Int
      /\ now \in Nat /\ now' \in Nat /\ epoch \in Nat /\ sweep.t \in Nat /\ sweep.t <= now
  BY DEF NonceInv, NonceTypes, Control, Knocked
<1>1. ASSUME NEW p \in Request, PutGrant(p) PROVE Kept(q, g)'
  <2>1. PICK f : f = KnockGrant(p, req[p])
    OBVIOUS
  <2>2. PICK h : h = OldHash(req[p].in.cookie)
    OBVIOUS
  <2>3. Grants!Put(f, h) /\ req[p].pc = "put" /\ UNCHANGED now
    BY <1>0, <1>1, <2>1, <2>2, PutGrantEffect DEF Control, PutGrant
  <2>4. /\ f.service = req[p].in.service /\ f.ip = req[p].in.ip
        /\ f.service \in Service /\ f.ip \in IP
        /\ \/ f.binding = Grants!BindingIPCookie /\ f.cookieHash = Grants!CookieHash(p)
           \/ f.binding # Grants!BindingIPCookie /\ f.cookieHash = Grants!NoHash
        /\ req[p].in.cookie \in Shown
    BY <2>1, <2>3, KnockGrantIs DEF DeviceInv
  <2>5. p # q /\ req[p].out # "granted"
    BY <1>0, <2>3 DEF Control
  <2>6. \/ req[p].in.cookie = Grants!NoCookie /\ h = Grants!NoHash
        \/ /\ req[p].in.cookie \in Request \ {p} /\ h = Grants!CookieHash(req[p].in.cookie)
           /\ req[p].in.cookie # Grants!NoCookie
    <3>1. \A c \in HandedOut("respond") : c \in Request \ {p} /\ c # Grants!NoCookie
      <4>1. \A c \in Request : c # Grants!NoCookie
        BY AuthorizerAssumption DEF Grants!NoCookie
      <4>2. req[p].out = ""
        BY <1>0, <2>3 DEF Control
      <4> QED
        BY <4>1, <4>2 DEF HandedOut
    <3> QED
      BY <2>2, <2>4, <3>1 DEF Shown, OldHash
  <2>7. h = Grants!NoHash \/ h # f.cookieHash
    BY <2>4, <2>6, HashesDiffer
  <2>8. /\ h = Grants!NoHash \/ \E c \in Request : h = Grants!CookieHash(c)
        /\ \/ f.binding # Grants!BindingIPCookie
           \/ \E x \in Request \ {q} : f.cookieHash = Grants!CookieHash(x)
    BY <2>4, <2>5, <2>6
  <2>9. /\ g \in Grants!Range(grants') => g \in Grants!Range(grants)
        /\ g \in Grants!Range(grants') =>
             ~(h = Grants!CookieHash(q) /\ f.service = g.service /\ f.ip = g.ip)
        /\ g \in Grants!Range(grants) =>
             \/ g \in Grants!Range(grants')
             \/ h = Grants!CookieHash(q) /\ f.service = g.service /\ f.ip = g.ip
    BY <2>3, <2>4, <2>7, <2>8, PutSpares
  <2>10. h = Grants!CookieHash(q) /\ f.service = g.service /\ f.ip = g.ip <=> Follows(p, q)
    <3>1. h = Grants!CookieHash(q) <=> req[p].in.cookie = q
      <4>1. q # Grants!NoCookie
        BY AuthorizerAssumption DEF Grants!NoCookie
      <4> QED
        BY <2>6, <4>1, HashesDiffer
    <3> QED
      BY <2>4, <3>1 DEF Follows, Knocked
  <2>11. \A x \in Request : PutGrant(x) => x = p
    <3>1. ASSUME NEW x \in Request, PutGrant(x), x # p PROVE FALSE
      <4>1. req[x].pc = "put" /\ req'[x].pc = "done"
        BY <1>0, <3>1, PutGrantEffect DEF Control, Returns
      <4>2. req'[x] = req[x]
        BY <1>0, <1>1, <3>1, PutGrantEffect DEF Control, Returns, Alone
      <4> QED
        BY <4>1, <4>2
    <3> QED
      BY <3>1
  <2>12. Superseded(q)' <=> Superseded(q) \/ Follows(p, q)
    BY <1>0, <1>1, <2>11, SupersededStep
  <2>13. g \in Grants!Range(grants)' <=> g \in Grants!Range(grants')
    BY DEF Grants!Range
  <2> QED
    BY <2>3, <2>9, <2>10, <2>12, <2>13 DEF Kept
<1>2. ASSUME \A p \in Request : ~PutGrant(p) PROVE Superseded(q)' <=> Superseded(q)
  BY <1>0, <1>2, SupersededStep
<1>3. ASSUME \A p \in Request : ~PutGrant(p), NEW p \in Request, AdminGrantPut(p)
      PROVE  Kept(q, g)'
  <2>1. PICK f : f = HandGrant(req[p])
    OBVIOUS
  <2>2. PICK h : h = Grants!NoHash
    OBVIOUS
  <2>3. Grants!Put(f, h) /\ req[p].pc = "grantPut" /\ UNCHANGED now
    BY <1>0, <1>3, <2>1, <2>2, AdminGrantPutEffect DEF Control, AdminGrantPut
  <2>4. req[p].in.service \in Service /\ req[p].in.ip \in IP
    BY <1>0, <2>3 DEF Control, LabelOf, Granting, DeviceInv, Holding, Active
  <2>5. f.service \in Service /\ f.ip \in IP /\ f.binding # Grants!BindingIPCookie
    BY <2>1, <2>4 DEF HandGrant, Grants!BindingIP, Grants!BindingIPCookie
  <2>6. g \in Grants!Range(grants') <=> g \in Grants!Range(grants)
    BY <2>2, <2>3, <2>5, PutSpares, HashesDiffer
  <2>7. g \in Grants!Range(grants)' <=> g \in Grants!Range(grants')
    BY DEF Grants!Range
  <2> QED
    BY <1>2, <1>3, <2>3, <2>6, <2>7 DEF Kept
<1>4. ASSUME \A p \in Request : ~PutGrant(p) /\ ~AdminGrantPut(p) PROVE Kept(q, g)'
  <2>1. now <= now'
    <3>1. ASSUME NEW p \in Request, Arrive(p) \/ Handle(p) PROVE UNCHANGED now
      <4>1. CASE Arrive(p)
        BY <1>0, <4>1, ArriveKeeps DEF Control, ArriveFrame
      <4>2. CASE Handle(p)
        BY <4>2, HandleKeeps DEF HandleFrame
      <4> QED
        BY <3>1, <4>1, <4>2
    <3>2. CASE Sweeper
      BY <1>0, <3>2, SweeperKeeps DEF SweeperFrame
    <3>3. CASE \E c \in DOMAIN Configs : Reload(c) \/ Restart(c)
      BY <1>0, <3>3 DEF Reload, Restart
    <3>4. CASE Tick \/ UNCHANGED vars
      BY <1>0, <3>4 DEF Tick, vars
    <3> QED
      BY <1>0, <3>1, <3>2, <3>3, <3>4 DEF Next
  <2>2. CASE UNCHANGED grants
    <3>1. g \in Grants!Range(grants)' <=> g \in Grants!Range(grants)
      BY <2>2 DEF Grants!Range
    <3>2. now' < g.exp => now < g.exp
      BY <1>0, <2>1
    <3> QED
      BY <1>2, <1>4, <3>1, <3>2 DEF Kept
  <2>3. CASE Grants!Sweep(sweep.t) /\ UNCHANGED now
    <3>1. g \in Grants!Range(grants)' => g \in Grants!Range(grants)
      BY <2>3 DEF Grants!Range, Grants!Sweep, Grants!Dropped, Grants!Restrict
    <3>2. now < g.exp /\ g \in Grants!Range(grants) => g \in Grants!Range(grants)'
      <4>1. now < g.exp => ~(sweep.t >= g.exp)
        BY <1>0
      <4> QED
        BY <2>3, <4>1 DEF Grants!Range, Grants!Sweep, Grants!Dropped, Grants!Restrict
    <3> QED
      BY <1>2, <1>4, <2>3, <3>1, <3>2 DEF Kept
  <2> QED
    BY <1>0, <1>4, <2>2, <2>3, OnlySweepDrops
<1> QED
  BY <1>1, <1>3, <1>4

\* The knock that puts a record finds it in the store, and nobody can have
\* shown its cookie yet.
LEMMA KeptAtPut ==
    ASSUME NonceInv, DeviceInv, [Next]_vars, NEW q \in Request, PutGrant(q), NEW g \in req'[q].g
    PROVE  Kept(q, g)'
<1>0. Control
  BY DEF NonceInv
<1>1. PICK h : h = OldHash(req[q].in.cookie)
  OBVIOUS
<1>2. /\ req[q].pc = "put" /\ g = KnockGrant(q, req[q]) /\ Grants!Put(g, h)
      /\ req'[q].in = req[q].in
  BY <1>0, <1>1, PutGrantEffect DEF Control
<1>3. g \in Grants!Range(grants)'
  BY <1>2, PutLeaves DEF Grants!Range
<1>4. /\ req[q].out = "" /\ Active(q) /\ ask[q] = "respond"
      /\ q # Grants!NoCookie /\ q \notin Shown
  <2>1. req[q].out = "" /\ Active(q) /\ ask[q] = "respond"
    BY <1>0, <1>2 DEF Control, LabelOf, Knocking, Active
  <2>2. q # Grants!NoCookie
    BY AuthorizerAssumption DEF Grants!NoCookie
  <2> QED
    BY <2>1, <2>2 DEF Shown, HandedOut
<1>5. ASSUME NEW r \in Request, ask'[r] = "respond", req'[r].out = "granted"
      PROVE  req'[r].in.cookie # q
  <2>1. UNCHANGED ask
    BY <1>0, DoneKept
  <2>2. CASE req[r].out = "granted"
    <3>1. req'[r] = req[r] /\ req[r].in.cookie \in Shown
      BY <1>0, <1>5, <2>1, <2>2, DoneKept DEF Control, DeviceInv, Holding
    <3> QED
      BY <1>4, <3>1
  <2>3. CASE req[r].out # "granted"
    <3>1. PutGrant(r)
      BY <1>0, <1>5, <2>1, <2>3, OnlyPutAnswers
    <3>2. req[r].pc = "put" /\ req'[r].in = req[r].in /\ Active(r)
      BY <1>0, <3>1, PutGrantEffect DEF Control, Active
    <3>3. req[r].in.cookie \in Shown
      BY <1>5, <2>1, <3>2 DEF DeviceInv, Holding
    <3> QED
      BY <1>4, <3>2, <3>3
  <2> QED
    BY <2>2, <2>3
<1> QED
  BY <1>3, <1>5 DEF Kept, Superseded

\* The process is replaced by the next one only.
LEMMA EpochStep ==
    ASSUME Control, [Next]_vars
    PROVE  epoch' = epoch \/ epoch' = epoch + 1
<1>1. ASSUME NEW p \in Request, Arrive(p) PROVE UNCHANGED epoch
  BY <1>1, ArriveKeeps DEF Control, ArriveFrame
<1>2. ASSUME NEW p \in Request, Handle(p) PROVE UNCHANGED epoch
  BY <1>2, HandleKeeps DEF HandleFrame
<1>3. CASE Sweeper
  BY <1>3, SweeperKeeps DEF SweeperFrame
<1>4. CASE \E c \in DOMAIN Configs : Reload(c) \/ Restart(c)
  BY <1>4 DEF Reload, Restart
<1>5. CASE Tick \/ UNCHANGED vars
  BY <1>5 DEF Tick, vars
<1> QED
  BY <1>1, <1>2, <1>3, <1>4, <1>5 DEF Next

\* Every step preserves DeviceInv.
LEMMA DeviceStep ==
    ASSUME Grants!KeysUnambiguous, NonceInv, NonceInv', DeviceInv, [Next]_vars
    PROVE  DeviceInv'
<1>1. \A p \in Request : Holding(p)'
  BY HoldingStep DEF DeviceInv
<1>2. AllFiled'
  BY FiledStep
<1>3. ASSUME NEW q \in Request, NEW g \in req'[q].g,
             ask'[q] = "respond", g.binding = Grants!BindingIPCookie, epoch' = 0,
             \A r \in Request : ask'[r] \notin {"adminRevoke", "adminRevokeToken"}
      PROVE  Kept(q, g)'
  <2>0. Control /\ UNCHANGED ask /\ epoch \in Nat
    BY DoneKept DEF NonceInv, NonceTypes
  <2>1. CASE PutGrant(q)
    BY <2>1, KeptAtPut
  <2>2. CASE ~PutGrant(q)
    <3>1. req'[q].out = "granted"
      BY <1>1, <1>3 DEF Holding, Knocked
    <3>2. req[q].out = "granted"
      BY <1>3, <2>0, <2>2, <3>1, OnlyPutAnswers
    <3>3. req'[q] = req[q]
      BY <2>0, <3>2, DoneKept DEF Control
    <3>4. Knocked(q, g)
      BY <1>3, <2>0, <3>3 DEF DeviceInv, Holding
    <3>5. epoch = 0
      <4>1. epoch' = epoch \/ epoch' = epoch + 1
        BY <2>0, EpochStep
      <4> QED
        BY <1>3, <2>0, <4>1
    <3>6. Kept(q, g)
      BY <1>3, <2>0, <3>3, <3>5 DEF DeviceInv, OneRecordPerDevice, Kept
    <3> QED
      BY <1>3, <2>0, <3>4, <3>6, KeptStep
  <2> QED
    BY <2>1, <2>2
<1>4. OneRecordPerDevice'
  BY <1>3 DEF OneRecordPerDevice, Kept
<1> QED
  BY <1>1, <1>2, <1>4 DEF DeviceInv

\* With ip+cookie binding the store holds one record per device, when no two
\* slots share a key: a live record is there until the browser's next knock,
\* and is gone after it.
THEOREM DeviceRecords ==
    ASSUME Grants!KeysUnambiguous
    PROVE  Spec => []OneRecordPerDevice
<1>1. Init => DeviceInv
  <2> SUFFICES ASSUME Init PROVE DeviceInv
    OBVIOUS
  <2>1. /\ req = [p \in Request |-> Idle] /\ grants = <<>>
    BY DEF Init, Grants!GrantStoreInit
  <2>2. \A p \in Request : req[p].pc = "idle" /\ req[p].g = {} /\ req[p].out = ""
    BY <2>1 DEF Idle
  <2>3. DOMAIN grants = {}
    BY <2>1
  <2> QED
    BY <2>2, <2>3 DEF DeviceInv, Holding, Active, AllFiled, OneRecordPerDevice
<1>2. NonceInv /\ NonceInv' /\ DeviceInv /\ [Next]_vars => DeviceInv'
  BY DeviceStep
<1>3. DeviceInv => OneRecordPerDevice
  BY DEF DeviceInv
<1> QED
  BY <1>1, <1>2, <1>3, NonceInvariant, PTL DEF Spec

-----------------------------------------------------------------------------
(* TypeOK *)

\* The key of a grant is a sequence of segments and hashes.
LEMMA KeyTyped ==
    ASSUME NEW g \in Grants!Grant
    PROVE  Grants!keyFor(g) \in Grants!Key
<1>1. /\ g.service \in Seq(Segment \cup Grants!Hash) /\ g.ip \in Seq(Segment \cup Grants!Hash)
      /\ g.cookieHash \in Grants!Hash \cup {Grants!NoHash}
  <2>1. g.service \in Service /\ g.ip \in IP /\ g.cookieHash \in Grants!Hash \cup {Grants!NoHash}
    BY DEF Grants!Grant
  <2>2. g.service \in Seq(Segment) /\ g.ip \in Seq(Segment)
    BY <2>1, TypesAssumption
  <2> QED BY <2>1, <2>2
<1>2. Grants!GrantKey(g.service, g.ip) \in Grants!Key
  BY <1>1 DEF Grants!GrantKey, Grants!Key
<1>3. g.cookieHash # Grants!NoHash
        => Grants!GrantKeyCookie(g.service, g.ip, g.cookieHash) \in Grants!Key
  BY <1>1 DEF Grants!GrantKeyCookie, Grants!Key
<1> QED
  BY <1>2, <1>3 DEF Grants!keyFor

\* unindexLocked leaves an index of kids and keys.
LEMMA UnindexTyped ==
    ASSUME Grants!GrantStoreTypeOK, NEW gone
    PROVE  LET idx == Grants!unindexLocked(byKid, gone)
           IN  /\ DOMAIN idx \subseteq Kid /\ idx \in [DOMAIN idx -> SUBSET Grants!Key]
  BY DEF Grants!GrantStoreTypeOK, Grants!unindexLocked, Grants!Restrict

\* Put of a grant keeps the types of the store.
LEMMA PutTyped ==
    ASSUME Grants!GrantStoreTypeOK, NEW g \in Grants!Grant, NEW h, Grants!Put(g, h)
    PROVE  Grants!GrantStoreTypeOK'
<1> DEFINE k == Grants!keyFor(g)
           gone == Grants!Retired(g, h) \cup ({k} \cap DOMAIN grants)
           idx == Grants!unindexLocked(byKid, gone)
<1>1. k \in Grants!Key /\ g.kid \in Kid
  BY KeyTyped DEF Grants!Grant
<1>2. DOMAIN idx \subseteq Kid /\ idx \in [DOMAIN idx -> SUBSET Grants!Key]
  BY UnindexTyped
<1>3. /\ grants' = [ x \in (DOMAIN grants \ Grants!Retired(g, h)) \cup {k} |->
                      IF x = k THEN g ELSE grants[x] ]
      /\ byKid' = [ kid \in DOMAIN idx \cup {g.kid} |->
                      (IF kid \in DOMAIN idx THEN idx[kid] ELSE {})
                        \cup (IF kid = g.kid THEN {k} ELSE {}) ]
  BY DEF Grants!Put
<1> HIDE DEF k, idx
<1>4. DOMAIN grants' \subseteq Grants!Key /\ grants' \in [DOMAIN grants' -> Grants!Grant]
  BY <1>1, <1>3 DEF Grants!GrantStoreTypeOK
<1>5. DOMAIN byKid' \subseteq Kid /\ byKid' \in [DOMAIN byKid' -> SUBSET Grants!Key]
  <2>1. DOMAIN byKid' = DOMAIN idx \cup {g.kid}
    BY <1>3
  <2>2. \A kid \in DOMAIN byKid' : byKid'[kid] \subseteq Grants!Key
    BY <1>1, <1>2, <1>3
  <2> QED BY <1>1, <1>2, <1>3, <2>1, <2>2
<1> QED
  BY <1>4, <1>5 DEF Grants!GrantStoreTypeOK

\* Revocation and sweep keep them.
LEMMA DropTyped ==
    ASSUME Grants!GrantStoreTypeOK,
           \/ \E s, i : Grants!Revoke(s, i)
           \/ \E kid : Grants!RevokeToken(kid)
           \/ \E t : Grants!Sweep(t)
    PROVE  Grants!GrantStoreTypeOK'
<1>1. ASSUME NEW gone, grants' = Grants!Dropped(grants, gone)
      PROVE  DOMAIN grants' \subseteq Grants!Key /\ grants' \in [DOMAIN grants' -> Grants!Grant]
  BY <1>1 DEF Grants!GrantStoreTypeOK, Grants!Dropped, Grants!Restrict
<1>2. ASSUME NEW gone, grants' = Grants!Dropped(grants, gone),
             byKid' = Grants!unindexLocked(byKid, gone)
      PROVE  Grants!GrantStoreTypeOK'
  BY <1>1, <1>2, UnindexTyped DEF Grants!GrantStoreTypeOK
<1>3. ASSUME NEW kid, Grants!RevokeToken(kid) PROVE Grants!GrantStoreTypeOK'
  <2>1. /\ grants' = Grants!Dropped(grants, IF kid \in DOMAIN byKid THEN byKid[kid] ELSE {})
        /\ byKid' = Grants!Dropped(byKid, {kid})
    BY <1>3 DEF Grants!RevokeToken
  <2>2. DOMAIN byKid' \subseteq Kid /\ byKid' \in [DOMAIN byKid' -> SUBSET Grants!Key]
    BY <2>1 DEF Grants!GrantStoreTypeOK, Grants!Dropped, Grants!Restrict
  <2> QED BY <1>1, <2>1, <2>2 DEF Grants!GrantStoreTypeOK
<1>4. ASSUME NEW s, NEW i, Grants!Revoke(s, i) PROVE Grants!GrantStoreTypeOK'
  BY <1>2, <1>4 DEF Grants!Revoke
<1>5. ASSUME NEW t, Grants!Sweep(t) PROVE Grants!GrantStoreTypeOK'
  BY <1>2, <1>5 DEF Grants!Sweep
<1> QED
  BY <1>3, <1>4, <1>5

\* What a step of p's handler reads into its locals.
Reads(p) ==
    /\ req'[p].pc \in Labels
    /\ req'[p].t \in {req[p].t, now, 0}
    /\ req'[p].svc \in {req[p].svc, cfg, ""}
    /\ req'[p].cfg \in {req[p].cfg, cfg, ""} /\ req'[p].reg \in {req[p].reg, cfg, ""}
    /\ req'[p].seen \in {req[p].seen, {cfg}, {}}
    /\ req'[p].pc \in {"claim", "put", "grantPut"} =>
         req'[p].reg = cfg \/ (req[p].pc = "claim" /\ req'[p].reg = req[p].reg)
    /\ req'[p].pc \in Granting \cup {"codePut"} =>
         req'[p].cfg = cfg \/ (req[p].pc \in Granting /\ req'[p].cfg = req[p].cfg)

\* A handler that returns forgets its locals.
LEMMA AnswerReads ==
    ASSUME Shape, NEW p \in Request, NEW r, NEW out, Answer(p, r, out), UNCHANGED ask,
           r.t \in {req[p].t, 0}, r.seen \in {req[p].seen, {cfg}}
    PROVE  Reads(p)
<1> DEFINE a == [ Idle EXCEPT !.pc = "done", !.in = r.in, !.g = r.g, !.out = out,
                              !.t = IF out = "allow" THEN r.t ELSE 0,
                              !.seen = IF out = "allow" THEN r.seen ELSE {} ]
<1>1. /\ DOMAIN a = DOMAIN Idle
      /\ a.pc = "done" /\ a.svc = "" /\ a.cfg = "" /\ a.reg = ""
      /\ a.t \in {r.t, 0} /\ a.seen \in {r.seen, {}}
  BY DEF Idle
<1>2. Goto(p, a)
  BY DEF Answer
<1> HIDE DEF a
<1>3. req'[p] = a
  BY <1>1, <1>2, GotoEffect
<1> QED
  BY <1>1, <1>3 DEF Reads, Labels, Granting

\* A refused request holds nothing it read.
LEMMA DenyReads ==
    ASSUME Shape, NEW p \in Request, Deny(p), UNCHANGED ask
    PROVE  Reads(p)
<1> DEFINE a == [Idle EXCEPT !.pc = "done", !.out = "deny"]
<1>1. /\ DOMAIN a = DOMAIN Idle
      /\ a.pc = "done" /\ a.svc = "" /\ a.cfg = "" /\ a.reg = "" /\ a.t = 0 /\ a.seen = {}
  BY DEF Idle
<1>2. Goto(p, a)
  BY DEF Deny
<1> HIDE DEF a
<1>3. req'[p] = a
  BY <1>1, <1>2, GotoEffect
<1> QED
  BY <1>1, <1>3 DEF Reads, Labels, Granting

\* A request that comes in reads the config at most.
LEMMA ArriveReads ==
    ASSUME Shape, NEW p \in Request, Arrive(p)
    PROVE  Reads(p)
<1>1. UNCHANGED ask
  BY DEF Arrive, Resolve, AdminGrantConfig, AdminRevoke, AdminRevokeToken, AdminCodeLookup
<1>2. CASE Resolve(p)
  <2>1. ASSUME NEW in, NEW l \in {"config", "throttle"},
               Goto(p, [[Begin(in) EXCEPT !.svc = cfg] EXCEPT !.pc = l])
        PROVE  Reads(p)
    <3>1. /\ req'[p].pc = l /\ req'[p].t = 0 /\ req'[p].svc = cfg
          /\ req'[p].cfg = "" /\ req'[p].reg = "" /\ req'[p].seen = {cfg}
      BY <2>1 DEF Shape, Goto, Begin, Idle
    <3> QED BY <3>1 DEF Reads, Labels, Granting
  <2> QED BY <1>1, <1>2, <2>1, DenyReads DEF Resolve
<1>3. CASE AdminGrantConfig(p)
  <2>1. PICK in : Goto(p, [Begin(in) EXCEPT !.pc = "grantClock", !.cfg = cfg])
    BY <1>3 DEF AdminGrantConfig
  <2>2. /\ req'[p].pc = "grantClock" /\ req'[p].t = 0 /\ req'[p].svc = ""
        /\ req'[p].cfg = cfg /\ req'[p].reg = "" /\ req'[p].seen = {cfg}
    BY <2>1 DEF Shape, Goto, Begin, Idle
  <2> QED BY <2>2 DEF Reads, Labels, Granting
<1>4. CASE AdminRevoke(p) \/ AdminRevokeToken(p)
  <2>1. PICK in : Answer(p, Begin(in), "revoked")
    BY <1>4 DEF AdminRevoke, AdminRevokeToken
  <2>2. Begin(in).t = 0 /\ Begin(in).seen = {cfg}
    BY DEF Begin, Idle
  <2> QED BY <1>1, <2>1, <2>2, AnswerReads
<1>5. CASE AdminCodeLookup(p)
  <2>1. ASSUME NEW in, Goto(p, [Begin(in) EXCEPT !.pc = "codeConfig"])
        PROVE  Reads(p)
    <3>1. /\ req'[p].pc = "codeConfig" /\ req'[p].t = 0 /\ req'[p].svc = ""
          /\ req'[p].cfg = "" /\ req'[p].reg = "" /\ req'[p].seen = {cfg}
      BY <2>1 DEF Shape, Goto, Begin, Idle
    <3> QED BY <3>1 DEF Reads, Labels, Granting
  <2> QED BY <1>1, <1>5, <2>1, DenyReads DEF AdminCodeLookup
<1> QED
  BY <1>2, <1>3, <1>4, <1>5 DEF Arrive

\* A step of a handler reads the clock, the config or the registry.
LEMMA HandleReads ==
    ASSUME Control, NEW p \in Request, Handle(p)
    PROVE  Reads(p)
<1>0. Shape /\ UNCHANGED ask
  BY DoneKept DEF Control, Next
<1>1. ASSUME NEW g, NEW out, Answer(p, [req[p] EXCEPT !.g = g], out) PROVE Reads(p)
  <2> DEFINE r == [req[p] EXCEPT !.g = g]
  <2>1. r.t = req[p].t /\ r.seen = req[p].seen
    BY <1>0 DEF Shape, Idle
  <2> HIDE DEF r
  <2> QED BY <1>0, <1>1, <2>1, AnswerReads DEF r
<1>2. ASSUME NEW out, Answer(p, req[p], out) PROVE Reads(p)
  BY <1>0, <1>2, AnswerReads
<1>3. ASSUME NEW l \in Labels \ (Granting \cup {"claim", "codePut"}), l = "put" => req[p].pc = "claim",
             Goto(p, [req[p] EXCEPT !.pc = l])
      PROVE  Reads(p)
  <2>1. /\ req'[p].pc = l /\ req'[p].t = req[p].t /\ req'[p].cfg = req[p].cfg
        /\ req'[p].reg = req[p].reg /\ req'[p].svc = req[p].svc /\ req'[p].seen = req[p].seen
    BY <1>0, <1>3, PcEffect DEF Advances
  <2> QED BY <1>3, <2>1 DEF Reads, Granting
<1>4. ASSUME NEW l \in Labels \ {"claim", "put", "grantPut", "codePut"},
             l \in Granting => req[p].pc \in Granting,
             Goto(p, [req[p] EXCEPT !.pc = l, !.t = now])
      PROVE  Reads(p)
  <2>1. /\ req'[p].pc = l /\ req'[p].t = now /\ req'[p].cfg = req[p].cfg
        /\ req'[p].reg = req[p].reg /\ req'[p].svc = req[p].svc /\ req'[p].seen = req[p].seen
    <3>1. Goto(p, [req[p] EXCEPT !.pc = l, !.t = now])
      BY <1>4
    <3> QED BY ONLY <1>0, <3>1 DEF Shape, Goto, Idle
  <2> QED BY <1>4, <2>1 DEF Reads, Granting
<1>5. ASSUME NEW l \in Labels \ {"codePut"},
             l \in Granting => req[p].pc \in Granting,
             Goto(p, [req[p] EXCEPT !.pc = l, !.reg = cfg])
      PROVE  Reads(p)
  <2>1. /\ req'[p].pc = l /\ req'[p].t = req[p].t /\ req'[p].cfg = req[p].cfg
        /\ req'[p].reg = cfg /\ req'[p].svc = req[p].svc /\ req'[p].seen = req[p].seen
    <3>1. Goto(p, [req[p] EXCEPT !.pc = l, !.reg = cfg])
      BY <1>5
    <3> QED BY ONLY <1>0, <3>1 DEF Shape, Goto, Idle
  <2> QED BY <1>5, <2>1 DEF Reads, Granting
<1>6. ASSUME NEW l \in Labels \ {"claim", "put", "grantPut"},
             Goto(p, [req[p] EXCEPT !.pc = l, !.cfg = cfg])
      PROVE  Reads(p)
  <2>1. /\ req'[p].pc = l /\ req'[p].t = req[p].t /\ req'[p].cfg = cfg
        /\ req'[p].reg = req[p].reg /\ req'[p].svc = req[p].svc /\ req'[p].seen = req[p].seen
    <3>1. Goto(p, [req[p] EXCEPT !.pc = l, !.cfg = cfg])
      BY <1>6
    <3> QED BY ONLY <1>0, <3>1 DEF Shape, Goto, Idle
  <2> QED BY <1>6, <2>1 DEF Reads
<1>7. Deny(p) => Reads(p)
  BY <1>0, DenyReads
<1>8. /\ {"lookup", "consume", "deliver", "put"} \subseteq Labels \ (Granting \cup {"claim", "codePut"})
      /\ {"proof", "check", "grantLookup"} \subseteq Labels \ {"claim", "put", "grantPut", "codePut"}
      /\ {"claim", "clock", "grantPut"} \subseteq Labels \ {"codePut"}
      /\ {"mint", "nonce", "peek", "registry", "codePut"}
           \subseteq Labels \ {"claim", "put", "grantPut"}
      /\ {"lookup", "consume", "deliver", "put", "proof", "check", "claim", "clock"} \cap Granting = {}
      /\ {"grantLookup", "grantPut", "grantClock"} = Granting
  BY DEF Labels, Granting
<1>9. CASE Throttle(p)
  <2>1. ask[p] \in Protocol
    BY <1>9 DEF Throttle, At, Control, LabelOf
  <2>2. AfterThrottle[ask[p]] \in {"mint", "nonce", "peek"}
    BY <2>1 DEF Protocol, AfterThrottle
  <2> QED BY <1>6, <1>7, <1>8, <1>9, <2>2 DEF Throttle
<1>10. CASE IssueNonce(p)
  BY <1>2, <1>10 DEF IssueNonce
<1>11. CASE CheckNonce(p)
  BY <1>4, <1>7, <1>8, <1>11 DEF CheckNonce
<1>12. CASE CheckProof(p)
  BY <1>5, <1>7, <1>8, <1>12 DEF CheckProof
<1>13. CASE ClaimNonce(p)
  BY <1>3, <1>7, <1>8, <1>13 DEF ClaimNonce, At
<1>14. CASE PutGrant(p)
  BY <1>1, <1>14 DEF PutGrant
<1>15. CASE PeekCode(p)
  BY <1>3, <1>7, <1>8, <1>15 DEF PeekCode
<1>16. CASE LookupKid(p)
  BY <1>3, <1>7, <1>8, <1>16 DEF LookupKid
<1>17. CASE ConsumeCode(p)
  BY <1>3, <1>7, <1>8, <1>17 DEF ConsumeCode
<1>18. CASE DeliverSecret(p)
  BY <1>2, <1>7, <1>18 DEF DeliverSecret
<1>19. CASE AuthzConfig(p)
  BY <1>2, <1>6, <1>7, <1>8, <1>19 DEF AuthzConfig
<1>20. CASE AuthzRegistry(p)
  BY <1>5, <1>8, <1>20 DEF AuthzRegistry
<1>21. CASE AuthzClock(p)
  BY <1>4, <1>8, <1>21 DEF AuthzClock
<1>22. CASE AuthzCheck(p)
  BY <1>1, <1>7, <1>22 DEF AuthzCheck
<1>23. CASE AdminGrantClock(p)
  BY <1>4, <1>8, <1>23 DEF AdminGrantClock, At
<1>24. CASE AdminGrantLookup(p)
  BY <1>5, <1>8, <1>24 DEF AdminGrantLookup, At
<1>25. CASE AdminGrantPut(p)
  BY <1>1, <1>25 DEF AdminGrantPut
<1>26. CASE AdminCodeConfig(p)
  BY <1>6, <1>8, <1>26 DEF AdminCodeConfig
<1>27. CASE AdminCodePut(p)
  BY <1>2, <1>27 DEF AdminCodePut
<1> QED
  BY <1>9, <1>10, <1>11, <1>12, <1>13, <1>14, <1>15, <1>16, <1>17, <1>18, <1>19, <1>20,
     <1>21, <1>22, <1>23, <1>24, <1>25, <1>26, <1>27 DEF Handle

\* What the handlers that put something go by, besides Holding.
Local(p) ==
    /\ Active(p) /\ ask[p] \in {"respond", "adminGrant", "adminEnrollCode"} =>
         req[p].in.kid \in Kid
    /\ Active(p) /\ ask[p] \in {"adminGrant", "adminEnrollCode"} => req[p].in.ttl \in Int
    /\ req[p].pc \in {"claim", "put", "grantPut"} => req[p].reg \in DOMAIN Configs
    /\ req[p].pc \in Granting \cup {"codePut"} => req[p].cfg \in DOMAIN Configs

\* The types of a request.
Typed(p) ==
    /\ req[p].pc \in Labels /\ req[p].t \in Time
    /\ req[p].g \subseteq Grants!Grant
    /\ {req[p].svc, req[p].cfg, req[p].reg} \subseteq DOMAIN Configs \cup {""}
    /\ req[p].seen \subseteq DOMAIN Configs

TypeInv ==
    /\ NonceInv /\ TypeOK
    /\ \A p \in Request : Holding(p) /\ Local(p)

\* Every step leaves the handlers with inputs and configs of those types.
LEMMA LocalStep ==
    ASSUME TypeInv, [Next]_vars, NEW p \in Request
    PROVE  Local(p)'
<1>0. Control /\ UNCHANGED ask /\ cfg \in DOMAIN Configs /\ Local(p)
  BY DoneKept DEF TypeInv, NonceInv, NonceTypes
<1>1. CASE req'[p] = req[p]
  BY <1>0, <1>1 DEF Local, Active
<1>2. ASSUME Moves(p), Reads(p) PROVE Local(p)'
  <2>1. /\ \A in \in Inputs("respond") : in.kid \in Kid
        /\ \A in \in Inputs("adminGrant") : in.kid \in Kid /\ in.ttl \in AdminTTL
        /\ \A in \in Inputs("adminEnrollCode") : in.kid \in Kid /\ in.ttl \in AdminTTL
    BY DEF Inputs
  <2>2. AdminTTL \subseteq Int
    BY TypesAssumption
  <2>3. CASE Active(p)'
    <3>1. CASE req[p].pc = "idle"
      <4>1. req'[p].in \in Inputs(ask[p])
        BY <1>2, <2>3, <3>1 DEF Moves
      <4>2. /\ ask[p] \in {"respond", "adminGrant", "adminEnrollCode"} => req'[p].in.kid \in Kid
            /\ ask[p] \in {"adminGrant", "adminEnrollCode"} => req'[p].in.ttl \in Int
        BY <2>1, <2>2, <4>1
      <4>3. /\ req'[p].pc \in {"claim", "put", "grantPut"} => req'[p].reg = cfg
            /\ req'[p].pc \in Granting \cup {"codePut"} => req'[p].cfg = cfg
        BY <1>2, <3>1 DEF Reads, Granting
      <4> QED BY <1>0, <4>2, <4>3 DEF Local
    <3>2. CASE req[p].pc # "idle"
      <4>1. Active(p) /\ req'[p].in = req[p].in
        BY <1>2, <2>3, <3>2 DEF Moves, Active
      <4>2. /\ req'[p].pc \in {"claim", "put", "grantPut"} =>
                 req'[p].reg = cfg \/ (req[p].pc = "claim" /\ req'[p].reg = req[p].reg)
            /\ req'[p].pc \in Granting \cup {"codePut"} =>
                 req'[p].cfg = cfg \/ (req[p].pc \in Granting /\ req'[p].cfg = req[p].cfg)
        BY <1>2 DEF Reads
      <4> QED BY <1>0, <4>1, <4>2 DEF Local
    <3> QED BY <3>1, <3>2
  <2>4. CASE ~Active(p)'
    BY <2>4 DEF Local, Active, Granting
  <2> QED BY <2>3, <2>4
<1>3. ASSUME NEW q \in Request, Arrive(q) \/ Handle(q) PROVE Local(p)'
  <2>1. Moves(q) /\ Reads(q)
    BY <1>0, <1>3, ArriveMoves, HandleMoves, ArriveReads, HandleReads DEF Control
  <2> QED BY <1>1, <1>2, <2>1 DEF Moves, Alone
<1>4. CASE Sweeper
  BY <1>1, <1>4, SweeperKeeps DEF SweeperFrame
<1>5. ASSUME NEW c \in DOMAIN Configs, Reload(c) PROVE Local(p)'
  <2>1. /\ req'[p].pc = req[p].pc /\ req'[p].in = req[p].in
        /\ req'[p].cfg = req[p].cfg /\ req'[p].reg = req[p].reg
    BY <1>0, <1>5, ReloadEffect DEF Control
  <2> QED BY <1>0, <2>1 DEF Local, Active
<1>6. ASSUME NEW c \in DOMAIN Configs, Restart(c) PROVE Local(p)'
  <2>1. req'[p] = req[p] \/ req'[p].pc = "done"
    BY <1>0, <1>6, RestartEffect DEF Control
  <2> QED BY <1>1, <2>1 DEF Local, Active, Granting
<1>7. CASE Tick \/ UNCHANGED vars
  BY <1>1, <1>7 DEF Tick, vars
<1> QED
  BY <1>3, <1>4, <1>5, <1>6, <1>7 DEF Next

\* A fingerprint is none or that of a configured secret.
LEMMA FingerprintTyped ==
    ASSUME NEW c \in DOMAIN Configs, NEW kid
    PROVE  Fingerprint(RegistryOf(c), kid) \in FP
<1>1. CASE kid \in DOMAIN Configs[c].tokens
  <2>1. Configs[c].tokens[kid] \in Tokens
    BY <1>1 DEF Tokens, Range
  <2>2. Fingerprint(RegistryOf(c), kid) = SecretHash(Configs[c].tokens[kid].secret)
    BY <1>1 DEF Fingerprint, Known, RegistryOf
  <2> QED BY <2>1, <2>2 DEF FP
<1>2. CASE kid \notin DOMAIN Configs[c].tokens
  BY <1>2 DEF Fingerprint, Known, RegistryOf, FP
<1> QED
  BY <1>1, <1>2

\* What handleRespond and adminGrant put are grants: a binding that finalize
\* let through, an expiry, the fingerprint of a configured secret.
LEMMA PutsGrants ==
    ASSUME TypeInv, NEW p \in Request
    PROVE  /\ req[p].pc = "put" => KnockGrant(p, req[p]) \in Grants!Grant
           /\ req[p].pc = "grantPut" => HandGrant(req[p]) \in Grants!Grant
<1>0. Control /\ Holding(p) /\ Local(p) /\ req[p].t \in Nat
  <2>1. Control /\ Holding(p) /\ Local(p) /\ req[p].t \in Time
    BY DEF TypeInv, NonceInv, TypeOK
  <2>2. MaxTime \in Nat
    BY TypesAssumption
  <2> QED BY <2>1, <2>2 DEF Time
<1>1. ASSUME req[p].pc = "put" PROVE KnockGrant(p, req[p]) \in Grants!Grant
  <2> DEFINE g == KnockGrant(p, req[p])
             svc == Svc(req[p])
  <2>1. ask[p] = "respond" /\ Active(p)
    BY <1>0, <1>1 DEF Control, LabelOf, Knocking, Active
  <2>2. /\ req[p].in.service \in Service /\ req[p].in.ip \in IP /\ req[p].in.kid \in Kid
        /\ req[p].svc \in DOMAIN Configs /\ KnownService(req[p].svc, req[p].in.service)
        /\ req[p].cfg \in DOMAIN Configs /\ req[p].reg \in DOMAIN Configs
    BY <1>0, <1>1, <2>1 DEF Holding, Local
  <2>3. svc.grantTTL \in Int /\ Configs[req[p].cfg].grantTTL \in Nat
    BY <2>2, AuthorizerAssumption DEF Svc, KnownService
  <2>4. svc.binding \in {"", "ip", "ip+cookie"}
    BY <2>2, TypesAssumption DEF Svc, KnownService
  <2>5. req[p].t + grantTTL(req[p].cfg, svc) \in Nat
    <3> HIDE DEF svc
    <3> QED BY <1>0, <2>3 DEF grantTTL
  <2>6. binding(svc) \in {Grants!BindingIP, Grants!BindingIPCookie}
    <3> HIDE DEF svc
    <3> QED BY <2>4 DEF binding, Grants!BindingIP, Grants!BindingIPCookie
  <2>7. Grants!CookieHash(p) \in Grants!Hash
    BY DEF Grants!Hash, Cookie
  <2>8. Fingerprint(RegistryOf(req[p].reg), req[p].in.kid) \in FP
    BY <2>2, FingerprintTyped
  <2> HIDE DEF svc
  <2>9. KnockGrant(p, req[p]) =
          [ kid |-> req[p].in.kid, service |-> req[p].in.service, ip |-> req[p].in.ip,
            binding |-> binding(svc),
            cookieHash |-> IF binding(svc) = Grants!BindingIPCookie
                           THEN Grants!CookieHash(p) ELSE Grants!NoHash,
            exp |-> req[p].t + grantTTL(req[p].cfg, svc), manual |-> FALSE,
            secretFP |-> Fingerprint(RegistryOf(req[p].reg), req[p].in.kid) ]
    BY DEF KnockGrant, svc
  <2> QED
    BY <2>2, <2>5, <2>6, <2>7, <2>8, <2>9 DEF Grants!Grant
<1>2. ASSUME req[p].pc = "grantPut" PROVE HandGrant(req[p]) \in Grants!Grant
  <2>1. ask[p] = "adminGrant" /\ Active(p)
    BY <1>0, <1>2 DEF Control, LabelOf, Granting, Active
  <2>2. /\ req[p].in.service \in Service /\ req[p].in.ip \in IP /\ req[p].in.kid \in Kid
        /\ req[p].in.ttl \in Int
        /\ req[p].cfg \in DOMAIN Configs /\ req[p].reg \in DOMAIN Configs
    BY <1>0, <1>2, <2>1 DEF Holding, Local, Granting
  <2>3. Configs[req[p].cfg].grantTTL \in Nat
    BY <2>2, AuthorizerAssumption
  <2>4. req[p].t + AdminTTLFor(req[p]) \in Nat
    BY <1>0, <2>2, <2>3 DEF AdminTTLFor
  <2>5. Fingerprint(RegistryOf(req[p].reg), req[p].in.kid) \in FP
    BY <2>2, FingerprintTyped
  <2>6. (req[p].in.kid = ManualKid) \in BOOLEAN
    OBVIOUS
  <2> QED
    BY <2>2, <2>4, <2>5, <2>6 DEF HandGrant, Grants!Grant
<1> QED
  BY <1>1, <1>2

\* The clock, the config and the process keep their types.
LEMMA ClockTyped ==
    ASSUME TypeInv, [Next]_vars
    PROVE  now' \in Time /\ cfg' \in DOMAIN Configs /\ epoch' \in 0..MaxRestarts
           /\ now <= now' /\ epoch <= epoch'
<1>0. /\ now \in Time /\ cfg \in DOMAIN Configs /\ epoch \in 0..MaxRestarts
      /\ now \in Nat /\ epoch \in Nat /\ Control
  BY DEF TypeInv, TypeOK, NonceInv, NonceTypes
<1>1. MaxTime \in Nat /\ MaxRestarts \in Nat
  BY TypesAssumption
<1>2. CASE UNCHANGED <<now, cfg, epoch>>
  BY <1>0, <1>2
<1>3. ASSUME NEW p \in Request, Arrive(p) \/ Handle(p) PROVE UNCHANGED <<now, cfg, epoch>>
  BY <1>0, <1>3, ArriveKeeps, HandleKeeps DEF Control, ArriveFrame, HandleFrame
<1>4. CASE Sweeper \/ UNCHANGED vars
  BY <1>2, <1>4, SweeperKeeps DEF SweeperFrame, vars
<1>5. ASSUME NEW c \in DOMAIN Configs, Reload(c) \/ Restart(c)
      PROVE  /\ cfg' \in DOMAIN Configs /\ epoch' \in 0..MaxRestarts
             /\ now' = now /\ epoch <= epoch'
  BY <1>0, <1>1, <1>5 DEF Reload, Restart
<1>6. CASE Tick
  BY <1>0, <1>1, <1>6 DEF Tick, Time
<1> QED
  BY <1>0, <1>2, <1>3, <1>4, <1>5, <1>6 DEF Next

\* So does the grant store.
LEMMA GrantsTyped ==
    ASSUME TypeInv, [Next]_vars
    PROVE  Grants!GrantStoreTypeOK'
<1>0. Grants!GrantStoreTypeOK /\ Control
  BY DEF TypeInv, TypeOK, NonceInv
<1>1. CASE UNCHANGED <<grants, byKid>>
  BY <1>0, <1>1 DEF Grants!GrantStoreTypeOK
<1>2. ASSUME NEW p \in Request, Arrive(p) PROVE Grants!GrantStoreTypeOK'
  <2>1. CASE Resolve(p) \/ AdminGrantConfig(p) \/ AdminCodeLookup(p)
    BY <1>1, <2>1 DEF Resolve, AdminGrantConfig, AdminCodeLookup, stores
  <2>2. CASE AdminRevoke(p) \/ AdminRevokeToken(p)
    BY <1>0, <2>2, DropTyped DEF AdminRevoke, AdminRevokeToken
  <2> QED BY <1>2, <2>1, <2>2 DEF Arrive
<1>3. ASSUME NEW p \in Request, Handle(p) PROVE Grants!GrantStoreTypeOK'
  <2>1. CASE PutGrant(p)
    BY <1>0, <2>1, PutGrantEffect, PutsGrants, PutTyped DEF Control
  <2>2. CASE AdminGrantPut(p)
    BY <1>0, <2>2, AdminGrantPutEffect, PutsGrants, PutTyped DEF Control
  <2> QED BY <1>1, <1>3, <2>1, <2>2, HandleKeeps DEF HandleFrame
<1>4. CASE Sweeper
  <2>1. CASE SweepGrants
    BY <1>0, <2>1, DropTyped DEF SweepGrants
  <2>2. CASE ~SweepGrants
    BY <1>1, <1>4, <2>2 DEF Sweeper, SweepStart, SweepNonces, SweepCodes, SweepLimiter, stores
  <2> QED BY <2>1, <2>2
<1>5. ASSUME NEW c \in DOMAIN Configs, Restart(c) PROVE Grants!GrantStoreTypeOK'
  <2>1. grants' = <<>> /\ byKid' = <<>>
    BY <1>5 DEF Restart
  <2>2. DOMAIN grants' = {} /\ DOMAIN byKid' = {}
    BY <2>1
  <2> QED BY <2>1, <2>2 DEF Grants!GrantStoreTypeOK
<1>6. ASSUME NEW c \in DOMAIN Configs, Reload(c) PROVE Grants!GrantStoreTypeOK'
  BY <1>1, <1>6 DEF Reload, stores
<1>7. CASE Tick \/ UNCHANGED vars
  BY <1>1, <1>7 DEF Tick, vars, stores
<1> QED
  BY <1>2, <1>3, <1>4, <1>5, <1>6, <1>7 DEF Next

\* A nonce is dated by the clock of the process that minted it, and what is
\* spent was minted.
LEMMA NoncesTyped ==
    ASSUME TypeInv, NonceInv', [Next]_vars
    PROVE  /\ DOMAIN spent' \subseteq DOMAIN minted' /\ \A n \in DOMAIN spent' : spent'[n] \in Nat
           /\ \A n \in DOMAIN minted' : minted'[n].ts \in Time /\ minted'[n].epoch \in 0..epoch'
<1>0. /\ Control /\ now \in Time /\ epoch \in Nat
      /\ DOMAIN spent \subseteq DOMAIN minted
      /\ \A n \in DOMAIN minted : minted[n].ts \in Time /\ minted[n].epoch \in 0..epoch
  BY DEF TypeInv, TypeOK, NonceInv, NonceTypes
<1>1. \A n \in DOMAIN spent' : spent'[n] \in Nat
  BY DEF NonceInv, NonceTypes
<1>2. DOMAIN minted \subseteq DOMAIN minted'
  BY <1>0, MintedKept
<1>3. \A n \in DOMAIN minted' : minted'[n].ts \in Time
  <2>1. CASE UNCHANGED minted
    BY <1>0, <2>1
  <2>2. ASSUME NEW p \in Request, IssueNonce(p) PROVE \A n \in DOMAIN minted' : minted'[n].ts \in Time
    BY <1>0, <2>2, IssueNonceEffect DEF Control
  <2>3. UNCHANGED minted \/ \E p \in Request : IssueNonce(p)
    BY <1>0, ArriveKeeps, HandleKeeps, SweeperKeeps
    DEF Control, Next, ArriveFrame, HandleFrame, SweeperFrame, Reload, Restart, Tick, vars
  <2> QED BY <2>1, <2>2, <2>3
<1>4. \A n \in DOMAIN minted' : minted'[n].epoch \in 0..epoch'
  BY DEF NonceInv, NonceTypes
<1>5. DOMAIN spent' \subseteq DOMAIN minted'
  <2>1. CASE DOMAIN spent' \subseteq DOMAIN spent
    BY <1>0, <1>2, <2>1
  <2>2. ASSUME NEW p \in Request, ClaimNonce(p) PROVE DOMAIN spent' \subseteq DOMAIN minted'
    <3>1. req[p].pc = "claim"
      BY <2>2 DEF ClaimNonce, At
    <3>2. req[p].in.nonce \in DOMAIN minted
      BY <1>0, <3>1, NonceOf DEF Knocking
    <3>3. DOMAIN spent' \subseteq DOMAIN spent \cup {req[p].in.nonce}
      BY <2>2 DEF ClaimNonce, Nonces!Claim
    <3> QED BY <1>0, <1>2, <3>2, <3>3
  <2>3. ASSUME NEW p \in Request, Arrive(p) \/ Handle(p)
        PROVE  DOMAIN spent' \subseteq DOMAIN spent \/ ClaimNonce(p)
    BY <1>0, <2>3, ArriveKeeps, HandleKeeps DEF Control, ArriveFrame, HandleFrame
  <2>4. CASE Sweeper
    BY <2>1, <2>4, SweeperKeeps DEF SweeperFrame, Nonces!Sweep, Nonces!Restrict
  <2>5. ASSUME NEW c \in DOMAIN Configs, Reload(c) \/ Restart(c)
        PROVE  DOMAIN spent' \subseteq DOMAIN spent
    <3>1. spent' = <<>> \/ UNCHANGED spent
      BY <2>5 DEF Reload, Restart, stores
    <3> QED BY <3>1
  <2>6. CASE Tick \/ UNCHANGED vars
    BY <2>1, <2>6 DEF Tick, vars, stores
  <2> QED BY <2>1, <2>2, <2>3, <2>4, <2>5, <2>6 DEF Next
<1> QED
  BY <1>1, <1>3, <1>4, <1>5

\* A code names a kid and expires within the clamp of adminEnrollCode.
LEMMA CodesTyped ==
    ASSUME TypeInv, [Next]_vars
    PROVE  \A c \in DOMAIN codes' : codes'[c].kid \in Kid /\ codes'[c].exp \in Nat
<1> DEFINE Good(store) == \A c \in DOMAIN store : store[c].kid \in Kid /\ store[c].exp \in Nat
<1>0. /\ Control /\ now \in Nat /\ Good(codes)
      /\ MinEnrollTTL \in Nat /\ MaxEnrollTTL \in Nat
  BY TypesAssumption DEF TypeInv, TypeOK, NonceInv, NonceTypes
<1>1. CASE UNCHANGED codes
  BY <1>0, <1>1
<1>2. ASSUME NEW S, codes' = Codes!Restrict(codes, S), S \subseteq DOMAIN codes PROVE Good(codes')
  BY <1>0, <1>2 DEF Codes!Restrict
<1>3. ASSUME NEW p \in Request, AdminCodePut(p) PROVE Good(codes')
  <2> DEFINE r == req[p]
             ttl == IF r.in.ttl > 0 THEN r.in.ttl ELSE Configs[r.cfg].enrollTTL
  <2>1. r.pc = "codePut" /\ Codes!Put(p, r.in.kid, now + Clamp(ttl))
    BY <1>3 DEF AdminCodePut, At
  <2>2. ask[p] = "adminEnrollCode" /\ Active(p) /\ Local(p)
    BY <1>0, <2>1 DEF Control, LabelOf, Coding, Active, TypeInv
  <2>3. r.in.kid \in Kid /\ r.in.ttl \in Int /\ r.cfg \in DOMAIN Configs
    BY <2>1, <2>2 DEF Local
  <2>4. ttl \in Int
    BY <2>3, TypesAssumption
  <2> HIDE DEF ttl
  <2>5. now + Clamp(ttl) \in Nat
    BY <1>0, <2>4 DEF Clamp
  <2>6. codes' = [ x \in DOMAIN codes \cup {p} |->
                     IF x = p THEN [kid |-> r.in.kid, exp |-> now + Clamp(ttl)] ELSE codes[x] ]
    BY <2>1 DEF Codes!Put
  <2> QED BY <1>0, <2>3, <2>5, <2>6
<1>4. ASSUME NEW p \in Request, ConsumeCode(p) PROVE Good(codes')
  BY <1>2, <1>4 DEF ConsumeCode, Codes!Consume
<1>5. ASSUME NEW p \in Request, Arrive(p) \/ Handle(p) PROVE Good(codes')
  BY <1>0, <1>1, <1>3, <1>4, <1>5, ArriveKeeps, HandleKeeps DEF Control, ArriveFrame, HandleFrame
<1>6. CASE Sweeper
  <2>1. CASE SweepCodes
    BY <1>2, <2>1 DEF SweepCodes, Codes!Sweep
  <2>2. CASE ~SweepCodes
    BY <1>1, <1>6, <2>2 DEF Sweeper, SweepStart, SweepGrants, SweepNonces, SweepLimiter, stores
  <2> QED BY <2>1, <2>2
<1>7. ASSUME NEW c \in DOMAIN Configs, Reload(c) \/ Restart(c) PROVE Good(codes')
  <2>1. codes' = <<>> \/ UNCHANGED codes
    BY <1>7 DEF Reload, Restart, stores
  <2> QED BY <1>1, <2>1
<1>8. CASE Tick \/ UNCHANGED vars
  BY <1>1, <1>8 DEF Tick, vars, stores
<1> QED
  BY <1>5, <1>6, <1>7, <1>8 DEF Next

\* A window opens at a clock reading and counts its attempts.
LEMMA WindowsTyped ==
    ASSUME TypeInv, [Next]_vars
    PROVE  \A k \in DOMAIN window' : window'[k].start \in Time /\ window'[k].n \in Nat \ {0}
<1> DEFINE Good(table) == \A k \in DOMAIN table : table[k].start \in Time /\ table[k].n \in Nat \ {0}
<1>0. Control /\ now \in Time /\ Good(window)
  BY DEF TypeInv, TypeOK, NonceInv
<1>1. CASE UNCHANGED window
  BY <1>0, <1>1
<1>2. \A t : /\ DOMAIN Limiter!Swept(t) \subseteq DOMAIN window
             /\ \A k \in DOMAIN Limiter!Swept(t) : Limiter!Swept(t)[k] = window[k]
  BY DEF Limiter!Swept, Limiter!Restrict
<1>3. ASSUME NEW p \in Request, Throttle(p) PROVE Good(window')
  <2>1. PICK ok, key, limit : ok \in BOOLEAN /\ Limiter!Allow(key, limit, now, ok)
    BY <1>3 DEF Throttle
  <2>2. CASE UNCHANGED window
    BY <1>1, <2>2
  <2>3. CASE key \in DOMAIN window /\ window' = [window EXCEPT ![key].n = @ + 1]
    <3>1. \A k \in DOMAIN window' : window'[k].start = window[k].start
                                    /\ window'[k].n \in {window[k].n, window[k].n + 1}
      BY <2>3
    <3>2. DOMAIN window' = DOMAIN window
      BY <2>3
    <3> QED BY <1>0, <3>1, <3>2
  <2>4. CASE window' \in { Limiter!Table(key, now),
                           [ k \in DOMAIN Limiter!Table(key, now) \cup {key} |->
                               IF k = key THEN [start |-> now, n |-> 1] ELSE window[k] ] }
    <3>1. /\ DOMAIN Limiter!Table(key, now) \subseteq DOMAIN window
          /\ \A k \in DOMAIN Limiter!Table(key, now) : Limiter!Table(key, now)[k] = window[k]
      BY <1>2 DEF Limiter!Table
    <3> QED BY <1>0, <2>4, <3>1
  <2> QED BY <2>1, <2>2, <2>3, <2>4 DEF Limiter!Allow, Limiter!Counting
<1>4. ASSUME NEW p \in Request, Arrive(p) PROVE UNCHANGED window
  BY <1>4 DEF Arrive, Resolve, AdminGrantConfig, AdminRevoke, AdminRevokeToken,
              AdminCodeLookup, stores
<1>5. ASSUME NEW p \in Request, Handle(p) PROVE Good(window')
  BY <1>1, <1>3, <1>5, HandleKeeps DEF HandleFrame
<1>6. CASE Sweeper
  <2>1. CASE SweepLimiter
    BY <1>0, <1>2, <2>1 DEF SweepLimiter, Limiter!Sweep
  <2>2. CASE ~SweepLimiter
    BY <1>1, <1>6, <2>2 DEF Sweeper, SweepStart, SweepGrants, SweepNonces, SweepCodes, stores
  <2> QED BY <2>1, <2>2
<1>7. ASSUME NEW c \in DOMAIN Configs, Reload(c) \/ Restart(c) PROVE Good(window')
  <2>1. window' = <<>> \/ UNCHANGED window
    BY <1>7 DEF Reload, Restart, stores
  <2> QED BY <1>1, <2>1
<1>8. CASE Tick \/ UNCHANGED vars
  BY <1>1, <1>8 DEF Tick, vars, stores
<1> QED
  BY <1>1, <1>4, <1>5, <1>6, <1>7, <1>8 DEF Next

\* The clock starts within its bound.
LEMMA TimeStarts == 0 \in Time /\ 0 \in 0..MaxRestarts
<1>1. MaxTime \in Nat /\ MaxRestarts \in Nat
  BY TypesAssumption
<1> QED
  BY <1>1 DEF Time

\* And so do the requests.
LEMMA RequestsTyped ==
    ASSUME TypeInv, [Next]_vars, NEW p \in Request
    PROVE  Typed(p)'
<1>0. /\ Control /\ Typed(p) /\ cfg \in DOMAIN Configs /\ now \in Time /\ 0 \in Time
      /\ Grants!GrantStoreTypeOK
  BY TimeStarts DEF TypeInv, TypeOK, NonceInv, Typed
<1>1. CASE req'[p] = req[p]
  BY <1>0, <1>1 DEF Typed
<1>2. ASSUME Moves(p), Reads(p) PROVE Typed(p)'
  <2>1. /\ req'[p].pc \in Labels /\ req'[p].t \in Time
        /\ {req'[p].svc, req'[p].cfg, req'[p].reg} \subseteq DOMAIN Configs \cup {""}
        /\ req'[p].seen \subseteq DOMAIN Configs
    BY <1>0, <1>2 DEF Reads, Typed
  <2>2. req'[p].g \subseteq Grants!Grant
    <3>1. CASE req'[p].g \in {{}, req[p].g}
      BY <1>0, <3>1 DEF Typed
    <3>2. CASE PutGrant(p)
      BY <1>0, <3>2, PutGrantEffect, PutsGrants DEF Control
    <3>3. CASE AdminGrantPut(p)
      BY <1>0, <3>3, AdminGrantPutEffect, PutsGrants DEF Control
    <3>4. CASE AuthzCheck(p)
      <4>1. ASSUME NEW s, NEW i, NEW reg, NEW t, NEW cookie
            PROVE  Grants!IsAllowed(s, i, reg, t, cookie) \subseteq Grants!Grant
        BY <1>0 DEF Grants!IsAllowed, Grants!GrantStoreTypeOK
      <4>2. \/ req'[p].g = {}
            \/ req'[p].g = Grants!IsAllowed(req[p].in.service, req[p].in.ip,
                                            RegistryOf(req[p].reg), req[p].t, req[p].in.cookie)
        BY <1>0, <3>4, AuthzCheckEffect DEF Control, Refuses
      <4> QED BY <4>1, <4>2
    <3> QED BY <1>2, <3>1, <3>2, <3>3, <3>4 DEF Moves, Comes
  <2> QED BY <2>1, <2>2 DEF Typed
<1>3. ASSUME NEW q \in Request, Arrive(q) \/ Handle(q) PROVE Typed(p)'
  <2>1. Moves(q) /\ Reads(q)
    BY <1>0, <1>3, ArriveMoves, HandleMoves, ArriveReads, HandleReads DEF Control
  <2> QED BY <1>1, <1>2, <2>1 DEF Moves, Alone
<1>4. CASE Sweeper
  BY <1>1, <1>4, SweeperKeeps DEF SweeperFrame
<1>5. ASSUME NEW c \in DOMAIN Configs, Reload(c) PROVE Typed(p)'
  <2>1. /\ req'[p].pc = req[p].pc /\ req'[p].t = req[p].t /\ req'[p].g = req[p].g
        /\ req'[p].svc = req[p].svc /\ req'[p].cfg = req[p].cfg /\ req'[p].reg = req[p].reg
        /\ req'[p].seen \in {req[p].seen, req[p].seen \cup {c}}
    BY <1>0, <1>5, ReloadEffect DEF Control
  <2> QED BY <1>0, <2>1 DEF Typed
<1>6. ASSUME NEW c \in DOMAIN Configs, Restart(c) PROVE Typed(p)'
  <2> DEFINE lost == [Idle EXCEPT !.pc = "done", !.out = "lost"]
  <2>1. /\ lost.pc = "done" /\ lost.t = 0 /\ lost.g = {} /\ lost.seen = {}
        /\ lost.svc = "" /\ lost.cfg = "" /\ lost.reg = ""
    BY DEF Idle
  <2>2. req'[p] = req[p] \/ req'[p] = lost
    BY <1>6 DEF Restart
  <2> HIDE DEF lost
  <2>3. CASE req'[p] = lost
    BY <1>0, <2>1, <2>3 DEF Typed, Labels
  <2> QED BY <1>1, <2>2, <2>3
<1>7. CASE Tick \/ UNCHANGED vars
  BY <1>1, <1>7 DEF Tick, vars
<1> QED
  BY <1>3, <1>4, <1>5, <1>6, <1>7 DEF Next

\* The Authorizer's state has its types: whatever requests interleave with
\* reloads and restarts, every grant put or held is well formed, every config
\* a handler goes by is one that was loaded, and no nonce is spent that was
\* not minted.
THEOREM AuthorizerTyped == Spec => []TypeOK
<1>1. Init => TypeInv
  <2> SUFFICES ASSUME Init PROVE TypeInv
    OBVIOUS
  <2>1. /\ now = 0 /\ epoch = 0 /\ minted = <<>> /\ req = [p \in Request |-> Idle]
        /\ grants = <<>> /\ byKid = <<>> /\ spent = <<>> /\ codes = <<>> /\ window = <<>>
    BY DEF Init, Grants!GrantStoreInit, Nonces!NonceStoreInit, Codes!EnrollStoreInit,
           Limiter!RateLimiterInit
  <2>2. NonceInv
    BY NonceInit
  <2>3. DOMAIN minted = {} /\ DOMAIN grants = {} /\ DOMAIN byKid = {} /\ DOMAIN spent = {}
        /\ DOMAIN codes = {} /\ DOMAIN window = {}
    BY <2>1
  <2>4. Grants!GrantStoreTypeOK
    BY <2>1, <2>3 DEF Grants!GrantStoreTypeOK
  <2>5. cfg \in DOMAIN Configs
    BY <2>2 DEF NonceInv, NonceTypes
  <2>6. now \in Time /\ 0 \in Time /\ epoch \in 0..MaxRestarts
    BY <2>1, TimeStarts
  <2>7. ASSUME NEW p \in Request PROVE Typed(p) /\ Holding(p) /\ Local(p)
    <3>1. /\ req[p].pc = "idle" /\ req[p].t = 0 /\ req[p].g = {} /\ req[p].seen = {}
          /\ req[p].svc = "" /\ req[p].cfg = "" /\ req[p].reg = "" /\ req[p].out = ""
      BY <2>1 DEF Idle
    <3> QED BY <2>6, <3>1 DEF Typed, Holding, Local, Active, Labels, Granting
  <2>8. TypeOK
    BY <2>3, <2>4, <2>5, <2>6, <2>7 DEF TypeOK, Typed
  <2> QED BY <2>2, <2>7, <2>8 DEF TypeInv
<1>2. ASSUME TypeInv, [Next]_vars PROVE TypeInv'
  <2>1. NonceInv'
    BY <1>2, NonceStep DEF TypeInv
  <2>2. \A p \in Request : Holding(p)'
    BY <1>2, <2>1, HoldingStep DEF TypeInv
  <2>3. \A p \in Request : Local(p)'
    BY <1>2, LocalStep
  <2>4. \A p \in Request : Typed(p)'
    BY <1>2, RequestsTyped
  <2>5. TypeOK'
    BY <1>2, <2>1, <2>4, ClockTyped, GrantsTyped, NoncesTyped, CodesTyped, WindowsTyped
    DEF TypeOK, Typed
  <2> QED BY <2>1, <2>2, <2>3, <2>5 DEF TypeInv
<1>3. TypeInv => TypeOK
  BY DEF TypeInv
<1> QED
  BY <1>1, <1>2, <1>3, PTL DEF Spec

-----------------------------------------------------------------------------
(* RevokesExactly: the index of the grants is exact in the running service *)

\* unindexLocked takes the keys gone, and nothing else, out of an exact index.
LEMMA UnindexExact ==
    ASSUME Grants!IndexExact, NEW gone, gone \subseteq DOMAIN grants
    PROVE  Grants!unindexLocked(byKid, gone) = Grants!IndexOf(Grants!Dropped(grants, gone))
<1> DEFINE left(kid) == byKid[kid] \ { k \in gone : grants[k].kid = kid }
           kept == { kid \in DOMAIN byKid :
                       left(kid) = {} => \A k \in gone : grants[k].kid # kid }
           rest == Grants!Dropped(grants, gone)
<1>1. /\ DOMAIN byKid = { grants[k].kid : k \in DOMAIN grants }
      /\ \A kid \in DOMAIN byKid : byKid[kid] = { k \in DOMAIN grants : grants[k].kid = kid }
  BY DEF Grants!IndexExact, Grants!IndexOf
<1>2. /\ DOMAIN rest = DOMAIN grants \ gone
      /\ \A k \in DOMAIN rest : rest[k] = grants[k]
  BY DEF Grants!Dropped, Grants!Restrict
<1>3. kept = { rest[k].kid : k \in DOMAIN rest }
  BY <1>1, <1>2
<1>4. \A kid \in kept : left(kid) = { k \in DOMAIN rest : rest[k].kid = kid }
  BY <1>1, <1>2
<1>5. Grants!unindexLocked(byKid, gone) = [ kid \in kept |-> left(kid) ]
  BY DEF Grants!unindexLocked, Grants!Restrict
<1> QED
  BY <1>3, <1>4, <1>5 DEF Grants!IndexOf

\* Put indexes the grant it files, and unindexes those it retires and
\* overwrites.
LEMMA PutIndexed ==
    ASSUME Grants!IndexExact, NEW g, NEW h, Grants!Put(g, h)
    PROVE  Grants!IndexExact'
<1> DEFINE k == Grants!keyFor(g)
           gone == Grants!Retired(g, h) \cup ({k} \cap DOMAIN grants)
           rest == Grants!Dropped(grants, gone)
           idx == Grants!unindexLocked(byKid, gone)
<1>1. gone \subseteq DOMAIN grants
  BY DEF Grants!Retired
<1>2. idx = Grants!IndexOf(rest)
  BY <1>1, UnindexExact
<1>3. /\ DOMAIN idx = { rest[x].kid : x \in DOMAIN rest }
      /\ \A kid \in DOMAIN idx : idx[kid] = { x \in DOMAIN rest : rest[x].kid = kid }
  BY <1>2 DEF Grants!IndexOf
<1>4. /\ DOMAIN rest = DOMAIN grants \ gone
      /\ \A x \in DOMAIN rest : rest[x] = grants[x]
  BY DEF Grants!Dropped, Grants!Restrict
<1>5. grants' = [ x \in (DOMAIN grants \ Grants!Retired(g, h)) \cup {k} |->
                    IF x = k THEN g ELSE grants[x] ]
  BY DEF Grants!Put
<1>6. byKid' = [ kid \in DOMAIN idx \cup {g.kid} |->
                   (IF kid \in DOMAIN idx THEN idx[kid] ELSE {})
                     \cup (IF kid = g.kid THEN {k} ELSE {}) ]
  BY DEF Grants!Put
<1>7. /\ DOMAIN grants' = DOMAIN rest \cup {k}
      /\ k \notin DOMAIN rest
      /\ grants'[k] = g
      /\ \A x \in DOMAIN rest : grants'[x] = rest[x]
  BY <1>4, <1>5
<1> HIDE DEF k, gone, rest, idx
<1>8. DOMAIN byKid' = { grants'[x].kid : x \in DOMAIN grants' }
  BY <1>3, <1>6, <1>7
<1>9. \A kid \in DOMAIN byKid' : byKid'[kid] = { x \in DOMAIN grants' : grants'[x].kid = kid }
  BY <1>3, <1>6, <1>7
<1>10. byKid' = [ kid \in DOMAIN byKid' |-> byKid'[kid] ]
  BY <1>6
<1> QED
  BY <1>8, <1>9, <1>10 DEF Grants!IndexExact, Grants!IndexOf

\* Through an exact index revoke-token reaches the grants of the kid and no
\* other.
LEMMA RevokeTokenExact ==
    ASSUME Grants!IndexExact, NEW kid, Grants!RevokeToken(kid)
    PROVE  grants' = Grants!Dropped(grants, { k \in DOMAIN grants : grants[k].kid = kid })
<1> DEFINE keys == IF kid \in DOMAIN byKid THEN byKid[kid] ELSE {}
<1>1. grants' = Grants!Dropped(grants, keys)
  BY DEF Grants!RevokeToken
<1>2. keys = { k \in DOMAIN grants : grants[k].kid = kid }
  BY DEF Grants!IndexExact, Grants!IndexOf
<1> QED
  BY <1>1, <1>2

\* The revocations and the sweep leave the index exact.
LEMMA DropIndexed ==
    ASSUME Grants!IndexExact,
           \/ \E s, i : Grants!Revoke(s, i)
           \/ \E kid : Grants!RevokeToken(kid)
           \/ \E t : Grants!Sweep(t)
    PROVE  Grants!IndexExact'
<1>1. ASSUME NEW gone, gone \subseteq DOMAIN grants, grants' = Grants!Dropped(grants, gone),
             byKid' = Grants!unindexLocked(byKid, gone)
      PROVE  Grants!IndexExact'
  BY <1>1, UnindexExact DEF Grants!IndexExact
<1>2. ASSUME NEW s, NEW i, Grants!Revoke(s, i) PROVE Grants!IndexExact'
  <2> DEFINE gone == { k \in DOMAIN grants : grants[k].service = s /\ grants[k].ip = i }
  <2>1. /\ gone \subseteq DOMAIN grants /\ grants' = Grants!Dropped(grants, gone)
        /\ byKid' = Grants!unindexLocked(byKid, gone)
    BY <1>2 DEF Grants!Revoke
  <2> QED BY <1>1, <2>1
<1>3. ASSUME NEW t, Grants!Sweep(t) PROVE Grants!IndexExact'
  <2> DEFINE gone == { k \in DOMAIN grants : t >= grants[k].exp }
  <2>1. /\ gone \subseteq DOMAIN grants /\ grants' = Grants!Dropped(grants, gone)
        /\ byKid' = Grants!unindexLocked(byKid, gone)
    BY <1>3 DEF Grants!Sweep
  <2> QED BY <1>1, <2>1
<1>4. ASSUME NEW kid, Grants!RevokeToken(kid) PROVE Grants!IndexExact'
  <2>1. byKid' = Grants!Dropped(byKid, {kid})
    BY <1>4 DEF Grants!RevokeToken
  <2>2. grants' = Grants!Dropped(grants, { k \in DOMAIN grants : grants[k].kid = kid })
    BY <1>4, RevokeTokenExact
  <2> QED
    BY <2>1, <2>2 DEF Grants!IndexExact, Grants!IndexOf, Grants!Dropped, Grants!Restrict
<1> QED
  BY <1>2, <1>3, <1>4

IndexInv == Control /\ Grants!IndexExact

\* Every step of the service leaves the index exact: it files a grant, drops
\* some, or starts over with two empty maps.
LEMMA IndexStep ==
    ASSUME IndexInv, [Next]_vars
    PROVE  IndexInv'
<1>0. Control /\ Control' /\ Grants!IndexExact
  BY ControlStep DEF IndexInv
<1>1. ASSUME UNCHANGED <<grants, byKid>> PROVE Grants!IndexExact'
  BY <1>0, <1>1 DEF Grants!IndexExact
<1>2. ASSUME NEW p \in Request, Arrive(p) PROVE Grants!IndexExact'
  <2>1. CASE Resolve(p) \/ AdminGrantConfig(p) \/ AdminCodeLookup(p)
    BY <1>1, <2>1 DEF Resolve, AdminGrantConfig, AdminCodeLookup, stores
  <2>2. CASE AdminRevoke(p) \/ AdminRevokeToken(p)
    BY <1>0, <2>2, DropIndexed DEF AdminRevoke, AdminRevokeToken
  <2> QED BY <1>2, <2>1, <2>2 DEF Arrive
<1>3. ASSUME NEW p \in Request, Handle(p) PROVE Grants!IndexExact'
  <2>1. CASE PutGrant(p)
    BY <1>0, <2>1, PutGrantEffect, PutIndexed DEF Control
  <2>2. CASE AdminGrantPut(p)
    BY <1>0, <2>2, AdminGrantPutEffect, PutIndexed DEF Control
  <2> QED BY <1>1, <1>3, <2>1, <2>2, HandleKeeps DEF HandleFrame
<1>4. ASSUME Sweeper PROVE Grants!IndexExact'
  <2>1. CASE SweepGrants
    BY <1>0, <2>1, DropIndexed DEF SweepGrants
  <2>2. CASE ~SweepGrants
    BY <1>1, <1>4, <2>2 DEF Sweeper, SweepStart, SweepNonces, SweepCodes, SweepLimiter, stores
  <2> QED BY <2>1, <2>2
<1>5. ASSUME NEW c \in DOMAIN Configs, Restart(c) PROVE Grants!IndexExact'
  <2>1. grants' = <<>> /\ byKid' = <<>>
    BY <1>5 DEF Restart
  <2> QED BY <2>1 DEF Grants!IndexExact, Grants!IndexOf
<1>6. ASSUME NEW c \in DOMAIN Configs, Reload(c) PROVE Grants!IndexExact'
  BY <1>1, <1>6 DEF Reload, stores
<1>7. ASSUME Tick \/ UNCHANGED vars PROVE Grants!IndexExact'
  BY <1>1, <1>7 DEF Tick, vars, stores
<1>8. Grants!IndexExact'
  BY <1>2, <1>3, <1>4, <1>5, <1>6, <1>7 DEF Next
<1> QED
  BY <1>0, <1>8 DEF IndexInv

\* What the revocation that a request asked for names.
Names(p, in, g) ==
    IF ask[p] = "adminRevoke" THEN g.service = in.service /\ g.ip = in.ip
                              ELSE g.kid = in.kid

\* A revocation drops what it names.
LEMMA RevocationDrops ==
    ASSUME IndexInv, NEW p \in Request, AdminRevoke(p) \/ AdminRevokeToken(p)
    PROVE  grants' = Grants!Dropped(grants, { k \in DOMAIN grants :
                                                Names(p, req'[p].in, grants[k]) })
<1>0. Shape /\ Grants!IndexExact
  BY DEF IndexInv, Control
<1>1. ASSUME NEW in, Answer(p, Begin(in), "revoked"), UNCHANGED ask PROVE req'[p].in = in
  <2>1. Begin(in).in = in
    BY DEF Begin, Idle
  <2> QED BY <1>0, <1>1, <2>1, AnswerEffect
<1>2. CASE AdminRevoke(p)
  <2>1. PICK in \in Inputs("adminRevoke") :
            Grants!Revoke(in.service, in.ip) /\ Answer(p, Begin(in), "revoked")
    BY <1>2 DEF AdminRevoke
  <2>2. req'[p].in = in /\ ask[p] = "adminRevoke"
    BY <1>1, <1>2, <2>1 DEF AdminRevoke
  <2>3. \A k \in DOMAIN grants : Names(p, req'[p].in, grants[k])
                                 <=> grants[k].service = in.service /\ grants[k].ip = in.ip
    BY <2>2 DEF Names
  <2> QED BY <2>1, <2>3 DEF Grants!Revoke
<1>3. CASE AdminRevokeToken(p)
  <2>1. PICK in \in Inputs("adminRevokeToken") :
            Grants!RevokeToken(in.kid) /\ Answer(p, Begin(in), "revoked")
    BY <1>3 DEF AdminRevokeToken
  <2>2. req'[p].in = in /\ ask[p] = "adminRevokeToken"
    BY <1>1, <1>3, <2>1 DEF AdminRevokeToken
  <2>3. \A k \in DOMAIN grants : Names(p, req'[p].in, grants[k]) <=> grants[k].kid = in.kid
    BY <2>2 DEF Names
  <2> QED BY <1>0, <2>1, <2>3, RevokeTokenExact
<1> QED
  BY <1>2, <1>3

\* An answer of "revoked" is given by a revocation.
LEMMA OnlyRevocationsAnswer ==
    ASSUME Control, [Next]_vars, NEW p \in Request,
           req[p].out # "revoked", req'[p].out = "revoked"
    PROVE  AdminRevoke(p) \/ AdminRevokeToken(p)
<1>1. ASSUME NEW q \in Request, Arrive(q) \/ Handle(q)
      PROVE  AdminRevoke(p) \/ AdminRevokeToken(p)
  <2>1. Moves(q)
    BY <1>1, ArriveMoves, HandleMoves
  <2> QED BY <2>1 DEF Moves, Alone, Comes
<1>2. ASSUME NEW c \in DOMAIN Configs, Reload(c) \/ Restart(c) PROVE FALSE
  BY <1>2, ReloadEffect, RestartEffect DEF Control
<1>3. ASSUME Sweeper \/ Tick \/ UNCHANGED vars PROVE FALSE
  BY <1>3, SweeperKeeps DEF SweeperFrame, Tick, vars
<1> QED
  BY <1>1, <1>2, <1>3 DEF Next

\* An admin revocation removes every grant it names and no other, whatever
\* knocks, admin grants, sweeps, reloads and restarts came before it and
\* whoever's grant was filed over whose (adminRevoke, adminRevokeToken).
THEOREM RevocationsExact == Spec => RevokesExactly
<1>1. Init => IndexInv
  <2> SUFFICES ASSUME Init PROVE IndexInv
    OBVIOUS
  <2>1. grants = <<>> /\ byKid = <<>>
    BY DEF Init, Grants!GrantStoreInit
  <2> QED BY <2>1, ControlInit DEF IndexInv, Grants!IndexExact, Grants!IndexOf
<1>2. IndexInv /\ [Next]_vars => IndexInv'
  BY IndexStep
<1>3. IndexInv /\ [Next]_vars =>
        [ \A p \in Request :
            req[p].out # "revoked" /\ req'[p].out = "revoked" =>
                LET in == req'[p].in
                    Named(g) == IF ask[p] = "adminRevoke"
                                THEN g.service = in.service /\ g.ip = in.ip
                                ELSE g.kid = in.kid
                IN  grants' = Grants!Dropped(grants, { k \in DOMAIN grants : Named(grants[k]) })
        ]_vars
  <2> SUFFICES ASSUME IndexInv, [Next]_vars, NEW p \in Request,
                      req[p].out # "revoked", req'[p].out = "revoked"
               PROVE  grants' = Grants!Dropped(grants, { k \in DOMAIN grants :
                                                           Names(p, req'[p].in, grants[k]) })
    BY DEF Names
  <2> QED BY OnlyRevocationsAnswer, RevocationDrops DEF IndexInv
<1> QED
  BY <1>1, <1>2, <1>3, PTL DEF Spec, RevokesExactly

-----------------------------------------------------------------------------
(* BurnedForCause *)

\* A handler that is about to consume its code, or has, found the code's kid
\* in a registry that was current since the request began.
KidChecked(p) ==
    req[p].pc \in {"consume", "deliver"} =>
        \E c \in req[p].seen : Known(RegistryOf(c), CodeKid(req[p].in.code))

BurnInv ==
    /\ Control
    /\ \A p \in Request : InFlight(p) /\ KidChecked(p)

\* The kid of a code that a client was given stays what it is.
LEMMA KidKept ==
    ASSUME Control, [Next]_vars, NEW p \in Request, req[p].pc \in Enrolling
    PROVE  req'[req[p].in.code] = req[req[p].in.code]
<1>1. req[p].in.code \in HandedOut("adminEnrollCode")
  BY DEF Control, LabelOf, InputOf, Active, Enrolling
<1>2. /\ req[p].in.code \in Request
      /\ req[req[p].in.code].pc = "done"
  BY <1>1 DEF HandedOut, Control
<1> QED
  BY <1>2, DoneKept

\* A handler goes on to Consume with a kid that it has just looked up, and a
\* reload adds to what it has seen.
LEMMA KidCheckedStep ==
    ASSUME BurnInv, [Next]_vars, NEW q \in Request
    PROVE  KidChecked(q)'
<1>1. Control /\ InFlight(q) /\ KidChecked(q)
  BY DEF BurnInv
<1>2. ASSUME req[q].pc \in Enrolling, req'[q].in = req[q].in, req[q].seen \subseteq req'[q].seen,
             \E c \in req[q].seen : Known(RegistryOf(c), CodeKid(req[q].in.code))
      PROVE  KidChecked(q)'
  <2>1. CodeKid(req[q].in.code)' = CodeKid(req[q].in.code)
    BY <1>1, <1>2, KidKept DEF CodeKid
  <2> QED
    BY <1>2, <2>1 DEF KidChecked
<1>3. ASSUME NEW p \in Request, Arrive(p) \/ Handle(p)
      PROVE  KidChecked(q)'
  <2>1. Moves(p)
    BY <1>1, <1>3, ArriveMoves, HandleMoves
  <2>2. CASE q # p
    <3>1. req'[q] = req[q]
      BY <2>1, <2>2 DEF Moves, Alone
    <3> QED
      BY <1>1, <1>2, <3>1 DEF KidChecked, Enrolling
  <2>3. CASE q = p /\ req'[q].pc = "consume"
    <3>1. LookupKid(q)
      BY <2>1, <2>3 DEF Moves, Comes
    <3>2. /\ req[q].pc = "lookup" /\ req'[q].in = req[q].in /\ req'[q].seen = req[q].seen
          /\ Known(RegistryOf(cfg), CodeKid(req[q].in.code))
      BY <1>1, <2>3, <3>1, LookupKidEffect DEF Control, Refuses, Returns, Advances
    <3>3. cfg \in req[q].seen
      BY <1>1, <3>2 DEF InFlight, Active
    <3> QED
      BY <1>2, <3>2, <3>3 DEF Enrolling
  <2>4. CASE q = p /\ req'[q].pc = "deliver"
    <3>1. ConsumeCode(q)
      BY <2>1, <2>4 DEF Moves, Comes
    <3>2. req[q].pc = "consume" /\ req'[q].in = req[q].in /\ req'[q].seen = req[q].seen
      BY <1>1, <2>4, <3>1, ConsumeCodeEffect DEF Control, Refuses, Returns, Advances
    <3> QED
      BY <1>1, <1>2, <3>2 DEF KidChecked, Enrolling
  <2> QED
    BY <2>2, <2>3, <2>4 DEF KidChecked
<1>4. ASSUME NEW c \in DOMAIN Configs, Reload(c)
      PROVE  KidChecked(q)'
  <2>1. /\ req'[q].pc = req[q].pc /\ req'[q].in = req[q].in
        /\ req[q].seen \subseteq req'[q].seen
    BY <1>1, <1>4, ReloadEffect DEF Control
  <2> QED
    BY <1>1, <1>2, <2>1 DEF KidChecked, Enrolling
<1>5. ASSUME NEW c \in DOMAIN Configs, Restart(c)
      PROVE  KidChecked(q)'
  BY <1>1, <1>5, RestartEffect DEF Control, KidChecked, Active
<1>6. CASE Sweeper \/ Tick \/ UNCHANGED vars
  <2>1. UNCHANGED req
    BY <1>6, SweeperKeeps DEF SweeperFrame, Tick, vars
  <2> QED
    BY <1>1, <2>1 DEF KidChecked, CodeKid
<1> QED
  BY <1>3, <1>4, <1>5, <1>6 DEF Next

\* Every step preserves BurnInv.
LEMMA BurnStep ==
    ASSUME BurnInv, [Next]_vars
    PROVE  BurnInv'
<1>1. Control'
  BY ControlStep DEF BurnInv
<1>2. \A q \in Request : InFlight(q)'
  BY InFlightStep DEF BurnInv
<1>3. \A q \in Request : KidChecked(q)'
  BY KidCheckedStep
<1> QED
  BY <1>1, <1>2, <1>3 DEF BurnInv

\* A code goes by the sweeper when it has expired, by a restart, or into the
\* hands of one handler.
LEMMA CodeLeaves ==
    ASSUME Control, NonceTypes, TypeOK, [Next]_vars, NEW c \in DOMAIN codes \ DOMAIN codes'
    PROVE  \/ now >= codes[c].exp \/ epoch' # epoch
           \/ \E p \in Request : ~Burned(p) /\ Burned(p)' /\ req'[p].in.code = c
<1>0. now \in Nat /\ sweep.t \in Nat /\ sweep.t <= now /\ codes[c].exp \in Nat /\ epoch \in Nat
  BY DEF NonceTypes, TypeOK
<1>1. ASSUME NEW p \in Request, Arrive(p)
      PROVE  FALSE
  BY <1>1, ArriveKeeps DEF ArriveFrame, Control
<1>2. ASSUME NEW p \in Request, Handle(p)
      PROVE  now >= codes[c].exp \/ (~Burned(p) /\ Burned(p)' /\ req'[p].in.code = c)
  <2>1. CASE ConsumeCode(p)
    <3>1. /\ req[p].pc = "consume" /\ Codes!Consume(req[p].in.code)
          /\ \/ Advances(p, "deliver")
             \/ ~Codes!Live(req[p].in.code, now)
      BY <2>1, PcEffect DEF ConsumeCode, At, Control
    <3>2. c = req[p].in.code
      BY <3>1 DEF Codes!Consume, Codes!Restrict
    <3>3. CASE ~Codes!Live(req[p].in.code, now)
      BY <1>0, <3>2, <3>3 DEF Codes!Live
    <3>4. CASE Advances(p, "deliver")
      BY <3>1, <3>2, <3>4 DEF Advances, Burned
    <3> QED
      BY <3>1, <3>3, <3>4
  <2>2. CASE AdminCodePut(p)
    BY <2>2, AdminCodePutEffect DEF Control
  <2> QED
    BY <1>2, <2>1, <2>2, HandleKeeps DEF HandleFrame
<1>3. CASE Sweeper
  <2>1. CASE SweepCodes
    <3>1. DOMAIN codes' = { x \in DOMAIN codes : sweep.t < codes[x].exp }
      BY <2>1 DEF SweepCodes, Codes!Sweep, Codes!Restrict
    <3> QED
      BY <1>0, <3>1
  <2>2. CASE ~SweepCodes
    <3>1. UNCHANGED codes
      BY <1>3, <2>2 DEF Sweeper, SweepStart, SweepGrants, SweepNonces, SweepLimiter, stores
    <3> QED
      BY <3>1
  <2> QED
    BY <2>1, <2>2
<1>4. ASSUME NEW d \in DOMAIN Configs, Reload(d) \/ Restart(d)
      PROVE  epoch' # epoch
  <2>1. CASE Reload(d)
    BY <2>1 DEF Reload, stores
  <2>2. CASE Restart(d)
    BY <1>0, <2>2 DEF Restart
  <2> QED
    BY <1>4, <2>1, <2>2
<1>5. CASE Tick \/ UNCHANGED vars
  BY <1>5 DEF Tick, vars, stores
<1> QED
  BY <1>1, <1>2, <1>3, <1>4, <1>5 DEF Next

\* A handler that has burned the code is refused only when the registry has
\* lost the kid that was in it.
LEMMA RefusedForCause ==
    ASSUME BurnInv, [Next]_vars, NEW p \in Request, Burned(p), req'[p].out = "deny"
    PROVE  \E c, d \in req[p].seen : /\ Known(RegistryOf(c), CodeKid(req[p].in.code))
                                     /\ ~Known(RegistryOf(d), CodeKid(req[p].in.code))
<1>1. /\ Control /\ InFlight(p) /\ KidChecked(p)
      /\ req[p].pc = "deliver" /\ req[p].out # "deny"
  BY DEF BurnInv, Burned, Control
<1>2. cfg \in req[p].seen
  BY <1>1 DEF InFlight, Active
<1>3. \E c \in req[p].seen : Known(RegistryOf(c), CodeKid(req[p].in.code))
  BY <1>1 DEF KidChecked
<1>4. DeliverSecret(p)
  <2>1. ASSUME NEW q \in Request, Arrive(q) \/ Handle(q)
        PROVE  q = p /\ Handle(p)
    <3>1. q = p
      BY <1>1, <2>1, ArriveMoves, HandleMoves DEF Moves, Alone
    <3>2. ~Arrive(p)
      BY <1>1 DEF Arrive, Resolve, AdminGrantConfig, AdminRevoke, AdminRevokeToken,
                  AdminCodeLookup, At
    <3> QED
      BY <2>1, <3>1, <3>2
  <2>2. Handle(p) => DeliverSecret(p)
    BY <1>1 DEF Handle, At, Throttle, IssueNonce, CheckNonce, CheckProof, ClaimNonce, PutGrant,
                PeekCode, LookupKid, ConsumeCode, AuthzConfig, AuthzRegistry, AuthzClock,
                AuthzCheck, AdminGrantClock, AdminGrantLookup, AdminGrantPut,
                AdminCodeConfig, AdminCodePut
  <2>3. ASSUME NEW d \in DOMAIN Configs, Reload(d) \/ Restart(d)
        PROVE  FALSE
    BY <1>1, <2>3, ReloadEffect, RestartEffect DEF Control, Active
  <2>4. ASSUME Sweeper \/ Tick \/ UNCHANGED vars
        PROVE  FALSE
    BY <1>1, <2>4, SweeperKeeps DEF SweeperFrame, Tick, vars
  <2> QED
    BY <2>1, <2>2, <2>3, <2>4 DEF Next
<1>5. ~Known(RegistryOf(cfg), CodeKid(req[p].in.code))
  BY <1>1, <1>4, DeliverSecretEffect DEF Control, Returns
<1> QED
  BY <1>2, <1>3, <1>5

\* handleEnroll burns no code for nothing: for any number of clients, codes
\* and configs, an unexpired code is lost only to a restart or to a reload that
\* removes its kid while the one handler that consumed it is under way.
THEOREM CodesBurnedForCause == Spec => BurnedForCause
<1>1. Init => BurnInv
  <2> SUFFICES ASSUME Init PROVE BurnInv
    OBVIOUS
  <2>1. \A p \in Request : req[p].pc = "idle"
    BY DEF Init, Idle
  <2> QED
    BY <2>1, ControlInit DEF BurnInv, InFlight, Active, KidChecked
<1>2. BurnInv /\ [Next]_vars => BurnInv'
  BY BurnStep
<1>3. BurnInv /\ NonceInv /\ TypeOK /\ [Next]_vars =>
        [ /\ \A c \in DOMAIN codes \ DOMAIN codes' :
               \/ now >= codes[c].exp \/ epoch' # epoch
               \/ \E p \in Request : ~Burned(p) /\ Burned(p)' /\ req'[p].in.code = c
          /\ \A p \in Request :
               Burned(p) /\ req'[p].out = "deny" =>
                  \E c, d \in req[p].seen : /\ Known(RegistryOf(c), CodeKid(req[p].in.code))
                                           /\ ~Known(RegistryOf(d), CodeKid(req[p].in.code))
        ]_vars
  BY CodeLeaves, RefusedForCause DEF BurnInv, NonceInv
<1> QED
  BY <1>1, <1>2, <1>3, NonceInvariant, AuthorizerTyped, PTL DEF Spec, BurnedForCause

=============================================================================
