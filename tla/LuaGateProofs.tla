---------------------------- MODULE LuaGateProofs ----------------------------
(***************************************************************************)
(* Proofs about LuaGate, for any set of requests, configs, services and    *)
(* addresses, any number of reloads and any span of time.                  *)
(***************************************************************************)
EXTENDS LuaGate, TLAPS

-----------------------------------------------------------------------------
(* What a step of a worker does to the requests *)

\* The requests are records with the fields of Idle.
Shape == DOMAIN req = Request /\ \A p \in Request : DOMAIN req[p] = DOMAIN Idle

\* Only p's worker moves.
Alone(p) ==
    /\ Shape' /\ UNCHANGED ask
    /\ \A q \in Request \ {p} : req'[q] = req[q]

\* What the client sent, and what the worker had when it took the request.
SameRequest(p) ==
    /\ req'[p].cfg = req[p].cfg /\ req'[p].service = req[p].service
    /\ req'[p].ip = req[p].ip /\ req'[p].in = req[p].in

\* It goes on to label.
Advances(p, label) ==
    /\ Alone(p) /\ SameRequest(p)
    /\ req'[p].pc = label /\ req'[p].out = req[p].out /\ req'[p].key = req[p].key

\* The scan of a revocation, and the record in hand.
SameScan(p) ==
    /\ req'[p].rec = req[p].rec /\ req'[p].todo = req[p].todo
    /\ req'[p].before = req[p].before

\* It returns an answer that hands out no grant and lets nobody through.
Returns(p) ==
    /\ Alone(p)
    /\ req'[p].pc = "done" /\ req'[p].out \notin {"granted", "allow", ""}
    /\ req'[p].rec = {} /\ req'[p].t = 0 /\ req'[p].before = req[p].before

\* A Goto with a record of the right fields moves p's worker only.
LEMMA GotoEffect ==
    ASSUME Shape, NEW p \in Request, NEW r, DOMAIN r = DOMAIN Idle, Goto(p, r), UNCHANGED ask
    PROVE  Alone(p) /\ req'[p] = r
  BY DEF Shape, Goto, Alone

\* An answer other than a grant and an allow forgets the record in hand.
LEMMA AnswerEffect ==
    ASSUME Shape, NEW p \in Request, NEW out, out \notin {"granted", "allow", ""},
           Answer(p, req[p], out), UNCHANGED ask
    PROVE  Returns(p) /\ req'[p].out = out
<1> DEFINE in == IF out = "code" THEN req[p].in ELSE <<>>
           cfg == IF out = "limited" THEN req[p].cfg ELSE ""
           a == [[Idle EXCEPT !.in = in, !.cfg = cfg, !.before = req[p].before]
                 EXCEPT !.pc = "done", !.out = out]
<1>1. Goto(p, a)
  BY DEF Answer
<1> HIDE DEF in, cfg
<1>2. /\ DOMAIN a = DOMAIN Idle
      /\ a.pc = "done" /\ a.out = out /\ a.before = req[p].before /\ a.rec = {} /\ a.t = 0
  BY DEF Idle
<1> HIDE DEF a
<1> QED
  BY <1>1, <1>2, GotoEffect DEF Returns

\* A denial is such an answer.
LEMMA DenyEffect ==
    ASSUME Shape, NEW p \in Request, deny(p), UNCHANGED ask
    PROVE  Returns(p) /\ req'[p].out = "deny"
  BY AnswerEffect DEF deny

\* A grant, and a request let through, keep what the worker has of the
\* request, its nonce key aside.
LEMMA OpenEffect ==
    ASSUME Shape, NEW p \in Request, NEW r, NEW out, out \in {"granted", "allow"},
           DOMAIN r = DOMAIN Idle, Answer(p, r, out), UNCHANGED ask
    PROVE  /\ Alone(p)
           /\ req'[p].cfg = r.cfg /\ req'[p].service = r.service
           /\ req'[p].ip = r.ip /\ req'[p].in = r.in
           /\ req'[p].pc = "done" /\ req'[p].out = out /\ req'[p].rec = r.rec
           /\ req'[p].t = r.t /\ req'[p].before = r.before
<1> DEFINE a == [[r EXCEPT !.key = 0] EXCEPT !.pc = "done", !.out = out]
<1>1. /\ DOMAIN a = DOMAIN Idle
      /\ a.pc = "done" /\ a.out = out /\ a.rec = r.rec /\ a.t = r.t
      /\ a.cfg = r.cfg /\ a.service = r.service /\ a.ip = r.ip
      /\ a.in = r.in /\ a.before = r.before
  BY DEF Idle
<1>2. Goto(p, a)
  BY DEF Answer
<1> HIDE DEF a
<1> QED
  BY <1>1, <1>2, GotoEffect

\* A change of label alone, of the time read, of the record in hand, and of
\* the scan.
LEMMA PcEffect ==
    ASSUME Shape, NEW p \in Request, NEW l, UNCHANGED ask, Goto(p, [req[p] EXCEPT !.pc = l])
    PROVE  Advances(p, l) /\ SameScan(p) /\ req'[p].t = req[p].t
  BY DEF Shape, Goto, Alone, Advances, SameRequest, SameScan, Idle

\* A step that stores the clock keeps the rest of the handler's locals.
LEMMA TimeEffect ==
    ASSUME Shape, NEW p \in Request, NEW l, NEW t, UNCHANGED ask,
           Goto(p, [req[p] EXCEPT !.pc = l, !.t = t])
    PROVE  Advances(p, l) /\ SameScan(p) /\ req'[p].t = t
  BY DEF Shape, Goto, Alone, Advances, SameRequest, SameScan, Idle

\* A step that stores a record keeps the clock reading and the scan.
LEMMA RecEffect ==
    ASSUME Shape, NEW p \in Request, NEW l, NEW g, UNCHANGED ask,
           Goto(p, [req[p] EXCEPT !.pc = l, !.rec = g])
    PROVE  /\ Advances(p, l) /\ req'[p].t = req[p].t
           /\ req'[p].rec = g /\ req'[p].todo = req[p].todo /\ req'[p].before = req[p].before
  BY DEF Shape, Goto, Alone, Advances, SameRequest, Idle

\* A step of the revocation's history keeps the clock reading.
LEMMA BeforeEffect ==
    ASSUME Shape, NEW p \in Request, NEW l, NEW b, UNCHANGED ask,
           Goto(p, [req[p] EXCEPT !.pc = l, !.before = b])
    PROVE  /\ Advances(p, l) /\ req'[p].t = req[p].t /\ req'[p].before = b
  BY DEF Shape, Goto, Alone, Advances, SameRequest, Idle

\* The scan starts with the keys of get_keys.
LEMMA ScanEffect ==
    ASSUME Shape, NEW p \in Request, NEW l, NEW d, NEW b, UNCHANGED ask,
           Goto(p, [req[p] EXCEPT !.pc = l, !.todo = d, !.before = b])
    PROVE  /\ Advances(p, l) /\ req'[p].t = req[p].t
           /\ req'[p].todo = d /\ req'[p].before = b
  BY DEF Shape, Goto, Alone, Advances, SameRequest, Idle

\* The scan moves to the next key.
LEMMA TodoEffect ==
    ASSUME Shape, NEW p \in Request, NEW d, UNCHANGED ask,
           Goto(p, [req[p] EXCEPT !.todo = d])
    PROVE  /\ Advances(p, req[p].pc) /\ req'[p].t = req[p].t
           /\ req'[p].todo = d /\ req'[p].rec = req[p].rec /\ req'[p].before = req[p].before
  BY DEF Shape, Goto, Alone, Advances, SameRequest, Idle

\* The scan found a record to delete.
LEMMA FoundEffect ==
    ASSUME Shape, NEW p \in Request, NEW l, NEW d, NEW g, UNCHANGED ask,
           Goto(p, [req[p] EXCEPT !.pc = l, !.rec = g, !.todo = d])
    PROVE  /\ Advances(p, l) /\ req'[p].t = req[p].t
           /\ req'[p].todo = d /\ req'[p].rec = g /\ req'[p].before = req[p].before
  BY DEF Shape, Goto, Alone, Advances, SameRequest, Idle

\* A worker takes the request, with the master's config and nonce key unless
\* the endpoint reads the dictionaries only.
LEMMA AccessEffect ==
    ASSUME Shape, NEW p \in Request, Access(p)
    PROVE  /\ req[p].pc = "idle"
           /\ \/ Returns(p) /\ req'[p].out = "deny"
              \/ /\ Alone(p)
                 /\ req'[p].pc = AfterRoute(ask[p]) /\ req'[p].out = ""
                 /\ req'[p].rec = {} /\ req'[p].todo = {} /\ req'[p].before = {}
                 /\ req'[p].t = now /\ req'[p].in \in Inputs(ask[p])
                 /\ ask[p] \notin StoreOnly =>
                      req'[p].cfg = master.cfg /\ req'[p].key = master.key
<1>1. req[p].pc = "idle" /\ UNCHANGED ask
  BY DEF Access, At
<1> DEFINE worker == IF ask[p] \in StoreOnly THEN Idle
                     ELSE [Idle EXCEPT !.cfg = master.cfg, !.key = master.key]
           r(s, i, in) == [worker EXCEPT !.pc = AfterRoute(ask[p]), !.service = s, !.ip = i,
                                         !.in = in, !.t = now]
<1>2. PICK at \in Targets(ask[p]), in \in Inputs(ask[p]) :
        deny(p) \/ Goto(p, r(at[1], at[2], in))
  BY DEF Access
<1>3. CASE deny(p)
  BY <1>1, <1>3, DenyEffect
<1>4. CASE Goto(p, r(at[1], at[2], in))
  <2>1. PICK l : l = AfterRoute(ask[p])
    OBVIOUS
  <2>2. /\ DOMAIN worker = DOMAIN Idle
        /\ worker.out = "" /\ worker.rec = {} /\ worker.todo = {} /\ worker.before = {}
        /\ ask[p] \notin StoreOnly => worker.cfg = master.cfg /\ worker.key = master.key
    BY DEF Idle
  <2>3. PICK w : w = worker
    OBVIOUS
  <2> DEFINE a == [w EXCEPT !.pc = l, !.service = at[1], !.ip = at[2], !.in = in, !.t = now]
  <2>4. Goto(p, a)
    BY <1>4, <2>1, <2>3
  <2>5. /\ DOMAIN a = DOMAIN Idle
        /\ a.pc = l /\ a.out = "" /\ a.rec = {} /\ a.todo = {} /\ a.before = {}
        /\ a.t = now /\ a.in = in
        /\ ask[p] \notin StoreOnly => a.cfg = master.cfg /\ a.key = master.key
    <3> HIDE DEF worker
    <3> QED
      BY <2>2, <2>3 DEF Idle
  <2> HIDE DEF a, worker
  <2> QED
    BY <1>1, <2>1, <2>4, <2>5, GotoEffect
<1> QED
  BY <1>2, <1>3, <1>4

\* A knock goes on to its handler when there is no limit.
LEMMA RateEffect ==
    ASSUME Shape, NEW p \in Request, rate_ok(p)
    PROVE  /\ req[p].pc = "rate_ok"
           /\ \/ Returns(p) /\ req'[p].out = "limited"
              \/ Advances(p, ask[p]) /\ SameScan(p) /\ req'[p].t = now
  BY AnswerEffect, TimeEffect DEF rate_ok, At

\* challenge answers with a nonce.
LEMMA ChallengeEffect ==
    ASSUME Shape, NEW p \in Request, challenge(p)
    PROVE  req[p].pc = "challenge" /\ Returns(p) /\ req'[p].out = "nonce"
  BY AnswerEffect DEF challenge, At

\* The registry of p's worker holds the secret that p's client proved.
Proven(p) ==
    /\ Known(registry(req[p].cfg), req[p].in.device[1])
    /\ registry(req[p].cfg).tokens[req[p].in.device[1]].secret = req[p].in.device[2]

\* A knock that passes has a nonce that verifies and proves its secret.
LEMMA RespondEffect ==
    ASSUME Shape, NEW p \in Request, respond(p)
    PROVE  /\ req[p].pc = "respond"
           /\ \/ Returns(p) /\ req'[p].out = "deny"
              \/ /\ Advances(p, "nonce_claim") /\ SameScan(p) /\ req'[p].t = req[p].t
                 /\ verify_nonce(req[p].in.nonce, req[p]) /\ Proven(p)
<1>1. /\ req[p].pc = "respond" /\ UNCHANGED ask
      /\ \/ deny(p)
         \/ /\ Goto(p, [req[p] EXCEPT !.pc = "nonce_claim"])
            /\ verify_nonce(req[p].in.nonce, req[p]) /\ Proven(p)
  BY DEF respond, At, Proven, Authorize
<1> QED
  BY <1>1, DenyEffect, PcEffect

\* nonce_claim: dict:add decides whether the knock goes on, and counts.
LEMMA ClaimEffect ==
    ASSUME Shape, NEW p \in Request, nonce_claim(p)
    PROVE  /\ req[p].pc = "nonce_claim"
           /\ \/ Returns(p) /\ req'[p].out = "deny" /\ UNCHANGED <<spent, claims>>
              \/ /\ Advances(p, "put_grant") /\ SameScan(p) /\ req'[p].t = req[p].t
                 /\ ~Present(spent, req[p].in.nonce, req[p].t)
                 /\ spent' = With(spent, req[p].in.nonce,
                                  Entry(TRUE, req[p].t, Configs[req[p].cfg].nonceTTL))
                 /\ claims' = [claims EXCEPT ![req[p].in.nonce] = @ + 1]
  BY DenyEffect, PcEffect DEF nonce_claim, At

\* The record that a knock puts.
KnockRecord(p) ==
    record(p, req[p].in.device[1], grant_ttl(req[p].cfg, req[p].service), Svc(req[p]).binding,
           IF Svc(req[p]).binding = "ip+cookie" THEN Hash(p) ELSE NoHash, FALSE,
           Fingerprint(registry(req[p].cfg), req[p].in.device[1]))

\* The record that an admin puts by hand.
ManualRecord(p) == record(p, req[p].in.kid, req[p].in.ttl, "ip", NoHash, TRUE, NoFP)

\* The key that a record is put under.
KeyOf(rec) == grant_key(rec.service, rec.ip, rec.cookie_hash)

\* p's worker puts rec and answers.
Puts(p, rec) ==
    /\ Alone(p) /\ SameRequest(p)
    /\ req'[p].pc = "done" /\ req'[p].out = "granted"
    /\ req'[p].t = req[p].t /\ req'[p].before = req[p].before
    /\ \E till : grants' = With(grants, KeyOf(rec), [val |-> rec, till |-> till])

\* put_grant stores the record, and answers with it.
LEMMA PutEffect ==
    ASSUME Shape, NEW p \in Request, NEW rec, NEW ttl, put_grant(p, rec, ttl)
    PROVE  Puts(p, rec)
<1>1. PICK r : r = [req[p] EXCEPT !.rec = {rec}]
  OBVIOUS
<1>2. Answer(p, r, "granted") /\ UNCHANGED ask
  BY <1>1 DEF put_grant
<1>3. /\ DOMAIN r = DOMAIN Idle
      /\ r.cfg = req[p].cfg /\ r.service = req[p].service /\ r.ip = req[p].ip
      /\ r.in = req[p].in /\ r.t = req[p].t /\ r.before = req[p].before
  BY <1>1 DEF Shape, Idle
<1>4. \E till : grants' = With(grants, KeyOf(rec), [val |-> rec, till |-> till])
  BY DEF put_grant, Entry, KeyOf
<1> QED
  BY <1>2, <1>3, <1>4, OpenEffect DEF Puts, SameRequest

\* A knock that claimed its nonce puts the record of its own client.
LEMMA KnockEffect ==
    ASSUME Shape, NEW p \in Request, PutKnock(p)
    PROVE  req[p].pc = "put_grant" /\ Puts(p, KnockRecord(p))
<1>1. PICK rec : rec = KnockRecord(p)
  OBVIOUS
<1>2. req[p].pc = "put_grant" /\ \E ttl : put_grant(p, rec, ttl)
  BY <1>1 DEF PutKnock, At, KnockRecord
<1> QED
  BY <1>1, <1>2, PutEffect

\* The grant of the admin API puts the record it was asked for.
LEMMA ManualEffect ==
    ASSUME Shape, NEW p \in Request, ApiGrant(p)
    PROVE  req[p].pc = "grant" /\ Puts(p, ManualRecord(p))
<1>1. PICK rec : rec = ManualRecord(p)
  OBVIOUS
<1>2. req[p].pc = "grant" /\ \E ttl : put_grant(p, rec, ttl)
  BY <1>1 DEF ApiGrant, At, ManualRecord
<1> QED
  BY <1>1, <1>2, PutEffect

\* enroll goes on to consume_enroll only with a kid the registry knows.
LEMMA EnrollEffect ==
    ASSUME Shape, NEW p \in Request, enroll(p)
    PROVE  /\ req[p].pc = "enroll"
           /\ \/ Returns(p) /\ req'[p].out = "deny"
              \/ Advances(p, "consume_get") /\ SameScan(p) /\ req'[p].t = req[p].t
  BY DenyEffect, PcEffect DEF enroll, At

\* consume_enroll goes on only with a code it found.
LEMMA ConsumeGetEffect ==
    ASSUME Shape, NEW p \in Request, ConsumeGet(p)
    PROVE  /\ req[p].pc = "consume_get"
           /\ \/ Returns(p) /\ req'[p].out = "deny"
              \/ /\ Advances(p, "consume_add") /\ SameScan(p) /\ req'[p].t = req[p].t
                 /\ Present(codes, req[p].in.code, req[p].t)
  BY DenyEffect, PcEffect DEF ConsumeGet, At

\* consume_enroll goes on only when it added the marker.
LEMMA ConsumeAddEffect ==
    ASSUME Shape, NEW p \in Request, ConsumeAdd(p)
    PROVE  /\ req[p].pc = "consume_add"
           /\ \/ Returns(p) /\ req'[p].out = "deny" /\ UNCHANGED marker
              \/ /\ Advances(p, "consume_delete") /\ SameScan(p) /\ req'[p].t = req[p].t
                 /\ ~Present(marker, req[p].in.code, req[p].t)
                 /\ marker' = With(marker, req[p].in.code, Entry(TRUE, req[p].t, MarkerTTL))
  BY DenyEffect, PcEffect DEF ConsumeAdd, At

\* consume_enroll then deletes the code, and the secret goes out.
LEMMA ConsumeDeleteEffect ==
    ASSUME Shape, NEW p \in Request, ConsumeDelete(p)
    PROVE  /\ req[p].pc = "consume_delete" /\ Returns(p) /\ req'[p].out = "secret"
           /\ codes' = Without(codes, req[p].in.code)
           /\ delivered' = [delivered EXCEPT ![req[p].in.code] = @ + 1]
  BY AnswerEffect DEF ConsumeDelete, At

\* The gate takes the record that is stored under the cookie's key or the
\* plain one.
LEMMA GetEffect ==
    ASSUME Shape, NEW p \in Request, GetCookie(p) \/ GetPlain(p)
    PROVE  /\ req[p].pc \in {"get_cookie", "get_plain"}
           /\ \/ Returns(p) /\ req'[p].out = "deny"
              \/ Advances(p, "get_plain") /\ SameScan(p) /\ req'[p].t = req[p].t
              \/ /\ Advances(p, "is_allowed") /\ req'[p].t = req[p].t
                 /\ req'[p].before = req[p].before
                 /\ \E k \in DOMAIN grants : req'[p].rec = {grants[k].val}
<1> DEFINE Found(k) == /\ k \in DOMAIN grants
                       /\ Goto(p, [req[p] EXCEPT !.pc = "is_allowed", !.rec = {grants[k].val}])
<1>1. /\ req[p].pc \in {"get_cookie", "get_plain"} /\ UNCHANGED ask
      /\ deny(p) \/ Goto(p, [req[p] EXCEPT !.pc = "get_plain"]) \/ \E k : Found(k)
  BY DEF GetCookie, GetPlain, At, Present
<1>2. ASSUME NEW k, Found(k)
      PROVE  /\ Advances(p, "is_allowed") /\ req'[p].t = req[p].t
             /\ req'[p].before = req[p].before
             /\ k \in DOMAIN grants /\ req'[p].rec = {grants[k].val}
  <2>1. PICK g : g = {grants[k].val}
    OBVIOUS
  <2>2. Goto(p, [req[p] EXCEPT !.pc = "is_allowed", !.rec = g]) /\ k \in DOMAIN grants
    BY <1>2, <2>1
  <2> QED
    BY <1>1, <2>1, <2>2, RecEffect
<1> HIDE DEF Found
<1> QED
  BY <1>1, <1>2, DenyEffect, PcEffect

\* is_allowed opens with a record that admits the client and is as strong
\* as the binding of the service, or denies.
LEMMA AllowEffect ==
    ASSUME Shape, NEW p \in Request, is_allowed(p)
    PROVE  /\ req[p].pc = "is_allowed"
           /\ \/ Returns(p) /\ req'[p].out = "deny"
              \/ /\ Alone(p) /\ SameRequest(p)
                 /\ req'[p].pc = "done" /\ req'[p].out = "allow" /\ req'[p].t = req[p].t
                 /\ req'[p].rec = req[p].rec /\ req'[p].before = req[p].before
                 /\ \A g \in req[p].rec :
                      /\ Admits(g, req[p])
                      /\ Svc(req[p]).binding = "ip+cookie" => g.binding = "ip+cookie"
<1> DEFINE Passes == \A g \in req[p].rec :
                       /\ Admits(g, req[p])
                       /\ Svc(req[p]).binding = "ip+cookie" => g.binding = "ip+cookie"
<1>1. /\ req[p].pc = "is_allowed" /\ UNCHANGED ask
      /\ deny(p) \/ (Answer(p, req[p], "allow") /\ Passes)
  BY DEF is_allowed, At
<1> HIDE DEF Passes
<1>2. PICK r : r = req[p]
  OBVIOUS
<1>3. Answer(p, req[p], "allow") => Answer(p, r, "allow")
  BY <1>2
<1>4. DOMAIN r = DOMAIN Idle
  BY <1>2 DEF Shape
<1>5. CASE deny(p)
  BY <1>1, <1>5, DenyEffect
<1>6. CASE Answer(p, req[p], "allow") /\ Passes
  <2>1. /\ Alone(p) /\ SameRequest(p)
        /\ req'[p].pc = "done" /\ req'[p].out = "allow" /\ req'[p].t = req[p].t
        /\ req'[p].rec = req[p].rec /\ req'[p].before = req[p].before
    BY <1>1, <1>2, <1>3, <1>4, <1>6, OpenEffect DEF SameRequest
  <2> QED
    BY <1>1, <1>6, <2>1 DEF Passes
<1> QED
  BY <1>1, <1>5, <1>6

\* The enroll-code of the admin API stores the code it drew, or nothing.
LEMMA EnrollCodeEffect ==
    ASSUME Shape, NEW p \in Request, ApiEnrollCode(p)
    PROVE  /\ req[p].pc = "enroll-code" /\ Returns(p)
           /\ \/ req'[p].out = "deny" /\ UNCHANGED codes
              \/ /\ req'[p].out = "code"
                 /\ codes' = With(codes, p, Entry(req[p].in.kid, req[p].t, req[p].in.ttl))
  BY DenyEffect, AnswerEffect DEF ApiEnrollCode, At

\* The records that p's revocation is for, of those stored at its time.
Due(p) == { rec \in Stored(req[p].t) : Matches(rec, req[p]) }

\* revoke deletes the plain key first.
LEMMA DeletePlainEffect ==
    ASSUME Shape, NEW p \in Request, DeletePlain(p)
    PROVE  /\ req[p].pc = "revoke" /\ Advances(p, "revoke-token") /\ req'[p].t = req[p].t
           /\ req'[p].before = Due(p)
           /\ \E k : grants' = Without(grants, k)
<1>1. PICK b : b = Due(p)
  OBVIOUS
<1>2. /\ req[p].pc = "revoke" /\ UNCHANGED ask
      /\ Goto(p, [req[p] EXCEPT !.pc = "revoke-token", !.before = b])
      /\ \E k : grants' = Without(grants, k)
  BY <1>1 DEF DeletePlain, At, Due
<1> QED
  BY <1>1, <1>2, BeforeEffect

\* revoke and revoke_token then list the keys.
LEMMA ScanStartEffect ==
    ASSUME Shape, NEW p \in Request, Scan(p)
    PROVE  /\ req[p].pc = "revoke-token" /\ Advances(p, "scan_get") /\ req'[p].t = req[p].t
           /\ req'[p].todo = get_keys(req[p].t)
           /\ req'[p].before = req[p].before \cup Due(p)
<1>1. PICK b : b = req[p].before \cup Due(p)
  OBVIOUS
<1>2. PICK d : d = get_keys(req[p].t)
  OBVIOUS
<1>3. [req[p] EXCEPT !.pc = "scan_get", !.todo = d, !.before = @ \cup Due(p)]
        = [req[p] EXCEPT !.pc = "scan_get", !.todo = d, !.before = b]
  BY <1>1
<1>4. /\ req[p].pc = "revoke-token" /\ UNCHANGED ask
      /\ Goto(p, [req[p] EXCEPT !.pc = "scan_get", !.todo = d, !.before = b])
  BY <1>2, <1>3 DEF Scan, At, Due
<1>5. /\ Advances(p, "scan_get") /\ req'[p].t = req[p].t
      /\ req'[p].todo = d /\ req'[p].before = b
  BY <1>4, ScanEffect
<1> QED
  BY <1>1, <1>2, <1>4, <1>5

\* The scan ends, or reads one key: a record that matches is up for deletion,
\* any other is passed by.
LEMMA ScanGetEffect ==
    ASSUME Shape, NEW p \in Request, ScanGet(p)
    PROVE  /\ req[p].pc = "scan_get"
           /\ \/ req[p].todo = {} /\ Returns(p) /\ req'[p].out = "revoked"
              \/ \E k \in req[p].todo :
                   /\ req'[p].t = req[p].t /\ req'[p].before = req[p].before
                   /\ req'[p].todo = req[p].todo \ {k}
                   /\ \/ Advances(p, "scan_delete") /\ req'[p].rec = {k}
                      \/ /\ Advances(p, "scan_get")
                         /\ ~(Present(grants, k, req[p].t) /\ Matches(grants[k].val, req[p]))
<1>1. req[p].pc = "scan_get" /\ UNCHANGED ask
  BY DEF ScanGet, At
<1> DEFINE Hit(k) == Present(grants, k, req[p].t) /\ Matches(grants[k].val, req[p])
           Left(k) == req[p].todo \ {k}
<1>2. \/ req[p].todo = {} /\ Answer(p, req[p], "revoked")
      \/ \E k \in req[p].todo :
           \/ Goto(p, [req[p] EXCEPT !.pc = "scan_delete", !.rec = {k}, !.todo = Left(k)])
           \/ ~Hit(k) /\ Goto(p, [req[p] EXCEPT !.todo = Left(k)])
  BY DEF ScanGet
<1>3. ASSUME NEW k \in req[p].todo,
             Goto(p, [req[p] EXCEPT !.pc = "scan_delete", !.rec = {k}, !.todo = Left(k)])
      PROVE  /\ req'[p].t = req[p].t /\ req'[p].before = req[p].before
             /\ req'[p].todo = req[p].todo \ {k}
             /\ Advances(p, "scan_delete") /\ req'[p].rec = {k}
  <2>1. PICK d : d = Left(k)
    OBVIOUS
  <2>2. PICK g : g = {k}
    OBVIOUS
  <2>3. Goto(p, [req[p] EXCEPT !.pc = "scan_delete", !.rec = g, !.todo = d])
    BY <1>3, <2>1, <2>2
  <2>4. /\ Advances(p, "scan_delete") /\ req'[p].t = req[p].t
        /\ req'[p].todo = d /\ req'[p].rec = g /\ req'[p].before = req[p].before
    BY <1>1, <2>3, FoundEffect
  <2> QED
    BY <2>1, <2>2, <2>4
<1>4. ASSUME NEW k \in req[p].todo, Goto(p, [req[p] EXCEPT !.todo = Left(k)])
      PROVE  /\ req'[p].t = req[p].t /\ req'[p].before = req[p].before
             /\ req'[p].todo = req[p].todo \ {k} /\ Advances(p, "scan_get")
  <2>1. PICK d : d = Left(k)
    OBVIOUS
  <2>2. Goto(p, [req[p] EXCEPT !.todo = d])
    BY <1>4, <2>1
  <2> QED
    BY <1>1, <2>1, <2>2, TodoEffect
<1>5. CASE req[p].todo = {} /\ Answer(p, req[p], "revoked")
  BY <1>1, <1>5, AnswerEffect
<1> HIDE DEF Left
<1> QED
  BY <1>1, <1>2, <1>3, <1>4, <1>5

\* The scan deletes the key whose record matched.
LEMMA ScanDeleteEffect ==
    ASSUME Shape, NEW p \in Request, ScanDelete(p)
    PROVE  /\ req[p].pc = "scan_delete" /\ Advances(p, "scan_get") /\ req'[p].t = req[p].t
           /\ req'[p].todo = req[p].todo /\ req'[p].before = req[p].before
           /\ grants' = Restrict(grants, DOMAIN grants \ req[p].rec)
  BY RecEffect DEF ScanDelete, At

-----------------------------------------------------------------------------
(* Control *)

Endpoints == Knocks \cup Api \cup {"page"}

Active(p) == req[p].pc \notin {"idle", "done"}

\* A worker is at a label of its request's endpoint.
LabelOf(p) ==
    /\ req[p].pc = "rate_ok" => ask[p] \in Knocks
    /\ req[p].pc \in {"challenge", "respond", "enroll", "grant", "enroll-code"} =>
         ask[p] = req[p].pc
    /\ req[p].pc \in {"nonce_claim", "put_grant"} => ask[p] = "respond"
    /\ req[p].pc \in {"consume_get", "consume_add", "consume_delete"} => ask[p] = "enroll"

\* A client sends a nonce and a code that it was given.
InputOf(p) ==
    Active(p) =>
        /\ ask[p] = "respond" => req[p].in.nonce \in DOMAIN minted
        /\ ask[p] = "enroll" => req[p].in.code \in Answered("code")

Control ==
    /\ Shape /\ ask \in [Request -> Endpoints]
    /\ DOMAIN minted \subseteq Request /\ \A n \in DOMAIN minted : req[n].pc = "done"
    /\ \A p \in Request : /\ LabelOf(p) /\ InputOf(p)
                          /\ req[p].out # "" => req[p].pc = "done"

\* The steps that lead to a label or an answer.
Comes(p) ==
    /\ req'[p].pc = "nonce_claim" => respond(p)
    /\ req'[p].pc = "put_grant" => nonce_claim(p)
    /\ req'[p].pc = "consume_add" => ConsumeGet(p)
    /\ req'[p].pc = "consume_delete" => ConsumeAdd(p)
    /\ req'[p].pc = "is_allowed" => GetCookie(p) \/ GetPlain(p)
    /\ req'[p].out = "allow" => is_allowed(p)
    /\ req'[p].out = "code" => ApiEnrollCode(p)
    /\ req'[p].pc = "revoke-token" => Access(p) \/ DeletePlain(p)
    /\ req'[p].pc = "scan_get" => Scan(p) \/ ScanGet(p) \/ ScanDelete(p)
    /\ req'[p].pc = "scan_delete" \/ req'[p].out = "revoked" => ScanGet(p)

\* What any step of p's worker does.
Moves(p) ==
    /\ Alone(p)
    /\ req[p].pc # "done" /\ req'[p].pc # "idle"
    /\ LabelOf(p)'
    /\ req'[p].out # "" => req'[p].pc = "done"
    /\ req[p].pc # "idle" /\ Active(p)' => SameRequest(p) /\ req'[p].key = req[p].key
    /\ req[p].pc \notin {"idle", "rate_ok"} /\ Active(p)' => req'[p].t = req[p].t
    /\ req[p].pc \in {"idle", "rate_ok"} /\ Active(p)' => req'[p].t = now
    /\ req[p].pc = "idle" /\ Active(p)' =>
         /\ req'[p].in \in Inputs(ask[p])
         /\ ask[p] \notin StoreOnly => req'[p].cfg = master.cfg /\ req'[p].key = master.key
    /\ req'[p].t \in {req[p].t, now, 0}
    /\ req'[p].before \in {req[p].before, {}} \/ DeletePlain(p) \/ Scan(p)
    /\ Comes(p)

\* Every step of a handler is one of the moves above.
LEMMA HandleMoves ==
    ASSUME Control, NEW p \in Request, Handle(p)
    PROVE  Moves(p)
<1>0. /\ Shape /\ LabelOf(p) /\ ask[p] \in Endpoints
      /\ req[p].out # "" => req[p].pc = "done"
  BY DEF Control
<1> USE <1>0 DEF Moves, Comes, Alone, Advances, SameScan, Returns, LabelOf, Active
<1>1. CASE Access(p)
  <2>1. PICK l : l = AfterRoute(ask[p])
    OBVIOUS
  <2>2. \/ ask[p] \in Knocks /\ l = "rate_ok"
        \/ ask[p] = "page" /\ l = "get_cookie"
        \/ ask[p] \in {"grant", "revoke", "revoke-token", "enroll-code"} /\ l = ask[p]
    BY <2>1 DEF AfterRoute, Endpoints, Knocks, Api
  <2>3. /\ req[p].pc = "idle"
        /\ \/ Returns(p) /\ req'[p].out = "deny"
           \/ /\ Alone(p)
              /\ req'[p].pc = l /\ req'[p].out = "" /\ req'[p].before = {}
              /\ req'[p].t = now /\ req'[p].in \in Inputs(ask[p])
              /\ ask[p] \notin StoreOnly =>
                   req'[p].cfg = master.cfg /\ req'[p].key = master.key
    BY <1>1, <2>1, AccessEffect
  <2> QED
    BY <1>1, <2>2, <2>3
<1>2. CASE rate_ok(p)
  <2>1. ask[p] \in {"challenge", "respond", "enroll"}
    BY <1>2, RateEffect DEF Knocks
  <2> QED
    BY <1>2, <2>1, RateEffect
<1>3. CASE challenge(p)
  BY <1>3, ChallengeEffect
<1>4. CASE respond(p)
  <2>1. /\ req[p].pc = "respond"
        /\ \/ Returns(p) /\ req'[p].out = "deny"
           \/ Advances(p, "nonce_claim") /\ SameScan(p) /\ req'[p].t = req[p].t
    BY <1>4, RespondEffect
  <2> QED
    BY <1>4, <2>1
<1>5. CASE nonce_claim(p)
  <2>1. /\ req[p].pc = "nonce_claim"
        /\ \/ Returns(p) /\ req'[p].out = "deny"
           \/ Advances(p, "put_grant") /\ SameScan(p) /\ req'[p].t = req[p].t
    BY <1>5, ClaimEffect
  <2> QED
    BY <1>5, <2>1
<1>6. CASE PutKnock(p)
  BY <1>6, KnockEffect DEF Puts
<1>7. CASE enroll(p)
  BY <1>7, EnrollEffect
<1>8. CASE ConsumeGet(p)
  BY <1>8, ConsumeGetEffect
<1>9. CASE ConsumeAdd(p)
  BY <1>9, ConsumeAddEffect
<1>10. CASE ConsumeDelete(p)
  BY <1>10, ConsumeDeleteEffect
<1>11. CASE GetCookie(p) \/ GetPlain(p)
  BY <1>11, GetEffect
<1>12. CASE is_allowed(p)
  BY <1>12, AllowEffect
<1>13. CASE ApiGrant(p)
  BY <1>13, ManualEffect DEF Puts
<1>14. CASE ApiEnrollCode(p)
  BY <1>14, EnrollCodeEffect
<1>15. CASE DeletePlain(p)
  BY <1>15, DeletePlainEffect
<1>16. CASE Scan(p)
  BY <1>16, ScanStartEffect
<1>17. CASE ScanGet(p)
  BY <1>17, ScanGetEffect
<1>18. CASE ScanDelete(p)
  BY <1>18, ScanDeleteEffect
<1> QED
  BY <1>1, <1>2, <1>3, <1>4, <1>5, <1>6, <1>7, <1>8, <1>9, <1>10, <1>11, <1>12, <1>13,
     <1>14, <1>15, <1>16, <1>17, <1>18 DEF Handle

\* What a step of a worker leaves alone.
StepFrame(p) ==
    /\ UNCHANGED <<now, master>>
    /\ UNCHANGED grants \/ PutKnock(p) \/ ApiGrant(p) \/ DeletePlain(p) \/ ScanDelete(p)
    /\ UNCHANGED <<spent, claims>> \/ nonce_claim(p)
    /\ UNCHANGED codes \/ ApiEnrollCode(p) \/ ConsumeDelete(p)
    /\ UNCHANGED marker \/ ConsumeAdd(p)
    /\ UNCHANGED minted \/ challenge(p)
    /\ UNCHANGED delivered \/ ConsumeDelete(p)

\* What no handler step touches: the clock, and each dictionary but the one
\* its step calls.
LEMMA HandleKeeps ==
    ASSUME NEW p \in Request, Handle(p)
    PROVE  StepFrame(p)
<1> USE DEF StepFrame, dicts, history
<1>1. CASE Access(p)
  BY <1>1 DEF Access
<1>2. CASE rate_ok(p)
  BY <1>2 DEF rate_ok
<1>3. CASE challenge(p)
  BY <1>3 DEF challenge
<1>4. CASE respond(p)
  BY <1>4 DEF respond
<1>5. CASE nonce_claim(p)
  BY <1>5 DEF nonce_claim
<1>6. CASE PutKnock(p)
  BY <1>6 DEF PutKnock, put_grant
<1>7. CASE enroll(p)
  BY <1>7 DEF enroll
<1>8. CASE ConsumeGet(p)
  BY <1>8 DEF ConsumeGet
<1>9. CASE ConsumeAdd(p)
  BY <1>9 DEF ConsumeAdd
<1>10. CASE ConsumeDelete(p)
  BY <1>10 DEF ConsumeDelete
<1>11. CASE GetCookie(p)
  BY <1>11 DEF GetCookie
<1>12. CASE GetPlain(p)
  BY <1>12 DEF GetPlain
<1>13. CASE is_allowed(p)
  BY <1>13 DEF is_allowed
<1>14. CASE ApiGrant(p)
  BY <1>14 DEF ApiGrant, put_grant
<1>15. CASE ApiEnrollCode(p)
  BY <1>15 DEF ApiEnrollCode
<1>16. CASE DeletePlain(p)
  BY <1>16 DEF DeletePlain
<1>17. CASE Scan(p)
  BY <1>17 DEF Scan
<1>18. CASE ScanGet(p)
  BY <1>18 DEF ScanGet
<1>19. CASE ScanDelete(p)
  BY <1>19 DEF ScanDelete
<1> QED
  BY <1>1, <1>2, <1>3, <1>4, <1>5, <1>6, <1>7, <1>8, <1>9, <1>10, <1>11, <1>12, <1>13,
     <1>14, <1>15, <1>16, <1>17, <1>18, <1>19 DEF Handle

\* The clock may go on: no exchange of a code has taken MaxStall seconds.
NobodyStalled == \A p \in Request : Exchanging(p) => now < req[p].t + MaxStall

\* A reload or a tick of the clock leaves requests and dictionaries alone.
LEMMA OtherKeeps ==
    ASSUME [Next]_vars, ~\E p \in Request : Handle(p)
    PROVE  /\ UNCHANGED <<ask, dicts, minted, req, history>>
           /\ now' = now \/ (now' = now + 1 /\ now < MaxTime /\ NobodyStalled)
           /\ \/ master' = master
              \/ \E c \in DOMAIN Configs : master' = [cfg |-> c, key |-> master.key + 1]
<1>1. CASE \E c \in DOMAIN Configs : Reload(c)
  BY <1>1 DEF Reload
<1>2. CASE Tick
  BY <1>2 DEF Tick, NobodyStalled
<1>3. CASE UNCHANGED vars
  BY <1>3 DEF vars
<1> QED
  BY <1>1, <1>2, <1>3 DEF Next

\* A request that has been answered stays as it is.
LEMMA DoneKept ==
    ASSUME Control, [Next]_vars
    PROVE  UNCHANGED ask /\ \A q \in Request : req[q].pc = "done" => req'[q] = req[q]
<1>1. CASE \E p \in Request : Handle(p)
  BY <1>1, HandleMoves DEF Moves, Alone
<1>2. CASE ~\E p \in Request : Handle(p)
  BY <1>2, OtherKeeps
<1> QED
  BY <1>1, <1>2

\* A request stays as it is while its worker does not move.
LEMMA StillKept ==
    ASSUME Control, [Next]_vars, NEW p \in Request, ~Handle(p)
    PROVE  req'[p] = req[p]
<1>1. CASE \E q \in Request : Handle(q)
  BY <1>1, HandleMoves DEF Moves, Alone
<1>2. CASE ~\E q \in Request : Handle(q)
  BY <1>2, OtherKeeps
<1> QED
  BY <1>1, <1>2

\* With adds one entry, Without removes one.
LEMMA WithIs ==
    ASSUME NEW d, NEW k, NEW e
    PROVE  /\ DOMAIN With(d, k, e) = DOMAIN d \cup {k}
           /\ With(d, k, e)[k] = e
           /\ \A x \in DOMAIN d \ {k} : With(d, k, e)[x] = d[x]
  BY DEF With

\* A nonce stays on record as it was minted.
LEMMA MintedKept ==
    ASSUME Control, [Next]_vars
    PROVE  /\ DOMAIN minted \subseteq DOMAIN minted'
           /\ \A n \in DOMAIN minted : minted'[n] = minted[n]
<1>1. ASSUME NEW p \in Request, Handle(p)
      PROVE  /\ DOMAIN minted \subseteq DOMAIN minted'
             /\ \A n \in DOMAIN minted : minted'[n] = minted[n]
  <2>1. CASE challenge(p)
    <3>1. p \notin DOMAIN minted
      BY <2>1, ChallengeEffect DEF Control
    <3>2. PICK e : minted' = With(minted, p, e)
      BY <2>1 DEF challenge
    <3>3. /\ DOMAIN With(minted, p, e) = DOMAIN minted \cup {p}
          /\ \A x \in DOMAIN minted \ {p} : With(minted, p, e)[x] = minted[x]
      BY DEF With
    <3> QED
      BY <3>1, <3>2, <3>3
  <2> QED
    BY <1>1, <2>1, HandleKeeps DEF StepFrame
<1>2. CASE ~\E p \in Request : Handle(p)
  BY <1>2, OtherKeeps
<1> QED
  BY <1>1, <1>2

\* Every step keeps the handlers in control.
LEMMA ControlStep ==
    ASSUME Control, [Next]_vars
    PROVE  Control'
<1>1. ASSUME NEW p \in Request, Handle(p)
      PROVE  Control'
  <2>1. Moves(p)
    BY <1>1, HandleMoves
  <2>2. \A q \in Request : LabelOf(q)' /\ (req'[q].out # "" => req'[q].pc = "done")
    BY <2>1 DEF Moves, Alone, LabelOf, Control
  <2>3. DOMAIN minted' \subseteq Request /\ \A n \in DOMAIN minted' : req'[n].pc = "done"
    <3>1. CASE UNCHANGED minted
      BY <3>1, DoneKept DEF Control
    <3>2. CASE challenge(p)
      <4>1. DOMAIN minted' = DOMAIN minted \cup {p}
        BY <3>2, WithIs DEF challenge
      <4>2. req'[p].pc = "done"
        BY <3>2, ChallengeEffect DEF Control, Returns
      <4> QED
        BY <4>1, <4>2, DoneKept DEF Control
    <3> QED
      BY <1>1, <3>1, <3>2, HandleKeeps DEF StepFrame
  <2>4. Answered("code") \subseteq Answered("code")'
    BY DoneKept DEF Answered, Control
  <2>5. ASSUME NEW q \in Request
        PROVE  InputOf(q)'
    <3>1. ask'[q] = ask[q]
      BY DoneKept
    <3>2. CASE Active(q) /\ req'[q].in = req[q].in
      BY <3>1, <3>2, <2>4, MintedKept DEF Control, InputOf
    <3>3. CASE req'[q].in \in Inputs(ask[q])
      <4>1. /\ ask[q] = "respond" => req'[q].in.nonce \in DOMAIN minted
            /\ ask[q] = "enroll" => req'[q].in.code \in Answered("code")
        BY <3>3 DEF Inputs
      <4> QED
        BY <3>1, <4>1, <2>4, MintedKept DEF InputOf
    <3> QED
      BY <2>1, <3>2, <3>3 DEF Moves, Alone, Active, InputOf, SameRequest
  <2>6. Shape' /\ ask' = ask
    BY <2>1 DEF Moves, Alone
  <2> QED
    BY <2>2, <2>3, <2>5, <2>6 DEF Control
<1>2. CASE ~\E p \in Request : Handle(p)
  <2>1. ask' = ask /\ minted' = minted /\ req' = req
    BY <1>2, OtherKeeps
  <2>2. \A p \in Request : InputOf(p)'
    BY <2>1 DEF Control, InputOf, Active, Answered
  <2>3. \A p \in Request : LabelOf(p)'
    BY <2>1 DEF Control, LabelOf
  <2> QED
    BY <2>1, <2>2, <2>3 DEF Control, Shape
<1> QED
  BY <1>1, <1>2

\* The handlers start in control.
LEMMA ControlInit ==
    ASSUME Init
    PROVE  Control
<1>1. minted = <<>> /\ req = [p \in Request |-> Idle] /\ ask \in Scenes
  BY DEF Init
<1>2. DOMAIN minted = {}
  BY <1>1
<1>3. \A p \in Request : req[p].pc = "idle" /\ req[p].out = ""
  BY <1>1 DEF Idle
<1>4. ask \in [Request -> Endpoints]
  BY <1>1, LuaGateAssumption DEF Endpoints
<1> QED
  BY <1>1, <1>2, <1>3, <1>4 DEF Control, Shape, LabelOf, InputOf, Active

\* What a step of p's worker may leave in the dictionary of the grants: what
\* was there, and the record that it puts.
LEMMA GrantsStep ==
    ASSUME Control, NEW p \in Request, Handle(p), NEW k \in DOMAIN grants'
    PROVE  \/ k \in DOMAIN grants /\ grants'[k] = grants[k]
           \/ /\ PutKnock(p) /\ grants'[k].val = KnockRecord(p)
              /\ k = KeyOf(KnockRecord(p))
           \/ /\ ApiGrant(p) /\ grants'[k].val = ManualRecord(p)
              /\ k = KeyOf(ManualRecord(p))
<1>1. ASSUME NEW rec, Puts(p, rec)
      PROVE  \/ k \in DOMAIN grants /\ grants'[k] = grants[k]
             \/ grants'[k].val = rec /\ k = KeyOf(rec)
  <2>1. PICK till : grants' = With(grants, KeyOf(rec), [val |-> rec, till |-> till])
    BY <1>1 DEF Puts
  <2> QED
    BY <2>1 DEF With
<1>2. ASSUME NEW S, grants' = Restrict(grants, DOMAIN grants \ S)
      PROVE  k \in DOMAIN grants /\ grants'[k] = grants[k]
  BY <1>2 DEF Restrict
<1>3. CASE PutKnock(p)
  <2>1. PICK rec : rec = KnockRecord(p)
    OBVIOUS
  <2>2. Puts(p, rec)
    BY <1>3, <2>1, KnockEffect DEF Control
  <2> QED
    BY <1>1, <1>3, <2>1, <2>2
<1>4. CASE ApiGrant(p)
  <2>1. PICK rec : rec = ManualRecord(p)
    OBVIOUS
  <2>2. Puts(p, rec)
    BY <1>4, <2>1, ManualEffect DEF Control
  <2> QED
    BY <1>1, <1>4, <2>1, <2>2
<1>5. CASE DeletePlain(p)
  <2>1. \E x : grants' = Restrict(grants, DOMAIN grants \ {x})
    BY <1>5, DeletePlainEffect DEF Control, Without
  <2> QED
    BY <1>2, <2>1
<1>6. CASE ScanDelete(p)
  <2>1. PICK S : S = req[p].rec
    OBVIOUS
  <2> QED
    BY <1>2, <1>6, <2>1, ScanDeleteEffect DEF Control
<1>7. CASE UNCHANGED grants
  BY <1>7
<1> QED
  BY <1>3, <1>4, <1>5, <1>6, <1>7, HandleKeeps DEF StepFrame

-----------------------------------------------------------------------------
(* LuaJustified *)

\* The lifetime that request q asked for its record.
Lifetime(q) == IF ask[q] = "grant" THEN req[q].in.ttl ELSE grant_ttl(req[q].cfg, req[q].service)

\* The request that g names put it: by hand, or for the secret that g is
\* bound to.
Backed(g) ==
    /\ g.by \in Request /\ req[g.by].out = "granted" /\ ask[g.by] \in {"grant", "respond"}
    /\ g.service = req[g.by].service /\ g.ip = req[g.by].ip
    /\ g.exp = req[g.by].t + Lifetime(g.by)
    /\ ask[g.by] = "respond" =>
         /\ g.manual = FALSE
         /\ g.kid = req[g.by].in.device[1] /\ g.secret_fp = SecretHash(req[g.by].in.device[2])
         /\ g.binding = "ip+cookie" => g.cookie_hash = Hash(g.by)

\* The dictionary holds only records that some request put.
StoredBacked == \A k \in DOMAIN grants : \A g \in {grants[k].val} : Backed(g)

\* So does the gate, between its get and its answer.
HeldBacked ==
    \A p \in Request : req[p].pc = "is_allowed" \/ req[p].out = "allow" =>
        \A g \in req[p].rec : Backed(g)

\* The gate let p through on g.
Admitted(p, g) ==
    /\ Admits(g, req[p])
    /\ Svc(req[p]).binding = "ip+cookie" => g.binding = "ip+cookie"

JustInv ==
    /\ Control
    /\ \A p \in Request : req[p].pc \in {"nonce_claim", "put_grant"} => Proven(p)
    /\ StoredBacked /\ HeldBacked
    /\ \A p \in Request : req[p].out = "allow" => \A g \in req[p].rec : Admitted(p, g)

\* Who put a record does not change.
LEMMA BackedKept ==
    ASSUME Control, [Next]_vars, NEW g, Backed(g)
    PROVE  Backed(g)'
<1>1. req'[g.by] = req[g.by] /\ ask' = ask
  BY DoneKept DEF Control, Backed
<1> QED
  BY <1>1 DEF Backed, Lifetime

\* A record put by a knock that proved its secret is backed.
LEMMA KnockBacked ==
    ASSUME Control, NEW p \in Request, PutKnock(p), Proven(p), NEW g, g = KnockRecord(p)
    PROVE  Backed(g)'
<1>1. /\ ask'[p] = "respond" /\ SameRequest(p) /\ req'[p].t = req[p].t
      /\ req'[p].out = "granted"
  BY KnockEffect DEF Control, Puts, Alone, LabelOf
<1>2. /\ g.by = p /\ g.service = req[p].service /\ g.ip = req[p].ip /\ g.manual = FALSE
      /\ g.exp = req[p].t + grant_ttl(req[p].cfg, req[p].service)
      /\ g.kid = req[p].in.device[1]
      /\ g.secret_fp = Fingerprint(registry(req[p].cfg), req[p].in.device[1])
      /\ g.binding = "ip+cookie" => g.cookie_hash = Hash(p)
  BY DEF KnockRecord, record
<1>3. g.secret_fp = SecretHash(req[p].in.device[2])
  BY <1>2 DEF Proven, Fingerprint
<1> QED
  BY <1>1, <1>2, <1>3 DEF Backed, SameRequest, Lifetime

\* So is one put by hand.
LEMMA ManualBacked ==
    ASSUME Control, NEW p \in Request, ApiGrant(p), NEW g, g = ManualRecord(p)
    PROVE  Backed(g)'
<1>1. /\ ask'[p] = "grant" /\ SameRequest(p) /\ req'[p].t = req[p].t
      /\ req'[p].out = "granted"
  BY ManualEffect DEF Control, Puts, Alone, LabelOf
<1>2. /\ g.by = p /\ g.service = req[p].service /\ g.ip = req[p].ip
      /\ g.exp = req[p].t + req[p].in.ttl
  BY DEF ManualRecord, record
<1> QED
  BY <1>1, <1>2 DEF Backed, SameRequest, Lifetime

\* Every record in the dictionary after a step was put by some request.
LEMMA StoredStep ==
    ASSUME JustInv, [Next]_vars
    PROVE  StoredBacked'
<1>1. ASSUME NEW k \in DOMAIN grants, NEW g \in {grants[k].val}
      PROVE  Backed(g)'
  BY BackedKept DEF JustInv, StoredBacked
<1>2. ASSUME NEW p \in Request, Handle(p), NEW k \in DOMAIN grants', NEW g \in {grants'[k].val}
      PROVE  Backed(g)'
  <2>1. CASE k \in DOMAIN grants /\ grants'[k] = grants[k]
    BY <1>1, <2>1
  <2>2. CASE PutKnock(p) /\ grants'[k].val = KnockRecord(p)
    <3>1. Proven(p)
      BY <2>2, KnockEffect DEF JustInv, Control
    <3> QED
      BY <2>2, <3>1, KnockBacked DEF JustInv
  <2>3. CASE ApiGrant(p) /\ grants'[k].val = ManualRecord(p)
    BY <2>3, ManualBacked DEF JustInv
  <2> QED
    BY <1>2, <2>1, <2>2, <2>3, GrantsStep DEF JustInv
<1>3. CASE ~\E p \in Request : Handle(p)
  BY <1>1, <1>3, OtherKeeps DEF dicts, StoredBacked
<1> QED
  BY <1>2, <1>3 DEF StoredBacked

\* Every record a handler read from the dictionary was put by some request.
LEMMA HeldStep ==
    ASSUME JustInv, [Next]_vars
    PROVE  HeldBacked'
<1> SUFFICES ASSUME NEW p \in Request, req'[p].pc = "is_allowed" \/ req'[p].out = "allow",
                    NEW g \in req'[p].rec
             PROVE  Backed(g)'
  BY DEF HeldBacked
<1>1. CASE req'[p].rec = req[p].rec /\ (req[p].pc = "is_allowed" \/ req[p].out = "allow")
  BY <1>1, BackedKept DEF JustInv, HeldBacked
<1>2. CASE \E k \in DOMAIN grants : req'[p].rec = {grants[k].val}
  BY <1>2, BackedKept DEF JustInv, StoredBacked
<1>3. CASE Handle(p)
  <2>1. Comes(p) /\ Alone(p)
    BY <1>3, HandleMoves DEF Moves, JustInv
  <2>2. CASE GetCookie(p) \/ GetPlain(p)
    BY <2>2, <1>2, GetEffect DEF JustInv, Control, Returns, Advances
  <2>3. CASE is_allowed(p)
    BY <2>3, <1>1, AllowEffect DEF JustInv, Control, Returns
  <2> QED
    BY <2>1, <2>2, <2>3 DEF Comes
<1>4. CASE ~Handle(p)
  BY <1>1, <1>4, StillKept DEF JustInv
<1> QED
  BY <1>3, <1>4

\* A knock between its checks and its put keeps its proof, whatever the
\* master loads meanwhile.
LEMMA ProvenStep ==
    ASSUME JustInv, [Next]_vars, NEW p \in Request, req'[p].pc \in {"nonce_claim", "put_grant"}
    PROVE  Proven(p)'
<1>1. CASE SameRequest(p) /\ Proven(p)
  BY <1>1 DEF SameRequest, Proven
<1>2. CASE Handle(p)
  <2>1. Comes(p)
    BY <1>2, HandleMoves DEF Moves, JustInv
  <2>2. CASE respond(p)
    BY <1>1, <2>2, RespondEffect DEF JustInv, Control, Returns, Advances
  <2>3. CASE nonce_claim(p)
    BY <1>1, <2>3, ClaimEffect DEF JustInv, Control, Returns, Advances
  <2> QED
    BY <2>1, <2>2, <2>3 DEF Comes
<1>3. CASE ~Handle(p)
  BY <1>1, <1>3, StillKept DEF JustInv, SameRequest
<1> QED
  BY <1>2, <1>3

\* A handler that opens the gate does so with a record that admits its
\* client.
LEMMA AdmittedStep ==
    ASSUME JustInv, [Next]_vars, NEW p \in Request, req'[p].out = "allow", NEW g \in req'[p].rec
    PROVE  Admitted(p, g)'
<1>1. CASE Handle(p)
  <2>1. is_allowed(p)
    BY <1>1, HandleMoves DEF Moves, Comes, JustInv
  <2>2. /\ SameRequest(p) /\ req'[p].t = req[p].t /\ Admitted(p, g)
    BY <2>1, AllowEffect DEF JustInv, Control, Returns, Admitted
  <2> QED
    BY <2>2 DEF Admitted, SameRequest, Admits, Svc, CookieHash
<1>2. CASE ~Handle(p)
  <2>1. req'[p] = req[p]
    BY <1>2, StillKept DEF JustInv
  <2> QED
    BY <2>1 DEF Admitted, JustInv
<1> QED
  BY <1>1, <1>2

\* The digest of a cookie or a secret tells it apart from others and from none.
LEMMA HashIs ==
    /\ \A a, b : Hash(a) = Hash(b) => a = b
    /\ \A a : Hash(a) # NoHash
    /\ \A a, b : SecretHash(a) = SecretHash(b) => a = b
    /\ \A a : SecretHash(a) # NoFP
  BY DEF Hash, NoHash, SecretHash, NoFP

\* A gate that let a request through on a backed record was justified.
LEMMA AdmittedJustified ==
    ASSUME JustInv
    PROVE  LuaJustified
<1> SUFFICES ASSUME NEW p \in Request, NEW g \in req[p].rec, req[p].out = "allow"
             PROVE  /\ ask[g.by] \in {"grant", "respond"}
                    /\ req[g.by].t + Lifetime(g.by) > req[p].t
                    /\ req[g.by].service = req[p].service /\ req[g.by].ip = req[p].ip
                    /\ ask[g.by] = "respond" =>
                         /\ Authorize(registry(req[p].cfg), req[g.by].in.device[1],
                                      req[p].service, req[p].t)
                         /\ registry(req[p].cfg).tokens[req[g.by].in.device[1]].secret
                              = req[g.by].in.device[2]
                         /\ "ip+cookie" \in {g.binding, Svc(req[p]).binding} =>
                              req[p].in.cookie = g.by
  BY DEF LuaJustified, Lifetime
<1>1. Backed(g) /\ Admitted(p, g)
  BY DEF JustInv, HeldBacked
<1>2. /\ ask[g.by] \in {"grant", "respond"}
      /\ req[g.by].t + Lifetime(g.by) > req[p].t
      /\ req[g.by].service = req[p].service /\ req[g.by].ip = req[p].ip
  BY <1>1 DEF Backed, Admitted, Admits
<1>3. ASSUME ask[g.by] = "respond"
      PROVE  /\ Authorize(registry(req[p].cfg), req[g.by].in.device[1],
                          req[p].service, req[p].t)
             /\ registry(req[p].cfg).tokens[req[g.by].in.device[1]].secret
                  = req[g.by].in.device[2]
  <2>1. /\ g.kid = req[g.by].in.device[1]
        /\ SecretHash(req[g.by].in.device[2]) = Fingerprint(registry(req[p].cfg), g.kid)
        /\ Authorize(registry(req[p].cfg), g.kid, req[p].service, req[p].t)
    BY <1>1, <1>3 DEF Backed, Admitted, Admits
  <2>2. SecretHash(req[g.by].in.device[2])
          = SecretHash(registry(req[p].cfg).tokens[g.kid].secret)
    BY <2>1 DEF Fingerprint, Authorize
  <2> QED
    BY <2>1, <2>2, HashIs
<1>4. ASSUME ask[g.by] = "respond", "ip+cookie" \in {g.binding, Svc(req[p]).binding}
      PROVE  req[p].in.cookie = g.by
  <2>1. Hash(g.by) = CookieHash(req[p])
    BY <1>1, <1>4 DEF Backed, Admitted, Admits
  <2> QED
    BY <2>1, HashIs DEF CookieHash
<1> QED
  BY <1>2, <1>3, <1>4

\* Nothing is stored and nothing is open at the start.
LEMMA JustInit ==
    ASSUME Init
    PROVE  JustInv
<1>1. grants = <<>> /\ req = [p \in Request |-> Idle]
  BY DEF Init
<1>2. DOMAIN grants = {}
  BY <1>1
<1>3. \A p \in Request : req[p].pc = "idle" /\ req[p].out = ""
  BY <1>1 DEF Idle
<1> QED
  BY <1>2, <1>3, ControlInit DEF JustInv, StoredBacked, HeldBacked

\* access() in openresty.lua lets a request fall through to the upstream only
\* on a record that has not run out and that an admin or a knock put for the
\* same service and address, the knock with the secret that the worker's own
\* registry holds and, where the binding asks for it, the knock's own cookie:
\* for any number of workers, interleaved dictionary by dictionary operation,
\* and any sequence of reloads.
THEOREM LuaGated == Spec => []LuaJustified
<1>1. Init => JustInv
  BY JustInit
<1>2. JustInv /\ [Next]_vars => JustInv'
  <2> SUFFICES ASSUME JustInv, [Next]_vars
               PROVE  JustInv'
    OBVIOUS
  <2>1. Control'
    BY ControlStep DEF JustInv
  <2>2. \A p \in Request : req'[p].pc \in {"nonce_claim", "put_grant"} => Proven(p)'
    BY ProvenStep
  <2>3. \A p \in Request : req'[p].out = "allow" => \A g \in req'[p].rec : Admitted(p, g)'
    BY AdmittedStep
  <2> QED
    BY <2>1, <2>2, <2>3, StoredStep, HeldStep DEF JustInv
<1>3. JustInv => LuaJustified
  BY AdmittedJustified
<1> QED
  BY <1>1, <1>2, <1>3, PTL DEF Spec

-----------------------------------------------------------------------------
(* LuaNonceOnce *)

\* No worker's time is ahead of the clock.
Timely == now \in 0..MaxTime /\ \A p \in Request : req[p].t \in 0..now

\* A worker that has a request of the protocol in hand, with the config and
\* the nonce key of the init() it was forked from.
Serving(p) == Active(p) /\ ask[p] \in Knocks

\* The master or a serving worker has nonce key k and config c.
Holds(k, c) ==
    \/ master.key = k /\ master.cfg = c
    \/ \E p \in Request : Serving(p) /\ req[p].key = k /\ req[p].cfg = c

\* init() draws a new key, so that whoever has a key has one config.
Keys ==
    /\ master.cfg \in DOMAIN Configs /\ master.key \in Nat
    /\ \A p \in Request : Serving(p) => /\ req[p].cfg \in DOMAIN Configs
                                        /\ req[p].key \in 0..master.key
    /\ \A k \in 0..master.key : \A c, d \in DOMAIN Configs :
         Holds(k, c) /\ Holds(k, d) => c = d

MintedTypes ==
    \A n \in DOMAIN minted : minted[n].ts \in Nat /\ minted[n].key \in 0..master.key

\* The nonce is fresh for a worker that is about to claim it.
Verified(p) ==
    /\ minted[req[p].in.nonce].key = req[p].key
    /\ minted[req[p].in.nonce].ts <= req[p].t
    /\ req[p].t - minted[req[p].in.nonce].ts < Configs[req[p].cfg].nonceTTL

\* The marker of nonce n lives as long as n is fresh under config c.
Remembered(n, c) ==
    n \in DOMAIN spent /\ spent[n].till \in Nat
                       /\ minted[n].ts + Configs[c].nonceTTL <= spent[n].till

\* It does so under every config that whoever can verify n has.
Claimed(n) ==
    /\ n \in DOMAIN minted
    /\ \A k \in {minted[n].key}, c \in DOMAIN Configs : Holds(k, c) => Remembered(n, c)

ClaimsOf(n) == claims[n] = 0 \/ (claims[n] = 1 /\ Claimed(n))

NonceInv ==
    /\ Control /\ Timely /\ Keys /\ MintedTypes
    /\ \A p \in Request : req[p].pc = "nonce_claim" => Verified(p)
    /\ DOMAIN claims = Request /\ \A n \in Request : ClaimsOf(n)

\* Clock readings stay in the past of the clock.
LEMMA TimelyStep ==
    ASSUME Control, Timely, [Next]_vars
    PROVE  Timely'
<1> USE LuaGateAssumption
<1>1. now' \in 0..MaxTime /\ now <= now'
  <2>1. CASE \E p \in Request : Handle(p)
    BY <2>1, HandleKeeps DEF StepFrame, Timely
  <2>2. CASE ~\E p \in Request : Handle(p)
    BY <2>2, OtherKeeps DEF Timely
  <2> QED
    BY <2>1, <2>2
<1>2. ASSUME NEW p \in Request
      PROVE  req'[p].t \in {req[p].t, now, 0}
  <2>1. CASE Handle(p)
    BY <2>1, HandleMoves DEF Moves
  <2>2. CASE ~Handle(p)
    BY <2>2, StillKept
  <2> QED
    BY <2>1, <2>2
<1> QED
  BY <1>1, <1>2 DEF Timely

\* All clocks start at zero.
LEMMA TimelyInit ==
    ASSUME Init
    PROVE  Timely
<1>1. \A p \in Request : req[p].t = 0
  BY DEF Init, Idle
<1> QED
  BY <1>1, LuaGateAssumption DEF Timely, Init

\* A worker that is serving was, or has just been given the master's pair.
LEMMA ServingFrom ==
    ASSUME Control, [Next]_vars, NEW p \in Request, Serving(p)'
    PROVE  \/ Serving(p) /\ req'[p].cfg = req[p].cfg /\ req'[p].key = req[p].key
           \/ /\ req'[p].cfg = master.cfg /\ req'[p].key = master.key
              /\ Handle(p)
<1>1. ask'[p] = ask[p] /\ ask[p] \in Knocks /\ ask[p] \notin StoreOnly
  BY DoneKept DEF Serving, Knocks, StoreOnly, Api
<1>2. CASE Handle(p)
  BY <1>1, <1>2, HandleMoves DEF Moves, Serving, Active, SameRequest
<1>3. CASE ~Handle(p)
  BY <1>1, <1>3, StillKept DEF Serving, Active
<1> QED
  BY <1>2, <1>3

\* A step gives a key that was drawn before to nobody with another config.
LEMMA HoldsFrom ==
    ASSUME Control, Keys, [Next]_vars, NEW k \in 0..master.key, NEW c, Holds(k, c)'
    PROVE  Holds(k, c)
<1>1. ASSUME NEW p \in Request, Serving(p)', req'[p].key = k, req'[p].cfg = c
      PROVE  Holds(k, c)
  BY <1>1, ServingFrom DEF Holds
<1>2. ASSUME master'.key = k, master'.cfg = c
      PROVE  Holds(k, c)
  <2>1. master' = master \/ master'.key = master.key + 1
    BY HandleKeeps, OtherKeeps DEF StepFrame
  <2>2. master' = master
    BY <1>2, <2>1 DEF Keys
  <2> QED
    BY <1>2, <2>2 DEF Holds
<1> QED
  BY <1>1, <1>2 DEF Holds

\* The master only moves on to a new key.
LEMMA MasterStep ==
    ASSUME Keys, [Next]_vars
    PROVE  /\ master'.cfg \in DOMAIN Configs /\ master'.key \in Nat
           /\ \/ master' = master
              \/ master'.key = master.key + 1 /\ UNCHANGED <<ask, req>>
<1>1. CASE \E p \in Request : Handle(p)
  BY <1>1, HandleKeeps DEF StepFrame, Keys
<1>2. CASE ~\E p \in Request : Handle(p)
  BY <1>2, OtherKeeps DEF Keys
<1> QED
  BY <1>1, <1>2

\* A nonce key belongs to one config: a reload that changes the config draws
\* another.
LEMMA KeysStep ==
    ASSUME Control, Keys, [Next]_vars
    PROVE  Keys'
<1>1. /\ master'.cfg \in DOMAIN Configs /\ master'.key \in Nat
      /\ \/ master' = master
         \/ master'.key = master.key + 1 /\ UNCHANGED <<ask, req>>
  BY MasterStep
<1>2. ASSUME NEW p \in Request, Serving(p)'
      PROVE  req'[p].cfg \in DOMAIN Configs /\ req'[p].key \in 0..master.key
  BY <1>2, ServingFrom DEF Keys
<1>3. ASSUME NEW k \in 0..master'.key, NEW c \in DOMAIN Configs, NEW d \in DOMAIN Configs,
             Holds(k, c)', Holds(k, d)'
      PROVE  c = d
  <2>1. CASE k \in 0..master.key
    BY <1>3, <2>1, HoldsFrom DEF Keys
  <2>2. CASE k \notin 0..master.key
    <3>1. k = master.key + 1
      BY <1>1, <1>3, <2>2 DEF Keys
    <3>2. \A p \in Request : Serving(p)' => req'[p].key # k
      BY <1>2, <2>2
    <3>3. master'.cfg = c /\ master'.cfg = d
      BY <1>3, <3>2 DEF Holds
    <3> QED
      BY <3>3
  <2> QED
    BY <2>1, <2>2
<1>4. \A p \in Request : Serving(p)' => req'[p].key \in 0..master'.key
  BY <1>1, <1>2 DEF Keys
<1> QED
  BY <1>1, <1>2, <1>3, <1>4 DEF Keys

\* Nonces are dated in the past and keyed by a config.
LEMMA MintedTypesStep ==
    ASSUME Control, Timely, Keys, MintedTypes, [Next]_vars
    PROVE  MintedTypes'
<1>1. \A k \in 0..master.key : k \in 0..master'.key
  BY MasterStep DEF Keys
<1>2. ASSUME NEW n \in DOMAIN minted'
      PROVE  minted'[n].ts \in Nat /\ minted'[n].key \in 0..master.key
  <2>1. CASE n \in DOMAIN minted
    BY <2>1, MintedKept DEF MintedTypes
  <2>2. CASE n \notin DOMAIN minted
    <3>1. PICK p \in Request : challenge(p)
      BY <2>2, <1>2, HandleKeeps, OtherKeeps DEF StepFrame
    <3>2. n = p /\ minted'[n].ts = req[p].t /\ minted'[n].key = req[p].key
      BY <2>2, <1>2, <3>1 DEF challenge, With
    <3>3. Serving(p)
      BY <3>1, ChallengeEffect DEF Control, Serving, Active, LabelOf, Knocks
    <3> QED
      BY <3>2, <3>3 DEF Timely, Keys
  <2> QED
    BY <2>1, <2>2
<1> QED
  BY <1>1, <1>2 DEF MintedTypes

\* A knock has a nonce that was handed out.
LEMMA KnockInput ==
    ASSUME Control, NEW p \in Request, req[p].pc \in {"respond", "nonce_claim"}
    PROVE  Serving(p) /\ req[p].in.nonce \in DOMAIN minted
<1>1. ask[p] = "respond" /\ Active(p)
  BY DEF Control, LabelOf, Active
<1>2. InputOf(p)
  BY DEF Control
<1> QED
  BY <1>1, <1>2 DEF InputOf, Serving, Knocks

\* A handler at nonce_claim holds a nonce that was fresh when it read the
\* clock, by the TTL of the config it claims with.
LEMMA VerifiedStep ==
    ASSUME NonceInv, [Next]_vars, NEW p \in Request, req'[p].pc = "nonce_claim"
    PROVE  Verified(p)'
<1>1. CASE Handle(p)
  <2>1. respond(p)
    BY <1>1, HandleMoves DEF Moves, Comes, NonceInv
  <2>2. /\ Advances(p, "nonce_claim") /\ req'[p].t = req[p].t
        /\ verify_nonce(req[p].in.nonce, req[p])
    BY <2>1, RespondEffect DEF NonceInv, Control, Returns
  <2>3. req[p].in.nonce \in DOMAIN minted
    BY <2>1, RespondEffect, KnockInput DEF NonceInv, Control
  <2>4. minted'[req[p].in.nonce] = minted[req[p].in.nonce]
    BY <2>3, MintedKept DEF NonceInv
  <2> QED
    BY <2>2, <2>4 DEF Advances, SameRequest, verify_nonce, Verified
<1>2. CASE ~Handle(p)
  <2>1. req'[p] = req[p]
    BY <1>2, StillKept DEF NonceInv
  <2>2. req[p].in.nonce \in DOMAIN minted
    BY <2>1, KnockInput DEF NonceInv
  <2>3. minted'[req[p].in.nonce] = minted[req[p].in.nonce]
    BY <2>2, MintedKept DEF NonceInv
  <2> QED
    BY <2>1, <2>3 DEF NonceInv, Verified
<1> QED
  BY <1>1, <1>2

\* A nonce that is remembered stays so while its marker is left alone.
LEMMA ClaimedKept ==
    ASSUME NonceInv, [Next]_vars, NEW n, Claimed(n),
           n \in DOMAIN spent => n \in DOMAIN spent' /\ spent'[n] = spent[n]
    PROVE  Claimed(n)'
<1>1. n \in DOMAIN minted' /\ minted'[n] = minted[n] /\ minted[n].key \in 0..master.key
  BY MintedKept DEF NonceInv, Claimed, MintedTypes
<1>2. ASSUME NEW k \in {minted'[n].key}, NEW c \in DOMAIN Configs, Holds(k, c)'
      PROVE  Remembered(n, c)'
  <2>1. Holds(k, c)
    BY <1>1, <1>2, HoldsFrom DEF NonceInv
  <2>2. Remembered(n, c)
    BY <1>1, <2>1 DEF Claimed
  <2> QED
    BY <1>1, <2>2 DEF Remembered
<1> QED
  BY <1>1, <1>2 DEF Claimed

\* The first claim of a fresh nonce leaves a marker that outlives it under
\* every config with the nonce's key; a second finds the marker.
LEMMA ClaimStep ==
    ASSUME NonceInv, [Next]_vars, NEW p \in Request, nonce_claim(p), Handle(p)
    PROVE  DOMAIN claims' = Request /\ \A n \in Request : ClaimsOf(n)'
<1>1. PICK n : n = req[p].in.nonce
  OBVIOUS
<1>2. PICK c : c = req[p].cfg
  OBVIOUS
<1>3. /\ req[p].pc = "nonce_claim" /\ Serving(p) /\ n \in DOMAIN minted /\ n \in Request
  BY <1>1, ClaimEffect, KnockInput DEF NonceInv, Control
<1>4. /\ minted[n].key = req[p].key /\ minted[n].ts <= req[p].t
      /\ req[p].t - minted[n].ts < Configs[c].nonceTTL
  BY <1>1, <1>2, <1>3 DEF NonceInv, Verified
<1>5. /\ req[p].t \in Nat /\ minted[n].ts \in Nat /\ minted[n].key \in 0..master.key
      /\ c \in DOMAIN Configs /\ Configs[c].nonceTTL \in Nat /\ Holds(minted[n].key, c)
  BY <1>2, <1>3, <1>4, LuaGateAssumption DEF NonceInv, Timely, MintedTypes, Keys, Holds
<1>6. minted'[n] = minted[n] /\ n \in DOMAIN minted'
  BY <1>3, MintedKept DEF NonceInv
<1>7. CASE Returns(p) /\ UNCHANGED <<spent, claims>>
  BY <1>7, ClaimedKept DEF NonceInv, ClaimsOf
<1>8. CASE /\ ~Present(spent, n, req[p].t)
           /\ spent' = With(spent, n, Entry(TRUE, req[p].t, Configs[c].nonceTTL))
           /\ claims' = [claims EXCEPT ![n] = @ + 1]
  <2>1. claims[n] = 0
    <3>1. ASSUME Remembered(n, c)
          PROVE  FALSE
      <4>1. minted[n].ts + Configs[c].nonceTTL <= spent[n].till /\ spent[n].till \in Nat
        BY <3>1 DEF Remembered
      <4>2. req[p].t < spent[n].till
        BY <1>4, <1>5, <4>1
      <4> QED
        BY <1>8, <3>1, <4>2 DEF Remembered, Present
    <3> QED
      BY <1>3, <1>5, <3>1 DEF NonceInv, ClaimsOf, Claimed
  <2>2. PICK e : e = Entry(TRUE, req[p].t, Configs[c].nonceTTL)
    OBVIOUS
  <2>3. e.till = req[p].t + Configs[c].nonceTTL
    <3>1. Configs[c].nonceTTL # 0
      BY <1>4, <1>5
    <3> QED
      BY <2>2, <3>1 DEF Entry
  <2>4. /\ n \in DOMAIN spent' /\ spent'[n] = e
        /\ \A x \in DOMAIN spent : x # n => x \in DOMAIN spent' /\ spent'[x] = spent[x]
    BY <1>8, <2>2 DEF With
  <2>5. ASSUME NEW k \in {minted'[n].key}, NEW d \in DOMAIN Configs, Holds(k, d)'
        PROVE  Remembered(n, d)'
    <3>1. k = minted[n].key
      BY <1>6
    <3>2. Holds(k, d) /\ Holds(k, c)
      BY <1>5, <2>5, <3>1, HoldsFrom DEF NonceInv
    <3>3. d = c
      BY <1>5, <3>1, <3>2 DEF NonceInv, Keys
    <3>4. spent'[n].till \in Nat /\ minted'[n].ts + Configs[d].nonceTTL <= spent'[n].till
      BY <1>4, <1>5, <1>6, <2>3, <2>4, <3>3
    <3> QED
      BY <2>4, <3>4 DEF Remembered
  <2>6. Claimed(n)'
    BY <1>6, <2>5 DEF Claimed
  <2>7. /\ DOMAIN claims' = Request /\ claims'[n] = 1
        /\ \A x \in Request \ {n} : claims'[x] = claims[x]
    BY <1>3, <1>8, <2>1 DEF NonceInv
  <2>8. ASSUME NEW x \in Request, x # n
        PROVE  ClaimsOf(x)'
    BY <2>4, <2>7, <2>8, ClaimedKept DEF NonceInv, ClaimsOf
  <2> QED
    BY <2>6, <2>7, <2>8 DEF ClaimsOf
<1> QED
  BY <1>1, <1>2, <1>7, <1>8, ClaimEffect DEF NonceInv, Control

\* Every step preserves NonceInv.
LEMMA NonceStep ==
    ASSUME NonceInv, [Next]_vars
    PROVE  NonceInv'
<1>1. DOMAIN claims' = Request /\ \A n \in Request : ClaimsOf(n)'
  <2>1. CASE UNCHANGED <<spent, claims>>
    BY <2>1, ClaimedKept DEF NonceInv, ClaimsOf
  <2>2. CASE \E p \in Request : Handle(p)
    BY <2>1, <2>2, HandleKeeps, ClaimStep DEF StepFrame
  <2>3. CASE ~\E p \in Request : Handle(p)
    BY <2>1, <2>3, OtherKeeps DEF dicts, history
  <2> QED
    BY <2>2, <2>3
<1>2. Control' /\ Timely' /\ Keys' /\ MintedTypes'
  BY ControlStep, TimelyStep, KeysStep, MintedTypesStep DEF NonceInv
<1> QED
  BY <1>1, <1>2, VerifiedStep DEF NonceInv

\* No nonce is minted or spent at the start.
LEMMA NonceInit ==
    ASSUME Init
    PROVE  NonceInv
<1>1. /\ minted = <<>> /\ req = [p \in Request |-> Idle] /\ master \in [cfg : Starts, key : {0}]
      /\ claims = [p \in Request |-> 0]
  BY DEF Init
<1>2. DOMAIN minted = {}
  BY <1>1
<1>3. \A p \in Request : req[p].pc = "idle"
  BY <1>1 DEF Idle
<1>4. master.cfg \in DOMAIN Configs /\ master.key = 0
  BY <1>1, LuaGateAssumption
<1>5. Keys
  BY <1>3, <1>4 DEF Keys, Serving, Active, Holds
<1> QED
  BY <1>1, <1>2, <1>3, <1>5, ControlInit, TimelyInit DEF NonceInv, MintedTypes, ClaimsOf

\* nonce_claim in store.lua lets a nonce through once in its life, for any
\* number of workers of any number of reloads, whatever the nonce_ttl of each:
\* the marker that add() leaves outlives the nonce under every config whose
\* nonce key verifies it.
THEOREM LuaNoncesOnce == Spec => []LuaNonceOnce
<1>1. Init => NonceInv
  BY NonceInit
<1>2. NonceInv /\ [Next]_vars => NonceInv'
  BY NonceStep
<1>3. NonceInv => LuaNonceOnce
  BY DEF NonceInv, ClaimsOf, LuaNonceOnce
<1> QED
  BY <1>1, <1>2, <1>3, PTL DEF Spec

-----------------------------------------------------------------------------
(* LuaCodeOnce *)

\* p's worker has an enrollment with code c in hand.
Has(p, c) == Active(p) /\ ask[p] = "enroll" /\ req[p].in.code = c

\* It has won c's marker and is about to delete c.
Wins(p, c) == Has(p, c) /\ req[p].pc = "consume_delete"

\* A code is stored, and its marker too only while the winner is about to
\* delete it, or it was exchanged and has left its marker.
CodeState(c) ==
    /\ c \in DOMAIN codes =>
         delivered[c] = 0 /\ (c \in DOMAIN marker => \E w \in Request : Wins(w, c))
    /\ c \notin DOMAIN codes => delivered[c] = 1 /\ c \in DOMAIN marker

\* A consumer after its get finds the marker that is there.  The one after
\* its add is alone, deletes what is stored, and the marker is its own.
Consumes(p, c) ==
    /\ req[p].pc = "consume_add" => (c \in DOMAIN marker => Present(marker, c, req[p].t))
    /\ req[p].pc = "consume_delete" =>
         /\ c \in DOMAIN codes \cap DOMAIN marker
         /\ marker[c].till = req[p].t + MarkerTTL
         /\ \A q \in Request : Wins(q, c) => q = p

\* No exchange of a code takes longer than MaxStall.
Prompt == \A p \in Request : Exchanging(p) => now <= req[p].t + MaxStall

CodeInv ==
    /\ Control /\ Timely /\ Prompt /\ DOMAIN delivered = Request
    /\ DOMAIN codes \subseteq Answered("code") /\ DOMAIN marker \subseteq Answered("code")
    /\ \A c \in Request \ Answered("code") : delivered[c] = 0
    /\ \A c \in Answered("code") : CodeState(c)
    /\ \A c \in Answered("code"), p \in Request : Has(p, c) => Consumes(p, c)

\* The clock waits for whoever is exchanging a code, and a worker that begins
\* to has just read it.
LEMMA PromptStep ==
    ASSUME Control, Timely, Prompt, [Next]_vars
    PROVE  Prompt'
<1> USE LuaGateAssumption
<1>1. now \in Nat /\ \A p \in Request : req[p].t \in Nat
  BY DEF Timely
<1>2. CASE \E p \in Request : Handle(p)
  <2>1. now' = now
    BY <1>2, HandleKeeps DEF StepFrame
  <2>2. ASSUME NEW p \in Request, Exchanging(p)'
        PROVE  now' <= req'[p].t + MaxStall
    <3>1. ask'[p] = ask[p] /\ Active(p)'
      BY <2>2, DoneKept DEF Exchanging, Active
    <3>2. CASE Handle(p)
      <4>1. Moves(p)
        BY <3>2, HandleMoves
      <4>2. CASE req[p].pc \in {"idle", "rate_ok"}
        <5>1. req'[p].t = now
          BY <3>1, <4>1, <4>2 DEF Moves
        <5> QED
          BY <1>1, <2>1, <5>1
      <4>3. CASE req[p].pc \notin {"idle", "rate_ok"}
        <5>1. req'[p].t = req[p].t /\ Exchanging(p)
          BY <2>2, <3>1, <4>1, <4>3 DEF Moves, Exchanging
        <5> QED
          BY <2>1, <5>1 DEF Prompt
      <4> QED
        BY <4>2, <4>3
    <3>3. CASE ~Handle(p)
      <4>1. req'[p] = req[p]
        BY <3>3, StillKept
      <4>2. Exchanging(p)
        BY <2>2, <3>1, <4>1 DEF Exchanging
      <4> QED
        BY <2>1, <4>1, <4>2 DEF Prompt
    <3> QED
      BY <3>2, <3>3
  <2> QED
    BY <2>2 DEF Prompt
<1>3. CASE ~\E p \in Request : Handle(p)
  <2>1. UNCHANGED <<req, ask>> /\ (now' = now \/ (now' = now + 1 /\ NobodyStalled))
    BY <1>3, OtherKeeps
  <2>2. ASSUME NEW p \in Request, Exchanging(p)'
        PROVE  now' <= req'[p].t + MaxStall
    <3>1. Exchanging(p) /\ req'[p].t = req[p].t
      BY <2>1, <2>2 DEF Exchanging
    <3>2. now <= req[p].t + MaxStall /\ (NobodyStalled => now < req[p].t + MaxStall)
      BY <3>1 DEF Prompt, NobodyStalled
    <3> QED
      BY <1>1, <2>1, <3>1, <3>2
  <2> QED
    BY <2>2 DEF Prompt
<1> QED
  BY <1>2, <1>3

\* While a code is stored its marker has not run out for any worker: the
\* winner that set it is still at it, and has not been for MarkerTTL seconds.
LEMMA MarkerThere ==
    ASSUME CodeInv, NEW c \in DOMAIN codes \cap DOMAIN marker, NEW p \in Request
    PROVE  Present(marker, c, req[p].t)
<1>1. c \in Answered("code") /\ CodeState(c)
  BY DEF CodeInv
<1>2. PICK w \in Request : Wins(w, c)
  BY <1>1 DEF CodeState
<1>3. marker[c].till = req[w].t + MarkerTTL
  BY <1>1, <1>2 DEF CodeInv, Consumes, Wins
<1>4. now <= req[w].t + MaxStall
  BY <1>2 DEF CodeInv, Prompt, Exchanging, Wins, Has
<1>5. now \in Nat /\ req[w].t \in Nat /\ req[p].t \in Nat /\ req[p].t <= now
  BY LuaGateAssumption DEF CodeInv, Timely
<1>6. req[p].t < marker[c].till
  BY <1>3, <1>4, <1>5, LuaGateAssumption
<1> QED
  BY <1>6 DEF Present

\* Only the delete ends a winner's exchange.
LEMMA WinnerStays ==
    ASSUME Control, [Next]_vars, NEW w \in Request, NEW c, Wins(w, c),
           Handle(w) => ~ConsumeDelete(w)
    PROVE  Wins(w, c)'
<1>1. ~Handle(w)
  BY DEF Handle, Wins, At, Access, rate_ok, challenge, respond, nonce_claim, PutKnock, enroll,
         ConsumeGet, ConsumeAdd, GetCookie, GetPlain, is_allowed, ApiGrant, ApiEnrollCode,
         DeletePlain, Scan, ScanGet, ScanDelete
<1>2. req'[w] = req[w] /\ ask'[w] = ask[w]
  BY <1>1, StillKept, DoneKept
<1> QED
  BY <1>2 DEF Wins, Has, Active

\* A client enrolls with a code it was given, at a time that is not before it
\* was.
LEMMA HasFrom ==
    ASSUME Control, Timely, [Next]_vars, NEW p \in Request, NEW c, Has(p, c)'
    PROVE  /\ c \in Answered("code")
           /\ \/ Has(p, c) /\ req'[p].t = req[p].t
              \/ req'[p].t = now /\ req'[p].pc \notin {"consume_add", "consume_delete"}
<1>1. ask'[p] = ask[p] /\ ask[p] = "enroll"
  BY DoneKept DEF Has
<1>2. CASE Handle(p)
  <2>1. Moves(p) /\ Active(p)'
    BY <1>2, HandleMoves DEF Has
  <2>2. CASE req[p].pc = "idle"
    <3>1. req'[p].in \in Inputs("enroll") /\ req'[p].t = now
      BY <1>1, <2>1, <2>2 DEF Moves
    <3>2. c \in Answered("code")
      BY <3>1 DEF Inputs, Has
    <3>3. req'[p].pc \notin {"consume_add", "consume_delete"}
      BY <2>1, <2>2, ConsumeGetEffect, ConsumeAddEffect DEF Moves, Comes, Control
    <3> QED
      BY <3>1, <3>2, <3>3
  <2>3. CASE req[p].pc # "idle"
    <3>1. Active(p) /\ req'[p].in = req[p].in
      BY <2>1, <2>3 DEF Moves, Active, SameRequest
    <3>2. Has(p, c) /\ c \in Answered("code")
      BY <1>1, <3>1 DEF Has, Control, InputOf
    <3>3. CASE req[p].pc = "rate_ok"
      <4>1. req'[p].t = now
        BY <2>1, <3>3 DEF Moves
      <4>2. req'[p].pc \notin {"consume_add", "consume_delete"}
        BY <2>1, <3>3, ConsumeGetEffect, ConsumeAddEffect DEF Moves, Comes, Control
      <4> QED
        BY <3>2, <4>1, <4>2
    <3>4. CASE req[p].pc # "rate_ok"
      BY <2>1, <2>3, <3>2, <3>4 DEF Moves
    <3> QED
      BY <3>3, <3>4
  <2> QED
    BY <2>2, <2>3
<1>3. CASE ~Handle(p)
  <2>1. req'[p] = req[p]
    BY <1>3, StillKept
  <2> QED
    BY <1>1, <2>1 DEF Has, Active, Control, InputOf
<1> QED
  BY <1>2, <1>3

\* The codes that have been handed out, but for the one that is being minted.
LEMMA AnsweredStep ==
    ASSUME Control, [Next]_vars
    PROVE  /\ Answered("code") \subseteq Answered("code")'
           /\ \A c \in Answered("code")' :
                c \in Answered("code") \/ (c \in Request /\ ApiEnrollCode(c))
<1>1. Answered("code") \subseteq Answered("code")'
  BY DoneKept DEF Answered, Control
<1>2. ASSUME NEW c \in Request, req'[c].out = "code"
      PROVE  req[c].out = "code" \/ ApiEnrollCode(c)
  <2>1. CASE Handle(c)
    BY <1>2, <2>1, HandleMoves DEF Moves, Comes
  <2>2. CASE ~Handle(c)
    BY <1>2, <2>2, StillKept
  <2> QED
    BY <2>1, <2>2
<1> QED
  BY <1>1, <1>2 DEF Answered

\* What CodeInv says of the codes and their consumers.
CodesHold ==
    /\ DOMAIN delivered = Request
    /\ DOMAIN codes \subseteq Answered("code") /\ DOMAIN marker \subseteq Answered("code")
    /\ \A c \in Request \ Answered("code") : delivered[c] = 0
    /\ \A c \in Answered("code") : CodeState(c)
    /\ \A c \in Answered("code"), p \in Request : Has(p, c) => Consumes(p, c)

\* A consumer that gets the code finds the marker that is there.
LEMMA QuietStep ==
    ASSUME CodeInv, [Next]_vars, UNCHANGED <<codes, marker, delivered>>,
           \A p \in Request : /\ ~ApiEnrollCode(p)
                              /\ Handle(p) => ~ConsumeAdd(p) /\ ~ConsumeDelete(p)
    PROVE  CodesHold'
<1>1. Answered("code")' = Answered("code")
  BY AnsweredStep DEF CodeInv
<1>2. ASSUME NEW c \in Answered("code")
      PROVE  CodeState(c)'
  <2>1. CodeState(c)
    BY DEF CodeInv
  <2>2. \A w \in Request : Wins(w, c) => Wins(w, c)'
    BY WinnerStays DEF CodeInv
  <2> QED
    BY <2>1, <2>2 DEF CodeState
<1>3. ASSUME NEW c \in Answered("code"), NEW p \in Request, Has(p, c)'
      PROVE  Consumes(p, c)'
  <2>1. CASE Handle(p)
    <3>1. req'[p].pc # "consume_delete"
      BY <2>1, HandleMoves DEF Moves, Comes, CodeInv
    <3>2. ASSUME req'[p].pc = "consume_add", c \in DOMAIN marker'
          PROVE  Present(marker', c, req'[p].t)
      <4>1. ConsumeGet(p)
        BY <2>1, <3>2, HandleMoves DEF Moves, Comes, CodeInv
      <4>2. Has(p, c) /\ req'[p].t = req[p].t
        BY <1>3, <3>2, HasFrom DEF CodeInv
      <4>3. Present(codes, c, req[p].t)
        BY <3>2, <4>1, <4>2, ConsumeGetEffect DEF CodeInv, Control, Returns, Has
      <4>4. Present(marker, c, req[p].t)
        BY <3>2, <4>3, MarkerThere DEF Present
      <4> QED
        BY <4>2, <4>4
    <3> QED
      BY <3>1, <3>2 DEF Consumes
  <2>2. CASE ~Handle(p)
    <3>1. req'[p] = req[p]
      BY <2>2, StillKept DEF CodeInv
    <3>2. Has(p, c)
      BY <1>3, <3>1, DoneKept DEF Has, Active, CodeInv
    <3>3. Consumes(p, c)
      BY <3>2 DEF CodeInv
    <3>4. ASSUME NEW q \in Request, Wins(q, c)'
          PROVE  Wins(q, c)
      <4>1. ~Handle(q)
        BY <3>4, HandleMoves DEF Moves, Comes, CodeInv, Wins
      <4>2. req'[q] = req[q]
        BY <4>1, StillKept DEF CodeInv
      <4> QED
        BY <3>4, <4>2, DoneKept DEF Wins, Has, Active, CodeInv
    <3> QED
      BY <3>1, <3>3, <3>4 DEF Consumes, Present
  <2> QED
    BY <2>1, <2>2
<1> QED
  BY <1>1, <1>2, <1>3 DEF CodesHold, CodeInv

\* A code that is minted is new to the dictionaries and to every client.
LEMMA MintStep ==
    ASSUME CodeInv, [Next]_vars, NEW m \in Request, Handle(m), ApiEnrollCode(m)
    PROVE  CodesHold'
<1>1. /\ req[m].pc = "enroll-code" /\ Alone(m) /\ req'[m].pc = "done"
      /\ \/ req'[m].out = "deny" /\ UNCHANGED codes
         \/ /\ req'[m].out = "code"
            /\ codes' = With(codes, m, Entry(req[m].in.kid, req[m].t, req[m].in.ttl))
  BY EnrollCodeEffect DEF CodeInv, Control, Returns
<1>2. UNCHANGED <<now, marker, delivered>>
  BY DEF ApiEnrollCode, history
<1>3. m \notin Answered("code") /\ m \notin DOMAIN codes /\ m \notin DOMAIN marker
  BY <1>1 DEF CodeInv, Control, Answered
<1>4. /\ \A c \in DOMAIN codes : c \in DOMAIN codes' /\ codes'[c] = codes[c]
      /\ \A c \in DOMAIN codes' : c \in DOMAIN codes \/ (c = m /\ req'[m].out = "code")
  BY <1>1, <1>3 DEF With
<1>5. /\ Answered("code") \subseteq Answered("code")'
      /\ \A c \in Answered("code")' : c \in Answered("code") \/ c = m
      /\ req'[m].out = "code" => m \in Answered("code")'
  BY <1>1, AnsweredStep DEF Alone, Answered, CodeInv
<1>6. ASSUME NEW p \in Request, NEW c, Has(p, c)'
      PROVE  Has(p, c) /\ req'[p] = req[p] /\ c \in Answered("code")
  BY <1>1, <1>6, HasFrom DEF Alone, Has, Active, CodeInv
<1>7. ASSUME NEW c \in Answered("code")
      PROVE  CodeState(c)'
  <2>1. CodeState(c) /\ c # m
    BY <1>3 DEF CodeInv
  <2>2. c \in DOMAIN codes' <=> c \in DOMAIN codes
    BY <1>4, <2>1
  <2>3. c \in DOMAIN codes => codes'[c] = codes[c]
    BY <1>4
  <2>4. \A w \in Request : Wins(w, c) => Wins(w, c)'
    <3>1. ASSUME NEW w \in Request, Wins(w, c)
          PROVE  Wins(w, c)'
      <4>1. w # m
        BY <1>1, <3>1 DEF Wins
      <4> QED
        BY <1>1, <3>1, <4>1 DEF Alone, Wins, Has, Active
    <3> QED
      BY <3>1
  <2> QED
    BY <1>2, <2>1, <2>2, <2>3, <2>4 DEF CodeState
<1>8. ASSUME req'[m].out = "code"
      PROVE  CodeState(m)'
  <2>1. m \in DOMAIN codes'
    BY <1>1, <1>8 DEF With
  <2>2. delivered[m] = 0
    BY <1>3 DEF CodeInv
  <2> QED
    BY <1>2, <1>3, <2>1, <2>2 DEF CodeState
<1>9. ASSUME NEW c \in Answered("code")', NEW p \in Request, Has(p, c)'
      PROVE  Consumes(p, c)'
  <2>1. Has(p, c) /\ req'[p] = req[p] /\ c \in Answered("code") /\ c # m
    BY <1>3, <1>6, <1>9
  <2>2. Consumes(p, c)
    BY <2>1 DEF CodeInv
  <2>3. c \in DOMAIN codes' <=> c \in DOMAIN codes
    BY <1>4, <2>1
  <2>4. c \in DOMAIN codes => codes'[c] = codes[c]
    BY <1>4
  <2>5. \A q \in Request : Has(q, c)' => Has(q, c) /\ req'[q] = req[q]
    BY <1>6
  <2> QED
    BY <1>2, <2>1, <2>2, <2>3, <2>4, <2>5 DEF Consumes, Wins, Present
<1>10. \A c \in Request \ Answered("code")' : delivered'[c] = 0
  BY <1>2, <1>5 DEF CodeInv
<1>11. DOMAIN codes' \subseteq Answered("code")' /\ DOMAIN marker' \subseteq Answered("code")'
  BY <1>2, <1>4, <1>5 DEF CodeInv
<1>12. \A c \in Answered("code")' : CodeState(c)'
  <2>1. m \in Answered("code")' => req'[m].out = "code"
    BY DEF Answered
  <2> QED
    BY <1>5, <1>7, <1>8, <2>1
<1> QED
  BY <1>2, <1>9, <1>10, <1>11, <1>12 DEF CodesHold, CodeInv

\* The winner of the marker is alone: who sees the marker is refused, and the
\* marker is there for everybody who got the code before the add.
LEMMA AddStep ==
    ASSUME CodeInv, [Next]_vars, NEW m \in Request, Handle(m), ConsumeAdd(m)
    PROVE  CodesHold'
<1> DEFINE o == req[m].in.code
<1>1. /\ req[m].pc = "consume_add" /\ Alone(m)
      /\ \/ req'[m].pc = "done" /\ UNCHANGED marker
         \/ /\ req'[m].pc = "consume_delete" /\ SameRequest(m) /\ req'[m].t = req[m].t
            /\ ~Present(marker, o, req[m].t)
            /\ marker' = With(marker, o, Entry(TRUE, req[m].t, MarkerTTL))
  BY ConsumeAddEffect DEF CodeInv, Control, Returns, Advances
<1>2. UNCHANGED <<now, codes, delivered>>
  BY DEF ConsumeAdd, history
<1>3. Has(m, o) /\ o \in Answered("code") /\ Consumes(m, o) /\ CodeState(o)
  <2>1. Active(m) /\ ask[m] = "enroll"
    BY <1>1 DEF CodeInv, Control, LabelOf, Active
  <2> QED
    BY <2>1 DEF CodeInv, Control, InputOf, Has
<1>4. Answered("code")' = Answered("code")
  <2>1. \A c \in Request : ~ApiEnrollCode(c)
    <3>1. ASSUME NEW c \in Request, ApiEnrollCode(c)
          PROVE  FALSE
      <4>1. req[c].pc = "enroll-code" /\ req'[c].pc = "done"
        BY <3>1, EnrollCodeEffect DEF CodeInv, Control, Returns
      <4> QED
        BY <1>1, <4>1 DEF Alone
    <3> QED
      BY <3>1
  <2> QED
    BY <2>1, AnsweredStep DEF CodeInv
<1>5. CASE marker' = marker /\ req'[m].pc = "done"
  <2>1. ASSUME NEW p \in Request, NEW c, Has(p, c)'
        PROVE  Has(p, c) /\ req'[p] = req[p]
    BY <1>1, <1>5, <2>1 DEF Alone, Has, Active
  <2>2. ASSUME NEW c \in Answered("code")
        PROVE  CodeState(c)'
    <3>1. CodeState(c)
      BY DEF CodeInv
    <3>2. ASSUME NEW w \in Request, Wins(w, c)
          PROVE  Wins(w, c)'
      <4>1. w # m
        BY <1>1, <3>2 DEF Wins
      <4> QED
        BY <1>1, <3>2, <4>1 DEF Alone, Wins, Has, Active
    <3> QED
      BY <1>2, <1>5, <3>1, <3>2 DEF CodeState
  <2>3. ASSUME NEW c \in Answered("code"), NEW p \in Request, Has(p, c)'
        PROVE  Consumes(p, c)'
    <3>1. Has(p, c) /\ req'[p] = req[p] /\ Consumes(p, c)
      BY <2>1, <2>3 DEF CodeInv
    <3>2. \A q \in Request : Wins(q, c)' => Wins(q, c)
      BY <2>1 DEF Wins
    <3> QED
      BY <1>2, <1>5, <3>1, <3>2 DEF Consumes, Present
  <2> QED
    BY <1>2, <1>4, <1>5, <2>2, <2>3 DEF CodesHold, CodeInv
<1>6. CASE /\ req'[m].pc = "consume_delete" /\ SameRequest(m) /\ req'[m].t = req[m].t
           /\ ~Present(marker, o, req[m].t)
           /\ marker' = With(marker, o, Entry(TRUE, req[m].t, MarkerTTL))
  <2>1. o \notin DOMAIN marker /\ o \in DOMAIN codes
    BY <1>1, <1>3, <1>6 DEF Consumes, CodeState
  <2>2. /\ DOMAIN marker' = DOMAIN marker \cup {o}
        /\ marker'[o] = Entry(TRUE, req[m].t, MarkerTTL)
        /\ \A c \in DOMAIN marker : marker'[c] = marker[c]
    BY <1>6, <2>1 DEF With
  <2>3. ASSUME NEW p \in Request, NEW c, Has(p, c)'
        PROVE  Has(p, c) /\ req'[p].t = req[p].t /\ (p # m => req'[p] = req[p])
    BY <1>1, <1>6, <2>3 DEF Alone, Has, Active, SameRequest
  <2>4. ASSUME NEW c, c = o
        PROVE  Wins(m, c)'
    BY <1>1, <1>3, <1>6, <2>4 DEF Wins, Has, Active, SameRequest, Alone
  <2>5. /\ now \in Nat /\ now <= req[m].t + MaxStall
        /\ \A p \in Request : req[p].t \in Nat /\ req[p].t <= now
    <3>1. Exchanging(m)
      BY <1>1, <1>3 DEF Exchanging, Has
    <3> QED
      BY <3>1, LuaGateAssumption DEF CodeInv, Timely, Prompt
  <2>6. marker'[o].till = req[m].t + MarkerTTL
    BY <2>2, LuaGateAssumption DEF Entry
  <2>7. \A p \in Request : req[p].t < marker'[o].till
    BY <2>5, <2>6, LuaGateAssumption
  <2>8. \A q \in Request : ~Wins(q, o)
    BY <1>3, <2>1 DEF CodeInv, Consumes, Wins
  <2>9. ASSUME NEW c \in Answered("code")
        PROVE  CodeState(c)'
    <3>1. CASE c = o
      BY <1>2, <1>3, <2>1, <2>4, <3>1 DEF CodeState
    <3>2. CASE c # o
      <4>1. CodeState(c)
        BY DEF CodeInv
      <4>2. ASSUME NEW w \in Request, Wins(w, c)
            PROVE  Wins(w, c)'
        <5>1. w # m
          BY <1>1, <4>2 DEF Wins
        <5> QED
          BY <1>1, <4>2, <5>1 DEF Alone, Wins, Has, Active
      <4> QED
        BY <1>2, <2>2, <3>2, <4>1, <4>2 DEF CodeState
    <3> QED
      BY <3>1, <3>2
  <2>10. ASSUME NEW c \in Answered("code"), NEW p \in Request, Has(p, c)'
         PROVE  Consumes(p, c)'
    <3>1. Has(p, c) /\ Consumes(p, c) /\ req'[p].t = req[p].t /\ (p # m => req'[p] = req[p])
      BY <2>3, <2>10 DEF CodeInv
    <3>2. ASSUME req'[p].pc = "consume_add", c \in DOMAIN marker'
          PROVE  Present(marker', c, req'[p].t)
      <4>1. p # m /\ req[p].pc = "consume_add"
        BY <1>6, <3>1, <3>2
      <4>2. CASE c = o
        BY <2>2, <2>7, <3>1, <4>2 DEF Present
      <4>3. CASE c # o
        BY <2>2, <3>1, <3>2, <4>1, <4>3 DEF Consumes, Present
      <4> QED
        BY <4>2, <4>3
    <3>3. ASSUME req'[p].pc = "consume_delete"
          PROVE  /\ c \in DOMAIN codes' \cap DOMAIN marker'
                 /\ marker'[c].till = req'[p].t + MarkerTTL
                 /\ \A q \in Request : Wins(q, c)' => q = p
      <4>1. CASE p = m
        <5>1. c = o
          BY <3>1, <4>1 DEF Has
        <5>2. \A q \in Request : Wins(q, c)' => q = m
          BY <2>3, <2>8, <5>1 DEF Wins
        <5> QED
          BY <1>2, <2>1, <2>2, <2>6, <3>1, <4>1, <5>1, <5>2
      <4>2. CASE p # m
        <5>1. req[p].pc = "consume_delete" /\ c # o
          BY <2>8, <3>1, <3>3, <4>2 DEF Wins
        <5>2. \A q \in Request : Wins(q, c)' => Wins(q, c)
          BY <2>3, <5>1 DEF Wins, Has
        <5>3. /\ c \in DOMAIN codes \cap DOMAIN marker
              /\ marker[c].till = req[p].t + MarkerTTL
              /\ \A q \in Request : Wins(q, c) => q = p
          BY <3>1, <5>1 DEF Consumes
        <5> QED
          BY <1>2, <2>2, <3>1, <5>2, <5>3
      <4> QED
        BY <4>1, <4>2
    <3> QED
      BY <3>2, <3>3 DEF Consumes
  <2>11. DOMAIN marker' \subseteq Answered("code")
    BY <1>3, <2>2 DEF CodeInv
  <2> QED
    BY <1>2, <1>4, <2>9, <2>10, <2>11 DEF CodesHold, CodeInv
<1> QED
  BY <1>1, <1>5, <1>6

\* The winner deletes the code and is the one that hands out the secret.
LEMMA DeleteStep ==
    ASSUME CodeInv, [Next]_vars, NEW m \in Request, Handle(m), ConsumeDelete(m)
    PROVE  CodesHold'
<1> DEFINE o == req[m].in.code
<1>1. /\ req[m].pc = "consume_delete" /\ Alone(m) /\ req'[m].pc = "done"
      /\ req'[m].out = "secret"
      /\ codes' = Without(codes, o)
      /\ delivered' = [delivered EXCEPT ![o] = @ + 1]
  BY ConsumeDeleteEffect DEF CodeInv, Control, Returns
<1>2. UNCHANGED <<now, marker>>
  BY DEF ConsumeDelete
<1>3. Has(m, o) /\ o \in Answered("code") /\ Consumes(m, o) /\ CodeState(o)
  <2>1. Active(m) /\ ask[m] = "enroll"
    BY <1>1 DEF CodeInv, Control, LabelOf, Active
  <2> QED
    BY <2>1 DEF CodeInv, Control, InputOf, Has
<1>4. Answered("code")' = Answered("code")
  BY <1>1 DEF Answered, Alone, CodeInv, Control
<1>5. o \in DOMAIN codes /\ o \in DOMAIN marker /\ delivered[o] = 0 /\ o \in Request
  BY <1>1, <1>3 DEF Consumes, CodeState, Answered
<1>6. /\ DOMAIN codes' = DOMAIN codes \ {o}
      /\ \A c \in DOMAIN codes : c # o => codes'[c] = codes[c]
  BY <1>1 DEF Without, Restrict
<1>7. /\ DOMAIN delivered' = Request /\ delivered'[o] = 1
      /\ \A c \in Request \ {o} : delivered'[c] = delivered[c]
  BY <1>1, <1>5 DEF CodeInv
<1>8. ASSUME NEW p \in Request, NEW c, Has(p, c)'
      PROVE  Has(p, c) /\ req'[p] = req[p] /\ p # m
  BY <1>1, <1>8 DEF Alone, Has, Active
<1>9. ASSUME NEW c \in Answered("code")
      PROVE  CodeState(c)'
  <2>1. CASE c = o
    BY <1>2, <1>5, <1>6, <1>7, <2>1 DEF CodeState
  <2>2. CASE c # o
    <3>1. CodeState(c) /\ c \in Request
      BY DEF CodeInv, Answered
    <3>2. ASSUME NEW w \in Request, Wins(w, c)
          PROVE  Wins(w, c)'
      <4>1. w # m
        BY <2>2, <3>2 DEF Wins, Has
      <4> QED
        BY <1>1, <3>2, <4>1 DEF Alone, Wins, Has, Active
    <3> QED
      BY <1>2, <1>6, <1>7, <2>2, <3>1, <3>2 DEF CodeState
  <2> QED
    BY <2>1, <2>2
<1>10. ASSUME NEW c \in Answered("code"), NEW p \in Request, Has(p, c)'
       PROVE  Consumes(p, c)'
  <2>1. Has(p, c) /\ req'[p] = req[p] /\ p # m /\ Consumes(p, c)
    BY <1>8, <1>10 DEF CodeInv
  <2>2. \A q \in Request : Has(q, c)' => Has(q, c) /\ req'[q] = req[q]
    BY <1>8
  <2>3. c = o => req[p].pc # "consume_delete"
    BY <1>1, <1>3, <2>1 DEF Consumes, Wins
  <2>4. c \in DOMAIN codes' => c \in DOMAIN codes /\ codes'[c] = codes[c]
    BY <1>6
  <2>5. c # o => (c \in DOMAIN codes' <=> c \in DOMAIN codes)
    BY <1>6
  <2> QED
    BY <1>2, <2>1, <2>2, <2>3, <2>4, <2>5 DEF Consumes, Wins, Present
<1>11. \A c \in Request \ Answered("code") : delivered'[c] = 0
  BY <1>3, <1>7 DEF CodeInv
<1> QED
  BY <1>2, <1>4, <1>6, <1>7, <1>9, <1>10, <1>11 DEF CodesHold, CodeInv

\* Every step preserves CodeInv.
LEMMA CodeStep ==
    ASSUME CodeInv, [Next]_vars
    PROVE  CodeInv'
<1>1. CodesHold'
  <2>1. CASE \E p \in Request : Handle(p) /\ ApiEnrollCode(p)
    BY <2>1, MintStep
  <2>2. CASE \E p \in Request : Handle(p) /\ ConsumeAdd(p)
    BY <2>2, AddStep
  <2>3. CASE \E p \in Request : Handle(p) /\ ConsumeDelete(p)
    BY <2>3, DeleteStep
  <2>4. CASE ~\E p \in Request : /\ Handle(p)
                                 /\ ApiEnrollCode(p) \/ ConsumeAdd(p) \/ ConsumeDelete(p)
    <3>1. \A p \in Request : /\ ~ApiEnrollCode(p)
                             /\ Handle(p) => ~ConsumeAdd(p) /\ ~ConsumeDelete(p)
      BY <2>4 DEF Handle
    <3>2. CASE \E p \in Request : Handle(p)
      <4>1. UNCHANGED <<codes, marker, delivered>>
        BY <2>4, <3>2, HandleKeeps DEF StepFrame
      <4> QED
        BY <3>1, <4>1, QuietStep
    <3>3. CASE ~\E p \in Request : Handle(p)
      <4>1. UNCHANGED <<codes, marker, delivered>>
        BY <3>3, OtherKeeps DEF dicts, history
      <4> QED
        BY <3>1, <4>1, QuietStep
    <3> QED
      BY <3>2, <3>3
  <2> QED
    BY <2>1, <2>2, <2>3, <2>4
<1>2. Control' /\ Timely' /\ Prompt'
  BY ControlStep, TimelyStep, PromptStep DEF CodeInv
<1> QED
  BY <1>1, <1>2 DEF CodesHold, CodeInv

\* No code is drawn at the start.
LEMMA CodeInit ==
    ASSUME Init
    PROVE  CodeInv
<1>1. /\ codes = <<>> /\ marker = <<>> /\ req = [p \in Request |-> Idle]
      /\ delivered = [p \in Request |-> 0]
  BY DEF Init
<1>2. DOMAIN codes = {} /\ DOMAIN marker = {}
  BY <1>1
<1>3. \A p \in Request : req[p].out = ""
  BY <1>1 DEF Idle
<1>4. Answered("code") = {}
  BY <1>3 DEF Answered
<1>5. Prompt
  BY <1>1 DEF Prompt, Exchanging, Idle
<1> QED
  BY <1>1, <1>2, <1>4, <1>5, ControlInit, TimelyInit DEF CodeInv

\* enroll_code_consume in store.lua hands out the secret of a code once, for
\* any number of workers between whose get, add and delete anything happens
\* and for any lifetime of the codes, far beyond the marker's too: a winner
\* that has the code in hand for at most MaxStall < MarkerTTL seconds deletes
\* it before its marker runs out.
THEOREM LuaCodesOnce == Spec => []LuaCodeOnce
<1>1. Init => CodeInv
  BY CodeInit
<1>2. CodeInv /\ [Next]_vars => CodeInv'
  BY CodeStep
<1>3. CodeInv => LuaCodeOnce
  BY DEF CodeInv, CodeState, LuaCodeOnce, Present
<1> QED
  BY <1>1, <1>2, <1>3, PTL DEF Spec

-----------------------------------------------------------------------------
(* RevokeComplete *)

\* The request that a record names has put it.
Put(g) == g.by \in Request /\ req[g.by].pc = "done"

\* It is stored under its own key.
StoredPut == \A k \in DOMAIN grants : \A g \in {grants[k].val} : Put(g) /\ k = KeyOf(g)

\* The keys that p's scan has still to look at or to delete.
Pending(p) ==
    CASE req[p].pc = "scan_get" -> req[p].todo
      [] req[p].pc = "scan_delete" -> req[p].todo \cup req[p].rec
      [] OTHER -> {}

\* A record that p is to remove, and that is still stored under k, matches,
\* was there at p's time and is under a key that p has not yet looked at.
Remains(p, k) ==
    /\ Present(grants, k, req[p].t) /\ Matches(grants[k].val, req[p])
    /\ req[p].pc # "revoke-token" => k \in Pending(p)

Revoking == {"revoke-token", "scan_get", "scan_delete"}

RevokeInv ==
    /\ Control /\ StoredPut
    /\ \A p \in Request : \A g \in req[p].before : Put(g)
    /\ \A p \in Request, k \in DOMAIN grants :
         grants[k].val \in req[p].before =>
             /\ req[p].pc \in Revoking => Remains(p, k)
             /\ req[p].out # "revoked"

\* A stored record that was put before the step is the entry that was there.
LEMMA OldEntry ==
    ASSUME RevokeInv, [Next]_vars, NEW k \in DOMAIN grants', NEW g, g = grants'[k].val, Put(g)
    PROVE  k \in DOMAIN grants /\ grants'[k] = grants[k]
<1>1. ASSUME NEW p \in Request, Handle(p)
      PROVE  k \in DOMAIN grants /\ grants'[k] = grants[k]
  <2>1. g # KnockRecord(p) /\ g # ManualRecord(p)
    <3>1. req[p].pc # "done"
      BY <1>1, HandleMoves DEF Moves, RevokeInv
    <3>2. KnockRecord(p).by = p /\ ManualRecord(p).by = p
      BY DEF KnockRecord, ManualRecord, record
    <3> QED
      BY <3>1, <3>2 DEF Put
  <2> QED
    BY <1>1, <2>1, GrantsStep DEF RevokeInv
<1>2. CASE ~\E p \in Request : Handle(p)
  BY <1>2, OtherKeeps DEF dicts
<1> QED
  BY <1>1, <1>2

\* What some request put stays put: answers never change.
LEMMA PutKept ==
    ASSUME Control, [Next]_vars, NEW g, Put(g)
    PROVE  Put(g)'
  BY DoneKept DEF Put

\* Every stored record is filed under its own key.
LEMMA StoredPutStep ==
    ASSUME RevokeInv, [Next]_vars
    PROVE  StoredPut'
<1>1. ASSUME NEW k \in DOMAIN grants, NEW g \in {grants[k].val}
      PROVE  Put(g)' /\ k = KeyOf(g)
  BY PutKept DEF RevokeInv, StoredPut
<1>2. ASSUME NEW p \in Request, Handle(p), NEW k \in DOMAIN grants', NEW g \in {grants'[k].val}
      PROVE  Put(g)' /\ k = KeyOf(g)
  <2>1. CASE k \in DOMAIN grants /\ grants'[k] = grants[k]
    BY <1>1, <2>1
  <2>2. CASE PutKnock(p) /\ grants'[k].val = KnockRecord(p) /\ k = KeyOf(KnockRecord(p))
    <3>1. g.by = p
      BY <2>2 DEF KnockRecord, record
    <3> QED
      BY <2>2, <3>1, KnockEffect DEF RevokeInv, Control, Puts, Put
  <2>3. CASE ApiGrant(p) /\ grants'[k].val = ManualRecord(p) /\ k = KeyOf(ManualRecord(p))
    <3>1. g.by = p
      BY <2>3 DEF ManualRecord, record
    <3> QED
      BY <2>3, <3>1, ManualEffect DEF RevokeInv, Control, Puts, Put
  <2> QED
    BY <1>2, <2>1, <2>2, <2>3, GrantsStep DEF RevokeInv
<1>3. CASE ~\E p \in Request : Handle(p)
  BY <1>1, <1>3, OtherKeeps DEF dicts, StoredPut
<1> QED
  BY <1>2, <1>3 DEF StoredPut

\* What a revocation is for is stored, matches, and is there at its time.
LEMMA DueIs ==
    ASSUME RevokeInv, NEW p \in Request, NEW g \in Due(p)
    PROVE  /\ Put(g) /\ Matches(g, req[p])
           /\ KeyOf(g) \in DOMAIN grants /\ Present(grants, KeyOf(g), req[p].t)
<1>1. PICK k \in DOMAIN grants : g = grants[k].val /\ Present(grants, k, req[p].t)
  BY DEF Due, Stored
<1>2. Put(g) /\ k = KeyOf(g)
  BY <1>1 DEF RevokeInv, StoredPut
<1> QED
  BY <1>1, <1>2 DEF Due

\* The records a revocation answers for were put before it.
LEMMA BeforeStep ==
    ASSUME RevokeInv, [Next]_vars, NEW p \in Request, NEW g \in req'[p].before
    PROVE  Put(g)
<1>1. CASE g \in req[p].before
  BY <1>1 DEF RevokeInv
<1>2. CASE g \in Due(p)
  BY <1>2, DueIs
<1>3. CASE Handle(p)
  <2>1. CASE DeletePlain(p)
    BY <1>2, <2>1, DeletePlainEffect DEF RevokeInv, Control
  <2>2. CASE Scan(p)
    BY <1>1, <1>2, <2>2, ScanStartEffect DEF RevokeInv, Control
  <2> QED
    BY <1>1, <1>3, <2>1, <2>2, HandleMoves DEF Moves, RevokeInv
<1>4. CASE ~Handle(p)
  BY <1>1, <1>4, StillKept DEF RevokeInv
<1> QED
  BY <1>3, <1>4

\* A revocation looks at every key under which a record that it is for was
\* stored, and leaves a key only when the record is not, or no longer, there.
LEMMA RemainsStep ==
    ASSUME RevokeInv, [Next]_vars, NEW p \in Request, NEW k \in DOMAIN grants',
           grants'[k].val \in req'[p].before
    PROVE  /\ req'[p].pc \in Revoking => Remains(p, k)'
           /\ req'[p].out # "revoked"
<1>1. PICK g : g = grants'[k].val
  OBVIOUS
<1>2. Put(g)
  BY <1>1, BeforeStep
<1>3. k \in DOMAIN grants /\ grants'[k] = grants[k] /\ grants[k].val = g
  BY <1>1, <1>2, OldEntry
<1>4. k = KeyOf(g)
  BY <1>3 DEF RevokeInv, StoredPut
<1>5. g \in req[p].before =>
        /\ req[p].pc \in Revoking =>
             /\ Present(grants, k, req[p].t) /\ Matches(g, req[p])
             /\ req[p].pc # "revoke-token" => k \in Pending(p)
        /\ req[p].out # "revoked"
  BY <1>3 DEF RevokeInv, Remains
\* The record stays there and goes on matching.
<1>6. ASSUME Advances(p, req'[p].pc), req'[p].t = req[p].t,
             Present(grants, k, req[p].t), Matches(g, req[p]),
             req'[p].pc # "revoke-token" => k \in Pending(p)'
      PROVE  Remains(p, k)'
  <2>1. Present(grants', k, req'[p].t)
    BY <1>3, <1>6 DEF Present
  <2>2. Matches(g, req'[p])
    BY <1>6 DEF Matches, Advances, SameRequest
  <2> QED
    BY <1>1, <1>6, <2>1, <2>2 DEF Remains
<1>7. CASE ~Handle(p)
  <2>1. req'[p] = req[p]
    BY <1>7, StillKept DEF RevokeInv
  <2>2. g \in req[p].before
    BY <1>1, <2>1
  <2>3. Pending(p)' = Pending(p)
    BY <2>1 DEF Pending
  <2> QED
    BY <1>1, <1>3, <1>5, <2>1, <2>2, <2>3 DEF Remains, Present
<1>8. CASE Handle(p)
  <2>1. Comes(p) /\ (req'[p].out # "" => req'[p].pc = "done")
    BY <1>8, HandleMoves DEF Moves, RevokeInv
  <2>2. Shape
    BY DEF RevokeInv, Control
  <2>3. CASE Access(p)
    <3>1. req'[p].out = "deny"
      BY <1>1, <2>2, <2>3, AccessEffect
    <3> QED
      BY <2>1, <3>1 DEF Revoking
  <2>4. CASE DeletePlain(p)
    <3>1. g \in Due(p) /\ Advances(p, "revoke-token") /\ req'[p].t = req[p].t
      BY <1>1, <2>2, <2>4, DeletePlainEffect
    <3>2. Present(grants, k, req[p].t) /\ Matches(g, req[p])
      BY <1>4, <3>1, DueIs
    <3>3. Remains(p, k)' /\ req'[p].pc = "revoke-token"
      BY <1>6, <3>1, <3>2 DEF Advances
    <3> QED
      BY <2>1, <3>3
  <2>5. CASE Scan(p)
    <3>1. /\ req[p].pc = "revoke-token" /\ Advances(p, "scan_get") /\ req'[p].t = req[p].t
          /\ req'[p].todo = get_keys(req[p].t) /\ g \in req[p].before \cup Due(p)
      BY <1>1, <2>2, <2>5, ScanStartEffect
    <3>2. Present(grants, k, req[p].t) /\ Matches(g, req[p])
      BY <1>4, <1>5, <3>1, DueIs DEF Revoking
    <3>3. k \in req'[p].todo
      BY <1>3, <3>1, <3>2 DEF get_keys
    <3>4. req'[p].pc = "scan_get" /\ k \in Pending(p)'
      BY <3>1, <3>3 DEF Advances, Pending
    <3>5. Remains(p, k)'
      BY <1>6, <3>1, <3>2, <3>4
    <3> QED
      BY <2>1, <3>4, <3>5
  <2>6. CASE ScanGet(p)
    <3>1. req[p].pc = "scan_get" /\ req'[p].before = req[p].before
      BY <2>2, <2>6, ScanGetEffect DEF Returns
    <3>2. Present(grants, k, req[p].t) /\ Matches(g, req[p]) /\ k \in req[p].todo
      BY <1>1, <1>5, <3>1 DEF Revoking, Pending
    <3>3. PICK x \in req[p].todo :
            /\ req'[p].t = req[p].t /\ req'[p].todo = req[p].todo \ {x}
            /\ \/ Advances(p, "scan_delete") /\ req'[p].rec = {x}
               \/ Advances(p, "scan_get") /\ x # k
      BY <1>3, <2>2, <2>6, <3>2, ScanGetEffect
    <3>4. req'[p].pc \in {"scan_get", "scan_delete"} /\ Advances(p, req'[p].pc)
      BY <3>3 DEF Advances
    <3>5. k \in Pending(p)'
      BY <3>2, <3>3 DEF Advances, Pending
    <3>6. Remains(p, k)'
      BY <1>6, <3>2, <3>3, <3>4, <3>5
    <3> QED
      BY <2>1, <3>4, <3>6
  <2>7. CASE ScanDelete(p)
    <3>1. /\ req[p].pc = "scan_delete" /\ Advances(p, "scan_get") /\ req'[p].t = req[p].t
          /\ req'[p].todo = req[p].todo /\ req'[p].before = req[p].before
          /\ grants' = Restrict(grants, DOMAIN grants \ req[p].rec)
      BY <2>2, <2>7, ScanDeleteEffect
    <3>2. Present(grants, k, req[p].t) /\ Matches(g, req[p]) /\ k \in req[p].todo \cup req[p].rec
      BY <1>1, <1>5, <3>1 DEF Revoking, Pending
    <3>3. k \notin req[p].rec
      BY <3>1 DEF Restrict
    <3>4. req'[p].pc = "scan_get" /\ k \in Pending(p)'
      BY <3>1, <3>2, <3>3 DEF Advances, Pending
    <3>5. Remains(p, k)'
      BY <1>6, <3>1, <3>2, <3>4
    <3> QED
      BY <2>1, <3>4, <3>5
  <2> QED
    BY <2>1, <2>3, <2>4, <2>5, <2>6, <2>7 DEF Comes, Revoking
<1> QED
  BY <1>7, <1>8

\* Nothing is stored and nothing is revoked at the start.
LEMMA RevokeInit ==
    ASSUME Init
    PROVE  RevokeInv
<1>1. grants = <<>> /\ req = [p \in Request |-> Idle]
  BY DEF Init
<1>2. DOMAIN grants = {}
  BY <1>1
<1>3. \A p \in Request : req[p].before = {}
  BY <1>1 DEF Idle
<1> QED
  BY <1>2, <1>3, ControlInit DEF RevokeInv, StoredPut

\* Once del_grant or revoke_token in store.lua has returned, no record that
\* it was for and that was stored when it began is left, for any number of
\* workers that put and delete between the steps of its scan.
THEOREM LuaRevokes == Spec => []RevokeComplete
<1>1. Init => RevokeInv
  BY RevokeInit
<1>2. RevokeInv /\ [Next]_vars => RevokeInv'
  <2> SUFFICES ASSUME RevokeInv, [Next]_vars
               PROVE  RevokeInv'
    OBVIOUS
  <2>1. Control' /\ StoredPut'
    BY ControlStep, StoredPutStep DEF RevokeInv
  <2>2. \A p \in Request : \A g \in req'[p].before : Put(g)'
    BY BeforeStep, PutKept DEF RevokeInv
  <2>3. \A p \in Request, k \in DOMAIN grants' :
          grants'[k].val \in req'[p].before =>
              /\ req'[p].pc \in Revoking => Remains(p, k)'
              /\ req'[p].out # "revoked"
    BY RemainsStep
  <2> QED
    BY <2>1, <2>2, <2>3 DEF RevokeInv
<1>3. RevokeInv => RevokeComplete
  BY DEF RevokeInv, RevokeComplete, Stored
<1> QED
  BY <1>1, <1>2, <1>3, PTL DEF Spec
=============================================================================
