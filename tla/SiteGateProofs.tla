--------------------------- MODULE SiteGateProofs ---------------------------
(***************************************************************************)
(* Proofs about SiteGate, for any set of requests, sites and configs.      *)
(***************************************************************************)
EXTENDS SiteGate, TLAPS

-----------------------------------------------------------------------------
(* What a step of a handler does to the requests *)

\* The requests are records with the fields of Idle.
Shape == DOMAIN req = Request /\ \A p \in Request : DOMAIN req[p] = DOMAIN Idle

\* Only p's handler moves.
Alone(p) ==
    /\ Shape' /\ UNCHANGED uri
    /\ \A q \in Request \ {p} : req'[q] = req[q]

\* What the client sent, and the instance it was sent to.
SameRequest(p) ==
    /\ req'[p].h = req[p].h /\ req'[p].host = req[p].host /\ req'[p].ip = req[p].ip
    /\ req'[p].cookie = req[p].cookie /\ req'[p].body = req[p].body

\* It goes on to label.
Advances(p, label) ==
    /\ Alone(p) /\ SameRequest(p)
    /\ req'[p].pc = label /\ req'[p].out = req[p].out /\ req'[p].g = req[p].g

\* It returns an answer that hands out nothing and lets nobody through.
Returns(p) ==
    /\ Alone(p)
    /\ req'[p].pc = "done" /\ req'[p].out \notin {"granted", "allow"} /\ req'[p].g = {}
    /\ req'[p].t = 0 /\ req'[p].swept = req[p].swept /\ req'[p].h = ""

\* A Goto with a record of the right fields moves p's handler only.
LEMMA GotoEffect ==
    ASSUME Shape, NEW p \in Request, NEW r, DOMAIN r = DOMAIN Idle, Goto(p, r), UNCHANGED uri
    PROVE  Alone(p) /\ req'[p] = r
  BY DEF Shape, Goto, Alone

\* An answer other than a grant and an allow keeps the time of the sweep only.
LEMMA AnswerEffect ==
    ASSUME Shape, NEW p \in Request, NEW out, out \notin {"granted", "allow"},
           Answer(p, req[p], out), UNCHANGED uri
    PROVE  Returns(p) /\ req'[p].out = out
<1> DEFINE a == [[Idle EXCEPT !.swept = req[p].swept] EXCEPT !.pc = "done", !.out = out]
<1>1. /\ DOMAIN a = DOMAIN Idle
      /\ a.pc = "done" /\ a.out = out /\ a.swept = req[p].swept /\ a.g = {} /\ a.t = 0
      /\ a.h = ""
  BY DEF Idle
<1>2. Goto(p, a)
  BY DEF Answer
<1> HIDE DEF a
<1> QED
  BY <1>1, <1>2, GotoEffect DEF Returns

\* A denial is such an answer.
LEMMA DenyEffect ==
    ASSUME Shape, NEW p \in Request, Deny(p), UNCHANGED uri
    PROVE  Returns(p)
  BY AnswerEffect DEF Deny

\* A grant, and a request let through, keep what the client sent.
LEMMA OpenEffect ==
    ASSUME Shape, NEW p \in Request, NEW g, NEW out, out \in {"granted", "allow"},
           Answer(p, [req[p] EXCEPT !.g = g], out), UNCHANGED uri
    PROVE  /\ Alone(p) /\ SameRequest(p)
           /\ req'[p].pc = "done" /\ req'[p].out = out /\ req'[p].g = g
           /\ req'[p].t = req[p].t /\ req'[p].swept = req[p].swept
<1> DEFINE a == [[req[p] EXCEPT !.g = g] EXCEPT !.pc = "done", !.out = out]
<1>1. /\ DOMAIN a = DOMAIN Idle
      /\ a.pc = "done" /\ a.out = out /\ a.g = g /\ a.t = req[p].t /\ a.swept = req[p].swept
      /\ a.h = req[p].h /\ a.host = req[p].host /\ a.ip = req[p].ip
      /\ a.cookie = req[p].cookie /\ a.body = req[p].body
  BY DEF Shape, Idle
<1>2. Goto(p, a)
  BY DEF Answer
<1> HIDE DEF a
<1> QED
  BY <1>1, <1>2, GotoEffect DEF SameRequest

\* A change of label, of the time read, and of the sweep begun.
LEMMA PcEffect ==
    ASSUME Shape, NEW p \in Request, NEW l, UNCHANGED uri, Goto(p, [req[p] EXCEPT !.pc = l])
    PROVE  Advances(p, l) /\ req'[p].t = req[p].t /\ req'[p].swept = req[p].swept
  BY DEF Shape, Goto, Alone, Advances, SameRequest, Idle

\* A step that stores the clock keeps the record of the sweep.
LEMMA TimeEffect ==
    ASSUME Shape, NEW p \in Request, NEW l, NEW t, UNCHANGED uri,
           Goto(p, [req[p] EXCEPT !.pc = l, !.t = t])
    PROVE  Advances(p, l) /\ req'[p].t = t /\ req'[p].swept = req[p].swept
  BY DEF Shape, Goto, Alone, Advances, SameRequest, Idle

\* A step that records a sweep keeps the clock reading.
LEMMA SweptEffect ==
    ASSUME Shape, NEW p \in Request, NEW l, NEW S, UNCHANGED uri,
           Goto(p, [req[p] EXCEPT !.pc = l, !.swept = S])
    PROVE  Advances(p, l) /\ req'[p].t = req[p].t /\ req'[p].swept = S
  BY DEF Shape, Goto, Alone, Advances, SameRequest, Idle

\* A request comes in with what its path calls for, at a serving instance.
LEMMA ArriveEffect ==
    ASSUME Shape, NEW p \in Request, Arrive(p)
    PROVE  /\ req[p].pc = "idle" /\ Alone(p)
           /\ req'[p].pc = "maybeSweep" /\ req'[p].out = "" /\ req'[p].g = {}
           /\ req'[p].t = now /\ req'[p].swept = {}
           /\ req'[p].body \in Body(p)
           /\ req'[p].h \in live
           /\ req'[p].host \in Sites[req'[p].h].hosts
           /\ req'[p].ip \in IP \cup {Unresolved}
<1>1. PICK h \in live : \E host \in Sites[h].hosts, ip \in IP \cup {Unresolved},
                           cookie \in {Grants!NoCookie} \cup HandedOut, body \in Body(p) :
        Goto(p, [Idle EXCEPT !.pc = "maybeSweep", !.h = h, !.host = host, !.ip = ip,
                             !.cookie = cookie, !.body = body, !.t = now])
  BY DEF Arrive
<1>2. req[p].pc = "idle" /\ UNCHANGED uri
  BY DEF Arrive, At
<1>3. PICK host \in Sites[h].hosts, ip \in IP \cup {Unresolved},
           cookie \in {Grants!NoCookie} \cup HandedOut, body \in Body(p) :
        Goto(p, [Idle EXCEPT !.pc = "maybeSweep", !.h = h, !.host = host, !.ip = ip,
                             !.cookie = cookie, !.body = body, !.t = now])
  BY <1>1
<1> DEFINE a == [Idle EXCEPT !.pc = "maybeSweep", !.h = h, !.host = host, !.ip = ip,
                             !.cookie = cookie, !.body = body, !.t = now]
<1>4. /\ DOMAIN a = DOMAIN Idle
      /\ a.pc = "maybeSweep" /\ a.h = h /\ a.host = host /\ a.ip = ip /\ a.body = body
      /\ a.t = now /\ a.swept = {} /\ a.g = {} /\ a.out = ""
  BY DEF Idle
<1>5. Goto(p, a)
  BY <1>3
<1> HIDE DEF a
<1> QED
  BY <1>2, <1>4, <1>5, GotoEffect

\* maybeSweep: the handler goes on, or takes the sweep for itself when the
\* last one is SweepEvery old, and dates it by its own clock reading.
LEMMA MaybeSweepEffect ==
    ASSUME Shape, NEW p \in Request, MaybeSweep(p)
    PROVE  /\ req[p].pc = "maybeSweep" /\ req'[p].t = req[p].t
           /\ \/ /\ Advances(p, "route") /\ req'[p].swept = req[p].swept
                 /\ UNCHANGED lastSweep
              \/ /\ Advances(p, "sweepGrants") /\ req'[p].swept = {req[p].t}
                 /\ req[p].t - lastSweep >= SweepEvery
                 /\ lastSweep' = req[p].t
<1>1. /\ req[p].pc = "maybeSweep" /\ UNCHANGED uri
      /\ \/ Goto(p, [req[p] EXCEPT !.pc = "route"]) /\ UNCHANGED lastSweep
         \/ /\ req[p].t - lastSweep >= SweepEvery /\ lastSweep' = req[p].t
            /\ Goto(p, [req[p] EXCEPT !.pc = "sweepGrants", !.swept = {req[p].t}])
  BY DEF MaybeSweep, At
<1>2. CASE Goto(p, [req[p] EXCEPT !.pc = "route"]) /\ UNCHANGED lastSweep
  BY <1>1, <1>2, PcEffect
<1>3. CASE /\ req[p].t - lastSweep >= SweepEvery /\ lastSweep' = req[p].t
           /\ Goto(p, [req[p] EXCEPT !.pc = "sweepGrants", !.swept = {req[p].t}])
  <2>1. PICK S : S = {req[p].t}
    OBVIOUS
  <2>2. Goto(p, [req[p] EXCEPT !.pc = "sweepGrants", !.swept = S])
    BY <1>3, <2>1
  <2> QED
    BY <1>1, <1>3, <2>1, <2>2, SweptEffect
<1> QED
  BY <1>1, <1>2, <1>3

\* A sweep of one of the stores goes on to the next.
SweepLabels == {"sweepGrants", "sweepNonces", "sweepCodes", "sweepLimiter"}

\* The handler that took the sweep goes through the stores and then routes.
LEMMA SweepStepEffect ==
    ASSUME Shape, NEW p \in Request, SweepStep(p)
    PROVE  /\ req[p].pc \in SweepLabels
           /\ req'[p].t = req[p].t /\ req'[p].swept = req[p].swept
           /\ \E l \in SweepLabels \cup {"route"} : Advances(p, l)
<1> USE DEF SweepLabels, At
<1>1. CASE SweepGrants(p)
  BY <1>1, PcEffect DEF SweepGrants
<1>2. CASE SweepNonces(p)
  BY <1>2, PcEffect DEF SweepNonces
<1>3. CASE SweepCodes(p)
  BY <1>3, PcEffect DEF SweepCodes
<1>4. CASE SweepLimiter(p)
  BY <1>4, PcEffect DEF SweepLimiter
<1> QED
  BY <1>1, <1>2, <1>3, <1>4 DEF SweepStep

\* ServeHTTP: a protocol endpoint needs a client address; everything else is
\* checked at the clock of that moment.
LEMMA RouteEffect ==
    ASSUME Shape, NEW p \in Request, Route(p)
    PROVE  /\ req[p].pc = "route"
           /\ \/ Returns(p)
              \/ /\ Advances(p, "throttle") /\ uri[p][2] \in Endpoints \ {"register"}
                 /\ req'[p].t = req[p].t /\ req'[p].swept = req[p].swept
                 /\ req[p].ip # Unresolved
              \/ /\ Advances(p, "check") /\ req'[p].t = now
                 /\ req'[p].swept = req[p].swept
  BY DenyEffect, AnswerEffect, PcEffect, TimeEffect DEF Route, At

\* A request is let through with what IsAllowed returned for its site, and
\* only if that grant is as strong as the site's binding.
LEMMA CheckGrantEffect ==
    ASSUME Shape, NEW p \in Request, CheckGrant(p)
    PROVE  /\ req[p].pc = "check"
           /\ \/ Returns(p)
              \/ /\ Alone(p) /\ SameRequest(p)
                 /\ req'[p].pc = "done" /\ req'[p].out = "allow"
                 /\ req'[p].t = req[p].t /\ req'[p].swept = req[p].swept
                 /\ req'[p].g = Grants!IsAllowed(req[p].host, req[p].ip, Site(p).reg,
                                                 req[p].t, req[p].cookie)
                 /\ \A x \in req'[p].g : ~TooWeak(x, Site(p))
<1>1. PICK g : g = Grants!IsAllowed(req[p].host, req[p].ip, Site(p).reg,
                                    req[p].t, req[p].cookie)
  OBVIOUS
<1>2. /\ req[p].pc = "check" /\ UNCHANGED uri
      /\ \/ Deny(p)
         \/ /\ Answer(p, [req[p] EXCEPT !.g = g], "allow")
            /\ \A x \in g : ~TooWeak(x, Site(p))
  BY <1>1 DEF CheckGrant, At
<1> QED
  BY <1>1, <1>2, DenyEffect, OpenEffect

\* A refused knock returns, the others go on to their endpoint.
LEMMA ThrottleEffect ==
    ASSUME Shape, NEW p \in Request, Throttle(p)
    PROVE  /\ req[p].pc = "throttle"
           /\ \/ Returns(p)
              \/ /\ Advances(p, AfterThrottle[uri[p][2]])
                 /\ req'[p].t = req[p].t /\ req'[p].swept = req[p].swept
  BY DenyEffect, PcEffect DEF Throttle, At

\* The challenge returns a nonce.
LEMMA IssueNonceEffect ==
    ASSUME Shape, NEW p \in Request, IssueNonce(p)
    PROVE  req[p].pc = "mint" /\ Returns(p)
  BY AnswerEffect DEF IssueNonce, At

\* The registry of p's instance holds the secret that p's client proved.
Proven(p) ==
    /\ Known(Site(p).reg, req[p].body.device[1])
    /\ Site(p).reg.tokens[req[p].body.device[1]].secret = req[p].body.device[2]

\* A knock goes on only with its nonce and proof verified.
LEMMA VerifyKnockEffect ==
    ASSUME Shape, NEW p \in Request, VerifyKnock(p)
    PROVE  /\ req[p].pc = "verify"
           /\ \/ Returns(p)
              \/ /\ Advances(p, "claim") /\ req'[p].t = now /\ req'[p].swept = req[p].swept
                 /\ Proven(p)
<1> DEFINE r == [req[p] EXCEPT !.t = now]
<1>1. /\ r.body = req[p].body /\ r.host = req[p].host /\ r.ip = req[p].ip
      /\ [r EXCEPT !.pc = "claim"] = [req[p] EXCEPT !.pc = "claim", !.t = now]
  BY DEF Shape, Idle
<1>2. /\ req[p].pc = "verify" /\ UNCHANGED uri
      /\ \/ Deny(p)
         \/ /\ Goto(p, [r EXCEPT !.pc = "claim"])
            /\ Known(Site(p).reg, r.body.device[1])
            /\ r.body.device[2] = Site(p).reg.tokens[r.body.device[1]].secret
  BY DEF VerifyKnock, At
<1> HIDE DEF r
<1>3. CASE Deny(p)
  BY <1>2, <1>3, DenyEffect
<1>4. CASE /\ Goto(p, [r EXCEPT !.pc = "claim"])
           /\ Known(Site(p).reg, r.body.device[1])
           /\ r.body.device[2] = Site(p).reg.tokens[r.body.device[1]].secret
  <2>1. Goto(p, [req[p] EXCEPT !.pc = "claim", !.t = now]) /\ Proven(p)
    BY <1>1, <1>4 DEF Proven
  <2> QED
    BY <1>2, <2>1, TimeEffect
<1> QED
  BY <1>2, <1>3, <1>4

\* A knock goes on only when it is the one that claimed the nonce.
LEMMA ClaimNonceEffect ==
    ASSUME Shape, NEW p \in Request, ClaimNonce(p)
    PROVE  /\ req[p].pc = "claim"
           /\ \/ Returns(p)
              \/ Advances(p, "put") /\ req'[p].t = req[p].t /\ req'[p].swept = req[p].swept
  BY DenyEffect, PcEffect DEF ClaimNonce, At

\* A knock that claimed its nonce answers with the grant it puts.
LEMMA PutGrantEffect ==
    ASSUME Shape, NEW p \in Request, PutGrant(p)
    PROVE  /\ req[p].pc = "put" /\ Alone(p) /\ SameRequest(p)
           /\ req'[p].pc = "done" /\ req'[p].out = "granted" /\ req'[p].g = {KnockGrant(p)}
           /\ req'[p].t = req[p].t /\ req'[p].swept = req[p].swept
           /\ \E h : Grants!Put(KnockGrant(p), h)
<1>1. PICK g : g = {KnockGrant(p)}
  OBVIOUS
<1>2. /\ req[p].pc = "put" /\ UNCHANGED uri
      /\ Answer(p, [req[p] EXCEPT !.g = g], "granted")
      /\ \E h : Grants!Put(KnockGrant(p), h)
  BY <1>1 DEF PutGrant, At
<1> QED
  BY <1>1, <1>2, OpenEffect

\* handleEnroll goes on only with a code in the store whose kid the site's
\* own registry knows.
LEMMA PeekCodeEffect ==
    ASSUME Shape, NEW p \in Request, PeekCode(p)
    PROVE  /\ req[p].pc = "peek"
           /\ \/ Returns(p)
              \/ /\ Advances(p, "consume") /\ req'[p].t = req[p].t
                 /\ req'[p].swept = req[p].swept
                 /\ req[p].body.code \in DOMAIN codes
                 /\ Known(Site(p).reg, codes[req[p].body.code].kid)
  BY DenyEffect, PcEffect DEF PeekCode, At, Codes!Live

\* handleEnroll returns once the code is consumed.
LEMMA ConsumeCodeEffect ==
    ASSUME Shape, NEW p \in Request, ConsumeCode(p)
    PROVE  req[p].pc = "consume" /\ Returns(p)
  BY DenyEffect, AnswerEffect DEF ConsumeCode, At

\* The admin API mints a code and returns.
LEMMA MintEffect ==
    ASSUME Shape, NEW p \in Request, MintEnrollCode(p)
    PROVE  req[p].pc = "idle" /\ Returns(p)
  BY AnswerEffect DEF MintEnrollCode, At

-----------------------------------------------------------------------------
(* Control *)

Active(p) == req[p].pc \notin {"idle", "done"}

Knocking == {"verify", "claim", "put"}
Enrolling == {"peek", "consume"}

\* A handler is at a label of its own, and holds what its path calls for.
LabelOf(p) ==
    /\ req[p].pc = "throttle" => uri[p][2] \in Endpoints \ {"register"}
    /\ req[p].pc \in Knocking => uri[p][2] = "respond"
    /\ req[p].pc \in Enrolling => uri[p][2] = "enroll"

InputOf(p) == Active(p) /\ uri[p][2] = "enroll" => req[p].body.code \in DOMAIN issued

Control ==
    /\ Shape
    /\ DOMAIN issued \subseteq Request /\ \A c \in DOMAIN issued : req[c].pc = "done"
    /\ \A p \in Request : /\ LabelOf(p) /\ InputOf(p)
                          /\ req[p].out # "" => req[p].pc = "done"

\* The steps that lead to a label or an answer.
Comes(p) ==
    /\ req'[p].pc = "claim" => VerifyKnock(p)
    /\ req'[p].pc = "put" => ClaimNonce(p)
    /\ req'[p].pc = "consume" => PeekCode(p)
    /\ req'[p].out = "allow" => CheckGrant(p)

\* What any step of p's handler does.
Moves(p) ==
    /\ Alone(p)
    /\ req[p].pc # "done"
    /\ LabelOf(p)'
    /\ req'[p].out # "" => req'[p].pc = "done"
    /\ req[p].pc # "idle" /\ Active(p)' => SameRequest(p)
    /\ req[p].pc = "idle" /\ Active(p)' => req'[p].body \in Body(p)
    /\ req'[p].t \in {req[p].t, now, 0}
    /\ req'[p].swept \in {req[p].swept, {}} \/ MaybeSweep(p)
    /\ Comes(p)

\* Every step of a handler is one of the moves above.
LEMMA StepMoves ==
    ASSUME Control, NEW p \in Request, Handle(p) \/ MintEnrollCode(p)
    PROVE  Moves(p)
<1> USE DEF Moves, Comes, Control, Alone, Advances, Returns, LabelOf, Active, Knocking,
            Enrolling
<1>1. CASE Arrive(p)
  BY <1>1, ArriveEffect
<1>2. CASE MaybeSweep(p)
  BY <1>2, MaybeSweepEffect
<1>3. CASE SweepStep(p)
  BY <1>3, SweepStepEffect DEF SweepLabels
<1>4. CASE Route(p)
  BY <1>4, RouteEffect DEF Endpoints
<1>5. CASE CheckGrant(p)
  BY <1>5, CheckGrantEffect
<1>6. CASE Throttle(p)
  <2>1. PICK next : next = AfterThrottle[uri[p][2]]
    OBVIOUS
  <2>2. uri[p][2] = "challenge" \/ uri[p][2] = "respond" \/ uri[p][2] = "enroll"
    BY <1>6, ThrottleEffect DEF Endpoints
  <2>3. /\ AfterThrottle["challenge"] = "mint"
        /\ AfterThrottle["respond"] = "verify"
        /\ AfterThrottle["enroll"] = "peek"
    BY DEF AfterThrottle
  <2>4. \/ uri[p][2] = "challenge" /\ next = "mint"
        \/ uri[p][2] = "respond" /\ next = "verify"
        \/ uri[p][2] = "enroll" /\ next = "peek"
    BY <2>1, <2>2, <2>3
  <2>5. /\ req[p].pc = "throttle"
        /\ \/ Returns(p)
           \/ /\ Advances(p, next)
              /\ req'[p].t = req[p].t /\ req'[p].swept = req[p].swept
    BY <1>6, <2>1, ThrottleEffect
  <2> QED
    BY <2>4, <2>5
<1>7. CASE IssueNonce(p)
  BY <1>7, IssueNonceEffect
<1>8. CASE VerifyKnock(p)
  BY <1>8, VerifyKnockEffect
<1>9. CASE ClaimNonce(p)
  BY <1>9, ClaimNonceEffect
<1>10. CASE PutGrant(p)
  BY <1>10, PutGrantEffect
<1>11. CASE PeekCode(p)
  BY <1>11, PeekCodeEffect
<1>12. CASE ConsumeCode(p)
  BY <1>12, ConsumeCodeEffect
<1>13. CASE MintEnrollCode(p)
  BY <1>13, MintEffect
<1> QED
  BY <1>1, <1>2, <1>3, <1>4, <1>5, <1>6, <1>7, <1>8, <1>9, <1>10, <1>11, <1>12, <1>13
     DEF Handle

\* What a step of a handler leaves alone.
StepFrame(p) ==
    /\ UNCHANGED <<now, live>>
    /\ UNCHANGED lastSweep \/ MaybeSweep(p)
    /\ UNCHANGED <<grants, byKid>> \/ PutGrant(p) \/ SweepGrants(p)
    /\ UNCHANGED spent \/ SweepNonces(p) \/ ClaimNonce(p)
    /\ UNCHANGED window \/ SweepLimiter(p) \/ Throttle(p)
    /\ UNCHANGED minted \/ IssueNonce(p)
    /\ UNCHANGED codes \/ SweepCodes(p) \/ ConsumeCode(p) \/ MintEnrollCode(p)
    /\ UNCHANGED issued \/ MintEnrollCode(p)
    /\ UNCHANGED delivered \/ ConsumeCode(p)

\* What no handler step touches: the clock, and each store but the one its
\* step locks.
LEMMA StepKeeps ==
    ASSUME NEW p \in Request, Handle(p) \/ MintEnrollCode(p)
    PROVE  StepFrame(p)
<1> USE DEF StepFrame, stores, history
<1>1. CASE Arrive(p)
  BY <1>1 DEF Arrive
<1>2. CASE MaybeSweep(p)
  BY <1>2 DEF MaybeSweep
<1>3. CASE SweepGrants(p)
  BY <1>3 DEF SweepGrants
<1>4. CASE SweepNonces(p)
  BY <1>4 DEF SweepNonces
<1>5. CASE SweepCodes(p)
  BY <1>5 DEF SweepCodes
<1>6. CASE SweepLimiter(p)
  BY <1>6 DEF SweepLimiter
<1>7. CASE Route(p)
  BY <1>7 DEF Route
<1>8. CASE CheckGrant(p)
  BY <1>8 DEF CheckGrant
<1>9. CASE Throttle(p)
  BY <1>9 DEF Throttle
<1>10. CASE IssueNonce(p)
  BY <1>10 DEF IssueNonce
<1>11. CASE VerifyKnock(p)
  BY <1>11 DEF VerifyKnock
<1>12. CASE ClaimNonce(p)
  BY <1>12 DEF ClaimNonce
<1>13. CASE PutGrant(p)
  BY <1>13 DEF PutGrant
<1>14. CASE PeekCode(p)
  BY <1>14 DEF PeekCode
<1>15. CASE ConsumeCode(p)
  BY <1>15 DEF ConsumeCode
<1>16. CASE MintEnrollCode(p)
  BY <1>16 DEF MintEnrollCode
<1> QED
  BY <1>1, <1>2, <1>3, <1>4, <1>5, <1>6, <1>7, <1>8, <1>9, <1>10, <1>11, <1>12, <1>13, <1>14, <1>15, <1>16
     DEF Handle, SweepStep

\* A reload or a tick of the clock leaves requests and stores alone.
LEMMA OtherKeeps ==
    ASSUME [Next]_vars, ~\E p \in Request : Handle(p) \/ MintEnrollCode(p)
    PROVE  /\ UNCHANGED <<uri, lastSweep, stores, minted, req, history>>
           /\ now' = now \/ (now' = now + 1 /\ now < MaxTime)
           /\ live' = live \/ live' \in Generations
<1>1. CASE \E g \in Generations : Reload(g)
  BY <1>1 DEF Reload
<1>2. CASE Tick
  BY <1>2 DEF Tick
<1>3. CASE UNCHANGED vars
  BY <1>3 DEF vars
<1> QED
  BY <1>1, <1>2, <1>3 DEF Next

\* A request that has been answered stays as it is.
LEMMA DoneKept ==
    ASSUME Control, [Next]_vars
    PROVE  UNCHANGED uri /\ \A q \in Request : req[q].pc = "done" => req'[q] = req[q]
<1>1. CASE \E p \in Request : Handle(p) \/ MintEnrollCode(p)
  BY <1>1, StepMoves DEF Moves, Alone
<1>2. CASE ~\E p \in Request : Handle(p) \/ MintEnrollCode(p)
  BY <1>2, OtherKeeps
<1> QED
  BY <1>1, <1>2

\* A code stays on record as it was minted.
LEMMA IssuedKept ==
    ASSUME Control, [Next]_vars
    PROVE  /\ DOMAIN issued \subseteq DOMAIN issued'
           /\ \A c \in DOMAIN issued : issued'[c] = issued[c]
<1>1. ASSUME NEW p \in Request, Handle(p) \/ MintEnrollCode(p)
      PROVE  /\ DOMAIN issued \subseteq DOMAIN issued'
             /\ \A c \in DOMAIN issued : issued'[c] = issued[c]
  <2>1. CASE MintEnrollCode(p)
    <3>1. p \notin DOMAIN issued
      BY <2>1, MintEffect DEF Control
    <3> QED
      BY <2>1, <3>1 DEF MintEnrollCode
  <2> QED
    BY <1>1, <2>1, StepKeeps DEF StepFrame
<1>2. CASE ~\E p \in Request : Handle(p) \/ MintEnrollCode(p)
  BY <1>2, OtherKeeps DEF history
<1> QED
  BY <1>1, <1>2

\* Every step keeps the handlers in control.
LEMMA ControlStep ==
    ASSUME Control, [Next]_vars
    PROVE  Control'
<1>1. ASSUME NEW p \in Request, Handle(p) \/ MintEnrollCode(p)
      PROVE  Control'
  <2>1. Moves(p)
    BY <1>1, StepMoves
  <2>2. \A q \in Request : LabelOf(q)' /\ (req'[q].out # "" => req'[q].pc = "done")
    BY <2>1 DEF Moves, Alone, LabelOf, Control
  <2>3. DOMAIN issued' \subseteq Request /\ \A c \in DOMAIN issued' : req'[c].pc = "done"
    <3>1. CASE UNCHANGED issued
      BY <3>1, DoneKept DEF Control
    <3>2. CASE MintEnrollCode(p)
      <4>1. DOMAIN issued' = DOMAIN issued \cup {p} /\ req'[p].pc = "done"
        BY <3>2, MintEffect DEF MintEnrollCode, Control, Returns
      <4> QED
        BY <4>1, DoneKept DEF Control
    <3> QED
      BY <1>1, <3>1, <3>2, StepKeeps DEF StepFrame
  <2>4. ASSUME NEW q \in Request
        PROVE  InputOf(q)'
    <3>1. uri'[q] = uri[q]
      BY DoneKept
    <3>2. CASE Active(q) /\ req'[q].body = req[q].body
      BY <3>1, <3>2, IssuedKept DEF Control, InputOf
    <3>3. CASE req'[q].body \in Body(q)
      <4>1. uri[q][2] = "enroll" => req'[q].body.code \in DOMAIN issued
        BY <3>3 DEF Body
      <4> QED
        BY <3>1, <4>1, IssuedKept DEF InputOf
    <3> QED
      BY <2>1, <3>2, <3>3 DEF Moves, Alone, Active, InputOf, SameRequest
  <2> QED
    BY <2>1, <2>2, <2>3, <2>4 DEF Control, Moves, Alone
<1>2. CASE ~\E p \in Request : Handle(p) \/ MintEnrollCode(p)
  BY <1>2, OtherKeeps DEF Control, Shape, LabelOf, InputOf, Active, history
<1> QED
  BY <1>1, <1>2

\* The handlers start in control.
LEMMA ControlInit ==
    ASSUME Init
    PROVE  Control
<1>1. issued = <<>> /\ req = [p \in Request |-> Idle]
  BY DEF Init
<1>2. DOMAIN issued = {}
  BY <1>1
<1>3. \A p \in Request : req[p].pc = "idle" /\ req[p].out = ""
  BY <1>1 DEF Idle
<1> QED
  BY <1>1, <1>2, <1>3 DEF Control, Shape, LabelOf, InputOf, Active, Knocking, Enrolling

-----------------------------------------------------------------------------
(* GateJustified *)

\* Request q put g after a knock that proved the secret g is bound to.
Backs(q, g) ==
    /\ req[q].out = "granted" /\ req[q].g = {g}
    /\ req[q].host = g.service /\ req[q].ip = g.ip /\ req[q].body.device[1] = g.kid
    /\ g.manual = FALSE /\ g.secretFP = SecretHash(req[q].body.device[2])
    /\ g.binding = Site(q).binding
    /\ g.binding = Grants!BindingIPCookie => g.cookieHash = Grants!CookieHash(q)

\* The store only holds grants that some request put.
Backed == \A k \in DOMAIN grants : \E q \in Request : Backs(q, grants[k])

GateInv ==
    /\ Control
    /\ \A p \in Request : req[p].pc \in {"claim", "put"} => Proven(p)
    /\ Backed
    /\ GateJustified

\* What GateJustified asks of a request p that g let through.
Justified(p, g) ==
    \E q \in Request :
        /\ req[q].out = "granted" /\ req[q].g = {g}
        /\ req[q].host = req[p].host /\ req[q].ip = req[p].ip
        /\ req[p].t < g.exp
        /\ Authorize(Site(p).reg, req[q].body.device[1], req[p].host, req[p].t)
        /\ Site(p).reg.tokens[req[q].body.device[1]].secret = req[q].body.device[2]
        /\ Grants!BindingIPCookie \in {Site(p).binding, Site(q).binding} => req[p].cookie = q

\* A request that backs a grant keeps backing it: answers never change.
LEMMA BacksKept ==
    ASSUME Control, [Next]_vars, NEW q \in Request, NEW g, Backs(q, g)
    PROVE  Backs(q, g)'
<1>1. req'[q] = req[q]
  BY DoneKept DEF Control, Backs
<1> QED
  BY <1>1 DEF Backs, Site

\* What justified an answer keeps justifying it: answers never change.
LEMMA JustifiedKept ==
    ASSUME Control, [Next]_vars, NEW p \in Request, NEW g,
           req[p].out = "allow", Justified(p, g)
    PROVE  Justified(p, g)'
<1>1. req'[p] = req[p]
  BY DoneKept DEF Control
<1>2. \A q \in Request : req[q].out = "granted" => req'[q] = req[q]
  BY DoneKept DEF Control
<1> QED
  BY <1>1, <1>2 DEF Justified, Site

\* Backed', with the grant named before the request.
LEMMA BackedNext ==
    ASSUME \A k \in DOMAIN grants' : \A g : g = grants'[k] => \E q \in Request : Backs(q, g)'
    PROVE  Backed'
  BY DEF Backed, Backs, Site

\* Every grant in the shared store after a step was put by some knock.
LEMMA BackedStep ==
    ASSUME GateInv, [Next]_vars
    PROVE  Backed'
<1>1. ASSUME NEW k \in DOMAIN grants, NEW g, g = grants[k]
      PROVE  \E q \in Request : Backs(q, g)'
  <2>1. PICK q \in Request : Backs(q, g)
    BY <1>1 DEF GateInv, Backed
  <2> QED
    BY <2>1, BacksKept DEF GateInv
<1>2. ASSUME DOMAIN grants' \subseteq DOMAIN grants,
             \A k \in DOMAIN grants' : grants'[k] = grants[k]
      PROVE  Backed'
  BY <1>1, <1>2, BackedNext
<1>3. ASSUME NEW p \in Request, Handle(p) \/ MintEnrollCode(p)
      PROVE  Backed'
  <2>1. CASE PutGrant(p)
    <3>1. PICK f : f = KnockGrant(p)
      OBVIOUS
    <3>2. PICK h : Grants!Put(f, h)
      BY <2>1, <3>1, PutGrantEffect DEF GateInv, Control
    <3>3. /\ req[p].pc = "put" /\ SameRequest(p)
          /\ req'[p].out = "granted" /\ req'[p].g = {f}
      BY <2>1, <3>1, PutGrantEffect DEF GateInv, Control
    <3>4. /\ f.service = req[p].host /\ f.ip = req[p].ip /\ f.kid = req[p].body.device[1]
          /\ f.manual = FALSE /\ f.binding = Site(p).binding
          /\ f.binding = Grants!BindingIPCookie => f.cookieHash = Grants!CookieHash(p)
          /\ f.secretFP = Fingerprint(Site(p).reg, req[p].body.device[1])
      BY <3>1 DEF KnockGrant
    <3>5. Proven(p)
      BY <3>3 DEF GateInv
    <3>6. f.secretFP = SecretHash(req[p].body.device[2])
      BY <3>4, <3>5 DEF Proven, Fingerprint
    <3>7. Backs(p, f)'
      BY <3>3, <3>4, <3>6 DEF Backs, Site, SameRequest
    <3>8. ASSUME NEW k \in DOMAIN grants', NEW g, g = grants'[k]
          PROVE  \E q \in Request : Backs(q, g)'
      <4>1. g = f \/ (k \in DOMAIN grants /\ g = grants[k])
        BY <3>2, <3>8 DEF Grants!Put, Grants!Retired
      <4>2. CASE g = f
        BY <3>7, <4>2
      <4>3. CASE k \in DOMAIN grants /\ g = grants[k]
        BY <1>1, <4>3
      <4> QED
        BY <4>1, <4>2, <4>3
    <3> QED
      BY <3>8, BackedNext
  <2>2. CASE SweepGrants(p)
    BY <1>2, <2>2 DEF SweepGrants, Grants!Sweep, Grants!Dropped, Grants!Restrict
  <2>3. CASE UNCHANGED grants
    BY <1>2, <2>3
  <2> QED
    BY <1>3, <2>1, <2>2, <2>3, StepKeeps DEF StepFrame
<1>4. CASE ~\E p \in Request : Handle(p) \/ MintEnrollCode(p)
  BY <1>2, <1>4, OtherKeeps DEF stores
<1> QED
  BY <1>3, <1>4

\* A knock past VerifyKnock was proven to the site it came to.
LEMMA ProvenStep ==
    ASSUME GateInv, [Next]_vars, NEW q \in Request, req'[q].pc \in {"claim", "put"}
    PROVE  Proven(q)'
<1>1. ASSUME Proven(q), req'[q].h = req[q].h, req'[q].body = req[q].body
      PROVE  Proven(q)'
  BY <1>1 DEF Proven, Site
<1>2. ASSUME NEW p \in Request, Handle(p) \/ MintEnrollCode(p)
      PROVE  Proven(q)'
  <2>1. Moves(p)
    BY <1>2, StepMoves DEF GateInv
  <2>2. CASE q # p
    BY <1>1, <2>1, <2>2 DEF Moves, Alone, GateInv
  <2>3. CASE q = p /\ VerifyKnock(p)
    BY <1>1, <2>3, VerifyKnockEffect DEF GateInv, Control, Returns, Advances, SameRequest
  <2>4. CASE q = p /\ ClaimNonce(p)
    BY <1>1, <2>4, ClaimNonceEffect DEF GateInv, Control, Returns, Advances, SameRequest
  <2> QED
    BY <2>1, <2>2, <2>3, <2>4 DEF Moves, Comes
<1>3. CASE ~\E p \in Request : Handle(p) \/ MintEnrollCode(p)
  BY <1>1, <1>3, OtherKeeps DEF GateInv
<1> QED
  BY <1>2, <1>3

\* The registry that the store consults is the one of the instance.
LEMMA SameRegistry ==
    ASSUME NEW reg, NEW kid, NEW service, NEW t
    PROVE  /\ Grants!Authorize(reg, kid, service, t) = Authorize(reg, kid, service, t)
           /\ Grants!Fingerprint(reg, kid) = Fingerprint(reg, kid)
  BY DEF Grants!Authorize, Authorize, Grants!Fingerprint, Fingerprint, Grants!Known, Known,
         Grants!IsExpired, IsExpired, Grants!NeverExpires, NeverExpires,
         Grants!AllowedForService, AllowedForService, Grants!allowKey, allowKey,
         Grants!AnyService, AnyService, Grants!AnyKid, AnyKid,
         Grants!AlgHMACSHA256, AlgHMACSHA256, Grants!SecretHash, SecretHash,
         Grants!NoFP, NoFP

\* What IsAllowed returns lets the request through for a reason.
LEMMA CheckJustified ==
    ASSUME GateInv, [Next]_vars, NEW p \in Request, CheckGrant(p),
           req'[p].out = "allow", NEW g \in req'[p].g
    PROVE  Justified(p, g)'
<1>1. PICK reg : reg = Site(p).reg
  OBVIOUS
<1>2. /\ SameRequest(p) /\ req'[p].t = req[p].t /\ ~TooWeak(g, Site(p))
      /\ req'[p].g = Grants!IsAllowed(req[p].host, req[p].ip, reg, req[p].t, req[p].cookie)
  BY <1>1, CheckGrantEffect DEF GateInv, Control, Returns
<1>3. PICK k \in DOMAIN grants :
        /\ grants[k] = g
        /\ Grants!Admits(g, req[p].host, req[p].ip, reg, req[p].t, req[p].cookie)
  BY <1>2 DEF Grants!IsAllowed
<1>4. PICK q \in Request : Backs(q, g)
  BY <1>3 DEF GateInv, Backed
<1>5. req'[q] = req[q]
  BY <1>4, DoneKept DEF GateInv, Control, Backs
<1>6. /\ req[p].t < g.exp /\ g.service = req[p].host /\ g.ip = req[p].ip
      /\ Authorize(reg, g.kid, req[p].host, req[p].t) /\ g.secretFP = Fingerprint(reg, g.kid)
      /\ g.binding = Grants!BindingIPCookie => g.cookieHash = Grants!CookieHash(req[p].cookie)
  BY <1>3, <1>4, SameRegistry DEF Grants!Admits, Backs
<1>7. reg.tokens[g.kid].secret = req[q].body.device[2]
  BY <1>4, <1>6 DEF Backs, Authorize, Fingerprint, SecretHash
<1>8. Grants!BindingIPCookie \in {Site(p).binding, Site(q).binding} => req[p].cookie = q
  BY <1>2, <1>4, <1>6 DEF Backs, TooWeak, Grants!CookieHash
<1>9. Site(p)' = Site(p) /\ Site(q)' = Site(q)
  BY <1>2, <1>5 DEF Site, SameRequest
<1> QED
  BY <1>1, <1>2, <1>4, <1>5, <1>6, <1>7, <1>8, <1>9 DEF Justified, Backs, SameRequest

\* Every step preserves GateInv.
LEMMA GateStep ==
    ASSUME GateInv, [Next]_vars
    PROVE  GateInv'
<1>1. Control' /\ Backed'
  BY ControlStep, BackedStep DEF GateInv
<1>2. \A q \in Request : req'[q].pc \in {"claim", "put"} => Proven(q)'
  BY ProvenStep
<1>3. ASSUME NEW p \in Request, req'[p].out = "allow", NEW g \in req'[p].g
      PROVE  Justified(p, g)'
  <2>1. CASE req'[p] = req[p]
    <3>1. Control /\ req[p].out = "allow" /\ g \in req[p].g /\ GateJustified
      BY <1>3, <2>1 DEF GateInv
    <3>2. Justified(p, g)
      BY <3>1 DEF GateJustified, Justified
    <3> QED
      BY <3>1, <3>2, JustifiedKept
  <2>2. CASE req'[p] # req[p]
    <3>1. CheckGrant(p)
      <4>1. ASSUME NEW q \in Request, Handle(q) \/ MintEnrollCode(q)
            PROVE  CheckGrant(p)
        BY <1>3, <2>2, <4>1, StepMoves DEF GateInv, Moves, Alone, Comes
      <4>2. CASE ~\E q \in Request : Handle(q) \/ MintEnrollCode(q)
        BY <2>2, <4>2, OtherKeeps
      <4> QED
        BY <4>1, <4>2
    <3> QED
      BY <1>3, <3>1, CheckJustified
  <2> QED
    BY <2>1, <2>2
<1>4. GateJustified'
  BY <1>3 DEF GateJustified, Justified
<1> QED
  BY <1>1, <1>2, <1>4 DEF GateInv

\* ServeHTTP lets a request through only on a knock with the secret that its
\* own instance holds.
THEOREM Gated == Spec => []GateJustified
<1>1. Init => GateInv
  <2> SUFFICES ASSUME Init PROVE GateInv
    OBVIOUS
  <2>1. Control
    BY ControlInit
  <2>2. grants = <<>> /\ req = [p \in Request |-> Idle]
    BY DEF Init, Grants!GrantStoreInit
  <2>3. DOMAIN grants = {}
    BY <2>2
  <2>4. \A p \in Request : req[p].pc = "idle" /\ req[p].g = {}
    BY <2>2 DEF Idle
  <2> QED
    BY <2>1, <2>3, <2>4 DEF GateInv, GateJustified, Backed
<1>2. GateInv /\ [Next]_vars => GateInv'
  BY GateStep
<1>3. GateInv => GateJustified
  BY DEF GateInv
<1> QED
  BY <1>1, <1>2, <1>3, PTL DEF Spec

-----------------------------------------------------------------------------
(* The clock: SweepSpaced and SweepClosesNothing *)

\* The readings of the clock that requests hold, and the times of sweeps.
Timely ==
    /\ now \in Nat /\ lastSweep \in Nat /\ lastSweep <= now
    /\ \A p \in Request : /\ req[p].t \in Nat /\ req[p].t <= now
                          /\ \A u \in req[p].swept : u \in Nat /\ u <= lastSweep

SweepInv == Control /\ Timely /\ SweepSpaced

\* Clock readings stay in the past of the clock.
LEMMA TimelyStep ==
    ASSUME Control, Timely, [Next]_vars
    PROVE  Timely'
<1>1. ASSUME NEW p \in Request, Handle(p) \/ MintEnrollCode(p)
      PROVE  Timely'
  <2>1. Moves(p) /\ UNCHANGED now
    BY <1>1, StepMoves, StepKeeps DEF StepFrame
  <2>2. \A q \in Request : req'[q].t \in Nat /\ req'[q].t <= now
    <3>1. req'[p].t \in {req[p].t, now, 0} /\ \A q \in Request \ {p} : req'[q] = req[q]
      BY <2>1 DEF Moves, Alone
    <3> QED
      BY <3>1 DEF Timely
  <2>3. CASE UNCHANGED lastSweep /\ req'[p].swept \in {req[p].swept, {}}
    BY <2>1, <2>2, <2>3 DEF Timely, Moves, Alone
  <2>4. CASE MaybeSweep(p)
    <3>1. \/ UNCHANGED lastSweep /\ req'[p].swept = req[p].swept
          \/ /\ req[p].t - lastSweep >= SweepEvery
             /\ lastSweep' = req[p].t /\ req'[p].swept = {req[p].t}
      BY <2>4, MaybeSweepEffect DEF Control
    <3>2. lastSweep' \in Nat /\ lastSweep <= lastSweep' /\ lastSweep' <= now
      BY <3>1, SiteGateAssumption DEF Timely
    <3>3. \A u \in req'[p].swept : u \in Nat /\ u <= lastSweep'
      BY <3>1, <3>2 DEF Timely
    <3>4. \A q \in Request \ {p} : \A u \in req'[q].swept : u \in Nat /\ u <= lastSweep'
      <4>1. \A q \in Request \ {p} : req'[q].swept = req[q].swept
        BY <2>1 DEF Moves, Alone
      <4> QED
        BY <3>2, <4>1 DEF Timely
    <3> QED
      BY <2>1, <2>2, <3>2, <3>3, <3>4 DEF Timely
  <2> QED
    BY <1>1, <2>1, <2>3, <2>4, StepKeeps DEF StepFrame, Moves
<1>2. CASE ~\E p \in Request : Handle(p) \/ MintEnrollCode(p)
  BY <1>2, OtherKeeps DEF Timely
<1> QED
  BY <1>1, <1>2

\* All clocks start at zero.
LEMMA TimelyInit ==
    ASSUME Init
    PROVE  Timely
<1>1. now = SweepEvery /\ lastSweep = 0 /\ req = [p \in Request |-> Idle]
  BY DEF Init
<1>2. \A p \in Request : req[p].t = 0 /\ req[p].swept = {}
  BY <1>1 DEF Idle
<1> QED
  BY <1>1, <1>2, SiteGateAssumption DEF Timely

\* Two sweeps are SweepEvery apart: the compare-and-set of lastSweep lets
\* one handler through, and only that long after the last.
LEMMA SpacedStep ==
    ASSUME SweepInv, [Next]_vars
    PROVE  SweepSpaced'
<1>1. ASSUME \A q \in Request : req'[q].swept \in {req[q].swept, {}}
      PROVE  SweepSpaced'
  BY <1>1 DEF SweepInv, SweepSpaced
<1>2. ASSUME NEW p \in Request, Handle(p) \/ MintEnrollCode(p)
      PROVE  SweepSpaced'
  <2>1. Moves(p)
    BY <1>2, StepMoves DEF SweepInv
  <2>2. CASE MaybeSweep(p) /\ req'[p].swept # req[p].swept
    <3>1. req'[p].swept = {req[p].t} /\ req[p].t - lastSweep >= SweepEvery
      BY <2>2, MaybeSweepEffect DEF SweepInv, Control
    <3>2. ASSUME NEW q \in Request \ {p}, NEW u \in req'[q].swept
          PROVE  req[p].t - u >= SweepEvery
      <4>1. u \in req[q].swept
        BY <2>1 DEF Moves, Alone
      <4> QED
        BY <3>1, <4>1, SiteGateAssumption DEF SweepInv, Timely
    <3>3. ASSUME NEW q \in Request, NEW r \in Request, q # r,
                 NEW t \in req'[q].swept, NEW u \in req'[r].swept
          PROVE  t - u >= SweepEvery \/ u - t >= SweepEvery
      <4>1. CASE q = p
        BY <3>1, <3>2, <3>3, <4>1
      <4>2. CASE r = p
        BY <3>1, <3>2, <3>3, <4>2
      <4>3. CASE q # p /\ r # p
        BY <2>1, <3>3, <4>3 DEF Moves, Alone, SweepInv, SweepSpaced
      <4> QED
        BY <4>1, <4>2, <4>3
    <3> QED
      BY <3>3 DEF SweepSpaced
  <2>3. CASE req'[p].swept \in {req[p].swept, {}}
    BY <1>1, <2>1, <2>3 DEF Moves, Alone
  <2> QED
    BY <2>1, <2>2, <2>3 DEF Moves
<1>3. CASE ~\E p \in Request : Handle(p) \/ MintEnrollCode(p)
  BY <1>1, <1>3, OtherKeeps
<1> QED
  BY <1>2, <1>3

\* maybeSweep begins its sweeps at least SweepEvery apart, however late a
\* request gets to sweepMu with its reading of the clock.
THEOREM SweepsApart == Spec => []SweepSpaced
<1>1. Init => SweepInv
  <2> SUFFICES ASSUME Init PROVE SweepInv
    OBVIOUS
  <2>1. \A p \in Request : req[p].swept = {}
    BY DEF Init, Idle
  <2> QED
    BY <2>1, ControlInit, TimelyInit DEF SweepInv, SweepSpaced
<1>2. SweepInv /\ [Next]_vars => SweepInv'
  BY ControlStep, TimelyStep, SpacedStep DEF SweepInv
<1>3. SweepInv => SweepSpaced
  BY DEF SweepInv
<1> QED
  BY <1>1, <1>2, <1>3, PTL DEF Spec

\* The instances of requests under way, and the expiry of grants.
ExpiryInv ==
    /\ Control /\ Timely
    /\ live \subseteq DOMAIN Sites
    /\ \A p \in Request : Active(p) => req[p].h \in DOMAIN Sites
    /\ \A k \in DOMAIN grants : grants[k].exp \in Nat

\* Provision leaves every site a grant TTL that is a number.
LEMMA GrantTTL ==
    ASSUME NEW s \in DOMAIN Sites
    PROVE  Provision(s).grantTTL \in Nat
<1>1. Default(Sites[s].grantTTL, 0, DefaultTTL) \in Nat
  BY SiteGateAssumption DEF Default
<1>2. Seconds(Default(Sites[s].grantTTL, 0, DefaultTTL)) \in Nat
  BY <1>1, SiteGateAssumption DEF Seconds
<1> QED
  BY <1>2 DEF Provision

\* Every step preserves ExpiryInv.
LEMMA ExpiryStep ==
    ASSUME ExpiryInv, [Next]_vars
    PROVE  ExpiryInv'
<1>1. Control' /\ Timely'
  BY ControlStep, TimelyStep DEF ExpiryInv
<1>2. ASSUME NEW p \in Request, Handle(p) \/ MintEnrollCode(p)
      PROVE  ExpiryInv'
  <2>1. Moves(p) /\ UNCHANGED live
    BY <1>2, StepMoves, StepKeeps DEF ExpiryInv, StepFrame
  <2>2. Active(p)' => req'[p].h \in DOMAIN Sites
    <3>1. CASE req[p].pc = "idle"
      <4>1. CASE Arrive(p)
        BY <4>1, ArriveEffect DEF ExpiryInv, Control
      <4> QED
        BY <1>2, <3>1, <4>1, MintEffect DEF Handle, MaybeSweep, SweepStep, SweepGrants,
           SweepNonces, SweepCodes, SweepLimiter, Route, CheckGrant, Throttle, IssueNonce,
           VerifyKnock, ClaimNonce, PutGrant, PeekCode, ConsumeCode, At, Returns, Active,
           ExpiryInv, Control
    <3>2. CASE req[p].pc # "idle"
      BY <2>1, <3>2 DEF Moves, Active, SameRequest, ExpiryInv
    <3> QED
      BY <3>1, <3>2
  <2>3. \A q \in Request : Active(q)' => req'[q].h \in DOMAIN Sites
    BY <2>1, <2>2 DEF Moves, Alone, Active, ExpiryInv
  <2>4. \A k \in DOMAIN grants' : grants'[k].exp \in Nat
    <3>1. CASE PutGrant(p)
      <4>1. PICK g : g = KnockGrant(p)
        OBVIOUS
      <4>2. PICK h : Grants!Put(g, h)
        BY <3>1, <4>1, PutGrantEffect DEF ExpiryInv, Control
      <4>3. req[p].h \in DOMAIN Sites /\ req[p].t \in Nat
        BY <3>1, PutGrantEffect DEF ExpiryInv, Control, Active, Timely
      <4>4. g.exp = req[p].t + Site(p).grantTTL
        BY <4>1 DEF KnockGrant
      <4>5. g.exp \in Nat
        BY <4>3, <4>4, GrantTTL DEF Site
      <4> QED
        BY <4>2, <4>5 DEF ExpiryInv, Grants!Put, Grants!Retired
    <3>2. CASE SweepGrants(p)
      BY <3>2 DEF ExpiryInv, SweepGrants, Grants!Sweep, Grants!Dropped, Grants!Restrict
    <3>3. CASE UNCHANGED grants
      BY <3>3 DEF ExpiryInv
    <3> QED
      BY <1>2, <3>1, <3>2, <3>3, StepKeeps DEF StepFrame
  <2> QED
    BY <1>1, <2>1, <2>3, <2>4 DEF ExpiryInv
<1>3. CASE ~\E p \in Request : Handle(p) \/ MintEnrollCode(p)
  <2>1. UNCHANGED <<req, grants>> /\ live' \subseteq DOMAIN Sites
    BY <1>3, OtherKeeps, SiteGateAssumption DEF ExpiryInv, stores
  <2> QED
    BY <1>1, <2>1 DEF ExpiryInv, Active
<1> QED
  BY <1>2, <1>3

\* The record that admits a request from now on outlives a sweep.
LEMMA SweepSpares ==
    ASSUME ExpiryInv, NEW p \in Request, SweepGrants(p),
           NEW host, NEW ip, NEW reg, NEW cookie, NEW t \in now..MaxTime,
           NEW g \in Grants!IsAllowed(host, ip, reg, t, cookie)
    PROVE  g \in Grants!IsAllowed(host, ip, reg, t, cookie)'
<1>1. PICK k : k = Grants!LookupKey(host, ip, cookie)
  OBVIOUS
<1>2. /\ k \in DOMAIN grants /\ g = grants[k]
      /\ Grants!Admits(g, host, ip, reg, t, cookie)
  BY <1>1 DEF Grants!IsAllowed
<1>3. /\ DOMAIN grants' = { x \in DOMAIN grants : ~(req[p].t >= grants[x].exp) }
      /\ \A x \in DOMAIN grants' : grants'[x] = grants[x]
  BY DEF SweepGrants, Grants!Sweep, Grants!Dropped, Grants!Restrict
<1>4. k \in DOMAIN grants' /\ grants'[k] = g
  <2>1. t < g.exp
    BY <1>2 DEF Grants!Admits
  <2>2. ~(req[p].t >= g.exp)
    BY <1>2, <2>1 DEF ExpiryInv, Timely
  <2> QED
    BY <1>2, <1>3, <2>2
<1>5. Grants!LookupKey(host, ip, cookie)' = k
  BY <1>1, <1>3, <1>4 DEF Grants!LookupKey
<1> QED
  BY <1>2, <1>4, <1>5 DEF Grants!IsAllowed, Grants!Admits

\* A sweep, even one with an old reading of the clock, closes no site.
THEOREM SweepsHarmless == Spec => SweepClosesNothing
<1>1. Init => ExpiryInv
  <2> SUFFICES ASSUME Init PROVE ExpiryInv
    OBVIOUS
  <2>1. grants = <<>> /\ req = [p \in Request |-> Idle] /\ live \subseteq DOMAIN Sites
    BY SiteGateAssumption DEF Init, Grants!GrantStoreInit
  <2>2. DOMAIN grants = {}
    BY <2>1
  <2>3. \A p \in Request : ~Active(p)
    BY <2>1 DEF Idle, Active
  <2> QED
    BY <2>1, <2>2, <2>3, ControlInit, TimelyInit DEF ExpiryInv
<1>2. ExpiryInv /\ [Next]_vars => ExpiryInv'
  BY ExpiryStep
<1> DEFINE Spares ==
      \A p \in Request : SweepGrants(p) =>
        \A s \in DOMAIN Sites, ip \in IP, t \in now..MaxTime,
           cookie \in {Grants!NoCookie} \cup HandedOut : \A host \in Sites[s].hosts :
          Grants!IsAllowed(host, ip, Provision(s).reg, t, cookie) # {} =>
          Grants!IsAllowed(host, ip, Provision(s).reg, t, cookie)' # {}
<1>3. ExpiryInv /\ [Next]_vars => [Spares]_vars
  <2> SUFFICES ASSUME ExpiryInv, NEW p \in Request, SweepGrants(p),
                      NEW s \in DOMAIN Sites, NEW ip \in IP, NEW t \in now..MaxTime,
                      NEW cookie \in {Grants!NoCookie} \cup HandedOut,
                      NEW host \in Sites[s].hosts,
                      Grants!IsAllowed(host, ip, Provision(s).reg, t, cookie) # {}
               PROVE  Grants!IsAllowed(host, ip, Provision(s).reg, t, cookie)' # {}
    OBVIOUS
  <2>1. PICK g : g \in Grants!IsAllowed(host, ip, Provision(s).reg, t, cookie)
    OBVIOUS
  <2>2. g \in Grants!IsAllowed(host, ip, Provision(s).reg, t, cookie)'
    BY <2>1, SweepSpares
  <2> QED
    BY <2>2
<1> QED
  BY <1>1, <1>2, <1>3, PTL DEF Spec, SweepClosesNothing

-----------------------------------------------------------------------------
(* CodeKept *)

\* A code is in the store as it was minted, or spent, or expired.
Kept(c) ==
    /\ c \in DOMAIN codes => c \in DOMAIN issued /\ codes[c] = issued[c] /\ delivered[c] = 0
    /\ c \in DOMAIN issued => /\ issued[c].exp \in Nat /\ delivered[c] \in {0, 1}
                              /\ delivered[c] = 0 /\ now < issued[c].exp => c \in DOMAIN codes
    /\ c \notin DOMAIN issued => delivered[c] = 0

\* Who is about to consume a code serves its kid.
Serves(p) == req[p].pc = "consume" => Known(Site(p).reg, issued[req[p].body.code].kid)

CodeInv ==
    /\ Control /\ Timely
    /\ DOMAIN codes \subseteq Request /\ DOMAIN delivered = Request
    /\ \A c \in Request : Kept(c)
    /\ \A p \in Request : Serves(p)

\* A handler that peeked a code serves a site that knows the code's kid.
LEMMA ServesStep ==
    ASSUME CodeInv, [Next]_vars, NEW q \in Request
    PROVE  Serves(q)'
<1>1. ASSUME Serves(q), req'[q].pc = "consume" => req[q].pc = "consume",
             req'[q].h = req[q].h, req'[q].body = req[q].body
      PROVE  Serves(q)'
  <2>1. req[q].pc = "consume" => req[q].body.code \in DOMAIN issued
    BY DEF CodeInv, Control, InputOf, Active, LabelOf, Enrolling
  <2> QED
    BY <1>1, <2>1, IssuedKept DEF CodeInv, Serves, Site
<1>2. ASSUME NEW p \in Request, Handle(p) \/ MintEnrollCode(p)
      PROVE  Serves(q)'
  <2>1. Moves(p)
    BY <1>2, StepMoves DEF CodeInv
  <2>2. CASE q # p
    BY <1>1, <2>1, <2>2 DEF Moves, Alone, CodeInv
  <2>3. CASE q = p /\ PeekCode(p) /\ req'[p].pc = "consume"
    <3>1. PICK c : c = req[p].body.code
      OBVIOUS
    <3>2. /\ req'[p].h = req[p].h /\ req'[p].body = req[p].body
          /\ c \in DOMAIN codes /\ Known(Site(p).reg, codes[c].kid)
      BY <2>3, <3>1, PeekCodeEffect DEF CodeInv, Control, Returns, Advances, SameRequest
    <3>3. c \in DOMAIN issued /\ codes[c] = issued[c]
      BY <3>2 DEF CodeInv, Kept
    <3>4. issued'[c] = issued[c]
      BY <3>3, IssuedKept DEF CodeInv
    <3> QED
      BY <2>3, <3>1, <3>2, <3>3, <3>4 DEF Serves, Site
  <2>4. CASE req'[q].pc # "consume"
    BY <2>4 DEF Serves
  <2> QED
    BY <2>1, <2>2, <2>3, <2>4 DEF Moves, Comes
<1>3. CASE ~\E p \in Request : Handle(p) \/ MintEnrollCode(p)
  BY <1>1, <1>3, OtherKeeps DEF CodeInv
<1> QED
  BY <1>2, <1>3

\* A live code stays in the store until a site that knows its kid delivers
\* it: a site that does not know it returns before Consume.
LEMMA KeptStep ==
    ASSUME CodeInv, [Next]_vars, NEW c \in Request
    PROVE  Kept(c)' /\ c \in DOMAIN delivered'
<1>1. Kept(c) /\ c \in DOMAIN delivered /\ now \in Nat
  BY DEF CodeInv, Timely
<1>2. ASSUME NEW p \in Request, Handle(p) \/ MintEnrollCode(p)
      PROVE  Kept(c)' /\ c \in DOMAIN delivered'
  <2>1. UNCHANGED now
    BY <1>2, StepKeeps DEF StepFrame
  <2>2. CASE SweepCodes(p)
    <3>1. /\ UNCHANGED <<issued, delivered>>
          /\ DOMAIN codes' = { x \in DOMAIN codes : req[p].t < codes[x].exp }
          /\ \A x \in DOMAIN codes' : codes'[x] = codes[x]
      BY <2>2 DEF SweepCodes, Codes!Sweep, Codes!Restrict, history
    <3>2. req[p].t \in Nat /\ req[p].t <= now
      BY DEF CodeInv, Timely
    <3> QED
      BY <1>1, <2>1, <3>1, <3>2 DEF Kept
  <2>3. CASE ConsumeCode(p)
    <3>1. PICK d : d = req[p].body.code
      OBVIOUS
    <3>2. /\ UNCHANGED issued
          /\ DOMAIN codes' = DOMAIN codes \ {d}
          /\ \A x \in DOMAIN codes' : codes'[x] = codes[x]
          /\ \/ delivered' = [delivered EXCEPT ![d] = @ + 1] /\ Codes!Live(d, now)
             \/ /\ UNCHANGED delivered
                /\ ~(Codes!Live(d, now) /\ Known(Site(p).reg, codes[d].kid))
      BY <2>3, <3>1 DEF ConsumeCode, Codes!Consume, Codes!Restrict
    <3>3. req[p].pc = "consume"
      BY <2>3, ConsumeCodeEffect DEF CodeInv, Control
    <3>4. Known(Site(p).reg, issued[d].kid)
      BY <3>1, <3>3 DEF CodeInv, Serves
    <3>5. CASE c # d
      BY <1>1, <2>1, <3>2, <3>5 DEF Kept
    <3>6. CASE /\ c = d /\ UNCHANGED delivered
               /\ ~(Codes!Live(d, now) /\ Known(Site(p).reg, codes[d].kid))
      <4>1. c \in DOMAIN codes => ~Codes!Live(c, now)
        BY <1>1, <3>4, <3>6 DEF Kept
      <4> QED
        BY <1>1, <2>1, <3>2, <3>6, <4>1 DEF Kept, Codes!Live
    <3>7. CASE c = d /\ delivered' = [delivered EXCEPT ![d] = @ + 1] /\ Codes!Live(d, now)
      <4>1. c \in DOMAIN codes /\ delivered[c] = 0
        BY <1>1, <3>7 DEF Kept, Codes!Live
      <4>2. delivered'[c] = 1
        BY <1>1, <3>7, <4>1
      <4> QED
        BY <1>1, <2>1, <3>2, <3>7, <4>1, <4>2 DEF Kept
    <3> QED
      BY <3>2, <3>5, <3>6, <3>7
  <2>4. CASE MintEnrollCode(p)
    <3>1. PICK kid \in Kid :
            /\ Codes!Put(p, kid, now + CodeTTL)
            /\ issued' = [ x \in DOMAIN issued \cup {p} |->
                             IF x = p THEN [kid |-> kid, exp |-> now + CodeTTL]
                             ELSE issued[x] ]
      BY <2>4 DEF MintEnrollCode
    <3>2. UNCHANGED delivered /\ p \notin DOMAIN issued
      BY <2>4, MintEffect DEF MintEnrollCode, CodeInv, Control
    <3>3. CASE c # p
      BY <1>1, <2>1, <3>1, <3>2, <3>3 DEF Kept, Codes!Put
    <3>4. CASE c = p
      <4>1. /\ c \in DOMAIN codes' /\ c \in DOMAIN issued' /\ codes'[c] = issued'[c]
            /\ issued'[c].exp = now + CodeTTL
        BY <3>1, <3>4 DEF Codes!Put
      <4> QED
        BY <1>1, <3>2, <3>4, <4>1, SiteGateAssumption DEF Kept
    <3> QED
      BY <3>3, <3>4
  <2>5. CASE UNCHANGED <<codes, issued, delivered>>
    BY <1>1, <2>1, <2>5 DEF Kept
  <2> QED
    BY <1>2, <2>2, <2>3, <2>4, <2>5, StepKeeps DEF StepFrame
<1>3. CASE ~\E p \in Request : Handle(p) \/ MintEnrollCode(p)
  <2>1. UNCHANGED <<codes, issued, delivered>> /\ (now' = now \/ now' = now + 1)
    BY <1>3, OtherKeeps DEF stores, history
  <2> QED
    BY <1>1, <2>1 DEF Kept
<1> QED
  BY <1>2, <1>3

\* Every step preserves CodeInv.
LEMMA CodeStep ==
    ASSUME CodeInv, [Next]_vars
    PROVE  CodeInv'
<1>1. Control' /\ Timely' /\ \A p \in Request : Serves(p)'
  BY ControlStep, TimelyStep, ServesStep DEF CodeInv
<1>2. \A c \in Request : Kept(c)'
  BY KeptStep
<1>3. DOMAIN codes' \subseteq Request /\ DOMAIN delivered' = Request
  <2>1. ASSUME NEW p \in Request, Handle(p) \/ MintEnrollCode(p)
        PROVE  DOMAIN codes' \subseteq Request /\ DOMAIN delivered' = Request
    <3>1. CASE SweepCodes(p)
      BY <3>1 DEF CodeInv, SweepCodes, Codes!Sweep, Codes!Restrict, history
    <3>2. CASE ConsumeCode(p)
      BY <3>2 DEF CodeInv, ConsumeCode, Codes!Consume, Codes!Restrict
    <3>3. CASE MintEnrollCode(p)
      BY <3>3 DEF CodeInv, MintEnrollCode, Codes!Put
    <3>4. CASE UNCHANGED <<codes, delivered>>
      BY <3>4 DEF CodeInv
    <3> QED
      BY <2>1, <3>1, <3>2, <3>3, <3>4, StepKeeps DEF StepFrame
  <2>2. CASE ~\E p \in Request : Handle(p) \/ MintEnrollCode(p)
    BY <2>2, OtherKeeps DEF CodeInv, stores, history
  <2> QED
    BY <2>1, <2>2
<1> QED
  BY <1>1, <1>2, <1>3 DEF CodeInv

\* No code is minted yet.
LEMMA CodeInit ==
    ASSUME Init
    PROVE  CodeInv
<1>1. /\ codes = <<>> /\ issued = <<>> /\ delivered = [c \in Request |-> 0]
      /\ req = [p \in Request |-> Idle]
  BY DEF Init, Codes!EnrollStoreInit
<1>2. DOMAIN codes = {} /\ DOMAIN issued = {}
  BY <1>1
<1>3. \A p \in Request : req[p].pc = "idle"
  BY <1>1 DEF Idle
<1> QED
  BY <1>1, <1>2, <1>3, ControlInit, TimelyInit DEF CodeInv, Kept, Serves

\* handleEnroll peeks, validates and only then burns: until it expires a code
\* is in the store or was exchanged for its secret once.
THEOREM CodesKept == Spec => []CodeKept
<1>1. Init => CodeInv
  BY CodeInit
<1>2. CodeInv /\ [Next]_vars => CodeInv'
  BY CodeStep
<1>3. CodeInv => CodeKept
  <2> SUFFICES ASSUME CodeInv, NEW c \in DOMAIN issued
               PROVE  /\ delivered[c] <= 1
                      /\ now < issued[c].exp => (c \in DOMAIN codes <=> delivered[c] = 0)
    BY DEF CodeKept
  <2>1. Kept(c)
    BY DEF CodeInv, Control
  <2>2. delivered[c] <= 1
    BY <2>1 DEF Kept
  <2> QED
    BY <2>1, <2>2 DEF Kept
<1> QED
  BY <1>1, <1>2, <1>3, PTL DEF Spec

-----------------------------------------------------------------------------
(* TypeOK *)

\* The key of a grant is a sequence of segments and hashes.
LEMMA KeyTyped ==
    ASSUME NEW g \in Grants!Grant
    PROVE  Grants!keyFor(g) \in Grants!Key
<1>1. /\ g.service \in Seq(Segment \cup Grants!Hash) /\ g.ip \in Seq(Segment \cup Grants!Hash)
      /\ g.cookieHash \in Grants!Hash \cup {Grants!NoHash}
  <2>1. g.service \in Service /\ g.ip \in IP /\ g.cookieHash \in Grants!Hash \cup {Grants!NoHash}
    BY DEF Grants!Grant
  <2>2. g.service \in Seq(Segment) /\ g.ip \in Seq(Segment)
    BY <2>1, TypesAssumption
  <2> QED BY <2>1, <2>2
<1>2. Grants!GrantKey(g.service, g.ip) \in Grants!Key
  BY <1>1 DEF Grants!GrantKey, Grants!Key
<1>3. g.cookieHash # Grants!NoHash
        => Grants!GrantKeyCookie(g.service, g.ip, g.cookieHash) \in Grants!Key
  BY <1>1 DEF Grants!GrantKeyCookie, Grants!Key
<1> QED
  BY <1>2, <1>3 DEF Grants!keyFor

\* unindexLocked leaves an index of kids and keys.
LEMMA UnindexTyped ==
    ASSUME Grants!GrantStoreTypeOK, NEW gone
    PROVE  LET idx == Grants!unindexLocked(byKid, gone)
           IN  /\ DOMAIN idx \subseteq Kid /\ idx \in [DOMAIN idx -> SUBSET Grants!Key]
  BY DEF Grants!GrantStoreTypeOK, Grants!unindexLocked, Grants!Restrict

\* Put of a grant keeps the types of the store.
LEMMA PutTyped ==
    ASSUME Grants!GrantStoreTypeOK, NEW g \in Grants!Grant, NEW h, Grants!Put(g, h)
    PROVE  Grants!GrantStoreTypeOK'
<1> DEFINE k == Grants!keyFor(g)
           gone == Grants!Retired(g, h) \cup ({k} \cap DOMAIN grants)
           idx == Grants!unindexLocked(byKid, gone)
<1>1. k \in Grants!Key /\ g.kid \in Kid
  BY KeyTyped DEF Grants!Grant
<1>2. DOMAIN idx \subseteq Kid /\ idx \in [DOMAIN idx -> SUBSET Grants!Key]
  BY UnindexTyped
<1>3. /\ grants' = [ x \in (DOMAIN grants \ Grants!Retired(g, h)) \cup {k} |->
                      IF x = k THEN g ELSE grants[x] ]
      /\ byKid' = [ kid \in DOMAIN idx \cup {g.kid} |->
                      (IF kid \in DOMAIN idx THEN idx[kid] ELSE {})
                        \cup (IF kid = g.kid THEN {k} ELSE {}) ]
  BY DEF Grants!Put
<1> HIDE DEF k, idx
<1>4. DOMAIN grants' \subseteq Grants!Key /\ grants' \in [DOMAIN grants' -> Grants!Grant]
  BY <1>1, <1>3 DEF Grants!GrantStoreTypeOK
<1>5. DOMAIN byKid' \subseteq Kid /\ byKid' \in [DOMAIN byKid' -> SUBSET Grants!Key]
  <2>1. DOMAIN byKid' = DOMAIN idx \cup {g.kid}
    BY <1>3
  <2>2. \A kid \in DOMAIN byKid' : byKid'[kid] \subseteq Grants!Key
    BY <1>1, <1>2, <1>3
  <2> QED BY <1>1, <1>2, <1>3, <2>1, <2>2
<1> QED
  BY <1>4, <1>5 DEF Grants!GrantStoreTypeOK

\* Revocation and sweep keep them.
LEMMA DropTyped ==
    ASSUME Grants!GrantStoreTypeOK,
           \/ \E s, i : Grants!Revoke(s, i)
           \/ \E kid : Grants!RevokeToken(kid)
           \/ \E t : Grants!Sweep(t)
    PROVE  Grants!GrantStoreTypeOK'
<1>1. ASSUME NEW gone, grants' = Grants!Dropped(grants, gone)
      PROVE  DOMAIN grants' \subseteq Grants!Key /\ grants' \in [DOMAIN grants' -> Grants!Grant]
  BY <1>1 DEF Grants!GrantStoreTypeOK, Grants!Dropped, Grants!Restrict
<1>2. ASSUME NEW gone, grants' = Grants!Dropped(grants, gone),
             byKid' = Grants!unindexLocked(byKid, gone)
      PROVE  Grants!GrantStoreTypeOK'
  BY <1>1, <1>2, UnindexTyped DEF Grants!GrantStoreTypeOK
<1>3. ASSUME NEW kid, Grants!RevokeToken(kid) PROVE Grants!GrantStoreTypeOK'
  <2>1. /\ grants' = Grants!Dropped(grants, IF kid \in DOMAIN byKid THEN byKid[kid] ELSE {})
        /\ byKid' = Grants!Dropped(byKid, {kid})
    BY <1>3 DEF Grants!RevokeToken
  <2>2. DOMAIN byKid' \subseteq Kid /\ byKid' \in [DOMAIN byKid' -> SUBSET Grants!Key]
    BY <2>1 DEF Grants!GrantStoreTypeOK, Grants!Dropped, Grants!Restrict
  <2> QED BY <1>1, <2>1, <2>2 DEF Grants!GrantStoreTypeOK
<1>4. ASSUME NEW s, NEW i, Grants!Revoke(s, i) PROVE Grants!GrantStoreTypeOK'
  BY <1>2, <1>4 DEF Grants!Revoke
<1>5. ASSUME NEW t, Grants!Sweep(t) PROVE Grants!GrantStoreTypeOK'
  BY <1>2, <1>5 DEF Grants!Sweep
<1> QED
  BY <1>3, <1>4, <1>5


\* Where a step of p's handler leads.
Leads(p) ==
    /\ req'[p].pc \in Labels
    /\ req'[p].h \in {req[p].h, ""} \cup live
    /\ req'[p].g \in {req[p].g, {}} \/ PutGrant(p) \/ CheckGrant(p)
    /\ req[p].pc = "idle" /\ Active(p)' => Arrive(p)
    /\ req'[p].pc \in Knocking =>
         req[p].pc \in {"throttle"} \cup Knocking /\ req'[p].ip = req[p].ip
    /\ req'[p].pc = "throttle" => req'[p].ip # Unresolved

\* Every step of a handler leads to a label, with the instance it arrived at.
LEMMA StepLeads ==
    ASSUME Control, NEW p \in Request, Handle(p) \/ MintEnrollCode(p)
    PROVE  Leads(p)
<1> USE DEF Leads, Control, Alone, Advances, SameRequest, Returns, Active, Knocking, Labels
<1>1. CASE Arrive(p)
  BY <1>1, ArriveEffect
<1>2. CASE MaybeSweep(p)
  BY <1>2, MaybeSweepEffect
<1>3. CASE SweepStep(p)
  <2>1. PICK l \in SweepLabels \cup {"route"} : Advances(p, l)
    BY <1>3, SweepStepEffect
  <2>2. l \in Labels \ (Knocking \cup {"throttle"}) /\ req[p].pc # "idle"
    BY <1>3, SweepStepEffect DEF SweepLabels
  <2>3. req'[p].pc = l /\ req'[p].h = req[p].h /\ req'[p].g = req[p].g
    BY <2>1
  <2> QED BY <2>2, <2>3
<1>4. CASE Route(p)
  BY <1>4, RouteEffect
<1>5. CASE CheckGrant(p)
  BY <1>5, CheckGrantEffect
<1>6. CASE Throttle(p)
  <2>1. PICK next : next = AfterThrottle[uri[p][2]]
    OBVIOUS
  <2>2. req[p].pc = "throttle" /\ uri[p][2] \in {"challenge", "respond", "enroll"}
    BY <1>6, ThrottleEffect DEF LabelOf, Endpoints
  <2>3. next \in {"mint", "verify", "peek"}
    <3>1. /\ AfterThrottle["challenge"] = "mint"
          /\ AfterThrottle["respond"] = "verify"
          /\ AfterThrottle["enroll"] = "peek"
      BY DEF AfterThrottle
    <3> QED BY <2>1, <2>2, <3>1
  <2>4. Returns(p) \/ Advances(p, next)
    BY <1>6, <2>1, ThrottleEffect
  <2> QED BY <2>2, <2>3, <2>4
<1>7. CASE IssueNonce(p)
  BY <1>7, IssueNonceEffect
<1>8. CASE VerifyKnock(p)
  BY <1>8, VerifyKnockEffect
<1>9. CASE ClaimNonce(p)
  BY <1>9, ClaimNonceEffect
<1>10. CASE PutGrant(p)
  BY <1>10, PutGrantEffect
<1>11. CASE PeekCode(p)
  BY <1>11, PeekCodeEffect
<1>12. CASE ConsumeCode(p)
  BY <1>12, ConsumeCodeEffect
<1>13. CASE MintEnrollCode(p)
  BY <1>13, MintEffect
<1> QED
  BY <1>1, <1>2, <1>3, <1>4, <1>5, <1>6, <1>7, <1>8, <1>9, <1>10, <1>11, <1>12, <1>13
     DEF Handle

\* What a request under way was sent to, and with what.
Fit(p) ==
    Active(p) =>
        /\ req[p].h \in DOMAIN Sites /\ Accepted(req[p].h)
        /\ req[p].host \in Service /\ req[p].ip \in IP \cup {Unresolved}
        /\ uri[p][2] = "respond" =>
             req[p].body.device \in Device /\ req[p].body.nonce \in DOMAIN minted
        /\ req[p].pc \in {"throttle"} \cup Knocking => req[p].ip # Unresolved

\* The types of a request.
Typed(p) ==
    /\ req[p].pc \in Labels /\ req[p].t \in 0..now
    /\ req[p].g \subseteq Grants!Grant /\ req[p].h \in DOMAIN Sites \cup {""}

TypeInv ==
    /\ CodeInv /\ TypeOK
    /\ \A p \in Request : Fit(p)

\* The instances that serve are provisioned sites.
LEMMA LiveSites ==
    ASSUME TypeOK
    PROVE  live \subseteq DOMAIN Sites /\ \A s \in live : Accepted(s)
  BY SiteGateAssumption DEF TypeOK

\* A nonce that was handed out stays so, and is dated by the clock.
LEMMA MintedTyped ==
    ASSUME TypeInv, [Next]_vars
    PROVE  /\ DOMAIN minted \subseteq DOMAIN minted'
           /\ \A n \in DOMAIN minted' : minted'[n].ts \in Time
<1>0. now \in Time /\ \A n \in DOMAIN minted : minted[n].ts \in Time
  BY DEF TypeInv, TypeOK
<1>1. CASE UNCHANGED minted
  BY <1>0, <1>1
<1>2. ASSUME NEW p \in Request, IssueNonce(p)
      PROVE  /\ DOMAIN minted \subseteq DOMAIN minted'
             /\ \A n \in DOMAIN minted' : minted'[n].ts \in Time
  BY <1>0, <1>2 DEF IssueNonce
<1>3. ASSUME NEW p \in Request, Handle(p) \/ MintEnrollCode(p)
      PROVE  UNCHANGED minted \/ IssueNonce(p)
  BY <1>3, StepKeeps DEF StepFrame
<1>4. CASE ~\E p \in Request : Handle(p) \/ MintEnrollCode(p)
  BY <1>1, <1>4, OtherKeeps
<1> QED
  BY <1>1, <1>2, <1>3, <1>4

\* A request stays fit: its instance is one that was provisioned, and only a
\* client whose address is known gets to the endpoints.
LEMMA FitStep ==
    ASSUME TypeInv, [Next]_vars, NEW q \in Request
    PROVE  Fit(q)'
<1>0. /\ Control /\ Fit(q) /\ UNCHANGED uri /\ DOMAIN minted \subseteq DOMAIN minted'
      /\ live \subseteq DOMAIN Sites /\ \A s \in live : Accepted(s)
  BY DoneKept, MintedTyped, LiveSites DEF TypeInv, CodeInv
<1>1. CASE req'[q] = req[q]
  BY <1>0, <1>1 DEF Fit, Active
<1>2. ASSUME Moves(q), Leads(q), Active(q)' PROVE Fit(q)'
  <2>1. CASE req[q].pc = "idle"
    <3>1. Arrive(q)
      BY <1>2, <2>1 DEF Leads
    <3>2. /\ req'[q].pc = "maybeSweep" /\ req'[q].body \in Body(q) /\ req'[q].h \in live
          /\ req'[q].host \in Sites[req'[q].h].hosts /\ req'[q].ip \in IP \cup {Unresolved}
      BY <1>0, <3>1, ArriveEffect DEF Control
    <3>3. uri[q][2] = "respond" =>
             req'[q].body.device \in Device /\ req'[q].body.nonce \in DOMAIN minted
      BY <3>2 DEF Body
    <3>4. req'[q].host \in Service
      BY <1>0, <3>2, TypesAssumption
    <3> QED BY <1>0, <3>2, <3>3, <3>4 DEF Fit, Knocking
  <2>2. CASE req[q].pc # "idle"
    <3>1. Active(q) /\ SameRequest(q)
      BY <1>2, <2>2 DEF Moves, Active
    <3>2. req'[q].pc \in {"throttle"} \cup Knocking => req'[q].ip # Unresolved
      BY <1>0, <1>2, <3>1 DEF Leads, Fit
    <3> QED BY <1>0, <3>1, <3>2 DEF Fit, SameRequest
  <2> QED BY <2>1, <2>2
<1>3. ASSUME NEW p \in Request, Handle(p) \/ MintEnrollCode(p) PROVE Fit(q)'
  <2>1. Moves(p) /\ Leads(p)
    BY <1>0, <1>3, StepMoves, StepLeads
  <2>2. CASE q = p
    BY <1>2, <2>1, <2>2 DEF Fit
  <2>3. CASE q # p
    BY <1>1, <2>1, <2>3 DEF Moves, Alone
  <2> QED BY <2>2, <2>3
<1>4. CASE ~\E p \in Request : Handle(p) \/ MintEnrollCode(p)
  BY <1>1, <1>4, OtherKeeps
<1> QED
  BY <1>3, <1>4

\* Provision leaves every site a nonce TTL that is a number.
LEMMA NonceTTL ==
    ASSUME NEW s \in DOMAIN Sites
    PROVE  Provision(s).nonceTTL \in Nat
<1>0. Sites[s].nonceTTL \in Nat
  BY TypesAssumption
<1>1. Default(Sites[s].nonceTTL, 0, DefaultTTL) \in Nat
  BY <1>0, SiteGateAssumption DEF Default
<1>2. Seconds(Default(Sites[s].nonceTTL, 0, DefaultTTL)) \in Nat
  BY <1>1, SiteGateAssumption DEF Seconds
<1> QED
  BY <1>2 DEF Provision

\* What handleRespond puts is a grant: the client's own address, a binding
\* that Validate let through, the fingerprint of a configured secret.
LEMMA PutsGrant ==
    ASSUME TypeInv, NEW p \in Request, req[p].pc = "put"
    PROVE  KnockGrant(p) \in Grants!Grant
<1>1. /\ Active(p) /\ uri[p][2] = "respond" /\ Fit(p) /\ req[p].t \in Nat
  BY DEF TypeInv, CodeInv, Control, LabelOf, Knocking, Active, Timely
<1>2. /\ req[p].h \in DOMAIN Sites /\ Accepted(req[p].h)
      /\ req[p].host \in Service /\ req[p].ip \in IP
      /\ req[p].body.device \in Device
  BY <1>1 DEF Fit, Knocking
<1>3. req[p].body.device[1] \in Kid
  <2>1. req[p].body.device \in Kid \X Secret
    BY <1>2, TypesAssumption
  <2> QED BY <2>1
<1>4. Site(p).binding \in {Grants!BindingIP, Grants!BindingIPCookie}
  BY <1>2 DEF Accepted, Site
<1>5. req[p].t + Site(p).grantTTL \in Nat
  <2>1. Site(p).grantTTL \in Nat
    BY <1>2, GrantTTL DEF Site
  <2> QED BY <1>1, <2>1
<1>6. Fingerprint(Site(p).reg, req[p].body.device[1]) \in FP
  <2> DEFINE kid == req[p].body.device[1]
             site == Sites[req[p].h]
  <2>1. CASE kid \in DOMAIN site.tokens
    <3>1. Fingerprint(Site(p).reg, kid) = SecretHash(site.tokens[kid].secret)
      BY <2>1 DEF Fingerprint, Known, Site, Provision
    <3>2. site.tokens[kid].secret \in Secret
      BY <1>2, <2>1, TypesAssumption
    <3> QED BY <3>1, <3>2 DEF FP
  <2>2. CASE kid \notin DOMAIN site.tokens
    BY <2>2 DEF Fingerprint, Known, Site, Provision, FP
  <2> QED BY <2>1, <2>2
<1>7. Grants!CookieHash(p) \in Grants!Hash
  BY DEF Grants!Hash, Cookie
<1> QED
  BY <1>2, <1>3, <1>4, <1>5, <1>6, <1>7 DEF KnockGrant, Grants!Grant

\* The shared grant store keeps its types.
LEMMA GrantsTyped ==
    ASSUME TypeInv, [Next]_vars
    PROVE  Grants!GrantStoreTypeOK'
<1>0. Grants!GrantStoreTypeOK /\ Control
  BY DEF TypeInv, TypeOK, CodeInv
<1>1. CASE UNCHANGED <<grants, byKid>>
  BY <1>0, <1>1 DEF Grants!GrantStoreTypeOK
<1>2. ASSUME NEW p \in Request, PutGrant(p) PROVE Grants!GrantStoreTypeOK'
  <2>1. req[p].pc = "put" /\ \E h : Grants!Put(KnockGrant(p), h)
    BY <1>0, <1>2, PutGrantEffect DEF Control
  <2> QED BY <1>0, <2>1, PutsGrant, PutTyped
<1>3. ASSUME NEW p \in Request, SweepGrants(p) PROVE Grants!GrantStoreTypeOK'
  BY <1>0, <1>3, DropTyped DEF SweepGrants
<1>4. ASSUME NEW p \in Request, Handle(p) \/ MintEnrollCode(p)
      PROVE  UNCHANGED <<grants, byKid>> \/ PutGrant(p) \/ SweepGrants(p)
  BY <1>4, StepKeeps DEF StepFrame
<1>5. CASE ~\E p \in Request : Handle(p) \/ MintEnrollCode(p)
  BY <1>1, <1>5, OtherKeeps DEF stores
<1> QED
  BY <1>1, <1>2, <1>3, <1>4, <1>5

\* What is spent was minted.
LEMMA SpentTyped ==
    ASSUME TypeInv, [Next]_vars
    PROVE  DOMAIN spent' \subseteq DOMAIN minted' /\ \A n \in DOMAIN spent' : spent'[n] \in Nat
<1> DEFINE Good == DOMAIN spent' \subseteq DOMAIN minted /\ \A n \in DOMAIN spent' : spent'[n] \in Nat
<1>0. /\ Control /\ DOMAIN spent \subseteq DOMAIN minted
      /\ \A n \in DOMAIN spent : spent[n] \in Nat
  BY DEF TypeInv, TypeOK, CodeInv
<1>1. ASSUME UNCHANGED spent PROVE Good
  BY <1>0, <1>1
<1>2. ASSUME NEW p \in Request, SweepNonces(p) PROVE Good
  BY <1>0, <1>2 DEF SweepNonces, Nonces!Sweep, Nonces!Restrict
<1>3. ASSUME NEW p \in Request, ClaimNonce(p) PROVE Good
  <2> DEFINE ttl == Site(p).nonceTTL
  <2>1. req[p].pc = "claim" /\ (UNCHANGED spent \/ Nonces!Claim(req[p].body.nonce, req[p].t, ttl))
    BY <1>3 DEF ClaimNonce, At
  <2>2. Active(p) /\ uri[p][2] = "respond" /\ Fit(p) /\ req[p].t \in Nat
    BY <2>1 DEF TypeInv, CodeInv, Control, LabelOf, Knocking, Active, Timely
  <2>3. req[p].body.nonce \in DOMAIN minted /\ ttl \in Nat
    BY <2>2, NonceTTL DEF Fit, Site
  <2> HIDE DEF ttl
  <2>4. CASE Nonces!Claim(req[p].body.nonce, req[p].t, ttl)
    <3>1. spent' = [ x \in DOMAIN spent \cup {req[p].body.nonce} |->
                       IF x = req[p].body.nonce THEN req[p].t + ttl ELSE spent[x] ]
      BY <2>4 DEF Nonces!Claim
    <3>2. req[p].t + ttl \in Nat
      BY <2>2, <2>3
    <3> QED BY <1>0, <2>3, <3>1, <3>2
  <2> QED BY <1>1, <2>1, <2>4
<1>4. ASSUME NEW p \in Request, Handle(p) \/ MintEnrollCode(p)
      PROVE  UNCHANGED spent \/ SweepNonces(p) \/ ClaimNonce(p)
  BY <1>4, StepKeeps DEF StepFrame
<1>5. ASSUME ~\E p \in Request : Handle(p) \/ MintEnrollCode(p) PROVE Good
  BY <1>1, <1>5, OtherKeeps DEF stores
<1>6. Good
  BY <1>1, <1>2, <1>3, <1>4, <1>5
<1> QED
  BY <1>6, MintedTyped

\* A window opens at a clock reading and counts its attempts.
LEMMA WindowsTyped ==
    ASSUME TypeInv, [Next]_vars
    PROVE  \A k \in DOMAIN window' : window'[k].start \in Time /\ window'[k].n \in Nat \ {0}
<1> DEFINE Good(table) == \A k \in DOMAIN table : table[k].start \in Time /\ table[k].n \in Nat \ {0}
<1>0. now \in Time /\ Good(window)
  BY DEF TypeInv, TypeOK
<1>1. CASE UNCHANGED window
  BY <1>0, <1>1
<1>2. \A t : /\ DOMAIN Limiter!Swept(t) \subseteq DOMAIN window
             /\ \A k \in DOMAIN Limiter!Swept(t) : Limiter!Swept(t)[k] = window[k]
  BY DEF Limiter!Swept, Limiter!Restrict
<1>3. ASSUME NEW p \in Request, Throttle(p) PROVE Good(window')
  <2>1. PICK ok, key, limit : ok \in BOOLEAN /\ Limiter!Allow(key, limit, now, ok)
    BY <1>3 DEF Throttle
  <2>2. CASE UNCHANGED window
    BY <1>1, <2>2
  <2>3. CASE key \in DOMAIN window /\ window' = [window EXCEPT ![key].n = @ + 1]
    <3>1. \A k \in DOMAIN window' : window'[k].start = window[k].start
                                    /\ window'[k].n \in {window[k].n, window[k].n + 1}
      BY <2>3
    <3>2. DOMAIN window' = DOMAIN window
      BY <2>3
    <3> QED BY <1>0, <3>1, <3>2
  <2>4. CASE window' \in { Limiter!Table(key, now),
                           [ k \in DOMAIN Limiter!Table(key, now) \cup {key} |->
                               IF k = key THEN [start |-> now, n |-> 1] ELSE window[k] ] }
    <3>1. /\ DOMAIN Limiter!Table(key, now) \subseteq DOMAIN window
          /\ \A k \in DOMAIN Limiter!Table(key, now) : Limiter!Table(key, now)[k] = window[k]
      BY <1>2 DEF Limiter!Table
    <3> QED BY <1>0, <2>4, <3>1
  <2> QED BY <2>1, <2>2, <2>3, <2>4 DEF Limiter!Allow, Limiter!Counting
<1>4. ASSUME NEW p \in Request, SweepLimiter(p) PROVE Good(window')
  BY <1>0, <1>2, <1>4 DEF SweepLimiter, Limiter!Sweep
<1>5. ASSUME NEW p \in Request, Handle(p) \/ MintEnrollCode(p)
      PROVE  UNCHANGED window \/ SweepLimiter(p) \/ Throttle(p)
  BY <1>5, StepKeeps DEF StepFrame
<1>6. CASE ~\E p \in Request : Handle(p) \/ MintEnrollCode(p)
  BY <1>1, <1>6, OtherKeeps DEF stores
<1> QED
  BY <1>1, <1>3, <1>4, <1>5, <1>6

\* The clock stays within its bound, and what serves was accepted.
LEMMA ServingTyped ==
    ASSUME TypeInv, [Next]_vars
    PROVE  now' \in Time /\ live' \in Generations /\ \A s \in live' : Accepted(s)
<1>0. now \in Time /\ live \in Generations /\ \A s \in live : Accepted(s)
  BY DEF TypeInv, TypeOK
<1>1. MaxTime \in Nat
  BY TypesAssumption
<1>2. ASSUME NEW p \in Request, Handle(p) \/ MintEnrollCode(p) PROVE UNCHANGED <<now, live>>
  BY <1>2, StepKeeps DEF StepFrame
<1>3. ASSUME NEW g \in Generations, Reload(g) PROVE UNCHANGED now /\ live' = g /\ \A s \in g : Accepted(s)
  BY <1>3 DEF Reload
<1>4. CASE Tick
  BY <1>0, <1>1, <1>4 DEF Tick, Time
<1>5. CASE UNCHANGED vars
  BY <1>0, <1>5 DEF vars
<1> QED
  BY <1>0, <1>2, <1>3, <1>4, <1>5 DEF Next

\* The requests keep their types.
LEMMA RequestsTyped ==
    ASSUME TypeInv, Timely', [Next]_vars, NEW q \in Request
    PROVE  Typed(q)'
<1>0. /\ Control /\ Typed(q) /\ Grants!GrantStoreTypeOK /\ live \subseteq DOMAIN Sites
  BY LiveSites DEF TypeInv, TypeOK, CodeInv, Typed
<1>1. req'[q].t \in 0..now'
  BY DEF Timely
<1>2. CASE req'[q] = req[q]
  BY <1>0, <1>1, <1>2 DEF Typed
<1>3. ASSUME Leads(q) PROVE Typed(q)'
  <2>1. req'[q].pc \in Labels /\ req'[q].h \in DOMAIN Sites \cup {""}
    BY <1>0, <1>3 DEF Leads, Typed
  <2>2. req'[q].g \subseteq Grants!Grant
    <3>1. CASE req'[q].g \in {req[q].g, {}}
      BY <1>0, <3>1 DEF Typed
    <3>2. CASE PutGrant(q)
      BY <1>0, <3>2, PutGrantEffect, PutsGrant DEF Control
    <3>3. CASE CheckGrant(q)
      <4>1. ASSUME NEW s, NEW i, NEW reg, NEW t, NEW cookie
            PROVE  Grants!IsAllowed(s, i, reg, t, cookie) \subseteq Grants!Grant
        BY <1>0 DEF Grants!IsAllowed, Grants!GrantStoreTypeOK
      <4>2. \/ req'[q].g = {}
            \/ req'[q].g = Grants!IsAllowed(req[q].host, req[q].ip, Site(q).reg,
                                            req[q].t, req[q].cookie)
        BY <1>0, <3>3, CheckGrantEffect DEF Control, Returns
      <4> QED BY <4>1, <4>2
    <3> QED BY <1>3, <3>1, <3>2, <3>3 DEF Leads
  <2> QED BY <1>1, <2>1, <2>2 DEF Typed
<1>4. ASSUME NEW p \in Request, Handle(p) \/ MintEnrollCode(p) PROVE Typed(q)'
  BY <1>0, <1>2, <1>3, <1>4, StepMoves, StepLeads DEF Moves, Alone
<1>5. CASE ~\E p \in Request : Handle(p) \/ MintEnrollCode(p)
  BY <1>2, <1>5, OtherKeeps
<1> QED
  BY <1>4, <1>5

\* CodeInv holds at the start and says of the codes what TypeOK does.
LEMMA CodesTyped ==
    ASSUME CodeInv
    PROVE  /\ lastSweep \in 0..now
           /\ \A c \in DOMAIN codes : c \in DOMAIN issued /\ codes[c] = issued[c]
  BY DEF CodeInv, Timely, Kept

\* The process's state has its types: whatever instances of whatever configs
\* share the stores, every grant put or held is well formed, a request goes
\* by a config that Validate accepted, and no nonce is spent that was not
\* handed out.
THEOREM SiteGateTyped == Spec => []TypeOK
<1>1. Init => TypeInv
  <2> SUFFICES ASSUME Init PROVE TypeInv
    OBVIOUS
  <2>1. /\ now = SweepEvery /\ minted = <<>> /\ req = [p \in Request |-> Idle]
        /\ grants = <<>> /\ byKid = <<>> /\ spent = <<>> /\ window = <<>>
        /\ live \in Generations /\ \A s \in live : Accepted(s)
    BY DEF Init, Grants!GrantStoreInit, Nonces!NonceStoreInit, Limiter!RateLimiterInit
  <2>2. CodeInv
    BY CodeInit
  <2>3. DOMAIN minted = {} /\ DOMAIN grants = {} /\ DOMAIN byKid = {} /\ DOMAIN spent = {}
        /\ DOMAIN window = {}
    BY <2>1
  <2>4. Grants!GrantStoreTypeOK
    BY <2>1, <2>3 DEF Grants!GrantStoreTypeOK
  <2>5. now \in Time /\ now \in Nat
    <3>1. MaxTime \in Nat /\ SweepEvery \in Nat /\ SweepEvery <= MaxTime
      BY TypesAssumption, SiteGateAssumption
    <3> QED BY <2>1, <3>1 DEF Time
  <2>6. ASSUME NEW p \in Request PROVE Typed(p) /\ Fit(p)
    <3>1. req[p].pc = "idle" /\ req[p].t = 0 /\ req[p].g = {} /\ req[p].h = ""
      BY <2>1 DEF Idle
    <3>2. 0 \in 0..now
      BY <2>5
    <3>3. Typed(p)
      BY <3>1, <3>2 DEF Typed, Labels
    <3>4. Fit(p)
      BY <3>1 DEF Fit, Active
    <3> QED BY <3>3, <3>4
  <2>7. TypeOK
    BY <2>1, <2>2, <2>3, <2>4, <2>5, <2>6, CodesTyped DEF TypeOK, Typed
  <2> QED BY <2>2, <2>6, <2>7 DEF TypeInv
<1>2. ASSUME TypeInv, [Next]_vars PROVE TypeInv'
  <2>1. CodeInv' /\ Timely'
    BY <1>2, CodeStep DEF TypeInv, CodeInv
  <2>2. \A p \in Request : Fit(p)'
    BY <1>2, FitStep
  <2>3. \A p \in Request : Typed(p)'
    BY <1>2, <2>1, RequestsTyped
  <2>4. /\ lastSweep' \in 0..now'
        /\ \A c \in DOMAIN codes' : c \in DOMAIN issued' /\ codes'[c] = issued'[c]
    BY <2>1 DEF CodeInv, Timely, Kept
  <2>5. TypeOK'
    BY <1>2, <2>3, <2>4, ServingTyped, GrantsTyped, SpentTyped, WindowsTyped, MintedTyped
    DEF TypeOK, Typed
  <2> QED BY <2>1, <2>2, <2>5 DEF TypeInv
<1>3. TypeInv => TypeOK
  BY DEF TypeInv
<1> QED
  BY <1>1, <1>2, <1>3, PTL DEF Spec
=============================================================================
