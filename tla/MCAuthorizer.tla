---------------------------- MODULE MCAuthorizer ----------------------------
(***************************************************************************)
(* Instances of Authorizer for TLC.  Each run chooses which requests there *)
(* are and the configs an operator may load; the other constants are       *)
(* shared.  One second of the model stands for any amount of real time: a  *)
(* TTL of n only orders expiry among clock readings.                       *)
(***************************************************************************)
EXTENDS Authorizer

CONSTANTS a, x, y    \* segments, model values

App == <<a>>
Ip1 == <<x>>
Ip2 == <<y>>

MCSegment == {a, x, y}
MCKid == {"k1", ManualKid}
MCService == {App}
MCOneIP == {Ip1}
MCTwoIP == {Ip1, Ip2}
MCSubnet == [ip \in MCTwoIP |-> ip]
AppUri == {<<"p", "app">>}
MCUri == {<<"p", "app">>, <<"p", "respond">>}

Token(secret, expires) == [secret |-> secret, expires |-> expires]
\* The services section: App alone.
Gate(tokens, bind) ==
    [s \in {App} |-> [tokens |-> tokens, binding |-> bind, grantTTL |-> 0]]

\* The base config: kid k1 with secret s1 opens App, ip binding.
Base ==
    [ listen |-> "l", prefix |-> "p", rateLimit |-> 0,
      nonceTTL |-> 2, grantTTL |-> 2, enrollTTL |-> 1,
      tokens |-> [k1 |-> Token("s1", 0)],
      services |-> Gate({"k1"}, "") ]
Rotated == [Base EXCEPT !.tokens = [k1 |-> Token("s2", 0)]]
\* The operator takes everything out of the file.
Empty == [Base EXCEPT !.tokens = <<>>, !.services = <<>>]
CookieBound == [Base EXCEPT !.services = Gate({"*"}, "ip+cookie")]
\* A grant that runs out one tick after the knock.
Brief(c) == [c EXCEPT !.grantTTL = 1]
Expiring == [Base EXCEPT !.tokens = [k1 |-> Token("s1", 1)]]

\* One segment of each: no two slots of these instances share a key.
ASSUME KeysAssumption == Grants!KeysUnambiguous

\* What r1 to r4 are.
Scene(p, q, r, s) == [r1 |-> p, r2 |-> q, r3 |-> r, r4 |-> s]

-----------------------------------------------------------------------------
(* requests: a knock and a forward-auth request, with reloads that rotate    *)
(* the secret and turn to ip+cookie; break-glass and kid-backed grants, both *)
(* revocations and token expiry, with a reload that empties the file; two    *)
(* grants for one address, one of them revoked                               *)

RequestStarts ==
    { <<Scene("challenge", "respond", "authz", NoRequest), "A">>,
      <<Scene("adminGrant", "adminRevoke", "adminRevokeToken", "authz"), "D">>,
      <<Scene("adminGrant", "adminGrant", "adminRevokeToken", NoRequest), "D">> }
Moved(c) == [c EXCEPT !.listen = "m"]
RequestConfigs ==
    [ A |-> Brief(Base), B |-> Brief(Rotated), C |-> Brief(CookieBound),
      D |-> Moved(Brief(Expiring)), E |-> Moved(Empty) ]

-----------------------------------------------------------------------------
(* enroll: two clients race for one code, with throttle, restart and reloads *)
(* that take the kid out of the file, or everything                          *)

EnrollStarts == { <<Scene("adminEnrollCode", "enroll", "enroll", NoRequest), "A">> }
EnrollConfigs ==
    [A |-> [Base EXCEPT !.rateLimit = 1], B |-> Empty, C |-> [Base EXCEPT !.tokens = <<>>]]

-----------------------------------------------------------------------------
(* knock: two knocks on an ip+cookie service, of one browser or of two, for  *)
(* one nonce or for two, with the sweeper at any time and a restart          *)

KnockStarts == { <<Scene("challenge", "challenge", "respond", "respond"), "A">> }
KnockConfigs == [A |-> Brief(CookieBound)]

-----------------------------------------------------------------------------
(* nonce_reload: two knocks for one nonce and a reload that raises nonce_ttl *)

NonceStarts == { <<Scene("challenge", "respond", "respond", NoRequest), "A">> }
RaisedTTLConfigs == [A |-> [Base EXCEPT !.nonceTTL = 1], B |-> [Base EXCEPT !.nonceTTL = 3]]

-----------------------------------------------------------------------------
(* liveness: every store is reclaimed, with two knocks that race for a nonce *)

LiveStarts == { <<Scene("challenge", "respond", "respond", "adminEnrollCode"), "A">> }
LiveConfigs == [A |-> [Base EXCEPT !.nonceTTL = 1, !.grantTTL = 1]]
=============================================================================
