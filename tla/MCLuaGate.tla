------------------------------ MODULE MCLuaGate ------------------------------
(***************************************************************************)
(* Two addresses, one service and a name that no config knows, whose keys  *)
(* coincide for one pair of each; and a reload that rotates the secret,    *)
(* turns to ip+cookie and raises nonce_ttl, that sets a rate limit, or     *)
(* that removes the service.                                               *)
(***************************************************************************)
EXTENDS LuaGate

\* 1::5 from 1:2::3 and 1::5:1 from 2::3 have the same key.
Host == <<"1::5">>
MCService == {Host, <<"1::5", "1">>}
MCIP == {<<"2::3">>, <<"1", "2::3">>}
MCDevice == {<<"k1", "s1">>, <<"k1", "s2">>}

Scene(a, b, c) == [r1 |-> a, r2 |-> b, r3 |-> c]
\* A knock and a visit; two knocks; two clients with one code; a knock and a
\* revocation; grants by hand and a revocation; a grant by hand and a visit.
MCScenes ==
    { Scene("challenge", "respond", "page"), Scene("challenge", "respond", "respond"),
      Scene("enroll-code", "enroll", "enroll"), Scene("challenge", "respond", "revoke"),
      Scene("grant", "grant", "revoke-token"), Scene("grant", "revoke", "page") }
ThrottleScenes == { Scene("challenge", "respond", "enroll") }

Options(secret, expires, binding, ttl, nonceTTL, rate) ==
    [ tokens |-> [k1 |-> [secret |-> secret, expires |-> expires]],
      services |-> [ s \in {Host} |->
                       [tokens |-> {"k1"}, binding |-> binding, grantTTL |-> ttl] ],
      grantTTL |-> 1, nonceTTL |-> nonceTTL, rateLimit |-> rate ]
Limited == Options("s1", 0, "ip", <<>>, 2, 2)
MCConfigs ==
    [ plain |-> Options("s1", 0, "ip", <<>>, 1, 0),
      rotated |-> Options("s2", 2, "ip+cookie", <<2>>, 2, 0),
      limited |-> Limited,
      closed |-> [Limited EXCEPT !.services = <<>>] ]
ThrottleConfigs == [limited |-> Limited]
=============================================================================
