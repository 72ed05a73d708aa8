----------------------------- MODULE MCSiteGate -----------------------------
(***************************************************************************)
(* Two instances for one host (an admin path with a token of its own) and  *)
(* a reload that rotates a secret and turns to ip+cookie.                  *)
(***************************************************************************)
EXTENDS SiteGate

CONSTANTS a, x

Host == <<a>>
Ip1 == <<x>>
MCSegment == {a, x}
MCService == {Host}
MCIP == {Ip1}
MCSubnet == [ip \in {Ip1} |-> ip]
MCKid == {"k1", "k2"}
MCDevice == {<<"k1", "s1">>, <<"k1", "s2">>}

\* A knock and a visit; two knocks; two clients with one code; a visit
\* to the registration page.
MCScenes ==
    { [r1 |-> <<"p", "challenge">>, r2 |-> <<"p", "respond">>, r3 |-> <<"q", "page">>],
      [r1 |-> <<"p", "challenge">>, r2 |-> <<"p", "respond">>, r3 |-> <<"p", "respond">>],
      [r1 |-> MintCall, r2 |-> <<"p", "enroll">>, r3 |-> <<"p", "enroll">>],
      [r1 |-> <<"p", "register">>, r2 |-> MintCall, r3 |-> MintCall] }

Token(secret, expires) == [secret |-> secret, expires |-> expires]
\* One token, ip binding, a grant of two seconds, nonce_ttl and rate_limit
\* by default.
App ==
    [ hosts |-> {Host}, prefix |-> "p", grantTTL |-> 4, nonceTTL |-> 0, failureMode |-> "",
      binding |-> "", rateLimit |-> 0, tokens |-> [k1 |-> Token("s1", 0)], allow |-> {"*"} ]
MCSites ==
    [ app |-> App,
      ops |-> [App EXCEPT !.tokens = [k2 |-> Token("s2", 0)], !.allow = {"k2"}],
      dark |-> [App EXCEPT !.tokens = [k1 |-> Token("s2", 0)], !.failureMode = "stealth",
                           !.binding = "ip+cookie"],
      locked |-> [App EXCEPT !.allow = {}] ]
MCGenerations == {{"app", "ops"}, {"dark"}, {"app", "locked"}}
=============================================================================
