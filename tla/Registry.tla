------------------------------ MODULE Registry ------------------------------
(***************************************************************************)
(* The token registry of the portable core (core/go/registry.go): a pure,  *)
(* read-only value that an adapter builds from its configuration and swaps *)
(* wholesale on reload.                                                    *)
(*                                                                         *)
(* A registry is a record [tokens, services].  tokens maps a kid to        *)
(* [secret, alg, expires]; services maps a canonical service name to the   *)
(* set of kids on its allow-list.  A map lookup that yields nil in Go is a *)
(* key outside the DOMAIN.  A canonical name is the sequence of its        *)
(* ":"-separated segments, so the name "*" is <<"*">>.                     *)
(***************************************************************************)
EXTENDS Naturals, FiniteSets

AlgHMACSHA256 == "HMAC-SHA256"

\* The wildcard kid of an allow-list, and the service name "*".
AnyKid == "*"
AnyService == <<"*">>

\* Token.Expires = 0 means the token never expires.
NeverExpires == 0

\* Registry.Lookup(kid) # nil
Known(reg, kid) == kid \in DOMAIN reg.tokens

IsExpired(token, t) == token.expires # NeverExpires /\ t >= token.expires

\* Fingerprint of a nil token is the empty string; SHA-256 of a secret is
\* modelled as an injective constructor that never yields the empty string.
NoFP == <<>>
SecretHash(secret) == <<"sha256", secret>>
Fingerprint(reg, kid) ==
    IF Known(reg, kid) THEN SecretHash(reg.tokens[kid].secret) ELSE NoFP

\* A site-scoped registry keeps its only allow-list under "*".
allowKey(reg, service) ==
    IF service \notin DOMAIN reg.services /\ DOMAIN reg.services = {AnyService}
    THEN AnyService ELSE service

AllowedForService(reg, kid, service) ==
    /\ allowKey(reg, service) \in DOMAIN reg.services
    /\ {AnyKid, kid} \cap reg.services[allowKey(reg, service)] # {}

\* Registry.Authorize returns a token and no error.
Authorize(reg, kid, service, t) ==
    /\ Known(reg, kid)
    /\ reg.tokens[kid].alg = AlgHMACSHA256
    /\ ~IsExpired(reg.tokens[kid], t)
    /\ AllowedForService(reg, kid, service)
=============================================================================
