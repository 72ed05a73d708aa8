------------------------- MODULE AbstractGrantStore -------------------------
(***************************************************************************)
(* What the grant store promises its callers, with neither keys nor index: *)
(* the store holds a set of grants, at most one per slot, where a slot is  *)
(* a client address at a service or, for ip+cookie binding, one device at  *)
(* that address.  Revoking an address, revoking a token and sweeping are   *)
(* plain filters over the grants that are held.                            *)
(***************************************************************************)
EXTENDS Naturals

CONSTANTS
    Kid,        \* token ids
    Service,    \* canonical service names
    IP,         \* canonical client addresses
    Hash,       \* cookie hashes
    NoHash,     \* the empty cookie hash
    Offer,      \* the grants callers may put
    Time        \* values of the clock

VARIABLE held   \* the set of grants

Slot(g) ==
    << g.service, g.ip,
       IF g.binding = "ip+cookie" THEN g.cookieHash ELSE NoHash >>

\* Filing g replaces the grant in its slot and retires the one the same
\* device held under its previous cookie.
Replaced(g, oldHash) ==
    {Slot(g)} \cup
    { s \in {<<g.service, g.ip, oldHash>>} : oldHash \notin {NoHash, g.cookieHash} }

AbsPut(g, oldHash) ==
    held' = { x \in held : Slot(x) \notin Replaced(g, oldHash) } \cup {g}

AbsRevoke(service, ip) ==
    held' = { x \in held : ~(x.service = service /\ x.ip = ip) }

AbsRevokeToken(kid) == held' = { x \in held : x.kid # kid }

AbsSweep(t) == held' = { x \in held : t < x.exp }

AbsInit == held = {}

AbsNext ==
    \/ \E g \in Offer, h \in Hash \cup {NoHash} : AbsPut(g, h)
    \/ \E s \in Service, i \in IP : AbsRevoke(s, i)
    \/ \E kid \in Kid : AbsRevokeToken(kid)
    \/ \E t \in Time : AbsSweep(t)

AbsSpec == AbsInit /\ [][AbsNext]_held
=============================================================================
