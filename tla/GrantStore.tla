----------------------------- MODULE GrantStore -----------------------------
(***************************************************************************)
(* GrantStore of core/go/store.go: an in-process map from grant keys to    *)
(* grants and an index from kids to the keys filed under them, both        *)
(* guarded by one mutex, so each operation is one atomic step.             *)
(*                                                                         *)
(* A key is the ":"-joined concatenation of its fields.  Canonical names   *)
(* and addresses may themselves contain ":" (IPv6), so names, addresses    *)
(* and keys are modelled as sequences of segments and two different        *)
(* (service, address) pairs may well have the same key.  A cookie hash has *)
(* no ":" and is a segment by itself.  The fields V and Issued of a grant, *)
(* which no decision reads, are left out.                                  *)
(***************************************************************************)
EXTENDS Registry, Sequences, Functions

CONSTANTS
    Kid,        \* token ids, the break-glass kid "__manual__" included
    Segment,    \* what a canonical name or address is made of
    Service,    \* canonical service names
    IP,         \* canonical client addresses
    Cookie,     \* grant-id cookie values
    FP,         \* secret fingerprints
    Offer,      \* the grants that callers put
    Time        \* values of the clock

VARIABLES
    grants,     \* key -> grant
    byKid       \* kid -> set of keys

grantStoreVars == <<grants, byKid>>

BindingIP == "ip"
BindingIPCookie == "ip+cookie"

\* The empty cookie and the empty hash; SHA-256 as an injective constructor.
NoCookie == ""
NoHash == <<>>
CookieHash(cookie) == <<"sha256", cookie>>
Hash == { CookieHash(c) : c \in Cookie }

Grant == [ kid : Kid, service : Service, ip : IP,
           binding : {BindingIP, BindingIPCookie}, cookieHash : Hash \cup {NoHash},
           exp : Nat, manual : BOOLEAN, secretFP : FP ]

ASSUME GrantStoreAssumption ==
    /\ Service \subseteq Seq(Segment)
    /\ IP \subseteq Seq(Segment)
    /\ Offer \subseteq Grant
    /\ Time \subseteq Nat

-----------------------------------------------------------------------------
(* Keys *)

Key == Seq(Segment \cup Hash)

\* The constant prefix "jit:grant:" distinguishes no two keys.
GrantKey(service, ip) == service \o ip
GrantKeyCookie(service, ip, hash) == service \o ip \o <<hash>>

\* Appends a hash field to every key, the empty one of an ip-bound grant too.
keyFor_AlwaysCookie(g) == GrantKeyCookie(g.service, g.ip, g.cookieHash)

keyFor(g) ==
    IF g.binding = BindingIPCookie /\ g.cookieHash # NoHash
    THEN GrantKeyCookie(g.service, g.ip, g.cookieHash)
    ELSE GrantKey(g.service, g.ip)

-----------------------------------------------------------------------------
(* Operations *)

Dropped(f, S) == Restrict(f, DOMAIN f \ S)

\* Takes the keys gone, each under the kid of the grant filed at it, out of
\* the index, and drops a kid that this leaves without keys.
unindexLocked(index, gone) ==
    LET left(kid) == index[kid] \ { k \in gone : grants[k].kid = kid }
    IN  Restrict([ kid \in DOMAIN index |-> left(kid) ],
                 { kid \in DOMAIN index :
                     left(kid) = {} => \A k \in gone : grants[k].kid # kid })

\* The record the caller's previous cookie is filed at, if there is one.
Retired(g, oldHash) ==
    { k \in {GrantKeyCookie(g.service, g.ip, oldHash)} \cap DOMAIN grants :
        oldHash \notin {NoHash, g.cookieHash} }

\* Leaves the record under the previous cookie where it is.
Put_NoRetire(g, oldHash) ==
    LET k == keyFor(g)
        idx == unindexLocked(byKid, {k} \cap DOMAIN grants)
    IN  /\ grants' = [ x \in DOMAIN grants \cup {k} |-> IF x = k THEN g ELSE grants[x] ]
        /\ byKid' = [ kid \in DOMAIN idx \cup {g.kid} |->
                        (IF kid \in DOMAIN idx THEN idx[kid] ELSE {})
                          \cup (IF kid = g.kid THEN {k} ELSE {}) ]

\* Overwrites a grant and leaves its key in the index of the old kid.
Put_StaleIndex(g, oldHash) ==
    LET k == keyFor(g)
        idx == unindexLocked(byKid, Retired(g, oldHash))
    IN  /\ grants' = [ x \in (DOMAIN grants \ Retired(g, oldHash)) \cup {k} |->
                         IF x = k THEN g ELSE grants[x] ]
        /\ byKid' = [ kid \in DOMAIN idx \cup {g.kid} |->
                        (IF kid \in DOMAIN idx THEN idx[kid] ELSE {})
                          \cup (IF kid = g.kid THEN {k} ELSE {}) ]

Put(g, oldHash) ==
    LET k == keyFor(g)
        idx == unindexLocked(byKid, Retired(g, oldHash) \cup ({k} \cap DOMAIN grants))
    IN  /\ grants' = [ x \in (DOMAIN grants \ Retired(g, oldHash)) \cup {k} |->
                         IF x = k THEN g ELSE grants[x] ]
        /\ byKid' = [ kid \in DOMAIN idx \cup {g.kid} |->
                        (IF kid \in DOMAIN idx THEN idx[kid] ELSE {})
                          \cup (IF kid = g.kid THEN {k} ELSE {}) ]

\* Revokes by key prefix, as an earlier version of the code did.
Revoke_ByPrefix(service, ip) ==
    LET p == GrantKey(service, ip)
        gone == { k \in DOMAIN grants : Len(k) >= Len(p) /\ SubSeq(k, 1, Len(p)) = p }
    IN  /\ grants' = Dropped(grants, gone)
        /\ byKid' = unindexLocked(byKid, gone)

\* Matches the fields of the record, never a prefix of its key.
Revoke(service, ip) ==
    LET gone == { k \in DOMAIN grants : grants[k].service = service /\ grants[k].ip = ip }
    IN  /\ grants' = Dropped(grants, gone)
        /\ byKid' = unindexLocked(byKid, gone)

RevokeToken(kid) ==
    LET keys == IF kid \in DOMAIN byKid THEN byKid[kid] ELSE {}
    IN  /\ grants' = Dropped(grants, keys)
        /\ byKid' = Dropped(byKid, {kid})

Sweep(t) ==
    LET gone == { k \in DOMAIN grants : t >= grants[k].exp }
    IN  /\ grants' = Dropped(grants, gone)
        /\ byKid' = unindexLocked(byKid, gone)

-----------------------------------------------------------------------------
(* The request-path check: a read under the read lock, then pure checks.   *)

\* The cookie-qualified record if the request's cookie names one, else the
\* one at the plain key.
LookupKey(service, ip, cookie) ==
    LET q == GrantKeyCookie(service, ip, CookieHash(cookie))
    IN  IF cookie # NoCookie /\ q \in DOMAIN grants THEN q ELSE GrantKey(service, ip)

\* Admits a grant without comparing the secret that verified its knock.
Admits_AnySecret(g, service, ip, reg, t, cookie) ==
    /\ t < g.exp
    /\ g.service = service /\ g.ip = ip
    /\ g.manual \/ Authorize(reg, g.kid, service, t)
    /\ g.binding = BindingIPCookie =>
         cookie # NoCookie /\ g.cookieHash = CookieHash(cookie)

\* The conditions IsAllowed puts on the record it found.  Without manual it
\* re-checks token, algorithm, expiry, allow-list and secret.
Admits(g, service, ip, reg, t, cookie) ==
    /\ t < g.exp
    /\ g.service = service /\ g.ip = ip
    /\ \/ g.manual
       \/ Authorize(reg, g.kid, service, t) /\ g.secretFP = Fingerprint(reg, g.kid)
    /\ g.binding = BindingIPCookie =>
         cookie # NoCookie /\ g.cookieHash = CookieHash(cookie)

\* The grant IsAllowed returns, as a set of at most one; {} is nil.
IsAllowed(service, ip, reg, t, cookie) ==
    { g \in { grants[k] : k \in {LookupKey(service, ip, cookie)} \cap DOMAIN grants } :
        Admits(g, service, ip, reg, t, cookie) }

-----------------------------------------------------------------------------
(* The store by itself, under every sequence of calls.                     *)

GrantStoreInit == grants = <<>> /\ byKid = <<>>

GrantStoreNext ==
    \/ \E g \in Offer, h \in Hash \cup {NoHash} : Put(g, h)
    \/ \E s \in Service, i \in IP : Revoke(s, i)
    \/ \E kid \in Kid : RevokeToken(kid)
    \/ \E t \in Time : Sweep(t)

GrantStoreSpec == GrantStoreInit /\ [][GrantStoreNext]_grantStoreVars

-----------------------------------------------------------------------------
(* Properties *)

\* Types of the two maps.
GrantStoreTypeOK ==
    /\ DOMAIN grants \subseteq Key /\ grants \in [DOMAIN grants -> Grant]
    /\ DOMAIN byKid \subseteq Kid /\ byKid \in [DOMAIN byKid -> SUBSET Key]

\* Every grant is filed under the key its own fields give (keyFor), so the
\* request path finds it.
FiledByKey == \A k \in DOMAIN grants : keyFor(grants[k]) = k

\* byKid lists exactly the keys filed under each kid and keeps no kid
\* without keys: RevokeToken, which trusts the index, reaches every grant of
\* a lost device and no other one, and the index never outgrows the grants.
IndexOf(store) ==
    [ kid \in { store[k].kid : k \in DOMAIN store } |->
        { k \in DOMAIN store : store[k].kid = kid } ]
IndexExact == byKid = IndexOf(grants)

\* No two (service, address, device) triples share a key.
SlotKey(slot) ==
    IF slot[3] = NoHash THEN GrantKey(slot[1], slot[2])
                        ELSE GrantKeyCookie(slot[1], slot[2], slot[3])
Slots == Service \X IP \X (Hash \cup {NoHash})
KeysUnambiguous == \A a, b \in Slots : SlotKey(a) = SlotKey(b) => a = b

Abstract == INSTANCE AbstractGrantStore WITH held <- Range(grants)

\* The store with its keys and its index behaves as the plain set of grants
\* that AbstractGrantStore describes: Put touches the caller's own slot and
\* retired cookie only, Revoke and RevokeToken remove all the grants they
\* name and no others, Sweep removes expired grants only.
RefinesAbstract == Abstract!AbsSpec
=============================================================================
