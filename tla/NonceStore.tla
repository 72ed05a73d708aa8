----------------------------- MODULE NonceStore -----------------------------
(***************************************************************************)
(* NonceStore of core/go/store.go: the set of spent nonces with the time   *)
(* each record expires.  A nonce authenticates itself (VerifyNonce); the   *)
(* store only makes it single-use.  Each operation holds the store's       *)
(* mutex.  The time t is what its caller read from the clock before.       *)
(***************************************************************************)
EXTENDS Naturals, Functions

VARIABLE spent    \* nonce id -> expiry of the record

NonceStoreInit == spent = <<>>

AlreadySpent(id, t) == id \in DOMAIN spent /\ t < spent[id]

\* Lets the record expire when the nonce's own freshness may not have ended.
Claim_ShortRecord(id, t, ttl) ==
    /\ ~AlreadySpent(id, t)
    /\ spent' = [ x \in DOMAIN spent \cup {id} |-> IF x = id THEN t ELSE spent[x] ]

\* The claim that succeeds; one that fails (AlreadySpent) changes nothing.
Claim(id, t, ttl) ==
    /\ ~AlreadySpent(id, t)
    /\ spent' = [ x \in DOMAIN spent \cup {id} |-> IF x = id THEN t + ttl ELSE spent[x] ]

Sweep(t) == spent' = Restrict(spent, { id \in DOMAIN spent : t < spent[id] })
=============================================================================
