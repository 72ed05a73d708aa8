-------------------------- MODULE GrantStoreProofs --------------------------
(***************************************************************************)
(* Proofs about GrantStore, for every set of kids, names, addresses and    *)
(* cookies and every sequence of calls.                                    *)
(***************************************************************************)
EXTENDS GrantStore, TLAPS

-----------------------------------------------------------------------------
(* Keys and finite maps *)

\* A grant's key, and the key of the record its device held before, are
\* sequences of segments and hashes (keyFor, GrantKeyCookie).
LEMMA KeyTypes ==
    /\ \A s \in Service, i \in IP : GrantKey(s, i) \in Key
    /\ \A s \in Service, i \in IP, h \in Hash : GrantKeyCookie(s, i, h) \in Key
    /\ \A g \in Grant : keyFor(g) \in Key
<1>1. \A s \in Service, i \in IP :
        s \in Seq(Segment \cup Hash) /\ i \in Seq(Segment \cup Hash)
  BY GrantStoreAssumption
<1>2. \A s \in Service, i \in IP : GrantKey(s, i) \in Key
  BY <1>1 DEF GrantKey, Key
<1>3. \A s \in Service, i \in IP, h \in Hash : GrantKeyCookie(s, i, h) \in Key
  BY <1>1 DEF GrantKeyCookie, Key
<1>4. \A g \in Grant : keyFor(g) \in Key
  BY <1>2, <1>3 DEF keyFor, Grant
<1> QED
  BY <1>2, <1>3, <1>4

\* Taking the keys gone out of an exact index leaves the exact index of the
\* store without them (unindexLocked).
LEMMA UnindexExact ==
    ASSUME IndexExact, NEW gone, gone \subseteq DOMAIN grants
    PROVE  unindexLocked(byKid, gone) = IndexOf(Dropped(grants, gone))
<1> DEFINE left(kid) == byKid[kid] \ { k \in gone : grants[k].kid = kid }
           kept == { kid \in DOMAIN byKid :
                       left(kid) = {} => \A k \in gone : grants[k].kid # kid }
           rest == Dropped(grants, gone)
<1>1. /\ DOMAIN byKid = { grants[k].kid : k \in DOMAIN grants }
      /\ \A kid \in DOMAIN byKid : byKid[kid] = { k \in DOMAIN grants : grants[k].kid = kid }
  BY DEF IndexExact, IndexOf
<1>2. /\ DOMAIN rest = DOMAIN grants \ gone
      /\ \A k \in DOMAIN rest : rest[k] = grants[k]
  BY DEF Dropped, Restrict
<1>3. kept = { rest[k].kid : k \in DOMAIN rest }
  BY <1>1, <1>2
<1>4. \A kid \in kept : left(kid) = { k \in DOMAIN rest : rest[k].kid = kid }
  BY <1>1, <1>2
<1>5. unindexLocked(byKid, gone) = [ kid \in kept |-> left(kid) ]
  BY DEF unindexLocked, Restrict
<1> QED
  BY <1>3, <1>4, <1>5 DEF IndexOf

\* Filing one grant over an exact index: what Put does to byKid after it
\* took the retired and the overwritten keys out of it.
LEMMA PutIndex ==
    ASSUME IndexExact, NEW g, NEW h, Put(g, h)
    PROVE  IndexExact'
<1> DEFINE k == keyFor(g)
           gone == Retired(g, h) \cup ({k} \cap DOMAIN grants)
           rest == Dropped(grants, gone)
           idx == unindexLocked(byKid, gone)
<1>1. gone \subseteq DOMAIN grants
  BY DEF Retired
<1>2. idx = IndexOf(rest)
  BY <1>1, UnindexExact
<1>3. /\ DOMAIN idx = { rest[x].kid : x \in DOMAIN rest }
      /\ \A kid \in DOMAIN idx : idx[kid] = { x \in DOMAIN rest : rest[x].kid = kid }
  BY <1>2 DEF IndexOf
<1>4. /\ DOMAIN rest = DOMAIN grants \ gone
      /\ \A x \in DOMAIN rest : rest[x] = grants[x]
  BY DEF Dropped, Restrict
<1>5. grants' = [ x \in (DOMAIN grants \ Retired(g, h)) \cup {k} |->
                    IF x = k THEN g ELSE grants[x] ]
  BY DEF Put
<1>6. byKid' = [ kid \in DOMAIN idx \cup {g.kid} |->
                   (IF kid \in DOMAIN idx THEN idx[kid] ELSE {})
                     \cup (IF kid = g.kid THEN {k} ELSE {}) ]
  BY DEF Put
<1>7. /\ DOMAIN grants' = DOMAIN rest \cup {k}
      /\ k \notin DOMAIN rest
      /\ grants'[k] = g
      /\ \A x \in DOMAIN rest : grants'[x] = rest[x]
  BY <1>4, <1>5
<1> HIDE DEF k, gone, rest, idx
<1>8. DOMAIN byKid' = { grants'[x].kid : x \in DOMAIN grants' }
  BY <1>3, <1>6, <1>7
<1>9. \A kid \in DOMAIN byKid' : byKid'[kid] = { x \in DOMAIN grants' : grants'[x].kid = kid }
  BY <1>3, <1>6, <1>7
<1>10. byKid' = [ kid \in DOMAIN byKid' |-> byKid'[kid] ]
  BY <1>6
<1> QED
  BY <1>8, <1>9, <1>10 DEF IndexExact, IndexOf

-----------------------------------------------------------------------------
(* The inductive invariant *)

GrantStoreInv == GrantStoreTypeOK /\ FiledByKey /\ IndexExact

\* Dropping records keeps the types and the filing of the others.
LEMMA DroppedTypes ==
    ASSUME GrantStoreTypeOK, FiledByKey, NEW gone, grants' = Dropped(grants, gone)
    PROVE  /\ DOMAIN grants' \subseteq Key /\ grants' \in [DOMAIN grants' -> Grant]
           /\ FiledByKey'
  BY DEF GrantStoreTypeOK, FiledByKey, Dropped, Restrict

\* The index of a well-typed store is well-typed.
LEMMA IndexTypes ==
    ASSUME NEW store, DOMAIN store \subseteq Key, store \in [DOMAIN store -> Grant]
    PROVE  /\ DOMAIN IndexOf(store) \subseteq Kid
           /\ IndexOf(store) \in [DOMAIN IndexOf(store) -> SUBSET Key]
<1>1. \A k \in DOMAIN store : store[k].kid \in Kid
  BY DEF Grant
<1> QED
  BY <1>1 DEF IndexOf

\* Following an exact index, RevokeToken removes every grant of the kid.
LEMMA RevokeTokenExact ==
    ASSUME IndexExact, NEW kid, RevokeToken(kid)
    PROVE  grants' = Dropped(grants, { k \in DOMAIN grants : grants[k].kid = kid })
<1> DEFINE keys == IF kid \in DOMAIN byKid THEN byKid[kid] ELSE {}
<1>1. grants' = Dropped(grants, keys)
  BY DEF RevokeToken
<1>2. keys = { k \in DOMAIN grants : grants[k].kid = kid }
  BY DEF IndexExact, IndexOf
<1> QED
  BY <1>1, <1>2

\* Types, filing and the exact index are preserved by every operation of the
\* store.
LEMMA InvStep == GrantStoreInv /\ [GrantStoreNext]_grantStoreVars => GrantStoreInv'
<1> SUFFICES ASSUME GrantStoreInv, [GrantStoreNext]_grantStoreVars
             PROVE  GrantStoreInv'
  OBVIOUS
<1> USE DEF GrantStoreInv
<1>1. ASSUME NEW g \in Offer, NEW h \in Hash \cup {NoHash}, Put(g, h)
      PROVE  GrantStoreInv'
  <2>1. g \in Grant /\ keyFor(g) \in Key
    BY GrantStoreAssumption, KeyTypes
  <2>2. /\ DOMAIN grants' = (DOMAIN grants \ Retired(g, h)) \cup {keyFor(g)}
        /\ grants' = [ x \in DOMAIN grants' |-> IF x = keyFor(g) THEN g ELSE grants[x] ]
    BY <1>1 DEF Put
  <2>3. IndexExact'
    BY <1>1, PutIndex
  <2>4. DOMAIN grants' \subseteq Key /\ grants' \in [DOMAIN grants' -> Grant]
    BY <2>1, <2>2 DEF GrantStoreTypeOK
  <2>5. FiledByKey'
    BY <2>2 DEF FiledByKey
  <2> QED
    BY <2>3, <2>4, <2>5, IndexTypes DEF GrantStoreTypeOK, IndexExact
<1>2. ASSUME NEW s \in Service, NEW i \in IP, Revoke(s, i)
      PROVE  GrantStoreInv'
  <2> DEFINE gone == { k \in DOMAIN grants : grants[k].service = s /\ grants[k].ip = i }
  <2>1. grants' = Dropped(grants, gone) /\ byKid' = unindexLocked(byKid, gone)
    BY <1>2 DEF Revoke
  <2>2. IndexExact'
    BY <2>1, UnindexExact DEF IndexExact
  <2>3. /\ DOMAIN grants' \subseteq Key /\ grants' \in [DOMAIN grants' -> Grant]
        /\ FiledByKey'
    BY <2>1, DroppedTypes
  <2> QED
    BY <2>2, <2>3, IndexTypes DEF GrantStoreTypeOK, IndexExact
<1>3. ASSUME NEW kid \in Kid, RevokeToken(kid)
      PROVE  GrantStoreInv'
  <2> DEFINE gone == { k \in DOMAIN grants : grants[k].kid = kid }
  <2>1. byKid' = Dropped(byKid, {kid})
    BY <1>3 DEF RevokeToken
  <2>2. grants' = Dropped(grants, gone)
    BY <1>3, RevokeTokenExact
  <2>3. /\ DOMAIN grants' \subseteq Key /\ grants' \in [DOMAIN grants' -> Grant]
        /\ FiledByKey'
    BY <2>2, DroppedTypes
  <2>4. IndexExact'
    BY <2>1, <2>2 DEF IndexExact, IndexOf, Dropped, Restrict
  <2> QED
    BY <2>3, <2>4, IndexTypes DEF GrantStoreTypeOK, IndexExact
<1>4. ASSUME NEW t \in Time, Sweep(t)
      PROVE  GrantStoreInv'
  <2> DEFINE gone == { k \in DOMAIN grants : t >= grants[k].exp }
  <2>1. grants' = Dropped(grants, gone) /\ byKid' = unindexLocked(byKid, gone)
    BY <1>4 DEF Sweep
  <2>2. IndexExact'
    BY <2>1, UnindexExact DEF IndexExact
  <2>3. /\ DOMAIN grants' \subseteq Key /\ grants' \in [DOMAIN grants' -> Grant]
        /\ FiledByKey'
    BY <2>1, DroppedTypes
  <2> QED
    BY <2>2, <2>3, IndexTypes DEF GrantStoreTypeOK, IndexExact
<1>5. ASSUME UNCHANGED grantStoreVars
      PROVE  GrantStoreInv'
  BY <1>5 DEF grantStoreVars, GrantStoreTypeOK, FiledByKey, IndexExact
<1> QED
  BY <1>1, <1>2, <1>3, <1>4, <1>5 DEF GrantStoreNext

\* In every behavior of the store its maps are well-typed, every grant is
\* filed under its own key and byKid is the exact index of the grants, so
\* that RevokeToken reaches all the grants of a kid and only those.
THEOREM GrantStoreInvariant == GrantStoreSpec => []GrantStoreInv
<1>1. GrantStoreInit => GrantStoreInv
  BY DEF GrantStoreInit, GrantStoreInv, GrantStoreTypeOK, FiledByKey, IndexExact, IndexOf
<1> QED
  BY <1>1, InvStep, PTL DEF GrantStoreSpec

\* The index that RevokeToken trusts is exact in every reachable state.
THEOREM IndexAlwaysExact == GrantStoreSpec => []IndexExact
<1>1. GrantStoreInv => IndexExact
  BY DEF GrantStoreInv
<1> QED
  BY <1>1, GrantStoreInvariant, PTL

\* The type invariant.
THEOREM TypeCorrect == GrantStoreSpec => []GrantStoreTypeOK
<1>1. GrantStoreInv => GrantStoreTypeOK
  BY DEF GrantStoreInv
<1> QED
  BY <1>1, GrantStoreInvariant, PTL

-----------------------------------------------------------------------------
(* Refinement of AbstractGrantStore *)

\* keyFor is SlotKey of the slot a grant is for.
LEMMA SlotOfGrant ==
    ASSUME NEW g \in Grant
    PROVE  keyFor(g) = SlotKey(Abstract!Slot(g)) /\ Abstract!Slot(g) \in Slots
  BY DEF Grant, keyFor, SlotKey, Abstract!Slot, Slots, BindingIPCookie

\* The key of a filed grant is the key of its slot.
LEMMA FiledBySlot ==
    ASSUME GrantStoreInv, NEW k \in DOMAIN grants
    PROVE  k = SlotKey(Abstract!Slot(grants[k])) /\ Abstract!Slot(grants[k]) \in Slots
<1>1. grants[k] \in Grant /\ keyFor(grants[k]) = k
  BY DEF GrantStoreInv, GrantStoreTypeOK, FiledByKey
<1> QED
  BY <1>1, SlotOfGrant

\* A Put that no key ambiguity confuses is an abstract put: it removes the
\* grant in the same slot and the one under the previous cookie, nothing
\* else.
LEMMA PutRefines ==
    ASSUME KeysUnambiguous, GrantStoreInv,
           NEW g \in Offer, NEW h \in Hash \cup {NoHash}, Put(g, h)
    PROVE  Abstract!AbsPut(g, h)
<1> DEFINE out == Abstract!Replaced(g, h)
           gone == Retired(g, h) \cup {keyFor(g)}
<1>1. /\ DOMAIN grants' = (DOMAIN grants \ Retired(g, h)) \cup {keyFor(g)}
      /\ \A x \in DOMAIN grants' : grants'[x] = IF x = keyFor(g) THEN g ELSE grants[x]
  BY DEF Put
<1>2. keyFor(g) = SlotKey(Abstract!Slot(g)) /\ Abstract!Slot(g) \in Slots
  BY GrantStoreAssumption, SlotOfGrant
<1>3. /\ <<g.service, g.ip, h>> \in Slots
      /\ h # NoHash => GrantKeyCookie(g.service, g.ip, h) = SlotKey(<<g.service, g.ip, h>>)
  BY GrantStoreAssumption DEF Slots, SlotKey, Grant
<1>4. \A x \in DOMAIN grants : x \in gone <=> Abstract!Slot(grants[x]) \in out
  BY <1>2, <1>3, FiledBySlot DEF KeysUnambiguous, Retired, Abstract!Replaced
<1>5. Range(grants') = { grants[x] : x \in DOMAIN grants \ gone } \cup {g}
  BY <1>1 DEF Range
<1>6. { grants[x] : x \in DOMAIN grants \ gone }
        = { o \in Range(grants) : Abstract!Slot(o) \notin out }
  BY <1>4 DEF Range
<1> QED
  BY <1>5, <1>6 DEF Abstract!AbsPut

\* Dropping the records that fail a test is filtering the grants by it.
LEMMA DroppedRange ==
    ASSUME NEW gone \in SUBSET DOMAIN grants, NEW bad,
           grants' = Dropped(grants, gone),
           \A k \in DOMAIN grants : k \in gone <=> grants[k] \in bad
    PROVE  Range(grants') = { o \in Range(grants) : o \notin bad }
  BY DEF Dropped, Restrict, Range

\* Every operation of the store is an operation of the abstract store or
\* leaves its set of grants as it is.
LEMMA StepRefines ==
    KeysUnambiguous /\ GrantStoreInv /\ [GrantStoreNext]_grantStoreVars
        => [Abstract!AbsNext]_(Range(grants))
<1> SUFFICES ASSUME KeysUnambiguous, GrantStoreInv, [GrantStoreNext]_grantStoreVars
             PROVE  [Abstract!AbsNext]_(Range(grants))
  OBVIOUS
<1>1. ASSUME NEW g \in Offer, NEW h \in Hash \cup {NoHash}, Put(g, h)
      PROVE  Abstract!AbsNext
  BY <1>1, PutRefines DEF Abstract!AbsNext
<1>2. ASSUME NEW s \in Service, NEW i \in IP, Revoke(s, i)
      PROVE  Abstract!AbsNext
  <2> DEFINE gone == { k \in DOMAIN grants : grants[k].service = s /\ grants[k].ip = i }
             bad == { o \in Range(grants) : o.service = s /\ o.ip = i }
  <2>1. grants' = Dropped(grants, gone)
    BY <1>2 DEF Revoke
  <2>2. \A k \in DOMAIN grants : k \in gone <=> grants[k] \in bad
    BY DEF Range
  <2> HIDE DEF gone
  <2>3. Range(grants') = { o \in Range(grants) : o \notin bad }
    BY <2>1, <2>2, DroppedRange DEF gone
  <2> QED
    BY <2>3 DEF Abstract!AbsNext, Abstract!AbsRevoke
<1>3. ASSUME NEW kid \in Kid, RevokeToken(kid)
      PROVE  Abstract!AbsNext
  <2> DEFINE gone == { k \in DOMAIN grants : grants[k].kid = kid }
             bad == { o \in Range(grants) : o.kid = kid }
  <2>1. grants' = Dropped(grants, gone)
    BY <1>3, RevokeTokenExact DEF GrantStoreInv
  <2>2. \A k \in DOMAIN grants : k \in gone <=> grants[k] \in bad
    BY DEF Range
  <2> HIDE DEF gone
  <2>3. Range(grants') = { o \in Range(grants) : o \notin bad }
    BY <2>1, <2>2, DroppedRange DEF gone
  <2> QED
    BY <2>3 DEF Abstract!AbsNext, Abstract!AbsRevokeToken
<1>4. ASSUME NEW t \in Time, Sweep(t)
      PROVE  Abstract!AbsNext
  <2> DEFINE gone == { k \in DOMAIN grants : t >= grants[k].exp }
             bad == { o \in Range(grants) : t >= o.exp }
  <2>1. grants' = Dropped(grants, gone)
    BY <1>4 DEF Sweep
  <2>2. \A k \in DOMAIN grants : k \in gone <=> grants[k] \in bad
    BY DEF Range
  <2>3. \A o \in Range(grants) : o.exp \in Nat /\ t \in Nat
    BY GrantStoreAssumption DEF GrantStoreInv, GrantStoreTypeOK, Range, Grant
  <2> HIDE DEF gone
  <2>4. Range(grants') = { o \in Range(grants) : o \notin bad }
    BY <2>1, <2>2, DroppedRange DEF gone
  <2>5. Range(grants') = { o \in Range(grants) : t < o.exp }
    BY <2>3, <2>4
  <2> QED
    BY <2>5 DEF Abstract!AbsNext, Abstract!AbsSweep
<1>5. ASSUME UNCHANGED grantStoreVars
      PROVE  Range(grants') = Range(grants)
  BY <1>5 DEF grantStoreVars
<1> QED
  BY <1>1, <1>2, <1>3, <1>4, <1>5 DEF GrantStoreNext

\* As long as no two slots share a key, the keyed and indexed store
\* implements the plain set of grants that its callers are promised.
THEOREM GrantStoreRefinement ==
    ASSUME KeysUnambiguous
    PROVE  GrantStoreSpec => RefinesAbstract
<1>1. GrantStoreInit => Abstract!AbsInit
  BY DEF GrantStoreInit, Abstract!AbsInit, Range
<1>2. GrantStoreInv /\ [GrantStoreNext]_grantStoreVars => [Abstract!AbsNext]_(Range(grants))
  BY StepRefines
<1> QED
  BY <1>1, <1>2, GrantStoreInvariant, PTL DEF GrantStoreSpec, RefinesAbstract, Abstract!AbsSpec
=============================================================================
