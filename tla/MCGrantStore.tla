---------------------------- MODULE MCGrantStore ----------------------------
(***************************************************************************)
(* Instances of GrantStore for TLC.  Two addresses, one a prefix of the    *)
(* other as segments (2001:db8::1 and 2001:db8::1:2), two devices at one   *)
(* of them and a second service; kid k1 gets grants of two lifetimes.              *)
(***************************************************************************)
EXTENDS GrantStore

CONSTANTS a, b, x, y    \* segments, model values

MCSegment == {a, b, x, y}
MCKid == {"k1", "k2"}
MCService == {<<a>>, <<b>>}
MCIP == {<<x>>, <<x, y>>}
MCCookie == {"c1", "c2"}
MCFP == {NoFP}
MCTime == 0..2

Plain(g) == g.binding = BindingIP /\ g.cookieHash = NoHash
DeviceBound(g) == g.binding = BindingIPCookie /\ g.cookieHash # NoHash

MCOffer ==
    { g \in [ kid : MCKid, service : MCService, ip : MCIP,
              binding : {BindingIP, BindingIPCookie}, cookieHash : Hash \cup {NoHash},
              exp : 1..2, manual : {FALSE}, secretFP : MCFP ] :
        /\ Plain(g) \/ DeviceBound(g)
        /\ g.service = <<b>> => Plain(g) /\ g.ip = <<x>>
        /\ g.ip = <<x, y>> => Plain(g)
        /\ g.kid = "k2" => g.exp = 1 }

\* No two slots of this instance share a key: RefinesAbstract is expected to
\* hold, see GrantStoreRefinement.
ASSUME KeysAssumption == KeysUnambiguous
=============================================================================
