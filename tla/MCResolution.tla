---------------------------- MODULE MCResolution ----------------------------
(***************************************************************************)
(* Two clients, one with a zone, behind up to two of the operator's        *)
(* proxies that describe the target as nginx and Traefik do.               *)
(***************************************************************************)
EXTENDS Resolution

\* c1 is an IPv6 address cut to its network, c2 has a zone, c3 is somebody
\* else's address.
MCMask == [a \in {"c1", "c2", "c3", "t1", "t2"} |-> IF a = "c1" THEN "net1" ELSE a]
MCConvention == <<"forwarded", "original-url", "original">>
MCUpstream == [host |-> <<"0">>, uri |-> << <<"/", 0>> >>]
MCHostChars == {"a", "A", ".", " ", ":", "0", "[", "]"}
MCUriChars ==
    ({"/", "."} \X (0..2)) \cup ({"x"} \X (0..1)) \cup ({"%", "?"} \X (0..1))

NoClaim == [host |-> <<>>, uri |-> Nothing]
Page == << <<"/", 0>>, <<"x", 0>> >>

\* Made-up X-Forwarded-For headers of up to two entries, in one line or two:
\* another address, one of our own, junk, nothing.
Entry == {<<"c3", "plain">>, <<"c2", "plain">>, <<"t1", "mapped">>, Junk, Blank}
Spoofed ==
    [ client : {"c1", "c2"}, spelling : {"plain", "mapped"}, host : {<<"a">>}, uri : {Page},
      xff : {<<>>} \cup {<<line>> : line \in [1..2 -> Entry]}
              \cup {<<<<e>>, <<f>>>> : e, f \in Entry},
      claim : {[c \in ToSet(MCConvention) |-> NoClaim]} ]

\* Made-up target headers, before and after the one the proxy sets: the same
\* host, another one, one that comes to nothing, a blank; the same path, the
\* same spelled otherwise, another one.
Claim ==
    [ host : {<<>>, << <<"a">> >>, << <<"0">>, <<"a">> >>, << <<".">> >>, << <<" ">> >>},
      uri : {Nothing, << <<"x", 1>>, <<"/", 0>>, <<".", 1>> >>, << <<"/", 0>> >>} ]
Misnamed ==
    [ client : {"c1"}, spelling : {"plain"}, host : {<<"a">>, <<"A", ".">>}, uri : {Page},
      xff : {<<>>},
      claim : { [c \in ToSet(MCConvention) |->
                   CASE c = "forwarded" -> f [] c = "original" -> o [] OTHER -> NoClaim] :
                f \in Claim, o \in Claim } ]
MCRequests == Spoofed \cup Misnamed
=============================================================================
