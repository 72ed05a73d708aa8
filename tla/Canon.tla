------------------------------- MODULE Canon -------------------------------
(***************************************************************************)
(* The two canonicalizations that decide what a grant is keyed on and which *)
(* path is an endpoint: CanonServerName of core/go/canon.go and            *)
(* cleanURIPath of authorizer/realip.go, as operators on sequences of       *)
(* characters.  One character stands for each class the code tells apart:  *)
(* "a" and "A" for letters, "0" for digits, " " for white space, "?" for    *)
(* "?" and "#", "x" for a letter that is no hex digit.                      *)
(*                                                                         *)
(* A character of a URI is a pair <<c, d>>: c as it is (d = 0), escaped     *)
(* once (d = 1, "%2e") or escaped twice (d = 2, "%252e").  A path is the    *)
(* sequence of its segments, so "/" is the empty sequence.                  *)
(***************************************************************************)
EXTENDS Integers, Sequences, FiniteSets, FiniteSetsExt, SequencesExt

-----------------------------------------------------------------------------
(* Host names *)

Space == " "

\* The fixpoint of trimming white space at both ends and one trailing dot.
trimDotsAndSpace(s) ==
    LET kept == { i \in DOMAIN s : s[i] \notin {Space, "."} }
    IN  IF kept = {} THEN <<>>
        ELSE SubSeq(s, Min({ i \in DOMAIN s : s[i] # Space }), Max(kept))

asciiLower(s) == [ i \in DOMAIN s |-> IF s[i] = "A" THEN "a" ELSE s[i] ]

isASCIIDigits(s) == s # <<>> /\ ToSet(s) \subseteq {"0"}

Places(s, c) == { i \in DOMAIN s : s[i] = c }

\* A bracketed literal delimits its own host.
StripBrackets(h) ==
    IF h # <<>> /\ Head(h) = "[" /\ Places(h, "]") # {}
    THEN trimDotsAndSpace(SubSeq(h, 2, Min(Places(h, "]")) - 1))
    ELSE h

\* A host with several colons is an IPv6 literal and has no port.
StripPort(h) ==
    IF /\ Cardinality(Places(h, ":")) = 1
       /\ isASCIIDigits(SubSeq(h, Max(Places(h, ":")) + 1, Len(h)))
    THEN SubSeq(h, 1, Max(Places(h, ":")) - 1)
    ELSE h

\* Trims after the port is gone only, as the code once did.
CanonServerName_TrimLast(host) ==
    asciiLower(trimDotsAndSpace(StripPort(StripBrackets(host))))

CanonServerName(host) ==
    asciiLower(trimDotsAndSpace(StripPort(StripBrackets(trimDotsAndSpace(host)))))

-----------------------------------------------------------------------------
(* Paths *)

\* Up to the first "?" that is not escaped.
CutQuery(uri) ==
    IF \E i \in DOMAIN uri : uri[i] = <<"?", 0>>
    THEN SubSeq(uri, 1, Min({ i \in DOMAIN uri : uri[i] = <<"?", 0>> }) - 1)
    ELSE uri

\* One pass of percent-decoding; a "%" that escapes nothing has no decoding.
Decode(uri) == [ i \in DOMAIN uri |-> <<uri[i][1], Max({uri[i][2] - 1, 0})>> ]
Malformed(uri) == \E i \in DOMAIN uri : uri[i] = <<"%", 0>>

\* Does without the refusal of what still looks escaped after one pass.
Ambiguous_Never(dec) == FALSE

\* A "%", "?" or "#" is left after decoding.
Ambiguous(dec) == \E i \in DOMAIN dec : dec[i][2] > 0 \/ dec[i][1] \in {"%", "?"}

\* path.Clean: the segments that are left of a path.  What goes above the root
\* is dropped; a path that is not rooted keeps its leading "..".
Segments(dec) ==
    FoldLeft(LAMBDA segs, ch :
               IF ch = <<"/", 0>> THEN Append(segs, <<>>)
               ELSE [segs EXCEPT ![Len(segs)] = Append(@, ch)],
             << <<>> >>, dec)
Dot == << <<".", 0>> >>
DotDot == Dot \o Dot
CleanSegments(dec, rooted) ==
    FoldLeft(LAMBDA path, seg :
               LET top == path = <<>> \/ Last(path) = DotDot
               IN  CASE seg \in {<<>>, Dot} \/ (seg = DotDot /\ top /\ rooted) -> path
                     [] seg = DotDot /\ ~top -> Front(path)
                     [] OTHER -> Append(path, seg),
             <<>>, Segments(dec))

\* cleanURIPath roots what it cleans.
Clean(dec) == CleanSegments(dec, TRUE)

Root == <<>>

cleanURIPath(uri) ==
    LET raw == CutQuery(uri)
    IN  IF Malformed(raw) \/ Ambiguous(Decode(raw)) THEN Root ELSE Clean(Decode(raw))

\* A path as the characters of a URI; path.Clean leaves no trailing slash.
Render(path) ==
    IF path = Root THEN << <<"/", 0>> >>
    ELSE FoldLeft(LAMBDA uri, seg : uri \o << <<"/", 0>> >> \o seg, <<>>, path)

\* path.Clean of the characters of a path.
PathClean(p) ==
    LET rel == CleanSegments(p, FALSE)
    IN  IF Head(p) = <<"/", 0>> THEN Render(Clean(p))
        ELSE IF rel = <<>> THEN Dot ELSE Tail(Render(rel))

\* The mux would answer p with a redirect to its cleaned form, which keeps a
\* trailing slash.
muxWouldRedirect(p) ==
    /\ p # <<>>
    /\ LET np == PathClean(p)
           slash == Last(p) = <<"/", 0>> /\ np # Render(Root)
       IN  (IF slash THEN Append(np, <<"/", 0>>) ELSE np) # p
=============================================================================
