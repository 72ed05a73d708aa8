----------------------------- MODULE EnrollStore -----------------------------
(***************************************************************************)
(* EnrollStore of core/go/store.go: single-use enrollment codes, each for  *)
(* one kid and until exp.  Each operation holds the store's mutex.  The    *)
(* origins a code carries are echoed to the client and decide nothing.     *)
(***************************************************************************)
EXTENDS Naturals, Functions

VARIABLE codes    \* code -> [kid, exp]

EnrollStoreInit == codes = <<>>

Put(code, kid, exp) ==
    codes' = [ x \in DOMAIN codes \cup {code} |->
                 IF x = code THEN [kid |-> kid, exp |-> exp] ELSE codes[x] ]

\* Peek returns the code, and does not consume it.
Live(code, t) == code \in DOMAIN codes /\ t < codes[code].exp

\* Reads the code and leaves it to the sweeper.
Consume_NoDelete(code) == UNCHANGED codes

\* Deletes the code whether or not it is still Live; nil if it is not.
Consume(code) == codes' = Restrict(codes, DOMAIN codes \ {code})

Sweep(t) == codes' = Restrict(codes, { c \in DOMAIN codes : t < codes[c].exp })
=============================================================================
