--------------------------- MODULE ExtensionProofs ---------------------------
(***************************************************************************)
(* Proofs about Extension, for any set of tabs and origins, any gates and  *)
(* any budget of attempts, and any number of acts, stops and lost grants.  *)
(***************************************************************************)
EXTENDS Extension, TLAPS

-----------------------------------------------------------------------------
(* Bags of handshakes *)

\* No handshake is in the bag twice.
Ones(B) == \A x \in DOMAIN B : B[x] = 1

\* Adding a knock of its own to the bag leaves one of each.
LEMMA AddOne ==
    ASSUME NEW B, Ones(B), NEW x, x \notin DOMAIN B
    PROVE  DOMAIN (B (+) Bag1(x)) = DOMAIN B \cup {x} /\ Ones(B (+) Bag1(x))
  BY DEF (+), Bag1, SetToBag, Ones

\* Removing a knock that was there once leaves one of each of the others.
LEMMA RemoveOne ==
    ASSUME NEW B, Ones(B), NEW x \in DOMAIN B
    PROVE  DOMAIN (B (-) Bag1(x)) = DOMAIN B \ {x} /\ Ones(B (-) Bag1(x))
  BY DEF (-), Bag1, SetToBag, Ones

-----------------------------------------------------------------------------
(* SingleFlight *)

Fields == {"origin", "pc", "seen"}

\* The handshakes that run and the entries of inflight are one to one.
FlightInv ==
    /\ Ones(knocks)
    /\ \A h \in DOMAIN knocks : DOMAIN h = Fields
    /\ \A h, i \in DOMAIN knocks : h.origin = i.origin => h = i
    /\ inflight = { h.origin : h \in DOMAIN knocks }

\* knock() joins the handshake of its origin or starts the only one.
LEMMA KnockKeeps ==
    ASSUME FlightInv, NEW o, knock(o)
    PROVE  FlightInv'
<1>1. CASE UNCHANGED <<inflight, knocks>>
  BY <1>1 DEF FlightInv
<1>2. CASE o \notin inflight /\ inflight' = inflight \cup {o} /\ knocks' = knocks (+) NewKnock(o)
  <2>1. PICK n : n = [origin |-> o, pc |-> "challenge", seen |-> {}]
    OBVIOUS
  <2>2. DOMAIN n = Fields /\ n.origin = o
    BY <2>1 DEF Fields
  <2>3. knocks' = knocks (+) Bag1(n)
    BY <1>2, <2>1 DEF NewKnock
  <2>4. n \notin DOMAIN knocks
    BY <1>2, <2>2 DEF FlightInv
  <2>5. DOMAIN knocks' = DOMAIN knocks \cup {n} /\ Ones(knocks')
    BY <2>3, <2>4, AddOne DEF FlightInv
  <2>6. \A h \in DOMAIN knocks : h.origin # o
    BY <1>2 DEF FlightInv
  <2>7. inflight' = { h.origin : h \in DOMAIN knocks' }
    BY <1>2, <2>2, <2>5 DEF FlightInv
  <2>8. \A h, i \in DOMAIN knocks' : h.origin = i.origin => h = i
    BY <2>2, <2>5, <2>6 DEF FlightInv
  <2> QED
    BY <2>2, <2>5, <2>7, <2>8 DEF FlightInv
<1> QED
  BY <1>1, <1>2 DEF knock

\* finally() removes the entry of the handshake that has settled, and no other.
LEMMA SettleKeeps ==
    ASSUME FlightInv, NEW h \in DOMAIN knocks, Settle(h)
    PROVE  FlightInv'
<1>1. DOMAIN knocks' = DOMAIN knocks \ {h} /\ Ones(knocks')
  BY RemoveOne DEF FlightInv, Settle
<1>2. inflight' = inflight \ {h.origin}
  BY DEF Settle
<1>3. inflight' = { i.origin : i \in DOMAIN knocks' }
  BY <1>1, <1>2 DEF FlightInv
<1> QED
  BY <1>1, <1>3 DEF FlightInv

\* A handshake that gets its 204 goes on in its place.
LEMMA RespondKeeps ==
    ASSUME FlightInv, NEW h \in DOMAIN knocks, NEW s, UNCHANGED inflight,
           knocks' = (knocks (-) Bag1(h)) (+) Bag1([h EXCEPT !.pc = "set", !.seen = s])
    PROVE  FlightInv'
<1>1. PICK n : n = [h EXCEPT !.pc = "set", !.seen = s]
  OBVIOUS
<1>2. DOMAIN n = Fields /\ n.origin = h.origin
  BY <1>1 DEF FlightInv, Fields
<1>3. PICK B : B = knocks (-) Bag1(h)
  OBVIOUS
<1>4. DOMAIN B = DOMAIN knocks \ {h} /\ Ones(B)
  BY <1>3, RemoveOne DEF FlightInv
<1>5. n \notin DOMAIN B
  BY <1>2, <1>4 DEF FlightInv
<1>6. DOMAIN knocks' = DOMAIN B \cup {n} /\ Ones(knocks')
  BY <1>1, <1>3, <1>4, <1>5, AddOne
<1>7. inflight' = { i.origin : i \in DOMAIN knocks' }
  BY <1>2, <1>4, <1>6 DEF FlightInv
<1>8. \A i, j \in DOMAIN knocks' : i.origin = j.origin => i = j
  BY <1>2, <1>4, <1>6 DEF FlightInv
<1> QED
  BY <1>2, <1>4, <1>6, <1>7, <1>8 DEF FlightInv

\* Every step of the worker keeps at most one knock in flight per origin.
LEMMA FlightStep ==
    ASSUME FlightInv, [Next]_vars
    PROVE  FlightInv'
<1>1. CASE UNCHANGED <<inflight, knocks>>
  BY <1>1 DEF FlightInv
<1>2. ASSUME NEW t \in Tab, Headers(t) \/ Commit(t) \/ Fail(t) \/ Close(t) \/ Popup(t)
      PROVE  FlightInv'
  BY <1>1, <1>2 DEF Headers, Commit, Fail, Close, Popup
<1>3. ASSUME NEW t \in Tab, NEW o \in Origin,
             (\E user \in BOOLEAN : Navigate(t, o, user)) \/ WindowOpen(t, o)
      PROVE  FlightInv'
  BY <1>1, <1>3 DEF Navigate, WindowOpen
<1>4. ASSUME NEW h \in BagToSet(knocks), KnockRespond(h)
      PROVE  FlightInv'
  <2>1. h \in DOMAIN knocks
    BY DEF BagToSet
  <2>2. CASE Refuse(h)
    BY <2>1, <2>2, SettleKeeps DEF Refuse
  <2>3. CASE /\ knocks' = (knocks (-) Bag1(h)) (+) Bag1([h EXCEPT !.pc = "set", !.seen = grants])
             /\ UNCHANGED inflight
    <3>1. PICK s : s = grants
      OBVIOUS
    <3>2. knocks' = (knocks (-) Bag1(h)) (+) Bag1([h EXCEPT !.pc = "set", !.seen = s])
      BY <2>3, <3>1
    <3> QED
      BY <2>1, <2>3, <3>2, RespondKeeps
  <2> QED
    BY <1>4, <2>2, <2>3 DEF KnockRespond
<1>5. ASSUME NEW h \in BagToSet(knocks), SetGrant(h)
      PROVE  FlightInv'
  BY <1>5, SettleKeeps DEF SetGrant, Succeed, Refuse, BagToSet
<1>6. ASSUME NEW k \in BagToSet(tasks), BeforeGrant(k)
      PROVE  FlightInv'
  BY <1>1, <1>6, KnockKeeps DEF BeforeGrant
<1>7. ASSUME NEW k \in BagToSet(tasks), HeadersToken(k)
      PROVE  FlightInv'
  BY <1>1, <1>7, KnockKeeps DEF HeadersToken
<1>8. ASSUME NEW k \in BagToSet(tasks), PopupTab(k)
      PROVE  FlightInv'
  <2>1. PICK o : o = tabs[k.tab].at
    OBVIOUS
  <2>2. knock(o) \/ UNCHANGED <<inflight, knocks>>
    BY <1>8, <2>1 DEF PopupTab
  <2> QED
    BY <1>1, <2>2, KnockKeeps
<1>9. ASSUME NEW k \in BagToSet(tasks), Reload(k)
      PROVE  FlightInv'
  BY <1>1, <1>9 DEF Reload
<1>10. CASE WorkerStop
  <2>1. inflight' = {} /\ DOMAIN knocks' = {}
    BY <1>10 DEF WorkerStop, EmptyBag, SetToBag
  <2> QED
    BY <2>1 DEF FlightInv, Ones
<1>11. CASE \E o \in Origin : GateForgets(o)
  BY <1>1, <1>11 DEF GateForgets, worker
<1>12. CASE UNCHANGED vars
  BY <1>1, <1>12 DEF vars, worker
<1> QED
  BY <1>2, <1>3, <1>4, <1>5, <1>6, <1>7, <1>8, <1>9, <1>10, <1>11, <1>12 DEF Next, Work

\* "Single-flight (no knock storms)" (sw.js): however the handlers of any tabs
\* interleave at their awaits and whenever the worker is stopped, at most one
\* handshake runs per origin and inflight holds exactly the origins with one.
THEOREM OneFlight == FairSpec => []SingleFlight
<1>1. Init => FlightInv
  <2> SUFFICES ASSUME Init
               PROVE  FlightInv
    OBVIOUS
  <2>1. inflight = {} /\ DOMAIN knocks = {}
    BY DEF Init, EmptyBag, SetToBag
  <2> QED
    BY <2>1 DEF FlightInv, Ones
<1>2. FlightInv /\ [Next]_vars => FlightInv'
  BY FlightStep
<1>3. FlightInv => SingleFlight
  BY DEF FlightInv, SingleFlight, BagToSet, Ones
<1> QED
  BY <1>1, <1>2, <1>3, PTL DEF FairSpec

-----------------------------------------------------------------------------
(* DeniedOnlyExcused *)

Kinds == {"before", "headers", "popup"}
Labels == {"grant", "token", "tab", "knock", "reload"}
Handler == [kind : Kinds, tab : Tab, origin : Origin \cup {None}, pc : Labels]
Frame == [ open : BOOLEAN, at : Origin \cup {None},
           nav : {"none", "started", "headers"}, user : BOOLEAN ]

\* What the browser and the worker keep.
Shape ==
    /\ tabs \in [Tab -> Frame] /\ view \in [Tab -> {"blank", "page", "denied"}]
    /\ attempts \in [Tab -> [origin : Origin \cup {None}, n : Nat]]
    /\ \A t \in Tab : ~tabs[t].open => view[t] # "denied"

\* The bag of the handlers at an await.
Counts(B) == DOMAIN B \subseteq Handler /\ \A k \in DOMAIN B : B[k] \in Nat \ {0}

\* A handler of tab t awaits a handshake with o, or is about to reload t, or
\* has yet to look at the budget of t.
Knocking(t, o) == \E k \in DOMAIN tasks : k.tab = t /\ k.pc = "knock" /\ k.origin = o
Reloading(t) == \E k \in DOMAIN tasks : k.tab = t /\ k.pc = "reload"
Asking(t, o) == Task("headers", t, o, "token") \in DOMAIN tasks

\* The attempts that t has used up at an honest gate were not in vain.
Spent(t) ==
    attempts[t].n > 0 /\ t \notin excused /\ Gate[attempts[t].origin] = "honest" =>
        attempts[t].origin \in admits \/ Knocking(t, attempts[t].origin)

\* The interstitial of o in t will be reloaded; a handler that may yet find
\* the budget used up does not count.
Pending(t, o) == \/ Knocking(t, o) \/ Reloading(t)
                 \/ Asking(t, o) /\ Counted(t, o) = 0

\* No interstitial of an honest gate is left alone without an excuse.
Watched(t) ==
    /\ tabs[t].nav # "started" /\ view[t] = "denied"
    /\ t \notin excused /\ Gate[tabs[t].at] = "honest"
    => Pending(t, tabs[t].at)

DeniedInv ==
    /\ Shape /\ Counts(tasks)
    /\ \A t \in Tab : Spent(t) /\ Watched(t)

\* One more handler in the bag.
LEMMA AddHandler ==
    ASSUME NEW B, Counts(B), NEW x \in Handler
    PROVE  DOMAIN (B (+) Bag1(x)) = DOMAIN B \cup {x} /\ Counts(B (+) Bag1(x))
<1>1. DOMAIN Bag1(x) = {x} /\ Bag1(x)[x] = 1
  BY DEF Bag1, SetToBag
<1>2. DOMAIN (B (+) Bag1(x)) = DOMAIN B \cup {x}
  BY <1>1 DEF (+)
<1>3. ASSUME NEW k \in DOMAIN (B (+) Bag1(x))
      PROVE  (B (+) Bag1(x))[k] \in Nat \ {0}
  BY <1>1, <1>2, <1>3 DEF (+), Counts
<1> QED
  BY <1>2, <1>3 DEF Counts

\* One handler less, or one occurrence less of it.
LEMMA RemoveHandler ==
    ASSUME NEW B, Counts(B), NEW x
    PROVE  /\ DOMAIN B \ {x} \subseteq DOMAIN (B (-) Bag1(x))
           /\ DOMAIN (B (-) Bag1(x)) \subseteq DOMAIN B
           /\ Counts(B (-) Bag1(x))
<1>1. DOMAIN Bag1(x) = {x} /\ Bag1(x)[x] = 1
  BY DEF Bag1, SetToBag
<1>2. DOMAIN (B (-) Bag1(x)) \subseteq DOMAIN B
  BY <1>1 DEF (-)
<1>3. ASSUME NEW k \in DOMAIN B, k # x
      PROVE  k \in DOMAIN (B (-) Bag1(x))
  BY <1>1, <1>3 DEF (-), Counts
<1>4. ASSUME NEW k \in DOMAIN (B (-) Bag1(x))
      PROVE  (B (-) Bag1(x))[k] \in Nat \ {0}
  BY <1>1, <1>2, <1>4 DEF (-), Counts
<1> QED
  BY <1>2, <1>3, <1>4 DEF Counts

\* A handler that awaits again, or goes on as another.
LEMMA ReplaceHandler ==
    ASSUME NEW B, Counts(B), NEW x, NEW y \in Handler
    PROVE  /\ (DOMAIN B \ {x}) \cup {y} \subseteq DOMAIN ((B (-) Bag1(x)) (+) Bag1(y))
           /\ Counts((B (-) Bag1(x)) (+) Bag1(y))
<1>1. PICK C : C = B (-) Bag1(x)
  OBVIOUS
<1>2. DOMAIN B \ {x} \subseteq DOMAIN C /\ Counts(C)
  BY <1>1, RemoveHandler
<1>3. DOMAIN (C (+) Bag1(y)) = DOMAIN C \cup {y} /\ Counts(C (+) Bag1(y))
  BY <1>2, AddHandler
<1> QED
  BY <1>1, <1>2, <1>3

\* A record is its fields.
LEMMA HandlerIs ==
    ASSUME NEW k \in Handler
    PROVE  /\ k = Task(k.kind, k.tab, k.origin, k.pc)
           /\ \A pc \in Labels : /\ [k EXCEPT !.pc = pc] = Task(k.kind, k.tab, k.origin, pc)
                                 /\ [k EXCEPT !.pc = pc] \in Handler
  BY DEF Handler, Task

\* What Task makes is a handler.
LEMMA TaskIs ==
    ASSUME NEW kind \in Kinds, NEW t \in Tab, NEW o \in Origin \cup {None}, NEW pc \in Labels
    PROVE  Task(kind, t, o, pc) \in Handler
  BY DEF Task, Handler

\* The handlers of t that Spent and Watched are about.
Concern(t) == { k \in DOMAIN tasks : k.tab = t /\ k.pc \in {"token", "knock", "reload"} }

\* They stay, and t's count with them.
Spared(t) ==
    /\ Concern(t) \subseteq DOMAIN tasks'
    /\ attempts'[t] = attempts[t] /\ (t \in excused => t \in excused')

\* Attempts that were not in vain stay so while the gate forgets nothing.
LEMMA SpentKept ==
    ASSUME DeniedInv, NEW t \in Tab, Spared(t), admits \subseteq admits'
    PROVE  Spent(t)'
<1>1. Spent(t)
  BY DEF DeniedInv
<1>2. \A o : Knocking(t, o) => Knocking(t, o)'
  BY DEF Spared, Concern, Knocking
<1>3. attempts'[t] = attempts[t] /\ (t \in excused => t \in excused')
  BY DEF Spared
<1> QED
  BY <1>1, <1>2, <1>3 DEF Spent

\* What is to be reloaded stays so.
LEMMA PendingKept ==
    ASSUME NEW t, NEW o, Spared(t), Pending(t, o)
    PROVE  Pending(t, o)'
<1>1. Knocking(t, o) => Knocking(t, o)'
  BY DEF Spared, Concern, Knocking
<1>2. Reloading(t) => Reloading(t)'
  BY DEF Spared, Concern, Reloading
<1>3. Asking(t, o) => Asking(t, o)'
  BY DEF Spared, Concern, Asking, Task
<1>4. Counted(t, o)' = Counted(t, o)
  BY DEF Spared, Counted
<1> QED
  BY <1>1, <1>2, <1>3, <1>4 DEF Pending

\* A tab that shows what it showed, or something else than an interstitial.
LEMMA WatchedKept ==
    ASSUME DeniedInv, NEW t \in Tab, Spared(t),
           \/ tabs'[t].nav = "started" \/ view'[t] # "denied"
           \/ /\ tabs[t].nav # "started" /\ tabs'[t].at = tabs[t].at /\ view'[t] = view[t]
    PROVE  Watched(t)'
<1> SUFFICES ASSUME tabs'[t].nav # "started", view'[t] = "denied",
                    t \notin excused', Gate[tabs'[t].at] = "honest"
             PROVE  Pending(t, tabs[t].at)'
  BY DEF Watched
<1>1. Watched(t)
  BY DEF DeniedInv
<1>2. /\ tabs[t].nav # "started" /\ tabs'[t].at = tabs[t].at /\ view'[t] = view[t]
  OBVIOUS
<1>3. Pending(t, tabs[t].at)
  BY <1>1, <1>2 DEF Watched, Spared
<1>4. PICK o : o = tabs[t].at
  OBVIOUS
<1>5. Pending(t, o)'
  BY <1>3, <1>4, PendingKept
<1> QED
  BY <1>2, <1>4, <1>5

\* onBeforeNavigate takes one tab elsewhere and adds at most one handler.
LEMMA BeginDoes ==
    ASSUME Shape, NEW t \in Tab, NEW o \in Origin \cup {None}, NEW user \in BOOLEAN, NEW opened,
           NEW base, Counts(base), Begin(t, o, user, opened, base)
    PROVE  /\ tabs' \in [Tab -> Frame] /\ tabs'[t].nav = "started" /\ tabs'[t].open
           /\ \A u \in Tab \ {t} : tabs'[u] = tabs[u]
           /\ DOMAIN base \subseteq DOMAIN tasks' /\ Counts(tasks')
<1>1. tabs' = [tabs EXCEPT ![t] = [open |-> TRUE, at |-> o, nav |-> "started", user |-> user]]
  BY DEF Begin
<1>2. /\ tabs' \in [Tab -> Frame] /\ tabs'[t].nav = "started" /\ tabs'[t].open
      /\ \A u \in Tab \ {t} : tabs'[u] = tabs[u]
  BY <1>1 DEF Shape, Frame
<1>3. tasks' = base \/ tasks' = base (+) Bag1(Task("before", t, o, "grant"))
  BY DEF Begin
<1>4. Task("before", t, o, "grant") \in Handler
  BY TaskIs DEF Kinds, Labels
<1>5. DOMAIN base \subseteq DOMAIN tasks' /\ Counts(tasks')
  BY <1>3, <1>4, AddHandler
<1> QED
  BY <1>2, <1>5

\* A tab under way to wherever leaves the other tabs what they have.
LEMMA BeginKeeps ==
    ASSUME DeniedInv, NEW t \in Tab, NEW o \in Origin \cup {None}, NEW user \in BOOLEAN, NEW opened,
           NEW base, Counts(base), Begin(t, o, user, opened, base),
           \A u \in Tab : Spared(u) \/ (u = t /\ Spent(u)'),
           UNCHANGED <<view, attempts, admits, excused>>
    PROVE  DeniedInv'
<1>1. /\ tabs' \in [Tab -> Frame] /\ tabs'[t].nav = "started" /\ tabs'[t].open
      /\ \A u \in Tab \ {t} : tabs'[u] = tabs[u]
      /\ Counts(tasks')
  BY BeginDoes DEF DeniedInv
<1>2. Shape'
  BY <1>1 DEF DeniedInv, Shape
<1>3. ASSUME NEW u \in Tab
      PROVE  Spent(u)'
  BY SpentKept
<1>4. Watched(t)'
  BY <1>1 DEF Watched
<1>5. ASSUME NEW u \in Tab, u # t
      PROVE  Watched(u)'
  <2>1. Spared(u) /\ tabs'[u] = tabs[u] /\ view'[u] = view[u]
    BY <1>1, <1>5
  <2> QED
    BY <2>1, WatchedKept
<1> QED
  BY <1>1, <1>2, <1>3, <1>4, <1>5 DEF DeniedInv

\* The user or a page moves a tab or opens one.
LEMMA NavigateKeeps ==
    ASSUME DeniedInv, NEW t \in Tab, NEW o \in Origin,
           (\E user \in BOOLEAN : Navigate(t, o, user)) \/ WindowOpen(t, o)
    PROVE  DeniedInv'
<1>1. PICK user \in BOOLEAN : \E opened : Begin(t, o, user, opened, tasks)
  BY DEF Navigate, WindowOpen
<1>2. UNCHANGED <<view, attempts, admits, excused>>
  BY DEF Navigate, WindowOpen
<1>3. Counts(tasks) /\ DOMAIN tasks \subseteq DOMAIN tasks'
  BY <1>1, BeginDoes DEF DeniedInv
<1>4. \A u \in Tab : Spared(u)
  BY <1>2, <1>3 DEF Spared, Concern
<1> QED
  BY <1>1, <1>2, <1>3, <1>4, BeginKeeps

\* chrome.tabs.reload
LEMMA ReloadKeeps ==
    ASSUME DeniedInv, NEW k \in DOMAIN tasks, Reload(k)
    PROVE  DeniedInv'
<1>1. k \in Handler /\ k.tab \in Tab /\ Counts(tasks)
  BY DEF DeniedInv, Counts, Handler
<1>2. UNCHANGED <<view, attempts, admits, excused>> /\ k.pc = "reload"
  BY DEF Reload
<1>3. PICK B : B = tasks (-) Bag1(k)
  OBVIOUS
<1>4. DOMAIN tasks \ {k} \subseteq DOMAIN B /\ Counts(B)
  BY <1>1, <1>3, RemoveHandler
<1>5. DOMAIN B \subseteq DOMAIN tasks' => \A u \in Tab \ {k.tab} : Spared(u)
  BY <1>2, <1>4 DEF Spared, Concern
<1>6. ASSUME DOMAIN B \subseteq DOMAIN tasks'
      PROVE  Spent(k.tab)'
  <2>1. Spent(k.tab)
    BY <1>1 DEF DeniedInv
  <2>2. \A o : Knocking(k.tab, o) => Knocking(k.tab, o)'
    BY <1>2, <1>4, <1>6 DEF Knocking
  <2> QED
    BY <1>2, <2>1, <2>2 DEF Spent
<1>7. CASE tabs[k.tab].open
  <2>1. PICK t, o, opened : t = k.tab /\ o = tabs[k.tab].at /\ opened = AfterAbort(k.tab)
    OBVIOUS
  <2>2. Begin(t, o, TRUE, opened, B)
    BY <1>3, <1>7, <2>1 DEF Reload
  <2>3. o \in Origin \cup {None} /\ t \in Tab
    BY <1>1, <2>1 DEF DeniedInv, Shape, Frame
  <2>4. DOMAIN B \subseteq DOMAIN tasks'
    BY <1>4, <2>2, <2>3, BeginDoes DEF DeniedInv
  <2>5. \A u \in Tab : Spared(u) \/ (u = t /\ Spent(u)')
    BY <1>5, <1>6, <2>1, <2>4
  <2> QED
    BY <1>2, <1>4, <2>2, <2>3, <2>5, BeginKeeps
<1>8. CASE ~tabs[k.tab].open
  <2>1. tasks' = B /\ UNCHANGED tabs
    BY <1>3, <1>8 DEF Reload, Finish
  <2>2. Shape'
    BY <1>2, <2>1 DEF DeniedInv, Shape
  <2>3. ASSUME NEW u \in Tab, u # k.tab
        PROVE  Spent(u)' /\ Watched(u)'
    <3>1. Spared(u) /\ tabs'[u] = tabs[u] /\ view'[u] = view[u]
      BY <1>2, <1>5, <2>1, <2>3
    <3> QED
      BY <1>2, <3>1, SpentKept, WatchedKept
  <2>4. Watched(k.tab)'
    BY <1>1, <1>2, <1>8 DEF Watched, DeniedInv, Shape
  <2> QED
    BY <1>1, <1>4, <1>6, <2>1, <2>2, <2>3, <2>4 DEF DeniedInv
<1> QED
  BY <1>7, <1>8

\* A step that spares all handlers, moves no tab to another origin and shows
\* no new interstitial.
LEMMA QuietKeeps ==
    ASSUME DeniedInv, Shape', Counts(tasks'), admits \subseteq admits',
           \A u \in Tab :
             \/ /\ Spared(u)
                /\ \/ view'[u] # "denied"
                   \/ /\ tabs[u].nav # "started" /\ tabs'[u].at = tabs[u].at
                      /\ view'[u] = view[u]
                   \/ tabs'[u].nav = "started"
             \/ view'[u] # "denied" /\ attempts'[u] = NoAttempts
    PROVE  DeniedInv'
<1>1. ASSUME NEW u \in Tab, Spared(u)
      PROVE  Spent(u)'
  BY <1>1, SpentKept
<1>2. ASSUME NEW u \in Tab, attempts'[u] = NoAttempts
      PROVE  Spent(u)'
  BY <1>2 DEF Spent, NoAttempts
<1>3. ASSUME NEW u \in Tab, view'[u] # "denied"
      PROVE  Watched(u)'
  BY <1>3 DEF Watched
<1>4. ASSUME NEW u \in Tab
      PROVE  Spent(u)' /\ Watched(u)'
  BY <1>1, <1>2, <1>3, WatchedKept
<1> QED
  BY <1>4 DEF DeniedInv

\* The end of a load leaves a tab where it is.
LEMMA Landed ==
    ASSUME Shape, NEW t \in Tab,
           tabs' = [tabs EXCEPT ![t].nav = "none", ![t].user = FALSE]
    PROVE  /\ tabs' \in [Tab -> Frame]
           /\ \A u \in Tab : tabs'[u].at = tabs[u].at /\ tabs'[u].open = tabs[u].open
<1>1. tabs' = [tabs EXCEPT ![t] = [tabs[t] EXCEPT !.nav = "none", !.user = FALSE]]
  BY DEF Shape, Frame
<1>2. PICK f : f = [tabs[t] EXCEPT !.nav = "none", !.user = FALSE]
  OBVIOUS
<1>3. f \in Frame /\ f.at = tabs[t].at /\ f.open = tabs[t].open
  BY <1>2 DEF Shape, Frame
<1>4. tabs' = [tabs EXCEPT ![t] = f]
  BY <1>1, <1>2
<1> QED
  BY <1>3, <1>4 DEF Shape

\* onCommitted, onErrorOccurred, tabs.onRemoved and the popup's button.
LEMMA TabKeeps ==
    ASSUME DeniedInv, NEW t \in Tab, Commit(t) \/ Fail(t) \/ Close(t) \/ Popup(t)
    PROVE  DeniedInv'
<1>1. Shape /\ Counts(tasks)
  BY DEF DeniedInv
<1>2. CASE Commit(t)
  <2>1. /\ tabs' = [tabs EXCEPT ![t].nav = "none", ![t].user = FALSE] /\ tabs[t].nav = "headers"
        /\ UNCHANGED <<view, tasks, attempts, admits, excused>>
    BY <1>2 DEF Commit
  <2>6. /\ tabs' \in [Tab -> Frame]
        /\ \A u \in Tab : tabs'[u].at = tabs[u].at /\ tabs'[u].open = tabs[u].open
    BY <1>1, <2>1, Landed
  <2>2. Shape'
    BY <1>1, <2>1, <2>6 DEF Shape
  <2>3. \A u \in Tab : Spared(u)
    BY <2>1 DEF Spared, Concern
  <2>4. \A u \in Tab : tabs[u].nav = "started" => tabs'[u] = tabs[u]
    BY <1>1, <2>1 DEF Shape, Frame
  <2>5. \A u \in Tab : tabs'[u].at = tabs[u].at
    BY <2>6
  <2> QED
    BY <1>1, <2>1, <2>2, <2>3, <2>4, <2>5, QuietKeeps
<1>3. CASE Fail(t)
  <2>1. /\ tabs' = [tabs EXCEPT ![t].nav = "none", ![t].user = FALSE]
        /\ view' = [view EXCEPT ![t] = "blank"]
        /\ UNCHANGED <<tasks, attempts, admits, excused>>
    BY <1>3 DEF Fail
  <2>6. /\ tabs' \in [Tab -> Frame]
        /\ \A u \in Tab : tabs'[u].open = tabs[u].open
    BY <1>1, <2>1, Landed
  <2>2. Shape'
    BY <1>1, <2>1, <2>6 DEF Shape
  <2>3. \A u \in Tab : Spared(u)
    BY <2>1 DEF Spared, Concern
  <2>4. \A u \in Tab \ {t} : tabs'[u] = tabs[u] /\ view'[u] = view[u]
    BY <1>1, <2>1 DEF Shape
  <2>5. view'[t] # "denied"
    BY <1>1, <2>1 DEF Shape
  <2> QED
    BY <1>1, <2>1, <2>2, <2>3, <2>4, <2>5, QuietKeeps
<1>4. CASE Close(t)
  <2>1. /\ tabs' = [tabs EXCEPT ![t] = [open |-> FALSE, at |-> None, nav |-> "none", user |-> FALSE]]
        /\ view' = [view EXCEPT ![t] = "blank"]
        /\ attempts' = [attempts EXCEPT ![t] = NoAttempts]
        /\ excused' = excused \ {t}
        /\ UNCHANGED <<tasks, admits>>
    BY <1>4 DEF Close
  <2>2. Shape'
    BY <1>1, <2>1 DEF Shape, Frame, NoAttempts
  <2>3. \A u \in Tab \ {t} : Spared(u)
    BY <1>1, <2>1 DEF Spared, Concern, Shape
  <2>4. \A u \in Tab \ {t} : tabs'[u] = tabs[u] /\ view'[u] = view[u]
    BY <1>1, <2>1 DEF Shape
  <2>5. view'[t] # "denied" /\ attempts'[t] = NoAttempts
    BY <1>1, <2>1 DEF Shape
  <2> QED
    BY <1>1, <2>1, <2>2, <2>3, <2>4, <2>5, QuietKeeps
<1>5. CASE Popup(t)
  <2>1. /\ tasks' = tasks (+) Bag1(Task("popup", t, None, "tab"))
        /\ UNCHANGED <<tabs, view, attempts, admits, excused>>
    BY <1>5 DEF Popup, browser
  <2>2. DOMAIN tasks \subseteq DOMAIN tasks' /\ Counts(tasks')
    BY <1>1, <2>1, AddHandler, TaskIs DEF Kinds, Labels
  <2>3. \A u \in Tab : Spared(u)
    BY <2>1, <2>2 DEF Spared, Concern
  <2>4. Shape'
    BY <1>1, <2>1 DEF Shape
  <2> QED
    BY <2>1, <2>2, <2>3, <2>4, QuietKeeps
<1> QED
  BY <1>2, <1>3, <1>4, <1>5

\* onHeaders: a new interstitial has its handler, and if the tab's budget is
\* not untouched an earlier handler is still at it.
LEMMA HeadersKeeps ==
    ASSUME DeniedInv, NEW t \in Tab, Headers(t)
    PROVE  DeniedInv'
<1>1. Shape /\ Counts(tasks)
  BY DEF DeniedInv
<1>2. tabs' = [tabs EXCEPT ![t].nav = "headers"] /\ UNCHANGED admits /\ tabs[t].open
  BY DEF Headers
<1>3. /\ tabs' \in [Tab -> Frame] /\ tabs'[t].at = tabs[t].at /\ tabs'[t].open
      /\ \A u \in Tab \ {t} : tabs'[u] = tabs[u]
  BY <1>1, <1>2 DEF Shape, Frame
<1>4. PICK o : o = tabs[t].at
  OBVIOUS
<1>5. o \in Origin \cup {None}
  BY <1>1, <1>4 DEF Shape, Frame
<1>6. ASSUME view' = [view EXCEPT ![t] = "page"], UNCHANGED tasks,
             \/ UNCHANGED <<attempts, excused>>
             \/ /\ attempts' = [attempts EXCEPT ![t] = NoAttempts] /\ excused' = excused \ {t}
      PROVE  DeniedInv'
  <2>1. view'[t] # "denied" /\ \A u \in Tab \ {t} : tabs'[u] = tabs[u] /\ view'[u] = view[u]
    BY <1>1, <1>3, <1>6 DEF Shape
  <2>2. Shape'
    BY <1>1, <1>3, <1>6 DEF Shape, NoAttempts
  <2>3. \A u \in Tab \ {t} : Spared(u)
    BY <1>1, <1>6 DEF Spared, Concern, Shape
  <2>4. Spared(t) \/ attempts'[t] = NoAttempts
    BY <1>1, <1>6 DEF Spared, Concern, Shape
  <2> QED
    BY <1>1, <1>2, <1>6, <2>1, <2>2, <2>3, <2>4, QuietKeeps
<1>7. ASSUME o \notin admits, view' = [view EXCEPT ![t] = "denied"], UNCHANGED attempts,
             \/ excused' = excused \cup {t} /\ UNCHANGED tasks
             \/ tasks' = tasks (+) Bag1(Task("headers", t, o, "token")) /\ UNCHANGED excused
      PROVE  DeniedInv'
  <2>1. PICK k : k = Task("headers", t, o, "token")
    OBVIOUS
  <2>2. k \in Handler
    BY <1>5, <2>1, TaskIs DEF Kinds, Labels
  <2>3. /\ DOMAIN tasks \subseteq DOMAIN tasks' /\ Counts(tasks')
        /\ t \in excused' \/ k \in DOMAIN tasks'
    <3>1. CASE t \in excused' /\ UNCHANGED tasks
      BY <1>1, <3>1
    <3>2. CASE tasks' = tasks (+) Bag1(k)
      BY <1>1, <2>2, <3>2, AddHandler
    <3> QED
      BY <1>7, <2>1, <3>1, <3>2
  <2>4. Shape'
    BY <1>1, <1>3, <1>7 DEF Shape
  <2>5. \A u \in Tab : Spared(u)
    BY <1>7, <2>3 DEF Spared, Concern
  <2>6. ASSUME NEW u \in Tab
        PROVE  Spent(u)'
    BY <1>2, <2>5, SpentKept
  <2>7. ASSUME NEW u \in Tab, u # t
        PROVE  Watched(u)'
    <3>1. tabs'[u] = tabs[u] /\ view'[u] = view[u]
      BY <1>1, <1>3, <1>7, <2>7 DEF Shape
    <3> QED
      BY <2>5, <3>1, WatchedKept
  <2>8. ASSUME t \notin excused', Gate[o] = "honest"
        PROVE  Pending(t, o)'
    <3>1. Asking(t, o)'
      BY <2>1, <2>3, <2>8 DEF Asking
    <3>2. CASE Counted(t, o) = 0
      BY <1>7, <3>1, <3>2 DEF Pending, Counted
    <3>3. CASE Counted(t, o) # 0
      <4>1. attempts[t].origin = o /\ attempts[t].n > 0
        BY <1>1, <3>3 DEF Counted, Shape
      <4>2. t \notin excused
        BY <2>5, <2>8 DEF Spared
      <4>3. Knocking(t, o)
        BY <1>7, <2>8, <4>1, <4>2 DEF DeniedInv, Spent
      <4> QED
        BY <4>3, <2>5, PendingKept DEF Pending
    <3> QED
      BY <3>2, <3>3
  <2>9. Watched(t)'
    BY <1>3, <1>4, <2>8 DEF Watched
  <2> QED
    BY <2>3, <2>4, <2>6, <2>7, <2>9 DEF DeniedInv
<1>8. CASE o \notin Enrolled
  <2>1. view' = [view EXCEPT ![t] = "page"] /\ UNCHANGED <<tasks, attempts, excused>>
    BY <1>4, <1>8 DEF Headers
  <2> QED
    BY <1>6, <2>1
<1>9. CASE o \in Enrolled \cap admits
  <2>1. /\ view' = [view EXCEPT ![t] = "page"] /\ UNCHANGED tasks
        /\ attempts' = [attempts EXCEPT ![t] = NoAttempts] /\ excused' = excused \ {t}
    BY <1>4, <1>9 DEF Headers
  <2> QED
    BY <1>6, <2>1
<1>10. CASE o \in Enrolled \ admits
  <2>1. /\ view' = [view EXCEPT ![t] = "denied"] /\ UNCHANGED attempts
        /\ \/ excused' = excused \cup {t} /\ UNCHANGED tasks
           \/ tasks' = tasks (+) Bag1(Task("headers", t, o, "token")) /\ UNCHANGED excused
    BY <1>4, <1>10 DEF Headers
  <2> QED
    BY <1>7, <1>10, <2>1
<1> QED
  BY <1>8, <1>9, <1>10

\* onBeforeNavigate and the popup's knock go on: no handler that a tab
\* relies on is theirs.
LEMMA OtherHandlersKeep ==
    ASSUME DeniedInv, NEW k \in DOMAIN tasks, BeforeGrant(k) \/ PopupTab(k)
    PROVE  DeniedInv'
<1>1. Shape /\ Counts(tasks) /\ k.tab \in Tab
  BY DEF DeniedInv, Counts, Handler
<1>2. UNCHANGED <<tabs, view, attempts, admits, excused>> /\ k.pc \in {"grant", "tab"}
  BY DEF BeforeGrant, PopupTab, browser
<1>3. PICK o : o = tabs[k.tab].at
  OBVIOUS
<1>4. o \in Origin \cup {None}
  BY <1>1, <1>3 DEF Shape, Frame
<1>5. PICK y : y = Task("popup", k.tab, o, "knock")
  OBVIOUS
<1>6. y \in Handler
  BY <1>1, <1>4, <1>5, TaskIs DEF Kinds, Labels
<1>7. tasks' = tasks (-) Bag1(k) \/ tasks' = (tasks (-) Bag1(k)) (+) Bag1(y)
  BY <1>3, <1>5 DEF BeforeGrant, PopupTab, Finish
<1>8. DOMAIN tasks \ {k} \subseteq DOMAIN tasks' /\ Counts(tasks')
  BY <1>1, <1>6, <1>7, RemoveHandler, ReplaceHandler
<1>9. \A u \in Tab : Spared(u)
  BY <1>2, <1>8 DEF Spared, Concern
<1>10. Shape'
  BY <1>1, <1>2 DEF Shape
<1>11. ASSUME NEW u \in Tab
       PROVE  Spent(u)' /\ Watched(u)'
  <2>1. Watched(u) /\ Spared(u)
    BY <1>9 DEF DeniedInv
  <2>2. PICK a : a = tabs[u].at
    OBVIOUS
  <2>3. Watched(u)'
    BY <1>2, <2>1, <2>2, PendingKept DEF Watched
  <2> QED
    BY <1>2, <2>1, <2>3, SpentKept
<1> QED
  BY <1>8, <1>10, <1>11 DEF DeniedInv

\* onHeaders after tokenForOrigin: it gives up only where an earlier handler
\* has knocked for the same tab and origin.
LEMMA TokenKeeps ==
    ASSUME DeniedInv, NEW k \in DOMAIN tasks, HeadersToken(k)
    PROVE  DeniedInv'
<1>1. Shape /\ Counts(tasks) /\ k \in Handler
  BY DEF DeniedInv, Counts
<1>2. PICK t, o : t = k.tab /\ o = k.origin
  OBVIOUS
<1>3. t \in Tab /\ o \in Origin \cup {None} /\ k.pc = "token" /\ k.kind = "headers"
  BY <1>1, <1>2 DEF Handler, HeadersToken
<1>4. k = Task("headers", t, o, "token")
  BY <1>1, <1>2, <1>3, HandlerIs
<1>5. UNCHANGED <<tabs, view, admits, excused>>
  BY DEF HeadersToken, browser
<1>6. PICK y : y = Task("headers", t, o, "knock")
  OBVIOUS
<1>7. y \in Handler /\ y.tab = t /\ y.pc = "knock" /\ y.origin = o /\ y = [k EXCEPT !.pc = "knock"]
  BY <1>1, <1>2, <1>3, <1>6, TaskIs, HandlerIs DEF Kinds, Labels, Task
<1>8. ASSUME NEW p \in Tab, NEW a, Watched(p), Pending(p, a) => Pending(p, a)', a = tabs[p].at
      PROVE  Watched(p)'
  BY <1>5, <1>8 DEF Watched
<1>9. CASE Counted(t, o) >= MAX_ATTEMPTS /\ tasks' = tasks (-) Bag1(k) /\ UNCHANGED attempts
  <2>1. DOMAIN tasks \ {k} \subseteq DOMAIN tasks' /\ Counts(tasks')
    BY <1>1, <1>9, RemoveHandler
  <2>2. Counted(t, o) # 0
    BY <1>1, <1>3, <1>9, ExtensionAssumption DEF Counted, Shape
  <2>3. Shape'
    BY <1>1, <1>5, <1>9 DEF Shape
  <2>4. ASSUME NEW u \in Tab
        PROVE  Spent(u)' /\ Watched(u)'
    <3>1. Spent(u) /\ Watched(u)
      BY DEF DeniedInv
    <3>2. \A a : Knocking(u, a) => Knocking(u, a)'
      BY <1>3, <2>1 DEF Knocking
    <3>3. Reloading(u) => Reloading(u)'
      BY <1>3, <2>1 DEF Reloading
    <3>4. PICK a : a = tabs[u].at
      OBVIOUS
    <3>5. Asking(u, a) /\ Counted(u, a) = 0 => Asking(u, a)'
      <4>1. CASE u = t /\ a = o
        BY <2>2, <4>1
      <4>2. CASE ~(u = t /\ a = o)
        BY <1>4, <2>1, <4>2 DEF Asking, Task
      <4> QED
        BY <4>1, <4>2
    <3>6. Counted(u, a)' = Counted(u, a)
      BY <1>9 DEF Counted
    <3>7. Pending(u, a) => Pending(u, a)'
      BY <3>2, <3>3, <3>5, <3>6 DEF Pending
    <3>8. Spent(u)'
      BY <1>5, <1>9, <3>1, <3>2 DEF Spent
    <3> QED
      BY <1>8, <3>1, <3>4, <3>7, <3>8
  <2> QED
    BY <2>1, <2>3, <2>4 DEF DeniedInv
<1>10. CASE /\ attempts' = [attempts EXCEPT ![t] = [origin |-> o, n |-> Counted(t, o) + 1]]
            /\ tasks' = (tasks (-) Bag1(k)) (+) Bag1(y)
  <2>1. (DOMAIN tasks \ {k}) \cup {y} \subseteq DOMAIN tasks' /\ Counts(tasks')
    BY <1>1, <1>7, <1>10, ReplaceHandler
  <2>2. Counted(t, o) \in Nat
    BY <1>1, <1>3 DEF Counted, Shape
  <2>3. /\ attempts' \in [Tab -> [origin : Origin \cup {None}, n : Nat]]
        /\ attempts'[t].origin = o /\ \A u \in Tab \ {t} : attempts'[u] = attempts[u]
    BY <1>1, <1>3, <1>10, <2>2 DEF Shape
  <2>4. Shape'
    BY <1>1, <1>5, <2>3 DEF Shape
  <2>5. Knocking(t, o)'
    BY <1>7, <2>1 DEF Knocking
  <2>6. ASSUME NEW u \in Tab
        PROVE  Spent(u)' /\ Watched(u)'
    <3>1. Spent(u) /\ Watched(u)
      BY DEF DeniedInv
    <3>2. \A a : Knocking(u, a) => Knocking(u, a)'
      BY <1>3, <2>1 DEF Knocking
    <3>3. Reloading(u) => Reloading(u)'
      BY <1>3, <2>1 DEF Reloading
    <3>4. PICK a : a = tabs[u].at
      OBVIOUS
    <3>5. ASSUME ~(u = t /\ a = o)
          PROVE  Asking(u, a) /\ Counted(u, a) = 0 => Asking(u, a)' /\ Counted(u, a)' = 0
      <4>1. Asking(u, a) => Asking(u, a)'
        BY <1>4, <2>1, <3>5 DEF Asking, Task
      <4>2. Counted(u, a) = 0 => Counted(u, a)' = 0
        BY <2>3, <3>5 DEF Counted
      <4> QED
        BY <4>1, <4>2
    <3>6. Pending(u, a) => Pending(u, a)'
      BY <2>5, <3>2, <3>3, <3>5 DEF Pending
    <3>7. Spent(u)'
      BY <1>5, <2>3, <2>5, <3>1, <3>2 DEF Spent
    <3> QED
      BY <1>8, <3>1, <3>4, <3>6, <3>7
  <2> QED
    BY <2>1, <2>4, <2>6 DEF DeniedInv
<1> QED
  BY <1>2, <1>7, <1>9, <1>10 DEF HeadersToken, Finish, Move

\* A handshake fails, whether or not the gate had opened for it: who waited
\* for it has an excuse.
LEMMA RefuseKeeps ==
    ASSUME DeniedInv, NEW h, Refuse(h), UNCHANGED <<tabs, view, attempts>>,
           admits \subseteq admits'
    PROVE  DeniedInv'
<1>1. Shape /\ Counts(tasks)
  BY DEF DeniedInv
<1>2. tasks' = Others(h) /\ excused' = excused \cup { k.tab : k \in Waiting(h) }
  BY DEF Refuse
<1>3. DOMAIN tasks' = DOMAIN tasks \ Waiting(h) /\ \A k \in DOMAIN tasks' : tasks'[k] = tasks[k]
  BY <1>2 DEF Others, BagToSet
<1>4. Counts(tasks')
  BY <1>1, <1>3 DEF Counts
<1>5. Shape'
  BY <1>1 DEF Shape
<1>6. ASSUME NEW u \in Tab, u \notin excused'
      PROVE  Spent(u)' /\ Watched(u)'
  <2>1. \A k \in Waiting(h) : k.tab # u
    BY <1>2, <1>6
  <2>2. Spared(u)
    BY <1>2, <1>3, <2>1 DEF Spared, Concern
  <2>3. Spent(u)'
    BY <2>2, SpentKept
  <2>4. PICK a : a = tabs[u].at
    OBVIOUS
  <2>5. Watched(u)'
    BY <1>2, <2>2, <2>4, PendingKept DEF DeniedInv, Watched
  <2> QED
    BY <2>3, <2>5
<1>7. ASSUME NEW u \in Tab, u \in excused'
      PROVE  Spent(u)' /\ Watched(u)'
  BY <1>7 DEF Spent, Watched
<1> QED
  BY <1>4, <1>5, <1>6, <1>7 DEF DeniedInv

\* A handshake succeeds: who waited for it is about to reload.
LEMMA SucceedKeeps ==
    ASSUME DeniedInv, NEW h, Succeed(h), UNCHANGED <<tabs, view, attempts, admits>>
    PROVE  DeniedInv'
<1>1. Shape /\ Counts(tasks)
  BY DEF DeniedInv
<1> DEFINE Woken == { [w EXCEPT !.pc = "reload"] : w \in Waiting(h) }
           W == [ k \in Woken |-> tasks[[k EXCEPT !.pc = "knock"]] ]
<1>2. tasks' = Others(h) (+) W
  BY DEF Succeed
<1>3. Waiting(h) \subseteq DOMAIN tasks /\ \A w \in Waiting(h) : w \in Handler /\ w.pc = "knock"
  BY <1>1 DEF Waiting, BagToSet, Counts
<1>4. \A w \in Waiting(h) : /\ [w EXCEPT !.pc = "reload"] \in Handler
                            /\ [w EXCEPT !.pc = "reload"].tab = w.tab
                            /\ [w EXCEPT !.pc = "reload"].pc = "reload"
                            /\ [[w EXCEPT !.pc = "reload"] EXCEPT !.pc = "knock"] = w
  BY <1>3 DEF Handler, Labels
<1>5. Woken \subseteq Handler /\ DOMAIN W = Woken
  <2>1. DOMAIN W = Woken
    OBVIOUS
  <2>2. \A k \in Woken : \E w \in Waiting(h) : k = [w EXCEPT !.pc = "reload"]
    OBVIOUS
  <2> HIDE DEF W, Woken
  <2>3. Woken \subseteq Handler
    BY <1>4, <2>2
  <2> QED
    BY <2>1, <2>3
<1>6. \A k \in Woken : W[k] \in Nat \ {0}
  <2> SUFFICES ASSUME NEW w \in Waiting(h), NEW k, k = [w EXCEPT !.pc = "reload"], k \in Woken
               PROVE  W[k] \in Nat \ {0}
    OBVIOUS
  <2>1. [k EXCEPT !.pc = "knock"] = w
    BY <1>4
  <2>2. W[k] = tasks[w]
    BY <2>1
  <2> QED
    BY <1>1, <1>3, <2>2 DEF Counts
<1>7. DOMAIN Others(h) = DOMAIN tasks \ Waiting(h) /\ \A k \in DOMAIN Others(h) : Others(h)[k] = tasks[k]
  BY DEF Others, BagToSet
<1> HIDE DEF W
<1>8. DOMAIN tasks' = (DOMAIN tasks \ Waiting(h)) \cup Woken
  BY <1>2, <1>5, <1>7 DEF (+)
<1>9. ASSUME NEW k \in DOMAIN tasks'
      PROVE  tasks'[k] \in Nat \ {0}
  <2>1. \A x \in DOMAIN Others(h) : Others(h)[x] \in Nat \ {0}
    BY <1>1, <1>7 DEF Counts
  <2> HIDE DEF Woken
  <2>2. tasks'[k] = (IF k \in DOMAIN Others(h) THEN Others(h)[k] ELSE 0)
                      + (IF k \in DOMAIN W THEN W[k] ELSE 0)
    BY <1>2, <1>5, <1>7, <1>8, <1>9 DEF (+)
  <2>3. k \in DOMAIN Others(h) \/ k \in DOMAIN W
    BY <1>5, <1>7, <1>8, <1>9
  <2> QED
    BY <1>5, <1>6, <2>1, <2>2, <2>3
<1>10. Counts(tasks')
  BY <1>1, <1>5, <1>8, <1>9 DEF Counts
<1>11. Shape'
  BY <1>1 DEF Shape
<1>12. ASSUME NEW w \in Waiting(h)
       PROVE  Reloading(w.tab)'
  <2>1. PICK k : k = [w EXCEPT !.pc = "reload"]
    OBVIOUS
  <2>2. k \in Woken
    BY <2>1
  <2>3. k.tab = w.tab /\ k.pc = "reload"
    BY <1>4, <2>1
  <2> HIDE DEF Woken
  <2> QED
    BY <1>8, <2>2, <2>3 DEF Reloading
<1>13. excused' = IF Lost(h) THEN excused \cup { k.tab : k \in Waiting(h) } ELSE excused
  BY DEF Succeed
<1>14. ASSUME NEW u \in Tab, u \notin excused'
       PROVE  Spent(u)' /\ Watched(u)'
  <2>1. u \notin excused /\ Spent(u) /\ Watched(u)
    BY <1>13, <1>14 DEF DeniedInv
  <2>2. CASE \E w \in Waiting(h) : w.tab = u
    <3>1. Reloading(u)'
      BY <1>12, <2>2
    <3>2. Watched(u)'
      BY <3>1 DEF Watched, Pending
    <3>3. Gate[h.origin] = "honest" => h.origin \in admits
      BY <1>13, <1>14, <2>2 DEF Lost
    <3>4. ASSUME NEW a, Knocking(u, a)
          PROVE  a = h.origin \/ Knocking(u, a)'
      BY <1>8, <3>4 DEF Knocking, Waiting
    <3>5. Spent(u)'
      BY <2>1, <3>3, <3>4 DEF Spent
    <3> QED
      BY <3>2, <3>5
  <2>3. CASE \A w \in Waiting(h) : w.tab # u
    <3>1. Spared(u)
      BY <1>8, <2>1, <2>3 DEF Spared, Concern
    <3>2. PICK a : a = tabs[u].at
      OBVIOUS
    <3>3. Watched(u)'
      BY <2>1, <3>1, <3>2, PendingKept DEF Watched
    <3> QED
      BY <3>1, <3>3, SpentKept
  <2> QED
    BY <2>2, <2>3
<1>15. ASSUME NEW u \in Tab, u \in excused'
       PROVE  Spent(u)' /\ Watched(u)'
  BY <1>15 DEF Spent, Watched
<1> QED
  BY <1>10, <1>11, <1>14, <1>15 DEF DeniedInv

\* The gate admits one more origin.
LEMMA AdmitKeeps ==
    ASSUME DeniedInv, UNCHANGED <<tabs, view, attempts, tasks, excused>>, admits \subseteq admits'
    PROVE  DeniedInv'
<1>1. Shape' /\ Counts(tasks')
  BY DEF DeniedInv, Shape
<1>2. ASSUME NEW u \in Tab
      PROVE  Spent(u)' /\ Watched(u)'
  <2>1. Spared(u)
    BY DEF Spared, Concern
  <2>2. PICK a : a = tabs[u].at
    OBVIOUS
  <2>3. Watched(u)'
    BY <2>1, <2>2, PendingKept DEF DeniedInv, Watched
  <2> QED
    BY <2>1, <2>3, SpentKept
<1> QED
  BY <1>1, <1>2 DEF DeniedInv

\* Faults excuse the tabs that are in the middle of something.
LEMMA FaultKeeps ==
    ASSUME DeniedInv, WorkerStop \/ \E o \in Origin : GateForgets(o)
    PROVE  DeniedInv'
<1>1. Shape /\ Counts(tasks)
  BY DEF DeniedInv
<1>2. ASSUME Tab \subseteq excused'
      PROVE  \A u \in Tab : Spent(u)' /\ Watched(u)'
  BY <1>2 DEF Spent, Watched
<1>3. CASE WorkerStop
  <2>1. DOMAIN tasks' = {}
    BY <1>3 DEF WorkerStop, EmptyBag, SetToBag
  <2>2. Shape'
    BY <1>1, <1>3 DEF Shape, WorkerStop, browser, NoAttempts
  <2> QED
    BY <1>2, <1>3, <2>1, <2>2 DEF DeniedInv, Counts, WorkerStop
<1>4. CASE \E o \in Origin : GateForgets(o)
  <2>1. /\ UNCHANGED <<tabs, view, tasks, attempts>>
        /\ \/ excused' = Tab
           \/ UNCHANGED excused /\ \A u \in Tab : ~(attempts[u].n > 0)
    BY <1>4 DEF GateForgets, browser, worker
  <2>2. Shape' /\ Counts(tasks')
    BY <1>1, <2>1 DEF Shape
  <2>3. ASSUME NEW u \in Tab, UNCHANGED excused, \A p \in Tab : ~(attempts[p].n > 0)
        PROVE  Spent(u)' /\ Watched(u)'
    <3>1. Spent(u)'
      BY <2>1, <2>3 DEF Spent
    <3>2. PICK a : a = tabs[u].at
      OBVIOUS
    <3>3. Pending(u, a)' <=> Pending(u, a)
      BY <2>1 DEF Pending, Knocking, Reloading, Asking, Counted
    <3> QED
      BY <2>1, <2>3, <3>1, <3>2, <3>3 DEF DeniedInv, Watched
  <2> QED
    BY <1>2, <2>1, <2>2, <2>3 DEF DeniedInv
<1> QED
  BY <1>3, <1>4

\* Every step of browser, worker, user and gates leaves no tab alone.
LEMMA DeniedStep ==
    ASSUME DeniedInv, [Next]_vars
    PROVE  DeniedInv'
<1>1. ASSUME NEW t \in Tab, Headers(t) \/ Commit(t) \/ Fail(t) \/ Close(t) \/ Popup(t)
      PROVE  DeniedInv'
  BY <1>1, HeadersKeeps, TabKeeps
<1>2. ASSUME NEW h \in BagToSet(knocks), KnockRespond(h)
      PROVE  DeniedInv'
  <2>1. UNCHANGED <<tabs, view, attempts>>
    BY <1>2 DEF KnockRespond, browser
  <2>2. CASE admits \subseteq admits' /\ UNCHANGED <<tasks, excused>>
    BY <2>1, <2>2, AdmitKeeps
  <2>3. CASE Refuse(h) /\ admits \subseteq admits'
    BY <2>1, <2>3, RefuseKeeps
  <2> QED
    BY <1>2, <2>2, <2>3 DEF KnockRespond, Opened
<1>3. ASSUME NEW h \in BagToSet(knocks), SetGrant(h)
      PROVE  DeniedInv'
  BY <1>3, SucceedKeeps, RefuseKeeps DEF SetGrant, browser
<1>4. ASSUME NEW k \in BagToSet(tasks),
             BeforeGrant(k) \/ HeadersToken(k) \/ PopupTab(k) \/ Reload(k)
      PROVE  DeniedInv'
  BY <1>4, OtherHandlersKeep, TokenKeeps, ReloadKeeps DEF BagToSet
<1>5. ASSUME NEW t \in Tab, NEW o \in Origin,
             (\E user \in BOOLEAN : Navigate(t, o, user)) \/ WindowOpen(t, o)
      PROVE  DeniedInv'
  BY <1>5, NavigateKeeps
<1>6. CASE UNCHANGED vars
  BY <1>6, AdmitKeeps DEF vars, worker, browser
<1> QED
  BY <1>1, <1>2, <1>3, <1>4, <1>5, <1>6, FaultKeeps DEF Next, Work

\* Nobody is left outside a gate that would open: a tab at rest shows the
\* interstitial of an honest gate only with an excuse, for any number of
\* tabs, origins, acts, stops of the worker and grants that a gate forgets,
\* and any budget of at least one attempt.
THEOREM NobodyLeftOutside == FairSpec => []DeniedOnlyExcused
<1>1. Init => DeniedInv
  <2> SUFFICES ASSUME Init
               PROVE  DeniedInv
    OBVIOUS
  <2>1. Shape
    <3>1. \A t \in Tab : tabs[t] \in Frame
      BY DEF Init, Frame
    <3> QED
      BY <3>1 DEF Init, Shape, NoAttempts
  <2>2. DOMAIN tasks = {}
    BY DEF Init, EmptyBag, SetToBag
  <2>3. \A t \in Tab : view[t] # "denied" /\ attempts[t].n = 0
    BY DEF Init, NoAttempts
  <2> QED
    BY <2>1, <2>2, <2>3 DEF DeniedInv, Counts, Spent, Watched
<1>2. DeniedInv /\ [Next]_vars => DeniedInv'
  BY DeniedStep
<1>3. DeniedInv => DeniedOnlyExcused
  <2> SUFFICES ASSUME DeniedInv, Quiet, NEW t \in Tab, view[t] = "denied",
                      Gate[tabs[t].at] = "honest", t \notin excused
               PROVE  FALSE
    BY DEF DeniedOnlyExcused
  <2>1. DOMAIN tasks = {} /\ tabs[t].nav # "started"
    BY DEF Quiet, EmptyBag, SetToBag
  <2>2. Pending(t, tabs[t].at)
    BY <2>1 DEF DeniedInv, Watched
  <2> QED
    BY <2>1, <2>2 DEF Pending, Knocking, Reloading, Asking
<1> QED
  BY <1>1, <1>2, <1>3, PTL DEF FairSpec
=============================================================================
