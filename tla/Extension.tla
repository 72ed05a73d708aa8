------------------------------ MODULE Extension ------------------------------
(***************************************************************************)
(* The service worker of the browser extension (extension/src/sw.js and    *)
(* the grant cache of store.js) between the browser's tabs and the gates.  *)
(*                                                                         *)
(* The worker runs one event handler at a time, up to its next await.  A   *)
(* handler that awaits is a task in a bag.  The browser may stop the       *)
(* worker at any time: its Maps and its tasks are gone, the cache in       *)
(* storage.session stays.  Time is abstracted: a cached grant, or a mark   *)
(* in pageOpened, may have run out whenever it is looked at.               *)
(*                                                                         *)
(* Enrollment is not modelled: Enrolled are the origins with a token, a    *)
(* key and the host permission that onHeaders listens under.  They do not  *)
(* change, so tokenForOrigin and getKey are no steps of their own except   *)
(* where a handler looks at the worker's Maps after them.                  *)
(***************************************************************************)
EXTENDS Naturals, FiniteSets, Bags

CONSTANTS
    Tab, Origin, Enrolled,
    Gate,             \* origin -> "honest", or "lossy": 204 and no admission
    MAX_ATTEMPTS,
    MaxActs,          \* bound on what the user and the pages do
    MaxFaults         \* bound on stops of the worker and grants that a gate loses

ASSUME ExtensionAssumption ==
    /\ Enrolled \subseteq Origin
    /\ MAX_ATTEMPTS \in Nat \ {0}
    /\ Gate \in [Origin -> {"honest", "lossy"}]

VARIABLES
    tabs,         \* tab -> [open, at, nav, user]: its main frame
    view,         \* tab -> what it shows: "blank", "page" or "denied"
    inflight,     \* the keys of inflight
    knocks,       \* bag of running handshakes [origin, pc, seen]
    tasks,        \* bag of handlers at an await [kind, tab, origin, pc]
    attempts,     \* tab -> [origin, n]
    pageOpened,   \* the tabs that another page opened
    grants,       \* storage.session: the origins with a cached grant
    admits,       \* the origins that admit this browser
    acts, faults

\* History: the tabs that may stay at an interstitial, for a knock failed, a
\* page opened them, the worker was stopped or the gate lost their grant.
VARIABLE excused

worker == <<inflight, knocks, tasks, attempts, pageOpened>>
browser == <<tabs, view>>
vars == <<browser, worker, grants, admits, acts, faults, excused>>

-----------------------------------------------------------------------------
(* The worker's Maps *)

None == "none"
\* No entry behaves like an entry with another origin.
NoAttempts == [origin |-> None, n |-> 0]

Task(kind, t, o, pc) == [kind |-> kind, tab |-> t, origin |-> o, pc |-> pc]
Bag1(x) == SetToBag({x})
Move(k, pc) == tasks' = (tasks (-) Bag1(k)) (+) Bag1([k EXCEPT !.pc = pc])
Finish(k) == tasks' = tasks (-) Bag1(k)

\* openedByPage: the entry may have run out.
Suppressed(t, expired) == t \in pageOpened /\ ~expired

-----------------------------------------------------------------------------
(* Navigation *)

\* onBeforeNavigate up to getGrant; opened is the value of pageOpened
\* when it is called.  A navigation under way is aborted first, which
\* onErrorOccurred reports.
Begin(t, o, user, opened, base) ==
    /\ tabs' = [tabs EXCEPT ![t] = [open |-> TRUE, at |-> o, nav |-> "started", user |-> user]]
    /\ \E expired \in BOOLEAN :
         LET left == IF expired THEN opened \ {t} ELSE opened
         IN  /\ pageOpened' = left
             /\ tasks' = IF t \in left \/ o \notin Enrolled THEN base
                         ELSE base (+) Bag1(Task("before", t, o, "grant"))

AfterAbort(t) == IF tabs[t].nav # "none" THEN pageOpened \ {t} ELSE pageOpened

\* The user, or a script of the page, takes an open tab elsewhere.
Navigate(t, o, user) ==
    /\ tabs[t].open /\ acts < MaxActs
    /\ acts' = acts + 1
    /\ Begin(t, o, user, AfterAbort(t), tasks)
    /\ UNCHANGED <<view, inflight, knocks, attempts, grants, admits, faults, excused>>

\* A page opens another tab: onCreatedNavigationTarget, then onBeforeNavigate.
WindowOpen(t, o) ==
    /\ ~tabs[t].open /\ acts < MaxActs
    /\ acts' = acts + 1
    /\ Begin(t, o, FALSE, pageOpened \cup {t}, tasks)
    /\ UNCHANGED <<view, inflight, knocks, attempts, grants, admits, faults, excused>>

\* onHeaders.  It listens at the enrolled origins only.
Headers(t) ==
    /\ tabs[t].open /\ tabs[t].nav = "started"
    /\ tabs' = [tabs EXCEPT ![t].nav = "headers"]
    /\ LET o == tabs[t].at
       IN  \/ /\ o \notin Enrolled
              /\ view' = [view EXCEPT ![t] = "page"]
              /\ UNCHANGED <<attempts, tasks, pageOpened, excused>>
           \/ /\ o \in Enrolled \cap admits
              /\ view' = [view EXCEPT ![t] = "page"]
              /\ attempts' = [attempts EXCEPT ![t] = NoAttempts]
              /\ excused' = excused \ {t}
              /\ UNCHANGED <<tasks, pageOpened>>
           \/ /\ o \in Enrolled \ admits
              /\ view' = [view EXCEPT ![t] = "denied"]
              /\ \/ /\ Suppressed(t, FALSE)
                    /\ excused' = excused \cup {t}
                    /\ UNCHANGED <<tasks, pageOpened>>
                 \/ \E expired \in BOOLEAN :
                      /\ ~Suppressed(t, expired)
                      /\ pageOpened' = IF expired THEN pageOpened \ {t} ELSE pageOpened
                      /\ tasks' = tasks (+) Bag1(Task("headers", t, o, "token"))
                      /\ UNCHANGED excused
              /\ UNCHANGED attempts
    /\ UNCHANGED <<inflight, knocks, grants, admits, acts, faults>>

\* onCommitted: a navigation that the user drove releases the tab.
Commit(t) ==
    /\ tabs[t].open /\ tabs[t].nav = "headers"
    /\ tabs' = [tabs EXCEPT ![t].nav = "none", ![t].user = FALSE]
    /\ pageOpened' = IF tabs[t].user THEN pageOpened \ {t} ELSE pageOpened
    /\ UNCHANGED <<view, inflight, knocks, tasks, attempts, grants, admits, acts, faults, excused>>

\* onErrorOccurred: the load fails.
Fail(t) ==
    /\ tabs[t].open /\ tabs[t].nav = "started"
    /\ tabs' = [tabs EXCEPT ![t].nav = "none", ![t].user = FALSE]
    /\ view' = [view EXCEPT ![t] = "blank"]
    /\ pageOpened' = pageOpened \ {t}
    /\ UNCHANGED <<inflight, knocks, tasks, attempts, grants, admits, acts, faults, excused>>

\* tabs.onRemoved
Close(t) ==
    /\ tabs[t].open /\ acts < MaxActs
    /\ acts' = acts + 1
    /\ tabs' = [tabs EXCEPT ![t] = [open |-> FALSE, at |-> None, nav |-> "none", user |-> FALSE]]
    /\ view' = [view EXCEPT ![t] = "blank"]
    /\ attempts' = [attempts EXCEPT ![t] = NoAttempts]
    /\ pageOpened' = pageOpened \ {t}
    /\ excused' = excused \ {t}
    /\ UNCHANGED <<inflight, knocks, tasks, grants, admits, faults>>

\* The popup's button: the worker awaits tabs.get.
Popup(t) ==
    /\ tabs[t].open /\ acts < MaxActs
    /\ acts' = acts + 1
    /\ tasks' = tasks (+) Bag1(Task("popup", t, None, "tab"))
    /\ UNCHANGED <<browser, inflight, knocks, attempts, pageOpened, grants, admits, faults, excused>>

-----------------------------------------------------------------------------
(* knock *)

NewKnock(o) == Bag1([origin |-> o, pc |-> "challenge", seen |-> {}])

\* Starts a handshake whether or not one is running.
knock_Always(o) ==
    /\ inflight' = inflight \cup {o}
    /\ knocks' = knocks (+) NewKnock(o)

\* knock(origin) of an enrolled origin, up to the challenge: joins the handshake in flight, or
\* starts one.  No await lies between the look-up and the entry.
knock(o) ==
    \/ /\ o \in inflight
       /\ UNCHANGED <<inflight, knocks>>
    \/ /\ o \notin inflight
       /\ inflight' = inflight \cup {o}
       /\ knocks' = knocks (+) NewKnock(o)

Waiting(h) == { k \in BagToSet(tasks) : k.pc = "knock" /\ k.origin = h.origin }
Others(h) == [ k \in BagToSet(tasks) \ Waiting(h) |-> tasks[k] ]

\* The promise settles: finally() removes the entry ...
Settle(h) == knocks' = knocks (-) Bag1(h) /\ inflight' = inflight \ {h.origin}

\* The gate has forgotten the grant it gave to the handshake.
Lost(h) == Gate[h.origin] = "honest" /\ h.origin \notin admits

\* ... and the handlers that await it go on to reload their tabs,
Succeed(h) ==
    /\ Settle(h)
    /\ tasks' = Others(h) (+) [ k \in { [w EXCEPT !.pc = "reload"] : w \in Waiting(h) } |->
                                tasks[[k EXCEPT !.pc = "knock"]] ]
    /\ excused' = IF Lost(h) THEN excused \cup { k.tab : k \in Waiting(h) } ELSE excused

\* or end.
Refuse(h) ==
    /\ Settle(h)
    /\ tasks' = Others(h)
    /\ excused' = excused \cup { k.tab : k \in Waiting(h) }

\* The origins that admit this browser once the gate has honoured /respond.
Opened(h) == IF Gate[h.origin] = "honest" THEN admits \cup {h.origin} ELSE admits

\* The challenge, the proof and the request to /respond, any of which may
\* fail, the last one also after the gate has honoured it; after a 204,
\* setGrant reads the map of cached grants ...
KnockRespond(h) ==
    /\ h.pc = "challenge"
    /\ \/ /\ admits' = Opened(h)
          /\ knocks' = (knocks (-) Bag1(h)) (+) Bag1([h EXCEPT !.pc = "set", !.seen = grants])
          /\ UNCHANGED <<inflight, tasks, excused>>
       \/ /\ Refuse(h)
          /\ admits' \in {admits, Opened(h)}
    /\ UNCHANGED <<browser, attempts, pageOpened, grants, acts, faults>>

\* ... and writes it back with the new one, or the storage fails it.
SetGrant(h) ==
    /\ h.pc = "set"
    /\ \/ grants' = h.seen \cup {h.origin} /\ Succeed(h)
       \/ Refuse(h) /\ UNCHANGED grants
    /\ UNCHANGED <<browser, attempts, pageOpened, admits, acts, faults>>

-----------------------------------------------------------------------------
(* Handlers after their awaits *)

\* onBeforeNavigate after getGrant: a knock that nobody awaits, unless the
\* cached grant is there and has not run out.
BeforeGrant(k) ==
    /\ k.kind = "before" /\ k.pc = "grant"
    /\ Finish(k)
    /\ \/ k.origin \in grants /\ UNCHANGED <<inflight, knocks>>
       \/ knock(k.origin)
    /\ UNCHANGED <<browser, attempts, pageOpened, grants, admits, acts, faults, excused>>

\* Starts the count afresh with every knock, as if each were a success.
Counted_Cleared(t, o) == 0

\* rec.n for this tab and this origin.
Counted(t, o) == IF attempts[t].origin = o THEN attempts[t].n ELSE 0

\* Trusts the cached grant, as the proactive path does.
HeadersToken_Cached(k) ==
    /\ k.kind = "headers" /\ k.pc = "token"
    /\ \/ /\ Counted(k.tab, k.origin) >= MAX_ATTEMPTS \/ k.origin \in grants
          /\ Finish(k)
          /\ UNCHANGED <<inflight, knocks, attempts>>
       \/ /\ Counted(k.tab, k.origin) < MAX_ATTEMPTS /\ k.origin \notin grants
          /\ attempts' = [attempts EXCEPT ![k.tab] =
                            [origin |-> k.origin, n |-> Counted(k.tab, k.origin) + 1]]
          /\ knock(k.origin)
          /\ Move(k, "knock")
    /\ UNCHANGED <<browser, pageOpened, grants, admits, acts, faults, excused>>

\* onHeaders after tokenForOrigin: the budget of the tab, then a knock.
HeadersToken(k) ==
    /\ k.kind = "headers" /\ k.pc = "token"
    /\ \/ /\ Counted(k.tab, k.origin) >= MAX_ATTEMPTS
          /\ Finish(k)
          /\ UNCHANGED <<inflight, knocks, attempts>>
       \/ /\ Counted(k.tab, k.origin) < MAX_ATTEMPTS
          /\ attempts' = [attempts EXCEPT ![k.tab] =
                            [origin |-> k.origin, n |-> Counted(k.tab, k.origin) + 1]]
          /\ knock(k.origin)
          /\ Move(k, "knock")
    /\ UNCHANGED <<browser, pageOpened, grants, admits, acts, faults, excused>>

\* The popup's knock is for the origin that the tab has by now; it fails if
\* that is not enrolled or the tab is closed.
PopupTab(k) ==
    /\ k.kind = "popup" /\ k.pc = "tab"
    /\ \/ /\ tabs[k.tab].at \in Enrolled
          /\ tasks' = (tasks (-) Bag1(k)) (+) Bag1(Task("popup", k.tab, tabs[k.tab].at, "knock"))
          /\ knock(tabs[k.tab].at)
       \/ /\ tabs[k.tab].at \notin Enrolled
          /\ Finish(k)
          /\ UNCHANGED <<inflight, knocks>>
    /\ UNCHANGED <<browser, attempts, pageOpened, grants, admits, acts, faults, excused>>

\* chrome.tabs.reload: whatever the tab is at by now, with the transition
\* "reload", which counts as the user's.
Reload(k) ==
    /\ k.pc = "reload"
    /\ \/ /\ tabs[k.tab].open
          /\ Begin(k.tab, tabs[k.tab].at, TRUE, AfterAbort(k.tab), tasks (-) Bag1(k))
       \/ /\ ~tabs[k.tab].open
          /\ Finish(k)
          /\ UNCHANGED <<tabs, pageOpened>>
    /\ UNCHANGED <<view, inflight, knocks, attempts, grants, admits, acts, faults, excused>>

-----------------------------------------------------------------------------
(* Faults *)

\* The worker is stopped; the next event starts it with empty Maps.
WorkerStop ==
    /\ faults < MaxFaults
    /\ faults' = faults + 1
    /\ inflight' = {} /\ knocks' = EmptyBag /\ tasks' = EmptyBag
    /\ attempts' = [t \in Tab |-> NoAttempts] /\ pageOpened' = {}
    /\ excused' = Tab
    /\ UNCHANGED <<browser, grants, admits, acts>>

\* A grant runs out at the gate, or the gate restarts.  Tabs that recover at
\* that time may use up their attempts for it.
GateForgets(o) ==
    /\ faults < MaxFaults /\ o \in admits
    /\ faults' = faults + 1
    /\ admits' = admits \ {o}
    /\ excused' = IF knocks # EmptyBag \/ tasks # EmptyBag \/ \E t \in Tab : attempts[t].n > 0
                  THEN Tab ELSE excused
    /\ UNCHANGED <<browser, worker, grants, acts>>

-----------------------------------------------------------------------------

Init ==
    /\ tabs = [ t \in Tab |-> [ open |-> t = CHOOSE x \in Tab : TRUE, at |-> None,
                                nav |-> "none", user |-> FALSE ] ]
    /\ view = [t \in Tab |-> "blank"]
    /\ inflight = {} /\ knocks = EmptyBag /\ tasks = EmptyBag
    /\ attempts = [t \in Tab |-> NoAttempts] /\ pageOpened = {}
    /\ grants = {} /\ admits = {}
    /\ acts = 0 /\ faults = 0 /\ excused = {}

\* What the worker and the browser do by themselves.
Work ==
    \/ \E t \in Tab : Headers(t) \/ Commit(t)
    \/ \E h \in BagToSet(knocks) : KnockRespond(h) \/ SetGrant(h)
    \/ \E k \in BagToSet(tasks) :
         BeforeGrant(k) \/ HeadersToken(k) \/ PopupTab(k) \/ Reload(k)

Next ==
    \/ Work
    \/ \E t \in Tab, o \in Origin : (\E user \in BOOLEAN : Navigate(t, o, user)) \/ WindowOpen(t, o)
    \/ \E t \in Tab : Fail(t) \/ Close(t) \/ Popup(t)
    \/ WorkerStop
    \/ \E o \in Origin : GateForgets(o)

\* The browser loads what it began to load and the event loop runs what is
\* ready.
FairSpec == Init /\ [][Next]_vars /\ WF_vars(Work)

-----------------------------------------------------------------------------
(* Properties *)

\* "Single-flight (no knock storms)" (sw.js): at most one handshake runs per
\* origin, whichever of navigation, recovery and popup ask for one, of
\* whatever tabs, before or after a stop of the worker; and no entry of
\* inflight outlives its handshake, for every later knock would join it and
\* wait for ever.
SingleFlight ==
    /\ \A h, i \in BagToSet(knocks) : h.origin = i.origin => h = i /\ knocks[h] = 1
    /\ inflight = { h.origin : h \in BagToSet(knocks) }

Quiet == tasks = EmptyBag /\ knocks = EmptyBag /\ \A t \in Tab : tabs[t].nav = "none"

\* A tab left at the interstitial of an enrolled origin, whose gate admits
\* after a knock, has an excuse: onHeaders knocks for every marked response
\* and reloads, although the cached grant may be stale, the handshake was
\* started by another handler, or the grant came after the response.
DeniedOnlyExcused ==
    Quiet => \A t \in Tab :
        (view[t] = "denied" /\ Gate[tabs[t].at] = "honest") => t \in excused

\* "Capped per tab so a persistent marker can't cause a reload storm" (sw.js):
\* once user and pages let the tabs be, the worker stops reloading them, also
\* when the gate answers 204 and denies the reload.
ReloadsSettle == <>[]Quiet
=============================================================================
