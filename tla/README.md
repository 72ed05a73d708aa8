# JIT Network Access: TLA+ models, checks and proofs

JIT Network Access keeps a web service dark until an enrolled device knocks: the
browser extension asks for a challenge, answers it with a MAC under the device's
secret, and the gate then opens the service to that client address (and, with
`ip+cookie` binding, to that browser) for a limited time. The same portable core
is used by a forward-auth server (the Authorizer) and by modules for Caddy and
Traefik; OpenResty and BunkerWeb use a Lua core of the same design.

This directory models the Go core, the Authorizer, the Caddy module, the Lua gate
and the extension's service worker in TLA+, checks them with TLC on small
instances, and proves most of the safety results for every instance with TLAPS.
`PROJECT.json` maps each definition to the source lines it stands for and lists
runs, mutants, findings, hazards and theorems.

## Inventory

| component | state | operations | interacts with | what makes it correct |
|---|---|---|---|---|
| registry (`core/go/registry.go`) | none; a value | Lookup, IsExpired, Fingerprint, AllowedForService, Authorize | read by knock and request path, swapped by reload | a kid opens a service only while known, unexpired and listed |
| grant store (`core/go/store.go`) | `grants` by key, index `byKid` | Put, IsAllowed, Revoke, RevokeToken, Sweep (Get, List read) | handlers, admin API, sweeper, under one RW mutex | index exact; callers see a plain set of grants |
| nonce store | `spent` nonce -> expiry | Claim, Sweep | knock handlers, sweeper | a fresh nonce is claimed once |
| enrollment store | `codes` | Put, Peek, Consume, Sweep | admin API, enroll handler, sweeper | a code yields one secret |
| rate limiter (`ratelimit.go`) | `window` per bucket, bounded | Allow, Sweep | all knock endpoints, sweeper | bounded table, bounded attempts per minute, a flood resets no count |
| crypto, PAE | none | nonce and proof MACs | handlers | perfect here |
| canonicalization (`canon.go`) | none | CanonServerName, CanonIP | every key and MAC | one name per host, one form per address |
| Authorizer (`server.go`) | config + registry under a RW mutex, the stores, nonce key | challenge, respond, enroll, register, authz, sweeper, Reload | proxies, extension | nothing opens without justification |
| admin API (`admin.go`) | none of its own | grant, revoke, revoke-token, enroll-code, grants, metrics | the stores | revocation reaches what it names |
| configuration, process (`config.go`, `main.go`) | the file | load, finalize, SIGHUP, shutdown | Authorizer | swapped as a whole, listener changes refused |
| address and target resolution (`realip.go`) | none | ClientIP, resolveTarget, cleanURIPath | every handler | only trusted hops decide; disagreement denies |
| Caddy module, Traefik plugin | process-wide stores, `lastSweep` | ServeHTTP, maybeSweep, Provision | many sites over one set of stores | as the Authorizer, per site |
| Lua core, OpenResty, BunkerWeb | nginx shared dictionaries, registry and nonce key per `init` | the same protocol, management API | workers, scheduler job, admin UI | as above, across workers without a lock |
| extension (`extension/src`) | key store, grant cache, `inflight`, `attempts`, `pageOpened` | knock, navigation listeners, popup, enroll | the gate, the browser | no knock storm, no reload storm, nobody left outside a gate that would open |

What is hard: HTTP handlers run concurrently and take a mutex per access, never
across accesses, so configuration, registry, clock and stores may change between
any two of them (`server.go:194-566`). Sweepers work with their own clock
reading, in Caddy one that a request took before. nginx workers share
dictionaries whose operations are atomic one by one. Operators reload the config at
any time and restart the process, which empties the Go stores and changes the nonce
key. Names and addresses contain the separator their keys are joined with, and
clients write the headers that proxies add to. The extension's handlers await in
the middle, and the browser stops its worker when it likes. The hazards, each with
its line and the properties aimed at it, are in `PROJECT.json`.

## Modules

* `Registry`: the registry as a value `[tokens, services]`, its queries as
  operators. SHA-256 is an injective constructor.
* `GrantStore`: `grants` and `byKid` as functions whose domains change. A key is
  a *sequence of segments*: the code joins fields with `:` and IPv6 addresses
  contain `:`, so two slots may share a key and the model keeps that. Each
  operation is one action, as the code holds the mutex for all of it; loops over
  the map are set comprehensions. `IsAllowed` returns a set of at most one
  grant. `AbstractGrantStore` is the promise: a set of grants, at most one per
  slot (service, address, device), with filters for revocation and sweeping.
* `NonceStore`, `EnrollStore`, `RateLimiter`: the other stores, one action per
  method. The time is a parameter: it is what the caller read before it called.
* `Authorizer` composes the four stores (named `INSTANCE`s) with handlers,
  sweeper, reload, restart and clock. `req[p]` holds the control state and the
  locals of the goroutine that serves request `p`; `ask[p]` says which endpoint it
  goes to and is fixed in the initial state. Every access to shared state that the
  code makes under a mutex of its own is a separate step:

  | handler | steps |
  |---|---|
  | challenge | `Resolve`, `Throttle`, `IssueNonce` |
  | respond | `Resolve`, `Throttle`, `CheckNonce`, `CheckProof`, `ClaimNonce`, `PutGrant` |
  | enroll | `Resolve`, `Throttle`, `PeekCode`, `LookupKid`, `ConsumeCode`, `DeliverSecret` |
  | authz | `Resolve`, `AuthzConfig`, `AuthzRegistry`, `AuthzClock`, `AuthzCheck` |
  | admin grant | `AdminGrantConfig`, `AdminGrantClock`, `AdminGrantLookup`, `AdminGrantPut` |
  | admin revoke, revoke-token | one step each |
  | admin enroll-code | `AdminCodeLookup`, `AdminCodeConfig`, `AdminCodePut` |
  | sweeper | `SweepStart`, then one step per store |

  Config and registry are one variable `cfg`, because `Reload` swaps both in one
  critical section; the handlers still read it separately for each. A clock
  reading that is an argument of the call that follows it is taken with that
  call, except in authz, admin grant and respond, where the reading is used
  across steps; `KnockThrottle` separates it for the limiter. `claims`,
  `delivered` and the field `seen` are history and guard nothing.
* `KnockThrottle`: the limiter under handlers that read the clock before they
  get its mutex, with a sweeper that does the same.
* `Canon`: `CanonServerName` and `cleanURIPath` as operators on sequences of
  characters, one per class that the code tells apart. A character of a URI also
  says how often it is escaped.
* `Resolution`: `ClientIP`, `resolveTarget` and the Caddy module's `clientIP` for a
  request that a client sends with whatever headers it likes (`Send`) and that
  proxies of the operator pass on (`AppendXFF`, `ReplaceXFF`, `StripXFF`). `Write`
  spells every host and URI up to a length for the properties of `Canon`.
* `SiteGate`: the Caddy module over the same four stores. A request belongs to the
  handler instance that took it, whose settings and registry never change; a reload
  changes which instances take new requests. `ServeHTTP` is `Arrive`,
  `MaybeSweep` (under `sweepMu`), one step per store swept, `Route`, and then
  `CheckGrant` or the steps of the protocol handlers. The Traefik plugin repeats
  this code.
* `LuaGate`: requests served by nginx workers, one step per dictionary operation;
  an entry is a value and the time it expires, 0 meaning never. A grant's key is a
  sequence of segments as in `GrantStore`, so two slots may share one; `is_allowed`
  compares the fields of the record. A request
  keeps the config and nonce key of the worker that took it (old workers finish
  their requests after a reload). The management API is BunkerWeb's.
* `Extension`: the service worker as an event loop. A handler at an await is an
  element of the bag `tasks`, a running handshake one of `knocks`. Tabs, gates and
  the user surround it; `WorkerStop` empties everything but the cache in
  `storage.session`. A handshake may fail at any await, also after the gate has
  honoured it: the answer is lost, or the cache cannot be written.
* `GrantStoreProofs`, `KnockThrottleProofs`, `AuthorizerProofs`, `SiteGateProofs`,
  `LuaGateProofs`, `ExtensionProofs`, `CanonProofs`, `ResolutionProofs`: theorems.
* `MC*`: instances for TLC. Definitions named `X_Something` just above a
  definition `X` are bugs that code of this kind could have; `PROJECT.json` says
  which property must catch each of them.

## Runs

| run | what it shows | bounds |
|---|---|---|
| `grantstore` | types, `IndexExact`, and `RefinesAbstract` under every sequence of calls | 2 kids, 2 services, 2 addresses of which one is a prefix of the other, 2 cookies, 3 times |
| `throttle` | `TableBounded`, `QuotaBounded` | 5 attempts, 2 buckets, room for one |
| `requests` | `TypeOK`, `AllowJustified` while a secret is rotated and back and the service turns to `ip+cookie` during the knock or the request; and for break-glass and kid-backed grants with both revocations, a token that expires, a service that is removed; `RevokesExactly` | one challenge, knock and request, or one of each admin call and a request, or two admin grants for one address and a revocation; 5 configs, any number of reloads; a grant that runs out one tick after the knock |
| `knock` | `NonceFreshOnce`, `OneRecordPerDevice` | 2 challenges, 2 knocks, 2 addresses, sweeps at any time, 1 restart |
| `enroll` | `EnrollOnce`, `BurnedForCause` | one code, 2 clients, a limit of one attempt per window, reloads between configs with and without the kid, 1 restart |
| `liveness` | `Reclaimed` | one challenge, 2 knocks, one code |
| `nonce_reload` | a disagreement, see below | the smallest instance that shows it |
| `site` | `GateJustified`, `SweepSpaced`, `SweepClosesNothing`, `CodeKept`, types | 3 requests in 4 scenes, 2 instances for one host, 3 generations of the config of which one is refused, sweeps every 2 of 4 seconds |
| `resolve` | `ClientKeyed`, `ClientReached`, `TargetFaithful`; `OneName`, `OneReading`, `CleanedOnce` | up to 2 proxies; X-Forwarded-For of up to 2 made-up entries in 1 or 2 lines; target headers made up in two conventions around the proxy's own; hosts and URIs of up to 5 characters |
| `lua` | `LuaJustified`, `LuaNonceOnce`, `LuaCodeOnce`, `RevokeComplete` | 3 requests in 6 scenes, 2 services and 2 addresses of which two pairs share a key, 4 configs (2 of them at the start), codes that live shorter and longer than the claim marker, 1 reload |
| `lua_throttle` | a disagreement, see below | one knock |
| `extension` | `SingleFlight`, `DeniedOnlyExcused`, `ReloadsSettle` | 2 tabs, 3 origins (a gate that accepts knocks and never admits, one that admits, one without a token), 2 acts of the user or of pages, 1 fault |

Two requests of a kind suffice for the races here, because what they race for
(a nonce, a code, a key) is taken once. Times only order expiry among clock
readings: a TTL of 1 has an inside and an edge, a TTL of 2 also a middle at which
a handler may pause. Reloads are not bounded in the Go models; restarts are bounded by
`MaxRestarts`, the clock by `MaxTime`. The Authorizer's sweeper fires at `SweepAt`; a
run that is not about it fires it at the end only. Two acts and two tabs are what it
takes for two handlers to share a knock or for one to move a tab while the other waits.

Fairness. `FairSpec` of `Authorizer` (run `liveness`): weak fairness of each handler
under way and of the sweeper. A Go goroutine that can run is scheduled, and no step
waits for anything but a mutex that its holder releases without waiting. The
arrival of requests, reloads, restarts and the clock are not fair. `FairSpec` of
`Extension`: weak fairness of `Work`, everything the event loop and the browser do by
themselves (run a ready task, answer a fetch or fail it, deliver headers, commit a
load). Acts of the user and of pages and the faults are not fair.
Deadlock is not checked where the requests of an instance are finite in number
and the clock stops (`site`, `lua`, `throttle`), a single request is resolved
(`resolve`), or the user leaves the tabs alone (`extension`).

### What holds only under an assumption

* `TargetFaithful`, `ClientKeyed`: every proxy in `trusted_proxies` appends,
  replaces or strips X-Forwarded-For and sets the headers of one convention. One that
  passes a client's X-Forwarded-For on unchanged lets the client choose.
* `LuaCodeOnce`: a worker that has read the body of an enroll request is held up, up to
  its `delete`, for less than the claim marker lives (`MaxStall < MarkerTTL`, a guard of
  `Tick`). Codes live as long as they like: in the run one runs out before the marker and
  one after it.
* `OneRecordPerDevice`: no two slots share a key (`KeysUnambiguous`), in the theorem and
  in the run.
* `LuaNonceOnce`: OpenResty's `init` draws a new nonce key, and no entry is evicted
  from a full dictionary.
* `NonceFreshOnce` is stated for one `nonce_ttl` and for the time the nonce is fresh:
  a knock that waits between verification and claim for longer than that may find the
  record swept.
* `DeniedOnlyExcused`: excused are tabs that a page opened, knocks that failed, tabs
  under way when the worker was stopped or the gate lost its grants, and tabs whose
  handshake ended well after the gate had forgotten the grant it gave.

### Disagreements

With a run:

* `nonce_reload`: the spent record of a nonce lives for the `nonce_ttl` current
  at the claim, its freshness is judged by the one current at the knock. After a
  reload that raises it, a spent nonce is claimed again (`DESIGN.md:351`). The Lua
  gate does not have this: its nonce key changes with the reload.
* `lua_throttle`: `rate_ok(sname, ip)` is called as `rate_ok(ip)` in OpenResty and
  BunkerWeb. With a rate limit set the key of the counter is built from a nil, the
  error is caught and answered as a denial, and no knock ever succeeds.

Met while modelling, without a run:

* A forward-auth request that spans two reloads combines a binding and a registry
  that were never current together (`server.go:548`; `server.go:79` says that reload
  swaps them atomically).
* A dead record under a request's cookie hides a live grant for its address
  (`store.go:144`, `SPEC.md:78`). A sweep that removes the dead record therefore turns
  a denial into an admission: `SweepClosesNothing` is an implication for that reason.
* Services named by IPv6 literals may share a grant key (`store.go:62`), and a grant
  of one then evicts a grant of the other; `KeysUnambiguous` excludes it in the
  proofs. The request path compares the fields of the record, so no access is gained.
* `realip.go:37` says that anything unparseable fails closed; an unparseable entry of
  X-Forwarded-For is skipped. `ClientKeyed` shows that this does no harm.
* `store.lua:274` says that the claim marker outlives the code; it lives 900 s, a code
  up to a week.
* `sw.js:11` says that only a navigation of the user releases a tab that a page opened;
  a failed load, five minutes, or a stop of the worker release it as well.

## Proofs

The theorems hold for any sets of requests, devices, services, addresses, configs and
cookies, for any number of reloads, restarts and sweeps, and for any bound of the clock.
Each one that states a property of a run is listed with it in `PROJECT.json`.

| module | theorem | property |
|---|---|---|
| `GrantStoreProofs` | `TypeCorrect`, `IndexAlwaysExact`, `GrantStoreRefinement` | `GrantStoreTypeOK`, `IndexExact`, `RefinesAbstract` |
| `KnockThrottleProofs` | `TableAlwaysBounded`, `QuotaAlwaysBounded` | `TableBounded`, `QuotaBounded` |
| `AuthorizerProofs` | `Allowed`, `NonceClaimedOnce`, `EnrolledOnce`, `CodesBurnedForCause`, `DeviceRecords`, `RevocationsExact`, `AuthorizerTyped` | `AllowJustified`, `NonceFreshOnce`, `EnrollOnce`, `BurnedForCause`, `OneRecordPerDevice`, `RevokesExactly`, `TypeOK` |
| `SiteGateProofs` | `Gated`, `SweepsApart`, `SweepsHarmless`, `CodesKept`, `SiteGateTyped` | `GateJustified`, `SweepSpaced`, `SweepClosesNothing`, `CodeKept`, `TypeOK` |
| `LuaGateProofs` | `LuaGated`, `LuaNoncesOnce`, `LuaCodesOnce`, `LuaRevokes` | `LuaJustified`, `LuaNonceOnce`, `LuaCodeOnce`, `RevokeComplete` |
| `ExtensionProofs` | `OneFlight`, `NobodyLeftOutside` | `SingleFlight`, `DeniedOnlyExcused` |
| `CanonProofs` | `CanonicalOnce`, `BracketsDoNotCount`, `LiteralStays`, `DecodedOnce` | (parts of `OneName` and `OneReading`, for every host and URI) |
| `ResolutionProofs` | `KeyedOnTheSender`, `SenderIsReached`, `TargetIsTheRoute`, `EveryHostHasOneName`, `EveryPathHasOneReading` | `ClientKeyed`, `ClientReached`, `TargetFaithful`, `OneName`, `OneReading` |

### Assumptions

Each module names what its proofs need of its constants, and TLC evaluates it in every
run: TTLs are numbers, which is what parsing and `finalize` leave; the configs named by
the initial states and reloads exist; and no request is named by the empty string, which
stands for "no cookie". Beyond that:

* `MaxLag \in {0, 1}` and `MaxLag < WindowLen` (`KnockThrottle`): a handler waits for the
  limiter's mutex for at most one tick, and for less than a window. The window is 60 s
  and the mutex is held for microseconds.
* `KeysUnambiguous` (hypothesis of `GrantStoreRefinement` and `DeviceRecords`): no two
  slots share a key. It fails only with services named by IPv6 literals, see above.
* `MaxStall < MarkerTTL` (`LuaGate`): while a worker has a code in hand, from the body of
  the enroll request to the `delete`, the clock moves on by `MaxStall` at most. Nothing in
  between yields, so only a process that is itself held up takes any time; the marker
  lives 900 s. It bounds one exchange, not the clock and not the life of a code (a day by
  default, a week at most). With `MaxStall = MarkerTTL` TLC finds a code exchanged twice.
* `MAX_ATTEMPTS >= 1` (`Extension`): the constant in `sw.js` is 2. With none, no
  tab would be knocked for.
* `ResolutionAssumption`: no client has the address of one of the operator's proxies, and
  what a client asks for has a name, which is that its Host does not canonicalize to
  nothing and its URI is not empty. An HTTP server rejects an empty request target; a
  Host of dots and blanks is the name of no site.
* `TypesAssumption` (`Authorizer`, `SiteGate`): names and addresses are sequences of
  segments, TTLs and limits whole numbers, bindings those `finalize` accepts. `Provision`
  of the Caddy module takes a negative duration as it is; none is configured, and none of
  the other theorems about `SiteGate` uses that for `nonce_ttl`.

### Arguments

**Grant store.** `GrantStoreInv` joins the types, `FiledByKey` (every grant is filed
under the key its fields give) and `IndexExact`. The index is needed for itself:
`RevokeToken` deletes what the index lists, so the step keeps the maps consistent only
if the list is exact; `UnindexExact` and `PutIndex` carry that argument. For the
refinement (`held <- Range(grants)`) `FiledByKey` turns "same key" into "same slot".

**Rate limiter.** For the table the invariant adds that it is finite. For the quota
the table is not enough, for it forgets windows that are over while the attempts they
let through still count. `QuotaInv` says that there is an account `w` that assigns to
each admitted attempt the start of its window, such that: the attempt was read in reach
of that window, which is over or still in the table (`Placed`); two windows of a key
are a window's length apart, but for the lag (`Apart`); and a window let through its
quota at most, its opener included (`Full`). A stretch of `WindowLen` seconds then
meets at most three windows, of which the first began before the stretch and has its
opener outside: fewer than three quotas.

**Handlers** (`AuthorizerProofs`, `SiteGateProofs`, `LuaGateProofs`). The first part of
each module says once what a step of a handler may do: which label follows which,
what it leaves of the request, that all other requests stay as they are. From it
follows `Control`: a request under way is at a label of its own endpoint and its
inputs were handed out before. The invariants add to it:

* `AllowInv`, `GateInv`, `JustInv`: every grant in the store, and every grant a handler
  carries to `Put`, is backed by a request that proved the secret or came from an
  admin, with the config that it read; in the Lua gate also every record that a worker
  has read and not yet decided on. An allow then has its witness when it happens, and
  no later step takes the witness away.
* `NonceInv` (Authorizer): a claimed nonce of this process is still in `spent` or no longer
  fresh, and a handler between verification and claim has verified the nonce under
  this process's key. In `LuaGateProofs` the nonce key decides: only configs of
  workers with the key of the nonce verify it, and the marker outlives it under each.
* `EnrollInv`, and `CodeInv` of `SiteGate` and `LuaGate`: a code in the store has been
  handed to nobody, and at most one handler is between taking it and delivering
  the secret. In the Lua gate taking is three operations; the invariant follows the
  worker that holds the marker from `add` to `delete`. Its marker is there until then
  (`MarkerThere`, from `Prompt`: who has a code in hand took it less than the life of a
  marker ago), so no second worker wins; once it has deleted the code, a worker
  that read the code before holds a reading of the clock at which the marker is
  there still, and loses at its `add` though the marker may since have run out.
* `BurnInv`: a handler past the look-up of a code's kid has seen a config that knows it
  (`KidChecked`; `KidKept`: the code's kid never changes), and a handler that is refused the
  secret is looking at one that does not. `CodeLeaves` goes through the steps that shrink
  the store. Together they are `CodesBurnedForCause`.
* `DeviceInv`: every record is filed under the key of its fields, and one for a device
  belongs to an answered knock, under the hash of that knock's own cookie (`Filed`); a
  handler shows only cookies that were handed out (`Holding`). So no put but that of
  the knock that supersedes it removes a live record (`PutSpares`), and no sweep does
  (`OnlySweepDrops`). `KeysApart` needs `KeysUnambiguous`.
* `SweepInv`: `lastSweep` and the readings in hand are at most `now`, and no sweep in the
  history is later than `lastSweep`. `SweepsHarmless` needs `ExpiryInv` (a sweep's
  reading is in the past and every expiry is a number): what the sweep drops had run
  out at the time of the sweep and so at any later one, and the lookup key chosen
  before the sweep is chosen after it.
* `RevokeInv`: a record that was stored when the scan began and is stored still has
  its key among those the scan has yet to visit.
* `IndexInv` (Authorizer): `byKid` is the exact index of the grants in every state of the
  service. Puts of any grant, drops and the restart keep it; `RevocationsExact` then
  follows `RevokeToken` through the index (`RevokeTokenExact`) to the grants of the kid.
* `TypeInv` (Authorizer, `SiteGate`): `TypeOK` is not inductive, for what a handler puts is
  put together from its locals. Added are, for every request under way, the types of what
  the client sent and of the configs read at each label (`Holding` and `Local`, or `Fit`),
  and `NonceInv` or `CodeInv`, from which a nonce that is claimed was handed out and a
  reading of the clock is in the past. `Reads` and `Leads` say what each step reads into
  which local.

**Extension.** `FlightInv`: no handshake is in the bag twice, and `inflight` and the
handshakes are one to one by origin. It is `SingleFlight` and the shape of a handshake.
`DeniedInv` has two parts for every tab without an excuse. `Watched`: if it shows the
denial of an honest gate and is not loading, a handler of the tab knocks, is about to
reload, or has the whole budget of attempts before it. `Spent`: attempts used up at an honest
gate were not in vain, for the gate admits by now or a handler still knocks. The second is
needed for the first: a handler that finds the budget used up gives up, and only because
the earlier attempts opened the gate is no denial left to be seen. In a quiet state no
handler is left, so what is denied is excused.

**Resolution.** `WireInv`: what is under way came from a request and, once a proxy has
passed it on, the peer is a proxy and the claim of its convention is the target routed on.
For the address, `Traced`: the right-most entry that is not one of our own hops is the
sender's, or there is none since a proxy dropped the header; each proxy appends to the
right, and only entries of proxies follow the sender's. The places of the entries are ordered pairs, so appending to the last
line or adding a line puts the new entry to the right of all others in either case. For
the target the invariant gives one convention that speaks the truth; if no two disagree all
say the same.

**Canonicalization.** `CanonServerName` is four passes. `Canonical` is what they leave: no
blanks or dots at the ends, no bracketed head, no port, no capitals (`BecomesCanonical`),
and each pass leaves such a name alone (`CanonicalStays`), which is idempotence. No
induction is needed, since every pass is a slice or a map of its input. `DecodedOnce` reads
off the refusal of leftovers that a second decoding or cut finds nothing to do.

### Only model-checked

* Liveness under fairness (`Reclaimed`, `ReloadsSettle`): out of the prover's
  reach.
* `CleanedOnce`: what `path.Clean` computes for a path of any length is a fold over its
  segments, and needs induction over data. `OneReading` is proved, for it only needs that
  equal texts are cleaned equally.

## Not modelled

* HMAC, SHA-256, PAE and base64url are perfect; random values never collide and
  the generator does not fail (the code denies if it does; a failure after the
  claim of a nonce burns it).
* Parsing and validation of configuration files (Authorizer, Caddyfile, Lua
  options); a site's settings enter `Provision` parsed.
* Requests enter `Authorizer` and `LuaGate` resolved; `Resolution` is where
  resolution is modelled. A request the first checks turn away (untrusted peer, wrong
  method, wrong bearer, malformed body) changes no store and is left out.
* A reload that changes `ipv6_prefix`, which changes what a canonical address is.
* Response bodies, failure modes, metrics, the routing table. `register` keeps no
  state; `SiteGate` has it as an answer.
* Eviction from full shared dictionaries, and the second implementation of
  canonicalization in Lua and Python.
* BunkerWeb's settings, UI, command line and job: synchronous edits of a settings
  file by an administrator. Its nonce key is kept across reloads, so `nonce_reload`
  applies to it.
* Enrollment in the extension, its options page and its cryptography; proxy recipes.

## Possible extensions

1. `CleanedOnce` by induction over the segments, with a prover that has it.
2. `Reclaimed` as a proof rule over the steps of the sweeper.
3. Enrollment in the extension, whose hazard is listed and not covered.
4. Lua and Python canonicalization against `Canon`.
