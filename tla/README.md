# labdns in TLA+

labdns is a Kubernetes controller manager. It watches Ingresses and Gateway API
routes, resolves them to the addresses of the Nodes that run their backends and
publishes the result as `DNSEndpoint` objects, one per selected `DNSProvider`,
for ExternalDNS. A target that is no longer wanted is kept until a deletion delay
has passed. This directory models that system, checks it with TLC and proves its
safety properties with TLAPS.

## Inventory

| Component | State | Operations | Interacts with |
|---|---|---|---|
| DNSEndpoint writer (`internal/dnsendpoint`) | none of its own: each object's spec, and its annotations for the lifecycle, the stored delay and the source's UID | `Apply`, `applyOne`, `build`, `Advance` | informer cache for reads, API server for writes |
| Lifecycle controller | work queue with delayed keys | `Reconcile` of a `DNSEndpoint` | the source's cache, `Apply(nil)`, `Advance` |
| Source controllers (one for Ingresses, one per route kind) | work queue | `Reconcile` of a source | caches of all dependencies, `Apply` |
| Watches, indexes, mappers (`setup.go`) | field indexes | one mapper per watched kind | enqueue sources |
| Annotation inheritance, projection, resolver (`internal/source`) | none | merge, parse, project, resolve | called by the source controllers and the CLI |
| Diagnostics emitter | last emission per source and message, LRU list | session begin, report, finish; delete source | shared by all source controllers |
| Metrics | counts per key under a mutex, gauges | observe, set | called by every reconcile |
| Start (`cmd`) | flags | discovery, set-up, leader election | everything |
| CLI (`internal/cli`) | none; a sequence of reads that is not atomic | status, list, show with DNS lookup, output | API server, discovery, DNS server; parses the manager's arguments |

What is hard here. Every reconcile reads caches that lag behind the API server,
and writes with the resourceVersion it has read. Two controllers write the same
objects. A target's deadline is stored on the object, but the wake-up for it is
only a delayed key in memory. A terminal error removes a key until the next
event. A source can be deleted and created again under the same name with another
UID. What a source resolves to depends on eight kinds of objects whose events
arrive in any order. `PROJECT.json` lists each hazard at its line.

What makes each component correct:

* writer: a target is withdrawn only after its delay, a deadline is never moved,
  objects that are not labdns's or do not parse are never touched, and labdns never
  writes a state that it would reject itself;
* controllers: the objects converge to what the source asks for; expired targets
  go; no wake-up is lost;
* watches: no change of a dependency is missed silently;
* projection and resolver: a hostname gets its own backends inside its provider's
  zones, all or nothing is applied, what is left out is explained, and the indexes
  cover what is read;
* metrics: gauges that agree with the objects once the controllers have caught up;
* CLI: `status` shows every lasting fault and gives no false alarm, `show` decides
  from complete answers, `list` calls active what no expiry touches;
* diagnostics: bounded memory, no new condition silenced, no remembered one
  repeated.

## Modules

| Module | Models |
|---|---|
| `DNSEndpointWriter` | the pure part of the writer: an object, `build`, and what `Advance` computes |
| `LabDNS` | the API server, the caches, both workers step by step, the outside world; the properties of the core |
| `RetirementContract` | abstract specification: what labdns promises about a published target |
| `LabDNSProofs` | types, coherence, fail-closed, the contract, no self-made corruption and no lost deadline |
| `MCLabDNS` | `LabDNS` for TLC, and a start in the middle of a retirement |
| `DependencyWatch` | watches, indexes, mappers and the reads of a source reconcile |
| `DependencyWatchProofs` | nothing is missed, for every shape of controller |
| `MCDependencyWatch` | a fully wired initial cluster |
| `Diagnostics`, `DiagnosticsProofs` | the diagnostics emitter; its bounds, and that neither silence nor repetition is wrong |
| `Records`, `MCRecords` | endpoints with names, types, TTLs and annotations; refines `DNSEndpointWriter`; the CLI's view of them |
| `RecordsProofs` | that refinement, the fixed point of `Apply`, and what the CLI calls active |
| `Projection` | operators: rules, TLS hosts, backends and grants to hostnames; the backend indexes |
| `Resolver`, `MCResolver` | a reconcile from source to records, over `Projection`: zones, families, EndpointSlices, Node labels, diagnostics |
| `ResolverProofs` | the six properties of a reconcile |
| `Metrics`, `MetricsProofs` | the gauges and the reconciles that feed them; that they agree |
| `MCReporting` | `Diagnostics` and `Metrics` for TLC |
| `Inspection`, `InspectionProofs` | `labdns status`, discovery and the manager's start; no fault missed, no false alarm |
| `Show`, `ShowProofs` | `labdns show` with a live DNS comparison; its verdicts and exit status |
| `MCCommands` | `Inspection` and `Show` for TLC |

`LabDNS` composes the writer with both controllers. `Records` connects it to the
objects users see: it shows that the sets of target keys in `DNSEndpointWriter`
lose nothing. `Resolver`, on top of `Projection`, opens up what `LabDNS` calls a
change of dependencies, and `DependencyWatch` when such a change is noticed.
`MCReporting` and `MCCommands` each explore two components that share no state,
one of them per behaviour: an invariant of one cannot depend
on where the other stands, so nothing is lost against the product of the two.

### LabDNS and DNSEndpointWriter

A *target* stands for a `targetKey` (name, record type, address). An object is a
record: `spec` (the set of its targets), `deadline` (for each pending target),
`delay` and `uid` (the stored annotations), and `flaws`: what in the rest of its
metadata is not as labdns wrote it. A flaw is a changed label (`managed-by`,
`source-key`, `provider`), changed annotations that name the source (`identity`), or
a `lifecycle` or `delay` annotation that does not parse. Providers are integers
because `Apply` handles them in the order of their names.

The code looks at a different part of the metadata in each place, and so does the
model:

| Where | managed-by | source-key | provider | identity, UID | lifecycle | delay |
|---|---|---|---|---|---|---|
| lifecycle `Reconcile` (`Consistent`) | ignores the object | stops | stops | stops | stops | - |
| `Apply`'s List (`Listed`, `Accepted`) | not listed | not listed | stops | - | stops | stops |
| `applyOne` (`Refused`) | stops | stops | stops | - | stops | stops |
| `Advance` (`Managed`, `Valid`) | ignores the object | - | - | - | stops | stops |

`build` writes labels and identity annotations anew, `Advance` keeps them.

`api` is the stored version and `cached` the informer's. resourceVersions are
represented by what they decide: `fresh[p]` is the set of holders (`cache` or a
worker) whose copy has the stored resourceVersion. `Store` empties it, reading a
fresh cache joins it, and an update or delete is accepted only from a member.
`written[p]` records when the stored version was written; only properties use it.

A worker's `pc` is where it stands between two accesses of shared state: `idle`,
`list` (before `Apply`'s List), `get` and `write` (before the Get and the write
of `applyOne`), `advance` and `expire` (the same for `Advance`). `todo` are the
providers left, `held` the object read, `at` the time read, `tries` the
conflicts, `next` the result of `Advance` that outlives a retry. `due[p]` is the
time at which a key is ready in the lifecycle queue.

Abstractions, and why they are sound for the properties:

* One source. Object names and labels are hashes of the source's identity, so two
  sources share no object; a reconcile of another source only delays this one. (An
  object whose source-key label a user sets to that of *another* source would stop
  that source's `Apply`; the model shows what happens to the object and its own
  source.)
* The reads of the source and its dependencies are merged into one step of
  `SourceReconcile`. `DependencyWatch` takes them apart and shows that a source
  whose reads are outdated is queued again, which is what `SyncDeps` assumes.
* An informer may skip versions: `SyncObject` goes to the stored version at once.
  Intermediate versions only add events for a key that is queued anyway.
* A queue holds a key once; of two times for a key the earlier wins. A key
  that an error puts back is ready at once: the rate limiter only delays it.
* The informers' resync (ten hours by default) is left out: no property may rest
  on it.
* TTL, metadata annotations and provider-specific properties change together with
  the stored delay, under the same condition in `build`; they have no state of
  their own.
* The clock does not go back.

The outside world is in `Disturb` steps, counted by `disturbances` and restricted
to the kinds in `Disturbances`: editing, breaking, deleting and re-creating the
source, changing its dependencies, tampering with objects, status updates, and
restarts with or without the Gateway API. Each edit of an object by hand that leaves
it in place also sets `tampered`, on which the properties depend that promise nothing
after such an edit. With `Unreliable`, a write may fail or succeed without an answer.

### DependencyWatch

Objects of all kinds share one shape: `up` (parents of a source or Gateway, the
Service of an EndpointSlice), `to` (backends, Nodes, permitted Services),
`providers` (the annotation, if present) and `rev` (anything else). A change
updates the cache first and then appends an event for its kind; `Map` handles
events in order for each kind and in any order between kinds. A reconcile is a
sequence of reads, recorded in `got` by key, in the code's order and with its
early ends. One controller is one instance: an Ingress controller has no Gateways
and no grants.

Abstractions: a reconcile reads each key once (the code reads a Service once per
provider and hostname, with the same cache); a hostname outside every zone reads
less than the model does; only ready endpoints' Nodes are kept on a slice (the
index keeps all Nodes, a superset); parent chains are compared by the providers
annotation alone.

An indexed list of a mapper may fail (`Modes`). `ingresses` and `routes` then list
every source; the lists on the way (EndpointSlices of a Node, Gateways of a class,
classes of a provider) list everything and filter by the same condition. When the
second list fails too the code logs and gives up; `logged` remembers that, and
`UpToDate` demands nothing afterwards: it shows that nothing is missed *silently*.
`Reliable` names the modes a run leaves out.

### Diagnostics

`lru` is the list and `last` the map of the emitter; `session` and `seen` are the
running sessions. `shown` and `evicted` are history for the properties: when a
condition that has not been resolved since was last emitted, and what the bounds
made the emitter forget. A report is one step because it runs under the mutex;
the clock is read just before, which matters only for two reports of one source,
and a source is reconciled by one worker.

### Records

An object's endpoints are a bag, because users may repeat one; targets and the
sorted lists of `normalizeEndpoints` are sets. Which of several copies lends its
TTL to a record that only retires depends on an unstable sort, so `Assembled`
gives every choice. `Build` returns the set of possible results, and `Settles`
demands that each is a fixed point: the next reconcile, caused by the write's own
event, finds it equivalent. `RefinesWriter` and `RefinesAdvance` compare every
result with what the operators of `DNSEndpointWriter` compute from its abstraction.
`ActiveTargets` is what `recordsFor` prints.

### Projection and Resolver

`Projection` says what a source and its ReferenceGrants project to; `Resolver` is a
reconcile over it. It starts from a source that gives every hostname every backend
and lets providers, families, Services and Nodes change between reconciles, or
replaces the source by any Ingress or route within the bounds; a failing reconcile
leaves `output` as it is. `Indexed` compares the projection with those other grants
would have given. Hostnames arrive valid from the API server; order shows in
messages only. Hostnames and zones are sequences of labels, so a zone boundary is
one; an address is the Node it belongs to, and a label is absent, malformed or an
address of the family. A failed reconcile keeps of the resolver's diagnostics only
the failure; no property looks at the others then.

### Metrics

Every controller counts its own objects by key. `Get` reads an object and
`Finish`, possibly after further changes, sets its count and recomputes the gauges;
`Fail` is a failed read, which the workqueue retries. The gauge is set under the
mutex, so `Finish` is one step.

### Inspection and Show

`Inspection` runs the manager (`Start` with `checkPrerequisites`, `Crash`, changes
of CRDs and of the Deployment) beside the reads of `status`, held in `todo` in the
code's order; one resource stands for the six of the Gateway API. The chart and the
manifests set one replica and no strategy, so a change of the arguments is a
RollingUpdate: `pods` are the arguments of the Pods there are, `up` those whose
manager is available; the available Pod stays beside the new one (`Rolled`) until
that one is available too (`CompleteRollout`). A Pod is identified by its arguments.
`lasting`, `needed` and `met` are history: the faults present throughout the command,
the resources the Deployment asked for at some time since it began, and the faults met
at any time, a resource in `needed` that is missing among them. The CLI's reading of the arguments (`GatewayAPIEnabled`) and the flag package's
(`EnableGatewayAPI`) are separate definitions. Left out: positional words among the
arguments, at which the flag package stops and the CLI does not; several
Deployments; API errors other than a missing resource, which are alarms of their
own. A command with `--namespace` looks for the controller in that namespace only
(and judges the records of all namespaces); it is modelled without that flag.

`Show` lists the records of a name once and handles them one by one; every request
fails after the shared timeout, a DNS reply may be lost, and a truncated UDP reply
leads to a second query over TCP. `zones` is history: what the server would have
answered since the lookup began.

## Runs

All runs set `CHECK_DEADLOCK FALSE`: clock and disturbances are bounded and a
manager without work is quiescent.

| Run | Checks | Shows |
|---|---|---|
| `endpoints` | `TypeOK`, `CoherentCopies`, `NeverSelfCorrupts`, `AlarmSet`, `FailClosed`, `KeepsContract` | two workers, stale caches, unreliable writes, every kind of edit, deletion, re-creation, restart and a disabled Gateway API: the contract holds, what is not labdns's own or does not parse is left alone, and until the first edit by hand labdns writes only what it accepts and loses no wake-up |
| `convergence` | `Convergence`, `ExpiryProgress` | one provider, unreliable writes, source deleted, re-created, edited, invalid; expired targets go |
| `two_providers` | `Convergence` | `Apply` over two providers with unreliable writes while their publications change |
| `watches` | `TypeOK`, `UpToDate` | no change is missed by a route with two Gateways, a grant and lists that fail (by an Ingress: theorem `NothingMissed`) |
| `records` | `Settles`, `RefinesWriter`, `RefinesAdvance`, `ActiveSurvives` | record assembly is what the core abstracts it to, for edited and repeated endpoints |
| `resolver` | `Explained`, `GapExplained`, `InsideZones`, `Routable`, `Indexed`, `WholeOrNothing` | from source to records: nothing is applied from a partial failure, nothing is left out without a word, hostnames keep their backends and zones, and the indexes cover what is read |
| `reporting` | `BoundedMemory`, `SilencedOnlyByRecent`, `RepeatsOnlyWhenForgotten`, `GaugesTrack` | the emitter's bounds and its two directions of error; the gauges after deletions, failures and restarts |
| `commands` | `LastingFaultShown`, `AlarmHasCause`, `SuccessIsComplete`, `VerdictWasTrue` | `status` while the cluster changes; verdicts and exit status of `show` |

Bounds. One target: a target's fate depends on no other (the contract is proved
for any number). One or two providers: a provider's fate depends on another only
through the order and the early end of `Apply` (`two_providers`). `Horizon` 2 lets a deadline of delay 1 be
set, wait and pass; `Delays` has 0 where the boundary matters. `MaxAttempts` 2 is
the smallest number with both a retry and an exhausted one. Two or three
disturbances are what the known races need (delete and re-create; an edit and the
restart or deletion that follows); `NoLostAlarm` proves what `endpoints` checks with
two for any number. A bounded
clock cannot reach timers beyond `Horizon`: the liveness properties exempt
behaviours that end with one (`OutOfTime`). In `watches` two changes suffice for
a change of the graph and a change of what it leads to during one reconcile; longer
histories and the Ingress controller, which has no Gateways and no grants, are
covered by the proof. In `reporting` four source keys
compete for two places and two messages for one, and two counted kinds share
their names. `records` has two record keys, two addresses, one edit and up to two
endpoints when a user adds one: enough for a repeated record with different targets
and TTLs, a record that only retires and one that does both. In `resolver` two
changes of the cluster surround a reconcile, with a wildcard at the apex of one zone
and a hostname that merely contains the zones, as labels; two rules meet on one host or on
none, and a route has a reference at home and one abroad. `commands` allows the
manager two arguments, so that a flag repeats with another value, and two changes,
so that one fault ends while another begins or a rollout meets a removed CRD; `show` needs one change between the
UDP and the TCP query.

`ExpiryProgress` leaves out objects of a source that has been created anew: the code
leaves these to the new source's reconcile on purpose. With two disturbances that
exemption is enough; with a third, the new source is deleted again, which is the
subject of `expiry_recreated` below.

Fairness (`LabDNS!Fairness`): informers deliver and workers run; a key that is
ready again and again gets its turn (the queue is fair between keys, and one
worker serves it); a write that is possible again and again is answered
positively at some point, which a healthy API server and the informer catching up
grant; time passes. Nothing is assumed of users, ExternalDNS or restarts.

### Disagreements between code and documentation

* `expiry_recreated`: the lifecycle controller sets no timer when the cached
  source has another UID. If that source is gone again before the source
  controller has run, its expired targets stay although `docs/configuration.md`
  promises withdrawal after the delay.
* `repair_resumes`: `Apply` rejects all objects of a source when one is corrupt.
  After the corrupt one is repaired, a healthy sibling whose reconcile had ended
  with the terminal error is not woken; the docs say that reconciliation resumes.
* `new_source_kept`: the comment in `lifecycle_controller.go` says records of a
  newly created source are not retired before its desired state is read. The
  source is looked up before `Apply`, which may write after it was re-created.
* `identity_kept`: `docs/configuration.md` says of the lifecycle and source-identity
  annotations that invalid or inconsistent state "causes reconciliation to stop
  without replacing the existing output". The lifecycle controller stops there
  (`lifecycle_controller.go:93-96`), but the same event also wakes the source
  controller, whose `Apply` does not look at the identity annotations and writes the
  object anew, its spec included.

The effects of the first two stay until the next event for the object or the
informers' resync; after the third the source controller publishes again.

Seen while modelling, and left without a run of their own:

* `Advance` looks at the managed-by label alone. An object whose source-key or provider
  label, or whose identity, is changed after the lifecycle controller's check is still
  expired by the call that follows, or by the retry of a conflict; `FailClosed` allows
  exactly that step.
* The reads of `status` are not atomic: it may read arguments that ask for the Gateway
  API, and a CRD that is removed after the arguments have been changed. With a rolling
  update no manager ever missed it, and `status` is unhealthy. `AlarmHasCause` promises
  no more than that an API it calls unavailable was missing when, or after, the
  Deployment asked for it.
* an object that can no longer be parsed keeps its old count in
  the gauges until the manager restarts, and is not counted from then on; the docs
  say counts are reconstructed after startup.
* an Ingress rule with a host and no paths is skipped without a
  diagnostic; the docs say skipped publication is reported.
* `status --namespace` still judges the records of all
  namespaces; the flag's help says it limits the inspection to a namespace.

## Theorems

Every invariant and every action property that a passing run checks is also proved,
for all values of the constants that satisfy the `ASSUME`s; only liveness is left to
TLC. Sets of targets, providers, sources, hostnames or messages may have any size
and the bounds any value.

| Module | Theorem | Establishes | Inductive invariant |
|---|---|---|---|
| `LabDNSProofs` | `TypeCorrect`, `Coherent`, `CopiesCoherent` | `TypeOK`, `CoherentCopies` | `IInv` |
| | `FailsClosed` | `FailClosed`, for every edit: unmanaged and unparsable objects are not touched, other refused ones by an expiry at most | `IInv` |
| | `RefinesContract` | `KeepsContract`: `LabDNS` implements `RetirementContract` | `IInv` |
| | `NoSelfCorruption`, `NoLostAlarm` | `NeverSelfCorrupts`, `AlarmSet`, both until the first edit of an object by hand | `IInv /\ WakeInv` |
| `DependencyWatchProofs` | `TypesHold`, `NothingMissed` | `TypeOK`, `UpToDate` | `TypeOK /\ WatchInv` |
| `RecordsProofs` | `BuildIsWriter`, `AdvanceIsWriter` | `RefinesWriter`, `RefinesAdvance` | `TypeOK` |
| | `WritesSettle`, `ActiveStays` | `Settles`, `ActiveSurvives` | `TypeOK` |
| `ResolverProofs` | `AllOrNothing`, `GapsExplained`, `NeverSilent`, `RecordsInsideZones`, `OnlyRoutable`, `SourcesIndexed` | `WholeOrNothing`, `GapExplained`, `Explained`, `InsideZones`, `Routable`, `Indexed` | types and `ReconciledInv` |
| `DiagnosticsProofs` | `MemoryBounded`, `SilenceJustified`, `RepeatsJustified` | `BoundedMemory`, `SilencedOnlyByRecent`, `RepeatsOnlyWhenForgotten` | types, `MemoryInv`, `RecallInv` |
| `MetricsProofs` | `GaugesRight` | `GaugesTrack` | `MetricsTypeOK /\ MetricsInv` |
| `InspectionProofs` | `NoLastingFaultMissed`, `NoFalseAlarm` | `LastingFaultShown`, `AlarmHasCause` | types, `ShownInv`, `CauseInv` |
| `ShowProofs` | `SuccessComplete`, `VerdictsTrue` | `SuccessIsComplete`, `VerdictWasTrue` | `ShowTypeOK /\ ShowInv` |

Why each invariant is needed, and how the argument goes:

* `IInv == TypeOK /\ CoherentCopies /\ AttemptsValid`. Neither fail-closed nor the
  contract is inductive: they speak of the stored object, while a write is computed
  from the object a worker holds and a time in the past. `CoherentCopies` closes the
  gap: if the write will be accepted, the held object *is* the stored one, and the
  clock was read after that version was written. `AttemptsValid` adds that a worker
  only writes from an object that passed the checks of its own path (`Checked`): those of
  `applyOne` before an update, the fewer ones of `Advance` before an expiry. `Preserved` is the
  frame lemma for the steps that write no object; `AcceptedWrite` derives that a
  committed write replaces a valid stored object by `Build` or `Advanced` of it;
  `BuildAllowed` and `AdvancedAllowed` show, target by target, that the contract
  allows such a result, and `WriteIsRewrite` assembles the abstract step.
* `WakeInv`. A deadline is forgotten only where the lifecycle controller drops a key:
  for an object it stops at, that it does not see, or that carries another source's
  UID. Until somebody edits an object (`~tampered`) the invariant excludes the first
  two, because what the cache shows is `Intact`, and the last by `UidsKnown`: the
  informer knows a UID before any object carries it. `PublishesKnown` is needed for
  `Intact`: what is published carries the UID of its source, so no object is created
  without one. After an edit the claim is false: `repair_resumes` is a counterexample.
* `WatchInv`. What the running or else the last reconcile of a source has read is led
  from the source itself, key by key, and is current unless the source is `Woken`:
  queued, excused by a logged failure, or concerned by an event still to be mapped.
  `RequestsServe` shows that the mapper of such an event enqueues the source (or logs),
  `ConcernsKept` that an edit does not redirect a pending event without adding one of
  its own, `ViewKept` and `LedGrows` what a read adds to a view.
* `Records` needs no history: `Combined` and `CombinedTargets` say which targets and
  deadlines an assembled list of endpoints has, whichever copy lends its TTL;
  `BuildRefines` and `AdvanceFacts` compare that with the writer's sets, `ChoiceMade`
  and `BuildAgain` show the fixed point.
* `ReconciledInv`: while the cluster is as the last reconcile saw it, that reconcile
  applied and reported everything of every provider, or failed and said so. The
  properties about zones, backends and indexes follow from lemmas about `Projection`.
* `MemoryInv`: no source is listed twice, which makes the length of the list the
  number of tracked sources. `RecallInv`: what the emitter remembers is the last
  emission, and it forgets one that is not resolved only at a bound.
* `MetricsInv`: every key is queued, or held by a worker that has read the object as it
  is, or held by none and counted as its object calls for; the gauges are what the
  counts add up to. That no worker holds a counted key is needed: a reconcile
  with an outdated object would spoil a right count. It cannot, because a key that
  changes meanwhile is queued and its worker is not free to take it.
* `ShownInv`: a lasting fault is among the alarms or its read is still to come; reads of
  Gateway API resources are only added once the controllers have been read. `CauseInv`:
  every fault there is has been met, Pods exist only while there is a replica, and a
  Gateway API resource is read only if the Deployment asked for it since the command
  began. Lemma `SameReading` shows that the CLI and the flag package read any list
  of arguments alike.
* `ShowInv`: a record is worked on while one is left, and a lookup has seen the zone as
  it is.

Assumptions on constants, beside types of the bounds: objects of different kinds
differ; "no source", "no node" and the like are not in the sets they stand beside;
hostnames and zones are sequences of labels; the Gateway API resources have names of
their own and are finitely many; the keys counted by the gauges are finitely many; the
lifecycle controller is no source kind. TLC evaluates all of them in the runs.

The gauge of pending targets is a fold, about which nothing can be proved by induction
over its data here. `GaugesTrack` therefore says *what* is added up: the pending targets
of every counted object, and of some unparsable ones what they once had. The proof needs
of the fold only that nothing adds up to zero (`SumOfEmpty`, from the equation of its
recursive function on the empty set).

What proof attempts corrected: `Compare` in `Show` and `RetireAt` in `Records` were
`CASE`s with overlapping arms, of which TLA+ may choose either although the code takes
the first; `Init` of `DependencyWatch`, which no run uses, bound `Start` inside its
quantifier over objects.

Only model-checked: `Convergence` and `ExpiryProgress`, liveness under fairness being
out of the prover's reach, and the four disagreements above, which are counterexamples.

## Not modelled

* Leader election: the hand-over is controller-runtime's; `LabDNS` restarts the
  manager, and a write of the old leader that arrives late is rejected or accepted
  by its resourceVersion like any other.
* Syntax of hostnames, addresses, durations and annotations: pure string functions
  with a valid or invalid outcome, which the models choose freely.
* The precedence of TTL, delay and provider properties: assignments in sequence.
* CLI: filters, kubeconfig, sorting, JSON, tables and colours (`output.go`): no
  state, only text.
* API types and generated code, charts and manifests.

## Plan

1. Core: writer, both controllers, contract, proofs (done).
2. Watches and mappers with failing lists, diagnostics emitter (done).
3. Records, projection, resolver, metrics, status and show (done).
4. Proofs of every safety property the runs check (done).
5. Next: lemmas towards convergence that need no fairness, such as an invariant that
   a source whose objects differ from its publication has work pending; a common
   abstract specification for the reconciles of `Resolver` and `LabDNS`.
