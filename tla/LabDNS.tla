------------------------------- MODULE LabDNS -------------------------------
(***************************************************************************)
(* The labdns manager around one source (an Ingress or a Gateway route) and *)
(* the DNSEndpoints generated for it, one per DNSProvider:                  *)
(*                                                                          *)
(*  - the API server (api) and the manager's informer caches (cached,       *)
(*    seenSrc, seenDeps), which lag behind it and from which every          *)
(*    reconcile reads;                                                      *)
(*  - the source controller, which turns the source and what it depends on  *)
(*    into one publication per provider and calls Writer.Apply;             *)
(*  - the lifecycle controller, which retires objects whose source is gone  *)
(*    (Writer.Apply with no publication) and removes targets whose deadline *)
(*    has passed (Writer.Advance);                                          *)
(*  - the outside world: users who edit the source, its dependencies or the *)
(*    DNSEndpoints, ExternalDNS, which writes the status, and restarts.     *)
(*                                                                          *)
(* Object names are derived from the source's identity, so two sources      *)
(* never share a DNSEndpoint and one source stands for all of them.  Both   *)
(* controllers run one worker (MaxConcurrentReconciles is 1), and the two   *)
(* workers interleave at every read of a cache and every write.             *)
(***************************************************************************)
EXTENDS DNSEndpointWriter

CONSTANTS Providers,        \* DNSProvider names, as integers: names are sorted
          Delays,           \* deletion delays a publication may ask for
          MaxAttempts,      \* steps of retry.DefaultRetry
          Horizon,          \* bound: the clock stops here
          MaxUid,           \* bound: incarnations of the source
          MaxDisturbances,  \* bound: steps of the outside world
          Disturbances,     \* the kinds of outside steps this instance allows
          Unreliable        \* writes may fail, or succeed without an answer

ASSUME ProvidersAssumption == Providers \subseteq Nat
ASSUME DelaysAssumption == Delays \subseteq Nat /\ Delays # {}
ASSUME BoundsAssumption == /\ MaxAttempts \in Nat \ {0}
                           /\ Horizon \in Nat
                           /\ MaxUid \in Nat \ {0}
                           /\ MaxDisturbances \in Nat
ASSUME DisturbancesAssumption ==
    Disturbances \subseteq {"source", "invalid", "delete", "recreate", "provider",
                            "corrupt", "relabel", "identity", "edit", "remove",
                            "status", "restart", "gateway"}
ASSUME UnreliableAssumption == Unreliable \in BOOLEAN

Workers == {"source", "lifecycle"}

VARIABLES
    now,        \* wall clock
    api,        \* the DNSEndpoints in the API server
    written,    \* when the stored version of each DNSEndpoint was written
    cached,     \* the informer's copy of the DNSEndpoints
    fresh,      \* the copies of each DNSEndpoint that have its stored
                \* resourceVersion: the cache's and the ones workers hold
    src,        \* the source object in the API server
    seenSrc,    \* the informer's copy of it
    deps,       \* what the source depends on: providers, backends, Nodes
    seenDeps,   \* the informers' copy of them
    gateway,    \* the source's kind is watched (GatewayEnabled, or an Ingress)
    srcQueued,  \* the source's key waits in the source controller's queue
    due,        \* when each DNSEndpoint's key is ready in the lifecycle queue
    pc,         \* what each worker does next
    uid,        \* identity.UID of the running Apply
    want,       \* the publications of the running Apply
    todo,       \* providers the running Apply has not handled yet
    tries,      \* conflicts of the running RetryOnConflict
    held,       \* the object the running attempt has read
    at,         \* when the running attempt read the clock
    key,        \* the lifecycle request's provider, NoKey when there is none
    next,       \* Advance's delay until the next deadline, 0 when unset
    disturbances,\* outside steps so far
    tampered    \* somebody has edited a DNSEndpoint by hand

\* The key is not in the lifecycle queue.
Never == -1

NoKey == -1

cluster == <<api, written, cached, fresh>>
inputs == <<src, seenSrc, deps, seenDeps, gateway>>
queues == <<srcQueued, due>>
job == <<uid, want, todo>>
attempt == <<tries, held, at>>
world == <<disturbances, tampered>>
vars == <<now, cluster, inputs, queues, pc, job, attempt, key, next, world>>

\* seenSrc.live is FALSE when the Get of the source answers NotFound.  bad:
\* annotations, projection or resolution fail with an Invalid error.  sel: the
\* providers an enabled source selects.
Source == [live : BOOLEAN, uid : Nat \ {0}, bad : BOOLEAN, sel : SUBSET Providers]

\* found: the DNSProvider exists.  targets, delay: what the resolver publishes.
Missing == [found |-> FALSE, targets |-> {}, delay |-> 0]

Dependency == {Missing} \cup [found : {TRUE}, targets : SUBSET Targets, delay : Delays]

NoWant == [p \in Providers |-> NoPublication]

-----------------------------------------------------------------------------
(***************************************************************************)
(* Cached reads and queues.                                                 *)
(***************************************************************************)

\* The source controller's publications: a provider that does not exist is
\* deselected, one that resolves to no target is selected with no records.
Publications(s, d) ==
    [p \in Providers |->
        IF p \in s.sel /\ d[p].found
        THEN [selected |-> TRUE, targets |-> d[p].targets, delay |-> d[p].delay]
        ELSE NoPublication]

\* AddAfter keeps the earlier of two times for a key.
Sooner(a, b) == IF a = Never \/ b < a THEN b ELSE a

NoAttempt(w) ==
    /\ tries' = [tries EXCEPT ![w] = 0]
    /\ held' = [held EXCEPT ![w] = Absent]
    /\ at' = [at EXCEPT ![w] = 0]

\* A worker ends its reconcile and forgets the request.
Idle(w) ==
    /\ pc' = [pc EXCEPT ![w] = "idle"]
    /\ uid' = [uid EXCEPT ![w] = 0]
    /\ want' = [want EXCEPT ![w] = NoWant]
    /\ todo' = [todo EXCEPT ![w] = {}]
    /\ key' = IF w = "lifecycle" THEN NoKey ELSE key
    /\ next' = IF w = "lifecycle" THEN 0 ELSE next
    /\ NoAttempt(w)

\* A TerminalError, or success without RequeueAfter: the key is not requeued.
Stop(w) == Idle(w) /\ UNCHANGED queues

\* Mutant: every error is terminal.
GiveUp(w) == Idle(w) /\ UNCHANGED queues

\* Any other error: the key goes back to its queue, rate limited.
Requeue(w) ==
    /\ Idle(w)
    /\ srcQueued' = (srcQueued \/ w = "source")
    /\ due' = IF w = "lifecycle" THEN [due EXCEPT ![key] = 0] ELSE due

\* Mutant: Apply returns after its first provider.
ProceedOnce(w, rest) ==
    \/ /\ rest # {} /\ pc[w] = "list"
       /\ pc' = [pc EXCEPT ![w] = "get"]
       /\ todo' = [todo EXCEPT ![w] = rest]
       /\ NoAttempt(w)
       /\ UNCHANGED <<queues, uid, want, key, next>>
    \/ (rest = {} \/ pc[w] # "list") /\ w = "source" /\ Stop(w)
    \/ /\ rest = {} \/ pc[w] # "list"
       /\ w = "lifecycle"
       /\ pc' = [pc EXCEPT ![w] = "advance"]
       /\ uid' = [uid EXCEPT ![w] = 0]
       /\ todo' = [todo EXCEPT ![w] = {}]
       /\ NoAttempt(w)
       /\ UNCHANGED <<queues, want, key, next>>

\* Apply has yet to handle rest: the next provider, or Apply returns.  The
\* source controller then is done; the lifecycle controller calls Advance.
Proceed(w, rest) ==
    \/ /\ rest # {}
       /\ pc' = [pc EXCEPT ![w] = "get"]
       /\ todo' = [todo EXCEPT ![w] = rest]
       /\ NoAttempt(w)
       /\ UNCHANGED <<queues, uid, want, key, next>>
    \/ rest = {} /\ w = "source" /\ Stop(w)
    \/ /\ rest = {} /\ w = "lifecycle"
       /\ pc' = [pc EXCEPT ![w] = "advance"]
       /\ uid' = [uid EXCEPT ![w] = 0]
       /\ todo' = [todo EXCEPT ![w] = {}]
       /\ NoAttempt(w)
       /\ UNCHANGED <<queues, want, key, next>>

-----------------------------------------------------------------------------
(***************************************************************************)
(* Informers.  An event enqueues the object's key with the lifecycle        *)
(* controller and, through the mappers of setup.go, the source's key with   *)
(* the source controller.                                                   *)
(***************************************************************************)
\* Mutant: the source controller does not watch DNSEndpoints.
SyncLifecycleOnly(p) ==
    /\ "cache" \notin fresh[p]
    /\ cached' = [cached EXCEPT ![p] = api[p]]
    /\ fresh' = [fresh EXCEPT ![p] = @ \cup {"cache"}]
    /\ due' = [due EXCEPT ![p] = 0]
    /\ UNCHANGED <<now, api, written, inputs, srcQueued, pc, job, attempt, key, next,
                   world>>

\* The mappers read the source's name in the annotations of the old and of the
\* new version.
NamesSource(p) == \E o \in {cached[p], api[p]} : Exists(o) /\ "identity" \notin o.flaws

SyncObject(p) ==
    /\ "cache" \notin fresh[p]
    /\ cached' = [cached EXCEPT ![p] = api[p]]
    /\ fresh' = [fresh EXCEPT ![p] = @ \cup {"cache"}]
    /\ due' = [due EXCEPT ![p] = 0]
    /\ srcQueued' = (srcQueued \/ (gateway /\ NamesSource(p)))
    /\ UNCHANGED <<now, api, written, inputs, pc, job, attempt, key, next, world>>

SyncSource ==
    /\ seenSrc # src
    /\ seenSrc' = src
    /\ srcQueued' = gateway
    /\ UNCHANGED <<now, cluster, src, deps, seenDeps, gateway, due, pc, job,
                   attempt, key, next, world>>

SyncDeps ==
    /\ seenDeps # deps
    /\ seenDeps' = deps
    /\ srcQueued' = gateway
    /\ UNCHANGED <<now, cluster, src, seenSrc, deps, gateway, due, pc, job,
                   attempt, key, next, world>>

-----------------------------------------------------------------------------
(***************************************************************************)
(* The source controller reads the source and its dependencies and calls    *)
(* Apply; a source that fails validation ends the reconcile for good.       *)
(***************************************************************************)
SourceReconcile ==
    /\ pc["source"] = "idle"
    /\ srcQueued
    /\ srcQueued' = FALSE
    /\ \/ /\ seenSrc.live /\ seenSrc.bad
          /\ UNCHANGED <<pc, uid, want>>
       \/ /\ ~seenSrc.live
          /\ pc' = [pc EXCEPT !["source"] = "list"]
          /\ UNCHANGED <<uid, want>>
       \/ /\ seenSrc.live /\ ~seenSrc.bad
          /\ pc' = [pc EXCEPT !["source"] = "list"]
          /\ uid' = [uid EXCEPT !["source"] = seenSrc.uid]
          /\ want' = [want EXCEPT !["source"] = Publications(seenSrc, seenDeps)]
    /\ UNCHANGED <<now, cluster, inputs, due, todo, attempt, key, next, world>>

(***************************************************************************)
(* The lifecycle controller.  A missing source, or a route kind that is not *)
(* watched any more, retires the whole source; a source with another UID    *)
(* ends the reconcile; the source that wrote the object only advances it.   *)
(***************************************************************************)
Retires == ~gateway \/ ~seenSrc.live

OtherSource(o) == ~Retires /\ seenSrc.uid # o.uid

\* The labels, the object's name and the annotations that name the source do
\* not fit together, or the UID is gone.
Inconsistent(o) == o.flaws \cap {"source-key", "provider", "identity"} # {} \/ o.uid = 0

\* The lifecycle controller goes on with such an object; the stored delay is
\* read only by the calls it makes.
Consistent(o) == Managed(o) /\ "lifecycle" \notin o.flaws /\ ~Inconsistent(o)

LifecycleReconcile(p) ==
    /\ pc["lifecycle"] = "idle"
    /\ due[p] # Never
    /\ due[p] <= now
    /\ due' = [due EXCEPT ![p] = Never]
    /\ \/ /\ ~Consistent(cached[p]) \/ OtherSource(cached[p])
          /\ UNCHANGED <<pc, uid, key>>
       \/ /\ Consistent(cached[p]) /\ ~OtherSource(cached[p])
          /\ key' = p
          /\ \/ /\ Retires
                /\ pc' = [pc EXCEPT !["lifecycle"] = "list"]
                /\ uid' = [uid EXCEPT !["lifecycle"] = cached[p].uid]
             \/ /\ ~Retires
                /\ pc' = [pc EXCEPT !["lifecycle"] = "advance"]
                /\ UNCHANGED uid
    /\ UNCHANGED <<now, cluster, inputs, srcQueued, want, todo, attempt, next,
                   world>>

-----------------------------------------------------------------------------
(***************************************************************************)
(* Writer.Apply.  The List validates every object of the source before the  *)
(* first write; the providers are then handled in the order of their names. *)
(***************************************************************************)
Accepted(o) == Valid(o) /\ "provider" \notin o.flaws

ApplyList(w) ==
    LET listed == {p \in Providers : Listed(cached[p])}
    IN  /\ pc[w] = "list"
        /\ \/ /\ \E p \in listed : ~Accepted(cached[p])
              /\ Stop(w)
           \/ /\ \A p \in listed : Accepted(cached[p])
              /\ Proceed(w, listed \cup {p \in Providers : want[w][p].selected})
        /\ UNCHANGED <<now, cluster, inputs, world>>

\* The provider applyOne works on.
Handles(w, p) == p \in todo[w] /\ \A q \in todo[w] : p <= q

\* The ownership check of applyOne, or build, rejects the object.
Refused(o) == Exists(o) /\ (o.flaws \cap LabelFlaws # {} \/ ~Valid(o))

\* No object and nothing to publish, or build returns what is already there.
NothingToWrite(o, pub, u, time) ==
    \/ ~Exists(o) /\ (~pub.selected \/ pub.targets = {})
    \/ Exists(o) /\ ~Refused(o) /\ Build(o, pub, u, time) = o

\* Mutant: the write carries the stored resourceVersion, not the one read.
HoldLatest(w, p) ==
    /\ held' = [held EXCEPT ![w] = cached[p]]
    /\ fresh' = [fresh EXCEPT ![p] = @ \cup {w}]
    /\ at' = [at EXCEPT ![w] = now]

\* An attempt keeps the object it read, with its resourceVersion, and the time.
Hold(w, p) ==
    /\ held' = [held EXCEPT ![w] = cached[p]]
    /\ fresh' = [fresh EXCEPT ![p] = IF "cache" \in @ THEN @ \cup {w} ELSE @ \ {w}]
    /\ at' = [at EXCEPT ![w] = now]

ApplyGet(w, p) ==
    /\ pc[w] = "get"
    /\ Handles(w, p)
    /\ \/ /\ Refused(cached[p])
          /\ Stop(w)
          /\ UNCHANGED fresh
       \/ /\ NothingToWrite(cached[p], want[w][p], uid[w], now)
          /\ Proceed(w, todo[w] \ {p})
          /\ UNCHANGED fresh
       \/ /\ ~Refused(cached[p])
          /\ ~NothingToWrite(cached[p], want[w][p], uid[w], now)
          /\ pc' = [pc EXCEPT ![w] = "write"]
          /\ Hold(w, p)
          /\ UNCHANGED <<queues, job, tries, key, next>>
    /\ UNCHANGED <<now, api, written, cached, inputs, world>>

(***************************************************************************)
(* Writer.Advance.  Of the labels it looks at managed-by alone.             *)
(***************************************************************************)

\* Mutant: the delay until the next deadline is not returned.
FinishWithoutTimer(n) == Idle("lifecycle") /\ UNCHANGED queues

\* Reconcile returns RequeueAfter: n, where 0 asks for no requeue.
Finish(n) ==
    /\ Idle("lifecycle")
    /\ due' = IF n = 0 THEN due ELSE [due EXCEPT ![key] = Sooner(@, now + n)]
    /\ UNCHANGED srcQueued

AdvanceGet(p) ==
    /\ pc["lifecycle"] = "advance"
    /\ key = p
    /\ \/ /\ ~Managed(cached[p])
          /\ Finish(next)
          /\ UNCHANGED fresh
       \/ /\ Managed(cached[p]) /\ ~Valid(cached[p])
          /\ Stop("lifecycle")
          /\ UNCHANGED fresh
       \/ /\ Managed(cached[p]) /\ Valid(cached[p])
          /\ \E n \in NextWake(cached[p], now, next) :
               \/ /\ Expired(cached[p], now) = {}
                  /\ Finish(n)
                  /\ UNCHANGED fresh
               \/ /\ Expired(cached[p], now) # {}
                  /\ pc' = [pc EXCEPT !["lifecycle"] = "expire"]
                  /\ next' = n
                  /\ Hold("lifecycle", p)
                  /\ UNCHANGED <<queues, job, tries, key>>
    /\ UNCHANGED <<now, api, written, cached, inputs, world>>

-----------------------------------------------------------------------------
(***************************************************************************)
(* Writes.  Create needs the object absent; Update and Delete carry the     *)
(* resourceVersion of the object the attempt read.                          *)
(***************************************************************************)
Writes(w, p) == \/ pc[w] = "write" /\ Handles(w, p)
                \/ pc[w] = "expire" /\ key = p

Outcome(w, p) == IF pc[w] = "write" THEN Build(held[w], want[w][p], uid[w], at[w])
                                    ELSE Advanced(held[w], at[w])

\* Mutant: the write carries no resourceVersion.
AcceptsAnyVersion(w, p) == Exists(held[w]) <=> Exists(api[p])

Accepts(w, p) == IF Exists(held[w]) THEN Exists(api[p]) /\ w \in fresh[p]
                                    ELSE ~Exists(api[p])

\* applyOne turns AlreadyExists into a conflict.
Conflicts(w, p) == Exists(api[p]) /\ (Exists(held[w]) => w \notin fresh[p])

\* Object p gets a new version: no copy has the stored resourceVersion now.
Store(p, o) ==
    /\ api' = [api EXCEPT ![p] = o]
    /\ written' = [written EXCEPT ![p] = now]
    /\ fresh' = [fresh EXCEPT ![p] = {}]
    /\ UNCHANGED cached

\* The write succeeds: applyOne returns, or Advance does.
Commit(w, p) ==
    /\ Writes(w, p)
    /\ Accepts(w, p)
    /\ Store(p, Outcome(w, p))
    /\ \/ pc[w] = "write" /\ Proceed(w, todo[w] \ {p})
       \/ pc[w] = "expire" /\ Finish(next)
    /\ UNCHANGED <<now, inputs, world>>

\* The write succeeds but the answer is lost: the reconcile fails.
LoseReply(w, p) ==
    /\ Unreliable
    /\ Writes(w, p)
    /\ Accepts(w, p)
    /\ Store(p, Outcome(w, p))
    /\ Requeue(w)
    /\ UNCHANGED <<now, inputs, world>>

\* RetryOnConflict reads the object again, or gives up and returns the conflict.
Retry(w, p) ==
    /\ Writes(w, p)
    /\ Conflicts(w, p)
    /\ \/ /\ tries[w] + 1 < MaxAttempts
          /\ pc' = [pc EXCEPT ![w] = IF @ = "write" THEN "get" ELSE "advance"]
          /\ tries' = [tries EXCEPT ![w] = @ + 1]
          /\ held' = [held EXCEPT ![w] = Absent]
          /\ at' = [at EXCEPT ![w] = 0]
          /\ UNCHANGED <<queues, job, key, next>>
       \/ /\ tries[w] + 1 >= MaxAttempts
          /\ Requeue(w)
    /\ UNCHANGED <<now, cluster, inputs, world>>

\* NotFound, or an error of the API server that leaves the object as it is.
Fail(w, p) ==
    /\ Writes(w, p)
    /\ Unreliable \/ (Exists(held[w]) /\ ~Exists(api[p]))
    /\ Requeue(w)
    /\ fresh' = [fresh EXCEPT ![p] = @ \ {w}]
    /\ UNCHANGED <<now, api, written, cached, inputs, world>>

-----------------------------------------------------------------------------
(***************************************************************************)
(* The outside world.                                                       *)
(***************************************************************************)
\* Edits by hand after which an object need not be what labdns wrote.
Corrupting == {"corrupt", "relabel", "identity", "edit"}

Disturb(kind) ==
    /\ kind \in Disturbances
    /\ disturbances < MaxDisturbances
    /\ disturbances' = disturbances + 1
    /\ tampered' = (tampered \/ kind \in Corrupting)

Tick ==
    /\ now < Horizon
    /\ now' = now + 1
    /\ UNCHANGED <<cluster, inputs, queues, pc, job, attempt, key, next, world>>

\* Users edit, delete or re-create the source; a new object has a new UID.
ChangeSource(s) ==
    /\ s # src
    /\ src' = s
    /\ UNCHANGED <<now, cluster, seenSrc, deps, seenDeps, gateway, queues, pc, job,
                   attempt, key, next>>

EditSource ==
    /\ Disturb("source")
    /\ src.live
    /\ \E s \in SUBSET Providers : ChangeSource([src EXCEPT !.sel = s, !.bad = FALSE])

BreakSource ==
    /\ Disturb("invalid")
    /\ src.live
    /\ ChangeSource([src EXCEPT !.bad = TRUE])

DeleteSource ==
    /\ Disturb("delete")
    /\ src.live
    /\ ChangeSource([src EXCEPT !.live = FALSE, !.bad = FALSE])

CreateSource ==
    /\ Disturb("recreate")
    /\ ~src.live
    /\ src.uid < MaxUid
    /\ \E b \in BOOLEAN :
         /\ b => "invalid" \in Disturbances
         /\ ChangeSource([src EXCEPT !.live = TRUE, !.uid = @ + 1, !.bad = b])

\* A provider, a backend or a Node changes what the source resolves to.
ChangeDeps(p) ==
    /\ Disturb("provider")
    /\ \E d \in Dependency : d # deps[p] /\ deps' = [deps EXCEPT ![p] = d]
    /\ UNCHANGED <<now, cluster, src, seenSrc, seenDeps, gateway, queues, pc, job,
                   attempt, key, next>>

\* What a user may make of a DNSEndpoint by hand: break or repair one of its
\* annotations, change a label or set it back, give it another UID, edit its
\* spec, delete it.
Toggled(o, flaw) == [o EXCEPT !.flaws = IF flaw \in @ THEN @ \ {flaw} ELSE @ \cup {flaw}]

Tampered(o, kind) ==
    CASE kind = "corrupt"  -> {Toggled(o, f) : f \in {"lifecycle", "delay"}}
      [] kind = "relabel"  -> {Toggled(o, f) : f \in LabelFlaws}
      [] kind = "identity" -> {Toggled(o, "identity")} \cup {[o EXCEPT !.uid = u] : u \in 0 .. MaxUid}
      [] kind = "edit"     -> {[o EXCEPT !.spec = t] : t \in SUBSET Targets}
      [] kind = "remove"   -> {Absent}

Tampering == Corrupting \cup {"remove"}

Tamper(p, kind) ==
    /\ Disturb(kind)
    /\ Exists(api[p])
    /\ \E o \in Tampered(api[p], kind) \ {api[p]} : Store(p, o)
    /\ UNCHANGED <<now, inputs, queues, pc, job, attempt, key, next>>

\* ExternalDNS updates the status: the content labdns reads is the same.
UpdateStatus(p) ==
    /\ Disturb("status")
    /\ Exists(api[p])
    /\ Store(p, api[p])
    /\ UNCHANGED <<now, inputs, queues, pc, job, attempt, key, next>>

(***************************************************************************)
(* The manager stops and starts again: workers, queues and delayed keys are *)
(* lost, the informers list everything and enqueue it.  Whether route kinds *)
(* are watched is decided at start.                                         *)
(***************************************************************************)
Restart(g) ==
    /\ Disturb(IF g = gateway THEN "restart" ELSE "gateway")
    /\ gateway' = g
    /\ cached' = api
    /\ fresh' = [p \in Providers |-> {"cache"}]
    /\ seenSrc' = src
    /\ seenDeps' = deps
    /\ due' = [p \in Providers |-> IF Exists(api[p]) THEN 0 ELSE Never]
    /\ srcQueued' = (g /\ (src.live \/ \E p \in Providers :
                                 Exists(api[p]) /\ "identity" \notin api[p].flaws))
    /\ pc' = [w \in Workers |-> "idle"]
    /\ uid' = [w \in Workers |-> 0]
    /\ want' = [w \in Workers |-> NoWant]
    /\ todo' = [w \in Workers |-> {}]
    /\ tries' = [w \in Workers |-> 0]
    /\ held' = [w \in Workers |-> Absent]
    /\ at' = [w \in Workers |-> 0]
    /\ key' = NoKey
    /\ next' = 0
    /\ UNCHANGED <<now, api, written, src, deps>>

-----------------------------------------------------------------------------
\* The manager starts on a cluster that holds the objects in a; the informers
\* list everything and enqueue it.
Start(a, s, d) ==
    /\ now = 0
    /\ api = a
    /\ written = [p \in Providers |-> 0]
    /\ cached = a
    /\ fresh = [p \in Providers |-> {"cache"}]
    /\ src = s
    /\ seenSrc = s
    /\ deps = d
    /\ seenDeps = d
    /\ gateway = TRUE
    /\ srcQueued = TRUE
    /\ due = [p \in Providers |-> IF Exists(a[p]) THEN 0 ELSE Never]
    /\ pc = [w \in Workers |-> "idle"]
    /\ uid = [w \in Workers |-> 0]
    /\ want = [w \in Workers |-> NoWant]
    /\ todo = [w \in Workers |-> {}]
    /\ tries = [w \in Workers |-> 0]
    /\ held = [w \in Workers |-> Absent]
    /\ at = [w \in Workers |-> 0]
    /\ key = NoKey
    /\ next = 0
    /\ disturbances = 0
    /\ tampered = FALSE

\* The first start: a new source and no object yet.
Init == \E d \in [Providers -> Dependency] :
            Start([p \in Providers |-> Absent],
                  [live |-> TRUE, uid |-> 1, bad |-> FALSE, sel |-> Providers], d)

Inform == \/ \E p \in Providers : SyncObject(p)
          \/ SyncSource
          \/ SyncDeps

Answer(w) == \E p \in Providers : \/ Commit(w, p)
                                  \/ LoseReply(w, p)
                                  \/ Retry(w, p)
                                  \/ Fail(w, p)

Work(w) == \/ ApplyList(w)
           \/ \E p \in Providers : ApplyGet(w, p)
           \/ Answer(w)

World == \/ Tick
         \/ EditSource
         \/ BreakSource
         \/ DeleteSource
         \/ CreateSource
         \/ \E p \in Providers : \/ ChangeDeps(p)
                                 \/ UpdateStatus(p)
                                 \/ \E kind \in Tampering : Tamper(p, kind)
         \/ \E g \in BOOLEAN : Restart(g)

Next == \/ Inform
        \/ SourceReconcile
        \/ \E p \in Providers : LifecycleReconcile(p) \/ AdvanceGet(p)
        \/ \E w \in Workers : Work(w)
        \/ World

Spec == Init /\ [][Next]_vars

(***************************************************************************)
(* Informers deliver, workers run and each key of a queue has its turn; the *)
(* API server does not fail every write for ever; time passes.  The rest of *)
(* the world owes nothing.                                                  *)
(***************************************************************************)
Fairness ==
    /\ WF_vars(Tick)
    /\ \A p \in Providers : WF_vars(SyncObject(p)) /\ SF_vars(LifecycleReconcile(p))
    /\ WF_vars(SyncSource)
    /\ WF_vars(SyncDeps)
    /\ WF_vars(SourceReconcile)
    /\ WF_vars(\E p \in Providers : AdvanceGet(p))
    /\ \A w \in Workers : /\ WF_vars(Work(w))
                          /\ SF_vars(\E p \in Providers : Commit(w, p))

FairSpec == Spec /\ Fairness

-----------------------------------------------------------------------------
(***************************************************************************)
(* Properties.                                                              *)
(***************************************************************************)

\* Every variable has its type.
TypeOK ==
    /\ now \in Nat
    /\ api \in [Providers -> ObjectOrAbsent]
    /\ written \in [Providers -> Nat]
    /\ cached \in [Providers -> ObjectOrAbsent]
    /\ fresh \in [Providers -> SUBSET (Workers \cup {"cache"})]
    /\ src \in Source /\ seenSrc \in Source
    /\ deps \in [Providers -> Dependency] /\ seenDeps \in [Providers -> Dependency]
    /\ gateway \in BOOLEAN
    /\ srcQueued \in BOOLEAN
    /\ due \in [Providers -> Nat \cup {Never}]
    /\ pc \in [Workers -> {"idle", "list", "get", "write", "advance", "expire"}]
    /\ uid \in [Workers -> Nat]
    /\ want \in [Workers -> [Providers -> Publication]]
    /\ todo \in [Workers -> SUBSET Providers]
    /\ tries \in [Workers -> 0 .. MaxAttempts - 1]
    /\ held \in [Workers -> ObjectOrAbsent]
    /\ at \in [Workers -> Nat]
    /\ key \in Providers \cup {NoKey}
    /\ next \in Nat
    /\ disturbances \in Nat
    /\ tampered \in BOOLEAN

\* A resourceVersion that is still the stored one vouches for the content: the
\* cache, and an attempt about to write, hold exactly the stored object, and an
\* attempt read the clock no earlier than that version was written.
CoherentCopies ==
    /\ \A p \in Providers : "cache" \in fresh[p] => cached[p] = api[p]
    /\ \A p \in Providers : written[p] <= now
    /\ \A w \in Workers, p \in Providers :
          /\ Writes(w, p) => at[w] <= now
          /\ Writes(w, p) /\ w \in fresh[p] => held[w] = api[p] /\ written[p] <= at[w]

\* An attempt writes only from an object it has accepted, and only the lifecycle
\* controller runs Advance.
Checked(w) == /\ pc[w] = "write" => ~Refused(held[w])
              /\ pc[w] = "expire" => Managed(held[w]) /\ Valid(held[w])

AttemptsValid ==
    /\ pc["source"] \notin {"advance", "expire"}
    /\ \A w \in Workers, p \in Providers : Writes(w, p) => Checked(w)

\* The inductive invariant of the proofs.
IInv == TypeOK /\ CoherentCopies /\ AttemptsValid

\* What labdns writes: metadata it accepts itself, and something published.
Intact(o) == o.flaws = {} /\ o.uid # 0 /\ Valid(o) /\ o.spec # {}

\* labdns never makes an object it would reject itself: as long as nobody edits
\* one by hand, every stored object is intact and publishes something.
NeverSelfCorrupts == ~tampered => \A p \in Providers : Exists(api[p]) => Intact(api[p])

\* No wake-up is lost: as long as nobody edits an object by hand, and while the
\* object's source has not been re-created under another UID, a pending
\* target's object has a key in the lifecycle queue, is being worked on by the
\* lifecycle controller, or has an event on its way.
AlarmSet ==
    ~tampered =>
        \A p \in Providers :
            Pending(api[p]) # {} /\ api[p].uid = src.uid =>
                \/ "cache" \notin fresh[p]
                \/ due[p] # Never
                \/ key = p

\* A UID is known to the informer before any worker or object carries it.
UidsKnown ==
    /\ seenSrc.uid <= src.uid
    /\ ~tampered =>
          /\ \A p \in Providers : api[p].uid <= seenSrc.uid /\ cached[p].uid <= seenSrc.uid
          /\ \A w \in Workers : uid[w] <= seenSrc.uid /\ held[w].uid <= seenSrc.uid

\* Apply publishes nothing without the source's UID.
PublishesKnown == /\ want["lifecycle"] = NoWant
                  /\ uid["source"] = 0 => want["source"] = NoWant

\* The inductive invariant of the proof of AlarmSet, beside IInv: the cache has
\* shown intact objects only, and the lifecycle controller has a key while it works.
WakeInv ==
    /\ UidsKnown
    /\ PublishesKnown
    /\ key \in Providers <=> pc["lifecycle"] # "idle"
    /\ ~tampered => \A p \in Providers : Exists(cached[p]) => Intact(cached[p])
    /\ NeverSelfCorrupts
    /\ AlarmSet

\* Fail closed: labdns never writes to or deletes an object that is not its own
\* or does not parse, even when its cache still shows the version from before
\* the edit; and one whose source-key or provider label has been changed is
\* touched by the expiry of its targets at most (the lifecycle controller checks
\* those labels before it calls Advance, which does not).
FailClosed ==
    [][\A p \in Providers :
          disturbances' = disturbances =>
             /\ Exists(api[p]) /\ ~(Managed(api[p]) /\ Valid(api[p])) => api'[p] = api[p]
             /\ Refused(api[p]) =>
                   \/ api'[p] = api[p]
                   \/ /\ pc["lifecycle"] = "expire"
                      /\ api'[p] = Advanced(api[p], at["lifecycle"])]_vars

\* "Invalid or inconsistent lifecycle state causes reconciliation to stop
\* without replacing the existing output": labdns leaves an object alone whose
\* source-identity metadata is inconsistent.
InconsistentKept ==
    [][\A p \in Providers :
          /\ Exists(api[p])
          /\ Inconsistent(api[p])
          /\ disturbances' = disturbances
          => api'[p] = api[p]]_vars

\* The promise about published targets, as labdns keeps it through its
\* optimistic writes from stale caches.
EntryOf(o, t) == IF t \notin o.spec THEN -2 ELSE o.deadline[t]

Contract == INSTANCE RetirementContract
    WITH Objects <- Providers, Entries <- Targets,
         clock <- now,
         entry <- [p \in Providers |-> [t \in Targets |-> EntryOf(api[p], t)]],
         grace <- [p \in Providers |-> api[p].delay],
         since <- written,
         outside <- disturbances

KeepsContract == Contract!Spec

\* The bounded clock never reaches a timer of the lifecycle queue.
OutOfTime == \E p \in Providers : due[p] > Horizon

\* What the source asks for is published under its UID and its delay; every
\* other target is pending with a deadline to come.
Desired(p) == IF gateway /\ src.live THEN Publications(src, deps)[p] ELSE NoPublication

Converged ==
    \A p \in Providers :
        LET pub == Desired(p)
        IN  /\ pub.targets = api[p].spec \ Pending(api[p])
            /\ pub.targets # {} => api[p].delay = pub.delay /\ api[p].uid = src.uid
            /\ Expired(api[p], now) = {}

\* No check of a controller rejects the object.
Whole(o) == Exists(o) => ~Refused(o) /\ ~Inconsistent(o)

Healthy == /\ ~(src.live /\ src.bad)
           /\ \A p \in Providers : Whole(api[p])

\* Once inputs stay valid, the DNSEndpoints reach what the source asks for and
\* stay there, through stale caches, conflicts, lost replies and restarts.
Convergence == <>[](Healthy /\ ~OutOfTime) => <>[]Converged

\* A target whose deadline has passed is withdrawn or wanted again, even while
\* the source cannot be reconciled; only records of a source that has been
\* created anew are left to its own reconcile.
ExpiryProgress ==
    \A p \in Providers, t \in Targets :
        (t \in Expired(api[p], now)) ~>
            (t \notin Expired(api[p], now) \/ OutOfTime \/ (src.live /\ src.uid # api[p].uid))

\* After the last invalid object has been repaired, targets whose deadline has
\* passed do not stay.
RepairResumes ==
    <>[](~OutOfTime /\ \A p \in Providers : Whole(api[p]))
        => <>[](\A p \in Providers : Expired(api[p], now) = {})

\* The lifecycle controller takes no active target away while the cache shows
\* a source that was created anew.
NewSourceKept ==
    [][\A p \in Providers :
          /\ pc["lifecycle"] = "write" /\ pc'["lifecycle"] # "write"
          /\ api'[p] # api[p]
          /\ gateway /\ seenSrc.live
          => api[p].spec \ Pending(api[p]) \subseteq api'[p].spec \ Pending(api'[p])]_vars
=============================================================================
