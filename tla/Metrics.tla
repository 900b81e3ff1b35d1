------------------------------- MODULE Metrics -------------------------------
(***************************************************************************)
(* The gauges of internal/controller/metrics.go and the reconciles that     *)
(* feed them: source_controller.go calls SetSource once per reconcile and   *)
(* lifecycle_controller.go SetEndpoint, each from what it read earlier and  *)
(* only when that could be parsed.                                          *)
(*                                                                          *)
(* Every controller counts its own objects: a source controller the sources *)
(* of its kind, the lifecycle controller the generated DNSEndpoints and     *)
(* their pending targets.  Two controllers may see objects of one name.     *)
(***************************************************************************)
EXTENDS Naturals, FiniteSets, Folds

CONSTANTS Kinds,        \* source kinds whose controllers run
          ObjectNames,  \* namespace/name keys
          Lifecycle,    \* the lifecycle controller
          MaxPending,   \* bound: pending targets of one DNSEndpoint
          MaxChanges,   \* bound: changes of objects
          MaxFailures,  \* bound: reads that fail
          MaxRestarts   \* bound: restarts of the manager

Reconcilers == Kinds \cup {Lifecycle}

ASSUME MetricsAssumption ==
    /\ Lifecycle \notin Kinds
    /\ IsFiniteSet(ObjectNames)
    /\ {MaxPending, MaxChanges, MaxFailures, MaxRestarts} \subseteq Nat

ObjectKeys == Reconcilers \X ObjectNames

(***************************************************************************)
(* What a reconcile makes of an object.  "absent": NotFound.  "other": a    *)
(* source that is disabled or selects no provider, a DNSEndpoint without    *)
(* the managed-by label.  "invalid": the source's annotations or its class, *)
(* or the lifecycle annotation, cannot be parsed.                           *)
(***************************************************************************)
Uncounted == [state : {"absent", "other", "invalid"}, pending : {0}]

Objects(c) == Uncounted \cup
              [state : {"counted"}, pending : IF c = Lifecycle THEN 0 .. MaxPending ELSE {0}]

Absent == [state |-> "absent", pending |-> 0]

VARIABLES object,    \* the caches: every key's object
          queue,     \* keys waiting for their controller
          busy,      \* what each worker has read: a set of one [name, seen], or none
          counts,    \* Metrics.sources and Metrics.endpoints, by controller
          total,     \* labdns_managed_sources by kind, labdns_generated_dnsendpoints
          pending,   \* labdns_pending_target_deletions
          changes, failures, restarts

metricsVars == <<object, queue, busy, counts, total, pending, changes, failures, restarts>>

Empty == [n \in {} |-> 0]

-----------------------------------------------------------------------------
\* A worker takes a key and reads its object.
Get(c, n) ==
    /\ busy[c] = {}
    /\ <<c, n>> \in queue
    /\ queue' = queue \ {<<c, n>>}
    /\ busy' = [busy EXCEPT ![c] = {[name |-> n, seen |-> object[<<c, n>>]]}]
    /\ UNCHANGED <<object, counts, total, pending, changes, failures, restarts>>

\* Mutant: an object that is gone keeps its count.
SetFound(c, n, seen) ==
    CASE seen.state \in {"invalid", "absent"} -> counts[c]
      [] seen.state = "counted" ->
            [m \in DOMAIN counts[c] \cup {n} |-> IF m = n THEN seen.pending ELSE counts[c][m]]
      [] OTHER -> [m \in DOMAIN counts[c] \ {n} |-> counts[c][m]]

\* SetSource, SetEndpoint: an invalid object ends the reconcile before the
\* call, with a terminal error and its old count in place.
Set(c, n, seen) ==
    CASE seen.state = "invalid" -> counts[c]
      [] seen.state = "counted" ->
            [m \in DOMAIN counts[c] \cup {n} |-> IF m = n THEN seen.pending ELSE counts[c][m]]
      [] OTHER -> [m \in DOMAIN counts[c] \ {n} |-> counts[c][m]]

SumOf(f) == MapThenFoldSet(+, 0, LAMBDA n : f[n], LAMBDA S : CHOOSE n \in S : TRUE, DOMAIN f)

\* The rest of a reconcile: the count, then the gauges from all counts.
Finish(c) ==
    \E w \in busy[c] :
        LET new == Set(c, w.name, w.seen)
        IN  /\ counts' = [counts EXCEPT ![c] = new]
            /\ total' = IF w.seen.state = "invalid" THEN total
                        ELSE [total EXCEPT ![c] = Cardinality(DOMAIN new)]
            /\ pending' = IF c = Lifecycle /\ w.seen.state # "invalid" THEN SumOf(new) ELSE pending
            /\ busy' = [busy EXCEPT ![c] = {}]
            /\ UNCHANGED <<object, queue, changes, failures, restarts>>

\* The Get fails, and the workqueue retries the key.
Fail(c) ==
    /\ failures < MaxFailures
    /\ failures' = failures + 1
    /\ \E w \in busy[c] : queue' = queue \cup {<<c, w.name>>}
    /\ busy' = [busy EXCEPT ![c] = {}]
    /\ UNCHANGED <<object, counts, total, pending, changes, restarts>>

\* An object, or for a source the class it inherits from, changes in the cache.
Change(c, n) ==
    /\ changes < MaxChanges
    /\ changes' = changes + 1
    /\ \E o \in Objects(c) \ {object[<<c, n>>]} : object' = [object EXCEPT ![<<c, n>>] = o]
    /\ queue' = queue \cup {<<c, n>>}
    /\ UNCHANGED <<busy, counts, total, pending, failures, restarts>>

\* A new manager starts with no counts; its informers report what there is.
Restart ==
    /\ restarts < MaxRestarts
    /\ restarts' = restarts + 1
    /\ queue' = {k \in ObjectKeys : object[k] # Absent}
    /\ busy' = [c \in Reconcilers |-> {}]
    /\ counts' = [c \in Reconcilers |-> Empty]
    /\ total' = [c \in Reconcilers |-> 0]
    /\ pending' = 0
    /\ UNCHANGED <<object, changes, failures>>

MetricsInit ==
    /\ object = [k \in ObjectKeys |-> Absent]
    /\ queue = {}
    /\ busy = [c \in Reconcilers |-> {}]
    /\ counts = [c \in Reconcilers |-> Empty]
    /\ total = [c \in Reconcilers |-> 0]
    /\ pending = 0
    /\ changes = 0 /\ failures = 0 /\ restarts = 0

MetricsNext ==
    \/ \E c \in Reconcilers, n \in ObjectNames : Get(c, n) \/ Change(c, n)
    \/ \E c \in Reconcilers : Finish(c) \/ Fail(c)
    \/ Restart

MetricsSpec == MetricsInit /\ [][MetricsNext]_metricsVars

-----------------------------------------------------------------------------
Settled == queue = {} /\ \A c \in Reconcilers : busy[c] = {}

In(c, state) == {n \in ObjectNames : object[<<c, n>>].state = state}

\* Every variable has its type.
MetricsTypeOK ==
    /\ DOMAIN object = ObjectKeys
    /\ \A c \in Reconcilers, n \in ObjectNames : object[<<c, n>>] \in Objects(c)
    /\ queue \subseteq ObjectKeys
    /\ DOMAIN busy = Reconcilers
    /\ \A c \in Reconcilers : \/ busy[c] = {}
                              \/ \E w \in [name : ObjectNames, seen : Objects(c)] : busy[c] = {w}
    /\ DOMAIN counts = Reconcilers
    /\ \A c \in Reconcilers : \E S \in SUBSET ObjectNames : counts[c] \in [S -> 0 .. MaxPending]
    /\ DOMAIN total = Reconcilers
    /\ {changes, failures, restarts} \subseteq Nat

\* Once the controllers have caught up, each gauge counts every object that is
\* managed and none that is gone, disabled or foreign, whatever was edited,
\* re-read or restarted on the way; only an object that cannot be parsed may
\* count either way, with the pending targets it once had.
GaugesTrack ==
    Settled =>
        /\ \A c \in Reconcilers :
              /\ total[c] >= Cardinality(In(c, "counted"))
              /\ total[c] <= Cardinality(In(c, "counted") \cup In(c, "invalid"))
        /\ \E S \in SUBSET In(Lifecycle, "invalid") :
              \E f \in [In(Lifecycle, "counted") \cup S -> 0 .. MaxPending] :
                  /\ \A n \in In(Lifecycle, "counted") : f[n] = object[<<Lifecycle, n>>].pending
                  /\ pending = SumOf(f)

(***************************************************************************)
(* The inductive invariant behind GaugesTrack.                              *)
(***************************************************************************)
\* The count of a key is what its object calls for.
Counted(c, n) ==
    CASE object[<<c, n>>].state = "counted" ->
            n \in DOMAIN counts[c] /\ counts[c][n] = object[<<c, n>>].pending
      [] object[<<c, n>>].state = "invalid" -> TRUE
      [] OTHER -> n \notin DOMAIN counts[c]

\* The count of a key is, or is about to be, set from the object as it is.
Followed(c, n) ==
    \/ <<c, n>> \in queue
    \/ [name |-> n, seen |-> object[<<c, n>>]] \in busy[c]
    \/ Counted(c, n) /\ \A w \in busy[c] : w.name # n

\* Every key is followed, and the gauges are what the counts add up to.
MetricsInv ==
    /\ \A c \in Reconcilers, n \in ObjectNames : Followed(c, n)
    /\ \A c \in Reconcilers : total[c] = Cardinality(DOMAIN counts[c])
    /\ pending = SumOf(counts[Lifecycle])
=============================================================================
