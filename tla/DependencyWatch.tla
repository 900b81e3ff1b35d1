--------------------------- MODULE DependencyWatch ---------------------------
(***************************************************************************)
(* How a source controller learns that something a source depends on has    *)
(* changed: internal/controller/setup.go registers watches, field indexes   *)
(* and mappers; a reconcile of source_controller.go reads the source, its   *)
(* parents, ReferenceGrants, DNSProviders, Services, EndpointSlices and     *)
(* Nodes one after the other from informer caches that keep moving.         *)
(*                                                                          *)
(* One instance stands for one controller: for Ingresses Gateways and       *)
(* Grants are empty and the parents of a source are IngressClasses; for a   *)
(* Gateway route its parents are Gateways, whose parent is a GatewayClass.  *)
(* A cache is updated before its event reaches the mapper; events of one    *)
(* kind arrive in order, events of different kinds in any order.            *)
(***************************************************************************)
EXTENDS Naturals, Sequences, FiniteSets

CONSTANTS Sources, Gateways, Classes, Grants, DNSProviders, Services, Slices, Nodes,
          Foreign,      \* Services outside the sources' namespace
          NoSource,     \* the worker is idle
          Reliable,     \* outcomes of a mapper's lists this instance excludes
          MaxEdits      \* bound: changes of watched objects

\* Objects of different kinds are different objects, whatever their names.
ASSUME KindsAssumption ==
    /\ Foreign \subseteq Services
    /\ NoSource \notin Sources
    /\ Sources \cap (Gateways \cup Classes \cup Grants \cup DNSProviders \cup Services \cup Slices \cup Nodes) = {}
    /\ Gateways \cap (Classes \cup Grants \cup DNSProviders \cup Services \cup Slices \cup Nodes) = {}
    /\ Classes \cap (Grants \cup DNSProviders \cup Services \cup Slices \cup Nodes) = {}
    /\ Grants \cap (DNSProviders \cup Services \cup Slices \cup Nodes) = {}
    /\ DNSProviders \cap (Services \cup Slices \cup Nodes) = {}
    /\ Services \cap (Slices \cup Nodes) = {}
    /\ Slices \cap Nodes = {}
    /\ Reliable \subseteq {"all", "failed"}
    /\ MaxEdits \in Nat

Kinds == {Sources, Gateways, Classes, Grants, DNSProviders, Services, Slices, Nodes}

Objects == UNION Kinds

Parents == IF Gateways = {} THEN Classes ELSE Gateways

(***************************************************************************)
(* What labdns reads of an object.  up: the parents of a source or of a     *)
(* Gateway, the Service label of an EndpointSlice.  to: the backends of a   *)
(* source, the Nodes of an EndpointSlice's ready endpoints, the Services a  *)
(* ReferenceGrant permits.  providers: the providers annotation, as a set   *)
(* with one element or, when the annotation is not there, none.  rev: the   *)
(* rest of the object.                                                      *)
(***************************************************************************)
Content == [exists : BOOLEAN, up : SUBSET Objects,
            providers : SUBSET (SUBSET DNSProviders), to : SUBSET Objects, rev : {0, 1}]

NotFound == [exists |-> FALSE, up |-> {}, providers |-> {}, to |-> {}, rev |-> 0]

Annotation == {{}} \cup {{names} : names \in SUBSET DNSProviders}

One(S) == {{x} : x \in S}

Live(up, providers, to, revs) ==
    [exists : {TRUE}, up : up, providers : providers, to : to, rev : revs]

\* An Ingress has one class or none, a route any number of parents.
Contents(x) ==
    {NotFound} \cup
    CASE x \in Sources  -> Live(IF Gateways = {} THEN {{}} \cup One(Classes) ELSE SUBSET Gateways,
                                Annotation, SUBSET Services, {0})
      [] x \in Gateways -> Live(One(Classes), Annotation, {{}}, {0})
      [] x \in Classes  -> Live({{}}, Annotation, {{}}, {0})
      [] x \in Grants   -> Live({{}}, {{}}, SUBSET Foreign, {0})
      [] x \in Slices   -> Live({{}} \cup One(Services), {{}}, SUBSET Nodes, {0})
      [] x \in Services -> Live({{}}, {{}}, {{}}, {0})
      [] OTHER          -> Live({{}}, {{}}, {{}}, {0, 1})

VARIABLES cache,    \* the informers' copy of every object
          events,   \* events of each kind the mapper has not seen yet
          queue,    \* sources waiting to be reconciled
          busy,     \* the source the worker reconciles
          got,      \* what the running reconcile has read, by key
          used,     \* what the last reconcile of each source had read
          edits,    \* changes so far
          logged    \* a mapper has logged that both of its lists failed

vars == <<cache, events, queue, busy, got, used, edits, logged>>

-----------------------------------------------------------------------------
(***************************************************************************)
(* Mappers: the sources an event enqueues.  A mapper lists by a field index *)
(* of the current cache; when that list fails it lists everything, and when *)
(* that fails too it logs the failure and gives up.  first is what happens  *)
(* to the lists of EndpointSlices, Gateways or classes on the way, last to  *)
(* the lists of sources at the end.                                         *)
(***************************************************************************)
Modes == {"indexed", "all", "failed"}

Nothing == [found |-> {}, lost |-> FALSE]

Merge(results) == [found |-> UNION {r.found : r \in results},
                   lost  |-> \E r \in results : r.lost]

\* mapper.ingresses, mapper.routes: the fallback enqueues every source.
Listed(S, last) ==
    [found |-> CASE last = "indexed" -> S
                 [] last = "all"     -> {i \in Sources : cache[i].exists}
                 [] last = "failed"  -> {},
     lost |-> last = "failed"]

\* A list on the way: its fallback is filtered by the same condition.
Through(S, first, Op(_)) ==
    IF first = "failed" THEN [found |-> {}, lost |-> TRUE] ELSE Merge({Op(x) : x \in S})

WithParent(x, last) == Listed({i \in Sources : x \in cache[i].up}, last)

WithBackend(s, last) == Listed({i \in Sources : s \in cache[i].to}, last)

Tokens(S, p) == {x \in S : p \in UNION cache[x].providers}

GatewaysOf(c) == {g \in Gateways : c \in cache[g].up}

\* Mutant: the class enqueues its own name.
ClassItself(c, first, last) == [found |-> {c}, lost |-> FALSE]

ClassRequests(c, first, last) ==
    IF Gateways = {} THEN WithParent(c, last)
    ELSE Through(GatewaysOf(c), first, LAMBDA g : WithParent(g, last))

\* The Service an EndpointSlice names, before or after the change.
SliceRequests(o, last) == Merge({WithBackend(s, last) : s \in o.up})

NodeRequests(n, first, last) ==
    Through({e \in Slices : n \in cache[e].to}, first, LAMBDA e : SliceRequests(cache[e], last))

\* Mutant: classes that name the provider are not followed.
ProviderRequestsNoClass(p, first, last) ==
    Merge({Listed(Tokens(Sources, p), last),
           Through(Tokens(Gateways, p), first, LAMBDA g : WithParent(g, last))})

\* An Ingress has no Gateways on the way to it.
ProviderRequests(p, first, last) ==
    Merge({Listed(Tokens(Sources, p), last),
           IF Gateways = {} THEN Nothing
           ELSE Through(Tokens(Gateways, p), first, LAMBDA g : WithParent(g, last)),
           Through(Tokens(Classes, p), first, LAMBDA c : ClassRequests(c, first, last))})

\* A grant concerns the sources with a backend in its namespace.
GrantRequests(last) == Listed({i \in Sources : cache[i].to \cap Foreign # {}}, last)

\* EnqueueRequestsFromMapFunc maps the object before and after an update.
OldAndNewRequests(e, last) == Merge({SliceRequests(e.old, last), SliceRequests(e.new, last)})

Requests(e, first, last) ==
    CASE e.object \in Sources      -> [found |-> {e.object}, lost |-> FALSE]
      [] e.object \in Gateways     -> WithParent(e.object, last)
      [] e.object \in Classes      -> ClassRequests(e.object, first, last)
      [] e.object \in Grants       -> GrantRequests(last)
      [] e.object \in DNSProviders -> ProviderRequests(e.object, first, last)
      [] e.object \in Services     -> WithBackend(e.object, last)
      [] e.object \in Slices       -> OldAndNewRequests(e, last)
      [] e.object \in Nodes        -> NodeRequests(e.object, first, last)

-----------------------------------------------------------------------------
\* An object is created, changed or deleted, and its informer has seen it.
Edit(x) ==
    /\ edits < MaxEdits
    /\ edits' = edits + 1
    /\ \E c \in Contents(x) \ {cache[x]}, K \in Kinds :
         /\ x \in K
         /\ cache' = [cache EXCEPT ![x] = c]
         /\ events' = [events EXCEPT ![K] =
                          Append(@, [object |-> x, old |-> cache[x], new |-> c])]
    /\ UNCHANGED <<queue, busy, got, used, logged>>

\* The mapper handles the oldest event of a kind; what it could not find out
\* is logged (terminalListFailure) and not tried again.
Map(K) ==
    /\ events[K] # <<>>
    /\ \E first, last \in Modes \ Reliable :
         LET r == Requests(Head(events[K]), first, last)
         IN  /\ queue' = queue \cup r.found
             /\ logged' = (logged \/ r.lost)
    /\ events' = [events EXCEPT ![K] = Tail(@)]
    /\ UNCHANGED <<cache, busy, got, used, edits>>

-----------------------------------------------------------------------------
(***************************************************************************)
(* A reconcile, one read of a cache at a time.                              *)
(***************************************************************************)
Get(x) == <<"get", x>>

SlicesOf(s) == <<"slices", s>>

GrantList == <<"grants", NoSource>>

Result(k) ==
    CASE k[1] = "get"    -> cache[k[2]]
      [] k[1] = "slices" -> [e \in {e \in Slices : k[2] \in cache[e].up} |-> cache[e]]
      [] k[1] = "grants" -> [g \in {g \in Grants : cache[g].exists} |-> cache[g]]

Has(x) == Get(x) \in DOMAIN got

Obj(x) == got[Get(x)]

Read(k) ==
    /\ k \notin DOMAIN got
    /\ got' = [j \in DOMAIN got \cup {k} |-> IF j = k THEN Result(k) ELSE got[j]]
    /\ UNCHANGED <<cache, events, queue, busy, used, edits, logged>>

\* The parents of the source, each followed by its own parent.
Unfinished == {g \in Obj(busy).up : Has(g) /\ \E c \in Obj(g).up : ~Has(c)}

ChainRead == \A g \in Obj(busy).up : Has(g) /\ \A c \in Obj(g).up : Has(c)

ChainBroken == \E g \in Obj(busy).up :
                  Has(g) /\ (~Obj(g).exists \/ \E c \in Obj(g).up : Has(c) /\ ~Obj(c).exists)

\* MergeAnnotations: the most specific annotation that is there.
Specific(a, b) == IF a # {} THEN a ELSE b

Chain(g) == Specific(Obj(g).providers, UNION {Obj(c).providers : c \in Obj(g).up})

Chains == IF Obj(busy).up = {} THEN {Obj(busy).providers}
          ELSE {Specific(Obj(busy).providers, Chain(g)) : g \in Obj(busy).up}

Resolved == Obj(busy).exists /\ ChainRead /\ ~ChainBroken

\* Every parent chain must agree; the source selects some provider.
Selected == IF Cardinality(Chains) = 1 THEN UNION UNION Chains ELSE {}

GrantsRead == Obj(busy).to \cap Foreign # {} => GrantList \in DOMAIN got

Permitted(s) == s \in Foreign => \E g \in DOMAIN got[GrantList] : s \in got[GrantList][g].to

Backends == {s \in Obj(busy).to : Permitted(s)}

Begin(i) ==
    /\ busy = NoSource
    /\ i \in queue
    /\ queue' = queue \ {i}
    /\ busy' = i
    /\ got' = [k \in {Get(i)} |-> Result(k)]
    /\ UNCHANGED <<cache, events, used, edits, logged>>

ReadParent(x) ==
    /\ busy # NoSource
    /\ Obj(busy).exists /\ ~ChainBroken
    /\ \/ x \in UNION {Obj(g).up : g \in Unfinished}
       \/ Unfinished = {} /\ x \in Obj(busy).up
    /\ Read(Get(x))

ReadGrants ==
    /\ busy # NoSource
    /\ Resolved /\ Selected # {}
    /\ ~GrantsRead
    /\ Read(GrantList)

ReadProvider(p) ==
    /\ busy # NoSource
    /\ Resolved /\ GrantsRead
    /\ p \in Selected
    /\ Read(Get(p))

\* A Service, its EndpointSlices and their Nodes; a missing one is an error.
NodesOf(s) == IF SlicesOf(s) \in DOMAIN got
              THEN UNION {got[SlicesOf(s)][e].to : e \in DOMAIN got[SlicesOf(s)]}
              ELSE {}

BackendRead(s) == /\ Has(s)
                  /\ SlicesOf(s) \in DOMAIN got
                  /\ \A n \in NodesOf(s) : Has(n)

Started == {s \in Backends : Has(s) /\ ~BackendRead(s)}

BackendMissing == \E s \in Backends : \E x \in {s} \cup NodesOf(s) : Has(x) /\ ~Obj(x).exists

Resolving == /\ busy # NoSource
             /\ Resolved /\ GrantsRead
             /\ \A p \in Selected : Has(p)
             /\ \E p \in Selected : Obj(p).exists
             /\ ~BackendMissing

ReadBackend(s) ==
    /\ Resolving
    /\ s \in Backends
    /\ \/ Started = {} /\ Read(Get(s))
       \/ s \in Started /\ Read(SlicesOf(s))
       \/ s \in Started /\ \E n \in NodesOf(s) : Read(Get(n))

\* The reconcile ends: there is nothing to publish, an input is invalid, or
\* everything has been read.
Finish ==
    /\ busy # NoSource
    /\ \/ ~Obj(busy).exists
       \/ ChainBroken
       \/ Resolved /\ Selected = {}
       \/ /\ Resolved /\ GrantsRead
          /\ \A p \in Selected : Has(p)
          /\ \/ \A p \in Selected : ~Obj(p).exists
             \/ BackendMissing
             \/ \A s \in Backends : BackendRead(s)
    /\ used' = [used EXCEPT ![busy] = got]
    /\ busy' = NoSource
    /\ got' = <<>>
    /\ UNCHANGED <<cache, events, queue, edits, logged>>

-----------------------------------------------------------------------------
\* The manager has started: the informers hold some cluster and every source
\* is enqueued.
Start(c) ==
    /\ cache = c
    /\ events = [K \in Kinds |-> <<>>]
    /\ queue = Sources
    /\ busy = NoSource
    /\ got = <<>>
    /\ used = [i \in Sources |-> <<>>]
    /\ edits = 0
    /\ logged = FALSE

Init == \E c \in [Objects -> Content] :
            /\ \A x \in Objects : c[x] \in Contents(x)
            /\ Start(c)

Next ==
    \/ \E x \in Objects : Edit(x)
    \/ \E K \in Kinds : Map(K)
    \/ \E i \in Sources : Begin(i)
    \/ \E x \in Gateways \cup Classes : ReadParent(x)
    \/ ReadGrants
    \/ \E p \in DNSProviders : ReadProvider(p)
    \/ \E s \in Services : ReadBackend(s)
    \/ Finish

Spec == Init /\ [][Next]_vars

-----------------------------------------------------------------------------
Event(K) == [object : K, old : Content, new : Content]

Keys == ({"get"} \X Objects) \cup ({"slices"} \X Services) \cup {GrantList}

ViewOK(v) == /\ DOMAIN v \subseteq Keys
             /\ \A s \in Services : SlicesOf(s) \in DOMAIN v =>
                   \A e \in DOMAIN v[SlicesOf(s)] : v[SlicesOf(s)][e] \in Content

\* Every variable has its type.
TypeOK ==
    /\ cache \in [Objects -> Content] /\ \A x \in Objects : cache[x] \in Contents(x)
    /\ DOMAIN events = Kinds /\ \A K \in Kinds : events[K] \in Seq(Event(K))
    /\ queue \subseteq Sources
    /\ busy \in Sources \cup {NoSource}
    /\ ViewOK(got)
    /\ DOMAIN used = Sources /\ \A i \in Sources : ViewOK(used[i])
    /\ edits \in Nat
    /\ logged \in BOOLEAN

\* No change is missed silently: once the mappers have seen every event, a
\* source that is neither queued nor being reconciled would read again exactly
\* what its last reconcile read, from the class it inherits its providers from
\* to the Node whose label is a target, even when indexed lists have failed;
\* only a logged failure of both lists of a mapper excuses it.
UpToDate ==
    (\A K \in Kinds : events[K] = <<>>) /\ ~logged =>
        \A i \in Sources \ (queue \cup {busy}) :
            \A k \in DOMAIN used[i] : used[i][k] = Result(k)

-----------------------------------------------------------------------------
(***************************************************************************)
(* The inductive invariant behind UpToDate.                                 *)
(***************************************************************************)
\* The objects whose annotations count for a source.
Lineage(i) == {i} \cup cache[i].up \cup UNION {cache[g].up : g \in cache[i].up}

\* The event leads to the source along the objects as they are now.
Concerns(e, i) ==
    \/ e.object \in Lineage(i) \cup cache[i].to
    \/ \E y \in Lineage(i) : e.object \in UNION cache[y].providers
    \/ e.object \in Grants /\ cache[i].to \cap Foreign # {}
    \/ e.object \in Slices /\ (e.old.up \cup e.new.up) \cap cache[i].to # {}
    \/ \E s \in Slices : e.object \in cache[s].to /\ cache[s].up \cap cache[i].to # {}

\* The source will be reconciled again, or a failure has been logged.
Woken(i) ==
    \/ i \in queue
    \/ logged
    \/ \E K \in Kinds : \E n \in DOMAIN events[K] : Concerns(events[K][n], i)

\* What the running or else the last reconcile of a source has read.
View(i) == IF i = busy THEN got ELSE used[i]

\* The keys a reconcile comes to read, each found through one read before.
SeenLineage(v, i) ==
    {i} \cup v[Get(i)].up
        \cup UNION {v[Get(g)].up : g \in {g \in v[Get(i)].up : Get(g) \in DOMAIN v}}

SeenNodes(v, i) ==
    UNION UNION {{v[SlicesOf(s)][e].to : e \in DOMAIN v[SlicesOf(s)]} :
                    s \in {s \in v[Get(i)].to : SlicesOf(s) \in DOMAIN v}}

SeenProviders(v, i) ==
    UNION UNION {v[Get(y)].providers : y \in {y \in SeenLineage(v, i) : Get(y) \in DOMAIN v}}

Led(v, i) ==
    {Get(x) : x \in SeenLineage(v, i) \cup v[Get(i)].to \cup SeenProviders(v, i) \cup SeenNodes(v, i)}
        \cup {SlicesOf(s) : s \in v[Get(i)].to}
        \cup (IF v[Get(i)].to \cap Foreign # {} THEN {GrantList} ELSE {})

\* A view is led from the source itself, and is current unless the source will
\* be reconciled again.
Followed(i) ==
    /\ i = busy => Get(i) \in DOMAIN got
    /\ DOMAIN View(i) # {} => Get(i) \in DOMAIN View(i) /\ DOMAIN View(i) \subseteq Led(View(i), i)
    /\ Woken(i) \/ \A k \in DOMAIN View(i) : View(i)[k] = Result(k)

WatchInv == \A i \in Sources : Followed(i)
=============================================================================
