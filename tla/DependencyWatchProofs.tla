------------------------ MODULE DependencyWatchProofs ------------------------
(***************************************************************************)
(* Proofs about the watches of a source controller, for any number of       *)
(* sources and of the objects they depend on, any changes of them and any   *)
(* order of events, mapper calls and reads.                                 *)
(***************************************************************************)
EXTENDS DependencyWatch, SequenceTheorems, TLAPS

-----------------------------------------------------------------------------
(***************************************************************************)
(* What the API server accepts.                                             *)
(***************************************************************************)

LEMMA ObjectsByKind ==
    Objects = Sources \cup Gateways \cup Classes \cup Grants \cup DNSProviders \cup Services \cup Slices \cup Nodes
BY DEF Objects, Kinds

LEMMA ContentFacts ==
    ASSUME TypeOK
    PROVE  /\ \A x \in Objects : cache[x] \in Content
           /\ \A i \in Sources : /\ cache[i].up \subseteq Parents /\ cache[i].to \subseteq Services
                                 /\ ~cache[i].exists => /\ cache[i].up = {} /\ cache[i].to = {}
                                                        /\ cache[i].providers = {}
           /\ \A g \in Gateways : cache[g].up \subseteq Classes
           /\ \A c \in Classes : cache[c].up = {}
           /\ \A e \in Slices : cache[e].up \subseteq Services /\ cache[e].to \subseteq Nodes
<1>1. \A x \in Objects : cache[x] \in Content /\ cache[x] \in Contents(x)
  BY DEF TypeOK
<1>2. ASSUME NEW i \in Sources
      PROVE  /\ cache[i].up \subseteq Parents /\ cache[i].to \subseteq Services
             /\ ~cache[i].exists => /\ cache[i].up = {} /\ cache[i].to = {}
                                    /\ cache[i].providers = {}
  <2>1. cache[i] \in {NotFound} \cup Live(IF Gateways = {} THEN {{}} \cup One(Classes) ELSE SUBSET Gateways,
                                          Annotation, SUBSET Services, {0})
    BY <1>1, KindsAssumption, ObjectsByKind DEF Contents
  <2>2. CASE cache[i] = NotFound
    BY <2>2 DEF NotFound
  <2>3. CASE cache[i] # NotFound
    <3>1. /\ cache[i].exists = TRUE /\ cache[i].to \subseteq Services
          /\ cache[i].up \in IF Gateways = {} THEN {{}} \cup One(Classes) ELSE SUBSET Gateways
      BY <2>1, <2>3 DEF Live
    <3>2. cache[i].up \subseteq Parents
      BY <3>1 DEF One, Parents
    <3>3. QED BY <3>1, <3>2
  <2>4. QED BY <2>2, <2>3
<1>3. ASSUME NEW g \in Gateways PROVE cache[g].up \subseteq Classes
  <2>1. cache[g] \in {NotFound} \cup Live(One(Classes), Annotation, {{}}, {0})
    BY <1>1, KindsAssumption, ObjectsByKind DEF Contents
  <2>2. CASE cache[g] = NotFound
    BY <2>2 DEF NotFound
  <2>3. CASE cache[g] # NotFound
    <3>1. cache[g].up \in One(Classes)
      BY <2>1, <2>3 DEF Live
    <3>2. QED BY <3>1 DEF One
  <2>4. QED BY <2>2, <2>3
<1>4. ASSUME NEW c \in Classes PROVE cache[c].up = {}
  <2>1. cache[c] \in {NotFound} \cup Live({{}}, Annotation, {{}}, {0})
    BY <1>1, KindsAssumption, ObjectsByKind DEF Contents
  <2>2. CASE cache[c] = NotFound
    BY <2>2 DEF NotFound
  <2>3. CASE cache[c] # NotFound
    BY <2>1, <2>3 DEF Live
  <2>4. QED BY <2>2, <2>3
<1>5. ASSUME NEW e \in Slices PROVE cache[e].up \subseteq Services /\ cache[e].to \subseteq Nodes
  <2>1. cache[e] \in {NotFound} \cup Live({{}} \cup One(Services), {{}}, SUBSET Nodes, {0})
    BY <1>1, KindsAssumption, ObjectsByKind DEF Contents
  <2>2. CASE cache[e] = NotFound
    BY <2>2 DEF NotFound
  <2>3. CASE cache[e] # NotFound
    <3>1. cache[e].up \in {{}} \cup One(Services) /\ cache[e].to \subseteq Nodes
      BY <2>1, <2>3 DEF Live
    <3>2. QED BY <3>1 DEF One
  <2>4. QED BY <2>2, <2>3
<1>6. QED BY <1>1, <1>2, <1>3, <1>4, <1>5

LEMMA ContentsType ==
    ASSUME NEW x \in Objects, NEW c \in Contents(x)
    PROVE  c \in Content
<1>1. \A u, p, t, r : /\ u \subseteq SUBSET Objects /\ p \subseteq SUBSET SUBSET DNSProviders
                      /\ t \subseteq SUBSET Objects /\ r \subseteq {0, 1}
                      => Live(u, p, t, r) \subseteq Content
  BY DEF Live, Content
<1>2. /\ One(Classes) \subseteq SUBSET Objects /\ One(Services) \subseteq SUBSET Objects
      /\ SUBSET Gateways \subseteq SUBSET Objects /\ SUBSET Services \subseteq SUBSET Objects
      /\ SUBSET Nodes \subseteq SUBSET Objects /\ SUBSET Foreign \subseteq SUBSET Objects
      /\ {{}} \subseteq SUBSET Objects
  BY ObjectsByKind, KindsAssumption DEF One
<1>3. Annotation \subseteq SUBSET SUBSET DNSProviders /\ {{}} \subseteq SUBSET SUBSET DNSProviders
  BY DEF Annotation
<1>4. NotFound \in Content
  BY DEF NotFound, Content
<1>5. CASE x \in Sources
  <2> DEFINE u == IF Gateways = {} THEN {{}} \cup One(Classes) ELSE SUBSET Gateways
  <2>1. c = NotFound \/ c \in Live(u, Annotation, SUBSET Services, {0})
    BY <1>5, KindsAssumption DEF Contents
  <2>2. u \subseteq SUBSET Objects
    BY <1>2
  <2> HIDE DEF u
  <2>3. Live(u, Annotation, SUBSET Services, {0}) \subseteq Content
    BY <1>1, <1>2, <1>3, <2>2
  <2>4. QED BY <1>4, <2>1, <2>3
<1>6. CASE x \in Gateways
  <2>1. c = NotFound \/ c \in Live(One(Classes), Annotation, {{}}, {0})
    BY <1>6, KindsAssumption DEF Contents
  <2>2. Live(One(Classes), Annotation, {{}}, {0}) \subseteq Content
    BY <1>1, <1>2, <1>3
  <2>3. QED BY <1>4, <2>1, <2>2
<1>7. CASE x \in Classes
  <2>1. c = NotFound \/ c \in Live({{}}, Annotation, {{}}, {0})
    BY <1>7, KindsAssumption DEF Contents
  <2>2. Live({{}}, Annotation, {{}}, {0}) \subseteq Content
    BY <1>1, <1>2, <1>3
  <2>3. QED BY <1>4, <2>1, <2>2
<1>8. CASE x \in Grants
  <2>1. c = NotFound \/ c \in Live({{}}, {{}}, SUBSET Foreign, {0})
    BY <1>8, KindsAssumption DEF Contents
  <2>2. Live({{}}, {{}}, SUBSET Foreign, {0}) \subseteq Content
    BY <1>1, <1>2, <1>3
  <2>3. QED BY <1>4, <2>1, <2>2
<1>9. CASE x \in Slices
  <2>1. c = NotFound \/ c \in Live({{}} \cup One(Services), {{}}, SUBSET Nodes, {0})
    BY <1>9, KindsAssumption DEF Contents
  <2>2. Live({{}} \cup One(Services), {{}}, SUBSET Nodes, {0}) \subseteq Content
    <3>1. {{}} \cup One(Services) \subseteq SUBSET Objects
      BY <1>2
    <3>2. QED BY <1>1, <1>2, <1>3, <3>1
  <2>3. QED BY <1>4, <2>1, <2>2
<1>10. CASE x \in Services
  <2>1. c = NotFound \/ c \in Live({{}}, {{}}, {{}}, {0})
    BY <1>10, KindsAssumption DEF Contents
  <2>2. Live({{}}, {{}}, {{}}, {0}) \subseteq Content
    BY <1>1, <1>2, <1>3
  <2>3. QED BY <1>4, <2>1, <2>2
<1>11. CASE x \in DNSProviders \cup Nodes
  <2>1. c = NotFound \/ c \in Live({{}}, {{}}, {{}}, {0, 1})
    BY <1>11, KindsAssumption DEF Contents
  <2>2. Live({{}}, {{}}, {{}}, {0, 1}) \subseteq Content
    BY <1>1, <1>2, <1>3
  <2>3. QED BY <1>4, <2>1, <2>2
<1>12. QED BY <1>5, <1>6, <1>7, <1>8, <1>9, <1>10, <1>11, ObjectsByKind

LEMMA ContentFields ==
    ASSUME NEW c \in Content
    PROVE  c.up \subseteq Objects /\ c.to \subseteq Objects /\ UNION c.providers \subseteq DNSProviders
BY DEF Content

\* The lineage of a source is itself, its parents and, for a route, the
\* classes of its Gateways.
LEMMA LineageFacts ==
    ASSUME TypeOK, NEW i \in Sources
    PROVE  /\ Lineage(i) \subseteq Objects /\ cache[i].up \subseteq Objects
           /\ Lineage(i) \subseteq {i} \cup Gateways \cup Classes
           /\ \A y \in Lineage(i) :
                 \/ y = i
                 \/ y \in cache[i].up
                 \/ Gateways # {} /\ y \in Classes /\ \E g \in cache[i].up : g \in Gateways /\ y \in cache[g].up
<1>1. cache[i].up \subseteq Parents /\ Parents \subseteq Gateways \cup Classes
  BY ContentFacts DEF Parents
<1>2. ASSUME NEW g \in cache[i].up, NEW y \in cache[g].up
      PROVE  Gateways # {} /\ y \in Classes /\ g \in Gateways
  <2>1. g \notin Classes
    BY ContentFacts
  <2>2. g \in Gateways
    BY <1>1, <2>1
  <2>3. QED BY <2>2, ContentFacts
<1>3. i \in Objects /\ Gateways \cup Classes \subseteq Objects
  BY ObjectsByKind
<1>4. QED BY <1>1, <1>2, <1>3 DEF Lineage

-----------------------------------------------------------------------------
(***************************************************************************)
(* Mappers: an event that concerns a source enqueues it, or the failure of  *)
(* both lists is logged.                                                    *)
(***************************************************************************)

Served(r, i) == i \in r.found \/ r.lost

LEMMA ListedServes ==
    ASSUME NEW S, NEW last \in Modes, NEW i \in S, i \in Sources, cache[i].exists
    PROVE  Served(Listed(S, last), i)
<1>1. CASE last = "indexed"
  BY <1>1 DEF Served, Listed
<1>2. CASE last = "all"
  BY <1>2 DEF Served, Listed
<1>3. CASE last = "failed"
  BY <1>3 DEF Served, Listed
<1>4. QED BY <1>1, <1>2, <1>3 DEF Modes

LEMMA MergeServes ==
    ASSUME NEW R, NEW r \in R, NEW i, Served(r, i)
    PROVE  Served(Merge(R), i)
BY DEF Served, Merge

LEMMA ParentServes ==
    ASSUME NEW x, NEW last \in Modes, NEW i \in Sources, x \in cache[i].up, cache[i].exists
    PROVE  Served(WithParent(x, last), i)
BY ListedServes DEF WithParent

LEMMA BackendServes ==
    ASSUME NEW s, NEW last \in Modes, NEW i \in Sources, s \in cache[i].to, cache[i].exists
    PROVE  Served(WithBackend(s, last), i)
BY ListedServes DEF WithBackend

\* A class leads to an Ingress directly and to a route over its Gateways.
LEMMA ClassServes ==
    ASSUME NEW c, NEW first \in Modes, NEW last \in Modes, NEW i \in Sources, cache[i].exists,
           \/ Gateways = {} /\ c \in cache[i].up
           \/ \E g \in cache[i].up : g \in Gateways /\ c \in cache[g].up
    PROVE  Served(ClassRequests(c, first, last), i)
<1>1. CASE Gateways = {}
  BY <1>1, ParentServes DEF ClassRequests
<1>2. CASE Gateways # {}
  <2>1. PICK g \in GatewaysOf(c) : g \in cache[i].up
    BY <1>2 DEF GatewaysOf
  <2>2. CASE first = "failed"
    BY <1>2, <2>2 DEF ClassRequests, Through, Served
  <2>3. CASE first # "failed"
    <3>1. ClassRequests(c, first, last) = Merge({WithParent(x, last) : x \in GatewaysOf(c)})
      BY <1>2, <2>3 DEF ClassRequests, Through
    <3>2. Served(WithParent(g, last), i)
      BY <2>1, ParentServes
    <3>3. QED BY <2>1, <3>1, <3>2, MergeServes
  <2>4. QED BY <2>2, <2>3
<1>3. QED BY <1>1, <1>2

LEMMA SliceServes ==
    ASSUME NEW o, NEW last \in Modes, NEW i \in Sources, o.up \cap cache[i].to # {}, cache[i].exists
    PROVE  Served(SliceRequests(o, last), i)
<1>1. PICK s \in o.up : s \in cache[i].to
  OBVIOUS
<1>2. Served(WithBackend(s, last), i)
  BY <1>1, BackendServes
<1>3. QED BY <1>1, <1>2, MergeServes DEF SliceRequests

LEMMA NodeServes ==
    ASSUME NEW n, NEW first \in Modes, NEW last \in Modes, NEW i \in Sources, cache[i].exists,
           NEW e \in Slices, n \in cache[e].to, cache[e].up \cap cache[i].to # {}
    PROVE  Served(NodeRequests(n, first, last), i)
<1>1. CASE first = "failed"
  BY <1>1 DEF NodeRequests, Through, Served
<1>2. CASE first # "failed"
  <2>1. NodeRequests(n, first, last) =
            Merge({SliceRequests(cache[x], last) : x \in {x \in Slices : n \in cache[x].to}})
    BY <1>2 DEF NodeRequests, Through
  <2>2. Served(SliceRequests(cache[e], last), i)
    BY SliceServes
  <2>3. QED BY <2>1, <2>2, MergeServes
<1>3. QED BY <1>1, <1>2

\* A provider leads to the sources that name it, and to those whose Gateway or
\* class does.
LEMMA ProviderServes ==
    ASSUME TypeOK, NEW p, NEW first \in Modes, NEW last \in Modes, NEW i \in Sources, cache[i].exists,
           NEW y \in Lineage(i), p \in UNION cache[y].providers
    PROVE  Served(ProviderRequests(p, first, last), i)
<1> DEFINE direct == Listed(Tokens(Sources, p), last)
           overGateways == IF Gateways = {} THEN Nothing
                           ELSE Through(Tokens(Gateways, p), first, LAMBDA g : WithParent(g, last))
           overClasses == Through(Tokens(Classes, p), first, LAMBDA c : ClassRequests(c, first, last))
<1>1. ProviderRequests(p, first, last) = Merge({direct, overGateways, overClasses})
  BY DEF ProviderRequests
<1>2. CASE y = i
  <2>1. Served(direct, i)
    BY <1>2, ListedServes DEF Tokens
  <2> HIDE DEF direct, overGateways, overClasses
  <2>2. QED BY <1>1, <2>1, MergeServes
<1>3. CASE y \in cache[i].up /\ y \in Gateways
  <2>1. overGateways = Through(Tokens(Gateways, p), first, LAMBDA g : WithParent(g, last))
    BY <1>3
  <2>2. Served(overGateways, i)
    <3>1. CASE first = "failed"
      BY <2>1, <3>1 DEF Through, Served
    <3>2. CASE first # "failed"
      <4>1. overGateways = Merge({WithParent(g, last) : g \in Tokens(Gateways, p)})
        BY <2>1, <3>2 DEF Through
      <4>2. y \in Tokens(Gateways, p) /\ Served(WithParent(y, last), i)
        BY <1>3, ParentServes DEF Tokens
      <4> HIDE DEF overGateways
      <4>3. QED BY <4>1, <4>2, MergeServes
    <3>3. QED BY <3>1, <3>2
  <2> HIDE DEF direct, overGateways, overClasses
  <2>3. QED BY <1>1, <2>2, MergeServes
<1>4. CASE y \in Classes /\ y # i
  <2>1. \/ Gateways = {} /\ y \in cache[i].up
        \/ \E g \in cache[i].up : g \in Gateways /\ y \in cache[g].up
    <3>1. y \in cache[i].up => Gateways = {}
      BY <1>4, ContentFacts, KindsAssumption DEF Parents
    <3>2. QED BY <1>4, <3>1, LineageFacts
  <2>2. Served(overClasses, i)
    <3>1. CASE first = "failed"
      BY <3>1 DEF Through, Served
    <3>2. CASE first # "failed"
      <4>1. overClasses = Merge({ClassRequests(c, first, last) : c \in Tokens(Classes, p)})
        BY <3>2 DEF Through
      <4>2. y \in Tokens(Classes, p) /\ Served(ClassRequests(y, first, last), i)
        BY <1>4, <2>1, ClassServes DEF Tokens
      <4> HIDE DEF overClasses
      <4>3. QED BY <4>1, <4>2, MergeServes
    <3>3. QED BY <3>1, <3>2
  <2> HIDE DEF direct, overGateways, overClasses
  <2>3. QED BY <1>1, <2>2, MergeServes
<1>5. QED
  <2>1. y = i \/ y \in Gateways \cup Classes
    BY LineageFacts
  <2>2. y \in Gateways => y = i \/ y \in cache[i].up
    BY LineageFacts, KindsAssumption
  <2>3. QED BY <1>2, <1>3, <1>4, <2>1, <2>2

\* An event that concerns a source leads to it, whichever of its lists fail.
LEMMA RequestsServe ==
    ASSUME TypeOK, NEW K \in Kinds, NEW e \in Event(K), NEW i \in Sources, Concerns(e, i),
           NEW first \in Modes, NEW last \in Modes
    PROVE  Served(Requests(e, first, last), i)
<1> DEFINE x == e.object
<1>1. x \in Objects
  BY DEF Event, Objects
<1>2. Lineage(i) \subseteq {i} \cup Gateways \cup Classes /\ cache[i].to \subseteq Services
  BY LineageFacts, ContentFacts
<1>3. \A y \in Lineage(i) : UNION cache[y].providers \subseteq DNSProviders
  BY LineageFacts, ContentFacts, ContentFields
<1>4. \A s \in Slices : cache[s].to \subseteq Nodes
  BY ContentFacts
<1>5. CASE x = i
  <2>1. Requests(e, first, last) = [found |-> {i}, lost |-> FALSE]
    BY <1>5, KindsAssumption DEF Requests
  <2>2. QED BY <2>1 DEF Served
<1>6. CASE x # i
  <2>1. cache[i].exists
    <3> SUFFICES ASSUME ~cache[i].exists PROVE FALSE
      OBVIOUS
    <3>1. cache[i].up = {} /\ cache[i].to = {} /\ cache[i].providers = {}
      BY ContentFacts
    <3>2. Lineage(i) = {i}
      BY <3>1 DEF Lineage
    <3>3. QED BY <1>6, <3>1, <3>2 DEF Concerns
  <2>2. CASE x \in Gateways
    <3>1. x \in Lineage(i)
      BY <1>2, <1>3, <1>4, <2>2, KindsAssumption DEF Concerns
    <3>2. x \in cache[i].up
      BY <1>6, <2>2, <3>1, LineageFacts, KindsAssumption
    <3>3. Requests(e, first, last) = WithParent(x, last)
      BY <2>2, KindsAssumption DEF Requests
    <3>4. QED BY <2>1, <3>2, <3>3, ParentServes
  <2>3. CASE x \in Classes
    <3>1. x \in Lineage(i)
      BY <1>2, <1>3, <1>4, <2>3, KindsAssumption DEF Concerns
    <3>2. x \in cache[i].up => Gateways = {}
      BY <2>3, ContentFacts, KindsAssumption DEF Parents
    <3>3. \/ Gateways = {} /\ x \in cache[i].up
          \/ \E g \in cache[i].up : g \in Gateways /\ x \in cache[g].up
      BY <1>6, <3>1, <3>2, LineageFacts
    <3>4. Requests(e, first, last) = ClassRequests(x, first, last)
      BY <2>3, KindsAssumption DEF Requests
    <3> HIDE DEF x
    <3>5. QED BY <2>1, <3>3, <3>4, ClassServes
  <2>4. CASE x \in Grants
    <3>1. cache[i].to \cap Foreign # {}
      BY <1>2, <1>3, <1>4, <1>6, <2>4, KindsAssumption DEF Concerns
    <3>2. Requests(e, first, last) = GrantRequests(last)
      BY <2>4, KindsAssumption DEF Requests
    <3>3. QED BY <2>1, <3>1, <3>2, ListedServes DEF GrantRequests
  <2>5. CASE x \in DNSProviders
    <3>1. PICK y \in Lineage(i) : x \in UNION cache[y].providers
      BY <1>2, <1>4, <1>6, <2>5, KindsAssumption DEF Concerns
    <3>2. Requests(e, first, last) = ProviderRequests(x, first, last)
      BY <2>5, KindsAssumption DEF Requests
    <3> HIDE DEF x
    <3>3. QED BY <2>1, <3>1, <3>2, ProviderServes
  <2>6. CASE x \in Services
    <3>1. x \in cache[i].to
      BY <1>2, <1>3, <1>4, <1>6, <2>6, KindsAssumption DEF Concerns
    <3>2. Requests(e, first, last) = WithBackend(x, last)
      BY <2>6, KindsAssumption DEF Requests
    <3>3. QED BY <2>1, <3>1, <3>2, BackendServes
  <2>7. CASE x \in Slices
    <3>1. (e.old.up \cup e.new.up) \cap cache[i].to # {}
      BY <1>2, <1>3, <1>4, <1>6, <2>7, KindsAssumption DEF Concerns
    <3>2. Served(SliceRequests(e.old, last), i) \/ Served(SliceRequests(e.new, last), i)
      BY <2>1, <3>1, SliceServes
    <3>3. Requests(e, first, last) = Merge({SliceRequests(e.old, last), SliceRequests(e.new, last)})
      BY <2>7, KindsAssumption DEF Requests, OldAndNewRequests
    <3>4. QED BY <3>2, <3>3, MergeServes
  <2>8. CASE x \in Nodes
    <3>1. PICK s \in Slices : x \in cache[s].to /\ cache[s].up \cap cache[i].to # {}
      BY <1>2, <1>3, <1>6, <2>8, KindsAssumption DEF Concerns
    <3>2. Requests(e, first, last) = NodeRequests(x, first, last)
      BY <2>8, KindsAssumption DEF Requests
    <3> HIDE DEF x
    <3>3. QED BY <2>1, <3>1, <3>2, NodeServes
  <2>9. x \notin Sources
    BY <1>2, <1>3, <1>4, <1>6, KindsAssumption DEF Concerns
  <2>10. QED BY <1>1, <2>2, <2>3, <2>4, <2>5, <2>6, <2>7, <2>8, <2>9, ObjectsByKind
<1>7. QED BY <1>5, <1>6

-----------------------------------------------------------------------------
(***************************************************************************)
(* An object changes.                                                       *)
(***************************************************************************)

Change(x, c) == cache' = [cache EXCEPT ![x] = c]

EventOf(x, c) == [object |-> x, old |-> cache[x], new |-> c]

LEMMA OthersUnchanged ==
    ASSUME TypeOK, NEW x \in Objects, NEW c, Change(x, c)
    PROVE  \A y \in Objects : y # x => cache'[y] = cache[y]
BY DEF TypeOK, Change

\* An object of a source's lineage stays in it when it is the one that changes,
\* and the lineage stays as it is when another object changes.
LEMMA LineageKept ==
    ASSUME TypeOK, NEW x \in Objects, NEW c, Change(x, c), NEW i \in Sources
    PROVE  /\ x \in Lineage(i) => x \in Lineage(i)'
           /\ x \notin Lineage(i) => /\ Lineage(i)' = Lineage(i)
                                     /\ \A y \in Lineage(i) : cache'[y] = cache[y]
<1>1. i \in Objects /\ Lineage(i) \subseteq Objects /\ cache[i].up \subseteq Objects
  BY LineageFacts, ObjectsByKind
<1>2. CASE x = i
  BY <1>2 DEF Lineage
<1>3. CASE x # i
  <2>1. cache'[i] = cache[i]
    BY <1>1, <1>3, OthersUnchanged
  <2>2. CASE x \in cache[i].up
    BY <2>1, <2>2 DEF Lineage
  <2>3. CASE x \notin cache[i].up
    <3>1. \A g \in cache[i].up : cache'[g] = cache[g]
      BY <1>1, <2>3, OthersUnchanged
    <3>2. Lineage(i)' = Lineage(i)
      BY <2>1, <3>1 DEF Lineage
    <3>3. x \notin Lineage(i) => \A y \in Lineage(i) : cache'[y] = cache[y]
      BY <1>1, OthersUnchanged
    <3>4. QED BY <3>2, <3>3
  <2>4. QED BY <2>2, <2>3
<1>4. QED BY <1>2, <1>3

\* A change that takes an event's way to a source away brings an event of its
\* own that leads there.
LEMMA ConcernsKept ==
    ASSUME TypeOK, NEW x \in Objects, NEW c, Change(x, c), NEW i \in Sources, NEW e, Concerns(e, i),
           NEW f, f = EventOf(x, c)
    PROVE  Concerns(e, i)' \/ Concerns(f, i)'
<1>1. f.object = x /\ f.old = cache[x]
  BY DEF EventOf
<1>2. CASE x \in Lineage(i)
  BY <1>1, <1>2, LineageKept DEF Concerns
<1>3. CASE x \notin Lineage(i)
  <2>1. Lineage(i)' = Lineage(i) /\ \A y \in Lineage(i) : cache'[y] = cache[y]
    BY <1>3, LineageKept
  <2>2. cache'[i] = cache[i]
    BY <2>1 DEF Lineage
  <2>3. ASSUME NEW s \in Slices, e.object \in cache[s].to, cache[s].up \cap cache[i].to # {}
        PROVE  Concerns(e, i)' \/ Concerns(f, i)'
    <3>1. CASE s = x
      BY <1>1, <2>2, <2>3, <3>1 DEF Concerns
    <3>2. CASE s # x
      <4>1. cache'[s] = cache[s]
        BY <3>2, OthersUnchanged, ObjectsByKind
      <4>2. QED BY <2>2, <2>3, <4>1 DEF Concerns
    <3>3. QED BY <3>1, <3>2
  <2>4. QED BY <2>1, <2>2, <2>3 DEF Concerns
<1>4. QED BY <1>2, <1>3

LEMMA ResultFacts ==
    /\ \A x : Result(Get(x)) = cache[x]
    /\ \A s : Result(SlicesOf(s)) = [e \in {e \in Slices : s \in cache[e].up} |-> cache[e]]
    /\ Result(GrantList) = [g \in {g \in Grants : cache[g].exists} |-> cache[g]]
<1>1. \A x : Get(x)[1] = "get" /\ Get(x)[2] = x
  BY DEF Get
<1>2. \A s : SlicesOf(s)[1] = "slices" /\ SlicesOf(s)[2] = s
  BY DEF SlicesOf
<1>3. GrantList[1] = "grants"
  BY DEF GrantList
<1>4. QED BY <1>1, <1>2, <1>3 DEF Result

LEMMA NextResultFacts ==
    /\ \A x : Result(Get(x))' = cache'[x]
    /\ \A s : Result(SlicesOf(s))' = [e \in {e \in Slices : s \in cache'[e].up} |-> cache'[e]]
    /\ Result(GrantList)' = [g \in {g \in Grants : cache'[g].exists} |-> cache'[g]]
<1>1. ASSUME NEW x PROVE Result(Get(x))' = cache'[x]
  BY DEF Result, Get
<1>2. ASSUME NEW s
      PROVE  Result(SlicesOf(s))' = [e \in {e \in Slices : s \in cache'[e].up} |-> cache'[e]]
  BY DEF Result, SlicesOf
<1>3. Result(GrantList)' = [g \in {g \in Grants : cache'[g].exists} |-> cache'[g]]
  BY DEF Result, GrantList
<1>4. QED BY <1>1, <1>2, <1>3

\* What a current view has seen is what is there.
Current(v) == \A k \in DOMAIN v : v[k] = Result(k)

LEMMA SeenFacts ==
    ASSUME NEW v, NEW i, Get(i) \in DOMAIN v, Current(v)
    PROVE  /\ v[Get(i)] = cache[i]
           /\ SeenLineage(v, i) \subseteq Lineage(i)
           /\ \A p \in SeenProviders(v, i) : \E y \in Lineage(i) : p \in UNION cache[y].providers
           /\ \A n \in SeenNodes(v, i) : \E s \in Slices : n \in cache[s].to /\ cache[s].up \cap cache[i].to # {}
<1>1. \A x : Get(x) \in DOMAIN v => v[Get(x)] = cache[x]
  BY ResultFacts DEF Current
<1>2. SeenLineage(v, i) \subseteq Lineage(i)
  BY <1>1 DEF SeenLineage, Lineage
<1>3. ASSUME NEW p \in SeenProviders(v, i) PROVE \E y \in Lineage(i) : p \in UNION cache[y].providers
  <2>1. PICK y \in SeenLineage(v, i) : Get(y) \in DOMAIN v /\ p \in UNION v[Get(y)].providers
    BY DEF SeenProviders
  <2>2. QED BY <1>1, <1>2, <2>1
<1>4. ASSUME NEW n \in SeenNodes(v, i)
      PROVE  \E s \in Slices : n \in cache[s].to /\ cache[s].up \cap cache[i].to # {}
  <2>1. PICK s \in v[Get(i)].to : /\ SlicesOf(s) \in DOMAIN v
                                  /\ \E e \in DOMAIN v[SlicesOf(s)] : n \in v[SlicesOf(s)][e].to
    BY DEF SeenNodes
  <2>2. v[SlicesOf(s)] = [e \in {e \in Slices : s \in cache[e].up} |-> cache[e]]
    BY <2>1, ResultFacts DEF Current
  <2>3. PICK e \in Slices : s \in cache[e].up /\ n \in cache[e].to
    BY <2>1, <2>2
  <2>4. QED BY <1>1, <2>1, <2>3
<1>5. QED BY <1>1, <1>2, <1>3, <1>4

\* A change of something a current view has read brings an event that leads to
\* its source.
LEMMA ViewKept ==
    ASSUME TypeOK, NEW x \in Objects, NEW c, Change(x, c), NEW i \in Sources, NEW f, f = EventOf(x, c),
           NEW v, ViewOK(v), Get(i) \in DOMAIN v, DOMAIN v \subseteq Led(v, i), Current(v)
    PROVE  Current(v)' \/ Concerns(f, i)'
<1> SUFFICES ASSUME NEW k \in DOMAIN v, v[k] # Result(k)' PROVE Concerns(f, i)'
  BY DEF Current
<1>1. f.object = x /\ f.old = cache[x] /\ f.new = c
  BY DEF EventOf
<1>2. Result(k)' # Result(k) /\ k \in Led(v, i) /\ k \in Keys
  BY DEF Current, ViewOK
<1>3. v[Get(i)] = cache[i]
  BY SeenFacts
<1>4. CASE x \in Lineage(i)
  BY <1>1, <1>4, LineageKept DEF Concerns
<1>5. CASE x \notin Lineage(i)
  <2>1. Lineage(i)' = Lineage(i) /\ \A y \in Lineage(i) : cache'[y] = cache[y]
    BY <1>5, LineageKept
  <2>2. cache'[i] = cache[i]
    BY <2>1 DEF Lineage
  <2>3. ASSUME NEW y, k = Get(y),
               y \in SeenLineage(v, i) \cup v[Get(i)].to \cup SeenProviders(v, i) \cup SeenNodes(v, i)
        PROVE  Concerns(f, i)'
    <3>1. y \in Objects
      BY <1>2, <2>3 DEF Keys, Get, GrantList
    <3>2. Result(k) = cache[y] /\ Result(k)' = cache'[y]
      <4>1. Result(Get(y)) = cache[y]
        BY ResultFacts
      <4>2. Result(Get(y))' = cache'[y]
        BY NextResultFacts
      <4>3. QED BY <2>3, <4>1, <4>2 DEF Get
    <3>3. y = x
      BY <1>2, <3>1, <3>2, OthersUnchanged
    <3>4. x \notin SeenLineage(v, i)
      BY <1>5, SeenFacts
    <3>5. CASE x \in v[Get(i)].to
      BY <1>1, <1>3, <2>2, <3>5 DEF Concerns
    <3>6. CASE x \in SeenProviders(v, i)
      <4>1. \E z \in Lineage(i) : x \in UNION cache[z].providers
        BY <3>6, SeenFacts
      <4>2. \E z \in Lineage(i)' : x \in UNION cache'[z].providers
        BY <2>1, <4>1
      <4>3. QED BY <1>1, <4>2 DEF Concerns
    <3>7. CASE x \in SeenNodes(v, i)
      <4>1. PICK s \in Slices : x \in cache[s].to /\ cache[s].up \cap cache[i].to # {}
        BY <3>7, SeenFacts
      <4>2. CASE s = x
        BY <1>1, <2>2, <4>1, <4>2 DEF Concerns
      <4>3. CASE s # x
        <5>1. cache'[s] = cache[s]
          BY <4>3, OthersUnchanged, ObjectsByKind
        <5>2. QED BY <1>1, <2>2, <4>1, <5>1 DEF Concerns
      <4>4. QED BY <4>2, <4>3
    <3>8. QED BY <2>3, <3>3, <3>4, <3>5, <3>6, <3>7
  <2>4. ASSUME NEW s \in v[Get(i)].to, k = SlicesOf(s) PROVE Concerns(f, i)'
    <3>1. /\ Result(k) = [e \in {e \in Slices : s \in cache[e].up} |-> cache[e]]
          /\ Result(k)' = [e \in {e \in Slices : s \in cache'[e].up} |-> cache'[e]]
      <4>1. Result(SlicesOf(s)) = [e \in {e \in Slices : s \in cache[e].up} |-> cache[e]]
        BY ResultFacts
      <4>2. Result(SlicesOf(s))' = [e \in {e \in Slices : s \in cache'[e].up} |-> cache'[e]]
        BY NextResultFacts
      <4>3. QED BY <2>4, <4>1, <4>2 DEF SlicesOf
    <3>2. \A e \in Slices : e # x => cache'[e] = cache[e]
      BY OthersUnchanged, ObjectsByKind
    <3>3. x \in Slices /\ (s \in cache[x].up \/ s \in cache'[x].up)
      <4> SUFFICES ASSUME ~(x \in Slices /\ (s \in cache[x].up \/ s \in cache'[x].up)) PROVE FALSE
        OBVIOUS
      <4>1. {e \in Slices : s \in cache'[e].up} = {e \in Slices : s \in cache[e].up}
        BY <3>2
      <4>2. \A e \in {e \in Slices : s \in cache[e].up} : cache'[e] = cache[e]
        BY <3>2
      <4>3. QED BY <1>2, <3>1, <4>1, <4>2
    <3>4. cache'[x] = c
      BY DEF Change, TypeOK
    <3>5. QED BY <1>1, <1>3, <2>2, <2>4, <3>3, <3>4 DEF Concerns
  <2>5. ASSUME k = GrantList, v[Get(i)].to \cap Foreign # {} PROVE Concerns(f, i)'
    <3>1. /\ Result(k) = [g \in {g \in Grants : cache[g].exists} |-> cache[g]]
          /\ Result(k)' = [g \in {g \in Grants : cache'[g].exists} |-> cache'[g]]
      <4>1. Result(GrantList) = [g \in {g \in Grants : cache[g].exists} |-> cache[g]]
        BY ResultFacts
      <4>2. Result(GrantList)' = [g \in {g \in Grants : cache'[g].exists} |-> cache'[g]]
        BY NextResultFacts
      <4>3. QED BY <2>5, <4>1, <4>2 DEF GrantList
    <3>2. x \in Grants
      <4> SUFFICES ASSUME x \notin Grants PROVE FALSE
        OBVIOUS
      <4>1. \A g \in Grants : cache'[g] = cache[g]
        BY OthersUnchanged, ObjectsByKind
      <4>2. {g \in Grants : cache'[g].exists} = {g \in Grants : cache[g].exists}
        BY <4>1
      <4>3. QED BY <1>2, <3>1, <4>1, <4>2
    <3>3. QED BY <1>1, <1>3, <2>2, <2>5, <3>2 DEF Concerns
  <2>6. QED BY <1>2, <2>3, <2>4, <2>5 DEF Led
<1>6. QED BY <1>4, <1>5

-----------------------------------------------------------------------------
(***************************************************************************)
(* The steps.                                                               *)
(***************************************************************************)

LEMMA FollowedFacts ==
    ASSUME WatchInv, NEW i \in Sources
    PROVE  /\ i = busy => Get(i) \in DOMAIN got
           /\ DOMAIN View(i) # {} => Get(i) \in DOMAIN View(i) /\ DOMAIN View(i) \subseteq Led(View(i), i)
           /\ Woken(i) \/ Current(View(i))
BY DEF WatchInv, Followed, Current

LEMMA ViewType ==
    ASSUME TypeOK, NEW i \in Sources
    PROVE  ViewOK(View(i))
BY DEF TypeOK, View

LEMMA EditStep ==
    ASSUME TypeOK, WatchInv, NEW x \in Objects, Edit(x)
    PROVE  TypeOK' /\ WatchInv'
<1>1. PICK c \in Contents(x), K \in Kinds :
             /\ x \in K
             /\ cache' = [cache EXCEPT ![x] = c]
             /\ events' = [events EXCEPT ![K] = Append(@, [object |-> x, old |-> cache[x], new |-> c])]
  BY DEF Edit
<1>2. /\ edits' = edits + 1 /\ UNCHANGED <<queue, busy, got, used, logged>>
  BY DEF Edit
<1>3. Change(x, c)
  BY <1>1 DEF Change
<1>4. c \in Content
  BY <1>1, ContentsType
<1>e. PICK f : f = EventOf(x, c)
  OBVIOUS
<1>5. f \in Event(K)
  BY <1>1, <1>4, <1>e DEF EventOf, Event, TypeOK
<1>6. DOMAIN events = Kinds /\ events[K] \in Seq(Event(K))
  BY DEF TypeOK
<1>7. /\ events'[K] = Append(events[K], f) /\ events'[K] \in Seq(Event(K))
      /\ \A L \in Kinds : L # K => events'[L] = events[L]
      /\ DOMAIN events' = Kinds
  <2>1. events' = [events EXCEPT ![K] = Append(events[K], f)]
    BY <1>1, <1>e DEF EventOf
  <2>2. QED BY <1>5, <1>6, <2>1, AppendProperties
<1>8. /\ \A n \in DOMAIN events[K] : n \in DOMAIN events'[K] /\ events'[K][n] = events[K][n]
      /\ \E n \in DOMAIN events'[K] : events'[K][n] = f
  <2>1. Len(events[K]) \in Nat /\ DOMAIN events[K] = 1 .. Len(events[K])
    BY <1>6, LenProperties
  <2>2. /\ Len(events'[K]) = Len(events[K]) + 1
        /\ events'[K][Len(events[K]) + 1] = f
        /\ \A n \in 1 .. Len(events[K]) : events'[K][n] = events[K][n]
    BY <1>5, <1>6, <1>7, AppendProperties
  <2>3. DOMAIN events'[K] = 1 .. Len(events[K]) + 1
    BY <1>7, <2>2, LenProperties
  <2>4. QED BY <2>1, <2>2, <2>3
<1>9. TypeOK'
  <2>1. cache' \in [Objects -> Content] /\ \A y \in Objects : cache'[y] \in Contents(y)
    BY <1>1, <1>4 DEF TypeOK
  <2>2. DOMAIN events' = Kinds /\ \A L \in Kinds : events'[L] \in Seq(Event(L))
    BY <1>7 DEF TypeOK
  <2>3. edits' \in Nat
    BY <1>2 DEF TypeOK
  <2>4. QED BY <1>2, <2>1, <2>2, <2>3 DEF TypeOK
<1>10. ASSUME NEW i \in Sources, Concerns(f, i)' PROVE Woken(i)'
  BY <1>8, <1>10 DEF Woken
<1>11. ASSUME NEW i \in Sources, Woken(i) PROVE Woken(i)'
  <2>1. CASE i \in queue \/ logged
    BY <1>2, <2>1 DEF Woken
  <2>2. ASSUME NEW L \in Kinds, NEW n \in DOMAIN events[L], Concerns(events[L][n], i)
        PROVE  Woken(i)'
    <3>1. PICK e : e = events[L][n]
      OBVIOUS
    <3>2. n \in DOMAIN events'[L] /\ events'[L][n] = e
      BY <1>7, <1>8, <3>1
    <3>3. Concerns(e, i)' \/ Concerns(f, i)'
      BY <1>3, <1>e, <2>2, <3>1, ConcernsKept
    <3>4. CASE Concerns(e, i)'
      <4>1. Concerns(events[L][n], i)'
        BY <3>2, <3>4
      <4>2. QED BY <3>2, <4>1 DEF Woken
    <3>5. QED BY <1>10, <3>3, <3>4
  <2>3. QED BY <1>11, <2>1, <2>2 DEF Woken
<1>12. ASSUME NEW i \in Sources PROVE Followed(i)'
  <2>1. PICK v : v = View(i)
    OBVIOUS
  <2>2. View(i)' = v
    BY <1>2, <2>1 DEF View
  <2>3. DOMAIN v # {} => Get(i) \in DOMAIN v /\ DOMAIN v \subseteq Led(v, i)
    BY <2>1, FollowedFacts
  <2>4. Woken(i)' \/ Current(v)'
    <3>1. CASE Woken(i)
      BY <1>11, <3>1
    <3>2. CASE ~Woken(i)
      <4>1. Current(v) /\ ViewOK(v)
        BY <2>1, <3>2, FollowedFacts, ViewType
      <4>2. CASE DOMAIN v = {}
        BY <4>2 DEF Current
      <4>3. CASE DOMAIN v # {}
        BY <1>3, <1>e, <1>10, <2>3, <4>1, <4>3, ViewKept
      <4>4. QED BY <4>2, <4>3
    <3>3. QED BY <3>1, <3>2
  <2>5. i = busy' => Get(i) \in DOMAIN got'
    BY <1>2, FollowedFacts
  <2>6. QED BY <2>2, <2>3, <2>4, <2>5 DEF Followed, Current, Get
<1>13. QED BY <1>9, <1>12 DEF WatchInv

-----------------------------------------------------------------------------
\* A mapper enqueues sources only.
Safe(r) == r.found \subseteq Sources

LEMMA ListedSafe ==
    ASSUME NEW S \in SUBSET Sources, NEW last \in Modes
    PROVE  Safe(Listed(S, last))
<1>1. CASE last = "indexed"
  BY <1>1 DEF Safe, Listed
<1>2. CASE last = "all"
  BY <1>2 DEF Safe, Listed
<1>3. CASE last = "failed"
  BY <1>3 DEF Safe, Listed
<1>4. QED BY <1>1, <1>2, <1>3 DEF Modes

LEMMA MergeSafe ==
    ASSUME NEW R, \A r \in R : Safe(r)
    PROVE  Safe(Merge(R))
BY DEF Safe, Merge

LEMMA FailedSafe == Safe([found |-> {}, lost |-> TRUE]) /\ Safe(Nothing)
BY DEF Safe, Nothing

LEMMA RequestsSafe ==
    ASSUME NEW K \in Kinds, NEW e \in Event(K), NEW first \in Modes, NEW last \in Modes
    PROVE  Safe(Requests(e, first, last))
<1> DEFINE x == e.object
<1>1. x \in Objects
  BY DEF Event, Objects
<1>2. \A y : Safe(WithParent(y, last)) /\ Safe(WithBackend(y, last))
  BY ListedSafe DEF WithParent, WithBackend
<1>3. \A c : Safe(ClassRequests(c, first, last))
  <2> SUFFICES ASSUME NEW c PROVE Safe(ClassRequests(c, first, last))
    OBVIOUS
  <2>1. CASE Gateways = {}
    BY <1>2, <2>1 DEF ClassRequests
  <2>2. CASE Gateways # {} /\ first = "failed"
    BY <2>2, FailedSafe DEF ClassRequests, Through
  <2>3. CASE Gateways # {} /\ first # "failed"
    <3>1. ClassRequests(c, first, last) = Merge({WithParent(g, last) : g \in GatewaysOf(c)})
      BY <2>3 DEF ClassRequests, Through
    <3>2. QED BY <1>2, <3>1, MergeSafe
  <2>4. QED BY <2>1, <2>2, <2>3
<1>4. \A o : Safe(SliceRequests(o, last))
  <2> SUFFICES ASSUME NEW o PROVE Safe(SliceRequests(o, last))
    OBVIOUS
  <2>1. QED BY <1>2, MergeSafe DEF SliceRequests
<1>5. Safe(NodeRequests(x, first, last))
  <2> HIDE DEF x
  <2>1. CASE first = "failed"
    BY <2>1, FailedSafe DEF NodeRequests, Through
  <2>2. CASE first # "failed"
    <3>1. NodeRequests(x, first, last) =
              Merge({SliceRequests(cache[s], last) : s \in {s \in Slices : x \in cache[s].to}})
      BY <2>2 DEF NodeRequests, Through
    <3>2. QED BY <1>4, <3>1, MergeSafe
  <2>3. QED BY <2>1, <2>2
<1>6. Safe(ProviderRequests(x, first, last))
  <2> DEFINE direct == Listed(Tokens(Sources, x), last)
             overGateways == IF Gateways = {} THEN Nothing
                             ELSE Through(Tokens(Gateways, x), first, LAMBDA g : WithParent(g, last))
             overClasses == Through(Tokens(Classes, x), first, LAMBDA c : ClassRequests(c, first, last))
  <2>1. ProviderRequests(x, first, last) = Merge({direct, overGateways, overClasses})
    BY DEF ProviderRequests
  <2>2. Safe(direct)
    BY ListedSafe DEF Tokens
  <2>3. Safe(overGateways)
    <3>1. CASE Gateways = {}
      BY <3>1, FailedSafe
    <3>2. CASE Gateways # {} /\ first = "failed"
      BY <3>2, FailedSafe DEF Through
    <3>3. CASE Gateways # {} /\ first # "failed"
      <4>1. overGateways = Merge({WithParent(g, last) : g \in Tokens(Gateways, x)})
        BY <3>3 DEF Through
      <4> HIDE DEF overGateways
      <4>2. QED BY <1>2, <4>1, MergeSafe
    <3>4. QED BY <3>1, <3>2, <3>3
  <2>4. Safe(overClasses)
    <3>1. CASE first = "failed"
      BY <3>1, FailedSafe DEF Through
    <3>2. CASE first # "failed"
      <4>1. overClasses = Merge({ClassRequests(c, first, last) : c \in Tokens(Classes, x)})
        BY <3>2 DEF Through
      <4> HIDE DEF overClasses
      <4>2. QED BY <1>3, <4>1, MergeSafe
    <3>3. QED BY <3>1, <3>2
  <2> HIDE DEF direct, overGateways, overClasses
  <2>5. QED BY <2>1, <2>2, <2>3, <2>4, MergeSafe
<1>7. Safe(GrantRequests(last))
  BY ListedSafe DEF GrantRequests
<1>8. Safe(OldAndNewRequests(e, last))
  BY <1>4, MergeSafe DEF OldAndNewRequests
<1>9. x \in Sources => Safe([found |-> {x}, lost |-> FALSE])
  BY DEF Safe
<1>10. Safe(Requests(e, first, last))
  <2>1. CASE x \in Sources
    BY <1>9, <2>1, KindsAssumption DEF Requests
  <2>2. CASE x \in Gateways
    BY <1>2, <2>2, KindsAssumption DEF Requests
  <2>3. CASE x \in Classes
    BY <1>3, <2>3, KindsAssumption DEF Requests
  <2>4. CASE x \in Grants
    BY <1>7, <2>4, KindsAssumption DEF Requests
  <2>5. CASE x \in DNSProviders
    BY <1>6, <2>5, KindsAssumption DEF Requests
  <2>6. CASE x \in Services
    BY <1>2, <2>6, KindsAssumption DEF Requests
  <2>7. CASE x \in Slices
    BY <1>8, <2>7, KindsAssumption DEF Requests
  <2>8. CASE x \in Nodes
    BY <1>5, <2>8, KindsAssumption DEF Requests
  <2>9. QED BY <1>1, <2>1, <2>2, <2>3, <2>4, <2>5, <2>6, <2>7, <2>8, ObjectsByKind
<1>11. QED BY <1>10

\* While the objects stay as they are, so does what is current and concerned.
LEMMA CacheKept ==
    ASSUME cache' = cache, NEW v, NEW e, NEW i
    PROVE  (Current(v)' <=> Current(v)) /\ (Concerns(e, i)' <=> Concerns(e, i))
<1>1. \A k : Result(k)' = Result(k)
  BY DEF Result
<1>2. Current(v)' <=> Current(v)
  BY <1>1 DEF Current
<1>3. Lineage(i)' = Lineage(i)
  BY DEF Lineage
<1>4. Concerns(e, i)' <=> Concerns(e, i)
  BY <1>3 DEF Concerns
<1>5. QED BY <1>2, <1>4

LEMMA WokenKept ==
    ASSUME cache' = cache, events' = events, logged' = logged, NEW i \in Sources,
           i \in queue => i \in queue', Woken(i)
    PROVE  Woken(i)'
<1>1. CASE i \in queue \/ logged
  BY <1>1 DEF Woken
<1>2. ASSUME NEW L \in Kinds, NEW n \in DOMAIN events[L], Concerns(events[L][n], i)
      PROVE  Woken(i)'
  <2>1. PICK e : e = events[L][n]
    OBVIOUS
  <2>2. Concerns(e, i)'
    BY <1>2, <2>1, CacheKept
  <2>3. Concerns(events[L][n], i)'
    BY <2>1, <2>2
  <2>4. QED BY <2>3 DEF Woken
<1>3. QED BY <1>1, <1>2 DEF Woken

LEMMA FollowedKept ==
    ASSUME WatchInv, cache' = cache, NEW i \in Sources, View(i)' = View(i), Woken(i) => Woken(i)',
           i = busy' => Get(i) \in DOMAIN got'
    PROVE  Followed(i)'
<1>1. PICK u : u = View(i)
  OBVIOUS
<1>2. View(i)' = u
  BY <1>1
<1>3. DOMAIN u # {} => Get(i) \in DOMAIN u /\ DOMAIN u \subseteq Led(u, i)
  BY <1>1, FollowedFacts
<1>4. Woken(i)' \/ Current(u)'
  BY <1>1, FollowedFacts, CacheKept
<1>5. QED BY <1>2, <1>3, <1>4 DEF Followed, Current, Get

LEMMA MapStep ==
    ASSUME TypeOK, WatchInv, NEW K \in Kinds, Map(K)
    PROVE  TypeOK' /\ WatchInv'
<1>1. PICK first \in Modes, last \in Modes :
             /\ queue' = queue \cup Requests(Head(events[K]), first, last).found
             /\ logged' = (logged \/ Requests(Head(events[K]), first, last).lost)
  BY DEF Map
<1>2. /\ events[K] # <<>> /\ events' = [events EXCEPT ![K] = Tail(events[K])]
      /\ UNCHANGED <<cache, busy, got, used, edits>>
  BY DEF Map
<1>3. DOMAIN events = Kinds /\ events[K] \in Seq(Event(K))
  BY DEF TypeOK
<1>4. PICK h \in Event(K) : h = Head(events[K])
  BY <1>2, <1>3, HeadTailProperties
<1>5. /\ events'[K] = Tail(events[K]) /\ events'[K] \in Seq(Event(K)) /\ DOMAIN events' = Kinds
      /\ \A L \in Kinds : L # K => events'[L] = events[L]
  BY <1>2, <1>3, HeadTailProperties
<1>6. \A n \in DOMAIN events[K] : \/ events[K][n] = h
                                  \/ n - 1 \in DOMAIN events'[K] /\ events'[K][n - 1] = events[K][n]
  <2>1. Len(events[K]) \in Nat /\ DOMAIN events[K] = 1 .. Len(events[K])
    BY <1>3, LenProperties
  <2>2. /\ Len(events'[K]) = Len(events[K]) - 1
        /\ \A m \in 1 .. Len(Tail(events[K])) : events'[K][m] = events[K][m + 1]
    BY <1>2, <1>3, <1>5, HeadTailProperties
  <2>3. DOMAIN events'[K] = 1 .. Len(events'[K])
    BY <1>5, LenProperties
  <2>4. h = events[K][1]
    BY <1>4
  <2>5. ASSUME NEW n \in DOMAIN events[K], n # 1
        PROVE  n - 1 \in DOMAIN events'[K] /\ events'[K][n - 1] = events[K][n]
    <3>1. n - 1 \in 1 .. Len(events'[K]) /\ (n - 1) + 1 = n
      BY <2>1, <2>2, <2>5
    <3>2. QED BY <1>5, <2>2, <2>3, <3>1
  <2>6. QED BY <2>4, <2>5
<1>7. TypeOK'
  <2>1. queue' \subseteq Sources
    BY <1>1, <1>4, RequestsSafe DEF TypeOK, Safe
  <2>2. \A L \in Kinds : events'[L] \in Seq(Event(L))
    BY <1>5 DEF TypeOK
  <2>3. logged' \in BOOLEAN
    BY <1>1
  <2>4. QED BY <1>2, <1>5, <2>1, <2>2, <2>3 DEF TypeOK
<1>8. ASSUME NEW i \in Sources, Woken(i) PROVE Woken(i)'
  <2>1. CASE i \in queue \/ logged
    BY <1>1, <2>1 DEF Woken
  <2>2. ASSUME NEW L \in Kinds, NEW n \in DOMAIN events[L], Concerns(events[L][n], i)
        PROVE  Woken(i)'
    <3>1. PICK e : e = events[L][n]
      OBVIOUS
    <3>2. Concerns(e, i) /\ Concerns(e, i)'
      BY <1>2, <2>2, <3>1, CacheKept
    <3>3. ASSUME NEW m \in DOMAIN events'[L], events'[L][m] = e PROVE Woken(i)'
      <4>1. Concerns(events[L][m], i)'
        BY <3>2, <3>3
      <4>2. QED BY <4>1 DEF Woken
    <3>4. CASE L # K
      BY <1>5, <3>1, <3>3, <3>4
    <3>5. CASE L = K /\ e = h
      <4>1. Served(Requests(h, first, last), i)
        BY <3>2, <3>5, RequestsServe
      <4>2. i \in queue' \/ logged'
        BY <1>1, <1>4, <4>1 DEF Served
      <4>3. QED BY <4>2 DEF Woken
    <3>6. CASE L = K /\ e # h
      BY <1>6, <3>1, <3>3, <3>6
    <3>7. QED BY <3>4, <3>5, <3>6
  <2>3. QED BY <1>8, <2>1, <2>2 DEF Woken
<1>9. ASSUME NEW i \in Sources PROVE Followed(i)'
  <2>1. View(i)' = View(i)
    BY <1>2 DEF View
  <2>2. i = busy' => Get(i) \in DOMAIN got'
    BY <1>2, FollowedFacts
  <2>3. QED BY <1>2, <1>8, <2>1, <2>2, FollowedKept
<1>10. QED BY <1>7, <1>9 DEF WatchInv

-----------------------------------------------------------------------------
\* A view leads further the more it holds.
LEMMA LedGrows ==
    ASSUME NEW v, NEW w, NEW i, Get(i) \in DOMAIN v,
           \A k \in DOMAIN v : k \in DOMAIN w /\ w[k] = v[k]
    PROVE  Led(v, i) \subseteq Led(w, i)
<1>1. w[Get(i)] = v[Get(i)]
  OBVIOUS
<1>2. SeenLineage(v, i) \subseteq SeenLineage(w, i)
  BY <1>1 DEF SeenLineage
<1>3. SeenProviders(v, i) \subseteq SeenProviders(w, i)
  <2> SUFFICES ASSUME NEW p \in SeenProviders(v, i) PROVE p \in SeenProviders(w, i)
    OBVIOUS
  <2>1. PICK y \in SeenLineage(v, i) : Get(y) \in DOMAIN v /\ p \in UNION v[Get(y)].providers
    BY DEF SeenProviders
  <2>2. y \in SeenLineage(w, i) /\ Get(y) \in DOMAIN w /\ p \in UNION w[Get(y)].providers
    BY <1>2, <2>1
  <2>3. QED BY <2>2 DEF SeenProviders
<1>4. SeenNodes(v, i) \subseteq SeenNodes(w, i)
  <2> SUFFICES ASSUME NEW n \in SeenNodes(v, i) PROVE n \in SeenNodes(w, i)
    OBVIOUS
  <2>1. PICK s \in v[Get(i)].to : /\ SlicesOf(s) \in DOMAIN v
                                  /\ \E e \in DOMAIN v[SlicesOf(s)] : n \in v[SlicesOf(s)][e].to
    BY DEF SeenNodes
  <2>2. /\ s \in w[Get(i)].to /\ SlicesOf(s) \in DOMAIN w
        /\ \E e \in DOMAIN w[SlicesOf(s)] : n \in w[SlicesOf(s)][e].to
    BY <1>1, <2>1
  <2>3. QED BY <2>2 DEF SeenNodes
<1>5. QED BY <1>1, <1>2, <1>3, <1>4 DEF Led

\* A reconcile reads one more thing it was led to.
LEMMA ReadStep ==
    ASSUME TypeOK, WatchInv, busy # NoSource, NEW k \in Led(got, busy) \cap Keys, Read(k)
    PROVE  TypeOK' /\ WatchInv'
<1>1. /\ k \notin DOMAIN got
      /\ got' = [j \in DOMAIN got \cup {k} |-> IF j = k THEN Result(k) ELSE got[j]]
      /\ UNCHANGED <<cache, events, queue, busy, used, edits, logged>>
  BY DEF Read
<1>2. PICK v : v = got
  OBVIOUS
<1>3. PICK w : w = [j \in DOMAIN got \cup {k} |-> IF j = k THEN Result(k) ELSE got[j]]
  OBVIOUS
<1>4. /\ got' = w /\ DOMAIN w = DOMAIN v \cup {k} /\ w[k] = Result(k)
      /\ \A j \in DOMAIN v : w[j] = v[j]
  BY <1>1, <1>2, <1>3
<1>5. busy \in Sources
  BY DEF TypeOK
<1>6. ViewOK(w)
  <2>1. ViewOK(v)
    BY <1>2 DEF TypeOK
  <2>2. DOMAIN w \subseteq Keys
    BY <1>4, <2>1 DEF ViewOK
  <2>3. ASSUME NEW s \in Services, SlicesOf(s) \in DOMAIN w, NEW e \in DOMAIN w[SlicesOf(s)]
        PROVE  w[SlicesOf(s)][e] \in Content
    <3>1. CASE SlicesOf(s) \in DOMAIN v
      BY <1>4, <2>1, <2>3, <3>1 DEF ViewOK
    <3>2. CASE SlicesOf(s) \notin DOMAIN v
      <4>1. w[SlicesOf(s)] = Result(SlicesOf(s))
        BY <1>4, <2>3, <3>2
      <4>2. w[SlicesOf(s)] = [d \in {d \in Slices : s \in cache[d].up} |-> cache[d]]
        BY <4>1, ResultFacts
      <4>3. e \in Slices /\ w[SlicesOf(s)][e] = cache[e]
        BY <2>3, <4>2
      <4>4. QED BY <4>3, ContentFacts, ObjectsByKind
    <3>3. QED BY <3>1, <3>2
  <2>4. QED BY <2>2, <2>3 DEF ViewOK
<1>7. TypeOK'
  BY <1>1, <1>4, <1>6 DEF TypeOK, ViewOK, SlicesOf
<1>8. \A i \in Sources : Woken(i) => Woken(i)'
  BY <1>1, WokenKept
<1>9. ASSUME NEW i \in Sources, i # busy PROVE Followed(i)'
  <2>1. View(i)' = View(i)
    BY <1>1, <1>9 DEF View
  <2>2. QED BY <1>1, <1>8, <1>9, <2>1, FollowedKept
<1>10. PICK b \in Sources : b = busy
  BY <1>5
<1>11. Followed(b)'
  <2>1. View(b) = v /\ View(b)' = w /\ b = busy'
    BY <1>1, <1>2, <1>4, <1>10 DEF View
  <2>2. Get(b) \in DOMAIN v /\ DOMAIN v \subseteq Led(v, b)
    BY <1>2, <1>10, <2>1, FollowedFacts
  <2>3. Led(v, b) \subseteq Led(w, b)
    BY <1>4, <2>2, LedGrows
  <2>4. k \in Led(v, b)
    BY <1>2, <1>10
  <2>5. Get(b) \in DOMAIN w /\ DOMAIN w \subseteq Led(w, b)
    BY <1>4, <2>2, <2>3, <2>4
  <2>6. Current(v) => Current(w)
    BY <1>4 DEF Current
  <2>7. Woken(b)' \/ Current(w)'
    BY <1>1, <1>8, <2>1, <2>6, FollowedFacts, CacheKept
  <2>8. QED BY <1>4, <2>1, <2>5, <2>7 DEF Followed, Current, Get
<1>12. QED BY <1>7, <1>9, <1>10, <1>11 DEF WatchInv

\* Every read is of something the reconcile was led to.
LEMMA GetKeys == \A x \in Objects : Get(x) \in Keys
BY DEF Get, Keys

LEMMA BusyFacts ==
    ASSUME TypeOK, WatchInv, busy # NoSource
    PROVE  busy \in Sources /\ Has(busy) /\ got[Get(busy)] = Obj(busy)
BY FollowedFacts DEF TypeOK, Has, Obj

LEMMA LedFacts ==
    ASSUME NEW v, NEW i
    PROVE  /\ \A x \in SeenLineage(v, i) : Get(x) \in Led(v, i)
           /\ \A x \in v[Get(i)].to : Get(x) \in Led(v, i) /\ SlicesOf(x) \in Led(v, i)
           /\ \A x \in SeenProviders(v, i) : Get(x) \in Led(v, i)
           /\ \A x \in SeenNodes(v, i) : Get(x) \in Led(v, i)
           /\ v[Get(i)].to \cap Foreign # {} => GrantList \in Led(v, i)
BY DEF Led

LEMMA ReadParentStep ==
    ASSUME TypeOK, WatchInv, NEW x \in Gateways \cup Classes, ReadParent(x)
    PROVE  TypeOK' /\ WatchInv'
<1>1. busy # NoSource /\ Read(Get(x))
  BY DEF ReadParent
<1>2. x \in SeenLineage(got, busy)
  BY DEF ReadParent, Unfinished, SeenLineage, Obj, Has
<1>3. Get(x) \in Led(got, busy) \cap Keys
  BY <1>2, LedFacts, GetKeys, ObjectsByKind
<1>4. QED BY <1>1, <1>3, ReadStep

LEMMA ReadGrantsStep ==
    ASSUME TypeOK, WatchInv, ReadGrants
    PROVE  TypeOK' /\ WatchInv'
<1>1. busy # NoSource /\ Read(GrantList) /\ got[Get(busy)].to \cap Foreign # {}
  BY DEF ReadGrants, GrantsRead, Obj
<1>2. GrantList \in Led(got, busy) \cap Keys
  BY <1>1, LedFacts DEF Keys
<1>3. QED BY <1>1, <1>2, ReadStep

LEMMA ReadProviderStep ==
    ASSUME TypeOK, WatchInv, NEW p \in DNSProviders, ReadProvider(p)
    PROVE  TypeOK' /\ WatchInv'
<1>1. busy # NoSource /\ Read(Get(p)) /\ ChainRead /\ p \in Selected
  BY DEF ReadProvider, Resolved
<1>2. Has(busy)
  BY <1>1, BusyFacts
<1>3. \A y \in SeenLineage(got, busy) : Has(y) /\ p \in UNION Obj(y).providers => p \in SeenProviders(got, busy)
  BY DEF SeenProviders, Has, Obj
<1>4. /\ busy \in SeenLineage(got, busy)
      /\ \A g \in Obj(busy).up : /\ g \in SeenLineage(got, busy) /\ Has(g)
                                 /\ \A c \in Obj(g).up : c \in SeenLineage(got, busy) /\ Has(c)
  BY <1>1 DEF SeenLineage, ChainRead, Has, Obj
<1>5. p \in SeenProviders(got, busy)
  <2>1. PICK chain \in Chains : p \in UNION chain
    BY <1>1 DEF Selected
  <2>2. CASE p \in UNION Obj(busy).providers
    BY <1>2, <1>3, <1>4, <2>2
  <2>3. ASSUME NEW g \in Obj(busy).up, p \in UNION Chain(g) PROVE p \in SeenProviders(got, busy)
    <3>1. CASE p \in UNION Obj(g).providers
      BY <1>3, <1>4, <3>1
    <3>2. ASSUME NEW c \in Obj(g).up, p \in UNION Obj(c).providers PROVE p \in SeenProviders(got, busy)
      BY <1>3, <1>4, <3>2
    <3>3. QED BY <2>3, <3>1, <3>2 DEF Chain, Specific
  <2>4. chain = Obj(busy).providers \/ \E g \in Obj(busy).up : chain = Chain(g)
    BY DEF Chains, Specific
  <2>5. QED BY <2>1, <2>2, <2>3, <2>4
<1>6. Get(p) \in Led(got, busy) \cap Keys
  BY <1>5, LedFacts, GetKeys, ObjectsByKind
<1>7. QED BY <1>1, <1>6, ReadStep

LEMMA ReadBackendStep ==
    ASSUME TypeOK, WatchInv, NEW s \in Services, ReadBackend(s)
    PROVE  TypeOK' /\ WatchInv'
<1>1. busy # NoSource /\ s \in got[Get(busy)].to
  BY DEF ReadBackend, Resolving, Backends, Obj
<1>2. Get(s) \in Led(got, busy) \cap Keys
  BY <1>1, LedFacts, GetKeys, ObjectsByKind
<1>3. SlicesOf(s) \in Led(got, busy) \cap Keys
  BY <1>1, LedFacts DEF Keys, SlicesOf
<1>4. ASSUME NEW n \in NodesOf(s) PROVE Get(n) \in Led(got, busy) \cap Keys
  <2>1. PICK e \in DOMAIN got[SlicesOf(s)] : SlicesOf(s) \in DOMAIN got /\ n \in got[SlicesOf(s)][e].to
    BY <1>4 DEF NodesOf
  <2>2. n \in SeenNodes(got, busy)
    BY <1>1, <2>1 DEF SeenNodes
  <2>3. n \in Objects
    BY <2>1, ContentFields DEF TypeOK, ViewOK
  <2>4. QED BY <2>2, <2>3, LedFacts, GetKeys
<1>5. QED
  <2>1. Read(Get(s)) \/ Read(SlicesOf(s)) \/ \E n \in NodesOf(s) : Read(Get(n))
    BY DEF ReadBackend
  <2>2. QED BY <1>1, <1>2, <1>3, <1>4, <2>1, ReadStep

-----------------------------------------------------------------------------
\* A reconcile starts from the source's own object, and leaves behind what it
\* has read.
LEMMA BeginStep ==
    ASSUME TypeOK, WatchInv, NEW i \in Sources, Begin(i)
    PROVE  TypeOK' /\ WatchInv'
<1>1. /\ busy = NoSource /\ queue' = queue \ {i} /\ busy' = i
      /\ got' = [k \in {Get(i)} |-> Result(k)]
      /\ UNCHANGED <<cache, events, used, edits, logged>>
  BY DEF Begin
<1>2. PICK w : w = [k \in {Get(i)} |-> Result(k)]
  OBVIOUS
<1>3. got' = w /\ DOMAIN w = {Get(i)} /\ w[Get(i)] = Result(Get(i))
  BY <1>1, <1>2
<1>4. ViewOK(w)
  <2>1. Get(i) \in Keys
    BY GetKeys, ObjectsByKind
  <2>2. \A s \in Services : SlicesOf(s) # Get(i)
    BY DEF SlicesOf, Get
  <2>3. QED BY <1>3, <2>1, <2>2 DEF ViewOK
<1>5. TypeOK'
  BY <1>1, <1>3, <1>4 DEF TypeOK, ViewOK, SlicesOf
<1>6. ASSUME NEW j \in Sources, j # i PROVE Followed(j)'
  <2>1. View(j)' = View(j) /\ j # busy'
    BY <1>1, <1>6, KindsAssumption DEF View
  <2>2. Woken(j) => Woken(j)'
    BY <1>1, <1>6, WokenKept
  <2>3. QED BY <1>1, <2>1, <2>2, FollowedKept
<1>7. Followed(i)'
  <2>1. View(i)' = w
    BY <1>1, <1>3 DEF View
  <2>2. Get(i) \in Led(w, i)
    BY LedFacts DEF SeenLineage
  <2>3. Current(w)
    BY <1>3 DEF Current
  <2>4. Current(w)'
    BY <1>1, <2>3, CacheKept
  <2>5. QED BY <1>3, <2>1, <2>2, <2>4 DEF Followed, Current, Get
<1>8. QED BY <1>5, <1>6, <1>7 DEF WatchInv

LEMMA FinishStep ==
    ASSUME TypeOK, WatchInv, Finish
    PROVE  TypeOK' /\ WatchInv'
<1>1. /\ busy # NoSource /\ used' = [used EXCEPT ![busy] = got] /\ busy' = NoSource /\ got' = <<>>
      /\ UNCHANGED <<cache, events, queue, edits, logged>>
  BY DEF Finish
<1>2. PICK b \in Sources : b = busy
  BY <1>1 DEF TypeOK
<1>3. /\ DOMAIN used' = Sources /\ used'[b] = got
      /\ \A i \in Sources : i # b => used'[i] = used[i]
  BY <1>1, <1>2 DEF TypeOK
<1>4. TypeOK'
  <2>1. PICK v : v = <<>>
    OBVIOUS
  <2>2. DOMAIN v = {}
    BY <2>1
  <2>3. ViewOK(v)
    BY <2>2 DEF ViewOK
  <2>4. ViewOK(got)'
    BY <1>1, <2>1, <2>3 DEF ViewOK, SlicesOf
  <2>5. ASSUME NEW i \in Sources PROVE ViewOK(used[i])'
    <3>1. PICK u : u = used'[i]
      OBVIOUS
    <3>2. ViewOK(u)
      BY <1>2, <1>3, <3>1 DEF TypeOK
    <3>3. ViewOK(u)'
      BY <3>2 DEF ViewOK, SlicesOf
    <3>4. QED BY <3>1, <3>3
  <2>6. QED BY <1>1, <1>3, <2>4, <2>5 DEF TypeOK
<1>5. ASSUME NEW i \in Sources PROVE Followed(i)'
  <2>1. View(i)' = View(i) /\ i # busy'
    BY <1>1, <1>2, <1>3, KindsAssumption DEF View
  <2>2. Woken(i) => Woken(i)'
    BY <1>1, WokenKept
  <2>3. QED BY <1>1, <2>1, <2>2, FollowedKept
<1>6. QED BY <1>4, <1>5 DEF WatchInv

LEMMA Initially ==
    ASSUME Init
    PROVE  TypeOK /\ WatchInv
<1>1. /\ cache \in [Objects -> Content] /\ \A x \in Objects : cache[x] \in Contents(x)
      /\ events = [K \in Kinds |-> <<>>] /\ queue = Sources /\ busy = NoSource /\ got = <<>>
      /\ used = [i \in Sources |-> <<>>] /\ edits = 0 /\ logged = FALSE
  <2>1. PICK c \in [Objects -> Content] : (\A x \in Objects : c[x] \in Contents(x)) /\ Start(c)
    BY DEF Init
  <2>2. QED BY <2>1 DEF Start
<1>2. PICK v : v = <<>>
  OBVIOUS
<1>3. DOMAIN v = {}
  BY <1>2
<1>4. ViewOK(v)
  BY <1>3 DEF ViewOK
<1>5. got = v /\ \A i \in Sources : used[i] = v
  BY <1>1, <1>2
<1>6. \A K \in Kinds : events[K] \in Seq(Event(K))
  BY <1>1, EmptySeq
<1>7. TypeOK
  BY <1>1, <1>4, <1>5, <1>6 DEF TypeOK
<1>8. ASSUME NEW i \in Sources PROVE Followed(i)
  <2>1. View(i) = v /\ i # busy /\ Woken(i)
    BY <1>1, <1>5, KindsAssumption DEF View, Woken
  <2>2. QED BY <1>3, <2>1 DEF Followed
<1>9. QED BY <1>7, <1>8 DEF WatchInv

LEMMA StepInv ==
    ASSUME TypeOK, WatchInv, [Next]_vars
    PROVE  TypeOK' /\ WatchInv'
<1>1. ASSUME NEW x \in Objects, Edit(x) PROVE TypeOK' /\ WatchInv'
  BY <1>1, EditStep
<1>2. ASSUME NEW K \in Kinds, Map(K) PROVE TypeOK' /\ WatchInv'
  BY <1>2, MapStep
<1>3. ASSUME NEW i \in Sources, Begin(i) PROVE TypeOK' /\ WatchInv'
  BY <1>3, BeginStep
<1>4. ASSUME NEW x \in Gateways \cup Classes, ReadParent(x) PROVE TypeOK' /\ WatchInv'
  BY <1>4, ReadParentStep
<1>5. ASSUME ReadGrants PROVE TypeOK' /\ WatchInv'
  BY <1>5, ReadGrantsStep
<1>6. ASSUME NEW p \in DNSProviders, ReadProvider(p) PROVE TypeOK' /\ WatchInv'
  BY <1>6, ReadProviderStep
<1>7. ASSUME NEW s \in Services, ReadBackend(s) PROVE TypeOK' /\ WatchInv'
  BY <1>7, ReadBackendStep
<1>8. ASSUME Finish PROVE TypeOK' /\ WatchInv'
  BY <1>8, FinishStep
<1>9. CASE UNCHANGED vars
  <2>1. UNCHANGED <<cache, events, queue, busy, got, used, edits, logged>>
    BY <1>9 DEF vars
  <2>2. TypeOK'
    BY <2>1 DEF TypeOK, ViewOK, Contents, SlicesOf
  <2>3. ASSUME NEW i \in Sources PROVE Followed(i)'
    <3>1. View(i)' = View(i)
      BY <2>1 DEF View
    <3>2. Woken(i) => Woken(i)'
      BY <2>1, WokenKept
    <3>3. i = busy' => Get(i) \in DOMAIN got'
      BY <2>1, FollowedFacts
    <3>4. QED BY <2>1, <3>1, <3>2, <3>3, FollowedKept
  <2>4. QED BY <2>2, <2>3 DEF WatchInv
<1>10. QED BY <1>1, <1>2, <1>3, <1>4, <1>5, <1>6, <1>7, <1>8, <1>9 DEF Next

LEMMA WatchInvariant == Spec => [](TypeOK /\ WatchInv)
<1>1. Init => TypeOK /\ WatchInv
  BY Initially
<1>2. TypeOK /\ WatchInv /\ [Next]_vars => (TypeOK /\ WatchInv)'
  BY StepInv
<1>3. QED BY <1>1, <1>2, PTL DEF Spec

\* Events, queue and views always hold what their types say: in particular a
\* mapper enqueues sources and nothing else, and a reconcile reads only objects
\* of the kinds its controller watches.
THEOREM TypesHold == Spec => []TypeOK
BY WatchInvariant, PTL

\* No change is missed silently, whatever objects the cluster holds, however
\* they change while a source is being reconciled, and in whatever order the
\* events of the eight watches arrive (mapper.go of setup.go and the reads of
\* sourceReconciler.Reconcile).
THEOREM NothingMissed == Spec => []UpToDate
<1>1. TypeOK /\ WatchInv => UpToDate
  <2> SUFFICES ASSUME TypeOK, WatchInv, \A K \in Kinds : events[K] = <<>>, ~logged,
                      NEW i \in Sources \ (queue \cup {busy}), NEW k \in DOMAIN used[i]
               PROVE  used[i][k] = Result(k)
    BY DEF UpToDate
  <2>1. \A K \in Kinds : DOMAIN events[K] = {}
    OBVIOUS
  <2>2. ~Woken(i)
    BY <2>1 DEF Woken
  <2>3. View(i) = used[i]
    BY DEF View
  <2>4. QED BY <2>2, <2>3, FollowedFacts DEF Current
<1>2. QED BY <1>1, WatchInvariant, PTL
==============================================================================
