---------------------------- MODULE ResolverProofs ----------------------------
(***************************************************************************)
(* Proofs about projection and resolver, for any hostnames, zones,          *)
(* providers, Services and Nodes, any Ingress or route and any              *)
(* ReferenceGrants.                                                         *)
(***************************************************************************)
EXTENDS Resolver, SequenceTheorems, TLAPS

-----------------------------------------------------------------------------
(***************************************************************************)
(* Names and zones.                                                         *)
(***************************************************************************)

\* A suffix of a name is a suffix of the name with one more label in front.
LEMMA SuffixOfLonger ==
    ASSUME NEW Labels, NEW z \in Seq(Labels), NEW t \in Seq(Labels), NEW x \in Labels, IsSuffix(z, t)
    PROVE  IsSuffix(z, <<x>> \o t)
<1> DEFINE n == Len(z)
           m == Len(t)
           u == <<x>> \o t
<1>1. n \in Nat /\ m \in Nat
  BY LenProperties
<1>2. u \in Seq(Labels) /\ Len(u) = m + 1 /\ \A i \in 1 .. m : u[i + 1] = t[i]
  <2>1. <<x>> \in Seq(Labels) /\ Len(<<x>>) = 1
    OBVIOUS
  <2>2. /\ u \in Seq(Labels) /\ Len(u) = 1 + m
        /\ \A i \in 1 .. 1 + m : u[i] = IF i <= 1 THEN <<x>>[i] ELSE t[i - 1]
    BY <2>1, ConcatProperties
  <2> HIDE DEF u, m
  <2>3. ASSUME NEW i \in 1 .. m PROVE u[i + 1] = t[i]
    <3>1. i + 1 \in 1 .. 1 + m /\ ~(i + 1 <= 1) /\ (i + 1) - 1 = i
      BY <1>1
    <3>2. QED BY <2>2, <3>1
  <2>4. QED BY <1>1, <2>2, <2>3
<1>3. /\ Reverse(z) \in Seq(Labels) /\ Len(Reverse(z)) = n
      /\ Reverse(t) \in Seq(Labels) /\ Len(Reverse(t)) = m
      /\ \A i \in 1 .. m : Reverse(t)[i] = t[(m - i) + 1]
  BY DEF Reverse
<1> HIDE DEF u
<1>4. /\ Reverse(u) \in Seq(Labels) /\ Len(Reverse(u)) = m + 1
      /\ \A i \in 1 .. m + 1 : Reverse(u)[i] = u[(m + 1 - i) + 1]
  BY <1>1, <1>2 DEF Reverse
<1> HIDE DEF n, m
<1>5. n <= m /\ SubSeq(Reverse(z), 1, n) = SubSeq(Reverse(t), 1, n)
  BY <1>3 DEF IsSuffix, IsPrefix
<1>6. \A i \in 1 .. n : Reverse(u)[i] = Reverse(t)[i]
  <2> SUFFICES ASSUME NEW i \in 1 .. n PROVE Reverse(u)[i] = Reverse(t)[i]
    OBVIOUS
  <2>1. i \in 1 .. m /\ i \in 1 .. m + 1 /\ (m - i) + 1 \in 1 .. m
    BY <1>1, <1>5
  <2>2. (m + 1 - i) + 1 = ((m - i) + 1) + 1
    BY <1>1, <2>1
  <2>3. QED BY <1>2, <1>3, <1>4, <2>1, <2>2
<1>7. SubSeq(Reverse(u), 1, n) = SubSeq(Reverse(t), 1, n)
  <2>1. SubSeq(Reverse(u), 1, n) = [i \in 1 .. n |-> Reverse(u)[i]]
    BY <1>1, <1>4, <1>5
  <2>2. SubSeq(Reverse(t), 1, n) = [i \in 1 .. n |-> Reverse(t)[i]]
    BY <1>1, <1>3, <1>5
  <2>3. QED BY <1>6, <2>1, <2>2
<1>8. n <= m + 1
  BY <1>1, <1>5
<1>9. QED BY <1>3, <1>4, <1>5, <1>7, <1>8 DEF IsSuffix, IsPrefix, u

\* matchingZone looks at a wildcard's base; the names it covers end with it.
LEMMA CoveredInside ==
    ASSUME NEW h \in Hosts, NEW z \in Zones, IsSuffix(z, Base(h))
    PROVE  IsSuffix(z, Covered(h))
<1>1. h \in Seq(STRING) /\ h # <<>> /\ z \in Seq(STRING) /\ Subdomain \in STRING
  BY ResolverAssumption
<1>2. Tail(h) \in Seq(STRING)
  BY <1>1, HeadTailProperties
<1>3. CASE Head(h) = Wildcard
  <2>1. IsSuffix(z, Tail(h))
    BY <1>3 DEF Base
  <2>2. QED BY <1>1, <1>2, <1>3, <2>1, SuffixOfLonger DEF Covered
<1>4. CASE Head(h) # Wildcard
  BY <1>4 DEF Base, Covered
<1>5. QED BY <1>3, <1>4

-----------------------------------------------------------------------------
(***************************************************************************)
(* The projection.                                                          *)
(***************************************************************************)

LEMMA RouteOrIngress ==
    ASSUME TypeOK
    PROVE  /\ IsRoute(source) => source \in AnyRoute
           /\ ~IsRoute(source) => source \in AnyIngress
BY ProjectionAssumption DEF TypeOK, IsRoute, AnyIngress, AnyRoute

\* The hostnames of a source are hostnames, and their backends are among the
\* keys it is indexed by.
LEMMA ProjectionType ==
    ASSUME TypeOK, NEW h \in DOMAIN projection
    PROVE  h \in Hosts /\ projection[h] \subseteq BackendKeys(source) /\ BackendKeys(source) \subseteq ServiceKeys
<1>1. CASE IsRoute(source)
  <2>1. source.overrides \subseteq Hosts /\ source.hostnames \subseteq Hosts /\ source.refs \subseteq BackendRefs
    BY <1>1, RouteOrIngress DEF AnyRoute
  <2>2. projection = RouteProjection(source, grants)
    BY <1>1 DEF projection, Projected
  <2>3. h \in RouteHostnames(source) /\ projection[h] = RouteBackends(source, grants)
    BY <2>2 DEF RouteProjection
  <2>4. h \in Hosts
    BY <2>1, <2>3 DEF RouteHostnames
  <2>5. RouteBackends(source, grants) \subseteq RouteBackendKeys(source)
    BY DEF RouteBackends, RouteBackend, RouteBackendKeys
  <2>6. \A ref \in BackendRefs : Key(ref) \in ServiceKeys
    BY DEF BackendRefs, Key, ServiceKeys
  <2>7. RouteBackendKeys(source) \subseteq ServiceKeys
    BY <2>1, <2>6 DEF RouteBackendKeys
  <2>8. QED BY <1>1, <2>3, <2>4, <2>5, <2>7 DEF BackendKeys
<1>2. CASE ~IsRoute(source)
  <2>1. source.overrides \subseteq Hosts
    BY <1>2, RouteOrIngress DEF AnyIngress
  <2>2. projection = IngressProjection(source)
    BY <1>2 DEF projection, Projected
  <2>3. \A S, T : S \subseteq T => Here(S) \subseteq Here(T)
    BY DEF Here
  <2>4. AllBackends(source) \subseteq IngressBackendKeys(source)
    BY <2>3 DEF AllBackends, IngressBackendKeys, References, HostRules
  <2>5. HostBackends(source, h) \subseteq IngressBackendKeys(source)
    <3>1. UNION {r.paths : r \in {r \in HostRules(source) : r.host = h}} \subseteq References(source)
      BY DEF HostRules, References
    <3>2. source.default \subseteq References(source)
      BY DEF References
    <3>3. QED BY <2>3, <3>1, <3>2 DEF HostBackends, IngressBackendKeys
  <2>6. h \in Hosts /\ (projection[h] = AllBackends(source) \/ projection[h] = HostBackends(source, h))
    BY <2>1, <2>2 DEF IngressProjection
  <2>7. IngressBackendKeys(source) \subseteq ServiceKeys
    BY ProjectionAssumption DEF IngressBackendKeys, Here, ServiceKeys
  <2>8. QED BY <1>2, <2>4, <2>5, <2>6, <2>7 DEF BackendKeys
<1>3. QED BY <1>1, <1>2

\* A projection that reports nothing has a hostname with a backend.
LEMMA SilentProjection ==
    ASSUME TypeOK, ProjectionDiagnostics(source, grants) = {}
    PROVE  \E h \in DOMAIN projection : projection[h] # {}
<1>1. CASE IsRoute(source)
  <2>1. RouteDiagnostics(source, grants) = {}
    BY <1>1 DEF ProjectionDiagnostics
  <2> DEFINE rejected == {Key(ref) : ref \in {ref \in source.refs : ~RouteBackend(source, grants, ref)}}
  <2>2. /\ When(TRUE, "UnsupportedBackend", rejected) = {}
        /\ When(RouteHostnames(source) = {}, "NoPublishableHostname", {source.kind}) = {}
        /\ When(source.refs = {}, "NoBackendReferences", {source.kind}) = {}
    BY <2>1 DEF RouteDiagnostics
  <2>3. PICK ref \in source.refs : RouteBackend(source, grants, ref)
    <3>1. rejected = {}
      BY <2>2 DEF When
    <3>2. source.refs # {}
      BY <2>2 DEF When
    <3>3. QED BY <3>1, <3>2
  <2> HIDE DEF rejected
  <2>4. RouteHostnames(source) # {}
    BY <2>2 DEF When
  <2>5. RouteBackends(source, grants) # {}
    BY <2>3 DEF RouteBackends
  <2>6. projection = [h \in RouteHostnames(source) |-> RouteBackends(source, grants)]
    BY <1>1, <2>5 DEF projection, Projected, RouteProjection
  <2>7. QED BY <2>4, <2>5, <2>6
<1>2. CASE ~IsRoute(source)
  <2>1. IngressDiagnostics(source) = {}
    BY <1>2 DEF ProjectionDiagnostics
  <2>2. /\ source.overrides \subseteq Hosts /\ source.tls \subseteq Hosts
        /\ source.default \subseteq Services \cup {Resource} /\ source.rules \subseteq Rules
    BY <1>2, RouteOrIngress DEF AnyIngress
  <2>3. Resource \notin References(source) /\ References(source) # {}
    <3>1. /\ When(Resource \in References(source), "UnsupportedBackend", {Resource}) = {}
          /\ When(References(source) = {}, "NoBackendReferences", {source.kind}) = {}
      BY <2>1 DEF IngressDiagnostics
    <3>2. QED BY <3>1 DEF When
  <2>4. /\ source.default \subseteq Services
        /\ \A r \in source.rules : r.paths \subseteq Services /\ r.host \in Hosts \cup {NoHost}
    BY <2>2, <2>3 DEF References, Rules
  <2>5. \A S : S \subseteq Services /\ S # {} => Here(S) # {}
    BY DEF Here
  <2>6. \A S, T : S \subseteq T => Here(S) \subseteq Here(T)
    BY DEF Here
  <2>7. CASE source.overrides # {}
    <3>1. ~\E r \in source.rules : r.host = NoHost /\ r.paths \cap Services # {}
      <4>1. When(\E r \in source.rules : r.host = NoHost /\ r.paths \cap Services # {},
                 "IngressRuleWithoutHostname", {source.kind}) = {}
        BY <2>1, <2>7 DEF IngressDiagnostics
      <4>2. QED BY <4>1 DEF When
    <3>2. \A r \in source.rules : r.paths # {} => r \in HostRules(source)
      BY <2>4, <3>1 DEF HostRules
    <3>3. References(source) \subseteq source.default \cup UNION {r.paths : r \in HostRules(source)}
      BY <3>2 DEF References
    <3>4. References(source) \subseteq Services
      BY <2>4 DEF References
    <3>5. AllBackends(source) # {}
      <4>1. Here(References(source)) # {}
        BY <2>3, <2>5, <3>4
      <4>2. Here(References(source)) \subseteq AllBackends(source)
        BY <2>6, <3>3 DEF AllBackends
      <4>3. QED BY <4>1, <4>2
    <3>6. projection = [h \in source.overrides |-> AllBackends(source)]
      BY <1>2, <2>7 DEF projection, Projected, IngressProjection
    <3>7. QED BY <2>7, <3>5, <3>6
  <2>8. CASE source.overrides = {}
    <3>1. RuleHosts(source) \cup source.tls # {}
      <4>1. When(RuleHosts(source) \cup source.tls = {}, "NoPublishableHostname", {source.kind}) = {}
        BY <2>1, <2>8 DEF IngressDiagnostics
      <4>2. QED BY <4>1 DEF When
    <3>2. TLSOnly(source) # {} => Here(source.default) # {}
      <4>1. When(Here(source.default) = {}, "TLSHostWithoutBackend", TLSOnly(source)) = {}
        BY <2>1, <2>8 DEF IngressDiagnostics
      <4>2. QED BY <4>1 DEF When
    <3>3. projection = [h \in {h \in Hosts : HostBackends(source, h) # {}} |-> HostBackends(source, h)]
      BY <1>2, <2>8 DEF projection, Projected, IngressProjection
    <3>4. \E h \in Hosts : HostBackends(source, h) # {}
      <4>1. CASE RuleHosts(source) # {}
        <5>1. PICK r \in source.rules : r.host # NoHost /\ r.paths # {}
          BY <4>1 DEF RuleHosts, HostRules
        <5>2. r.host \in Hosts /\ r.host \in RuleHosts(source) /\ r.paths \subseteq Services
          BY <2>4, <5>1 DEF RuleHosts, HostRules
        <5> DEFINE served == UNION {q.paths : q \in {q \in HostRules(source) : q.host = r.host}}
        <5>3. r.paths \subseteq served
          BY <5>1 DEF HostRules
        <5>4. HostBackends(source, r.host) # {}
          <6>1. HostBackends(source, r.host) = Here(served)
            BY <5>2 DEF HostBackends
          <6> HIDE DEF served
          <6>2. Here(r.paths) # {} /\ Here(r.paths) \subseteq Here(served)
            BY <2>5, <2>6, <5>1, <5>2, <5>3
          <6>3. QED BY <6>1, <6>2
        <5>5. QED BY <5>2, <5>4
      <4>2. CASE RuleHosts(source) = {}
        <5>1. PICK h \in source.tls : h \in Hosts /\ h \notin RuleHosts(source)
          BY <2>2, <3>1, <4>2
        <5>2. HostBackends(source, h) # {}
          BY <3>2, <5>1 DEF HostBackends, TLSOnly
        <5>3. QED BY <5>1, <5>2
      <4>3. QED BY <4>1, <4>2
    <3>5. QED BY <3>3, <3>4
  <2>9. QED BY <2>7, <2>8
<1>3. QED BY <1>1, <1>2

-----------------------------------------------------------------------------
(***************************************************************************)
(* One backend and one provider.                                            *)
(***************************************************************************)

LEMMA BackendTypes ==
    ASSUME TypeOK
    PROVE  /\ \A s \in ServiceKeys : NodesOf(s) \subseteq Nodes
           /\ \A n \in Nodes, f \in Families : node[n].label[f] \in {"absent", "malformed", "address"}
           /\ \A p \in Providers : Labelled(p) \subseteq Families /\ FamiliesOf(p) \subseteq Families
<1>1. ASSUME NEW s \in ServiceKeys PROVE NodesOf(s) \subseteq Nodes
  <2>1. service[s] \in Backends
    BY DEF TypeOK
  <2>2. service[s].ready \subseteq Nodes \cup {NoNode}
    BY <2>1 DEF Backends
  <2>3. QED BY <2>2 DEF NodesOf
<1>2. ASSUME NEW n \in Nodes, NEW f \in Families
      PROVE  node[n].label[f] \in {"absent", "malformed", "address"}
  <2>1. node[n] \in NodeStates
    BY DEF TypeOK
  <2>2. node[n].label \in [Families -> {"absent", "malformed", "address"}]
    BY <2>1 DEF NodeStates
  <2>3. QED BY <2>2
<1>3. ASSUME NEW p \in Providers
      PROVE  Labelled(p) \subseteq Families /\ FamiliesOf(p) \subseteq Families
  <2>1. profile[p] \in Profiles \cup {NotFound}
    BY DEF TypeOK
  <2>2. profile[p].labels \subseteq Families
    BY <2>1 DEF Profiles, NotFound
  <2>3. QED BY <2>2 DEF TypeOK, Labelled, FamiliesOf
<1>4. QED BY <1>1, <1>2, <1>3

\* A backend that does not fail: each of its Nodes is there, and is a target
\* unless its label for the family is absent.
LEMMA BackendRead ==
    ASSUME TypeOK, NEW p \in Providers, NEW s \in ServiceKeys, ~BackendFails(s, p)
    PROVE  /\ service[s].exists
           /\ \A n \in NodesOf(s) : node[n].exists
           /\ \A f \in Labelled(p) : \A n \in NodesOf(s) :
                 n \in BackendTargets(s, p, f) \/ n \in With(s, f, "absent")
<1>1. service[s].exists /\ \A n \in NodesOf(s) : node[n].exists
  BY DEF BackendFails
<1>2. ASSUME NEW f \in Labelled(p), NEW n \in NodesOf(s)
      PROVE  n \in BackendTargets(s, p, f) \/ n \in With(s, f, "absent")
  <2>1. node[n].label[f] # "malformed"
    BY DEF BackendFails
  <2>2. node[n].label[f] \in {"absent", "address"}
    BY <2>1, BackendTypes
  <2>3. QED BY <1>1, <2>2 DEF BackendTargets, With
<1>3. QED BY <1>1, <1>2

\* What a reconcile that succeeds publishes for a hostname in a zone.
LEMMA Published ==
    ASSUME TypeOK, Failing = {}, NEW p \in Loaded, NEW h \in Resolved(p), NEW s \in projection[h]
    PROVE  /\ p \in Providers /\ h \in Hosts /\ s \in ServiceKeys /\ ~BackendFails(s, p)
           /\ \A f \in Labelled(p) : /\ f \in FamiliesOf(p) /\ <<h, f>> \in RecordKeys
                                     /\ BackendTargets(s, p, f) \subseteq Publication(p)[<<h, f>>]
<1>1. p \in Providers /\ h \in DOMAIN projection
  BY DEF Loaded, Resolved
<1>2. h \in Hosts /\ s \in ServiceKeys
  BY <1>1, ProjectionType
<1>3. s \in AllBackendsOf(p)
  BY DEF AllBackendsOf
<1>4. ~BackendFails(s, p)
  BY <1>3 DEF Failing
<1>5. ASSUME NEW f \in Labelled(p)
      PROVE  /\ f \in FamiliesOf(p) /\ <<h, f>> \in RecordKeys
             /\ BackendTargets(s, p, f) \subseteq Publication(p)[<<h, f>>]
  <2>1. f \in FamiliesOf(p) /\ f \in Families
    BY <1>1, BackendTypes DEF Labelled
  <2>2. <<h, f>> \in RecordKeys /\ <<h, f>>[1] = h /\ <<h, f>>[2] = f
    BY <1>2, <2>1 DEF RecordKeys
  <2>3. Publication(p)[<<h, f>>] = UNION {BackendTargets(x, p, f) : x \in projection[h]}
    BY <2>1, <2>2 DEF Publication
  <2>4. QED BY <2>1, <2>2, <2>3
<1>6. QED BY <1>1, <1>2, <1>4, <1>5

\* A backend without targets for a family that does not fail is reported.
LEMMA BackendReported ==
    ASSUME TypeOK, NEW p \in Providers, NEW s \in ServiceKeys, ~BackendFails(s, p),
           NEW f \in Labelled(p), BackendTargets(s, p, f) = {}
    PROVE  {<<"EndpointSlicesUnavailable", s>>, <<"NoReadyEndpoints", s>>,
            <<"EndpointNodeNameMissing", s>>, <<"NodeAddressLabelMissing", p, s, f>>}
               \cap BackendDiagnostics(s, p) # {}
<1>1. CASE ~service[s].sliced
  BY <1>1 DEF BackendDiagnostics
<1>2. CASE service[s].sliced
  <2> DEFINE D == BackendDiagnostics(s, p)
  <2>1. D = {<<"NoReadyEndpoints", s>> : x \in {x \in {s} : service[x].ready = {}}} \cup
            {<<"EndpointNodeNameMissing", s>> : n \in service[s].ready \cap {NoNode}} \cup
            {<<"NodeAddressLabelMissing", p, s, g>> : g \in {g \in Labelled(p) : With(s, g, "absent") # {}}}
    BY <1>2 DEF BackendDiagnostics
  <2> HIDE DEF D
  <2>2. CASE service[s].ready = {}
    <3>1. <<"NoReadyEndpoints", s>> \in D
      BY <2>1, <2>2
    <3>2. QED BY <3>1 DEF D
  <2>3. CASE NoNode \in service[s].ready
    <3>1. <<"EndpointNodeNameMissing", s>> \in D
      BY <2>1, <2>3
    <3>2. QED BY <3>1 DEF D
  <2>4. CASE service[s].ready # {} /\ NoNode \notin service[s].ready
    <3>1. NodesOf(s) # {}
      BY <2>4 DEF NodesOf
    <3>2. With(s, f, "absent") # {}
      BY <3>1, BackendRead
    <3>3. <<"NodeAddressLabelMissing", p, s, f>> \in D
      BY <2>1, <3>2
    <3>4. QED BY <3>3 DEF D
  <2>5. QED BY <2>2, <2>3, <2>4
<1>3. QED BY <1>1, <1>2

-----------------------------------------------------------------------------
(***************************************************************************)
(* Types, and what a reconcile leaves behind.                               *)
(***************************************************************************)

LEMMA AtMostType ==
    ASSUME NEW n \in Nat, NEW S
    PROVE  AtMost(n, S) \subseteq SUBSET S
BY DEF AtMost

LEMMA InitialTypes ==
    ASSUME Init
    PROVE  TypeOK
<1>1. source \in AnyIngress \cup AnyRoute /\ grants \subseteq Grants
  <2>1. CASE source = WiredIngress /\ grants = {}
    <3>1. {[host |-> h, paths |-> Services] : h \in Hosts} \subseteq Rules
      BY DEF Rules
    <3>2. QED BY <2>1, <3>1 DEF WiredIngress, AnyIngress
  <2>2. ASSUME NEW kind \in RouteKinds, source = WiredRoute(kind),
               grants = [namespace : Namespaces \ {Home}, kind : {kind}, name : {AnyService}]
        PROVE  source \in AnyIngress \cup AnyRoute /\ grants \subseteq Grants
    <3>1. [service : {TRUE}, namespace : Namespaces, name : Services] \subseteq BackendRefs
      BY DEF BackendRefs
    <3>2. source \in AnyRoute
      BY <2>2, <3>1 DEF WiredRoute, AnyRoute
    <3>3. grants \subseteq Grants
      BY <2>2 DEF Grants
    <3>4. QED BY <3>2, <3>3
  <2>3. QED BY <2>1, <2>2 DEF Init
<1>2. profile \in [Providers -> Profiles \cup {NotFound}]
  <2>1. [zones |-> Zones, labels |-> Families] \in Profiles
    BY ResolverAssumption DEF Profiles, Families
  <2>2. QED BY <2>1 DEF Init
<1>3. service \in [ServiceKeys -> Backends]
  <2>1. ASSUME NEW k \in ServiceKeys
        PROVE  [exists |-> TRUE, sliced |-> TRUE, ready |-> Placement[k[2]], unready |-> {}] \in Backends
    <3>1. Placement[k[2]] \subseteq Nodes \cup {NoNode}
      BY ResolverAssumption DEF ServiceKeys
    <3>2. QED BY <3>1 DEF Backends
  <2>2. QED BY <2>1 DEF Init
<1>4. node \in [Nodes -> NodeStates]
  BY DEF Init, NodeStates
<1>5. QED BY <1>1, <1>2, <1>3, <1>4 DEF Init, TypeOK

LEMMA TypeStep ==
    ASSUME TypeOK, [Next]_vars
    PROVE  TypeOK'
<1>1. CASE Succeed \/ Fail \/ UNCHANGED vars
  <2>1. UNCHANGED <<source, grants, cluster, changes>> /\ done' \in BOOLEAN
    BY <1>1 DEF Succeed, Fail, vars, TypeOK
  <2>2. QED BY <2>1 DEF cluster, TypeOK
<1>2. ASSUME Changed PROVE changes' \in Nat /\ done' \in BOOLEAN /\ UNCHANGED <<source, grants>>
  <2>1. changes \in Nat
    BY DEF TypeOK
  <2>2. changes' = changes + 1 /\ done' = FALSE /\ UNCHANGED <<source, grants>>
    BY <1>2 DEF Changed
  <2>3. changes' \in Nat
    BY <2>1, <2>2
  <2>4. QED BY <2>2, <2>3
<1>3. ASSUME NEW p \in Providers, ChangeProfile(p) PROVE TypeOK'
  <2>1. PICK x \in Profiles \cup {NotFound} : profile' = [profile EXCEPT ![p] = x]
    BY <1>3 DEF ChangeProfile
  <2>2. profile' \in [Providers -> Profiles \cup {NotFound}]
    BY <2>1 DEF TypeOK
  <2>3. QED BY <1>2, <1>3, <2>2 DEF ChangeProfile, TypeOK
<1>4. CASE ChangeFamilies
  BY <1>2, <1>4 DEF ChangeFamilies, TypeOK
<1>5. ASSUME NEW s \in ServiceKeys, ChangeService(s) PROVE TypeOK'
  <2>1. PICK b \in Backends : service' = [service EXCEPT ![s] = b]
    BY <1>5 DEF ChangeService
  <2>2. service' \in [ServiceKeys -> Backends]
    BY <2>1 DEF TypeOK
  <2>3. QED BY <1>2, <1>5, <2>2 DEF ChangeService, TypeOK
<1>6. ASSUME NEW n \in Nodes, ChangeNode(n) PROVE TypeOK'
  <2>1. PICK x \in NodeStates : node' = [node EXCEPT ![n] = x]
    BY <1>6 DEF ChangeNode
  <2>2. node' \in [Nodes -> NodeStates]
    BY <2>1 DEF TypeOK
  <2>3. QED BY <1>2, <1>6, <2>2 DEF ChangeNode, TypeOK
<1>7. CASE ChangeSource
  <2>1. source' \in Ingresses \cup Routes /\ grants' \in AtMost(1, Grants) \cup {{}}
    BY <1>7 DEF ChangeSource
  <2>2. Ingresses \subseteq AnyIngress
    <3>1. /\ AtMost(1, Services \cup {Resource}) \subseteq SUBSET (Services \cup {Resource})
          /\ AtMost(MaxRules, Rules) \subseteq SUBSET Rules
      BY AtMostType, ProjectionAssumption
    <3>2. QED BY <3>1 DEF Ingresses, AnyIngress
  <2>3. Routes \subseteq AnyRoute
    <3>1. AtMost(MaxRefs, BackendRefs) \subseteq SUBSET BackendRefs
      BY AtMostType, ProjectionAssumption
    <3>2. QED BY <3>1 DEF Routes, AnyRoute
  <2>4. grants' \subseteq Grants
    BY <2>1, AtMostType
  <2>5. changes' \in Nat /\ done' \in BOOLEAN /\ UNCHANGED cluster
    BY <1>7, ResolverAssumption DEF ChangeSource
  <2>6. QED BY <2>1, <2>2, <2>3, <2>4, <2>5 DEF TypeOK, cluster
<1>8. QED BY <1>1, <1>3, <1>4, <1>5, <1>6, <1>7 DEF Next

\* What a reconcile works out depends on the source and the cluster only.
LEMMA SameView ==
    ASSUME UNCHANGED <<source, grants, cluster>>
    PROVE  /\ Failing' = Failing /\ Loaded' = Loaded /\ Preliminary' = Preliminary
           /\ \A p : Publication(p)' = Publication(p)
           /\ \A p : Diagnostics(p)' = Diagnostics(p)
<1>1. UNCHANGED <<source, grants, profile, requested, service, node>>
  BY DEF cluster
<1>2. projection' = projection /\ Loaded' = Loaded
  BY <1>1 DEF projection, Loaded
<1>3. \A p : Resolved(p)' = Resolved(p) /\ Labelled(p)' = Labelled(p) /\ FamiliesOf(p)' = FamiliesOf(p)
  BY <1>1, <1>2 DEF Resolved, MatchingZone, Labelled, FamiliesOf
<1>4. \A p : AllBackendsOf(p)' = AllBackendsOf(p)
  BY <1>2, <1>3 DEF AllBackendsOf
<1>5. \A s : NodesOf(s)' = NodesOf(s)
  BY <1>1 DEF NodesOf
<1>6. \A s, f, v : With(s, f, v)' = With(s, f, v)
  BY <1>1, <1>5 DEF With
<1>7. \A s, p, f : BackendTargets(s, p, f)' = BackendTargets(s, p, f)
  BY <1>3, <1>6 DEF BackendTargets
<1>8. \A s, p : BackendFails(s, p)' = BackendFails(s, p)
  BY <1>1, <1>3, <1>5 DEF BackendFails
<1>9. \A s, p : BackendDiagnostics(s, p)' = BackendDiagnostics(s, p)
  BY <1>1, <1>3, <1>6 DEF BackendDiagnostics
<1>10. Failing' = Failing
  BY <1>2, <1>4, <1>8 DEF Failing
<1>11. Preliminary' = Preliminary
  BY <1>1, <1>2 DEF Preliminary
<1>12. \A p : Publication(p)' = Publication(p)
  BY <1>2, <1>3, <1>7 DEF Publication
<1>13. \A p : Diagnostics(p)' = Diagnostics(p)
  BY <1>1, <1>2, <1>3, <1>4, <1>9 DEF Diagnostics
<1>14. QED BY <1>2, <1>10, <1>11, <1>12, <1>13

LEMMA ReconciledStep ==
    ASSUME ReconciledInv, [Next]_vars
    PROVE  ReconciledInv'
<1>1. CASE Succeed
  <2>1. /\ UNCHANGED <<source, grants, cluster>> /\ Failing = {}
        /\ output' = [p \in Providers |-> Publication(p)]
        /\ reported' = Preliminary \cup UNION {Diagnostics(p) : p \in Loaded}
    BY <1>1 DEF Succeed
  <2>2. Failing' = {} /\ output' = [p \in Providers |-> Publication(p)']
    BY <2>1, SameView
  <2>3. reported' = Preliminary' \cup UNION {Diagnostics(p)' : p \in Loaded'}
    BY <2>1, SameView
  <2>4. QED BY <2>2, <2>3 DEF ReconciledInv
<1>2. CASE Fail
  <2>1. UNCHANGED <<source, grants, cluster>> /\ reported' = Preliminary \cup {<<"failed">>}
    BY <1>2 DEF Fail
  <2>2. reported' = Preliminary' \cup {<<"failed">>}
    BY <2>1, SameView
  <2>3. QED BY <2>2 DEF ReconciledInv
<1>3. CASE UNCHANGED vars
  <2>1. UNCHANGED <<source, grants, cluster, output, reported, done>>
    BY <1>3 DEF vars
  <2>2. [p \in Providers |-> Publication(p)'] = [p \in Providers |-> Publication(p)]
    BY <2>1, SameView
  <2>3. UNION {Diagnostics(p)' : p \in Loaded'} = UNION {Diagnostics(p) : p \in Loaded}
    BY <2>1, SameView
  <2>4. Failing' = Failing /\ Preliminary' = Preliminary
    BY <2>1, SameView
  <2>5. QED BY <2>1, <2>2, <2>3, <2>4 DEF ReconciledInv
<1>4. ASSUME done' = FALSE PROVE ReconciledInv'
  BY <1>4 DEF ReconciledInv
<1>5. QED BY <1>1, <1>2, <1>3, <1>4 DEF Next, ChangeProfile, ChangeFamilies, ChangeService, ChangeNode,
          ChangeSource, Changed

LEMMA ResolverInvariant == Spec => [](TypeOK /\ ReconciledInv)
<1>1. Init => TypeOK /\ ReconciledInv
  BY InitialTypes DEF Init, ReconciledInv
<1>2. TypeOK /\ ReconciledInv /\ [Next]_vars => (TypeOK /\ ReconciledInv)'
  BY TypeStep, ReconciledStep
<1>3. QED BY <1>1, <1>2, PTL DEF Spec

\* After a reconcile that did not fail, all that was worked out is there.
LEMMA AfterSuccess ==
    ASSUME ReconciledInv, done, ~Failed
    PROVE  /\ Failing = {}
           /\ \A p \in Providers : output[p] = Publication(p)
           /\ \A p \in Loaded : Diagnostics(p) \subseteq reported
BY DEF ReconciledInv, Failed

-----------------------------------------------------------------------------
(***************************************************************************)
(* The properties.                                                          *)
(***************************************************************************)

\* A reconcile applies all it should or nothing: a Node or Service that cannot
\* be read is never taken for one that has gone, for any number of providers.
THEOREM AllOrNothing == Spec => WholeOrNothing
<1>1. ASSUME TypeOK, [Next]_vars, output' # output
      PROVE  AppliesAll
  <2>1. Succeed
    BY <1>1 DEF Next, vars, Fail, ChangeProfile, ChangeFamilies, ChangeService, ChangeNode, ChangeSource,
       Changed
  <2>2. Failing = {} /\ output' = [p \in Providers |-> Publication(p)]
    BY <2>1 DEF Succeed
  <2>3. ASSUME NEW p \in Loaded, NEW h \in DOMAIN projection, MatchingZone(h, p), NEW s \in projection[h]
        PROVE  /\ service[s].exists
               /\ \A n \in NodesOf(s) :
                     /\ node[n].exists
                     /\ \A f \in Labelled(p) : n \in output'[p][<<h, f>>] \/ node[n].label[f] = "absent"
    <3>1. h \in Resolved(p)
      BY <2>3 DEF Resolved
    <3>2. /\ p \in Providers /\ s \in ServiceKeys /\ ~BackendFails(s, p)
          /\ \A f \in Labelled(p) : BackendTargets(s, p, f) \subseteq Publication(p)[<<h, f>>]
      BY <1>1, <2>2, <3>1, Published
    <3>3. output'[p] = Publication(p)
      BY <2>2, <3>2
    <3>4. /\ service[s].exists /\ \A n \in NodesOf(s) : node[n].exists
          /\ \A f \in Labelled(p) : \A n \in NodesOf(s) :
                n \in BackendTargets(s, p, f) \/ n \in With(s, f, "absent")
      BY <1>1, <3>2, BackendRead
    <3>5. QED BY <3>2, <3>3, <3>4 DEF With
  <2>4. QED BY <2>3 DEF AppliesAll
<1>2. TypeOK /\ [Next]_vars => [output' # output => AppliesAll]_vars
  BY <1>1
<1>3. QED BY <1>2, ResolverInvariant, PTL DEF Spec, WholeOrNothing

\* A record that is not published is accounted for by a diagnostic about its
\* family, its hostname or each Service behind it.
THEOREM GapsExplained == Spec => []GapExplained
<1>1. ASSUME TypeOK, ReconciledInv, done, ~Failed, NEW p \in Loaded, NEW h \in DOMAIN projection,
             NEW f \in FamiliesOf(p), output[p][<<h, f>>] = {},
             <<"AddressFamilyUnavailable", p, f>> \notin reported, <<"HostnameOutsideZones", p, h>> \notin reported,
             NEW s \in projection[h]
      PROVE  {<<"EndpointSlicesUnavailable", s>>, <<"NoReadyEndpoints", s>>,
              <<"EndpointNodeNameMissing", s>>, <<"NodeAddressLabelMissing", p, s, f>>} \cap reported # {}
  <2>1. Failing = {} /\ p \in Providers /\ output[p] = Publication(p) /\ Diagnostics(p) \subseteq reported
    BY <1>1, AfterSuccess DEF Loaded
  <2>2. f \in Labelled(p) /\ h \in Resolved(p)
    BY <1>1, <2>1 DEF Diagnostics, Labelled
  <2>3. /\ s \in ServiceKeys /\ ~BackendFails(s, p)
        /\ BackendTargets(s, p, f) \subseteq Publication(p)[<<h, f>>]
    BY <1>1, <2>1, <2>2, Published
  <2>4. BackendTargets(s, p, f) = {}
    BY <1>1, <2>1, <2>3
  <2>5. BackendDiagnostics(s, p) \subseteq reported
    <3>1. s \in AllBackendsOf(p)
      BY <2>2 DEF AllBackendsOf
    <3>2. QED BY <2>1, <3>1 DEF Diagnostics
  <2>6. QED BY <1>1, <2>1, <2>2, <2>3, <2>4, <2>5, BackendReported
<1>2. TypeOK /\ ReconciledInv => GapExplained
  BY <1>1 DEF GapExplained
<1>3. QED BY <1>2, ResolverInvariant, PTL

\* A source is never left without records in silence.
THEOREM NeverSilent == Spec => []Explained
<1>1. ASSUME TypeOK, ReconciledInv, done, \A p \in Providers, k \in RecordKeys : output[p][k] = {},
             reported = {}
      PROVE  FALSE
  <2>1. ~Failed /\ Preliminary = {}
    BY <1>1 DEF Failed, ReconciledInv
  <2>2. PICK p \in Providers : p \in Loaded
    <3>1. {<<"DNSProviderNotFound", p>> : p \in Providers \ Loaded} = {}
      BY <2>1 DEF Preliminary
    <3>2. Providers \ Loaded = {}
      BY <3>1
    <3>3. QED BY <3>2, ResolverAssumption
  <2>3. Failing = {} /\ output[p] = Publication(p) /\ Diagnostics(p) = {}
    BY <1>1, <2>1, <2>2, AfterSuccess
  <2>4. PICK h \in DOMAIN projection : projection[h] # {}
    BY <1>1, <2>1, SilentProjection DEF Preliminary
  <2>5. PICK s \in projection[h] : TRUE
    BY <2>4
  <2>6. FamiliesOf(p) # {}
    <3>1. profile[p] \in Profiles
      BY <1>1, <2>2 DEF TypeOK, Loaded
    <3>2. profile[p].labels # {}
      BY <3>1 DEF Profiles
    <3>3. QED BY <3>2 DEF FamiliesOf
  <2>7. PICK f \in FamiliesOf(p) : f \in Labelled(p)
    <3>1. {<<"AddressFamilyUnavailable", p, f>> : f \in FamiliesOf(p) \ profile[p].labels} = {}
      BY <2>3 DEF Diagnostics
    <3>2. FamiliesOf(p) \ profile[p].labels = {}
      BY <3>1
    <3>3. QED BY <2>6, <3>2 DEF Labelled
  <2>8. h \in Resolved(p)
    <3>1. {<<"HostnameOutsideZones", p, x>> : x \in DOMAIN projection \ Resolved(p)} = {}
      BY <2>3 DEF Diagnostics
    <3>2. DOMAIN projection \ Resolved(p) = {}
      BY <3>1
    <3>3. QED BY <2>4, <3>2
  <2>9. /\ s \in ServiceKeys /\ ~BackendFails(s, p) /\ <<h, f>> \in RecordKeys
        /\ BackendTargets(s, p, f) \subseteq Publication(p)[<<h, f>>]
    BY <1>1, <2>2, <2>3, <2>5, <2>7, <2>8, Published
  <2>10. BackendTargets(s, p, f) = {}
    BY <1>1, <2>3, <2>9
  <2>11. BackendDiagnostics(s, p) = {}
    <3>1. s \in AllBackendsOf(p)
      BY <2>5, <2>8 DEF AllBackendsOf
    <3>2. QED BY <2>3, <3>1 DEF Diagnostics
  <2>12. QED BY <1>1, <2>7, <2>9, <2>10, <2>11, BackendReported
<1>2. TypeOK /\ ReconciledInv => Explained
  BY <1>1 DEF Explained
<1>3. QED BY <1>2, ResolverInvariant, PTL

\* A provider's records answer only for names inside its zones, for any
\* hostnames and zones and where a wildcard covers them too.
THEOREM RecordsInsideZones == Spec => []InsideZones
<1>1. ASSUME TypeOK, ReconciledInv, done, ~Failed, NEW p \in Providers, NEW k \in RecordKeys, output[p][k] # {}
      PROVE  \E z \in profile[p].zones : IsSuffix(z, Covered(k[1]))
  <2>1. output[p] = Publication(p) /\ k[1] \in Hosts
    BY <1>1, AfterSuccess DEF RecordKeys
  <2>2. k[1] \in Resolved(p)
    BY <1>1, <2>1 DEF Publication
  <2>3. PICK z \in profile[p].zones : IsSuffix(z, Base(k[1]))
    BY <2>2 DEF Resolved, MatchingZone
  <2>4. z \in Zones
    <3>1. profile[p] \in Profiles \cup {NotFound}
      BY <1>1 DEF TypeOK
    <3>2. profile[p].zones \subseteq Zones
      BY <3>1 DEF Profiles, NotFound
    <3>3. QED BY <3>2
  <2>5. QED BY <2>1, <2>3, <2>4, CoveredInside
<1>2. TypeOK /\ ReconciledInv => InsideZones
  BY <1>1 DEF InsideZones
<1>3. QED BY <1>2, ResolverInvariant, PTL

\* Without overrides a hostname resolves only to Nodes that run a Service its
\* Ingress may send its requests to.
THEOREM OnlyRoutable == Spec => []Routable
<1>1. ASSUME TypeOK, ReconciledInv, done, ~Failed, ~IsRoute(source), source.overrides = {},
             NEW p \in Providers, NEW k \in RecordKeys, NEW n \in output[p][k]
      PROVE  n \in UNION {NodesOf(s) : s \in
                 Here(source.default \cup UNION {r.paths : r \in {r \in source.rules : r.host = k[1]}})}
  <2> DEFINE h == k[1]
             permitted == Here(source.default \cup UNION {r.paths : r \in {r \in source.rules : r.host = h}})
  <2>1. output[p] = Publication(p)
    BY <1>1, AfterSuccess
  <2>2. h \in DOMAIN projection /\ n \in UNION {BackendTargets(s, p, k[2]) : s \in projection[h]}
    BY <1>1, <2>1 DEF Publication, Resolved
  <2>3. PICK s \in projection[h] : n \in BackendTargets(s, p, k[2])
    BY <2>2
  <2>4. n \in NodesOf(s)
    BY <2>3 DEF BackendTargets, With
  <2>5. projection[h] = HostBackends(source, h)
    BY <1>1, <2>2 DEF projection, Projected, IngressProjection
  <2>6. HostBackends(source, h) \subseteq permitted
    <3>1. \A S, T : S \subseteq T => Here(S) \subseteq Here(T)
      BY DEF Here
    <3>2. UNION {r.paths : r \in {r \in HostRules(source) : r.host = h}} \subseteq
              source.default \cup UNION {r.paths : r \in {r \in source.rules : r.host = h}}
      BY DEF HostRules
    <3>3. QED BY <3>1, <3>2 DEF HostBackends
  <2> HIDE DEF permitted
  <2>7. n \in UNION {NodesOf(x) : x \in permitted}
    BY <2>3, <2>4, <2>5, <2>6
  <2>8. QED BY <2>7 DEF permitted
<1>2. TypeOK /\ ReconciledInv => Routable
  BY <1>1 DEF Routable
<1>3. QED BY <1>2, ResolverInvariant, PTL

\* The field indexes lead back to a source from every Service of its projection
\* and from every ReferenceGrant that could change it, whatever the grants.
THEOREM SourcesIndexed == Spec => []Indexed
<1>1. ASSUME NEW r, NEW g, g.namespace \notin RouteBackendNamespaces(r), NEW X, NEW Y,
             X \subseteq Y \cup {g}, Y \subseteq X \cup {g}
      PROVE  RouteProjection(r, X) = RouteProjection(r, Y)
  <2>1. ASSUME NEW ref \in r.refs, ref.service PROVE g.namespace # ref.namespace
    <3>1. Key(ref) \in RouteBackendKeys(r) /\ Key(ref)[1] = ref.namespace
      BY <2>1 DEF RouteBackendKeys, Key
    <3>2. ref.namespace \in RouteBackendNamespaces(r)
      BY <3>1 DEF RouteBackendNamespaces
    <3>3. QED BY <1>1, <3>2
  <2>2. \A ref \in r.refs : RouteBackend(r, X, ref) <=> RouteBackend(r, Y, ref)
    BY <1>1, <2>1 DEF RouteBackend
  <2>3. RouteBackends(r, X) = RouteBackends(r, Y)
    BY <2>2 DEF RouteBackends
  <2>4. QED BY <2>3 DEF RouteProjection
<1>2. ASSUME IsRoute(source), NEW g \in Grants, g.namespace \notin RouteBackendNamespaces(source)
      PROVE  {Projected(source, grants \cup {g}), Projected(source, grants \ {g})} = {projection}
  <2>1. RouteProjection(source, grants \cup {g}) = RouteProjection(source, grants)
    BY <1>1, <1>2
  <2>2. RouteProjection(source, grants \ {g}) = RouteProjection(source, grants)
    BY <1>1, <1>2
  <2>3. QED BY <1>2, <2>1, <2>2 DEF projection, Projected
<1>3. TypeOK => Indexed
  BY <1>2, ProjectionType DEF Indexed
<1>4. QED BY <1>3, ResolverInvariant, PTL
===============================================================================
