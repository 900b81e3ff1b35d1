------------------------------ MODULE Projection ------------------------------
(***************************************************************************)
(* internal/source/projection.go: which Service backends a source gives to  *)
(* which hostnames, and what it reports about the ones it leaves out; and   *)
(* the field indexes of internal/controller/setup.go by which a change of   *)
(* a Service or a ReferenceGrant finds the source again.                    *)
(*                                                                          *)
(* Kubernetes validates hostnames before labdns sees them, so normalising   *)
(* them changes nothing and cannot fail.  The order of rules and of         *)
(* backendRefs shows only in messages: both are sets.  Operators only: the  *)
(* state machine that uses them is in Resolver.                             *)
(***************************************************************************)
EXTENDS Naturals

CONSTANTS Hosts, Services, Namespaces, RouteKinds,
          HTTPRoute,    \* the route kind with hostnames of its own
          Home,         \* the namespace of the source
          Resource,     \* an Ingress backend that is not a Service
          NoHost,       \* a rule without host
          AnyService,   \* a ReferenceGrant without a Service name
          MaxRules,     \* bound: rules of an Ingress
          MaxRefs       \* bound: backendRefs of a route

ASSUME ProjectionAssumption ==
    /\ Home \in Namespaces
    /\ HTTPRoute \in RouteKinds /\ "Ingress" \notin RouteKinds
    /\ Resource \notin Services /\ AnyService \notin Services /\ NoHost \notin Hosts
    /\ MaxRules \in Nat /\ MaxRefs \in Nat

AtMost(n, S) == {{}} \cup {{f[k] : k \in 1 .. n} : f \in [1 .. n -> S]}

\* default and paths hold backends; without http a rule has no paths.
Rules == [host : Hosts \cup {NoHost}, paths : SUBSET (Services \cup {Resource})]

\* An Ingress has a default backend or a rule.
Ingresses ==
    {i \in [kind : {"Ingress"}, overrides : SUBSET Hosts, tls : SUBSET Hosts,
            default : AtMost(1, Services \cup {Resource}), rules : AtMost(MaxRules, Rules)] :
        i.default # {} \/ i.rules # {}}

\* service: the reference names a Service and no other kind.
BackendRefs == [service : BOOLEAN, namespace : Namespaces, name : Services]

Routes == {r \in [kind : RouteKinds, overrides : SUBSET Hosts, hostnames : SUBSET Hosts,
                  refs : AtMost(MaxRefs, BackendRefs)] :
              r.kind # HTTPRoute => r.hostnames = {}}

Grants == [namespace : Namespaces \ {Home}, kind : RouteKinds, name : Services \cup {AnyService}]

When(condition, reason, subjects) == {<<reason, x>> : x \in IF condition THEN subjects ELSE {}}

-----------------------------------------------------------------------------
(***************************************************************************)
(* IngressProjection                                                        *)
(***************************************************************************)
Here(services) == {<<Home, s>> : s \in services \cap Services}

\* Rules with a host and http; the others are skipped.
HostRules(i) == {r \in i.rules : r.host # NoHost /\ r.paths # {}}

RuleHosts(i) == {r.host : r \in HostRules(i)}

AllBackends(i) == Here(i.default \cup UNION {r.paths : r \in HostRules(i)})

\* TLS hosts no rule serves.
TLSOnly(i) == i.tls \ RuleHosts(i)

HostBackends(i, h) ==
    IF h \in RuleHosts(i) THEN Here(UNION {r.paths : r \in {r \in HostRules(i) : r.host = h}})
    ELSE IF h \in i.tls THEN Here(i.default) ELSE {}

\* Mutant: a TLS-only host receives the backends of all rules.
IngressProjectionAll(i) ==
    IF i.overrides # {} THEN [h \in i.overrides |-> AllBackends(i)]
    ELSE [h \in RuleHosts(i) \cup TLSOnly(i) |-> AllBackends(i)]

\* Overrides replace the declared hosts; projectionSet drops hosts without
\* backends.
IngressProjection(i) ==
    IF i.overrides # {} THEN [h \in i.overrides |-> AllBackends(i)]
    ELSE [h \in {h \in Hosts : HostBackends(i, h) # {}} |-> HostBackends(i, h)]

References(i) == i.default \cup UNION {r.paths : r \in i.rules}

\* Mutant: a TLS-only host without backend is not reported.
IngressDiagnosticsNoTLS(i) ==
    When(Resource \in References(i), "UnsupportedBackend", {Resource}) \cup
    When(References(i) = {}, "NoBackendReferences", {i.kind}) \cup
    (IF i.overrides # {}
     THEN When(\E r \in i.rules : r.host = NoHost /\ r.paths \cap Services # {},
               "IngressRuleWithoutHostname", {i.kind})
     ELSE When(RuleHosts(i) \cup i.tls = {}, "NoPublishableHostname", {i.kind}))

IngressDiagnostics(i) ==
    When(Resource \in References(i), "UnsupportedBackend", {Resource}) \cup
    When(References(i) = {}, "NoBackendReferences", {i.kind}) \cup
    (IF i.overrides # {}
     THEN When(\E r \in i.rules : r.host = NoHost /\ r.paths \cap Services # {},
               "IngressRuleWithoutHostname", {i.kind})
     ELSE When(Here(i.default) = {}, "TLSHostWithoutBackend", TLSOnly(i)) \cup
          When(RuleHosts(i) \cup i.tls = {}, "NoPublishableHostname", {i.kind}))

-----------------------------------------------------------------------------
(***************************************************************************)
(* RouteProjection                                                          *)
(***************************************************************************)
Key(ref) == <<ref.namespace, ref.name>>

\* routeBackend: a Service of another namespace needs a ReferenceGrant there.
RouteBackend(r, granted, ref) ==
    /\ ref.service
    /\ \/ ref.namespace = Home
       \/ \E g \in granted : /\ g.namespace = ref.namespace
                             /\ g.kind = r.kind
                             /\ g.name \in {AnyService, ref.name}

RouteBackends(r, granted) == {Key(ref) : ref \in {ref \in r.refs : RouteBackend(r, granted, ref)}}

RouteHostnames(r) == IF r.overrides # {} THEN r.overrides ELSE r.hostnames

RouteProjection(r, granted) ==
    IF RouteBackends(r, granted) = {} THEN [h \in {} |-> {}]
    ELSE [h \in RouteHostnames(r) |-> RouteBackends(r, granted)]

RouteDiagnostics(r, granted) ==
    When(TRUE, "UnsupportedBackend", {Key(ref) : ref \in {ref \in r.refs : ~RouteBackend(r, granted, ref)}}) \cup
    When(RouteHostnames(r) = {}, "NoPublishableHostname", {r.kind}) \cup
    When(r.refs = {}, "NoBackendReferences", {r.kind})

-----------------------------------------------------------------------------
(***************************************************************************)
(* The field indexes of a source.                                           *)
(***************************************************************************)
IngressBackendKeys(i) == Here(References(i))

\* Mutant: a reference is indexed only when it is in the source's namespace.
HomeKeys(r) == {Key(ref) : ref \in {ref \in r.refs : ref.service /\ ref.namespace = Home}}

RouteBackendKeys(r) == {Key(ref) : ref \in {ref \in r.refs : ref.service}}

RouteBackendNamespaces(r) == {k[1] : k \in RouteBackendKeys(r)}

-----------------------------------------------------------------------------
IsRoute(s) == s.kind \in RouteKinds

BackendKeys(s) == IF IsRoute(s) THEN RouteBackendKeys(s) ELSE IngressBackendKeys(s)

Projected(s, granted) == IF IsRoute(s) THEN RouteProjection(s, granted) ELSE IngressProjection(s)

ProjectionDiagnostics(s, granted) ==
    IF IsRoute(s) THEN RouteDiagnostics(s, granted) ELSE IngressDiagnostics(s)
=============================================================================
