------------------------------- MODULE Resolver -------------------------------
(***************************************************************************)
(* A reconcile of a source from its projection (Projection) through         *)
(* internal/source/resolver.go to the records of each DNSProvider: the      *)
(* backends of a hostname lead through EndpointSlices to the address labels *)
(* of Nodes.  How the reads of one reconcile interleave with changes is the *)
(* subject of DependencyWatch; here they see one state of the caches.       *)
(*                                                                          *)
(* A hostname or zone is the sequence of its labels.  A Node label is       *)
(* absent, malformed, or holds an address of the family it is read for.     *)
(***************************************************************************)
EXTENDS Projection, Sequences, SequencesExt

CONSTANTS Providers, Nodes,
          Zones,          \* the zones a provider may have, as sequences of labels
          Placement,      \* the Nodes each Service runs on at first
          Subdomain,      \* a label, for the names a wildcard covers
          NoNode,         \* a ready endpoint without nodeName
          MaxChanges      \* bound: changes of the cluster

ASSUME ResolverAssumption ==
    /\ NoNode \notin Nodes
    /\ Providers # {}
    /\ Hosts \subseteq Seq(STRING) \ {<<>>}
    /\ Zones \subseteq Seq(STRING) /\ Zones # {}
    /\ Placement \in [Services -> SUBSET Nodes]
    /\ Subdomain \in STRING
    /\ MaxChanges \in Nat

Families == {"ipv4", "ipv6"}

Wildcard == "*"

ServiceKeys == Namespaces \X Services

\* What the API server accepts: at least one zone and one address label.
Profiles == [zones : (SUBSET Zones) \ {{}}, labels : (SUBSET Families) \ {{}}]

\* A DNSProvider that is not there.
NotFound == [zones |-> {}, labels |-> {}]

\* exists: the Service is there; sliced: it has EndpointSlices; ready, unready:
\* the Nodes of their endpoints, where an unset condition counts as ready.
Backends == {b \in [exists : BOOLEAN, sliced : BOOLEAN,
                    ready : SUBSET (Nodes \cup {NoNode}), unready : SUBSET Nodes] :
                /\ b.sliced => b.exists
                /\ b.ready \cup b.unready # {} => b.sliced}

NodeStates == [exists : BOOLEAN, label : [Families -> {"absent", "malformed", "address"}]]

VARIABLES source,     \* the Ingress or route
          grants,     \* the ReferenceGrants for the source's namespace
          profile,    \* the DNSProviders the source selects
          requested,  \* the address-families annotation; {} when it is not there
          service,    \* Services with their EndpointSlices
          node,       \* Nodes with the values of their address labels
          output,     \* the targets of each provider's records, as last applied
          reported,   \* diagnostics of the last reconcile, with what they are about
          done,       \* the last reconcile saw this state
          changes     \* changes so far

cluster == <<profile, requested, service, node>>

vars == <<source, grants, cluster, output, reported, done, changes>>

RecordKeys == Hosts \X Families

projection == Projected(source, grants)

-----------------------------------------------------------------------------
Base(host) == IF Head(host) = Wildcard THEN Tail(host) ELSE host

\* Mutant: the zone may be any part of the hostname.
ContainsZone(host, p) ==
    \E z \in profile[p].zones : \E n \in 1 .. Len(host) : IsPrefix(z, SubSeq(host, n, Len(host)))

\* matchingZone finds a zone that is the hostname or a suffix of it.
MatchingZone(host, p) == \E z \in profile[p].zones : IsSuffix(z, Base(host))

\* The families a provider's records are made for, and those with a label.
FamiliesOf(p) == IF requested # {} THEN requested ELSE profile[p].labels

Labelled(p) == FamiliesOf(p) \cap profile[p].labels

NodesOf(s) == service[s].ready \ {NoNode}

\* Mutant: Nodes that cannot be read are skipped.
ServiceMissing(s, p) == ~service[s].exists

\* backendTargets fails: a Service or a Node is missing, or a label that is
\* read does not parse.
BackendFails(s, p) ==
    \/ ~service[s].exists
    \/ \E n \in NodesOf(s) :
          ~node[n].exists \/ \E f \in Labelled(p) : node[n].label[f] = "malformed"

With(s, f, value) == {n \in NodesOf(s) : node[n].exists /\ node[n].label[f] = value}

BackendTargets(s, p, f) == IF f \in Labelled(p) THEN With(s, f, "address") ELSE {}

\* Mutant: no diagnostic when no endpoint is ready.
BackendDiagnosticsUnready(s, p) ==
    IF ~service[s].sliced THEN {<<"EndpointSlicesUnavailable", s>>}
    ELSE {<<"EndpointNodeNameMissing", s>> : n \in service[s].ready \cap {NoNode}} \cup
         {<<"NodeAddressLabelMissing", p, s, f>> : f \in {f \in Labelled(p) : With(s, f, "absent") # {}}}

BackendDiagnostics(s, p) ==
    IF ~service[s].sliced THEN {<<"EndpointSlicesUnavailable", s>>}
    ELSE {<<"NoReadyEndpoints", s>> : x \in {x \in {s} : service[x].ready = {}}} \cup
         {<<"EndpointNodeNameMissing", s>> : n \in service[s].ready \cap {NoNode}} \cup
         {<<"NodeAddressLabelMissing", p, s, f>> : f \in {f \in Labelled(p) : With(s, f, "absent") # {}}}

\* loadProviders: a provider that is not there is deselected.
Loaded == {p \in Providers : profile[p] # NotFound}

\* The hostnames a provider resolves, and all their backends.
Resolved(p) == {h \in DOMAIN projection : MatchingZone(h, p)}

AllBackendsOf(p) == UNION {projection[h] : h \in Resolved(p)}

\* Resolver.publication: no targets, no record.
Publication(p) ==
    [k \in RecordKeys |->
        IF k[1] \in Resolved(p) /\ k[2] \in FamiliesOf(p)
        THEN UNION {BackendTargets(s, p, k[2]) : s \in projection[k[1]]}
        ELSE {}]

\* Everything a complete pass reports.
Diagnostics(p) ==
    {<<"AddressFamilyUnavailable", p, f>> : f \in FamiliesOf(p) \ profile[p].labels} \cup
    {<<"HostnameOutsideZones", p, h>> : h \in DOMAIN projection \ Resolved(p)} \cup
    UNION {BackendDiagnostics(s, p) : s \in AllBackendsOf(p)}

\* What is reported before the first provider is resolved.
Preliminary ==
    ProjectionDiagnostics(source, grants) \cup {<<"DNSProviderNotFound", p>> : p \in Providers \ Loaded}

Failing == {p \in Loaded : \E s \in AllBackendsOf(p) : BackendFails(s, p)}

Failed == <<"failed">> \in reported

\* A reconcile: one failing provider fails the source, and nothing is applied.
Succeed ==
    /\ ~done
    /\ Failing = {}
    /\ output' = [p \in Providers |-> Publication(p)]
    /\ reported' = Preliminary \cup UNION {Diagnostics(p) : p \in Loaded}
    /\ done' = TRUE
    /\ UNCHANGED <<source, grants, cluster, changes>>

\* What the resolver reported before the failure is left out.
Fail ==
    /\ ~done
    /\ Failing # {}
    /\ reported' = Preliminary \cup {<<"failed">>}
    /\ done' = TRUE
    /\ UNCHANGED <<source, grants, cluster, output, changes>>

-----------------------------------------------------------------------------
\* A provider, the annotation, a Service's endpoints or a Node changes.
Changed ==
    /\ changes < MaxChanges
    /\ changes' = changes + 1
    /\ done' = FALSE
    /\ UNCHANGED <<source, grants, output, reported>>

ChangeProfile(p) ==
    /\ \E x \in Profiles \cup {NotFound} : profile' = [profile EXCEPT ![p] = x]
    /\ Changed
    /\ UNCHANGED <<requested, service, node>>

ChangeFamilies ==
    /\ requested' \in SUBSET Families
    /\ Changed
    /\ UNCHANGED <<profile, service, node>>

ChangeService(s) ==
    /\ \E b \in Backends : service' = [service EXCEPT ![s] = b]
    /\ Changed
    /\ UNCHANGED <<profile, requested, node>>

ChangeNode(n) ==
    /\ \E x \in NodeStates : node' = [node EXCEPT ![n] = x]
    /\ Changed
    /\ UNCHANGED <<profile, requested, service>>

\* The source becomes any other, and the grants; bound: as the only change.
ChangeSource ==
    /\ changes = 0 /\ changes' = MaxChanges
    /\ source' \in {s \in Ingresses \cup Routes : s.kind = source.kind}
    /\ grants' \in IF IsRoute(source) THEN AtMost(1, Grants) ELSE {{}}
    /\ done' = FALSE
    /\ UNCHANGED <<cluster, output, reported>>

\* An Ingress that gives every hostname every Service of its namespace, or a
\* route that gives them every granted Service of all namespaces.
WiredIngress == [kind |-> "Ingress", overrides |-> {}, tls |-> {}, default |-> {},
                 rules |-> {[host |-> h, paths |-> Services] : h \in Hosts}]

WiredRoute(kind) ==
    [kind |-> kind, overrides |-> IF kind = HTTPRoute THEN {} ELSE Hosts,
     hostnames |-> IF kind = HTTPRoute THEN Hosts ELSE {},
     refs |-> [service : {TRUE}, namespace : Namespaces, name : Services]]

Init ==
    /\ \/ source = WiredIngress /\ grants = {}
       \/ \E kind \in RouteKinds :
             /\ source = WiredRoute(kind)
             /\ grants = [namespace : Namespaces \ {Home}, kind : {kind}, name : {AnyService}]
    /\ profile = [p \in Providers |-> [zones |-> Zones, labels |-> Families]]
    /\ requested = {}
    /\ service = [k \in ServiceKeys |->
                    [exists |-> TRUE, sliced |-> TRUE, ready |-> Placement[k[2]], unready |-> {}]]
    /\ node = [n \in Nodes |-> [exists |-> TRUE, label |-> [f \in Families |-> "address"]]]
    /\ output = [p \in Providers |-> [k \in RecordKeys |-> {}]]
    /\ reported = {}
    /\ done = FALSE
    /\ changes = 0

Next ==
    \/ Succeed
    \/ Fail
    \/ \E p \in Providers : ChangeProfile(p)
    \/ ChangeFamilies
    \/ \E s \in ServiceKeys : ChangeService(s)
    \/ \E n \in Nodes : ChangeNode(n)
    \/ ChangeSource

Spec == Init /\ [][Next]_vars

-----------------------------------------------------------------------------
\* The records that are applied are complete.
AppliesAll ==
    \A p \in Loaded : \A h \in {h \in DOMAIN projection : MatchingZone(h, p)} : \A s \in projection[h] :
        /\ service[s].exists
        /\ \A n \in NodesOf(s) :
              /\ node[n].exists
              /\ \A f \in Labelled(p) : n \in output'[p][<<h, f>>] \/ node[n].label[f] = "absent"

\* A reconcile applies all it should or nothing: once it changes any
\* provider's records, each Node that runs a ready endpoint of a hostname's
\* backend is there, and is a target of that hostname's record unless its
\* label for the family is absent.  A Node or Service that cannot be read is
\* never taken for one that has gone.
WholeOrNothing == [][output' # output => AppliesAll]_vars

\* A source is never left without records in silence, whatever step from the
\* source over the provider to the Node label is the reason.
Explained ==
    done /\ (\A p \in Providers, k \in RecordKeys : output[p][k] = {}) => reported # {}

\* A record that is not published is accounted for: after a reconcile, a
\* hostname with backends that has no record for a family it should have is
\* explained by a diagnostic about that family, that hostname, or each of the
\* Services behind it.
GapExplained ==
    done /\ ~Failed =>
        \A p \in Loaded : \A h \in DOMAIN projection : \A f \in FamiliesOf(p) :
            output[p][<<h, f>>] = {} =>
                \/ {<<"AddressFamilyUnavailable", p, f>>, <<"HostnameOutsideZones", p, h>>} \cap reported # {}
                \/ \A s \in projection[h] :
                     {<<"EndpointSlicesUnavailable", s>>, <<"NoReadyEndpoints", s>>,
                      <<"EndpointNodeNameMissing", s>>, <<"NodeAddressLabelMissing", p, s, f>>}
                        \cap reported # {}

\* The names a hostname stands for.
Covered(host) == IF Head(host) = Wildcard THEN <<Subdomain>> \o Tail(host) ELSE host

\* A provider's records answer only for names inside its zones, also where a
\* wildcard covers them.
InsideZones ==
    done /\ ~Failed =>
        \A p \in Providers, k \in RecordKeys : output[p][k] # {} =>
            \E z \in profile[p].zones : IsSuffix(z, Covered(k[1]))

\* Without overrides a hostname resolves only to Nodes that run a Service its
\* Ingress may send its requests to: from the paths of its own rules, or the
\* default backend.
Routable ==
    done /\ ~Failed /\ ~IsRoute(source) /\ source.overrides = {} =>
        \A p \in Providers, k \in RecordKeys :
            output[p][k] \subseteq
                UNION {NodesOf(s) : s \in
                    Here(source.default \cup UNION {r.paths : r \in {r \in source.rules : r.host = k[1]}})}

\* The field indexes lead back to the source from whatever its records depend
\* on: every Service of the projection is one of its keys, and so is the
\* namespace of a ReferenceGrant by whose coming or going the projection would
\* be another.
Indexed ==
    done => /\ \A h \in DOMAIN projection : projection[h] \subseteq BackendKeys(source)
            /\ IsRoute(source) => \A g \in Grants :
                  {Projected(source, grants \cup {g}), Projected(source, grants \ {g})} # {projection} =>
                      g.namespace \in RouteBackendNamespaces(source)

-----------------------------------------------------------------------------
AnyIngress == [kind : {"Ingress"}, overrides : SUBSET Hosts, tls : SUBSET Hosts,
               default : SUBSET (Services \cup {Resource}), rules : SUBSET Rules]

AnyRoute == [kind : RouteKinds, overrides : SUBSET Hosts, hostnames : SUBSET Hosts,
             refs : SUBSET BackendRefs]

\* Every variable has its type.
TypeOK ==
    /\ source \in AnyIngress \cup AnyRoute
    /\ grants \subseteq Grants
    /\ profile \in [Providers -> Profiles \cup {NotFound}]
    /\ requested \in SUBSET Families
    /\ service \in [ServiceKeys -> Backends]
    /\ node \in [Nodes -> NodeStates]
    /\ done \in BOOLEAN
    /\ changes \in Nat

\* The invariant behind the properties above: while the cluster is as the last
\* reconcile saw it, that reconcile either applied and reported everything of
\* every provider, or it failed and said so.
ReconciledInv ==
    done => \/ /\ Failing = {}
               /\ output = [p \in Providers |-> Publication(p)]
               /\ reported = Preliminary \cup UNION {Diagnostics(p) : p \in Loaded}
            \/ reported = Preliminary \cup {<<"failed">>}
=============================================================================
