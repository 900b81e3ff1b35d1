------------------------------ MODULE Inspection ------------------------------
(***************************************************************************)
(* `labdns status` of internal/cli/inspect.go beside the manager it looks   *)
(* at, cmd/main.go and cmd/discovery.go.  The command reads discovery, the  *)
(* controller's Deployment, the DNSProviders and the DNSEndpoints one after *)
(* the other while CRDs, the Deployment and the DNSEndpoints change; it     *)
(* works out for itself, from the Deployment's arguments, what the manager  *)
(* requires.  The command is given without --namespace.                     *)
(***************************************************************************)
EXTENDS Naturals, Sequences, FiniteSets, SequencesExt

CONSTANTS GatewayResources,   \* the resources Gateway API support needs
          Tokens,             \* command-line arguments of the manager
          MaxArgs,            \* bound: their number
          MaxChanges          \* bound: changes of the cluster

\* Arguments: forms of --enable-gateway-api, and some other flag.
GatewayTokens == {"gateway", "gateway=true", "gateway=false", "gateway=bad"}

ASSUME InspectionAssumption ==
    /\ Tokens \subseteq GatewayTokens \cup {"flag"}
    /\ {MaxArgs, MaxChanges} \subseteq Nat
    /\ IsFiniteSet(GatewayResources)
    /\ GatewayResources \cap {"dnsproviders", "dnsendpoints", "controllers", "providers", "records",
                              "manager", "arguments"} = {}

CoreResources == {"dnsproviders", "dnsendpoints"}

Resources == CoreResources \cup GatewayResources

\* A resource that is served may lack a verb, or have another kind or scope.
Serving == {"missing", "incompatible", "compatible"}

\* A DNSEndpoint with its records: ExternalDNS has observed its generation or
\* not, or its lifecycle annotation cannot be parsed; "empty": it has none.
EndpointStates == {"absent", "empty", "observed", "stale", "invalid"}

ArgLists == UNION {[1 .. n -> Tokens] : n \in 0 .. MaxArgs}

VARIABLES served,     \* discovery
          scale,      \* the Deployment: "none", or "zero" or "one" replica
          args,       \* the manager's arguments in its template
          pods,       \* the arguments of each Pod that exists
          up,         \* those of the Pods whose manager runs and is available
          endpoint,   \* a generated DNSEndpoint
          todo,       \* the reads the command has left
          alarms,     \* what it found wrong
          lasting,    \* faults present since it began
          needed,     \* resources the Deployment asked for at some time since
          met,        \* faults that were there at some time since
          changes     \* changes so far

deployment == <<scale, args, pods, up>>
cluster == <<served, deployment, endpoint>>
vars == <<cluster, todo, alarms, lasting, needed, met, changes>>

-----------------------------------------------------------------------------
(***************************************************************************)
(* The manager: flag.Parse, checkPrerequisites, and the caches it waits     *)
(* for.  A manager that cannot start exits and is started again.            *)
(***************************************************************************)
\* The flag package: a later argument replaces an earlier one.
LastGateway(list) == SelectLastInSeq(list, LAMBDA t : t \in GatewayTokens)

EnableGatewayAPI(list) ==
    LastGateway(list) # 0 /\ list[LastGateway(list)] \in {"gateway", "gateway=true"}

FlagsParse(list) == \A n \in DOMAIN list : list[n] # "gateway=bad"

Prerequisites(list) ==
    {"dnsendpoints"} \cup (IF EnableGatewayAPI(list) THEN GatewayResources ELSE {})

\* The manager of a Pod starts, or starts again, with the Pod's arguments.
Start(list) ==
    /\ list \in pods \ up
    /\ FlagsParse(list)
    /\ \A r \in Prerequisites(list) : served[r] = "compatible"
    /\ served["dnsproviders"] # "missing"
    /\ up' = up \cup {list}
    /\ UNCHANGED <<served, scale, args, pods, endpoint, changes>>

Crash ==
    /\ \E list \in up : up' = up \ {list}
    /\ UNCHANGED <<served, scale, args, pods, endpoint>>

ChangeAPI(r) ==
    /\ \E s \in Serving \ {served[r]} : served' = [served EXCEPT ![r] = s]
    /\ UNCHANGED <<deployment, endpoint>>

\* Neither the chart nor the manifests set a strategy, so a change of the one
\* replica's arguments is a RollingUpdate that may add a Pod and must not make
\* one unavailable: an available Pod, if there is one, stays beside the new one.
Rolled(list) ==
    \E old \in pods :
        /\ up # {} => old \in up
        /\ pods' = {old, list}
        /\ up' = up \cap {old, list}

\* The Deployment is deleted, created, scaled or given other arguments.
ChangeDeployment ==
    /\ scale' \in {"none", "zero", "one"} /\ args' \in ArgLists
    /\ <<scale', args'>> # <<scale, args>>
    /\ \/ scale' # "one" /\ pods' = {} /\ up' = {}
       \/ scale' = "one" /\ scale # "one" /\ pods' = {args'} /\ up' = {}
       \/ scale' = "one" /\ scale = "one" /\ Rolled(args')
    /\ UNCHANGED <<served, endpoint>>

\* The Pod of the template is available: the rollout takes the other one away.
CompleteRollout ==
    /\ args \in up
    /\ pods # {args}
    /\ pods' = {args} /\ up' = {args}
    /\ UNCHANGED <<served, scale, args, endpoint, changes>>

ChangeEndpoint ==
    /\ served["dnsendpoints"] # "missing"
    /\ endpoint' \in EndpointStates \ {endpoint}
    /\ UNCHANGED <<served, deployment>>

Change ==
    /\ changes < MaxChanges
    /\ changes' = changes + 1
    /\ \/ Crash
       \/ \E r \in Resources : ChangeAPI(r)
       \/ ChangeDeployment
       \/ ChangeEndpoint

-----------------------------------------------------------------------------
(***************************************************************************)
(* inspector.status: a sequence of reads.                                   *)
(***************************************************************************)
Reads == <<"dnsproviders", "dnsendpoints", "controllers", "providers", "records">>

\* Mutant: the first argument decides.
FirstGatewayArg(list) ==
    LET n == SelectInSeq(list, LAMBDA t : t \in GatewayTokens)
    IN  n # 0 /\ list[n] \in {"gateway", "gateway=true"}

\* gatewayAPIEnabled, on arguments that parse.
GatewayAPIEnabled(list) ==
    \E n \in DOMAIN list :
        /\ list[n] \in {"gateway", "gateway=true"}
        /\ \A k \in n + 1 .. Len(list) : list[k] \notin GatewayTokens

\* resourceAvailable: the name is enough.
Missing(r) == IF served[r] = "missing" THEN {<<"unavailable", r>>} ELSE {}

Finds(found, further) ==
    /\ alarms' = alarms \cup found
    /\ todo' = further \o Tail(todo)
    /\ UNCHANGED <<cluster, changes>>

InspectResource ==
    /\ Head(todo) \in Resources
    /\ Finds(Missing(Head(todo)), <<>>)

\* controllers: arguments that do not parse end the discovery.
InspectControllers ==
    /\ Head(todo) = "controllers"
    /\ \/ /\ scale = "none"
          /\ Finds({<<"unavailable", "manager">>}, <<>>)
       \/ /\ scale # "none"
          /\ ~FlagsParse(args)
          /\ Finds({<<"unavailable", "arguments">>}, <<>>)
       \/ /\ scale # "none"
          /\ FlagsParse(args)
          /\ Finds(IF up = {} \/ scale = "zero" THEN {<<"unavailable", "manager">>} ELSE {},
                   IF GatewayAPIEnabled(args) THEN SetToSeq(GatewayResources) ELSE <<>>)

InspectProviders ==
    /\ Head(todo) = "providers"
    /\ Finds(Missing("dnsproviders"), <<>>)

\* recordsFor, recordState: an object shows through its records only.
RecordAlarms == IF endpoint \in {"stale", "invalid"} THEN {<<"record", "dnsendpoint">>} ELSE {}

InspectRecords ==
    /\ Head(todo) = "records"
    /\ Finds(IF served["dnsendpoints"] = "missing" THEN Missing("dnsendpoints") ELSE RecordAlarms, <<>>)

Inspect ==
    /\ todo # <<>>
    /\ InspectResource \/ InspectControllers \/ InspectProviders \/ InspectRecords

Hard(found) == {a \in found : a[1] = "unavailable"}

Overall ==
    IF Hard(alarms) # {} THEN "unhealthy" ELSE IF alarms # {} THEN "degraded" ELSE "healthy"

-----------------------------------------------------------------------------
(***************************************************************************)
(* What is wrong with the cluster, from the manager's side: an API that the *)
(* Deployment asks for is not there, its arguments do not parse, no manager *)
(* is available, or records are not in their final state.                   *)
(***************************************************************************)
Required == {"dnsproviders"} \cup IF scale # "none" THEN Prerequisites(args) ELSE {"dnsendpoints"}

MissingOf(resources) == {<<"unavailable", r>> : r \in {r \in resources : served[r] = "missing"}}

OtherFaults ==
    (IF up = {} THEN {<<"unavailable", "manager">>} ELSE {})
        \cup (IF scale # "none" /\ ~FlagsParse(args) THEN {<<"unavailable", "arguments">>} ELSE {})
        \cup (IF served["dnsendpoints"] = "missing" THEN {} ELSE RecordAlarms)

Faults == MissingOf(Required) \cup OtherFaults

Watch ==
    /\ lasting' = lasting \cap Faults'
    /\ needed' = needed \cup Required'
    /\ met' = met \cup MissingOf(needed)' \cup OtherFaults'

\* Where a run of the command begins.
Began == lasting = Faults /\ needed = Required /\ met = Faults

\* The manager is about to start, with some resources and arguments.
Starting(resources, list) ==
    /\ served = resources
    /\ scale = "one" /\ args = list /\ pods = {list} /\ up = {}
    /\ endpoint = "observed"
    /\ todo = Reads /\ alarms = {}
    /\ Began
    /\ changes = 0

Init == \E resources \in [Resources -> {"missing", "compatible"}], list \in ArgLists :
            Starting(resources, list)

\* The command is given again, on the cluster as it is.
Rerun ==
    /\ todo = <<>>
    /\ todo' = Reads /\ alarms' = {}
    /\ lasting' = Faults /\ needed' = Required /\ met' = Faults
    /\ UNCHANGED <<cluster, changes>>

Next ==
    \/ Inspect /\ Watch
    \/ /\ (\E list \in pods : Start(list)) \/ CompleteRollout \/ Change
       /\ Watch
       /\ UNCHANGED <<todo, alarms>>
    \/ Rerun

Spec == Init /\ [][Next]_vars

-----------------------------------------------------------------------------
\* A fault that lasts from the first read of the command to the last shows in
\* its verdict, whatever else changes meanwhile: an API that the Deployment asks
\* for and that is gone, arguments that do not parse, or no manager make it
\* unhealthy (and its exit status non-zero); a stale or invalid record makes it
\* at least degraded.
LastingFaultShown ==
    todo = <<>> => /\ Hard(lasting) # {} => Overall = "unhealthy"
                   /\ lasting # {} => Overall # "healthy"

\* Everything `status` reports was so at some time while it ran: no manager was
\* available, the arguments did not parse, a record was not in its final state,
\* and an API it calls unavailable was missing when, or after, the Deployment
\* asked for it; so its own reading of the arguments never asks for an API that
\* the Deployment does not.  (The reads are not atomic: the arguments may have
\* stopped asking for the API before it went.)
AlarmHasCause == alarms \subseteq met

-----------------------------------------------------------------------------
Alarm == ({"unavailable"} \X (Resources \cup {"manager", "arguments"})) \cup {<<"record", "dnsendpoint">>}

\* Every variable has its type.
TypeOK ==
    /\ served \in [Resources -> Serving]
    /\ scale \in {"none", "zero", "one"}
    /\ args \in Seq(Tokens)
    /\ pods \subseteq Seq(Tokens)
    /\ up \subseteq pods
    /\ endpoint \in EndpointStates
    /\ todo \in Seq(Resources \cup {"controllers", "providers", "records"})
    /\ alarms \subseteq Alarm
    /\ lasting \subseteq Alarm
    /\ needed \subseteq Resources
    /\ met \subseteq Alarm
    /\ changes \in Nat

Pending == ToSet(todo)

\* The inductive invariant behind LastingFaultShown: a lasting fault is in the
\* alarms or its read is still to come.  The reads of Gateway API resources
\* are appended only when the controllers are read; if the arguments of that
\* moment do not ask for them, they did not parse.
ShownInv ==
    /\ lasting \subseteq Faults
    /\ \A x \in {"manager", "arguments"} :
          <<"unavailable", x>> \in lasting \ alarms =>
              "controllers" \in Pending \/ Hard(alarms) # {}
    /\ \A r \in CoreResources : <<"unavailable", r>> \in lasting \ alarms => r \in Pending
    /\ \A r \in GatewayResources :
          <<"unavailable", r>> \in lasting \ alarms =>
              {r, "controllers"} \cap Pending # {} \/ Hard(alarms) # {}
    /\ <<"record", "dnsendpoint">> \in lasting /\ alarms = {} => "records" \in Pending

\* The inductive invariant behind AlarmHasCause: managers run only for a
\* Deployment with a replica, and a Gateway API resource is read only if the
\* Deployment asked for it at some time since the command began.
CauseInv ==
    /\ scale # "one" => pods = {}
    /\ Required \subseteq needed
    /\ MissingOf(needed) \cup OtherFaults \subseteq met
    /\ GatewayResources \cap Pending \subseteq needed
    /\ AlarmHasCause
=============================================================================
