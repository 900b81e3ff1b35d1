------------------------------- MODULE Records -------------------------------
(***************************************************************************)
(* The records of one generated DNSEndpoint, as internal/dnsendpoint/       *)
(* writer.go assembles them: endpoints with a name, a type, a TTL and a     *)
(* list of targets, which users may edit between two writes.  The module    *)
(* DNSEndpointWriter, on which LabDNS is built, keeps only the set of       *)
(* target keys; RefinesWriter shows that this loses nothing.                *)
(*                                                                          *)
(* normalizeEndpoints sorts endpoints by name and type and makes a sorted   *)
(* list without duplicates of the targets: targets are sets here, and an    *)
(* object's endpoints are a bag, since users may list a record twice.       *)
(***************************************************************************)
EXTENDS Integers, FiniteSets, Bags

CONSTANTS RecordKeys,     \* a DNS name and a record type
          Addresses,
          TTLs,
          Delays,         \* deletion delays
          Annotations,    \* the external-dns annotations of a source
          MaxTime,        \* bound: the clock
          MaxEdits,       \* bound: edits of the object by users
          MaxCopies       \* bound: endpoints users add to the object

ASSUME RecordsAssumption ==
    /\ TTLs \subseteq Nat /\ Delays \subseteq Nat
    /\ {MaxTime, MaxEdits, MaxCopies} \subseteq Nat

TargetKeys == RecordKeys \X Addresses

Writer == INSTANCE DNSEndpointWriter WITH Targets <- TargetKeys

Endpoint == [key : RecordKeys, targets : SUBSET Addresses, ttl : TTLs]

\* What the resolver publishes: one record at most for each key, with targets,
\* and one TTL for all of them.
RecordMaps == UNION {[K -> (SUBSET Addresses) \ {{}}] : K \in SUBSET RecordKeys}

Publications == [records : RecordMaps, ttl : TTLs, delay : Delays, annotations : Annotations]

\* Apply(identity, nil).
Retired == [records |-> [k \in {} |-> {}], ttl |-> 0, delay |-> 0, annotations |-> "none"]

NotPending == -1

\* A Get answers NotFound.
Absent == [exists |-> FALSE, endpoints |-> EmptyBag,
           deadline |-> [x \in TargetKeys |-> NotPending],
           delay |-> 0, annotations |-> "none", owned |-> FALSE]

VARIABLES object,   \* the DNSEndpoint
          clock,
          edits     \* edits so far

vars == <<object, clock, edits>>

-----------------------------------------------------------------------------
\* endpointTargets and normalizeEndpoints
EndpointTargets(endpoints) ==
    UNION {{<<e.key, a>> : a \in e.targets} : e \in BagToSet(endpoints)}

RecordTargets(records) == UNION {{<<k, a>> : a \in records[k]} : k \in DOMAIN records}

PendingKeys(o) == {x \in TargetKeys : o.deadline[x] # NotPending}

\* build and Advance refuse an object whose pending targets its spec lacks.
Accepted(o) == PendingKeys(o) \subseteq EndpointTargets(o.endpoints)

\* Mutant: every Apply starts the delay again.
RestartedAt(o, pub, time, x) == time + o.delay

\* Mutant: the delay of the publication instead of the stored one.
RequestedAt(o, pub, time, x) ==
    IF o.deadline[x] # NotPending THEN o.deadline[x] ELSE time + pub.delay

RetireAt(o, pub, time, x) ==
    IF o.deadline[x] # NotPending THEN o.deadline[x]
    ELSE time + IF o.exists THEN o.delay ELSE pub.delay

Pending(o, pub, time) ==
    {x \in EndpointTargets(o.endpoints) \ RecordTargets(pub.records) :
        RetireAt(o, pub, time, x) > time}

Published(pub, k) == IF k \in DOMAIN pub.records THEN pub.records[k] ELSE {}

Retiring(pending, k) == {a \in Addresses : <<k, a>> \in pending}

\* The TTLs a record may have: a published one takes the publication's, one
\* that only retires keeps its own; of several copies in the object any may
\* be the last after sorting.
TTLsOf(o, pub, k) ==
    IF k \in DOMAIN pub.records THEN {pub.ttl}
    ELSE {e.ttl : e \in {e \in BagToSet(o.endpoints) : e.key = k}}

\* The endpoints with the given targets, under every choice of their TTLs.
Assembled(o, pub, targets) ==
    LET keys == {k \in RecordKeys : targets[k] # {}}
    IN  {SetToBag({[key |-> k, ttl |-> ttl[k], targets |-> targets[k]] : k \in keys}) :
            ttl \in {f \in [keys -> TTLs] : \A k \in keys : f[k] \in TTLsOf(o, pub, k)}}

\* combineRecords: the published and the retiring targets of each record.
CombineRecords(o, pub, pending) ==
    Assembled(o, pub, [k \in RecordKeys |-> Published(pub, k) \cup Retiring(pending, k)])

\* build: a publication without records changes neither the stored delay nor
\* the external-dns annotations; an owner reference to the source is removed.
Build(o, pub, time) ==
    LET pending == Pending(o, pub, time)
        publishes == DOMAIN pub.records # {}
    IN  IF ~publishes /\ pending = {} THEN {Absent}
        ELSE {[exists |-> TRUE,
               endpoints |-> endpoints,
               deadline |-> [x \in TargetKeys |->
                                IF x \in pending THEN RetireAt(o, pub, time, x) ELSE NotPending],
               delay |-> IF publishes THEN pub.delay ELSE o.delay,
               annotations |-> IF publishes THEN pub.annotations ELSE o.annotations,
               owned |-> FALSE] : endpoints \in CombineRecords(o, pub, pending)}

\* An equivalent object is not written, which leaves the one that is stored.
Apply(pub) ==
    /\ Accepted(object)
    /\ object' \in Build(object, pub, clock)
    /\ UNCHANGED <<clock, edits>>

Expired(o, time) == {x \in PendingKeys(o) : o.deadline[x] <= time}

\* Mutant: endpoints without targets stay.
TrimTargets(endpoints, expired) ==
    BagOfAll(LAMBDA e : [e EXCEPT !.targets = {a \in @ : <<e.key, a>> \notin expired}], endpoints)

\* Advance: expired targets leave every endpoint, and endpoints without
\* targets the object.
Trim(endpoints, expired) ==
    LET trimmed == BagOfAll(LAMBDA e : [e EXCEPT !.targets = {a \in @ : <<e.key, a>> \notin expired}],
                            endpoints)
    IN  [e \in {e \in BagToSet(trimmed) : e.targets # {}} |-> trimmed[e]]

Advance ==
    /\ object.exists
    /\ Accepted(object)
    /\ Expired(object, clock) # {}
    /\ LET expired == Expired(object, clock)
           endpoints == Trim(object.endpoints, expired)
       IN  object' = IF endpoints = EmptyBag THEN Absent
                     ELSE [object EXCEPT !.endpoints = endpoints,
                                         !.deadline = [x \in TargetKeys |->
                                             IF x \in expired THEN NotPending ELSE @[x]]]
    /\ UNCHANGED <<clock, edits>>

-----------------------------------------------------------------------------
(***************************************************************************)
(* What `labdns list` and `labdns show` print of the object (recordsFor):   *)
(* each endpoint with the pending targets of its name and type.             *)
(***************************************************************************)
\* Mutant: a pending target is looked up by its address alone.
RetiringAddresses(o, e) == {x[2] : x \in PendingKeys(o)}

RetiringOf(o, e) == Retiring(PendingKeys(o), e.key)

ActiveTargets(o) ==
    UNION {{<<e.key, a>> : a \in e.targets \ RetiringOf(o, e)} : e \in BagToSet(o.endpoints)}

-----------------------------------------------------------------------------
Edited(new) ==
    /\ edits < MaxEdits
    /\ edits' = edits + 1
    /\ object' = new
    /\ UNCHANGED clock

\* Users add an endpoint to the spec, possibly one it has, or remove one;
\* they add an owner reference, or change the external-dns annotations.
AddEndpoint(e) ==
    /\ object.exists
    /\ BagCardinality(object.endpoints) < MaxCopies
    /\ Edited([object EXCEPT !.endpoints = @ (+) SetToBag({e})])

RemoveEndpoint ==
    /\ object.exists
    /\ \E e \in BagToSet(object.endpoints) :
          Edited([object EXCEPT !.endpoints = @ (-) SetToBag({e})])

EditMetadata ==
    /\ object.exists
    /\ \E a \in Annotations, owned \in BOOLEAN :
          Edited([object EXCEPT !.annotations = a, !.owned = owned])

Tick ==
    /\ clock < MaxTime
    /\ clock' = clock + 1
    /\ UNCHANGED <<object, edits>>

Init == object = Absent /\ clock = 0 /\ edits = 0

Next ==
    \/ \E pub \in Publications \cup {Retired} : Apply(pub)
    \/ Advance
    \/ \E e \in Endpoint : AddEndpoint(e)
    \/ RemoveEndpoint
    \/ EditMetadata
    \/ Tick

Spec == Init /\ [][Next]_vars

\* Every variable has its type.  An object that is there has deadlines for
\* target keys only, and whatever users did to it, its endpoints are records.
TypeOK ==
    /\ \/ object = Absent
       \/ /\ object \in [exists : {TRUE}, endpoints : {object.endpoints},
                         deadline : [TargetKeys -> Nat \cup {NotPending}],
                         delay : Nat, annotations : Annotations, owned : BOOLEAN]
          /\ BagToSet(object.endpoints) \subseteq Endpoint
    /\ clock \in Nat
    /\ edits \in Nat

-----------------------------------------------------------------------------
(***************************************************************************)
(* The object and a publication as DNSEndpointWriter sees them.             *)
(***************************************************************************)
Abstract(o) ==
    IF ~o.exists THEN Writer!Absent
    ELSE [exists |-> TRUE, flaws |-> {}, spec |-> EndpointTargets(o.endpoints),
          deadline |-> o.deadline, delay |-> o.delay, uid |-> 1]

AbstractPublication(pub) ==
    [selected |-> TRUE, targets |-> RecordTargets(pub.records), delay |-> pub.delay]

AllPublications == Publications \cup {Retired}

\* What is written twice is written once: after an Apply and until a deadline
\* passes, another Apply of the same publication finds the object equivalent
\* to what it would write, however its records were assembled, so that a write
\* and the event it causes never feed each other.
Settles ==
    Accepted(object) =>
        \A pub \in AllPublications : \A o \in Build(object, pub, clock) :
            \A time \in clock .. MaxTime :
                Expired(o, time) = {} => Build(o, pub, time) = {o}

\* The target keys of what build writes, its deadlines and its stored delay
\* are those DNSEndpointWriter computes from the target keys of what it reads,
\* for edited and repeated endpoints too, and both refuse the same objects.
RefinesWriter ==
    /\ Accepted(object) <=> Writer!Valid(Abstract(object))
    /\ Accepted(object) =>
         \A pub \in AllPublications : \A o \in Build(object, pub, clock) :
             Abstract(o) = Writer!Build(Abstract(object), AbstractPublication(pub), 1, clock)

\* A step of Advance is DNSEndpointWriter's.
RefinesAdvance ==
    [][Advance => Abstract(object') = Writer!Advanced(Abstract(object), clock)]_vars

\* What the CLI lists as active is what no expiry touches: Advance removes
\* retiring targets only and makes none active again, for edited and repeated
\* endpoints too.
ActiveSurvives == [][Advance => ActiveTargets(object') = ActiveTargets(object)]_vars
=============================================================================
