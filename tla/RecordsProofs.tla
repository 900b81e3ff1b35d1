---------------------------- MODULE RecordsProofs ----------------------------
(***************************************************************************)
(* Proofs that the records of a DNSEndpoint and the target keys on which    *)
(* LabDNS is built tell the same story, for any records, addresses, TTLs    *)
(* and delays and any number of edits.                                      *)
(***************************************************************************)
EXTENDS Records, TLAPS

-----------------------------------------------------------------------------
(***************************************************************************)
(* Publications and the records assembled from them.                        *)
(***************************************************************************)

LEMMA PublicationFacts ==
    ASSUME NEW pub \in AllPublications
    PROVE  /\ DOMAIN pub.records \subseteq RecordKeys
           /\ \A k \in DOMAIN pub.records : pub.records[k] \subseteq Addresses /\ pub.records[k] # {}
           /\ pub.delay \in Nat
           /\ DOMAIN pub.records # {} => pub.annotations \in Annotations
<1>1. CASE pub \in Publications
  <2>1. pub.records \in RecordMaps /\ pub.delay \in Delays /\ pub.annotations \in Annotations
    BY <1>1 DEF Publications
  <2>2. PICK K \in SUBSET RecordKeys : pub.records \in [K -> (SUBSET Addresses) \ {{}}]
    BY <2>1 DEF RecordMaps
  <2>3. QED BY <2>1, <2>2, RecordsAssumption
<1>2. CASE pub = Retired
  <2>1. pub.records = [k \in {} |-> {}] /\ pub.delay = 0
    BY <1>2 DEF Retired
  <2>2. DOMAIN pub.records = {}
    BY <2>1
  <2>3. QED BY <2>1, <2>2
<1>3. QED BY <1>1, <1>2 DEF AllPublications

\* Every published record has a target.
LEMMA RecordTargetFacts ==
    ASSUME NEW pub \in AllPublications
    PROVE  /\ RecordTargets(pub.records) \subseteq TargetKeys
           /\ RecordTargets(pub.records) = {} <=> DOMAIN pub.records = {}
           /\ \A k \in RecordKeys, a \in Addresses :
                 <<k, a>> \in RecordTargets(pub.records) <=> a \in Published(pub, k)
           /\ \A k \in RecordKeys : Published(pub, k) \subseteq Addresses
<1>1. RecordTargets(pub.records) \subseteq TargetKeys
  BY PublicationFacts DEF RecordTargets, TargetKeys
<1>2. RecordTargets(pub.records) = {} <=> DOMAIN pub.records = {}
  <2>1. ASSUME NEW k \in DOMAIN pub.records PROVE RecordTargets(pub.records) # {}
    <3>1. PICK a \in pub.records[k] : TRUE
      BY PublicationFacts
    <3>2. <<k, a>> \in RecordTargets(pub.records)
      BY <3>1 DEF RecordTargets
    <3>3. QED BY <3>2
  <2>2. DOMAIN pub.records = {} => RecordTargets(pub.records) = {}
    BY DEF RecordTargets
  <2>3. QED BY <2>1, <2>2
<1>3. \A k \in RecordKeys, a \in Addresses :
          <<k, a>> \in RecordTargets(pub.records) <=> a \in Published(pub, k)
  BY DEF RecordTargets, Published
<1>4. \A k \in RecordKeys : Published(pub, k) \subseteq Addresses
  BY PublicationFacts DEF Published
<1>5. QED BY <1>1, <1>2, <1>3, <1>4

\* The record of a key, with its targets.
TargetsOf(pub, pending, k) == Published(pub, k) \cup Retiring(pending, k)

KeysOf(pub, pending) == {k \in RecordKeys : TargetsOf(pub, pending, k) # {}}

RecordOf(pub, pending, ttl, k) == [key |-> k, ttl |-> ttl[k], targets |-> TargetsOf(pub, pending, k)]

\* The bag of them, under a choice of the TTLs.
BagOf(pub, pending, ttl) == SetToBag({RecordOf(pub, pending, ttl, k) : k \in KeysOf(pub, pending)})

Choices(o, pub, pending) == {ttl \in [KeysOf(pub, pending) -> TTLs] :
                                \A k \in KeysOf(pub, pending) : ttl[k] \in TTLsOf(o, pub, k)}

LEMMA Combined ==
    ASSUME NEW o, NEW pub, NEW pending
    PROVE  CombineRecords(o, pub, pending) = {BagOf(pub, pending, ttl) : ttl \in Choices(o, pub, pending)}
<1> DEFINE targets == [k \in RecordKeys |-> Published(pub, k) \cup Retiring(pending, k)]
           keys == {k \in RecordKeys : targets[k] # {}}
           bag(ttl) == SetToBag({[key |-> k, ttl |-> ttl[k], targets |-> targets[k]] : k \in keys})
           choices == {f \in [keys -> TTLs] : \A k \in keys : f[k] \in TTLsOf(o, pub, k)}
<1>1. \A k \in RecordKeys : targets[k] = TargetsOf(pub, pending, k)
  BY DEF TargetsOf
<1>2. keys = KeysOf(pub, pending)
  BY <1>1 DEF KeysOf
<1>3. keys \subseteq RecordKeys
  OBVIOUS
<1>4. CombineRecords(o, pub, pending) = {bag(ttl) : ttl \in choices}
  BY DEF CombineRecords, Assembled
<1>5. choices = Choices(o, pub, pending)
  BY <1>2 DEF Choices
<1>6. ASSUME NEW ttl PROVE bag(ttl) = BagOf(pub, pending, ttl)
  <2> HIDE DEF targets, keys
  <2>1. {[key |-> k, ttl |-> ttl[k], targets |-> targets[k]] : k \in keys}
            = {RecordOf(pub, pending, ttl, k) : k \in keys}
    BY <1>1, <1>3 DEF RecordOf
  <2>2. QED BY <1>2, <2>1 DEF BagOf
<1> HIDE DEF bag, choices
<1>7. QED BY <1>4, <1>5, <1>6

LEMMA CombinedTargets ==
    ASSUME NEW o, NEW pub \in AllPublications, NEW pending \in SUBSET TargetKeys,
           NEW b \in CombineRecords(o, pub, pending)
    PROVE  /\ EndpointTargets(b) = RecordTargets(pub.records) \cup pending
           /\ BagToSet(b) \subseteq Endpoint
<1>1. PICK ttl \in Choices(o, pub, pending) : b = BagOf(pub, pending, ttl)
  BY Combined
<1>2. /\ BagToSet(b) = {RecordOf(pub, pending, ttl, k) : k \in KeysOf(pub, pending)}
      /\ ttl \in [KeysOf(pub, pending) -> TTLs]
  BY <1>1 DEF BagToSet, SetToBag, BagOf, Choices
<1>3. \A k \in RecordKeys : TargetsOf(pub, pending, k) \subseteq Addresses
  BY RecordTargetFacts DEF TargetsOf, Retiring
<1>4. BagToSet(b) \subseteq Endpoint
  BY <1>2, <1>3 DEF RecordOf, KeysOf, Endpoint
<1>5. \A k \in RecordKeys, a \in Addresses :
          a \in TargetsOf(pub, pending, k) <=> <<k, a>> \in RecordTargets(pub.records) \cup pending
  BY RecordTargetFacts DEF TargetsOf, Retiring
<1>6. ASSUME NEW x \in EndpointTargets(b) PROVE x \in RecordTargets(pub.records) \cup pending
  <2>1. PICK e \in BagToSet(b) : \E a \in e.targets : x = <<e.key, a>>
    BY DEF EndpointTargets
  <2>2. PICK k \in KeysOf(pub, pending) : e = RecordOf(pub, pending, ttl, k)
    BY <1>2, <2>1
  <2>3. e.key = k /\ e.targets = TargetsOf(pub, pending, k) /\ k \in RecordKeys
    BY <2>2 DEF RecordOf, KeysOf
  <2>4. QED BY <1>3, <1>5, <2>1, <2>3
<1>7. ASSUME NEW x \in RecordTargets(pub.records) \cup pending PROVE x \in EndpointTargets(b)
  <2>1. PICK k \in RecordKeys, a \in Addresses : x = <<k, a>>
    BY RecordTargetFacts DEF TargetKeys
  <2>2. a \in TargetsOf(pub, pending, k)
    BY <1>5, <1>7, <2>1
  <2>3. PICK e : e = RecordOf(pub, pending, ttl, k)
    OBVIOUS
  <2>4. e \in BagToSet(b) /\ e.key = k /\ e.targets = TargetsOf(pub, pending, k)
    BY <1>2, <2>2, <2>3 DEF RecordOf, KeysOf
  <2>5. QED BY <2>1, <2>2, <2>4 DEF EndpointTargets
<1>8. QED BY <1>4, <1>6, <1>7

-----------------------------------------------------------------------------
(***************************************************************************)
(* Objects, and what build makes of them.                                   *)
(***************************************************************************)
ObjectOK(o) ==
    \/ o = Absent
    \/ /\ o \in [exists : {TRUE}, endpoints : {o.endpoints},
                 deadline : [TargetKeys -> Nat \cup {NotPending}],
                 delay : Nat, annotations : Annotations, owned : BOOLEAN]
       /\ BagToSet(o.endpoints) \subseteq Endpoint

LEMMA AbsentFacts ==
    /\ Absent.exists = FALSE /\ Absent.delay = 0 /\ BagToSet(Absent.endpoints) = {}
    /\ Absent.deadline = [x \in TargetKeys |-> NotPending]
    /\ EndpointTargets(Absent.endpoints) = {} /\ PendingKeys(Absent) = {}
<1>1. Absent.exists = FALSE /\ Absent.delay = 0 /\ Absent.deadline = [x \in TargetKeys |-> NotPending]
  BY DEF Absent
<1>2. BagToSet(Absent.endpoints) = {}
  BY DEF Absent, BagToSet, EmptyBag, SetToBag
<1>3. EndpointTargets(Absent.endpoints) = {}
  BY <1>2 DEF EndpointTargets
<1>4. PendingKeys(Absent) = {}
  BY <1>1 DEF PendingKeys
<1>5. QED BY <1>1, <1>2, <1>3, <1>4

LEMMA ObjectFacts ==
    ASSUME NEW o, ObjectOK(o)
    PROVE  /\ o.exists \in BOOLEAN /\ o.delay \in Nat
           /\ o.deadline \in [TargetKeys -> Nat \cup {NotPending}]
           /\ BagToSet(o.endpoints) \subseteq Endpoint
           /\ EndpointTargets(o.endpoints) \subseteq TargetKeys
           /\ ~o.exists => o = Absent
           /\ o.exists => o.annotations \in Annotations
<1>1. /\ o.exists \in BOOLEAN /\ o.delay \in Nat
      /\ o.deadline \in [TargetKeys -> Nat \cup {NotPending}]
      /\ BagToSet(o.endpoints) \subseteq Endpoint
      /\ ~o.exists => o = Absent
      /\ o.exists => o.annotations \in Annotations
  <2>1. CASE o = Absent
    <3>1. o.deadline \in [TargetKeys -> Nat \cup {NotPending}]
      <4>1. o.deadline = [x \in TargetKeys |-> NotPending]
        BY <2>1, AbsentFacts
      <4>2. QED BY <4>1
    <3>2. o.delay = 0 /\ BagToSet(o.endpoints) = {}
      BY <2>1, AbsentFacts
    <3>3. o.exists \in BOOLEAN /\ ~o.exists
      BY <2>1 DEF Absent
    <3>4. o.delay \in Nat /\ BagToSet(o.endpoints) \subseteq Endpoint
      BY <3>2
    <3>5. QED BY <2>1, <3>1, <3>3, <3>4
  <2>2. CASE o # Absent
    BY <2>2 DEF ObjectOK
  <2>3. QED BY <2>1, <2>2
<1>2. EndpointTargets(o.endpoints) \subseteq TargetKeys
  BY <1>1 DEF EndpointTargets, Endpoint, TargetKeys
<1>3. QED BY <1>1, <1>2

Built(o, pub, time, endpoints) ==
    [exists |-> TRUE,
     endpoints |-> endpoints,
     deadline |-> [x \in TargetKeys |->
                      IF x \in Pending(o, pub, time) THEN RetireAt(o, pub, time, x) ELSE NotPending],
     delay |-> IF DOMAIN pub.records # {} THEN pub.delay ELSE o.delay,
     annotations |-> IF DOMAIN pub.records # {} THEN pub.annotations ELSE o.annotations,
     owned |-> FALSE]

\* There is nothing to publish and nothing that retires.
Empty(o, pub, time) == DOMAIN pub.records = {} /\ Pending(o, pub, time) = {}

LEMMA BuildIs ==
    ASSUME NEW o, NEW pub, NEW time
    PROVE  Build(o, pub, time) =
               IF Empty(o, pub, time) THEN {Absent}
               ELSE {Built(o, pub, time, endpoints) :
                        endpoints \in CombineRecords(o, pub, Pending(o, pub, time))}
BY DEF Build, Built, Empty

LEMMA PendingFacts ==
    ASSUME NEW o, ObjectOK(o), NEW pub \in AllPublications, NEW time \in Nat
    PROVE  /\ Pending(o, pub, time) \subseteq TargetKeys
           /\ \A x \in TargetKeys : RetireAt(o, pub, time, x) \in Nat
           /\ ~o.exists => Pending(o, pub, time) = {}
<1>1. Pending(o, pub, time) \subseteq TargetKeys
  BY ObjectFacts DEF Pending
<1>2. ASSUME NEW x \in TargetKeys PROVE RetireAt(o, pub, time, x) \in Nat
  <2>1. o.deadline[x] \in Nat \cup {NotPending} /\ o.delay \in Nat /\ pub.delay \in Nat
    BY ObjectFacts, PublicationFacts
  <2>2. CASE o.deadline[x] # NotPending
    BY <2>1, <2>2 DEF RetireAt
  <2>3. CASE o.deadline[x] = NotPending /\ o.exists
    BY <2>1, <2>3 DEF RetireAt
  <2>4. CASE o.deadline[x] = NotPending /\ ~o.exists
    BY <2>1, <2>4 DEF RetireAt
  <2>5. QED BY <2>2, <2>3, <2>4
<1>3. ~o.exists => Pending(o, pub, time) = {}
  BY ObjectFacts, AbsentFacts DEF Pending
<1>4. QED BY <1>1, <1>2, <1>3

\* What build returns is an object.
LEMMA BuildType ==
    ASSUME NEW o, ObjectOK(o), NEW pub \in AllPublications, NEW time \in Nat, NEW b \in Build(o, pub, time)
    PROVE  ObjectOK(b)
<1>1. CASE b = Absent
  BY <1>1 DEF ObjectOK
<1>2. CASE b # Absent
  <2>1. ~Empty(o, pub, time)
    BY <1>2, BuildIs
  <2>2. PICK endpoints \in CombineRecords(o, pub, Pending(o, pub, time)) : b = Built(o, pub, time, endpoints)
    BY <2>1, BuildIs
  <2>3. BagToSet(endpoints) \subseteq Endpoint
    BY PendingFacts, CombinedTargets
  <2>4. b.deadline \in [TargetKeys -> Nat \cup {NotPending}]
    <3>1. b.deadline = [x \in TargetKeys |->
              IF x \in Pending(o, pub, time) THEN RetireAt(o, pub, time, x) ELSE NotPending]
      BY <2>2 DEF Built
    <3>2. \A x \in TargetKeys : RetireAt(o, pub, time, x) \in Nat
      BY PendingFacts
    <3>3. QED BY <3>1, <3>2
  <2>5. b.delay \in Nat
    <3>1. b.delay = pub.delay \/ b.delay = o.delay
      BY <2>2 DEF Built
    <3>2. pub.delay \in Nat /\ o.delay \in Nat
      BY PublicationFacts, ObjectFacts
    <3>3. QED BY <3>1, <3>2
  <2>6. b.annotations \in Annotations
    <3>1. DOMAIN pub.records = {} => o.exists
      BY <2>1, PendingFacts, ObjectFacts DEF Empty
    <3>2. QED BY <2>2, <3>1, PublicationFacts, ObjectFacts DEF Built
  <2>7. /\ b = [exists |-> b.exists, endpoints |-> b.endpoints, deadline |-> b.deadline,
                delay |-> b.delay, annotations |-> b.annotations, owned |-> b.owned]
        /\ b.exists = TRUE /\ b.owned = FALSE /\ b.endpoints = endpoints
    BY <2>2 DEF Built
  <2>8. b \in [exists : {TRUE}, endpoints : {b.endpoints},
               deadline : [TargetKeys -> Nat \cup {NotPending}],
               delay : Nat, annotations : Annotations, owned : BOOLEAN]
    BY <2>4, <2>5, <2>6, <2>7
  <2>9. QED BY <2>3, <2>7, <2>8 DEF ObjectOK
<1>3. QED BY <1>1, <1>2

\* What expires leaves an object.
LEMMA AdvanceFacts ==
    ASSUME NEW o, ObjectOK(o), NEW expired
    PROVE  /\ EndpointTargets(Trim(o.endpoints, expired)) = EndpointTargets(o.endpoints) \ expired
           /\ BagToSet(Trim(o.endpoints, expired)) \subseteq Endpoint
           /\ Trim(o.endpoints, expired) = EmptyBag <=> EndpointTargets(o.endpoints) \subseteq expired
<1> DEFINE trim(e) == [e EXCEPT !.targets = {a \in @ : <<e.key, a>> \notin expired}]
           trimmed == BagOfAll(trim, o.endpoints)
           t == Trim(o.endpoints, expired)
<1>1. \A e \in BagToSet(o.endpoints) :
          /\ e \in Endpoint
          /\ trim(e) \in Endpoint /\ trim(e).key = e.key
          /\ trim(e).targets = {a \in e.targets : <<e.key, a>> \notin expired}
  <2> SUFFICES ASSUME NEW e \in BagToSet(o.endpoints)
               PROVE  /\ e \in Endpoint
                      /\ trim(e) \in Endpoint /\ trim(e).key = e.key
                      /\ trim(e).targets = {a \in e.targets : <<e.key, a>> \notin expired}
    OBVIOUS
  <2>1. e \in Endpoint
    BY ObjectFacts
  <2>2. e.targets \subseteq Addresses
    BY <2>1 DEF Endpoint
  <2>3. trim(e) = [e EXCEPT !.targets = {a \in e.targets : <<e.key, a>> \notin expired}]
    OBVIOUS
  <2> HIDE DEF trim
  <2>4. QED BY <2>1, <2>2, <2>3 DEF Endpoint
<1>2. BagToSet(trimmed) = {trim(e) : e \in BagToSet(o.endpoints)}
  BY DEF BagToSet, BagOfAll
<1>3. t = [e \in {e \in BagToSet(trimmed) : e.targets # {}} |-> trimmed[e]]
  BY DEF Trim
<1> HIDE DEF trim, trimmed, t
<1>4. BagToSet(t) = {e \in BagToSet(trimmed) : e.targets # {}}
  BY <1>3 DEF BagToSet
<1>5. BagToSet(t) \subseteq Endpoint
  BY <1>1, <1>2, <1>4
<1>6. ASSUME NEW x \in EndpointTargets(t) PROVE x \in EndpointTargets(o.endpoints) \ expired
  <2>1. PICK d \in BagToSet(t) : \E a \in d.targets : x = <<d.key, a>>
    BY DEF EndpointTargets
  <2>2. PICK e \in BagToSet(o.endpoints) : d = trim(e)
    BY <1>2, <1>4, <2>1
  <2>3. PICK a \in e.targets : x = <<e.key, a>> /\ <<e.key, a>> \notin expired
    BY <1>1, <2>1, <2>2
  <2>4. QED BY <2>3 DEF EndpointTargets
<1>7. ASSUME NEW x \in EndpointTargets(o.endpoints) \ expired PROVE x \in EndpointTargets(t)
  <2>1. PICK e \in BagToSet(o.endpoints) : \E a \in e.targets : x = <<e.key, a>>
    BY DEF EndpointTargets
  <2>2. PICK a \in e.targets : x = <<e.key, a>>
    BY <2>1
  <2>3. a \in trim(e).targets /\ trim(e).key = e.key
    BY <1>1, <2>1, <2>2
  <2>4. trim(e) \in BagToSet(t)
    BY <1>2, <1>4, <2>1, <2>3
  <2>5. QED BY <2>2, <2>3, <2>4 DEF EndpointTargets
<1>8. t = EmptyBag <=> BagToSet(t) = {}
  BY <1>3 DEF EmptyBag, SetToBag, BagToSet
<1>9. BagToSet(t) = {} <=> EndpointTargets(t) = {}
  <2>1. ASSUME NEW e \in BagToSet(t) PROVE EndpointTargets(t) # {}
    <3>1. PICK a \in e.targets : TRUE
      BY <1>4
    <3>2. <<e.key, a>> \in EndpointTargets(t)
      BY <3>1 DEF EndpointTargets
    <3>3. QED BY <3>2
  <2>2. QED BY <2>1 DEF EndpointTargets
<1>10. EndpointTargets(t) = EndpointTargets(o.endpoints) \ expired
  BY <1>6, <1>7
<1>11. t = EmptyBag <=> EndpointTargets(o.endpoints) \subseteq expired
  BY <1>8, <1>9, <1>10
<1>12. QED BY <1>5, <1>10, <1>11 DEF t

-----------------------------------------------------------------------------
(***************************************************************************)
(* Types.                                                                   *)
(***************************************************************************)

LEMMA ObjectType == TypeOK => ObjectOK(object) /\ clock \in Nat /\ edits \in Nat
BY DEF TypeOK, ObjectOK

LEMMA KeepsType ==
    ASSUME NEW b, ObjectOK(b), object' = b, clock' \in Nat, edits' \in Nat
    PROVE  TypeOK'
BY DEF TypeOK, ObjectOK

LEMMA StepType ==
    ASSUME TypeOK, [Next]_vars
    PROVE  TypeOK'
<1>1. ObjectOK(object) /\ clock \in Nat /\ edits \in Nat
  BY ObjectType
<1>2. ASSUME NEW pub \in AllPublications, Apply(pub) PROVE TypeOK'
  <2>1. PICK b \in Build(object, pub, clock) : object' = b
    BY <1>2 DEF Apply
  <2>2. ObjectOK(b)
    BY <1>1, BuildType
  <2>3. clock' = clock /\ edits' = edits
    BY <1>2 DEF Apply
  <2>4. QED BY <1>1, <2>1, <2>2, <2>3, KeepsType
<1>3. ASSUME Advance PROVE TypeOK'
  <2>1. object.exists /\ clock' = clock /\ edits' = edits
    BY <1>3 DEF Advance
  <2>2. PICK expired : expired = Expired(object, clock)
    OBVIOUS
  <2>3. PICK endpoints : endpoints = Trim(object.endpoints, expired)
    OBVIOUS
  <2>4. object' = IF endpoints = EmptyBag THEN Absent
                  ELSE [object EXCEPT !.endpoints = endpoints,
                                      !.deadline = [x \in TargetKeys |->
                                          IF x \in expired THEN NotPending ELSE object.deadline[x]]]
    BY <1>3, <2>2, <2>3 DEF Advance
  <2>5. CASE endpoints = EmptyBag
    BY <1>1, <2>1, <2>4, <2>5, KeepsType DEF ObjectOK
  <2>6. CASE endpoints # EmptyBag
    <3>1. BagToSet(endpoints) \subseteq Endpoint
      BY <1>1, <2>3, AdvanceFacts
    <3>2. PICK deadline : deadline = [x \in TargetKeys |-> IF x \in expired THEN NotPending ELSE object.deadline[x]]
      OBVIOUS
    <3>3. deadline \in [TargetKeys -> Nat \cup {NotPending}]
      <4>1. object.deadline \in [TargetKeys -> Nat \cup {NotPending}]
        BY <1>1, ObjectFacts
      <4>2. QED BY <3>2, <4>1
    <3>4. PICK b : b = [object EXCEPT !.endpoints = endpoints, !.deadline = deadline]
      OBVIOUS
    <3>5. object # Absent
      BY <2>1 DEF Absent
    <3>6. b \in [exists : {TRUE}, endpoints : {endpoints},
                 deadline : [TargetKeys -> Nat \cup {NotPending}],
                 delay : Nat, annotations : Annotations, owned : BOOLEAN]
      BY <1>1, <3>3, <3>4, <3>5 DEF ObjectOK
    <3>7. ObjectOK(b)
      BY <3>1, <3>6 DEF ObjectOK
    <3>8. object' = b
      BY <2>4, <2>6, <3>2, <3>4
    <3>9. QED BY <1>1, <2>1, <3>7, <3>8, KeepsType
  <2>7. QED BY <2>5, <2>6
<1>4. ASSUME NEW endpoints, object.exists, BagToSet(endpoints) \subseteq Endpoint,
             Edited([object EXCEPT !.endpoints = endpoints])
      PROVE  TypeOK'
  <2>1. PICK b : b = [object EXCEPT !.endpoints = endpoints]
    OBVIOUS
  <2>2. object # Absent
    BY <1>4 DEF Absent
  <2>3. b \in [exists : {TRUE}, endpoints : {endpoints},
               deadline : [TargetKeys -> Nat \cup {NotPending}],
               delay : Nat, annotations : Annotations, owned : BOOLEAN]
    BY <1>1, <2>1, <2>2 DEF ObjectOK
  <2>4. ObjectOK(b)
    BY <1>4, <2>3 DEF ObjectOK
  <2>5. object' = b /\ clock' = clock /\ edits' = edits + 1
    BY <1>4, <2>1 DEF Edited
  <2>6. QED BY <1>1, <2>4, <2>5, KeepsType
<1>5. ASSUME NEW e \in Endpoint, AddEndpoint(e) PROVE TypeOK'
  <2>1. PICK endpoints : endpoints = object.endpoints (+) SetToBag({e})
    OBVIOUS
  <2>2. BagToSet(endpoints) = BagToSet(object.endpoints) \cup {e}
    BY <2>1 DEF (+), BagToSet, SetToBag
  <2>3. BagToSet(endpoints) \subseteq Endpoint
    BY <1>1, <2>2, ObjectFacts
  <2>4. object.exists /\ Edited([object EXCEPT !.endpoints = endpoints])
    BY <1>5, <2>1 DEF AddEndpoint
  <2>5. QED BY <1>4, <2>3, <2>4
<1>6. ASSUME RemoveEndpoint PROVE TypeOK'
  <2>1. PICK e \in BagToSet(object.endpoints) :
            Edited([object EXCEPT !.endpoints = object.endpoints (-) SetToBag({e})])
    BY <1>6 DEF RemoveEndpoint
  <2>2. PICK endpoints : endpoints = object.endpoints (-) SetToBag({e})
    OBVIOUS
  <2>3. BagToSet(endpoints) \subseteq BagToSet(object.endpoints)
    BY <2>2 DEF (-), BagToSet, SetToBag
  <2>4. BagToSet(endpoints) \subseteq Endpoint
    BY <1>1, <2>3, ObjectFacts
  <2>5. object.exists
    BY <1>6 DEF RemoveEndpoint
  <2>6. QED BY <1>4, <2>1, <2>2, <2>4, <2>5
<1>7. ASSUME EditMetadata PROVE TypeOK'
  <2>1. PICK a \in Annotations, owned \in BOOLEAN :
            Edited([object EXCEPT !.annotations = a, !.owned = owned])
    BY <1>7 DEF EditMetadata
  <2>2. PICK b : b = [object EXCEPT !.annotations = a, !.owned = owned]
    OBVIOUS
  <2>3. object # Absent
    BY <1>7 DEF EditMetadata, Absent
  <2>4. b \in [exists : {TRUE}, endpoints : {object.endpoints},
               deadline : [TargetKeys -> Nat \cup {NotPending}],
               delay : Nat, annotations : Annotations, owned : BOOLEAN]
    BY <1>1, <2>2, <2>3 DEF ObjectOK
  <2>5. ObjectOK(b)
    <3>1. b.endpoints = object.endpoints
      BY <2>4
    <3>2. BagToSet(object.endpoints) \subseteq Endpoint
      BY <1>1, ObjectFacts
    <3>3. QED BY <2>4, <3>1, <3>2 DEF ObjectOK
  <2>6. object' = b /\ clock' = clock /\ edits' = edits + 1
    BY <2>1, <2>2 DEF Edited
  <2>7. QED BY <1>1, <2>5, <2>6, KeepsType
<1>8. ASSUME Tick PROVE TypeOK'
  <2>1. PICK b : b = object
    OBVIOUS
  <2>2. object' = b /\ clock' = clock + 1 /\ edits' = edits
    BY <1>8, <2>1 DEF Tick
  <2>3. QED BY <1>1, <2>1, <2>2, KeepsType
<1>9. CASE UNCHANGED vars
  BY <1>9 DEF vars, TypeOK
<1>10. QED BY <1>2, <1>3, <1>5, <1>6, <1>7, <1>8, <1>9 DEF Next, AllPublications

LEMMA Typed == Spec => []TypeOK
<1>1. Init => TypeOK
  BY DEF Init, TypeOK
<1>2. TypeOK /\ [Next]_vars => TypeOK'
  BY StepType
<1>3. QED BY <1>1, <1>2, PTL DEF Spec

-----------------------------------------------------------------------------
(***************************************************************************)
(* What build and Advance do to the target keys is what DNSEndpointWriter   *)
(* says.                                                                    *)
(***************************************************************************)

LEMMA AbstractFacts ==
    ASSUME NEW o, ObjectOK(o)
    PROVE  /\ Abstract(o).spec = EndpointTargets(o.endpoints)
           /\ Abstract(o).deadline = o.deadline
           /\ Abstract(o).delay = o.delay
           /\ Writer!Exists(Abstract(o)) <=> o.exists
           /\ ~o.exists => Abstract(o) = Writer!Absent
           /\ o.exists => Abstract(o) = [exists |-> TRUE, flaws |-> {}, spec |-> EndpointTargets(o.endpoints),
                                         deadline |-> o.deadline, delay |-> o.delay, uid |-> 1]
<1>1. CASE o.exists
  BY <1>1 DEF Abstract, Writer!Exists
<1>2. CASE ~o.exists
  <2>1. o = Absent /\ Abstract(o) = Writer!Absent
    BY <1>2, ObjectFacts DEF Abstract
  <2>2. /\ Abstract(o).spec = {} /\ Abstract(o).deadline = [x \in TargetKeys |-> NotPending]
        /\ Abstract(o).delay = 0 /\ ~Abstract(o).exists /\ Abstract(o).flaws = {}
    <3>1. /\ Writer!Absent.spec = {} /\ Writer!Absent.delay = 0 /\ ~Writer!Absent.exists /\ Writer!Absent.flaws = {}
          /\ Writer!Absent.deadline = [x \in TargetKeys |-> Writer!NotPending]
      BY DEF Writer!Absent
    <3>2. QED BY <2>1, <3>1 DEF Writer!NotPending, NotPending
  <2>3. EndpointTargets(o.endpoints) = {} /\ o.deadline = [x \in TargetKeys |-> NotPending] /\ o.delay = 0
    BY <2>1, AbsentFacts
  <2>4. QED BY <1>2, <2>1, <2>2, <2>3 DEF Writer!Exists
<1>3. QED BY <1>1, <1>2

LEMMA BuildRefines ==
    ASSUME NEW o, ObjectOK(o), NEW pub \in AllPublications, NEW time \in Nat, NEW b \in Build(o, pub, time)
    PROVE  Abstract(b) = Writer!Build(Abstract(o), AbstractPublication(pub), 1, time)
<1>1. PICK A : A = Abstract(o)
  OBVIOUS
<1>2. PICK P : P = AbstractPublication(pub)
  OBVIOUS
<1>3. P.targets = RecordTargets(pub.records) /\ P.delay = pub.delay
  BY <1>2 DEF AbstractPublication
<1>4. /\ A.spec = EndpointTargets(o.endpoints) /\ A.deadline = o.deadline /\ A.delay = o.delay
      /\ Writer!Exists(A) <=> o.exists
  BY <1>1, AbstractFacts
<1>5. ASSUME NEW x \in TargetKeys PROVE Writer!RetireAt(A, P, time, x) = RetireAt(o, pub, time, x)
  <2>1. CASE o.deadline[x] # NotPending
    BY <1>4, <2>1 DEF Writer!RetireAt, RetireAt, Writer!NotPending, NotPending
  <2>2. CASE o.deadline[x] = NotPending /\ o.exists
    BY <1>4, <2>2 DEF Writer!RetireAt, RetireAt, Writer!NotPending, NotPending, Writer!StoredDelay
  <2>3. CASE o.deadline[x] = NotPending /\ ~o.exists
    BY <1>3, <1>4, <2>3 DEF Writer!RetireAt, RetireAt, Writer!NotPending, NotPending, Writer!StoredDelay
  <2>4. QED BY <2>1, <2>2, <2>3
<1>6. PICK pending : pending = Pending(o, pub, time)
  OBVIOUS
<1>7. {x \in TargetKeys : Writer!Kept(A, P, time, x)} = pending
  <2>1. pending \subseteq TargetKeys
    BY <1>6, PendingFacts
  <2>2. \A x \in TargetKeys : Writer!Kept(A, P, time, x) <=> x \in pending
    BY <1>3, <1>4, <1>5, <1>6 DEF Writer!Kept, Pending
  <2>3. QED BY <2>1, <2>2
<1>8. Writer!Build(A, P, 1, time) =
          IF P.targets \cup pending = {} THEN Writer!Absent
          ELSE [exists |-> TRUE, flaws |-> {}, spec |-> P.targets \cup pending,
                deadline |-> [x \in TargetKeys |->
                                 IF x \in pending THEN Writer!RetireAt(A, P, time, x) ELSE Writer!NotPending],
                delay |-> IF P.targets # {} THEN P.delay ELSE A.delay,
                uid |-> 1]
  <2>1. (IF 1 # 0 THEN 1 ELSE A.uid) = 1
    OBVIOUS
  <2>2. QED BY <1>7, <2>1, Zenon DEF Writer!Build
<1>9. P.targets = {} <=> DOMAIN pub.records = {}
  BY <1>3, RecordTargetFacts
<1>10. CASE Empty(o, pub, time)
  <2>1. b = Absent
    BY <1>10, BuildIs
  <2>2. Abstract(b) = Writer!Absent
    BY <2>1, AbsentFacts DEF Abstract
  <2>3. P.targets \cup pending = {}
    BY <1>6, <1>9, <1>10 DEF Empty
  <2>4. QED BY <1>1, <1>2, <1>8, <2>2, <2>3
<1>11. CASE ~Empty(o, pub, time)
  <2>1. PICK endpoints \in CombineRecords(o, pub, pending) : b = Built(o, pub, time, endpoints)
    BY <1>6, <1>11, BuildIs
  <2>2. EndpointTargets(endpoints) = P.targets \cup pending
    BY <1>3, <1>6, <2>1, PendingFacts, CombinedTargets
  <2>3. P.targets \cup pending # {}
    BY <1>6, <1>9, <1>11 DEF Empty
  <2>4. [x \in TargetKeys |-> IF x \in pending THEN Writer!RetireAt(A, P, time, x) ELSE Writer!NotPending]
            = [x \in TargetKeys |-> IF x \in pending THEN RetireAt(o, pub, time, x) ELSE NotPending]
    BY <1>5 DEF Writer!NotPending, NotPending
  <2>5. /\ b.exists = TRUE /\ b.endpoints = endpoints
        /\ b.deadline = [x \in TargetKeys |-> IF x \in pending THEN RetireAt(o, pub, time, x) ELSE NotPending]
        /\ b.delay = IF DOMAIN pub.records # {} THEN pub.delay ELSE o.delay
    BY <1>6, <2>1 DEF Built
  <2>6. Abstract(b) = [exists |-> TRUE, flaws |-> {}, spec |-> EndpointTargets(b.endpoints), deadline |-> b.deadline,
                       delay |-> b.delay, uid |-> 1]
    BY <2>5 DEF Abstract
  <2>7. QED BY <1>1, <1>2, <1>3, <1>4, <1>8, <1>9, <2>2, <2>3, <2>4, <2>5, <2>6
<1>12. QED BY <1>10, <1>11

LEMMA AcceptedRefines ==
    ASSUME NEW o, ObjectOK(o)
    PROVE  Accepted(o) <=> Writer!Valid(Abstract(o))
<1>1. CASE ~o.exists
  <2>1. o = Absent /\ PendingKeys(o) = {} /\ Abstract(o) = Writer!Absent
    BY <1>1, ObjectFacts, AbsentFacts, AbstractFacts
  <2>2. Accepted(o)
    BY <2>1 DEF Accepted
  <2>3. Writer!Absent.flaws = {} /\ Writer!Pending(Writer!Absent) = {}
    BY DEF Writer!Absent, Writer!Pending
  <2>4. QED BY <2>1, <2>2, <2>3 DEF Writer!Valid
<1>2. CASE o.exists
  <2>1. PICK A : A = Abstract(o)
    OBVIOUS
  <2>2. A.exists /\ A.flaws = {} /\ A.spec = EndpointTargets(o.endpoints) /\ A.deadline = o.deadline
    BY <1>2, <2>1 DEF Abstract
  <2>3. Writer!Pending(A) = PendingKeys(o)
    BY <2>2 DEF Writer!Pending, PendingKeys, Writer!NotPending, NotPending
  <2>4. Writer!Valid(A) <=> Accepted(o)
    BY <2>2, <2>3 DEF Writer!Valid, Accepted
  <2>5. QED BY <1>2, <2>1, <2>4
<1>3. QED BY <1>1, <1>2

\* build refuses the same objects as DNSEndpointWriter and computes the same
\* target keys, deadlines and delay from the ones it accepts, whatever users
\* did to their endpoints: on this rests the use of target keys in LabDNS.
THEOREM BuildIsWriter == Spec => []RefinesWriter
<1>1. TypeOK => RefinesWriter
  <2> SUFFICES ASSUME TypeOK PROVE RefinesWriter
    OBVIOUS
  <2>1. ObjectOK(object) /\ clock \in Nat
    BY ObjectType
  <2>2. Accepted(object) <=> Writer!Valid(Abstract(object))
    BY <2>1, AcceptedRefines
  <2>3. \A pub \in AllPublications : \A o \in Build(object, pub, clock) :
            Abstract(o) = Writer!Build(Abstract(object), AbstractPublication(pub), 1, clock)
    BY <2>1, BuildRefines
  <2>4. QED BY <2>2, <2>3 DEF RefinesWriter
<1>2. QED BY <1>1, Typed, PTL

\* An Advance, in terms of what has expired.
LEMMA AdvanceStep ==
    ASSUME TypeOK, Advance
    PROVE  /\ ObjectOK(object) /\ object.exists
           /\ EndpointTargets(object.endpoints) \subseteq Expired(object, clock) => object' = Absent
           /\ ~(EndpointTargets(object.endpoints) \subseteq Expired(object, clock)) =>
                 object' = [object EXCEPT !.endpoints = Trim(object.endpoints, Expired(object, clock)),
                                          !.deadline = [x \in TargetKeys |->
                                              IF x \in Expired(object, clock) THEN NotPending
                                                                              ELSE object.deadline[x]]]
<1>1. ObjectOK(object) /\ object.exists
  BY ObjectType DEF Advance
<1>2. PICK expired : expired = Expired(object, clock)
  OBVIOUS
<1>3. PICK endpoints : endpoints = Trim(object.endpoints, expired)
  OBVIOUS
<1>4. object' = IF endpoints = EmptyBag THEN Absent
                ELSE [object EXCEPT !.endpoints = endpoints,
                                    !.deadline = [x \in TargetKeys |->
                                        IF x \in expired THEN NotPending ELSE object.deadline[x]]]
  BY <1>2, <1>3 DEF Advance
<1>5. endpoints = EmptyBag <=> EndpointTargets(object.endpoints) \subseteq expired
  BY <1>1, <1>3, AdvanceFacts
<1>6. QED BY <1>1, <1>2, <1>3, <1>4, <1>5

\* Advance removes from the endpoints what DNSEndpointWriter removes from the
\* target keys, and deletes the object in the same cases, whatever copies or
\* empty endpoints users have added.
THEOREM AdvanceIsWriter == Spec => RefinesAdvance
<1>1. TypeOK /\ [Next]_vars =>
        [Advance => Abstract(object') = Writer!Advanced(Abstract(object), clock)]_vars
  <2> SUFFICES ASSUME TypeOK, Advance
               PROVE  Abstract(object') = Writer!Advanced(Abstract(object), clock)
    OBVIOUS
  <2>1. PICK o : o = object
    OBVIOUS
  <2>2. PICK expired : expired = Expired(o, clock)
    OBVIOUS
  <2>3. ObjectOK(o) /\ o.exists
    BY <2>1, AdvanceStep
  <2>4. PICK A : A = Abstract(o)
    OBVIOUS
  <2>5. A = [exists |-> TRUE, flaws |-> {}, spec |-> EndpointTargets(o.endpoints), deadline |-> o.deadline,
             delay |-> o.delay, uid |-> 1]
    BY <2>3, <2>4 DEF Abstract
  <2>6. Writer!Expired(A, clock) = expired
    BY <2>2, <2>5 DEF Writer!Expired, Writer!Pending, Expired, PendingKeys, Writer!NotPending, NotPending
  <2>7. CASE EndpointTargets(o.endpoints) \subseteq expired
    <3>1. object' = Absent
      BY <2>1, <2>2, <2>7, AdvanceStep
    <3>2. Abstract(object') = Writer!Absent
      BY <3>1, AbsentFacts DEF Abstract
    <3>3. Writer!Advanced(A, clock) = Writer!Absent
      BY <2>5, <2>6, <2>7 DEF Writer!Advanced
    <3>4. QED BY <2>1, <2>4, <3>2, <3>3
  <2>8. CASE ~(EndpointTargets(o.endpoints) \subseteq expired)
    <3>1. PICK endpoints : endpoints = Trim(o.endpoints, expired)
      OBVIOUS
    <3>2. PICK deadline : deadline = [x \in TargetKeys |-> IF x \in expired THEN NotPending ELSE o.deadline[x]]
      OBVIOUS
    <3>3. PICK b : b = [o EXCEPT !.endpoints = endpoints, !.deadline = deadline]
      OBVIOUS
    <3>4. object' = b
      BY <2>1, <2>2, <2>8, <3>1, <3>2, <3>3, AdvanceStep
    <3>5. b.exists /\ b.endpoints = endpoints /\ b.deadline = deadline /\ b.delay = o.delay
      <4>1. o # Absent
        BY <2>3 DEF Absent
      <4>2. QED BY <2>3, <3>3, <4>1 DEF ObjectOK
    <3>6. EndpointTargets(endpoints) = EndpointTargets(o.endpoints) \ expired
      BY <2>3, <3>1, AdvanceFacts
    <3>7. Abstract(b) = [exists |-> TRUE, flaws |-> {}, spec |-> EndpointTargets(o.endpoints) \ expired,
                         deadline |-> deadline, delay |-> o.delay, uid |-> 1]
      BY <3>5, <3>6 DEF Abstract
    <3>8. Writer!Advanced(A, clock) =
              [A EXCEPT !.spec = A.spec \ expired,
                        !.deadline = [x \in TargetKeys |-> IF x \in expired THEN Writer!NotPending ELSE A.deadline[x]]]
      BY <2>5, <2>6, <2>8 DEF Writer!Advanced
    <3>9. [x \in TargetKeys |-> IF x \in expired THEN Writer!NotPending ELSE A.deadline[x]] = deadline
      BY <2>5, <3>2 DEF Writer!NotPending, NotPending
    <3>10. Writer!Advanced(A, clock) = Abstract(b)
      BY <2>5, <3>7, <3>8, <3>9
    <3>11. QED BY <2>1, <2>4, <3>4, <3>10
  <2>9. QED BY <2>7, <2>8
<1>2. QED BY <1>1, Typed, PTL DEF Spec, RefinesAdvance

\* The active targets of an object are those its endpoints hold and no
\* deadline names.
LEMMA ActiveIs ==
    ASSUME NEW o, ObjectOK(o)
    PROVE  ActiveTargets(o) = EndpointTargets(o.endpoints) \ PendingKeys(o)
<1>1. \A e \in BagToSet(o.endpoints) : e.key \in RecordKeys /\ e.targets \subseteq Addresses
  BY ObjectFacts DEF Endpoint
<1>2. ASSUME NEW e \in BagToSet(o.endpoints), NEW a \in e.targets
      PROVE  a \in RetiringOf(o, e) <=> <<e.key, a>> \in PendingKeys(o)
  BY <1>1 DEF RetiringOf, Retiring
<1>3. ASSUME NEW x \in ActiveTargets(o) PROVE x \in EndpointTargets(o.endpoints) \ PendingKeys(o)
  <2>1. PICK e \in BagToSet(o.endpoints) : \E a \in e.targets \ RetiringOf(o, e) : x = <<e.key, a>>
    BY DEF ActiveTargets
  <2>2. PICK a \in e.targets \ RetiringOf(o, e) : x = <<e.key, a>>
    BY <2>1
  <2>3. x \in EndpointTargets(o.endpoints)
    BY <2>2 DEF EndpointTargets
  <2>4. QED BY <1>2, <2>2, <2>3
<1>4. ASSUME NEW x \in EndpointTargets(o.endpoints) \ PendingKeys(o) PROVE x \in ActiveTargets(o)
  <2>1. PICK e \in BagToSet(o.endpoints) : \E a \in e.targets : x = <<e.key, a>>
    BY DEF EndpointTargets
  <2>2. PICK a \in e.targets : x = <<e.key, a>>
    BY <2>1
  <2>3. a \notin RetiringOf(o, e)
    BY <1>2, <2>2
  <2>4. QED BY <2>2, <2>3 DEF ActiveTargets
<1>5. QED BY <1>3, <1>4

\* What the CLI lists as active, no expiry touches.
THEOREM ActiveStays == Spec => ActiveSurvives
<1>1. TypeOK /\ TypeOK' /\ [Next]_vars => [Advance => ActiveTargets(object') = ActiveTargets(object)]_vars
  <2> SUFFICES ASSUME TypeOK, TypeOK', Advance PROVE ActiveTargets(object') = ActiveTargets(object)
    OBVIOUS
  <2>1. PICK o : o = object
    OBVIOUS
  <2>2. PICK b : b = object'
    OBVIOUS
  <2>3. ObjectOK(o) /\ o.exists
    BY <2>1, AdvanceStep
  <2>4. ObjectOK(b)
    BY <2>2 DEF TypeOK, ObjectOK
  <2>5. PICK expired : expired = Expired(o, clock)
    OBVIOUS
  <2>6. expired \subseteq PendingKeys(o)
    BY <2>5 DEF Expired
  <2>7. CASE EndpointTargets(o.endpoints) \subseteq expired
    <3>1. b = Absent
      BY <2>1, <2>2, <2>5, <2>7, AdvanceStep
    <3>2. ActiveTargets(b) = {}
      BY <2>4, <3>1, AbsentFacts, ActiveIs
    <3>3. ActiveTargets(o) = {}
      BY <2>3, <2>6, <2>7, ActiveIs
    <3>4. QED BY <2>1, <2>2, <3>2, <3>3
  <2>8. CASE ~(EndpointTargets(o.endpoints) \subseteq expired)
    <3>1. PICK deadline : deadline = [x \in TargetKeys |-> IF x \in expired THEN NotPending ELSE o.deadline[x]]
      OBVIOUS
    <3>2. b = [o EXCEPT !.endpoints = Trim(o.endpoints, expired), !.deadline = deadline]
      BY <2>1, <2>2, <2>5, <2>8, <3>1, AdvanceStep
    <3>3. b.endpoints = Trim(o.endpoints, expired) /\ b.deadline = deadline
      <4>1. o # Absent
        BY <2>3 DEF Absent
      <4>2. QED BY <2>3, <3>2, <4>1 DEF ObjectOK
    <3>4. EndpointTargets(b.endpoints) = EndpointTargets(o.endpoints) \ expired
      BY <2>3, <3>3, AdvanceFacts
    <3>5. PendingKeys(b) = PendingKeys(o) \ expired
      BY <3>1, <3>3 DEF PendingKeys
    <3>6. ActiveTargets(b) = ActiveTargets(o)
      BY <2>3, <2>4, <2>6, <3>4, <3>5, ActiveIs
    <3>7. QED BY <2>1, <2>2, <3>6
  <2>9. QED BY <2>7, <2>8
<1>2. QED BY <1>1, Typed, PTL DEF Spec, ActiveSurvives

-----------------------------------------------------------------------------
(***************************************************************************)
(* A second Apply of a publication.                                         *)
(***************************************************************************)

\* What was written leaves the next Apply no choice of TTLs.
LEMMA ChoiceMade ==
    ASSUME NEW o, NEW b, NEW pub, NEW pending, NEW ttl \in Choices(o, pub, pending),
           b.endpoints = BagOf(pub, pending, ttl)
    PROVE  Choices(b, pub, pending) = {ttl}
<1>1. /\ ttl \in [KeysOf(pub, pending) -> TTLs]
      /\ \A k \in KeysOf(pub, pending) : ttl[k] \in TTLsOf(o, pub, k)
  BY DEF Choices
<1>2. BagToSet(b.endpoints) = {RecordOf(pub, pending, ttl, k) : k \in KeysOf(pub, pending)}
  BY DEF BagToSet, SetToBag, BagOf
<1>3. ASSUME NEW k \in KeysOf(pub, pending) PROVE TTLsOf(b, pub, k) = {ttl[k]}
  <2>1. CASE k \in DOMAIN pub.records
    BY <1>1, <2>1 DEF TTLsOf
  <2>2. CASE k \notin DOMAIN pub.records
    <3>1. PICK e : e = RecordOf(pub, pending, ttl, k)
      OBVIOUS
    <3>2. e \in BagToSet(b.endpoints) /\ e.key = k /\ e.ttl = ttl[k]
      BY <1>2, <3>1 DEF RecordOf
    <3>3. ASSUME NEW d \in BagToSet(b.endpoints), d.key = k PROVE d.ttl = ttl[k]
      BY <1>2, <3>3 DEF RecordOf
    <3>4. TTLsOf(b, pub, k) = {d.ttl : d \in {d \in BagToSet(b.endpoints) : d.key = k}}
      BY <2>2 DEF TTLsOf
    <3>5. QED BY <3>2, <3>3, <3>4
  <2>3. QED BY <2>1, <2>2
<1>4. ttl \in Choices(b, pub, pending)
  BY <1>1, <1>3 DEF Choices
<1>5. ASSUME NEW f \in Choices(b, pub, pending) PROVE f = ttl
  <2>1. f \in [KeysOf(pub, pending) -> TTLs] /\ \A k \in KeysOf(pub, pending) : f[k] = ttl[k]
    BY <1>3 DEF Choices
  <2>2. QED BY <1>1, <2>1
<1>6. QED BY <1>4, <1>5

LEMMA BuildAgain ==
    ASSUME NEW o, ObjectOK(o), NEW pub \in AllPublications, NEW time \in Nat, NEW b \in Build(o, pub, time),
           NEW later \in Nat, Expired(b, later) = {}
    PROVE  Build(b, pub, later) = {b}
<1>1. CASE Empty(o, pub, time)
  <2>1. b = Absent
    BY <1>1, BuildIs
  <2>2. Pending(b, pub, later) = {}
    BY <2>1, AbsentFacts DEF Pending
  <2>3. Empty(b, pub, later)
    BY <1>1, <2>2 DEF Empty
  <2>4. QED BY <2>1, <2>3, BuildIs
<1>2. CASE ~Empty(o, pub, time)
  <2>1. PICK pending : pending = Pending(o, pub, time)
    OBVIOUS
  <2>2. PICK endpoints \in CombineRecords(o, pub, pending) : b = Built(o, pub, time, endpoints)
    BY <1>2, <2>1, BuildIs
  <2>3. PICK ttl \in Choices(o, pub, pending) : endpoints = BagOf(pub, pending, ttl)
    BY <2>2, Combined
  <2>4. b.endpoints = endpoints /\ b.exists = TRUE /\ b.owned = FALSE
    BY <2>2 DEF Built
  <2>5. /\ b.delay = IF DOMAIN pub.records # {} THEN pub.delay ELSE o.delay
        /\ b.annotations = IF DOMAIN pub.records # {} THEN pub.annotations ELSE o.annotations
    BY <2>2 DEF Built
  <2>6. b.deadline = [x \in TargetKeys |-> IF x \in pending THEN RetireAt(o, pub, time, x) ELSE NotPending]
    BY <2>1, <2>2 DEF Built
  <2>7. /\ pending \subseteq TargetKeys /\ pending \cap RecordTargets(pub.records) = {}
        /\ \A x \in TargetKeys : RetireAt(o, pub, time, x) \in Nat
    BY <2>1, PendingFacts DEF Pending
  <2>8. ASSUME NEW x \in pending
        PROVE  /\ b.deadline[x] # NotPending /\ RetireAt(b, pub, later, x) = b.deadline[x]
               /\ RetireAt(b, pub, later, x) > later
    <3>1. x \in TargetKeys /\ b.deadline[x] \in Nat
      BY <2>6, <2>7
    <3>2. b.deadline[x] # NotPending
      BY <3>1 DEF NotPending
    <3>3. RetireAt(b, pub, later, x) = b.deadline[x]
      BY <3>2 DEF RetireAt
    <3>4. ~(b.deadline[x] <= later)
      BY <3>1, <3>2 DEF Expired, PendingKeys
    <3>5. QED BY <3>1, <3>2, <3>3, <3>4
  <2>9. EndpointTargets(b.endpoints) = RecordTargets(pub.records) \cup pending
    BY <2>2, <2>4, <2>7, CombinedTargets
  <2>10. Pending(b, pub, later) = pending
    BY <2>7, <2>8, <2>9 DEF Pending
  <2>11. ~Empty(b, pub, later)
    BY <1>2, <2>1, <2>10 DEF Empty
  <2>12. CombineRecords(b, pub, pending) = {endpoints}
    <3>1. Choices(b, pub, pending) = {ttl}
      BY <2>3, <2>4, ChoiceMade
    <3>2. QED BY <2>3, <3>1, Combined
  <2>13. Built(b, pub, later, endpoints) = b
    <3>1. [x \in TargetKeys |-> IF x \in pending THEN RetireAt(b, pub, later, x) ELSE NotPending]
              = b.deadline
      BY <2>6, <2>8
    <3>2. Built(b, pub, later, endpoints) =
              [exists |-> TRUE, endpoints |-> endpoints, deadline |-> b.deadline,
               delay |-> b.delay, annotations |-> b.annotations, owned |-> FALSE]
      BY <2>5, <2>10, <3>1 DEF Built
    <3>3. b = [exists |-> b.exists, endpoints |-> b.endpoints, deadline |-> b.deadline,
               delay |-> b.delay, annotations |-> b.annotations, owned |-> b.owned]
      BY <2>2 DEF Built
    <3>4. QED BY <2>4, <3>2, <3>3
  <2>14. QED BY <2>10, <2>11, <2>12, <2>13, BuildIs
<1>3. QED BY <1>1, <1>2

\* Until a deadline passes, a second Apply of a publication finds the object as
\* it would write it, however the records of the first were assembled: a write
\* and the event it causes never feed each other.
THEOREM WritesSettle == Spec => []Settles
<1>1. TypeOK => Settles
  <2> SUFFICES ASSUME TypeOK, NEW pub \in AllPublications, NEW o \in Build(object, pub, clock),
                      NEW time \in clock .. MaxTime, Expired(o, time) = {}
               PROVE  Build(o, pub, time) = {o}
    BY DEF Settles
  <2>1. ObjectOK(object) /\ clock \in Nat
    BY ObjectType
  <2>2. time \in Nat
    BY <2>1, RecordsAssumption
  <2>3. QED BY <2>1, <2>2, BuildAgain
<1>2. QED BY <1>1, Typed, PTL
==============================================================================
