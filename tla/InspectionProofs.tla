--------------------------- MODULE InspectionProofs ---------------------------
(***************************************************************************)
(* Proofs about `labdns status`, for any Gateway API resources, any         *)
(* arguments of the manager and any changes of the cluster while it reads.  *)
(***************************************************************************)
EXTENDS Inspection, FiniteSetTheorems, SequenceTheorems, WellFoundedInduction, TLAPS

AllReads == Resources \cup {"controllers", "providers", "records"}

Unavailable(x) == <<"unavailable", x>>

-----------------------------------------------------------------------------
(***************************************************************************)
(* The arguments: two ways of reading the last form of a flag.              *)
(***************************************************************************)

\* Among positions of a sequence there is a last one.
LEMMA LastPosition ==
    ASSUME NEW n \in Nat, NEW I \in SUBSET (1 .. n), I # {}
    PROVE  Max(I) \in I /\ \A i \in I : i <= Max(I)
<1> DEFINE J == {n - i : i \in I}
<1>1. J \in SUBSET Nat /\ J # {}
  <2>1. \A i \in I : n - i \in Nat
    OBVIOUS
  <2>2. QED BY <2>1
<1>2. PICK m \in J : \A j \in J : <<j, m>> \notin OpToRel(<, Nat)
  <2> HIDE DEF J
  <2> QED BY <1>1, NatLessThanWellFounded, WFMin
<1>3. PICK i \in I : m = n - i
  BY <1>2
<1>4. \A k \in I : k <= i
  <2> SUFFICES ASSUME NEW k \in I, ~(k <= i) PROVE FALSE
    OBVIOUS
  <2>1. n - k \in J /\ n - k \in Nat /\ m \in Nat
    BY <1>1, <1>2
  <2>2. n - k < m
    BY <1>3
  <2>3. QED BY <1>2, <2>1, <2>2 DEF OpToRel
<1>5. \E x \in I : \A y \in I : x >= y
  BY <1>4
<1>6. Max(I) \in I /\ \A y \in I : Max(I) >= y
  BY <1>5 DEF Max
<1>7. QED BY <1>6

\* gatewayAPIEnabled of the command and flag.Parse of the manager agree on
\* every list of arguments.
LEMMA SameReading ==
    ASSUME NEW list \in Seq(Tokens)
    PROVE  GatewayAPIEnabled(list) <=> EnableGatewayAPI(list)
<1> DEFINE n == Len(list)
           I == {i \in 1 .. n : list[i] \in GatewayTokens}
<1>1. n \in Nat /\ DOMAIN list = 1 .. n
  BY LenProperties
<1>2. LastGateway(list) = IF I # {} THEN Max(I) ELSE 0
  BY DEF LastGateway, SelectLastInSeq
<1>3. {"gateway", "gateway=true"} \subseteq GatewayTokens
  BY DEF GatewayTokens
<1> HIDE DEF n
<1>4. CASE I = {}
  <2>1. ~EnableGatewayAPI(list)
    BY <1>2, <1>4 DEF EnableGatewayAPI
  <2>2. ~GatewayAPIEnabled(list)
    BY <1>1, <1>3, <1>4 DEF GatewayAPIEnabled
  <2>3. QED BY <2>1, <2>2
<1>5. CASE I # {}
  <2> DEFINE m == Max(I)
  <2>1. m \in I /\ \A i \in I : i <= m
    BY <1>1, <1>5, LastPosition
  <2>2. LastGateway(list) = m /\ m \in 1 .. n /\ m # 0
    BY <1>1, <1>2, <1>5, <2>1
  <2> HIDE DEF m
  <2>3. \A k \in m + 1 .. n : list[k] \notin GatewayTokens
    BY <1>1, <2>1, <2>2
  <2>4. ASSUME EnableGatewayAPI(list) PROVE GatewayAPIEnabled(list)
    BY <1>1, <2>2, <2>3, <2>4 DEF EnableGatewayAPI, GatewayAPIEnabled, n
  <2>5. ASSUME GatewayAPIEnabled(list) PROVE EnableGatewayAPI(list)
    <3>1. PICK k \in 1 .. n : /\ list[k] \in {"gateway", "gateway=true"}
                              /\ \A j \in k + 1 .. n : list[j] \notin GatewayTokens
      BY <1>1, <2>5 DEF GatewayAPIEnabled, n
    <3>2. k = m
      BY <1>1, <1>3, <2>1, <2>2, <3>1
    <3>3. QED BY <2>2, <3>1, <3>2 DEF EnableGatewayAPI
  <2>6. QED BY <2>4, <2>5
<1>6. QED BY <1>4, <1>5

-----------------------------------------------------------------------------
(***************************************************************************)
(* The reads that are left.                                                 *)
(***************************************************************************)

\* The Gateway API resources that are appended are all of them.
LEMMA GatewayReads ==
    /\ SetToSeq(GatewayResources) \in Seq(GatewayResources)
    /\ ToSet(SetToSeq(GatewayResources)) = GatewayResources
<1> DEFINE G == GatewayResources
           c == Cardinality(G)
           s == SetToSeq(G)
<1>1. IsFiniteSet(G) /\ c \in Nat /\ ExistsBijection(1 .. c, G)
  BY InspectionAssumption, FS_CardinalityType
<1>2. \E f \in [1 .. c -> G] : IsInjective(f)
  BY <1>1 DEF ExistsBijection, Bijection, Injection, IsInjective
<1>3. s \in [1 .. c -> G] /\ IsInjective(s)
  BY <1>2 DEF SetToSeq
<1>4. s \in Injection(1 .. c, G)
  BY <1>3 DEF Injection, IsInjective
<1>5. Cardinality(1 .. c) = c /\ IsFiniteSet(1 .. c)
  BY <1>1, FS_Interval
<1> HIDE DEF s, c
<1>6. s \in Surjection(1 .. c, G)
  BY <1>1, <1>4, <1>5, FS_Injection DEF c
<1>7. DOMAIN s = 1 .. c
  BY <1>3
<1>8. \A g \in G : \E i \in 1 .. c : s[i] = g
  BY <1>6 DEF Surjection
<1>9. ToSet(s) = G
  BY <1>3, <1>7, <1>8 DEF ToSet
<1>10. s \in Seq(G)
  BY <1>1, <1>3
<1>11. QED BY <1>9, <1>10 DEF s

\* A read takes the first entry away and puts the further ones in its place.
LEMMA PendingAfter ==
    ASSUME NEW further \in Seq(AllReads), NEW t \in Seq(AllReads), t # <<>>
    PROVE  /\ further \o Tail(t) \in Seq(AllReads)
           /\ Head(t) \in ToSet(t) /\ Head(t) \in AllReads
           /\ ToSet(t) \subseteq {Head(t)} \cup ToSet(further \o Tail(t))
           /\ ToSet(further) \subseteq ToSet(further \o Tail(t))
           /\ ToSet(further \o Tail(t)) \subseteq ToSet(further) \cup ToSet(t)
<1> DEFINE n == Len(t)
           m == Len(further)
           u == Tail(t)
           s == further \o u
<1>1. n \in Nat \ {0} /\ m \in Nat /\ DOMAIN t = 1 .. n /\ DOMAIN further = 1 .. m
  BY LenProperties, EmptySeq
<1>2. /\ u \in Seq(AllReads) /\ Len(u) = n - 1 /\ Head(t) = t[1]
      /\ \A i \in 1 .. (n - 1) : u[i] = t[i + 1]
  BY <1>1, HeadTailProperties
<1> HIDE DEF n, m, u
<1>3. /\ s \in Seq(AllReads) /\ Len(s) = m + n - 1
      /\ \A i \in 1 .. (m + n - 1) : s[i] = IF i <= m THEN further[i] ELSE u[i - m]
  <2>1. /\ s \in Seq(AllReads) /\ Len(s) = Len(further) + Len(u)
        /\ \A i \in 1 .. Len(further) + Len(u) :
              s[i] = IF i <= Len(further) THEN further[i] ELSE u[i - Len(further)]
    BY <1>2, ConcatProperties
  <2>2. Len(further) = m /\ m + (n - 1) = m + n - 1
    BY <1>1 DEF m
  <2> HIDE DEF s
  <2>3. QED BY <1>2, <2>1, <2>2
<1>4. DOMAIN s = 1 .. (m + n - 1)
  BY <1>3, LenProperties
<1> HIDE DEF s
<1>5. Head(t) \in ToSet(t) /\ Head(t) \in AllReads
  <2>1. 1 \in 1 .. n
    BY <1>1
  <2>2. t[1] \in AllReads
    BY <2>1, ElementOfSeq DEF n
  <2>3. QED BY <1>1, <1>2, <2>1, <2>2 DEF ToSet
<1>6. ASSUME NEW x \in ToSet(t), x # Head(t) PROVE x \in ToSet(s)
  <2>1. PICK i \in 1 .. n : x = t[i]
    BY <1>1 DEF ToSet
  <2>2. i # 1 /\ i - 1 \in 1 .. (n - 1) /\ m + (i - 1) \in 1 .. (m + n - 1)
    BY <1>1, <1>2, <1>6, <2>1
  <2>3. s[m + (i - 1)] = u[i - 1] /\ u[i - 1] = t[i]
    BY <1>1, <1>2, <1>3, <2>2
  <2>4. QED BY <1>4, <2>1, <2>2, <2>3 DEF ToSet
<1>7. ASSUME NEW x \in ToSet(further) PROVE x \in ToSet(s)
  <2>1. PICK i \in 1 .. m : x = further[i]
    BY <1>1 DEF ToSet
  <2>2. i \in 1 .. (m + n - 1) /\ s[i] = further[i]
    BY <1>1, <1>3, <2>1
  <2>3. QED BY <1>4, <2>1, <2>2 DEF ToSet
<1>8. ASSUME NEW x \in ToSet(s) PROVE x \in ToSet(further) \cup ToSet(t)
  <2>1. PICK i \in 1 .. (m + n - 1) : x = s[i]
    BY <1>4 DEF ToSet
  <2>2. CASE i <= m
    <3>1. i \in 1 .. m /\ x = further[i]
      BY <1>1, <1>3, <2>1, <2>2
    <3>2. QED BY <1>1, <3>1 DEF ToSet
  <2>3. CASE ~(i <= m)
    <3>1. i - m \in 1 .. (n - 1) /\ i - m + 1 \in 1 .. n
      BY <1>1, <2>1, <2>3
    <3>2. x = u[i - m]
      BY <1>3, <2>1, <2>3
    <3>3. u[i - m] = t[i - m + 1]
      BY <1>2, <3>1
    <3>4. QED BY <1>1, <3>1, <3>2, <3>3 DEF ToSet
  <2>4. QED BY <2>2, <2>3
<1>9. QED BY <1>3, <1>5, <1>6, <1>7, <1>8 DEF s, u

\* The reads a run of the command begins with.
LEMMA FirstReads ==
    /\ Reads \in Seq(AllReads)
    /\ ToSet(Reads) = {"dnsproviders", "dnsendpoints", "controllers", "providers", "records"}
<1>1. /\ Reads \in Seq(AllReads) /\ Len(Reads) = 5
      /\ Reads[1] = "dnsproviders" /\ Reads[2] = "dnsendpoints" /\ Reads[3] = "controllers"
      /\ Reads[4] = "providers" /\ Reads[5] = "records"
  BY DEF Reads, AllReads, Resources, CoreResources
<1>2. DOMAIN Reads = 1 .. 5
  BY <1>1, LenProperties
<1>3. 1 .. 5 = {1, 2, 3, 4, 5}
  OBVIOUS
<1>4. ToSet(Reads) = {Reads[i] : i \in {1, 2, 3, 4, 5}}
  BY <1>2, <1>3 DEF ToSet
<1>5. QED BY <1>1, <1>4

-----------------------------------------------------------------------------
(***************************************************************************)
(* What is wrong with the cluster.                                          *)
(***************************************************************************)

RecordFault == <<"record", "dnsendpoint">>

LEMMA FaultFacts ==
    ASSUME TypeOK
    PROVE  /\ Faults \subseteq Alarm /\ Required \subseteq Resources
           /\ MissingOf(needed) \subseteq Alarm
           /\ \A r \in needed : served[r] = "missing" => Unavailable(r) \in MissingOf(needed)
           /\ Unavailable("manager") \in Faults <=> up = {}
           /\ up = {} => Unavailable("manager") \in OtherFaults
           /\ Unavailable("arguments") \in Faults <=> scale # "none" /\ ~FlagsParse(args)
           /\ scale # "none" /\ ~FlagsParse(args) => Unavailable("arguments") \in OtherFaults
           /\ CoreResources \subseteq Required
           /\ \A r \in CoreResources : Unavailable(r) \in Faults <=> served[r] = "missing"
           /\ \A r \in GatewayResources :
                 /\ r \in Required <=> scale # "none" /\ EnableGatewayAPI(args)
                 /\ Unavailable(r) \in Faults <=> served[r] = "missing" /\ r \in Required
           /\ RecordFault \in Faults => endpoint \in {"stale", "invalid"}
           /\ RecordFault \in Faults => served["dnsendpoints"] # "missing"
           /\ served["dnsendpoints"] # "missing" => RecordAlarms \subseteq OtherFaults
<1>1. /\ Required \subseteq Resources /\ CoreResources \subseteq Required
      /\ \A r \in GatewayResources : r \in Required <=> scale # "none" /\ EnableGatewayAPI(args)
  BY InspectionAssumption DEF Required, Prerequisites, Resources, CoreResources
<1>2. "manager" \notin Resources /\ "arguments" \notin Resources /\ needed \subseteq Resources
  BY InspectionAssumption DEF Resources, CoreResources, TypeOK
<1>3. RecordAlarms = IF endpoint \in {"stale", "invalid"} THEN {RecordFault} ELSE {}
  BY DEF RecordAlarms, RecordFault
<1>4. \A x : Unavailable(x) # RecordFault
  BY DEF Unavailable, RecordFault
<1>5. \A x, y : Unavailable(x) = Unavailable(y) => x = y
  BY DEF Unavailable
<1>6. OtherFaults = (IF up = {} THEN {Unavailable("manager")} ELSE {})
          \cup (IF scale # "none" /\ ~FlagsParse(args) THEN {Unavailable("arguments")} ELSE {})
          \cup (IF served["dnsendpoints"] = "missing" THEN {} ELSE RecordAlarms)
  BY DEF OtherFaults, Unavailable
<1>7. Alarm = {Unavailable(r) : r \in Resources \cup {"manager", "arguments"}} \cup {RecordFault}
  BY DEF Alarm, Unavailable, RecordFault
<1>8. \A S : MissingOf(S) = {Unavailable(r) : r \in {r \in S : served[r] = "missing"}}
  BY DEF MissingOf, Unavailable
<1>9. Faults = MissingOf(Required) \cup OtherFaults
  BY DEF Faults
<1>10. CoreResources \subseteq Resources /\ GatewayResources \subseteq Resources
  BY DEF Resources
<1>11. \A r \in Resources : Unavailable(r) \notin OtherFaults
  BY <1>2, <1>3, <1>4, <1>5, <1>6
<1>12. \A r \in Resources :
          Unavailable(r) \in MissingOf(Required) <=> r \in Required /\ served[r] = "missing"
  BY <1>5, <1>8
<1>13. \A r \in Resources : Unavailable(r) \in Faults <=> r \in Required /\ served[r] = "missing"
  BY <1>9, <1>11, <1>12
<1>14. \A x \in {"manager", "arguments"} :
          Unavailable(x) \notin MissingOf(Required) /\ Unavailable(x) \notin RecordAlarms
  BY <1>1, <1>2, <1>3, <1>4, <1>5, <1>8
<1>15. /\ Unavailable("manager") \in OtherFaults <=> up = {}
       /\ Unavailable("arguments") \in OtherFaults <=> scale # "none" /\ ~FlagsParse(args)
  BY <1>5, <1>6, <1>14
<1>16. RecordFault \in Faults <=> served["dnsendpoints"] # "missing" /\ RecordFault \in RecordAlarms
  BY <1>4, <1>6, <1>8, <1>9
<1>17. OtherFaults \subseteq Alarm
  BY <1>3, <1>6, <1>7
<1>18. \A S \in SUBSET Resources : MissingOf(S) \subseteq Alarm
  BY <1>7, <1>8
<1>19. Faults \subseteq Alarm /\ MissingOf(needed) \subseteq Alarm
  BY <1>1, <1>2, <1>9, <1>17, <1>18
<1>20. /\ Unavailable("manager") \in Faults <=> up = {}
       /\ Unavailable("arguments") \in Faults <=> scale # "none" /\ ~FlagsParse(args)
  BY <1>9, <1>14, <1>15
<1>21. /\ RecordFault \in Faults => endpoint \in {"stale", "invalid"}
       /\ RecordFault \in Faults => served["dnsendpoints"] # "missing"
       /\ served["dnsendpoints"] # "missing" => RecordAlarms \subseteq OtherFaults
  BY <1>3, <1>6, <1>16
<1>22. \A r \in needed : served[r] = "missing" => Unavailable(r) \in MissingOf(needed)
  BY <1>8
<1>23. QED BY <1>1, <1>10, <1>13, <1>15, <1>19, <1>20, <1>21, <1>22

LEMMA HardFacts ==
    /\ \A A : \A x : Unavailable(x) \in A => Hard(A) # {}
    /\ \A A \in SUBSET Alarm : Hard(A) # {} =>
          \E x \in Resources \cup {"manager", "arguments"} : Unavailable(x) \in A
    /\ \A A, B : Hard(A) # {} /\ A \subseteq B => Hard(B) # {}
<1>1. \A A : \A x : Unavailable(x) \in A => Hard(A) # {}
  BY DEF Hard, Unavailable
<1>2. ASSUME NEW A \in SUBSET Alarm, Hard(A) # {}
      PROVE  \E x \in Resources \cup {"manager", "arguments"} : Unavailable(x) \in A
  <2>1. PICK a \in A : a[1] = "unavailable"
    BY <1>2 DEF Hard
  <2>2. a \in Alarm
    OBVIOUS
  <2>3. a # RecordFault
    BY <2>1 DEF RecordFault
  <2>4. QED BY <2>2, <2>3 DEF Alarm, RecordFault, Unavailable
<1>3. \A A, B : Hard(A) # {} /\ A \subseteq B => Hard(B) # {}
  BY DEF Hard
<1>4. QED BY <1>1, <1>2, <1>3

-----------------------------------------------------------------------------
(***************************************************************************)
(* One read of the command.                                                 *)
(***************************************************************************)

LEMMA FindsEffect ==
    ASSUME TypeOK, todo # <<>>, NEW found \in SUBSET Alarm, NEW further \in Seq(AllReads),
           Finds(found, further)
    PROVE  /\ todo' \in Seq(AllReads)
           /\ alarms' = alarms \cup found /\ alarms' \subseteq Alarm
           /\ UNCHANGED <<cluster, changes>>
           /\ Faults' = Faults /\ Required' = Required /\ OtherFaults' = OtherFaults
           /\ Head(todo) \in AllReads
           /\ Pending \subseteq {Head(todo)} \cup Pending'
           /\ ToSet(further) \subseteq Pending'
           /\ Pending' \subseteq ToSet(further) \cup Pending
<1>1. todo \in Seq(AllReads) /\ alarms \subseteq Alarm
  BY DEF TypeOK, AllReads
<1>2. /\ todo' = further \o Tail(todo) /\ alarms' = alarms \cup found
      /\ UNCHANGED <<cluster, changes>>
  BY DEF Finds
<1>3. Required' = Required /\ OtherFaults' = OtherFaults
  BY <1>2 DEF Required, OtherFaults, RecordAlarms, cluster, deployment
<1>4. Faults' = Faults
  BY <1>2, <1>3 DEF Faults, MissingOf, cluster
<1>5. QED BY <1>1, <1>2, <1>3, <1>4, PendingAfter DEF Pending

\* A read that finds what it stands for keeps ShownInv.
LEMMA ShownRead ==
    ASSUME TypeOK, ShownInv, todo # <<>>, Watch,
           NEW found \in SUBSET Alarm, NEW further \in Seq(AllReads), Finds(found, further),
           Head(todo) = "controllers" =>
               /\ \A x \in {"manager", "arguments"} :
                     Unavailable(x) \in Faults => Hard(found) # {}
               /\ \A r \in GatewayResources :
                     Unavailable(r) \in Faults => r \in ToSet(further) \/ Hard(found) # {},
           Head(todo) \in Resources =>
               (Unavailable(Head(todo)) \in Faults => Unavailable(Head(todo)) \in found),
           Head(todo) = "records" => (RecordFault \in Faults => found # {})
    PROVE  ShownInv'
<1> DEFINE h == Head(todo)
<1>1. /\ alarms' = alarms \cup found /\ Faults' = Faults
      /\ Pending \subseteq {h} \cup Pending' /\ ToSet(further) \subseteq Pending'
  BY FindsEffect
<1>2. lasting' = lasting \cap Faults
  BY <1>1 DEF Watch
<1>3. /\ lasting' \subseteq lasting /\ lasting' \subseteq Faults
      /\ alarms \subseteq alarms' /\ found \subseteq alarms'
  BY <1>1, <1>2
<1> HIDE DEF h
<1>4. ASSUME NEW x \in {"manager", "arguments"}, Unavailable(x) \in lasting' \ alarms'
      PROVE  "controllers" \in Pending' \/ Hard(alarms') # {}
  <2>1. Unavailable(x) \in lasting \ alarms /\ Unavailable(x) \in Faults
    BY <1>3, <1>4
  <2>2. "controllers" \in Pending \/ Hard(alarms) # {}
    BY <2>1 DEF ShownInv, Unavailable
  <2>3. CASE Hard(alarms) # {}
    BY <1>3, <2>3, HardFacts
  <2>4. CASE "controllers" \in Pending /\ h = "controllers"
    <3>1. Hard(found) # {}
      BY <2>1, <2>4 DEF h
    <3>2. QED BY <1>3, <3>1, HardFacts
  <2>5. CASE "controllers" \in Pending /\ h # "controllers"
    BY <1>1, <2>5
  <2>6. QED BY <2>2, <2>3, <2>4, <2>5
<1>5. ASSUME NEW r \in CoreResources, Unavailable(r) \in lasting' \ alarms'
      PROVE  r \in Pending'
  <2>1. Unavailable(r) \in lasting \ alarms /\ Unavailable(r) \in Faults
    BY <1>3, <1>5
  <2>2. r \in Pending /\ r \in Resources
    BY <2>1 DEF ShownInv, Unavailable, Resources
  <2>3. CASE r = h
    BY <1>3, <1>5, <2>1, <2>2, <2>3 DEF h
  <2>4. QED BY <1>1, <2>2, <2>3
<1>6. ASSUME NEW r \in GatewayResources, Unavailable(r) \in lasting' \ alarms'
      PROVE  {r, "controllers"} \cap Pending' # {} \/ Hard(alarms') # {}
  <2>1. Unavailable(r) \in lasting \ alarms /\ Unavailable(r) \in Faults /\ r \in Resources
    BY <1>3, <1>6 DEF Resources
  <2>2. {r, "controllers"} \cap Pending # {} \/ Hard(alarms) # {}
    BY <2>1 DEF ShownInv, Unavailable
  <2>3. CASE Hard(alarms) # {}
    BY <1>3, <2>3, HardFacts
  <2>4. CASE r \in Pending
    BY <1>1, <1>3, <1>6, <2>1, <2>4 DEF h
  <2>5. CASE "controllers" \in Pending
    <3>1. CASE h = "controllers"
      <4>1. r \in ToSet(further) \/ Hard(found) # {}
        BY <2>1, <3>1 DEF h
      <4>2. CASE r \in ToSet(further)
        BY <1>1, <4>2
      <4>3. CASE Hard(found) # {}
        BY <1>3, <4>3, HardFacts
      <4>4. QED BY <4>1, <4>2, <4>3
    <3>2. QED BY <1>1, <2>5, <3>1
  <2>6. QED BY <2>2, <2>3, <2>4, <2>5
<1>7. ASSUME RecordFault \in lasting', alarms' = {} PROVE "records" \in Pending'
  <2>1. RecordFault \in lasting /\ RecordFault \in Faults /\ alarms = {} /\ found = {}
    BY <1>3, <1>7
  <2>2. "records" \in Pending
    BY <2>1 DEF ShownInv, RecordFault
  <2>3. QED BY <1>1, <2>1, <2>2 DEF h
<1>8. QED BY <1>1, <1>3, <1>4, <1>5, <1>6, <1>7 DEF ShownInv, Unavailable, RecordFault

\* A read that finds only what is there keeps CauseInv.
LEMMA CauseRead ==
    ASSUME TypeOK, CauseInv, todo # <<>>, Watch,
           NEW found \in SUBSET Alarm, NEW further \in Seq(AllReads), Finds(found, further),
           found \subseteq MissingOf(needed) \cup OtherFaults,
           GatewayResources \cap ToSet(further) \subseteq needed
    PROVE  CauseInv'
<1>1. /\ alarms' = alarms \cup found /\ Required' = Required /\ OtherFaults' = OtherFaults
      /\ UNCHANGED cluster /\ Pending' \subseteq ToSet(further) \cup Pending
  BY FindsEffect
<1>2. needed' = needed
  BY <1>1 DEF Watch, CauseInv
<1>3. MissingOf(needed)' = MissingOf(needed)
  BY <1>1, <1>2 DEF MissingOf, cluster
<1>4. met' = met
  BY <1>1, <1>3 DEF Watch, CauseInv
<1>5. AlarmHasCause'
  BY <1>1, <1>4 DEF AlarmHasCause, CauseInv
<1>6. (scale # "one" => pods = {})'
  BY <1>1 DEF CauseInv, cluster, deployment
<1>7. QED BY <1>1, <1>2, <1>3, <1>4, <1>5, <1>6 DEF CauseInv

\* Each read of the command finds what it stands for and nothing else.
LEMMA InspectStep ==
    ASSUME TypeOK, ShownInv, CauseInv, Inspect, Watch
    PROVE  TypeOK' /\ ShownInv' /\ CauseInv'
<1> USE DEF AllReads
<1>1. todo # <<>> /\ (InspectResource \/ InspectControllers \/ InspectProviders \/ InspectRecords)
  BY DEF Inspect
<1>2. <<>> \in Seq(AllReads) /\ ToSet(<<>>) = {}
  BY EmptySeq DEF ToSet
<1>3. {"controllers", "providers", "records"} \cap Resources = {} /\ CoreResources \subseteq Resources
  BY InspectionAssumption DEF Resources, CoreResources
<1>4. "dnsproviders" \in CoreResources /\ "dnsendpoints" \in CoreResources
  BY DEF CoreResources
<1> HIDE DEF AllReads
<1>5. ASSUME NEW found \in SUBSET Alarm, NEW further \in Seq(AllReads), Finds(found, further)
      PROVE  TypeOK'
  <2>1. /\ todo' \in Seq(AllReads) /\ alarms' \subseteq Alarm /\ UNCHANGED <<cluster, changes>>
        /\ Faults' = Faults /\ Required' = Required /\ OtherFaults' = OtherFaults
        /\ Faults \subseteq Alarm
    BY <1>1, <1>5, FindsEffect, FaultFacts
  <2>2. lasting' \subseteq Alarm
    BY <2>1 DEF TypeOK, Watch
  <2>3. needed' = needed
    BY <2>1 DEF Watch, CauseInv
  <2>4. met' = met
    <3>1. MissingOf(needed)' = MissingOf(needed)
      BY <2>1, <2>3 DEF MissingOf, cluster
    <3>2. QED BY <2>1, <3>1 DEF Watch, CauseInv
  <2>5. QED BY <2>1, <2>2, <2>3, <2>4 DEF TypeOK, AllReads, cluster, deployment
<1>6. \A r \in Resources : Missing(r) = IF served[r] = "missing" THEN {Unavailable(r)} ELSE {}
  BY DEF Missing, Unavailable
<1>7. \A x \in Resources \cup {"manager", "arguments"} : Unavailable(x) \in Alarm
  BY DEF Unavailable, Alarm
<1>8. CASE InspectResource
  <2> DEFINE h == Head(todo)
             found == Missing(h)
  <2>1. h \in Resources /\ Finds(found, <<>>)
    BY <1>8 DEF InspectResource
  <2> HIDE DEF h
  <2>2. found = IF served[h] = "missing" THEN {Unavailable(h)} ELSE {}
    BY <1>6, <2>1
  <2> HIDE DEF found
  <2>3. found \in SUBSET Alarm
    BY <1>7, <2>1, <2>2
  <2>4. Unavailable(h) \in Faults => Unavailable(h) \in found
    BY <2>1, <2>2, FaultFacts DEF Resources
  <2>5. found \subseteq MissingOf(needed)
    <3>1. h \in Pending
      <4>1. todo \in Seq(AllReads)
        BY DEF TypeOK, AllReads
      <4>2. QED BY <1>1, <1>2, <4>1, PendingAfter DEF Pending, h
    <3>2. h \in needed
      <4>1. CASE h \in CoreResources
        BY <4>1, FaultFacts DEF CauseInv
      <4>2. CASE h \in GatewayResources
        BY <3>1, <4>2 DEF CauseInv
      <4>3. QED BY <2>1, <4>1, <4>2 DEF Resources
    <3>3. QED BY <2>2, <3>2, FaultFacts
  <2>6. h # "controllers" /\ h # "records"
    BY <1>3, <2>1
  <2>7. ShownInv'
    BY <1>1, <1>2, <2>1, <2>3, <2>4, <2>6, ShownRead DEF h
  <2>8. CauseInv'
    BY <1>1, <1>2, <2>1, <2>3, <2>5, CauseRead
  <2>9. QED BY <1>2, <1>5, <2>1, <2>3, <2>7, <2>8
<1>9. CASE InspectControllers
  <2>1. Head(todo) = "controllers" /\ Head(todo) \notin Resources
    BY <1>3, <1>9 DEF InspectControllers
  <2>2. args \in Seq(Tokens)
    BY DEF TypeOK
  <2>3. CASE scale # "none" /\ FlagsParse(args)
    <3> DEFINE found == IF up = {} \/ scale = "zero" THEN {Unavailable("manager")} ELSE {}
               further == IF GatewayAPIEnabled(args) THEN SetToSeq(GatewayResources) ELSE <<>>
    <3>1. Finds(found, further)
      BY <1>9, <2>3 DEF InspectControllers, Unavailable
    <3>2. found \in SUBSET Alarm
      BY <1>7
    <3>3. /\ further \in Seq(AllReads)
          /\ ToSet(further) = IF EnableGatewayAPI(args) THEN GatewayResources ELSE {}
      <4>1. Seq(GatewayResources) \subseteq Seq(AllReads)
        BY DEF AllReads, Resources
      <4>2. QED BY <1>2, <2>2, <4>1, SameReading, GatewayReads
    <3> HIDE DEF further
    <3>4. \A x \in {"manager", "arguments"} : Unavailable(x) \in Faults => Hard(found) # {}
      BY <2>3, FaultFacts, HardFacts
    <3>5. found \subseteq OtherFaults
      <4>1. scale = "zero" => up = {}
        BY DEF CauseInv, TypeOK
      <4>2. QED BY <4>1, FaultFacts
    <3> HIDE DEF found
    <3>6. \A r \in GatewayResources : Unavailable(r) \in Faults => r \in ToSet(further)
      BY <3>3, FaultFacts
    <3>7. GatewayResources \cap ToSet(further) \subseteq needed
      BY <2>3, <3>3, FaultFacts DEF CauseInv
    <3>8. ShownInv'
      BY <1>1, <2>1, <3>1, <3>2, <3>3, <3>4, <3>6, ShownRead
    <3>9. CauseInv'
      BY <1>1, <3>1, <3>2, <3>3, <3>5, <3>7, CauseRead
    <3>10. QED BY <1>5, <3>1, <3>2, <3>3, <3>8, <3>9
  <2>4. ASSUME NEW x \in {"manager", "arguments"}, Finds({Unavailable(x)}, <<>>),
               Unavailable(x) \in OtherFaults
        PROVE  TypeOK' /\ ShownInv' /\ CauseInv'
    <3> DEFINE found == {Unavailable(x)}
    <3>1. Finds(found, <<>>) /\ found \in SUBSET Alarm /\ found \subseteq OtherFaults
      BY <1>7, <2>4
    <3>2. Hard(found) # {}
      BY HardFacts
    <3> HIDE DEF found
    <3>3. ShownInv'
      BY <1>1, <1>2, <2>1, <3>1, <3>2, ShownRead
    <3>4. CauseInv'
      BY <1>1, <1>2, <3>1, CauseRead
    <3>5. QED BY <1>2, <1>5, <3>1, <3>3, <3>4
  <2>5. CASE scale = "none"
    <3>1. Finds({Unavailable("manager")}, <<>>)
      BY <1>9, <2>5 DEF InspectControllers, Unavailable
    <3>2. up = {}
      BY <2>5 DEF CauseInv, TypeOK
    <3>3. QED BY <2>4, <3>1, <3>2, FaultFacts
  <2>6. CASE scale # "none" /\ ~FlagsParse(args)
    <3>1. Finds({Unavailable("arguments")}, <<>>)
      BY <1>9, <2>6 DEF InspectControllers, Unavailable
    <3>2. QED BY <2>4, <2>6, <3>1, FaultFacts
  <2>7. QED BY <2>3, <2>5, <2>6
<1>10. CASE InspectProviders
  <2> DEFINE found == Missing("dnsproviders")
  <2>1. Head(todo) = "providers" /\ Finds(found, <<>>)
    BY <1>10 DEF InspectProviders
  <2>2. found \in SUBSET Alarm /\ found \subseteq MissingOf(needed)
    BY <1>3, <1>4, <1>6, <1>7, FaultFacts DEF CauseInv
  <2> HIDE DEF found
  <2>3. ShownInv'
    BY <1>1, <1>2, <1>3, <2>1, <2>2, ShownRead
  <2>4. CauseInv'
    BY <1>1, <1>2, <2>1, <2>2, CauseRead
  <2>5. QED BY <1>2, <1>5, <2>1, <2>2, <2>3, <2>4
<1>11. CASE InspectRecords
  <2> DEFINE found == IF served["dnsendpoints"] = "missing" THEN Missing("dnsendpoints") ELSE RecordAlarms
  <2>1. Head(todo) = "records" /\ Finds(found, <<>>)
    BY <1>11 DEF InspectRecords
  <2>2. found \in SUBSET Alarm /\ found \subseteq MissingOf(needed) \cup OtherFaults
    <3>1. RecordAlarms \subseteq {RecordFault}
      BY DEF RecordAlarms, RecordFault
    <3>2. RecordFault \in Alarm
      BY DEF RecordFault, Alarm
    <3>3. QED BY <1>3, <1>4, <1>6, <1>7, <3>1, <3>2, FaultFacts DEF CauseInv
  <2>3. RecordFault \in Faults => found # {}
    BY FaultFacts DEF RecordAlarms
  <2> HIDE DEF found
  <2>4. ShownInv'
    BY <1>1, <1>2, <1>3, <2>1, <2>2, <2>3, ShownRead
  <2>5. CauseInv'
    BY <1>1, <1>2, <2>1, <2>2, CauseRead
  <2>6. QED BY <1>2, <1>5, <2>1, <2>2, <2>4, <2>5
<1>12. QED BY <1>1, <1>8, <1>9, <1>10, <1>11

-----------------------------------------------------------------------------
(***************************************************************************)
(* The cluster changes, and the command is given again.                     *)
(***************************************************************************)

LEMMA ArgListsType == ArgLists \subseteq Seq(Tokens)
BY InspectionAssumption DEF ArgLists

\* Pods exist only for a Deployment with a replica, and managers only in Pods.
LEMMA ClusterEffect ==
    ASSUME TypeOK, CauseInv, (\E list \in pods : Start(list)) \/ CompleteRollout \/ Change
    PROVE  /\ served' \in [Resources -> Serving] /\ scale' \in {"none", "zero", "one"}
           /\ args' \in Seq(Tokens) /\ pods' \subseteq Seq(Tokens) /\ up' \subseteq pods'
           /\ endpoint' \in EndpointStates /\ changes' \in Nat
           /\ scale' # "one" => pods' = {}
<1>1. CASE \E list \in pods : Start(list)
  BY <1>1 DEF Start, TypeOK, CauseInv
<1>2. CASE CompleteRollout
  BY <1>2 DEF CompleteRollout, TypeOK, CauseInv
<1>3. CASE Change
  <2>1. changes' \in Nat
    BY <1>3 DEF Change, TypeOK
  <2>2. CASE Crash
    BY <2>1, <2>2 DEF Crash, TypeOK, CauseInv
  <2>3. ASSUME NEW r \in Resources, ChangeAPI(r)
        PROVE  /\ served' \in [Resources -> Serving] /\ UNCHANGED <<deployment, endpoint>>
    <3>1. PICK x \in Serving : served' = [served EXCEPT ![r] = x]
      BY <2>3 DEF ChangeAPI
    <3>2. served' \in [Resources -> Serving]
      BY <3>1 DEF TypeOK
    <3>3. QED BY <2>3, <3>2 DEF ChangeAPI
  <2>4. CASE ChangeDeployment
    <3>1. /\ scale' \in {"none", "zero", "one"} /\ args' \in Seq(Tokens)
          /\ UNCHANGED <<served, endpoint>>
      BY <2>4, ArgListsType DEF ChangeDeployment
    <3>2. pods' \subseteq Seq(Tokens) /\ up' \subseteq pods' /\ (scale' # "one" => pods' = {})
      <4>1. CASE scale' # "one" /\ pods' = {} /\ up' = {}
        BY <4>1
      <4>2. CASE scale' = "one" /\ pods' = {args'} /\ up' = {}
        BY <3>1, <4>2
      <4>3. CASE scale' = "one" /\ Rolled(args')
        BY <3>1, <4>3 DEF Rolled, TypeOK
      <4>4. QED BY <2>4, <4>1, <4>2, <4>3 DEF ChangeDeployment
    <3>3. QED BY <2>1, <3>1, <3>2 DEF TypeOK
  <2>5. CASE ChangeEndpoint
    BY <2>1, <2>5 DEF ChangeEndpoint, TypeOK, CauseInv, deployment
  <2>6. CASE \E r \in Resources : ChangeAPI(r)
    BY <2>1, <2>3, <2>6 DEF TypeOK, CauseInv, deployment
  <2>7. QED BY <1>3, <2>2, <2>4, <2>5, <2>6 DEF Change
<1>4. QED BY <1>1, <1>2, <1>3

LEMMA ClusterStep ==
    ASSUME TypeOK, ShownInv, CauseInv, Watch, UNCHANGED <<todo, alarms>>,
           (\E list \in pods : Start(list)) \/ CompleteRollout \/ Change
    PROVE  TypeOK' /\ ShownInv' /\ CauseInv'
<1>1. /\ lasting' = lasting \cap Faults' /\ needed' = needed \cup Required'
      /\ met' = met \cup MissingOf(needed)' \cup OtherFaults'
  BY DEF Watch
<1>2. TypeOK'
  <2>1. Required' \subseteq Resources
    BY DEF Required, Prerequisites, Resources, CoreResources
  <2>2. needed' \subseteq Resources
    BY <1>1, <2>1 DEF TypeOK
  <2>3. MissingOf(needed)' \subseteq Alarm /\ OtherFaults' \subseteq Alarm
    BY <2>2 DEF MissingOf, OtherFaults, RecordAlarms, Alarm
  <2>4. lasting' \subseteq Alarm /\ met' \subseteq Alarm
    BY <1>1, <2>3 DEF TypeOK
  <2>5. QED BY <2>2, <2>4, ClusterEffect DEF TypeOK
<1>3. Pending' = Pending
  BY DEF Pending
<1>4. ShownInv'
  <2>1. lasting' \subseteq lasting /\ lasting' \subseteq Faults' /\ alarms' = alarms
    BY <1>1
  <2>2. QED BY <1>3, <2>1 DEF ShownInv
<1>5. CauseInv'
  <2>1. AlarmHasCause'
    BY <1>1 DEF AlarmHasCause, CauseInv
  <2>2. (GatewayResources \cap Pending \subseteq needed)'
    BY <1>1, <1>3 DEF CauseInv
  <2>3. QED BY <1>1, <2>1, <2>2, ClusterEffect DEF CauseInv
<1>6. QED BY <1>2, <1>4, <1>5

\* With all reads to come and no alarm yet, any faults may be lasting: the
\* invariants hold where the command starts and where it starts again.
Fresh == todo = Reads /\ alarms = {} /\ Began /\ (scale # "one" => pods = {})

LEMMA Beginning == TypeOK /\ Fresh => ShownInv /\ CauseInv
<1> SUFFICES ASSUME TypeOK, Fresh PROVE ShownInv /\ CauseInv
  OBVIOUS
<1> USE DEF Fresh, Began
<1>1. Pending = {"dnsproviders", "dnsendpoints", "controllers", "providers", "records"}
  BY FirstReads DEF Pending
<1>2. GatewayResources \cap Pending = {}
  BY <1>1, InspectionAssumption
<1>3. ShownInv
  BY <1>1 DEF ShownInv, CoreResources
<1>4. CauseInv
  BY <1>2 DEF CauseInv, AlarmHasCause, Faults
<1>5. QED BY <1>3, <1>4

LEMMA RerunStep ==
    ASSUME TypeOK, CauseInv, Rerun
    PROVE  TypeOK' /\ ShownInv' /\ CauseInv'
<1>1. UNCHANGED <<cluster, changes>>
  BY DEF Rerun
<1>2. Faults' = Faults /\ Required' = Required
  BY <1>1 DEF Faults, Required, MissingOf, OtherFaults, RecordAlarms, cluster, deployment
<1>3. TypeOK'
  <2>1. /\ todo' \in Seq(AllReads) /\ alarms' = {}
        /\ lasting' = Faults /\ needed' = Required /\ met' = Faults
    BY FirstReads DEF Rerun
  <2>2. Faults \subseteq Alarm /\ Required \subseteq Resources
    BY FaultFacts
  <2>3. QED BY <1>1, <2>1, <2>2 DEF TypeOK, AllReads, cluster, deployment
<1>4. Fresh'
  BY <1>1, <1>2 DEF Fresh, Began, Rerun, CauseInv, cluster, deployment, Reads
<1>5. (ShownInv /\ CauseInv)'
  BY <1>3, <1>4, Beginning, PTL
<1>6. QED BY <1>3, <1>5

LEMMA StatusInvariant == Spec => [](TypeOK /\ ShownInv /\ CauseInv)
<1>1. Init => TypeOK /\ ShownInv /\ CauseInv
  <2> SUFFICES ASSUME Init PROVE TypeOK /\ ShownInv /\ CauseInv
    OBVIOUS
  <2>1. PICK resources \in [Resources -> {"missing", "compatible"}], list \in ArgLists :
                Starting(resources, list)
    BY DEF Init
  <2>2. /\ served = resources /\ scale = "one" /\ args = list /\ pods = {list} /\ up = {}
        /\ endpoint = "observed" /\ todo = Reads /\ alarms = {} /\ Began /\ changes = 0
    BY <2>1 DEF Starting
  <2>3. Required \subseteq Resources
    BY DEF Required, Prerequisites, Resources, CoreResources
  <2>4. Faults \subseteq Alarm
    BY <2>3 DEF Faults, MissingOf, OtherFaults, Alarm, RecordAlarms
  <2>5. served \in [Resources -> Serving] /\ args \in Seq(Tokens) /\ todo \in Seq(AllReads)
    BY <2>2, ArgListsType, FirstReads DEF Serving
  <2>6. TypeOK
    BY <2>2, <2>3, <2>4, <2>5 DEF TypeOK, AllReads, EndpointStates, Began
  <2>7. QED BY <2>2, <2>6, Beginning DEF Fresh
<1>2. TypeOK /\ ShownInv /\ CauseInv /\ [Next]_vars => (TypeOK /\ ShownInv /\ CauseInv)'
  <2> SUFFICES ASSUME TypeOK, ShownInv, CauseInv, [Next]_vars
               PROVE  TypeOK' /\ ShownInv' /\ CauseInv'
    OBVIOUS
  <2>1. CASE UNCHANGED vars
    BY <2>1 DEF vars, cluster, deployment, TypeOK, ShownInv, CauseInv, AlarmHasCause, Faults,
       Required, MissingOf, OtherFaults, RecordAlarms, Pending
  <2>2. QED BY <2>1, InspectStep, ClusterStep, RerunStep DEF Next
<1>3. QED BY <1>1, <1>2, PTL DEF Spec

-----------------------------------------------------------------------------
\* `labdns status` misses no lasting fault: whatever else changes between its
\* reads, what was wrong from the first to the last shows in its verdict.
THEOREM NoLastingFaultMissed == Spec => []LastingFaultShown
<1>1. TypeOK /\ ShownInv => LastingFaultShown
  <2> SUFFICES ASSUME TypeOK, ShownInv, todo = <<>>
               PROVE  /\ Hard(lasting) # {} => Overall = "unhealthy"
                      /\ lasting # {} => Overall # "healthy"
    BY DEF LastingFaultShown
  <2>1. Pending = {}
    BY DEF Pending, ToSet
  <2>2. ASSUME Hard(lasting) # {} PROVE Hard(alarms) # {}
    <3>1. PICK x \in Resources \cup {"manager", "arguments"} : Unavailable(x) \in lasting
      BY <2>2, HardFacts DEF TypeOK
    <3>2. Unavailable(x) \in alarms \/ Hard(alarms) # {}
      BY <2>1, <3>1 DEF ShownInv, Unavailable, Resources
    <3>3. QED BY <3>2, HardFacts
  <2>3. ASSUME lasting # {} PROVE alarms # {}
    <3>1. CASE RecordFault \in lasting
      BY <2>1, <3>1 DEF ShownInv, RecordFault
    <3>2. CASE RecordFault \notin lasting
      <4>1. PICK a \in lasting : a \in Alarm /\ a # RecordFault
        BY <2>3, <3>2 DEF TypeOK
      <4>2. a[1] = "unavailable"
        BY <4>1 DEF Alarm, RecordFault
      <4>3. Hard(lasting) # {}
        BY <4>2 DEF Hard
      <4>4. QED BY <2>2, <4>3 DEF Hard
    <3>3. QED BY <3>1, <3>2
  <2>4. QED BY <2>2, <2>3 DEF Overall
<1>2. QED BY <1>1, StatusInvariant, PTL

\* Everything `labdns status` reports was so while it ran: its own reading of
\* the manager's arguments never asks for an API that the Deployment did not ask
\* for at that time or before, however CRDs, rollouts and managers change.
THEOREM NoFalseAlarm == Spec => []AlarmHasCause
BY StatusInvariant, PTL DEF CauseInv
===============================================================================
