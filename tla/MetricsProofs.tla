---------------------------- MODULE MetricsProofs ----------------------------
(***************************************************************************)
(* The gauges agree with the objects once the controllers have caught up,   *)
(* for any kinds, any finite set of names and any number of changes, failed *)
(* reads and restarts.                                                      *)
(*                                                                          *)
(* GaugesTrack says nothing of a state in which work is left; MetricsInv    *)
(* does, key by key: a count that is not what the object calls for is       *)
(* matched by a queued key or by a reconcile that holds the object as it is.*)
(***************************************************************************)
EXTENDS Metrics, FiniteSetTheorems, TLAPS

\* Nothing adds up to zero: the gauge of pending targets starts, and starts
\* again after a restart, from no counts at all.
LEMMA SumOfEmpty == SumOf(Empty) = 0
<1> DEFINE f(n) == Empty[n]
           choose(S) == CHOOSE n \in S : TRUE
           body(g) == [s \in SUBSET {} |-> IF s = {} THEN 0 ELSE f(choose(s)) + g[s \ {choose(s)}]]
           zero == [s \in SUBSET {} |-> 0]
<1>1. DOMAIN Empty = {}
  BY DEF Empty
<1>2. zero = body(zero)
  OBVIOUS
<1>3. (CHOOSE g : g = body(g)) = body(CHOOSE g : g = body(g))
  <2> HIDE DEF body, zero
  <2> QED  BY <1>2
<1>4. (CHOOSE g : g = body(g))[{}] = 0
  <2> DEFINE h == CHOOSE g : g = body(g)
  <2>1. h = body(h)
    BY <1>3
  <2> HIDE DEF h
  <2>2. body(h)[{}] = 0
    OBVIOUS
  <2> QED  BY <2>1, <2>2 DEF h
<1> QED
  BY <1>1, <1>4 DEF SumOf, MapThenFoldSet

-----------------------------------------------------------------------------
(***************************************************************************)
(* What Set makes of the counts of a controller.                            *)
(***************************************************************************)
LEMMA SetCounts ==
    ASSUME MetricsTypeOK, NEW c \in Reconcilers, NEW n \in ObjectNames, NEW o \in Objects(c)
    PROVE  /\ \E S \in SUBSET ObjectNames : Set(c, n, o) \in [S -> 0 .. MaxPending]
           /\ \A m \in ObjectNames \ {n} :
                 /\ m \in DOMAIN Set(c, n, o) <=> m \in DOMAIN counts[c]
                 /\ m \in DOMAIN counts[c] => Set(c, n, o)[m] = counts[c][m]
           /\ o.state = "counted" => n \in DOMAIN Set(c, n, o) /\ Set(c, n, o)[n] = o.pending
           /\ o.state \in {"absent", "other"} => n \notin DOMAIN Set(c, n, o)
           /\ o.state = "invalid" => Set(c, n, o) = counts[c]
<1>1. PICK S \in SUBSET ObjectNames : counts[c] \in [S -> 0 .. MaxPending]
  BY DEF MetricsTypeOK
<1>2. o.state \in {"absent", "other", "invalid", "counted"}
  BY DEF Objects, Uncounted
<1>3. o.pending \in 0 .. MaxPending
  BY MetricsAssumption DEF Objects, Uncounted
<1>4. CASE o.state = "invalid"
  BY <1>1, <1>4 DEF Set
<1>5. CASE o.state = "counted"
  <2>1. Set(c, n, o) = [m \in DOMAIN counts[c] \cup {n} |-> IF m = n THEN o.pending ELSE counts[c][m]]
    BY <1>5 DEF Set
  <2>2. Set(c, n, o) \in [S \cup {n} -> 0 .. MaxPending]
    BY <2>1, <1>1, <1>3
  <2> QED  BY <2>1, <2>2, <1>1, <1>5
<1>6. CASE o.state \in {"absent", "other"}
  <2>1. Set(c, n, o) = [m \in DOMAIN counts[c] \ {n} |-> counts[c][m]]
    BY <1>6 DEF Set
  <2>2. Set(c, n, o) \in [S \ {n} -> 0 .. MaxPending]
    BY <2>1, <1>1
  <2> QED  BY <2>1, <2>2, <1>1, <1>6
<1> QED
  BY <1>2, <1>4, <1>5, <1>6

-----------------------------------------------------------------------------
(***************************************************************************)
(* The invariant, action by action.                                         *)
(***************************************************************************)
LEMMA Started == MetricsInit => MetricsTypeOK /\ MetricsInv
<1> SUFFICES ASSUME MetricsInit PROVE MetricsTypeOK /\ MetricsInv
  OBVIOUS
<1> USE DEF MetricsInit
<1>1. \A c \in Reconcilers, n \in ObjectNames : object[<<c, n>>] = Absent
  BY DEF ObjectKeys
<1>2. Empty \in [{} -> 0 .. MaxPending] /\ DOMAIN Empty = {}
  BY DEF Empty
<1>3. MetricsTypeOK
  <2>1. \A c \in Reconcilers : Absent \in Objects(c)
    BY DEF Absent, Objects, Uncounted
  <2>2. \A c \in Reconcilers : \E S \in SUBSET ObjectNames : counts[c] \in [S -> 0 .. MaxPending]
    <3>1. \A c \in Reconcilers : counts[c] = Empty
      OBVIOUS
    <3> QED  BY <3>1, <1>2
  <2>3. \A c \in Reconcilers : busy[c] = {}
    OBVIOUS
  <2>4. \A c \in Reconcilers, n \in ObjectNames : object[<<c, n>>] \in Objects(c)
    BY <1>1, <2>1
  <2> QED  BY <2>2, <2>3, <2>4 DEF MetricsTypeOK
<1>4. MetricsInv
  <2>1. \A c \in Reconcilers, n \in ObjectNames : Counted(c, n)
    <3> SUFFICES ASSUME NEW c \in Reconcilers, NEW n \in ObjectNames PROVE Counted(c, n)
      OBVIOUS
    <3>1. object[<<c, n>>].state = "absent" /\ DOMAIN counts[c] = {}
      BY <1>1, <1>2 DEF Absent
    <3> QED  BY <3>1 DEF Counted
  <2>2. \A c \in Reconcilers : busy[c] = {} /\ total[c] = Cardinality(DOMAIN counts[c])
    BY <1>2, FS_EmptySet
  <2>3. pending = SumOf(counts[Lifecycle])
    BY SumOfEmpty DEF Reconcilers
  <2> QED  BY <2>1, <2>2, <2>3 DEF MetricsInv, Followed
<1> QED  BY <1>3, <1>4

\* A worker takes a key.
LEMMA GetKeeps ==
    ASSUME MetricsTypeOK, MetricsInv, NEW c \in Reconcilers, NEW n \in ObjectNames, Get(c, n)
    PROVE  MetricsTypeOK' /\ MetricsInv'
<1> USE DEF Get
<1>1. MetricsTypeOK'
  <2>1. [name |-> n, seen |-> object[<<c, n>>]] \in [name : ObjectNames, seen : Objects(c)]
    BY DEF MetricsTypeOK
  <2>2. busy' = [busy EXCEPT ![c] = {[name |-> n, seen |-> object[<<c, n>>]]}]
    OBVIOUS
  <2>3. \A d \in Reconcilers : \/ busy'[d] = {}
                               \/ \E w \in [name : ObjectNames, seen : Objects(d)] : busy'[d] = {w}
    BY <2>1, <2>2 DEF MetricsTypeOK
  <2> QED  BY <2>2, <2>3 DEF MetricsTypeOK
<1>2. ASSUME NEW d \in Reconcilers, NEW m \in ObjectNames
      PROVE  Followed(d, m)'
  <2>1. Counted(d, m) => Counted(d, m)'
    BY DEF Counted
  <2>2. CASE d = c /\ m = n
    <3>1. [name |-> m, seen |-> object'[<<d, m>>]] \in busy'[d]
      BY <2>2 DEF MetricsTypeOK
    <3> QED  BY <3>1 DEF Followed
  <2>3. CASE ~(d = c /\ m = n)
    <3>1. /\ busy[d] = {} \/ busy'[d] = busy[d]
          /\ \A w \in busy'[d] : w \in busy[d] \/ w.name # m
      BY <2>3 DEF MetricsTypeOK
    <3>2. <<d, m>> \in queue => <<d, m>> \in queue'
      BY <2>3
    <3> QED  BY <2>1, <3>1, <3>2 DEF MetricsInv, Followed
  <2> QED  BY <2>2, <2>3
<1> QED
  BY <1>1, <1>2 DEF MetricsInv

\* A reconcile sets the count of its key and the gauges.
LEMMA FinishKeeps ==
    ASSUME MetricsTypeOK, MetricsInv, NEW c \in Reconcilers, Finish(c)
    PROVE  MetricsTypeOK' /\ MetricsInv'
<1>1. PICK w \in busy[c] :
        /\ counts' = [counts EXCEPT ![c] = Set(c, w.name, w.seen)]
        /\ total' = IF w.seen.state = "invalid" THEN total
                    ELSE [total EXCEPT ![c] = Cardinality(DOMAIN Set(c, w.name, w.seen))]
        /\ pending' = IF c = Lifecycle /\ w.seen.state # "invalid"
                      THEN SumOf(Set(c, w.name, w.seen)) ELSE pending
        /\ busy' = [busy EXCEPT ![c] = {}]
        /\ UNCHANGED <<object, queue, changes, failures, restarts>>
  BY DEF Finish
<1>2. busy[c] = {w} /\ w \in [name : ObjectNames, seen : Objects(c)]
  BY <1>1 DEF MetricsTypeOK
<1> DEFINE n == w.name
           o == w.seen
           new == Set(c, n, o)
<1>3. n \in ObjectNames /\ o \in Objects(c) /\ w = [name |-> n, seen |-> o]
  BY <1>2
<1>4. /\ \E S \in SUBSET ObjectNames : new \in [S -> 0 .. MaxPending]
      /\ \A m \in ObjectNames \ {n} :
            /\ m \in DOMAIN new <=> m \in DOMAIN counts[c]
            /\ m \in DOMAIN counts[c] => new[m] = counts[c][m]
      /\ o.state = "counted" => n \in DOMAIN new /\ new[n] = o.pending
      /\ o.state \in {"absent", "other"} => n \notin DOMAIN new
      /\ o.state = "invalid" => new = counts[c]
  BY <1>3, SetCounts
<1>5. o.state \in {"absent", "other", "invalid", "counted"}
  BY <1>3 DEF Objects, Uncounted
<1>6. /\ counts' = [counts EXCEPT ![c] = new]
      /\ total' = IF o.state = "invalid" THEN total
                  ELSE [total EXCEPT ![c] = Cardinality(DOMAIN new)]
      /\ pending' = IF c = Lifecycle /\ o.state # "invalid" THEN SumOf(new) ELSE pending
      /\ busy' = [busy EXCEPT ![c] = {}]
      /\ UNCHANGED <<object, queue, changes, failures, restarts>>
  BY <1>1
<1> HIDE DEF n, o, new
<1>7. counts'[c] = new /\ \A d \in Reconcilers \ {c} : counts'[d] = counts[d]
  BY <1>6 DEF MetricsTypeOK
<1>8. busy'[c] = {} /\ \A d \in Reconcilers \ {c} : busy'[d] = busy[d]
  BY <1>6 DEF MetricsTypeOK
<1>9. MetricsTypeOK'
  <2>1. \A d \in Reconcilers : \E S \in SUBSET ObjectNames : counts'[d] \in [S -> 0 .. MaxPending]
    BY <1>4, <1>7 DEF MetricsTypeOK
  <2>2. \A d \in Reconcilers : \/ busy'[d] = {}
                               \/ \E x \in [name : ObjectNames, seen : Objects(d)] : busy'[d] = {x}
    BY <1>8 DEF MetricsTypeOK
  <2> QED  BY <1>6, <2>1, <2>2 DEF MetricsTypeOK
<1>10. ASSUME NEW d \in Reconcilers, NEW m \in ObjectNames
       PROVE  Followed(d, m)'
  <2>1. CASE d # c
    <3>1. Counted(d, m) => Counted(d, m)'
      <4>1. counts'[d] = counts[d] /\ object' = object
        BY <2>1, <1>6, <1>7
      <4> QED  BY <4>1 DEF Counted
    <3> QED  BY <2>1, <3>1, <1>6, <1>8 DEF MetricsInv, Followed
  <2>2. CASE d = c /\ m # n
    <3>1. [name |-> m, seen |-> object[<<d, m>>]] \notin busy[d]
      BY <2>2, <1>2, <1>3
    <3>2. Counted(d, m) => Counted(d, m)'
      BY <2>2, <1>4, <1>6, <1>7 DEF Counted
    <3> QED  BY <2>2, <3>1, <3>2, <1>6, <1>8 DEF MetricsInv, Followed
  <2>3. CASE d = c /\ m = n
    <3>1. CASE <<c, n>> \in queue
      BY <2>3, <3>1, <1>6 DEF Followed
    <3>2. CASE [name |-> n, seen |-> object[<<c, n>>]] \in busy[c]
      <4>1. o = object[<<c, n>>]
        BY <3>2, <1>2, <1>3
      <4>2. Counted(c, n)'
        BY <4>1, <1>4, <1>5, <1>6, <1>7 DEF Counted
      <4> QED  BY <2>3, <4>2, <1>8 DEF Followed
    <3>3. \E x \in busy[c] : x.name = n
      BY <1>2, <1>3
    <3> QED  BY <2>3, <3>1, <3>2, <3>3 DEF MetricsInv, Followed
  <2> QED  BY <2>1, <2>2, <2>3
<1>11. \A d \in Reconcilers : total'[d] = Cardinality(DOMAIN counts'[d])
  BY <1>4, <1>6, <1>7 DEF MetricsInv, MetricsTypeOK
<1>12. pending' = SumOf(counts'[Lifecycle])
  BY <1>4, <1>6, <1>7 DEF MetricsInv, Reconcilers
<1>13. pending' = SumOf(counts[Lifecycle])'
  BY <1>12 DEF SumOf, MapThenFoldSet
<1> QED
  BY <1>9, <1>10, <1>11, <1>13 DEF MetricsInv

\* A failed read puts its key back.
LEMMA FailKeeps ==
    ASSUME MetricsTypeOK, MetricsInv, NEW c \in Reconcilers, Fail(c)
    PROVE  MetricsTypeOK' /\ MetricsInv'
<1>1. PICK w \in busy[c] : queue' = queue \cup {<<c, w.name>>}
  BY DEF Fail
<1>2. busy[c] = {w} /\ w.name \in ObjectNames
  BY <1>1 DEF MetricsTypeOK
<1>3. busy'[c] = {} /\ \A d \in Reconcilers \ {c} : busy'[d] = busy[d]
  BY DEF Fail, MetricsTypeOK
<1>4. MetricsTypeOK'
  <2>1. \A d \in Reconcilers : \/ busy'[d] = {}
                               \/ \E x \in [name : ObjectNames, seen : Objects(d)] : busy'[d] = {x}
    BY <1>3 DEF MetricsTypeOK
  <2>2. queue' \subseteq ObjectKeys
    BY <1>1, <1>2 DEF MetricsTypeOK, ObjectKeys
  <2>3. DOMAIN busy' = Reconcilers /\ failures' \in Nat
    BY DEF MetricsTypeOK, Fail
  <2> QED  BY <2>1, <2>2, <2>3 DEF MetricsTypeOK, Fail
<1>5. ASSUME NEW d \in Reconcilers, NEW m \in ObjectNames
      PROVE  Followed(d, m)'
  <2>1. Counted(d, m) => Counted(d, m)'
    BY DEF Counted, Fail
  <2>2. CASE d # c
    BY <2>1, <2>2, <1>1, <1>3 DEF MetricsInv, Followed, Fail
  <2>3. CASE d = c /\ m = w.name
    BY <2>3, <1>1 DEF Followed
  <2>4. CASE d = c /\ m # w.name
    <3>1. [name |-> m, seen |-> object[<<d, m>>]] # w
      BY <2>4
    <3> QED  BY <2>1, <2>4, <3>1, <1>1, <1>2, <1>3 DEF MetricsInv, Followed
  <2> QED  BY <2>2, <2>3, <2>4
<1> QED
  BY <1>4, <1>5 DEF MetricsInv, Fail

\* An object changes, and its event queues its key.
LEMMA ChangeKeeps ==
    ASSUME MetricsTypeOK, MetricsInv, NEW c \in Reconcilers, NEW n \in ObjectNames, Change(c, n)
    PROVE  MetricsTypeOK' /\ MetricsInv'
<1>1. PICK o \in Objects(c) : object' = [object EXCEPT ![<<c, n>>] = o]
  BY DEF Change
<1>2. \A d \in Reconcilers, m \in ObjectNames :
         object'[<<d, m>>] = IF d = c /\ m = n THEN o ELSE object[<<d, m>>]
  BY <1>1 DEF MetricsTypeOK, ObjectKeys
<1>3. MetricsTypeOK'
  <2>1. DOMAIN object' = ObjectKeys
    BY <1>1 DEF MetricsTypeOK
  <2>2. \A d \in Reconcilers, m \in ObjectNames : object'[<<d, m>>] \in Objects(d)
    BY <1>2 DEF MetricsTypeOK
  <2>3. queue' \subseteq ObjectKeys /\ changes' \in Nat
    BY DEF MetricsTypeOK, ObjectKeys, Change
  <2> QED  BY <2>1, <2>2, <2>3 DEF MetricsTypeOK, Change
<1>4. ASSUME NEW d \in Reconcilers, NEW m \in ObjectNames
      PROVE  Followed(d, m)'
  <2>1. CASE d = c /\ m = n
    BY <2>1 DEF Change, Followed
  <2>2. CASE ~(d = c /\ m = n)
    <3>1. object'[<<d, m>>] = object[<<d, m>>] /\ busy' = busy /\ counts' = counts
      BY <2>2, <1>2 DEF Change
    <3>2. Counted(d, m) => Counted(d, m)'
      BY <3>1 DEF Counted
    <3> QED  BY <3>1, <3>2 DEF MetricsInv, Followed, Change
  <2> QED  BY <2>1, <2>2
<1> QED
  BY <1>4, <1>3 DEF MetricsInv, Change

\* A new manager counts from nothing, with every object that exists queued.
LEMMA RestartKeeps ==
    ASSUME MetricsTypeOK, MetricsInv, Restart
    PROVE  MetricsTypeOK' /\ MetricsInv'
<1>1. Empty \in [{} -> 0 .. MaxPending] /\ DOMAIN Empty = {}
  BY DEF Empty
<1>2. \A c \in Reconcilers : counts'[c] = Empty /\ busy'[c] = {} /\ total'[c] = 0
  BY DEF Restart
<1>3. MetricsTypeOK'
  <2>1. \A c \in Reconcilers : \E S \in SUBSET ObjectNames : counts'[c] \in [S -> 0 .. MaxPending]
    BY <1>1, <1>2
  <2>2. /\ DOMAIN busy' = Reconcilers /\ DOMAIN counts' = Reconcilers /\ DOMAIN total' = Reconcilers
        /\ queue' \subseteq ObjectKeys /\ restarts' \in Nat
    BY DEF MetricsTypeOK, Restart
  <2> QED  BY <1>2, <2>1, <2>2 DEF MetricsTypeOK, Restart
<1>4. ASSUME NEW c \in Reconcilers, NEW n \in ObjectNames
      PROVE  Followed(c, n)'
  <2>1. CASE object[<<c, n>>] = Absent
    <3>1. object'[<<c, n>>].state = "absent" /\ DOMAIN counts'[c] = {}
      BY <2>1, <1>1, <1>2 DEF Absent, Restart
    <3>2. Counted(c, n)'
      BY <3>1 DEF Counted
    <3> QED  BY <3>2, <1>2 DEF Followed
  <2>2. CASE object[<<c, n>>] # Absent
    BY <2>2 DEF Followed, Restart, ObjectKeys
  <2> QED  BY <2>1, <2>2
<1>5. \A c \in Reconcilers : total'[c] = Cardinality(DOMAIN counts'[c])
  BY <1>1, <1>2, FS_EmptySet
<1>6. pending' = SumOf(counts[Lifecycle])'
  <2>1. counts'[Lifecycle] = Empty /\ pending' = 0
    BY <1>2 DEF Reconcilers, Restart
  <2>2. SumOf(counts[Lifecycle])' = SumOf(counts'[Lifecycle])
    BY DEF SumOf, MapThenFoldSet
  <2> QED  BY <2>1, <2>2, SumOfEmpty
<1> QED
  BY <1>3, <1>4, <1>5, <1>6 DEF MetricsInv

\* Every reachable state of the metrics has its type and satisfies MetricsInv.
LEMMA Inductive == MetricsSpec => [](MetricsTypeOK /\ MetricsInv)
<1>1. ASSUME MetricsTypeOK, MetricsInv, [MetricsNext]_metricsVars
      PROVE  MetricsTypeOK' /\ MetricsInv'
  <2>1. CASE UNCHANGED metricsVars
    <3>1. /\ object' = object /\ queue' = queue /\ busy' = busy /\ counts' = counts
          /\ total' = total /\ pending' = pending
          /\ changes' = changes /\ failures' = failures /\ restarts' = restarts
      BY <2>1 DEF metricsVars
    <3>2. MetricsTypeOK'
      BY <1>1, <3>1 DEF MetricsTypeOK
    <3>3. ASSUME NEW c \in Reconcilers, NEW n \in ObjectNames
          PROVE  Followed(c, n)'
      BY <1>1, <3>1 DEF MetricsInv, Followed, Counted
    <3>4. SumOf(counts[Lifecycle])' = SumOf(counts[Lifecycle])
      BY <3>1 DEF SumOf, MapThenFoldSet
    <3> QED  BY <1>1, <3>1, <3>2, <3>3, <3>4 DEF MetricsInv
  <2> QED
    BY <1>1, <2>1, GetKeeps, ChangeKeeps, FinishKeeps, FailKeeps, RestartKeeps DEF MetricsNext
<1> QED
  BY <1>1, Started, PTL DEF MetricsSpec

-----------------------------------------------------------------------------
\* A settled state in which the invariant holds has the right gauges: nothing
\* is queued or held, so every key is counted as its object calls for.
LEMMA SettledGauges == MetricsTypeOK /\ MetricsInv => GaugesTrack
<1> SUFFICES ASSUME MetricsTypeOK, MetricsInv, Settled
             PROVE  /\ \A c \in Reconcilers :
                          /\ total[c] >= Cardinality(In(c, "counted"))
                          /\ total[c] <= Cardinality(In(c, "counted") \cup In(c, "invalid"))
                    /\ \E S \in SUBSET In(Lifecycle, "invalid") :
                          \E f \in [In(Lifecycle, "counted") \cup S -> 0 .. MaxPending] :
                              /\ \A n \in In(Lifecycle, "counted") :
                                    f[n] = object[<<Lifecycle, n>>].pending
                              /\ pending = SumOf(f)
  BY DEF GaugesTrack
<1>1. ASSUME NEW c \in Reconcilers, NEW n \in ObjectNames
      PROVE  Counted(c, n)
  BY DEF MetricsInv, Followed, Settled
<1>2. ASSUME NEW c \in Reconcilers
      PROVE  /\ In(c, "counted") \subseteq DOMAIN counts[c]
             /\ DOMAIN counts[c] \subseteq In(c, "counted") \cup In(c, "invalid")
             /\ \A n \in In(c, "counted") : counts[c][n] = object[<<c, n>>].pending
             /\ \E S \in SUBSET ObjectNames : counts[c] \in [S -> 0 .. MaxPending]
  <2>1. DOMAIN counts[c] \subseteq ObjectNames
    BY DEF MetricsTypeOK
  <2>2. ASSUME NEW n \in ObjectNames
        PROVE  object[<<c, n>>].state \in {"absent", "other", "invalid", "counted"}
    BY DEF MetricsTypeOK, Objects, Uncounted
  <2>3. ASSUME NEW n \in DOMAIN counts[c]
        PROVE  n \in In(c, "counted") \cup In(c, "invalid")
    BY <1>1, <2>1, <2>2 DEF Counted, In
  <2>4. ASSUME NEW n \in In(c, "counted")
        PROVE  n \in DOMAIN counts[c] /\ counts[c][n] = object[<<c, n>>].pending
    BY <1>1 DEF Counted, In
  <2> QED  BY <2>3, <2>4 DEF MetricsTypeOK
<1>3. ASSUME NEW c \in Reconcilers
      PROVE  /\ total[c] >= Cardinality(In(c, "counted"))
             /\ total[c] <= Cardinality(In(c, "counted") \cup In(c, "invalid"))
  <2> DEFINE all == In(c, "counted") \cup In(c, "invalid")
  <2>1. IsFiniteSet(all)
    BY MetricsAssumption, FS_Subset DEF In
  <2>2. IsFiniteSet(DOMAIN counts[c]) /\ Cardinality(DOMAIN counts[c]) <= Cardinality(all)
    BY <1>2, <2>1, FS_Subset
  <2>3. Cardinality(In(c, "counted")) <= Cardinality(DOMAIN counts[c])
    BY <1>2, <2>2, FS_Subset
  <2>4. /\ Cardinality(all) \in Nat /\ Cardinality(DOMAIN counts[c]) \in Nat
        /\ Cardinality(In(c, "counted")) \in Nat
    BY <1>2, <2>1, <2>2, FS_Subset, FS_CardinalityType
  <2> QED  BY <2>2, <2>3, <2>4 DEF MetricsInv
<1>4. \E S \in SUBSET In(Lifecycle, "invalid") :
         \E f \in [In(Lifecycle, "counted") \cup S -> 0 .. MaxPending] :
             /\ \A n \in In(Lifecycle, "counted") : f[n] = object[<<Lifecycle, n>>].pending
             /\ pending = SumOf(f)
  <2> DEFINE S == DOMAIN counts[Lifecycle] \ In(Lifecycle, "counted")
  <2>1. Lifecycle \in Reconcilers
    BY DEF Reconcilers
  <2>2. S \in SUBSET In(Lifecycle, "invalid") /\ In(Lifecycle, "counted") \cup S = DOMAIN counts[Lifecycle]
    BY <1>2, <2>1
  <2>3. counts[Lifecycle] \in [In(Lifecycle, "counted") \cup S -> 0 .. MaxPending]
    BY <1>2, <2>1, <2>2
  <2>4. \A n \in In(Lifecycle, "counted") : counts[Lifecycle][n] = object[<<Lifecycle, n>>].pending
    BY <1>2, <2>1
  <2>5. pending = SumOf(counts[Lifecycle])
    BY DEF MetricsInv
  <2> QED  BY <2>2, <2>3, <2>4, <2>5
<1> QED
  BY <1>3, <1>4

\* Whatever was edited, re-read or restarted on the way, once the controllers
\* have caught up the gauges count every object that is managed and none that
\* is gone, disabled or foreign.
THEOREM GaugesRight == MetricsSpec => []GaugesTrack
BY Inductive, SettledGauges, PTL
=============================================================================
