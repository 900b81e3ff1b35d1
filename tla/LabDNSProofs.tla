---------------------------- MODULE LabDNSProofs ----------------------------
(***************************************************************************)
(* Proofs about LabDNS for every set of targets and providers and every     *)
(* bound: types, coherence of the copies of an object, failing closed, the  *)
(* refinement of RetirementContract, and that labdns neither corrupts its   *)
(* own objects nor forgets a deadline.                                      *)
(***************************************************************************)
EXTENDS LabDNS, TLAPS

-----------------------------------------------------------------------------
(***************************************************************************)
(* Operators of the writer.                                                 *)
(***************************************************************************)

\* There is an object record for "no object" (a NotFound answer).
LEMMA AbsentType ==
    /\ Absent \in ObjectOrAbsent
    /\ Absent.spec = {} /\ Absent.delay = 0 /\ Absent.uid = 0
    /\ Absent.deadline = [t \in Targets |-> NotPending]
    /\ Absent.flaws = {}
    /\ ~Exists(Absent)
BY DEF Absent, ObjectOrAbsent, NotPending, Exists

\* The fields of an object have their type, and so have those of "no object".
LEMMA FieldTypes ==
    ASSUME NEW o \in ObjectOrAbsent
    PROVE  /\ o.spec \in SUBSET Targets
           /\ o.deadline \in [Targets -> Nat \cup {NotPending}]
           /\ o.delay \in Nat
           /\ o.uid \in Nat
           /\ Exists(o) <=> o \in Object
           /\ ~Exists(o) <=> o = Absent
<1>1. CASE o = Absent
  <2>1. o \notin Object
    BY <1>1, AbsentType DEF Object, Exists
  <2>2. QED BY <1>1, <2>1, AbsentType
<1>2. CASE o \in Object
  BY <1>2, AbsentType DEF Object, Exists
<1>3. QED BY <1>1, <1>2 DEF ObjectOrAbsent

\* What Writer.build returns is an object again.
LEMMA BuildType ==
    ASSUME NEW o \in ObjectOrAbsent, NEW pub \in Publication, NEW u \in Nat, NEW time \in Nat
    PROVE  Build(o, pub, u, time) \in ObjectOrAbsent
<1> DEFINE kept == {t \in Targets : Kept(o, pub, time, t)}
           dl == [t \in Targets |-> IF t \in kept THEN RetireAt(o, pub, time, t)
                                                  ELSE NotPending]
<1>1. \A t \in Targets : RetireAt(o, pub, time, t) \in Nat \cup {NotPending}
  BY FieldTypes DEF RetireAt, StoredDelay, Publication, NotPending
<1>2. dl \in [Targets -> Nat \cup {NotPending}]
  BY <1>1
<1>3. pub.targets \cup kept \in SUBSET Targets
  BY DEF Publication
<1>4. (IF pub.targets # {} THEN pub.delay ELSE o.delay) \in Nat
  BY FieldTypes DEF Publication
<1>5. (IF u # 0 THEN u ELSE o.uid) \in Nat
  BY FieldTypes
<1> HIDE DEF dl, kept
<1>6. [exists |-> TRUE, flaws |-> {}, spec |-> pub.targets \cup kept, deadline |-> dl,
       delay |-> IF pub.targets # {} THEN pub.delay ELSE o.delay,
       uid |-> IF u # 0 THEN u ELSE o.uid] \in Object
  BY <1>2, <1>3, <1>4, <1>5 DEF Object
<1>7. QED BY <1>6, AbsentType DEF Build, ObjectOrAbsent, dl, kept

\* What Writer.Advance writes is an object again.
LEMMA AdvancedType ==
    ASSUME NEW o \in ObjectOrAbsent, NEW time \in Nat
    PROVE  Advanced(o, time) \in ObjectOrAbsent
<1> DEFINE dl == [t \in Targets |-> IF t \in Expired(o, time) THEN NotPending
                                                            ELSE o.deadline[t]]
<1>1. dl \in [Targets -> Nat \cup {NotPending}]
  BY FieldTypes
<1>2. o.spec \ Expired(o, time) \in SUBSET Targets
  BY FieldTypes
<1> HIDE DEF dl
<1>3. CASE o = Absent
  BY <1>3, AbsentType DEF Advanced
<1>4. CASE o \in Object
  <2>1. [o EXCEPT !.spec = o.spec \ Expired(o, time), !.deadline = dl] \in Object
    BY <1>1, <1>2, <1>4 DEF Object
  <2>2. QED BY <2>1, AbsentType DEF Advanced, ObjectOrAbsent, dl
<1>5. QED BY <1>3, <1>4 DEF ObjectOrAbsent

\* Advance returns no negative delay.
LEMMA NextWakeType ==
    ASSUME NEW o \in ObjectOrAbsent, NEW time \in Nat, NEW n \in Nat
    PROVE  NextWake(o, time, n) \subseteq Nat
<1>1. Remaining(o, time) \subseteq Nat
  BY FieldTypes DEF Remaining, Pending, Expired, NotPending
<1>2. QED BY <1>1 DEF NextWake

\* A user's edit of an object leaves an object.
LEMMA TamperedType ==
    ASSUME NEW o \in Object, NEW kind \in Tampering
    PROVE  Tampered(o, kind) \subseteq ObjectOrAbsent
<1>1. ASSUME NEW f \in Flaws
      PROVE  Toggled(o, f) \in Object
  BY <1>1 DEF Toggled, Object
<1>2. \A u \in 0 .. MaxUid : [o EXCEPT !.uid = u] \in Object
  <2>1. \A u \in Nat : [o EXCEPT !.uid = u] \in Object
    BY DEF Object
  <2>2. QED BY <2>1, BoundsAssumption
<1>3. \A t \in SUBSET Targets : [o EXCEPT !.spec = t] \in Object
  BY DEF Object
<1>4. CASE kind = "corrupt"
  BY <1>1, <1>4 DEF Tampered, ObjectOrAbsent, Flaws, AnnotationFlaws
<1>5. CASE kind = "relabel"
  BY <1>1, <1>5 DEF Tampered, ObjectOrAbsent, Flaws
<1>6. CASE kind = "identity"
  BY <1>1, <1>2, <1>6 DEF Tampered, ObjectOrAbsent, Flaws, AnnotationFlaws
<1>7. CASE kind = "edit"
  BY <1>3, <1>7 DEF Tampered, ObjectOrAbsent
<1>8. CASE kind = "remove"
  BY <1>8, AbsentType DEF Tampered
<1>9. QED BY <1>4, <1>5, <1>6, <1>7, <1>8 DEF Tampering, Corrupting

\* The resolver's publications have their type.
LEMMA PublicationsType ==
    ASSUME NEW s \in Source, NEW d \in [Providers -> Dependency]
    PROVE  Publications(s, d) \in [Providers -> Publication]
<1>1. ASSUME NEW p \in Providers
      PROVE  d[p].targets \in SUBSET Targets /\ d[p].delay \in Nat
  <2>1. d[p] \in Dependency
    OBVIOUS
  <2>2. CASE d[p] = Missing
    BY <2>2 DEF Missing
  <2>3. CASE d[p] \in [found : {TRUE}, targets : SUBSET Targets, delay : Delays]
    BY <2>3, DelaysAssumption
  <2>4. QED BY <2>1, <2>2, <2>3 DEF Dependency
<1>2. NoPublication \in Publication
  BY DEF NoPublication, Publication
<1>3. QED BY <1>1, <1>2 DEF Publications, Publication

LEMMA NoWantType == NoWant \in [Providers -> Publication]
BY DEF NoWant, NoPublication, Publication

-----------------------------------------------------------------------------
(***************************************************************************)
(* Types.                                                                   *)
(***************************************************************************)

\* The parts of the state a worker's bookkeeping touches stay typed.
LEMMA NoAttemptType ==
    ASSUME TypeOK, NEW w \in Workers, NoAttempt(w)
    PROVE  /\ tries' \in [Workers -> 0 .. MaxAttempts - 1]
           /\ held' \in [Workers -> ObjectOrAbsent]
           /\ at' \in [Workers -> Nat]
BY AbsentType, BoundsAssumption DEF TypeOK, NoAttempt

LEMMA IdleType ==
    ASSUME TypeOK, NEW w \in Workers, Idle(w)
    PROVE  /\ pc' \in [Workers -> {"idle", "list", "get", "write", "advance", "expire"}]
           /\ uid' \in [Workers -> Nat]
           /\ want' \in [Workers -> [Providers -> Publication]]
           /\ todo' \in [Workers -> SUBSET Providers]
           /\ tries' \in [Workers -> 0 .. MaxAttempts - 1]
           /\ held' \in [Workers -> ObjectOrAbsent]
           /\ at' \in [Workers -> Nat]
           /\ key' \in Providers \cup {NoKey}
           /\ next' \in Nat
BY NoWantType, NoAttemptType DEF TypeOK, Idle

LEMMA RequeueType ==
    ASSUME TypeOK, NEW w \in Workers, Requeue(w)
    PROVE  /\ srcQueued' \in BOOLEAN
           /\ due' \in [Providers -> Nat \cup {Never}]
BY DEF TypeOK, Requeue

LEMMA ProceedType ==
    ASSUME TypeOK, NEW w \in Workers, NEW rest \in SUBSET Providers, Proceed(w, rest)
    PROVE  /\ pc' \in [Workers -> {"idle", "list", "get", "write", "advance", "expire"}]
           /\ uid' \in [Workers -> Nat]
           /\ want' \in [Workers -> [Providers -> Publication]]
           /\ todo' \in [Workers -> SUBSET Providers]
           /\ tries' \in [Workers -> 0 .. MaxAttempts - 1]
           /\ held' \in [Workers -> ObjectOrAbsent]
           /\ at' \in [Workers -> Nat]
           /\ key' \in Providers \cup {NoKey}
           /\ next' \in Nat
           /\ srcQueued' \in BOOLEAN
           /\ due' \in [Providers -> Nat \cup {Never}]
<1>1. CASE rest # {}
  <2>1. /\ pc' = [pc EXCEPT ![w] = "get"]
        /\ todo' = [todo EXCEPT ![w] = rest]
        /\ NoAttempt(w)
        /\ uid' = uid /\ want' = want /\ key' = key /\ next' = next
        /\ srcQueued' = srcQueued /\ due' = due
    BY <1>1 DEF Proceed, queues
  <2>2. QED BY <2>1, NoAttemptType DEF TypeOK
<1>2. CASE rest = {} /\ w = "source"
  BY <1>2, IdleType DEF Proceed, Stop, queues, TypeOK
<1>3. CASE rest = {} /\ w = "lifecycle"
  BY <1>3, NoAttemptType DEF Proceed, TypeOK, queues
<1>4. QED BY <1>1, <1>2, <1>3 DEF Workers

LEMMA FinishType ==
    ASSUME TypeOK, NEW n \in Nat, Finish(n)
    PROVE  /\ srcQueued' \in BOOLEAN
           /\ due' \in [Providers -> Nat \cup {Never}]
<1>1. \A a \in Nat \cup {Never} : Sooner(a, now + n) \in Nat
  BY DEF Sooner, TypeOK, Never
<1>2. QED BY <1>1 DEF TypeOK, Finish

LEMMA StoreType ==
    ASSUME TypeOK, NEW p \in Providers, NEW o \in ObjectOrAbsent, Store(p, o)
    PROVE  /\ api' \in [Providers -> ObjectOrAbsent]
           /\ written' \in [Providers -> Nat]
           /\ cached' \in [Providers -> ObjectOrAbsent]
           /\ fresh' \in [Providers -> SUBSET (Workers \cup {"cache"})]
BY DEF TypeOK, Store

LEMMA HoldType ==
    ASSUME TypeOK, NEW p \in Providers, NEW w \in Workers, Hold(w, p)
    PROVE  /\ held' \in [Workers -> ObjectOrAbsent]
           /\ fresh' \in [Providers -> SUBSET (Workers \cup {"cache"})]
           /\ at' \in [Workers -> Nat]
BY DEF TypeOK, Hold

LEMMA OutcomeType ==
    ASSUME TypeOK, NEW p \in Providers, NEW w \in Workers
    PROVE  Outcome(w, p) \in ObjectOrAbsent
<1>1. /\ held[w] \in ObjectOrAbsent /\ want[w][p] \in Publication
      /\ uid[w] \in Nat /\ at[w] \in Nat
  BY DEF TypeOK
<1>2. QED BY <1>1, BuildType, AdvancedType DEF Outcome

-----------------------------------------------------------------------------
(***************************************************************************)
(* TypeOK is inductive: one lemma per group of actions.                     *)
(***************************************************************************)
LEMMA InformType ==
    ASSUME TypeOK, Inform
    PROVE  TypeOK'
<1>1. ASSUME NEW p \in Providers, SyncObject(p)
      PROVE  TypeOK'
  BY <1>1 DEF SyncObject, TypeOK, inputs, job, attempt, world
<1>2. CASE SyncSource
  BY <1>2 DEF SyncSource, TypeOK, cluster, job, attempt, world
<1>3. CASE SyncDeps
  BY <1>3 DEF SyncDeps, TypeOK, cluster, job, attempt, world
<1>4. QED BY <1>1, <1>2, <1>3 DEF Inform

LEMMA SourceReconcileType ==
    ASSUME TypeOK, SourceReconcile
    PROVE  TypeOK'
<1>1. Publications(seenSrc, seenDeps) \in [Providers -> Publication]
  BY PublicationsType DEF TypeOK
<1>2. seenSrc.uid \in Nat
  BY DEF TypeOK, Source
<1>3. /\ pc' \in [Workers -> {"idle", "list", "get", "write", "advance", "expire"}]
      /\ uid' \in [Workers -> Nat]
      /\ want' \in [Workers -> [Providers -> Publication]]
      /\ srcQueued' \in BOOLEAN
  <2>1. CASE UNCHANGED <<uid, want>>
    BY <2>1 DEF SourceReconcile, TypeOK
  <2>2. CASE /\ uid' = [uid EXCEPT !["source"] = seenSrc.uid]
             /\ want' = [want EXCEPT !["source"] = Publications(seenSrc, seenDeps)]
    BY <1>1, <1>2, <2>2 DEF SourceReconcile, TypeOK
  <2>3. QED BY <2>1, <2>2 DEF SourceReconcile
<1>4. QED BY <1>3 DEF SourceReconcile, TypeOK, cluster, inputs, attempt, world

LEMMA LifecycleReconcileType ==
    ASSUME TypeOK, NEW p \in Providers, LifecycleReconcile(p)
    PROVE  TypeOK'
<1>1. cached[p].uid \in Nat
  BY FieldTypes DEF TypeOK
<1>2. QED BY <1>1 DEF LifecycleReconcile, TypeOK, cluster, inputs, attempt, world, Workers

LEMMA ApplyListType ==
    ASSUME TypeOK, NEW w \in Workers, ApplyList(w)
    PROVE  TypeOK'
<1> DEFINE all == {p \in Providers : Listed(cached[p])}
                  \cup {p \in Providers : want[w][p].selected}
<1>1. all \in SUBSET Providers
  OBVIOUS
<1>2. CASE Stop(w)
  BY <1>2, IdleType DEF ApplyList, Stop, TypeOK, cluster, inputs, world, queues
<1>3. CASE Proceed(w, all)
  BY <1>1, <1>3, ProceedType DEF ApplyList, TypeOK, cluster, inputs, world
<1>4. QED BY <1>2, <1>3 DEF ApplyList

LEMMA ApplyGetType ==
    ASSUME TypeOK, NEW w \in Workers, NEW p \in Providers, ApplyGet(w, p)
    PROVE  TypeOK'
<1>1. todo[w] \ {p} \in SUBSET Providers
  BY DEF TypeOK
<1>2. CASE Stop(w) /\ UNCHANGED fresh
  BY <1>2, IdleType DEF ApplyGet, Stop, TypeOK, inputs, world, queues
<1>3. CASE Proceed(w, todo[w] \ {p}) /\ UNCHANGED fresh
  BY <1>1, <1>3, ProceedType DEF ApplyGet, TypeOK, inputs, world
<1>4. CASE /\ pc' = [pc EXCEPT ![w] = "write"]
           /\ Hold(w, p)
           /\ UNCHANGED <<queues, job, tries, key, next>>
  BY <1>4, HoldType DEF ApplyGet, TypeOK, inputs, world, queues, job
<1>5. QED BY <1>2, <1>3, <1>4 DEF ApplyGet

LEMMA AdvanceGetType ==
    ASSUME TypeOK, NEW p \in Providers, AdvanceGet(p)
    PROVE  TypeOK'
<1>1. NextWake(cached[p], now, next) \subseteq Nat
  BY NextWakeType DEF TypeOK
<1>2. ASSUME NEW n \in Nat, Finish(n), UNCHANGED fresh
      PROVE  TypeOK'
  BY <1>2, IdleType, FinishType DEF AdvanceGet, Finish, TypeOK, inputs, world, Workers
<1>3. CASE Stop("lifecycle") /\ UNCHANGED fresh
  BY <1>3, IdleType DEF AdvanceGet, Stop, TypeOK, inputs, world, queues, Workers
<1>4. ASSUME NEW n \in Nat,
             pc' = [pc EXCEPT !["lifecycle"] = "expire"],
             next' = n,
             Hold("lifecycle", p),
             UNCHANGED <<queues, job, tries, key>>
      PROVE  TypeOK'
  BY <1>4, HoldType DEF AdvanceGet, TypeOK, inputs, world, queues, job, Workers
<1>5. next \in Nat
  BY DEF TypeOK
<1>6. QED BY <1>1, <1>2, <1>3, <1>4, <1>5 DEF AdvanceGet

LEMMA AnswerType ==
    ASSUME TypeOK, NEW w \in Workers, Answer(w)
    PROVE  TypeOK'
<1> PICK p \in Providers : \/ Commit(w, p)
                           \/ LoseReply(w, p)
                           \/ Retry(w, p)
                           \/ Fail(w, p)
  BY DEF Answer
<1>1. CASE Commit(w, p)
  <2>1. todo[w] \ {p} \in SUBSET Providers /\ next \in Nat
    BY DEF TypeOK
  <2>2. CASE Proceed(w, todo[w] \ {p})
    BY <1>1, <2>1, <2>2, OutcomeType, StoreType, ProceedType DEF Commit, TypeOK, inputs, world
  <2>3. CASE pc[w] = "expire" /\ Finish(next)
    BY <1>1, <2>1, <2>3, OutcomeType, StoreType, FinishType, IdleType
       DEF Commit, Finish, TypeOK, inputs, world, Workers
  <2>4. QED BY <1>1, <2>2, <2>3 DEF Commit
<1>2. CASE LoseReply(w, p)
  BY <1>2, OutcomeType, StoreType, RequeueType, IdleType DEF LoseReply, Requeue, TypeOK, inputs, world
<1>3. CASE Retry(w, p)
  <2>1. CASE Requeue(w)
    BY <1>3, <2>1, RequeueType, IdleType DEF Retry, Requeue, TypeOK, inputs, world, cluster
  <2>2. CASE ~Requeue(w)
    <3>1. /\ tries[w] + 1 < MaxAttempts
          /\ pc' = [pc EXCEPT ![w] = IF @ = "write" THEN "get" ELSE "advance"]
          /\ tries' = [tries EXCEPT ![w] = @ + 1]
          /\ held' = [held EXCEPT ![w] = Absent]
          /\ at' = [at EXCEPT ![w] = 0]
          /\ UNCHANGED <<queues, job, key, next>>
      BY <1>3, <2>2 DEF Retry
    <3>2. tries' \in [Workers -> 0 .. MaxAttempts - 1]
      BY <3>1, BoundsAssumption DEF TypeOK
    <3>3. held' \in [Workers -> ObjectOrAbsent] /\ at' \in [Workers -> Nat]
      BY <3>1, AbsentType DEF TypeOK
    <3>4. pc' \in [Workers -> {"idle", "list", "get", "write", "advance", "expire"}]
      BY <3>1 DEF TypeOK
    <3>5. QED BY <1>3, <3>1, <3>2, <3>3, <3>4 DEF Retry, TypeOK, inputs, world, cluster, queues, job
  <2>3. QED BY <2>1, <2>2
<1>4. CASE Fail(w, p)
  BY <1>4, RequeueType, IdleType DEF Fail, Requeue, TypeOK, inputs, world
<1>5. QED BY <1>1, <1>2, <1>3, <1>4

LEMMA WorldType ==
    ASSUME TypeOK, World
    PROVE  TypeOK'
<1> USE DEF ChangeSource, Disturb
<1>1. CASE Tick
  BY <1>1 DEF Tick, TypeOK, world, cluster, inputs, queues, job, attempt
<1>2. ASSUME NEW s \in Source, ChangeSource(s), disturbances' = disturbances + 1, tampered' \in BOOLEAN
      PROVE  TypeOK'
  BY <1>2 DEF TypeOK, cluster, queues, job, attempt
<1>3. CASE EditSource
  <2> PICK s \in SUBSET Providers : ChangeSource([src EXCEPT !.sel = s, !.bad = FALSE])
    BY <1>3 DEF EditSource
  <2>1. [src EXCEPT !.sel = s, !.bad = FALSE] \in Source
    BY DEF TypeOK, Source
  <2>2. QED BY <1>2, <1>3, <2>1 DEF EditSource
<1>4. CASE BreakSource
  <2>1. [src EXCEPT !.bad = TRUE] \in Source
    BY DEF TypeOK, Source
  <2>2. QED BY <1>2, <1>4, <2>1 DEF BreakSource
<1>5. CASE DeleteSource
  <2>1. [src EXCEPT !.live = FALSE, !.bad = FALSE] \in Source
    BY DEF TypeOK, Source
  <2>2. QED BY <1>2, <1>5, <2>1 DEF DeleteSource
<1>6. CASE CreateSource
  <2> PICK b \in BOOLEAN : ChangeSource([src EXCEPT !.live = TRUE, !.uid = @ + 1, !.bad = b])
    BY <1>6 DEF CreateSource
  <2>1. [src EXCEPT !.live = TRUE, !.uid = @ + 1, !.bad = b] \in Source
    <3>1. src \in Source
      BY DEF TypeOK
    <3>2. src.uid + 1 \in Nat \ {0}
      BY <3>1 DEF Source
    <3>3. ASSUME NEW n \in Nat \ {0}
          PROVE  [src EXCEPT !.live = TRUE, !.uid = n, !.bad = b] \in Source
      BY <3>1 DEF Source
    <3>4. QED BY <3>2, <3>3
  <2>2. QED BY <1>2, <1>6, <2>1 DEF CreateSource
<1>7. ASSUME NEW p \in Providers, ChangeDeps(p)
      PROVE  TypeOK'
  BY <1>7 DEF ChangeDeps, TypeOK, cluster, queues, job, attempt
<1>8. ASSUME NEW p \in Providers, UpdateStatus(p)
      PROVE  TypeOK'
  <2>1. api[p] \in ObjectOrAbsent
    BY DEF TypeOK
  <2>2. QED BY <1>8, <2>1, StoreType DEF UpdateStatus, TypeOK, inputs, queues, job, attempt
<1>9. ASSUME NEW p \in Providers, NEW kind \in Tampering, Tamper(p, kind)
      PROVE  TypeOK'
  <2> PICK o \in Tampered(api[p], kind) : Store(p, o)
    BY <1>9 DEF Tamper
  <2>1. o \in ObjectOrAbsent
    BY <1>9, TamperedType, FieldTypes DEF TypeOK, Tamper
  <2>2. QED BY <1>9, <2>1, StoreType DEF Tamper, TypeOK, inputs, queues, job, attempt
<1>10. ASSUME NEW g \in BOOLEAN, Restart(g)
       PROVE  TypeOK'
  <2>1. /\ due' \in [Providers -> Nat \cup {Never}]
        /\ srcQueued' \in BOOLEAN
        /\ fresh' \in [Providers -> SUBSET (Workers \cup {"cache"})]
        /\ disturbances' \in Nat /\ tampered' \in BOOLEAN
    BY <1>10 DEF Restart, TypeOK
  <2>2. /\ tries' \in [Workers -> 0 .. MaxAttempts - 1]
        /\ held' \in [Workers -> ObjectOrAbsent]
        /\ want' \in [Workers -> [Providers -> Publication]]
    BY <1>10, AbsentType, NoWantType, BoundsAssumption DEF Restart
  <2>3. QED BY <1>10, <2>1, <2>2 DEF Restart, TypeOK
<1>11. QED
  BY <1>1, <1>3, <1>4, <1>5, <1>6, <1>7, <1>8, <1>9, <1>10 DEF World

LEMMA InitType == Init => TypeOK
<1> SUFFICES ASSUME Init PROVE TypeOK
  OBVIOUS
<1> PICK d \in [Providers -> Dependency] :
           Start([p \in Providers |-> Absent],
                 [live |-> TRUE, uid |-> 1, bad |-> FALSE, sel |-> Providers], d)
  BY DEF Init
<1>1. [live |-> TRUE, uid |-> 1, bad |-> FALSE, sel |-> Providers] \in Source
  BY DEF Source
<1>2. /\ tries \in [Workers -> 0 .. MaxAttempts - 1]
      /\ held \in [Workers -> ObjectOrAbsent]
      /\ want \in [Workers -> [Providers -> Publication]]
      /\ api \in [Providers -> ObjectOrAbsent]
  BY AbsentType, NoWantType, BoundsAssumption DEF Start
<1>3. due \in [Providers -> Nat \cup {Never}]
  BY DEF Start
<1>4. QED BY <1>1, <1>2, <1>3 DEF Start, TypeOK

LEMMA NextType ==
    ASSUME TypeOK, [Next]_vars
    PROVE  TypeOK'
<1>1. CASE UNCHANGED vars
  BY <1>1 DEF vars, TypeOK, cluster, inputs, queues, job, attempt, world
<1>2. ASSUME NEW w \in Workers, Work(w)
      PROVE  TypeOK'
  BY <1>2, ApplyListType, ApplyGetType, AnswerType DEF Work
<1>3. QED
  BY <1>1, <1>2, InformType, SourceReconcileType, LifecycleReconcileType,
     AdvanceGetType, WorldType DEF Next

\* Every variable keeps its type, whatever the order of events, reads, writes
\* and outside edits.
THEOREM TypeCorrect == Spec => []TypeOK
<1>1. TypeOK /\ [Next]_vars => TypeOK'
  BY NextType
<1>2. QED BY InitType, <1>1, PTL DEF Spec

-----------------------------------------------------------------------------
(***************************************************************************)
(* Coherence of the copies.  A worker that ends or postpones its attempt    *)
(* holds nothing; every other attempt is as it was.                         *)
(***************************************************************************)

\* A worker writes one object at a time.
LEMMA OneWrite ==
    ASSUME TypeOK, NEW w \in Workers, NEW p \in Providers, NEW q \in Providers,
           Writes(w, p), Writes(w, q)
    PROVE  p = q
BY ProvidersAssumption DEF Writes, Handles, TypeOK

\* What a step must respect so that the invariant survives it: copies that are
\* still fresh are untouched, an attempt is kept, dropped or newly made.
LEMMA Preserved ==
    ASSUME IInv, TypeOK', now <= now',
           \A p \in Providers : "cache" \in fresh'[p] => cached'[p] = api'[p],
           \A p \in Providers : written'[p] <= now',
           pc'["source"] \notin {"advance", "expire"},
           \A w \in Workers, p \in Providers :
              Writes(w, p)' =>
                \/ /\ Writes(w, p)
                   /\ pc'[w] = pc[w] /\ held'[w] = held[w] /\ at'[w] = at[w]
                   /\ w \in fresh'[p] => /\ w \in fresh[p]
                                         /\ api'[p] = api[p]
                                         /\ written'[p] = written[p]
                \/ /\ at'[w] = now'
                   /\ Checked(w)'
                   /\ w \in fresh'[p] => held'[w] = api'[p]
    PROVE  IInv'
<1>1. CoherentCopies'
  <2>1. ASSUME NEW w \in Workers, NEW p \in Providers, Writes(w, p)'
        PROVE  /\ at'[w] <= now'
               /\ w \in fresh'[p] => held'[w] = api'[p] /\ written'[p] <= at'[w]
    <3>1. now \in Nat /\ now' \in Nat /\ at[w] \in Nat
      BY DEF IInv, TypeOK
    <3>2. CASE /\ Writes(w, p)
               /\ held'[w] = held[w] /\ at'[w] = at[w]
               /\ w \in fresh'[p] => /\ w \in fresh[p]
                                     /\ api'[p] = api[p]
                                     /\ written'[p] = written[p]
      <4>1. /\ at[w] <= now
            /\ w \in fresh[p] => held[w] = api[p] /\ written[p] <= at[w]
        BY <3>2 DEF IInv, CoherentCopies
      <4>2. at'[w] <= now'
        BY <3>1, <3>2, <4>1
      <4>3. QED BY <3>2, <4>1, <4>2
    <3>3. CASE at'[w] = now' /\ (w \in fresh'[p] => held'[w] = api'[p])
      BY <3>1, <3>3
    <3>4. QED BY <2>1, <3>2, <3>3
  <2>2. QED BY <2>1 DEF CoherentCopies
<1>2. AttemptsValid'
  BY DEF IInv, AttemptsValid, Checked
<1>3. QED BY <1>1, <1>2 DEF IInv

\* A step of worker w after which it is not about to write, and which leaves
\* the objects, the clock and the other worker alone.
LEMMA Released ==
    ASSUME IInv, TypeOK', NEW w \in Workers, now' = now,
           \A p \in Providers : "cache" \in fresh'[p] => cached'[p] = api'[p],
           \A p \in Providers : written'[p] <= now,
           pc'[w] \in {"idle", "list", "get", "advance"},
           w = "source" => pc'[w] # "advance",
           \A v \in Workers \ {w} : /\ pc'[v] = pc[v] /\ todo'[v] = todo[v]
                                    /\ held'[v] = held[v] /\ at'[v] = at[v],
           w = "source" => key' = key,
           \A v \in Workers \ {w}, p \in Providers :
              v \in fresh'[p] => /\ v \in fresh[p]
                                 /\ api'[p] = api[p] /\ written'[p] = written[p]
    PROVE  IInv'
<1>1. ASSUME NEW v \in Workers, NEW p \in Providers, Writes(v, p)'
      PROVE  v # w /\ Writes(v, p) /\ pc'[v] = pc[v]
  BY <1>1 DEF Writes, Handles, Workers, IInv, AttemptsValid
<1>2. pc'["source"] \notin {"advance", "expire"}
  BY DEF IInv, AttemptsValid, Workers
<1>3. now <= now'
  BY DEF IInv, TypeOK
<1>4. QED BY <1>1, <1>2, <1>3, Preserved

\* What the ways to end a reconcile or to go on with Apply do to the workers.
LEMMA IdleFrame ==
    ASSUME TypeOK, NEW w \in Workers, Idle(w)
    PROVE  /\ pc'[w] = "idle"
           /\ \A v \in Workers \ {w} : /\ pc'[v] = pc[v] /\ todo'[v] = todo[v]
                                       /\ held'[v] = held[v] /\ at'[v] = at[v]
           /\ w = "source" => key' = key
BY DEF TypeOK, Idle, NoAttempt

LEMMA ProceedFrame ==
    ASSUME TypeOK, NEW w \in Workers, NEW rest, Proceed(w, rest)
    PROVE  /\ pc'[w] \in {"idle", "get", "advance"}
           /\ w = "source" => pc'[w] # "advance"
           /\ \A v \in Workers \ {w} : /\ pc'[v] = pc[v] /\ todo'[v] = todo[v]
                                       /\ held'[v] = held[v] /\ at'[v] = at[v]
           /\ w = "source" => key' = key
<1>1. CASE rest # {}
  <2>1. /\ pc' = [pc EXCEPT ![w] = "get"]
        /\ todo' = [todo EXCEPT ![w] = rest]
        /\ NoAttempt(w) /\ key' = key
    BY <1>1 DEF Proceed
  <2>2. QED BY <2>1 DEF TypeOK, NoAttempt
<1>2. CASE rest = {} /\ w = "source"
  BY <1>2, IdleFrame DEF Proceed, Stop
<1>3. CASE rest = {} /\ w = "lifecycle"
  <2>1. /\ pc' = [pc EXCEPT ![w] = "advance"]
        /\ todo' = [todo EXCEPT ![w] = {}]
        /\ NoAttempt(w)
    BY <1>3 DEF Proceed
  <2>2. QED BY <1>3, <2>1 DEF TypeOK, NoAttempt
<1>4. QED BY <1>1, <1>2, <1>3 DEF Workers

\* A worker that reads an object to write it holds the cache's copy.
LEMMA HoldInv ==
    ASSUME IInv, TypeOK', NEW w \in Workers, NEW p \in Providers,
           Hold(w, p), UNCHANGED <<now, api, written, cached, todo, key>>,
           \/ pc[w] = "get" /\ Handles(w, p) /\ pc' = [pc EXCEPT ![w] = "write"]
           \/ w = "lifecycle" /\ key = p /\ pc' = [pc EXCEPT ![w] = "expire"],
           pc'[w] = "write" => ~Refused(cached[p]),
           pc'[w] = "expire" => Managed(cached[p]) /\ Valid(cached[p])
    PROVE  IInv'
<1>1. /\ held' = [held EXCEPT ![w] = cached[p]]
      /\ fresh' = [fresh EXCEPT ![p] = IF "cache" \in @ THEN @ \cup {w} ELSE @ \ {w}]
      /\ at' = [at EXCEPT ![w] = now]
  BY DEF Hold
<1>2. \A q \in Providers : "cache" \in fresh'[q] => cached'[q] = api'[q]
  <2>1. \A q \in Providers : "cache" \in fresh'[q] => "cache" \in fresh[q]
    BY <1>1 DEF IInv, TypeOK, Workers
  <2>2. QED BY <2>1 DEF IInv, CoherentCopies
<1>3. pc'["source"] \notin {"advance", "expire"}
  BY DEF IInv, AttemptsValid, TypeOK, Workers
<1>4. ASSUME NEW v \in Workers, NEW q \in Providers, Writes(v, q)', v # w
      PROVE  /\ Writes(v, q)
             /\ pc'[v] = pc[v] /\ held'[v] = held[v] /\ at'[v] = at[v]
             /\ v \in fresh'[q] => v \in fresh[q]
  <2>1. pc'[v] = pc[v] /\ todo'[v] = todo[v]
    BY <1>4 DEF IInv, TypeOK
  <2>2. QED BY <1>1, <1>4, <2>1 DEF Writes, Handles, IInv, TypeOK
<1>5. ASSUME NEW q \in Providers, Writes(w, q)'
      PROVE  q = p
  <2>1. CASE w = "lifecycle" /\ key = p /\ pc'[w] = "expire"
    BY <1>5, <2>1 DEF Writes
  <2>2. CASE Handles(w, p) /\ pc'[w] = "write"
    BY <1>5, <2>2, ProvidersAssumption DEF Writes, Handles
  <2>3. QED BY <2>1, <2>2 DEF IInv, TypeOK
<1>6. at'[w] = now' /\ held'[w] = cached[p]
  BY <1>1 DEF IInv, TypeOK
<1>7. w \in fresh'[p] => held'[w] = api'[p]
  <2>1. w \in fresh'[p] => "cache" \in fresh[p]
    BY <1>1 DEF IInv, TypeOK, Workers
  <2>2. QED BY <1>6, <2>1 DEF IInv, CoherentCopies
<1>8. now <= now' /\ \A q \in Providers : written'[q] <= now'
  BY DEF IInv, TypeOK, CoherentCopies
<1>9. \A v \in Workers, q \in Providers :
         Writes(v, q)' =>
           \/ /\ Writes(v, q)
              /\ pc'[v] = pc[v] /\ held'[v] = held[v] /\ at'[v] = at[v]
              /\ v \in fresh'[q] => /\ v \in fresh[q]
                                    /\ api'[q] = api[q]
                                    /\ written'[q] = written[q]
           \/ /\ at'[v] = now'
              /\ Checked(v)'
              /\ v \in fresh'[q] => held'[v] = api'[q]
  BY <1>4, <1>5, <1>6, <1>7 DEF Checked
<1>10. QED BY <1>2, <1>3, <1>8, <1>9, Preserved

LEMMA InformInv ==
    ASSUME IInv, TypeOK', Inform
    PROVE  IInv'
<1>1. \A p \in Providers : "cache" \in fresh'[p] => cached'[p] = api'[p]
  <2>1. ASSUME NEW p \in Providers, SyncObject(p)
        PROVE  \A q \in Providers : "cache" \in fresh'[q] => cached'[q] = api'[q]
    BY <2>1 DEF SyncObject, IInv, CoherentCopies, TypeOK
  <2>2. CASE SyncSource \/ SyncDeps
    BY <2>2 DEF SyncSource, SyncDeps, IInv, CoherentCopies, cluster
  <2>3. QED BY <2>1, <2>2 DEF Inform
<1>2. /\ UNCHANGED <<now, api, written, pc, todo, held, at, key>>
      /\ \A w \in Workers, p \in Providers : w \in fresh'[p] => w \in fresh[p]
  <2>1. ASSUME NEW p \in Providers, SyncObject(p)
        PROVE  /\ UNCHANGED <<now, api, written, pc, todo, held, at, key>>
               /\ \A w \in Workers, q \in Providers : w \in fresh'[q] => w \in fresh[q]
    BY <2>1 DEF SyncObject, IInv, TypeOK, job, attempt, Workers
  <2>2. CASE SyncSource \/ SyncDeps
    BY <2>2 DEF SyncSource, SyncDeps, cluster, job, attempt
  <2>3. QED BY <2>1, <2>2 DEF Inform
<1>3. \A w \in Workers, p \in Providers : Writes(w, p)' = Writes(w, p)
  BY <1>2 DEF Writes, Handles
<1>4. QED BY <1>1, <1>2, <1>3, Preserved DEF IInv, CoherentCopies, AttemptsValid, TypeOK

\* Steps that leave the API server, the cache and the clock alone and after
\* which worker w is not about to write.
LEMMA LeavesObjects ==
    ASSUME IInv, TypeOK', NEW w \in Workers,
           UNCHANGED <<now, cluster>>,
           pc'[w] \in {"idle", "list", "get", "advance"},
           w = "source" => pc'[w] # "advance",
           \A v \in Workers \ {w} : /\ pc'[v] = pc[v] /\ todo'[v] = todo[v]
                                    /\ held'[v] = held[v] /\ at'[v] = at[v],
           w = "source" => key' = key
    PROVE  IInv'
BY Released DEF IInv, CoherentCopies, cluster

LEMMA ReconcileInv ==
    ASSUME IInv, TypeOK',
           SourceReconcile \/ \E p \in Providers : LifecycleReconcile(p)
    PROVE  IInv'
<1>1. CASE SourceReconcile
  <2>1. UNCHANGED <<now, cluster, held, at, todo, key>>
    BY <1>1 DEF SourceReconcile, attempt
  <2>2. pc'["source"] \in {"idle", "list"} /\ pc'["lifecycle"] = pc["lifecycle"]
    BY <1>1 DEF SourceReconcile, IInv, TypeOK, Workers
  <2>3. QED BY <2>1, <2>2, LeavesObjects DEF Workers
<1>2. ASSUME NEW p \in Providers, LifecycleReconcile(p)
      PROVE  IInv'
  <2>1. UNCHANGED <<now, cluster, held, at, todo>>
    BY <1>2 DEF LifecycleReconcile, attempt
  <2>2. /\ pc'["lifecycle"] \in {"idle", "list", "advance"}
        /\ pc'["source"] = pc["source"]
    BY <1>2 DEF LifecycleReconcile, IInv, TypeOK, Workers
  <2>3. QED BY <2>1, <2>2, LeavesObjects DEF Workers
<1>3. QED BY <1>1, <1>2

LEMMA ApplyListInv ==
    ASSUME IInv, TypeOK', NEW w \in Workers, ApplyList(w)
    PROVE  IInv'
<1>1. UNCHANGED <<now, cluster>>
  BY DEF ApplyList
<1>2. TypeOK
  BY DEF IInv
<1>3. CASE Stop(w)
  BY <1>1, <1>2, <1>3, IdleFrame, LeavesObjects DEF Stop
<1>4. ASSUME NEW rest, Proceed(w, rest)
      PROVE  IInv'
  <2>1. pc'[w] \in {"idle", "list", "get", "advance"}
    BY <1>2, <1>4, ProceedFrame
  <2>2. QED BY <1>1, <1>2, <1>4, <2>1, ProceedFrame, LeavesObjects
<1>5. QED BY <1>3, <1>4 DEF ApplyList

LEMMA ApplyGetInv ==
    ASSUME IInv, TypeOK', NEW w \in Workers, NEW p \in Providers, ApplyGet(w, p)
    PROVE  IInv'
<1>1. UNCHANGED <<now, api, written, cached>> /\ pc[w] = "get" /\ Handles(w, p)
  BY DEF ApplyGet
<1>2. TypeOK
  BY DEF IInv
<1>3. CASE Stop(w) /\ UNCHANGED fresh
  BY <1>1, <1>2, <1>3, IdleFrame, LeavesObjects DEF Stop, cluster
<1>4. CASE Proceed(w, todo[w] \ {p}) /\ UNCHANGED fresh
  <2>1. pc'[w] \in {"idle", "list", "get", "advance"}
    BY <1>2, <1>4, ProceedFrame
  <2>2. QED BY <1>1, <1>2, <1>4, <2>1, ProceedFrame, LeavesObjects DEF cluster
<1>5. CASE /\ ~Refused(cached[p])
           /\ pc' = [pc EXCEPT ![w] = "write"]
           /\ Hold(w, p)
           /\ UNCHANGED <<queues, job, tries, key, next>>
  <2>1. pc'[w] = "write"
    BY <1>2, <1>5 DEF TypeOK
  <2>2. UNCHANGED <<todo, key>>
    BY <1>5 DEF job
  <2>3. QED BY <1>1, <1>5, <2>1, <2>2, HoldInv
<1>6. QED BY <1>3, <1>4, <1>5 DEF ApplyGet

LEMMA AdvanceGetInv ==
    ASSUME IInv, TypeOK', NEW p \in Providers, AdvanceGet(p)
    PROVE  IInv'
<1>1. /\ UNCHANGED <<now, api, written, cached>>
      /\ pc["lifecycle"] = "advance" /\ key = p
  BY DEF AdvanceGet
<1>2. TypeOK /\ "lifecycle" \in Workers
  BY DEF IInv, Workers
<1>3. CASE Idle("lifecycle") /\ UNCHANGED fresh
  BY <1>1, <1>2, <1>3, IdleFrame, LeavesObjects DEF cluster
<1>4. CASE /\ Managed(cached[p]) /\ Valid(cached[p])
           /\ pc' = [pc EXCEPT !["lifecycle"] = "expire"]
           /\ Hold("lifecycle", p)
           /\ UNCHANGED <<queues, job, tries, key>>
  <2>1. UNCHANGED <<todo, key>>
    BY <1>4 DEF job
  <2>2. pc'["lifecycle"] = "expire"
    BY <1>2, <1>4 DEF TypeOK
  <2>3. QED BY <1>1, <1>2, <1>4, <2>1, <2>2, HoldInv
<1>5. QED BY <1>3, <1>4 DEF AdvanceGet, Finish, Stop

LEMMA AnswerInv ==
    ASSUME IInv, TypeOK', NEW w \in Workers, Answer(w)
    PROVE  IInv'
<1> PICK p \in Providers : \/ Commit(w, p)
                           \/ LoseReply(w, p)
                           \/ Retry(w, p)
                           \/ Fail(w, p)
  BY DEF Answer
<1>1. TypeOK /\ now' = now
  BY DEF IInv, Commit, LoseReply, Retry, Fail
<1>2. ASSUME NEW o, Store(p, o)
      PROVE  /\ \A q \in Providers : "cache" \in fresh'[q] => cached'[q] = api'[q]
             /\ \A q \in Providers : written'[q] <= now
             /\ \A v \in Workers, q \in Providers :
                   v \in fresh'[q] => /\ v \in fresh[q]
                                      /\ api'[q] = api[q] /\ written'[q] = written[q]
  BY <1>2 DEF Store, IInv, CoherentCopies, TypeOK
<1>3. CASE Commit(w, p)
  <2>1. CASE Proceed(w, todo[w] \ {p})
    <3>1. pc'[w] \in {"idle", "list", "get", "advance"}
      BY <1>1, <2>1, ProceedFrame
    <3>2. QED BY <1>1, <1>2, <1>3, <2>1, <3>1, ProceedFrame, Released DEF Commit
  <2>2. CASE pc[w] = "expire" /\ Finish(next)
    <3>1. w = "lifecycle"
      BY <2>2 DEF IInv, AttemptsValid, Workers
    <3>2. Idle(w)
      BY <2>2, <3>1 DEF Finish
    <3>3. QED BY <1>1, <1>2, <1>3, <3>2, IdleFrame, Released DEF Commit
  <2>3. QED BY <1>3, <2>1, <2>2 DEF Commit
<1>4. CASE LoseReply(w, p)
  BY <1>1, <1>2, <1>4, IdleFrame, Released DEF LoseReply, Requeue
<1>5. CASE Retry(w, p)
  <2>1. CASE Requeue(w)
    BY <1>1, <1>5, <2>1, IdleFrame, LeavesObjects DEF Retry, Requeue
  <2>2. CASE ~Requeue(w)
    <3>1. /\ pc' = [pc EXCEPT ![w] = IF @ = "write" THEN "get" ELSE "advance"]
          /\ held' = [held EXCEPT ![w] = Absent]
          /\ at' = [at EXCEPT ![w] = 0]
          /\ todo' = todo /\ key' = key
          /\ UNCHANGED <<now, cluster>>
          /\ Writes(w, p)
      BY <1>5, <2>2 DEF Retry, job
    <3>2. /\ pc'[w] \in {"get", "advance"}
          /\ w = "source" => pc'[w] # "advance"
      BY <1>1, <3>1 DEF TypeOK, IInv, AttemptsValid, Writes
    <3>3. QED BY <1>1, <3>1, <3>2, LeavesObjects DEF TypeOK
  <2>3. QED BY <2>1, <2>2
<1>6. CASE Fail(w, p)
  <2>1. fresh' = [fresh EXCEPT ![p] = @ \ {w}] /\ UNCHANGED <<api, written, cached>>
    BY <1>6 DEF Fail
  <2>2. /\ \A q \in Providers : "cache" \in fresh'[q] => cached'[q] = api'[q]
        /\ \A q \in Providers : written'[q] <= now
        /\ \A v \in Workers, q \in Providers : v \in fresh'[q] => v \in fresh[q]
    BY <1>1, <2>1 DEF IInv, CoherentCopies, TypeOK
  <2>3. QED BY <1>1, <1>6, <2>1, <2>2, IdleFrame, Released DEF Fail, Requeue
<1>7. QED BY <1>3, <1>4, <1>5, <1>6

\* The outside world does not touch an attempt; an edit of an object outdates
\* every copy of it, and a restart drops all of them.
LEMMA WorldInv ==
    ASSUME IInv, TypeOK', World
    PROVE  IInv'
<1>1. TypeOK
  BY DEF IInv
<1>2. ASSUME UNCHANGED <<pc, todo, held, at, key>>, now <= now',
             \A q \in Providers : "cache" \in fresh'[q] => cached'[q] = api'[q],
             \A q \in Providers : written'[q] <= now',
             \A v \in Workers, q \in Providers :
                v \in fresh'[q] => /\ v \in fresh[q]
                                   /\ api'[q] = api[q] /\ written'[q] = written[q]
      PROVE  IInv'
  <2>1. \A v \in Workers, q \in Providers : Writes(v, q)' = Writes(v, q)
    BY <1>2 DEF Writes, Handles
  <2>2. QED BY <1>2, <2>1, Preserved DEF IInv, AttemptsValid
<1>3. CASE Tick
  <2>1. UNCHANGED <<cluster, pc, todo, held, at, key>> /\ now' = now + 1
    BY <1>3 DEF Tick, job, attempt
  <2>2. now <= now' /\ \A q \in Providers : written'[q] <= now'
    BY <1>1, <2>1 DEF TypeOK, cluster, IInv, CoherentCopies
  <2>3. QED BY <1>2, <2>1, <2>2 DEF cluster, IInv, CoherentCopies
<1>4. CASE \/ EditSource \/ BreakSource \/ DeleteSource \/ CreateSource
           \/ \E p \in Providers : ChangeDeps(p)
  <2>1. UNCHANGED <<now, cluster, pc, todo, held, at, key>>
    BY <1>4 DEF EditSource, BreakSource, DeleteSource, CreateSource, ChangeSource,
                ChangeDeps, job, attempt
  <2>2. now <= now'
    BY <1>1, <2>1 DEF TypeOK
  <2>3. QED BY <1>2, <2>1, <2>2 DEF cluster, IInv, CoherentCopies
<1>5. ASSUME NEW p \in Providers,
             UpdateStatus(p) \/ \E kind \in Tampering : Tamper(p, kind)
      PROVE  IInv'
  <2>1. PICK o : Store(p, o)
    BY <1>5 DEF UpdateStatus, Tamper
  <2>2. UNCHANGED <<now, pc, todo, held, at, key>>
    BY <1>5 DEF UpdateStatus, Tamper, job, attempt
  <2>3. /\ \A q \in Providers : "cache" \in fresh'[q] => cached'[q] = api'[q]
        /\ \A q \in Providers : written'[q] <= now
        /\ \A v \in Workers, q \in Providers :
              v \in fresh'[q] => /\ v \in fresh[q]
                                 /\ api'[q] = api[q] /\ written'[q] = written[q]
    BY <1>1, <2>1 DEF Store, IInv, CoherentCopies, TypeOK
  <2>4. now <= now'
    BY <1>1, <2>2 DEF TypeOK
  <2>5. QED BY <1>2, <2>2, <2>3, <2>4
<1>6. ASSUME NEW g \in BOOLEAN, Restart(g)
      PROVE  IInv'
  <2>1. /\ UNCHANGED <<now, api, written>> /\ cached' = api
        /\ pc' = [w \in Workers |-> "idle"]
    BY <1>6 DEF Restart
  <2>2. \A v \in Workers, q \in Providers : ~Writes(v, q)'
    BY <2>1 DEF Writes
  <2>3. now <= now' /\ pc'["source"] = "idle"
    BY <1>1, <2>1 DEF TypeOK, Workers
  <2>4. QED BY <2>1, <2>2, <2>3, Preserved DEF IInv, CoherentCopies
<1>7. QED BY <1>3, <1>4, <1>5, <1>6 DEF World

\* The copies of a DNSEndpoint are coherent: optimistic concurrency holds for
\* the cache and for every write in flight, and a write starts from an object
\* its worker has validated.
THEOREM Coherent == Spec => []IInv
<1>1. Init => IInv
  <2> SUFFICES ASSUME Init PROVE IInv
    OBVIOUS
  <2>1. TypeOK
    BY InitType
  <2>2. /\ pc = [w \in Workers |-> "idle"] /\ cached = api /\ now = 0
        /\ written = [p \in Providers |-> 0]
    BY DEF Init, Start
  <2>3. QED BY <2>1, <2>2 DEF IInv, CoherentCopies, AttemptsValid, Writes, Workers
<1>2. IInv /\ [Next]_vars => IInv'
  <2> SUFFICES ASSUME IInv, [Next]_vars PROVE IInv'
    OBVIOUS
  <2>1. TypeOK'
    BY NextType DEF IInv
  <2>2. CASE UNCHANGED vars
    BY <2>2 DEF vars, IInv, TypeOK, CoherentCopies, AttemptsValid, Checked, Writes,
                Handles, cluster, inputs, queues, job, attempt, world
  <2>3. ASSUME NEW w \in Workers, Work(w)
        PROVE  IInv'
    BY <2>1, <2>3, ApplyListInv, ApplyGetInv, AnswerInv DEF Work
  <2>4. QED
    BY <2>1, <2>2, <2>3, InformInv, ReconcileInv, AdvanceGetInv, WorldInv DEF Next
<1>3. QED BY <1>1, <1>2, PTL DEF Spec

\* A resourceVersion that is still the stored one vouches for the content.
COROLLARY CopiesCoherent == Spec => []CoherentCopies
BY Coherent, PTL DEF IInv

-----------------------------------------------------------------------------
(***************************************************************************)
(* Writes.  An accepted write starts from the stored object, and only an    *)
(* accepted write or an outside step changes an object.                     *)
(***************************************************************************)
LEMMA AcceptedWrite ==
    ASSUME IInv, NEW w \in Workers, NEW p \in Providers, Writes(w, p), Accepts(w, p)
    PROVE  /\ held[w] = api[p]
           /\ Checked(w)
           /\ api[p] # Absent => written[p] <= at[w]
           /\ at[w] <= now
<1>1. /\ Checked(w)
      /\ w \in fresh[p] => held[w] = api[p] /\ written[p] <= at[w]
      /\ at[w] <= now
  BY DEF IInv, CoherentCopies, AttemptsValid
<1>2. held[w] \in ObjectOrAbsent /\ api[p] \in ObjectOrAbsent
  BY DEF IInv, TypeOK
<1>3. CASE Exists(held[w])
  BY <1>1, <1>3 DEF Accepts
<1>4. CASE ~Exists(held[w])
  <2>1. held[w] = Absent
    BY <1>2, <1>4, FieldTypes
  <2>2. ~Exists(api[p])
    BY <1>4 DEF Accepts
  <2>3. api[p] = Absent
    BY <1>2, <2>2, FieldTypes
  <2>4. QED BY <1>1, <2>1, <2>3
<1>5. QED BY <1>3, <1>4

\* What a step can do to the objects, their versions, the clock and the count
\* of outside steps.
LEMMA StepsOfObjects ==
    ASSUME IInv, Next
    PROVE  \/ UNCHANGED <<now, api, written, disturbances>>
           \/ UNCHANGED <<api, written, disturbances>> /\ now' = now + 1
           \/ UNCHANGED now /\ disturbances' = disturbances + 1
           \/ \E w \in Workers, p \in Providers :
                 /\ Writes(w, p) /\ Accepts(w, p) /\ Store(p, Outcome(w, p))
                 /\ UNCHANGED <<now, disturbances>>
<1>1. CASE Inform
  BY <1>1 DEF Inform, SyncObject, SyncSource, SyncDeps, cluster, world
<1>2. CASE SourceReconcile
  BY <1>2 DEF SourceReconcile, cluster, world
<1>3. ASSUME NEW p \in Providers, LifecycleReconcile(p) \/ AdvanceGet(p)
      PROVE  UNCHANGED <<now, api, written, disturbances>>
  BY <1>3 DEF LifecycleReconcile, AdvanceGet, cluster, world
<1>4. ASSUME NEW w \in Workers, Work(w)
      PROVE  \/ UNCHANGED <<now, api, written, disturbances>>
             \/ \E p \in Providers :
                   /\ Writes(w, p) /\ Accepts(w, p) /\ Store(p, Outcome(w, p))
                   /\ UNCHANGED <<now, disturbances>>
  <2>1. CASE ApplyList(w) \/ \E p \in Providers : ApplyGet(w, p)
    BY <2>1 DEF ApplyList, ApplyGet, cluster, world
  <2>2. ASSUME NEW p \in Providers, Commit(w, p) \/ LoseReply(w, p)
        PROVE  /\ Writes(w, p) /\ Accepts(w, p) /\ Store(p, Outcome(w, p))
               /\ UNCHANGED <<now, disturbances>>
    BY <2>2 DEF Commit, LoseReply, world
  <2>3. ASSUME NEW p \in Providers, Retry(w, p) \/ Fail(w, p)
        PROVE  UNCHANGED <<now, api, written, disturbances>>
    BY <2>3 DEF Retry, Fail, cluster, world
  <2>4. QED BY <1>4, <2>1, <2>2, <2>3 DEF Work, Answer
<1>5. CASE World
  <2>1. CASE Tick
    BY <2>1 DEF Tick, cluster, world
  <2>2. CASE \/ EditSource \/ BreakSource \/ DeleteSource \/ CreateSource
             \/ \E p \in Providers : ChangeDeps(p)
    BY <2>2 DEF EditSource, BreakSource, DeleteSource, CreateSource, ChangeSource,
                ChangeDeps, Disturb
  <2>3. CASE \E p \in Providers : UpdateStatus(p) \/ \E kind \in Tampering : Tamper(p, kind)
    BY <2>3 DEF UpdateStatus, Tamper, Disturb
  <2>4. CASE \E g \in BOOLEAN : Restart(g)
    BY <2>4 DEF Restart, Disturb
  <2>5. QED BY <1>5, <2>1, <2>2, <2>3, <2>4 DEF World
<1>6. QED BY <1>1, <1>2, <1>3, <1>4, <1>5 DEF Next

\* labdns never changes an object that is not its own or does not parse, and
\* one whose source-key or provider label was changed is at most rid of targets
\* whose deadline has passed: the checks of applyOne, build and Advance hold for
\* the object a write replaces, not only for the cached one they saw.
THEOREM FailsClosed == Spec => FailClosed
<1> DEFINE Untouched(p) == /\ Exists(api[p]) /\ ~(Managed(api[p]) /\ Valid(api[p])) => api'[p] = api[p]
                           /\ Refused(api[p]) =>
                                 \/ api'[p] = api[p]
                                 \/ /\ pc["lifecycle"] = "expire"
                                    /\ api'[p] = Advanced(api[p], at["lifecycle"])
<1>1. ASSUME IInv, [Next]_vars, NEW p \in Providers, disturbances' = disturbances
      PROVE  Untouched(p)
  <2>1. CASE api'[p] = api[p]
    BY <2>1
  <2>2. ASSUME NEW w \in Workers, NEW q \in Providers,
               Writes(w, q), Accepts(w, q), Store(q, Outcome(w, q)), api'[p] # api[p]
        PROVE  Untouched(p)
    <3>1. q = p
      BY <1>1, <2>2 DEF Store, IInv, TypeOK
    <3>2. held[w] = api[p] /\ Checked(w) /\ api'[p] = Outcome(w, p)
      BY <1>1, <2>2, <3>1, AcceptedWrite DEF Store, IInv, TypeOK
    <3>3. CASE pc[w] = "write"
      <4>1. ~Refused(api[p])
        BY <3>2, <3>3 DEF Checked
      <4>2. Exists(api[p]) => Managed(api[p]) /\ Valid(api[p])
        BY <4>1 DEF Refused, Managed, LabelFlaws
      <4>3. QED BY <4>1, <4>2
    <3>4. CASE pc[w] = "expire"
      <4>1. w = "lifecycle"
        BY <1>1, <3>4 DEF IInv, AttemptsValid, Workers
      <4>2. Managed(api[p]) /\ Valid(api[p])
        BY <3>2, <3>4 DEF Checked
      <4>3. api'[p] = Advanced(api[p], at["lifecycle"])
        BY <3>2, <3>4, <4>1 DEF Outcome
      <4>4. QED BY <3>4, <4>1, <4>2, <4>3
    <3>5. QED BY <2>2, <3>3, <3>4 DEF Writes
  <2>3. CASE UNCHANGED vars
    BY <2>1, <2>3 DEF vars, cluster
  <2>4. CASE Next
    <3>1. disturbances' # disturbances + 1
      BY <1>1 DEF IInv, TypeOK
    <3>2. QED BY <1>1, <2>1, <2>2, <2>4, <3>1, StepsOfObjects
  <2>5. QED BY <1>1, <2>3, <2>4
<1>2. IInv /\ [Next]_vars
        => [\A p \in Providers : disturbances' = disturbances => Untouched(p)]_vars
  BY <1>1
<1>3. QED BY <1>2, Coherent, PTL DEF Spec, FailClosed

-----------------------------------------------------------------------------
(***************************************************************************)
(* The retirement contract.  Allowed(e, f, time, d): an entry may go from e  *)
(* to f in a write that read the clock at time from an object whose stored   *)
(* delay is d.                                                              *)
(***************************************************************************)
Allowed(e, f, time, d) ==
    \/ f = -1
    \/ e = -1 /\ f = time + d
    \/ f = -2 /\ ((e >= 0 /\ e <= time) \/ (e = -1 /\ d = 0))
    \/ f = e

LEMMA BuildAllowed ==
    ASSUME NEW o \in ObjectOrAbsent, NEW pub \in Publication, NEW u \in Nat,
           NEW time \in Nat, NEW t \in Targets
    PROVE  Allowed(EntryOf(o, t), EntryOf(Build(o, pub, u, time), t), time, o.delay)
<1> DEFINE kept == {x \in Targets : Kept(o, pub, time, x)}
           b == Build(o, pub, u, time)
<1>1. pub.targets \cup kept = {} => b = Absent
  BY DEF Build
<1>2. pub.targets \cup kept # {} =>
         /\ b.spec = pub.targets \cup kept
         /\ b.deadline[t] = IF t \in kept THEN RetireAt(o, pub, time, t) ELSE NotPending
  BY DEF Build
<1> HIDE DEF b
<1>3. CASE t \in pub.targets
  <2>1. t \notin kept
    BY <1>3 DEF Kept
  <2>2. EntryOf(b, t) = -1
    BY <1>2, <1>3, <2>1 DEF EntryOf, NotPending
  <2>3. QED BY <2>2 DEF Allowed, b
<1>4. CASE t \notin pub.targets /\ t \notin kept
  <2>1. EntryOf(b, t) = -2
    BY <1>1, <1>2, <1>4, AbsentType DEF EntryOf
  <2>2. CASE t \notin o.spec
    BY <2>1, <2>2 DEF Allowed, EntryOf, b
  <2>3. CASE t \in o.spec
    <3>1. Exists(o)
      BY <2>3, AbsentType, FieldTypes
    <3>2. ~(RetireAt(o, pub, time, t) > time)
      BY <1>4, <2>3 DEF Kept
    <3>3. EntryOf(o, t) = o.deadline[t] /\ o.deadline[t] \in Nat \cup {-1} /\ o.delay \in Nat
      BY <2>3, FieldTypes DEF EntryOf, NotPending
    <3>4. QED BY <2>1, <3>1, <3>2, <3>3 DEF Allowed, RetireAt, StoredDelay, NotPending, b
  <2>4. QED BY <2>2, <2>3
<1>5. CASE t \notin pub.targets /\ t \in kept
  <2>1. EntryOf(b, t) = RetireAt(o, pub, time, t)
    BY <1>2, <1>5 DEF EntryOf
  <2>2. t \in o.spec
    BY <1>5 DEF Kept
  <2>3. Exists(o)
    BY <2>2, AbsentType, FieldTypes
  <2>4. EntryOf(o, t) = o.deadline[t]
    BY <2>2 DEF EntryOf
  <2>5. QED BY <2>1, <2>3, <2>4 DEF Allowed, RetireAt, StoredDelay, NotPending, b
<1>6. QED BY <1>3, <1>4, <1>5

LEMMA AdvancedAllowed ==
    ASSUME NEW o \in ObjectOrAbsent, NEW time \in Nat, NEW t \in Targets
    PROVE  Allowed(EntryOf(o, t), EntryOf(Advanced(o, time), t), time, o.delay)
<1> DEFINE a == Advanced(o, time)
<1>1. CASE o = Absent
  BY <1>1, AbsentType DEF Advanced, Allowed
<1>2. CASE o \in Object
  <2>1. o.spec \subseteq Expired(o, time) => a = Absent
    BY DEF Advanced
  <2>2. ~(o.spec \subseteq Expired(o, time)) =>
           /\ a.spec = o.spec \ Expired(o, time)
           /\ a.deadline[t] = IF t \in Expired(o, time) THEN NotPending ELSE o.deadline[t]
    BY <1>2 DEF Advanced, Object
  <2> HIDE DEF a
  <2>3. CASE t \in o.spec /\ t \in Expired(o, time)
    <3>1. EntryOf(a, t) = -2
      BY <2>1, <2>2, <2>3, AbsentType DEF EntryOf
    <3>2. EntryOf(o, t) = o.deadline[t] /\ o.deadline[t] \in Nat /\ o.deadline[t] <= time
      BY <2>3, FieldTypes DEF EntryOf, Expired, Pending
    <3>3. QED BY <3>1, <3>2 DEF Allowed, a
  <2>4. CASE t \in o.spec /\ t \notin Expired(o, time)
    <3>1. EntryOf(a, t) = EntryOf(o, t)
      BY <2>2, <2>4 DEF EntryOf
    <3>2. QED BY <3>1 DEF Allowed, a
  <2>5. CASE t \notin o.spec
    <3>1. EntryOf(a, t) = EntryOf(o, t)
      BY <2>1, <2>2, <2>5, AbsentType DEF EntryOf
    <3>2. QED BY <3>1 DEF Allowed, a
  <2>6. QED BY <2>3, <2>4, <2>5
<1>3. QED BY <1>1, <1>2 DEF ObjectOrAbsent

\* An accepted write of labdns is a Rewrite of the contract.
LEMMA WriteIsRewrite ==
    ASSUME IInv, NEW w \in Workers, NEW p \in Providers,
           Writes(w, p), Accepts(w, p), Store(p, Outcome(w, p)),
           UNCHANGED <<now, disturbances>>
    PROVE  Contract!Rewrite(p)
<1>1. /\ held[w] = api[p] /\ at[w] <= now
      /\ api[p] # Absent => written[p] <= at[w]
  BY AcceptedWrite
<1>2. /\ api[p] \in ObjectOrAbsent /\ want[w][p] \in Publication /\ uid[w] \in Nat
      /\ at[w] \in Nat /\ now \in Nat /\ written[p] \in Nat
  BY DEF IInv, TypeOK
<1>3. /\ api' = [api EXCEPT ![p] = Outcome(w, p)]
      /\ written' = [written EXCEPT ![p] = now]
  BY DEF Store
<1>4. /\ api'[p] = Outcome(w, p) /\ written'[p] = now
      /\ \A q \in Providers \ {p} : api'[q] = api[q] /\ written'[q] = written[q]
  BY <1>3 DEF IInv, TypeOK
<1>5. ASSUME NEW t \in Targets
      PROVE  Allowed(EntryOf(api[p], t), EntryOf(api'[p], t), at[w], api[p].delay)
  <2>1. CASE pc[w] = "write"
    <3>1. Outcome(w, p) = Build(api[p], want[w][p], uid[w], at[w])
      BY <1>1, <2>1 DEF Outcome
    <3>2. QED BY <1>2, <1>4, <3>1, BuildAllowed
  <2>2. CASE pc[w] # "write"
    <3>1. Outcome(w, p) = Advanced(api[p], at[w])
      BY <1>1, <2>2 DEF Outcome
    <3>2. QED BY <1>2, <1>4, <3>1, AdvancedAllowed
  <2>3. QED BY <2>1, <2>2
<1> DEFINE e == [q \in Providers |-> [t \in Targets |-> EntryOf(api[q], t)]]
           f == [q \in Providers |-> [t \in Targets |-> EntryOf(api'[q], t)]]
           g == [q \in Providers |-> api[q].delay]
           h == [q \in Providers |-> api'[q].delay]
<1>6. ASSUME NEW t \in Targets
      PROVE  \/ f[p][t] = -1
             \/ e[p][t] = -1 /\ \E start \in written[p] .. now : f[p][t] = start + g[p]
             \/ /\ f[p][t] = -2
                /\ (e[p][t] >= 0 /\ e[p][t] <= now) \/ (e[p][t] = -1 /\ g[p] = 0)
             \/ f[p][t] = e[p][t]
  <2>1. /\ e[p][t] = EntryOf(api[p], t) /\ f[p][t] = EntryOf(api'[p], t)
        /\ g[p] = api[p].delay
    OBVIOUS
  <2>2. e[p][t] \in Int
    BY <1>2, <2>1, FieldTypes DEF EntryOf, NotPending
  <2>3. e[p][t] = -1 => at[w] \in written[p] .. now
    <3>1. e[p][t] = -1 => api[p] # Absent
      BY <2>1, AbsentType DEF EntryOf
    <3>2. QED BY <1>1, <1>2, <3>1
  <2> HIDE DEF e, f, g, h
  <2>4. Allowed(e[p][t], f[p][t], at[w], g[p])
    BY <1>5, <2>1
  <2>5. QED BY <1>1, <1>2, <2>2, <2>3, <2>4 DEF Allowed
<1>7. \A q \in Providers \ {p} : f[q] = e[q] /\ h[q] = g[q] /\ written'[q] = written[q]
  BY <1>4
<1>8. QED
  BY <1>4, <1>6, <1>7 DEF Contract!Rewrite, Contract!MayPublish, Contract!MayRetire,
     Contract!MayWithdraw, Contract!MayKeep, Contract!Active, Contract!Withdrawn,
     Contract!Deadline

\* Every published target is withdrawn only after its stored delay, counted
\* from no earlier than the version that published it, and a deadline once
\* announced is kept or cancelled: Apply and Advance keep the contract through
\* stale caches, conflicts and lost replies.
THEOREM RefinesContract == Spec => KeepsContract
<1>1. Init => Contract!Init
  BY AbsentType DEF Init, Start, Contract!Init, Contract!Withdrawn, EntryOf
<1>2. ASSUME IInv, [Next]_vars
      PROVE  [Contract!Next]_(Contract!contract)
  <2>1. CASE UNCHANGED vars
    BY <2>1 DEF vars, cluster, world, Contract!contract
  <2>2. CASE UNCHANGED <<now, api, written, disturbances>>
    BY <2>2 DEF Contract!contract
  <2>3. CASE UNCHANGED <<api, written, disturbances>> /\ now' = now + 1
    BY <2>3 DEF Contract!Next, Contract!Pass
  <2>4. CASE UNCHANGED now /\ disturbances' = disturbances + 1
    BY <2>4 DEF Contract!Next, Contract!Outside
  <2>5. CASE \E w \in Workers, p \in Providers :
                /\ Writes(w, p) /\ Accepts(w, p) /\ Store(p, Outcome(w, p))
                /\ UNCHANGED <<now, disturbances>>
    BY <1>2, <2>5, WriteIsRewrite DEF Contract!Next
  <2>6. QED BY <1>2, <2>1, <2>2, <2>3, <2>4, <2>5, StepsOfObjects
<1>3. QED BY <1>1, <1>2, Coherent, PTL DEF Spec, KeepsContract, Contract!Spec

-----------------------------------------------------------------------------
(***************************************************************************)
(* No deadline is forgotten, and labdns corrupts no object of its own: for  *)
(* every interleaving of the two controllers with each other, the           *)
(* informers, lost replies, removals and restarts.                          *)
(*                                                                          *)
(* WakeInv is inductive beside IInv: a deadline can be forgotten only where *)
(* the lifecycle controller drops a key, which it does for an object that   *)
(* is invalid, that it does not see or that carries another source's UID.   *)
(* The first two need what the cache shows to be intact, the last that a    *)
(* UID is known to the informer before any object carries it.  Both end     *)
(* with the first edit of an object by hand, so every part of WakeInv that  *)
(* an edit can break holds until then.                                      *)
(***************************************************************************)

(***************************************************************************)
(* What Apply and Advance write.                                            *)
(***************************************************************************)

\* An object that does not exist is Absent: nothing is pending in it.
LEMMA NotThere ==
    ASSUME NEW o \in ObjectOrAbsent, ~Exists(o)
    PROVE  o = Absent /\ Pending(o) = {} /\ o.uid = 0
<1>1. o = Absent
  BY FieldTypes
<1>2. QED BY <1>1, AbsentType DEF Pending

\* Writer.build makes no object that a controller would reject, and none that
\* publishes nothing, if it publishes under a UID only and the object it starts
\* from carries one.
LEMMA BuildIntact ==
    ASSUME NEW o \in ObjectOrAbsent, NEW pub \in Publication, NEW u \in Nat,
           NEW time \in Nat, Exists(Build(o, pub, u, time)),
           u = 0 => pub = NoPublication,
           Exists(o) => o.uid # 0
    PROVE  Intact(Build(o, pub, u, time))
<1> DEFINE kept == {t \in Targets : Kept(o, pub, time, t)}
           b == Build(o, pub, u, time)
<1>1. pub.targets \cup kept # {}
  BY AbsentType DEF Build
<1>2. /\ b.flaws = {} /\ b.spec = pub.targets \cup kept
      /\ b.uid = IF u # 0 THEN u ELSE o.uid
      /\ \A t \in Targets : b.deadline[t] = IF t \in kept THEN RetireAt(o, pub, time, t)
                                                          ELSE NotPending
  BY <1>1 DEF Build
<1>3. Pending(b) \subseteq b.spec
  BY <1>2 DEF Pending
<1>4. b.uid # 0
  <2>1. CASE u # 0
    BY <1>2, <2>1
  <2>2. CASE u = 0
    <3>1. pub.targets = {}
      BY <2>2 DEF NoPublication
    <3>2. o.spec # {}
      BY <1>1, <3>1 DEF Kept
    <3>3. Exists(o)
      BY <3>2, AbsentType, FieldTypes
    <3>4. QED BY <1>2, <2>2, <3>3
  <2>3. QED BY <2>1, <2>2
<1> HIDE DEF b
<1>5. Intact(b)
  BY <1>1, <1>2, <1>3, <1>4 DEF Intact, Valid
<1>6. QED BY <1>5 DEF b

\* Neither does Writer.Advance, from an intact object.
LEMMA AdvancedIntact ==
    ASSUME NEW o \in ObjectOrAbsent, NEW time \in Nat, Intact(o), Exists(Advanced(o, time))
    PROVE  Intact(Advanced(o, time))
<1> DEFINE a == Advanced(o, time)
<1>1. ~(o.spec \subseteq Expired(o, time))
  BY AbsentType DEF Advanced
<1>2. o \in Object
  BY <1>1, AbsentType DEF ObjectOrAbsent
<1>3. /\ a.flaws = o.flaws /\ a.uid = o.uid /\ a.spec = o.spec \ Expired(o, time)
      /\ \A t \in Targets : a.deadline[t] = IF t \in Expired(o, time) THEN NotPending
                                                                     ELSE o.deadline[t]
  BY <1>1, <1>2 DEF Advanced, Object
<1> HIDE DEF a
<1>4. Pending(a) \subseteq a.spec
  BY <1>3 DEF Pending, Intact, Valid
<1>5. a.spec # {}
  BY <1>1, <1>3
<1>6. Intact(a)
  BY <1>3, <1>4, <1>5 DEF Intact, Valid
<1>7. QED BY <1>6 DEF a

\* What either writes carries the UID it was given or the object's own.
LEMMA WrittenUid ==
    ASSUME NEW o \in ObjectOrAbsent, NEW pub \in Publication, NEW u \in Nat, NEW time \in Nat
    PROVE  /\ Build(o, pub, u, time).uid \in {0, u, o.uid}
           /\ Advanced(o, time).uid \in {0, o.uid}
<1>1. Build(o, pub, u, time).uid \in {0, u, o.uid}
  BY AbsentType DEF Build
<1>2. Advanced(o, time).uid \in {0, o.uid}
  <2>1. CASE o = Absent
    BY <2>1, AbsentType DEF Advanced
  <2>2. CASE o \in Object
    BY <2>2, AbsentType DEF Advanced, Object
  <2>3. QED BY <2>1, <2>2 DEF ObjectOrAbsent
<1>3. QED BY <1>1, <1>2

\* An accepted write that replaces an intact object leaves an intact one.
LEMMA OutcomeIntact ==
    ASSUME IInv, PublishesKnown, NEW w \in Workers, NEW p \in Providers,
           Writes(w, p), Accepts(w, p), Exists(api[p]) => Intact(api[p]),
           Exists(Outcome(w, p))
    PROVE  Intact(Outcome(w, p))
<1>1. /\ held[w] \in ObjectOrAbsent /\ want[w][p] \in Publication
      /\ uid[w] \in Nat /\ at[w] \in Nat
  BY DEF IInv, TypeOK
<1>2. held[w] = api[p] /\ Checked(w)
  BY AcceptedWrite
<1>3. CASE pc[w] = "write"
  <2>1. uid[w] = 0 => want[w][p] = NoPublication
    BY DEF PublishesKnown, NoWant, Workers
  <2>2. Exists(held[w]) => held[w].uid # 0
    BY <1>2 DEF Intact
  <2>3. QED BY <1>1, <1>3, <2>1, <2>2, BuildIntact DEF Outcome
<1>4. CASE pc[w] = "expire"
  <2>1. Exists(held[w])
    BY <1>2, <1>4 DEF Checked, Managed
  <2>2. QED BY <1>1, <1>2, <1>4, <2>1, AdvancedIntact DEF Outcome
<1>5. QED BY <1>3, <1>4 DEF Writes

\* A deadline that is still to come is a delay other than zero, which Advance
\* returns rather than none.
LEMMA WakesLater ==
    ASSUME NEW o \in ObjectOrAbsent, NEW time \in Nat, NEW n \in Nat,
           Pending(o) # {}, Expired(o, time) = {}, NEW m \in NextWake(o, time, n)
    PROVE  m # 0
<1> DEFINE seen == Remaining(o, time) \cup ({n} \ {0})
<1>1. Remaining(o, time) # {}
  BY DEF Remaining
<1>2. \A t \in Pending(o) : o.deadline[t] \in Nat /\ o.deadline[t] > time
  BY FieldTypes DEF Pending, Expired, NotPending
<1>3. 0 \notin Remaining(o, time)
  BY <1>2 DEF Remaining
<1>4. m \in seen
  BY <1>1 DEF NextWake
<1>5. QED BY <1>3, <1>4

-----------------------------------------------------------------------------
(***************************************************************************)
(* Where UIDs, copies and keys come from, step by step.                     *)
(***************************************************************************)

\* A worker that ends or postpones its attempt forgets what it held, and the
\* UID it works for is the same or none.
LEMMA IdleUids ==
    ASSUME TypeOK, NEW w \in Workers, Idle(w)
    PROVE  \A v \in Workers : uid'[v] \in {uid[v], 0} /\ held'[v] \in {held[v], Absent}
BY DEF TypeOK, Idle, NoAttempt

LEMMA ProceedUids ==
    ASSUME TypeOK, NEW w \in Workers, NEW rest, Proceed(w, rest)
    PROVE  \A v \in Workers : uid'[v] \in {uid[v], 0} /\ held'[v] \in {held[v], Absent}
<1>1. CASE rest # {}
  <2>1. uid' = uid /\ NoAttempt(w)
    BY <1>1 DEF Proceed
  <2>2. QED BY <2>1 DEF TypeOK, NoAttempt
<1>2. CASE rest = {} /\ w = "source"
  BY <1>2, IdleUids DEF Proceed, Stop
<1>3. CASE rest = {} /\ w = "lifecycle"
  <2>1. uid' = [uid EXCEPT ![w] = 0] /\ NoAttempt(w)
    BY <1>3 DEF Proceed
  <2>2. QED BY <2>1 DEF TypeOK, NoAttempt
<1>4. QED BY <1>1, <1>2, <1>3 DEF Workers

\* Where the UIDs a worker carries come from: the informers' copies.
LEMMA WorkerUids ==
    ASSUME TypeOK, Next
    PROVE  \A v \in Workers :
              /\ \/ uid'[v] \in {uid[v], 0, seenSrc.uid}
                 \/ \E p \in Providers : uid'[v] = cached[p].uid
              /\ \/ held'[v] \in {held[v], Absent}
                 \/ \E p \in Providers : held'[v] = cached[p]
<1>1. CASE UNCHANGED <<uid, held>>
  BY <1>1
<1>2. ASSUME NEW w \in Workers, Idle(w)
      PROVE  \A v \in Workers : uid'[v] \in {uid[v], 0} /\ held'[v] \in {held[v], Absent}
  BY <1>2, IdleUids
<1>3. ASSUME NEW w \in Workers, NEW p \in Providers, Hold(w, p), uid' = uid
      PROVE  \A v \in Workers : uid'[v] = uid[v] /\ held'[v] \in {held[v], cached[p]}
  BY <1>3 DEF Hold, TypeOK
<1>4. CASE Inform
  BY <1>1, <1>4 DEF Inform, SyncObject, SyncSource, SyncDeps, job, attempt
<1>5. CASE SourceReconcile
  <2>1. held' = held /\ (uid' = uid \/ uid' = [uid EXCEPT !["source"] = seenSrc.uid])
    BY <1>5 DEF SourceReconcile, attempt
  <2>2. QED BY <2>1 DEF TypeOK
<1>6. ASSUME NEW p \in Providers, LifecycleReconcile(p)
      PROVE  \A v \in Workers : uid'[v] \in {uid[v], cached[p].uid} /\ held'[v] = held[v]
  <2>1. held' = held /\ (uid' = uid \/ uid' = [uid EXCEPT !["lifecycle"] = cached[p].uid])
    BY <1>6 DEF LifecycleReconcile, attempt
  <2>2. QED BY <2>1 DEF TypeOK
<1>7. ASSUME NEW p \in Providers, AdvanceGet(p)
      PROVE  \/ Idle("lifecycle")
             \/ Hold("lifecycle", p) /\ uid' = uid
  BY <1>7 DEF AdvanceGet, Finish, Stop, job
<1>8. ASSUME NEW w \in Workers, NEW p \in Providers, ApplyGet(w, p)
      PROVE  \/ Idle(w)
             \/ Proceed(w, todo[w] \ {p})
             \/ Hold(w, p) /\ uid' = uid
  BY <1>8 DEF ApplyGet, Stop, job
<1>9. ASSUME NEW w \in Workers, ApplyList(w)
      PROVE  Idle(w) \/ \E rest : Proceed(w, rest)
  BY <1>9 DEF ApplyList, Stop
<1>10. ASSUME NEW w \in Workers, NEW p \in Providers,
              Commit(w, p) \/ LoseReply(w, p) \/ Fail(w, p)
       PROVE  Idle(w) \/ Idle("lifecycle") \/ \E rest : Proceed(w, rest)
  BY <1>10 DEF Commit, LoseReply, Fail, Requeue, Finish
<1>11. ASSUME NEW w \in Workers, NEW p \in Providers, Retry(w, p)
       PROVE  \A v \in Workers : uid'[v] \in {uid[v], 0} /\ held'[v] \in {held[v], Absent}
  <2>1. Idle(w) \/ (uid' = uid /\ held' = [held EXCEPT ![w] = Absent])
    BY <1>11 DEF Retry, Requeue, job
  <2>2. QED BY <1>2, <2>1 DEF TypeOK
<1>12. CASE World
  <2>1. CASE \E g \in BOOLEAN : Restart(g)
    BY <2>1 DEF Restart
  <2>2. CASE ~ \E g \in BOOLEAN : Restart(g)
    BY <1>1, <1>12, <2>2 DEF World, Tick, EditSource, BreakSource, DeleteSource,
       CreateSource, ChangeSource, ChangeDeps, UpdateStatus, Tamper, job, attempt
  <2>3. QED BY <2>1, <2>2
<1>13. "lifecycle" \in Workers
  BY DEF Workers
<1>14. ASSUME NEW w \in Workers, Work(w)
       PROVE  \A v \in Workers :
                 /\ uid'[v] \in {uid[v], 0}
                 /\ \/ held'[v] \in {held[v], Absent}
                    \/ \E p \in Providers : held'[v] = cached[p]
  <2>1. CASE ApplyList(w)
    BY <1>2, <1>9, <2>1, ProceedUids
  <2>2. ASSUME NEW p \in Providers, ApplyGet(w, p)
        PROVE  \A v \in Workers :
                 /\ uid'[v] \in {uid[v], 0}
                 /\ \/ held'[v] \in {held[v], Absent}
                    \/ held'[v] = cached[p]
    BY <1>2, <1>3, <1>8, <2>2, ProceedUids
  <2>3. CASE Answer(w)
    BY <1>2, <1>10, <1>11, <1>13, <2>3, ProceedUids DEF Answer
  <2>4. QED BY <1>14, <2>1, <2>2, <2>3 DEF Work
<1>15. ASSUME NEW p \in Providers, AdvanceGet(p)
       PROVE  \A v \in Workers : uid'[v] \in {uid[v], 0} /\ held'[v] \in {held[v], Absent, cached[p]}
  BY <1>2, <1>3, <1>7, <1>13, <1>15
<1>16. QED BY <1>4, <1>5, <1>6, <1>12, <1>14, <1>15 DEF Next

\* Where a stored object comes from: a worker's write or an edit by hand.
LEMMA StoredFrom ==
    ASSUME IInv, Next, NEW p \in Providers
    PROVE  \/ api'[p] \in {api[p], Absent}
           \/ \E w \in Workers : Writes(w, p) /\ Accepts(w, p) /\ api'[p] = Outcome(w, p)
           \/ tampered'
<1>1. CASE UNCHANGED api
  BY <1>1
<1>2. ASSUME NEW w \in Workers, NEW q \in Providers,
             Writes(w, q), Accepts(w, q), Store(q, Outcome(w, q))
      PROVE  api'[p] = api[p] \/ (Writes(w, p) /\ Accepts(w, p) /\ api'[p] = Outcome(w, p))
  BY <1>2 DEF Store, IInv, TypeOK
<1>3. ASSUME NEW q \in Providers, NEW kind \in Tampering, Tamper(q, kind)
      PROVE  api'[p] \in {api[p], Absent} \/ tampered'
  <2>1. PICK o \in Tampered(api[q], kind) : Store(q, o)
    BY <1>3 DEF Tamper
  <2>2. CASE kind = "remove"
    <3>1. o = Absent
      BY <2>1, <2>2 DEF Tampered
    <3>2. QED BY <2>1, <3>1 DEF Store, IInv, TypeOK
  <2>3. CASE kind # "remove"
    BY <1>3, <2>3 DEF Tamper, Disturb, Tampering
  <2>4. QED BY <2>2, <2>3
<1>4. ASSUME NEW q \in Providers, UpdateStatus(q)
      PROVE  api'[p] = api[p]
  BY <1>4 DEF UpdateStatus, Store, IInv, TypeOK
<1>5. CASE World
  <2>1. CASE \E q \in Providers : \/ UpdateStatus(q)
                                  \/ \E kind \in Tampering : Tamper(q, kind)
    BY <1>3, <1>4, <2>1
  <2>2. CASE ~ \E q \in Providers : \/ UpdateStatus(q)
                                    \/ \E kind \in Tampering : Tamper(q, kind)
    BY <1>1, <1>5, <2>2 DEF World, Tick, EditSource, BreakSource, DeleteSource,
       CreateSource, ChangeSource, ChangeDeps, Restart, cluster
  <2>3. QED BY <2>1, <2>2
<1>6. CASE \/ Inform \/ SourceReconcile
           \/ \E q \in Providers : LifecycleReconcile(q) \/ AdvanceGet(q)
  BY <1>1, <1>6 DEF Inform, SyncObject, SyncSource, SyncDeps, SourceReconcile,
     LifecycleReconcile, AdvanceGet, cluster
<1>7. ASSUME NEW w \in Workers, Work(w)
      PROVE  api'[p] = api[p] \/ (Writes(w, p) /\ Accepts(w, p) /\ api'[p] = Outcome(w, p))
  <2>1. CASE ApplyList(w) \/ \E q \in Providers : ApplyGet(w, q) \/ Retry(w, q) \/ Fail(w, q)
    BY <2>1 DEF ApplyList, ApplyGet, Retry, Fail, cluster
  <2>2. CASE \E q \in Providers : Commit(w, q) \/ LoseReply(w, q)
    BY <1>2, <2>2 DEF Commit, LoseReply
  <2>3. QED BY <1>7, <2>1, <2>2 DEF Work, Answer
<1>8. QED BY <1>5, <1>6, <1>7 DEF Next

\* An edit by hand is not forgotten.
LEMMA StaysTampered ==
    ASSUME Next
    PROVE  tampered => tampered'
BY DEF Next, Inform, SyncObject, SyncSource, SyncDeps, SourceReconcile, LifecycleReconcile,
   AdvanceGet, Work, Answer, ApplyList, ApplyGet, Commit, LoseReply, Retry, Fail, World, Tick,
   EditSource, BreakSource, DeleteSource, CreateSource, ChangeDeps, UpdateStatus, Tamper,
   Restart, Disturb, world

\* The informers' copies are what they were or what the API server holds, and
\* the source's UID never goes back.
LEMMA CopiesFrom ==
    ASSUME IInv, Next
    PROVE  /\ \A p \in Providers : cached'[p] \in {cached[p], api[p]}
           /\ seenSrc' \in {seenSrc, src}
           /\ src'.uid >= src.uid
<1>1. TypeOK /\ src.uid \in Nat /\ src \in Source
  BY DEF IInv, TypeOK, Source
<1>2. CASE UNCHANGED <<cached, seenSrc, src>>
  BY <1>1, <1>2
<1>3. CASE Inform
  BY <1>1, <1>3 DEF Inform, SyncObject, SyncSource, SyncDeps, inputs, cluster, TypeOK
<1>4. CASE \/ SourceReconcile
           \/ \E q \in Providers : LifecycleReconcile(q) \/ AdvanceGet(q)
  BY <1>2, <1>4 DEF SourceReconcile, LifecycleReconcile, AdvanceGet, cluster, inputs
<1>5. CASE \E w \in Workers : Work(w)
  BY <1>2, <1>5 DEF Work, Answer, ApplyList, ApplyGet, Commit, LoseReply, Retry, Fail,
     Store, cluster, inputs
<1>6. ASSUME NEW g \in BOOLEAN, Restart(g)
      PROVE  cached' = api /\ seenSrc' = src /\ src' = src
  BY <1>6 DEF Restart
<1>7. CASE EditSource \/ BreakSource \/ DeleteSource \/ CreateSource
  <2>1. UNCHANGED <<cached, seenSrc>>
    BY <1>7 DEF EditSource, BreakSource, DeleteSource, CreateSource, ChangeSource, cluster
  <2>2. src'.uid \in {src.uid, src.uid + 1}
    BY <1>1, <1>7 DEF EditSource, BreakSource, DeleteSource, CreateSource, ChangeSource,
       Source
  <2>3. QED BY <1>1, <2>1, <2>2
<1>8. CASE \/ Tick
           \/ \E p \in Providers : \/ ChangeDeps(p)
                                   \/ UpdateStatus(p)
                                   \/ \E kind \in Tampering : Tamper(p, kind)
  BY <1>2, <1>8 DEF Tick, ChangeDeps, UpdateStatus, Tamper, Store, cluster, inputs
<1>9. CASE World
  BY <1>1, <1>6, <1>7, <1>8, <1>9 DEF World
<1>10. QED BY <1>3, <1>4, <1>5, <1>9 DEF Next

\* A step keeps the UIDs known.
LEMMA UidsStayKnown ==
    ASSUME IInv, UidsKnown, Next, TypeOK'
    PROVE  UidsKnown'
<1>1. /\ TypeOK
      /\ src.uid \in Nat /\ seenSrc.uid \in Nat /\ src'.uid \in Nat /\ seenSrc'.uid \in Nat
      /\ \A p \in Providers : api[p].uid \in Nat /\ cached[p].uid \in Nat
      /\ \A w \in Workers : uid[w] \in Nat /\ held[w].uid \in Nat
  BY FieldTypes DEF IInv, TypeOK, Source
<1>2. seenSrc.uid <= seenSrc'.uid /\ seenSrc'.uid <= src'.uid
  BY <1>1, CopiesFrom DEF UidsKnown
<1>3. ASSUME ~tampered'
      PROVE  /\ \A p \in Providers : api'[p].uid <= seenSrc'.uid /\ cached'[p].uid <= seenSrc'.uid
             /\ \A w \in Workers : uid'[w] <= seenSrc'.uid /\ held'[w].uid <= seenSrc'.uid
  <2>1. /\ \A p \in Providers : api[p].uid <= seenSrc.uid /\ cached[p].uid <= seenSrc.uid
        /\ \A w \in Workers : uid[w] <= seenSrc.uid /\ held[w].uid <= seenSrc.uid
    BY <1>3, StaysTampered DEF UidsKnown
  <2>2. \A p \in Providers : api'[p].uid <= seenSrc.uid
    <3> TAKE p \in Providers
    <3>1. ASSUME NEW w \in Workers, api'[p] = Outcome(w, p)
          PROVE  api'[p].uid <= seenSrc.uid
      <4>1. /\ held[w] \in ObjectOrAbsent /\ want[w][p] \in Publication
            /\ uid[w] \in Nat /\ at[w] \in Nat
        BY <1>1 DEF TypeOK
      <4>2. Outcome(w, p).uid \in {0, uid[w], held[w].uid}
        BY <4>1, WrittenUid DEF Outcome
      <4>3. QED BY <1>1, <2>1, <3>1, <4>2
    <3>2. QED BY <1>1, <1>3, <2>1, <3>1, StoredFrom, AbsentType
  <2>3. \A p \in Providers : cached'[p].uid <= seenSrc.uid
    BY <2>1, CopiesFrom
  <2>4. \A w \in Workers : uid'[w] <= seenSrc.uid /\ held'[w].uid <= seenSrc.uid
    BY <1>1, <2>1, WorkerUids, AbsentType
  <2>5. /\ \A p \in Providers : api'[p].uid \in Nat /\ cached'[p].uid \in Nat
        /\ \A w \in Workers : uid'[w] \in Nat /\ held'[w].uid \in Nat
    BY FieldTypes DEF TypeOK
  <2>6. QED BY <1>1, <1>2, <2>2, <2>3, <2>4, <2>5
<1>4. QED BY <1>2, <1>3 DEF UidsKnown

\* Ending a reconcile or going on with Apply keeps what a worker publishes, or
\* drops it.
LEMMA IdleWants ==
    ASSUME TypeOK, PublishesKnown, NEW w \in Workers, Idle(w)
    PROVE  PublishesKnown'
BY DEF TypeOK, PublishesKnown, Idle, Workers

LEMMA ProceedWants ==
    ASSUME TypeOK, PublishesKnown, NEW w \in Workers, NEW rest, Proceed(w, rest)
    PROVE  PublishesKnown'
<1>1. CASE UNCHANGED <<uid, want>>
  BY <1>1 DEF PublishesKnown
<1>2. CASE Idle(w)
  BY <1>2, IdleWants
<1>3. CASE w = "lifecycle" /\ uid' = [uid EXCEPT ![w] = 0] /\ UNCHANGED want
  BY <1>3 DEF PublishesKnown, TypeOK, Workers
<1>4. QED BY <1>1, <1>2, <1>3 DEF Proceed, Stop

\* Only a reconcile that has read the source publishes anything.
LEMMA WantsStayKnown ==
    ASSUME TypeOK, PublishesKnown, Next
    PROVE  PublishesKnown'
<1>1. CASE UNCHANGED <<uid, want>>
  BY <1>1 DEF PublishesKnown
<1>2. CASE Inform
  BY <1>1, <1>2 DEF Inform, SyncObject, SyncSource, SyncDeps, job
<1>3. CASE SourceReconcile
  <2>1. CASE /\ uid' = [uid EXCEPT !["source"] = seenSrc.uid]
             /\ want' = [want EXCEPT !["source"] = Publications(seenSrc, seenDeps)]
    <3>1. seenSrc.uid # 0
      BY DEF TypeOK, Source
    <3>2. QED BY <2>1, <3>1 DEF PublishesKnown, TypeOK, Workers
  <2>2. QED BY <1>1, <1>3, <2>1 DEF SourceReconcile
<1>4. ASSUME NEW p \in Providers, LifecycleReconcile(p)
      PROVE  PublishesKnown'
  <2>1. want' = want /\ (uid' = uid \/ uid' = [uid EXCEPT !["lifecycle"] = cached[p].uid])
    BY <1>4 DEF LifecycleReconcile
  <2>2. uid'["source"] = uid["source"]
    BY <2>1 DEF TypeOK, Workers
  <2>3. QED BY <2>1, <2>2 DEF PublishesKnown
<1>5. ASSUME NEW p \in Providers, AdvanceGet(p)
      PROVE  PublishesKnown'
  <2>1. Idle("lifecycle") \/ UNCHANGED <<uid, want>>
    BY <1>5 DEF AdvanceGet, Finish, Stop, job
  <2>2. QED BY <1>1, <2>1, IdleWants DEF Workers
<1>6. ASSUME NEW w \in Workers, Work(w)
      PROVE  PublishesKnown'
  <2>1. \/ Idle(w) \/ Idle("lifecycle")
        \/ \E rest : Proceed(w, rest)
        \/ UNCHANGED <<uid, want>>
    BY <1>6 DEF Work, Answer, ApplyList, ApplyGet, Commit, LoseReply, Retry, Fail,
       Requeue, Finish, Stop, job
  <2>2. QED BY <1>1, <2>1, IdleWants, ProceedWants DEF Workers
<1>7. CASE World
  <2>1. CASE \E g \in BOOLEAN : Restart(g)
    BY <2>1 DEF Restart, PublishesKnown, Workers
  <2>2. CASE ~ \E g \in BOOLEAN : Restart(g)
    BY <1>1, <1>7, <2>2 DEF World, Tick, EditSource, BreakSource, DeleteSource,
       CreateSource, ChangeSource, ChangeDeps, UpdateStatus, Tamper, job
  <2>3. QED BY <2>1, <2>2
<1>8. QED BY <1>2, <1>3, <1>4, <1>5, <1>6, <1>7 DEF Next

\* The lifecycle controller's key is there exactly while it works.
LEMMA KeyStays ==
    ASSUME IInv, key \in Providers <=> pc["lifecycle"] # "idle", Next
    PROVE  (key \in Providers <=> pc["lifecycle"] # "idle")'
<1>1. TypeOK /\ NoKey \notin Providers /\ Workers = {"source", "lifecycle"}
  BY ProvidersAssumption DEF IInv, NoKey, Workers
<1>2. ASSUME key' = key, (pc["lifecycle"] # "idle") <=> (pc'["lifecycle"] # "idle")
      PROVE  (key \in Providers <=> pc["lifecycle"] # "idle")'
  BY <1>2
<1>3. ASSUME Idle("lifecycle")
      PROVE  (key \in Providers <=> pc["lifecycle"] # "idle")'
  BY <1>1, <1>3 DEF Idle, TypeOK
<1>4. ASSUME Idle("source")
      PROVE  (key \in Providers <=> pc["lifecycle"] # "idle")'
  BY <1>1, <1>2, <1>4 DEF Idle, TypeOK
<1>5. ASSUME NEW w \in Workers, pc[w] # "idle", NEW rest, Proceed(w, rest)
      PROVE  (key \in Providers <=> pc["lifecycle"] # "idle")'
  <2>1. CASE rest = {} /\ w = "source"
    BY <1>4, <1>5, <2>1 DEF Proceed, Stop
  <2>2. CASE ~(rest = {} /\ w = "source")
    <3>1. /\ key' = key
          /\ \/ pc' = [pc EXCEPT ![w] = "get"]
             \/ w = "lifecycle" /\ pc' = [pc EXCEPT ![w] = "advance"]
      BY <1>5, <2>2 DEF Proceed
    <3>2. QED BY <1>1, <1>2, <1>5, <3>1 DEF TypeOK
  <2>3. QED BY <2>1, <2>2
<1>6. CASE Inform \/ SourceReconcile
  <2>1. key' = key /\ pc'["lifecycle"] = pc["lifecycle"]
    BY <1>1, <1>6 DEF Inform, SyncObject, SyncSource, SyncDeps, SourceReconcile, TypeOK
  <2>2. QED BY <1>2, <2>1
<1>7. ASSUME NEW p \in Providers, LifecycleReconcile(p)
      PROVE  (key \in Providers <=> pc["lifecycle"] # "idle")'
  BY <1>1, <1>7 DEF LifecycleReconcile, TypeOK
<1>8. ASSUME NEW p \in Providers, AdvanceGet(p)
      PROVE  (key \in Providers <=> pc["lifecycle"] # "idle")'
  <2>1. \/ Idle("lifecycle")
        \/ key' = key /\ pc["lifecycle"] = "advance" /\ pc' = [pc EXCEPT !["lifecycle"] = "expire"]
    BY <1>8 DEF AdvanceGet, Finish, Stop
  <2>2. QED BY <1>1, <1>2, <1>3, <2>1 DEF TypeOK
<1>9. ASSUME NEW w \in Workers, Work(w)
      PROVE  (key \in Providers <=> pc["lifecycle"] # "idle")'
  <2>1. CASE ApplyList(w)
    BY <1>1, <1>3, <1>4, <1>5, <2>1 DEF ApplyList, Stop
  <2>2. ASSUME NEW p \in Providers, ApplyGet(w, p)
        PROVE  (key \in Providers <=> pc["lifecycle"] # "idle")'
    <3>1. pc[w] = "get" /\ \/ Idle(w) \/ Proceed(w, todo[w] \ {p})
                           \/ key' = key /\ pc' = [pc EXCEPT ![w] = "write"]
      BY <2>2 DEF ApplyGet, Stop
    <3>2. QED BY <1>1, <1>2, <1>3, <1>4, <1>5, <3>1 DEF TypeOK
  <2>3. ASSUME NEW p \in Providers, Commit(w, p) \/ LoseReply(w, p) \/ Fail(w, p)
        PROVE  (key \in Providers <=> pc["lifecycle"] # "idle")'
    <3>1. pc[w] # "idle" /\ \/ Idle(w) \/ Idle("lifecycle") \/ Proceed(w, todo[w] \ {p})
      BY <2>3 DEF Commit, LoseReply, Fail, Requeue, Finish, Writes
    <3>2. QED BY <1>1, <1>3, <1>4, <1>5, <3>1
  <2>4. ASSUME NEW p \in Providers, Retry(w, p)
        PROVE  (key \in Providers <=> pc["lifecycle"] # "idle")'
    <3>1. /\ pc[w] # "idle"
          /\ \/ Idle(w)
             \/ key' = key /\ \/ pc' = [pc EXCEPT ![w] = "get"]
                              \/ pc' = [pc EXCEPT ![w] = "advance"]
      BY <1>1, <2>4 DEF Retry, Requeue, Writes, TypeOK
    <3>2. QED BY <1>1, <1>2, <1>3, <1>4, <3>1 DEF TypeOK
  <2>5. QED BY <1>9, <2>1, <2>2, <2>3, <2>4 DEF Work, Answer
<1>10. CASE World
  <2>1. CASE \E g \in BOOLEAN : Restart(g)
    BY <1>1, <2>1 DEF Restart
  <2>2. CASE ~ \E g \in BOOLEAN : Restart(g)
    <3>1. UNCHANGED <<key, pc>>
      BY <1>10, <2>2 DEF World, Tick, EditSource, BreakSource, DeleteSource,
         CreateSource, ChangeSource, ChangeDeps, UpdateStatus, Tamper
    <3>2. QED BY <1>2, <3>1
  <2>3. QED BY <2>1, <2>2
<1>11. QED BY <1>6, <1>7, <1>8, <1>9, <1>10 DEF Next

\* Until somebody edits an object by hand, what is stored and what the cache
\* shows is intact after a step when it was before.
LEMMA ObjectsStayIntact ==
    ASSUME IInv, Next, WakeInv, ~tampered'
    PROVE  /\ \A p \in Providers : Exists(api'[p]) => Intact(api'[p])
           /\ \A p \in Providers : Exists(cached'[p]) => Intact(cached'[p])
<1>1. ~tampered
  BY StaysTampered
<1>2. /\ \A p \in Providers : Exists(api[p]) => Intact(api[p])
      /\ \A p \in Providers : Exists(cached[p]) => Intact(cached[p])
      /\ PublishesKnown
  BY <1>1 DEF WakeInv, NeverSelfCorrupts
<1>3. ASSUME NEW p \in Providers, Exists(api'[p])
      PROVE  Intact(api'[p])
  <2>1. CASE api'[p] = api[p]
    BY <1>2, <1>3, <2>1
  <2>2. ASSUME NEW w \in Workers, Writes(w, p), Accepts(w, p), api'[p] = Outcome(w, p)
        PROVE  Intact(api'[p])
    BY <1>2, <1>3, <2>2, OutcomeIntact
  <2>3. QED BY <1>3, <2>1, <2>2, StoredFrom, AbsentType
<1>4. QED BY <1>2, <1>3, CopiesFrom

-----------------------------------------------------------------------------
(***************************************************************************)
(* The alarm.                                                               *)
(***************************************************************************)

\* The object of provider p has a deadline the lifecycle controller must not
\* miss, and the cache shows it: no event is on its way.
Armed(p) ==
    /\ Pending(api[p]) # {}
    /\ api[p].uid = src.uid
    /\ "cache" \in fresh[p]

\* The lifecycle controller will look at the object of provider p.
Awaited(p) == due[p] # Never \/ key = p

\* Such an object is in the cache, no check rejects it, and it passes the
\* lifecycle controller's comparison with the UID of the source it sees.
LEMMA ArmedFacts ==
    ASSUME IInv, WakeInv, ~tampered, NEW p \in Providers, Armed(p)
    PROVE  /\ Awaited(p)
           /\ cached[p] = api[p]
           /\ Managed(cached[p]) /\ Valid(cached[p]) /\ Consistent(cached[p])
           /\ ~OtherSource(cached[p])
<1>1. api[p] \in ObjectOrAbsent /\ api[p].uid \in Nat /\ src.uid \in Nat /\ seenSrc.uid \in Nat
  BY FieldTypes DEF IInv, TypeOK, Source
<1>2. cached[p] = api[p]
  BY DEF Armed, IInv, CoherentCopies
<1>3. Exists(cached[p])
  BY <1>1, <1>2, NotThere DEF Armed
<1>4. Intact(cached[p])
  BY <1>3 DEF WakeInv
<1>5. seenSrc.uid = cached[p].uid
  BY <1>1, <1>2 DEF WakeInv, UidsKnown, Armed
<1>6. Awaited(p)
  BY DEF WakeInv, AlarmSet, Armed, Awaited
<1>7. Managed(cached[p]) /\ Valid(cached[p]) /\ Consistent(cached[p])
  BY <1>3, <1>4 DEF Intact, Managed, Consistent, Inconsistent
<1>8. QED BY <1>2, <1>5, <1>6, <1>7 DEF OtherSource

\* Nothing else about the object changes, and nobody forgets it.
LEMMA StaysAwaited ==
    ASSUME IInv, WakeInv, ~tampered, NEW p \in Providers, Armed(p)',
           api'[p] = api[p], src'.uid = src.uid,
           "cache" \in fresh'[p] => "cache" \in fresh[p],
           Armed(p) /\ Awaited(p) => Awaited(p)'
    PROVE  Awaited(p)'
BY ArmedFacts DEF Armed

\* A worker that is done or gives up with its key requeued leaves no object
\* unattended.
LEMMA RequeueAwaits ==
    ASSUME IInv, WakeInv, NEW w \in Workers, pc[w] # "idle", Requeue(w), NEW p \in Providers,
           Awaited(p)
    PROVE  Awaited(p)'
<1>1. CASE w = "source"
  BY <1>1 DEF Requeue, Idle, Awaited
<1>2. CASE w = "lifecycle"
  <2>1. key \in Providers /\ due' = [due EXCEPT ![key] = 0]
    BY <1>2 DEF WakeInv, Requeue
  <2>2. QED BY <2>1 DEF Awaited, IInv, TypeOK, Never
<1>3. QED BY <1>1, <1>2 DEF Workers

LEMMA FinishAwaits ==
    ASSUME IInv, key \in Providers, NEW n \in Nat, Finish(n), NEW p \in Providers,
           Awaited(p), key = p => n # 0
    PROVE  Awaited(p)'
<1>1. \A a \in Nat \cup {Never} : Sooner(a, now + n) # Never
  BY DEF Sooner, IInv, TypeOK, Never
<1>2. QED BY <1>1 DEF Finish, Awaited, IInv, TypeOK

LEMMA ProceedAwaits ==
    ASSUME NEW w \in Workers, NEW rest, Proceed(w, rest), NEW p \in Providers, Awaited(p)
    PROVE  Awaited(p)'
BY DEF Proceed, Stop, Idle, queues, Awaited, Workers

\* No step of Apply or Advance forgets an object.
LEMMA WorkAwaits ==
    ASSUME IInv, WakeInv, ~tampered, NEW p \in Providers, Armed(p)',
           NEW w \in Workers, Work(w)
    PROVE  Awaited(p)'
<1>1. TypeOK
  BY DEF IInv
<1>2. UNCHANGED src
  BY DEF Work, Answer, ApplyList, ApplyGet, Commit, LoseReply, Retry, Fail, inputs
<1>3. CASE ApplyList(w)
  <2>1. UNCHANGED <<api, fresh>>
    BY <1>3 DEF ApplyList, cluster
  <2>2. \A q \in Providers : Listed(cached[q]) => Accepted(cached[q])
    BY DEF WakeInv, Listed, Managed, Intact, Accepted
  <2>3. \E rest : Proceed(w, rest)
    BY <1>3, <2>2 DEF ApplyList
  <2>4. QED BY <1>2, <2>1, <2>3, ProceedAwaits, StaysAwaited
<1>4. ASSUME NEW q \in Providers, ApplyGet(w, q)
      PROVE  Awaited(p)'
  <2>1. UNCHANGED api /\ ("cache" \in fresh'[p] => "cache" \in fresh[p])
    BY <1>1, <1>4 DEF ApplyGet, Hold, TypeOK, Workers
  <2>2. ~Refused(cached[q])
    BY DEF WakeInv, Refused, Intact
  <2>3. Proceed(w, todo[w] \ {q}) \/ UNCHANGED <<due, key>>
    BY <1>4, <2>2 DEF ApplyGet, queues
  <2>4. Awaited(p) => Awaited(p)'
    BY <2>3, ProceedAwaits DEF Awaited
  <2>5. QED BY <1>2, <2>1, <2>4, StaysAwaited
<1>5. ASSUME NEW q \in Providers, Commit(w, q)
      PROVE  Awaited(p)'
  <2>1. Store(q, Outcome(w, q)) /\ Writes(w, q)
    BY <1>5 DEF Commit
  <2>2. p # q
    BY <1>1, <2>1 DEF Store, Armed, TypeOK
  <2>3. api'[p] = api[p] /\ fresh'[p] = fresh[p]
    BY <1>1, <2>1, <2>2 DEF Store, TypeOK
  <2>4. ASSUME Awaited(p)
        PROVE  Awaited(p)'
    <3>1. CASE Proceed(w, todo[w] \ {q})
      BY <2>4, <3>1, ProceedAwaits
    <3>2. CASE pc[w] = "expire" /\ Finish(next)
      <4>1. key = q /\ next \in Nat
        BY <1>1, <2>1, <3>2 DEF Writes, TypeOK
      <4>2. QED BY <2>2, <2>4, <3>2, <4>1, FinishAwaits
    <3>3. QED BY <1>5, <3>1, <3>2 DEF Commit
  <2>5. QED BY <1>2, <2>3, <2>4, StaysAwaited
<1>6. ASSUME NEW q \in Providers, LoseReply(w, q)
      PROVE  Awaited(p)'
  <2>1. Store(q, Outcome(w, q)) /\ Requeue(w) /\ pc[w] # "idle"
    BY <1>6 DEF LoseReply, Writes
  <2>2. p # q
    BY <1>1, <2>1 DEF Store, Armed, TypeOK
  <2>3. api'[p] = api[p] /\ fresh'[p] = fresh[p]
    BY <1>1, <2>1, <2>2 DEF Store, TypeOK
  <2>4. QED BY <1>2, <2>1, <2>3, RequeueAwaits, StaysAwaited
<1>7. ASSUME NEW q \in Providers, Retry(w, q) \/ Fail(w, q)
      PROVE  Awaited(p)'
  <2>1. UNCHANGED api /\ ("cache" \in fresh'[p] => "cache" \in fresh[p])
    BY <1>1, <1>7 DEF Retry, Fail, cluster, TypeOK
  <2>2. pc[w] # "idle" /\ (Requeue(w) \/ UNCHANGED <<due, key>>)
    BY <1>7 DEF Retry, Fail, Writes, queues
  <2>3. Awaited(p) => Awaited(p)'
    BY <2>2, RequeueAwaits DEF Awaited
  <2>4. QED BY <1>2, <2>1, <2>3, StaysAwaited
<1>8. QED BY <1>3, <1>4, <1>5, <1>6, <1>7 DEF Work, Answer

\* The lifecycle controller takes a key only to look at its object, and lets
\* go of an object with a deadline to come only with a timer set.
LEMMA LifecycleAwaits ==
    ASSUME IInv, WakeInv, ~tampered, NEW p \in Providers, Armed(p)',
           NEW q \in Providers, LifecycleReconcile(q) \/ AdvanceGet(q)
    PROVE  Awaited(p)'
<1>1. TypeOK
  BY DEF IInv
<1>2. UNCHANGED <<src, api>> /\ ("cache" \in fresh'[p] => "cache" \in fresh[p])
  <2>1. /\ UNCHANGED <<src, api>>
        /\ UNCHANGED fresh \/ Hold("lifecycle", q)
    <3>1. CASE LifecycleReconcile(q)
      BY <3>1 DEF LifecycleReconcile, inputs, cluster
    <3>2. CASE AdvanceGet(q)
      BY <3>2 DEF AdvanceGet, inputs
    <3>3. QED BY <3>1, <3>2
  <2>2. ASSUME Hold("lifecycle", q), "cache" \in fresh'[p]
        PROVE  "cache" \in fresh[p]
    BY <1>1, <2>2 DEF Hold, TypeOK
  <2>3. QED BY <2>1, <2>2
<1>3. ASSUME LifecycleReconcile(q), Armed(p), Awaited(p)
      PROVE  Awaited(p)'
  <2>1. due[p] # Never
    BY <1>3 DEF LifecycleReconcile, WakeInv, Awaited
  <2>2. CASE p # q
    BY <1>3, <2>1, <2>2 DEF LifecycleReconcile, Awaited, IInv, TypeOK
  <2>3. CASE p = q
    <3>1. Consistent(cached[q]) /\ ~OtherSource(cached[q])
      BY <1>3, <2>3, ArmedFacts
    <3>2. key' = p
      BY <1>3, <2>3, <3>1 DEF LifecycleReconcile
    <3>3. QED BY <3>2 DEF Awaited
  <2>4. QED BY <2>2, <2>3
<1>4. ASSUME AdvanceGet(q), Armed(p), Awaited(p)
      PROVE  Awaited(p)'
  <2>1. key = q /\ next \in Nat /\ now \in Nat /\ cached[q] \in ObjectOrAbsent
    BY <1>4 DEF AdvanceGet, IInv, TypeOK
  <2>2. p = q => Valid(cached[q]) /\ Managed(cached[q]) /\ Pending(cached[q]) # {}
    BY <1>4, ArmedFacts DEF Armed
  <2>3. CASE ~Managed(cached[q])
    <3>1. Finish(next) /\ p # q
      BY <1>4, <2>2, <2>3 DEF AdvanceGet
    <3>2. QED BY <1>4, <2>1, <3>1, FinishAwaits
  <2>4. ASSUME NEW n \in NextWake(cached[q], now, next),
               Expired(cached[q], now) = {}, Finish(n)
        PROVE  Awaited(p)'
    <3>1. n \in Nat
      BY <2>1, NextWakeType
    <3>2. p = q => n # 0
      BY <2>1, <2>2, <2>4, WakesLater
    <3>3. QED BY <1>4, <2>1, <2>4, <3>1, <3>2, FinishAwaits
  <2>5. CASE UNCHANGED <<due, key>>
    BY <1>4, <2>5 DEF Awaited
  <2>6. Managed(cached[q]) => Valid(cached[q])
    BY DEF WakeInv, Managed, Intact
  <2>7. \/ ~Managed(cached[q])
        \/ \E n \in NextWake(cached[q], now, next) :
              Expired(cached[q], now) = {} /\ Finish(n)
        \/ UNCHANGED <<due, key>>
    BY <1>4, <2>6 DEF AdvanceGet, queues
  <2>8. QED BY <2>3, <2>4, <2>5, <2>7
<1>5. QED BY <1>2, <1>3, <1>4, StaysAwaited

\* Neither does an event of an informer or a step of the outside world.
LEMMA OtherStepsAwait ==
    ASSUME IInv, WakeInv, ~tampered, NEW p \in Providers, Armed(p)',
           Inform \/ SourceReconcile \/ World
    PROVE  Awaited(p)'
<1>1. TypeOK
  BY DEF IInv
<1>2. ASSUME api' = api, src'.uid = src.uid, fresh' = fresh, UNCHANGED <<due, key>>
      PROVE  Awaited(p)'
  BY <1>2, StaysAwaited DEF Awaited
<1>3. ASSUME NEW q \in Providers, SyncObject(q)
      PROVE  Awaited(p)'
  <2>1. CASE p = q
    BY <1>1, <1>3, <2>1 DEF SyncObject, Awaited, TypeOK, Never
  <2>2. CASE p # q
    <3>1. UNCHANGED <<api, src, key>> /\ fresh'[p] = fresh[p] /\ due'[p] = due[p]
      BY <1>1, <1>3, <2>2 DEF SyncObject, inputs, TypeOK
    <3>2. QED BY <3>1, StaysAwaited DEF Awaited
  <2>3. QED BY <2>1, <2>2
<1>4. CASE SyncSource \/ SyncDeps \/ SourceReconcile \/ Tick \/ \E q \in Providers : ChangeDeps(q)
  BY <1>2, <1>4 DEF SyncSource, SyncDeps, SourceReconcile, Tick, ChangeDeps, cluster, inputs,
     queues
<1>5. CASE EditSource \/ BreakSource \/ DeleteSource
  <2>1. src'.uid = src.uid
    BY <1>1, <1>5 DEF EditSource, BreakSource, DeleteSource, ChangeSource, TypeOK, Source
  <2>2. QED BY <1>2, <1>5, <2>1 DEF EditSource, BreakSource, DeleteSource, ChangeSource,
            cluster, queues
<1>6. ASSUME CreateSource
      PROVE  FALSE
  <2>1. src \in Source /\ src.uid \in Nat /\ api[p].uid \in Nat
    BY <1>1, FieldTypes DEF TypeOK, Source
  <2>2. src'.uid = src.uid + 1 /\ api' = api
    BY <1>6, <2>1 DEF CreateSource, ChangeSource, cluster, Source
  <2>3. QED BY <2>1, <2>2 DEF Armed, WakeInv, UidsKnown, IInv, TypeOK, Source
<1>7. ASSUME NEW q \in Providers, UpdateStatus(q) \/ \E kind \in Tampering : Tamper(q, kind)
      PROVE  Awaited(p)'
  <2>1. PICK o : Store(q, o)
    BY <1>7 DEF UpdateStatus, Tamper
  <2>2. p # q
    BY <1>1, <2>1 DEF Store, Armed, TypeOK
  <2>3. UNCHANGED <<src, due, key>> /\ api'[p] = api[p] /\ fresh'[p] = fresh[p]
    BY <1>1, <1>7, <2>1, <2>2 DEF Store, TypeOK, UpdateStatus, Tamper, inputs, queues
  <2>4. QED BY <2>3, StaysAwaited DEF Awaited
<1>8. ASSUME NEW g \in BOOLEAN, Restart(g)
      PROVE  Awaited(p)'
  <2>1. api' = api /\ due' = [q \in Providers |-> IF Exists(api[q]) THEN 0 ELSE Never]
    BY <1>8 DEF Restart
  <2>2. Exists(api[p])
    BY <1>1, <2>1, NotThere DEF Armed, TypeOK
  <2>3. QED BY <2>1, <2>2 DEF Awaited, Never
<1>9. QED BY <1>3, <1>4, <1>5, <1>6, <1>7, <1>8 DEF Inform, World

\* The invariant of the wake-ups is inductive beside IInv.
LEMMA WakeInvariant == Spec => []WakeInv
<1>1. Init => WakeInv
  <2> SUFFICES ASSUME Init PROVE WakeInv
    OBVIOUS
  <2>1. /\ api = [p \in Providers |-> Absent] /\ cached = api
        /\ src.uid = 1 /\ seenSrc = src
        /\ pc = [w \in Workers |-> "idle"] /\ key = NoKey
        /\ uid = [w \in Workers |-> 0] /\ held = [w \in Workers |-> Absent]
        /\ want = [w \in Workers |-> NoWant]
    BY DEF Init, Start
  <2>2. UidsKnown /\ PublishesKnown
    BY <2>1, AbsentType DEF UidsKnown, PublishesKnown, Workers
  <2>3. key \notin Providers /\ pc["lifecycle"] = "idle"
    BY <2>1, ProvidersAssumption DEF NoKey, Workers
  <2>4. NeverSelfCorrupts /\ \A p \in Providers : ~Exists(cached[p])
    BY <2>1, AbsentType DEF NeverSelfCorrupts
  <2>5. AlarmSet
    BY <2>1, AbsentType, NotThere DEF AlarmSet
  <2>6. QED BY <2>2, <2>3, <2>4, <2>5 DEF WakeInv
<1>2. IInv /\ IInv' /\ WakeInv /\ [Next]_vars => WakeInv'
  <2> SUFFICES ASSUME IInv, IInv', WakeInv, [Next]_vars PROVE WakeInv'
    OBVIOUS
  <2>1. CASE UNCHANGED vars
    BY <2>1 DEF vars, cluster, inputs, queues, job, attempt, world, WakeInv,
       UidsKnown, PublishesKnown, NeverSelfCorrupts, AlarmSet
  <2>2. CASE Next
    <3>1. UidsKnown'
      BY <2>2, UidsStayKnown DEF WakeInv, IInv
    <3>2. (key \in Providers <=> pc["lifecycle"] # "idle")'
      BY <2>2, KeyStays DEF WakeInv
    <3>3. PublishesKnown'
      BY <2>2, WantsStayKnown DEF WakeInv, IInv
    <3>4. /\ NeverSelfCorrupts'
          /\ ~tampered' => \A p \in Providers : Exists(cached'[p]) => Intact(cached'[p])
      BY <2>2, ObjectsStayIntact DEF NeverSelfCorrupts
    <3>5. ASSUME ~tampered', NEW p \in Providers, Armed(p)'
          PROVE  Awaited(p)'
      <4> ~tampered
        BY <2>2, <3>5, StaysTampered
      <4>1. CASE \E q \in Providers : LifecycleReconcile(q) \/ AdvanceGet(q)
        BY <3>5, <4>1, LifecycleAwaits
      <4>2. CASE \E w \in Workers : Work(w)
        BY <3>5, <4>2, WorkAwaits
      <4>3. QED BY <2>2, <3>5, <4>1, <4>2, OtherStepsAwait DEF Next
    <3>6. AlarmSet'
      BY <3>5 DEF AlarmSet, Armed, Awaited
    <3>7. QED BY <3>1, <3>2, <3>3, <3>4, <3>6 DEF WakeInv
  <2>3. QED BY <2>1, <2>2
<1>3. QED BY <1>1, <1>2, Coherent, PTL DEF Spec

\* labdns never writes an object that one of its own checks would refuse, nor
\* one that publishes nothing: as long as nobody has edited an object by hand,
\* every stored object is intact, whatever the races between the controllers,
\* the events, the failures and the restarts.
THEOREM NoSelfCorruption == Spec => []NeverSelfCorrupts
BY WakeInvariant, PTL DEF WakeInv

\* As long as nobody has edited an object by hand, a pending target of a source
\* that was not created anew is never forgotten: its object waits in the
\* lifecycle queue, is being worked on, or has an event on its way, through
\* conflicts, lost replies, removals and restarts.
THEOREM NoLostAlarm == Spec => []AlarmSet
BY WakeInvariant, PTL DEF WakeInv
==============================================================================
