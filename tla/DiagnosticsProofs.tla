-------------------------- MODULE DiagnosticsProofs --------------------------
(***************************************************************************)
(* Proofs about the diagnostic emitter, for any number of controllers,      *)
(* sources and diagnostics and any capacity, limit and interval.            *)
(***************************************************************************)
EXTENDS Diagnostics, FiniteSetTheorems, SequenceTheorems, TLAPS

-----------------------------------------------------------------------------
(***************************************************************************)
(* The list of tracked sources.                                             *)
(***************************************************************************)

\* list.Remove takes exactly one source out and keeps the others apart.
LEMMA OthersProperties ==
    ASSUME lru \in Seq(Keys), IsInjective(lru), NEW k \in Tracked
    PROVE  /\ Others(k) \in Seq(Keys)
           /\ IsInjective(Others(k))
           /\ Len(Others(k)) = Len(lru) - 1
           /\ ToSet(Others(k)) = Tracked \ {k}
<1> DEFINE n == Len(lru)
           i == CHOOSE j \in DOMAIN lru : lru[j] = k
<1>1. n \in Nat /\ DOMAIN lru = 1 .. n
  BY LenProperties
<1>2. i \in 1 .. n /\ lru[i] = k
  BY <1>1 DEF Tracked, ToSet
<1> DEFINE s == [j \in 1 .. (n - 1) |-> IF j < i THEN lru[j] ELSE lru[j + 1]]
<1>3. Others(k) = SubSeq(lru, 1, i - 1) \o SubSeq(lru, i + 1, n)
  BY DEF Others, RemoveAt
<1> HIDE DEF i
<1> DEFINE a == SubSeq(lru, 1, i - 1)
           b == SubSeq(lru, i + 1, n)
<1>4. /\ a \in Seq(Keys) /\ Len(a) = i - 1
      /\ \A j \in 1 .. (i - 1) : a[j] = lru[j]
  BY <1>1, <1>2
<1>5. /\ b \in Seq(Keys) /\ Len(b) = n - i
      /\ \A j \in 1 .. (n - i) : b[j] = lru[i + j]
  <2>1. i + 1 \in Int /\ n \in Int /\ \A j \in (i + 1) .. n : lru[j] \in Keys
    BY <1>1, <1>2
  <2>2. /\ b \in Seq(Keys)
        /\ Len(b) = IF i + 1 <= n THEN n - (i + 1) + 1 ELSE 0
        /\ \A j \in 1 .. (n - (i + 1) + 1) : b[j] = lru[(i + 1) + j - 1]
    BY <2>1, SubSeqProperties
  <2> HIDE DEF b, n
  <2>3. QED BY <1>1, <1>2, <2>2
<1> HIDE DEF a, b, n
<1>6. /\ a \o b \in Seq(Keys)
      /\ Len(a \o b) = n - 1
      /\ \A j \in 1 .. (n - 1) : (a \o b)[j] = IF j <= i - 1 THEN a[j] ELSE b[j - (i - 1)]
  BY <1>1, <1>2, <1>4, <1>5, ConcatProperties
<1>7. \A j \in 1 .. (n - 1) : (a \o b)[j] = s[j]
  BY <1>1, <1>2, <1>4, <1>5, <1>6
<1>8. Others(k) = a \o b /\ DOMAIN (a \o b) = 1 .. (n - 1)
  BY <1>3, <1>6, LenProperties DEF a, b, n
<1>9. IsInjective(a \o b)
  <2> SUFFICES ASSUME NEW x \in 1 .. (n - 1), NEW y \in 1 .. (n - 1), s[x] = s[y]
               PROVE  x = y
    BY <1>7, <1>8 DEF IsInjective
  <2>1. \A p, q \in 1 .. n : lru[p] = lru[q] => p = q
    BY <1>1 DEF IsInjective
  <2>2. QED BY <1>1, <1>2, <2>1
<1>10. ToSet(a \o b) = Tracked \ {k}
  <2>1. ASSUME NEW x \in 1 .. (n - 1) PROVE s[x] \in Tracked \ {k}
    <3>1. \A p \in 1 .. n : lru[p] = k => p = i
      BY <1>1, <1>2 DEF IsInjective
    <3>2. QED BY <1>1, <1>2, <3>1 DEF Tracked, ToSet
  <2>2. ASSUME NEW x \in Tracked \ {k} PROVE \E y \in 1 .. (n - 1) : s[y] = x
    <3>1. PICK p \in 1 .. n : lru[p] = x
      BY <1>1 DEF Tracked, ToSet
    <3>2. p # i
      BY <1>2, <3>1
    <3>3. CASE p < i
      BY <1>1, <1>2, <3>1, <3>3
    <3>4. CASE p > i
      <4>1. p - 1 \in 1 .. (n - 1) /\ s[p - 1] = x
        BY <1>1, <1>2, <3>1, <3>4
      <4>2. QED BY <4>1
    <3>5. QED BY <1>1, <1>2, <3>2, <3>3, <3>4
  <2>3. ToSet(a \o b) = {s[y] : y \in 1 .. (n - 1)}
    BY <1>7, <1>8 DEF ToSet
  <2> HIDE DEF s
  <2>4. QED BY <2>1, <2>2, <2>3
<1>11. QED BY <1>6, <1>8, <1>9, <1>10 DEF n

\* PushFront puts a source that is not listed in front of the others.
LEMMA PushFront ==
    ASSUME NEW s \in Seq(Keys), IsInjective(s), NEW k \in Keys, k \notin ToSet(s)
    PROVE  /\ <<k>> \o s \in Seq(Keys)
           /\ IsInjective(<<k>> \o s)
           /\ Len(<<k>> \o s) = Len(s) + 1
           /\ ToSet(<<k>> \o s) = ToSet(s) \cup {k}
<1> DEFINE n == Len(s)
           t == <<k>> \o s
<1>1. n \in Nat /\ DOMAIN s = 1 .. n
  BY LenProperties
<1>2. /\ t \in Seq(Keys) /\ Len(t) = n + 1
      /\ \A j \in 1 .. (n + 1) : t[j] = IF j = 1 THEN k ELSE s[j - 1]
  BY <1>1, ConcatProperties
<1>3. DOMAIN t = 1 .. (n + 1)
  BY <1>2, LenProperties
<1> HIDE DEF t, n
<1>4. IsInjective(t)
  <2> SUFFICES ASSUME NEW x \in 1 .. (n + 1), NEW y \in 1 .. (n + 1), t[x] = t[y]
               PROVE  x = y
    BY <1>3 DEF IsInjective
  <2>1. \A p, q \in 1 .. n : s[p] = s[q] => p = q
    BY <1>1 DEF IsInjective
  <2>2. \A p \in 1 .. n : s[p] # k
    BY <1>1 DEF ToSet
  <2>3. QED BY <1>1, <1>2, <2>1, <2>2
<1>5. ToSet(t) = ToSet(s) \cup {k}
  <2>1. ASSUME NEW x \in ToSet(t) PROVE x \in ToSet(s) \cup {k}
    <3>1. PICK p \in 1 .. (n + 1) : t[p] = x
      BY <1>3 DEF ToSet
    <3>2. p # 1 => p - 1 \in 1 .. n /\ s[p - 1] = x
      BY <1>1, <1>2, <3>1
    <3>3. QED BY <1>1, <1>2, <3>1, <3>2 DEF ToSet
  <2>2. ASSUME NEW x \in ToSet(s) PROVE x \in ToSet(t)
    <3>1. PICK p \in 1 .. n : s[p] = x
      BY <1>1 DEF ToSet
    <3>2. p + 1 \in 1 .. (n + 1) /\ t[p + 1] = x
      BY <1>1, <1>2, <3>1
    <3>3. QED BY <1>3, <3>2 DEF ToSet
  <2>3. 1 \in DOMAIN t /\ t[1] = k
    BY <1>1, <1>2, <1>3
  <2>4. QED BY <2>1, <2>2, <2>3 DEF ToSet
<1>6. QED BY <1>2, <1>4, <1>5 DEF t, n

\* The front of the list is a list.
LEMMA FrontProperties ==
    ASSUME lru \in Seq(Keys), IsInjective(lru), NEW n \in Nat, n <= Len(lru)
    PROVE  /\ SubSeq(lru, 1, n) \in Seq(Keys)
           /\ IsInjective(SubSeq(lru, 1, n))
           /\ Len(SubSeq(lru, 1, n)) = n
           /\ ToSet(SubSeq(lru, 1, n)) \subseteq Tracked
<1> DEFINE s == SubSeq(lru, 1, n)
<1>1. Len(lru) \in Nat /\ DOMAIN lru = 1 .. Len(lru)
  BY LenProperties
<1>2. s \in Seq(Keys) /\ Len(s) = n /\ \A j \in 1 .. n : s[j] = lru[j]
  BY <1>1
<1>3. DOMAIN s = 1 .. n
  BY <1>2, LenProperties
<1>4. \A j \in 1 .. n : j \in DOMAIN lru
  BY <1>1
<1> HIDE DEF s
<1>5. QED BY <1>2, <1>3, <1>4 DEF IsInjective, ToSet, Tracked, s

\* diagnosticEmitter.state: the source is listed, the capacity holds and nobody
\* new beside it is.
LEMMA TouchProperties ==
    ASSUME TypeOK, MemoryInv, NEW k \in Keys
    PROVE  /\ Touch(k) \in Seq(Keys)
           /\ IsInjective(Touch(k))
           /\ Len(Touch(k)) <= Capacity
           /\ k \in ToSet(Touch(k))
           /\ ToSet(Touch(k)) \subseteq Tracked \cup {k}
<1>1. lru \in Seq(Keys) /\ IsInjective(lru) /\ Len(lru) \in Nat /\ Len(lru) <= Capacity
  BY LenProperties DEF TypeOK, MemoryInv
<1>2. CASE k \in Tracked
  <2>1. Touch(k) = <<k>> \o Others(k)
    BY <1>2 DEF Touch
  <2>2. QED BY <1>1, <1>2, <2>1, OthersProperties, PushFront, LimitsAssumption
<1>3. CASE k \notin Tracked /\ Len(lru) >= Capacity
  <2>1. Touch(k) = <<k>> \o SubSeq(lru, 1, Capacity - 1)
    BY <1>3 DEF Touch
  <2>2. Capacity - 1 \in Nat /\ Capacity - 1 <= Len(lru) /\ Capacity - 1 + 1 = Capacity
    BY <1>1, <1>3, LimitsAssumption
  <2>3. /\ SubSeq(lru, 1, Capacity - 1) \in Seq(Keys)
        /\ IsInjective(SubSeq(lru, 1, Capacity - 1))
        /\ Len(SubSeq(lru, 1, Capacity - 1)) = Capacity - 1
        /\ ToSet(SubSeq(lru, 1, Capacity - 1)) \subseteq Tracked
    BY <1>1, <2>2, FrontProperties
  <2> DEFINE s == SubSeq(lru, 1, Capacity - 1)
  <2> HIDE DEF s
  <2>4. /\ <<k>> \o s \in Seq(Keys) /\ IsInjective(<<k>> \o s)
        /\ Len(<<k>> \o s) = Len(s) + 1 /\ ToSet(<<k>> \o s) = ToSet(s) \cup {k}
    BY <1>3, <2>3, PushFront DEF s
  <2>5. Len(s) + 1 = Capacity /\ Touch(k) = <<k>> \o s
    BY <2>1, <2>2, <2>3 DEF s
  <2>6. QED BY <2>3, <2>4, <2>5, LimitsAssumption DEF s
<1>4. CASE k \notin Tracked /\ ~(Len(lru) >= Capacity)
  <2>1. Touch(k) = <<k>> \o lru
    BY <1>4 DEF Touch
  <2>2. QED BY <1>1, <1>4, <2>1, PushFront, LimitsAssumption DEF Tracked
<1>5. QED BY <1>2, <1>3, <1>4

\* The list deleteSource leaves holds the survivors.
LEMMA InOrderProperties ==
    ASSUME lru \in Seq(Keys), IsInjective(lru), NEW gone, NEW s \in InOrder(gone)
    PROVE  /\ s \in Seq(Keys)
           /\ IsInjective(s)
           /\ Len(s) <= Len(lru)
           /\ ToSet(s) = Tracked \ gone
<1> DEFINE S == Tracked \ gone
           n == Cardinality(S)
<1>1. Len(lru) \in Nat /\ DOMAIN lru = 1 .. Len(lru) /\ lru \in [1 .. Len(lru) -> Keys]
  BY LenProperties
<1>2. IsFiniteSet(1 .. Len(lru)) /\ Cardinality(1 .. Len(lru)) = Len(lru)
  BY <1>1, FS_Interval
<1>3. lru \in Surjection(1 .. Len(lru), Tracked)
  BY <1>1 DEF Surjection, Tracked, ToSet
<1>4. IsFiniteSet(Tracked) /\ Cardinality(Tracked) <= Len(lru)
  BY <1>2, <1>3, FS_Surjection
<1>5. IsFiniteSet(S) /\ n \in Nat /\ n <= Len(lru)
  BY <1>1, <1>4, FS_Subset, FS_CardinalityType
<1>6. s \in [1 .. n -> S] /\ \A i, j \in 1 .. n : i # j => s[i] # s[j]
  BY DEF InOrder, SetToSeqs
<1>7. S \subseteq Keys
  BY <1>1 DEF Tracked, ToSet
<1> HIDE DEF n, S
<1>8. DOMAIN s = 1 .. n /\ Len(s) = n /\ s \in Seq(Keys)
  BY <1>5, <1>6, <1>7
<1>9. s \in Injection(1 .. n, S)
  BY <1>6 DEF Injection, IsInjective
<1>10. Cardinality(1 .. n) = n
  BY <1>5, FS_Interval
<1>11. s \in Surjection(1 .. n, S)
  BY <1>5, <1>9, <1>10, FS_Injection DEF n
<1>12. ToSet(s) = S
  BY <1>6, <1>8, <1>11 DEF Surjection, ToSet
<1>13. QED BY <1>5, <1>8, <1>9, <1>12 DEF Injection, S

-----------------------------------------------------------------------------
(***************************************************************************)
(* The steps that write the memory, key by key.                             *)
(***************************************************************************)

\* diagnosticEmitter.report: the source of a report is listed first, and the
\* sources that are pushed out are forgotten.
Listed(w, k, d) ==
    /\ k \in session[w] /\ k \in Keys /\ k \notin PushedOut(k)
    /\ d \notin seen[w] /\ seen' = [seen EXCEPT ![w] = @ \cup {d}]
    /\ lru' = Touch(k)
    /\ last' \in [Keys -> [Messages -> Times]]
    /\ \A j \in Keys \ {k} : last'[j] = IF j \in PushedOut(k) THEN Silent ELSE last[j]
    /\ UNCHANGED <<now, session, sessions>>

\* The diagnostic is kept back.
KeptBack(k, d) ==
    /\ ~Due(k, d)
    /\ last'[k] = last[k]
    /\ shown' = shown
    /\ evicted' = evicted \cup (PushedOut(k) \X Messages)

\* The diagnostic is emitted, and drop evicted.
Emitted(k, d, drop) ==
    /\ Due(k, d)
    /\ last'[k] = [c \in Messages |-> IF c = d THEN now
                                      ELSE IF c \in drop THEN Never
                                      ELSE last[k][c]]
    /\ evicted' = (evicted \cup (PushedOut(k) \X Messages) \cup ({k} \X drop)) \ {<<k, d>>}
    /\ shown' = [shown EXCEPT ![k][d] = now]

LEMMA ReportEffect ==
    ASSUME TypeOK, MemoryInv, NEW w \in Controllers, NEW d \in Messages, Report(w, d)
    PROVE  \E k \in Keys :
              /\ Listed(w, k, d)
              /\ KeptBack(k, d) \/ \E drop \in Drops(k, d) : Emitted(k, d, drop)
<1> PICK k \in session[w] :
        /\ d \notin seen[w]
        /\ seen' = [seen EXCEPT ![w] = @ \cup {d}]
        /\ lru' = Touch(k)
        /\ \/ /\ ~Due(k, d)
              /\ last' = Forget(last, PushedOut(k))
              /\ UNCHANGED shown
              /\ evicted' = evicted \cup (PushedOut(k) \X Messages)
           \/ /\ Due(k, d)
              /\ \E drop \in Drops(k, d) :
                    /\ last' = [Forget(last, PushedOut(k)) EXCEPT
                                   ![k] = [c \in Messages |-> IF c = d THEN now
                                                              ELSE IF c \in drop THEN Never
                                                              ELSE @[c]]]
                    /\ evicted' = (evicted \cup (PushedOut(k) \X Messages) \cup ({k} \X drop))
                                      \ {<<k, d>>}
              /\ shown' = [shown EXCEPT ![k][d] = now]
        /\ UNCHANGED <<now, session, sessions>>
  BY DEF Report
<1>1. k \in Keys
  BY DEF TypeOK
<1>2. k \notin PushedOut(k)
  BY <1>1, TouchProperties DEF PushedOut
<1> DEFINE po == PushedOut(k)
           old == Forget(last, po)
<1>3. /\ old \in [Keys -> [Messages -> Times]]
      /\ old[k] = last[k]
      /\ \A j \in Keys \ {k} : old[j] = IF j \in po THEN Silent ELSE last[j]
  BY <1>1, <1>2 DEF Forget, TypeOK, Silent, Times
<1> HIDE DEF old, po
<1>4. CASE ~Due(k, d)
  BY <1>1, <1>2, <1>3, <1>4 DEF old, po, Listed, KeptBack
<1>5. CASE Due(k, d)
  <2>1. PICK drop \in Drops(k, d) :
           /\ last' = [old EXCEPT ![k] = [c \in Messages |-> IF c = d THEN now
                                                              ELSE IF c \in drop THEN Never
                                                              ELSE old[k][c]]]
           /\ evicted' = (evicted \cup (po \X Messages) \cup ({k} \X drop)) \ {<<k, d>>}
    BY <1>5 DEF old, po
  <2> DEFINE new == [c \in Messages |-> IF c = d THEN now ELSE IF c \in drop THEN Never
                                                              ELSE last[k][c]]
  <2>2. new \in [Messages -> Times]
    BY <1>1 DEF TypeOK, Times
  <2>3. last' = [old EXCEPT ![k] = new]
    BY <1>3, <2>1
  <2> HIDE DEF new
  <2>4. /\ last' \in [Keys -> [Messages -> Times]]
        /\ last'[k] = new
        /\ \A j \in Keys \ {k} : last'[j] = old[j]
    BY <1>1, <1>3, <2>2, <2>3
  <2>5. Listed(w, k, d)
    BY <1>1, <1>2, <1>3, <2>4 DEF po, Listed
  <2>6. Emitted(k, d, drop)
    BY <1>5, <2>1, <2>4 DEF new, po, Emitted
  <2>7. QED BY <1>1, <2>1, <2>5, <2>6
<1>6. QED BY <1>4, <1>5

\* clearMissing: of the source's diagnostics, those this reconcile reported stay.
Cleared(w, k) ==
    /\ k \in session[w]
    /\ last' \in [Keys -> [Messages -> Times]]
    /\ shown' \in [Keys -> [Messages -> Times]]
    /\ \A j \in Keys \ {k} : last'[j] = last[j] /\ shown'[j] = shown[j]
    /\ \A d \in Messages : last'[k][d] = IF d \in seen[w] THEN last[k][d] ELSE Never
    /\ \A d \in Messages : shown'[k][d] = IF d \in seen[w] THEN shown[k][d] ELSE Never
    /\ lru' = IF k \notin Tracked THEN lru
              ELSE IF Conditions(k) \cap seen[w] = {} THEN Others(k)
              ELSE <<k>> \o Others(k)
    /\ session' = [session EXCEPT ![w] = {}]
    /\ UNCHANGED <<now, seen, evicted, sessions>>

LEMMA FinishEffect ==
    ASSUME TypeOK, NEW w \in Controllers, FinishSuccess(w)
    PROVE  \E k \in Keys : Cleared(w, k)
<1> PICK k \in session[w] :
        /\ session' = [session EXCEPT ![w] = {}]
        /\ last' = [last EXCEPT ![k] = [d \in Messages |-> IF d \in seen[w] THEN @[d] ELSE Never]]
        /\ lru' = IF k \notin Tracked THEN lru
                  ELSE IF Conditions(k) \cap seen[w] = {} THEN Others(k)
                  ELSE <<k>> \o Others(k)
        /\ Resolve(k, Messages \ seen[w])
        /\ UNCHANGED <<now, seen, evicted, sessions>>
  BY DEF FinishSuccess
<1>1. k \in Keys
  BY DEF TypeOK
<1> DEFINE l == [d \in Messages |-> IF d \in seen[w] THEN last[k][d] ELSE Never]
           h == [d \in Messages |-> IF d \in Messages \ seen[w] THEN Never ELSE shown[k][d]]
<1>2. l \in [Messages -> Times] /\ h \in [Messages -> Times]
  BY <1>1 DEF TypeOK, Times
<1>3. last' = [last EXCEPT ![k] = l] /\ shown' = [shown EXCEPT ![k] = h]
  BY <1>1 DEF Resolve, TypeOK
<1>4. /\ \A d \in Messages : l[d] = IF d \in seen[w] THEN last[k][d] ELSE Never
      /\ \A d \in Messages : h[d] = IF d \in seen[w] THEN shown[k][d] ELSE Never
  OBVIOUS
<1> HIDE DEF l, h
<1>5. Cleared(w, k)
  BY <1>1, <1>2, <1>3, <1>4 DEF TypeOK, Cleared
<1>6. QED BY <1>1, <1>5

\* deleteSource: every UID of the source is forgotten.
LEMMA DeleteEffect ==
    ASSUME TypeOK, MemoryInv, NEW w \in Controllers, NEW n \in Names, DeleteSource(w, n)
    PROVE  \E gone \in SUBSET Keys :
              /\ lru' \in InOrder(gone)
              /\ last' \in [Keys -> [Messages -> Times]]
              /\ shown' \in [Keys -> [Messages -> Times]]
              /\ \A k \in Keys : last'[k] = IF k \in gone THEN Silent ELSE last[k]
              /\ \A k \in Keys : shown'[k] = IF k \in gone THEN Silent ELSE shown[k]
<1> DEFINE gone == {k \in Keys : k[1] = w /\ k[2] = n}
<1>1. lru' \in InOrder(gone) /\ last' = Forget(last, gone) /\ shown' = Forget(shown, gone)
  BY DEF DeleteSource
<1>2. gone \in SUBSET Keys
  OBVIOUS
<1> HIDE DEF gone
<1>3. QED BY <1>1, <1>2 DEF Forget, Silent, TypeOK, Times

-----------------------------------------------------------------------------
(***************************************************************************)
(* Types.                                                                   *)
(***************************************************************************)
LEMMA TypeStep ==
    ASSUME TypeOK, MemoryInv, [Next]_vars
    PROVE  TypeOK'
<1>1. ASSUME NEW k \in Keys, Begin(k)
      PROVE  TypeOK'
  <2>1. k[1] \in Controllers
    BY DEF Keys
  <2>2. QED BY <1>1, <2>1 DEF Begin, TypeOK
<1>2. ASSUME NEW w \in Controllers, NEW d \in Messages, Report(w, d)
      PROVE  TypeOK'
  <2> PICK k \in Keys : /\ Listed(w, k, d)
                        /\ KeptBack(k, d) \/ \E drop \in Drops(k, d) : Emitted(k, d, drop)
    BY <1>2, ReportEffect
  <2>1. lru' \in Seq(Keys)
    BY TouchProperties DEF Listed
  <2>2. shown' = shown \/ shown' = [shown EXCEPT ![k] = [shown[k] EXCEPT ![d] = now]]
    BY DEF KeptBack, Emitted, TypeOK
  <2>3. [shown[k] EXCEPT ![d] = now] \in [Messages -> Times]
    BY DEF TypeOK, Times
  <2>4. shown' \in [Keys -> [Messages -> Times]]
    BY <2>2, <2>3 DEF TypeOK
  <2>5. seen' \in [Controllers -> SUBSET Messages]
    BY DEF TypeOK, Listed
  <2>6. PushedOut(k) \subseteq Keys
    BY DEF PushedOut, Tracked, ToSet, TypeOK
  <2>7. \A drop \in Drops(k, d) : drop \subseteq Messages
    BY DEF TooMany, Conditions, Drops
  <2>8. (PushedOut(k) \X Messages) \subseteq Keys \X Messages
    BY <2>6
  <2>9. \A drop \in Drops(k, d) : ({k} \X drop) \subseteq Keys \X Messages
    BY <2>7
  <2>10. evicted' \subseteq Keys \X Messages
    BY <2>8, <2>9, Zenon DEF TypeOK, KeptBack, Emitted
  <2>11. QED BY <2>1, <2>4, <2>5, <2>10 DEF TypeOK, Listed
<1>3. ASSUME NEW w \in Controllers, FinishSuccess(w)
      PROVE  TypeOK'
  <2> PICK k \in Keys : Cleared(w, k)
    BY <1>3, FinishEffect
  <2>1. lru' \in Seq(Keys)
    <3>1. CASE k \in Tracked
      <4>1. /\ Others(k) \in Seq(Keys) /\ IsInjective(Others(k))
            /\ ToSet(Others(k)) = Tracked \ {k}
        BY <3>1, OthersProperties DEF TypeOK, MemoryInv
      <4>2. <<k>> \o Others(k) \in Seq(Keys)
        BY <4>1, PushFront
      <4>3. lru' = Others(k) \/ lru' = <<k>> \o Others(k)
        BY <3>1 DEF Cleared
      <4>4. QED BY <4>1, <4>2, <4>3
    <3>2. CASE k \notin Tracked
      BY <3>2 DEF TypeOK, Cleared
    <3>3. QED BY <3>1, <3>2
  <2>2. QED BY <2>1 DEF TypeOK, Cleared
<1>4. ASSUME NEW w \in Controllers, FinishFailure(w)
      PROVE  TypeOK'
  BY <1>4 DEF FinishFailure, TypeOK
<1>5. ASSUME NEW w \in Controllers, NEW n \in Names, DeleteSource(w, n)
      PROVE  TypeOK'
  <2>1. lru' \in Seq(Keys)
    BY <1>5, DeleteEffect, InOrderProperties DEF TypeOK, MemoryInv
  <2>2. last' \in [Keys -> [Messages -> Times]] /\ shown' \in [Keys -> [Messages -> Times]]
    BY <1>5, DeleteEffect
  <2>3. UNCHANGED <<now, session, seen, evicted>> /\ sessions' = sessions + 1
    BY <1>5 DEF DeleteSource
  <2>4. QED BY <2>1, <2>2, <2>3 DEF TypeOK
<1>6. CASE Tick
  BY <1>6 DEF Tick, TypeOK
<1>7. CASE UNCHANGED vars
  BY <1>7 DEF vars, TypeOK
<1>8. QED BY <1>1, <1>2, <1>3, <1>4, <1>5, <1>6, <1>7 DEF Next

-----------------------------------------------------------------------------
(***************************************************************************)
(* The memory is bounded.                                                   *)
(***************************************************************************)

\* A set of times has an earliest one.
LEMMA Earliest ==
    ASSUME NEW S \in SUBSET Nat, S # {}
    PROVE  \E m \in S : \A n \in S : m <= n
<1>1. PICK m \in S : \A n \in S : <<n, m>> \notin OpToRel(<, Nat)
  BY NatLessThanWellFounded, WFMin
<1>2. \A n \in S : ~(n < m)
  BY <1>1 DEF OpToRel
<1>3. QED BY <1>2

\* evictOldestCondition finds a victim whenever it is called, and leaves the
\* number of diagnostics at the limit.
LEMMA DropsEnough ==
    ASSUME TypeOK, MemoryInv, NEW k \in Keys, NEW d \in Messages, NEW drop \in Drops(k, d)
    PROVE  /\ d \notin drop
           /\ IsFiniteSet((Conditions(k) \cup {d}) \ drop)
           /\ Cardinality((Conditions(k) \cup {d}) \ drop) <= Limit
<1> DEFINE C == Conditions(k)
           D == C \cup {d}
<1>1. IsFiniteSet(C) /\ Cardinality(C) \in Nat /\ Cardinality(C) <= Limit /\ Limit \in Nat \ {0}
  BY FS_CardinalityType, LimitsAssumption DEF MemoryInv
<1>2. IsFiniteSet(D) /\ Cardinality(D) \in Nat /\ Cardinality(D) <= Limit + 1
  <2>1. IsFiniteSet(D) /\ Cardinality(D) = IF d \in C THEN Cardinality(C) ELSE Cardinality(C) + 1
    BY <1>1, FS_AddElement
  <2> HIDE DEF C, D
  <2>2. QED BY <1>1, <2>1
<1>3. d \notin drop /\ IsFiniteSet(D \ drop)
  BY <1>2, FS_Difference DEF Drops, TooMany
<1>4. CASE Cardinality(D) <= Limit
  BY <1>1, <1>2, <1>3, <1>4, FS_Subset, FS_CardinalityType
<1>5. CASE Cardinality(D) > Limit
  <2>1. C \ {d} # {}
    <3>1. SUFFICES ASSUME C \ {d} = {} PROVE FALSE
      OBVIOUS
    <3>2. D = {d}
      BY <3>1
    <3>3. QED BY <1>1, <1>5, <3>2, FS_Singleton
  <2>2. \A c \in C : last[k][c] \in Nat
    BY DEF Conditions, TypeOK, Times
  <2>3. PICK c \in C \ {d} : \A b \in C \ {d} : last[k][c] <= last[k][b]
    <3> DEFINE T == {last[k][b] : b \in C \ {d}}
    <3>1. T \in SUBSET Nat /\ T # {}
      BY <2>1, <2>2
    <3>2. \E m \in T : \A n \in T : m <= n
      BY <3>1, Earliest
    <3>3. QED BY <3>2
  <2>4. c \in TooMany(k, d)
    BY <1>5, <2>3 DEF TooMany
  <2>5. PICK b \in TooMany(k, d) : drop = {b}
    BY <2>4 DEF Drops
  <2>6. b \in D
    BY DEF TooMany
  <2>7. Cardinality(D \ {b}) = Cardinality(D) - 1
    BY <1>2, <2>6, FS_RemoveElement
  <2>8. QED BY <1>1, <1>2, <1>3, <2>5, <2>7
<1>6. QED BY <1>1, <1>2, <1>3, <1>4, <1>5

\* A step keeps the memory within its bounds.
LEMMA MemoryStep ==
    ASSUME TypeOK, MemoryInv, [Next]_vars
    PROVE  MemoryInv'
<1>1. /\ lru \in Seq(Keys) /\ IsInjective(lru) /\ Len(lru) \in Nat /\ Len(lru) <= Capacity
      /\ Capacity \in Nat \ {0} /\ Limit \in Nat \ {0} /\ Tracked \subseteq Keys
  BY LenProperties, LimitsAssumption DEF TypeOK, MemoryInv, Tracked, ToSet
<1>2. IsFiniteSet({}) /\ Cardinality({}) = 0
  BY FS_EmptySet
<1>3. ASSUME NEW w \in Controllers, NEW d \in Messages, Report(w, d)
      PROVE  MemoryInv'
  <2> PICK k \in Keys : /\ Listed(w, k, d)
                        /\ KeptBack(k, d) \/ \E drop \in Drops(k, d) : Emitted(k, d, drop)
    BY <1>3, ReportEffect
  <2>1. /\ lru' = Touch(k) /\ IsInjective(lru') /\ Len(lru') <= Capacity
        /\ k \in Tracked' /\ Tracked' \subseteq Tracked \cup {k}
        /\ PushedOut(k) = Tracked \ Tracked'
    BY TouchProperties DEF Listed, Tracked, PushedOut
  <2>2. \A j \in Keys \ {k} : Conditions(j)' = IF j \in PushedOut(k) THEN {} ELSE Conditions(j)
    BY DEF Listed, Conditions, Silent
  <2>3. \A j \in Keys \ {k} : /\ IsFiniteSet(Conditions(j)')
                              /\ Cardinality(Conditions(j)') <= Limit
                              /\ j \in Tracked' <=> Conditions(j)' # {}
    <3> TAKE j \in Keys \ {k}
    <3>1. CASE j \in PushedOut(k)
      <4>1. Conditions(j)' = {} /\ j \notin Tracked'
        BY <2>1, <2>2, <3>1
      <4>2. QED BY <1>1, <1>2, <4>1
    <3>2. CASE j \notin PushedOut(k)
      <4>1. Conditions(j)' = Conditions(j) /\ (j \in Tracked' <=> j \in Tracked)
        BY <2>1, <2>2, <3>2
      <4>2. QED BY <4>1 DEF MemoryInv
    <3>3. QED BY <3>1, <3>2
  <2>4. /\ IsFiniteSet(Conditions(k)')
        /\ Cardinality(Conditions(k)') <= Limit
        /\ Conditions(k)' # {}
    <3>1. CASE KeptBack(k, d)
      <4>1. Conditions(k)' = Conditions(k) /\ d \in Conditions(k)
        BY <3>1 DEF KeptBack, Conditions, Due
      <4>2. QED BY <4>1 DEF MemoryInv
    <3>2. ASSUME NEW drop \in Drops(k, d), Emitted(k, d, drop)
          PROVE  /\ IsFiniteSet(Conditions(k)')
                 /\ Cardinality(Conditions(k)') <= Limit
                 /\ Conditions(k)' # {}
      <4>1. now # Never
        BY DEF TypeOK, Never
      <4>2. d \notin drop
        BY <3>2, DropsEnough
      <4>3. Conditions(k)' = (Conditions(k) \cup {d}) \ drop
        BY <3>2, <4>1, <4>2 DEF Emitted, Conditions
      <4>4. QED BY <3>2, <4>2, <4>3, DropsEnough
    <3>3. QED BY <3>1, <3>2
  <2>5. \A j \in Keys : /\ IsFiniteSet(Conditions(j)')
                        /\ Cardinality(Conditions(j)') <= Limit
                        /\ j \in Tracked' <=> Conditions(j)' # {}
    BY <2>1, <2>3, <2>4
  <2>6. QED BY <2>1, <2>5 DEF MemoryInv
<1>4. ASSUME NEW w \in Controllers, FinishSuccess(w)
      PROVE  MemoryInv'
  <2> PICK k \in Keys : Cleared(w, k)
    BY <1>4, FinishEffect
  <2>1. Conditions(k)' = Conditions(k) \cap seen[w]
    BY DEF Cleared, Conditions
  <2>2. \A j \in Keys \ {k} : Conditions(j)' = Conditions(j)
    BY DEF Cleared, Conditions
  <2>3. IsFiniteSet(Conditions(k)') /\ Cardinality(Conditions(k)') <= Limit
    <3>1. /\ IsFiniteSet(Conditions(k)) /\ Cardinality(Conditions(k)) <= Limit
          /\ Cardinality(Conditions(k)) \in Nat
      BY FS_CardinalityType DEF MemoryInv
    <3>2. IsFiniteSet(Conditions(k)') /\ Cardinality(Conditions(k)') <= Cardinality(Conditions(k))
      BY <2>1, <3>1, FS_Intersection
    <3>3. Cardinality(Conditions(k)') \in Nat
      BY <3>2, FS_CardinalityType
    <3>4. QED BY <1>1, <3>1, <3>2, <3>3
  <2>4. /\ IsInjective(lru') /\ Len(lru') <= Capacity
        /\ Tracked' = IF Conditions(k)' = {} THEN Tracked \ {k} ELSE Tracked
    <3>1. CASE k \notin Tracked
      <4>1. lru' = lru /\ Conditions(k) = {}
        BY <3>1 DEF Cleared, MemoryInv
      <4>2. QED BY <1>1, <2>1, <3>1, <4>1 DEF Tracked
    <3>2. CASE k \in Tracked
      <4>1. /\ Others(k) \in Seq(Keys) /\ IsInjective(Others(k))
            /\ Len(Others(k)) = Len(lru) - 1 /\ ToSet(Others(k)) = Tracked \ {k}
        BY <1>1, <3>2, OthersProperties
      <4>2. CASE Conditions(k)' = {}
        <5>1. lru' = Others(k)
          BY <2>1, <3>2, <4>2 DEF Cleared
        <5>2. QED BY <1>1, <4>1, <4>2, <5>1 DEF Tracked
      <4>3. CASE Conditions(k)' # {}
        <5>1. lru' = <<k>> \o Others(k)
          BY <2>1, <3>2, <4>3 DEF Cleared
        <5>2. /\ IsInjective(lru') /\ Len(lru') = Len(Others(k)) + 1
              /\ ToSet(lru') = (Tracked \ {k}) \cup {k}
          BY <4>1, <5>1, PushFront
        <5>3. QED BY <1>1, <3>2, <4>1, <4>3, <5>2 DEF Tracked
      <4>4. QED BY <4>2, <4>3
    <3>3. QED BY <3>1, <3>2
  <2>5. \A j \in Keys : j \in Tracked' <=> Conditions(j)' # {}
    BY <2>1, <2>2, <2>4 DEF MemoryInv
  <2>6. QED BY <2>2, <2>3, <2>4, <2>5 DEF MemoryInv
<1>5. ASSUME NEW w \in Controllers, NEW n \in Names, DeleteSource(w, n)
      PROVE  MemoryInv'
  <2> PICK gone \in SUBSET Keys :
              /\ lru' \in InOrder(gone)
              /\ \A k \in Keys : last'[k] = IF k \in gone THEN Silent ELSE last[k]
    BY <1>5, DeleteEffect
  <2>1. IsInjective(lru') /\ Len(lru') <= Len(lru) /\ Tracked' = Tracked \ gone /\ lru' \in Seq(Keys)
    BY <1>1, InOrderProperties DEF Tracked
  <2>2. Len(lru') \in Nat
    BY <2>1, LenProperties
  <2>3. \A k \in Keys : Conditions(k)' = IF k \in gone THEN {} ELSE Conditions(k)
    BY DEF Conditions, Silent
  <2>4. QED BY <1>1, <1>2, <2>1, <2>2, <2>3 DEF MemoryInv
<1>6. CASE UNCHANGED <<lru, last>>
  BY <1>6 DEF MemoryInv, Conditions, Tracked
<1>7. CASE \/ \E k \in Keys : Begin(k)
           \/ \E w \in Controllers : FinishFailure(w)
           \/ Tick \/ UNCHANGED vars
  BY <1>6, <1>7 DEF Begin, FinishFailure, Tick, vars
<1>8. QED BY <1>3, <1>4, <1>5, <1>7 DEF Next

LEMMA InitMemory == Init => TypeOK /\ MemoryInv
<1> SUFFICES ASSUME Init PROVE TypeOK /\ MemoryInv
  OBVIOUS
<1>1. last = [k \in Keys |-> Silent] /\ lru = <<>> /\ Len(lru) = 0
  BY DEF Init
<1>2. Tracked = {} /\ IsInjective(lru)
  BY <1>1 DEF Tracked, ToSet, IsInjective
<1>3. \A k \in Keys : Conditions(k) = {}
  BY <1>1 DEF Conditions, Silent
<1>4. MemoryInv
  BY <1>1, <1>2, <1>3, FS_EmptySet, LimitsAssumption DEF MemoryInv
<1>5. TypeOK
  BY DEF Init, TypeOK, Silent, Times
<1>6. QED BY <1>4, <1>5

LEMMA Memory == Spec => [](TypeOK /\ MemoryInv)
<1>1. TypeOK /\ MemoryInv /\ [Next]_vars => (TypeOK /\ MemoryInv)'
  BY TypeStep, MemoryStep
<1>2. QED BY <1>1, InitMemory, PTL DEF Spec

\* The emitter's memory stays within its bounds whatever fails and for however
\* long: the list holds at most Capacity sources, each once and exactly those
\* with a remembered diagnostic, and no source has more than Limit of them.
THEOREM MemoryBounded == Spec => []BoundedMemory
<1>1. TypeOK /\ MemoryInv => BoundedMemory
  <2> SUFFICES ASSUME TypeOK, MemoryInv PROVE BoundedMemory
    OBVIOUS
  <2> DEFINE n == Len(lru)
  <2>1. n \in Nat /\ DOMAIN lru = 1 .. n /\ lru \in [1 .. n -> Keys]
    BY LenProperties DEF TypeOK
  <2>2. IsFiniteSet(1 .. n) /\ Cardinality(1 .. n) = n
    BY <2>1, FS_Interval
  <2>3. lru \in Surjection(1 .. n, Tracked) /\ lru \in Injection(1 .. n, Tracked)
    BY <2>1 DEF Surjection, Injection, Tracked, ToSet, MemoryInv
  <2>4. Cardinality(Tracked) = n
    BY <2>2, <2>3, FS_Surjection
  <2>5. QED BY <2>4 DEF BoundedMemory, MemoryInv
<1>2. QED BY <1>1, Memory, PTL

-----------------------------------------------------------------------------
(***************************************************************************)
(* What is kept back and what is repeated.                                  *)
(***************************************************************************)
LEMMA RecallStep ==
    ASSUME TypeOK, MemoryInv, RecallInv, [Next]_vars
    PROVE  RecallInv'
<1>1. ASSUME NEW w \in Controllers, NEW d \in Messages, Report(w, d)
      PROVE  RecallInv'
  <2> PICK k \in Keys : /\ Listed(w, k, d)
                        /\ KeptBack(k, d) \/ \E drop \in Drops(k, d) : Emitted(k, d, drop)
    BY <1>1, ReportEffect
  <2>1. /\ \A j \in Keys \ {k} : shown'[j] = shown[j]
        /\ \A c \in Messages \ {d} : shown'[k][c] = shown[k][c]
    BY DEF KeptBack, Emitted, TypeOK
  <2>2. \A j \in Keys, c \in Messages :
           <<j, c>> \in evicted /\ <<j, c>> # <<k, d>> => <<j, c>> \in evicted'
    BY DEF KeptBack, Emitted
  <2>3. \A j \in PushedOut(k), c \in Messages : <<j, c>> \in evicted'
    <3>1. \A j \in PushedOut(k), c \in Messages : <<j, c>> # <<k, d>>
      BY DEF Listed
    <3>2. QED BY <3>1 DEF KeptBack, Emitted
  <2>4. ASSUME NEW j \in Keys \ {k}, NEW c \in Messages
        PROVE  /\ last'[j][c] # Never => shown'[j][c] = last'[j][c]
               /\ last'[j][c] = Never /\ shown'[j][c] # Never => <<j, c>> \in evicted'
    <3>1. CASE j \in PushedOut(k)
      <4>1. last'[j] = Silent
        BY <3>1 DEF Listed
      <4>2. QED BY <2>3, <3>1, <4>1 DEF Silent
    <3>2. CASE j \notin PushedOut(k)
      <4>1. last'[j] = last[j] /\ shown'[j] = shown[j] /\ <<j, c>> # <<k, d>>
        BY <2>1, <3>2 DEF Listed
      <4>2. QED BY <2>2, <4>1 DEF RecallInv
    <3>3. QED BY <3>1, <3>2
  <2>5. ASSUME NEW c \in Messages
        PROVE  /\ last'[k][c] # Never => shown'[k][c] = last'[k][c]
               /\ last'[k][c] = Never /\ shown'[k][c] # Never => <<k, c>> \in evicted'
    <3>1. CASE KeptBack(k, d)
      <4>1. last'[k] = last[k] /\ shown' = shown /\ evicted \subseteq evicted'
        BY <3>1 DEF KeptBack
      <4>2. QED BY <4>1 DEF RecallInv
    <3>2. ASSUME NEW drop \in Drops(k, d), Emitted(k, d, drop)
          PROVE  /\ last'[k][c] # Never => shown'[k][c] = last'[k][c]
                 /\ last'[k][c] = Never /\ shown'[k][c] # Never => <<k, c>> \in evicted'
      <4>1. last'[k][c] = IF c = d THEN now ELSE IF c \in drop THEN Never ELSE last[k][c]
        BY <3>2 DEF Emitted
      <4>2. CASE c = d
        <5>1. shown'[k][c] = now /\ now # Never
          BY <3>2, <4>2 DEF Emitted, TypeOK, Never
        <5>2. QED BY <4>1, <4>2, <5>1
      <4>3. CASE c # d /\ c \in drop
        <5>1. <<k, c>> \in evicted'
          BY <3>2, <4>3 DEF Emitted
        <5>2. QED BY <4>1, <4>3, <5>1
      <4>4. CASE c # d /\ c \notin drop
        <5>1. last'[k][c] = last[k][c] /\ shown'[k][c] = shown[k][c] /\ <<k, c>> # <<k, d>>
          BY <2>1, <4>1, <4>4
        <5>2. QED BY <2>2, <5>1 DEF RecallInv
      <4>5. QED BY <4>2, <4>3, <4>4
    <3>3. QED BY <3>1, <3>2
  <2>6. QED BY <2>4, <2>5 DEF RecallInv
<1>2. ASSUME NEW w \in Controllers, FinishSuccess(w)
      PROVE  RecallInv'
  <2> PICK k \in Keys : Cleared(w, k)
    BY <1>2, FinishEffect
  <2>1. evicted' = evicted
    BY DEF Cleared
  <2>2. \A j \in Keys \ {k} : last'[j] = last[j] /\ shown'[j] = shown[j]
    BY DEF Cleared
  <2>3. \A c \in Messages : /\ last'[k][c] = IF c \in seen[w] THEN last[k][c] ELSE Never
                            /\ shown'[k][c] = IF c \in seen[w] THEN shown[k][c] ELSE Never
    BY DEF Cleared
  <2>4. ASSUME NEW j \in Keys, NEW c \in Messages
        PROVE  /\ last'[j][c] # Never => shown'[j][c] = last'[j][c]
               /\ last'[j][c] = Never /\ shown'[j][c] # Never => <<j, c>> \in evicted'
    <3>1. \/ last'[j][c] = last[j][c] /\ shown'[j][c] = shown[j][c]
          \/ last'[j][c] = Never /\ shown'[j][c] = Never
      BY <2>2, <2>3
    <3>2. QED BY <2>1, <3>1 DEF RecallInv
  <2>5. QED BY <2>4 DEF RecallInv
<1>3. ASSUME NEW w \in Controllers, NEW n \in Names, DeleteSource(w, n)
      PROVE  RecallInv'
  <2> PICK gone \in SUBSET Keys :
              /\ \A k \in Keys : last'[k] = IF k \in gone THEN Silent ELSE last[k]
              /\ \A k \in Keys : shown'[k] = IF k \in gone THEN Silent ELSE shown[k]
    BY <1>3, DeleteEffect
  <2>1. evicted' = evicted
    BY <1>3 DEF DeleteSource
  <2>2. QED BY <2>1 DEF RecallInv, Silent
<1>4. CASE UNCHANGED <<last, shown, evicted>>
  BY <1>4 DEF RecallInv
<1>5. CASE \/ \E k \in Keys : Begin(k)
           \/ \E w \in Controllers : FinishFailure(w)
           \/ Tick \/ UNCHANGED vars
  BY <1>4, <1>5 DEF Begin, FinishFailure, Tick, vars
<1>6. QED BY <1>1, <1>2, <1>3, <1>5 DEF Next

LEMMA Recall == Spec => [](TypeOK /\ MemoryInv /\ RecallInv)
<1>1. Init => RecallInv
  BY DEF Init, RecallInv, Silent
<1>2. TypeOK /\ MemoryInv /\ RecallInv /\ [Next]_vars => RecallInv'
  BY RecallStep
<1>3. QED BY <1>1, <1>2, Memory, PTL DEF Spec

\* Only a report changes what a session has reported or what was emitted to a
\* time other than Never.
LEMMA OnlyReports ==
    ASSUME TypeOK, MemoryInv, [Next]_vars,
           ~ \E w \in Controllers, d \in Messages : Report(w, d)
    PROVE  /\ \A w \in Controllers : seen'[w] \subseteq seen[w]
           /\ \A k \in Keys, d \in Messages : shown'[k][d] \in {shown[k][d], Never}
<1>1. CASE UNCHANGED <<seen, shown>>
  BY <1>1
<1>2. ASSUME NEW k \in Keys, Begin(k)
      PROVE  shown' = shown /\ \A w \in Controllers : seen'[w] \subseteq seen[w]
  BY <1>2 DEF Begin, TypeOK
<1>3. ASSUME NEW w \in Controllers, FinishSuccess(w)
      PROVE  /\ seen' = seen
             /\ \A k \in Keys, d \in Messages : shown'[k][d] \in {shown[k][d], Never}
  <2> PICK k \in Keys : Cleared(w, k)
    BY <1>3, FinishEffect
  <2>1. QED BY DEF Cleared
<1>4. ASSUME NEW w \in Controllers, NEW n \in Names, DeleteSource(w, n)
      PROVE  /\ seen' = seen
             /\ \A k \in Keys, d \in Messages : shown'[k][d] \in {shown[k][d], Never}
  <2>1. \A k \in Keys : shown'[k] = Silent \/ shown'[k] = shown[k]
    BY <1>4, DeleteEffect
  <2>2. QED BY <1>4, <2>1 DEF DeleteSource, Silent
<1>5. CASE (\E w \in Controllers : FinishFailure(w)) \/ Tick \/ UNCHANGED vars
  BY <1>1, <1>5 DEF FinishFailure, Tick, vars
<1>6. QED BY <1>1, <1>2, <1>3, <1>4, <1>5 DEF Next

\* A report is kept back only when the same diagnostic of the same source was
\* emitted less than an interval ago and has not been resolved since.
THEOREM SilenceJustified == Spec => SilencedOnlyByRecent
<1>1. ASSUME TypeOK, MemoryInv, RecallInv, [Next]_vars,
             NEW w \in Controllers, NEW k \in session[w], NEW d \in seen'[w] \ seen[w]
      PROVE  shown'[k][d] = now \/ (shown[k][d] # Never /\ now - shown[k][d] < Interval)
  <2>1. PICK v \in Controllers, e \in Messages : Report(v, e)
    BY <1>1, OnlyReports
  <2>2. PICK j \in Keys : /\ Listed(v, j, e)
                          /\ KeptBack(j, e) \/ \E drop \in Drops(j, e) : Emitted(j, e, drop)
    BY <1>1, <2>1, ReportEffect
  <2>3. v = w /\ e = d
    BY <1>1, <2>2 DEF Listed, TypeOK
  <2>4. j = k
    BY <1>1, <2>2, <2>3 DEF Listed, TypeOK
  <2>5. CASE KeptBack(j, e)
    <3>1. last[k][d] # Never /\ ~(now - last[k][d] >= Interval)
      BY <2>3, <2>4, <2>5 DEF KeptBack, Due
    <3>2. shown[k][d] = last[k][d]
      BY <1>1, <2>2, <2>3, <2>4, <3>1 DEF RecallInv
    <3>3. last[k][d] \in Nat /\ now \in Nat /\ Interval \in Nat
      BY <1>1, <2>2, <2>3, <2>4, <3>1, LimitsAssumption DEF TypeOK, Times
    <3>4. QED BY <3>1, <3>2, <3>3
  <2>6. CASE \E drop \in Drops(j, e) : Emitted(j, e, drop)
    BY <1>1, <2>2, <2>3, <2>4, <2>6 DEF Emitted, TypeOK
  <2>7. QED BY <2>2, <2>5, <2>6
<1>2. TypeOK /\ MemoryInv /\ RecallInv /\ [Next]_vars =>
        [\A w \in Controllers : \A k \in session[w] : \A d \in seen'[w] \ seen[w] :
            \/ shown'[k][d] = now
            \/ shown[k][d] # Never /\ now - shown[k][d] < Interval]_vars
  BY <1>1
<1>3. QED BY <1>2, Recall, PTL DEF Spec, SilencedOnlyByRecent

\* A diagnostic that is not resolved is emitted again within the interval only
\* when the capacity or the limit has made the emitter forget it.
THEOREM RepeatsJustified == Spec => RepeatsOnlyWhenForgotten
<1>1. ASSUME TypeOK, MemoryInv, RecallInv, [Next]_vars, NEW k \in Keys, NEW d \in Messages,
             shown'[k][d] # shown[k][d], shown'[k][d] # Never, shown[k][d] # Never
      PROVE  now - shown[k][d] >= Interval \/ <<k, d>> \in evicted
  <2>1. PICK v \in Controllers, e \in Messages : Report(v, e)
    BY <1>1, OnlyReports
  <2>2. PICK j \in Keys : /\ Listed(v, j, e)
                          /\ KeptBack(j, e) \/ \E drop \in Drops(j, e) : Emitted(j, e, drop)
    BY <1>1, <2>1, ReportEffect
  <2>3. ~KeptBack(j, e)
    BY <1>1 DEF KeptBack
  <2>4. PICK drop \in Drops(j, e) : Emitted(j, e, drop)
    BY <2>2, <2>3
  <2>5. j = k /\ e = d
    BY <1>1, <2>4 DEF Emitted, TypeOK
  <2>6. Due(k, d)
    BY <2>4, <2>5 DEF Emitted
  <2>7. QED BY <1>1, <2>6 DEF Due, RecallInv
<1>2. TypeOK /\ MemoryInv /\ RecallInv /\ [Next]_vars =>
        [\A k \in Keys, d \in Messages :
            /\ shown'[k][d] # shown[k][d]
            /\ shown'[k][d] # Never
            /\ shown[k][d] # Never
            => now - shown[k][d] >= Interval \/ <<k, d>> \in evicted]_vars
  BY <1>1
<1>3. QED BY <1>2, Recall, PTL DEF Spec, RepeatsOnlyWhenForgotten
=============================================================================
