----------------------------- MODULE Diagnostics -----------------------------
(***************************************************************************)
(* internal/controller/diagnostics.go: the emitter that all source          *)
(* controllers share and that keeps repeated events and log lines back.     *)
(* Each controller (kind) runs one reconcile at a time, in a session that   *)
(* deduplicates its reports; the emitter remembers when it last emitted     *)
(* each diagnostic of a source, for a bounded number of sources (least      *)
(* recently used first out) and of diagnostics per source (oldest first     *)
(* out).  A report runs under the emitter's mutex and is one step.          *)
(***************************************************************************)
EXTENDS Integers, SequencesExt, FiniteSets

CONSTANTS Controllers,  \* source kinds, one worker each
          Names,        \* namespace/name of a source
          Uids,         \* incarnations of a source
          Messages,     \* diagnostics: severity, reason and message
          Capacity,     \* diagnosticSourceCapacity
          Limit,        \* diagnosticConditionLimit
          Interval,     \* diagnosticRepeatInterval
          Horizon,      \* bound: the clock stops here
          MaxSessions   \* bound: reconciles

ASSUME LimitsAssumption == /\ Capacity \in Nat \ {0} /\ Limit \in Nat \ {0}
                           /\ Interval \in Nat \ {0}
                           /\ Horizon \in Nat /\ MaxSessions \in Nat

\* diagnosticSourceKey: deleting a source names no UID.
Keys == Controllers \X Names \X Uids

Never == -1

Silent == [d \in Messages |-> Never]

VARIABLES now,      \* clock
          lru,      \* tracked sources, the most recently used first
          last,     \* lastEmitted of each tracked source
          session,  \* the source each controller reconciles, as a set of at most one
          seen,     \* what the running session has reported
          shown,    \* history: the last emission, until the condition was resolved
          evicted,  \* history: emissions the bounds made the emitter forget
          sessions  \* reconciles so far

vars == <<now, lru, last, session, seen, shown, evicted, sessions>>

Tracked == ToSet(lru)

Conditions(k) == {d \in Messages : last[k][d] # Never}

-----------------------------------------------------------------------------
Begin(k) ==
    /\ session[k[1]] = {}
    /\ sessions < MaxSessions
    /\ sessions' = sessions + 1
    /\ session' = [session EXCEPT ![k[1]] = {k}]
    /\ seen' = [seen EXCEPT ![k[1]] = {}]
    /\ UNCHANGED <<now, lru, last, shown, evicted>>

\* list.Remove: the list without the element of source k.
Others(k) == RemoveAt(lru, CHOOSE i \in DOMAIN lru : lru[i] = k)

\* Mutant: a new source pushes nobody out.
TouchUnbounded(k) == <<k>> \o (IF k \in Tracked THEN Others(k) ELSE lru)

\* diagnosticEmitter.state: the source moves to the front; a new one pushes
\* the least recently used out.
Touch(k) ==
    <<k>> \o (IF k \in Tracked THEN Others(k)
              ELSE IF Len(lru) >= Capacity THEN SubSeq(lru, 1, Capacity - 1) ELSE lru)

PushedOut(k) == Tracked \ ToSet(Touch(k))

\* evictOldestCondition: one of the oldest others, once there are too many.
TooMany(k, d) == {c \in Conditions(k) \ {d} :
                    /\ Cardinality(Conditions(k) \cup {d}) > Limit
                    /\ \A b \in Conditions(k) \ {d} : last[k][c] <= last[k][b]}

\* What report evicts: nothing, or one of them.
Drops(k, d) == IF TooMany(k, d) = {} THEN {{}} ELSE {{c} : c \in TooMany(k, d)}

Due(k, d) == last[k][d] = Never \/ now - last[k][d] >= Interval

Forget(l, ks) == [k \in Keys |-> IF k \in ks THEN Silent ELSE l[k]]

\* diagnosticSession.report and diagnosticEmitter.report.
Report(w, d) ==
    \E k \in session[w] :
        /\ d \notin seen[w]
        /\ seen' = [seen EXCEPT ![w] = @ \cup {d}]
        /\ lru' = Touch(k)
        /\ \/ /\ ~Due(k, d)
              /\ last' = Forget(last, PushedOut(k))
              /\ UNCHANGED shown
              /\ evicted' = evicted \cup (PushedOut(k) \X Messages)
           \/ /\ Due(k, d)
              /\ \E drop \in Drops(k, d) :
                    /\ last' = [Forget(last, PushedOut(k)) EXCEPT
                                   ![k] = [c \in Messages |-> IF c = d THEN now
                                                              ELSE IF c \in drop THEN Never
                                                              ELSE @[c]]]
                    /\ evicted' = (evicted \cup (PushedOut(k) \X Messages) \cup ({k} \X drop))
                                      \ {<<k, d>>}
              /\ shown' = [shown EXCEPT ![k][d] = now]
        /\ UNCHANGED <<now, session, sessions>>

Resolve(k, gone) == shown' = [shown EXCEPT ![k] = [d \in Messages |-> IF d \in gone THEN Never
                                                                      ELSE @[d]]]

\* Mutant: a successful reconcile clears nothing.
FinishKeepsResolved(w) ==
    \E k \in session[w] :
        /\ session' = [session EXCEPT ![w] = {}]
        /\ Resolve(k, Messages \ seen[w])
        /\ UNCHANGED <<now, lru, last, seen, evicted, sessions>>

\* finish(true): clearMissing forgets what this reconcile has not reported.
FinishSuccess(w) ==
    \E k \in session[w] :
        /\ session' = [session EXCEPT ![w] = {}]
        /\ last' = [last EXCEPT ![k] = [d \in Messages |-> IF d \in seen[w] THEN @[d] ELSE Never]]
        /\ lru' = IF k \notin Tracked THEN lru
                  ELSE IF Conditions(k) \cap seen[w] = {} THEN Others(k)
                  ELSE <<k>> \o Others(k)
        /\ Resolve(k, Messages \ seen[w])
        /\ UNCHANGED <<now, seen, evicted, sessions>>

\* Mutant: a failed reconcile clears what it has not reported, too.
FailureClears(w) ==
    \E k \in session[w] :
        /\ session' = [session EXCEPT ![w] = {}]
        /\ last' = [last EXCEPT ![k] = [d \in Messages |-> IF d \in seen[w] THEN @[d] ELSE Never]]
        /\ lru' = IF k \in Tracked /\ Conditions(k) \cap seen[w] = {} THEN Others(k) ELSE lru
        /\ UNCHANGED <<now, seen, shown, evicted, sessions>>

\* finish(false): a failed reconcile clears nothing.
FinishFailure(w) ==
    /\ session[w] # {}
    /\ session' = [session EXCEPT ![w] = {}]
    /\ UNCHANGED <<now, lru, last, seen, shown, evicted, sessions>>

\* The tracked sources other than gone, in the order of the list: the loop of
\* deleteSource removes the elements of gone and moves no other.
InOrder(gone) ==
    {s \in SetToSeqs(Tracked \ gone) :
        \A i, j \in DOMAIN s : i < j =>
            \E a, b \in DOMAIN lru : a < b /\ lru[a] = s[i] /\ lru[b] = s[j]}

\* The Get of the source answers NotFound: deleteSource, every UID.
DeleteSource(w, n) ==
    LET gone == {k \in Keys : k[1] = w /\ k[2] = n}
    IN  /\ session[w] = {}
        /\ sessions < MaxSessions
        /\ sessions' = sessions + 1
        /\ lru' \in InOrder(gone)
        /\ last' = Forget(last, gone)
        /\ shown' = Forget(shown, gone)
        /\ UNCHANGED <<now, session, seen, evicted>>

Tick ==
    /\ now < Horizon
    /\ now' = now + 1
    /\ UNCHANGED <<lru, last, session, seen, shown, evicted, sessions>>

Init ==
    /\ now = 0
    /\ lru = <<>>
    /\ last = [k \in Keys |-> Silent]
    /\ session = [w \in Controllers |-> {}]
    /\ seen = [w \in Controllers |-> {}]
    /\ shown = [k \in Keys |-> Silent]
    /\ evicted = {}
    /\ sessions = 0

Next ==
    \/ \E k \in Keys : Begin(k)
    \/ \E w \in Controllers : \/ \E d \in Messages : Report(w, d)
                              \/ FinishSuccess(w)
                              \/ FinishFailure(w)
                              \/ \E n \in Names : DeleteSource(w, n)
    \/ Tick

Spec == Init /\ [][Next]_vars

-----------------------------------------------------------------------------
Times == Nat \cup {Never}

\* Every variable has its type, and a controller runs one reconcile at a time.
TypeOK ==
    /\ now \in Nat
    /\ lru \in Seq(Keys)
    /\ last \in [Keys -> [Messages -> Times]]
    /\ session \in [Controllers -> SUBSET Keys]
    /\ \A w \in Controllers : \A j, k \in session[w] : j = k
    /\ seen \in [Controllers -> SUBSET Messages]
    /\ shown \in [Keys -> [Messages -> Times]]
    /\ evicted \subseteq Keys \X Messages
    /\ sessions \in Nat

\* The memory is bounded whatever fails for however long, and the list and the
\* map of tracked sources agree: exactly the sources with a remembered
\* diagnostic are in the list, once each.
BoundedMemory ==
    /\ Len(lru) <= Capacity
    /\ Cardinality(Tracked) = Len(lru)
    /\ \A k \in Keys : /\ Cardinality(Conditions(k)) <= Limit
                       /\ k \in Tracked <=> Conditions(k) # {}

\* The inductive invariant behind it: no source is listed twice.
MemoryInv ==
    /\ IsInjective(lru)
    /\ Len(lru) <= Capacity
    /\ \A k \in Keys : /\ IsFiniteSet(Conditions(k))
                       /\ Cardinality(Conditions(k)) <= Limit
                       /\ k \in Tracked <=> Conditions(k) # {}

\* What the emitter remembers of a diagnostic is its last emission, and it
\* forgets one that is not resolved only at a bound.
RecallInv ==
    \A k \in Keys, d \in Messages :
        /\ last[k][d] # Never => shown[k][d] = last[k][d]
        /\ last[k][d] = Never /\ shown[k][d] # Never => <<k, d>> \in evicted

\* A report is kept back only when the same diagnostic was emitted less than an
\* interval ago and no successful reconcile has run without it since: changed
\* and returning conditions are emitted at once, and another source's activity
\* never silences this one.
SilencedOnlyByRecent ==
    [][\A w \in Controllers : \A k \in session[w] : \A d \in seen'[w] \ seen[w] :
          \/ shown'[k][d] = now
          \/ shown[k][d] # Never /\ now - shown[k][d] < Interval]_vars

\* An unresolved diagnostic is emitted again within the interval only when the
\* bounds have made the emitter forget it; a failed reconcile does not.
RepeatsOnlyWhenForgotten ==
    [][\A k \in Keys, d \in Messages :
          /\ shown'[k][d] # shown[k][d]
          /\ shown'[k][d] # Never
          /\ shown[k][d] # Never
          => now - shown[k][d] >= Interval \/ <<k, d>> \in evicted]_vars
=============================================================================
