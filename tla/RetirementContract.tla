------------------------- MODULE RetirementContract -------------------------
(***************************************************************************)
(* What labdns promises about published DNS targets, whatever its caches,   *)
(* workers and write conflicts do: a target is withdrawn only after the     *)
(* deletion delay stored with it, counted from no earlier than the last     *)
(* version in which it was still published as active, and a deadline once   *)
(* announced is kept or cancelled, never moved.                             *)
(*                                                                          *)
(* Each entry of an object is Withdrawn, Active or the deadline of a        *)
(* pending target.  Steps of the outside world (users who edit the object)  *)
(* are counted in outside and promise nothing.                              *)
(***************************************************************************)
EXTENDS Integers

CONSTANTS Objects, Entries

VARIABLES clock,    \* wall clock
          entry,    \* entry[p][t]: the state of target t in object p
          grace,    \* the deletion delay stored on each object
          since,    \* when the stored version of each object was written
          outside   \* steps of the outside world so far

contract == <<clock, entry, grace, since, outside>>

Withdrawn == -2

Active == -1

Deadline(e) == e >= 0

Init ==
    /\ clock = 0
    /\ entry = [p \in Objects |-> [t \in Entries |-> Withdrawn]]
    /\ grace = [p \in Objects |-> 0]
    /\ since = [p \in Objects |-> 0]
    /\ outside = 0

\* A target may be published, or its retirement cancelled, at any time.
MayPublish(p, t) == entry'[p][t] = Active

\* A deadline counts the stored delay from a moment at which the version that
\* publishes the target was the stored one.
MayRetire(p, t) == /\ entry[p][t] = Active
                   /\ \E start \in since[p]..clock : entry'[p][t] = start + grace[p]

\* An active target is withdrawn at once only when the stored delay is zero.
MayWithdraw(p, t) ==
    /\ entry'[p][t] = Withdrawn
    /\ \/ Deadline(entry[p][t]) /\ entry[p][t] <= clock
       \/ entry[p][t] = Active /\ grace[p] = 0

MayKeep(p, t) == entry'[p][t] = entry[p][t]

\* labdns writes a new version of object p.
Rewrite(p) ==
    /\ \A t \in Entries : \/ MayPublish(p, t)
                          \/ MayRetire(p, t)
                          \/ MayWithdraw(p, t)
                          \/ MayKeep(p, t)
    /\ \A q \in Objects \ {p} : /\ entry'[q] = entry[q]
                                /\ grace'[q] = grace[q]
                                /\ since'[q] = since[q]
    /\ since'[p] = clock
    /\ UNCHANGED <<clock, outside>>

Pass ==
    /\ clock' = clock + 1
    /\ UNCHANGED <<entry, grace, since, outside>>

Outside ==
    /\ outside' = outside + 1
    /\ UNCHANGED clock

Next == Pass \/ Outside \/ \E p \in Objects : Rewrite(p)

Spec == Init /\ [][Next]_contract
=============================================================================
