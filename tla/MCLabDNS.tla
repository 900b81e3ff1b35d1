------------------------------ MODULE MCLabDNS ------------------------------
(***************************************************************************)
(* Instances of LabDNS for TLC.                                             *)
(***************************************************************************)
EXTENDS LabDNS

\* An object of which every target is pending until time d.
Retiring(d) == [exists |-> TRUE, flaws |-> {}, spec |-> Targets,
                deadline |-> [t \in Targets |-> d], delay |-> 1, uid |-> 1]

\* The manager starts again while the objects of a deleted source are retiring,
\* each provider's at its own time.
RetiringInit == Start([p \in Providers |-> Retiring(p)],
                      [live |-> FALSE, uid |-> 1, bad |-> FALSE, sel |-> Providers],
                      [p \in Providers |-> Missing])

RetiringSpec == RetiringInit /\ [][Next]_vars /\ Fairness
=============================================================================
