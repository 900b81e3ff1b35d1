-------------------------- MODULE MCDependencyWatch --------------------------
(***************************************************************************)
(* Instance of DependencyWatch for TLC: a cluster in which every source     *)
(* depends on everything.  It inherits its providers from a class, one      *)
(* Service is its backend, and every EndpointSlice belongs to that Service  *)
(* and runs on every Node.                                                  *)
(***************************************************************************)
EXTENDS DependencyWatch

First(S) == {CHOOSE x \in S : TRUE}

Wired == [x \in Objects |->
    [exists |-> TRUE,
     up |-> CASE x \in Sources -> First(Parents) [] x \in Gateways -> First(Classes)
              [] x \in Slices -> First(Services) [] OTHER -> {},
     providers |-> IF x \in Classes THEN {DNSProviders} ELSE {},
     to |-> CASE x \in Sources -> First(Services) [] x \in Slices -> Nodes
              [] x \in Grants -> Services [] OTHER -> {},
     rev |-> 0]]

MCInit == Start(Wired)

MCSpec == MCInit /\ [][Next]_vars
=============================================================================
