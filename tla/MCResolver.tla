------------------------------ MODULE MCResolver ------------------------------
(***************************************************************************)
(* Instance of Resolver for TLC: a wildcard at the apex of one zone and     *)
(* outside the other, and a hostname that only contains their labels; one   *)
(* Service on one Node, one on both.                                        *)
(***************************************************************************)
EXTENDS Resolver, TLC

CONSTANTS s1, s2, n1, n2

MCHosts == {<<"*", "org">>, <<"lab", "org", "net">>}

MCZones == {<<"org">>, <<"lab", "org">>}

MCPlacement == s1 :> {n1} @@ s2 :> {n1, n2}
=============================================================================
