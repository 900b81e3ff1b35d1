------------------------------ MODULE MCCommands ------------------------------
(***************************************************************************)
(* One invocation of the labdns command for TLC: `status` (Inspection) or   *)
(* `show` (Show).  The two share no state, so the variables of the command  *)
(* that is not given stay as they are.                                      *)
(***************************************************************************)
EXTENDS Inspection, Show

VARIABLE command

MCInit ==
    \/ command = "status" /\ Init /\ Given(<<>>, NameError)
    \/ command = "show" /\ ShowInit /\ Starting([r \in Resources |-> "compatible"], <<>>)

MCNext ==
    /\ UNCHANGED command
    /\ \/ command = "status" /\ Next
          /\ UNCHANGED showVars
       \/ command = "show" /\ ShowNext
          /\ UNCHANGED vars

MCSpec == MCInit /\ [][MCNext]_<<command, vars, showVars>>
=============================================================================
