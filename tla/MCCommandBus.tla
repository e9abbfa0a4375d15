---------------------------- MODULE MCCommandBus ----------------------------
(***************************************************************************)
(* TLC instances of CommandBus: two processes, two users, the membership   *)
(* commands and one ordinary command.                                      *)
(***************************************************************************)
EXTENDS CommandBusInvariant, TLC

CONSTANTS alice, bob

MCUsers == {alice, bob}

\* The example project of a fresh installation has one creator; the other
\* one has two managers, who may turn against each other.
OneManager  == [u \in MCUsers |-> IF u = alice THEN "creator" ELSE NoRole]
TwoManagers == [u \in MCUsers |-> IF u = alice THEN "creator" ELSE "admin"]

ProcSymmetry == Permutations(Procs)

=============================================================================
