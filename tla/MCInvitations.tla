--------------------------- MODULE MCInvitations ---------------------------
(***************************************************************************)
(* TLC instance of Invitations: one newcomer, a creator and an admin.      *)
(***************************************************************************)
EXTENDS Invitations, TLC

CONSTANTS creator, admin, guest, i1

MCUsers         == {creator, admin, guest}
MCMembers       == [u \in MCUsers |->
                      IF u = creator THEN "creator" ELSE IF u = admin THEN "admin" ELSE NoRole]
MCInvitations   == {i1}
MCRequested     == [i \in MCInvitations |-> guest]
MCRequestedRole == [i \in MCInvitations |-> "editor"]

ProcSymmetry == Permutations(Procs)
=============================================================================
