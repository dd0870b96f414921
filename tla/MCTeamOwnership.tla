--------------------------- MODULE MCTeamOwnership ---------------------------
(* One entity, two teams, one user who is in the first team.               *)
EXTENDS TeamOwnership, TLC

CONSTANTS t1, t2, u1

MCTeams == {t1, t2}
MCUsers == {u1}
MCTeamMembers == (t1 :> {u1}) @@ (t2 :> {})

(* The requests are interchangeable: no property orders them.              *)
Interchangeable == Permutations(Operations)
=============================================================================
