------------------------- MODULE MCTrainingRecovery -------------------------
(***************************************************************************)
(* TrainingQueue on the instance its recovery is judged on: one launch     *)
(* that fans out into two sessions, a plan of one concurrent job, and      *)
(* workers that crash more than once.                                      *)
(***************************************************************************)
EXTENDS TrainingQueue, TLC

CONSTANTS s1, s2, j1, j2, l1, t1, w1, w2

MCBaseJob == l1 :> j1
MCSiblingJobs == l1 :> {j2}
MCSessionOf == (j1 :> s1) @@ (j2 :> s2)
MCTenantOf == [s \in Session |-> t1]
MCJobLimit == [t \in Tenant |-> 1]
=============================================================================
