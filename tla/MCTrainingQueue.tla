-------------------------- MODULE MCTrainingQueue --------------------------
(***************************************************************************)
(* TrainingQueue on a small instance: two launches of one session, two     *)
(* workers, a cancel of the first job, and one fault of any kind.          *)
(***************************************************************************)
EXTENDS TrainingQueue, TLC

CONSTANTS s1, j1, j2, l1, l2, t1, w1, w2

MCBaseJob == (l1 :> j1) @@ (l2 :> j2)
MCSiblingJobs == [l \in Launch |-> {}]
MCSessionOf == [j \in Job |-> s1]
MCTenantOf == [s \in Session |-> t1]
MCJobLimit == [t \in Tenant |-> 2]

\* The workers are interchangeable, and every property checked with this is a
\* safety property.
WorkerSymmetry == Permutations(Worker)
=============================================================================
