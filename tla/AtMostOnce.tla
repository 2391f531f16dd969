----------------------------- MODULE AtMostOnce -----------------------------
(***************************************************************************)
(* What the queue promises about one training job, whatever crashes: it    *)
(* is executed at most once, by one worker.  A job waits, is taken by a    *)
(* worker, and is over; nothing takes it a second time, and a job that was *)
(* withdrawn while it waited is never taken.                               *)
(***************************************************************************)
CONSTANTS Job, Worker

VARIABLES
    phase,      \* [Job -> Phase]
    runner      \* [Job -> SUBSET Worker]: who is executing it now

vars == <<phase, runner>>

Phase == {"absent", "waiting", "executing", "over"}

Init ==
    /\ phase = [j \in Job |-> "absent"]
    /\ runner = [j \in Job |-> {}]

Submit(j) ==
    /\ phase[j] = "absent"
    /\ phase' = [phase EXCEPT ![j] = "waiting"]
    /\ UNCHANGED runner

Withdraw(j) ==
    /\ phase[j] = "waiting"
    /\ phase' = [phase EXCEPT ![j] = "over"]
    /\ UNCHANGED runner

Take(w, j) ==
    /\ phase[j] = "waiting"
    /\ phase' = [phase EXCEPT ![j] = "executing"]
    /\ runner' = [runner EXCEPT ![j] = {w}]

\* The execution of j returns, or raises.
Return(j) ==
    /\ phase[j] = "executing"
    /\ phase' = [phase EXCEPT ![j] = "over"]
    /\ runner' = [runner EXCEPT ![j] = {}]

\* w dies, and every execution of it with it.
Die(w) ==
    /\ phase' = [j \in Job |-> IF w \in runner[j] THEN "over" ELSE phase[j]]
    /\ runner' = [j \in Job |-> runner[j] \ {w}]

Next ==
    \/ \E j \in Job : Submit(j) \/ Withdraw(j) \/ Return(j)
    \/ \E w \in Worker : Die(w) \/ \E j \in Job : Take(w, j)

Spec == Init /\ [][Next]_vars
=============================================================================
