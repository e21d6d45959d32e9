---------------------------- MODULE JobLifecycle ----------------------------
(***************************************************************************)
(* What the job queue promises about one job at a time, without saying how *)
(* rows, locks or clocks bring it about.  A job waits, is taken by at most *)
(* one worker, and that worker either puts it back or is done with it.  A  *)
(* job whose worker died is lost: nobody picks it up again, it can only be *)
(* closed.  A job that is over stays over until it is forgotten, and only  *)
(* a job that is over is forgotten.                                        *)
(***************************************************************************)
CONSTANT Job, Worker

VARIABLES
    stage,      \* where each job is in its life
    taker       \* the workers that have the job: one if it is taken, or none

lifeVars == <<stage, taker>>

LifeTypeOK ==
    /\ stage \in [Job -> {"absent", "waiting", "taken", "lost", "over"}]
    /\ taker \in [Job -> SUBSET Worker]

LifeInit ==
    /\ stage = [j \in Job |-> "absent"]
    /\ taker = [j \in Job |-> {}]

Move(j, from, to) ==
    /\ stage[j] \in from
    /\ stage' = [stage EXCEPT ![j] = to]

Post(j) == Move(j, {"absent"}, "waiting") /\ UNCHANGED taker

Take(j, w) ==
    /\ \A i \in Job : w \notin taker[i]
    /\ Move(j, {"waiting"}, "taken")
    /\ taker' = [taker EXCEPT ![j] = {w}]

\* The worker puts the job back, is done with it, or dies on it.
LetGo(j) ==
    /\ \E to \in {"waiting", "lost", "over"} : Move(j, {"taken"}, to)
    /\ taker' = [taker EXCEPT ![j] = {}]

\* The watchdog may close several lost jobs at once, the purge forget several.
Close ==
    \E J \in SUBSET Job :
        /\ \A j \in J : stage[j] \in {"waiting", "lost"}
        /\ stage' = [j \in Job |-> IF j \in J THEN "over" ELSE stage[j]]
        /\ UNCHANGED taker

Forget ==
    \E J \in SUBSET Job :
        /\ \A j \in J : stage[j] = "over"
        /\ stage' = [j \in Job |-> IF j \in J THEN "absent" ELSE stage[j]]
        /\ UNCHANGED taker

LifeNext ==
    \/ \E j \in Job : Post(j) \/ LetGo(j) \/ \E w \in Worker : Take(j, w)
    \/ Close
    \/ Forget

LifeSpec == LifeInit /\ [][LifeNext]_lifeVars
=============================================================================
