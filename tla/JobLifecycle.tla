----------------------------- MODULE JobLifecycle ------------------------------
(***************************************************************************)
(* What the durable queue promises about a job, whatever happens to         *)
(* executions, envelopes and outbox messages: a job waits or is worked on   *)
(* until it ends; a success is final; it is cancelled only for a user who   *)
(* asked for it and succeeds only for a user who did not; a failed or       *)
(* cancelled job comes back only when a user retries it, with the wish to   *)
(* cancel withdrawn.  DurableJobs is the implementation.                    *)
(***************************************************************************)
CONSTANT Jobs

VARIABLES
    phase,  \* where each job is in its life
    wish    \* jobs whose cancellation was requested and not withdrawn

lifeVars == <<phase, wish>>

Phases == {"absent", "waiting", "working", "succeeded", "failed", "cancelled"}

LifeTypeOK == phase \in [Jobs -> Phases] /\ wish \subseteq Jobs

LifeInit == phase = [j \in Jobs |-> "absent"] /\ wish = {}

Live(j) == phase[j] \in {"waiting", "working"}

MoveTo(j, p) == phase' = [phase EXCEPT ![j] = p]

Admit(j) == phase[j] = "absent" /\ MoveTo(j, "waiting") /\ UNCHANGED wish

Begin(j) == phase[j] = "waiting" /\ j \notin wish /\ MoveTo(j, "working") /\ UNCHANGED wish

(* A failed attempt, a batch that yields, a model that is not ready, a      *)
(* dead worker.  Only the last can happen to a job somebody asked to cancel. *)
Requeue(j) == phase[j] = "working" /\ MoveTo(j, "waiting") /\ UNCHANGED wish

Succeed(j) == phase[j] = "working" /\ j \notin wish /\ MoveTo(j, "succeeded") /\ UNCHANGED wish

Fail(j) == Live(j) /\ MoveTo(j, "failed") /\ UNCHANGED wish

Ask(j) == phase[j] = "working" /\ wish' = wish \cup {j} /\ UNCHANGED phase

(* A waiting job is cancelled by the request itself.                        *)
Cancel(j) ==
    /\ Live(j)
    /\ phase[j] = "working" => j \in wish
    /\ MoveTo(j, "cancelled")
    /\ wish' = wish \cup {j}

Retry(j) == phase[j] \in {"failed", "cancelled"} /\ MoveTo(j, "waiting") /\ wish' = wish \ {j}

LifeNext == \E j \in Jobs :
    \/ Admit(j) \/ Begin(j) \/ Requeue(j) \/ Succeed(j)
    \/ Fail(j) \/ Ask(j) \/ Cancel(j) \/ Retry(j)

LifeSpec == LifeInit /\ [][LifeNext]_lifeVars

===============================================================================
