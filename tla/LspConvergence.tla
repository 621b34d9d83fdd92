--------------------------- MODULE LspConvergence ---------------------------
(***************************************************************************)
(* The session of LspSession after the last notification: every open       *)
(* document was given a new snapshot (reconfigure_documents) and nothing   *)
(* changes any more.  What is left are the analyses and the retries they   *)
(* cause in each other, because a retry gives its document a new           *)
(* generation and project_sources_are_current compares generations.        *)
(*                                                                         *)
(* Generations are only compared for equality here, so a captured          *)
(* generation is represented by whether it is still the current one: the   *)
(* state space is finite without a bound on the number of retries.         *)
(***************************************************************************)
EXTENDS Integers, FiniteSets

CONSTANTS
  Docs,          \* the open documents, numbered in URI order
  Keeps,         \* Keeps[d]: the captured buffers ProjectSourceIndex::retain keeps for d
  MaxAnalyses    \* MAX_CONCURRENT_ANALYSES

ASSUME ConvergenceAssumption ==
  /\ Docs \subseteq Nat /\ IsFiniteSet(Docs)
  /\ Keeps \in [Docs -> SUBSET Docs]
  /\ MaxAnalyses \in Nat \ {0}

VARIABLES
  stage,   \* how far the analysis of each document has come: the stages of LspSession, or adopted
  stale    \* stale[d]: the kept buffers whose captured generation is superseded

vars == <<stage, stale>>

(* The snapshots are taken one after the other, in URI order: a document   *)
(* captures the generations later ones are about to lose.                  *)
Init ==
  /\ stage = [d \in Docs |-> "waiting"]
  /\ stale = [d \in Docs |-> {e \in Keeps[d] : e > d}]

Permits == MaxAnalyses - Cardinality({d \in Docs : stage[d] \in {"processing", "validating"}})
Move(d, from, to) == stage[d] = from /\ stage' = [stage EXCEPT ![d] = to]

StartProcessing(d) == Permits > 0 /\ Move(d, "waiting", "processing") /\ UNCHANGED stale
FinishProcessing(d) == Move(d, "processing", "processed") /\ UNCHANGED stale
StartValidation(d) == Permits > 0 /\ Move(d, "queued", "validating") /\ UNCHANGED stale
FinishValidation(d) == Move(d, "validating", "validated") /\ UNCHANGED stale

(* The analyses under way that captured d and keep it.                     *)
HoldsOn(e, d) == stage[e] # "adopted" /\ d \in Keeps[e]

(* Altered, to show that the property would notice: the retry keeps the    *)
(* superseded generations.                                                 *)
RetryUnrefreshed(d) ==
  /\ stage' = [stage EXCEPT ![d] = "waiting"]
  /\ stale' = [e \in Docs |-> IF HoldsOn(e, d) THEN stale[e] \cup {d} ELSE stale[e]]

(* rebuild_current_project_job: d captures the current generations, and    *)
(* whoever captured d's old one will find it superseded.                   *)
Retry(d) ==
  /\ stage' = [stage EXCEPT ![d] = "waiting"]
  /\ stale' = [e \in Docs |-> IF e = d THEN {}
                              ELSE IF HoldsOn(e, d) THEN stale[e] \cup {d} ELSE stale[e]]

ProjectProcessingCompleted(d) ==
  \/ stale[d] = {} /\ Move(d, "processed", "queued") /\ UNCHANGED stale
  \/ stage[d] = "processed" /\ stale[d] # {} /\ Retry(d)

ProjectValidationCompleted(d) ==
  \/ stale[d] = {} /\ Move(d, "validated", "adopted") /\ UNCHANGED stale
  \/ stage[d] = "validated" /\ stale[d] # {} /\ Retry(d)

Next ==
  \/ \E d \in Docs : StartProcessing(d)
  \/ \E d \in Docs : FinishProcessing(d)
  \/ \E d \in Docs : ProjectProcessingCompleted(d)
  \/ \E d \in Docs : StartValidation(d)
  \/ \E d \in Docs : FinishValidation(d)
  \/ \E d \in Docs : ProjectValidationCompleted(d)

(* Threads return and events are handled; the semaphore serves its waiters *)
(* in turn, so a task that waits for a permit again and again gets one.    *)
Fairness ==
  \A d \in Docs :
    /\ SF_vars(StartProcessing(d)) /\ SF_vars(StartValidation(d))
    /\ WF_vars(FinishProcessing(d)) /\ WF_vars(FinishValidation(d))
    /\ WF_vars(ProjectProcessingCompleted(d)) /\ WF_vars(ProjectValidationCompleted(d))

Spec == Init /\ [][Next]_vars /\ Fairness

(* Every open document ends up with a result that stays.  Holds when no    *)
(* document keeps, directly or through others, a document that keeps it.   *)
Converges == <>[](\A d \in Docs : stage[d] = "adopted")
=============================================================================
