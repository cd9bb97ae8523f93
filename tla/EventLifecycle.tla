--------------------------- MODULE EventLifecycle ---------------------------
(***************************************************************************)
(* The scripts and workflows that create and delete one event:             *)
(* scripts/create-event.sh with and without --delete, and the workflows    *)
(* create-event.yml and stop-event.yml, run by several people at once      *)
(* against one cluster.  Events with other tags are other instances.       *)
(*                                                                         *)
(* The state that they share is in the cluster: the Event resource and the *)
(* lab namespace orchi-lab-<tag>.  The operator, which makes the lab and   *)
(* sets the phase, is external (k8s/README.md, "Operator Reconciliation    *)
(* Flow"), and so is the API server, which may fail any call of kubectl.   *)
(* A run may be interrupted between any two calls.                         *)
(***************************************************************************)
EXTENDS Integers

CONSTANTS
  Runs,       \* runs of a script or a workflow
  None,       \* no event
  MaxPolls    \* attempts of the wait for Running (18, or 30 in the workflow)

(* Event resources: the run whose spec was applied last, and the one that  *)
(* the phase is about, if the operator has dealt with any.                 *)
Events == [spec : Runs, phase : {"Pending", "Running", "Failed"},
           of : Runs \cup {None}]

ASSUME ConstantsAssumption == MaxPolls \in Nat \ {0} /\ None \notin Events

VARIABLES
  event,      \* the Event resource: whose spec it has, its phase, and the
              \* spec that the phase is about
  lab,        \* the lab namespace
  job,        \* what each run does
  pc,         \* the next call of each run
  polls,      \* attempts so far
  left,       \* history: runs that ended with the event deleted and its lab
              \* not, since the lab was deleted for the last time
  misled,     \* history: runs about to apply as if there were no event,
              \* because their check failed or the event came after it
  crossed     \* history: deleting runs that had an event created between
              \* their two deletes, and the lab they took not made again

vars == <<event, lab, job, pc, polls, left, misled, crossed>>

cluster == <<event, lab>>
history == <<left, misled, crossed>>

Jobs == {"create", "createWorkflow", "delete", "stopWorkflow"}
Calls == {"check", "apply", "update", "poll", "delete", "labCheck", "labDelete"}

(* Runs that have deleted the event and not yet looked after its lab.      *)
BetweenDeletes == {r \in Runs : pc[r] \in {"labCheck", "labDelete"}}

Goto(r, where) == pc' = [pc EXCEPT ![r] = where]

----------------------------------------------------------------------------
Init ==
  /\ event = None /\ lab = "absent"
  /\ job \in [Runs -> Jobs]
  /\ pc = [r \in Runs |-> "idle"]
  /\ polls = [r \in Runs |-> 0]
  /\ left = {} /\ misled = {} /\ crossed = {}

(* Somebody runs it.  The inputs are valid and the cluster is reachable.   *)
Begin(r) ==
  /\ pc[r] = "idle"
  /\ Goto(r, IF job[r] = "createWorkflow" THEN "apply" ELSE "check")
  /\ UNCHANGED <<cluster, job, polls, history>>

(* Variant: the negation in the check of delete_event is copied.           *)
CheckInverted(r) ==
  /\ pc[r] = "check" /\ job[r] = "create"
  /\ Goto(r, IF event = None THEN "prompt" ELSE "apply")
  /\ UNCHANGED <<cluster, job, polls, history>>

(* create_event looks for the event; a get that fails reads as not found.  *)
CheckBeforeCreate(r) ==
  /\ pc[r] = "check" /\ job[r] = "create"
  /\ \/ event # None /\ Goto(r, "prompt") /\ UNCHANGED misled
     \/ /\ Goto(r, "apply")
        /\ misled' = IF event = None THEN misled ELSE misled \cup {r}
  /\ UNCHANGED <<cluster, job, polls, left, crossed>>

(* delete_event and the stop workflow look for it as well, and give up.    *)
CheckBeforeDelete(r) ==
  /\ pc[r] = "check" /\ job[r] \in {"delete", "stopWorkflow"}
  /\ \/ event # None /\ Goto(r, IF job[r] = "delete" THEN "prompt" ELSE "delete")
     \/ Goto(r, "done")
  /\ UNCHANGED <<cluster, job, polls, history>>

(* The answer to "Update it?", or to "Delete event ... and all associated  *)
(* resources?".                                                            *)
Answer(r) ==
  /\ pc[r] = "prompt"
  /\ \/ Goto(r, IF job[r] = "create" THEN "update" ELSE "delete")
     \/ Goto(r, "done")
  /\ UNCHANGED <<cluster, job, polls, history>>

(* kubectl apply, without a prompt or after one ("update"), makes the      *)
(* event, or changes its spec and leaves its status alone.  A failure ends *)
(* the run, as for every call that is not a condition (set -e).            *)
Apply(r) ==
  /\ pc[r] \in {"apply", "update"}
  /\ \/ /\ event = None
        /\ event' = [spec |-> r, phase |-> "Pending", of |-> None]
        /\ Goto(r, "poll")
        /\ misled' = (misled \cup {q \in Runs : pc[q] = "apply"}) \ {r}
        /\ crossed' = crossed \cup BetweenDeletes
     \/ /\ \/ event # None /\ event' = [event EXCEPT !.spec = r] /\ Goto(r, "poll")
           \/ Goto(r, "done") /\ UNCHANGED event
        /\ misled' = misled \ {r}
        /\ UNCHANGED crossed
  /\ UNCHANGED <<lab, job, polls, left>>

(* Variants: the wait has no limit; it makes one attempt too many.         *)
PollForEver(r) ==
  /\ pc[r] = "poll"
  /\ event # None /\ event.phase # "Pending" /\ Goto(r, "done")
  /\ UNCHANGED <<cluster, job, polls, history>>

PollOnceMore(r) ==
  /\ pc[r] = "poll"
  /\ polls' = [polls EXCEPT ![r] = @ + 1]
  /\ Goto(r, IF polls[r] < MaxPolls THEN "poll" ELSE "done")
  /\ UNCHANGED <<cluster, job, history>>

(* One attempt of the wait.  No event and a failed get read as Pending;    *)
(* after the last attempt the run ends all the same.                       *)
Poll(r) ==
  /\ pc[r] = "poll"
  /\ \/ /\ event # None /\ event.phase # "Pending"
        /\ polls' = [polls EXCEPT ![r] = 0] /\ Goto(r, "done")
     \/ /\ polls[r] + 1 < MaxPolls
        /\ polls' = [polls EXCEPT ![r] = @ + 1] /\ UNCHANGED pc
     \/ /\ polls[r] + 1 = MaxPolls
        /\ polls' = [polls EXCEPT ![r] = 0] /\ Goto(r, "done")
  /\ UNCHANGED <<cluster, job, history>>

(* Variant: the lab is deleted first, and then the event.                  *)
DeleteLabFirst(r) ==
  /\ pc[r] = "delete"
  /\ \/ lab = "active" /\ lab' = "terminating" /\ UNCHANGED <<event, pc>>
     \/ event # None /\ event' = None /\ Goto(r, "done") /\ UNCHANGED lab
  /\ UNCHANGED <<job, polls, history>>

(* kubectl delete of the event.  The call fails, for one, when somebody    *)
(* else has deleted it.  The workflow ends here.                           *)
Delete(r) ==
  /\ pc[r] = "delete"
  /\ \/ /\ event # None
        /\ event' = None
        /\ \/ job[r] = "delete" /\ Goto(r, "labCheck") /\ UNCHANGED left
           \/ job[r] = "stopWorkflow" /\ Goto(r, "done") /\ left' = left \cup {r}
     \/ Goto(r, "done") /\ UNCHANGED <<event, left>>
  /\ UNCHANGED <<lab, job, polls, misled, crossed>>

(* Variant: the negation in the check of the event is copied here.         *)
LabCheckInverted(r) ==
  /\ pc[r] = "labCheck"
  /\ Goto(r, IF lab = "absent" THEN "labDelete" ELSE "done")
  /\ UNCHANGED <<cluster, job, polls, history>>

(* A deleting run leaves its lab alone, and ends.                          *)
LeaveLab(r) ==
  /\ Goto(r, "done")
  /\ left' = left \cup {r}
  /\ crossed' = crossed \ {r}

(* The lab is looked for; a get that fails reads as no lab.                *)
LabCheck(r) ==
  /\ pc[r] = "labCheck"
  /\ \/ lab # "absent" /\ Goto(r, "labDelete") /\ UNCHANGED <<left, crossed>>
     \/ lab = "absent" /\ Goto(r, "done") /\ crossed' = crossed \ {r} /\ UNCHANGED left
     \/ lab # "absent" /\ LeaveLab(r)
  /\ UNCHANGED <<cluster, job, polls, misled>>

(* kubectl delete namespace --wait=false; it fails if the lab has gone.    *)
LabDelete(r) ==
  /\ pc[r] = "labDelete"
  /\ \/ /\ lab # "absent" /\ lab' = "terminating"
        /\ Goto(r, "done") /\ left' = {} /\ UNCHANGED crossed
     \/ LeaveLab(r) /\ UNCHANGED lab
  /\ UNCHANGED <<event, job, polls, misled>>

(* Ctrl-C, a lost terminal, a cancelled workflow.                          *)
Interrupt(r) ==
  /\ pc[r] \in Calls \cup {"prompt"}
  /\ IF r \in BetweenDeletes THEN LeaveLab(r)
     ELSE Goto(r, "done") /\ UNCHANGED <<left, crossed>>
  /\ polls' = [polls EXCEPT ![r] = 0]
  /\ misled' = misled \ {r}
  /\ UNCHANGED <<cluster, job>>

----------------------------------------------------------------------------
(* The cluster: the operator, and the removal of namespaces.               *)

CreateLab ==
  /\ event # None /\ lab = "absent"
  /\ lab' = "active"
  /\ crossed' = crossed \cap BetweenDeletes
  /\ UNCHANGED <<event, job, pc, polls, left, misled>>

(* A spec that has not been dealt with yet succeeds or fails.              *)
Reconcile ==
  /\ event # None /\ event.of # event.spec
  /\ \/ lab = "active" /\ event' = [event EXCEPT !.phase = "Running", !.of = event.spec]
     \/ event' = [event EXCEPT !.phase = "Failed", !.of = event.spec]
  /\ UNCHANGED <<lab, job, pc, polls, history>>

LabGone ==
  /\ lab = "terminating"
  /\ lab' = "absent"
  /\ UNCHANGED <<event, job, pc, polls, history>>

----------------------------------------------------------------------------
(* What a run does by itself, that is, all but its prompts.                *)
Step(r) ==
  \/ CheckBeforeCreate(r) \/ CheckBeforeDelete(r)
  \/ Apply(r) \/ Poll(r)
  \/ Delete(r) \/ LabCheck(r) \/ LabDelete(r)

Next ==
  \/ \E r \in Runs : Begin(r) \/ Step(r) \/ Answer(r) \/ Interrupt(r)
  \/ CreateLab \/ Reconcile \/ LabGone

Spec == Init /\ [][Next]_vars

(* A run goes on, except that nobody has to answer a prompt.               *)
FairSpec == Spec /\ \A r \in Runs : WF_vars(Step(r))

----------------------------------------------------------------------------
(* Properties.                                                             *)

TypeOK ==
  /\ event \in Events \cup {None}
  /\ lab \in {"absent", "active", "terminating"}
  /\ job \in [Runs -> Jobs]
  /\ pc \in [Runs -> {"idle", "prompt", "done"} \cup Calls]
  /\ polls \in [Runs -> 0 .. MaxPolls - 1]
  /\ left \subseteq Runs /\ misled \subseteq Runs /\ crossed \subseteq Runs

(* However creating and deleting runs interleave, and wherever they are    *)
(* interrupted, an event that is shown as Running has its lab.  The one    *)
(* exception: a delete that had an event created between its two deletes   *)
(* takes that event's lab, until the operator makes it again.              *)
RunningHasLab ==
  event # None /\ event.phase = "Running" /\ lab # "active" => crossed # {}

(* A lab outlives its event only while the run that deleted the event is   *)
(* on its way to the lab, or when that run was interrupted there, or could *)
(* not reach the cluster, or was the stop workflow, which never looks.     *)
OrphanExplained ==
  event = None /\ lab = "active" => BetweenDeletes # {} \/ left # {}

(* The script never replaces an event behind the back of its user: the     *)
(* user has said yes, or the event was not there, or could not be seen,    *)
(* when the script looked.                                                 *)
OverwriteAsked ==
  [][\A r \in Runs :
       event # None /\ pc[r] = "apply" /\ pc'[r] = "poll"
       => job[r] = "createWorkflow" \/ r \in misled]_vars

(* A run ends, or waits for an answer, whatever the operator does: the     *)
(* wait for Running is bounded even when the event never starts or is      *)
(* deleted meanwhile.                                                      *)
RunsEnd ==
  \A r \in Runs : pc[r] \in Calls ~> pc[r] \in {"prompt", "done"}
=============================================================================
