----------------------- MODULE EventLifecycle_proofs -----------------------
(***************************************************************************)
(* Proofs about EventLifecycle, for any set of runs and any number of      *)
(* polls.                                                                  *)
(***************************************************************************)
EXTENDS EventLifecycle, TLAPS

(* A run that is between its two deletes while there is an event has had   *)
(* that event created in between.                                          *)
CrossedInv == event # None => BetweenDeletes \subseteq crossed

(* An event without its lab lost it to a run that has left the lab's       *)
(* delete behind: one that is still on its way cannot have taken it.       *)
TakenInv ==
  event # None /\ event.phase = "Running" /\ lab # "active"
  => crossed \ BetweenDeletes # {}

(* A run that is about to apply over an event without having asked was     *)
(* misled by its check, unless it is the workflow, which never asks.       *)
MisledInv ==
  \A r \in Runs : event # None /\ pc[r] = "apply" /\ job[r] # "createWorkflow"
                  => r \in misled

IInv == TypeOK /\ CrossedInv /\ TakenInv /\ MisledInv /\ OrphanExplained

----------------------------------------------------------------------------
LEMMA InitIInv == Init => IInv
BY ConstantsAssumption
DEF Init, IInv, TypeOK, CrossedInv, TakenInv, MisledInv, OrphanExplained, Calls

----------------------------------------------------------------------------
LEMMA StepTypeOK == ASSUME TypeOK, [Next]_vars PROVE TypeOK'
<1> USE ConstantsAssumption DEF TypeOK, Goto, Calls, cluster, history, Events
<1>1. ASSUME NEW r \in Runs, Begin(r) PROVE TypeOK'
  BY <1>1 DEF Begin
<1>2. ASSUME NEW r \in Runs, CheckBeforeCreate(r) PROVE TypeOK'
  BY <1>2 DEF CheckBeforeCreate
<1>3. ASSUME NEW r \in Runs, CheckBeforeDelete(r) PROVE TypeOK'
  BY <1>3 DEF CheckBeforeDelete
<1>4. ASSUME NEW r \in Runs, Answer(r) PROVE TypeOK'
  BY <1>4 DEF Answer
<1>5. ASSUME NEW r \in Runs, Apply(r) PROVE TypeOK'
  BY <1>5 DEF Apply, BetweenDeletes
<1>6. ASSUME NEW r \in Runs, Poll(r) PROVE TypeOK'
  BY <1>6 DEF Poll
<1>7. ASSUME NEW r \in Runs, Delete(r) PROVE TypeOK'
  BY <1>7 DEF Delete
<1>8. ASSUME NEW r \in Runs, LabCheck(r) PROVE TypeOK'
  BY <1>8 DEF LabCheck, LeaveLab
<1>9. ASSUME NEW r \in Runs, LabDelete(r) PROVE TypeOK'
  BY <1>9 DEF LabDelete, LeaveLab
<1>10. ASSUME NEW r \in Runs, Interrupt(r) PROVE TypeOK'
  BY <1>10 DEF Interrupt, LeaveLab
<1>11. CASE CreateLab
  BY <1>11 DEF CreateLab
<1>12. CASE Reconcile
  BY <1>12 DEF Reconcile
<1>13. CASE LabGone
  BY <1>13 DEF LabGone
<1>14. CASE UNCHANGED vars
  BY <1>14 DEF vars
<1> QED
  BY <1>1, <1>2, <1>3, <1>4, <1>5, <1>6, <1>7, <1>8, <1>9, <1>10, <1>11,
     <1>12, <1>13, <1>14 DEF Next, Step

----------------------------------------------------------------------------
(* The steps that neither enter nor leave the deletes, nor touch the event,*)
(* the lab or the history of crossings.                                    *)
Elsewhere ==
  /\ BetweenDeletes' = BetweenDeletes
  /\ UNCHANGED <<event, lab, left, crossed>>

LEMMA ElsewhereKeeps ==
  ASSUME CrossedInv, TakenInv, OrphanExplained, Elsewhere
  PROVE  CrossedInv' /\ TakenInv' /\ OrphanExplained'
BY DEF CrossedInv, TakenInv, OrphanExplained, Elsewhere

LEMMA QuietSteps ==
  ASSUME TypeOK, NEW r \in Runs,
         Begin(r) \/ CheckBeforeCreate(r) \/ CheckBeforeDelete(r) \/ Answer(r)
         \/ Poll(r)
  PROVE  Elsewhere
<1> USE DEF TypeOK, Goto, cluster, history, Elsewhere, BetweenDeletes
<1>1. CASE Begin(r)
  BY <1>1 DEF Begin
<1>2. CASE CheckBeforeCreate(r)
  BY <1>2 DEF CheckBeforeCreate
<1>3. CASE CheckBeforeDelete(r)
  BY <1>3 DEF CheckBeforeDelete
<1>4. CASE Answer(r)
  BY <1>4 DEF Answer
<1>5. CASE Poll(r)
  BY <1>5 DEF Poll
<1> QED BY <1>1, <1>2, <1>3, <1>4, <1>5

(* A run that leaves the lab alone is in left, and no longer between its   *)
(* deletes.                                                                *)
LEMMA LeavingKeeps ==
  ASSUME TypeOK, CrossedInv, TakenInv, NEW r \in BetweenDeletes, LeaveLab(r),
         UNCHANGED cluster
  PROVE  CrossedInv' /\ TakenInv' /\ OrphanExplained'
<1>1. BetweenDeletes' = BetweenDeletes \ {r}
  BY DEF TypeOK, LeaveLab, Goto, BetweenDeletes
<1> QED
  BY <1>1 DEF CrossedInv, TakenInv, OrphanExplained, LeaveLab, cluster

(* Every step keeps the three statements about the lab.                    *)
LEMMA StepLab ==
  ASSUME TypeOK, CrossedInv, TakenInv, OrphanExplained, [Next]_vars
  PROVE  CrossedInv' /\ TakenInv' /\ OrphanExplained'
<1> DEFINE Kept == CrossedInv' /\ TakenInv' /\ OrphanExplained'
<1>1. ASSUME NEW r \in Runs,
             Begin(r) \/ CheckBeforeCreate(r) \/ CheckBeforeDelete(r)
             \/ Answer(r) \/ Poll(r)
      PROVE  Kept
  BY <1>1, QuietSteps, ElsewhereKeeps
<1>2. ASSUME NEW r \in Runs, Apply(r) PROVE Kept
  <2>1. BetweenDeletes' = BetweenDeletes
    BY <1>2 DEF Apply, TypeOK, Goto, BetweenDeletes
  <2>2. ASSUME event = None, event' = [spec |-> r, phase |-> "Pending", of |-> None],
               crossed' = crossed \cup BetweenDeletes
        PROVE  Kept
    <3>1. event' # None
      BY <2>2, ConstantsAssumption DEF Events
    <3> QED BY <3>1, <2>1, <2>2 DEF CrossedInv, TakenInv, OrphanExplained
  <2>3. ASSUME event # None, event' = [event EXCEPT !.spec = r],
               UNCHANGED <<lab, crossed>>
        PROVE  Kept
    <3>1. event' # None /\ event'.phase = event.phase
      BY <2>3, ConstantsAssumption DEF Events, TypeOK
    <3> QED BY <3>1, <2>1, <2>3 DEF CrossedInv, TakenInv, OrphanExplained
  <2>4. ASSUME UNCHANGED <<event, lab, left, crossed>> PROVE Kept
    BY <2>1, <2>4, ElsewhereKeeps DEF Elsewhere
  <2> QED BY <1>2, <2>2, <2>3, <2>4 DEF Apply
<1>3. ASSUME NEW r \in Runs, Delete(r) PROVE Kept
  <2>1. CASE event # None /\ event' = None
    <3>1. r \in BetweenDeletes' \/ r \in left'
      BY <1>3, <2>1 DEF Delete, TypeOK, Goto, BetweenDeletes
    <3> QED BY <3>1, <2>1 DEF CrossedInv, TakenInv, OrphanExplained
  <2>2. CASE Goto(r, "done") /\ UNCHANGED <<event, left>>
    <3>1. Elsewhere
      BY <1>3, <2>2 DEF Delete, TypeOK, Goto, BetweenDeletes, Elsewhere
    <3> QED BY <3>1, ElsewhereKeeps
  <2> QED BY <1>3, <2>1, <2>2 DEF Delete
<1>4. ASSUME NEW r \in Runs, LabCheck(r) PROVE Kept
  <2>1. r \in BetweenDeletes /\ UNCHANGED cluster
    BY <1>4 DEF LabCheck, BetweenDeletes
  <2>2. CASE Goto(r, "labDelete") /\ UNCHANGED <<left, crossed>>
    <3>1. Elsewhere
      BY <2>1, <2>2 DEF TypeOK, Goto, BetweenDeletes, Elsewhere, cluster
    <3> QED BY <3>1, ElsewhereKeeps
  <2>3. CASE /\ lab = "absent" /\ Goto(r, "done")
             /\ crossed' = crossed \ {r} /\ UNCHANGED left
    <3>1. BetweenDeletes' = BetweenDeletes \ {r}
      BY <2>1, <2>3 DEF TypeOK, Goto, BetweenDeletes
    <3> QED
      BY <2>1, <2>3, <3>1 DEF CrossedInv, TakenInv, OrphanExplained, cluster
  <2>4. CASE LeaveLab(r)
    BY <2>1, <2>4, LeavingKeeps
  <2> QED BY <1>4, <2>2, <2>3, <2>4 DEF LabCheck
<1>5. ASSUME NEW r \in Runs, LabDelete(r) PROVE Kept
  <2>1. r \in BetweenDeletes /\ UNCHANGED event
    BY <1>5 DEF LabDelete, BetweenDeletes
  <2>2. CASE lab' = "terminating" /\ Goto(r, "done") /\ UNCHANGED crossed
    <3>1. BetweenDeletes' = BetweenDeletes \ {r}
      BY <2>1, <2>2 DEF TypeOK, Goto, BetweenDeletes
    (* The run that takes the lab of an event has been crossed by it.      *)
    <3>2. event # None => r \in crossed' \ BetweenDeletes'
      BY <2>1, <2>2, <3>1 DEF CrossedInv
    <3> QED
      BY <2>1, <2>2, <3>1, <3>2 DEF CrossedInv, TakenInv, OrphanExplained
  <2>3. CASE LeaveLab(r) /\ UNCHANGED lab
    BY <2>1, <2>3, LeavingKeeps DEF cluster
  <2> QED BY <1>5, <2>2, <2>3 DEF LabDelete
<1>6. ASSUME NEW r \in Runs, Interrupt(r) PROVE Kept
  <2>1. CASE r \in BetweenDeletes
    BY <1>6, <2>1, LeavingKeeps DEF Interrupt
  <2>2. CASE r \notin BetweenDeletes
    <3>1. Elsewhere
      BY <1>6, <2>2 DEF Interrupt, TypeOK, Goto, BetweenDeletes, Elsewhere, cluster
    <3> QED BY <3>1, ElsewhereKeeps
  <2> QED BY <2>1, <2>2
<1>7. CASE CreateLab
  <2>1. lab' = "active" /\ event' = event /\ event # None
        /\ crossed' = crossed \cap BetweenDeletes /\ BetweenDeletes' = BetweenDeletes
    BY <1>7 DEF CreateLab, BetweenDeletes
  <2> QED BY <2>1 DEF CrossedInv, TakenInv, OrphanExplained
<1>8. CASE Reconcile
  <2>1. BetweenDeletes' = BetweenDeletes /\ UNCHANGED <<lab, left, crossed>>
    BY <1>8 DEF Reconcile, BetweenDeletes, history
  <2>2. event # None /\ event' # None
        /\ (event'.phase = "Running" => lab = "active")
    BY <1>8, ConstantsAssumption DEF Reconcile, TypeOK, Events
  <2> QED BY <2>1, <2>2 DEF CrossedInv, TakenInv, OrphanExplained
<1>9. CASE LabGone
  <2>1. BetweenDeletes' = BetweenDeletes
    BY <1>9 DEF LabGone, BetweenDeletes
  <2> QED
    BY <1>9, <2>1 DEF LabGone, history, CrossedInv, TakenInv, OrphanExplained
<1>10. CASE UNCHANGED vars
  BY <1>10, ElsewhereKeeps DEF vars, Elsewhere, BetweenDeletes
<1> QED
  BY <1>1, <1>2, <1>3, <1>4, <1>5, <1>6, <1>7, <1>8, <1>9, <1>10 DEF Next, Step

(* Every step keeps who has been misled: a run comes to its apply after    *)
(* its check, and an event comes to it by the apply of another run.        *)
LEMMA StepMisled == ASSUME TypeOK, MisledInv, [Next]_vars PROVE MisledInv'
<1> USE DEF TypeOK, MisledInv, Goto
<1>1. ASSUME NEW r \in Runs, CheckBeforeCreate(r) PROVE MisledInv'
  BY <1>1 DEF CheckBeforeCreate, cluster
<1>2. ASSUME NEW r \in Runs, Apply(r) PROVE MisledInv'
  BY <1>2 DEF Apply
<1>3. ASSUME NEW r \in Runs,
             Begin(r) \/ CheckBeforeDelete(r) \/ Answer(r) \/ Poll(r)
      PROVE  MisledInv'
  BY <1>3 DEF Begin, CheckBeforeDelete, Answer, Poll, cluster, history
<1>4. ASSUME NEW r \in Runs, Delete(r) \/ LabCheck(r) \/ LabDelete(r)
      PROVE  MisledInv'
  BY <1>4 DEF Delete, LabCheck, LabDelete, LeaveLab, cluster
<1>5. ASSUME NEW r \in Runs, Interrupt(r) PROVE MisledInv'
  BY <1>5 DEF Interrupt, LeaveLab, cluster
<1>6. CASE CreateLab \/ Reconcile \/ LabGone
  BY <1>6 DEF CreateLab, Reconcile, LabGone, history
<1>7. CASE UNCHANGED vars
  BY <1>7 DEF vars
<1> QED BY <1>1, <1>2, <1>3, <1>4, <1>5, <1>6, <1>7 DEF Next, Step

LEMMA StepIInv == IInv /\ [Next]_vars => IInv'
BY StepTypeOK, StepLab, StepMisled DEF IInv

----------------------------------------------------------------------------
(* Whatever the runs do and however they are interleaved and interrupted,  *)
(* the inductive invariant holds.                                          *)
THEOREM Invariance == Spec => []IInv
BY InitIInv, StepIInv, PTL DEF Spec

(* Every reachable state of the cluster and of the runs is well typed.     *)
THEOREM TypeCorrect == Spec => []TypeOK
BY Invariance, PTL DEF IInv

(* An event that is shown as Running has its lab, unless it was created    *)
(* between the two deletes of a run that took it.                          *)
THEOREM RunningEventsHaveLabs == Spec => []RunningHasLab
<1>1. IInv => RunningHasLab
  BY DEF IInv, TakenInv, RunningHasLab
<1> QED BY Invariance, <1>1, PTL

(* A lab that has outlived its event is on somebody's way, or was left.    *)
THEOREM OrphansExplained == Spec => []OrphanExplained
BY Invariance, PTL DEF IInv

(* Nobody's event is replaced without a question, but by a workflow or by  *)
(* a script that was misled by its check.                                  *)
THEOREM OverwritesAsked == Spec => OverwriteAsked
<1>1. IInv /\ [Next]_vars =>
        [\A r \in Runs :
           event # None /\ pc[r] = "apply" /\ pc'[r] = "poll"
           => job[r] = "createWorkflow" \/ r \in misled]_vars
  BY DEF IInv, MisledInv
<1> QED BY Invariance, <1>1, PTL DEF Spec, OverwriteAsked
----------------------------------------------------------------------------
(* A run never goes round in circles: how many calls it has still to make, *)
(* at most.                                                                *)
Effort(r) ==
  CASE pc[r] = "idle"                 -> MaxPolls + 5
    [] pc[r] = "check"                -> MaxPolls + 4
    [] pc[r] = "prompt"               -> MaxPolls + 3
    [] pc[r] \in {"apply", "update"}  -> MaxPolls + 1
    [] pc[r] = "poll"                 -> MaxPolls - polls[r]
    [] pc[r] = "delete"               -> 3
    [] pc[r] = "labCheck"             -> 2
    [] pc[r] = "labDelete"            -> 1
    [] pc[r] = "done"                 -> 0

EffortFalls ==
  [][\A r \in Runs : <<pc[r], polls[r]>>' # <<pc[r], polls[r]>>
       => Effort(r) > 0 /\ Effort(r)' < Effort(r)]_vars
LEMMA EffortIsNat ==
  ASSUME TypeOK, NEW r \in Runs
  PROVE  Effort(r) \in Nat /\ (pc[r] # "done" => Effort(r) > 0)
BY ConstantsAssumption DEF TypeOK, Effort, Calls

LEMMA StepEffort ==
  ASSUME TypeOK, Next, NEW q \in Runs,
         <<pc[q], polls[q]>>' # <<pc[q], polls[q]>>
  PROVE  Effort(q) > 0 /\ Effort(q)' < Effort(q)
<1> USE ConstantsAssumption DEF TypeOK, Goto
<1>1. ASSUME NEW r \in Runs, Begin(r) PROVE pc[q] # "done" /\ Effort(q)' < Effort(q)
  BY <1>1 DEF Begin, Effort
<1>2. ASSUME NEW r \in Runs, CheckBeforeCreate(r) \/ CheckBeforeDelete(r)
      PROVE  pc[q] # "done" /\ Effort(q)' < Effort(q)
  BY <1>2 DEF CheckBeforeCreate, CheckBeforeDelete, Effort
<1>3. ASSUME NEW r \in Runs, Answer(r) PROVE pc[q] # "done" /\ Effort(q)' < Effort(q)
  BY <1>3 DEF Answer, Effort
<1>4. ASSUME NEW r \in Runs, Apply(r) PROVE pc[q] # "done" /\ Effort(q)' < Effort(q)
  BY <1>4 DEF Apply, Effort
<1>5. ASSUME NEW r \in Runs, Poll(r) PROVE pc[q] # "done" /\ Effort(q)' < Effort(q)
  BY <1>5 DEF Poll, Effort
<1>6. ASSUME NEW r \in Runs, Delete(r) \/ LabCheck(r) \/ LabDelete(r)
      PROVE  pc[q] # "done" /\ Effort(q)' < Effort(q)
  BY <1>6 DEF Delete, LabCheck, LabDelete, LeaveLab, Effort
<1>7. ASSUME NEW r \in Runs, Interrupt(r) PROVE pc[q] # "done" /\ Effort(q)' < Effort(q)
  <2>1. q = r /\ pc[q] \in Calls \cup {"prompt"} /\ pc'[q] = "done"
    BY <1>7 DEF Interrupt, LeaveLab
  <2>2. Effort(q)' = 0
    BY <2>1 DEF Effort
  <2> QED BY <2>1, <2>2, EffortIsNat DEF Calls
<1>8. CASE CreateLab \/ Reconcile \/ LabGone
  BY <1>8 DEF CreateLab, Reconcile, LabGone
<1> QED BY <1>1, <1>2, <1>3, <1>4, <1>5, <1>6, <1>7, <1>8, EffortIsNat DEF Next, Step

(* The safety half of RunsEnd: every call of a run, whether it succeeds,   *)
(* fails or is interrupted, brings it nearer to its end, whatever the      *)
(* other runs, the operator and the user do in between.  So a run makes at *)
(* most MaxPolls + 5 calls and prompts in all.                             *)
THEOREM RunsWindDown == Spec => EffortFalls
<1>1. IInv /\ [Next]_vars =>
        [\A r \in Runs : <<pc[r], polls[r]>>' # <<pc[r], polls[r]>>
           => Effort(r) > 0 /\ Effort(r)' < Effort(r)]_vars
  BY StepEffort DEF IInv
<1> QED BY Invariance, <1>1, PTL DEF Spec, EffortFalls
=============================================================================
