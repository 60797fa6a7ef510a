----------------------------- MODULE Gatekeeper ----------------------------
(***************************************************************************)
(* The constraint templates of one cluster and the constraints of each, as *)
(* a doop-analyzer finds them: Kubernetes and OPA Gatekeeper change them   *)
(* at any time.  Neither is part of the repository.                        *)
(*                                                                         *)
(* What Kubernetes has for the constraints of a template is abstracted to  *)
(* the number of the event, an audit or a deletion, that left it so.       *)
(***************************************************************************)
EXTENDS Naturals

CONSTANTS
    Templates,   \* the constraint templates of the cluster
    MaxEvents    \* bound: audits, creations and deletions

VARIABLES
    template,    \* template[t]: "absent", "pending" (no CRD yet) or "created"
    audit,       \* audit[t]: the latest event about the constraints of t
    events       \* the number of events so far

kubernetes == <<template, audit, events>>

None == 0
Empty == [t \in Templates |-> None]

GatekeeperInit ==
    /\ template = [t \in Templates |-> "created"]
    /\ audit = [t \in Templates |-> 1]
    /\ events = 1

Event(t) ==
    /\ events < MaxEvents
    /\ events' = events + 1
    /\ audit' = [audit EXCEPT ![t] = events']

Audit(t) == template[t] = "created" /\ Event(t) /\ UNCHANGED template

(* Deleting a template deletes its CRD and the constraints.                *)
ChangeTemplate(t) ==
    /\ Event(t)
    /\ \/ template[t] = "absent" /\ template' = [template EXCEPT ![t] = "pending"]
       \/ template[t] # "absent" /\ template' = [template EXCEPT ![t] = "absent"]

CreateCRD(t) ==
    /\ template[t] = "pending"
    /\ template' = [template EXCEPT ![t] = "created"]
    /\ UNCHANGED <<audit, events>>

Gatekeeps == \E t \in Templates : Audit(t) \/ ChangeTemplate(t) \/ CreateCRD(t)

GatekeeperTypeOK ==
    /\ template \in [Templates -> {"absent", "pending", "created"}]
    /\ events \in 1 .. MaxEvents
    /\ audit \in [Templates -> 1 .. events]
=============================================================================
