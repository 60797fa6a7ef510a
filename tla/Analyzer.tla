----------------------------- MODULE Analyzer ------------------------------
(***************************************************************************)
(* The doop-analyzer of one cluster in its "run" mode (doop-analyzer/      *)
(* main.go, report.go): it gathers a report right after its start and then *)
(* at each tick of a one-minute ticker, and uploads it.  A report is put   *)
(* together from one listing of the templates and one listing per template,*)
(* between which Gatekeeper audits and templates come and go.  Every error *)
(* ends the process (must.Return, must.Succeed); Kubernetes starts it anew.*)
(***************************************************************************)
EXTENDS Gatekeeper

CONSTANT
    MaxFaults    \* bound: failing calls, crashes and interrupts

ASSUME AnalyzerAssumption == MaxEvents \in Nat \ {0} /\ MaxFaults \in Nat

VARIABLES
    pc,          \* "down", "start", "gather", "upload" or "waiting"
    created,     \* the listed templates whose status says that they are created
    todo,        \* the listed templates that are still to be read
    report,      \* the report being compiled; None where t is not in it
    ticker,      \* the ticker exists
    tick,        \* its channel, which buffers one tick
    cancelled,   \* the context was cancelled by SIGINT
    uploaded,    \* the report in Swift
    faults,      \* the number of faults so far
    since        \* history: audit as it was when the round began

round == <<created, todo, report>>
timer == <<ticker, tick>>
vars == <<kubernetes, pc, round, timer, cancelled, uploaded, faults, since>>

Init ==
    /\ GatekeeperInit
    /\ pc = "down"
    /\ created = {}
    /\ todo = {}
    /\ report = Empty
    /\ ticker = FALSE
    /\ tick = FALSE
    /\ cancelled = FALSE
    /\ uploaded = Empty
    /\ faults = 0
    /\ since = Empty

Fault == faults < MaxFaults /\ faults' = faults + 1

-----------------------------------------------------------------------------
(* The start and the end of the process.                                   *)

(* The pod is started, or restarted: nothing of the old process is left.   *)
Boot ==
    /\ pc = "down"
    /\ pc' = "start"
    /\ created' = {}
    /\ todo' = {}
    /\ report' = Empty
    /\ ticker' = FALSE
    /\ tick' = FALSE
    /\ cancelled' = FALSE
    /\ UNCHANGED <<kubernetes, uploaded, faults, since>>

Crash ==
    /\ pc # "down"
    /\ pc' = "down"
    /\ Fault
    /\ UNCHANGED <<kubernetes, round, timer, cancelled, uploaded, since>>

-----------------------------------------------------------------------------
(* One round: sendReport.                                                  *)

(* Mutant: the status of the templates is not looked at.                   *)
ListTemplatesWithoutStatus ==
    /\ pc = "start" /\ ~cancelled
    /\ pc' = "gather"
    /\ todo' = {t \in Templates : template[t] # "absent"}
    /\ created' = todo'
    /\ report' = Empty
    /\ since' = audit
    /\ UNCHANGED <<kubernetes, timer, cancelled, uploaded, faults>>

ListTemplates ==
    /\ pc = "start" /\ ~cancelled
    /\ pc' = "gather"
    /\ todo' = {t \in Templates : template[t] # "absent"}
    /\ created' = {t \in Templates : template[t] = "created"}
    /\ report' = Empty
    /\ since' = audit
    /\ UNCHANGED <<kubernetes, timer, cancelled, uploaded, faults>>

(* Without a CRD there can be no constraints: an empty list, not an error. *)
SkipTemplate(t) ==
    /\ pc = "gather"
    /\ t \in todo \ created
    /\ todo' = todo \ {t}
    /\ UNCHANGED <<kubernetes, pc, created, report, timer, cancelled,
                   uploaded, faults, since>>

(* Mutant: resourceVersion "0" asks for any state that the API server has. *)
ReadTemplateOfAnyTime(t) ==
    /\ pc = "gather" /\ ~cancelled
    /\ t \in todo \cap created
    /\ template[t] = "created"
    /\ \E e \in 1 .. audit[t] : report' = [report EXCEPT ![t] = e]
    /\ todo' = todo \ {t}
    /\ UNCHANGED <<kubernetes, pc, created, timer, cancelled, uploaded,
                   faults, since>>

ReadTemplate(t) ==
    /\ pc = "gather" /\ ~cancelled
    /\ t \in todo \cap created
    /\ template[t] = "created"
    /\ report' = [report EXCEPT ![t] = audit[t]]
    /\ todo' = todo \ {t}
    /\ UNCHANGED <<kubernetes, pc, created, timer, cancelled, uploaded,
                   faults, since>>

ProcessReport ==
    /\ pc = "gather" /\ todo = {}
    /\ pc' = "upload"
    /\ UNCHANGED <<kubernetes, round, timer, cancelled, uploaded, faults, since>>

(* Mutant: a report without violations is not worth an upload.             *)
SendReportUnlessEmpty ==
    /\ pc = "upload" /\ ~cancelled
    /\ uploaded' = IF report = Empty THEN uploaded ELSE report
    /\ pc' = "waiting"
    /\ ticker' = TRUE
    /\ UNCHANGED <<kubernetes, round, tick, cancelled, faults, since>>

(* The first round comes before time.NewTicker.                            *)
SendReport ==
    /\ pc = "upload" /\ ~cancelled
    /\ uploaded' = report
    /\ pc' = "waiting"
    /\ ticker' = TRUE
    /\ UNCHANGED <<kubernetes, round, tick, cancelled, faults, since>>

(* Swift has taken the report, but its answer does not arrive.             *)
UploadUnanswered ==
    /\ pc = "upload" /\ ~cancelled
    /\ uploaded' = report
    /\ pc' = "down"
    /\ Fault
    /\ UNCHANGED <<kubernetes, round, timer, cancelled, since>>

(* Mutant: what cannot be read is left out of the report.                  *)
CallFailsIsSkipped ==
    /\ \/ cancelled /\ UNCHANGED faults
       \/ /\ pc = "gather"
          /\ \E t \in todo \cap created : template[t] # "created"
          /\ UNCHANGED faults
       \/ Fault
    /\ IF pc = "gather"
       THEN /\ \E t \in todo \cap created : todo' = todo \ {t}
            /\ UNCHANGED pc
       ELSE pc \in {"start", "upload"} /\ pc' = "down" /\ UNCHANGED todo
    /\ UNCHANGED <<kubernetes, created, report, timer, cancelled, uploaded,
                   since>>

(* A call fails: the context is cancelled, the CRD of a listed template is *)
(* gone, or the network or the service fails.  The process exits.          *)
CallFails ==
    /\ \/ pc \in {"start", "upload"}
       \/ pc = "gather" /\ todo \cap created # {}
    /\ \/ cancelled /\ UNCHANGED faults
       \/ /\ pc = "gather"
          /\ \E t \in todo \cap created : template[t] # "created"
          /\ UNCHANGED faults
       \/ Fault
    /\ pc' = "down"
    /\ UNCHANGED <<kubernetes, round, timer, cancelled, uploaded, since>>

-----------------------------------------------------------------------------
(* Between the rounds: the select of taskRun.                              *)

(* A tick that finds the previous one still in the channel is dropped.     *)
Tick ==
    /\ pc # "down" /\ ticker
    /\ tick' = TRUE
    /\ UNCHANGED <<kubernetes, pc, round, ticker, cancelled, uploaded, faults,
                   since>>

NextRound ==
    /\ pc = "waiting" /\ tick
    /\ tick' = FALSE
    /\ pc' = "start"
    /\ UNCHANGED <<kubernetes, round, ticker, cancelled, uploaded, faults,
                   since>>

(* SIGINT, a second after which the context is cancelled.                  *)
Interrupt ==
    /\ pc # "down" /\ ~cancelled
    /\ Fault
    /\ cancelled' = TRUE
    /\ UNCHANGED <<kubernetes, pc, round, timer, uploaded, since>>

(* With both channels ready the select takes either.                       *)
Stop ==
    /\ pc = "waiting" /\ cancelled
    /\ pc' = "down"
    /\ UNCHANGED <<kubernetes, round, timer, cancelled, uploaded, faults,
                   since>>

Round ==
    \/ ListTemplates
    \/ \E t \in Templates : SkipTemplate(t) \/ ReadTemplate(t)
    \/ ProcessReport
    \/ SendReport
    \/ UploadUnanswered
    \/ CallFails

Next ==
    \/ Gatekeeps /\ UNCHANGED <<pc, round, timer, cancelled, uploaded, faults, since>>
    \/ Boot
    \/ Crash
    \/ Round
    \/ Tick
    \/ NextRound
    \/ Interrupt
    \/ Stop

Spec == Init /\ [][Next]_vars

(* Kubernetes restarts the pod, a round does not hang, the clock goes on.  *)
Fairness ==
    /\ WF_vars(Boot)
    /\ WF_vars(Round)
    /\ WF_vars(Tick)
    /\ WF_vars(NextRound \/ Stop)

FairSpec == Spec /\ Fairness

-----------------------------------------------------------------------------
Events == 1 .. MaxEvents
States == {"down", "start", "gather", "upload", "waiting"}

(* Every variable has its type; the report has nothing of a template that  *)
(* this round did not list as created or has yet to read.                  *)
TypeOK ==
    /\ GatekeeperTypeOK
    /\ pc \in States
    /\ created \in SUBSET Templates /\ todo \in SUBSET Templates
    /\ report \in [Templates -> Events \cup {None}]
    /\ \A t \in Templates : report[t] # None => t \in created \ todo
    /\ ticker \in BOOLEAN /\ tick \in BOOLEAN /\ cancelled \in BOOLEAN
    /\ uploaded \in [Templates -> Events \cup {None}]
    /\ faults \in 0 .. MaxFaults
    /\ since \in [Templates -> Events \cup {None}]

(* Of a template that stays in the report no older state ever replaces a   *)
(* newer one, over crashes, unanswered uploads and rounds that outlast     *)
(* the minute between two ticks: rounds do not overlap.                    *)
UploadsAdvance ==
    [][\A t \in Templates :
          uploaded'[t] = None \/ uploaded'[t] >= uploaded[t]]_vars

(* When cluster and faults have come to rest, the report in Swift becomes  *)
(* the truth and stays it, whichever call failed before.                   *)
EventuallyReported ==
    <>[](\A t \in Templates :
            uploaded[t] = IF template[t] = "created" THEN audit[t] ELSE None)

(* Rounds never cease: however the process ends, it reaches an upload again*)
(* and again, and gets one done.  A template that stays without a CRD does *)
(* not keep the process from it (kubernetes.go:135).                       *)
RoundsGoOn == []<>(pc = "upload") /\ []<>(pc = "waiting")

-----------------------------------------------------------------------------
Busy == pc \in {"gather", "upload"}

Publisher == INSTANCE ReportPublisher WITH
    busy <- Busy,
    created <- IF Busy THEN created ELSE {},
    since <- IF Busy THEN since ELSE Empty

(* Every report that reaches Swift is a whole one, as ReportPublisher has  *)
(* it: with each template that the listing of its round showed as created, *)
(* as Kubernetes had it at some time of that round, and with no other.     *)
(* Whatever is deleted, fails or starts anew meanwhile, no partial report  *)
(* is uploaded and no round shows in another (report.go:24-26).            *)
ImplementsReportPublisher == Publisher!Spec

-----------------------------------------------------------------------------
(* The inductive invariant behind UploadsAdvance and the refinement.       *)

(* Of the listed templates those are in the report that have been read,    *)
(* with a state of this round; an upload has them all.                     *)
RoundInv ==
    /\ Busy => \A t \in created \ todo : report[t] \in since[t] .. audit[t]
    /\ pc = "upload" => todo = {}

(* Swift is not ahead of the cluster, nor of the round that replaces it.   *)
UploadedInv ==
    \A t \in Templates :
        /\ uploaded[t] <= audit[t]
        /\ Busy => uploaded[t] <= since[t] /\ since[t] \in 1 .. audit[t]

(* All of this holds together, at every moment of a round and of a restart.*)
IInv == TypeOK /\ RoundInv /\ UploadedInv
=============================================================================
