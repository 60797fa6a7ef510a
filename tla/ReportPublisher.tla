-------------------------- MODULE ReportPublisher --------------------------
(***************************************************************************)
(* What the doop-analyzer of a cluster promises to those who read its      *)
(* reports in Swift, without its listings, its ticker, its errors and its  *)
(* restarts (the Analyzer module has those).  It works in rounds.  A round *)
(* either comes to nothing, or a report takes the place of the one before: *)
(* with exactly the templates that were created when the round began, each *)
(* as it was at some time of the round.                                    *)
(***************************************************************************)
EXTENDS Gatekeeper

VARIABLES
    busy,       \* a round is going on
    created,    \* the templates that were created when it began
    since,      \* and the latest event about each
    uploaded    \* the report in Swift

publisherVars == <<kubernetes, busy, created, since, uploaded>>

Init ==
    /\ GatekeeperInit
    /\ busy = FALSE
    /\ created = {}
    /\ since = Empty
    /\ uploaded = Empty

Begin ==
    /\ ~busy
    /\ busy' = TRUE
    /\ created' = {t \in Templates : template[t] = "created"}
    /\ since' = audit
    /\ UNCHANGED <<kubernetes, uploaded>>

End == busy /\ busy' = FALSE /\ created' = {} /\ since' = Empty /\ UNCHANGED kubernetes

Abandon == End /\ UNCHANGED uploaded

(* Mutant: the API server may answer with any state that it ever had.      *)
WholeOfAnyTime(report) ==
    \A t \in Templates :
        IF t \in created THEN report[t] \in 1 .. audit[t] ELSE report[t] = None

Whole(report) ==
    \A t \in Templates :
        IF t \in created THEN report[t] \in since[t] .. audit[t] ELSE report[t] = None

Publish == End /\ uploaded' \in [Templates -> 0 .. MaxEvents] /\ Whole(uploaded')

Next ==
    \/ Gatekeeps /\ UNCHANGED <<busy, created, since, uploaded>>
    \/ Begin \/ Publish \/ Abandon

Spec == Init /\ [][Next]_publisherVars
=============================================================================
