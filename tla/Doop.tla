------------------------------- MODULE Doop --------------------------------
(***************************************************************************)
(* doop-analyzer, Swift and doop-api together: what happens in a cluster,  *)
(* until a caller of GetReports is told.  The two programs share nothing   *)
(* but the object that one replaces every minute and the other looks at    *)
(* when it is asked, and either may fail or start anew at any time.  Of    *)
(* the analyzer only what it promises is here: see ReportPublisher, which  *)
(* Analyzer implements.                                                    *)
(*                                                                         *)
(* The analyzer uploads for ever, so versions cannot be counted here.  Each*)
(* report has several, and one that nobody remembers is taken as new.      *)
(***************************************************************************)
EXTENDS Naturals, SequencesExt, FiniteSetsExt

CONSTANTS
    Cluster,     \* the cluster in question
    Callers, Scrapers, NoCaller, NoCluster,   \* see Downloader
    Templates, MaxEvents,                     \* see Gatekeeper
    MaxFaults,   \* bound: all that goes wrong on either side
    Spare        \* bound: as many versions of a report as are remembered at once

ASSUME DoopAssumption ==
    /\ NoCaller \notin Callers
    /\ Cluster # NoCluster
    /\ MaxEvents \in Nat \ {0}

VARIABLES
    template, audit, events, busy, created, since,           \* see ReportPublisher
    stored, uploads, malformed,                              \* see ObjectStore
    info, payload, mutex, pc, listing, todo, current, body,  \* see Downloader
    result, failed, faults,
    shown        \* history: the latest state of each template in an answer

None == 0
Clusters == {Cluster}

(* The versions that there may be, each with the report that it stands for.*)
AllReports == SetToSeq([Templates -> 0 .. MaxEvents])
Contents(v) ==
    IF v = None THEN [t \in Templates |-> None] ELSE AllReports[1 + (v % Len(AllReports))]
VersionsOf(report) == {v \in 1 .. Spare * Len(AllReports) : Contents(v) = report}

Publisher == INSTANCE ReportPublisher WITH uploaded <- Contents(stored[Cluster])
Api == INSTANCE Downloader WITH MaxUploads <- 0

clusterVars == <<template, audit, events, busy, created, since>>
swiftVars == <<stored, uploads, malformed>>
apiVars == <<info, payload, mutex, pc, listing, todo, current, body, result, failed>>
vars == <<clusterVars, swiftVars, apiVars, faults, shown>>

Init ==
    /\ Api!Init
    /\ Publisher!Init
    /\ shown = Publisher!Empty

-----------------------------------------------------------------------------
(* The analyzer of the cluster.                                            *)

Remembered ==
    {stored[Cluster], info[Cluster], payload[Cluster], None} \cup
    UNION {{listing[c][Cluster], body[c], result[c][Cluster]} : c \in Callers}

Reports == {report \in Range(AllReports) : Publisher!Whole(report)}

Replace(report) ==
    /\ stored' = [stored EXCEPT ![Cluster] = Min(VersionsOf(report) \ Remembered)]
    /\ UNCHANGED <<uploads, malformed>>

(* Mutant: a report like the last one is not uploaded.                     *)
UploadReportIfChanged ==
    /\ \E report \in Reports :
          IF stored[Cluster] # None /\ report = Contents(stored[Cluster])
          THEN UNCHANGED swiftVars
          ELSE Replace(report)
    /\ Publisher!Publish
    /\ UNCHANGED <<apiVars, faults, shown>>

(* Every upload is a new version, if only for its time of modification.    *)
UploadReport ==
    /\ \E report \in Reports : Replace(report)
    /\ Publisher!Publish
    /\ UNCHANGED <<apiVars, faults, shown>>

BeginRound == UNCHANGED <<swiftVars, apiVars, faults, shown>> /\ Publisher!Begin

(* Listing the constraints of a template that is gone is an error, too.    *)
AbandonRound ==
    /\ UNCHANGED <<swiftVars, apiVars, shown>>
    /\ Publisher!Abandon
    /\ \/ (\E t \in created : template[t] # "created") /\ UNCHANGED faults
       \/ faults < MaxFaults /\ faults' = faults + 1

GatekeeperActs ==
    Publisher!Gatekeeps /\ UNCHANGED <<busy, created, since, swiftVars, apiVars, faults, shown>>

-----------------------------------------------------------------------------
(* doop-api.                                                               *)

Told(c) == Contents(result[c][Cluster])

(* What a successful answer shows of each template that is in it.          *)
Show(c) ==
    shown' = [t \in Templates |->
                IF pc'[c] = "ok" /\ Told(c)[t] # None THEN Told(c)[t] ELSE shown[t]]

Calls(c) == Api!Call(c) /\ UNCHANGED <<clusterVars, shown>>
Locks(c) == Api!Lock(c) /\ UNCHANGED <<clusterVars, shown>>
Proceeds(c) == Api!Proceed(c) /\ Show(c) /\ UNCHANGED clusterVars
CallsAgain(c) == Api!CallAgain(c) /\ UNCHANGED <<clusterVars, shown>>
Restarts == Api!Restart /\ UNCHANGED <<clusterVars, shown>>

Next ==
    \/ GatekeeperActs \/ BeginRound \/ UploadReport \/ AbandonRound \/ Restarts
    \/ \E c \in Callers : Calls(c) \/ Locks(c) \/ Proceeds(c) \/ CallsAgain(c)

Spec == Init /\ [][Next]_vars

(* That of Downloader, and what Analyzer's fairness makes of its rounds:   *)
(* they never cease (Analyzer!RoundsGoOn).                                 *)
Fairness ==
    /\ WF_vars(BeginRound) /\ WF_vars(UploadReport \/ AbandonRound)
    /\ \A c \in Callers : WF_vars(Proceeds(c)) /\ SF_vars(Locks(c))
    /\ \A c \in Scrapers : WF_vars(Calls(c)) /\ WF_vars(CallsAgain(c))

FairSpec == Spec /\ Fairness

-----------------------------------------------------------------------------
(* Nobody is ever told an older state of a template than somebody has been *)
(* told already, though doop-api forgets all that it knew when it restarts,*)
(* gives up on versions that it could not fetch (downloader.go:57), and    *)
(* lists one version but downloads another.                                *)
AnswersAdvance == [][\A t \in Templates : shown'[t] >= shown[t]]_shown

(* When cluster and faults have come to rest, every scrape tells the truth,*)
(* whatever failed on the way: a version that doop-api has given up on is  *)
(* followed within the minute by another, even if by the same report       *)
(* (main.go:83-92, downloader.go:92).  And scrapes go on to be answered.   *)
TruthIsTold ==
    \A c \in Scrapers :
        /\ []<>(pc[c] = "ok")
        /\ <>[](pc[c] = "ok" =>
                \A t \in Templates :
                    Told(c)[t] = IF template[t] = "created" THEN audit[t] ELSE None)

-----------------------------------------------------------------------------
(* The inductive invariant behind AnswersAdvance.                          *)

State == [Templates -> 0 .. MaxEvents]

(* The contents of what is stored, cached and downloaded, and what has been*)
(* shown: each tells of every template no later state than there is.       *)
Cached == Contents(payload[Cluster])
Published == Contents(stored[Cluster])
Fetched(c) == Contents(body[c])

TypeOK ==
    /\ events \in 1 .. MaxEvents
    /\ audit \in [Templates -> 1 .. events]
    /\ busy \in BOOLEAN
    /\ since \in State
    /\ DOMAIN stored = Clusters /\ DOMAIN payload = Clusters
    /\ DOMAIN body = Callers
    /\ DOMAIN result = Callers /\ \A c \in Callers : DOMAIN result[c] = Clusters
    /\ Published \in State /\ Cached \in State /\ \A c \in Callers : Fetched(c) \in State
    /\ pc \in [Callers -> Api!Labels]
    /\ current \in [Callers -> Clusters \cup {NoCluster}]
    /\ \A c \in Callers : pc[c] \in {"download", "decode"} => current[c] = Cluster
    /\ shown \in State

(* What a round has read can be no older than this.                        *)
Horizon(t) == IF busy THEN since[t] ELSE audit[t]

(* The analyzer reads anew in each round whatever it uploads (main.go:97): *)
(* what anyone knows was known when the round began.                       *)
KnownBeforeRound ==
    \A t \in Templates :
        /\ Horizon(t) <= audit[t]
        /\ Published[t] <= Horizon(t) /\ Cached[t] <= Horizon(t) /\ shown[t] <= Horizon(t)
        /\ \A c \in Callers : Fetched(c)[t] <= Horizon(t)

(* The second report tells of no template an older state.                  *)
Precedes(r, s) == \A t \in Templates : s[t] # None => r[t] <= s[t]

(* From what has been shown over the cache and the download to what is     *)
(* stored, nothing gets older; every two have to be compared, since a      *)
(* report without a template says nothing of those before and after it.    *)
InOrder ==
    /\ Precedes(shown, Cached) /\ Precedes(shown, Published) /\ Precedes(Cached, Published)
    /\ \A c \in Callers : pc[c] = "decode" =>
          /\ Precedes(shown, Fetched(c)) /\ Precedes(Cached, Fetched(c))
          /\ Precedes(Fetched(c), Published)

(* The mutex keeps the cache as it is while an answer is put together.     *)
CollectedFromCache ==
    \A c \in Callers :
        /\ Api!Holding(c) => result[c][Cluster] \in {payload[Cluster], None}
        /\ pc[c] \in {"idle", "locking"} => result[c][Cluster] = None

IInv == TypeOK /\ Api!MutexInv /\ KnownBeforeRound /\ InOrder /\ CollectedFromCache
=============================================================================
