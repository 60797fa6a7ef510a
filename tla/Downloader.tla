---------------------------- MODULE Downloader -----------------------------
(***************************************************************************)
(* The report cache of doop-api (doop-api/downloader.go).  Any number of   *)
(* goroutines, one per request of /v2/violations and one per scrape of     *)
(* /metrics, call GetReports.  A call lists the container WITHOUT holding  *)
(* the mutex, then takes the mutex and walks over the listing, answering   *)
(* from the cache where the listed attributes are the ones it knows and    *)
(* downloading the object where they are not.  Between the listing and the *)
(* walk, and between the listing and a download, the analyzers upload      *)
(* further reports and other calls refresh the cache.                      *)
(***************************************************************************)
EXTENDS ObjectStore

CONSTANTS
    Callers,     \* the goroutines that call GetReports
    NoCaller,    \* the mutex is free
    NoCluster,   \* the caller is at no object
    Scrapers,    \* those of them that call again for ever (Prometheus)
    MaxFaults    \* bound: network errors, cancelled requests, process restarts

ASSUME CallersAssumption ==
    /\ NoCaller \notin Callers
    /\ NoCluster \notin Clusters
    /\ Scrapers \subseteq Callers
    /\ MaxFaults \in Nat

VARIABLES
    info,        \* d.objects[n]: the attributes, None where d.objects has none
    payload,     \* d.objects[n].Payload, None for the empty Report
    mutex,       \* the holder of d.mutex
    pc,          \* where each caller is in GetReports
    listing,     \* objInfos: the listed version, None where nothing is listed
    todo,        \* the listed objects that the loop has not completed
    current,     \* the object being updated
    body,        \* payloadBytes: the version that was downloaded
    result,      \* the reports collected for the answer
    failed,      \* history: failed[n], the versions whose fetch went wrong
    faults       \* number of faults so far (bounded by MaxFaults)

local == <<pc, listing, todo, current, body, result>>
cache == <<info, payload>>
vars == <<storeVars, cache, mutex, local, failed, faults>>

Nothing == [n \in Clusters |-> None]

Init ==
    /\ StoreInit
    /\ info = Nothing
    /\ payload = Nothing
    /\ mutex = NoCaller
    /\ pc = [c \in Callers |-> "idle"]
    /\ listing = [c \in Callers |-> Nothing]
    /\ todo = [c \in Callers |-> {}]
    /\ current = [c \in Callers |-> NoCluster]
    /\ body = [c \in Callers |-> None]
    /\ result = [c \in Callers |-> Nothing]
    /\ failed = [n \in Clusters |-> {}]
    /\ faults = 0

Goto(c, label) == pc' = [pc EXCEPT ![c] = label]
Fault == faults < MaxFaults /\ faults' = faults + 1

(* Mutant: an object is fetched once and never refreshed.                  *)
NeedsUpdateOnlyUnknown(c, n) == info[n] = None

NeedsUpdate(c, n) == info[n] # listing[c][n]

-----------------------------------------------------------------------------
(* GetReports, up to the mutex.                                            *)

ListObjects(c) ==
    /\ pc[c] = "idle"
    /\ Goto(c, "locking")
    /\ listing' = [listing EXCEPT ![c] = stored]
    /\ todo' = [todo EXCEPT ![c] = {n \in Clusters : stored[n] # None}]
    /\ UNCHANGED <<storeVars, cache, mutex, current, body, result, failed,
                   faults>>

ListFails(c) ==
    /\ pc[c] = "idle"
    /\ Goto(c, "error")
    /\ Fault
    /\ UNCHANGED <<storeVars, cache, mutex, listing, todo, current, body,
                   result, failed>>

(* Mutant: nothing keeps two callers apart.                                *)
LockShared(c) ==
    /\ pc[c] = "locking"
    /\ mutex' = c
    /\ Goto(c, "loop")
    /\ UNCHANGED <<storeVars, cache, listing, todo, current, body, result,
                   failed, faults>>

Lock(c) ==
    /\ pc[c] = "locking"
    /\ mutex = NoCaller
    /\ mutex' = c
    /\ Goto(c, "loop")
    /\ UNCHANGED <<storeVars, cache, listing, todo, current, body, result,
                   failed, faults>>

-----------------------------------------------------------------------------
(* The loop over the listing, under the mutex.                             *)

UseCached(c, n) ==
    /\ pc[c] = "loop"
    /\ n \in todo[c]
    /\ ~NeedsUpdate(c, n)
    /\ result' = [result EXCEPT ![c][n] = payload[n]]
    /\ todo' = [todo EXCEPT ![c] = @ \ {n}]
    /\ UNCHANGED <<storeVars, cache, mutex, pc, listing, current, body,
                   failed, faults>>

(* Mutant: the attributes of the previous listing are kept.                *)
BeginUpdateKeepsInfo(c, n) ==
    /\ pc[c] = "loop"
    /\ n \in todo[c]
    /\ NeedsUpdate(c, n)
    /\ current' = [current EXCEPT ![c] = n]
    /\ Goto(c, "download")
    /\ UNCHANGED <<storeVars, cache, mutex, listing, todo, body, result,
                   failed, faults>>

(* The attributes are recorded before anything is downloaded.              *)
BeginUpdate(c, n) ==
    /\ pc[c] = "loop"
    /\ n \in todo[c]
    /\ NeedsUpdate(c, n)
    /\ info' = [info EXCEPT ![n] = listing[c][n]]
    /\ current' = [current EXCEPT ![c] = n]
    /\ Goto(c, "download")
    /\ UNCHANGED <<storeVars, payload, mutex, listing, todo, body, result,
                   failed, faults>>

(* What is downloaded is what is stored now, not what was listed.          *)
Download(c) ==
    /\ pc[c] = "download"
    /\ stored[current[c]] # None
    /\ body' = [body EXCEPT ![c] = stored[current[c]]]
    /\ Goto(c, "decode")
    /\ UNCHANGED <<storeVars, cache, mutex, listing, todo, current, result,
                   failed, faults>>

(* Mutant: the early return does not unlock.                               *)
AbortUpdateKeepsMutex(c) ==
    /\ failed' = [failed EXCEPT ![current[c]] = @ \cup {listing[c][current[c]]}]
    /\ current' = [current EXCEPT ![c] = NoCluster]
    /\ body' = [body EXCEPT ![c] = None]
    /\ listing' = [listing EXCEPT ![c] = Nothing]
    /\ todo' = [todo EXCEPT ![c] = {}]
    /\ result' = [result EXCEPT ![c] = Nothing]
    /\ Goto(c, "error")
    /\ UNCHANGED <<storeVars, cache, mutex>>

(* An early return: the deferred Unlock runs, the partial result is lost,  *)
(* the cache keeps the attributes that BeginUpdate recorded.               *)
AbortUpdate(c) ==
    /\ failed' = [failed EXCEPT ![current[c]] = @ \cup {listing[c][current[c]]}]
    /\ mutex' = NoCaller
    /\ current' = [current EXCEPT ![c] = NoCluster]
    /\ body' = [body EXCEPT ![c] = None]
    /\ listing' = [listing EXCEPT ![c] = Nothing]
    /\ todo' = [todo EXCEPT ![c] = {}]
    /\ result' = [result EXCEPT ![c] = Nothing]
    /\ Goto(c, "error")
    /\ UNCHANGED <<storeVars, cache>>

(* The object is gone since it was listed, or the transfer breaks, or the  *)
(* client hung up and the request context is cancelled.                    *)
DownloadFails(c) ==
    /\ pc[c] = "download"
    /\ AbortUpdate(c)
    /\ \/ stored[current[c]] = None /\ UNCHANGED faults
       \/ Fault

DecodeFails(c) ==
    /\ pc[c] = "decode"
    /\ body[c] \in malformed
    /\ AbortUpdate(c)
    /\ UNCHANGED faults

(* Mutant: the report reaches this answer, but not the cache.              *)
DecodeDoesNotCache(c) ==
    /\ pc[c] = "decode"
    /\ body[c] \notin malformed
    /\ result' = [result EXCEPT ![c][current[c]] = body[c]]
    /\ todo' = [todo EXCEPT ![c] = @ \ {current[c]}]
    /\ current' = [current EXCEPT ![c] = NoCluster]
    /\ body' = [body EXCEPT ![c] = None]
    /\ Goto(c, "loop")
    /\ UNCHANGED <<storeVars, cache, mutex, listing, failed, faults>>

Decode(c) ==
    /\ pc[c] = "decode"
    /\ body[c] \notin malformed
    /\ payload' = [payload EXCEPT ![current[c]] = body[c]]
    /\ result' = [result EXCEPT ![c][current[c]] = body[c]]
    /\ todo' = [todo EXCEPT ![c] = @ \ {current[c]}]
    /\ current' = [current EXCEPT ![c] = NoCluster]
    /\ body' = [body EXCEPT ![c] = None]
    /\ Goto(c, "loop")
    /\ UNCHANGED <<storeVars, info, mutex, listing, failed, faults>>

ReturnReports(c) ==
    /\ pc[c] = "loop"
    /\ todo[c] = {}
    /\ mutex' = NoCaller
    /\ Goto(c, "ok")
    /\ UNCHANGED <<storeVars, cache, listing, todo, current, body, result,
                   failed, faults>>

-----------------------------------------------------------------------------
(* The caller has used the answer and will call again.                     *)
CallAgain(c) ==
    /\ pc[c] \in {"ok", "error"}
    /\ Goto(c, "idle")
    /\ listing' = [listing EXCEPT ![c] = Nothing]
    /\ todo' = [todo EXCEPT ![c] = {}]
    /\ result' = [result EXCEPT ![c] = Nothing]
    /\ UNCHANGED <<storeVars, cache, mutex, current, body, failed, faults>>

(* The process ends and starts anew: the cache lives in memory only.       *)
Restart ==
    /\ Fault
    /\ info' = Nothing
    /\ payload' = Nothing
    /\ mutex' = NoCaller
    /\ pc' = [c \in Callers |-> "idle"]
    /\ listing' = [c \in Callers |-> Nothing]
    /\ todo' = [c \in Callers |-> {}]
    /\ current' = [c \in Callers |-> NoCluster]
    /\ body' = [c \in Callers |-> None]
    /\ result' = [c \in Callers |-> Nothing]
    /\ failed' = [n \in Clusters |-> {}]
    /\ UNCHANGED storeVars

UploadReport(n) == Upload(n) /\ UNCHANGED <<cache, mutex, local, failed, faults>>
DeleteReport(n) == Delete(n) /\ UNCHANGED <<cache, mutex, local, failed, faults>>

Call(c) == ListObjects(c) \/ ListFails(c)

Proceed(c) ==
    \/ \E n \in Clusters : UseCached(c, n) \/ BeginUpdate(c, n)
    \/ Download(c)
    \/ DownloadFails(c)
    \/ Decode(c)
    \/ DecodeFails(c)
    \/ ReturnReports(c)

Next ==
    \/ \E c \in Callers : Call(c) \/ Lock(c) \/ Proceed(c) \/ CallAgain(c)
    \/ \E n \in Clusters : UploadReport(n) \/ DeleteReport(n)
    \/ Restart

Spec == Init /\ [][Next]_vars

(* A goroutine that can run does run, every request to Swift is answered   *)
(* or times out, and Prometheus never stops scraping.  A sync.Mutex hands  *)
(* itself to its longest waiter after a millisecond (its starvation mode), *)
(* so a caller that finds it free again and again gets it: strong fairness.*)
Fairness ==
    /\ \A c \in Callers : WF_vars(Proceed(c)) /\ SF_vars(Lock(c))
    /\ \A c \in Scrapers : WF_vars(Call(c)) /\ WF_vars(CallAgain(c))

FairSpec == Spec /\ Fairness

-----------------------------------------------------------------------------
Labels == {"idle", "locking", "loop", "download", "decode", "ok", "error"}
Listed(c) == {n \in Clusters : listing[c][n] # None}

(* Every variable has its type; no call works on an object that it did not *)
(* list, nor remembers a version that was never uploaded.                  *)
TypeOK ==
    /\ StoreTypeOK
    /\ info \in [Clusters -> Versions \cup {None}]
    /\ payload \in [Clusters -> Versions \cup {None}]
    /\ mutex \in Callers \cup {NoCaller}
    /\ pc \in [Callers -> Labels]
    /\ listing \in [Callers -> [Clusters -> Versions \cup {None}]]
    /\ todo \in [Callers -> SUBSET Clusters]
    /\ \A c \in Callers : todo[c] \subseteq Listed(c)
    /\ \A c \in Callers : pc[c] \in {"download", "decode"} => current[c] \in todo[c]
    /\ current \in [Callers -> Clusters \cup {NoCluster}]
    /\ body \in [Callers -> Versions \cup {None}]
    /\ result \in [Callers -> [Clusters -> Versions \cup {None}]]
    /\ failed \in [Clusters -> SUBSET Versions]
    /\ faults \in 0 .. MaxFaults

(* A successful call reports every listed cluster with the report that it  *)
(* listed or a later one, in spite of the races between its listing, other *)
(* calls and uploads.  The one exception is a listed version whose fetch   *)
(* went wrong earlier in this process: downloader.go:57 had recorded its   *)
(* attributes by then.                                                     *)
AnswerFresh ==
    \A c \in Callers : pc[c] = "ok" =>
        \A n \in Listed(c) :
            result[c][n] >= listing[c][n] \/ listing[c][n] \in failed[n]

(* "GetReports returns all most recent doop-analyzer reports"              *)
(* (downloader.go:34): whatever a successful call listed is in its answer, *)
(* with the listed report or a later one.                                  *)
AnswerMostRecent ==
    \A c \in Callers : pc[c] = "ok" =>
        \A n \in Listed(c) : result[c][n] >= listing[c][n]

(* The cached report of a cluster is never replaced by an older one, though*)
(* callers hold listings and downloads of different age (the mutex spans   *)
(* the download, downloader.go:41-71).  Only a restart forgets it.         *)
PayloadNeverRegresses ==
    [][\/ \A n \in Clusters : payload'[n] >= payload[n]
       \/ Restart]_vars

(* A call that waits for the mutex gets its answer, an error included,     *)
(* unless the process ends: no path out of GetReports keeps the mutex, and *)
(* a slow caller does not starve the others.                               *)
CallReturns ==
    \A c \in Callers : pc[c] = "locking" ~> pc[c] \in {"ok", "error", "idle"}

(* When the analyzers and the faults have come to rest, the cache settles  *)
(* on what is stored, but for versions whose fetch went wrong.             *)
Converges ==
    <>[](\A n \in Clusters :
            \/ stored[n] = None
            \/ payload[n] = stored[n]
            \/ stored[n] \in failed[n])
-----------------------------------------------------------------------------
(* GetReports keeps the promise of ReportSource: the loop over the listing,*)
(* whatever it downloads on the way, looks to every caller like one look   *)
(* at all reports at the moment of the answer (the mutex is held from the  *)
(* first visit to the return, downloader.go:41-76), and an error has no    *)
(* effect but that the version at fault is given up.                       *)
Stage(label) == IF label \in {"idle", "ok", "error"} THEN label ELSE "asked"
Stages == [c \in Callers |-> Stage(pc[c])]
Answers == [c \in Callers |-> IF pc[c] = "ok" THEN result[c] ELSE Nothing]

Source == INSTANCE ReportSource WITH
    source <- payload, broken <- failed, asked <- listing,
    state <- Stages, answer <- Answers

ImplementsReportSource == Source!Spec

-----------------------------------------------------------------------------
(* The inductive invariant behind AnswerFresh and PayloadNeverRegresses.   *)

Holding(c) == pc[c] \in {"loop", "download", "decode"}
Fetching(c, n) == pc[c] \in {"download", "decode"} /\ current[c] = n
NotNewerThanStored(n, v) == stored[n] = None \/ stored[n] >= v

(* Exactly the caller inside the critical section holds the mutex.         *)
MutexInv == \A c \in Callers : Holding(c) <=> mutex = c

(* What anyone knows of an object is no newer than what is stored.         *)
StoredIsNewest ==
    \A n \in Clusters :
        /\ NotNewerThanStored(n, payload[n])
        /\ \A c \in Callers : NotNewerThanStored(n, listing[c][n])

(* The attributes of the object being fetched are recorded already, and    *)
(* its download is at least as new as the listing and as the cache.        *)
FetchInv ==
    \A c \in Callers : pc[c] \in {"download", "decode"} =>
        /\ info[current[c]] = listing[c][current[c]]
        /\ pc[c] = "decode" =>
              /\ NotNewerThanStored(current[c], body[c])
              /\ body[c] >= listing[c][current[c]]
              /\ body[c] >= payload[current[c]]

(* The recorded attributes belong to the cached report or an older one,    *)
(* unless their fetch went wrong or is going on.                           *)
CacheFresh ==
    \A n \in Clusters :
        \/ info[n] = None
        \/ payload[n] >= info[n]
        \/ info[n] \in failed[n]
        \/ \E c \in Callers : Fetching(c, n)

(* AnswerFresh for the part of the listing that the loop is through with.  *)
VisitedFresh ==
    \A c \in Callers :
        /\ pc[c] = "locking" => todo[c] = Listed(c)
        /\ pc[c] = "ok" => todo[c] = {}
        /\ Holding(c) \/ pc[c] = "ok" =>
              \A n \in Listed(c) \ todo[c] :
                  result[c][n] >= listing[c][n] \/ listing[c][n] \in failed[n]

(* What a call has collected is the cache's, and nothing else.             *)
CollectedFromCache ==
    \A c \in Callers : pc[c] \in {"idle", "locking"} \/ Holding(c) =>
        \A n \in Clusters :
            result[c][n] = IF Holding(c) /\ n \in Listed(c) \ todo[c]
                           THEN payload[n] ELSE None

(* Whatever GetReports may meet, in any interleaving of its callers: the   *)
(* parts above hold together.                                              *)
IInv ==
    /\ TypeOK
    /\ MutexInv
    /\ StoredIsNewest
    /\ FetchInv
    /\ CacheFresh
    /\ VisitedFresh
    /\ CollectedFromCache

=============================================================================
