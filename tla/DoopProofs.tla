----------------------------- MODULE DoopProofs -----------------------------
(***************************************************************************)
(* No reader of doop-api is told an older state of a template than one     *)
(* before: for any callers, templates, events and faults.                  *)
(***************************************************************************)
EXTENDS Doop, TLAPS

LEMMA EmptyIsState == Publisher!Empty \in State
  BY DoopAssumption DEF State, Publisher!Empty, Publisher!None

LEMMA InitIInv == Init => IInv
<1> SUFFICES ASSUME Init PROVE IInv
  OBVIOUS
<1> USE DEF Init, Api!Init, Publisher!Init, Api!StoreInit, Publisher!GatekeeperInit,
            Publisher!Empty, Publisher!None, Api!Nothing, Api!None, None
<1>1. \A t \in Templates : Contents(None)[t] = None
  BY DEF Contents
<1>2. Contents(None) \in State
  BY DoopAssumption DEF Contents, State
<1>3. Published = Contents(None) /\ Cached = Contents(None)
      /\ \A c \in Callers : Fetched(c) = Contents(None)
  BY DEF Published, Cached, Fetched, Clusters
<1>4. TypeOK
  <2>1. events \in 1 .. MaxEvents /\ audit \in [Templates -> 1 .. events]
    BY DoopAssumption
  <2>2. since \in State /\ shown \in State
    BY EmptyIsState
  <2>3. QED
    BY <1>2, <1>3, <2>1, <2>2 DEF TypeOK, Api!Labels, Clusters
<1>5. Api!MutexInv
  BY DoopAssumption DEF Api!MutexInv, Api!Holding
<1>6. KnownBeforeRound
  BY <1>1, <1>3 DEF KnownBeforeRound, Horizon
<1>7. InOrder
  BY <1>1, <1>3 DEF InOrder, Precedes
<1>8. CollectedFromCache
  BY DEF CollectedFromCache, Api!Holding, Clusters
<1>9. QED
  BY <1>4, <1>5, <1>6, <1>7, <1>8 DEF IInv

-----------------------------------------------------------------------------
(* The cluster and its analyzer.                                           *)

(* What they leave alone.                                                  *)
LEMMA ReadersAtRest ==
    ASSUME IInv, UNCHANGED <<apiVars, shown>>
    PROVE  /\ Api!MutexInv' /\ CollectedFromCache'
           /\ Cached' = Cached /\ \A c \in Callers : Fetched(c)' = Fetched(c)
<1>1. Api!MutexInv'
  BY DEF IInv, apiVars, Api!MutexInv, Api!Holding
<1>2. CollectedFromCache'
  BY DEF IInv, apiVars, CollectedFromCache, Api!Holding
<1>3. QED
  BY <1>1, <1>2 DEF apiVars, Cached, Fetched

LEMMA ClusterTyping ==
    ASSUME IInv, UNCHANGED <<apiVars, shown>>,
           events' \in 1 .. MaxEvents, audit' \in [Templates -> 1 .. events'],
           busy' \in BOOLEAN, since' \in State, DOMAIN stored' = Clusters, Published' \in State
    PROVE  TypeOK'
<1>1. UNCHANGED <<payload, body, result, pc, current, shown>>
  BY DEF apiVars
<1>2. TypeOK
  BY DEF IInv
<1>3. QED
  BY <1>1, <1>2, ReadersAtRest DEF TypeOK

LEMMA GatekeeperKeepsIInv ==
    ASSUME IInv, GatekeeperActs
    PROVE  IInv'
<1> USE DEF IInv, GatekeeperActs, swiftVars
<1>1. Published' = Published
  BY DEF Published
<1>2. \A t \in Templates : audit'[t] >= audit[t]
  BY DEF Publisher!Gatekeeps, Publisher!Audit, Publisher!ChangeTemplate,
         Publisher!CreateCRD, Publisher!Event, TypeOK
<1>3. events' \in 1 .. MaxEvents /\ audit' \in [Templates -> 1 .. events']
  BY DoopAssumption
     DEF Publisher!Gatekeeps, Publisher!Audit, Publisher!ChangeTemplate,
         Publisher!CreateCRD, Publisher!Event, TypeOK
<1>4. TypeOK'
  BY <1>1, <1>3, ReadersAtRest DEF TypeOK, apiVars
<1>5. KnownBeforeRound'
  BY <1>1, <1>2, <1>4, ReadersAtRest DEF KnownBeforeRound, Horizon, TypeOK, State
<1>6. InOrder'
  BY <1>1, ReadersAtRest DEF InOrder, Precedes, apiVars
<1>7. QED
  BY <1>4, <1>5, <1>6, ReadersAtRest

LEMMA RoundKeepsIInv ==
    ASSUME IInv, BeginRound \/ AbandonRound
    PROVE  IInv'
<1> USE DEF IInv, BeginRound, AbandonRound, swiftVars, Publisher!Begin, Publisher!Abandon,
            Publisher!End, Publisher!kubernetes, Publisher!Empty, Publisher!None
<1>1. Published' = Published /\ UNCHANGED <<apiVars, shown, audit, events>>
  BY DEF Published
<1>2. \A t \in Templates : Horizon(t)' >= Horizon(t) /\ Horizon(t)' <= audit[t]
  BY <1>1, DoopAssumption DEF Horizon, KnownBeforeRound, TypeOK, State
<1>3. TypeOK'
  <2>1. since' \in State
    <3>1. CASE BeginRound
      BY <3>1, DoopAssumption DEF TypeOK, State
    <3>2. CASE AbandonRound
      BY <3>2, EmptyIsState
    <3>3. QED
      BY <3>1, <3>2
  <2>2. QED
    BY <1>1, <2>1, ClusterTyping DEF TypeOK
<1>4. KnownBeforeRound'
  <2> SUFFICES ASSUME NEW t \in Templates
               PROVE  /\ Horizon(t)' <= audit[t]
                      /\ Published[t] <= Horizon(t)' /\ Cached[t] <= Horizon(t)'
                      /\ shown[t] <= Horizon(t)'
                      /\ \A c \in Callers : Fetched(c)[t] <= Horizon(t)'
    BY <1>1, ReadersAtRest DEF KnownBeforeRound
  <2>1. Horizon(t) \in Nat /\ Horizon(t)' \in Nat /\ audit[t] \in Nat
    BY <1>1, <1>3 DEF Horizon, TypeOK, State
  <2>2. /\ Published[t] \in Nat /\ Cached[t] \in Nat /\ shown[t] \in Nat
        /\ \A c \in Callers : Fetched(c)[t] \in Nat
    BY DEF TypeOK, State
  <2>3. QED
    BY <1>2, <2>1, <2>2 DEF KnownBeforeRound
<1>5. InOrder'
  BY <1>1, ReadersAtRest DEF InOrder, Precedes, apiVars
<1>6. QED
  BY <1>1, <1>3, <1>4, <1>5, ReadersAtRest

(* A report tells of every template that is in it what was the case since  *)
(* the round began, and so nothing older than anything known before.       *)
LEMMA UploadKeepsIInv ==
    ASSUME IInv, UploadReport
    PROVE  IInv'
<1> USE DEF IInv, UploadReport, Publisher!Publish, Publisher!End, Publisher!kubernetes,
            Publisher!Empty, Publisher!None, None
<1>1. Published' \in State /\ DOMAIN stored' = Clusters
  BY DEF Published, State, Replace, TypeOK
<1>2. TypeOK'
  BY <1>1, EmptyIsState, ClusterTyping DEF TypeOK
<1>3. \A t \in Templates :
         /\ Published'[t] <= audit[t]
         /\ Published'[t] # None => Published'[t] >= Horizon(t)
  <2> SUFFICES ASSUME NEW t \in Templates
               PROVE  /\ Published'[t] <= audit[t]
                      /\ Published'[t] # None => Published'[t] >= Horizon(t)
    OBVIOUS
  <2>1. IF t \in created THEN Published'[t] \in since[t] .. audit'[t] ELSE Published'[t] = None
    BY DEF Publisher!Whole, Published
  <2>2. since[t] \in Nat /\ audit[t] \in Nat
    BY DEF TypeOK, State
  <2>3. QED
    BY <2>1, <2>2 DEF Horizon
<1>4. KnownBeforeRound'
  <2> SUFFICES ASSUME NEW t \in Templates
               PROVE  /\ Published'[t] <= audit[t] /\ Cached[t] <= audit[t]
                      /\ shown[t] <= audit[t]
                      /\ \A c \in Callers : Fetched(c)[t] <= audit[t]
    BY ReadersAtRest, <1>2 DEF KnownBeforeRound, Horizon, TypeOK
  <2>1. Horizon(t) \in Nat /\ audit[t] \in Nat
    BY DEF Horizon, TypeOK, State
  <2>2. /\ Cached[t] \in Nat /\ shown[t] \in Nat
        /\ \A c \in Callers : Fetched(c)[t] \in Nat
    BY DEF TypeOK, State
  <2>3. QED
    BY <1>3, <2>1, <2>2 DEF KnownBeforeRound
<1>5. \A t \in Templates : Published'[t] # None =>
         /\ Cached[t] <= Published'[t] /\ shown[t] <= Published'[t]
         /\ \A c \in Callers : Fetched(c)[t] <= Published'[t]
  <2> SUFFICES ASSUME NEW t \in Templates, Published'[t] # None
               PROVE  /\ Cached[t] <= Published'[t] /\ shown[t] <= Published'[t]
                      /\ \A c \in Callers : Fetched(c)[t] <= Published'[t]
    OBVIOUS
  <2>1. Horizon(t) \in Nat /\ Published'[t] \in Nat
    BY <1>1 DEF Horizon, TypeOK, State
  <2>2. /\ Cached[t] \in Nat /\ shown[t] \in Nat
        /\ \A c \in Callers : Fetched(c)[t] \in Nat
    BY DEF TypeOK, State
  <2>3. QED
    BY <1>3, <2>1, <2>2 DEF KnownBeforeRound
<1>6. InOrder'
  BY <1>5, ReadersAtRest DEF InOrder, Precedes, apiVars
<1>7. QED
  BY <1>2, <1>4, <1>6, ReadersAtRest

-----------------------------------------------------------------------------
(* doop-api.                                                               *)

(* What its steps leave alone.                                             *)
LEMMA ClusterAtRest ==
    ASSUME UNCHANGED <<clusterVars, swiftVars>>
    PROVE  /\ UNCHANGED <<audit, events, busy, since, stored>>
           /\ Published' = Published
           /\ \A t \in Templates : Horizon(t)' = Horizon(t)
  BY DEF clusterVars, swiftVars, Published, Horizon

(* A step that touches neither the cache nor a download.                   *)
LEMMA CacheAtRest ==
    ASSUME IInv, UNCHANGED <<clusterVars, swiftVars, payload, body>>, shown' = shown,
           \A c \in Callers : pc'[c] = "decode" => pc[c] = "decode"
    PROVE  KnownBeforeRound' /\ InOrder'
<1>1. Cached' = Cached /\ \A c \in Callers : Fetched(c)' = Fetched(c)
  BY DEF Cached, Fetched
<1>2. KnownBeforeRound'
  BY <1>1, ClusterAtRest DEF IInv, KnownBeforeRound
<1>3. InOrder'
  BY <1>1, ClusterAtRest DEF IInv, InOrder, Precedes
<1>4. QED
  BY <1>2, <1>3

LEMMA CallKeepsIInv ==
    ASSUME IInv, NEW c \in Callers, Calls(c) \/ Locks(c) \/ CallsAgain(c)
    PROVE  IInv'
<1> USE DEF Calls, Locks, CallsAgain, Api!Call, Api!ListObjects, Api!ListFails, Api!Lock,
            Api!CallAgain, Api!Goto, Api!storeVars, Api!cache
<1>1. /\ UNCHANGED <<clusterVars, swiftVars, payload, body, current>> /\ shown' = shown
      /\ pc' \in [Callers -> Api!Labels]
      /\ \A d \in Callers : pc'[d] \in {"download", "decode"} => pc'[d] = pc[d]
  BY DEF IInv, TypeOK, Api!Labels, swiftVars
<1>2. DOMAIN result' = Callers /\ \A d \in Callers : DOMAIN result'[d] = Clusters
  BY DEF IInv, TypeOK, Api!Nothing
<1>3. TypeOK'
  BY <1>1, <1>2, ClusterAtRest DEF IInv, TypeOK, Cached, Fetched
<1>4. Api!MutexInv'
  BY DoopAssumption DEF IInv, TypeOK, Api!MutexInv, Api!Holding
<1>5. CollectedFromCache'
  BY DEF IInv, TypeOK, CollectedFromCache, Api!Holding, Api!Nothing, Api!None, None, Clusters
<1>6. QED
  BY <1>1, <1>3, <1>4, <1>5, CacheAtRest DEF IInv

LEMMA RestartKeepsIInv ==
    ASSUME IInv, Restarts
    PROVE  IInv'
<1> USE DEF Restarts, Api!Restart, Api!storeVars, Api!Nothing, Api!None, None
<1>1. UNCHANGED <<clusterVars, swiftVars>> /\ shown' = shown
  BY DEF swiftVars
<1>2. Contents(None) \in State /\ \A t \in Templates : Contents(None)[t] = None
  BY DoopAssumption DEF Contents, State
<1>3. Cached' = Contents(None) /\ \A c \in Callers : Fetched(c)' = Contents(None)
  BY DEF Cached, Fetched, Clusters
<1>4. TypeOK'
  <2>1. pc' \in [Callers -> Api!Labels] /\ current' \in [Callers -> Clusters \cup {NoCluster}]
        /\ \A c \in Callers : pc'[c] \notin {"download", "decode"}
    BY DEF Api!Labels
  <2>2. DOMAIN payload' = Clusters /\ DOMAIN body' = Callers
        /\ DOMAIN result' = Callers /\ \A c \in Callers : DOMAIN result'[c] = Clusters
    OBVIOUS
  <2>3. QED
    BY <1>1, <1>2, <1>3, <2>1, <2>2, ClusterAtRest DEF IInv, TypeOK
<1>5. Api!MutexInv'
  BY DoopAssumption DEF Api!MutexInv, Api!Holding
<1>6. KnownBeforeRound'
  <2>1. \A t \in Templates : Horizon(t) \in Nat
    BY DEF IInv, TypeOK, State, Horizon
  <2>2. QED
    BY <1>1, <1>2, <1>3, <2>1, ClusterAtRest DEF IInv, KnownBeforeRound
<1>7. InOrder'
  <2>1. \A t \in Templates : Published[t] \in Nat
    BY DEF IInv, TypeOK, State
  <2>2. QED
    BY <1>1, <1>2, <1>3, <2>1, ClusterAtRest DEF IInv, InOrder, Precedes
<1>8. CollectedFromCache'
  BY DEF CollectedFromCache, Api!Holding, Clusters
<1>9. QED
  BY <1>4, <1>5, <1>6, <1>7, <1>8 DEF IInv

(* Within the critical section: only the holder of the mutex is there.     *)
LEMMA HolderAlone ==
    ASSUME IInv, NEW c \in Callers, Api!Holding(c), NEW d \in Callers, Api!Holding(d)
    PROVE  d = c
  BY DEF IInv, Api!MutexInv

LEMMA OnlyReturnShows ==
    ASSUME IInv, NEW c \in Callers, Api!Proceed(c), ~Api!ReturnReports(c), Show(c)
    PROVE  shown' = shown
<1>1. pc'[c] # "ok"
  BY DEF IInv, TypeOK, Api!Proceed, Api!UseCached, Api!BeginUpdate, Api!Download,
         Api!DownloadFails, Api!DecodeFails, Api!AbortUpdate, Api!Decode, Api!Goto
<1>2. QED
  BY <1>1 DEF IInv, TypeOK, State, Show

(* The steps of the loop other than the decoding and the return.           *)
LEMMA VisitKeepsIInv ==
    ASSUME IInv, NEW c \in Callers, NEW n \in Clusters, Api!UseCached(c, n) \/ Api!BeginUpdate(c, n),
           UNCHANGED clusterVars, shown' = shown
    PROVE  IInv'
<1> USE DEF Api!UseCached, Api!BeginUpdate, Api!Goto, Api!storeVars, Api!cache, Clusters
<1>1. /\ UNCHANGED <<clusterVars, swiftVars, payload, body>>
      /\ pc' \in [Callers -> Api!Labels]
      /\ current' \in [Callers -> Clusters \cup {NoCluster}]
      /\ \A d \in Callers : pc'[d] \in {"download", "decode"} =>
             \/ pc'[d] = pc[d] /\ current'[d] = current[d]
             \/ pc'[d] = "download" /\ current'[d] = n
  BY DEF IInv, TypeOK, Api!Labels, swiftVars
<1>2. DOMAIN result' = Callers /\ \A d \in Callers : DOMAIN result'[d] = Clusters
  BY DEF IInv, TypeOK
<1>3. TypeOK'
  BY <1>1, <1>2, ClusterAtRest DEF IInv, TypeOK, Cached, Fetched
<1>4. Api!MutexInv'
  BY DEF IInv, TypeOK, Api!MutexInv, Api!Holding
<1>5. CollectedFromCache'
  BY DEF IInv, TypeOK, CollectedFromCache, Api!Holding
<1>6. QED
  BY <1>1, <1>3, <1>4, <1>5, CacheAtRest DEF IInv

(* What is downloaded is what is stored.                                   *)
LEMMA DownloadKeepsIInv ==
    ASSUME IInv, NEW c \in Callers, Api!Download(c), UNCHANGED clusterVars, shown' = shown
    PROVE  IInv'
<1> USE DEF Api!Download, Api!Goto, Api!storeVars, Api!cache
<1>1. UNCHANGED <<clusterVars, swiftVars, payload, result, current, mutex>>
  BY DEF swiftVars
<1>2. Cached' = Cached /\ Fetched(c)' = Published
  BY <1>1 DEF IInv, TypeOK, Cached, Fetched, Published
<1>3. \A d \in Callers \ {c} : Fetched(d)' = Fetched(d) /\ pc'[d] = pc[d]
  BY DEF IInv, TypeOK, Fetched
<1>4. pc' = [pc EXCEPT ![c] = "decode"] /\ pc[c] = "download"
  OBVIOUS
<1>5. TypeOK'
  <2>1. DOMAIN body' = Callers /\ pc' \in [Callers -> Api!Labels]
    BY DEF IInv, TypeOK, Api!Labels
  <2>2. \A d \in Callers : pc'[d] \in {"download", "decode"} => current'[d] = Cluster
    BY <1>1, <1>4 DEF IInv, TypeOK
  <2>3. \A d \in Callers : Fetched(d)' \in State
    BY <1>2, <1>3 DEF IInv, TypeOK
  <2>4. QED
    BY <1>1, <1>2, <2>1, <2>2, <2>3, ClusterAtRest DEF IInv, TypeOK
<1>6. Api!MutexInv'
  BY <1>1, <1>4 DEF IInv, TypeOK, Api!MutexInv, Api!Holding
<1>7. KnownBeforeRound'
  BY <1>1, <1>2, <1>3, ClusterAtRest DEF IInv, KnownBeforeRound
<1>8. InOrder'
  <2>1. Precedes(Published, Published)
    BY DEF IInv, TypeOK, State, Precedes
  <2>2. /\ Precedes(shown, Fetched(c)') /\ Precedes(Cached, Fetched(c)')
        /\ Precedes(Fetched(c)', Published)
    BY <1>2, <2>1 DEF IInv, InOrder
  <2>3. \A d \in Callers \ {c} : pc'[d] = "decode" =>
          /\ Precedes(shown, Fetched(d)') /\ Precedes(Cached, Fetched(d)')
          /\ Precedes(Fetched(d)', Published)
    BY <1>3 DEF IInv, InOrder
  <2>4. QED
    BY <1>1, <1>2, <2>2, <2>3, ClusterAtRest DEF IInv, InOrder, Precedes
<1>9. CollectedFromCache'
  BY <1>1, <1>4 DEF IInv, TypeOK, CollectedFromCache, Api!Holding
<1>10. QED
  BY <1>5, <1>6, <1>7, <1>8, <1>9 DEF IInv

(* The decoded report is newer than the cached one, and than any told.     *)
LEMMA DecodeKeepsIInv ==
    ASSUME IInv, NEW c \in Callers, Api!Decode(c), UNCHANGED clusterVars, shown' = shown
    PROVE  IInv'
<1> USE DEF Api!Decode, Api!Goto, Api!storeVars
<1>1. UNCHANGED <<clusterVars, swiftVars, mutex>> /\ current[c] = Cluster
  BY DEF IInv, TypeOK, swiftVars
<1>2. Cached' = Fetched(c) /\ Fetched(c)' = Contents(None)
  BY <1>1 DEF IInv, TypeOK, Cached, Fetched, Clusters, None, Api!None
<1>3. \A d \in Callers \ {c} : Fetched(d)' = Fetched(d) /\ pc'[d] = pc[d]
  BY DEF IInv, TypeOK, Fetched
<1>4. pc' = [pc EXCEPT ![c] = "loop"] /\ pc[c] = "decode"
  OBVIOUS
<1>5. Contents(None) \in State /\ \A t \in Templates : Contents(None)[t] = None
  BY DoopAssumption DEF Contents, State, None
<1>6. \A d \in Callers : pc'[d] # "decode" /\ (Api!Holding(d)' <=> Api!Holding(d))
  BY <1>3, <1>4, HolderAlone DEF IInv, TypeOK, Api!Holding
<1>7. TypeOK'
  <2>1. /\ DOMAIN body' = Callers /\ pc' \in [Callers -> Api!Labels]
        /\ current' \in [Callers -> Clusters \cup {NoCluster}] /\ DOMAIN payload' = Clusters
    BY DEF IInv, TypeOK, Api!Labels
  <2>2. \A d \in Callers : pc'[d] \in {"download", "decode"} => current'[d] = Cluster
    BY <1>4 DEF IInv, TypeOK
  <2>3. DOMAIN result' = Callers /\ \A d \in Callers : DOMAIN result'[d] = Clusters
    BY DEF IInv, TypeOK
  <2>4. \A d \in Callers : Fetched(d)' \in State
    BY <1>2, <1>3, <1>5 DEF IInv, TypeOK
  <2>5. Cached' \in State
    BY <1>2 DEF IInv, TypeOK
  <2>6. QED
    BY <1>1, <2>1, <2>2, <2>3, <2>4, <2>5, ClusterAtRest DEF IInv, TypeOK
<1>8. Api!MutexInv'
  BY <1>1, <1>6 DEF IInv, Api!MutexInv
<1>9. KnownBeforeRound'
  <2>1. \A t \in Templates : Horizon(t) \in Nat
    BY DEF IInv, TypeOK, State, Horizon
  <2>2. QED
    BY <1>1, <1>2, <1>3, <1>5, <2>1, ClusterAtRest DEF IInv, KnownBeforeRound, None
<1>10. InOrder'
  BY <1>1, <1>2, <1>4, <1>6, ClusterAtRest DEF IInv, InOrder, Precedes
<1>11. CollectedFromCache'
  <2>1. result'[c][Cluster] = payload'[Cluster]
    BY <1>1 DEF IInv, TypeOK, Clusters
  <2>2. \A d \in Callers \ {c} : ~Api!Holding(d) /\ result'[d] = result[d]
    BY <1>4, HolderAlone DEF IInv, TypeOK, Api!Holding
  <2>3. QED
    BY <1>3, <1>4, <1>6, <2>1, <2>2 DEF IInv, TypeOK, CollectedFromCache
<1>12. QED
  BY <1>7, <1>8, <1>9, <1>10, <1>11 DEF IInv

LEMMA AbortKeepsIInv ==
    ASSUME IInv, NEW c \in Callers, Api!DownloadFails(c) \/ Api!DecodeFails(c),
           UNCHANGED clusterVars, shown' = shown
    PROVE  IInv'
<1> USE DEF Api!DownloadFails, Api!DecodeFails, Api!AbortUpdate, Api!Goto, Api!storeVars, Api!cache
<1>1. UNCHANGED <<clusterVars, swiftVars, payload>> /\ mutex' = NoCaller
  BY DEF swiftVars
<1>2. Cached' = Cached /\ Fetched(c)' = Contents(None)
  BY <1>1 DEF IInv, TypeOK, Cached, Fetched, None, Api!None
<1>3. \A d \in Callers \ {c} : Fetched(d)' = Fetched(d) /\ pc'[d] = pc[d]
  BY DEF IInv, TypeOK, Fetched
<1>4. pc' = [pc EXCEPT ![c] = "error"] /\ Api!Holding(c)
  BY DEF Api!Holding
<1>5. Contents(None) \in State /\ \A t \in Templates : Contents(None)[t] = None
  BY DoopAssumption DEF Contents, State, None
<1>6. \A d \in Callers : ~Api!Holding(d)' /\ pc'[d] # "decode"
  BY <1>3, <1>4, HolderAlone DEF IInv, TypeOK, Api!Holding
<1>7. TypeOK'
  <2>1. /\ DOMAIN body' = Callers /\ pc' \in [Callers -> Api!Labels]
        /\ current' \in [Callers -> Clusters \cup {NoCluster}]
    BY DEF IInv, TypeOK, Api!Labels
  <2>2. \A d \in Callers : pc'[d] \notin {"download", "decode"}
    BY <1>6 DEF Api!Holding
  <2>3. DOMAIN result' = Callers /\ \A d \in Callers : DOMAIN result'[d] = Clusters
    BY DEF IInv, TypeOK, Api!Nothing
  <2>4. \A d \in Callers : Fetched(d)' \in State
    BY <1>2, <1>3, <1>5 DEF IInv, TypeOK
  <2>5. QED
    BY <1>1, <1>2, <2>1, <2>2, <2>3, <2>4, ClusterAtRest DEF IInv, TypeOK
<1>8. Api!MutexInv'
  BY <1>1, <1>6, DoopAssumption DEF Api!MutexInv
<1>9. KnownBeforeRound'
  <2>1. \A t \in Templates : Horizon(t) \in Nat
    BY DEF IInv, TypeOK, State, Horizon
  <2>2. QED
    BY <1>1, <1>2, <1>3, <1>5, <2>1, ClusterAtRest DEF IInv, KnownBeforeRound, None
<1>10. InOrder'
  BY <1>1, <1>2, <1>6, ClusterAtRest DEF IInv, InOrder, Precedes
<1>11. CollectedFromCache'
  BY <1>1, <1>3, <1>4, <1>6 DEF IInv, TypeOK, CollectedFromCache
<1>12. QED
  BY <1>7, <1>8, <1>9, <1>10, <1>11 DEF IInv

(* What is told is what the cache has, or nothing.                         *)
LEMMA ToldIsCached ==
    ASSUME IInv, NEW c \in Callers, Api!ReturnReports(c), Show(c)
    PROVE  /\ Told(c) \in State
           /\ \A t \in Templates : shown'[t] = IF Told(c)[t] # None THEN Told(c)[t] ELSE shown[t]
           /\ \A t \in Templates : Told(c)[t] \in {Cached[t], None}
<1>1. pc'[c] = "ok" /\ Api!Holding(c)
  BY DEF Api!ReturnReports, Api!Goto, Api!Holding, IInv, TypeOK
<1>2. Told(c) = Cached \/ Told(c) = Contents(None)
  BY <1>1 DEF IInv, CollectedFromCache, Told, Cached
<1>3. Contents(None) \in State /\ \A t \in Templates : Contents(None)[t] = None
  BY DoopAssumption DEF Contents, State, None
<1>4. QED
  BY <1>1, <1>2, <1>3 DEF IInv, TypeOK, State, Show

LEMMA ReturnKeepsIInv ==
    ASSUME IInv, NEW c \in Callers, Api!ReturnReports(c), UNCHANGED clusterVars, Show(c)
    PROVE  IInv'
<1> USE DEF Api!ReturnReports, Api!Goto, Api!storeVars, Api!cache
<1>1. UNCHANGED <<clusterVars, swiftVars, payload, body, current, result>> /\ mutex' = NoCaller
  BY DEF swiftVars
<1>2. Cached' = Cached /\ \A d \in Callers : Fetched(d)' = Fetched(d)
  BY <1>1 DEF Cached, Fetched
<1>3. pc' = [pc EXCEPT ![c] = "ok"] /\ Api!Holding(c)
  BY DEF Api!Holding
<1>4. \A d \in Callers : ~Api!Holding(d)' /\ pc'[d] # "decode"
  BY <1>3, HolderAlone DEF IInv, TypeOK, Api!Holding
<1>5. shown' \in State
  BY ToldIsCached DEF IInv, TypeOK, State, Show
<1>6. TypeOK'
  <2>1. pc' \in [Callers -> Api!Labels]
    BY DEF IInv, TypeOK, Api!Labels
  <2>2. QED
    BY <1>1, <1>2, <1>4, <1>5, <2>1, ClusterAtRest DEF IInv, TypeOK, Api!Holding
<1>7. Api!MutexInv'
  BY <1>1, <1>4, DoopAssumption DEF Api!MutexInv
<1>8. KnownBeforeRound'
  <2>1. \A t \in Templates : shown'[t] \in {Cached[t], shown[t]}
    BY ToldIsCached
  <2>2. \A t \in Templates : shown'[t] <= Horizon(t)
    BY <2>1 DEF IInv, KnownBeforeRound
  <2>3. QED
    BY <1>1, <1>2, <2>2, ClusterAtRest DEF IInv, KnownBeforeRound
<1>9. InOrder'
  <2>1. \A t \in Templates : shown'[t] \in {Cached[t], shown[t]}
    BY ToldIsCached
  <2>2. \A t \in Templates : Cached[t] \in Nat /\ shown[t] \in Nat /\ Published[t] \in Nat
    BY DEF IInv, TypeOK, State
  <2>3. Precedes(shown', Cached) /\ Precedes(shown', Published)
    BY <2>1, <2>2 DEF IInv, InOrder, Precedes
  <2>4. QED
    BY <1>1, <1>2, <1>4, <2>3, ClusterAtRest DEF IInv, InOrder, Precedes
<1>10. CollectedFromCache'
  BY <1>1, <1>3, <1>4 DEF IInv, TypeOK, CollectedFromCache
<1>11. QED
  BY <1>6, <1>7, <1>8, <1>9, <1>10 DEF IInv

LEMMA ProceedKeepsIInv ==
    ASSUME IInv, NEW c \in Callers, Proceeds(c)
    PROVE  IInv'
<1>1. Api!Proceed(c) /\ Show(c) /\ UNCHANGED clusterVars
  BY DEF Proceeds
<1>2. CASE Api!ReturnReports(c)
  BY <1>1, <1>2, ReturnKeepsIInv
<1>3. CASE ~Api!ReturnReports(c)
  <2>1. shown' = shown
    BY <1>1, <1>3, OnlyReturnShows
  <2>2. CASE \E n \in Clusters : Api!UseCached(c, n) \/ Api!BeginUpdate(c, n)
    BY <1>1, <2>1, <2>2, VisitKeepsIInv
  <2>3. CASE Api!Download(c)
    BY <1>1, <2>1, <2>3, DownloadKeepsIInv
  <2>4. CASE Api!Decode(c)
    BY <1>1, <2>1, <2>4, DecodeKeepsIInv
  <2>5. CASE Api!DownloadFails(c) \/ Api!DecodeFails(c)
    BY <1>1, <2>1, <2>5, AbortKeepsIInv
  <2>6. QED
    BY <1>1, <1>3, <2>2, <2>3, <2>4, <2>5 DEF Api!Proceed
<1>4. QED
  BY <1>2, <1>3

-----------------------------------------------------------------------------
LEMMA NextIInv == IInv /\ [Next]_vars => IInv'
<1> SUFFICES ASSUME IInv, [Next]_vars PROVE IInv'
  OBVIOUS
<1>1. CASE GatekeeperActs \/ BeginRound \/ UploadReport \/ AbandonRound \/ Restarts
  BY <1>1, GatekeeperKeepsIInv, RoundKeepsIInv, UploadKeepsIInv, RestartKeepsIInv
<1>2. ASSUME NEW c \in Callers, Calls(c) \/ Locks(c) \/ Proceeds(c) \/ CallsAgain(c)
      PROVE  IInv'
  BY <1>2, CallKeepsIInv, ProceedKeepsIInv
<1>3. CASE UNCHANGED vars
  <2>1. UNCHANGED <<clusterVars, swiftVars, apiVars>> /\ shown' = shown
    BY <1>3 DEF vars
  <2>2. Published' = Published
    BY <2>1, ClusterAtRest
  <2>3. UNCHANGED <<apiVars, shown, events, audit, busy, since, stored>>
    BY <2>1, ClusterAtRest
  <2>4. TypeOK'
    BY <2>2, <2>3, ClusterTyping DEF IInv, TypeOK
  <2>5. KnownBeforeRound' /\ InOrder'
    BY <2>1, CacheAtRest DEF apiVars
  <2>6. QED
    BY <2>3, <2>4, <2>5, ReadersAtRest DEF IInv
<1>4. QED
  BY <1>1, <1>2, <1>3 DEF Next

(* For any callers, templates, events and faults.                          *)
THEOREM Invariant == Spec => []IInv
  BY InitIInv, NextIInv, PTL DEF Spec

LEMMA NothingOlderIsTold ==
    IInv /\ [Next]_vars => [\A t \in Templates : shown'[t] >= shown[t]]_shown
<1> SUFFICES ASSUME IInv, Next, shown' # shown
             PROVE  \A t \in Templates : shown'[t] >= shown[t]
  BY DEF vars
<1>1. PICK c \in Callers : Proceeds(c)
  BY DEF Next, GatekeeperActs, BeginRound, UploadReport, AbandonRound, Restarts, Calls, Locks,
         CallsAgain
<1>2. Api!Proceed(c) /\ Show(c)
  BY <1>1 DEF Proceeds
<1>3. Api!ReturnReports(c)
  BY <1>2, OnlyReturnShows
<1>4. \A t \in Templates : Cached[t] # None => shown[t] <= Cached[t]
  BY DEF IInv, InOrder, Precedes
<1>5. \A t \in Templates : shown[t] \in Nat /\ Cached[t] \in Nat
  BY DEF IInv, TypeOK, State
<1>6. QED
  BY <1>2, <1>3, <1>4, <1>5, ToldIsCached

(* However uploads, failures and restarts of both programs interleave, no  *)
(* answer takes back what an earlier one told, whoever was told.           *)
THEOREM NoAnswerTakesBack == Spec => AnswersAdvance
<1>1. Spec => []IInv
  BY Invariant
<1>2. QED
  BY <1>1, NothingOlderIsTold, PTL DEF Spec, AnswersAdvance
=============================================================================
