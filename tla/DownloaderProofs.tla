------------------------- MODULE DownloaderProofs --------------------------
(***************************************************************************)
(* What the report cache of doop-api guarantees for any set of clusters,   *)
(* any number of callers and any bounds.  Typing comes first, then each    *)
(* part of IInv is shown to be preserved, then the theorems follow.        *)
(***************************************************************************)
EXTENDS Downloader, TLAPS

USE CallersAssumption, UploadsAssumption

(* The cache starts empty and typed.                                       *)
LEMMA InitTyping == Init => TypeOK
  BY DEF Init, TypeOK, StoreInit, StoreTypeOK, Versions, None, Nothing,
         Labels

(* A function stays typed when its range grows.                            *)
LEMMA WiderRange ==
    ASSUME NEW S, NEW T, NEW U, T \subseteq U
    PROVE  [S -> T] \subseteq [S -> U]
  OBVIOUS

(* Uploads only extend the set of versions.                                *)
LEMMA UploadTyping ==
    ASSUME TypeOK, NEW n \in Clusters, UploadReport(n)
    PROVE  TypeOK'
<1> DEFINE V == Versions \cup {None}
           W == Versions' \cup {None}
<1> USE DEF TypeOK, StoreTypeOK, UploadReport, Upload, local, cache
<1>1. uploads' \in Nat /\ uploads' = uploads + 1
  OBVIOUS
<1>2. Versions \subseteq Versions' /\ uploads' \in Versions'
  BY <1>1 DEF Versions
<1>3. StoreTypeOK'
  BY <1>1, <1>2
<1>4. [Clusters -> V] \subseteq [Clusters -> W]
  BY <1>2, WiderRange
<1>5. info' \in [Clusters -> W] /\ payload' \in [Clusters -> W]
  BY <1>4
<1>6. [Callers -> [Clusters -> V]] \subseteq [Callers -> [Clusters -> W]]
  BY <1>4, WiderRange
<1>7. listing' \in [Callers -> [Clusters -> W]]
      /\ result' \in [Callers -> [Clusters -> W]]
  BY <1>6
<1>8. body' \in [Callers -> W]
  BY <1>2
<1>9. failed' \in [Clusters -> SUBSET Versions']
  BY <1>2
<1>10. \A c \in Callers :
          /\ todo'[c] \subseteq Listed(c)'
          /\ pc'[c] \in {"download", "decode"} => current'[c] \in todo'[c]
  BY DEF Listed
<1>11. QED
  BY <1>3, <1>5, <1>7, <1>8, <1>9, <1>10

(* Every step keeps the types.                                             *)
LEMMA NextTyping == TypeOK /\ [Next]_vars => TypeOK'
<1> SUFFICES ASSUME TypeOK, [Next]_vars PROVE TypeOK'
  OBVIOUS
<1>a. CASE UNCHANGED vars
  BY <1>a DEF TypeOK, StoreTypeOK, Versions, Listed, vars, storeVars, local, cache
<1>b. ASSUME NEW n \in Clusters, UploadReport(n) PROVE TypeOK'
  BY <1>b, UploadTyping
<1>c. ASSUME NEW n \in Clusters, DeleteReport(n) PROVE TypeOK'
  BY <1>c DEF TypeOK, StoreTypeOK, Versions, Listed, DeleteReport, Delete, local,
              cache
<1>d. CASE Restart
  BY <1>d DEF TypeOK, StoreTypeOK, Versions, Listed, Restart, Fault, Nothing,
              Labels, storeVars
<1>e. ASSUME NEW c \in Callers,
             Call(c) \/ Lock(c) \/ Proceed(c) \/ CallAgain(c)
      PROVE TypeOK'
  <2> USE DEF TypeOK, StoreTypeOK, Versions, Labels, Goto, storeVars, cache
  <2>1. CASE ListObjects(c)
    BY <2>1 DEF ListObjects, Listed
  <2>2. CASE ListFails(c)
    BY <2>2 DEF ListFails, Listed, Fault
  <2>3. CASE Lock(c)
    BY <2>3 DEF Lock, Listed
  <2>4. ASSUME NEW n \in Clusters, UseCached(c, n) PROVE TypeOK'
    BY <2>4 DEF UseCached, Listed
  <2>5. ASSUME NEW n \in Clusters, BeginUpdate(c, n) PROVE TypeOK'
    BY <2>5 DEF BeginUpdate, Listed
  <2>6. CASE Download(c)
    BY <2>6 DEF Download, Listed
  <2>7. CASE DownloadFails(c)
    BY <2>7 DEF DownloadFails, AbortUpdate, Listed, Fault, Nothing
  <2>8. CASE DecodeFails(c)
    BY <2>8 DEF DecodeFails, AbortUpdate, Listed, Nothing
  <2>9. CASE Decode(c)
    BY <2>9 DEF Decode, Listed
  <2>10. CASE ReturnReports(c)
    BY <2>10 DEF ReturnReports, Listed
  <2>11. CASE CallAgain(c)
    BY <2>11 DEF CallAgain, Listed, Nothing
  <2>12. QED
    BY <1>e, <2>1, <2>2, <2>3, <2>4, <2>5, <2>6, <2>7, <2>8, <2>9, <2>10,
       <2>11 DEF Call, Proceed
<1>f. QED
  BY <1>a, <1>b, <1>c, <1>d, <1>e DEF Next

(* Type correctness of the report cache of doop-api.                       *)
THEOREM TypeCorrect == Spec => []TypeOK
  BY InitTyping, NextTyping, PTL DEF Spec
(* Versions are numbers, whoever holds them.                               *)
LEMMA VersionsAreNumbers ==
    ASSUME TypeOK
    PROVE  /\ \A n \in Clusters : /\ stored[n] \in Nat
                                  /\ info[n] \in Nat
                                  /\ payload[n] \in Nat
           /\ \A c \in Callers : body[c] \in Nat
           /\ \A c \in Callers, n \in Clusters : listing[c][n] \in Nat
                                               /\ result[c][n] \in Nat
<1>1. Versions \cup {None} \subseteq Nat
  BY DEF TypeOK, StoreTypeOK, Versions, None
<1>2. QED
  BY <1>1 DEF TypeOK, StoreTypeOK

(* The inductive invariant holds at the start.                             *)
LEMMA InitInvariant == Init => IInv
<1> SUFFICES ASSUME Init PROVE IInv
  OBVIOUS
<1>1. TypeOK
  BY InitTyping
<1>2. MutexInv
  BY DEF Init, MutexInv, Holding
<1>3. StoredIsNewest
  BY DEF Init, StoreInit, StoredIsNewest, NotNewerThanStored
<1>4. FetchInv
  BY DEF Init, FetchInv
<1>5. CacheFresh
  BY DEF Init, Nothing, CacheFresh
<1>6. VisitedFresh
  BY DEF Init, VisitedFresh, Holding
<1>7. CollectedFromCache
  BY DEF Init, CollectedFromCache, Nothing, Holding, None
<1>8. QED
  BY <1>1, <1>2, <1>3, <1>4, <1>5, <1>6, <1>7 DEF IInv

(* No step of a call breaks the inductive invariant.                       *)
LEMMA CallKeepsInvariant ==
    ASSUME IInv, TypeOK', NEW c \in Callers,
           Call(c) \/ Lock(c) \/ Proceed(c) \/ CallAgain(c)
    PROVE  IInv'
<1> USE DEF IInv, TypeOK, StoreTypeOK, Goto, storeVars, cache, Listed
<1>0. /\ \A n \in Clusters : /\ stored[n] \in Nat
                             /\ info[n] \in Nat
                             /\ payload[n] \in Nat
      /\ \A k \in Callers : body[k] \in Nat
      /\ \A k \in Callers, n \in Clusters : listing[k][n] \in Nat
                                          /\ result[k][n] \in Nat
  BY VersionsAreNumbers DEF IInv
<1>1. CASE ListObjects(c)
  <2>1. MutexInv'
    BY <1>1 DEF ListObjects, MutexInv, Holding
  <2>2. StoredIsNewest'
    BY <1>0, <1>1 DEF ListObjects, StoredIsNewest, NotNewerThanStored
  <2>3. FetchInv'
    BY <1>1 DEF ListObjects, FetchInv, NotNewerThanStored
  <2>4. CacheFresh'
    BY <1>1 DEF ListObjects, CacheFresh, Fetching
  <2>5. VisitedFresh'
    BY <1>1 DEF ListObjects, VisitedFresh, Holding
  <2>6. CollectedFromCache'
    BY <1>1 DEF ListObjects, CollectedFromCache, Holding, Nothing
  <2>7. QED
    BY <2>1, <2>2, <2>3, <2>4, <2>5, <2>6
<1>2. CASE ListFails(c)
  <2>1. MutexInv'
    BY <1>2 DEF ListFails, MutexInv, Holding
  <2>2. StoredIsNewest'
    BY <1>2 DEF ListFails, StoredIsNewest, NotNewerThanStored
  <2>3. FetchInv'
    BY <1>2 DEF ListFails, FetchInv, NotNewerThanStored
  <2>4. CacheFresh'
    BY <1>2 DEF ListFails, CacheFresh, Fetching
  <2>5. VisitedFresh'
    BY <1>2 DEF ListFails, VisitedFresh, Holding
  <2>6. CollectedFromCache'
    BY <1>2 DEF ListFails, CollectedFromCache, Holding, Nothing
  <2>7. QED
    BY <2>1, <2>2, <2>3, <2>4, <2>5, <2>6
<1>3. CASE Lock(c)
  <2>1. MutexInv'
    BY <1>3 DEF Lock, MutexInv, Holding
  <2>2. StoredIsNewest'
    BY <1>3 DEF Lock, StoredIsNewest, NotNewerThanStored
  <2>3. FetchInv'
    BY <1>3 DEF Lock, FetchInv, NotNewerThanStored
  <2>4. CacheFresh'
    BY <1>3 DEF Lock, CacheFresh, Fetching
  <2>5. VisitedFresh'
    BY <1>3 DEF Lock, VisitedFresh, Holding
  <2>6. CollectedFromCache'
    BY <1>3 DEF Lock, CollectedFromCache, VisitedFresh, Holding
  <2>7. QED
    BY <2>1, <2>2, <2>3, <2>4, <2>5, <2>6
<1>4. ASSUME NEW n \in Clusters, UseCached(c, n) PROVE IInv'
  <2>1. MutexInv'
    BY <1>4 DEF UseCached, NeedsUpdate, MutexInv, Holding
  <2>2. StoredIsNewest'
    BY <1>4 DEF UseCached, NeedsUpdate, StoredIsNewest, NotNewerThanStored
  <2>3. FetchInv'
    BY <1>4 DEF UseCached, NeedsUpdate, FetchInv, NotNewerThanStored
  <2>4. CacheFresh'
    BY <1>4 DEF UseCached, NeedsUpdate, CacheFresh, Fetching
  <2>5. VisitedFresh'
    BY <1>0, <1>4 DEF UseCached, NeedsUpdate, VisitedFresh, Holding,
                    CacheFresh, Fetching, MutexInv
  <2>6. CollectedFromCache'
    BY <1>4 DEF UseCached, CollectedFromCache, MutexInv, Holding
  <2>7. QED
    BY <2>1, <2>2, <2>3, <2>4, <2>5, <2>6
<1>5. ASSUME NEW n \in Clusters, BeginUpdate(c, n) PROVE IInv'
  <2>1. MutexInv'
    BY <1>5 DEF BeginUpdate, NeedsUpdate, MutexInv, Holding
  <2>2. StoredIsNewest'
    BY <1>5 DEF BeginUpdate, NeedsUpdate, StoredIsNewest, NotNewerThanStored
  <2>3. FetchInv'
    BY <1>5 DEF BeginUpdate, NeedsUpdate, FetchInv, MutexInv, Holding
  <2>4. CacheFresh'
    BY <1>5 DEF BeginUpdate, NeedsUpdate, CacheFresh, Fetching
  <2>5. VisitedFresh'
    BY <1>5 DEF BeginUpdate, NeedsUpdate, VisitedFresh, Holding
  <2>6. CollectedFromCache'
    BY <1>5 DEF BeginUpdate, NeedsUpdate, CollectedFromCache, Holding, Nothing
  <2>7. QED
    BY <2>1, <2>2, <2>3, <2>4, <2>5, <2>6
<1>6. CASE Download(c)
  <2>1. MutexInv'
    BY <1>6 DEF Download, MutexInv, Holding
  <2>2. StoredIsNewest'
    BY <1>6 DEF Download, StoredIsNewest, NotNewerThanStored
  <2>3. FetchInv'
    BY <1>0, <1>6 DEF Download, FetchInv, NotNewerThanStored,
                    StoredIsNewest, None
  <2>4. CacheFresh'
    BY <1>6 DEF Download, CacheFresh, Fetching
  <2>5. VisitedFresh'
    BY <1>6 DEF Download, VisitedFresh, Holding
  <2>6. CollectedFromCache'
    BY <1>6 DEF Download, CollectedFromCache, Holding, Nothing
  <2>7. QED
    BY <2>1, <2>2, <2>3, <2>4, <2>5, <2>6
<1>7. CASE DownloadFails(c)
  <2>1. MutexInv'
    BY <1>7 DEF DownloadFails, AbortUpdate, MutexInv, Holding
  <2>2. StoredIsNewest'
    BY <1>0, <1>7 DEF DownloadFails, AbortUpdate, StoredIsNewest, NotNewerThanStored, Nothing, None
  <2>3. FetchInv'
    BY <1>7 DEF DownloadFails, AbortUpdate, FetchInv, NotNewerThanStored
  <2>4. CacheFresh'
    BY <1>7 DEF DownloadFails, AbortUpdate, CacheFresh, Fetching, FetchInv
  <2>5. VisitedFresh'
    BY <1>7 DEF DownloadFails, AbortUpdate, VisitedFresh, Holding
  <2>6. CollectedFromCache'
    BY <1>7 DEF DownloadFails, AbortUpdate, CollectedFromCache, Holding, Nothing
  <2>7. QED
    BY <2>1, <2>2, <2>3, <2>4, <2>5, <2>6
<1>8. CASE DecodeFails(c)
  <2>1. MutexInv'
    BY <1>8 DEF DecodeFails, AbortUpdate, MutexInv, Holding
  <2>2. StoredIsNewest'
    BY <1>0, <1>8 DEF DecodeFails, AbortUpdate, StoredIsNewest, NotNewerThanStored, Nothing, None
  <2>3. FetchInv'
    BY <1>8 DEF DecodeFails, AbortUpdate, FetchInv, NotNewerThanStored
  <2>4. CacheFresh'
    BY <1>8 DEF DecodeFails, AbortUpdate, CacheFresh, Fetching, FetchInv
  <2>5. VisitedFresh'
    BY <1>8 DEF DecodeFails, AbortUpdate, VisitedFresh, Holding
  <2>6. CollectedFromCache'
    BY <1>8 DEF DecodeFails, AbortUpdate, CollectedFromCache, Holding, Nothing
  <2>7. QED
    BY <2>1, <2>2, <2>3, <2>4, <2>5, <2>6
<1>9. CASE Decode(c)
  <2>1. MutexInv'
    BY <1>9 DEF Decode, MutexInv, Holding
  <2>2. StoredIsNewest'
    BY <1>0, <1>9 DEF Decode, StoredIsNewest, NotNewerThanStored, FetchInv
  <2>3. FetchInv'
    BY <1>9 DEF Decode, FetchInv, MutexInv, Holding
  <2>4. CacheFresh'
    BY <1>0, <1>9 DEF Decode, CacheFresh, Fetching, FetchInv
  <2>5. VisitedFresh'
    BY <1>0, <1>9 DEF Decode, VisitedFresh, Holding, FetchInv
  <2>6. CollectedFromCache'
    BY <1>9 DEF Decode, CollectedFromCache, MutexInv, Holding
  <2>7. QED
    BY <2>1, <2>2, <2>3, <2>4, <2>5, <2>6
<1>10. CASE ReturnReports(c)
  <2>1. MutexInv'
    BY <1>10 DEF ReturnReports, MutexInv, Holding
  <2>2. StoredIsNewest'
    BY <1>10 DEF ReturnReports, StoredIsNewest, NotNewerThanStored
  <2>3. FetchInv'
    BY <1>10 DEF ReturnReports, FetchInv, NotNewerThanStored
  <2>4. CacheFresh'
    BY <1>10 DEF ReturnReports, CacheFresh, Fetching
  <2>5. VisitedFresh'
    BY <1>10 DEF ReturnReports, VisitedFresh, Holding
  <2>6. CollectedFromCache'
    BY <1>10 DEF ReturnReports, CollectedFromCache, Holding, Nothing
  <2>7. QED
    BY <2>1, <2>2, <2>3, <2>4, <2>5, <2>6
<1>11. CASE CallAgain(c)
  <2>1. MutexInv'
    BY <1>11 DEF CallAgain, MutexInv, Holding
  <2>2. StoredIsNewest'
    BY <1>0, <1>11 DEF CallAgain, StoredIsNewest, NotNewerThanStored, Nothing, None
  <2>3. FetchInv'
    BY <1>11 DEF CallAgain, FetchInv, NotNewerThanStored
  <2>4. CacheFresh'
    BY <1>11 DEF CallAgain, CacheFresh, Fetching
  <2>5. VisitedFresh'
    BY <1>11 DEF CallAgain, VisitedFresh, Holding
  <2>6. CollectedFromCache'
    BY <1>11 DEF CallAgain, CollectedFromCache, Holding, Nothing, None
  <2>7. QED
    BY <2>1, <2>2, <2>3, <2>4, <2>5, <2>6
<1>12. QED
  BY <1>1, <1>2, <1>3, <1>4, <1>5, <1>6, <1>7, <1>8, <1>9, <1>10, <1>11 DEF Call, Proceed

(* An upload is newer than everything known.                               *)
LEMMA UploadKeepsInvariant ==
    ASSUME IInv, TypeOK', NEW n \in Clusters, UploadReport(n)
    PROVE  IInv'
<1> USE DEF UploadReport, Upload, local, cache
<1>1. MutexInv'
  BY DEF IInv, MutexInv, Holding
<1>2. \A v \in Versions \cup {None} : uploads' >= v
  BY DEF IInv, TypeOK, StoreTypeOK, Versions, None
<1>3. \A m \in Clusters : \A v \in Versions \cup {None} :
          NotNewerThanStored(m, v) => NotNewerThanStored(m, v)'
  BY <1>2 DEF IInv, TypeOK, StoreTypeOK, NotNewerThanStored
<1>4. StoredIsNewest'
  <2>1. ASSUME NEW m \in Clusters
        PROVE  NotNewerThanStored(m, payload[m])'
    BY <1>3 DEF IInv, TypeOK, StoredIsNewest, NotNewerThanStored
  <2>2. ASSUME NEW m \in Clusters, NEW c \in Callers
        PROVE  NotNewerThanStored(m, listing[c][m])'
    BY <1>3 DEF IInv, TypeOK, StoredIsNewest, NotNewerThanStored
  <2>3. QED
    BY <2>1, <2>2 DEF StoredIsNewest
<1>5. FetchInv'
  <2> SUFFICES ASSUME NEW c \in Callers, pc[c] \in {"download", "decode"}
               PROVE  /\ info[current[c]] = listing[c][current[c]]
                      /\ pc[c] = "decode" =>
                           /\ NotNewerThanStored(current[c], body[c])'
                           /\ body[c] >= listing[c][current[c]]
                           /\ body[c] >= payload[current[c]]
    BY DEF FetchInv, NotNewerThanStored
  <2>1. current[c] \in Clusters /\ body[c] \in Versions \cup {None}
    BY DEF IInv, TypeOK
  <2>2. pc[c] = "decode" => NotNewerThanStored(current[c], body[c])'
    BY <1>3, <2>1 DEF IInv, FetchInv, NotNewerThanStored
  <2>3. QED
    BY <2>2 DEF IInv, FetchInv
<1>6. CacheFresh'
  BY DEF IInv, CacheFresh, Fetching
<1>7. VisitedFresh'
  BY DEF IInv, VisitedFresh, Holding, Listed
<1>8. CollectedFromCache'
  BY DEF IInv, CollectedFromCache, Holding, Listed
<1>9. QED
  BY <1>1, <1>4, <1>5, <1>6, <1>7, <1>8 DEF IInv

(* Nor does any other step.                                                *)
LEMMA NextInvariant == IInv /\ [Next]_vars => IInv'
<1> SUFFICES ASSUME IInv, [Next]_vars PROVE IInv'
  OBVIOUS
<1>0. TypeOK'
  BY NextTyping DEF IInv
<1>1. ASSUME NEW c \in Callers,
             Call(c) \/ Lock(c) \/ Proceed(c) \/ CallAgain(c)
      PROVE  IInv'
  BY <1>0, <1>1, CallKeepsInvariant
<1>2. ASSUME NEW n \in Clusters, UploadReport(n) PROVE IInv'
  BY <1>0, <1>2, UploadKeepsInvariant
<1>3. ASSUME NEW n \in Clusters, DeleteReport(n) PROVE IInv'
  <2> USE DEF DeleteReport, Delete, local, cache
  <2>1. MutexInv'
    BY <1>3 DEF IInv, MutexInv, Holding
  <2>2. StoredIsNewest'
    BY <1>3 DEF IInv, TypeOK, StoreTypeOK, StoredIsNewest, NotNewerThanStored
  <2>3. FetchInv'
    BY <1>3 DEF IInv, TypeOK, StoreTypeOK, FetchInv, NotNewerThanStored
  <2>4. CacheFresh'
    BY <1>3 DEF IInv, CacheFresh, Fetching
  <2>5. VisitedFresh'
    BY <1>3 DEF IInv, VisitedFresh, Holding, Listed
  <2>6. CollectedFromCache'
    BY <1>3 DEF IInv, CollectedFromCache, Holding, Listed, Nothing
  <2>7. QED
    BY <1>0, <2>1, <2>2, <2>3, <2>4, <2>5, <2>6 DEF IInv
<1>4. CASE Restart
  <2> USE DEF Restart, Nothing
  <2>1. MutexInv'
    BY <1>4, CallersAssumption DEF MutexInv, Holding
  <2>2. StoredIsNewest'
    BY <1>4, VersionsAreNumbers DEF IInv, StoredIsNewest, NotNewerThanStored,
                                    None, storeVars
  <2>3. FetchInv'
    BY <1>4 DEF FetchInv
  <2>4. CacheFresh'
    BY <1>4 DEF CacheFresh
  <2>5. VisitedFresh'
    BY <1>4 DEF VisitedFresh, Holding, Listed
  <2>6. CollectedFromCache'
    BY <1>4 DEF CollectedFromCache, Holding, Listed, Nothing
  <2>7. QED
    BY <1>0, <2>1, <2>2, <2>3, <2>4, <2>5, <2>6 DEF IInv
<1>5. CASE UNCHANGED vars
  <2> USE <1>5 DEF vars, storeVars, local, cache, IInv
  <2>1. MutexInv'
    BY DEF MutexInv, Holding
  <2>2. StoredIsNewest'
    BY DEF StoredIsNewest, NotNewerThanStored
  <2>3. FetchInv'
    BY DEF FetchInv, NotNewerThanStored
  <2>4. CacheFresh'
    BY DEF CacheFresh, Fetching
  <2>5. VisitedFresh'
    BY DEF VisitedFresh, Holding, Listed
  <2>6. CollectedFromCache'
    BY DEF CollectedFromCache, Holding, Listed, Nothing
  <2>7. QED
    BY <1>0, <2>1, <2>2, <2>3, <2>4, <2>5, <2>6
<1>6. QED
  BY <1>1, <1>2, <1>3, <1>4, <1>5 DEF Next

(* Whatever interleaving of callers, uploads, failures and restarts: the   *)
(* parts of the inductive invariant hold.                                  *)
THEOREM Invariant == Spec => []IInv
  BY InitInvariant, NextInvariant, PTL DEF Spec

(* A successful GetReports answers with what it listed or with something   *)
(* later, but for versions whose fetch went wrong before.                  *)
THEOREM AnswersAreFresh == Spec => []AnswerFresh
<1>1. IInv => AnswerFresh
  BY DEF IInv, TypeOK, VisitedFresh, AnswerFresh
<1>2. QED
  BY <1>1, Invariant, PTL

(* No report in the cache gives way to an older one, except in a restart.  *)
THEOREM PayloadsOnlyAdvance == Spec => PayloadNeverRegresses
<1> DEFINE Advance == \A n \in Clusters : payload'[n] >= payload[n]
<1>1. IInv /\ [Next]_vars => [Advance \/ Restart]_vars
  <2> SUFFICES ASSUME IInv, Next PROVE Advance \/ Restart
    OBVIOUS
  <2>0. \A n \in Clusters : payload[n] \in Nat
    BY VersionsAreNumbers DEF IInv
  <2>1. CASE payload' = payload
    BY <2>0, <2>1
  <2>2. ASSUME NEW c \in Callers, Decode(c) PROVE Advance
    BY <2>0, <2>2 DEF Decode, IInv, FetchInv, TypeOK
  <2>3. ASSUME NEW c \in Callers, Call(c) \/ Lock(c) \/ CallAgain(c)
        PROVE  payload' = payload
    BY <2>3 DEF Call, ListObjects, ListFails, Lock, CallAgain, cache
  <2>4. ASSUME NEW c \in Callers, Proceed(c), ~Decode(c)
        PROVE  payload' = payload
    BY <2>4 DEF Proceed, UseCached, BeginUpdate, Download, DownloadFails,
                DecodeFails, AbortUpdate, ReturnReports, cache
  <2>5. ASSUME NEW n \in Clusters, UploadReport(n) \/ DeleteReport(n)
        PROVE  payload' = payload
    BY <2>5 DEF UploadReport, DeleteReport, cache
  <2>6. QED
    BY <2>1, <2>2, <2>3, <2>4, <2>5 DEF Next
<1>2. QED
  BY <1>1, Invariant, PTL DEF Spec, PayloadNeverRegresses

-----------------------------------------------------------------------------
(* The report cache implements ReportSource: each step of GetReports is a  *)
(* step of the abstract source, or changes nothing there.                  *)
(* How a step of one caller looks through the mapping.                     *)
LEMMA StagesStep ==
    ASSUME TypeOK, NEW c \in Callers, NEW l, Goto(c, l)
    PROVE  Stages' = [Stages EXCEPT ![c] = Stage(l)]
  BY DEF TypeOK, Goto, Stages

LEMMA StagesSame ==
    ASSUME TypeOK, NEW c \in Callers, NEW l, Goto(c, l), Stage(l) = Stage(pc[c])
    PROVE  Stages' = Stages
  BY DEF TypeOK, Goto, Stages

(* An answer is not seen before the call returns.                          *)
LEMMA AnswersSame ==
    ASSUME TypeOK, NEW c \in Callers, NEW l, Goto(c, l), l # "ok", pc[c] # "ok",
           \A k \in Callers : k # c => result'[k] = result[k]
    PROVE  Answers' = Answers
  BY DEF TypeOK, Goto, Answers

(* The cache starts as the source does.                                    *)
LEMMA InitRefines == Init => Source!Init
  BY DEF Init, Source!Init, Nothing, Source!Nothing, Stages, Stage, Answers,
         None, Source!None, StoreInit, Source!StoreInit

(* Steps inside the loop are invisible, but for what Decode puts into the  *)
(* cache and for the versions that an error gives up.                      *)
LEMMA ProceedRefines ==
    ASSUME IInv, IInv', NEW c \in Callers, Proceed(c)
    PROVE  Source!Next \/ UNCHANGED Source!sourceVars
<1> USE DEF IInv, Source!sourceVars, storeVars, Source!storeVars, cache, Stage
<1>1. ASSUME NEW n \in Clusters, UseCached(c, n)
      PROVE  UNCHANGED Source!sourceVars
  <2>1. Stages' = Stages
    BY <1>1 DEF UseCached, Stages
  <2>2. Answers' = Answers
    BY <1>1 DEF UseCached, Answers, TypeOK
  <2>3. QED
    BY <1>1, <2>1, <2>2 DEF UseCached
<1>2. ASSUME NEW n \in Clusters, BeginUpdate(c, n)
      PROVE  UNCHANGED Source!sourceVars
  BY <1>2, StagesSame, AnswersSame DEF BeginUpdate
<1>3. CASE Download(c)
  BY <1>3, StagesSame, AnswersSame DEF Download
<1>4. ASSUME AbortUpdate(c), pc[c] \in {"download", "decode"}
      PROVE  Source!Break(c, current[c])
  <2>1. current[c] \in Clusters /\ listing[c][current[c]] # None
    BY <1>4 DEF TypeOK, Listed
  <2>2. Stages' = [Stages EXCEPT ![c] = "error"]
    BY <1>4, StagesStep DEF AbortUpdate
  <2>3. Answers' = Answers
    BY <1>4, AnswersSame DEF AbortUpdate, TypeOK
  <2>4. Stages[c] = "asked"
    BY <1>4 DEF Stages
  <2>5. QED
    BY <1>4, <2>1, <2>2, <2>3, <2>4
       DEF AbortUpdate, Source!Break, Source!Goto, Nothing, Source!Nothing,
           None, Source!None
<1>5. CASE Decode(c)
  <2>1. current[c] \in Clusters /\ listing[c][current[c]] # None
    BY <1>5 DEF Decode, TypeOK, Listed
  <2>2. Stages' = Stages
    BY <1>5, StagesSame DEF Decode
  <2>3. Answers' = Answers
    <3>1. \A k \in Callers : k # c => result'[k] = result[k]
      BY <1>5 DEF Decode, TypeOK
    <3>2. QED
      BY <1>5, <3>1, AnswersSame DEF Decode
  <2>4. Stages[c] = "asked"
    BY <1>5 DEF Decode, Stages
  <2>5. body[c] \in Versions \ malformed
    <3>1. body[c] \in Versions \cup {None} /\ body[c] >= listing[c][current[c]]
      BY <1>5 DEF Decode, TypeOK, FetchInv
    <3>2. listing[c][current[c]] \in Nat \ {0}
      BY <2>1, VersionsAreNumbers DEF None
    <3>3. QED
      BY <1>5, <3>1, <3>2 DEF Decode, None
  <2>6. body[c] >= payload[current[c]]
    BY <1>5 DEF Decode, FetchInv
  <2>7. Source!Refresh(current[c])
    BY <1>5, <2>1, <2>2, <2>3, <2>4, <2>5, <2>6
       DEF Decode, Source!Refresh, Versions, Source!Versions, None, Source!None
  <2>8. QED
    BY <2>1, <2>7 DEF Source!Next
<1>6. CASE ReturnReports(c)
  <2>1. Stages[c] = "asked" /\ Stages' = [Stages EXCEPT ![c] = "ok"]
    BY <1>6, StagesStep DEF ReturnReports, Stages
  <2>2. result[c] = [n \in Clusters |-> IF listing[c][n] = None THEN None ELSE payload[n]]
    <3>1. \A n \in Clusters : result[c][n] = IF listing[c][n] = None THEN None ELSE payload[n]
      BY <1>6 DEF ReturnReports, CollectedFromCache, Holding, Listed
    <3>2. QED
      BY <3>1 DEF TypeOK
  <2>3. Answers' = [Answers EXCEPT ![c] = result[c]]
    BY <1>6 DEF ReturnReports, Answers, Goto, TypeOK
  <2>4. \A n \in Clusters : payload[n] >= listing[c][n] \/ listing[c][n] \in failed[n]
    <3> SUFFICES ASSUME NEW n \in Clusters
                 PROVE  payload[n] >= listing[c][n] \/ listing[c][n] \in failed[n]
      OBVIOUS
    <3>1. CASE n \in Listed(c)
      BY <1>6, <3>1 DEF ReturnReports, VisitedFresh, CollectedFromCache, Holding
    <3>2. CASE n \notin Listed(c)
      BY <3>2, VersionsAreNumbers DEF Listed, None
    <3>3. QED
      BY <3>1, <3>2
  <2>5. Source!Answer(c)
    BY <1>6, <2>1, <2>2, <2>3, <2>4
       DEF ReturnReports, Source!Answer, Source!Goto, None, Source!None
  <2>6. QED
    BY <2>5 DEF Source!Next
<1>7. QED
  BY <1>1, <1>2, <1>3, <1>4, <1>5, <1>6
     DEF Proceed, DownloadFails, DecodeFails, Source!Next, TypeOK, Listed

(* The other steps of a caller.                                            *)
LEMMA CallRefines ==
    ASSUME IInv, NEW c \in Callers, Call(c) \/ Lock(c) \/ CallAgain(c)
    PROVE  Source!Next \/ UNCHANGED Source!sourceVars
<1> USE DEF IInv, Source!sourceVars, storeVars, Source!storeVars, cache, Stage
<1>1. CASE ListObjects(c)
  <2>1. Stages[c] = "idle" /\ Stages' = [Stages EXCEPT ![c] = "asked"]
    BY <1>1, StagesStep DEF ListObjects, Stages
  <2>2. Answers' = Answers
    BY <1>1, AnswersSame DEF ListObjects
  <2>3. Source!Ask(c)
    BY <1>1, <2>1, <2>2 DEF ListObjects, Source!Ask, Source!Goto
  <2>4. QED
    BY <2>3 DEF Source!Next
<1>2. CASE ListFails(c)
  <2>1. Stages[c] = "idle" /\ Stages' = [Stages EXCEPT ![c] = "error"]
    BY <1>2, StagesStep DEF ListFails, Stages
  <2>2. Answers' = Answers
    BY <1>2, AnswersSame DEF ListFails
  <2>3. Source!Refuse(c)
    BY <1>2, <2>1, <2>2 DEF ListFails, Source!Refuse, Source!Goto
  <2>4. QED
    BY <2>3 DEF Source!Next
<1>3. CASE Lock(c)
  BY <1>3, StagesSame, AnswersSame DEF Lock
<1>4. CASE CallAgain(c)
  <2>1. Stages[c] \in {"ok", "error"} /\ Stages' = [Stages EXCEPT ![c] = "idle"]
    BY <1>4, StagesStep DEF CallAgain, Stages
  <2>2. Answers' = [Answers EXCEPT ![c] = Nothing]
    BY <1>4 DEF CallAgain, Answers, Goto, TypeOK
  <2>3. Source!Leave(c)
    BY <1>4, <2>1, <2>2 DEF CallAgain, Source!Leave, Source!Goto, Nothing,
                            Source!Nothing, None, Source!None
  <2>4. QED
    BY <2>3 DEF Source!Next
<1>5. QED
  BY <1>1, <1>2, <1>3, <1>4 DEF Call

(* Every step of the cache is a step of the source or leaves it alone.     *)
LEMMA NextRefines ==
    IInv /\ IInv' /\ [Next]_vars => [Source!Next]_(Source!sourceVars)
<1> SUFFICES ASSUME IInv, IInv', [Next]_vars
             PROVE  Source!Next \/ UNCHANGED Source!sourceVars
  OBVIOUS
<1>1. ASSUME NEW c \in Callers, Call(c) \/ Lock(c) \/ Proceed(c) \/ CallAgain(c)
      PROVE  Source!Next \/ UNCHANGED Source!sourceVars
  BY <1>1, ProceedRefines, CallRefines
<1>2. ASSUME NEW n \in Clusters, UploadReport(n) \/ DeleteReport(n)
      PROVE  Source!Next
  <2>1. UNCHANGED <<payload, failed, listing, Stages, Answers>>
    BY <1>2 DEF UploadReport, DeleteReport, cache, local, Stages, Answers
  <2>2. Source!Upload(n) \/ Source!Delete(n)
    BY <1>2 DEF UploadReport, DeleteReport, Upload, Delete, Source!Upload,
                Source!Delete, None, Source!None
  <2>3. QED
    BY <2>1, <2>2 DEF Source!Next
<1>3. CASE Restart
  <2>1. Source!Forget
    BY <1>3 DEF Restart, Source!Forget, Nothing, Source!Nothing, None, Source!None,
                Stages, Stage, Answers, storeVars, Source!storeVars
  <2>2. QED
    BY <2>1 DEF Source!Next
<1>4. CASE UNCHANGED vars
  BY <1>4 DEF vars, storeVars, Source!storeVars, cache, local, Source!sourceVars,
              Stages, Answers
<1>5. QED
  BY <1>1, <1>2, <1>3, <1>4 DEF Next

(* For any clusters, callers and bounds: to its callers GetReports is an   *)
(* atomic look at a source of reports that only get newer.                 *)
THEOREM CacheIsAReportSource == Spec => ImplementsReportSource
<1>1. Spec => []IInv
  BY Invariant
<1>2. QED
  BY <1>1, InitRefines, NextRefines, PTL DEF Spec, ImplementsReportSource, Source!Spec
=============================================================================
