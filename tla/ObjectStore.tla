---------------------------- MODULE ObjectStore ----------------------------
(***************************************************************************)
(* The Swift container through which the doop-analyzers (one per cluster,  *)
(* writing one object each) hand their reports to doop-api.  Swift is not  *)
(* part of the repository; the module is what its users rely on.           *)
(*                                                                         *)
(* An upload is abstracted to its version, a number never used before.  It *)
(* stands for the bytes of the object and for the three attributes that    *)
(* doop-api compares (size, Etag, last modification time): two uploads     *)
(* that agree in all of them carry the same report.                        *)
(***************************************************************************)
EXTENDS Naturals

CONSTANTS
    Clusters,    \* the clusters, each of which has one object in the container
    MaxUploads   \* bound: no more than this many uploads in a behaviour

ASSUME UploadsAssumption == MaxUploads \in Nat

VARIABLES
    stored,      \* stored[n]: the version of the object of cluster n
    uploads,     \* the number of uploads so far, and the latest version
    malformed    \* the versions whose bytes are not a JSON report

storeVars == <<stored, uploads, malformed>>

None == 0
Versions == 1 .. uploads

StoreInit ==
    /\ stored = [n \in Clusters |-> None]
    /\ uploads = 0
    /\ malformed = {}

(* A new version replaces the object of n.  The analyzer always writes a   *)
(* report; anything else that is put into the container may be malformed.  *)
Upload(n) ==
    /\ uploads < MaxUploads
    /\ uploads' = uploads + 1
    /\ stored' = [stored EXCEPT ![n] = uploads']
    /\ malformed' \in {malformed, malformed \cup {uploads'}}

(* An operator removes the object of a decommissioned cluster.             *)
Delete(n) ==
    /\ stored[n] # None
    /\ stored' = [stored EXCEPT ![n] = None]
    /\ UNCHANGED <<uploads, malformed>>

StoreTypeOK ==
    /\ uploads \in Nat
    /\ stored \in [Clusters -> Versions \cup {None}]
    /\ malformed \subseteq Versions
=============================================================================
