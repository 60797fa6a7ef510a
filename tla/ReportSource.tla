--------------------------- MODULE ReportSource ----------------------------
(***************************************************************************)
(* What doop-api's GetReports promises to a caller, without its listing,   *)
(* its lock, its loop and its downloads (the Downloader module has those). *)
(* There is one report per cluster, which is replaced by newer ones only.  *)
(* A caller asks, and is answered from ONE moment: with the reports that   *)
(* all clusters have at the moment of the answer, each as fresh as what    *)
(* was stored when the caller asked, unless that one proved unreadable.    *)
(***************************************************************************)
EXTENDS ObjectStore

CONSTANT Callers

VARIABLES
    source,   \* source[n]: the report to answer with, None before the first
    broken,   \* broken[n]: the versions that could not be fetched
    state,    \* state[c]: "idle", "asked", "ok" or "error"
    asked,    \* asked[c]: what was stored when c asked
    answer    \* answer[c]: the reports that c was given

sourceVars == <<storeVars, source, broken, state, asked, answer>>

Nothing == [n \in Clusters |-> None]
Goto(c, label) == state' = [state EXCEPT ![c] = label]

Init ==
    /\ StoreInit
    /\ source = Nothing
    /\ broken = [n \in Clusters |-> {}]
    /\ state = [c \in Callers |-> "idle"]
    /\ asked = [c \in Callers |-> Nothing]
    /\ answer = [c \in Callers |-> Nothing]

Ask(c) ==
    /\ state[c] = "idle"
    /\ Goto(c, "asked")
    /\ asked' = [asked EXCEPT ![c] = stored]
    /\ UNCHANGED <<storeVars, source, broken, answer>>

Refuse(c) ==
    /\ state[c] = "idle"
    /\ Goto(c, "error")
    /\ UNCHANGED <<storeVars, source, broken, asked, answer>>

(* Only on behalf of a caller, with a report that was really uploaded.     *)
Refresh(n) ==
    /\ \E c \in Callers : state[c] = "asked" /\ asked[c][n] # None
    /\ \E v \in Versions \ malformed : v >= source[n] /\ source' = [source EXCEPT ![n] = v]
    /\ UNCHANGED <<storeVars, broken, state, asked, answer>>

Answer(c) ==
    /\ state[c] = "asked"
    /\ \A n \in Clusters : source[n] >= asked[c][n] \/ asked[c][n] \in broken[n]
    /\ Goto(c, "ok")
    /\ answer' = [answer EXCEPT ![c] =
                    [n \in Clusters |-> IF asked[c][n] = None THEN None ELSE source[n]]]
    /\ UNCHANGED <<storeVars, source, broken, asked>>

Break(c, n) ==
    /\ state[c] = "asked" /\ asked[c][n] # None
    /\ Goto(c, "error")
    /\ broken' = [broken EXCEPT ![n] = @ \cup {asked[c][n]}]
    /\ asked' = [asked EXCEPT ![c] = Nothing]
    /\ UNCHANGED <<storeVars, source, answer>>

Leave(c) ==
    /\ state[c] \in {"ok", "error"}
    /\ Goto(c, "idle")
    /\ asked' = [asked EXCEPT ![c] = Nothing]
    /\ answer' = [answer EXCEPT ![c] = Nothing]
    /\ UNCHANGED <<storeVars, source, broken>>

Forget ==
    /\ source' = Nothing
    /\ broken' = [n \in Clusters |-> {}]
    /\ state' = [c \in Callers |-> "idle"]
    /\ asked' = [c \in Callers |-> Nothing]
    /\ answer' = [c \in Callers |-> Nothing]
    /\ UNCHANGED storeVars

Next ==
    \/ \E c \in Callers : Ask(c) \/ Refuse(c) \/ Answer(c) \/ Leave(c)
    \/ \E c \in Callers, n \in Clusters : Break(c, n)
    \/ \E n \in Clusters : Refresh(n)
    \/ \E n \in Clusters : (Upload(n) \/ Delete(n))
                           /\ UNCHANGED <<source, broken, state, asked, answer>>
    \/ Forget

Spec == Init /\ [][Next]_sourceVars
=============================================================================
