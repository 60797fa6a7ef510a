----------------------------- MODULE Grouping ------------------------------
(***************************************************************************)
(* ProcessReport for one constraint (doop-analyzer/process.go): the raw    *)
(* violations are rewritten by the processing rules and gathered into      *)
(* groups with a common pattern, which the merging rules compute.  One     *)
(* action is one turn of the loop over the violations.                     *)
(***************************************************************************)
EXTENDS Violations, Naturals

CONSTANTS
    Violation,      \* the set of violations
    Reported,       \* those of them that Gatekeeper may report
    process,        \* what the processing rules make of a violation
    merge,          \* what the merging rules make of a violation
    MaxViolations   \* bound: violations of one constraint

ASSUME RulesAssumption ==
    /\ Reported \subseteq Violation
    /\ MaxViolations \in Nat
    /\ process \in [Violation -> Violation]
    /\ merge \in [Violation -> Violation]
    /\ \A v \in Violation : DOMAIN v = Fields

VARIABLES
    violations,   \* rc.Violations
    groups,       \* rc.ViolationGroups
    turn,         \* index of the violation that the loop looks at
    status        \* "start", "loop", "done" or "panic"

vars == <<violations, groups, turn, status>>

Init ==
    /\ violations \in UNION {[1 .. n -> Reported] : n \in 0 .. MaxViolations}
    /\ groups = <<>>
    /\ turn = 1
    /\ status = "start"

(* The violation of a turn after the processing rules, and its pattern.    *)
Processed(i) == process[violations[i]]
Pattern(i) == merge[Processed(i)]
(* Mutant: the pattern shares its identity map with the violation.         *)
InstanceSharesIdentity(i) ==
    DifferenceTo([Processed(i) EXCEPT !.identity = Pattern(i).identity], Pattern(i))

Instance(i) == DifferenceTo(Processed(i), Pattern(i))

(* Mutant: only the group that was filled last is tried.                   *)
LastCandidate ==
    {g \in DOMAIN groups : g = Len(groups) /\ groups[g].pattern = Pattern(turn)}

(* The groups into which the violation of this turn can be merged.         *)
Candidates == {g \in DOMAIN groups : groups[g].pattern = Pattern(turn)}

Start ==
    /\ status = "start"
    /\ status' = IF Len(groups) = 0 THEN "loop" ELSE "panic"
    /\ UNCHANGED <<violations, groups, turn>>

(* Mutant: the loop skips the violation after one that it merged.           *)
MergeIntoGroupOverrun(g) ==
    /\ status = "loop" /\ turn <= Len(violations)
    /\ g \in Candidates
    /\ \A h \in Candidates : g <= h
    /\ groups' = [groups EXCEPT ![g].instances = Append(@, Instance(turn))]
    /\ turn' = turn + 2
    /\ UNCHANGED <<violations, status>>

MergeIntoGroup(g) ==
    /\ status = "loop" /\ turn <= Len(violations)
    /\ g \in Candidates
    /\ \A h \in Candidates : g <= h
    /\ groups' = [groups EXCEPT ![g].instances = Append(@, Instance(turn))]
    /\ turn' = turn + 1
    /\ UNCHANGED <<violations, status>>

StartGroup ==
    /\ status = "loop" /\ turn <= Len(violations)
    /\ Candidates = {}
    /\ groups' = Append(groups, [pattern |-> Pattern(turn),
                                 instances |-> <<Instance(turn)>>])
    /\ turn' = turn + 1
    /\ UNCHANGED <<violations, status>>

(* rc.Violations becomes nil; the specification keeps what was processed   *)
(* so that the result can be compared with it.                             *)
Finish ==
    /\ status = "loop" /\ turn > Len(violations)
    /\ status' = "done"
    /\ UNCHANGED <<violations, groups, turn>>

(* process-once is handed a report that was processed already.             *)
ProcessAgain ==
    /\ status = "done"
    /\ status' = "start"
    /\ UNCHANGED <<violations, groups, turn>>

Next ==
    \/ Start
    \/ \E g \in DOMAIN groups : MergeIntoGroup(g)
    \/ StartGroup
    \/ Finish
    \/ ProcessAgain

Spec == Init /\ [][Next]_vars

-----------------------------------------------------------------------------
Difference == {DifferenceTo(v, merge[v]) : v \in Violation}
Group == [pattern : Violation, instances : Seq(Difference)]
Merged == 1 .. turn - 1     \* the turns that are over

TypeOK ==
    /\ violations \in Seq(Reported)
    /\ groups \in Seq(Group)
    /\ turn \in 1 .. Len(violations) + 1
    /\ status \in {"start", "loop", "done", "panic"}

(* No two groups of a constraint have the same pattern: what could be      *)
(* merged has been merged, however the patterns interleave in the report   *)
(* (process.go:108-115).                                                   *)
DistinctPatterns ==
    \A g, h \in DOMAIN groups : groups[g].pattern = groups[h].pattern => g = h

(* What a group should list of the violation of turn i.                    *)
Expected(i) == DifferenceTo(Processed(i), Pattern(i))

(* The whole result: every violation is listed once, in the group of its   *)
(* pattern, as the processing rules left it and not as the merging rules   *)
(* rewrite it (process.go:103 clones the violation), and the instances of  *)
(* a group come in the order of the report.  m gives the turn of each.     *)
ListsItsViolations(group) ==
    \E m \in [DOMAIN group.instances -> Merged] :
        /\ \A j, k \in DOMAIN m : j < k => m[j] < m[k]
        /\ \A i \in Merged : Pattern(i) = group.pattern <=> \E k \in DOMAIN m : m[k] = i
        /\ \A k \in DOMAIN m : group.instances[k] = Expected(m[k])

GroupsListAllViolations ==
    /\ \A g \in DOMAIN groups : ListsItsViolations(groups[g])
    /\ \A i \in Merged : \E g \in DOMAIN groups : groups[g].pattern = Pattern(i)

(* How a reader of the report completes an instance: "omitting all fields  *)
(* from instances that are identical to the respective fields in the       *)
(* pattern" (internal/doop/violation.go:19-20).                            *)
Completed(instance, pattern) ==
    [f \in Fields |-> IF instance[f] = Omitted(f) THEN pattern[f] ELSE instance[f]]

Agrees(v, w) == \A f \in Fields : v[f] \in {w[f], Omitted(f)}

(* So completed, every instance is the violation that it stands for,       *)
(* whatever the rules made of both.  Only a field that the violation itself*)
(* has empty cannot be told from one that agrees with the pattern.         *)
InstancesAreComplete ==
    \A g \in DOMAIN groups : \A k \in DOMAIN groups[g].instances :
        \E i \in Merged :
            /\ Pattern(i) = groups[g].pattern
            /\ Agrees(Processed(i), Completed(groups[g].instances[k], groups[g].pattern))
=============================================================================
