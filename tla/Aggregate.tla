----------------------------- MODULE Aggregate -----------------------------
(***************************************************************************)
(* How doop-api answers /v2/violations from the reports of the clusters    *)
(* (doop-api/aggregate.go, filter.go, internal/doop/report.go): it visits  *)
(* the reports in the random order of a Go map, merges them, and sorts the *)
(* result.  Texts are numbers whose order is that of strings.Compare, 0 is *)
(* the empty string.  The fields kind, namespace, name and message of a    *)
(* violation are one "text": nothing here treats them differently.         *)
(***************************************************************************)
EXTENDS Naturals, SequencesExt

CONSTANTS
    Clusters,   \* the names of the clusters
    Reports,    \* the decoded reports, as they may be stored
    Filters,    \* the filters that a query may ask for
    Identities  \* what may identify a cluster or an object: attributes and texts

Text == Nat
NoText == 0
NoIdentity == [k \in {} |-> NoText]

(* The types of internal/doop/report.go.  The analyzer starts a group with *)
(* an instance (process.go:118), so that no group is empty.                *)
NonEmpty(S) == Seq(S) \ {<<>>}
Violation == [text : Text, identity : Identities, cluster : Text]
ViolationGroup == [pattern : Violation, instances : NonEmpty(Violation)]
Metadata == [severity : Text, source : Text, audit : Text]
ConstraintsWith(groups) == [name : Text, metadata : Metadata, groups : groups]
TemplatesWith(constraints) == [kind : Text, constraints : constraints]
ReportForConstraint == ConstraintsWith(Seq(ViolationGroup))
ReportForTemplate == TemplatesWith(Seq(ReportForConstraint))
Report == [identity : Identities, templates : Seq(ReportForTemplate)]

ASSUME ReportsAssumption == Clusters \subseteq Text /\ Reports \subseteq Report

VARIABLES
    stored,     \* stored[n]: the report of cluster n, as decoded
    filter,     \* the FilterSet of the request
    todo,       \* the clusters that the loop has yet to visit
    identities, \* target.ClusterIdentities
    templates,  \* target.Templates
    phase       \* "visiting" or "sorted"

vars == <<stored, filter, todo, identities, templates, phase>>

-----------------------------------------------------------------------------
(* Report.SetClusterName, at loading time: every instance, no pattern.     *)
SetClusterName(report, n) ==
    LET inGroup(vg) == [vg EXCEPT !.instances =
            [i \in DOMAIN @ |-> [@[i] EXCEPT !.cluster = n]]]
        inConstraint(rc) == [rc EXCEPT !.groups = [i \in DOMAIN @ |-> inGroup(@[i])]]
        inTemplate(rt) == [rt EXCEPT !.constraints =
            [i \in DOMAIN @ |-> inConstraint(@[i])]]
    IN  [report EXCEPT !.templates = [i \in DOMAIN @ |-> inTemplate(@[i])]]

-----------------------------------------------------------------------------
(* A filter without values allows everything; an attribute that an         *)
(* identity lacks reads as the empty string.                               *)
Match(allowed, value) == allowed = {} \/ value \in allowed

EmptyFilter ==
    LET anything == [k \in {} |-> {}]
    IN  [cluster |-> anything, kind |-> {}, name |-> {}, severity |-> {}, object |-> anything]

MatchIdentity(allowed, identity) ==
    \A k \in DOMAIN allowed :
        Match(allowed[k], IF k \in DOMAIN identity THEN identity[k] ELSE NoText)

-----------------------------------------------------------------------------
(* The visitors.  Each merges into the first element of the target with    *)
(* the same key, or else appends a new one unless it would be empty.       *)

(* Mutant: a group that exists gets the new instances in place of its own. *)
VisitViolationGroupReplacing(groups, vg) ==
    LET g == SelectInSeq(groups, LAMBDA c : c.pattern = vg.pattern)
    IN  IF ~MatchIdentity(filter.object, vg.pattern.identity) THEN groups
        ELSE IF g = 0 THEN Append(groups, vg)
        ELSE [groups EXCEPT ![g].instances = vg.instances]

VisitViolationGroup(groups, vg) ==
    LET g == SelectInSeq(groups, LAMBDA c : c.pattern = vg.pattern)
    IN  IF ~MatchIdentity(filter.object, vg.pattern.identity) THEN groups
        ELSE IF g = 0 THEN Append(groups, vg)
        ELSE [groups EXCEPT ![g].instances = @ \o vg.instances]

WithoutAudit(metadata) == [metadata EXCEPT !.audit = NoText]

(* Mutant: the metadata is compared with its audit timestamp.              *)
VisitConstraintReportByAudit(constraints, rc) ==
    LET metadata == WithoutAudit(rc.metadata)
        c == SelectInSeq(constraints,
                LAMBDA x : x.name = rc.name /\ x.metadata = rc.metadata)
        Visited(groups) == FoldLeft(VisitViolationGroup, groups, rc.groups)
    IN  IF ~Match(filter.name, rc.name) \/ ~Match(filter.severity, rc.metadata.severity)
        THEN constraints
        ELSE IF c # 0 THEN [constraints EXCEPT ![c].groups = Visited(@)]
        ELSE IF Visited(<<>>) = <<>> THEN constraints
        ELSE Append(constraints, [name |-> rc.name, metadata |-> metadata,
                                  groups |-> Visited(<<>>)])

VisitConstraintReport(constraints, rc) ==
    LET metadata == WithoutAudit(rc.metadata)
        c == SelectInSeq(constraints,
                LAMBDA x : x.name = rc.name /\ x.metadata = metadata)
        Visited(groups) == FoldLeft(VisitViolationGroup, groups, rc.groups)
    IN  IF ~Match(filter.name, rc.name) \/ ~Match(filter.severity, rc.metadata.severity)
        THEN constraints
        ELSE IF c # 0 THEN [constraints EXCEPT ![c].groups = Visited(@)]
        ELSE IF Visited(<<>>) = <<>> THEN constraints
        ELSE Append(constraints, [name |-> rc.name, metadata |-> metadata,
                                  groups |-> Visited(<<>>)])

(* Mutant: a template is listed though its constraints are filtered out.   *)
VisitTemplateReportKeepsEmpty(target, rt) ==
    LET t == SelectInSeq(target, LAMBDA x : x.kind = rt.kind)
        Visited(constraints) ==
            FoldLeft(VisitConstraintReport, constraints, rt.constraints)
    IN  IF ~Match(filter.kind, rt.kind) THEN target
        ELSE IF t # 0 THEN [target EXCEPT ![t].constraints = Visited(@)]
        ELSE Append(target, [kind |-> rt.kind, constraints |-> Visited(<<>>)])

(* Mutant: every report adds its own templates.                            *)
VisitTemplateReportUnmerged(target, rt) ==
    LET Visited(constraints) ==
            FoldLeft(VisitConstraintReport, constraints, rt.constraints)
    IN  IF ~Match(filter.kind, rt.kind) \/ Visited(<<>>) = <<>> THEN target
        ELSE Append(target, [kind |-> rt.kind, constraints |-> Visited(<<>>)])

VisitTemplateReport(target, rt) ==
    LET t == SelectInSeq(target, LAMBDA x : x.kind = rt.kind)
        Visited(constraints) ==
            FoldLeft(VisitConstraintReport, constraints, rt.constraints)
    IN  IF ~Match(filter.kind, rt.kind) THEN target
        ELSE IF t # 0 THEN [target EXCEPT ![t].constraints = Visited(@)]
        ELSE IF Visited(<<>>) = <<>> THEN target
        ELSE Append(target, [kind |-> rt.kind, constraints |-> Visited(<<>>)])

-----------------------------------------------------------------------------
(* Sorting.  For lists of up to twelve elements slices.SortFunc is an      *)
(* insertion sort: each element in turn passes those that it is less than, *)
(* until it meets one that it is not.                                      *)

Insert(order, i, less) ==
    LET p == Max({0} \cup {k \in DOMAIN order : <<i, order[k]>> \notin less})
    IN  InsertAt(order, p + 1, i)

(* The order in which the positions 1 .. n come out, if "less" has a pair  *)
(* of positions whenever the first one's element is less than the other's. *)
InsertionOrder(n, less) ==
    FoldLeft(LAMBDA order, i : Insert(order, i, less), <<>>, [i \in 1 .. n |-> i])

Sorted(seq, Less(_, _)) ==
    LET positions == DOMAIN seq
        order == InsertionOrder(Len(seq),
                     {p \in positions \X positions : Less(seq[p[1]], seq[p[2]])})
    IN  [i \in positions |-> seq[order[i]]]

(* Violation.CompareTo does not look at the object identity.               *)
Before(v, w) ==
    v.text < w.text \/ (v.text = w.text /\ v.cluster < w.cluster)

SortGroup(vg) == [vg EXCEPT !.instances = Sorted(@, Before)]

SortConstraint(rc) ==
    LET sorted == Sorted(rc.groups, LAMBDA x, y : Before(x.pattern, y.pattern))
    IN  [rc EXCEPT !.groups = [i \in DOMAIN sorted |-> SortGroup(sorted[i])]]

SortTemplate(rt) ==
    LET sorted == Sorted(rt.constraints, LAMBDA x, y : x.name < y.name)
    IN  [rt EXCEPT !.constraints = [i \in DOMAIN sorted |-> SortConstraint(sorted[i])]]

SortTemplates(rts) ==
    LET sorted == Sorted(rts, LAMBDA x, y : x.kind < y.kind)
    IN  [i \in DOMAIN sorted |-> SortTemplate(sorted[i])]

-----------------------------------------------------------------------------
Init ==
    /\ stored \in [Clusters -> Reports]
    /\ filter \in Filters
    /\ todo = Clusters
    /\ identities = [n \in {} |-> NoIdentity]
    /\ templates = <<>>
    /\ phase = "visiting"

Identified(n, identity) ==
    [m \in DOMAIN identities \cup {n} |-> IF m = n THEN identity ELSE identities[m]]

(* Mutant: the identity is given before the filter is asked.               *)
VisitClusterReportUnasked(n) ==
    /\ phase = "visiting"
    /\ n \in todo
    /\ todo' = todo \ {n}
    /\ LET report == SetClusterName(stored[n], n)
       IN  /\ identities' = Identified(n, report.identity)
           /\ IF MatchIdentity(filter.cluster, report.identity)
              THEN templates' = FoldLeft(VisitTemplateReport, templates,
                                         report.templates)
              ELSE UNCHANGED templates
    /\ UNCHANGED <<stored, filter, phase>>

VisitClusterReport(n) ==
    /\ phase = "visiting"
    /\ n \in todo
    /\ todo' = todo \ {n}
    /\ LET report == SetClusterName(stored[n], n)
       IN  IF MatchIdentity(filter.cluster, report.identity)
           THEN /\ identities' = Identified(n, report.identity)
                /\ templates' = FoldLeft(VisitTemplateReport, templates,
                                         report.templates)
           ELSE UNCHANGED <<identities, templates>>
    /\ UNCHANGED <<stored, filter, phase>>

Sort ==
    /\ phase = "visiting"
    /\ todo = {}
    /\ templates' = SortTemplates(templates)
    /\ phase' = "sorted"
    /\ UNCHANGED <<stored, filter, todo, identities>>

Next == (\E n \in Clusters : VisitClusterReport(n)) \/ Sort

Spec == Init /\ [][Next]_vars

-----------------------------------------------------------------------------
(* What a list of templates says, at each place in it.  Its constraints    *)
(* are told apart by their metadata without the audit timestamp.           *)
Entries(rts) ==
    LET groups(t, c) == rts[t].constraints[c].groups
        places == UNION {UNION {UNION {
            {<<t, c, g, i>> : i \in DOMAIN groups(t, c)[g].instances} :
                g \in DOMAIN groups(t, c)} :
                c \in DOMAIN rts[t].constraints} :
                t \in DOMAIN rts}
        entry(t, rc, vg, i) ==
            [key |-> [kind |-> rts[t].kind, name |-> rc.name,
                      metadata |-> WithoutAudit(rc.metadata), pattern |-> vg.pattern],
             violation |-> vg.instances[i]]
    IN  [p \in places |-> entry(p[1], rts[p[1]].constraints[p[2]],
                                groups(p[1], p[2])[p[3]], p[4])]

Occurrences(entries, e) == Cardinality({p \in DOMAIN entries : entries[p] = e})

(* What the report of a cluster says, marked with the cluster's name.      *)
Sent(n) == Entries(SetClusterName(stored[n], n).templates)

Asked(n, key) ==
    /\ MatchIdentity(filter.cluster, stored[n].identity)
    /\ Match(filter.kind, key.kind)
    /\ Match(filter.name, key.name)
    /\ Match(filter.severity, key.metadata.severity)
    /\ MatchIdentity(filter.object, key.pattern.identity)

Visited == Clusters \ todo

(* The answer is made of lists that are nowhere empty, and its cluster     *)
(* identities are those of visited clusters.                               *)
TypeOK ==
    /\ stored \in [Clusters -> Reports]
    /\ filter \in Filters
    /\ todo \subseteq Clusters
    /\ phase \in {"visiting", "sorted"}
    /\ DOMAIN identities \subseteq Visited
    /\ templates \in
          Seq(TemplatesWith(NonEmpty(ConstraintsWith(NonEmpty(ViolationGroup)))))

(* Whatever the order of the visits: under every key the answer has the    *)
(* violations of each cluster that was asked for, as often as its report,  *)
(* marked with that cluster's name, and no others, though only the audit   *)
(* timestamp is dropped and empty lists are left out (aggregate.go:46-66,  *)
(* 80-100).                                                                *)
ReportsExactlyTheAsked ==
    LET listed == Entries(templates)
        sent == [n \in Clusters |-> Sent(n)]
    IN  \A e \in Range(listed) \cup UNION {Range(sent[n]) : n \in Clusters} :
            LET n == e.violation.cluster
            IN  Occurrences(listed, e) = IF n \in Visited /\ Asked(n, e.key)
                                         THEN Occurrences(sent[n], e) ELSE 0

(* The clusters whose violations are listed are the ones whose identity is *)
(* given, and a filter that matches a cluster shows it even if it has no   *)
(* violations (aggregate.go:31-35).                                        *)
IdentitiesOfMatchingClusters ==
    identities = [n \in {m \in Visited : MatchIdentity(filter.cluster, stored[m].identity)}
                    |-> stored[n].identity]

(* Reports of several clusters are really merged: no two templates have    *)
(* one kind, no two constraints of a template one name and metadata, no    *)
(* two groups of a constraint one pattern.  metrics.go:101-106 relies on   *)
(* it: a label set that is reported twice fails the whole scrape.          *)
MergedCompletely ==
    /\ \A t, u \in DOMAIN templates : templates[t].kind = templates[u].kind => t = u
    /\ \A rt \in ToSet(templates) : LET rcs == rt.constraints IN
        /\ \A c, d \in DOMAIN rcs :
              rcs[c].name = rcs[d].name /\ rcs[c].metadata = rcs[d].metadata => c = d
        /\ \A rc \in ToSet(rcs) : LET vgs == rc.groups IN
              \A g, h \in DOMAIN vgs : vgs[g].pattern = vgs[h].pattern => g = h

(* "Sort sorts all lists in this report in the respective canonical order" *)
(* (internal/doop/report.go:89): the answer does not depend on the order   *)
(* in which the clusters were visited.                                     *)
AnswerIn(order) ==
    LET Add(rts, n) ==
            IF MatchIdentity(filter.cluster, stored[n].identity)
            THEN FoldLeft(VisitTemplateReport, rts, SetClusterName(stored[n], n).templates)
            ELSE rts
    IN  SortTemplates(FoldLeft(Add, <<>>, order))

CanonicalOrder ==
    phase = "sorted" => \A order \in SetToSeqs(Clusters) : templates = AnswerIn(order)
=============================================================================
