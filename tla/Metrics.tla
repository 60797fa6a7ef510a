------------------------------ MODULE Metrics ------------------------------
(***************************************************************************)
(* A scrape of doop-api (doop-api/metrics.go).  Collect aggregates the     *)
(* reports without a filter, sends the age of the oldest audit of every    *)
(* cluster, and counts violations and groups for each constraint name.     *)
(* Prometheus fails a scrape in which a label set appears twice; a metric  *)
(* with the wrong number of labels makes MustNewConstMetric panic, and     *)
(* nothing recovers a panic in the goroutine that Collect runs in.         *)
(***************************************************************************)
EXTENDS Aggregate, Integers

CONSTANTS
    ObjectIdentityKeys,  \* the attributes in DOOP_API_OBJECT_IDENTITY_LABELS
    Now,                 \* the time of the scrape
    Garbled              \* an audit timestamp that is not in RFC 3339

ASSUME TimeAssumption == Now \in Nat /\ Garbled \in Nat /\ Garbled > Now

VARIABLES
    ages,      \* doop_oldest_audit_age_seconds, for each cluster
    counted,   \* the constraints counted: <<index of template, name>>
    grouped,   \* doop_grouped_violations: the value under each label set
    raw,       \* doop_raw_violations, likewise
    scrape     \* "none", "start", "collecting", "ok", "duplicate" or "panic"

metricVars == <<vars, ages, counted, grouped, raw, scrape>>

NoMetrics == [labels \in {} |-> 0]

(* A request for /v2/violations, or a scrape, which asks without a filter. *)
MetricsInit ==
    /\ Init
    /\ ages = NoMetrics
    /\ counted = {}
    /\ grouped = NoMetrics
    /\ raw = NoMetrics
    /\ scrape \in {"none", "start"}
    /\ scrape = "start" => filter = EmptyFilter

(* The request is answered as the Aggregate module says.                   *)
Answer ==
    /\ scrape = "none"
    /\ Next
    /\ UNCHANGED <<ages, counted, grouped, raw, scrape>>

(* GetReports returned an error: it is logged, and nothing is sent.        *)
GetReportsFails ==
    /\ scrape = "start"
    /\ scrape' = "ok"
    /\ UNCHANGED <<vars, ages, counted, grouped, raw>>

-----------------------------------------------------------------------------
AuditTimes(report) ==
    {rc.metadata.audit : rc \in UNION {ToSet(rt.constraints) : rt \in ToSet(report.templates)}}
        \ {NoText}

(* The first timestamp that cannot be parsed ends the search with 0.       *)
OldestAuditAge(report) ==
    LET times == AuditTimes(report)
    IN  IF Garbled \in times THEN 0
        ELSE IF times = {} THEN -1
        ELSE Now - Min(times)

SendAges ==
    /\ scrape = "start"
    /\ scrape' = "collecting"
    /\ ages' = [n \in Clusters |-> OldestAuditAge(stored[n])]
    /\ UNCHANGED <<vars, counted, grouped, raw>>

Gather(n) ==
    /\ scrape = "collecting"
    /\ VisitClusterReport(n)
    /\ UNCHANGED <<ages, counted, grouped, raw, scrape>>

-----------------------------------------------------------------------------
(* oidValues, joined and split again: the empty list of values comes back  *)
(* as a list with one empty value.                                         *)
ValuesOf(pattern) ==
    LET Value(k) == IF k \in DOMAIN pattern.identity THEN pattern.identity[k] ELSE NoText
    IN  IF ObjectIdentityKeys = <<>> THEN <<NoText>>
        ELSE [i \in DOMAIN ObjectIdentityKeys |-> Value(ObjectIdentityKeys[i])]

(* Mutant: only the last constraint of that name is counted.               *)
LastOfThem(t, name) ==
    {Max({c \in DOMAIN templates[t].constraints : templates[t].constraints[c].name = name})}

(* Constraints of one template that differ in metadata only are counted    *)
(* together.                                                               *)
Together(t, name) ==
    {c \in DOMAIN templates[t].constraints : templates[t].constraints[c].name = name}

GroupsAt(t, c) == templates[t].constraints[c].groups
GroupPlaces(t, name) ==
    UNION {{<<c, g>> : g \in DOMAIN GroupsAt(t, c)} : c \in Together(t, name)}

(* Mutant: label values are positional, and two of them are swapped.       *)
GroupLabelsSwapped(t, p) ==
    LET rc == templates[t].constraints[p[1]]
    IN  [kind |-> rc.name, name |-> templates[t].kind, severity |-> rc.metadata.severity,
         oid |-> ValuesOf(rc.groups[p[2]].pattern)]

GroupLabels(t, p) ==
    LET rc == templates[t].constraints[p[1]]
    IN  [kind |-> templates[t].kind, name |-> rc.name, severity |-> rc.metadata.severity,
         oid |-> ValuesOf(rc.groups[p[2]].pattern)]

(* Mutant: the group is counted in the loop over its instances.            *)
GroupedCountsInstances(t, name) ==
    LET places == GroupPlaces(t, name)
        Instances(l) == UNION {{<<p, i>> : i \in DOMAIN GroupsAt(t, p[1])[p[2]].instances} :
                                  p \in {q \in places : GroupLabels(t, q) = l}}
    IN  [l \in {GroupLabels(t, p) : p \in places} |-> Cardinality(Instances(l))]

GroupedCounts(t, name) ==
    LET places == GroupPlaces(t, name)
    IN  [l \in {GroupLabels(t, p) : p \in places} |->
            Cardinality({p \in places : GroupLabels(t, p) = l})]

RawPlaces(t, name) ==
    UNION {{<<p[1], p[2], i>> : i \in DOMAIN GroupsAt(t, p[1])[p[2]].instances} :
              p \in GroupPlaces(t, name)}

WithCluster(l, n) ==
    [kind |-> l.kind, name |-> l.name, severity |-> l.severity, oid |-> l.oid, cluster |-> n]

RawLabels(t, p) ==
    WithCluster(GroupLabels(t, p), GroupsAt(t, p[1])[p[2]].instances[p[3]].cluster)

RawCounts(t, name) ==
    LET places == RawPlaces(t, name)
    IN  [l \in {RawLabels(t, p) : p \in places} |->
            Cardinality({p \in places : RawLabels(t, p) = l})]

(* All metrics sent, after the new ones.                                   *)
Joined(new, old) ==
    [l \in DOMAIN new \cup DOMAIN old |-> IF l \in DOMAIN new THEN new[l] ELSE old[l]]

CountViolations(t, name) ==
    LET newGrouped == GroupedCounts(t, name)
        newRaw == RawCounts(t, name)
    IN  /\ scrape = "collecting" /\ todo = {}
        /\ \A u \in 1 .. t - 1 : \A rc \in ToSet(templates[u].constraints) :
              <<u, rc.name>> \in counted
        /\ counted' = counted \cup {<<t, name>>}
        /\ grouped' = Joined(newGrouped, grouped)
        /\ raw' = Joined(newRaw, raw)
        /\ scrape' =
              IF \E l \in DOMAIN newGrouped : Len(l.oid) # Len(ObjectIdentityKeys)
              THEN "panic"
              ELSE IF \/ DOMAIN newGrouped \cap DOMAIN grouped # {}
                      \/ DOMAIN newRaw \cap DOMAIN raw # {}
              THEN "duplicate" ELSE "collecting"
        /\ UNCHANGED <<vars, ages>>

(* The constraints to count, each once: the keys of                        *)
(* reportsByConstraintName.                                                *)
ToCount == (UNION {{<<t, rc.name>> : rc \in ToSet(templates[t].constraints)} :
                      t \in DOMAIN templates}) \ counted

FinishScrape ==
    /\ scrape = "collecting" /\ todo = {}
    /\ ToCount = {}
    /\ scrape' = "ok"
    /\ UNCHANGED <<vars, ages, counted, grouped, raw>>

MetricsNext ==
    \/ Answer
    \/ GetReportsFails
    \/ SendAges
    \/ \E n \in Clusters : Gather(n)
    \/ \E k \in ToCount : CountViolations(k[1], k[2])
    \/ FinishScrape

MetricsSpec == MetricsInit /\ [][MetricsNext]_metricVars

-----------------------------------------------------------------------------
Complete == scrape = "ok" /\ todo = {}

(* Nothing is sent about a constraint before it is counted, and what is    *)
(* sent is positive.                                                       *)
MetricsTypeOK ==
    /\ scrape \in {"none", "start", "collecting", "ok", "duplicate", "panic"}
    /\ \A l \in DOMAIN raw : raw[l] \in Nat \ {0}
    /\ \A l \in DOMAIN grouped :
          grouped[l] \in Nat \ {0} /\ \E t \in DOMAIN templates :
              templates[t].kind = l.kind /\ <<t, l.name>> \in counted

(* No label set is sent twice, although constraints with the same name and *)
(* severity stay apart in the aggregated report when other metadata differ *)
(* (metrics.go:101-106).                                                   *)
NoDuplicateLabels == scrape # "duplicate"

(* What the metrics tell of a key, and of an entry, of a report.           *)
LabelsOf(key) == [kind |-> key.kind, name |-> key.name,
                  severity |-> key.metadata.severity, oid |-> ValuesOf(key.pattern)]

RawLabelsOf(e) == WithCluster(LabelsOf(e.key), e.violation.cluster)

(* A completed scrape counts every violation of every cluster, once, under *)
(* the labels of its own report.                                           *)
EveryViolationCounted ==
    Complete =>
        LET sent == [n \in Clusters |-> Sent(n)]
        IN  raw = [l \in UNION {{RawLabelsOf(e) : e \in Range(sent[n])} : n \in Clusters} |->
                      Cardinality({p \in DOMAIN sent[l.cluster] :
                                      RawLabelsOf(sent[l.cluster][p]) = l})]

(* A completed scrape counts every violation group, and one that several   *)
(* clusters have with the same metadata and pattern only once, under labels*)
(* that do not name a cluster.  So the code says of itself: "No cluster    *)
(* name here" (metrics.go:147).  The README (doop-api/README.md:50) and the*)
(* help text (metrics.go:54) say "grouped by constraint, source cluster    *)
(* and selected object identity labels", which is not what is counted.     *)
Keys == UNION {{e.key : e \in Range(Sent(n))} : n \in Clusters}

GroupsCountedOnce ==
    Complete => grouped = [l \in {LabelsOf(k) : k \in Keys} |->
                              Cardinality({k \in Keys : LabelsOf(k) = l})]

(* A scrape survives any labels that may be configured: "(empty)" is the   *)
(* documented default (doop-api/README.md:22).                             *)
ScrapeDoesNotPanic == scrape # "panic"

(* "to ensure that the error is noticed, report a very old timestamp that  *)
(* likely triggers alerts" (metrics.go:127): a cluster with a timestamp    *)
(* that cannot be parsed looks no fresher than any other.                  *)
GarbledLooksOld ==
    \A n, m \in DOMAIN ages : Garbled \in AuditTimes(stored[n]) => ages[n] >= ages[m]
=============================================================================
