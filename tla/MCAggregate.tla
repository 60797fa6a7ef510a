---------------------------- MODULE MCAggregate ----------------------------
(***************************************************************************)
(* Reports with up to two constraints, either of one template or of two.   *)
(* A constraint's name comes with different metadata and audit timestamps, *)
(* and its groups overlap with those of the other reports.  Attribute 1 is *)
(* the only one of an identity.                                            *)
(***************************************************************************)
EXTENDS Aggregate

Team(x) == [k \in {1} |-> x]
MCIdentities == {NoIdentity, Team(1), Team(2)}

MCViolation(text, identity) == [text |-> text, identity |-> identity, cluster |-> NoText]

Instance(text) == MCViolation(text, NoIdentity)
GroupOf(text, identity, instances) ==
    [pattern |-> MCViolation(text, identity), instances |-> instances]

GroupLists == {
    << GroupOf(1, Team(1), <<Instance(2), Instance(1)>>) >>,
    << GroupOf(1, Team(2), <<Instance(1)>>),
       GroupOf(1, Team(1), <<Instance(1), Instance(1)>>) >> }

(* Of the sources and the docstring one text is enough: they are compared  *)
(* and passed on, nothing more.                                            *)
MCMetadata == { [severity |-> 1, source |-> 1, audit |-> 1],
              [severity |-> 1, source |-> 2, audit |-> 2],
              [severity |-> 2, source |-> 1, audit |-> 3] }

ConstraintsNamed(name) ==
    { << [name |-> name, metadata |-> m, groups |-> gs] >> :
        m \in MCMetadata, gs \in GroupLists }

Template(kind, constraints) == [kind |-> kind, constraints |-> constraints]

TemplateLists ==
    {<<>>}
    \cup { <<Template(2, a)>> : a \in ConstraintsNamed(1) }
    \cup { <<Template(2, b \o a)>> : a \in ConstraintsNamed(1), b \in ConstraintsNamed(2) }
    \cup { <<Template(2, a), Template(1, b)>> :
              a \in ConstraintsNamed(1), b \in ConstraintsNamed(1) }

MCReports == [identity : {Team(1)}, templates : TemplateLists]
             \cup [identity : {NoIdentity}, templates : {<<>>} \cup
                      { <<Template(2, a)>> : a \in ConstraintsNamed(1) }]

MCFilters == {
    EmptyFilter,
    [EmptyFilter EXCEPT !.cluster = [k \in {1} |-> {1}]],
    [EmptyFilter EXCEPT !.kind = {2}, !.severity = {1}],
    [EmptyFilter EXCEPT !.name = {1}],
    [EmptyFilter EXCEPT !.object = [k \in {1} |-> {2}]] }
=============================================================================
