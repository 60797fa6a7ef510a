---------------------------- MODULE MCGrouping -----------------------------
(***************************************************************************)
(* A small rule set in the manner of the examples in                       *)
(* doop-analyzer/README.md: Helm releases are recognized by their Secrets, *)
(* pods are merged by their owner, whatever team runs them.                *)
(***************************************************************************)
EXTENDS TextRules

team == "object_identity.team"
Identities == {NoIdentity} \cup {[a \in {team} |-> t] : t \in {"red", "any"}}

MCViolation ==
    [kind : {"Pod", "Secret", "Helm 3 release"},
     name : {"web-1", "web-2", "web-*", "rel.v1", "rel"},
     namespace : {"", "default"}, message : {"no limit"},
     identity : Identities]

MCReported ==
    [kind : {"Pod"}, name : {"web-1", "web-2"}, namespace : {""},
     message : {"no limit"}, identity : {NoIdentity, [a \in {team} |-> "red"]}]
    \cup [kind : {"Secret"}, name : {"rel.v1", "rel"}, namespace : {"default"},
          message : {"no limit"}, identity : {NoIdentity}]

NoMatch == [a \in {} |-> {}]

(* The target "note" is no attribute; it lives until the second rule.      *)
ProcessingRules == <<
    [match |-> [kind |-> {"Secret"}], source |-> "name",
     replace |-> [x \in {"rel.v1"} |->
                    [kind |-> "Helm 3 release", note |-> "release"]]],
    [match |-> [note |-> {"release"}], source |-> "kind",
     replace |-> [x \in {"Helm 3 release"} |-> [name |-> "rel"]]] >>

MergingRules == <<
    [match |-> [kind |-> {"Pod"}], source |-> "name",
     replace |-> [x \in {"web-1", "web-2"} |->
                    [name |-> "web-*", namespace |-> "default"]]],
    [match |-> NoMatch, source |-> team,
     replace |-> [x \in {"red"} |-> [a \in {team} |-> "any"]]] >>

MCprocess == [v \in MCViolation |-> ExecuteRules(ProcessingRules, v)]
MCmerge == [v \in MCViolation |-> ExecuteRules(MergingRules, v)]

-----------------------------------------------------------------------------
(* Any small JSON object with strings and no ">>" in it, and any message on*)
(* one line, even one that looks like an object again.                     *)
MCJsonObjects ==
    {<<Open, Close>>} \cup
    {<<Open>> \o indent \o <<Quote>> \o string \o <<Quote, Close>> :
        indent \in UpTo(1, {Space}), string \in UpTo(2, {"w", Space, Open, Close})}
MCSeparators == {indent \o <<">>">> \o space : indent \in UpTo(1, Blanks), space \in UpTo(1, {Space})}
MCMessages == UpTo(4, {"w", Open, Close, ">>", Space})

MCDecimal == [n \in {0, 1, 2, 11, 12} |->
                 IF n > 9 THEN <<"1", ToString(n - 10)>> ELSE <<ToString(n)>>]
MCTextPieces == {<<"w">>, <<"$">>, <<"w", "1">>}

(* What is matched may look like a placeholder itself.                     *)
MCMatches == {[n \in 0 .. last |-> IF n % 2 = 1 THEN <<"$", "1">> ELSE <<"w">>] : last \in {0, 1, 11}}
=============================================================================
