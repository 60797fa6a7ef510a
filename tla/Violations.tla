---------------------------- MODULE Violations -----------------------------
(***************************************************************************)
(* What the analyzer and the API compute on single violations              *)
(* (internal/doop/violation.go, doop-analyzer/process.go).  A violation is *)
(* a record of its text fields and of "identity", a function on some of    *)
(* the object identity attributes.  Texts are opaque: regular expressions  *)
(* appear as the functions from the texts they match to the replacements.  *)
(***************************************************************************)
EXTENDS Sequences, SequencesExt

TextFields == {"kind", "name", "namespace", "message"}
Fields == TextFields \cup {"identity"}

(* The value that encoding/json leaves out ("omitempty").                  *)
NoText == ""
NoIdentity == [k \in {} |-> NoText]
Omitted(f) == IF f = "identity" THEN NoIdentity ELSE NoText

(* Mutant: identities that have the same attributes are taken to agree.    *)
DifferenceToByKeys(v, pattern) ==
    [f \in Fields |-> IF \/ v[f] = pattern[f]
                          \/ (f = "identity" /\ DOMAIN v[f] = DOMAIN pattern[f])
                       THEN Omitted(f) ELSE v[f]]

(* v without the fields that are identical to those of the pattern.        *)
DifferenceTo(v, pattern) ==
    [f \in Fields |-> IF v[f] = pattern[f] THEN Omitted(f) ELSE v[f]]

-----------------------------------------------------------------------------
(* A rule applies if every attribute that it matches exists and has an     *)
(* accepted text, and the text of its source attribute is one its pattern  *)
(* accepts: the domain of replace, which gives the targets' new texts.     *)
(* Every target is computed from the one match that was made at the start, *)
(* so that the random order in which Go visits them makes no difference.   *)

Applies(rule, data) ==
    /\ \A a \in DOMAIN rule.match :
          a \in DOMAIN data /\ data[a] \in rule.match[a]
    /\ rule.source \in DOMAIN data
    /\ data[rule.source] \in DOMAIN rule.replace

Execute(data, rule) ==
    IF Applies(rule, data) THEN rule.replace[data[rule.source]] @@ data ELSE data

(* The rules work on a flat map of all attributes.  A target that is not   *)
(* an attribute of the violation is visible to later rules and then lost.  *)
ExecuteRules(rules, v) ==
    LET data == FoldLeft(Execute, [f \in TextFields |-> v[f]] @@ v.identity, rules)
    IN  [f \in Fields |-> IF f = "identity"
                          THEN [k \in DOMAIN v.identity |-> data[k]]
                          ELSE data[f]]
=============================================================================
