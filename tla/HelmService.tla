---------------------------- MODULE HelmService ----------------------------
(***************************************************************************)
(* The HelmParser server with the parser of HelmRelease.  The clients send *)
(* releases of Helm, or those that helm-manifest-generator makes of a      *)
(* declaration for the policy tests.                                       *)
(***************************************************************************)
EXTENDS HelmRelease, HelmParser

(* The parser, of whatever may reach it: the value of parse.               *)
Outcomes == [b \in {Received(x) : x \in UNION Range(Bodies)} |-> Helm3Parse(b)]

(* What YAML can express, and what JSON can: only maps and lists have       *)
(* something below them.                                                   *)
IsTree(v) ==
    /\ v \in [DOMAIN v -> Range(v)]
    /\ <<>> \in DOMAIN v
    /\ \A p \in DOMAIN v :
          /\ p \in Seq(Range(p))
          /\ \A i \in 0 .. Len(p) - 1 :
                /\ SubSeq(p, 1, i) \in DOMAIN v
                /\ v[SubSeq(p, 1, i)] \in {YamlNode, JsonNode, ListNode}

IsJson(v) ==
    /\ IsTree(v) /\ Marshals(v)
    /\ \A p \in DOMAIN v : \A i \in DOMAIN p : p[i][1] \in {"string", "index"}

(* (The name of an owner info is never empty: it begins with "owner-of-".) *)
IsRelease(release) ==
    /\ OwnerInfoName(release.name) # NoText
    /\ release.manifest \in Seq(Range(release.manifest))
    /\ \A document \in ToSet(release.manifest) : IsTree(document)
    /\ IsJson(release.config)

ASSUME ServiceAssumption ==
    /\ DOMAIN Bodies = Requests
    /\ \A b \in UNION Range(Bodies) : IsRelease(b.release)
    /\ parse = Outcomes
    /\ Failed = Failure

Parsed(r) == pc[r] = "replied" /\ Len(reply[r]) = 2
Result(r) == reply[r][2]
Sent(r) == body[r].release

(* The nodes of a tree, with the paths to them as JSON would write them,   *)
(* and the places where no other key is written like one on the way there. *)
Nodes(v) == {<<Written(p), NormalNode(v[p])>> : p \in DOMAIN v}
Unrivalled(v) ==
    {p \in DOMAIN v : \A i \in DOMAIN p : Rivals(v, SubSeq(p, 1, i)) = {SubSeq(p, 1, i)}}

(* An answer with a release speaks of the whole body that the client sent, *)
(* also of one beyond the limit (main.go:77), and of every document in it: *)
(* each item has the nodes of its document in the same places, and no      *)
(* others.  Of keys that are written alike, such as 1 and "1" in the data  *)
(* of a Secret, one survives.                                              *)
AnswersWholeBody ==
    \A r \in {q \in Requests : Parsed(q)} :
        LET docs == Sent(r).manifest
            items == Result(r).items
        IN  /\ Len(items) = Len(docs)
            /\ \A i \in DOMAIN docs :
                  /\ Nodes(items[i]) \subseteq Nodes(docs[i])
                  /\ \A p \in DOMAIN docs[i] :
                        p = <<>> \/ Front(p) \in Unrivalled(docs[i]) => Written(p) \in DOMAIN items[i]
            /\ Result(r).values = Sent(r).config

(* The owner info is told from the release's own ConfigMap, and from no    *)
(* other: its data section is repeated, with empty texts for nulls, and    *)
(* there is none without it (helm-manifest-parser/README.md).  Where a     *)
(* field is not spelled as in the struct but in other ways, the owner info *)
(* is that of some reading of all the items, not of several in parts.      *)
OwnerInfoIsRepeated ==
    \A r \in {q \in Requests : Parsed(q)} :
        \E at \in ReadingsOf(Result(r).items) :
            LET items == Result(r).items
                own == {i \in DOMAIN items :
                           /\ NodeAt(items[i], at[i].kind) = Str("ConfigMap")
                           /\ NodeAt(items[i], at[i].name) = Str(OwnerInfoName(Sent(r).name))}
                data == Below(items[Min(own)], Head(at[Min(own)].data))
                owner == Result(r).owner
            IN  IF own = {} THEN owner = EmptyMap
                ELSE /\ DOMAIN owner = DOMAIN data
                     /\ \A p \in DOMAIN data :
                           owner[p] = IF data[p] = Null /\ p # <<>> THEN Str(NoText) ELSE data[p]

(* "GenerateMockRelease() is kind of the reverse of ParseRelease()"        *)
(* (generator.go:29): a parsed release, generated and parsed again, is the *)
(* same, but that defaults are filled in and that an owner info is never   *)
(* missing from the items; and a second time nothing changes any more.     *)
(* Only an item with a field in several spellings, none of which is the    *)
(* struct's, may be taken for the owner info by one and not by the other.  *)
Regenerated(c) ==
    {Helm3Parse([release |-> p, size |-> 0, damaged |-> FALSE, cut |-> FALSE]) :
        p \in GenerateMockRelease(c)}

Complete(c) ==
    [WithDefaults(c) EXCEPT
        !.items = IF /\ c.owner = EmptyMap
                     /\ \A item \in ToSet(@) : \A at \in Readings(item) : ~IsOwnerInfo(item, at, c.name)
                  THEN Append(@, OwnerInfoItem(c)) ELSE @]

ReadInOneWay(c) ==
    \A item \in ToSet(c.items) : \E at \in Readings(item) : Readings(item) = {at}

GeneratorReversesParser ==
    \A r \in {q \in Requests : Parsed(q) /\ ReadInOneWay(Result(q))} :
        \A outcomes \in Regenerated(Result(r)) :
            /\ outcomes = {<<"release", Complete(Result(r))>>}
            /\ Regenerated(Complete(Result(r))) = {outcomes}
=============================================================================
