---------------------------- MODULE HelmRelease ----------------------------
(***************************************************************************)
(* Helm releases (internal/helmv3, internal/util/normalize.go): what       *)
(* ParseRelease makes of the release in a Secret, and GenerateMockRelease  *)
(* of the declaration of a release.  A value is a tree: a function from    *)
(* the paths that lead to a node, by keys and indices, to what is there.   *)
(* Maps are told apart by their Go type: yaml.v2 decodes into map[any]any, *)
(* JSON and NormalizeRecursively give map[string]any.  What may depend on  *)
(* the order in which Go visits a map is the set of its possible outcomes. *)
(***************************************************************************)
EXTENDS Integers, FiniteSetsExt, SequencesExt, TLC

CONSTANT EqualFold(_, _)   \* texts that differ at most in upper and lower case

Null == <<"null">>
NoText == ""
NaN == <<"nan">>                      \* .nan, which JSON cannot express
Str(s) == <<"string", s>>
Number(n) == <<"int", n>>
Index(i) == <<"index", i>>            \* in a path: the place in a list
ListNode == <<"list">>
YamlNode == <<"map[any]any">>
JsonNode == <<"map[string]any">>

Scalar(node) == [p \in {<<>>} |-> node]
EmptyMap == Scalar(JsonNode)
Broken == Scalar(<<"broken">>)        \* a document that is no YAML
Failure == <<"error">>
Undecodable == Scalar(Failure)

(* A node with a set of pairs: the steps and the trees that they lead to.  *)
Tree(node, children) ==
    [p \in {<<>>} \cup UNION {{<<c[1]>> \o q : q \in DOMAIN c[2]} : c \in children} |->
        IF p = <<>> THEN node ELSE (CHOOSE c \in children : c[1] = Head(p))[2][Tail(p)]]

(* What is at a path, and what is below a key.                             *)
NodeAt(v, p) == IF p \in DOMAIN v THEN v[p] ELSE Null
Below(v, k) ==
    IF <<k>> \in DOMAIN v
    THEN [p \in {Tail(q) : q \in {x \in DOMAIN v : x # <<>> /\ Head(x) = k}} |-> v[<<k>> \o p]]
    ELSE Scalar(Null)

-----------------------------------------------------------------------------
(* NormalizeRecursively.  No outcome is an error: a key that is neither a  *)
(* string nor an integer.                                                  *)
KeyIsNormal(k) == k[1] \in {"string", "int", "index"}
NormalizeKey(k) == IF k[1] = "int" THEN Str(ToString(k[2])) ELSE k

Written(p) == [i \in DOMAIN p |-> NormalizeKey(p[i])]
NormalNode(node) == IF node = YamlNode THEN JsonNode ELSE node

(* The values of a map whose keys become the same as the last one of p.    *)
Rivals(v, p) ==
    {q \in DOMAIN v \ {<<>>} : Front(q) = Front(p) /\ NormalizeKey(Last(q)) = NormalizeKey(Last(p))}
Contested(v) ==
    {c \in {Rivals(v, p) : p \in DOMAIN v \ {<<>>}} : \E p, q \in c : p # q}

(* The last visited wins, and is kept with what is below it.               *)
Winners(v) == {w \in [Contested(v) -> UNION Contested(v)] : \A c \in Contested(v) : w[c] \in c}
Kept(v, winner) ==
    {p \in DOMAIN v : \A i \in DOMAIN p :
        LET q == SubSeq(p, 1, i)
        IN  Rivals(v, q) \in DOMAIN winner => winner[Rivals(v, q)] = q}

Normalized(v, kept) ==
    [x \in {Written(p) : p \in kept} |-> NormalNode(v[CHOOSE p \in kept : Written(p) = x])]

Normalize(v) ==
    IF \E p \in DOMAIN v : \E i \in DOMAIN p : ~KeyIsNormal(p[i]) THEN {}
    ELSE {Normalized(v, Kept(v, winner)) : winner \in Winners(v)}

NormalizeAll(list) ==
    {s \in [DOMAIN list -> UNION {Normalize(v) : v \in ToSet(list)}] :
        \A i \in DOMAIN list : s[i] \in Normalize(list[i])}

(* encoding/json cannot express a map[any]any, nor a number that is none.  *)
Marshals(v) == \A p \in DOMAIN v : v[p] \notin {YamlNode, NaN}

(* Written as YAML and read again, every map is a map[any]any.             *)
ThroughYaml(v) == [p \in DOMAIN v |-> IF v[p] = JsonNode THEN YamlNode ELSE v[p]]

-----------------------------------------------------------------------------
(* mapstructure.Decode, as far as it is used: fields that are missing or   *)
(* null stay empty; a field of another type than the struct's is an error. *)
(* A field is at the key of its name or, if there is none, at any key that *)
(* differs from it in case only: the first of them that Go visits.         *)
Kind == <<Str("kind")>>
Metadata == <<Str("metadata")>>
Name == <<Str("metadata"), Str("name")>>
Data == Str("data")

IsText(node) == node = Null \/ (Len(node) = 2 /\ node = Str(node[2]))
Text(node) == IF node = Null THEN NoText ELSE node[2]
IsStruct(node) == node \in {Null, YamlNode, JsonNode}

Spellings(v, p, k) ==
    LET others == {q \in DOMAIN v \ {<<>>} :
                      /\ Front(q) = p
                      /\ Last(q)[1] = "string" /\ EqualFold(Last(q)[2], k[2])}
    IN  IF Append(p, k) \in DOMAIN v \/ others = {} THEN {Append(p, k)} ELSE others

(* The places where Decode may find the fields of an item, of each item.   *)
Readings(item) ==
    UNION {{[kind |-> k, metadata |-> m, name |-> n, data |-> d] :
               k \in Spellings(item, <<>>, Str("kind")),
               n \in Spellings(item, m, Str("name")),
               d \in Spellings(item, <<>>, Data)} :
           m \in Spellings(item, <<>>, Str("metadata"))}

ReadingsOf(items) ==
    {at \in [DOMAIN items -> UNION {Readings(item) : item \in ToSet(items)}] :
        \A i \in DOMAIN items : at[i] \in Readings(items[i])}

Decodes(item, at) ==
    /\ IsStruct(NodeAt(item, <<>>)) /\ IsStruct(NodeAt(item, at.metadata))
    /\ IsText(NodeAt(item, at.kind)) /\ IsText(NodeAt(item, at.name))

OwnerInfoName(release) == "owner-of-" \o release
IsOwnerInfo(item, at, release) ==
    /\ Text(NodeAt(item, at.kind)) = "ConfigMap"
    /\ Text(NodeAt(item, at.name)) = OwnerInfoName(release)

DecodeStrings(data) ==
    IF data = Scalar(Null) THEN data
    ELSE IF IsStruct(data[<<>>]) /\ \A p \in DOMAIN data \ {<<>>} : IsText(data[p])
    THEN [p \in DOMAIN data |-> IF p = <<>> THEN JsonNode ELSE Str(Text(data[p]))]
    ELSE Undecodable

(* Mutant: the first ConfigMap that is there will do.                      *)
ExtractOwnerInfoOfAny(release, items, at) ==
    LET undecodable == {i \in DOMAIN items : ~Decodes(items[i], at[i])}
        found == {i \in DOMAIN items \ undecodable : Text(NodeAt(items[i], at[i].kind)) = "ConfigMap"}
        first == Min(undecodable \cup found)
    IN  IF undecodable \cup found = {} THEN EmptyMap
        ELSE IF first \in undecodable THEN Undecodable
        ELSE DecodeStrings(Below(items[first], Head(at[first].data)))

(* The data of the first owner-info ConfigMap, unless an item before it is *)
(* none that has a kind and a name.                                        *)
ExtractOwnerInfo(release, items, at) ==
    LET undecodable == {i \in DOMAIN items : ~Decodes(items[i], at[i])}
        found == {i \in DOMAIN items \ undecodable : IsOwnerInfo(items[i], at[i], release)}
        first == Min(undecodable \cup found)
    IN  IF undecodable \cup found = {} THEN EmptyMap
        ELSE IF first \in undecodable THEN Undecodable
        ELSE DecodeStrings(Below(items[first], Head(at[first].data)))

-----------------------------------------------------------------------------
(* A body is Base64 in Base64 around a gzip stream around JSON, unless it  *)
(* is "damaged" in one of these layers; it may have lost its end.          *)

(* What can still be read of the release then: not its last document.      *)
Readable(in) ==
    IF in.cut /\ in.release.manifest # <<>>
    THEN [in.release EXCEPT !.manifest = Front(@)] ELSE in.release

(* Mutant: a stream that ends early counts as read.                        *)
UnpacksCut(in) == ~in.damaged

(* A cut of whole Base64 groups decodes; gunzip then misses the trailer.   *)
Unpacks(in) == ~in.damaged /\ ~in.cut

(* convertManifestToItemsList: documents, each decoded and normalized.     *)
ConvertManifest(manifest) ==
    IF Broken \in ToSet(manifest) THEN {} ELSE NormalizeAll(manifest)

Contents(parsed, items, values, at) ==
    LET owner == ExtractOwnerInfo(parsed.name, items, at)
    IN  IF owner = Undecodable THEN Failure
        ELSE <<"release", [name |-> parsed.name, namespace |-> parsed.namespace,
                           status |-> parsed.status, version |-> parsed.version,
                           items |-> items, values |-> values, owner |-> owner]>>

ParseRelease(in) ==
    LET parsed == Readable(in)
        all == UNION {{Contents(parsed, items, values, at) :
                          values \in Normalize(parsed.config), at \in ReadingsOf(items)} :
                      items \in ConvertManifest(parsed.manifest)}
    IN  IF ~Unpacks(in) \/ all = {} THEN {Failure} ELSE all

(* helm3parse: what ParseRelease returns is rendered as JSON.              *)
Helm3Parse(in) ==
    {IF o = Failure \/ \A item \in ToSet(o[2].items) : Marshals(item)
     THEN o ELSE Failure : o \in ParseRelease(in)}

-----------------------------------------------------------------------------
(* GenerateMockRelease: the payload of the Secret.                         *)
WithDefaults(c) ==
    [c EXCEPT !.namespace = IF @ = NoText THEN c.name ELSE @,
              !.version = IF @ = 0 THEN 1 ELSE @,
              !.values = IF @ = Scalar(Null) THEN EmptyMap ELSE @]

OwnerInfoItem(c) ==
    Tree(JsonNode, {<<Str("apiVersion"), Scalar(Str("v1"))>>,
                    <<Str("kind"), Scalar(Str("ConfigMap"))>>,
                    <<Str("metadata"), Tree(JsonNode,
                        {<<Str("name"), Scalar(Str(OwnerInfoName(c.name)))>>})>>,
                    <<Data, c.owner>>})

(* Mutant: the owner info is added whether or not it is there.             *)
ManifestOfAlways(c, at) ==
    [i \in DOMAIN c.items |-> ThroughYaml(c.items[i])] \o
        IF c.owner = Scalar(Null) THEN <<>> ELSE <<ThroughYaml(OwnerInfoItem(c))>>

ManifestOf(c, at) ==
    [i \in DOMAIN c.items |-> ThroughYaml(c.items[i])] \o
        IF c.owner = Scalar(Null) \/ \E i \in DOMAIN c.items : IsOwnerInfo(c.items[i], at[i], c.name)
        THEN <<>> ELSE <<ThroughYaml(OwnerInfoItem(c))>>

GenerateMockRelease(c) ==
    LET d == WithDefaults(c)
        decoded == {at \in ReadingsOf(c.items) :
                       \A i \in DOMAIN c.items : Decodes(c.items[i], at[i])}
        all == {[name |-> d.name, namespace |-> d.namespace, status |-> d.status,
                 version |-> d.version, config |-> v, manifest |-> ManifestOf(d, at)] :
                    v \in {n \in Normalize(d.values) : Marshals(n)}, at \in decoded}
    IN  IF c.name = NoText \/ c.status = NoText THEN {} ELSE all
=============================================================================
