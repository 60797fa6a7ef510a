--------------------------- MODULE MCHelmService ---------------------------
(***************************************************************************)
(* Releases of up to two documents, out of a collection of what the parser *)
(* has to tell apart, and mock releases for declarations.                  *)
(***************************************************************************)
EXTENDS HelmService

Map(pairs) == Tree(YamlNode, pairs)
List(values) == Tree(ListNode, {<<Index(i), values[i]>> : i \in DOMAIN values})
Word(s) == Scalar(Str(s))
Empty == Scalar(Null)

Object(kind, name, data) == Map({
    <<Str("kind"), kind>>,
    <<Str("metadata"), Map({<<Str("name"), name>>})>>,
    <<Str("data"), data>> })

Pod == Object(Word("Pod"), Word("web"), Empty)
Collision == Object(Word("Secret"), Word("web"),
    Map({<<Number(1), Word("a")>>, <<Str("1"), List(<<Word("b"), Scalar(NaN)>>)>>}))
Owner(data) == Object(Word("ConfigMap"), Word("owner-of-app"), data)
OwnerInfo == Owner(Map({<<Str("team"), Word("a")>>, <<Number(7), Empty>>}))

(* Keys with their fields in other spellings, and in several of them.      *)
MCEqualFold(s, t) ==
    \E alike \in {{"kind", "Kind"}, {"metadata", "Metadata"}, {"name", "Name"}, {"data", "Data", "DATA"}} :
        {s, t} \subseteq alike

Team(s) == Map({<<Str("team"), Word(s)>>})
Respelled(others) == Map({
    <<Str("Kind"), Word("ConfigMap")>>,
    <<Str("Metadata"), Map({<<Str("Name"), Word("owner-of-app")>>})>>,
    <<Str("Data"), Team("a")>> } \cup others)

Documents == {
    Respelled({}), Respelled({<<Str("DATA"), Team("b")>>}), Respelled({<<Str("data"), Team("c")>>}),
    Respelled({<<Str("kind"), Word("Secret")>>}), Map({<<Str("Kind"), Scalar(Number(5))>>}),
    Pod, Collision, OwnerInfo, Empty, Broken, List(<<Pod>>),
    Owner(Empty),
    Owner(Map({<<Str("team"), Scalar(Number(7))>>})),
    Object(Word("ConfigMap"), Word("owner-of-web"), Map({<<Str("team"), Word("b")>>})),
    Object(Scalar(Number(1)), Word("web"), Empty),
    Object(Word("Pod"), Empty, Map({<<NaN, Word("a")>>})),
    Map({<<Str("metadata"), Word("web")>>}) }

Release(manifest, config) ==
    [name |-> "app", namespace |-> "apps", status |-> "deployed", version |-> 2,
     config |-> config, manifest |-> manifest]

Manifests == {<<>>} \cup {<<d>> : d \in Documents} \cup
    {<<d, e>> : d, e \in Documents}

Values == Tree(JsonNode, {<<Str("global"), Tree(JsonNode, {<<Str("region"), Word("lab")>>})>>})

(* The declarations have their defaults to fill in.                        *)
Declarations ==
    [name : {"app"}, namespace : {""}, status : {"deployed"}, version : {0},
     items : {<<>>, <<Collision>>, <<OwnerInfo>>, <<Respelled({})>>},
     values : {Map({<<Number(1), Word("a")>>, <<Str("1"), Word("b")>>})},
     owner : {Empty, Tree(JsonNode, {<<Str("team"), Word("c")>>})}]

Body(release, size, damaged) ==
    [release |-> release, size |-> size, damaged |-> damaged, cut |-> FALSE]

Everyday == {
    Body(Release(<<Pod>>, Values), 1, FALSE),
    Body(Release(<<OwnerInfo, Pod>>, Values), 2, FALSE) }

Special ==
    {Body(Release(m, Values), 1, FALSE) : m \in Manifests}
    \cup {Body(Release(<<Pod>>, Empty), 1, FALSE), Body(Release(<<Pod>>, Values), 1, TRUE)}
    \cup {Body(p, 1, FALSE) : p \in UNION {GenerateMockRelease(c) : c \in Declarations}}

(* The bodies do not interact: one client sends them all, the others two.  *)
ByClient == 1 :> (Everyday \cup Special) @@ 2 :> Everyday @@ 3 :> Everyday

(* One definition more than it seems to need: TLC computes ByClient and    *)
(* Outcomes once, but the definition that a .cfg names again and again.    *)
MCBodies == ByClient
MCParse == Outcomes
=============================================================================
