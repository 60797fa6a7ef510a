-------------------------- MODULE HelmServiceProofs -------------------------
(***************************************************************************)
(* The semaphore of the helm-manifest-parser holds for any number of       *)
(* requests and slots, and whatever the parser makes of the bodies.  What  *)
(* it answers with is proved for all bodies, and all trees in them, that   *)
(* YAML can express: the lemmas go from keys and paths to trees, lists of  *)
(* documents, the owner info, and the release that is generated again.     *)
(***************************************************************************)
EXTENDS HelmService, FiniteSetTheorems, SequenceTheorems, NaturalsInduction,
        WellFoundedInduction, TLAPS

(* The requests in flight can be counted.                                  *)
LEMMA FinitelyManyInFlight ==
    IsFiniteSet(InFlight) /\ Cardinality(InFlight) \in Nat
<1>1. InFlight \subseteq Requests
    BY DEF InFlight
<1> QED
    BY <1>1, ParserAssumption, FS_Subset, FS_CardinalityType DEF ParserAssumption

(* A step within the handler, or before the semaphore, moves nobody past   *)
(* it: only the label of one goroutine changes.                            *)
LEMMA StaysInFlight ==
    ASSUME TypeOK, NEW r \in Requests, NEW label,
           pc' = [pc EXCEPT ![r] = label],
           pc[r] \in {"running", "parsing", "replied"}
              <=> label \in {"running", "parsing", "replied"}
    PROVE  InFlight' = InFlight
BY DEF TypeOK, InFlight

(* Passing the semaphore and returning, one is more, or one is less.       *)
LEMMA AcquireCounts ==
    ASSUME ChannelInv, NEW r \in Requests, Acquire(r)
    PROVE  Cardinality(InFlight)' = Cardinality(InFlight) + 1
<1>1. r \notin InFlight /\ InFlight' = InFlight \cup {r}
    BY DEF ChannelInv, TypeOK, Acquire, Goto, InFlight
<1> QED
    BY <1>1, FinitelyManyInFlight, FS_AddElement

LEMMA ReturnCounts ==
    ASSUME ChannelInv, NEW r \in Requests, Return(r)
    PROVE  Cardinality(InFlight)' = Cardinality(InFlight) - 1
<1>1. r \in InFlight /\ InFlight' = InFlight \ {r}
    BY DEF ChannelInv, TypeOK, Return, Goto, InFlight
<1> QED
    BY <1>1, FinitelyManyInFlight, FS_RemoveElement

LEMMA ChannelInit == Init => ChannelInv
<1> SUFFICES ASSUME Init PROVE ChannelInv
    OBVIOUS
<1>1. InFlight = {}
    BY DEF Init, InFlight
<1> QED
    BY <1>1, ParserAssumption, FS_EmptySet DEF Init, ChannelInv, TypeOK, ParserAssumption

LEMMA ChannelStep == ChannelInv /\ [Next]_vars => ChannelInv'
<1> SUFFICES ASSUME ChannelInv, [Next]_vars PROVE ChannelInv'
    OBVIOUS
<1> USE ParserAssumption DEF ParserAssumption
<1>1. ASSUME NEW r \in Requests, Arrive(r) PROVE ChannelInv'
    <2>1. InFlight' = InFlight
        BY <1>1, StaysInFlight DEF ChannelInv, Arrive, Goto
    <2> QED
        BY <1>1, <2>1 DEF ChannelInv, TypeOK, Arrive, Goto
<1>2. ASSUME NEW r \in Requests, Acquire(r) PROVE ChannelInv'
    <2>1. Cardinality(InFlight)' = Cardinality(InFlight) + 1
        BY <1>2, AcquireCounts
    <2> QED
        BY <1>2, <2>1 DEF ChannelInv, TypeOK, Acquire, Goto
<1>3. ASSUME NEW r \in Requests, HealthCheck(r) \/ NotFound(r) \/ ReadFails(r)
      PROVE  ChannelInv'
    <2>1. /\ pc[r] = "running" /\ pc' = [pc EXCEPT ![r] = "replied"]
          /\ UNCHANGED <<channel, listening>>
        BY <1>3 DEF HealthCheck, NotFound, ReadFails, Reply, Goto
    <2>2. InFlight' = InFlight
        BY <2>1, StaysInFlight DEF ChannelInv
    <2> QED
        BY <2>1, <2>2 DEF ChannelInv, TypeOK
<1>4. ASSUME NEW r \in Requests, Read(r) PROVE ChannelInv'
    <2>1. InFlight' = InFlight
        BY <1>4, StaysInFlight DEF ChannelInv, Read, Goto
    <2> QED
        BY <1>4, <2>1 DEF ChannelInv, TypeOK, Read, Goto
<1>5. ASSUME NEW r \in Requests, ParseBody(r) PROVE ChannelInv'
    <2>1. InFlight' = InFlight
        BY <1>5, StaysInFlight DEF ChannelInv, ParseBody, Goto
    <2> QED
        BY <1>5, <2>1 DEF ChannelInv, TypeOK, ParseBody, Goto
<1>6. ASSUME NEW r \in Requests, Return(r) PROVE ChannelInv'
    <2>1. Cardinality(InFlight)' = Cardinality(InFlight) - 1
        BY <1>6, ReturnCounts
    <2>2. Cardinality(InFlight)' \in Nat
        <3>1. r \in InFlight /\ InFlight' = InFlight \ {r}
            BY <1>6 DEF ChannelInv, TypeOK, Return, Goto, InFlight
        <3> QED
            BY <3>1, FinitelyManyInFlight, FS_RemoveElement, FS_CardinalityType
    <2> QED
        BY <1>6, <2>1, <2>2 DEF ChannelInv, TypeOK, Return, Goto
<1>7. ASSUME Interrupt \/ UNCHANGED vars PROVE ChannelInv'
    <2>1. UNCHANGED <<pc, channel>> /\ listening' \in BOOLEAN
        BY <1>7 DEF Interrupt, vars, ChannelInv, TypeOK
    <2>2. InFlight' = InFlight
        BY <2>1 DEF InFlight
    <2> QED
        BY <2>1, <2>2 DEF ChannelInv, TypeOK
<1> QED
    BY <1>1, <1>2, <1>3, <1>4, <1>5, <1>6, <1>7 DEF Next, Handle

(* The channel always has exactly one element for each request in flight.  *)
THEOREM ChannelCounts == Spec => []ChannelInv
BY ChannelInit, ChannelStep, PTL DEF Spec

(* Every variable keeps its type: nobody receives from an empty channel,   *)
(* and nobody sends into a full one.                                       *)
THEOREM ChannelTyped == Spec => []TypeOK
<1>1. ChannelInv => TypeOK
    BY DEF ChannelInv
<1> QED
    BY <1>1, ChannelCounts, PTL

(* Never are more requests in flight than the semaphore has slots          *)
(* (helm-manifest-parser/main.go:43), whichever way the earlier ones ended.*)
THEOREM MemoryIsBounded == Spec => []InFlightBounded
<1>1. ChannelInv => InFlightBounded
    BY ParserAssumption DEF ChannelInv, TypeOK, InFlightBounded, ParserAssumption
<1> QED
    BY <1>1, ChannelCounts, PTL

-----------------------------------------------------------------------------
(* Nodes and keys.                                                         *)
LEMMA NodesDiffer ==
    /\ JsonNode # YamlNode /\ JsonNode # NaN /\ JsonNode # Null
    /\ \A s : Str(s) \notin {YamlNode, JsonNode, NaN, Null}
BY DEF JsonNode, YamlNode, NaN, Null, Str

LEMMA Words ==
    ASSUME NEW s
    PROVE  /\ Str(s)[1] = "string" /\ Str(s)[2] = s
           /\ IsText(Str(s)) /\ Text(Str(s)) = s
BY NodesDiffer DEF Str, IsText, Text

LEMMA WordsAre ==
    ASSUME NEW node, NEW s, s # NoText
    PROVE  IsText(node) /\ Text(node) = s <=> node = Str(s)
BY NodesDiffer, Words DEF IsText, Text

IsPlainKey(k) == k[1] \in {"string", "index"}

LEMMA Keys ==
    ASSUME NEW k
    PROVE  /\ IsPlainKey(k) => KeyIsNormal(k) /\ NormalizeKey(k) = k
           /\ KeyIsNormal(k) => IsPlainKey(NormalizeKey(k))
           /\ NormalizeKey(NormalizeKey(k)) = NormalizeKey(k)
<1>1. \A s : Str(s)[1] = "string"
  BY Words
<1>2. QED
  BY <1>1 DEF IsPlainKey, KeyIsNormal, NormalizeKey

LEMMA NormalNodes ==
    ASSUME NEW node
    PROVE  /\ NormalNode(NormalNode(node)) = NormalNode(node) /\ NormalNode(node) # YamlNode
           /\ node # YamlNode => NormalNode(node) = node
           /\ NormalNode(YamlNode) = JsonNode
BY NodesDiffer DEF NormalNode

(* Paths.                                                                  *)
IsPath(p) == p \in Seq(Range(p))

LEMMA Paths ==
    ASSUME NEW p, IsPath(p)
    PROVE  /\ Len(p) \in Nat /\ DOMAIN p = 1 .. Len(p)
           /\ p = [i \in 1 .. Len(p) |-> p[i]]
           /\ p = <<>> <=> Len(p) = 0
BY DEF IsPath

LEMMA FunctionsArePaths ==
    ASSUME NEW n \in Nat, NEW p, DOMAIN p = 1 .. n, p = [i \in 1 .. n |-> p[i]]
    PROVE  IsPath(p) /\ Len(p) = n
<1>1. \A i \in 1 .. n : p[i] \in Range(p)
  BY DEF Range
<1>2. p \in [1 .. n -> Range(p)]
  BY <1>1
<1>3. QED
  BY <1>2, IsASeq DEF IsPath

LEMMA WrittenPaths ==
    ASSUME NEW p, IsPath(p)
    PROVE  /\ IsPath(Written(p)) /\ Len(Written(p)) = Len(p)
           /\ \A i \in 1 .. Len(p) : Written(p)[i] = NormalizeKey(p[i])
<1>1. Len(p) \in Nat /\ DOMAIN p = 1 .. Len(p)
  BY Paths
<1>2. Written(p) = [i \in 1 .. Len(p) |-> NormalizeKey(p[i])]
  BY <1>1 DEF Written
<1>3. DOMAIN Written(p) = 1 .. Len(p)
      /\ Written(p) = [i \in 1 .. Len(p) |-> Written(p)[i]]
  BY <1>2
<1>4. QED
  BY <1>1, <1>2, <1>3, FunctionsArePaths

LEMMA SamePaths ==
    ASSUME NEW p, NEW q, IsPath(p), IsPath(q), Len(p) = Len(q),
           \A i \in 1 .. Len(p) : p[i] = q[i]
    PROVE  p = q
<1>1. /\ p = [i \in 1 .. Len(p) |-> p[i]]
      /\ q = [i \in 1 .. Len(q) |-> q[i]]
  BY Paths
<1>2. QED
  BY <1>1

LEMMA WrittenTwice ==
    ASSUME NEW p, IsPath(p)
    PROVE  Written(Written(p)) = Written(p)
<1>1. IsPath(Written(p)) /\ IsPath(Written(Written(p)))
      /\ Len(Written(Written(p))) = Len(Written(p)) /\ Len(Written(p)) = Len(p)
  BY WrittenPaths
<1>2. \A i \in 1 .. Len(p) : Written(Written(p))[i] = Written(p)[i]
  BY <1>1, WrittenPaths, Keys
<1>3. QED
  BY <1>1, <1>2, SamePaths

IsPlainPath(p) == IsPath(p) /\ \A i \in DOMAIN p : IsPlainKey(p[i])

LEMMA PlainPaths ==
    ASSUME NEW p, IsPlainPath(p)
    PROVE  Written(p) = p
<1>1. IsPath(p) /\ IsPath(Written(p)) /\ Len(Written(p)) = Len(p)
  BY WrittenPaths DEF IsPlainPath
<1>2. \A i \in 1 .. Len(p) : Written(p)[i] = p[i]
  BY <1>1, WrittenPaths, Paths, Keys DEF IsPlainPath
<1>3. QED
  BY <1>1, <1>2, SamePaths

LEMMA Fronts ==
    ASSUME NEW p, IsPath(p), p # <<>>
    PROVE  /\ IsPath(Front(p)) /\ Len(p) \in Nat \ {0} /\ Len(Front(p)) = Len(p) - 1
           /\ \A i \in 1 .. Len(p) - 1 : Front(p)[i] = p[i]
           /\ Last(p) = p[Len(p)]
<1>1. Len(p) \in Nat \ {0} /\ DOMAIN p = 1 .. Len(p)
  BY Paths
<1> DEFINE n == Len(p) - 1
<1>2. n \in Nat
  BY <1>1
<1>3. Front(p) = [i \in 1 .. n |-> p[i]]
  <2>1. SubSeq(p, 1, n) = [i \in 1 .. (1 + n - 1) |-> p[i + 1 - 1]]
    BY <1>1
  <2>2. 1 + n - 1 = n /\ \A i \in 1 .. n : i + 1 - 1 = i
    BY <1>2
  <2> HIDE DEF n
  <2>3. SubSeq(p, 1, n) = [i \in 1 .. n |-> p[i]]
    BY <2>1, <2>2
  <2>4. QED
    BY <2>3 DEF Front, n
<1>4. DOMAIN Front(p) = 1 .. n /\ Front(p) = [i \in 1 .. n |-> Front(p)[i]]
      /\ \A i \in 1 .. n : Front(p)[i] = p[i]
  BY <1>3
<1>5. IsPath(Front(p)) /\ Len(Front(p)) = n
  <2> HIDE DEF n
  <2>1. QED
    BY <1>2, <1>4, FunctionsArePaths
<1>6. Last(p) = p[Len(p)]
  BY DEF Last
<1>7. QED
  BY <1>1, <1>4, <1>5, <1>6

LEMMA FrontAndLast ==
    ASSUME NEW p, NEW q, IsPath(p), IsPath(q), p # <<>>, q # <<>>,
           Front(p) = Front(q), Last(p) = Last(q)
    PROVE  p = q
<1>1. Len(p) = Len(q) /\ Len(p) \in Nat \ {0}
  BY Fronts
<1>2. p[Len(p)] = q[Len(p)]
  BY <1>1, Fronts
<1>3. \A i \in 1 .. Len(p) - 1 : p[i] = q[i]
  BY <1>1, Fronts
<1>4. \A i \in 1 .. Len(p) : p[i] = q[i]
  BY <1>1, <1>2, <1>3
<1>5. QED
  BY <1>1, <1>4, SamePaths

(* Paths that are written alike up to their last step and there.           *)
LEMMA WrittenFromFront ==
    ASSUME NEW p, NEW q, IsPath(p), IsPath(q), p # <<>>, q # <<>>,
           Front(p) = Front(q), NormalizeKey(Last(p)) = NormalizeKey(Last(q))
    PROVE  Written(p) = Written(q)
<1>1. Len(p) = Len(q) /\ Len(p) \in Nat \ {0}
  BY Fronts
<1>2. NormalizeKey(p[Len(p)]) = NormalizeKey(q[Len(p)])
  BY <1>1, Fronts
<1>3. \A i \in 1 .. Len(p) - 1 : p[i] = q[i]
  BY <1>1, Fronts
<1>4. \A i \in 1 .. Len(p) : NormalizeKey(p[i]) = NormalizeKey(q[i])
  BY <1>1, <1>2, <1>3
<1>5. /\ IsPath(Written(p)) /\ IsPath(Written(q))
      /\ Len(Written(p)) = Len(p) /\ Len(Written(q)) = Len(q)
  BY WrittenPaths
<1>6. \A i \in 1 .. Len(p) : Written(p)[i] = Written(q)[i]
  BY <1>1, <1>4, WrittenPaths
<1>7. QED
  BY <1>1, <1>5, <1>6, SamePaths

-----------------------------------------------------------------------------
(* Normalizing.                                                            *)
HasPaths(v) == <<>> \in DOMAIN v /\ \A p \in DOMAIN v : IsPath(p)

LEMMA EmptyPath ==
    /\ IsPath(<<>>) /\ Len(<<>>) = 0 /\ DOMAIN <<>> = {} /\ Written(<<>>) = <<>>
    /\ IsPlainPath(<<>>)
<1>1. IsPath(<<>>) /\ Len(<<>>) = 0 /\ DOMAIN <<>> = {}
  BY DEF IsPath
<1>2. IsPlainPath(<<>>)
  BY <1>1 DEF IsPlainPath
<1>3. QED
  BY <1>1, <1>2, PlainPaths

LEMMA TreesHavePaths ==
    ASSUME NEW v, IsTree(v)
    PROVE  HasPaths(v)
BY DEF IsTree, HasPaths, IsPath

LEMMA NormalizeIs ==
    ASSUME NEW v, NEW w \in Normalize(v)
    PROVE  /\ \A p \in DOMAIN v : \A i \in DOMAIN p : KeyIsNormal(p[i])
           /\ \E winner \in Winners(v) : w = Normalized(v, Kept(v, winner))
BY DEF Normalize

LEMMA NormalizedIs ==
    ASSUME NEW v, NEW kept, NEW w, w = Normalized(v, kept)
    PROVE  /\ \A p \in kept : Written(p) \in DOMAIN w
           /\ w = [x \in DOMAIN w |-> w[x]]
           /\ \A x \in DOMAIN w : \E p \in kept : Written(p) = x /\ w[x] = NormalNode(v[p])
<1> DEFINE At(x) == CHOOSE p \in kept : Written(p) = x
<1>1. w = [x \in {Written(p) : p \in kept} |-> NormalNode(v[At(x)])]
  BY DEF Normalized
<1>2. DOMAIN w = {Written(p) : p \in kept} /\ w = [x \in DOMAIN w |-> w[x]]
  BY <1>1
<1>3. ASSUME NEW x \in DOMAIN w
      PROVE  \E p \in kept : Written(p) = x /\ w[x] = NormalNode(v[p])
  <2>1. At(x) \in kept /\ Written(At(x)) = x
    BY <1>2
  <2> HIDE DEF At
  <2>2. w[x] = NormalNode(v[At(x)])
    BY <1>1, <1>2
  <2>3. QED
    BY <2>1, <2>2
<1>4. QED
  BY <1>2, <1>3

LEMMA KeptIsThere ==
    ASSUME NEW v, HasPaths(v), NEW winner
    PROVE  Kept(v, winner) \subseteq DOMAIN v /\ <<>> \in Kept(v, winner)
BY EmptyPath DEF Kept, HasPaths

(* The nodes of the result are nodes of the tree, in the same places.      *)
LEMMA NormalizeKeepsNodes ==
    ASSUME NEW v, HasPaths(v), NEW w \in Normalize(v)
    PROVE  Nodes(w) \subseteq Nodes(v)
<1>1. PICK winner \in Winners(v) : w = Normalized(v, Kept(v, winner))
  BY NormalizeIs
<1> DEFINE kept == Kept(v, winner)
<1> HIDE DEF kept
<1>0. \A x \in DOMAIN w : \E p \in kept : Written(p) = x /\ w[x] = NormalNode(v[p])
  BY <1>1, NormalizedIs DEF kept
<1>2. ASSUME NEW x \in DOMAIN w
      PROVE  \E p \in DOMAIN v : Written(x) = Written(p) /\ NormalNode(w[x]) = NormalNode(v[p])
  <2>1. PICK p \in kept : Written(p) = x /\ w[x] = NormalNode(v[p])
    BY <1>0
  <2>2. p \in DOMAIN v /\ IsPath(p)
    BY <2>1, KeptIsThere DEF HasPaths, kept
  <2>3. Written(x) = Written(p) /\ NormalNode(w[x]) = NormalNode(v[p])
    BY <2>1, <2>2, WrittenTwice, NormalNodes
  <2>4. QED
    BY <2>2, <2>3
<1>3. QED
  BY <1>2, Zenon DEF Nodes

LEMMA WholePath ==
    ASSUME NEW p, IsPath(p), p # <<>>
    PROVE  SubSeq(p, 1, Len(p)) = p
BY SubSeqFull DEF IsPath

LEMMA FrontOfPath ==
    ASSUME NEW p, IsPath(p), p # <<>>, NEW i \in 1 .. Len(p) - 1
    PROVE  i \in DOMAIN Front(p) /\ SubSeq(p, 1, i) = SubSeq(Front(p), 1, i)
<1> DEFINE f == Front(p)
<1>1. /\ IsPath(f) /\ Len(p) \in Nat \ {0} /\ Len(f) = Len(p) - 1
      /\ \A j \in 1 .. Len(p) - 1 : f[j] = p[j]
  BY Fronts
<1>2. DOMAIN f = 1 .. Len(f)
  BY <1>1, Paths
<1> HIDE DEF f
<1>3. SubSeq(p, 1, i) = [j \in 1 .. (1 + i - 1) |-> p[j + 1 - 1]]
      /\ SubSeq(f, 1, i) = [j \in 1 .. (1 + i - 1) |-> f[j + 1 - 1]]
  BY <1>1
<1>4. \A j \in 1 .. (1 + i - 1) : p[j + 1 - 1] = f[j + 1 - 1]
  BY <1>1
<1>5. QED
  BY <1>1, <1>2, <1>3, <1>4 DEF f

LEMMA UnrivalledIsUncontested ==
    ASSUME NEW v, NEW p \in Unrivalled(v), NEW i \in DOMAIN p
    PROVE  Rivals(v, SubSeq(p, 1, i)) \notin Contested(v)
<1>1. Rivals(v, SubSeq(p, 1, i)) = {SubSeq(p, 1, i)}
  BY DEF Unrivalled
<1>2. QED
  BY <1>1 DEF Contested

(* A path is kept if nothing on the way is contested, and it wins itself.  *)
LEMMA KeptByWinning ==
    ASSUME NEW v, HasPaths(v), NEW winner \in Winners(v),
           NEW p \in DOMAIN v, p # <<>>, Front(p) \in Unrivalled(v),
           Rivals(v, p) \in Contested(v) => winner[Rivals(v, p)] = p
    PROVE  p \in Kept(v, winner)
<1>1. IsPath(p) /\ Len(p) \in Nat \ {0} /\ DOMAIN p = 1 .. Len(p)
  BY Paths DEF HasPaths
<1>2. DOMAIN winner = Contested(v)
  BY DEF Winners
<1>3. ASSUME NEW i \in DOMAIN p
      PROVE  Rivals(v, SubSeq(p, 1, i)) \in DOMAIN winner
                => winner[Rivals(v, SubSeq(p, 1, i))] = SubSeq(p, 1, i)
  <2>1. CASE i = Len(p)
    <3>1. SubSeq(p, 1, i) = p
      BY <1>1, <2>1, WholePath
    <3>2. QED
      BY <1>2, <3>1
  <2>2. CASE i # Len(p)
    <3>1. i \in 1 .. Len(p) - 1
      BY <1>1, <2>2
    <3>2. i \in DOMAIN Front(p) /\ SubSeq(p, 1, i) = SubSeq(Front(p), 1, i)
      BY <1>1, <3>1, FrontOfPath
    <3>3. Rivals(v, SubSeq(Front(p), 1, i)) \notin Contested(v)
      BY <3>2, UnrivalledIsUncontested
    <3>4. QED
      BY <1>2, <3>2, <3>3
  <2>3. QED
    BY <2>1, <2>2
<1>4. QED
  BY <1>3, Zenon DEF Kept

(* Of the values with keys that are written alike, one remains.            *)
LEMMA NormalizeCovers ==
    ASSUME NEW v, HasPaths(v), NEW w \in Normalize(v),
           NEW p \in DOMAIN v, p = <<>> \/ Front(p) \in Unrivalled(v)
    PROVE  Written(p) \in DOMAIN w
<1>1. PICK winner \in Winners(v) : w = Normalized(v, Kept(v, winner))
  BY NormalizeIs
<1>2. \A q \in Kept(v, winner) : Written(q) \in DOMAIN w
  <2> DEFINE kept == Kept(v, winner)
  <2> HIDE DEF kept
  <2>1. \A q \in kept : Written(q) \in DOMAIN w
    BY <1>1, NormalizedIs DEF kept
  <2>2. QED
    BY <2>1 DEF kept
<1>3. CASE p = <<>>
  BY <1>2, <1>3, KeptIsThere
<1>4. CASE p # <<>>
  <2> DEFINE c == Rivals(v, p)
  <2>1. CASE c \in Contested(v)
    <3> DEFINE q == winner[c]
    <3>1. q \in c
      BY <2>1 DEF Winners
    <3>2. /\ q \in DOMAIN v /\ q # <<>> /\ Front(q) = Front(p)
          /\ NormalizeKey(Last(q)) = NormalizeKey(Last(p))
      BY <3>1 DEF Rivals
    <3>3. Rivals(v, q) = c
      BY <3>2 DEF Rivals
    <3>4. q \in Kept(v, winner)
      BY <1>4, <3>2, <3>3, KeptByWinning
    <3>5. Written(q) = Written(p)
      BY <1>4, <3>2, WrittenFromFront DEF HasPaths
    <3>6. QED
      BY <1>2, <3>4, <3>5
  <2>2. CASE c \notin Contested(v)
    <3>1. p \in Kept(v, winner)
      BY <1>4, <2>2, KeptByWinning
    <3>2. QED
      BY <1>2, <3>1
  <2>3. QED
    BY <2>1, <2>2
<1>5. QED
  BY <1>3, <1>4

-----------------------------------------------------------------------------
(* Trees that have been normalized, or that JSON has been read into.       *)
IsPlain(v) ==
    /\ HasPaths(v) /\ v = [p \in DOMAIN v |-> v[p]]
    /\ \A p \in DOMAIN v : IsPlainPath(p)

LEMMA PlainKeys ==
    ASSUME NEW v, IsPlain(v)
    PROVE  \A p \in DOMAIN v : \A i \in DOMAIN p : IsPlainKey(p[i])
BY DEF IsPlain, IsPlainPath

LEMMA NoRivals ==
    ASSUME NEW v, IsPlain(v)
    PROVE  Contested(v) = {}
<1> SUFFICES ASSUME NEW c \in Contested(v), NEW p \in c, NEW q \in c, p # q
             PROVE  FALSE
  BY DEF Contested
<1>1. PICK x \in DOMAIN v : c = Rivals(v, x)
  BY DEF Contested
<1>2. /\ p \in DOMAIN v /\ p # <<>> /\ Front(p) = Front(x)
      /\ q \in DOMAIN v /\ q # <<>> /\ Front(q) = Front(x)
      /\ NormalizeKey(Last(p)) = NormalizeKey(Last(q))
  BY <1>1 DEF Rivals
<1>3. IsPath(p) /\ IsPath(q)
  BY <1>2 DEF IsPlain, HasPaths
<1>4. IsPlainKey(Last(p)) /\ IsPlainKey(Last(q))
  BY <1>2, <1>3, Fronts, Paths, PlainKeys
<1>5. Last(p) = Last(q)
  BY <1>2, <1>4, Keys
<1>6. QED
  BY <1>2, <1>3, <1>5, FrontAndLast

LEMMA NormalizePlain ==
    ASSUME NEW v, IsPlain(v)
    PROVE  Normalize(v) = {[p \in DOMAIN v |-> NormalNode(v[p])]}
<1> DEFINE none == [c \in {} |-> <<>>]
<1>1. Contested(v) = {}
  BY NoRivals
<1>2. Winners(v) # {} /\ \A winner \in Winners(v) : DOMAIN winner = {}
  <2>1. none \in Winners(v)
    BY <1>1 DEF Winners
  <2>2. QED
    BY <1>1, <2>1 DEF Winners
<1>3. \A winner \in Winners(v) : Kept(v, winner) = DOMAIN v
  BY <1>2 DEF Kept
<1>4. Normalized(v, DOMAIN v) = [p \in DOMAIN v |-> NormalNode(v[p])]
  <2>1. \A p \in DOMAIN v : Written(p) = p
    BY PlainPaths DEF IsPlain
  <2>2. {Written(p) : p \in DOMAIN v} = DOMAIN v
    BY <2>1
  <2>3. \A x \in DOMAIN v : (CHOOSE p \in DOMAIN v : Written(p) = x) = x
    BY <2>1
  <2>4. QED
    BY <2>2, <2>3 DEF Normalized
<1>5. ~\E p \in DOMAIN v : \E i \in DOMAIN p : ~KeyIsNormal(p[i])
  BY PlainKeys, Keys
<1>6. Normalize(v) = {Normalized(v, Kept(v, winner)) : winner \in Winners(v)}
  BY <1>5 DEF Normalize
<1>7. QED
  BY <1>2, <1>3, <1>4, <1>6

LEMMA NormalizeYieldsPlain ==
    ASSUME NEW v, HasPaths(v), NEW w \in Normalize(v)
    PROVE  IsPlain(w) /\ \A x \in DOMAIN w : w[x] # YamlNode
<1>1. PICK winner \in Winners(v) : w = Normalized(v, Kept(v, winner))
  BY NormalizeIs
<1> DEFINE kept == Kept(v, winner)
<1>2. kept \subseteq DOMAIN v /\ <<>> \in kept
  BY KeptIsThere
<1> HIDE DEF kept
<1>3. /\ \A p \in kept : Written(p) \in DOMAIN w
      /\ w = [x \in DOMAIN w |-> w[x]]
      /\ \A x \in DOMAIN w : \E p \in kept : Written(p) = x /\ w[x] = NormalNode(v[p])
  BY <1>1, NormalizedIs DEF kept
<1>4. <<>> \in DOMAIN w
  BY <1>2, <1>3, EmptyPath
<1>5. ASSUME NEW x \in DOMAIN w
      PROVE  IsPath(x) /\ IsPlainPath(x) /\ w[x] # YamlNode
  <2>1. PICK p \in kept : Written(p) = x /\ w[x] = NormalNode(v[p])
    BY <1>3
  <2>2. p \in DOMAIN v /\ IsPath(p) /\ \A i \in DOMAIN p : KeyIsNormal(p[i])
    BY <1>2, <2>1, NormalizeIs DEF HasPaths
  <2>3. IsPath(x) /\ Len(x) = Len(p) /\ \A i \in 1 .. Len(p) : x[i] = NormalizeKey(p[i])
    BY <2>1, <2>2, WrittenPaths
  <2>4. DOMAIN x = 1 .. Len(p) /\ DOMAIN p = 1 .. Len(p)
    BY <2>2, <2>3, Paths
  <2>5. \A i \in DOMAIN x : IsPlainKey(x[i])
    BY <2>2, <2>3, <2>4, Keys
  <2>6. QED
    BY <2>1, <2>3, <2>5, NormalNodes DEF IsPlainPath
<1>6. QED
  BY <1>3, <1>4, <1>5 DEF IsPlain, HasPaths

LEMMA JsonIsPlain ==
    ASSUME NEW v, IsJson(v)
    PROVE  IsPlain(v) /\ Marshals(v)
<1>1. IsTree(v) /\ Marshals(v) /\ HasPaths(v)
  BY TreesHavePaths DEF IsJson
<1>2. v = [p \in DOMAIN v |-> v[p]]
  BY <1>1 DEF IsTree
<1>3. \A p \in DOMAIN v : IsPlainPath(p)
  BY <1>1 DEF IsJson, HasPaths, IsPlainPath, IsPlainKey
<1>4. QED
  BY <1>1, <1>2, <1>3 DEF IsPlain

(* What has been normalized stays as it is, also by way of YAML.           *)
LEMMA NormalizeAgain ==
    ASSUME NEW v, IsPlain(v), \A p \in DOMAIN v : v[p] # YamlNode
    PROVE  Normalize(v) = {v}
<1>1. v = [p \in DOMAIN v |-> v[p]]
  BY DEF IsPlain
<1>2. [p \in DOMAIN v |-> NormalNode(v[p])] = v
  BY <1>1, NormalNodes
<1>3. QED
  BY <1>2, NormalizePlain

LEMMA ThroughYamlAndBack ==
    ASSUME NEW v, IsPlain(v), \A p \in DOMAIN v : v[p] # YamlNode
    PROVE  Normalize(ThroughYaml(v)) = {v}
<1> DEFINE y == ThroughYaml(v)
<1>1. /\ DOMAIN y = DOMAIN v /\ y = [p \in DOMAIN y |-> y[p]]
      /\ \A p \in DOMAIN v : y[p] = IF v[p] = JsonNode THEN YamlNode ELSE v[p]
  BY DEF ThroughYaml
<1> HIDE DEF y
<1>2. IsPlain(y)
  BY <1>1 DEF IsPlain, HasPaths
<1>3. \A p \in DOMAIN v : NormalNode(y[p]) = v[p]
  BY <1>1, NormalNodes
<1>4. v = [p \in DOMAIN v |-> v[p]]
  BY DEF IsPlain
<1>5. [p \in DOMAIN y |-> NormalNode(y[p])] = v
  BY <1>1, <1>3, <1>4
<1>6. QED
  BY <1>2, <1>5, NormalizePlain DEF y

-----------------------------------------------------------------------------
(* Lists of documents.                                                     *)
LEMMA NormalizeAllIs ==
    ASSUME NEW docs, IsPath(docs), NEW items \in NormalizeAll(docs)
    PROVE  /\ IsPath(items) /\ Len(items) = Len(docs)
           /\ \A i \in 1 .. Len(docs) : items[i] \in Normalize(docs[i])
<1>1. Len(docs) \in Nat /\ DOMAIN docs = 1 .. Len(docs)
  BY Paths
<1>2. /\ items \in [DOMAIN docs -> UNION {Normalize(v) : v \in ToSet(docs)}]
      /\ \A i \in DOMAIN docs : items[i] \in Normalize(docs[i])
  BY DEF NormalizeAll
<1>3. DOMAIN items = 1 .. Len(docs) /\ items = [i \in 1 .. Len(docs) |-> items[i]]
  BY <1>1, <1>2
<1>4. IsPath(items) /\ Len(items) = Len(docs)
  BY <1>1, <1>3, FunctionsArePaths
<1>5. QED
  BY <1>1, <1>2, <1>4

LEMMA NormalizeAllAgain ==
    ASSUME NEW docs, IsPath(docs), NEW items, IsPath(items), Len(items) = Len(docs),
           \A i \in 1 .. Len(docs) : Normalize(docs[i]) = {items[i]}
    PROVE  NormalizeAll(docs) = {items}
<1>1. /\ Len(docs) \in Nat /\ DOMAIN docs = 1 .. Len(docs)
      /\ items = [i \in 1 .. Len(docs) |-> items[i]]
  BY Paths
<1> DEFINE S == UNION {Normalize(v) : v \in ToSet(docs)}
<1>2. \A i \in 1 .. Len(docs) : items[i] \in S
  <2> SUFFICES ASSUME NEW i \in 1 .. Len(docs) PROVE items[i] \in S
    OBVIOUS
  <2>1. docs[i] \in ToSet(docs)
    BY <1>1 DEF ToSet
  <2>2. QED
    BY <2>1
<1>3. NormalizeAll(docs) =
         {s \in [1 .. Len(docs) -> S] : \A i \in 1 .. Len(docs) : s[i] \in Normalize(docs[i])}
  BY <1>1 DEF NormalizeAll
<1> HIDE DEF S
<1>4. items \in NormalizeAll(docs)
  BY <1>1, <1>2, <1>3
<1>5. ASSUME NEW s \in NormalizeAll(docs)
      PROVE  s = items
  <2>1. s \in [1 .. Len(docs) -> S] /\ \A i \in 1 .. Len(docs) : s[i] = items[i]
    BY <1>3
  <2>2. QED
    BY <1>1, <2>1
<1>6. QED
  BY <1>4, <1>5

(* What an answer is made of.                                              *)
ParsedFrom(c, release) ==
    /\ c = [name |-> release.name, namespace |-> release.namespace,
            status |-> release.status, version |-> release.version,
            items |-> c.items, values |-> release.config, owner |-> c.owner]
    /\ c.items \in NormalizeAll(release.manifest)
    /\ \E at \in ReadingsOf(c.items) : c.owner = ExtractOwnerInfo(release.name, c.items, at)
    /\ c.owner # Undecodable
    /\ \A item \in ToSet(c.items) : Marshals(item)

LEMMA ParseYields ==
    ASSUME NEW in, IsRelease(in.release),
           NEW outcome \in Helm3Parse(in), outcome # Failure
    PROVE  in.cut = FALSE /\ ParsedFrom(outcome[2], in.release)
<1>1. /\ outcome \in ParseRelease(in)
      /\ \A item \in ToSet(outcome[2].items) : Marshals(item)
  BY DEF Helm3Parse
<1>2. Unpacks(in)
  BY <1>1 DEF ParseRelease
<1>3. ~in.cut /\ Readable(in) = in.release
  BY <1>2 DEF Unpacks, Readable
<1>4. PICK items \in ConvertManifest(in.release.manifest) :
         \E values \in Normalize(in.release.config), at \in ReadingsOf(items) :
            outcome = Contents(in.release, items, values, at)
  BY <1>1, <1>3 DEF ParseRelease
<1>0. PICK values \in Normalize(in.release.config), at \in ReadingsOf(items) :
         outcome = Contents(in.release, items, values, at)
  BY <1>4
<1>5. values = in.release.config
  <2>1. IsPlain(in.release.config) /\ Marshals(in.release.config)
    BY JsonIsPlain DEF IsRelease
  <2>2. Normalize(in.release.config) = {in.release.config}
    BY <2>1, NormalizeAgain DEF Marshals
  <2>3. QED
    BY <1>0, <2>2
<1>6. items \in NormalizeAll(in.release.manifest)
  BY <1>4 DEF ConvertManifest
<1> DEFINE owner == ExtractOwnerInfo(in.release.name, items, at)
           c == [name |-> in.release.name, namespace |-> in.release.namespace,
                 status |-> in.release.status, version |-> in.release.version,
                 items |-> items, values |-> in.release.config, owner |-> owner]
<1>7. owner # Undecodable /\ outcome = <<"release", c>>
  BY <1>0, <1>1, <1>5 DEF Contents
<1>8. c.items = items /\ c.owner = owner
  OBVIOUS
<1>9. outcome[2] = c
  BY <1>7
<1>10. QED
  BY <1>1, <1>3, <1>6, <1>7, <1>8, <1>9 DEF ParsedFrom

-----------------------------------------------------------------------------
(* The parts of a path that lead to nodes on the way.                      *)
LEMMA PartOfPath ==
    ASSUME NEW p, IsPath(p), NEW i \in 0 .. Len(p)
    PROVE  /\ IsPath(SubSeq(p, 1, i)) /\ Len(SubSeq(p, 1, i)) = i
           /\ \A j \in 1 .. i : SubSeq(p, 1, i)[j] = p[j]
<1>1. Len(p) \in Nat /\ DOMAIN p = 1 .. Len(p)
  BY Paths
<1>2. SubSeq(p, 1, i) = [j \in 1 .. i |-> p[j]]
  <2>1. SubSeq(p, 1, i) = [j \in 1 .. (1 + i - 1) |-> p[j + 1 - 1]]
    BY <1>1
  <2>2. 1 + i - 1 = i /\ \A j \in 1 .. i : j + 1 - 1 = j
    BY <1>1
  <2>3. QED
    BY <2>1, <2>2
<1> DEFINE s == SubSeq(p, 1, i)
<1>3. DOMAIN s = 1 .. i /\ s = [j \in 1 .. i |-> s[j]] /\ \A j \in 1 .. i : s[j] = p[j]
  BY <1>2
<1> HIDE DEF s
<1>4. IsPath(s) /\ Len(s) = i
  BY <1>1, <1>3, FunctionsArePaths
<1>5. QED
  BY <1>3, <1>4 DEF s

LEMMA PartOfPart ==
    ASSUME NEW p, IsPath(p), NEW i \in 0 .. Len(p), NEW j \in 0 .. i
    PROVE  SubSeq(SubSeq(p, 1, i), 1, j) = SubSeq(p, 1, j)
<1>1. Len(p) \in Nat /\ j \in 0 .. Len(p) /\ i \in 0 .. Len(p)
  BY Paths
<1> DEFINE s == SubSeq(p, 1, i)
<1>2. IsPath(s) /\ Len(s) = i /\ \A k \in 1 .. i : s[k] = p[k]
  BY PartOfPath
<1> HIDE DEF s
<1>3. /\ IsPath(SubSeq(s, 1, j)) /\ Len(SubSeq(s, 1, j)) = j
      /\ \A k \in 1 .. j : SubSeq(s, 1, j)[k] = s[k]
  BY <1>2, PartOfPath
<1>4. /\ IsPath(SubSeq(p, 1, j)) /\ Len(SubSeq(p, 1, j)) = j
      /\ \A k \in 1 .. j : SubSeq(p, 1, j)[k] = p[k]
  BY <1>1, PartOfPath
<1>5. \A k \in 1 .. j : SubSeq(s, 1, j)[k] = SubSeq(p, 1, j)[k]
  BY <1>1, <1>2, <1>3, <1>4
<1>6. SubSeq(s, 1, j) = SubSeq(p, 1, j)
  BY <1>3, <1>4, <1>5, SamePaths
<1>7. QED
  BY <1>6 DEF s

LEMMA WrittenPart ==
    ASSUME NEW p, IsPath(p), NEW i \in 0 .. Len(p)
    PROVE  Written(SubSeq(p, 1, i)) = SubSeq(Written(p), 1, i)
<1>1. Len(p) \in Nat
  BY Paths
<1> DEFINE s == SubSeq(p, 1, i)
           w == Written(p)
<1>2. IsPath(s) /\ Len(s) = i /\ \A j \in 1 .. i : s[j] = p[j]
  BY PartOfPath
<1>3. IsPath(w) /\ Len(w) = Len(p) /\ \A j \in 1 .. Len(p) : w[j] = NormalizeKey(p[j])
  BY WrittenPaths
<1> HIDE DEF s, w
<1>4. /\ IsPath(Written(s)) /\ Len(Written(s)) = i
      /\ \A j \in 1 .. i : Written(s)[j] = NormalizeKey(s[j])
  BY <1>2, WrittenPaths
<1>5. /\ IsPath(SubSeq(w, 1, i)) /\ Len(SubSeq(w, 1, i)) = i
      /\ \A j \in 1 .. i : SubSeq(w, 1, i)[j] = w[j]
  BY <1>3, PartOfPath
<1>6. \A j \in 1 .. i : Written(s)[j] = SubSeq(w, 1, i)[j]
  BY <1>1, <1>2, <1>3, <1>4, <1>5
<1>7. Written(s) = SubSeq(w, 1, i)
  BY <1>4, <1>5, <1>6, SamePaths
<1>8. QED
  BY <1>7 DEF s, w

(* A set of natural numbers has a least one.                               *)
LEMMA MinIsLeast ==
    ASSUME NEW I, I \subseteq Nat, I # {}
    PROVE  Min(I) \in I /\ \A i \in I : Min(I) <= i
<1> DEFINE less == {p \in Nat \X Nat : p[1] < p[2]}
<1>1. IsWellFoundedOn(less, Nat)
  BY NatLessThanWellFounded DEF OpToRel
<1>2. PICK n \in I : \A m \in I : <<m, n>> \notin less
  <2> HIDE DEF less
  <2>1. QED
    BY <1>1, WFMin, Zenon
<1>3. \A m \in I : n <= m
  <2>1. \A m \in Nat : m < n => <<m, n>> \in less
    BY DEF less
  <2> SUFFICES ASSUME NEW m \in I PROVE n <= m
    OBVIOUS
  <2>2. m \in Nat /\ n \in Nat /\ ~(m < n)
    BY <1>2, <2>1
  <2>3. QED
    BY <2>2
<1>4. QED
  BY <1>2, <1>3 DEF Min

(* Whatever is kept, what is on the way to it is kept as well.             *)
LEMMA TreesHaveParts ==
    ASSUME NEW v, IsTree(v), NEW p \in DOMAIN v, NEW i \in 0 .. Len(p)
    PROVE  /\ IsPath(p) /\ SubSeq(p, 1, i) \in DOMAIN v
           /\ i < Len(p) => v[SubSeq(p, 1, i)] \in {YamlNode, JsonNode, ListNode}
<1>1. IsPath(p) /\ Len(p) \in Nat
  BY Paths DEF IsTree, IsPath
<1>2. CASE i \in 0 .. Len(p) - 1
  BY <1>1, <1>2 DEF IsTree
<1>3. CASE i = Len(p)
  <2>1. SubSeq(p, 1, i) = p
    BY <1>1, <1>3, SubSeqFull DEF IsPath
  <2>2. ~(i < Len(p))
    BY <1>1, <1>3
  <2> HIDE <1>3
  <2>3. QED
    BY <1>1, <2>1, <2>2
<1>4. QED
  BY <1>1, <1>2, <1>3

LEMMA KeptParts ==
    ASSUME NEW v, IsTree(v), NEW winner, NEW p \in Kept(v, winner), NEW i \in 0 .. Len(p)
    PROVE  SubSeq(p, 1, i) \in Kept(v, winner)
<1>1. p \in DOMAIN v
  BY DEF Kept
<1>2. IsPath(p) /\ Len(p) \in Nat /\ DOMAIN p = 1 .. Len(p) /\ SubSeq(p, 1, i) \in DOMAIN v
  BY <1>1, TreesHaveParts, Paths
<1>3. IsPath(SubSeq(p, 1, i)) /\ Len(SubSeq(p, 1, i)) = i
  BY <1>2, PartOfPath
<1>4. DOMAIN SubSeq(p, 1, i) = 1 .. i
  BY <1>3, Paths
<1>5. \A j \in 1 .. i : j \in DOMAIN p /\ SubSeq(SubSeq(p, 1, i), 1, j) = SubSeq(p, 1, j)
  BY <1>2, PartOfPart
<1>6. QED
  BY <1>2, <1>4, <1>5 DEF Kept

(* No two nodes that are kept are written to the same place.               *)
LEMMA WrittenOnce ==
    ASSUME NEW v, IsTree(v), NEW winner \in Winners(v)
    PROVE  \A p, q \in Kept(v, winner) : Written(p) = Written(q) => p = q
<1> DEFINE kept == Kept(v, winner)
           Twice(p) == \E q \in kept : Written(p) = Written(q) /\ p # q
           I == {Len(p) : p \in {x \in kept : Twice(x)}}
<1>1. kept \subseteq DOMAIN v /\ \A p \in kept : IsPath(p) /\ Len(p) \in Nat
  BY TreesHavePaths, Paths DEF Kept, HasPaths
<1> SUFFICES ASSUME I # {} PROVE FALSE
  OBVIOUS
<1>2. I \subseteq Nat
  BY <1>1
<1>3. Min(I) \in I /\ \A n \in I : Min(I) <= n
  BY <1>2, MinIsLeast
<1>4. PICK p \in kept : Twice(p) /\ Len(p) = Min(I)
  BY <1>3
<1>5. PICK q \in kept : Written(p) = Written(q) /\ p # q
  BY <1>4
<1>6. \A x \in kept : Len(x) < Len(p) => ~Twice(x)
  <2> SUFFICES ASSUME NEW x \in kept, Twice(x) PROVE ~(Len(x) < Len(p))
    OBVIOUS
  <2>1. Len(x) \in I
    OBVIOUS
  <2>2. Min(I) <= Len(x)
    BY <1>3, <2>1
  <2> HIDE DEF I
  <2>3. QED
    BY <1>1, <1>4, <2>2
<1> HIDE DEF I, kept
<1>7. IsPath(p) /\ IsPath(q) /\ Len(p) = Len(q) /\ Len(p) \in Nat
  BY <1>1, <1>5, WrittenPaths
<1>8. Len(p) # 0 /\ p # <<>> /\ q # <<>>
  BY <1>5, <1>7, Paths
<1> DEFINE n == Len(p) - 1
<1>9. n \in 0 .. Len(p) /\ n \in 0 .. Len(q) /\ n < Len(p)
  BY <1>7, <1>8
<1>10. Front(p) = SubSeq(p, 1, n) /\ Front(q) = SubSeq(q, 1, n)
  BY <1>7 DEF Front
<1>11. Front(p) \in kept /\ Front(q) \in kept
  BY <1>9, <1>10, KeptParts DEF kept
<1>12. Written(Front(p)) = Written(Front(q)) /\ Len(Front(p)) < Len(p)
  <2>1. Written(Front(p)) = SubSeq(Written(p), 1, n)
        /\ Written(Front(q)) = SubSeq(Written(q), 1, n)
    BY <1>7, <1>9, <1>10, WrittenPart
  <2>2. Len(Front(p)) < Len(p)
    BY <1>7, <1>8, Fronts
  <2>3. QED
    BY <1>5, <2>1, <2>2
<1>13. Front(p) = Front(q)
  BY <1>6, <1>11, <1>12
<1>14. NormalizeKey(Last(p)) = NormalizeKey(Last(q))
  <2>1. Last(p) = p[Len(p)] /\ Last(q) = q[Len(p)] /\ Len(p) \in 1 .. Len(p)
    BY <1>7, <1>8, Fronts
  <2>2. NormalizeKey(p[Len(p)]) = Written(p)[Len(p)] /\ NormalizeKey(q[Len(p)]) = Written(q)[Len(p)]
    BY <1>7, <2>1, WrittenPaths
  <2>3. QED
    BY <1>5, <2>1, <2>2
<1> DEFINE rivals == Rivals(v, p)
<1>15. rivals = Rivals(v, q) /\ p \in rivals /\ q \in rivals
  BY <1>1, <1>8, <1>13, <1>14 DEF Rivals
<1>16. rivals \in Contested(v)
  BY <1>1, <1>5, <1>8, <1>15 DEF Contested
<1>17. rivals \in DOMAIN winner
  BY <1>16 DEF Winners
<1>18. SubSeq(p, 1, Len(p)) = p /\ SubSeq(q, 1, Len(q)) = q
  BY <1>7, SubSeqFull DEF IsPath
<1>19. Len(p) \in DOMAIN p /\ Len(q) \in DOMAIN q
  BY <1>7, <1>8, Paths
<1> HIDE DEF rivals
<1>20. winner[rivals] = p
  BY <1>17, <1>18, <1>19 DEF Kept, kept, rivals
<1>21. winner[rivals] = q
  <2>1. Rivals(v, q) \in DOMAIN winner
    BY <1>15, <1>17
  <2>2. QED
    BY <1>15, <1>18, <1>19, <2>1 DEF Kept, kept
<1>22. QED
  BY <1>5, <1>20, <1>21

(* What is below a null, or below a text, is nothing before and after.     *)
LEMMA NothingBelowNull ==
    ASSUME NEW v, IsTree(v), NEW w \in Normalize(v),
           NEW x \in DOMAIN w, NEW i \in 0 .. Len(x) - 1
    PROVE  SubSeq(x, 1, i) \in DOMAIN w /\ w[SubSeq(x, 1, i)] # Null
<1>1. PICK winner \in Winners(v) : w = Normalized(v, Kept(v, winner))
  BY NormalizeIs
<1> DEFINE kept == Kept(v, winner)
<1>2. \A p, q \in kept : Written(p) = Written(q) => p = q
  BY WrittenOnce
<1>3. kept \subseteq DOMAIN v
  BY DEF Kept
<1>4. \A p \in kept : \A j \in 0 .. Len(p) : SubSeq(p, 1, j) \in kept
  BY KeptParts
<1> HIDE DEF kept
<1>5. /\ \A p \in kept : Written(p) \in DOMAIN w
      /\ \A y \in DOMAIN w : \E p \in kept : Written(p) = y /\ w[y] = NormalNode(v[p])
  BY <1>1, NormalizedIs DEF kept
<1>6. PICK p \in kept : Written(p) = x
  BY <1>5
<1>7. IsPath(p) /\ Len(p) = Len(x) /\ Len(p) \in Nat
  BY <1>3, <1>6, TreesHavePaths, WrittenPaths, Paths DEF HasPaths
<1> DEFINE s == SubSeq(p, 1, i)
           y == SubSeq(x, 1, i)
<1>8. i \in 0 .. Len(p) /\ i < Len(p)
  BY <1>7
<1>9. s \in kept /\ Written(s) = y /\ v[s] \in {YamlNode, JsonNode, ListNode}
  BY <1>3, <1>4, <1>6, <1>7, <1>8, WrittenPart, TreesHaveParts
<1> HIDE DEF s, y
<1>10. PICK q \in kept : Written(q) = y /\ w[y] = NormalNode(v[q])
  BY <1>5, <1>9
<1>11. q = s
  BY <1>2, <1>9, <1>10
<1>12. NormalNode(v[s]) # Null
  BY <1>9, NodesDiffer DEF NormalNode, ListNode, JsonNode, Null
<1>13. QED
  BY <1>5, <1>9, <1>10, <1>11, <1>12 DEF y

-----------------------------------------------------------------------------
(* The owner info.                                                         *)
Own(items, at, release) ==
    {i \in DOMAIN items : /\ NodeAt(items[i], at[i].kind) = Str("ConfigMap")
                          /\ NodeAt(items[i], at[i].name) = Str(OwnerInfoName(release))}

LEMMA OwnerInfoIs ==
    ASSUME NEW item, NEW at, NEW release, OwnerInfoName(release) # NoText,
           Decodes(item, at)
    PROVE  IsOwnerInfo(item, at, release)
              <=> /\ NodeAt(item, at.kind) = Str("ConfigMap")
                  /\ NodeAt(item, at.name) = Str(OwnerInfoName(release))
<1>1. IsText(NodeAt(item, at.kind)) /\ IsText(NodeAt(item, at.name))
  BY DEF Decodes
<1>2. Text(NodeAt(item, at.kind)) = "ConfigMap" <=> NodeAt(item, at.kind) = Str("ConfigMap")
  <2>1. "ConfigMap" # NoText
    BY Zenon DEF NoText
  <2>2. QED
    BY <1>1, <2>1, WordsAre
<1>3. Text(NodeAt(item, at.name)) = OwnerInfoName(release)
         <=> NodeAt(item, at.name) = Str(OwnerInfoName(release))
  BY <1>1, WordsAre
<1>4. QED
  BY <1>2, <1>3 DEF IsOwnerInfo

LEMMA OwnerInfoFound ==
    ASSUME NEW items, IsPath(items), NEW at, NEW release, OwnerInfoName(release) # NoText,
           ExtractOwnerInfo(release, items, at) # Undecodable
    PROVE  /\ Own(items, at, release) = {} => ExtractOwnerInfo(release, items, at) = EmptyMap
           /\ Own(items, at, release) # {} =>
                 /\ Min(Own(items, at, release)) \in DOMAIN items
                 /\ ExtractOwnerInfo(release, items, at)
                       = DecodeStrings(Below(items[Min(Own(items, at, release))],
                                             Head(at[Min(Own(items, at, release))].data)))
<1> DEFINE undecodable == {i \in DOMAIN items : ~Decodes(items[i], at[i])}
           found == {i \in DOMAIN items \ undecodable : IsOwnerInfo(items[i], at[i], release)}
           stops == undecodable \cup found
           own == Own(items, at, release)
<1>1. ExtractOwnerInfo(release, items, at) =
         IF stops = {} THEN EmptyMap
         ELSE IF Min(stops) \in undecodable THEN Undecodable
         ELSE DecodeStrings(Below(items[Min(stops)], Head(at[Min(stops)].data)))
  BY DEF ExtractOwnerInfo
<1>2. DOMAIN items \subseteq Nat
  <2>1. Len(items) \in Nat /\ DOMAIN items = 1 .. Len(items)
    BY Paths
  <2>2. QED
    BY <2>1
<1>3. \A i \in DOMAIN items \ undecodable : i \in found <=> i \in own
  BY OwnerInfoIs DEF Own
<1>4. own \subseteq DOMAIN items /\ stops \subseteq DOMAIN items /\ own \subseteq stops
      /\ found \subseteq own
  BY <1>3 DEF Own
<1> HIDE DEF undecodable, found, own
<1>5. CASE stops = {}
  BY <1>1, <1>4, <1>5 DEF own
<1>6. CASE stops # {}
  <2>1. Min(stops) \in stops /\ \A i \in stops : Min(stops) <= i
    BY <1>2, <1>4, <1>6, MinIsLeast
  <2>2. Min(stops) \in found
    BY <1>1, <1>6, <2>1
  <2>3. Min(stops) \in own
    BY <1>4, <2>2
  <2>4. Min(own) \in own /\ \A i \in own : Min(own) <= i
    BY <1>2, <1>4, <2>3, MinIsLeast
  <2>5. Min(own) <= Min(stops) /\ Min(stops) <= Min(own)
    BY <1>4, <2>1, <2>3, <2>4
  <2>6. Min(own) = Min(stops)
    <3>1. Min(own) \in Nat /\ Min(stops) \in Nat
      BY <1>2, <1>4, <2>1, <2>4
    <3> DEFINE m == Min(own)
               n == Min(stops)
    <3>2. m \in Nat /\ n \in Nat /\ m <= n /\ n <= m
      BY <2>5, <3>1
    <3> HIDE DEF m, n
    <3>3. m = n
      BY <3>2
    <3>4. QED
      BY <3>3 DEF m, n
  <2>7. Min(stops) \notin undecodable
    <3>1. ASSUME Min(stops) \in undecodable
          PROVE  FALSE
      BY <1>1, <1>6, <3>1
    <3>2. QED
      BY <3>1
  <2>8. QED
    BY <1>1, <1>4, <1>6, <2>3, <2>4, <2>6, <2>7 DEF own
<1>7. QED
  BY <1>5, <1>6

(* What is below a key of a normalized tree.                               *)
LEMMA BelowKey ==
    ASSUME NEW v, NEW k, <<k>> \in DOMAIN v
    PROVE  /\ Below(v, k) = [p \in DOMAIN Below(v, k) |-> v[<<k>> \o p]]
           /\ DOMAIN Below(v, k) = {Tail(q) : q \in {x \in DOMAIN v : x # <<>> /\ Head(x) = k}}
           /\ <<>> \in DOMAIN Below(v, k) /\ Below(v, k)[<<>>] = v[<<k>>]
<1> DEFINE D == {Tail(q) : q \in {x \in DOMAIN v : x # <<>> /\ Head(x) = k}}
<1>1. Below(v, k) = [p \in D |-> v[<<k>> \o p]]
  BY DEF Below
<1>2. <<>> \in D
  <2>1. <<k>> # <<>> /\ Head(<<k>>) = k /\ Tail(<<k>>) = <<>>
    OBVIOUS
  <2>2. QED
    BY <2>1
<1>3. <<k>> \o <<>> = <<k>>
  OBVIOUS
<1> HIDE DEF D
<1>4. DOMAIN Below(v, k) = D
  BY <1>1
<1>5. Below(v, k)[<<>>] = v[<<k>>]
  BY <1>1, <1>2, <1>3
<1>6. QED
  BY <1>1, <1>2, <1>4, <1>5 DEF D

LEMMA NullDataIsEmpty ==
    ASSUME NEW v, IsTree(v), NEW w \in Normalize(v), NEW k, <<k>> \in DOMAIN w,
           w[<<k>>] = Null
    PROVE  Below(w, k) = Scalar(Null)
<1>1. \A x \in DOMAIN w : IsPath(x)
  BY NormalizeYieldsPlain, TreesHavePaths DEF IsPlain, HasPaths
<1>2. ASSUME NEW x \in DOMAIN w, x # <<>>, Head(x) = k
      PROVE  Tail(x) = <<>>
  <2>1. IsPath(x) /\ Len(x) \in Nat /\ Len(x) # 0 /\ x[1] = k
    BY <1>1, <1>2, Paths DEF IsPath
  <2>2. CASE Len(x) = 1
    <3>1. IsPath(<<k>>) /\ Len(<<k>>) = 1 /\ <<k>>[1] = k
      BY DEF IsPath, Range
    <3>2. x = <<k>>
      <4> DEFINE t == <<k>>
      <4>1. IsPath(t) /\ Len(t) = 1 /\ t[1] = k
        BY <3>1
      <4> HIDE DEF t
      <4>2. x = t
        BY <2>1, <2>2, <4>1, SamePaths
      <4>3. QED
        BY <4>2 DEF t
    <3>3. QED
      BY <3>2
  <2>3. CASE Len(x) > 1
    <3>1. 1 \in 0 .. Len(x) - 1 /\ 1 \in 0 .. Len(x)
      BY <2>1, <2>3
    <3>2. w[SubSeq(x, 1, 1)] # Null
      BY <3>1, NothingBelowNull
    <3>3. IsPath(SubSeq(x, 1, 1)) /\ Len(SubSeq(x, 1, 1)) = 1 /\ SubSeq(x, 1, 1)[1] = k
      BY <2>1, <3>1, PartOfPath
    <3>4. IsPath(<<k>>) /\ Len(<<k>>) = 1 /\ <<k>>[1] = k
      BY DEF IsPath, Range
    <3>5. SubSeq(x, 1, 1) = <<k>>
      <4> DEFINE s == SubSeq(x, 1, 1)
                 t == <<k>>
      <4>1. IsPath(s) /\ IsPath(t) /\ Len(s) = Len(t) /\ \A i \in 1 .. Len(s) : s[i] = t[i]
        BY <3>3, <3>4
      <4> HIDE DEF s, t
      <4>2. s = t
        BY <4>1, SamePaths
      <4>3. QED
        BY <4>2 DEF s, t
    <3>6. QED
      BY <3>2, <3>5
  <2>4. QED
    BY <2>1, <2>2, <2>3
<1>3. /\ Below(w, k) = [p \in DOMAIN Below(w, k) |-> w[<<k>> \o p]]
      /\ DOMAIN Below(w, k) = {Tail(q) : q \in {x \in DOMAIN w : x # <<>> /\ Head(x) = k}}
      /\ <<>> \in DOMAIN Below(w, k) /\ Below(w, k)[<<>>] = w[<<k>>]
  BY BelowKey
<1>4. DOMAIN Below(w, k) = {<<>>}
  BY <1>2, <1>3
<1>5. QED
  BY <1>3, <1>4 DEF Scalar

(* Decoded, they are the data, with texts for nulls.                       *)
LEMMA DataIsCopied ==
    ASSUME NEW v, IsTree(v), NEW w \in Normalize(v), NEW k, NEW data, data = Below(w, k),
           DecodeStrings(data) # Undecodable
    PROVE  /\ DOMAIN DecodeStrings(data) = DOMAIN data
           /\ \A p \in DOMAIN data :
                 DecodeStrings(data)[p] = IF data[p] = Null /\ p # <<>> THEN Str(NoText)
                                          ELSE data[p]
<1> DEFINE owner == DecodeStrings(data)
<1>1. CASE data = Scalar(Null)
  <2>1. owner = data /\ DOMAIN data = {<<>>}
    BY <1>1 DEF DecodeStrings, Scalar
  <2>2. QED
    BY <2>1
<1>2. CASE data # Scalar(Null)
  <2>1. <<k>> \in DOMAIN w
    BY <1>2 DEF Below
  <2>2. data[<<>>] = w[<<k>>]
    BY <2>1, BelowKey
  <2>3. data[<<>>] # Null /\ data[<<>>] # YamlNode
    BY <1>2, <2>1, <2>2, NullDataIsEmpty, NormalizeYieldsPlain, TreesHavePaths
  <2>4. /\ IsStruct(data[<<>>]) /\ \A p \in DOMAIN data \ {<<>>} : IsText(data[p])
        /\ owner = [p \in DOMAIN data |-> IF p = <<>> THEN JsonNode ELSE Str(Text(data[p]))]
    BY <1>2 DEF DecodeStrings
  <2> HIDE DEF owner
  <2>5. data[<<>>] = JsonNode
    BY <2>3, <2>4 DEF IsStruct
  <2>6. ASSUME NEW p \in DOMAIN data, p # <<>>
        PROVE  owner[p] = IF data[p] = Null THEN Str(NoText) ELSE data[p]
    <3>1. IsText(data[p]) /\ owner[p] = Str(Text(data[p]))
      BY <2>4, <2>6
    <3>2. data[p] = Null => Text(data[p]) = NoText
      BY DEF Text
    <3>3. data[p] # Null => data[p] = Str(Text(data[p]))
      BY <3>1 DEF IsText, Text
    <3>4. QED
      BY <3>1, <3>2, <3>3
  <2>7. ASSUME NEW p \in DOMAIN data, p = <<>>
        PROVE  owner[p] = data[p]
    BY <2>4, <2>5, <2>7
  <2>8. QED
    BY <2>4, <2>6, <2>7 DEF owner
<1>3. QED
  BY <1>1, <1>2

(* The owner info of a parsed release is the one of its own ConfigMap.     *)
RepeatsAt(c, at, name) ==
    LET items == c.items
        own == {i \in DOMAIN items : /\ NodeAt(items[i], at[i].kind) = Str("ConfigMap")
                                     /\ NodeAt(items[i], at[i].name) = Str(OwnerInfoName(name))}
        data == Below(items[Min(own)], Head(at[Min(own)].data))
        owner == c.owner
    IN  IF own = {} THEN owner = EmptyMap
        ELSE /\ DOMAIN owner = DOMAIN data
             /\ \A p \in DOMAIN data :
                   owner[p] = IF data[p] = Null /\ p # <<>> THEN Str(NoText) ELSE data[p]

LEMMA OwnerInfoRepeated ==
    ASSUME NEW c, NEW release, IsRelease(release), ParsedFrom(c, release)
    PROVE  \E at \in ReadingsOf(c.items) : RepeatsAt(c, at, release.name)
<1>1. PICK at \in ReadingsOf(c.items) : c.owner = ExtractOwnerInfo(release.name, c.items, at)
  BY DEF ParsedFrom
<1> DEFINE own == Own(c.items, at, release.name)
           key == Head(at[Min(own)].data)
           data == Below(c.items[Min(own)], key)
           docs == release.manifest
           items == c.items
<1>0. data = Below(items[Min(own)], key) /\ own = Own(items, at, release.name)
      /\ c.owner = ExtractOwnerInfo(release.name, items, at) /\ key = Head(at[Min(own)].data)
  BY <1>1
<1>2. /\ items \in NormalizeAll(docs) /\ c.owner # Undecodable
      /\ IsPath(docs) /\ OwnerInfoName(release.name) # NoText
      /\ \A doc \in ToSet(docs) : IsTree(doc)
  BY DEF IsRelease, IsPath, ParsedFrom
<1> HIDE DEF docs, items, own, data, key
<1>3. /\ IsPath(items) /\ Len(items) = Len(docs)
      /\ \A i \in 1 .. Len(docs) : items[i] \in Normalize(docs[i])
  BY <1>2, NormalizeAllIs
<1>4. /\ own = {} => c.owner = EmptyMap
      /\ own # {} => Min(own) \in DOMAIN items /\ c.owner = DecodeStrings(data)
  BY <1>0, <1>2, <1>3, OwnerInfoFound
<1>5. ASSUME own # {}
      PROVE  /\ DOMAIN c.owner = DOMAIN data
             /\ \A p \in DOMAIN data :
                   c.owner[p] = IF data[p] = Null /\ p # <<>> THEN Str(NoText) ELSE data[p]
  <2>1. Min(own) \in 1 .. Len(docs) /\ DOMAIN docs = 1 .. Len(docs)
    BY <1>2, <1>3, <1>4, <1>5, Paths
  <2>2. docs[Min(own)] \in ToSet(docs)
    BY <2>1 DEF ToSet
  <2>3. IsTree(docs[Min(own)]) /\ items[Min(own)] \in Normalize(docs[Min(own)])
    BY <1>2, <1>3, <2>1, <2>2
  <2>4. c.owner = DecodeStrings(data) /\ DecodeStrings(data) # Undecodable
    BY <1>2, <1>4, <1>5
  <2> DEFINE item == items[Min(own)]
             doc == docs[Min(own)]
  <2>5. IsTree(doc) /\ item \in Normalize(doc) /\ data = Below(item, key)
    BY <1>0, <2>3
  <2> HIDE DEF item, doc
  <2>6. QED
    BY <2>4, <2>5, DataIsCopied
<1>6. IF own = {} THEN c.owner = EmptyMap
      ELSE /\ DOMAIN c.owner = DOMAIN data
           /\ \A p \in DOMAIN data :
                 c.owner[p] = IF data[p] = Null /\ p # <<>> THEN Str(NoText) ELSE data[p]
  BY <1>4, <1>5
<1>7. RepeatsAt(c, at, release.name)
  BY <1>6 DEF RepeatsAt, Own, own, data, key, items
<1>8. QED
  BY <1>7

-----------------------------------------------------------------------------
(* The owner info that GenerateMockRelease adds.                           *)
LEMMA Steps ==
    ASSUME NEW k, NEW q, IsPath(q)
    PROVE  /\ IsPath(<<k>> \o q) /\ <<k>> \o q # <<>>
           /\ Head(<<k>> \o q) = k /\ Tail(<<k>> \o q) = q
<1> DEFINE S == {k} \cup Range(q)
<1>1. q \in Seq(S) /\ <<k>> \in Seq(S)
  <2>1. Len(q) \in Nat /\ DOMAIN q = 1 .. Len(q) /\ q = [i \in 1 .. Len(q) |-> q[i]]
    BY Paths
  <2>2. \A i \in 1 .. Len(q) : q[i] \in S
    BY <2>1 DEF Range
  <2> HIDE DEF S
  <2>3. q \in Seq(S)
    BY <2>1, <2>2, IsASeq
  <2>4. QED
    BY <2>3 DEF S
<1> HIDE DEF S
<1> DEFINE p == <<k>> \o q
<1>2. p \in Seq(S) /\ p # <<>> /\ Head(p) = k /\ Tail(p) = q
  BY <1>1
<1>3. IsPath(p)
  <2> HIDE DEF p
  <2>1. Len(p) \in Nat /\ DOMAIN p = 1 .. Len(p) /\ p = [i \in 1 .. Len(p) |-> p[i]]
    BY <1>2
  <2>2. QED
    BY <2>1, FunctionsArePaths
<1>4. QED
  BY <1>2, <1>3

Step(k, q) == <<k>> \o q

LEMMA FirstSteps == \A k : Step(k, <<>>) = <<k>>
<1>1. ASSUME NEW k PROVE <<k>> \o <<>> = <<k>>
  OBVIOUS
<1>2. QED
  BY <1>1 DEF Step

LEMMA SecondSteps == \A k, e : Step(k, <<e>>) = <<k, e>>
<1>1. ASSUME NEW k, NEW e PROVE <<k>> \o <<e>> = <<k, e>>
  <2> DEFINE S == {k, e}
             p == <<k>> \o <<e>>
             q == <<k, e>>
  <2>1. <<k>> \in Seq(S) /\ <<e>> \in Seq(S) /\ q \in Seq(S)
    OBVIOUS
  <2>2. p \in Seq(S) /\ Len(p) = 2 /\ p[1] = k /\ p[2] = e
    BY <2>1
  <2>3. Len(q) = 2 /\ q[1] = k /\ q[2] = e
    OBVIOUS
  <2> HIDE DEF p, q, S
  <2>4. p = q
    BY <2>1, <2>2, <2>3
  <2>5. QED
    BY <2>4 DEF p, q
<1>2. QED
  BY <1>1 DEF Step

AreBranches(children) ==
    /\ \A c \in children : \A q \in DOMAIN c[2] : IsPath(q)
    /\ \A c, e \in children : c[1] = e[1] => c = e

Grows(T, node, children) ==
    /\ T = [p \in DOMAIN T |-> T[p]] /\ <<>> \in DOMAIN T /\ T[<<>>] = node
    /\ \A c \in children : \A q \in DOMAIN c[2] :
          Step(c[1], q) \in DOMAIN T /\ T[Step(c[1], q)] = c[2][q]
    /\ \A p \in DOMAIN T : p = <<>> \/ \E c \in children :
          \E q \in DOMAIN c[2] : p = Step(c[1], q)

LEMMA TreeIs ==
    ASSUME NEW node, NEW children, AreBranches(children)
    PROVE  Grows(Tree(node, children), node, children)
<1> DEFINE T == Tree(node, children)
           Under(c) == {<<c[1]>> \o q : q \in DOMAIN c[2]}
           D == {<<>>} \cup UNION {Under(c) : c \in children}
           Child(p) == CHOOSE c \in children : c[1] = Head(p)
<1>1. T = [p \in D |-> IF p = <<>> THEN node ELSE Child(p)[2][Tail(p)]]
  BY DEF Tree
<1>2. \A c \in children : \A q \in DOMAIN c[2] : <<c[1]>> \o q \in D
  OBVIOUS
<1>3. \A p \in D : p = <<>> \/ \E c \in children : \E q \in DOMAIN c[2] : p = <<c[1]>> \o q
  OBVIOUS
<1>4. ASSUME NEW c \in children, NEW q \in DOMAIN c[2]
      PROVE  T[<<c[1]>> \o q] = c[2][q]
  <2> DEFINE p == <<c[1]>> \o q
  <2>1. p \in D /\ p # <<>> /\ Head(p) = c[1] /\ Tail(p) = q
    BY <1>2, Steps DEF AreBranches
  <2>2. Child(p) = c
    <3>1. Child(p) \in children /\ Child(p)[1] = Head(p)
      BY <2>1
    <3>2. QED
      BY <2>1, <3>1 DEF AreBranches
  <2> HIDE DEF p, D, Child
  <2>3. T[p] = Child(p)[2][Tail(p)]
    BY <1>1, <2>1
  <2>4. QED
    BY <2>1, <2>2, <2>3 DEF p
<1> HIDE DEF Child
<1>5. <<>> \in D
  OBVIOUS
<1> HIDE DEF D
<1>6. DOMAIN T = D /\ T[<<>>] = node /\ T = [p \in DOMAIN T |-> T[p]]
  BY <1>1, <1>5
<1> HIDE DEF T
<1>7. QED
  BY <1>2, <1>3, <1>4, <1>5, <1>6 DEF Grows, Step, T

LEMMA Scalars ==
    ASSUME NEW node
    PROVE  DOMAIN Scalar(node) = {<<>>} /\ Scalar(node)[<<>>] = node
BY DEF Scalar

LEMMA KeysDiffer ==
    /\ \A s, t : Str(s) = Str(t) <=> s = t
    /\ "apiVersion" # "kind" /\ "apiVersion" # "metadata" /\ "apiVersion" # "data"
    /\ "kind" # "metadata" /\ "kind" # "data" /\ "metadata" # "data"
<1>1. \A s, t : Str(s) = Str(t) <=> s = t
  BY Words
<1>2. QED
  BY <1>1

OwnerInfoPaths ==
    {<<>>, <<Str("apiVersion")>>, Kind, Metadata, Name, <<Data>>}

LEMMA OwnerInfoItemIs ==
    ASSUME NEW c, c.owner = EmptyMap, NEW item, item = OwnerInfoItem(c)
    PROVE  /\ item = [p \in DOMAIN item |-> item[p]] /\ DOMAIN item = OwnerInfoPaths
           /\ item[<<>>] = JsonNode /\ item[<<Str("apiVersion")>>] = Str("v1")
           /\ item[Kind] = Str("ConfigMap") /\ item[Metadata] = JsonNode
           /\ item[Name] = Str(OwnerInfoName(c.name)) /\ item[<<Data>>] = JsonNode
<1> DEFINE a == Str("apiVersion")
           k == Str("kind")
           m == Str("metadata")
           n == Str("name")
           name == Str(OwnerInfoName(c.name))
           named == {<<n, Scalar(name)>>}
           metadata == Tree(JsonNode, named)
           children == {<<a, Scalar(Str("v1"))>>, <<k, Scalar(Str("ConfigMap"))>>,
                        <<m, metadata>>, <<Data, EmptyMap>>}
<1>1. item = Tree(JsonNode, children)
  BY DEF OwnerInfoItem
<1>2. a # k /\ a # m /\ a # Data /\ k # m /\ k # Data /\ m # Data
  BY KeysDiffer DEF Data
<1>3. Kind = <<k>> /\ Metadata = <<m>> /\ Name = <<m, n>>
  BY DEF Kind, Metadata, Name
<1>4. DOMAIN EmptyMap = {<<>>} /\ EmptyMap[<<>>] = JsonNode
  BY Scalars DEF EmptyMap
<1>5. \A x : DOMAIN Scalar(x) = {<<>>} /\ Scalar(x)[<<>>] = x
  BY Scalars
<1>6. IsPath(<<>>) /\ IsPath(<<n>>)
  BY EmptyPath DEF IsPath, Range
<1> DEFINE b == Str("v1")
           t == Str("ConfigMap")
<1>7. name = Str(OwnerInfoName(c.name)) /\ children = {<<a, Scalar(b)>>, <<k, Scalar(t)>>,
                        <<m, metadata>>, <<Data, EmptyMap>>}
  OBVIOUS
<1> HIDE DEF a, k, m, n, name, b, t
<1>8. /\ \A x : Step(x, <<>>) = <<x>>
      /\ \A x, y : Step(x, <<y>>) = <<x, y>>
  BY FirstSteps, SecondSteps
<1>9. DOMAIN metadata = {<<>>, <<n>>} /\ metadata[<<>>] = JsonNode /\ metadata[<<n>>] = name
  <2> DEFINE tree == metadata
             pairs == named
  <2>1. \A e \in pairs : e = <<n, Scalar(name)>> /\ e[1] = n /\ e[2] = Scalar(name)
    OBVIOUS
  <2>2. <<n, Scalar(name)>> \in pairs
    OBVIOUS
  <2> HIDE DEF metadata, named
  <2>3. AreBranches(pairs)
    BY <1>5, <1>6, <2>1 DEF AreBranches
  <2>4. Grows(tree, JsonNode, pairs)
    BY <2>3, TreeIs DEF metadata
  <2> HIDE DEF tree
  <2>5. <<n>> \in DOMAIN tree /\ tree[<<n>>] = name
    BY <1>5, <1>8, <2>1, <2>2, <2>4 DEF Grows
  <2>6. \A p \in DOMAIN tree : p = <<>> \/ p = <<n>>
    BY <1>5, <1>8, <2>1, <2>4 DEF Grows
  <2>7. QED
    BY <2>4, <2>5, <2>6 DEF tree, Grows
<1> HIDE DEF metadata, named
<1>10. AreBranches(children)
  BY <1>2, <1>4, <1>5, <1>6, <1>9 DEF AreBranches
<1> HIDE DEF children
<1>11. Grows(item, JsonNode, children)
  BY <1>1, <1>10, TreeIs
<1>12. <<a>> \in DOMAIN item /\ item[<<a>>] = b
  BY <1>5, <1>7, <1>8, <1>11 DEF Grows
<1>13. <<k>> \in DOMAIN item /\ item[<<k>>] = t
  BY <1>5, <1>7, <1>8, <1>11 DEF Grows
<1>14. <<m>> \in DOMAIN item /\ item[<<m>>] = JsonNode
       /\ <<m, n>> \in DOMAIN item /\ item[<<m, n>>] = name
  BY <1>7, <1>8, <1>9, <1>11 DEF Grows
<1>15. <<Data>> \in DOMAIN item /\ item[<<Data>>] = JsonNode
  BY <1>4, <1>7, <1>8, <1>11 DEF Grows
<1>16. ASSUME NEW p \in DOMAIN item, p # <<>>
       PROVE  p \in {<<a>>, <<k>>, <<m>>, <<m, n>>, <<Data>>}
  <2>1. PICK e \in children : \E q \in DOMAIN e[2] : p = Step(e[1], q)
    BY <1>11, <1>16 DEF Grows
  <2>2. PICK q \in DOMAIN e[2] : p = Step(e[1], q)
    BY <2>1
  <2>3. \/ e[1] \in {a, k, Data} /\ q = <<>>
        \/ e[1] = m /\ q \in {<<>>, <<n>>}
    BY <1>4, <1>5, <1>7, <1>9, <2>2
  <2>4. QED
    BY <1>8, <2>2, <2>3
<1>17. DOMAIN item = {<<>>, <<a>>, <<k>>, <<m>>, <<m, n>>, <<Data>>}
  BY <1>11, <1>12, <1>13, <1>14, <1>15, <1>16 DEF Grows
<1>18. OwnerInfoPaths = {<<>>, <<a>>, <<k>>, <<m>>, <<m, n>>, <<Data>>}
  BY <1>3 DEF OwnerInfoPaths, a
<1>19. QED
  BY <1>3, <1>7, <1>11, <1>12, <1>13, <1>14, <1>15, <1>17, <1>18 DEF a, b, t, Grows

LEMMA SingleBelow ==
    ASSUME NEW v, NEW k, <<k>> \in DOMAIN v,
           \A x \in DOMAIN v : x # <<>> /\ Head(x) = k => x = <<k>>
    PROVE  Below(v, k) = Scalar(v[<<k>>])
<1> DEFINE B == Below(v, k)
<1>1. /\ B = [p \in DOMAIN B |-> v[<<k>> \o p]]
      /\ DOMAIN B = {Tail(q) : q \in {x \in DOMAIN v : x # <<>> /\ Head(x) = k}}
      /\ <<>> \in DOMAIN B /\ B[<<>>] = v[<<k>>]
  BY BelowKey
<1>2. Tail(<<k>>) = <<>>
  OBVIOUS
<1> HIDE DEF B
<1>3. DOMAIN B = {<<>>}
  BY <1>1, <1>2
<1>4. B = [p \in DOMAIN B |-> B[p]]
  BY <1>1
<1>5. B = [p \in {<<>>} |-> v[<<k>>]]
  BY <1>1, <1>3, <1>4
<1>6. QED
  BY <1>5 DEF B, Scalar

(* The reading of an item, if there is but one, and those of all the items.*)
Reading(item) == CHOOSE at : at \in Readings(item)
HasReading(item) == Readings(item) = {Reading(item)}
ReadingsAre(items) == [i \in DOMAIN items |-> Reading(items[i])]

LEMMA SingleReading ==
    ASSUME NEW item, NEW at, Readings(item) = {at}
    PROVE  HasReading(item) /\ Reading(item) = at
BY DEF HasReading, Reading

LEMMA SingleReadings ==
    ASSUME NEW items, \A i \in DOMAIN items : HasReading(items[i])
    PROVE  ReadingsOf(items) = {ReadingsAre(items)}
<1> DEFINE S == UNION {Readings(item) : item \in ToSet(items)}
           only == ReadingsAre(items)
<1>1. /\ only = [i \in DOMAIN items |-> only[i]] /\ DOMAIN only = DOMAIN items
      /\ \A i \in DOMAIN items : Readings(items[i]) = {only[i]}
  BY DEF ReadingsAre, HasReading
<1>2. \A i \in DOMAIN items : only[i] \in S
  BY <1>1 DEF ToSet
<1>3. ReadingsOf(items) =
         {at \in [DOMAIN items -> S] : \A i \in DOMAIN items : at[i] \in Readings(items[i])}
  BY DEF ReadingsOf
<1> HIDE DEF S, only
<1>4. only \in ReadingsOf(items)
  BY <1>1, <1>2, <1>3
<1>5. \A at \in ReadingsOf(items) : at = only
  BY <1>1, <1>3
<1>6. QED
  BY <1>4, <1>5 DEF only

LEMMA ShortAppends ==
    /\ \A x : Append(<<>>, x) = <<x>>
    /\ \A x, y : Append(<<x>>, y) = <<x, y>>
<1>1. ASSUME NEW x PROVE Append(<<>>, x) = <<x>>
  <2> DEFINE a == Append(<<>>, x)
  <2>1. <<>> \in Seq({x}) /\ x \in {x} /\ Len(<<>>) = 0
    OBVIOUS
  <2>2. a \in Seq({x}) /\ Len(a) = Len(<<>>) + 1 /\ a[Len(<<>>) + 1] = x
    BY <2>1, AppendProperties
  <2> HIDE DEF a
  <2>3. Len(a) = 1 /\ a[1] = x
    BY <2>1, <2>2
  <2>4. a = <<x>>
    BY <2>2, <2>3
  <2>5. QED
    BY <2>4 DEF a
<1>2. ASSUME NEW x, NEW y PROVE Append(<<x>>, y) = <<x, y>>
  <2> DEFINE a == Append(<<x>>, y)
  <2>1. <<x>> \in Seq({x, y}) /\ y \in {x, y} /\ Len(<<x>>) = 1 /\ <<x>>[1] = x
    OBVIOUS
  <2>2. /\ a \in Seq({x, y}) /\ Len(a) = Len(<<x>>) + 1 /\ a[Len(<<x>>) + 1] = y
        /\ \A i \in 1 .. Len(<<x>>) : a[i] = <<x>>[i]
    BY <2>1, AppendProperties
  <2> HIDE DEF a
  <2>3. Len(a) = 2 /\ a[1] = x /\ a[2] = y
    BY <2>1, <2>2
  <2>4. a = <<x, y>>
    BY <2>2, <2>3
  <2>5. QED
    BY <2>4 DEF a
<1>3. QED
  BY <1>1, <1>2

(* A field that is there under its own name is found there only.           *)
LEMMA OwnSpelling ==
    ASSUME NEW v, NEW p, NEW k, Append(p, k) \in DOMAIN v
    PROVE  Spellings(v, p, k) = {Append(p, k)}
BY DEF Spellings

LEMMA OwnReading ==
    ASSUME NEW item, {Kind, Metadata, Name, <<Data>>} \subseteq DOMAIN item
    PROVE  /\ HasReading(item)
           /\ Reading(item) = [kind |-> Kind, metadata |-> Metadata, name |-> Name, data |-> <<Data>>]
<1> DEFINE k == Str("kind")
           m == Str("metadata")
           n == Str("name")
<1>1. Kind = <<k>> /\ Metadata = <<m>> /\ Name = <<m, n>>
  BY DEF Kind, Metadata, Name
<1>2. Readings(item) =
         UNION {{[kind |-> x, metadata |-> y, name |-> z, data |-> d] :
                    x \in Spellings(item, <<>>, k), z \in Spellings(item, y, n),
                    d \in Spellings(item, <<>>, Data)} :
                y \in Spellings(item, <<>>, m)}
  BY DEF Readings
<1> HIDE DEF k, m, n
<1>3. /\ Append(<<>>, k) = <<k>> /\ Append(<<>>, m) = <<m>> /\ Append(<<>>, Data) = <<Data>>
      /\ Append(<<m>>, n) = <<m, n>>
  BY ShortAppends
<1>4. /\ Spellings(item, <<>>, k) = {Kind} /\ Spellings(item, <<>>, m) = {Metadata}
      /\ Spellings(item, <<>>, Data) = {<<Data>>} /\ Spellings(item, Metadata, n) = {Name}
  <2>1. /\ Append(<<>>, k) = Kind /\ Append(<<>>, m) = Metadata
        /\ Append(<<>>, Data) = <<Data>> /\ Append(Metadata, n) = Name
    BY <1>1, <1>3, Zenon
  <2>2. Kind \in DOMAIN item /\ Metadata \in DOMAIN item /\ Name \in DOMAIN item /\ <<Data>> \in DOMAIN item
    OBVIOUS
  <2>3. ASSUME NEW p, NEW x, NEW q, q = Append(p, x), q \in DOMAIN item
        PROVE  Spellings(item, p, x) = {q}
    BY <2>3, OwnSpelling
  <2>4. Spellings(item, <<>>, k) = {Kind} /\ Spellings(item, <<>>, m) = {Metadata}
    BY <2>1, <2>2, <2>3, Zenon
  <2>5. Spellings(item, <<>>, Data) = {<<Data>>}
    BY <2>1, <2>2, <2>3, Zenon
  <2>6. Spellings(item, Metadata, n) = {Name}
    BY <2>1, <2>2, <2>3, Zenon
  <2>7. QED
    BY <2>4, <2>5, <2>6
<1>5. Readings(item) =
         {[kind |-> Kind, metadata |-> Metadata, name |-> Name, data |-> <<Data>>]}
  BY <1>2, <1>4
<1>6. QED
  BY <1>5, SingleReading

(* It is an owner info, and like what has been parsed.                     *)
IsItem(item) ==
    /\ IsPlain(item) /\ Marshals(item)
    /\ HasReading(item) /\ Decodes(item, Reading(item))
    /\ \A p \in DOMAIN item : item[p] # YamlNode

IsOwn(item, name) == IsOwnerInfo(item, Reading(item), name)
OwnerInfoOf(name, items) == ExtractOwnerInfo(name, items, ReadingsAre(items))

LEMMA OwnerInfoItemIsItem ==
    ASSUME NEW c, c.owner = EmptyMap
    PROVE  /\ IsItem(OwnerInfoItem(c)) /\ IsOwn(OwnerInfoItem(c), c.name)
           /\ Below(OwnerInfoItem(c), Head(Reading(OwnerInfoItem(c)).data)) = EmptyMap
<1> DEFINE item == OwnerInfoItem(c)
           N == OwnerInfoName(c.name)
           a == Str("apiVersion")
           k == Str("kind")
           m == Str("metadata")
           n == Str("name")
           b == Str("v1")
           t == Str("ConfigMap")
<1>1. /\ item = [p \in DOMAIN item |-> item[p]]
      /\ DOMAIN item = {<<>>, <<a>>, Kind, Metadata, Name, <<Data>>}
      /\ item[<<>>] = JsonNode /\ item[<<a>>] = b
      /\ item[Kind] = t /\ item[Metadata] = JsonNode
      /\ item[Name] = Str(N) /\ item[<<Data>>] = JsonNode
  <2> HIDE DEF item
  <2>1. QED
    BY OwnerInfoItemIs DEF OwnerInfoPaths, item
<1>2. Kind = <<k>> /\ Metadata = <<m>> /\ Name = <<m, n>>
  BY DEF Kind, Metadata, Name
<1>3. a # k /\ a # m /\ a # Data /\ k # m /\ k # Data /\ m # Data
  BY KeysDiffer DEF Data
<1>4. b \notin {YamlNode, NaN} /\ t \notin {YamlNode, NaN} /\ Str(N) \notin {YamlNode, NaN}
      /\ JsonNode \notin {YamlNode, NaN}
  BY NodesDiffer
<1>5. IsText(t) /\ Text(t) = "ConfigMap" /\ IsText(Str(N)) /\ Text(Str(N)) = N
  BY Words
<1>6. \A s \in {a, k, m, n, Data} : IsPlainKey(s)
  BY Words DEF IsPlainKey, Data
<1>7. DOMAIN EmptyMap = {<<>>} /\ EmptyMap = [p \in {<<>>} |-> JsonNode]
  BY DEF EmptyMap, Scalar
<1> HIDE DEF item, a, k, m, n, N, b, t
<1>8. \A p \in DOMAIN item : IsPlainPath(p)
  <2>1. \A s \in {a, k, m, n, Data} : IsPath(<<s>>) /\ IsPlainPath(<<s>>)
    BY <1>6 DEF IsPath, IsPlainPath, Range
  <2>2. IsPlainPath(<<m, n>>)
    BY <1>6 DEF IsPath, IsPlainPath, Range
  <2>3. QED
    BY <1>1, <1>2, <2>1, <2>2, EmptyPath
<1>9. IsPlain(item)
  BY <1>1, <1>8 DEF IsPlain, HasPaths, IsPlainPath
<1>10. \A p \in DOMAIN item : item[p] \notin {YamlNode, NaN}
  BY <1>1, <1>4
<1>11. /\ NodeAt(item, <<>>) = JsonNode /\ NodeAt(item, Metadata) = JsonNode
       /\ NodeAt(item, Kind) = t /\ NodeAt(item, Name) = Str(N)
  BY <1>1 DEF NodeAt
<1> DEFINE at == Reading(item)
<1>17. HasReading(item) /\ at.kind = Kind /\ at.metadata = Metadata /\ at.name = Name
       /\ at.data = <<Data>> /\ Head(at.data) = Data
  BY <1>1, OwnReading
<1> HIDE DEF at
<1>12. Decodes(item, at)
  BY <1>5, <1>11, <1>17 DEF Decodes, IsStruct
<1>13. IsOwnerInfo(item, at, c.name)
  BY <1>5, <1>11, <1>17 DEF IsOwnerInfo, N
<1>14. Below(item, Data) = EmptyMap
  <2>1. \A x \in DOMAIN item : x # <<>> /\ Head(x) = Data => x = <<Data>>
    BY <1>1, <1>2, <1>3
  <2>2. <<Data>> \in DOMAIN item /\ Scalar(item[<<Data>>]) = EmptyMap
    BY <1>1 DEF EmptyMap
  <2>3. Below(item, Data) = Scalar(item[<<Data>>])
    BY <2>1, <2>2, SingleBelow
  <2>4. QED
    BY <2>2, <2>3
<1>15. IsItem(item)
  BY <1>9, <1>10, <1>12, <1>17 DEF IsItem, Marshals, at
<1>16. QED
  BY <1>13, <1>14, <1>15, <1>17 DEF item, at, IsOwn

-----------------------------------------------------------------------------
(* Which owner info ExtractOwnerInfo finds where every item decodes.       *)
LEMMA NoOwnerInfo ==
    ASSUME NEW items, NEW at, NEW name,
           \A i \in DOMAIN items :
              Decodes(items[i], at[i]) /\ ~IsOwnerInfo(items[i], at[i], name)
    PROVE  ExtractOwnerInfo(name, items, at) = EmptyMap
BY DEF ExtractOwnerInfo

LEMMA EmptyMapIsDecoded ==
    EmptyMap # Scalar(Null) /\ DecodeStrings(EmptyMap) = EmptyMap
<1>1. /\ DOMAIN EmptyMap = {<<>>} /\ EmptyMap[<<>>] = JsonNode
      /\ EmptyMap = [p \in {<<>>} |-> JsonNode]
  BY DEF EmptyMap, Scalar
<1>2. Scalar(Null)[<<>>] = Null
  BY Scalars
<1>3. EmptyMap # Scalar(Null)
  BY <1>1, <1>2, NodesDiffer
<1>4. DecodeStrings(EmptyMap) = [p \in {<<>>} |-> JsonNode]
  <2>1. IsStruct(EmptyMap[<<>>]) /\ \A p \in DOMAIN EmptyMap \ {<<>>} : IsText(EmptyMap[p])
    BY <1>1 DEF IsStruct
  <2>2. DecodeStrings(EmptyMap) =
           [p \in DOMAIN EmptyMap |-> IF p = <<>> THEN JsonNode ELSE Str(Text(EmptyMap[p]))]
    BY <1>3, <2>1 DEF DecodeStrings
  <2>3. QED
    BY <1>1, <2>2
<1>5. QED
  BY <1>1, <1>3, <1>4

LEMMA Appended ==
    ASSUME NEW items, IsPath(items), NEW item
    PROVE  /\ IsPath(Append(items, item)) /\ Len(Append(items, item)) = Len(items) + 1
           /\ \A i \in 1 .. Len(items) : Append(items, item)[i] = items[i]
           /\ Append(items, item)[Len(items) + 1] = item
<1> DEFINE n == Len(items)
           a == Append(items, item)
<1>1. n \in Nat
  BY Paths
<1> DEFINE S == Range(items) \cup {item}
<1>2. items \in Seq(S)
  <2>1. DOMAIN items = 1 .. n /\ items = [i \in 1 .. n |-> items[i]]
    BY Paths
  <2>2. \A i \in 1 .. n : items[i] \in S
    BY <2>1 DEF Range
  <2> HIDE DEF S, n
  <2>3. QED
    BY <1>1, <2>1, <2>2, IsASeq
<1> HIDE DEF S
<1>3. /\ DOMAIN a = 1 .. n + 1 /\ a = [i \in 1 .. n + 1 |-> a[i]]
      /\ \A i \in 1 .. n : a[i] = items[i]
      /\ a[n + 1] = item
  <2>1. item \in S
    BY DEF S
  <2>2. /\ a \in Seq(S) /\ Len(a) = n + 1
        /\ \A i \in 1 .. n : a[i] = items[i]
        /\ a[n + 1] = item
    BY <1>2, <2>1, AppendProperties
  <2> HIDE DEF a, n
  <2>3. DOMAIN a = 1 .. Len(a) /\ a = [i \in 1 .. Len(a) |-> a[i]]
    BY <2>2
  <2>4. QED
    BY <2>2, <2>3
<1>4. IsPath(a) /\ Len(a) = n + 1
  <2> HIDE DEF a, n
  <2>1. n + 1 \in Nat
    BY <1>1
  <2>2. QED
    BY <1>3, <2>1, FunctionsArePaths
<1>5. QED
  BY <1>3, <1>4

LEMMA AppendedOwnerInfo ==
    ASSUME NEW items, IsPath(items), NEW name, NEW item,
           NEW at, DOMAIN at = 1 .. Len(items) + 1,
           \A i \in DOMAIN items :
              Decodes(items[i], at[i]) /\ ~IsOwnerInfo(items[i], at[i], name),
           NEW last, last = at[Len(items) + 1], Decodes(item, last),
           IsOwnerInfo(item, last, name), Below(item, Head(last.data)) = EmptyMap
    PROVE  ExtractOwnerInfo(name, Append(items, item), at) = EmptyMap
<1> DEFINE all == Append(items, item)
           n == Len(items) + 1
           undecodable == {i \in DOMAIN all : ~Decodes(all[i], at[i])}
           found == {i \in DOMAIN all \ undecodable : IsOwnerInfo(all[i], at[i], name)}
<1>1. Len(items) \in Nat /\ DOMAIN items = 1 .. Len(items)
  BY Paths
<1>2. /\ IsPath(all) /\ Len(all) = n
      /\ \A i \in 1 .. Len(items) : all[i] = items[i]
      /\ all[n] = item
  BY Appended
<1> HIDE DEF all
<1>3. DOMAIN all = 1 .. n
  BY <1>2, Paths
<1>4. \A i \in 1 .. n : i = n \/ i \in 1 .. Len(items)
  BY <1>1
<1>5. n \in 1 .. n
  BY <1>1
<1>6. undecodable = {}
  BY <1>1, <1>2, <1>3, <1>4
<1>7. found = {n}
  <2>1. n \in found
    BY <1>2, <1>3, <1>5, <1>6
  <2>2. \A i \in found : i = n
    BY <1>1, <1>2, <1>3, <1>4
  <2> HIDE DEF found
  <2>3. QED
    BY <2>1, <2>2
<1>8. ExtractOwnerInfo(name, all, at) =
         IF undecodable \cup found = {} THEN EmptyMap
         ELSE IF Min(undecodable \cup found) \in undecodable THEN Undecodable
         ELSE DecodeStrings(Below(all[Min(undecodable \cup found)],
                                  Head(at[Min(undecodable \cup found)].data)))
  BY DEF ExtractOwnerInfo
<1>9. Min({n}) = n
  <2>1. {n} \subseteq Nat
    BY <1>1
  <2> HIDE DEF n
  <2>2. QED
    BY <2>1, MinIsLeast
<1> HIDE DEF undecodable, found
<1>10. undecodable \cup found = {n}
  BY <1>6, <1>7
<1>11. ExtractOwnerInfo(name, all, at) = DecodeStrings(Below(all[n], Head(at[n].data)))
  BY <1>6, <1>8, <1>9, <1>10
<1>12. QED
  BY <1>2, <1>11, EmptyMapIsDecoded DEF all

-----------------------------------------------------------------------------
(* A release that has been parsed, and that GenerateMockRelease takes.     *)
Regenerable(c) ==
    /\ c = [name |-> c.name, namespace |-> c.namespace, status |-> c.status,
            version |-> c.version, items |-> c.items, values |-> c.values,
            owner |-> c.owner]
    /\ IsPath(c.items) /\ \A i \in DOMAIN c.items : IsItem(c.items[i])
    /\ IsPlain(c.values) /\ Marshals(c.values)
    /\ c.owner = OwnerInfoOf(c.name, c.items)
    /\ c.owner # Undecodable
    /\ c.name # NoText /\ c.status # NoText

Alone(c) == \A item \in ToSet(c.items) : ~IsOwn(item, c.name)
AllItems(c) == IF Alone(c) THEN Append(c.items, OwnerInfoItem(c)) ELSE c.items

LEMMA AloneIsEmpty ==
    ASSUME NEW c, Regenerable(c), Alone(c)
    PROVE  c.owner = EmptyMap /\ c.owner # Scalar(Null)
<1> DEFINE at == ReadingsAre(c.items)
<1>1. \A i \in DOMAIN c.items :
         /\ at[i] = Reading(c.items[i])
         /\ Decodes(c.items[i], Reading(c.items[i]))
         /\ ~IsOwnerInfo(c.items[i], Reading(c.items[i]), c.name)
  BY DEF Regenerable, Alone, ToSet, IsItem, IsOwn, ReadingsAre
<1>2. c.owner = ExtractOwnerInfo(c.name, c.items, at)
  BY DEF Regenerable, OwnerInfoOf
<1> HIDE DEF at
<1>3. QED
  BY <1>1, <1>2, NoOwnerInfo, EmptyMapIsDecoded

LEMMA AllItemsAre ==
    ASSUME NEW c, Regenerable(c)
    PROVE  /\ IsPath(AllItems(c)) /\ \A i \in DOMAIN AllItems(c) : IsItem(AllItems(c)[i])
           /\ OwnerInfoOf(c.name, AllItems(c)) = c.owner
           /\ \E item \in ToSet(AllItems(c)) : IsOwn(item, c.name)
<1>1. CASE ~Alone(c)
  BY <1>1 DEF Alone, AllItems, Regenerable
<1>2. CASE Alone(c)
  <2> DEFINE items == c.items
             added == OwnerInfoItem(c)
             all == Append(items, added)
  <2>1. c.owner = EmptyMap
    BY <1>2, AloneIsEmpty
  <2>2. IsItem(added) /\ IsOwn(added, c.name) /\ Below(added, Head(Reading(added).data)) = EmptyMap
    BY <2>1, OwnerInfoItemIsItem
  <2>3. AllItems(c) = all
    BY <1>2 DEF AllItems
  <2>4. /\ IsPath(items) /\ \A i \in DOMAIN items : IsItem(items[i])
        /\ \A i \in DOMAIN items : ~IsOwn(items[i], c.name)
    BY <1>2 DEF Regenerable, Alone, ToSet
  <2> HIDE DEF items, added
  <2>5. Len(items) \in Nat /\ DOMAIN items = 1 .. Len(items)
    BY <2>4, Paths
  <2>6. /\ IsPath(all) /\ Len(all) = Len(items) + 1
        /\ \A i \in 1 .. Len(items) : all[i] = items[i]
        /\ all[Len(items) + 1] = added
    BY <2>4, Appended
  <2>7. OwnerInfoOf(c.name, all) = EmptyMap
    <3> DEFINE at == ReadingsAre(all)
               last == Reading(added)
    <3>1. DOMAIN all = 1 .. Len(items) + 1 /\ Len(items) + 1 \in DOMAIN all
      BY <2>5, <2>6, Paths
    <3>2. DOMAIN at = DOMAIN all /\ \A i \in DOMAIN all : at[i] = Reading(all[i])
      BY DEF ReadingsAre
    <3>3. OwnerInfoOf(c.name, all) = ExtractOwnerInfo(c.name, all, at)
      BY DEF OwnerInfoOf
    <3>4. /\ Decodes(added, last) /\ IsOwnerInfo(added, last, c.name)
          /\ Below(added, Head(last.data)) = EmptyMap
      BY <2>2 DEF IsItem, IsOwn
    <3> HIDE DEF at, last, all
    <3>5. last = at[Len(items) + 1]
      BY <2>6, <3>1, <3>2 DEF last
    <3>6. \A i \in DOMAIN items : at[i] = Reading(items[i])
      BY <2>5, <2>6, <3>1, <3>2
    <3>7. \A i \in DOMAIN items :
             Decodes(items[i], at[i]) /\ ~IsOwnerInfo(items[i], at[i], c.name)
      BY <2>4, <3>6 DEF IsItem, IsOwn
    <3>8. ExtractOwnerInfo(c.name, Append(items, added), at) = EmptyMap
      BY <2>4, <3>1, <3>2, <3>4, <3>5, <3>7, AppendedOwnerInfo
    <3>9. QED
      BY <3>3, <3>8 DEF all
  <2> HIDE DEF all
  <2>8. DOMAIN all = 1 .. Len(items) + 1
    BY <2>6, Paths
  <2>9. \A i \in 1 .. Len(items) + 1 : i \in 1 .. Len(items) \/ i = Len(items) + 1
    BY <2>5
  <2>10. \A i \in DOMAIN all : IsItem(all[i])
    BY <2>2, <2>4, <2>5, <2>6, <2>8, <2>9
  <2>11. added \in ToSet(all)
    <3>1. Len(items) + 1 \in DOMAIN all
      BY <2>5, <2>8
    <3>2. QED
      BY <2>6, <3>1 DEF ToSet
  <2>12. QED
    BY <2>1, <2>2, <2>3, <2>6, <2>7, <2>10, <2>11
<1>3. QED
  BY <1>1, <1>2

(* With all its defaults, and the owner info among its items.              *)
LEMMA CompleteIs ==
    ASSUME NEW c, Regenerable(c)
    PROVE  Complete(c) =
              [name |-> c.name,
               namespace |-> IF c.namespace = NoText THEN c.name ELSE c.namespace,
               status |-> c.status,
               version |-> IF c.version = 0 THEN 1 ELSE c.version,
               items |-> AllItems(c),
               values |-> IF c.values = Scalar(Null) THEN EmptyMap ELSE c.values,
               owner |-> c.owner]
<1> DEFINE record == [name |-> c.name, namespace |-> c.namespace, status |-> c.status,
                      version |-> c.version, items |-> c.items, values |-> c.values,
                      owner |-> c.owner]
           namespace == IF c.namespace = NoText THEN c.name ELSE c.namespace
           version == IF c.version = 0 THEN 1 ELSE c.version
           values == IF c.values = Scalar(Null) THEN EmptyMap ELSE c.values
           items == IF c.owner = EmptyMap /\ Alone(c)
                    THEN Append(c.items, OwnerInfoItem(c)) ELSE c.items
<1>1. c = record
  BY DEF Regenerable
<1>2. WithDefaults(c) = [c EXCEPT !.namespace = namespace, !.version = version, !.values = values]
  <2>1. c.namespace = record.namespace /\ c.version = record.version /\ c.values = record.values
    OBVIOUS
  <2>2. QED
    BY <1>1 DEF WithDefaults
<1>3. Complete(c) = [WithDefaults(c) EXCEPT !.items = items]
  <2>1. WithDefaults(c).items = c.items
    BY <1>1, <1>2
  <2>2. Alone(c) <=>
           \A item \in ToSet(c.items) : \A at \in Readings(item) : ~IsOwnerInfo(item, at, c.name)
    <3>1. \A item \in ToSet(c.items) : Readings(item) = {Reading(item)}
      BY DEF Regenerable, ToSet, IsItem, HasReading
    <3>2. QED
      BY <3>1 DEF Alone, IsOwn
  <2>3. QED
    BY <2>1, <2>2 DEF Complete
<1>4. items = AllItems(c)
  BY AloneIsEmpty DEF AllItems
<1> HIDE DEF namespace, version, values, items
<1>5. Complete(c) = [name |-> c.name, namespace |-> namespace, status |-> c.status,
                     version |-> version, items |-> items, values |-> values,
                     owner |-> c.owner]
  BY <1>1, <1>2, <1>3
<1>6. QED
  BY <1>4, <1>5 DEF namespace, version, values

LEMMA CompleteIsRegenerable ==
    ASSUME NEW c, Regenerable(c)
    PROVE  Regenerable(Complete(c)) /\ Complete(Complete(c)) = Complete(c)
<1> DEFINE namespace == IF c.namespace = NoText THEN c.name ELSE c.namespace
           version == IF c.version = 0 THEN 1 ELSE c.version
           values == IF c.values = Scalar(Null) THEN EmptyMap ELSE c.values
           items == AllItems(c)
           d == Complete(c)
<1>1. d = [name |-> c.name, namespace |-> namespace, status |-> c.status,
           version |-> version, items |-> items, values |-> values, owner |-> c.owner]
  BY CompleteIs
<1>2. IsPlain(values) /\ Marshals(values) /\ values # Scalar(Null)
  <2>1. IsPlain(EmptyMap) /\ Marshals(EmptyMap)
    <3>1. DOMAIN EmptyMap = {<<>>} /\ EmptyMap[<<>>] = JsonNode
          /\ EmptyMap = [p \in {<<>>} |-> JsonNode]
      BY DEF EmptyMap, Scalar
    <3>2. QED
      BY <3>1, EmptyPath, NodesDiffer DEF IsPlain, HasPaths, Marshals
  <2>2. QED
    BY <2>1, EmptyMapIsDecoded DEF Regenerable
<1>3. /\ IsPath(items) /\ \A i \in DOMAIN items : IsItem(items[i])
      /\ OwnerInfoOf(c.name, items) = c.owner
      /\ \E item \in ToSet(items) : IsOwn(item, c.name)
  BY AllItemsAre
<1>4. c.owner # Undecodable /\ c.name # NoText /\ c.status # NoText
  BY DEF Regenerable
<1>5. namespace # NoText /\ version # 0
  BY <1>4
<1> HIDE DEF namespace, version, values, items, d
<1>6. /\ d.name = c.name /\ d.namespace = namespace /\ d.status = c.status
      /\ d.version = version /\ d.items = items /\ d.values = values /\ d.owner = c.owner
  BY <1>1
<1>7. Regenerable(d)
  BY <1>1, <1>2, <1>3, <1>4, <1>6 DEF Regenerable
<1>8. AllItems(d) = items
  BY <1>3, <1>6 DEF AllItems, Alone
<1>9. Complete(d) = [name |-> d.name, namespace |-> namespace, status |-> d.status,
                     version |-> version, items |-> items, values |-> values,
                     owner |-> d.owner]
  <2>1. /\ namespace = IF d.namespace = NoText THEN d.name ELSE d.namespace
        /\ version = IF d.version = 0 THEN 1 ELSE d.version
        /\ values = IF d.values = Scalar(Null) THEN EmptyMap ELSE d.values
    BY <1>2, <1>5, <1>6
  <2>2. QED
    BY <1>7, <1>8, <2>1, CompleteIs
<1>10. Complete(d) = d
  BY <1>1, <1>6, <1>9
<1>11. QED
  BY <1>7, <1>10 DEF d

LEMMA ManifestIs ==
    ASSUME NEW c, Regenerable(c), NEW d, d = WithDefaults(c),
           NEW manifest, manifest = ManifestOf(d, ReadingsAre(c.items))
    PROVE  /\ IsPath(manifest) /\ Len(manifest) = Len(AllItems(c))
           /\ \A i \in 1 .. Len(AllItems(c)) : manifest[i] = ThroughYaml(AllItems(c)[i])
<1> DEFINE items == c.items
           m == [i \in DOMAIN items |-> ThroughYaml(items[i])]
           x == ThroughYaml(OwnerInfoItem(c))
           all == AllItems(c)
<1>1. d.name = c.name /\ d.items = items /\ d.owner = c.owner
  <2> DEFINE record == [name |-> c.name, namespace |-> c.namespace, status |-> c.status,
                        version |-> c.version, items |-> c.items, values |-> c.values,
                        owner |-> c.owner]
  <2>1. c = record
    BY DEF Regenerable
  <2>2. QED
    BY <2>1 DEF WithDefaults
<1>2. OwnerInfoItem(d) = OwnerInfoItem(c)
  BY <1>1 DEF OwnerInfoItem
<1>3. manifest = m \o (IF c.owner = Scalar(Null) \/ ~Alone(c) THEN <<>> ELSE <<x>>)
  <2>1. (\E i \in DOMAIN items : IsOwnerInfo(items[i], ReadingsAre(items)[i], c.name)) <=> ~Alone(c)
    BY DEF Alone, IsOwn, ReadingsAre, ToSet
  <2>2. QED
    BY <1>1, <1>2, <2>1 DEF ManifestOf
<1>4. IsPath(items) /\ Len(items) \in Nat /\ DOMAIN items = 1 .. Len(items)
  BY Paths DEF Regenerable
<1>5. /\ DOMAIN m = 1 .. Len(items) /\ m = [i \in 1 .. Len(items) |-> m[i]]
      /\ \A i \in 1 .. Len(items) : m[i] = ThroughYaml(items[i])
  BY <1>4
<1> HIDE DEF m, x
<1>6. IsPath(m) /\ Len(m) = Len(items)
  BY <1>4, <1>5, FunctionsArePaths
<1>7. CASE ~Alone(c)
  <2>1. m \o <<>> = m
    BY <1>6, ConcatEmptySeq DEF IsPath
  <2>2. manifest = m /\ all = items
    BY <1>3, <1>7, <2>1 DEF AllItems
  <2> HIDE DEF all, items
  <2>3. QED
    BY <1>5, <1>6, <2>2 DEF all
<1>8. CASE Alone(c)
  <2> DEFINE added == OwnerInfoItem(c)
             S == Range(m) \cup {x}
  <2>1. manifest = m \o <<x>>
    BY <1>3, <1>8, AloneIsEmpty
  <2>2. m \in Seq(S) /\ x \in S
    <3>1. \A i \in 1 .. Len(m) : m[i] \in S
      BY <1>5, <1>6 DEF Range
    <3>2. Len(m) \in Nat /\ m = [i \in 1 .. Len(m) |-> m[i]] /\ x \in S
      BY <1>6, Paths
    <3> HIDE DEF S
    <3>3. QED
      BY <3>1, <3>2, IsASeq
  <2> HIDE DEF S
  <2>3. m \o <<x>> = Append(m, x)
    BY <2>2, AppendIsConcat
  <2>4. /\ IsPath(Append(m, x)) /\ Len(Append(m, x)) = Len(m) + 1
        /\ \A i \in 1 .. Len(m) : Append(m, x)[i] = m[i]
        /\ Append(m, x)[Len(m) + 1] = x
    BY <1>6, Appended
  <2>5. all = Append(items, added)
    BY <1>8 DEF AllItems
  <2> HIDE DEF all, items, added
  <2>6. /\ Len(all) = Len(items) + 1
        /\ \A i \in 1 .. Len(items) : all[i] = items[i]
        /\ all[Len(items) + 1] = added
    BY <1>4, <2>5, Appended
  <2>7. x = ThroughYaml(added)
    BY DEF x, added
  <2>8. \A i \in 1 .. Len(items) + 1 : i \in 1 .. Len(items) \/ i = Len(items) + 1
    BY <1>4
  <2>9. /\ IsPath(manifest) /\ Len(manifest) = Len(items) + 1
        /\ \A i \in 1 .. Len(items) : manifest[i] = ThroughYaml(items[i])
        /\ manifest[Len(items) + 1] = ThroughYaml(added)
    BY <1>5, <1>6, <2>1, <2>3, <2>4, <2>7
  <2>10. \A i \in 1 .. Len(items) + 1 : manifest[i] = ThroughYaml(all[i])
    BY <2>6, <2>8, <2>9
  <2>11. QED
    BY <2>6, <2>9, <2>10 DEF all
<1>9. QED
  BY <1>7, <1>8

LEMMA NotBroken ==
    ASSUME NEW item, IsItem(item)
    PROVE  ThroughYaml(item) # Broken
<1>1. <<>> \in DOMAIN item
  BY DEF IsItem, IsPlain, HasPaths
<1>2. item[<<>>] \in {Null, YamlNode, JsonNode}
  BY <1>1 DEF IsItem, Decodes, IsStruct, NodeAt
<1>3. ThroughYaml(item)[<<>>] \in {Null, YamlNode, JsonNode}
  BY <1>1, <1>2 DEF ThroughYaml
<1>4. Broken[<<>>] = <<"broken">>
  BY Scalars DEF Broken
<1>5. <<"broken">> \notin {Null, YamlNode, JsonNode}
  BY DEF Null, YamlNode, JsonNode
<1>6. QED
  BY <1>3, <1>4, <1>5

(* Generated and parsed again, a release is complete.                      *)
Mocked(p) == [release |-> p, size |-> 0, damaged |-> FALSE, cut |-> FALSE]

LEMMA MockIs ==
    ASSUME NEW c, Regenerable(c), NEW d, d = WithDefaults(c),
           NEW docs, docs = ManifestOf(d, ReadingsAre(c.items))
    PROVE  GenerateMockRelease(c) =
              {[name |-> d.name, namespace |-> d.namespace, status |-> d.status,
                version |-> d.version, config |-> d.values, manifest |-> docs]}
<1>1. d.values = Complete(c).values
  <2> DEFINE record == [name |-> c.name, namespace |-> c.namespace, status |-> c.status,
                        version |-> c.version, items |-> c.items, values |-> c.values,
                        owner |-> c.owner]
  <2>1. c = record
    BY DEF Regenerable
  <2>2. d.values = IF c.values = Scalar(Null) THEN EmptyMap ELSE c.values
    BY <2>1 DEF WithDefaults
  <2>3. QED
    BY <2>2, CompleteIs
<1>2. IsPlain(d.values) /\ Marshals(d.values)
  BY <1>1, CompleteIsRegenerable DEF Regenerable
<1>3. Normalize(d.values) = {d.values}
  BY <1>2, NormalizeAgain DEF Marshals
<1>4. {n \in Normalize(d.values) : Marshals(n)} = {d.values}
  BY <1>2, <1>3
<1> DEFINE at == ReadingsAre(c.items)
           decoded == {x \in ReadingsOf(c.items) :
                          \A i \in DOMAIN c.items : Decodes(c.items[i], x[i])}
<1>5. ~(c.name = NoText \/ c.status = NoText) /\ decoded = {at}
  <2>1. ~(c.name = NoText \/ c.status = NoText) /\ \A i \in DOMAIN c.items : IsItem(c.items[i])
    BY DEF Regenerable
  <2>2. ReadingsOf(c.items) = {at}
    BY <2>1, SingleReadings DEF IsItem
  <2>3. \A i \in DOMAIN c.items : at[i] = Reading(c.items[i]) /\ Decodes(c.items[i], at[i])
    BY <2>1 DEF IsItem, ReadingsAre
  <2> HIDE DEF at
  <2>4. QED
    BY <2>1, <2>2, <2>3
<1> DEFINE P(v, x) == [name |-> d.name, namespace |-> d.namespace, status |-> d.status,
                    version |-> d.version, config |-> v, manifest |-> ManifestOf(d, x)]
<1>6. GenerateMockRelease(c) = {P(v, x) : v \in {n \in Normalize(d.values) : Marshals(n)}, x \in decoded}
  BY <1>5 DEF GenerateMockRelease
<1> HIDE DEF P, decoded
<1>7. GenerateMockRelease(c) = {P(d.values, at)}
  BY <1>4, <1>5, <1>6
<1>8. QED
  BY <1>7 DEF P

LEMMA MockParsed ==
    ASSUME NEW c, Regenerable(c), NEW p, p \in GenerateMockRelease(c)
    PROVE  Helm3Parse(Mocked(p)) = {<<"release", Complete(c)>>}
<1> DEFINE d == WithDefaults(c)
           items == AllItems(c)
           docs == ManifestOf(d, ReadingsAre(c.items))
           at == ReadingsAre(items)
           whole == Complete(c)
           in == Mocked(p)
<1>1. p = [name |-> d.name, namespace |-> d.namespace, status |-> d.status,
           version |-> d.version, config |-> d.values, manifest |-> docs]
  BY MockIs
<1>2. /\ d.name = whole.name /\ d.namespace = whole.namespace /\ d.status = whole.status
      /\ d.version = whole.version /\ d.values = whole.values /\ items = whole.items
      /\ c.name = whole.name
  <2> DEFINE record == [name |-> c.name, namespace |-> c.namespace, status |-> c.status,
                        version |-> c.version, items |-> c.items, values |-> c.values,
                        owner |-> c.owner]
  <2>1. c = record
    BY DEF Regenerable
  <2>2. /\ d.name = c.name /\ d.status = c.status
        /\ d.namespace = IF c.namespace = NoText THEN c.name ELSE c.namespace
        /\ d.version = IF c.version = 0 THEN 1 ELSE c.version
        /\ d.values = IF c.values = Scalar(Null) THEN EmptyMap ELSE c.values
    BY <2>1 DEF WithDefaults
  <2> HIDE DEF d
  <2>3. QED
    BY <2>2, CompleteIs
<1>3. Regenerable(whole)
  BY CompleteIsRegenerable
<1>4. IsPath(items) /\ \A i \in DOMAIN items : IsItem(items[i])
  BY AllItemsAre
<1>5. /\ IsPath(docs) /\ Len(docs) = Len(items)
      /\ \A i \in 1 .. Len(items) : docs[i] = ThroughYaml(items[i])
  BY ManifestIs
<1>6. in.release = p /\ in.cut = FALSE /\ in.damaged = FALSE
  BY DEF Mocked
<1>7. Readable(in) = p /\ Unpacks(in)
  BY <1>6 DEF Readable, Unpacks
<1>21. ReadingsOf(items) = {at}
  BY <1>4, SingleReadings DEF IsItem
<1>22. ExtractOwnerInfo(c.name, items, at) = OwnerInfoOf(c.name, items)
  BY DEF OwnerInfoOf
<1> HIDE DEF d, items, docs, whole, in, at
<1>8. /\ p.name = whole.name /\ p.namespace = whole.namespace /\ p.status = whole.status
      /\ p.version = whole.version /\ p.config = whole.values /\ p.manifest = docs
  BY <1>1, <1>2
<1>9. Len(items) \in Nat /\ DOMAIN items = 1 .. Len(items) /\ DOMAIN docs = 1 .. Len(docs)
  BY <1>4, <1>5, Paths
<1>10. \A i \in 1 .. Len(docs) : Normalize(docs[i]) = {items[i]}
  <2> SUFFICES ASSUME NEW i \in 1 .. Len(docs) PROVE Normalize(docs[i]) = {items[i]}
    OBVIOUS
  <2>1. IsItem(items[i]) /\ docs[i] = ThroughYaml(items[i])
    BY <1>4, <1>5, <1>9
  <2>2. QED
    BY <2>1, ThroughYamlAndBack DEF IsItem
<1>11. NormalizeAll(docs) = {items}
  BY <1>4, <1>5, <1>10, NormalizeAllAgain
<1>12. Broken \notin ToSet(docs)
  <2>1. \A i \in DOMAIN docs : docs[i] # Broken
    BY <1>4, <1>5, <1>9, NotBroken
  <2>2. QED
    BY <2>1 DEF ToSet
<1>13. ConvertManifest(p.manifest) = {items}
  BY <1>8, <1>11, <1>12 DEF ConvertManifest
<1>14. Normalize(p.config) = {whole.values}
  BY <1>3, <1>8, NormalizeAgain DEF Regenerable, Marshals
<1>15. Contents(p, items, whole.values, at) = <<"release", whole>>
  <2>1. ExtractOwnerInfo(p.name, items, at) = whole.owner /\ whole.owner # Undecodable
    BY <1>2, <1>3, <1>8, <1>22 DEF Regenerable
  <2>2. whole = [name |-> whole.name, namespace |-> whole.namespace, status |-> whole.status,
                 version |-> whole.version, items |-> whole.items, values |-> whole.values,
                 owner |-> whole.owner]
    BY <1>3 DEF Regenerable
  <2>3. Contents(p, items, whole.values, at) =
           <<"release", [name |-> p.name, namespace |-> p.namespace, status |-> p.status,
                         version |-> p.version, items |-> items, values |-> whole.values,
                         owner |-> ExtractOwnerInfo(p.name, items, at)]>>
    BY <2>1 DEF Contents
  <2>4. QED
    BY <1>2, <1>8, <2>1, <2>2, <2>3
<1> DEFINE Of(i) == {Contents(p, i, values, x) : values \in Normalize(p.config), x \in ReadingsOf(i)}
           all == UNION {Of(i) : i \in ConvertManifest(p.manifest)}
<1>16. all = {<<"release", whole>>}
  <2>1. Of(items) = {<<"release", whole>>}
    BY <1>14, <1>15, <1>21
  <2> HIDE DEF Of
  <2>2. QED
    BY <1>13, <2>1
<1>17. ParseRelease(in) = {<<"release", whole>>}
  <2>1. ParseRelease(in) = IF ~Unpacks(in) \/ all = {} THEN {Failure} ELSE all
    BY <1>7 DEF ParseRelease
  <2> HIDE DEF all
  <2>2. QED
    BY <1>7, <1>16, <2>1
<1>18. \A item \in ToSet(whole.items) : Marshals(item)
  BY <1>2, <1>4 DEF ToSet, IsItem
<1>19. Helm3Parse(in) = {<<"release", whole>>}
  <2> DEFINE o == <<"release", whole>>
  <2>1. o[2] = whole
    OBVIOUS
  <2> HIDE DEF o
  <2>2. QED
    BY <1>17, <1>18, <2>1 DEF Helm3Parse, o
<1>20. QED
  BY <1>19 DEF whole, in

LEMMA RegeneratedIs ==
    ASSUME NEW c, Regenerable(c)
    PROVE  Regenerated(c) = {{<<"release", Complete(c)>>}}
<1>1. Regenerated(c) = {Helm3Parse(Mocked(p)) : p \in GenerateMockRelease(c)}
  BY DEF Regenerated, Mocked
<1>2. GenerateMockRelease(c) # {}
  BY MockIs
<1>3. \A p \in GenerateMockRelease(c) : Helm3Parse(Mocked(p)) = {<<"release", Complete(c)>>}
  BY MockParsed
<1>4. QED
  BY <1>1, <1>2, <1>3

(* What has been parsed can be generated, if GenerateMockRelease takes it. *)
LEMMA ParsedIsRegenerable ==
    ASSUME NEW c, NEW release, IsRelease(release), ParsedFrom(c, release),
           GenerateMockRelease(c) # {}, ReadInOneWay(c)
    PROVE  Regenerable(c)
<1> DEFINE record == [name |-> release.name, namespace |-> release.namespace,
                      status |-> release.status, version |-> release.version,
                      items |-> c.items, values |-> release.config,
                      owner |-> c.owner]
           docs == release.manifest
           items == c.items
<1>1. c = record
  BY DEF ParsedFrom
<1>2. /\ c.name = release.name /\ c.values = release.config
      /\ c = [name |-> c.name, namespace |-> c.namespace, status |-> c.status,
              version |-> c.version, items |-> c.items, values |-> c.values,
              owner |-> c.owner]
  BY <1>1
<1> HIDE DEF record
<1>3. /\ items \in NormalizeAll(docs) /\ c.owner # Undecodable
      /\ \A item \in ToSet(items) : Marshals(item)
  BY DEF ParsedFrom
<1>4. IsPath(docs) /\ \A doc \in ToSet(docs) : IsTree(doc)
  BY DEF IsRelease, IsPath
<1>5. IsPlain(c.values) /\ Marshals(c.values)
  BY <1>2, JsonIsPlain DEF IsRelease
<1> DEFINE only == ReadingsAre(items)
<1>11. \A i \in DOMAIN items : HasReading(items[i])
  BY SingleReading DEF ReadInOneWay, ToSet
<1>12. ReadingsOf(items) = {only}
  BY <1>11, SingleReadings
<1>6. /\ c.name # NoText /\ c.status # NoText
      /\ \A i \in DOMAIN items : Decodes(items[i], Reading(items[i]))
  <2>1. c.name # NoText /\ c.status # NoText
        /\ \E at \in ReadingsOf(items) : \A i \in DOMAIN items : Decodes(items[i], at[i])
    BY DEF GenerateMockRelease
  <2>2. \A i \in DOMAIN items : only[i] = Reading(items[i])
    BY DEF ReadingsAre
  <2> HIDE DEF only, items
  <2>3. QED
    BY <1>12, <2>1, <2>2
<1>13. c.owner = OwnerInfoOf(c.name, items)
  <2>1. \E at \in ReadingsOf(items) : c.owner = ExtractOwnerInfo(c.name, items, at)
    BY <1>2 DEF ParsedFrom
  <2> HIDE DEF only, items
  <2>2. QED
    BY <1>12, <2>1 DEF OwnerInfoOf, only
<1> HIDE DEF docs, items
<1>7. /\ IsPath(items) /\ Len(items) = Len(docs)
      /\ \A i \in 1 .. Len(docs) : items[i] \in Normalize(docs[i])
  BY <1>3, <1>4, NormalizeAllIs
<1>8. DOMAIN items = 1 .. Len(docs) /\ DOMAIN docs = 1 .. Len(docs)
  BY <1>4, <1>7, Paths
<1>9. \A i \in DOMAIN items : IsItem(items[i])
  <2> SUFFICES ASSUME NEW i \in DOMAIN items PROVE IsItem(items[i])
    OBVIOUS
  <2>1. docs[i] \in ToSet(docs) /\ items[i] \in ToSet(items)
    BY <1>8 DEF ToSet
  <2>2. IsTree(docs[i]) /\ items[i] \in Normalize(docs[i])
    BY <1>4, <1>7, <1>8, <2>1
  <2>3. IsPlain(items[i]) /\ \A p \in DOMAIN items[i] : items[i][p] # YamlNode
    BY <2>2, TreesHavePaths, NormalizeYieldsPlain
  <2>4. QED
    BY <1>3, <1>6, <1>11, <2>1, <2>3 DEF IsItem
<1>10. QED
  BY <1>2, <1>3, <1>5, <1>6, <1>7, <1>9, <1>13 DEF Regenerable, items

LEMMA RoundTrip ==
    ASSUME NEW c, NEW release, IsRelease(release), ParsedFrom(c, release), ReadInOneWay(c),
           NEW outcomes \in Regenerated(c)
    PROVE  /\ outcomes = {<<"release", Complete(c)>>}
           /\ Regenerated(Complete(c)) = {outcomes}
<1>1. Regenerable(c)
  BY ParsedIsRegenerable DEF Regenerated
<1>2. Regenerable(Complete(c)) /\ Complete(Complete(c)) = Complete(c)
  BY <1>1, CompleteIsRegenerable
<1>3. Regenerated(c) = {{<<"release", Complete(c)>>}}
  BY <1>1, RegeneratedIs
<1>4. Regenerated(Complete(c)) = {{<<"release", Complete(c)>>}}
  BY <1>2, RegeneratedIs
<1>5. QED
  BY <1>3, <1>4

-----------------------------------------------------------------------------
(* Every answer with a release comes of the body that the client sent.     *)
Whole(items, docs) ==
    /\ Len(items) = Len(docs)
    /\ \A i \in DOMAIN docs :
          /\ Nodes(items[i]) \subseteq Nodes(docs[i])
          /\ \A p \in DOMAIN docs[i] :
                p = <<>> \/ Front(p) \in Unrivalled(docs[i]) => Written(p) \in DOMAIN items[i]

LEMMA WholeBody ==
    ASSUME NEW c, NEW release, IsRelease(release), ParsedFrom(c, release)
    PROVE  /\ Whole(c.items, release.manifest) /\ c.values = release.config
<1> DEFINE record == [name |-> release.name, namespace |-> release.namespace,
                      status |-> release.status, version |-> release.version,
                      items |-> c.items, values |-> release.config,
                      owner |-> c.owner]
           docs == release.manifest
           items == c.items
<1>1. c = record
  BY DEF ParsedFrom
<1>2. c.values = release.config
  BY <1>1
<1> HIDE DEF record
<1>3. items \in NormalizeAll(docs)
  BY DEF ParsedFrom
<1>4. IsPath(docs) /\ \A doc \in ToSet(docs) : IsTree(doc)
  BY DEF IsRelease, IsPath
<1> HIDE DEF docs, items
<1>5. /\ IsPath(items) /\ Len(items) = Len(docs)
      /\ \A i \in 1 .. Len(docs) : items[i] \in Normalize(docs[i])
  BY <1>3, <1>4, NormalizeAllIs
<1>6. ASSUME NEW i \in DOMAIN docs
      PROVE  /\ Nodes(items[i]) \subseteq Nodes(docs[i])
             /\ \A p \in DOMAIN docs[i] :
                   p = <<>> \/ Front(p) \in Unrivalled(docs[i]) => Written(p) \in DOMAIN items[i]
  <2>1. HasPaths(docs[i]) /\ items[i] \in Normalize(docs[i])
    <3>1. docs[i] \in ToSet(docs) /\ i \in 1 .. Len(docs)
      BY <1>4, Paths DEF ToSet
    <3>2. QED
      BY <1>4, <1>5, <3>1, TreesHavePaths
  <2>2. QED
    BY <2>1, NormalizeKeepsNodes, NormalizeCovers
<1>7. Whole(items, docs)
  BY <1>5, <1>6 DEF Whole
<1>8. QED
  BY <1>2, <1>7 DEF docs, items

(* What is parsed is what the client sent, and what is answered is one of  *)
(* the results.                                                            *)
Answers(outcomes, result) == \E outcome \in outcomes \ {Failure} : result = outcome[2]

ReplyInv ==
    /\ DOMAIN pc = Requests /\ DOMAIN body = Requests /\ DOMAIN reply = Requests
    /\ \A r \in Requests :
          /\ pc[r] = "parsing" => body[r] \in Bodies[r]
          /\ Parsed(r) => /\ body[r] \in Bodies[r]
                          /\ Answers(Helm3Parse(Received(body[r])), Result(r))

LEMMA ParserIs ==
    ASSUME NEW r \in Requests, NEW b \in Bodies[r]
    PROVE  /\ parse[Received(b)] = Helm3Parse(Received(b))
           /\ IsRelease(b.release) /\ Received(b).release = b.release
<1>1. b \in UNION Range(Bodies)
  BY ServiceAssumption DEF ServiceAssumption, Range
<1>2. IsRelease(b.release)
  BY <1>1, ServiceAssumption DEF ServiceAssumption
<1>3. Received(b) \in {Received(x) : x \in UNION Range(Bodies)}
  BY <1>1
<1>4. Outcomes[Received(b)] = Helm3Parse(Received(b))
  BY <1>3 DEF Outcomes
<1>5. Received(b).release = b.release
  BY DEF Received
<1>6. QED
  BY <1>2, <1>4, <1>5, ServiceAssumption DEF ServiceAssumption

LEMMA ReplyInit == Init => ReplyInv
BY DEF Init, ReplyInv, Parsed

(* The requests that a step leaves alone.                                  *)
LEMMA OthersKeepReplies ==
    ASSUME ReplyInv, NEW r \in Requests, NEW q \in Requests,
           pc'[q] = pc[q], body'[q] = body[q], reply'[q] = reply[q]
    PROVE  /\ pc'[q] = "parsing" => body'[q] \in Bodies[q]
           /\ Parsed(q)' => /\ body'[q] \in Bodies[q]
                            /\ Answers(Helm3Parse(Received(body'[q])), Result(q)')
BY DEF ReplyInv, Parsed, Result

LEMMA ReplyStep == ReplyInv /\ [Next]_vars => ReplyInv'
<1> SUFFICES ASSUME ReplyInv, [Next]_vars PROVE ReplyInv'
  OBVIOUS
<1>1. ASSUME NEW r \in Requests, Arrive(r) \/ Acquire(r) PROVE ReplyInv'
  <2>1. /\ \E label \in {"waiting", "running"} : pc' = [pc EXCEPT ![r] = label]
        /\ UNCHANGED <<body, reply>>
    BY <1>1 DEF Arrive, Acquire, Goto
  <2>2. QED
    BY <2>1 DEF ReplyInv, Parsed, Result
<1>2. ASSUME NEW r \in Requests, HealthCheck(r) \/ NotFound(r) \/ ReadFails(r)
      PROVE  ReplyInv'
  <2>1. /\ pc' = [pc EXCEPT ![r] = "replied"] /\ body' = body
        /\ \E status : reply' = [reply EXCEPT ![r] = <<status>>]
    BY <1>2 DEF HealthCheck, NotFound, ReadFails, Reply, Goto
  <2>2. QED
    BY <2>1 DEF ReplyInv, Parsed, Result
<1>3. ASSUME NEW r \in Requests, Read(r) PROVE ReplyInv'
  <2>1. PICK b \in Bodies[r] : body' = [body EXCEPT ![r] = b]
    BY <1>3 DEF Read
  <2>2. pc' = [pc EXCEPT ![r] = "parsing"] /\ reply' = reply
    BY <1>3 DEF Read, Goto
  <2>3. QED
    BY <2>1, <2>2 DEF ReplyInv, Parsed, Result
<1>4. ASSUME NEW r \in Requests, ParseBody(r) PROVE ReplyInv'
  <2>1. pc[r] = "parsing" /\ pc' = [pc EXCEPT ![r] = "replied"] /\ body' = body
    BY <1>4 DEF ParseBody, Goto
  <2>2. PICK outcome \in parse[Received(body[r])] :
           reply' = [reply EXCEPT ![r] = IF outcome = Failed THEN <<400>>
                                         ELSE <<200, outcome[2]>>]
    BY <1>4 DEF ParseBody
  <2>3. body[r] \in Bodies[r]
    BY <2>1 DEF ReplyInv
  <2>4. outcome \in Helm3Parse(Received(body[r]))
    BY <2>2, <2>3, ParserIs
  <2>5. Failed = Failure
    BY ServiceAssumption DEF ServiceAssumption
  <2>6. DOMAIN pc' = Requests /\ DOMAIN body' = Requests /\ DOMAIN reply' = Requests
    BY <2>1, <2>2 DEF ReplyInv
  <2>7. ASSUME NEW q \in Requests, q # r
        PROVE  /\ pc'[q] = "parsing" => body'[q] \in Bodies[q]
               /\ Parsed(q)' => /\ body'[q] \in Bodies[q]
                                /\ Answers(Helm3Parse(Received(body'[q])), Result(q)')
    <3>1. pc'[q] = pc[q] /\ body'[q] = body[q] /\ reply'[q] = reply[q]
      BY <2>1, <2>2, <2>7 DEF ReplyInv
    <3>2. QED
      BY <3>1, OthersKeepReplies
  <2>8. ASSUME Parsed(r)'
        PROVE  Answers(Helm3Parse(Received(body'[r])), Result(r)')
    <3>1. reply'[r] = IF outcome = Failure THEN <<400>> ELSE <<200, outcome[2]>>
      BY <2>2, <2>5 DEF ReplyInv
    <3>2. outcome # Failure
      BY <2>8, <3>1 DEF Parsed
    <3>3. Result(r)' = outcome[2]
      BY <3>1, <3>2 DEF Result
    <3>4. QED
      BY <2>1, <2>4, <3>2, <3>3 DEF Answers
  <2>9. pc'[r] = "replied" /\ body'[r] = body[r]
    BY <2>1 DEF ReplyInv
  <2>10. QED
    BY <2>3, <2>6, <2>7, <2>8, <2>9 DEF ReplyInv
<1>5. ASSUME NEW r \in Requests, Return(r) PROVE ReplyInv'
  <2>1. /\ pc' = [pc EXCEPT ![r] = "idle"] /\ \E b : body' = [body EXCEPT ![r] = b]
        /\ \E answer : reply' = [reply EXCEPT ![r] = answer]
    BY <1>5 DEF Return, Goto
  <2>2. QED
    BY <2>1 DEF ReplyInv, Parsed, Result
<1>6. CASE Interrupt \/ UNCHANGED vars
  <2>1. UNCHANGED <<pc, body, reply>>
    BY <1>6 DEF Interrupt, vars
  <2>2. QED
    BY <2>1 DEF ReplyInv, Parsed, Result
<1>7. QED
  BY <1>1, <1>2, <1>3, <1>4, <1>5, <1>6 DEF Next, Handle

LEMMA ReplyHolds == Spec => []ReplyInv
BY ReplyInit, ReplyStep, PTL DEF Spec

LEMMA AnswersAreParsed ==
    ASSUME ReplyInv, NEW r \in Requests, Parsed(r)
    PROVE  IsRelease(Sent(r)) /\ ParsedFrom(Result(r), Sent(r))
<1>1. /\ body[r] \in Bodies[r]
      /\ Answers(Helm3Parse(Received(body[r])), Result(r))
  BY DEF ReplyInv
<1> DEFINE in == Received(body[r])
<1>2. IsRelease(in.release) /\ in.release = Sent(r) /\ IsRelease(Sent(r))
  BY <1>1, ParserIs DEF Sent
<1>3. PICK outcome \in Helm3Parse(in) : outcome # Failure /\ Result(r) = outcome[2]
  BY <1>1 DEF Answers
<1> HIDE DEF in
<1>4. ParsedFrom(outcome[2], in.release)
  BY <1>2, <1>3, ParseYields
<1>5. QED
  BY <1>2, <1>3, <1>4

(* Whatever is sent, an answer with a release has the whole of it, item    *)
(* for item and node for node, or there is none (main.go:77 cuts a body    *)
(* that is too large without telling anybody).                             *)
THEOREM WholeBodies == Spec => []AnswersWholeBody
<1>1. ReplyInv => AnswersWholeBody
  <2> SUFFICES ASSUME ReplyInv, NEW r \in Requests, Parsed(r)
               PROVE  /\ Whole(Result(r).items, Sent(r).manifest)
                      /\ Result(r).values = Sent(r).config
    BY DEF AnswersWholeBody, Whole
  <2>1. QED
    BY AnswersAreParsed, WholeBody
<1>2. QED
  BY <1>1, ReplyHolds, PTL

(* The owner info of an answer is the data of the first ConfigMap of its   *)
(* name, and empty if there is none (parser.go:98), the fields of each item*)
(* being where mapstructure looks for them: under their own names, or else *)
(* under one of the names that EqualFold, any relation, takes for them.    *)
THEOREM OwnerInfoRepeats == Spec => []OwnerInfoIsRepeated
<1>1. ReplyInv => OwnerInfoIsRepeated
  <2> SUFFICES ASSUME ReplyInv PROVE OwnerInfoIsRepeated
    OBVIOUS
  <2>1. \A r \in {q \in Requests : Parsed(q)} :
           \E at \in ReadingsOf(Result(r).items) : RepeatsAt(Result(r), at, Sent(r).name)
    BY AnswersAreParsed, OwnerInfoRepeated
  <2>2. QED
    BY <2>1, Zenon DEF OwnerInfoIsRepeated, RepeatsAt
<1>2. QED
  BY <1>1, ReplyHolds, PTL

(* "GenerateMockRelease() is kind of the reverse of ParseRelease()"        *)
(* (generator.go:29): of any release that the parser answers with, the     *)
(* generator makes one that parses to it again, completed once and for all,*)
(* unless Go's map order decides where a field of an item is found.        *)
THEOREM GeneratorReverses == Spec => []GeneratorReversesParser
<1>1. ReplyInv => GeneratorReversesParser
  <2> SUFFICES ASSUME ReplyInv, NEW r \in Requests, Parsed(r), ReadInOneWay(Result(r)),
                      NEW outcomes \in Regenerated(Result(r))
               PROVE  /\ outcomes = {<<"release", Complete(Result(r))>>}
                      /\ Regenerated(Complete(Result(r))) = {outcomes}
    BY DEF GeneratorReversesParser
  <2>1. QED
    BY AnswersAreParsed, RoundTrip
<1>2. QED
  BY <1>1, ReplyHolds, PTL
=============================================================================
