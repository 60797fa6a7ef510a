------------------------------ MODULE Answers ------------------------------
(***************************************************************************)
(* Concurrent requests for /v2/violations in the memory of doop-api        *)
(* (doop-api/api.go, aggregate.go, downloader.go).  The reports that       *)
(* GetReports gives away are the cached ones: the mutex is released, but   *)
(* the slices still point into arrays that everyone shares, and Go appends *)
(* in place as long as there is capacity.  Of the reports one violation    *)
(* group is left, which every cluster has: its list of instances is what   *)
(* is appended to, sorted in place, and written to the client.             *)
(***************************************************************************)
EXTENDS Naturals, SequencesExt

CONSTANTS
    Clusters,    \* the clusters whose reports are cached
    Requests,    \* the goroutines that handle requests
    Texts,       \* the lists of texts that a report may have as instances
    First,       \* the list that each of the first reports has
    ChunkSize,   \* what chunkingWriter writes at once, here in instances
    Spare,       \* bound: the capacity beyond its length that a slice may get
    MaxLoads,    \* bound: reports that are loaded after the first ones
    Arrays       \* the addresses of arrays

ASSUME MemoryAssumption ==
    /\ ChunkSize \in Nat \ {0}
    /\ Spare \in Nat /\ MaxLoads \in Nat
    /\ Texts \subseteq Seq(Nat) /\ First \in Texts
    /\ Arrays \subseteq Nat \ {0} /\ Clusters \subseteq Arrays

VARIABLES
    heap,      \* heap[a]: the cells of array a, as many as its capacity
    cached,    \* cached[n]: the slice in the cached report of n
    loaded,    \* history: loaded[n], the instances that were decoded for n
    loads,     \* how many reports have been loaded
    request    \* what each goroutine works on

vars == <<heap, cached, loaded, loads, request>>

Slice(array, len) == [array |-> array, len |-> len]
Nil == Slice(0, 0)
Blank == <<>>           \* a cell that was never written

Idle == [at |-> "idle", todo |-> {}, reports |-> [n \in Clusters |-> Nil],
         asked |-> [n \in Clusters |-> <<>>], instances |-> Nil, buf |-> <<>>, sent |-> <<>>]

View(s) == IF s = Nil THEN <<>> ELSE SubSeq(heap[s.array], 1, s.len)

-----------------------------------------------------------------------------
(* Memory: an array that nobody points to is taken for a new one.  Arrays  *)
(* has to be large enough that there always is one.                        *)

Shared == {cached[n].array : n \in Clusters}
          \cup {request[r].reports[n].array : r \in Requests, n \in Clusters}

InUse == Shared \cup {request[r].instances.array : r \in Requests}

Fresh == CHOOSE a \in Arrays : a \notin InUse

Cells(list, spare) == list \o [i \in 1 .. spare |-> Blank]

(* make, or the growth of append: the capacity is the runtime's choice.    *)
Allocate(list) ==
    /\ Arrays \ InUse # {}
    /\ \E spare \in 0 .. Spare :
           heap' = [a \in Arrays |-> IF a = Fresh THEN Cells(list, spare)
                                     ELSE IF a \in InUse THEN heap[a] ELSE <<>>]

(* append(s, list...): in place if the capacity suffices.                  *)
HasRoom(s, list) == s.len + Len(list) <= Len(heap[s.array])

Appended(s, list) == Slice(IF HasRoom(s, list) THEN s.array ELSE Fresh, s.len + Len(list))

AppendTo(s, list) ==
    IF HasRoom(s, list)
    THEN heap' = [heap EXCEPT ![s.array] =
                    [i \in DOMAIN @ |-> IF i \in s.len + 1 .. s.len + Len(list)
                                        THEN list[i - s.len] ELSE @[i]]]
    ELSE Allocate(View(s) \o list)

-----------------------------------------------------------------------------
(* The instances of cluster n, after SetClusterName.                       *)
Instances(n, texts) == [i \in DOMAIN texts |-> [text |-> texts[i], cluster |-> n]]

(* The names of clusters are numbers, which are compared; the first arrays *)
(* have the same numbers.                                                  *)
Init ==
    /\ loaded = [n \in Clusters |-> Instances(n, First)]
    /\ cached = [n \in Clusters |-> Slice(n, Len(loaded[n]))]
    /\ \E spare \in [Clusters -> 0 .. Spare] :
          heap = [a \in Arrays |-> IF a \in Clusters THEN Cells(loaded[a], spare[a]) ELSE <<>>]
    /\ loads = 0
    /\ request = [r \in Requests |-> Idle]

(* json.Unmarshal fills a new array; its capacity has grown in steps.      *)
Load(n) ==
    /\ loads < MaxLoads
    /\ loads' = loads + 1
    /\ \E texts \in Texts :
          /\ Allocate(Instances(n, texts))
          /\ loaded' = [loaded EXCEPT ![n] = Instances(n, texts)]
          /\ cached' = [cached EXCEPT ![n] = Slice(Fresh, Len(texts))]
    /\ UNCHANGED request

(* GetReports returns: the reports are copied, but not what they point to. *)
GetReports(r) ==
    /\ request[r].at = "idle"
    /\ request' = [request EXCEPT ![r] =
            [Idle EXCEPT !.at = "visiting", !.todo = Clusters,
                         !.reports = cached, !.asked = loaded]]
    /\ UNCHANGED <<heap, cached, loaded, loads>>

Visited(r, n, slice) ==
    request' = [request EXCEPT ![r].todo = @ \ {n}, ![r].instances = slice,
                               ![r].reports[n] = Nil]

(* Mutant: the new group takes the slice of the report as it is.           *)
StartGroupShared(r, n) ==
    /\ request[r].at = "visiting" /\ n \in request[r].todo
    /\ request[r].instances = Nil
    /\ Visited(r, n, request[r].reports[n])
    /\ UNCHANGED <<heap, cached, loaded, loads>>

(* Mutant: the clone is made with its length, and then appended to.        *)
StartGroupPadded(r, n) ==
    /\ request[r].at = "visiting" /\ n \in request[r].todo
    /\ request[r].instances = Nil
    /\ Allocate([i \in 1 .. request[r].reports[n].len |-> Blank]
                   \o View(request[r].reports[n]))
    /\ Visited(r, n, Slice(Fresh, 2 * request[r].reports[n].len))
    /\ UNCHANGED <<cached, loaded, loads>>

(* A new ViolationGroup, with slices.Clone of the instances.               *)
StartGroup(r, n) ==
    /\ request[r].at = "visiting" /\ n \in request[r].todo
    /\ request[r].instances = Nil
    /\ Allocate(View(request[r].reports[n]))
    /\ Visited(r, n, Slice(Fresh, request[r].reports[n].len))
    /\ UNCHANGED <<cached, loaded, loads>>

MergeIntoGroup(r, n) ==
    LET list == View(request[r].reports[n])
    IN  /\ request[r].at = "visiting" /\ n \in request[r].todo
        /\ request[r].instances # Nil
        /\ AppendTo(request[r].instances, list)
        /\ Visited(r, n, Appended(request[r].instances, list))
        /\ UNCHANGED <<cached, loaded, loads>>

Before(v, w) == v.text < w.text \/ (v.text = w.text /\ v.cluster < w.cluster)

(* slices.SortFunc: the same elements, in place and in some correct order. *)
Sort(r) ==
    LET s == request[r].instances
        list == View(s)
    IN  /\ request[r].at = "visiting" /\ request[r].todo = {}
        /\ \E p \in Bijection(1 .. s.len, 1 .. s.len) :
              /\ \A i, j \in 1 .. s.len : i < j => ~Before(list[p[j]], list[p[i]])
              /\ heap' = [heap EXCEPT ![s.array] =
                      [i \in DOMAIN @ |-> IF i <= s.len THEN list[p[i]] ELSE @[i]]]
        /\ request' = [request EXCEPT ![r].at = "sorted"]
        /\ UNCHANGED <<cached, loaded, loads>>

(* json.Encoder.Encode makes the whole text before it writes.              *)
Encode(r) ==
    /\ request[r].at = "sorted"
    /\ request' = [request EXCEPT ![r].at = "writing",
                        ![r].buf = View(request[r].instances), ![r].instances = Nil]
    /\ UNCHANGED <<heap, cached, loaded, loads>>

(* chunkingWriter.Write: chunks while there is more than one, then the     *)
(* rest, which may be a full chunk; an error ends it.                      *)
Written(r, count, label) ==
    request' = [request EXCEPT ![r].at = label,
                    ![r].sent = @ \o SubSeq(request[r].buf, 1, count),
                    ![r].buf = SubSeq(@, count + 1, Len(@))]

WriteChunk(r) ==
    /\ request[r].at = "writing"
    /\ Len(request[r].buf) > ChunkSize
    /\ Written(r, ChunkSize, "writing")
    /\ UNCHANGED <<heap, cached, loaded, loads>>

(* Mutant: nothing is written if what is left fills a chunk.               *)
WriteRestIfSmaller(r) ==
    /\ request[r].at = "writing"
    /\ Len(request[r].buf) <= ChunkSize
    /\ Written(r, Len(request[r].buf) % ChunkSize, "answered")
    /\ UNCHANGED <<heap, cached, loaded, loads>>

WriteRest(r) ==
    /\ request[r].at = "writing"
    /\ Len(request[r].buf) <= ChunkSize
    /\ Written(r, Len(request[r].buf), "answered")
    /\ UNCHANGED <<heap, cached, loaded, loads>>

(* The connection breaks before, or in the middle of, one of the writes.   *)
WriteFails(r) ==
    /\ request[r].at = "writing"
    /\ Written(r, 0, "failed")
    /\ UNCHANGED <<heap, cached, loaded, loads>>

Return(r) ==
    /\ request[r].at \in {"answered", "failed"}
    /\ request' = [request EXCEPT ![r] = Idle]
    /\ UNCHANGED <<heap, cached, loaded, loads>>

Next ==
    \/ \E n \in Clusters : Load(n)
    \/ \E r \in Requests :
          \/ GetReports(r)
          \/ \E n \in Clusters : StartGroup(r, n) \/ MergeIntoGroup(r, n)
          \/ Sort(r) \/ Encode(r)
          \/ WriteChunk(r) \/ WriteRest(r) \/ WriteFails(r) \/ Return(r)

Spec == Init /\ [][Next]_vars

-----------------------------------------------------------------------------
Instance == [text : UNION {ToSet(texts) : texts \in Texts}, cluster : Clusters]
Slices == [array : Arrays \cup {Nil.array}, len : Nat]

(* A slice lies within its array, and within what has been written there.  *)
IsSlice(s) ==
    /\ s.array \in Arrays /\ s.len <= Len(heap[s.array])
    /\ \A i \in 1 .. s.len : heap[s.array][i] \in Instance

(* Every variable has its type, and every slice that somebody may still    *)
(* use is one.                                                             *)
TypeOK ==
    /\ heap \in [Arrays -> Seq(Instance \cup {Blank})]
    /\ cached \in [Clusters -> Slices] /\ loaded \in [Clusters -> Seq(Instance)]
    /\ loads \in 0 .. MaxLoads
    /\ request \in [Requests -> [at : {"idle", "visiting", "sorted", "writing", "answered", "failed"},
            todo : SUBSET Clusters, reports : [Clusters -> Slices],
            asked : [Clusters -> Seq(Instance)], instances : Slices,
            buf : Seq(Instance), sent : Seq(Instance)]]
    /\ \A n \in Clusters : IsSlice(cached[n])
    /\ \A r \in Requests :
          /\ \A n \in request[r].todo : IsSlice(request[r].reports[n])
          /\ request[r].instances # Nil => IsSlice(request[r].instances)

(* However requests overlap with each other and with new uploads: the      *)
(* cached report of a cluster stays what it was when it was loaded, in     *)
(* order and in contents (aggregate.go:119 clones what it appends to and   *)
(* what is sorted).                                                        *)
CacheUnaltered == \A n \in Clusters : View(cached[n]) = loaded[n]

(* Behind this: the array that a request appends to and sorts is in nobody *)
(* else's hands, and the reports that it was given stay as they were, also *)
(* when the cache has new ones.                                            *)
PrivateInv ==
    \A r \in Requests : request[r].instances # Nil =>
        /\ request[r].instances.array \notin Shared
        /\ \A q \in Requests \ {r} :
              request[q].instances.array # request[r].instances.array

GivenInv ==
    \A r \in Requests : \A n \in request[r].todo :
        View(request[r].reports[n]) = request[r].asked[n]

MemoryInv == TypeOK /\ CacheUnaltered /\ PrivateInv /\ GivenInv

-----------------------------------------------------------------------------
Occurrences(list, e) == Cardinality({i \in DOMAIN list : list[i] = e})
InOrder(list) == \A i, j \in DOMAIN list : i < j => ~Before(list[j], list[i])

(* The answer to a request, as far as it has come.                         *)
AnswerOf(r) ==
    IF request[r].at \in {"visiting", "sorted"} THEN View(request[r].instances)
    ELSE request[r].sent \o request[r].buf

(* Each instance of the reports of the clusters S that r was given is      *)
(* listed, as often as it was when the report was loaded, and no other.    *)
ListsThoseOf(S, list, r) ==
    \A e \in Instance :
        Occurrences(list, e) = IF e.cluster \in S
                               THEN Occurrences(request[r].asked[e.cluster], e) ELSE 0

(* An instance names the cluster that it is from (downloader.go:70).       *)
MarkedAs(n, list) == \A i \in DOMAIN list : list[i].cluster = n

(* At each time the answer has what was visited, all of it once that is    *)
(* done, and then it is sorted.                                            *)
AnswerInv ==
    /\ \A n \in Clusters : MarkedAs(n, loaded[n])
    /\ \A r \in Requests : request[r].at # "idle" =>
          /\ \A n \in Clusters : MarkedAs(n, request[r].asked[n])
          /\ ListsThoseOf(Clusters \ request[r].todo, AnswerOf(r), r)
          /\ request[r].at # "visiting" => request[r].todo = {} /\ InOrder(AnswerOf(r))
          /\ request[r].at \in {"visiting", "sorted"} => request[r].sent = <<>>
          /\ request[r].at = "answered" => request[r].buf = <<>>

IInv == MemoryInv /\ AnswerInv

(* Every answer lists the instances of the reports that its request was    *)
(* given, each as often as it was loaded, and sorted, though others append *)
(* and sort at the same time.  The client gets it whole and in order       *)
(* however many chunks it takes, or if an error cuts it off, a beginning   *)
(* of it: what is left to write is the rest (api.go:34-49).                *)
AnswersAreTrue ==
    \A r \in Requests :
        LET answer == request[r].sent \o request[r].buf
        IN  /\ request[r].at \in {"writing", "answered", "failed"} =>
                  ListsThoseOf(Clusters, answer, r) /\ InOrder(answer)
            /\ request[r].at = "answered" => request[r].buf = <<>>
=============================================================================
