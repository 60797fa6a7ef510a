--------------------------- MODULE AnswersProofs ---------------------------
(***************************************************************************)
(* No request alters the cache or what another one was given, and each     *)
(* client gets its own answer, for any number of clusters and requests,    *)
(* any lists, and any growth of slices.                                    *)
(***************************************************************************)
EXTENDS Answers, FiniteSetTheorems, SequenceTheorems, TLAPS

USE MemoryAssumption

Cell == Instance \cup {Blank}

Request == [at : {"idle", "visiting", "sorted", "writing", "answered", "failed"},
            todo : SUBSET Clusters, reports : [Clusters -> Slices],
            asked : [Clusters -> Seq(Instance)], instances : Slices,
            buf : Seq(Instance), sent : Seq(Instance)]

(* What a report may have as an instance.                                  *)
LEMMA InstanceOf ==
    ASSUME NEW texts \in Texts, NEW n \in Clusters, NEW i \in DOMAIN texts
    PROVE  [text |-> texts[i], cluster |-> n] \in Instance
<1>1. texts[i] \in UNION {ToSet(list) : list \in Texts}
  BY DEF ToSet
<1>2. QED
  BY <1>1 DEF Instance

(* The beginning of an array.                                              *)
LEMMA Prefix ==
    ASSUME NEW a, NEW l \in Nat, \A i \in 1 .. l : a[i] \in Instance
    PROVE  /\ SubSeq(a, 1, l) \in Seq(Instance) /\ Len(SubSeq(a, 1, l)) = l
           /\ \A i \in 1 .. l : SubSeq(a, 1, l)[i] = a[i]
<1>1. /\ SubSeq(a, 1, l) \in Seq(Instance)
      /\ Len(SubSeq(a, 1, l)) = IF 1 <= l THEN l - 1 + 1 ELSE 0
      /\ \A i \in 1 .. l - 1 + 1 : SubSeq(a, 1, l)[i] = a[1 + i - 1]
  BY SubSeqProperties
<1>2. QED
  BY <1>1

(* A slice is as long as it says, and has what its array begins with.      *)
LEMMA ViewOfSlice ==
    ASSUME NEW s \in Slices, IsSlice(s)
    PROVE  /\ View(s) \in Seq(Instance) /\ Len(View(s)) = s.len
           /\ \A i \in 1 .. s.len : View(s)[i] = heap[s.array][i]
<1>1. s # Nil /\ s.len \in Nat
  BY DEF IsSlice, Nil, Slice, Slices
<1>2. View(s) = SubSeq(heap[s.array], 1, s.len)
  BY <1>1 DEF View
<1>3. QED
  BY <1>1, <1>2, Prefix DEF IsSlice

(* It stays what it is as long as nobody writes into its array.            *)
LEMMA SliceStays ==
    ASSUME NEW s, IsSlice(s), heap'[s.array] = heap[s.array]
    PROVE  IsSlice(s)' /\ View(s)' = View(s)
BY DEF IsSlice, View

(* A slice of exactly such a list has it as its view.                      *)
LEMMA SliceOf ==
    ASSUME NEW s \in Slices, NEW list \in Seq(Instance), s.len = Len(list),
           IsSlice(s)', \A i \in 1 .. Len(list) : heap'[s.array][i] = list[i]
    PROVE  View(s)' = list
<1>1. s # Nil /\ s.len \in Nat
  BY DEF IsSlice, Nil, Slice, Slices
<1>2. View(s)' = SubSeq(heap'[s.array], 1, s.len)
  BY <1>1 DEF View
<1>3. View(s)' \in Seq(Instance) /\ Len(View(s)') = s.len
      /\ \A i \in 1 .. s.len : View(s)'[i] = heap'[s.array][i]
  BY <1>1, <1>2, Prefix DEF IsSlice
<1>4. QED
  BY <1>3, SeqEqual

(* New arrays are new.                                                     *)
LEMMA FreshIsFree ==
    ASSUME Arrays \ InUse # {}
    PROVE  Fresh \in Arrays /\ Fresh \notin InUse
BY DEF Fresh

(* What an allocation leaves: the list in a new array, and all the arrays  *)
(* that are in use.                                                        *)
LEMMA Allocated ==
    ASSUME TypeOK, NEW list \in Seq(Instance), Allocate(list)
    PROVE  /\ Fresh \in Arrays /\ Fresh \notin InUse
           /\ heap' \in [Arrays -> Seq(Cell)]
           /\ Len(list) <= Len(heap'[Fresh]) /\ Len(list) \in Nat
           /\ \A i \in 1 .. Len(list) : heap'[Fresh][i] = list[i] /\ list[i] \in Instance
           /\ \A a \in Arrays : a \in InUse => heap'[a] = heap[a]
<1>1. Fresh \in Arrays /\ Fresh \notin InUse
  BY FreshIsFree DEF Allocate
<1>2. PICK spare \in 0 .. Spare :
        heap' = [a \in Arrays |-> IF a = Fresh THEN Cells(list, spare)
                                  ELSE IF a \in InUse THEN heap[a] ELSE <<>>]
  BY DEF Allocate
<1> DEFINE rest == [i \in 1 .. spare |-> Blank]
<1>3. rest \in Seq(Cell) /\ Len(rest) = spare
  <2>1. spare \in Nat /\ Blank \in Cell
    BY DEF Cell
  <2>2. QED
    BY <2>1
<1>4. list \in Seq(Cell)
  BY SeqMonotonic DEF Cell
<1> HIDE DEF rest
<1>5. /\ list \o rest \in Seq(Cell) /\ Len(list \o rest) = Len(list) + spare
      /\ Len(list) \in Nat
      /\ \A i \in 1 .. Len(list) : (list \o rest)[i] = list[i] /\ list[i] \in Instance
  <2>1. Len(list) \in Nat /\ \A i \in 1 .. Len(list) : list[i] \in Instance
    BY LenProperties, ElementOfSeq
  <2>2. /\ list \o rest \in Seq(Cell) /\ Len(list \o rest) = Len(list) + Len(rest)
        /\ \A i \in 1 .. Len(list) + Len(rest) :
              (list \o rest)[i] = IF i <= Len(list) THEN list[i] ELSE rest[i - Len(list)]
    BY <1>3, <1>4, ConcatProperties
  <2>3. QED
    BY <1>3, <2>1, <2>2
<1>6. heap'[Fresh] = list \o rest
  BY <1>1, <1>2 DEF Cells, rest
<1>7. heap' \in [Arrays -> Seq(Cell)]
  <2>1. heap \in [Arrays -> Seq(Cell)]
    BY DEF TypeOK, Cell
  <2>2. <<>> \in Seq(Cell)
    OBVIOUS
  <2>3. \A a \in Arrays : heap'[a] \in Seq(Cell)
    BY <1>2, <1>5, <1>6, <2>1, <2>2
  <2>4. QED
    BY <1>2, <2>3
<1>8. \A a \in Arrays : a \in InUse => heap'[a] = heap[a]
  BY <1>1, <1>2
<1>9. QED
  BY <1>1, <1>5, <1>6, <1>7, <1>8

-----------------------------------------------------------------------------
(* A step keeps the invariant if every slice that is still in use after it *)
(* either stays, or is new and right.                                      *)
LEMMA StepKeepsMemory ==
    ASSUME MemoryInv, heap' \in [Arrays -> Seq(Cell)], request' \in [Requests -> Request],
           cached' \in [Clusters -> Slices], loaded' \in [Clusters -> Seq(Instance)],
           loads' \in 0 .. MaxLoads, PrivateInv',
           \A n \in Clusters :
              \/ /\ cached'[n] = cached[n] /\ loaded'[n] = loaded[n]
                 /\ heap'[cached[n].array] = heap[cached[n].array]
              \/ \A s : s = cached'[n] => IsSlice(s)' /\ View(s)' = loaded'[n],
           \A r \in Requests : \A n \in request'[r].todo : \A s :
              s = request'[r].reports[n] =>
                 IsSlice(s) /\ View(s) = request'[r].asked[n]
                 /\ heap'[s.array] = heap[s.array],
           \A r \in Requests : \A s :
              s = request'[r].instances /\ s # Nil => IsSlice(s)'
    PROVE  MemoryInv'
<1>1. ASSUME NEW n \in Clusters PROVE IsSlice(cached[n])' /\ View(cached[n])' = loaded'[n]
  <2> SUFFICES ASSUME NEW s, s = cached'[n] PROVE IsSlice(s)' /\ View(s)' = loaded'[n]
    OBVIOUS
  <2>1. CASE /\ cached'[n] = cached[n] /\ loaded'[n] = loaded[n]
             /\ heap'[cached[n].array] = heap[cached[n].array]
    <3>1. IsSlice(s) /\ View(s) = loaded[n] /\ heap'[s.array] = heap[s.array]
      BY <2>1 DEF MemoryInv, TypeOK, CacheUnaltered
    <3>2. QED
      BY <2>1, <3>1, SliceStays
  <2>2. QED
    BY <2>1
<1>2. ASSUME NEW r \in Requests, NEW n \in request'[r].todo
      PROVE  IsSlice(request[r].reports[n])'
             /\ View(request[r].reports[n])' = request'[r].asked[n]
  <2> SUFFICES ASSUME NEW s, s = request'[r].reports[n]
               PROVE  IsSlice(s)' /\ View(s)' = request'[r].asked[n]
    OBVIOUS
  <2>1. IsSlice(s) /\ View(s) = request'[r].asked[n] /\ heap'[s.array] = heap[s.array]
    OBVIOUS
  <2>2. QED
    BY <2>1, SliceStays
<1>3. ASSUME NEW r \in Requests, request'[r].instances # Nil
      PROVE  IsSlice(request[r].instances)'
  <2> SUFFICES ASSUME NEW s, s = request'[r].instances PROVE IsSlice(s)'
    OBVIOUS
  <2>1. QED
    BY <1>3
<1>4. TypeOK'
  BY <1>1, <1>2, <1>3 DEF TypeOK, Cell, Request, Nil, Slice
<1>5. CacheUnaltered'
  BY <1>1 DEF CacheUnaltered
<1>6. GivenInv'
  BY <1>2 DEF GivenInv
<1>7. QED
  BY <1>4, <1>5, <1>6 DEF MemoryInv

(* No array becomes shared that a request works on.                        *)
LEMMA PrivateStays ==
    ASSUME MemoryInv, NEW r, NEW x,
           \A q \in Requests \ {r} : request'[q].instances = request[q].instances,
           \/ /\ x \in Arrays /\ x \notin InUse
              /\ Shared' \subseteq Shared \cup {x, Nil.array}
              /\ request'[r].instances = request[r].instances
           \/ /\ Shared' \subseteq Shared \cup {Nil.array}
              /\ \/ request'[r].instances = Nil
                 \/ /\ x \in Arrays /\ x \notin InUse
                    /\ request'[r].instances.array = x
                 \/ /\ request[r].instances # Nil
                    /\ request'[r].instances.array = request[r].instances.array
                 \/ request'[r].instances = request[r].instances
    PROVE  PrivateInv'
<1>1. \A q \in Requests : request[q].instances.array \in InUse
  BY DEF InUse
<1>2. \A q \in Requests : request[q].instances # Nil =>
        /\ request[q].instances.array \in Arrays
        /\ request[q].instances.array \notin Shared
        /\ \A p \in Requests \ {q} :
              request[p].instances.array # request[q].instances.array
  BY DEF MemoryInv, TypeOK, PrivateInv, IsSlice
<1>3. Nil.array \notin Arrays /\ Shared \subseteq InUse
  BY DEF Nil, Slice, InUse
<1>4. QED
  BY <1>1, <1>2, <1>3 DEF PrivateInv

-----------------------------------------------------------------------------
(* What the invariant says of slices.                                      *)
LEMMA UsedSlices ==
    ASSUME MemoryInv
    PROVE  /\ \A n \in Clusters : IsSlice(cached[n]) /\ View(cached[n]) = loaded[n]
           /\ \A r \in Requests : \A n \in request[r].todo :
                 /\ IsSlice(request[r].reports[n])
                 /\ View(request[r].reports[n]) = request[r].asked[n]
           /\ \A r \in Requests :
                 request[r].instances # Nil => IsSlice(request[r].instances)
BY DEF MemoryInv, TypeOK, CacheUnaltered, GivenInv

(* What a slice points to is in use.                                       *)
LEMMA UsedArrays ==
    ASSUME MemoryInv
    PROVE  /\ \A n \in Clusters : /\ cached[n].array \in Shared
                                  /\ cached[n].array \in Arrays
           /\ \A r \in Requests, n \in Clusters : request[r].reports[n].array \in Shared
           /\ \A r \in Requests : \A n \in request[r].todo : request[r].reports[n].array \in Arrays
           /\ \A r \in Requests : /\ request[r].instances.array \in InUse
                                  /\ request[r].instances # Nil =>
                                        request[r].instances.array \in Arrays
           /\ Shared \subseteq InUse
<1>1. \A n \in Clusters : cached[n].array \in Shared
  BY DEF Shared
<1>2. \A r \in Requests, n \in Clusters : request[r].reports[n].array \in Shared
  BY DEF Shared
<1>3. \A r \in Requests : request[r].instances.array \in InUse
  BY DEF InUse
<1>4. Shared \subseteq InUse
  BY DEF InUse
<1>5. QED
  BY <1>1, <1>2, <1>3, <1>4, UsedSlices DEF IsSlice

LEMMA RequestTyped ==
    ASSUME MemoryInv
    PROVE  /\ request \in [Requests -> Request] /\ heap \in [Arrays -> Seq(Cell)]
           /\ cached \in [Clusters -> Slices] /\ loaded \in [Clusters -> Seq(Instance)]
           /\ loads \in 0 .. MaxLoads
BY DEF MemoryInv, TypeOK, Request, Cell

(* A new report takes the place of one in the cache; the old one may still *)
(* be in the hands of a request.                                           *)
LEMMA LoadKeepsMemory ==
    ASSUME MemoryInv, NEW n \in Clusters, Load(n)
    PROVE  MemoryInv'
<1>1. PICK texts \in Texts :
        /\ Allocate(Instances(n, texts))
        /\ loaded' = [loaded EXCEPT ![n] = Instances(n, texts)]
        /\ cached' = [cached EXCEPT ![n] = Slice(Fresh, Len(texts))]
  BY DEF Load
<1> DEFINE list == Instances(n, texts)
           s == Slice(Fresh, Len(texts))
<1>2. list \in Seq(Instance) /\ Len(list) = Len(texts)
  <2>1. texts \in Seq(Nat)
    OBVIOUS
  <2>2. Len(texts) \in Nat /\ DOMAIN texts = 1 .. Len(texts)
        /\ \A i \in 1 .. Len(texts) : texts[i] \in Nat
    BY <2>1
  <2>3. list = [i \in 1 .. Len(texts) |-> [text |-> texts[i], cluster |-> n]]
    BY <2>2 DEF Instances
  <2>4. \A i \in 1 .. Len(texts) : [text |-> texts[i], cluster |-> n] \in Instance
    BY <2>2, InstanceOf
  <2>5. QED
    BY <2>2, <2>3, <2>4
<1> HIDE DEF list
<1>3. /\ Fresh \in Arrays /\ Fresh \notin InUse /\ heap' \in [Arrays -> Seq(Cell)]
      /\ Len(list) <= Len(heap'[Fresh]) /\ Len(list) \in Nat
      /\ \A i \in 1 .. Len(list) : heap'[Fresh][i] = list[i] /\ list[i] \in Instance
      /\ \A a \in Arrays : a \in InUse => heap'[a] = heap[a]
  BY <1>1, <1>2, Allocated DEF MemoryInv, list
<1>4. s \in Slices /\ s.array = Fresh /\ s.len = Len(list)
  BY <1>2, <1>3 DEF Slice, Slices
<1>5. ASSUME NEW t, t = cached'[n] PROVE IsSlice(t)' /\ View(t)' = loaded'[n]
  <2>1. t \in Slices /\ t.array = Fresh /\ t.len = Len(list) /\ loaded'[n] = list
    BY <1>1, <1>4, <1>5, RequestTyped DEF list
  <2>2. IsSlice(t)'
    BY <1>3, <2>1 DEF IsSlice
  <2>3. QED
    BY <1>2, <1>3, <2>1, <2>2, SliceOf
<1>6. /\ \A m \in Clusters \ {n} : cached'[m] = cached[m] /\ loaded'[m] = loaded[m]
      /\ cached' \in [Clusters -> Slices] /\ loaded' \in [Clusters -> Seq(Instance)]
      /\ loads' \in 0 .. MaxLoads /\ request' = request
  BY <1>1, <1>2, <1>4, RequestTyped DEF Load, list
<1>7. PrivateInv'
  <2>1. cached'[n].array = Fresh
    BY <1>1, <1>4, RequestTyped
  <2>2. Shared' \subseteq Shared \cup {Fresh}
    BY <1>6, <2>1 DEF Shared
  <2>3. QED
    BY <1>3, <1>6, <2>2, PrivateStays
<1>8. \A m \in Clusters : \/ /\ cached'[m] = cached[m] /\ loaded'[m] = loaded[m]
                            /\ heap'[cached[m].array] = heap[cached[m].array]
                         \/ \A t : t = cached'[m] => IsSlice(t)' /\ View(t)' = loaded'[m]
  BY <1>3, <1>5, <1>6, UsedArrays
<1>9. \A r \in Requests : \A m \in request'[r].todo : \A t :
        t = request'[r].reports[m] =>
           IsSlice(t) /\ View(t) = request'[r].asked[m] /\ heap'[t.array] = heap[t.array]
  <2>1. \A r \in Requests : \A m \in request[r].todo :
          m \in Clusters /\ heap'[request[r].reports[m].array] = heap[request[r].reports[m].array]
    BY <1>3, UsedArrays, RequestTyped DEF Request
  <2>2. QED
    BY <1>6, <2>1, UsedSlices
<1>10. \A r \in Requests : \A t : t = request'[r].instances /\ t # Nil => IsSlice(t)'
  <2>1. ASSUME NEW r \in Requests, NEW t, t = request[r].instances, t # Nil
        PROVE  IsSlice(t)'
    <3>1. IsSlice(t) /\ heap'[t.array] = heap[t.array]
      BY <1>3, <2>1, UsedArrays, UsedSlices
    <3>2. QED
      BY <3>1, SliceStays
  <2>2. QED
    BY <1>6, <2>1
<1>11. QED
  BY <1>3, <1>6, <1>7, <1>8, <1>9, <1>10, RequestTyped, StepKeepsMemory

(* The idle state of a request, and what it is given.                      *)
LEMMA GetReportsKeepsMemory ==
    ASSUME MemoryInv, NEW r \in Requests, GetReports(r)
    PROVE  MemoryInv'
<1> DEFINE k == [Idle EXCEPT !.at = "visiting", !.todo = Clusters,
                             !.reports = cached, !.asked = loaded]
<1>1. /\ request' = [request EXCEPT ![r] = k]
      /\ UNCHANGED <<heap, cached, loaded, loads>>
  BY DEF GetReports
<1>2. /\ k \in Request /\ k.reports = cached /\ k.asked = loaded
      /\ k.todo = Clusters /\ k.instances = Nil
  <2>1. Nil \in Slices /\ <<>> \in Seq(Instance)
    BY DEF Nil, Slice, Slices
  <2>2. QED
    BY <2>1, RequestTyped DEF Idle, Request
<1> HIDE DEF k
<1>3. /\ request'[r] = k /\ request' \in [Requests -> Request]
      /\ \A q \in Requests \ {r} : request'[q] = request[q]
  BY <1>1, <1>2, RequestTyped
<1>4. PrivateInv'
  <2>1. Shared' \subseteq Shared
    BY <1>1, <1>2, <1>3 DEF Shared
  <2>2. QED
    BY <1>2, <1>3, <2>1, PrivateStays
<1>5. \A q \in Requests : \A n \in request'[q].todo : \A t :
        t = request'[q].reports[n] =>
           IsSlice(t) /\ View(t) = request'[q].asked[n] /\ heap'[t.array] = heap[t.array]
  <2>1. ASSUME NEW n \in Clusters
        PROVE  IsSlice(cached[n]) /\ View(cached[n]) = loaded[n]
    BY UsedSlices
  <2>2. ASSUME NEW q \in Requests \ {r}, NEW n \in request[q].todo
        PROVE  IsSlice(request[q].reports[n])
               /\ View(request[q].reports[n]) = request[q].asked[n]
    BY UsedSlices
  <2>3. ASSUME NEW q \in Requests, NEW n \in request'[q].todo, NEW t,
               t = request'[q].reports[n]
        PROVE  IsSlice(t) /\ View(t) = request'[q].asked[n]
    <3>1. CASE q = r
      BY <1>2, <1>3, <2>1, <2>3, <3>1
    <3>2. CASE q # r
      BY <1>3, <2>2, <2>3, <3>2
    <3>3. QED
      BY <3>1, <3>2
  <2>4. QED
    BY <1>1, <2>3
<1>6. \A q \in Requests : \A t : t = request'[q].instances /\ t # Nil => IsSlice(t)'
  <2>1. ASSUME NEW q \in Requests, NEW t, t = request'[q].instances, t # Nil
        PROVE  IsSlice(t)'
    <3>1. q # r /\ t = request[q].instances
      BY <1>2, <1>3, <2>1
    <3>2. IsSlice(t) /\ heap'[t.array] = heap[t.array]
      BY <1>1, <2>1, <3>1, UsedSlices
    <3>3. QED
      BY <3>2, SliceStays
  <2>2. QED
    BY <2>1
<1>7. QED
  BY <1>1, <1>3, <1>4, <1>5, <1>6, RequestTyped, StepKeepsMemory

(* One request moves on, to k.                                             *)
Becomes(r, k) ==
    /\ request' \in [Requests -> Request] /\ request'[r] = k
    /\ \A q \in Requests \ {r} : request'[q] = request[q]

(* It shares no new array if it at most gives up what it was given.        *)
LEMMA GivenUp ==
    ASSUME NEW r \in Requests, NEW k, Becomes(r, k), cached' = cached,
           \A n \in Clusters : k.reports[n] \in {request[r].reports[n], Nil}
    PROVE  Shared' \subseteq Shared \cup {Nil.array}
<1>1. ASSUME NEW n \in Clusters PROVE cached'[n].array \in Shared
  BY DEF Shared
<1>2. ASSUME NEW q \in Requests, NEW n \in Clusters
      PROVE  request'[q].reports[n].array \in Shared \cup {Nil.array}
  <2>1. request[q].reports[n].array \in Shared
    BY DEF Shared
  <2>2. request'[q].reports[n] \in {request[q].reports[n], Nil}
    BY DEF Becomes
  <2>3. QED
    BY <2>1, <2>2
<1>3. \A a \in Shared' : \/ \E n \in Clusters : a = cached'[n].array
                        \/ \E q \in Requests, n \in Clusters : a = request'[q].reports[n].array
  BY DEF Shared
<1>4. QED
  BY <1>1, <1>2, <1>3

(* A step of one request that writes into its own array, or into a new one *)
(* that becomes its own; and that at most gives up what it was given.      *)
LEMMA OwnStep ==
    ASSUME MemoryInv, NEW r \in Requests, NEW k \in Request, NEW x,
           Becomes(r, k), UNCHANGED <<cached, loaded, loads>>, heap' \in [Arrays -> Seq(Cell)],
           \A a \in Arrays : a \in InUse /\ a # x => heap'[a] = heap[a],
           \/ x \in Arrays /\ x \notin InUse
           \/ request[r].instances # Nil /\ x = request[r].instances.array
           \/ x \notin Arrays,
           \A t : t = k.instances /\ t # Nil => t.array = x /\ IsSlice(t)',
           k.todo \subseteq request[r].todo, k.asked = request[r].asked,
           \A n \in Clusters : k.reports[n] \in {request[r].reports[n], Nil},
           \A n \in k.todo : k.reports[n] = request[r].reports[n]
    PROVE  MemoryInv'
<1>1. x \in Arrays => x \notin Shared
                      /\ \A q \in Requests \ {r} : request[q].instances.array # x
  BY UsedArrays DEF MemoryInv, PrivateInv, InUse
<1>2. /\ request'[r] = k /\ request' \in [Requests -> Request]
      /\ \A q \in Requests \ {r} : request'[q] = request[q]
  BY DEF Becomes
<1>3. PrivateInv'
  <2>1. Shared' \subseteq Shared \cup {Nil.array}
    BY <1>2, GivenUp
  <2>2. ASSUME NEW t, t = k.instances, t # Nil
        PROVE  x \in Arrays /\ t.array = x
    <3>1. t.array = x /\ IsSlice(t)'
      BY <2>2
    <3>2. QED
      BY <3>1 DEF IsSlice
  <2>3. QED
    BY <1>2, <2>1, <2>2, PrivateStays
<1>4. ASSUME NEW n \in Clusters
      PROVE  heap'[cached[n].array] = heap[cached[n].array]
  <2>1. cached[n].array \in Shared /\ cached[n].array \in Arrays /\ cached[n].array \in InUse
    BY UsedArrays
  <2>2. QED
    BY <1>1, <2>1
<1>5. ASSUME NEW q \in Requests, NEW n \in request'[q].todo, NEW t, t = request'[q].reports[n]
      PROVE  IsSlice(t) /\ View(t) = request'[q].asked[n] /\ heap'[t.array] = heap[t.array]
  <2>1. n \in request[q].todo /\ t = request[q].reports[n]
        /\ request'[q].asked = request[q].asked
    BY <1>2, <1>5
  <2>2. n \in Clusters
    BY <2>1, RequestTyped DEF Request
  <2>3. t.array \in Shared /\ t.array \in Arrays
    BY <2>1, <2>2, UsedArrays
  <2>4. heap'[t.array] = heap[t.array]
    BY <1>1, <2>3, UsedArrays
  <2>5. IsSlice(request[q].reports[n]) /\ View(request[q].reports[n]) = request[q].asked[n]
    BY <2>1, UsedSlices
  <2>6. QED
    BY <2>1, <2>4, <2>5
<1>6. ASSUME NEW q \in Requests, NEW t, t = request'[q].instances, t # Nil
      PROVE  IsSlice(t)'
  <2>1. CASE q = r
    BY <1>2, <1>6, <2>1
  <2>2. CASE q # r
    <3>1. t = request[q].instances
      BY <1>2, <1>6, <2>2
    <3>2. t.array \in Arrays /\ t.array \in InUse
      BY <1>6, <3>1, UsedArrays
    <3>3. heap'[t.array] = heap[t.array]
      BY <1>1, <2>2, <3>1, <3>2
    <3>4. IsSlice(t)
      BY <1>6, <3>1, UsedSlices
    <3>5. QED
      BY <3>3, <3>4, SliceStays
  <2>3. QED
    BY <2>1, <2>2
<1>7. QED
  BY <1>2, <1>3, <1>4, <1>5, <1>6, RequestTyped, StepKeepsMemory

-----------------------------------------------------------------------------
(* What Visited makes of a request.                                        *)
LEMMA VisitedRequest ==
    ASSUME MemoryInv, NEW r \in Requests, NEW n \in Clusters, NEW s \in Slices, Visited(r, n, s)
    PROVE  \E k \in Request :
              /\ Becomes(r, k) /\ k.instances = s
              /\ k.todo = request[r].todo \ {n} /\ k.asked = request[r].asked
              /\ k.at = request[r].at /\ k.sent = request[r].sent
              /\ \A m \in Clusters : k.reports[m] = IF m = n THEN Nil ELSE request[r].reports[m]
<1> DEFINE k == [request[r] EXCEPT !.todo = @ \ {n}, !.instances = s, !.reports[n] = Nil]
<1>1. request[r] \in Request /\ Nil \in Slices
  BY RequestTyped DEF Nil, Slice, Slices
<1>2. /\ k \in Request /\ k.instances = s
      /\ k.todo = request[r].todo \ {n} /\ k.asked = request[r].asked
      /\ k.at = request[r].at /\ k.sent = request[r].sent
      /\ \A m \in Clusters : k.reports[m] = IF m = n THEN Nil ELSE request[r].reports[m]
  BY <1>1 DEF Request
<1>3. Becomes(r, k)
  <2>1. request' = [request EXCEPT ![r] = k]
    BY DEF Visited
  <2> HIDE DEF k
  <2>2. QED
    BY <1>2, <2>1, RequestTyped DEF Becomes
<1> HIDE DEF k
<1>4. QED
  BY <1>2, <1>3

(* Visiting a report moves the request to another slice of an array that   *)
(* is its own, or new, and which has the report's instances at its end.    *)
Visits(r, n, s) ==
    /\ Visited(r, n, s) /\ UNCHANGED <<cached, loaded, loads>>
    /\ heap' \in [Arrays -> Seq(Cell)]
    /\ \A a \in Arrays : a \in InUse /\ a # s.array => heap'[a] = heap[a]
    /\ \/ s.array \in Arrays /\ s.array \notin InUse
       \/ request[r].instances # Nil /\ s.array = request[r].instances.array
    /\ \A t : t = s => IsSlice(t)' /\ View(t)' = View(request[r].instances)
                                               \o View(request[r].reports[n])

LEMMA VisitKeepsMemory ==
    ASSUME MemoryInv, NEW r \in Requests, NEW n \in Clusters, NEW s \in Slices, Visits(r, n, s)
    PROVE  MemoryInv'
<1>0. /\ Visited(r, n, s) /\ UNCHANGED <<cached, loaded, loads>>
      /\ heap' \in [Arrays -> Seq(Cell)]
      /\ \A a \in Arrays : a \in InUse /\ a # s.array => heap'[a] = heap[a]
      /\ \/ s.array \in Arrays /\ s.array \notin InUse
         \/ request[r].instances # Nil /\ s.array = request[r].instances.array
      /\ \A t : t = s => IsSlice(t)'
  BY DEF Visits
<1>1. PICK k \in Request :
        /\ Becomes(r, k) /\ k.instances = s
        /\ k.todo = request[r].todo \ {n} /\ k.asked = request[r].asked
        /\ \A m \in Clusters : k.reports[m] = IF m = n THEN Nil ELSE request[r].reports[m]
  BY <1>0, VisitedRequest, SMTT(30)
<1>2. request[r].reports \in [Clusters -> Slices] /\ k.todo \subseteq Clusters
  BY RequestTyped DEF Request
<1>3. /\ \A m \in Clusters : k.reports[m] \in {request[r].reports[m], Nil}
      /\ \A m \in k.todo : k.reports[m] = request[r].reports[m]
  BY <1>1, <1>2
<1>4. \A t : t = k.instances /\ t # Nil => t.array = s.array /\ IsSlice(t)'
  BY <1>0, <1>1
<1>5. QED
  BY <1>0, <1>1, <1>3, <1>4, OwnStep

(* A clone is a new array.                                                 *)
LEMMA StartGroupVisits ==
    ASSUME MemoryInv, NEW r \in Requests, NEW n \in Clusters, StartGroup(r, n)
    PROVE  \E s \in Slices : Visits(r, n, s)
<1> DEFINE list == View(request[r].reports[n])
           s == Slice(Fresh, request[r].reports[n].len)
<1>1. n \in request[r].todo /\ request[r].reports[n] \in Slices
  BY RequestTyped DEF StartGroup, Request
<1>2. list \in Seq(Instance) /\ Len(list) = request[r].reports[n].len
  BY <1>1, UsedSlices, ViewOfSlice
<1>3. Allocate(list) /\ Visited(r, n, s) /\ UNCHANGED <<cached, loaded, loads>>
  BY DEF StartGroup
<1>4. /\ Fresh \in Arrays /\ Fresh \notin InUse /\ heap' \in [Arrays -> Seq(Cell)]
      /\ Len(list) <= Len(heap'[Fresh]) /\ Len(list) \in Nat
      /\ \A i \in 1 .. Len(list) : heap'[Fresh][i] = list[i] /\ list[i] \in Instance
      /\ \A a \in Arrays : a \in InUse => heap'[a] = heap[a]
  <2> HIDE DEF list
  <2>1. QED
    BY <1>2, <1>3, Allocated DEF MemoryInv
<1>5. s \in Slices /\ s.array = Fresh /\ s.len = Len(list)
  BY <1>2, <1>4 DEF Slice, Slices
<1>6. View(request[r].instances) \o list = list
  <2>1. request[r].instances = Nil
    BY DEF StartGroup
  <2> HIDE DEF list
  <2>2. View(request[r].instances) = <<>>
    BY <2>1 DEF View
  <2>3. QED
    BY <1>2, <2>2, ConcatEmptySeq
<1> HIDE DEF s
<1>7. PICK t \in Slices : t = s
  BY <1>5
<1>8. IsSlice(t)'
  BY <1>4, <1>5, <1>7 DEF IsSlice
<1>9. View(t)' = list
  <2> HIDE DEF list
  <2>1. QED
    BY <1>2, <1>4, <1>5, <1>7, <1>8, SliceOf
<1>10. View(t)' = View(request[r].instances) \o View(request[r].reports[n])
  BY <1>6, <1>9
<1>11. QED
  <2> HIDE DEF list
  <2>1. QED
    BY <1>3, <1>4, <1>5, <1>7, <1>8, <1>10 DEF Visits

(* Appending in place writes behind the slice, within its array.           *)
LEMMA WrittenInPlace ==
    ASSUME MemoryInv, NEW s \in Slices, IsSlice(s), NEW list \in Seq(Instance),
           HasRoom(s, list), AppendTo(s, list)
    PROVE  /\ heap' \in [Arrays -> Seq(Cell)]
           /\ \A a \in Arrays : a # s.array => heap'[a] = heap[a]
           /\ s.len + Len(list) <= Len(heap'[s.array])
           /\ \A i \in 1 .. s.len + Len(list) :
                 heap'[s.array][i] = IF i <= s.len THEN heap[s.array][i] ELSE list[i - s.len]
           /\ \A i \in 1 .. s.len + Len(list) : heap'[s.array][i] \in Instance
<1> DEFINE cells == [i \in DOMAIN heap[s.array] |->
                        IF i \in s.len + 1 .. s.len + Len(list)
                        THEN list[i - s.len] ELSE heap[s.array][i]]
<1>1. heap' = [heap EXCEPT ![s.array] = cells]
  BY DEF AppendTo
<1>2. heap \in [Arrays -> Seq(Cell)] /\ s.array \in Arrays /\ s.len \in Nat /\ Len(list) \in Nat
      /\ s.len + Len(list) <= Len(heap[s.array])
  BY RequestTyped DEF IsSlice, Slices, HasRoom
<1>3. \A j \in 1 .. Len(list) : list[j] \in Instance
  BY ElementOfSeq
<1>4. /\ heap[s.array] \in Seq(Cell) /\ DOMAIN heap[s.array] = 1 .. Len(heap[s.array])
      /\ Len(heap[s.array]) \in Nat
  <2>1. heap[s.array] \in Seq(Cell)
    BY <1>2
  <2>2. QED
    BY <2>1, LenProperties
<1>5. \A i \in 1 .. Len(heap[s.array]) :
        /\ cells[i] \in Cell
        /\ i \in 1 .. s.len + Len(list) => cells[i] \in Instance
        /\ i \in 1 .. s.len + Len(list) =>
              cells[i] = IF i <= s.len THEN heap[s.array][i] ELSE list[i - s.len]
  <2> TAKE i \in 1 .. Len(heap[s.array])
  <2>1. CASE i \in s.len + 1 .. s.len + Len(list)
    <3>1. i - s.len \in 1 .. Len(list)
      BY <1>2, <2>1
    <3>2. cells[i] = list[i - s.len]
      BY <1>4, <2>1
    <3>3. ~(i <= s.len)
      BY <1>2, <2>1
    <3>4. QED
      BY <1>3, <3>1, <3>2, <3>3 DEF Cell
  <2>2. CASE i \notin s.len + 1 .. s.len + Len(list)
    <3>1. cells[i] = heap[s.array][i] /\ heap[s.array][i] \in Cell
      BY <1>4, <2>2, ElementOfSeq
    <3>2. i \in 1 .. s.len + Len(list) => i \in 1 .. s.len
      BY <1>2, <2>2
    <3>3. QED
      BY <3>1, <3>2 DEF IsSlice
  <2>3. QED
    BY <2>1, <2>2
<1>6. cells \in Seq(Cell) /\ Len(cells) = Len(heap[s.array])
  <2>1. PICK l \in Nat : l = Len(heap[s.array])
    BY <1>4
  <2>2. cells = [i \in 1 .. l |-> cells[i]]
    BY <1>4, <2>1
  <2>3. \A i \in 1 .. l : cells[i] \in Cell
    BY <1>5, <2>1
  <2> HIDE DEF cells
  <2>4. cells \in Seq(Cell) /\ Len(cells) = l
    BY <2>2, <2>3
  <2>5. QED
    BY <2>1, <2>4
<1> HIDE DEF cells
<1>7. heap'[s.array] = cells /\ \A a \in Arrays : a # s.array => heap'[a] = heap[a]
  BY <1>1, <1>2
<1>8. heap' \in [Arrays -> Seq(Cell)]
  BY <1>1, <1>2, <1>6
<1>9. \A i \in 1 .. s.len + Len(list) :
         /\ cells[i] \in Instance
         /\ cells[i] = IF i <= s.len THEN heap[s.array][i] ELSE list[i - s.len]
  BY <1>2, <1>4, <1>5
<1>10. QED
  BY <1>2, <1>6, <1>7, <1>8, <1>9

(* Appending to the group goes on in its own array, or moves to a new one. *)
LEMMA MergeIntoGroupVisits ==
    ASSUME MemoryInv, NEW r \in Requests, NEW n \in Clusters, MergeIntoGroup(r, n)
    PROVE  \E s \in Slices : Visits(r, n, s)
<1> DEFINE list == View(request[r].reports[n])
           s == request[r].instances
           t == Appended(s, list)
<1>1. /\ n \in request[r].todo /\ request[r].reports[n] \in Slices
      /\ s # Nil /\ s \in Slices /\ IsSlice(s) /\ s.array \in Arrays
  BY RequestTyped, UsedSlices, UsedArrays DEF MergeIntoGroup, Request
<1>2. list \in Seq(Instance) /\ Len(list) \in Nat
  <2>1. list \in Seq(Instance)
    BY <1>1, UsedSlices, ViewOfSlice
  <2> HIDE DEF list
  <2>2. QED
    BY <2>1, LenProperties
<1>3. AppendTo(s, list) /\ Visited(r, n, t) /\ UNCHANGED <<cached, loaded, loads>>
  BY DEF MergeIntoGroup
<1>4. t.array = (IF HasRoom(s, list) THEN s.array ELSE Fresh) /\ t.len = s.len + Len(list)
  BY DEF Appended, Slice
<1>5. t = Slice(t.array, t.len) /\ s.len \in Nat
  BY <1>1 DEF Appended, Slice, Slices
<1> DEFINE both == View(s) \o list
<1>6. PICK v \in Slices : v = s
  BY <1>1
<1>7. /\ View(s) \in Seq(Instance) /\ Len(View(s)) = s.len
      /\ \A i \in 1 .. s.len : View(s)[i] = heap[s.array][i]
  BY <1>1, <1>6, ViewOfSlice
<1>8. /\ both \in Seq(Instance) /\ Len(both) = s.len + Len(list)
      /\ \A i \in 1 .. s.len + Len(list) :
            both[i] = IF i <= s.len THEN heap[s.array][i] ELSE list[i - s.len]
  <2> HIDE DEF list
  <2>1. /\ both \in Seq(Instance) /\ Len(both) = Len(View(s)) + Len(list)
        /\ \A i \in 1 .. Len(View(s)) + Len(list) :
              both[i] = IF i <= Len(View(s)) THEN View(s)[i] ELSE list[i - Len(View(s))]
    <3>1. PICK view \in Seq(Instance) : view = View(s)
      BY <1>7
    <3>2. /\ view \o list \in Seq(Instance) /\ Len(view \o list) = Len(view) + Len(list)
          /\ \A i \in 1 .. Len(view) + Len(list) :
                (view \o list)[i] = IF i <= Len(view) THEN view[i] ELSE list[i - Len(view)]
      BY <1>2, ConcatProperties
    <3>3. QED
      BY <3>1, <3>2
  <2>2. \A i \in 1 .. s.len + Len(list) : i <= s.len => i \in 1 .. s.len
    BY <1>2, <1>5
  <2>3. QED
    BY <1>7, <2>1, <2>2
<1>9. t \in Slices /\ heap' \in [Arrays -> Seq(Cell)]
      /\ (\A a \in Arrays : a \in InUse /\ a # t.array => heap'[a] = heap[a])
      /\ ((t.array \in Arrays /\ t.array \notin InUse) \/ t.array = s.array)
      /\ t.array \in Arrays /\ t.len = Len(both) /\ Len(both) <= Len(heap'[t.array])
      /\ (\A i \in 1 .. Len(both) : heap'[t.array][i] = both[i] /\ both[i] \in Instance)
  <2> HIDE DEF list, t
  <2>1. CASE HasRoom(s, list)
    <3>1. /\ heap' \in [Arrays -> Seq(Cell)]
          /\ \A a \in Arrays : a # s.array => heap'[a] = heap[a]
          /\ s.len + Len(list) <= Len(heap'[s.array])
          /\ \A i \in 1 .. s.len + Len(list) :
                heap'[s.array][i] = IF i <= s.len THEN heap[s.array][i] ELSE list[i - s.len]
          /\ \A i \in 1 .. s.len + Len(list) : heap'[s.array][i] \in Instance
      BY <1>1, <1>2, <1>3, <1>6, <2>1, WrittenInPlace
    <3>2. t \in Slices /\ t.array = s.array /\ t.len = s.len + Len(list)
      BY <1>1, <1>2, <1>4, <1>5, <2>1 DEF Slice, Slices
    <3>3. \A i \in 1 .. Len(both) : heap'[s.array][i] = both[i] /\ both[i] \in Instance
      BY <1>8, <3>1
    <3> HIDE DEF both
    <3>4. QED
      BY <1>1, <1>8, <3>1, <3>2, <3>3
  <2>2. CASE ~HasRoom(s, list)
    <3>1. Allocate(both)
      BY <1>3, <2>2 DEF AppendTo
    <3> HIDE DEF both
    <3>2. /\ Fresh \in Arrays /\ Fresh \notin InUse /\ heap' \in [Arrays -> Seq(Cell)]
          /\ Len(both) <= Len(heap'[Fresh])
          /\ \A i \in 1 .. Len(both) : heap'[Fresh][i] = both[i] /\ both[i] \in Instance
          /\ \A a \in Arrays : a \in InUse => heap'[a] = heap[a]
      BY <1>8, <3>1, Allocated DEF MemoryInv
    <3>3. t \in Slices /\ t.array = Fresh /\ t.len = s.len + Len(list)
      BY <1>2, <1>4, <1>5, <2>2, <3>2, SMTT(30) DEF Slice, Slices
    <3> HIDE DEF t, list, s
    <3>4. t.len = Len(both)
      BY <1>8, <3>3
    <3>5. QED
      BY <3>2, <3>3, <3>4
  <2>3. QED
    BY <2>1, <2>2
<1> HIDE DEF t
<1>10. PICK u \in Slices : u = t
  BY <1>9
<1>11. IsSlice(u)' /\ View(u)' = both
  <2> HIDE DEF both
  <2>1. IsSlice(u)'
    BY <1>9, <1>10 DEF IsSlice
  <2>2. QED
    BY <1>8, <1>9, <1>10, <2>1, SliceOf
<1>12. QED
  BY <1>1, <1>3, <1>9, <1>10, <1>11 DEF Visits

(* Sorting permutes the cells of the slice, in the request's own array.    *)
Sorts(r, k, t) ==
    /\ Becomes(r, k) /\ UNCHANGED <<cached, loaded, loads>>
    /\ k = [request[r] EXCEPT !.at = "sorted"]
    /\ heap' \in [Arrays -> Seq(Cell)]
    /\ t = request[r].instances
    /\ \A a \in Arrays : a # t.array => heap'[a] = heap[a]
    /\ t # Nil =>
          /\ IsSlice(t)' /\ View(t)' \in Seq(Instance) /\ Len(View(t)') = t.len
          /\ \E p \in Bijection(1 .. t.len, 1 .. t.len) :
                /\ \A i \in 1 .. t.len : View(t)'[i] = View(t)[p[i]]
                /\ InOrder(View(t)')

LEMMA SortSorts ==
    ASSUME MemoryInv, NEW r \in Requests, Sort(r)
    PROVE  \E k \in Request, t \in Slices : Sorts(r, k, t)
<1> DEFINE s == request[r].instances
           list == View(s)
           k == [request[r] EXCEPT !.at = "sorted"]
<1>1. PICK p \in Bijection(1 .. s.len, 1 .. s.len) :
        /\ \A i, j \in 1 .. s.len : i < j => ~Before(list[p[j]], list[p[i]])
        /\ heap' = [heap EXCEPT ![s.array] =
                      [i \in DOMAIN @ |-> IF i <= s.len THEN list[p[i]] ELSE @[i]]]
  BY DEF Sort
<1>2. /\ k \in Request /\ Becomes(r, k) /\ UNCHANGED <<cached, loaded, loads>>
      /\ heap \in [Arrays -> Seq(Cell)]
  <2>1. k \in Request
    <3>1. request[r] \in Request
      BY RequestTyped
    <3>2. "sorted" \in {"idle", "visiting", "sorted", "writing", "answered", "failed"}
      OBVIOUS
    <3> SUFFICES ASSUME NEW q \in Request
                 PROVE  [q EXCEPT !.at = "sorted"] \in Request
      BY <3>1
    <3>3. QED
      BY <3>2 DEF Request
  <2>2. request' = [request EXCEPT ![r] = k]
    BY DEF Sort
  <2> HIDE DEF k
  <2>3. QED
    BY <2>1, <2>2, RequestTyped, ZenonT(30) DEF Becomes, Sort
<1>3. CASE s = Nil
  <2>1. s.array \notin Arrays
    BY <1>3 DEF Nil, Slice
  <2>2. heap' = heap
    BY <1>1, <1>2, <2>1
  <2>3. s \in Slices
    BY RequestTyped DEF Request
  <2> HIDE DEF k
  <2>4. k = [request[r] EXCEPT !.at = "sorted"]
    BY DEF k
  <2>5. PICK t \in Slices : t = s
    BY <2>3
  <2>6. Sorts(r, k, t)
    BY <1>2, <1>3, <2>2, <2>4, <2>5 DEF Sorts
  <2>7. QED
    BY <1>2, <2>6
<1>4. CASE s # Nil
  <2>1. s \in Slices /\ IsSlice(s) /\ s.array \in Arrays /\ s.len \in Nat
        /\ s.len <= Len(heap[s.array])
    BY <1>4, RequestTyped, UsedSlices DEF Request, IsSlice, Slices
  <2>2. list \in Seq(Instance) /\ Len(list) = s.len
    BY <2>1, ViewOfSlice
  <2>3. \A i \in 1 .. s.len : p[i] \in 1 .. s.len
    BY DEF Bijection, Injection
  <2>4. \A i \in 1 .. s.len : list[p[i]] \in Instance
    <3> HIDE DEF list
    <3>1. QED
      BY <2>2, <2>3, ElementOfSeq
  <2> DEFINE old == heap[s.array]
             cells == [i \in DOMAIN old |-> IF i <= s.len THEN list[p[i]] ELSE old[i]]
             sorted == [i \in 1 .. s.len |-> list[p[i]]]
  <2>5. heap' = [heap EXCEPT ![s.array] = cells]
    BY <1>1
  <2>6. old \in Seq(Cell) /\ DOMAIN old = 1 .. Len(old) /\ Len(old) \in Nat
    <3>1. old \in Seq(Cell)
      BY <1>2, <2>1
    <3> HIDE DEF old
    <3>2. QED
      BY <3>1, LenProperties
  <2>7. /\ sorted \in Seq(Instance) /\ Len(sorted) = s.len
        /\ \A i \in 1 .. s.len : sorted[i] = list[p[i]]
    <3>1. PICK l \in Nat : l = s.len
      BY <2>1
    <3> HIDE DEF list
    <3> DEFINE x == [i \in 1 .. l |-> list[p[i]]]
    <3>2. \A i \in 1 .. l : list[p[i]] \in Instance
      BY <2>4, <3>1
    <3>3. x \in Seq(Instance) /\ Len(x) = l /\ \A i \in 1 .. l : x[i] = list[p[i]]
      BY <3>2
    <3>4. x = sorted
      BY <3>1
    <3> HIDE DEF x, sorted
    <3>5. QED
      BY <3>1, <3>3, <3>4
  <2>8. InOrder(sorted)
    <3> HIDE DEF list
    <3>1. DOMAIN sorted = 1 .. s.len
      OBVIOUS
    <3> HIDE DEF sorted
    <3>2. QED
      BY <1>1, <2>7, <3>1 DEF InOrder, list
  <2> HIDE DEF list, old, sorted
  <2>9. \A i \in 1 .. Len(old) : /\ cells[i] \in Cell
                                 /\ i <= s.len => cells[i] = sorted[i] /\ cells[i] \in Instance
    BY <2>1, <2>4, <2>6, <2>7, ElementOfSeq DEF Cell
  <2>10. cells \in Seq(Cell) /\ Len(cells) = Len(old)
    BY <2>6, <2>9
  <2> HIDE DEF cells
  <2>11. /\ heap' \in [Arrays -> Seq(Cell)] /\ heap'[s.array] = cells
         /\ \A a \in Arrays : a # s.array => heap'[a] = heap[a]
    BY <1>2, <2>1, <2>5, <2>10
  <2>12. s.len <= Len(cells) /\ \A i \in 1 .. s.len : cells[i] = sorted[i] /\ cells[i] \in Instance
    BY <2>1, <2>6, <2>9, <2>10 DEF old
  <2>13. PICK t \in Slices : t = s
    BY <2>1
  <2>14. IsSlice(t)'
    BY <2>1, <2>11, <2>12, <2>13 DEF IsSlice
  <2>15. View(t)' = sorted
    BY <2>1, <2>7, <2>11, <2>12, <2>13, <2>14, SliceOf
  <2>16. \A i \in 1 .. t.len : View(t)'[i] = View(t)[p[i]]
    BY <2>7, <2>13, <2>15 DEF list
  <2> HIDE DEF k
  <2>17. k = [request[r] EXCEPT !.at = "sorted"]
    BY DEF k
  <2>18. \E q \in Bijection(1 .. t.len, 1 .. t.len) :
            /\ \A i \in 1 .. t.len : View(t)'[i] = View(t)[q[i]]
            /\ InOrder(View(t)')
    BY <2>8, <2>13, <2>15, <2>16
  <2>19. Sorts(r, k, t)
    BY <1>2, <2>7, <2>11, <2>13, <2>14, <2>15, <2>17, <2>18 DEF Sorts
  <2>20. QED
    BY <1>2, <2>19
<1>5. QED
  BY <1>3, <1>4

LEMMA SortKeepsMemory ==
    ASSUME MemoryInv, NEW r \in Requests, Sort(r)
    PROVE  MemoryInv'
<1>1. PICK k \in Request, t \in Slices : Sorts(r, k, t)
  BY SortSorts
<1>2. /\ Becomes(r, k) /\ UNCHANGED <<cached, loaded, loads>>
      /\ heap' \in [Arrays -> Seq(Cell)] /\ t = request[r].instances
      /\ \A a \in Arrays : a # t.array => heap'[a] = heap[a]
      /\ t # Nil => IsSlice(t)'
  BY <1>1 DEF Sorts
<1>3. /\ k.instances = t /\ k.todo = request[r].todo
      /\ k.asked = request[r].asked /\ k.reports = request[r].reports
  <2>1. request[r] \in Request /\ k = [request[r] EXCEPT !.at = "sorted"]
    BY <1>1, RequestTyped DEF Sorts
  <2>2. QED
    BY <1>2, <2>1 DEF Request
<1>4. t = Nil => t.array \notin Arrays
  BY DEF Nil, Slice
<1>5. \A u : u = k.instances /\ u # Nil => u.array = t.array /\ IsSlice(u)'
  BY <1>2, <1>3
<1>6. PICK x : x = t.array
  OBVIOUS
<1>7. \A u : u = k.instances /\ u # Nil => u.array = x /\ IsSlice(u)'
  BY <1>5, <1>6
<1>8. \/ request[r].instances # Nil /\ x = request[r].instances.array
      \/ x \notin Arrays
  BY <1>2, <1>4, <1>6
<1>9. /\ \A a \in Arrays : a \in InUse /\ a # x => heap'[a] = heap[a]
      /\ k.todo \subseteq request[r].todo /\ k.asked = request[r].asked
      /\ \A n \in Clusters : k.reports[n] \in {request[r].reports[n], Nil}
      /\ \A n \in k.todo : k.reports[n] = request[r].reports[n]
  BY <1>2, <1>3, <1>6
<1>10. Becomes(r, k) /\ UNCHANGED <<cached, loaded, loads>> /\ heap' \in [Arrays -> Seq(Cell)]
  BY <1>2
<1>11. QED
  BY <1>7, <1>8, <1>9, <1>10, OwnStep

(* A step that writes nothing in the heap, and at most gives slices up.    *)
LEMMA QuietStep ==
    ASSUME MemoryInv, NEW r \in Requests, NEW k \in Request,
           Becomes(r, k), UNCHANGED <<heap, cached, loaded, loads>>,
           k.instances \in {request[r].instances, Nil},
           k.todo = {} \/ /\ k.todo = request[r].todo /\ k.reports = request[r].reports
                          /\ k.asked = request[r].asked,
           \A n \in Clusters : k.reports[n] \in {request[r].reports[n], Nil}
    PROVE  MemoryInv'
<1>1. /\ request'[r] = k /\ request' \in [Requests -> Request]
      /\ \A q \in Requests \ {r} : request'[q] = request[q]
  BY DEF Becomes
<1>2. PrivateInv'
  <2>1. Shared' \subseteq Shared \cup {Nil.array}
    BY <1>1, GivenUp
  <2>2. QED
    BY <1>1, <2>1, PrivateStays
<1>3. ASSUME NEW q \in Requests, NEW n \in request'[q].todo
      PROVE  /\ n \in request[q].todo /\ request'[q].reports[n] = request[q].reports[n]
             /\ request'[q].asked = request[q].asked
  <2>1. CASE q = r
    BY <1>1, <1>3, <2>1
  <2>2. CASE q # r
    BY <1>1, <1>3, <2>2
  <2>3. QED
    BY <2>1, <2>2
<1>4. \A q \in Requests : \A n \in request'[q].todo : \A t :
        t = request'[q].reports[n] =>
           IsSlice(t) /\ View(t) = request'[q].asked[n] /\ heap'[t.array] = heap[t.array]
  <2>1. ASSUME NEW q \in Requests, NEW n \in request'[q].todo
        PROVE  IsSlice(request[q].reports[n])
               /\ View(request[q].reports[n]) = request[q].asked[n]
    BY <1>3, UsedSlices
  <2>2. QED
    BY <1>3, <2>1
<1>5. \A q \in Requests : \A t : t = request'[q].instances /\ t # Nil => IsSlice(t)'
  <2>1. ASSUME NEW q \in Requests, NEW t, t = request'[q].instances, t # Nil
        PROVE  IsSlice(t)'
    <3>1. t = request[q].instances
      BY <1>1, <2>1
    <3>2. IsSlice(t) /\ heap'[t.array] = heap[t.array]
      BY <2>1, <3>1, UsedSlices
    <3>3. QED
      BY <3>2, SliceStays
  <2>2. QED
    BY <2>1
<1>6. QED
  BY <1>1, <1>2, <1>4, <1>5, RequestTyped, StepKeepsMemory

(* Encoding makes a text of its own, and lets go of the slice.             *)
LEMMA EncodeKeepsMemory ==
    ASSUME MemoryInv, NEW r \in Requests, Encode(r)
    PROVE  MemoryInv'
<1> DEFINE text == View(request[r].instances)
           k == [request[r] EXCEPT !.at = "writing", !.buf = text, !.instances = Nil]
<1>1. request[r] \in Request /\ Nil \in Slices
  BY RequestTyped DEF Nil, Slice, Slices
<1>2. text \in Seq(Instance)
  <2>1. CASE request[r].instances = Nil
    BY <2>1 DEF View
  <2>2. CASE request[r].instances # Nil
    BY <1>1, <2>2, UsedSlices, ViewOfSlice DEF Request
  <2>3. QED
    BY <2>1, <2>2
<1> HIDE DEF text
<1>3. /\ k \in Request /\ k.instances = Nil /\ k.todo = request[r].todo
      /\ k.asked = request[r].asked /\ k.reports = request[r].reports
  BY <1>1, <1>2 DEF Request
<1>4. request' = [request EXCEPT ![r] = k] /\ UNCHANGED <<heap, cached, loaded, loads>>
  BY DEF Encode, text
<1> HIDE DEF k
<1>5. Becomes(r, k)
  BY <1>3, <1>4, RequestTyped DEF Becomes
<1>6. PICK l \in Request : l = k
  BY <1>3
<1>7. QED
  BY <1>3, <1>4, <1>5, <1>6, QuietStep

(* Writing moves the beginning of the text to the client.                  *)
LEMMA WriteKeepsMemory ==
    ASSUME MemoryInv, NEW r \in Requests, NEW count \in Nat, count <= Len(request[r].buf),
           NEW label \in {"writing", "answered", "failed"}, Written(r, count, label),
           UNCHANGED <<heap, cached, loaded, loads>>
    PROVE  MemoryInv'
<1> DEFINE buf == request[r].buf
           part == SubSeq(buf, 1, count)
           rest == SubSeq(buf, count + 1, Len(buf))
           all == request[r].sent \o part
           k == [request[r] EXCEPT !.at = label, !.sent = all, !.buf = rest]
<1>1. request[r] \in Request /\ buf \in Seq(Instance) /\ request[r].sent \in Seq(Instance)
  BY RequestTyped DEF Request
<1>2. part \in Seq(Instance) /\ rest \in Seq(Instance)
  <2> HIDE DEF buf
  <2>1. Len(buf) \in Nat /\ \A i \in 1 .. Len(buf) : buf[i] \in Instance
    BY <1>1, LenProperties, ElementOfSeq
  <2>2. part \in Seq(Instance)
    BY <2>1, SubSeqProperties DEF buf
  <2>3. rest \in Seq(Instance)
    <3>1. \A i \in count + 1 .. Len(buf) : buf[i] \in Instance
      BY <2>1
    <3>2. QED
      BY <2>1, <3>1, SubSeqProperties DEF buf
  <2>4. QED
    BY <2>2, <2>3
<1>3. request' = [request EXCEPT ![r] = k]
  BY DEF Written
<1> HIDE DEF part, rest
<1>4. all \in Seq(Instance)
  BY <1>1, <1>2, ConcatProperties
<1> HIDE DEF all
<1>5. /\ k \in Request /\ k.instances = request[r].instances /\ k.todo = request[r].todo
      /\ k.asked = request[r].asked /\ k.reports = request[r].reports
  BY <1>1, <1>2, <1>4 DEF Request
<1> HIDE DEF k
<1>6. Becomes(r, k)
  BY <1>3, <1>5, RequestTyped DEF Becomes
<1>7. PICK l \in Request : l = k
  BY <1>5
<1>8. QED
  BY <1>5, <1>6, <1>7, QuietStep

(* The three ways to go on with writing.                                   *)
LEMMA WritesKeepMemory ==
    ASSUME MemoryInv, NEW r \in Requests, WriteChunk(r) \/ WriteRest(r) \/ WriteFails(r)
    PROVE  MemoryInv'
<1>1. Len(request[r].buf) \in Nat
  <2>1. PICK buf \in Seq(Instance) : buf = request[r].buf
    BY RequestTyped DEF Request
  <2>2. QED
    BY <2>1, LenProperties
<1>2. CASE WriteChunk(r)
  BY <1>1, <1>2, WriteKeepsMemory DEF WriteChunk
<1>3. CASE WriteRest(r)
  BY <1>1, <1>3, WriteKeepsMemory DEF WriteRest
<1>4. CASE WriteFails(r)
  BY <1>1, <1>4, WriteKeepsMemory DEF WriteFails
<1>5. QED
  BY <1>2, <1>3, <1>4

(* A request that has been answered is done.                               *)
LEMMA IdleTyped ==
    /\ Idle \in Request /\ Idle.instances = Nil /\ Idle.todo = {}
    /\ \A n \in Clusters : Idle.reports[n] = Nil
<1>1. Nil \in Slices /\ <<>> \in Seq(Instance)
  BY DEF Nil, Slice, Slices
<1>2. QED
  BY <1>1 DEF Idle, Request

LEMMA ReturnKeepsMemory ==
    ASSUME MemoryInv, NEW r \in Requests, Return(r)
    PROVE  MemoryInv'
<1>1. request' = [request EXCEPT ![r] = Idle] /\ UNCHANGED <<heap, cached, loaded, loads>>
  BY DEF Return
<1>2. Becomes(r, Idle)
  BY <1>1, IdleTyped, RequestTyped DEF Becomes
<1>3. PICK k \in Request : k = Idle
  BY IdleTyped
<1>4. QED
  BY <1>1, <1>2, <1>3, IdleTyped, QuietStep

-----------------------------------------------------------------------------
(* At first every cluster's report is in an array of its own.              *)
LEMMA InitMemory == Init => MemoryInv
<1> SUFFICES ASSUME Init PROVE MemoryInv
  OBVIOUS
<1>1. First \in Seq(Nat) /\ Len(First) \in Nat /\ DOMAIN First = 1 .. Len(First)
  <2>1. First \in Seq(Nat)
    OBVIOUS
  <2>2. QED
    BY <2>1, LenProperties
<1>2. ASSUME NEW n \in Clusters
      PROVE  loaded[n] \in Seq(Instance) /\ Len(loaded[n]) = Len(First)
  <2>1. loaded[n] = [i \in 1 .. Len(First) |-> [text |-> First[i], cluster |-> n]]
    BY <1>1 DEF Init, Instances
  <2>2. \A i \in 1 .. Len(First) : [text |-> First[i], cluster |-> n] \in Instance
    BY <1>1, InstanceOf
  <2>3. QED
    BY <1>1, <2>1, <2>2
<1>3. ASSUME NEW n \in Clusters
      PROVE  cached[n].array = n /\ cached[n].len = Len(loaded[n]) /\ cached[n] \in Slices
  <2>1. cached[n] = Slice(n, Len(loaded[n]))
    BY DEF Init
  <2>2. n \in Arrays /\ Len(loaded[n]) \in Nat
    BY <1>1, <1>2
  <2>3. QED
    BY <2>1, <2>2 DEF Slice, Slices
<1>4. PICK spare \in [Clusters -> 0 .. Spare] :
        heap = [a \in Arrays |-> IF a \in Clusters THEN Cells(loaded[a], spare[a]) ELSE <<>>]
  BY DEF Init
<1>5. ASSUME NEW n \in Clusters
      PROVE  /\ heap[n] \in Seq(Cell) /\ Len(loaded[n]) <= Len(heap[n])
             /\ Len(loaded[n]) \in Nat
             /\ \A i \in 1 .. Len(loaded[n]) : heap[n][i] = loaded[n][i]
                                               /\ loaded[n][i] \in Instance
  <2> DEFINE rest == [i \in 1 .. spare[n] |-> Blank]
             list == loaded[n]
  <2>1. rest \in Seq(Cell) /\ Len(rest) = spare[n] /\ spare[n] \in Nat
    <3>1. spare[n] \in Nat /\ Blank \in Cell
      BY DEF Cell
    <3>2. PICK l \in Nat : l = spare[n]
      BY <3>1
    <3>3. QED
      BY <3>1, <3>2
  <2>2. heap[n] = list \o rest
    BY <1>4 DEF Cells
  <2>3. list \in Seq(Instance)
    BY <1>2
  <2> HIDE DEF rest, list
  <2>4. /\ list \in Seq(Cell) /\ Len(list) \in Nat
        /\ \A i \in 1 .. Len(list) : list[i] \in Instance
    BY <2>3, SeqMonotonic, LenProperties, ElementOfSeq DEF Cell
  <2>5. /\ list \o rest \in Seq(Cell) /\ Len(list \o rest) = Len(list) + Len(rest)
        /\ \A i \in 1 .. Len(list) + Len(rest) :
              (list \o rest)[i] = IF i <= Len(list) THEN list[i] ELSE rest[i - Len(list)]
    BY <2>1, <2>4, ConcatProperties
  <2>6. /\ heap[n] \in Seq(Cell) /\ Len(list) <= Len(heap[n]) /\ Len(list) \in Nat
        /\ \A i \in 1 .. Len(list) : heap[n][i] = list[i] /\ list[i] \in Instance
    BY <2>1, <2>2, <2>4, <2>5
  <2>7. QED
    BY <2>6 DEF list
<1>6. ASSUME NEW n \in Clusters PROVE IsSlice(cached[n])
  <2>1. cached[n].array = n /\ cached[n].len = Len(loaded[n])
    BY <1>3
  <2>2. QED
    BY <1>5, <2>1 DEF IsSlice
<1>7. ASSUME NEW n \in Clusters PROVE View(cached[n]) = loaded[n]
  <2>1. cached[n].array = n /\ cached[n].len = Len(loaded[n]) /\ cached[n] \in Slices
    BY <1>3
  <2>2. View(cached[n]) \in Seq(Instance) /\ Len(View(cached[n])) = cached[n].len
        /\ \A i \in 1 .. cached[n].len : View(cached[n])[i] = heap[n][i]
    BY <1>6, <2>1, ViewOfSlice
  <2>3. PICK view \in Seq(Instance), list \in Seq(Instance) :
          view = View(cached[n]) /\ list = loaded[n]
    BY <1>2, <2>2
  <2>4. Len(view) = Len(list) /\ \A i \in 1 .. Len(view) : view[i] = list[i]
    BY <1>5, <2>1, <2>2, <2>3
  <2>5. QED
    BY <2>3, <2>4, SeqEqual
<1>8. heap \in [Arrays -> Seq(Cell)]
  <2>1. \A a \in Arrays : heap[a] \in Seq(Cell)
    <3>1. ASSUME NEW a \in Arrays PROVE heap[a] \in Seq(Cell)
      <4>1. CASE a \in Clusters
        BY <1>5, <4>1
      <4>2. CASE a \notin Clusters
        BY <1>4, <4>2
      <4>3. QED
        BY <4>1, <4>2
    <3>2. QED
      BY <3>1
  <2>2. QED
    BY <1>4, <2>1
<1>9. request \in [Requests -> Request] /\ \A r \in Requests : request[r] = Idle
  BY IdleTyped DEF Init
<1>10. /\ cached \in [Clusters -> Slices] /\ loaded \in [Clusters -> Seq(Instance)]
       /\ loads \in 0 .. MaxLoads
  BY <1>2, <1>3 DEF Init
<1>11. TypeOK
  BY <1>6, <1>8, <1>9, <1>10, IdleTyped DEF TypeOK, Cell, Request
<1>12. CacheUnaltered /\ PrivateInv /\ GivenInv
  BY <1>7, <1>9, IdleTyped DEF CacheUnaltered, PrivateInv, GivenInv
<1>13. QED
  BY <1>11, <1>12 DEF MemoryInv

LEMMA NextMemory == MemoryInv /\ [Next]_vars => MemoryInv'
<1> SUFFICES ASSUME MemoryInv, [Next]_vars PROVE MemoryInv'
  OBVIOUS
<1>1. ASSUME NEW n \in Clusters, Load(n) PROVE MemoryInv'
  BY <1>1, LoadKeepsMemory
<1>2. ASSUME NEW r \in Requests, GetReports(r) PROVE MemoryInv'
  BY <1>2, GetReportsKeepsMemory
<1>3. ASSUME NEW r \in Requests, NEW n \in Clusters, StartGroup(r, n) PROVE MemoryInv'
  BY <1>3, StartGroupVisits, VisitKeepsMemory
<1>4. ASSUME NEW r \in Requests, NEW n \in Clusters, MergeIntoGroup(r, n) PROVE MemoryInv'
  BY <1>4, MergeIntoGroupVisits, VisitKeepsMemory
<1>5. ASSUME NEW r \in Requests, Sort(r) PROVE MemoryInv'
  BY <1>5, SortKeepsMemory
<1>6. ASSUME NEW r \in Requests, Encode(r) PROVE MemoryInv'
  BY <1>6, EncodeKeepsMemory
<1>7. ASSUME NEW r \in Requests, WriteChunk(r) \/ WriteRest(r) \/ WriteFails(r) PROVE MemoryInv'
  BY <1>7, WritesKeepMemory
<1>8. ASSUME NEW r \in Requests, Return(r) PROVE MemoryInv'
  BY <1>8, ReturnKeepsMemory
<1>9. CASE UNCHANGED vars
  BY <1>9 DEF vars, MemoryInv, TypeOK, CacheUnaltered, PrivateInv, GivenInv, IsSlice, View, Shared
<1>10. QED
  BY <1>1, <1>2, <1>3, <1>4, <1>5, <1>6, <1>7, <1>8, <1>9 DEF Next

-----------------------------------------------------------------------------
(* Counting the places of an instance in a list.                           *)
LEMMA OccurrencesFinite ==
    ASSUME NEW list \in Seq(Instance), NEW e
    PROVE  /\ IsFiniteSet({i \in DOMAIN list : list[i] = e})
           /\ Occurrences(list, e) \in Nat
<1>1. DOMAIN list = 1 .. Len(list) /\ Len(list) \in Nat
  BY LenProperties
<1>2. IsFiniteSet(DOMAIN list)
  BY <1>1, FS_Interval
<1>3. IsFiniteSet({i \in DOMAIN list : list[i] = e})
  BY <1>2, FS_Subset
<1>4. QED
  BY <1>3, FS_CardinalityType DEF Occurrences

LEMMA OccurrencesInNothing ==
    ASSUME NEW e
    PROVE  Occurrences(<<>>, e) = 0
<1>1. {i \in DOMAIN <<>> : <<>>[i] = e} = {}
  OBVIOUS
<1>2. QED
  BY <1>1, FS_EmptySet DEF Occurrences

LEMMA OccurrencesElsewhere ==
    ASSUME NEW n, NEW list, MarkedAs(n, list), NEW e, e.cluster # n
    PROVE  Occurrences(list, e) = 0
<1>1. {i \in DOMAIN list : list[i] = e} = {}
  BY DEF MarkedAs
<1>2. QED
  BY <1>1, FS_EmptySet DEF Occurrences

LEMMA OccurrencesJoined ==
    ASSUME NEW list \in Seq(Instance), NEW more \in Seq(Instance), NEW e
    PROVE  Occurrences(list \o more, e) = Occurrences(list, e) + Occurrences(more, e)
<1> DEFINE l == Len(list)
           m == Len(more)
           both == list \o more
           P == {i \in DOMAIN list : list[i] = e}
           Q == {j \in DOMAIN more : more[j] = e}
           Moved == {i \in DOMAIN both : both[i] = e /\ i > l}
<1>1. /\ l \in Nat /\ m \in Nat /\ DOMAIN list = 1 .. l /\ DOMAIN more = 1 .. m
      /\ both \in Seq(Instance) /\ DOMAIN both = 1 .. l + m
      /\ \A i \in 1 .. l + m : both[i] = IF i <= l THEN list[i] ELSE more[i - l]
  <2>1. Len(both) = l + m /\ both \in Seq(Instance)
        /\ \A i \in 1 .. l + m : both[i] = IF i <= l THEN list[i] ELSE more[i - l]
    BY ConcatProperties
  <2>2. l \in Nat /\ m \in Nat /\ DOMAIN list = 1 .. l /\ DOMAIN more = 1 .. m
    BY LenProperties
  <2> HIDE DEF l, m, both
  <2>3. DOMAIN both = 1 .. Len(both)
    BY <2>1, LenProperties
  <2>4. QED
    BY <2>1, <2>2, <2>3
<1>2. {i \in DOMAIN both : both[i] = e} = P \cup Moved
  <2> HIDE DEF l, m, both
  <2>1. \A i \in 1 .. l : i \in 1 .. l + m /\ i <= l
    BY <1>1
  <2>2. \A i \in 1 .. l + m : i > l \/ i \in 1 .. l
    BY <1>1
  <2>3. QED
    BY <1>1, <2>1, <2>2
<1>3. P \cap Moved = {}
  <2> HIDE DEF both
  <2>1. \A i \in 1 .. l : ~(i > l)
    BY <1>1
  <2>2. QED
    BY <1>1, <2>1
<1>4. ExistsBijection(Q, Moved)
  <2> DEFINE f == [j \in Q |-> j + l]
  <2> HIDE DEF l, m, both
  <2>1. \A j \in 1 .. m : j + l \in 1 .. l + m /\ ~(j + l <= l) /\ j + l > l /\ (j + l) - l = j
    BY <1>1
  <2>2. \A j \in Q : f[j] \in Moved
    BY <1>1, <2>1
  <2>3. \A j, k \in Q : f[j] = f[k] => j = k
    BY <1>1
  <2>4. \A i \in Moved : i - l \in Q /\ f[i - l] = i
    <3> TAKE i \in Moved
    <3>1. i \in 1 .. l + m /\ i > l
      BY <1>1
    <3>2. i - l \in 1 .. m /\ ~(i <= l) /\ (i - l) + l = i
      BY <1>1, <3>1
    <3>3. QED
      BY <1>1, <3>1, <3>2
  <2> HIDE DEF Q, Moved
  <2>5. f \in [Q -> Moved]
    BY <2>2
  <2> HIDE DEF f
  <2>6. f \in Bijection(Q, Moved)
    BY <2>3, <2>4, <2>5 DEF Bijection, Injection, Surjection, IsInjective
  <2>7. QED
    BY <2>6 DEF ExistsBijection
<1>5. /\ IsFiniteSet(P) /\ IsFiniteSet(Q) /\ Cardinality(P) \in Nat /\ Cardinality(Q) \in Nat
      /\ Occurrences(list, e) = Cardinality(P) /\ Occurrences(more, e) = Cardinality(Q)
  BY OccurrencesFinite DEF Occurrences
<1> HIDE DEF P, Q, Moved
<1>6. IsFiniteSet(Moved) /\ Cardinality(Moved) = Cardinality(Q)
  BY <1>4, <1>5, FS_Bijection
<1>7. Cardinality(P \cup Moved) = Cardinality(P) + Cardinality(Moved)
  <2>1. Cardinality(P \cap Moved) = 0
    BY <1>3, FS_EmptySet
  <2>2. Cardinality(P \cup Moved) =
            Cardinality(P) + Cardinality(Moved) - Cardinality(P \cap Moved)
    BY <1>5, <1>6, FS_Union
  <2>3. QED
    BY <1>5, <1>6, <2>1, <2>2
<1>8. QED
  BY <1>2, <1>5, <1>6, <1>7 DEF Occurrences

LEMMA OccurrencesPermuted ==
    ASSUME NEW list \in Seq(Instance), NEW other \in Seq(Instance), Len(other) = Len(list),
           NEW p \in Bijection(1 .. Len(list), 1 .. Len(list)),
           \A i \in 1 .. Len(list) : other[i] = list[p[i]], NEW e
    PROVE  Occurrences(other, e) = Occurrences(list, e)
<1> DEFINE P == {i \in DOMAIN other : other[i] = e}
           Q == {i \in DOMAIN list : list[i] = e}
           f == [i \in P |-> p[i]]
<1>1. DOMAIN list = 1 .. Len(list) /\ DOMAIN other = 1 .. Len(list)
  BY LenProperties
<1>2. /\ \A i \in 1 .. Len(list) : p[i] \in 1 .. Len(list)
      /\ \A i, j \in 1 .. Len(list) : p[i] = p[j] => i = j
      /\ \A j \in 1 .. Len(list) : \E i \in 1 .. Len(list) : p[i] = j
  BY DEF Bijection, Injection, Surjection, IsInjective
<1>3. \A i \in P : f[i] \in Q
  BY <1>1, <1>2
<1>4. \A i, j \in P : f[i] = f[j] => i = j
  BY <1>1, <1>2
<1>5. \A j \in Q : \E i \in P : f[i] = j
  <2> TAKE j \in Q
  <2>1. PICK i \in 1 .. Len(list) : p[i] = j
    BY <1>1, <1>2
  <2>2. i \in P
    BY <1>1, <2>1
  <2>3. QED
    BY <2>1, <2>2
<1>6. IsFiniteSet(P) /\ Occurrences(other, e) = Cardinality(P)
      /\ Occurrences(list, e) = Cardinality(Q)
  BY OccurrencesFinite DEF Occurrences
<1> HIDE DEF P, Q
<1>7. f \in [P -> Q]
  BY <1>3
<1> HIDE DEF f
<1>8. f \in Bijection(P, Q)
  BY <1>4, <1>5, <1>7 DEF Bijection, Injection, Surjection, IsInjective
<1>9. QED
  BY <1>6, <1>8, FS_Bijection DEF ExistsBijection

-----------------------------------------------------------------------------
(* What the invariant says of a request k and the answer that it has.      *)
Right(k, answer) ==
    k.at # "idle" =>
        /\ \A n \in Clusters : MarkedAs(n, k.asked[n])
        /\ \A e \in Instance :
              Occurrences(answer, e) = IF e.cluster \in Clusters \ k.todo
                                       THEN Occurrences(k.asked[e.cluster], e) ELSE 0
        /\ k.at # "visiting" => k.todo = {} /\ InOrder(answer)
        /\ k.at \in {"visiting", "sorted"} => k.sent = <<>>
        /\ k.at = "answered" => k.buf = <<>>

LEMMA RightAnswers ==
    ASSUME AnswerInv
    PROVE  /\ \A n \in Clusters : MarkedAs(n, loaded[n])
           /\ \A r \in Requests : Right(request[r], AnswerOf(r))
BY DEF AnswerInv, ListsThoseOf, Right

LEMMA RightAnswersSuffice ==
    ASSUME \A n \in Clusters : MarkedAs(n, loaded'[n]),
           \A r \in Requests : Right(request'[r], AnswerOf(r)')
    PROVE  AnswerInv'
BY DEF AnswerInv, ListsThoseOf, Right

(* An answer stays as long as nobody writes into its array.                *)
LEMMA AnswerStays ==
    ASSUME AnswerInv, NEW q \in Requests, request'[q] = request[q],
           request[q].instances # Nil =>
              heap'[request[q].instances.array] = heap[request[q].instances.array]
    PROVE  Right(request'[q], AnswerOf(q)')
<1>1. AnswerOf(q)' = AnswerOf(q)
  BY DEF AnswerOf, View
<1>2. QED
  BY <1>1, RightAnswers

(* One request moves on, and writes at most into its own array, or one     *)
(* that becomes its own.                                                   *)
LEMMA RequestMoves ==
    ASSUME MemoryInv, AnswerInv, NEW r \in Requests, NEW k, NEW x, Becomes(r, k),
           \A n \in Clusters : MarkedAs(n, loaded'[n]),
           \A a \in Arrays : a \in InUse /\ a # x => heap'[a] = heap[a],
           \/ x \notin InUse
           \/ request[r].instances # Nil /\ x = request[r].instances.array
           \/ x \notin Arrays,
           Right(k, AnswerOf(r)')
    PROVE  AnswerInv'
<1>1. ASSUME NEW q \in Requests \ {r} PROVE Right(request'[q], AnswerOf(q)')
  <2>1. request'[q] = request[q]
    BY DEF Becomes
  <2>2. request[q].instances # Nil =>
          /\ request[q].instances.array \in Arrays
          /\ request[q].instances.array \in InUse
          /\ request[q].instances.array # x
    BY UsedArrays DEF MemoryInv, PrivateInv
  <2>3. QED
    BY <2>1, <2>2, AnswerStays
<1>2. Right(request'[r], AnswerOf(r)')
  BY DEF Becomes
<1>3. QED
  BY <1>1, <1>2, RightAnswersSuffice

(* A new report in the cache alters no answer.                             *)
LEMMA LoadKeepsAnswers ==
    ASSUME MemoryInv, AnswerInv, NEW n \in Clusters, Load(n)
    PROVE  AnswerInv'
<1>1. PICK texts \in Texts :
        /\ Allocate(Instances(n, texts))
        /\ loaded' = [loaded EXCEPT ![n] = Instances(n, texts)]
  BY DEF Load
<1>2. MarkedAs(n, Instances(n, texts))
  BY DEF MarkedAs, Instances
<1>3. \A m \in Clusters : MarkedAs(m, loaded'[m])
  BY <1>1, <1>2, RequestTyped, RightAnswers
<1>4. \A a \in Arrays : a \in InUse => heap'[a] = heap[a]
  BY <1>1, FreshIsFree DEF Allocate
<1>5. ASSUME NEW q \in Requests PROVE Right(request'[q], AnswerOf(q)')
  <2>1. request[q].instances # Nil =>
          /\ request[q].instances.array \in Arrays
          /\ request[q].instances.array \in InUse
    BY UsedArrays
  <2>2. QED
    BY <1>4, <2>1, AnswerStays DEF Load
<1>6. QED
  BY <1>3, <1>5, RightAnswersSuffice

(* Nothing has been visited when a request is given its reports.           *)
LEMMA GetReportsKeepsAnswers ==
    ASSUME MemoryInv, AnswerInv, NEW r \in Requests, GetReports(r)
    PROVE  AnswerInv'
<1> DEFINE k == [Idle EXCEPT !.at = "visiting", !.todo = Clusters,
                             !.reports = cached, !.asked = loaded]
<1>1. request' = [request EXCEPT ![r] = k] /\ UNCHANGED <<heap, loaded>>
  BY DEF GetReports
<1>2. /\ k \in Request /\ k.at = "visiting" /\ k.asked = loaded
      /\ k.todo = Clusters /\ k.instances = Nil /\ k.sent = <<>>
  <2>1. Nil \in Slices /\ <<>> \in Seq(Instance)
    BY DEF Nil, Slice, Slices
  <2>2. QED
    BY <2>1, RequestTyped DEF Idle, Request
<1> HIDE DEF k
<1>3. request'[r] = k /\ Becomes(r, k)
  BY <1>1, <1>2, RequestTyped DEF Becomes
<1>4. AnswerOf(r)' = <<>>
  BY <1>2, <1>3 DEF AnswerOf, View
<1>5. Right(k, <<>>)
  BY <1>2, OccurrencesInNothing, RightAnswers DEF Right
<1>6. 0 \notin Arrays
  OBVIOUS
<1>7. QED
  BY <1>1, <1>3, <1>4, <1>5, <1>6, RightAnswers, RequestMoves

(* A visit adds the instances of one cluster, which no other one has.      *)
LEMMA VisitKeepsAnswers ==
    ASSUME MemoryInv, AnswerInv, NEW r \in Requests, NEW n \in Clusters, NEW s \in Slices,
           Visits(r, n, s), n \in request[r].todo, request[r].at = "visiting"
    PROVE  AnswerInv'
<1> DEFINE old == View(request[r].instances)
           list == View(request[r].reports[n])
<1>1. PICK k \in Request :
        /\ Becomes(r, k) /\ k.instances = s
        /\ k.todo = request[r].todo \ {n} /\ k.asked = request[r].asked
        /\ k.at = request[r].at /\ k.sent = request[r].sent
  BY VisitedRequest, SMTT(30) DEF Visits
<1>2. Right(request[r], old)
  BY RightAnswers DEF AnswerOf
<1>3. /\ list = request[r].asked[n] /\ list \in Seq(Instance) /\ MarkedAs(n, list)
      /\ request[r].todo \subseteq Clusters
  BY <1>2, RequestTyped, UsedSlices DEF Right, Request
<1>4. old \in Seq(Instance)
  <2>1. CASE request[r].instances = Nil
    BY <2>1 DEF View
  <2>2. CASE request[r].instances # Nil
    BY <2>2, RequestTyped, UsedSlices, ViewOfSlice DEF Request
  <2>3. QED
    BY <2>1, <2>2
<1>5. AnswerOf(r)' = old \o list
  <2>1. request'[r] = k
    BY <1>1 DEF Becomes
  <2>2. View(s)' = old \o list
    BY DEF Visits
  <2>3. AnswerOf(r)' = View(s)'
    BY <1>1, <2>1 DEF AnswerOf, View
  <2>4. QED
    BY <2>2, <2>3
<1> HIDE DEF old, list
<1>6. ASSUME NEW e \in Instance
      PROVE  Occurrences(old \o list, e) = IF e.cluster \in Clusters \ k.todo
                                           THEN Occurrences(k.asked[e.cluster], e) ELSE 0
  <2>1. /\ Occurrences(old \o list, e) = Occurrences(old, e) + Occurrences(list, e)
        /\ Occurrences(old, e) \in Nat /\ Occurrences(list, e) \in Nat
    BY <1>3, <1>4, OccurrencesJoined, OccurrencesFinite
  <2>2. Occurrences(old, e) = IF e.cluster \in Clusters \ request[r].todo
                              THEN Occurrences(request[r].asked[e.cluster], e) ELSE 0
    BY <1>2 DEF Right
  <2>3. CASE e.cluster = n
    BY <1>1, <1>3, <2>1, <2>2, <2>3
  <2>4. CASE e.cluster # n
    <3>1. Occurrences(list, e) = 0
      BY <1>3, <2>4, OccurrencesElsewhere
    <3>2. e.cluster \in Clusters \ k.todo <=> e.cluster \in Clusters \ request[r].todo
      BY <1>1, <2>4
    <3>3. QED
      BY <1>1, <2>1, <2>2, <3>1, <3>2
  <2>5. QED
    BY <2>3, <2>4
<1>7. Right(k, old \o list)
  BY <1>1, <1>2, <1>6 DEF Right
<1>8. /\ \A a \in Arrays : a \in InUse /\ a # s.array => heap'[a] = heap[a]
      /\ \/ s.array \notin InUse
         \/ request[r].instances # Nil /\ s.array = request[r].instances.array
      /\ loaded' = loaded
  BY DEF Visits
<1>9. QED
  BY <1>1, <1>5, <1>7, <1>8, RightAnswers, RequestMoves

(* Sorting lists the same instances, in order.                             *)
LEMMA SortKeepsAnswers ==
    ASSUME MemoryInv, AnswerInv, NEW r \in Requests, Sort(r)
    PROVE  AnswerInv'
<1>1. PICK k \in Request, t \in Slices : Sorts(r, k, t)
  BY SortSorts
<1>2. /\ Becomes(r, k) /\ loaded' = loaded /\ t = request[r].instances
      /\ \A a \in Arrays : a # t.array => heap'[a] = heap[a]
  BY <1>1 DEF Sorts
<1>3. /\ k.instances = t /\ k.todo = request[r].todo /\ k.at = "sorted"
      /\ k.asked = request[r].asked /\ k.sent = request[r].sent
  <2>1. request[r] \in Request /\ k = [request[r] EXCEPT !.at = "sorted"]
    BY <1>1, RequestTyped DEF Sorts
  <2>2. QED
    BY <1>2, <2>1 DEF Request
<1>4. request[r].at = "visiting" /\ request[r].todo = {}
  BY DEF Sort
<1>5. Right(request[r], View(t))
  BY <1>2, <1>4, RightAnswers DEF AnswerOf
<1>6. AnswerOf(r)' = View(t)'
  BY <1>2, <1>3 DEF AnswerOf, View, Becomes
<1>7. Right(k, View(t)')
  <2>1. CASE t = Nil
    <3>1. View(t)' = <<>> /\ View(t) = <<>>
      BY <2>1 DEF View
    <3>2. InOrder(<<>>)
      BY DEF InOrder
    <3>3. QED
      BY <1>3, <1>4, <1>5, <3>1, <3>2 DEF Right
  <2>2. CASE t # Nil
    <3>1. /\ View(t)' \in Seq(Instance) /\ Len(View(t)') = t.len
          /\ \E p \in Bijection(1 .. t.len, 1 .. t.len) :
                /\ \A i \in 1 .. t.len : View(t)'[i] = View(t)[p[i]]
                /\ InOrder(View(t)')
      BY <1>1, <2>2 DEF Sorts
    <3>2. View(t) \in Seq(Instance) /\ Len(View(t)) = t.len
      <4>1. IsSlice(t)
        BY <1>2, <2>2, UsedSlices
      <4>2. QED
        BY <4>1, ViewOfSlice
    <3>3. PICK list \in Seq(Instance), other \in Seq(Instance) :
            list = View(t) /\ other = View(t)'
      BY <3>1, <3>2
    <3>4. PICK p \in Bijection(1 .. Len(list), 1 .. Len(list)) :
            (\A i \in 1 .. Len(list) : other[i] = list[p[i]]) /\ InOrder(other)
      BY <3>1, <3>2, <3>3
    <3>5. ASSUME NEW e \in Instance
          PROVE  Occurrences(other, e) = Occurrences(list, e)
      <4>1. Len(other) = Len(list)
        BY <3>1, <3>2, <3>3
      <4>2. QED
        BY <3>4, <4>1, OccurrencesPermuted
    <3>6. Right(k, other)
      BY <1>3, <1>4, <1>5, <3>3, <3>4, <3>5 DEF Right
    <3>7. QED
      BY <3>3, <3>6
  <2>3. QED
    BY <2>1, <2>2
<1>8. PICK x : x = t.array
  OBVIOUS
<1>9. \/ request[r].instances # Nil /\ x = request[r].instances.array
      \/ x \notin Arrays
  BY <1>2, <1>8 DEF Nil, Slice
<1>10. \A n \in Clusters : MarkedAs(n, loaded'[n])
  BY <1>2, RightAnswers
<1>11. Right(k, AnswerOf(r)')
  BY <1>6, <1>7
<1>12. \A a \in Arrays : a \in InUse /\ a # x => heap'[a] = heap[a]
  BY <1>2, <1>8
<1>13. QED
  BY <1>2, <1>9, <1>10, <1>11, <1>12, RequestMoves

(* A step of a request that leaves the heap and its answer alone.          *)
LEMMA AnswerMoves ==
    ASSUME MemoryInv, AnswerInv, NEW r \in Requests, NEW k,
           Becomes(r, k), UNCHANGED <<heap, cached, loaded, loads>>,
           NEW answer, AnswerOf(r)' = answer, Right(k, answer)
    PROVE  AnswerInv'
<1>1. 0 \notin Arrays
  OBVIOUS
<1>2. QED
  BY <1>1, RightAnswers, RequestMoves

LEMMA EncodeKeepsAnswers ==
    ASSUME MemoryInv, AnswerInv, NEW r \in Requests, Encode(r)
    PROVE  AnswerInv'
<1> DEFINE text == View(request[r].instances)
           k == [request[r] EXCEPT !.at = "writing", !.buf = text, !.instances = Nil]
<1>1. request[r] \in Request /\ Nil \in Slices /\ request[r].at = "sorted"
  BY RequestTyped DEF Nil, Slice, Slices, Encode
<1>2. text \in Seq(Instance)
  <2>1. CASE request[r].instances = Nil
    BY <2>1 DEF View
  <2>2. CASE request[r].instances # Nil
    BY <1>1, <2>2, UsedSlices, ViewOfSlice DEF Request
  <2>3. QED
    BY <2>1, <2>2
<1>3. Right(request[r], text) /\ request[r].sent = <<>>
  BY <1>1, RightAnswers DEF AnswerOf, Right
<1>4. request' = [request EXCEPT ![r] = k] /\ UNCHANGED <<heap, cached, loaded, loads>>
  BY DEF Encode
<1> HIDE DEF text
<1>5. /\ k \in Request /\ k.at = "writing" /\ k.buf = text /\ k.sent = <<>>
      /\ k.todo = request[r].todo /\ k.asked = request[r].asked
  BY <1>1, <1>2, <1>3 DEF Request
<1> HIDE DEF k
<1>6. request'[r] = k /\ Becomes(r, k)
  BY <1>4, <1>5, RequestTyped DEF Becomes
<1>7. AnswerOf(r)' = text
  <2>1. <<>> \o text = text
    BY <1>2, ConcatEmptySeq
  <2>2. QED
    BY <1>5, <1>6, <2>1 DEF AnswerOf
<1>8. Right(k, text)
  BY <1>1, <1>3, <1>5 DEF Right
<1>9. QED
  BY <1>4, <1>6, <1>7, <1>8, AnswerMoves

(* What was sent and what is left make up the answer.                      *)
LEMMA SplitInTwo ==
    ASSUME NEW sent \in Seq(Instance), NEW buf \in Seq(Instance),
           NEW count \in Nat, count <= Len(buf)
    PROVE  /\ (sent \o SubSeq(buf, 1, count)) \o SubSeq(buf, count + 1, Len(buf)) = sent \o buf
           /\ sent \o SubSeq(buf, 1, count) \in Seq(Instance)
           /\ SubSeq(buf, count + 1, Len(buf)) \in Seq(Instance)
           /\ count = Len(buf) => SubSeq(buf, count + 1, Len(buf)) = <<>>
<1> DEFINE part == SubSeq(buf, 1, count)
           rest == SubSeq(buf, count + 1, Len(buf))
<1>1. Len(buf) \in Nat /\ \A i \in 1 .. Len(buf) : buf[i] \in Instance
  BY LenProperties, ElementOfSeq
<1>2. part \in Seq(Instance) /\ rest \in Seq(Instance)
  BY <1>1, SubSeqProperties
<1>3. part \o rest = buf
  <2>1. 1 \in 1 .. Len(buf) + 1 /\ count \in 1 - 1 .. Len(buf) /\ Len(buf) \in count .. Len(buf)
    BY <1>1
  <2>2. part \o rest = SubSeq(buf, 1, Len(buf))
    BY <2>1, ConcatAdjacentSubSeq
  <2>3. QED
    BY <2>2, SubSeqFull
<1>4. count = Len(buf) => rest = <<>>
  BY <1>1, SubSeqEmpty
<1> HIDE DEF part, rest
<1>5. (sent \o part) \o rest = sent \o (part \o rest)
  <2>1. sent \in Seq(Instance) /\ part \in Seq(Instance) /\ rest \in Seq(Instance)
    BY <1>2
  <2>2. QED
    BY ONLY <2>1, ConcatAssociative, SMTT(30)
<1>6. sent \o part \in Seq(Instance)
  BY <1>2, ConcatProperties
<1>7. QED
  BY <1>2, <1>3, <1>4, <1>5, <1>6 DEF part, rest

(* Writing leaves the answer what it is.                                   *)
LEMMA WriteKeepsAnswers ==
    ASSUME MemoryInv, AnswerInv, NEW r \in Requests, NEW count \in Nat,
           count <= Len(request[r].buf), request[r].at = "writing",
           NEW label \in {"writing", "answered", "failed"}, Written(r, count, label),
           label = "answered" => count = Len(request[r].buf),
           UNCHANGED <<heap, cached, loaded, loads>>
    PROVE  AnswerInv'
<1> DEFINE part == SubSeq(request[r].buf, 1, count)
           rest == SubSeq(request[r].buf, count + 1, Len(request[r].buf))
           all == request[r].sent \o part
           k == [request[r] EXCEPT !.at = label, !.sent = all, !.buf = rest]
           answer == request[r].sent \o request[r].buf
<1>1. /\ request[r] \in Request /\ request[r].buf \in Seq(Instance)
      /\ request[r].sent \in Seq(Instance)
  BY RequestTyped DEF Request
<1>2. /\ all \o rest = answer /\ all \in Seq(Instance) /\ rest \in Seq(Instance)
      /\ label = "answered" => rest = <<>>
  <2>1. PICK sent \in Seq(Instance), buf \in Seq(Instance) :
            sent = request[r].sent /\ buf = request[r].buf
    BY <1>1
  <2>2. count \in Nat /\ count <= Len(buf)
    BY <2>1
  <2>3. /\ (sent \o SubSeq(buf, 1, count)) \o SubSeq(buf, count + 1, Len(buf)) = sent \o buf
        /\ sent \o SubSeq(buf, 1, count) \in Seq(Instance)
        /\ SubSeq(buf, count + 1, Len(buf)) \in Seq(Instance)
        /\ count = Len(buf) => SubSeq(buf, count + 1, Len(buf)) = <<>>
    BY ONLY <2>2, SplitInTwo, Zenon
  <2>4. QED
    BY <2>1, <2>3, Zenon
<1>3. request' = [request EXCEPT ![r] = k]
  BY DEF Written
<1>4. Right(request[r], answer)
  BY RightAnswers DEF AnswerOf
<1> HIDE DEF all, rest, answer
<1>5. /\ k \in Request /\ k.at = label /\ k.buf = rest /\ k.sent = all
      /\ k.todo = request[r].todo /\ k.asked = request[r].asked
  BY <1>1, <1>2 DEF Request
<1> HIDE DEF k
<1>6. request'[r] = k /\ Becomes(r, k)
  BY <1>3, <1>5, RequestTyped DEF Becomes
<1>7. AnswerOf(r)' = answer
  BY <1>2, <1>5, <1>6 DEF AnswerOf
<1>8. Right(k, answer)
  BY <1>2, <1>4, <1>5 DEF Right
<1>9. QED
  BY <1>6, <1>7, <1>8, AnswerMoves

LEMMA WritesKeepAnswers ==
    ASSUME MemoryInv, AnswerInv, NEW r \in Requests,
           WriteChunk(r) \/ WriteRest(r) \/ WriteFails(r)
    PROVE  AnswerInv'
<1>1. Len(request[r].buf) \in Nat
  <2>1. PICK buf \in Seq(Instance) : buf = request[r].buf
    BY RequestTyped DEF Request
  <2>2. QED
    BY <2>1, LenProperties
<1>2. CASE WriteChunk(r)
  BY <1>1, <1>2, WriteKeepsAnswers DEF WriteChunk
<1>3. CASE WriteRest(r)
  BY <1>1, <1>3, WriteKeepsAnswers DEF WriteRest
<1>4. CASE WriteFails(r)
  BY <1>1, <1>4, WriteKeepsAnswers DEF WriteFails
<1>5. QED
  BY <1>2, <1>3, <1>4

LEMMA ReturnKeepsAnswers ==
    ASSUME MemoryInv, AnswerInv, NEW r \in Requests, Return(r)
    PROVE  AnswerInv'
<1>1. request' = [request EXCEPT ![r] = Idle] /\ UNCHANGED <<heap, cached, loaded, loads>>
  BY DEF Return
<1>2. Becomes(r, Idle)
  BY <1>1, IdleTyped, RequestTyped DEF Becomes
<1>3. Right(Idle, AnswerOf(r)')
  BY DEF Right, Idle
<1>4. 0 \notin Arrays
  OBVIOUS
<1>5. PICK k : k = Idle
  OBVIOUS
<1>6. QED
  BY <1>1, <1>2, <1>3, <1>4, <1>5, RightAnswers, RequestMoves

LEMMA InitAnswers == Init => AnswerInv
<1> SUFFICES ASSUME Init PROVE AnswerInv
  OBVIOUS
<1>1. \A n \in Clusters : MarkedAs(n, loaded[n])
  BY DEF Init, MarkedAs, Instances
<1>2. \A r \in Requests : request[r].at = "idle"
  BY DEF Init, Idle
<1>3. QED
  BY <1>1, <1>2 DEF AnswerInv

LEMMA NextAnswers == MemoryInv /\ AnswerInv /\ [Next]_vars => AnswerInv'
<1> SUFFICES ASSUME MemoryInv, AnswerInv, [Next]_vars PROVE AnswerInv'
  OBVIOUS
<1>1. ASSUME NEW n \in Clusters, Load(n) PROVE AnswerInv'
  BY <1>1, LoadKeepsAnswers
<1>2. ASSUME NEW r \in Requests, GetReports(r) PROVE AnswerInv'
  BY <1>2, GetReportsKeepsAnswers
<1>3. ASSUME NEW r \in Requests, NEW n \in Clusters, StartGroup(r, n) PROVE AnswerInv'
  <2>1. n \in request[r].todo /\ request[r].at = "visiting"
    BY <1>3 DEF StartGroup
  <2>2. QED
    BY <1>3, <2>1, StartGroupVisits, VisitKeepsAnswers
<1>4. ASSUME NEW r \in Requests, NEW n \in Clusters, MergeIntoGroup(r, n) PROVE AnswerInv'
  <2>1. n \in request[r].todo /\ request[r].at = "visiting"
    BY <1>4 DEF MergeIntoGroup
  <2>2. QED
    BY <1>4, <2>1, MergeIntoGroupVisits, VisitKeepsAnswers
<1>5. ASSUME NEW r \in Requests, Sort(r) PROVE AnswerInv'
  BY <1>5, SortKeepsAnswers
<1>6. ASSUME NEW r \in Requests, Encode(r) PROVE AnswerInv'
  BY <1>6, EncodeKeepsAnswers
<1>7. ASSUME NEW r \in Requests, WriteChunk(r) \/ WriteRest(r) \/ WriteFails(r)
      PROVE  AnswerInv'
  BY <1>7, WritesKeepAnswers
<1>8. ASSUME NEW r \in Requests, Return(r) PROVE AnswerInv'
  BY <1>8, ReturnKeepsAnswers
<1>9. CASE UNCHANGED vars
  BY <1>9 DEF vars, AnswerInv, ListsThoseOf, AnswerOf, View
<1>10. QED
  BY <1>1, <1>2, <1>3, <1>4, <1>5, <1>6, <1>7, <1>8, <1>9 DEF Next

-----------------------------------------------------------------------------
(* The part about memory is inductive by itself: every slice lies in its   *)
(* array, the cache and what requests were given are what was loaded, and  *)
(* the array of a group that is being built is in nobody else's hands.     *)
THEOREM MemoryInvariant == Spec => []MemoryInv
<1>1. Init => MemoryInv
  BY InitMemory
<1>2. MemoryInv /\ [Next]_vars => MemoryInv'
  BY NextMemory
<1>3. QED
  BY <1>1, <1>2, PTL DEF Spec

(* The inductive invariant: together with that, each answer has at each    *)
(* time exactly what has been visited for it.                              *)
THEOREM Invariant == Spec => []IInv
<1>1. Init => IInv
  BY InitMemory, InitAnswers DEF IInv
<1>2. IInv /\ [Next]_vars => IInv'
  BY NextMemory, NextAnswers DEF IInv
<1>3. QED
  BY <1>1, <1>2, PTL DEF Spec

(* Types: no slice that is still used reaches beyond what was written into *)
(* its array (aggregate.go:73-125).                                        *)
THEOREM TypeCorrect == Spec => []TypeOK
<1>1. MemoryInv => TypeOK
  BY DEF MemoryInv
<1>2. QED
  BY <1>1, MemoryInvariant, PTL

(* Whatever requests do with the reports that they share with the cache    *)
(* after the mutex is released (downloader.go:73), the cached report of a  *)
(* cluster stays what it was when it was loaded.                           *)
THEOREM CacheStaysUnaltered == Spec => []CacheUnaltered
<1>1. MemoryInv => CacheUnaltered
  BY DEF MemoryInv
<1>2. QED
  BY <1>1, MemoryInvariant, PTL

(* Whatever other requests and uploads do meanwhile, each client gets the  *)
(* violations that were cached when it asked, each as often as there, in   *)
(* order, whole or a beginning of it (aggregate.go:103-125, api.go:34-59). *)
THEOREM ClientsGetTheTruth == Spec => []AnswersAreTrue
<1>1. IInv => AnswersAreTrue
  <2> SUFFICES ASSUME IInv, NEW r \in Requests,
                      request[r].at \in {"writing", "answered", "failed"}
               PROVE  /\ ListsThoseOf(Clusters, request[r].sent \o request[r].buf, r)
                      /\ InOrder(request[r].sent \o request[r].buf)
                      /\ request[r].at = "answered" => request[r].buf = <<>>
    BY DEF AnswersAreTrue
  <2>1. Right(request[r], AnswerOf(r))
    BY RightAnswers DEF IInv
  <2>2. AnswerOf(r) = request[r].sent \o request[r].buf
    BY DEF AnswerOf
  <2>3. QED
    BY <2>1, <2>2 DEF Right, ListsThoseOf
<1>2. QED
  BY <1>1, Invariant, PTL
=============================================================================
