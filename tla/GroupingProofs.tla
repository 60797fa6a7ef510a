-------------------------- MODULE GroupingProofs ---------------------------
(***************************************************************************)
(* The grouping loop of the analyzer is right for every list of violations *)
(* and every pair of rule sets: process and merge are arbitrary functions. *)
(* And the texts of objects, messages and targets come apart as the README *)
(* says, however long they are.                                            *)
(***************************************************************************)
EXTENDS TextRules, SequenceTheorems, NaturalsInduction, WellFoundedInduction, TLAPS

USE RulesAssumption

(* The three invariants need one another and nothing else: which group a   *)
(* violation joins is only determined because the patterns are distinct.   *)
GInv == TypeOK /\ DistinctPatterns /\ GroupsListAllViolations

(* What a turn computes from its violation.                                *)
LEMMA TurnTyping ==
    ASSUME TypeOK, NEW i \in 1 .. Len(violations)
    PROVE  Pattern(i) \in Violation /\ Instance(i) \in Difference
<1>1. violations[i] \in Reported
  BY DEF TypeOK
<1>2. Processed(i) \in Violation
  BY <1>1 DEF Processed
<1>3. QED
  BY <1>2 DEF Pattern, Instance, Difference

(* Before the first turn there is nothing to list.                         *)
LEMMA InitGInv == Init => GInv
<1> SUFFICES ASSUME Init PROVE GInv
  OBVIOUS
<1>1. PICK n \in 0 .. MaxViolations : violations \in [1 .. n -> Reported]
  BY DEF Init
<1>2. violations \in Seq(Reported) /\ Len(violations) = n
  BY <1>1, IsASeq
<1>3. groups = <<>> /\ turn = 1 /\ groups \in Seq(Group)
  BY DEF Init
<1>4. TypeOK
  BY <1>2, <1>3 DEF Init, TypeOK
<1>5. DOMAIN groups = {} /\ Merged = {}
  BY <1>3 DEF Merged
<1>6. QED
  BY <1>4, <1>5 DEF GInv, DistinctPatterns, GroupsListAllViolations

(* A list that is right so far is right for one more turn, if that turn    *)
(* adds its instance to the end exactly if the violation has the pattern.  *)
LEMMA Extended ==
    ASSUME TypeOK, turn <= Len(violations), turn' = turn + 1,
           violations' = violations,
           NEW G \in Group, NEW H \in Group, H.pattern = G.pattern,
           ListsItsViolations(G),
           \/ Pattern(turn) # G.pattern /\ H.instances = G.instances
           \/ /\ Pattern(turn) = G.pattern
              /\ H.instances = Append(G.instances, Instance(turn))
    PROVE  ListsItsViolations(H)'
<1> DEFINE n == Len(G.instances)
<1>0. turn \in Nat \ {0} /\ Merged' = Merged \cup {turn} /\ turn \notin Merged
      /\ \A i \in Merged : i \in Nat /\ i < turn
  BY DEF TypeOK, Merged
<1>1. G.instances \in Seq(Difference) /\ n \in Nat /\ DOMAIN G.instances = 1 .. n
  BY DEF Group
<1>2. ASSUME NEW l \in Nat, DOMAIN H.instances = 1 .. l,
             NEW x \in [1 .. l -> Merged'],
             \A j, k \in 1 .. l : j < k => x[j] < x[k],
             \A i \in Merged' :
                Pattern(i) = H.pattern <=> \E k \in 1 .. l : x[k] = i,
             \A k \in 1 .. l : H.instances[k] = Expected(x[k])
      PROVE  ListsItsViolations(H)'
  <2>1. \A i \in Merged' :
          Pattern(i)' = H.pattern <=> \E k \in DOMAIN x : x[k] = i
    BY <1>2 DEF Pattern, Processed
  <2>2. \A k \in DOMAIN x : H.instances[k] = Expected(x[k])'
    BY <1>2 DEF Expected, Pattern, Processed
  <2>3. \A j, k \in DOMAIN x : j < k => x[j] < x[k]
    BY <1>2
  <2>4. x \in [DOMAIN H.instances -> Merged']
    BY <1>2
  <2>5. QED
    BY <2>1, <2>2, <2>3, <2>4 DEF ListsItsViolations
<1>3. PICK m \in [1 .. n -> Merged] :
        /\ \A j, k \in 1 .. n : j < k => m[j] < m[k]
        /\ \A i \in Merged :
              Pattern(i) = G.pattern <=> \E k \in 1 .. n : m[k] = i
        /\ \A k \in 1 .. n : G.instances[k] = Expected(m[k])
  BY <1>1 DEF ListsItsViolations
<1>4. CASE Pattern(turn) # G.pattern /\ H.instances = G.instances
  <2>1. m \in [1 .. n -> Merged']
    BY <1>0, <1>3
  <2>2. \A i \in Merged' :
          Pattern(i) = H.pattern <=> \E k \in 1 .. n : m[k] = i
    BY <1>0, <1>3, <1>4
  <2>3. \A k \in 1 .. n : H.instances[k] = Expected(m[k])
    BY <1>3, <1>4
  <2>4. DOMAIN H.instances = 1 .. n
    BY <1>1, <1>4
  <2>5. QED
    BY <1>1, <1>2, <1>3, <2>1, <2>2, <2>3, <2>4
<1>5. CASE /\ Pattern(turn) = G.pattern
           /\ H.instances = Append(G.instances, Instance(turn))
  <2> DEFINE w == [k \in 1 .. n + 1 |-> IF k = n + 1 THEN turn ELSE m[k]]
  <2>1. /\ DOMAIN H.instances = 1 .. n + 1
        /\ \A k \in 1 .. n : H.instances[k] = G.instances[k]
        /\ H.instances[n + 1] = Expected(turn)
    <3>1. Instance(turn) \in Difference /\ Instance(turn) = Expected(turn)
      BY <1>0, TurnTyping DEF TypeOK, Instance, Expected
    <3>2. QED
      BY <1>1, <1>5, <3>1, AppendProperties
  <2>2. w \in [1 .. n + 1 -> Merged']
    BY <1>0, <1>1, <1>3
  <2>3. \A j, k \in 1 .. n + 1 : j < k => w[j] < w[k]
    <3>1. ASSUME NEW j \in 1 .. n + 1, NEW k \in 1 .. n + 1, j < k
          PROVE  w[j] < w[k]
      <4>1. j \in 1 .. n /\ j # n + 1
        BY <1>1, <3>1
      <4>2. w[j] = m[j] /\ m[j] \in Merged
        BY <1>3, <4>1
      <4>3. CASE k = n + 1
        BY <1>0, <4>2, <4>3
      <4>4. CASE k # n + 1
        <5>1. k \in 1 .. n /\ w[k] = m[k]
          BY <1>1, <3>1, <4>4
        <5>2. QED
          BY <1>3, <3>1, <4>1, <4>2, <5>1
      <4>5. QED
        BY <4>3, <4>4
    <3>2. QED
      BY <3>1
  <2>4. \A i \in Merged' :
          Pattern(i) = H.pattern <=> \E k \in 1 .. n + 1 : w[k] = i
    <3>1. ASSUME NEW i \in Merged
          PROVE  Pattern(i) = G.pattern <=> \E k \in 1 .. n + 1 : w[k] = i
      <4>1. \A k \in 1 .. n : k \in 1 .. n + 1 /\ w[k] = m[k]
        BY <1>1
      <4>2. \A k \in 1 .. n + 1 : k \in 1 .. n \/ w[k] = turn
        BY <1>1
      <4>3. i # turn
        BY <1>0
      <4> HIDE DEF w
      <4>4. QED
        BY <1>3, <4>1, <4>2, <4>3
    <3>2. \E k \in 1 .. n + 1 : w[k] = turn
      <4>1. n + 1 \in 1 .. n + 1
        BY <1>1
      <4>2. w[n + 1] = turn
        BY <4>1
      <4> HIDE DEF w
      <4>3. QED
        BY <4>1, <4>2
    <3>3. QED
      BY <1>0, <1>5, <3>1, <3>2
  <2>5. \A k \in 1 .. n + 1 : H.instances[k] = Expected(w[k])
    BY <1>1, <1>3, <2>1
  <2>6. n + 1 \in Nat
    BY <1>1
  <2> HIDE DEF w, n
  <2>7. QED
    BY <1>2, <2>1, <2>2, <2>3, <2>4, <2>5, <2>6
<1>6. QED
  BY <1>4, <1>5

(* A turn that merges its violation into the group of its pattern.         *)
LEMMA MergeKeepsGInv ==
    ASSUME GInv, NEW g \in DOMAIN groups, MergeIntoGroup(g)
    PROVE  GInv'
<1> USE DEF GInv, MergeIntoGroup
<1>1. /\ turn \in 1 .. Len(violations) /\ turn' = turn + 1
      /\ violations' = violations /\ status' = status
      /\ groups \in Seq(Group) /\ Len(violations) \in Nat
  BY DEF TypeOK
<1>2. Pattern(turn) \in Violation /\ Instance(turn) \in Difference
  BY <1>1, TurnTyping
<1>3. groups[g] \in Group /\ groups[g].pattern = Pattern(turn)
  BY <1>1 DEF Candidates
<1> DEFINE H == [groups[g] EXCEPT !.instances = Append(@, Instance(turn))]
<1>4. /\ H \in Group /\ H.pattern = Pattern(turn)
      /\ H.instances = Append(groups[g].instances, Instance(turn))
  BY <1>2, <1>3, AppendProperties DEF Group
<1>5. groups' = [groups EXCEPT ![g] = H]
  OBVIOUS
<1> HIDE DEF H
<1>6. /\ groups' \in Seq(Group) /\ DOMAIN groups' = DOMAIN groups
      /\ groups'[g] = H
      /\ \A h \in DOMAIN groups \ {g} : groups'[h] = groups[h]
  <2>1. DOMAIN groups = 1 .. Len(groups)
    BY <1>1
  <2>2. [groups EXCEPT ![g] = H] \in Seq(Group)
    <3>1. g \in 1 .. Len(groups) /\ groups \in Seq(Group) /\ H \in Group
      BY <1>1, <1>4, <2>1
    <3>2. QED
      BY <3>1, ExceptSeq
  <2>3. QED
    BY <1>1, <1>5, <2>1, <2>2
<1>7. TypeOK'
  BY <1>1, <1>6 DEF TypeOK
<1>8. \A h \in DOMAIN groups : groups'[h].pattern = groups[h].pattern
  BY <1>3, <1>4, <1>6
<1>9. DistinctPatterns'
  BY <1>6, <1>8 DEF DistinctPatterns
<1>10. ASSUME NEW h \in DOMAIN groups, NEW K, K = groups'[h]
       PROVE  ListsItsViolations(K)'
  <2> SUFFICES ASSUME NEW G, G = groups[h]
               PROVE  ListsItsViolations(K)'
    OBVIOUS
  <2>1. G \in Group /\ K \in Group /\ ListsItsViolations(G)
    BY <1>1, <1>4, <1>6, <1>10 DEF GroupsListAllViolations
  <2>2. CASE h = g
    <3>1. /\ K.pattern = G.pattern /\ Pattern(turn) = G.pattern
          /\ K.instances = Append(G.instances, Instance(turn))
      BY <1>3, <1>4, <1>6, <1>10, <2>2
    <3>2. QED
      BY <1>1, <2>1, <3>1, Extended
  <2>3. CASE h # g
    <3>1. Pattern(turn) # G.pattern
      BY <1>3, <2>3 DEF DistinctPatterns
    <3>2. K = G
      BY <1>6, <1>10, <2>3
    <3>3. QED
      BY <1>1, <2>1, <3>1, <3>2, Extended
  <2>4. QED
    BY <2>2, <2>3
<1>11. \A i \in Merged' : \E h \in DOMAIN groups' : groups'[h].pattern = Pattern(i)'
  <2>1. \A i \in Merged' : i \in Merged \/ i = turn
    BY <1>1 DEF Merged
  <2>2. \A i \in Merged' : \E h \in DOMAIN groups : groups[h].pattern = Pattern(i)
    BY <1>3, <2>1 DEF GroupsListAllViolations
  <2>3. QED
    BY <1>1, <1>6, <1>8, <2>2 DEF Pattern, Processed
<1>12. GroupsListAllViolations'
  <2>1. ASSUME NEW h \in DOMAIN groups' PROVE ListsItsViolations(groups[h])'
    <3> SUFFICES ASSUME NEW K, K = groups'[h]
                 PROVE  ListsItsViolations(groups[h])'
      OBVIOUS
    <3>1. ListsItsViolations(K)'
      BY <1>6, <1>10
    <3>2. QED
      BY <3>1 DEF ListsItsViolations
  <2>2. QED
    BY <1>11, <2>1 DEF GroupsListAllViolations
<1>13. QED
  BY <1>7, <1>9, <1>12

(* A turn whose violation has a pattern that no group has.                 *)
LEMMA StartGroupKeepsGInv ==
    ASSUME GInv, StartGroup
    PROVE  GInv'
<1> USE DEF GInv, StartGroup
<1>1. /\ turn \in 1 .. Len(violations) /\ turn' = turn + 1
      /\ violations' = violations /\ status' = status
      /\ groups \in Seq(Group) /\ Len(violations) \in Nat
  BY DEF TypeOK
<1>2. Pattern(turn) \in Violation /\ Instance(turn) \in Difference
  BY <1>1, TurnTyping
<1> DEFINE H == [pattern |-> Pattern(turn), instances |-> <<Instance(turn)>>]
           E == [pattern |-> Pattern(turn), instances |-> <<>>]
           n == Len(groups)
<1>3. /\ H \in Group /\ E \in Group /\ H.pattern = E.pattern
      /\ H.pattern = Pattern(turn)
      /\ H.instances = Append(E.instances, Instance(turn))
  BY <1>2 DEF Group
<1>4. \A h \in DOMAIN groups : groups[h].pattern # Pattern(turn)
  BY DEF Candidates
<1>5. groups' = Append(groups, H)
  OBVIOUS
<1>6. ListsItsViolations(E)
  <2>1. \A i \in Merged : Pattern(i) # E.pattern
    BY <1>4 DEF GroupsListAllViolations
  <2>2. DOMAIN E.instances = {} /\ <<>> \in [{} -> Merged]
    OBVIOUS
  <2>3. QED
    BY <2>1, <2>2 DEF ListsItsViolations
<1>7. ASSUME NEW K, K = H PROVE ListsItsViolations(K)'
  <2> SUFFICES ASSUME NEW G, G = E PROVE ListsItsViolations(K)'
    OBVIOUS
  <2> HIDE DEF H, E
  <2>1. /\ G \in Group /\ K \in Group /\ K.pattern = G.pattern
        /\ Pattern(turn) = G.pattern
        /\ K.instances = Append(G.instances, Instance(turn))
        /\ ListsItsViolations(G)
    BY <1>3, <1>6, <1>7
  <2>2. QED
    BY <1>1, <2>1, Extended
<1> HIDE DEF H, E
<1>8. /\ groups' \in Seq(Group) /\ n \in Nat
      /\ DOMAIN groups = 1 .. n /\ DOMAIN groups' = 1 .. n + 1
      /\ groups'[n + 1] = H
      /\ \A h \in 1 .. n : groups'[h] = groups[h]
  BY <1>1, <1>3, <1>5, AppendProperties
<1> HIDE DEF n
<1>9. TypeOK'
  BY <1>1, <1>8 DEF TypeOK
<1>10. DistinctPatterns'
  BY <1>3, <1>4, <1>8 DEF DistinctPatterns
<1>11. ASSUME NEW h \in 1 .. n + 1, NEW K, K = groups'[h]
       PROVE  ListsItsViolations(K)'
  <2>1. CASE h = n + 1
    BY <1>7, <1>8, <1>11, <2>1
  <2>2. CASE h \in 1 .. n
    <3> SUFFICES ASSUME NEW G, G = groups[h] PROVE ListsItsViolations(K)'
      OBVIOUS
    <3>1. G \in Group /\ K = G
      BY <1>1, <1>8, <1>11, <2>2
    <3>2. Pattern(turn) # G.pattern /\ ListsItsViolations(G)
      BY <1>4, <1>8, <2>2 DEF GroupsListAllViolations
    <3>3. QED
      BY <1>1, <3>1, <3>2, Extended
  <2>3. QED
    BY <1>8, <2>1, <2>2
<1>12. \A i \in Merged' : \E h \in DOMAIN groups' : groups'[h].pattern = Pattern(i)'
  <2>1. \A i \in Merged' : i \in Merged \/ i = turn
    BY <1>1 DEF Merged
  <2>2. \A i \in Merged : \E h \in 1 .. n : groups'[h].pattern = Pattern(i)
    BY <1>8 DEF GroupsListAllViolations
  <2>3. \A i \in Merged' : \E h \in 1 .. n + 1 : groups'[h].pattern = Pattern(i)
    BY <1>3, <1>8, <2>1, <2>2
  <2>4. QED
    BY <1>1, <1>8, <2>3 DEF Pattern, Processed
<1>13. GroupsListAllViolations'
  <2>1. ASSUME NEW h \in DOMAIN groups' PROVE ListsItsViolations(groups[h])'
    <3> SUFFICES ASSUME NEW K, K = groups'[h]
                 PROVE  ListsItsViolations(groups[h])'
      OBVIOUS
    <3>1. ListsItsViolations(K)'
      BY <1>8, <1>11
    <3>2. QED
      BY <3>1 DEF ListsItsViolations
  <2>2. QED
    BY <1>12, <2>1 DEF GroupsListAllViolations
<1>14. QED
  BY <1>9, <1>10, <1>13

(* Only the two kinds of turn touch the groups.                            *)
LEMMA NextGInv == GInv /\ [Next]_vars => GInv'
<1> SUFFICES ASSUME GInv, [Next]_vars PROVE GInv'
  OBVIOUS
<1>1. ASSUME NEW g \in DOMAIN groups, MergeIntoGroup(g) PROVE GInv'
  BY <1>1, MergeKeepsGInv
<1>2. CASE StartGroup
  BY <1>2, StartGroupKeepsGInv
<1>3. CASE Start \/ Finish \/ ProcessAgain \/ UNCHANGED vars
  <2>1. /\ UNCHANGED <<violations, groups, turn>>
        /\ status' \in {status, "start", "loop", "done", "panic"}
    BY <1>3 DEF Start, Finish, ProcessAgain, vars
  <2>2. TypeOK'
    BY <2>1 DEF GInv, TypeOK
  <2>3. DistinctPatterns'
    BY <2>1 DEF GInv, DistinctPatterns
  <2>4. GroupsListAllViolations'
    <3>1. ASSUME NEW h \in DOMAIN groups PROVE ListsItsViolations(groups[h])'
      <4>1. PICK m \in [DOMAIN groups[h].instances -> Merged] :
              /\ \A j, k \in DOMAIN m : j < k => m[j] < m[k]
              /\ \A i \in Merged : Pattern(i) = groups[h].pattern
                                  <=> \E k \in DOMAIN m : m[k] = i
              /\ \A k \in DOMAIN m : groups[h].instances[k] = Expected(m[k])
        BY DEF GInv, GroupsListAllViolations, ListsItsViolations
      <4>2. m \in [DOMAIN groups'[h].instances -> Merged']
        BY <2>1 DEF Merged
      <4>3. \A i \in Merged' : Pattern(i)' = groups'[h].pattern
                              <=> \E k \in DOMAIN m : m[k] = i
        BY <2>1, <4>1 DEF Merged, Pattern, Processed
      <4>4. \A k \in DOMAIN m : groups'[h].instances[k] = Expected(m[k])'
        BY <2>1, <4>1 DEF Expected, Pattern, Processed
      <4>5. QED
        BY <4>1, <4>2, <4>3, <4>4 DEF ListsItsViolations
    <3>2. \A i \in Merged' : \E h \in DOMAIN groups' :
             groups'[h].pattern = Pattern(i)'
      BY <2>1 DEF GInv, GroupsListAllViolations, Merged, Pattern, Processed
    <3>3. QED
      BY <2>1, <3>1, <3>2 DEF GroupsListAllViolations
  <2>5. QED
    BY <2>2, <2>3, <2>4 DEF GInv
<1>4. QED
  BY <1>1, <1>2, <1>3 DEF Next

(* Types, and the inductive invariant as a whole.                          *)
THEOREM GroupingInvariant == Spec => []GInv
  BY InitGInv, NextGInv, PTL DEF Spec

(* Groups, patterns and instances keep their types under any rules, and    *)
(* the loop never leaves the list.                                         *)
THEOREM TypeCorrect == Spec => []TypeOK
  BY GroupingInvariant, PTL DEF GInv

(* For every rule set, a constraint never gets two groups with the same    *)
(* pattern.                                                                *)
THEOREM PatternsAreDistinct == Spec => []DistinctPatterns
  BY GroupingInvariant, PTL DEF GInv

(* For every rule set, no violation is lost, doubled, put into a foreign   *)
(* group or listed out of order.                                           *)
THEOREM NoViolationIsLost == Spec => []GroupsListAllViolations
  BY GroupingInvariant, PTL DEF GInv

(* A field of v that the difference omits is the pattern's or empty.       *)
LEMMA DifferenceCompletes ==
    ASSUME NEW v, NEW w
    PROVE  Agrees(v, Completed(DifferenceTo(v, w), w))
BY DEF Agrees, Completed, DifferenceTo

(* For every rule set, the groups of a constraint say all that its         *)
(* violations said: whoever completes an instance by its pattern gets back *)
(* one of the violations that the group stands for.                        *)
THEOREM NothingIsOmittedThatDiffers == Spec => []InstancesAreComplete
<1>1. ASSUME GInv PROVE InstancesAreComplete
  <2> SUFFICES ASSUME NEW g \in DOMAIN groups,
                      NEW k \in DOMAIN groups[g].instances
               PROVE  \E i \in Merged :
                        /\ Pattern(i) = groups[g].pattern
                        /\ Agrees(Processed(i),
                             Completed(groups[g].instances[k], groups[g].pattern))
    BY DEF InstancesAreComplete
  <2>1. PICK m \in [DOMAIN groups[g].instances -> Merged] :
          /\ \A i \in Merged : Pattern(i) = groups[g].pattern
                              <=> \E j \in DOMAIN m : m[j] = i
          /\ \A j \in DOMAIN m : groups[g].instances[j] = Expected(m[j])
    BY <1>1 DEF GInv, GroupsListAllViolations, ListsItsViolations
  <2>2. m[k] \in Merged /\ Pattern(m[k]) = groups[g].pattern
    BY <2>1
  <2>3. groups[g].instances[k] = DifferenceTo(Processed(m[k]), groups[g].pattern)
    BY <2>1, <2>2 DEF Expected
  <2>4. QED
    BY <2>2, <2>3, DifferenceCompletes
<1>2. QED
  BY <1>1, GroupingInvariant, PTL

-----------------------------------------------------------------------------
HIDE RulesAssumption

(* Texts.  Induction over a set of numbers, and minima.                    *)
LEMMA SetInduction ==
    ASSUME NEW S, 0 \in S, \A n \in Nat : n \in S => n + 1 \in S
    PROVE  Nat \subseteq S
<1> DEFINE less == {p \in Nat \X Nat : p[1] < p[2]}
<1>1. SUFFICES ASSUME Nat \ S # {} PROVE FALSE
  OBVIOUS
<1>2. IsWellFoundedOn(less, Nat)
  BY NatLessThanWellFounded DEF OpToRel
<1>3. PICK n \in Nat \ S : \A m \in Nat \ S : <<m, n>> \notin less
  <2> HIDE DEF less
  <2>1. QED
    BY <1>1, <1>2, WFMin, Zenon
<1>4. n # 0 /\ n - 1 \in Nat /\ n - 1 \notin S
  BY <1>3
<1>5. <<n - 1, n>> \in less
  BY <1>3, <1>4 DEF less
<1>6. QED
  BY <1>3, <1>4, <1>5

LEMMA MinIsLeast ==
    ASSUME NEW I, I \subseteq Nat, I # {}
    PROVE  Min(I) \in I /\ \A i \in I : Min(I) <= i
<1> DEFINE less == {p \in Nat \X Nat : p[1] < p[2]}
<1>1. IsWellFoundedOn(less, Nat)
  BY NatLessThanWellFounded DEF OpToRel
<1>2. PICK n \in I : \A m \in I : <<m, n>> \notin less
  <2> HIDE DEF less
  <2>1. QED
    BY <1>1, WFMin, Zenon
<1>3. \A m \in I : n <= m
  <2>1. \A m \in Nat : m < n => <<m, n>> \in less
    BY DEF less
  <2> SUFFICES ASSUME NEW m \in I PROVE n <= m
    OBVIOUS
  <2>2. m \in Nat /\ n \in Nat /\ ~(m < n)
    BY <1>2, <2>1
  <2>3. QED
    BY <2>2
<1>4. QED
  BY <1>2, <1>3 DEF Min

LEMMA MinIs ==
    ASSUME NEW I, I \subseteq Nat, NEW k \in I, \A i \in I : k <= i
    PROVE  Min(I) = k
<1>1. Min(I) \in I /\ Min(I) <= k
  BY MinIsLeast
<1>2. Min(I) \in Nat /\ k \in Nat /\ k <= Min(I)
  BY <1>1
<1>3. QED
  BY <1>1, <1>2

(* What a concatenation is made of.                                        *)
LEMMA Concat ==
    ASSUME NEW S, NEW a \in Seq(S), NEW b \in Seq(S)
    PROVE  /\ a \o b \in Seq(S) /\ Len(a) \in Nat /\ Len(b) \in Nat
           /\ Len(a \o b) = Len(a) + Len(b)
           /\ \A i \in 1 .. Len(a) : (a \o b)[i] = a[i]
           /\ \A i \in Len(a) + 1 .. Len(a) + Len(b) : (a \o b)[i] = b[i - Len(a)]
           /\ \A i \in 1 .. Len(b) : (a \o b)[Len(a) + i] = b[i]
<1>1. Len(a) \in Nat /\ Len(b) \in Nat
  OBVIOUS
<1>2. /\ a \o b \in Seq(S) /\ Len(a \o b) = Len(a) + Len(b)
      /\ \A i \in 1 .. Len(a) + Len(b) : (a \o b)[i] = IF i <= Len(a) THEN a[i] ELSE b[i - Len(a)]
  BY ConcatProperties
<1> DEFINE u == a \o b
<1> HIDE DEF u
<1>3. \A i \in 1 .. Len(a) : u[i] = a[i]
  BY <1>1, <1>2 DEF u
<1>4. \A i \in Len(a) + 1 .. Len(a) + Len(b) : u[i] = b[i - Len(a)]
  BY <1>1, <1>2 DEF u
<1>5. \A i \in 1 .. Len(b) : u[Len(a) + i] = b[i]
  <2> SUFFICES ASSUME NEW i \in 1 .. Len(b) PROVE u[Len(a) + i] = b[i]
    OBVIOUS
  <2>1. Len(a) + i \in Len(a) + 1 .. Len(a) + Len(b) /\ Len(a) + i - Len(a) = i
    BY <1>1
  <2>2. QED
    BY <1>4, <2>1
<1>6. QED
  BY <1>1, <1>2, <1>3, <1>4, <1>5 DEF u

-----------------------------------------------------------------------------
(* The blanks in front of a text.                                          *)
LEMMA UnindentedFrom ==
    ASSUME NEW S, NEW t \in Seq(S), NEW k \in 1 .. Len(t) + 1,
           \A i \in 1 .. k - 1 : t[i] \in Blanks,
           k = Len(t) + 1 \/ t[k] \notin Blanks
    PROVE  Unindented(t) = SubSeq(t, k, Len(t))
<1> DEFINE I == {i \in DOMAIN t : t[i] \notin Blanks} \cup {Len(t) + 1}
<1>1. Len(t) \in Nat /\ DOMAIN t = 1 .. Len(t)
  OBVIOUS
<1>2. I \subseteq Nat /\ k \in I
  BY <1>1
<1>3. \A i \in I : k <= i
  BY <1>1
<1>4. Min(I) = k
  <2> HIDE DEF I
  <2>1. QED
    BY <1>2, <1>3, MinIs
<1>5. QED
  BY <1>4 DEF Unindented

LEMMA FirstOfText ==
    ASSUME NEW S, NEW t \in Seq(S)
    PROVE  \E k \in 1 .. Len(t) + 1 :
              /\ \A i \in 1 .. k - 1 : t[i] \in Blanks
              /\ k = Len(t) + 1 \/ t[k] \notin Blanks
<1> DEFINE I == {i \in DOMAIN t : t[i] \notin Blanks} \cup {Len(t) + 1}
<1>1. Len(t) \in Nat /\ DOMAIN t = 1 .. Len(t)
  OBVIOUS
<1>2. I \subseteq Nat /\ I # {}
  BY <1>1
<1>3. PICK k \in I : \A i \in I : k <= i
  <2> HIDE DEF I
  <2>1. QED
    BY <1>2, MinIsLeast
<1>4. k \in 1 .. Len(t) + 1
  BY <1>1
<1>5. \A i \in 1 .. k - 1 : t[i] \in Blanks
  <2> SUFFICES ASSUME NEW i \in 1 .. k - 1, t[i] \notin Blanks PROVE FALSE
    OBVIOUS
  <2>1. i \in I /\ i < k
    BY <1>1, <1>4
  <2>2. QED
    BY <1>3, <1>4, <2>1
<1>6. QED
  BY <1>4, <1>5

LEMMA BlanksInFront ==
    ASSUME NEW S, NEW b \in Seq(S), NEW t \in Seq(S),
           \A i \in DOMAIN b : b[i] \in Blanks
    PROVE  Unindented(b \o t) = Unindented(t)
<1> DEFINE u == b \o t
<1>1. /\ Len(b) \in Nat /\ Len(t) \in Nat /\ DOMAIN b = 1 .. Len(b)
      /\ u \in Seq(S) /\ Len(u) = Len(b) + Len(t)
      /\ \A i \in 1 .. Len(b) : u[i] = b[i]
      /\ \A i \in 1 .. Len(t) : u[Len(b) + i] = t[i]
      /\ \A i \in Len(b) + 1 .. Len(u) : u[i] = t[i - Len(b)]
  BY Concat
<1>2. PICK k \in 1 .. Len(t) + 1 : /\ \A i \in 1 .. k - 1 : t[i] \in Blanks
                                   /\ k = Len(t) + 1 \/ t[k] \notin Blanks
  BY FirstOfText
<1>3. Unindented(t) = SubSeq(t, k, Len(t))
  BY <1>2, UnindentedFrom
<1> HIDE DEF u
<1>4. \A i \in 1 .. Len(b) + k - 1 : u[i] \in Blanks
  <2> SUFFICES ASSUME NEW i \in 1 .. Len(b) + k - 1 PROVE u[i] \in Blanks
    OBVIOUS
  <2>1. CASE i <= Len(b)
    <3>1. i \in 1 .. Len(b)
      BY <1>1, <2>1
    <3>2. u[i] = b[i] /\ b[i] \in Blanks
      BY <1>1, <3>1
    <3>3. QED
      BY <3>2
  <2>2. CASE i > Len(b)
    <3>1. i - Len(b) \in 1 .. k - 1 /\ i - Len(b) \in 1 .. Len(t)
      BY <1>1, <2>2
    <3>2. u[i] = t[i - Len(b)]
      BY <1>1, <2>2
    <3>3. QED
      BY <1>2, <3>1, <3>2
  <2>3. QED
    BY <1>1, <2>1, <2>2
<1>5. Len(b) + k = Len(u) + 1 \/ u[Len(b) + k] \notin Blanks
  <2>1. CASE k = Len(t) + 1
    BY <1>1, <2>1
  <2>2. CASE k # Len(t) + 1
    <3>1. k \in 1 .. Len(t)
      BY <1>1, <2>2
    <3>2. QED
      BY <1>1, <1>2, <2>2, <3>1
  <2>3. QED
    BY <2>1, <2>2
<1>6. Unindented(u) = SubSeq(u, Len(b) + k, Len(u))
  <2>1. Len(b) + k \in 1 .. Len(u) + 1
    BY <1>1
  <2>2. \A i \in 1 .. (Len(b) + k) - 1 : u[i] \in Blanks
    BY <1>1, <1>4
  <2>3. QED
    BY <1>1, <1>5, <2>1, <2>2, UnindentedFrom
<1>7. SubSeq(u, Len(b) + k, Len(u)) = SubSeq(t, k, Len(t))
  <2>1. Len(SubSeq(u, Len(b) + k, Len(u))) = Len(SubSeq(t, k, Len(t)))
    BY <1>1
  <2>2. ASSUME NEW i \in 1 .. Len(t) - k + 1
        PROVE  SubSeq(u, Len(b) + k, Len(u))[i] = SubSeq(t, k, Len(t))[i]
    <3>1. k + i - 1 \in 1 .. Len(t) /\ Len(b) + k + i - 1 = Len(b) + (k + i - 1)
      BY <1>1
    <3>2. u[Len(b) + (k + i - 1)] = t[k + i - 1]
      BY <1>1, <3>1
    <3>3. QED
      BY <1>1, <3>1, <3>2
  <2>3. /\ SubSeq(u, Len(b) + k, Len(u)) \in Seq(S)
        /\ SubSeq(t, k, Len(t)) \in Seq(S)
        /\ Len(SubSeq(t, k, Len(t))) = Len(t) - k + 1
    BY <1>1
  <2>4. QED
    BY <1>1, <2>1, <2>2, <2>3, SeqEqual
<1>8. QED
  BY <1>3, <1>6, <1>7 DEF u

-----------------------------------------------------------------------------
(* The group in braces ends where the object does, since a brace within it *)
(* is followed by something else than a separator.                         *)
LEMMA GroupIsTheObject ==
    ASSUME NEW object, IsJsonObject(object),
           NEW separator, IsSeparator(separator), NEW message, IsMessage(message)
    PROVE  LET t == object \o separator \o message
               n == Len(object)
           IN  /\ Ends(t) # {} /\ Min(Ends(t)) = n /\ Before(t, n + 1) = object
               /\ Unindented(Tail(Unindented(After(t, n)))) = Unindented(message)
<1> DEFINE n == Len(object)
           rest == separator \o message
           t == object \o rest
<1>1. /\ object \in Seq(STRING) /\ separator \in Seq(STRING) /\ message \in Seq(STRING)
      /\ Len(separator) \in Nat /\ Len(message) \in Nat
      /\ n \in Nat /\ n > 1
      /\ object[1] = Open /\ object[n] = Close
  BY DEF IsJsonObject, IsSeparator, IsMessage
<1>2. \A i \in 1 .. n : object[i] # LineBreak /\ object[i] # ">>"
  BY <1>1 DEF IsJsonObject, OnOneLine, ToSet
<1>3. /\ rest \in Seq(STRING) /\ Len(rest) = Len(separator) + Len(message)
      /\ \A i \in 1 .. Len(separator) : rest[i] = separator[i]
  BY <1>1, ConcatProperties
<1>4. object \o separator \o message = t
  BY <1>1, ConcatAssociative
<1>5. PICK p \in 1 .. Len(separator) :
         separator[p] = ">>" /\ \A j \in 1 .. Len(separator) : j # p => separator[j] \in Blanks
  BY <1>1 DEF IsSeparator
<1> HIDE DEF rest
<1>6. /\ t \in Seq(STRING) /\ Len(t) = n + Len(rest)
      /\ \A i \in 1 .. n : t[i] = object[i]
  <2>1. object \in Seq(STRING) /\ rest \in Seq(STRING)
    BY <1>1, <1>3
  <2>2. t \in Seq(STRING)
    BY <2>1, Concat
  <2>3. Len(t) = n + Len(rest)
    BY <2>1, Concat
  <2>4. \A i \in 1 .. n : t[i] = object[i]
    BY <2>1, Concat
  <2>5. QED
    BY <2>2, <2>3, <2>4
<1>7. After(t, n) = rest
  <2>1. SubSeq(t, n + 1, Len(t)) = SubSeq(rest, 1, Len(rest))
    <3>1. n + 1 \in n + 1 .. n + Len(rest) /\ n + Len(rest) \in n + 1 .. n + Len(rest)
      BY <1>1, <1>3, <1>5
    <3>2. SubSeq(t, n + 1, n + Len(rest)) = SubSeq(rest, n + 1 - n, n + Len(rest) - n)
      BY <1>1, <1>3, <3>1, SubSeqOfConcat2
    <3>3. n + 1 - n = 1 /\ n + Len(rest) - n = Len(rest)
      BY <1>1, <1>3
    <3>4. QED
      BY <1>6, <3>2, <3>3
  <2>2. QED
    BY <1>3, <2>1, SubSeqFull DEF After
<1>8. Before(t, n + 1) = object
  <2>1. SubSeq(t, 1, n) = SubSeq(object, 1, n)
    BY <1>1, <1>3, SubSeqOfConcat1
  <2>2. SubSeq(object, 1, n) = object /\ n + 1 - 1 = n
    BY <1>1, SubSeqFull
  <2>3. QED
    BY <2>1, <2>2 DEF Before
<1>9. Unindented(rest) = SubSeq(rest, p, Len(rest))
  <2>1. p \in 1 .. Len(rest) + 1 /\ p \in 1 .. Len(rest)
    BY <1>1, <1>3
  <2>2. \A i \in 1 .. p - 1 : rest[i] \in Blanks
    BY <1>1, <1>3, <1>5
  <2>3. rest[p] \notin Blanks
    BY <1>3, <1>5 DEF Blanks, Space, LineBreak
  <2>4. QED
    BY <1>3, <2>1, <2>2, <2>3, UnindentedFrom
<1>10. /\ Unindented(rest) # <<>> /\ Head(Unindented(rest)) = ">>"
       /\ Tail(Unindented(rest)) = SubSeq(rest, p + 1, Len(rest))
  <2>1. p \in 1 .. Len(rest) /\ Len(rest) \in p .. Len(rest) /\ Len(rest) \in Nat
    BY <1>1, <1>3
  <2>2. Len(SubSeq(rest, p, Len(rest))) # 0
    BY <1>3, <2>1
  <2>3. Head(SubSeq(rest, p, Len(rest))) = rest[p]
    BY <1>3, <2>1, HeadTailOfSubSeq
  <2>4. Tail(SubSeq(rest, p, Len(rest))) = SubSeq(rest, p + 1, Len(rest))
    BY <1>3, <2>1, HeadTailOfSubSeq
  <2>5. SubSeq(rest, p, Len(rest)) # <<>>
    BY <2>2, EmptySeq, Zenon
  <2>6. QED
    BY <1>3, <1>5, <1>9, <2>3, <2>4, <2>5
<1>11. Unindented(SubSeq(rest, p + 1, Len(rest))) = Unindented(message)
  <2> DEFINE b == SubSeq(separator, p + 1, Len(separator))
  <2>1. /\ b \in Seq(STRING) /\ Len(b) = Len(separator) - p
        /\ \A i \in 1 .. Len(separator) - p : b[i] = separator[p + 1 + i - 1]
    BY <1>1
  <2>2. \A i \in DOMAIN b : b[i] \in Blanks
    <3> HIDE DEF b
    <3> SUFFICES ASSUME NEW i \in 1 .. Len(separator) - p PROVE b[i] \in Blanks
      BY <2>1
    <3>1. p + 1 + i - 1 \in 1 .. Len(separator) /\ p + 1 + i - 1 # p
      BY <1>1
    <3>2. QED
      BY <1>5, <2>1, <3>1
  <2>3. SubSeq(rest, p + 1, Len(rest)) = b \o message
    <3> DEFINE r == SubSeq(rest, p + 1, Len(rest))
               u == b \o message
    <3>1. /\ r \in Seq(STRING) /\ Len(r) = Len(rest) - p
          /\ \A i \in 1 .. Len(rest) - p : r[i] = rest[p + i]
      BY <1>1, <1>3
    <3>2. /\ u \in Seq(STRING) /\ Len(u) = Len(b) + Len(message)
          /\ \A i \in 1 .. Len(b) : u[i] = b[i]
          /\ \A i \in Len(b) + 1 .. Len(b) + Len(message) : u[i] = message[i - Len(b)]
      <4> HIDE DEF b
      <4>1. b \in Seq(STRING) /\ message \in Seq(STRING)
        BY <1>1, <2>1
      <4>2. u \in Seq(STRING) /\ Len(u) = Len(b) + Len(message)
        BY <4>1, Concat
      <4>3. \A i \in 1 .. Len(b) : u[i] = b[i]
        BY <4>1, Concat
      <4>4. \A i \in Len(b) + 1 .. Len(b) + Len(message) : u[i] = message[i - Len(b)]
        BY <4>1, Concat
      <4>5. QED
        BY <4>2, <4>3, <4>4
    <3> HIDE DEF r, u, b
    <3>3. \A i \in 1 .. Len(r) : r[i] = u[i]
      <4> SUFFICES ASSUME NEW i \in 1 .. Len(r) PROVE r[i] = u[i]
        OBVIOUS
      <4>1. r[i] = rest[p + i] /\ i \in 1 .. Len(u)
        BY <1>1, <1>3, <2>1, <3>1, <3>2
      <4>2. rest[p + i] = IF p + i <= Len(separator) THEN separator[p + i]
                          ELSE message[p + i - Len(separator)]
        <5>1. p + i \in 1 .. Len(separator) + Len(message)
          BY <1>1, <1>3, <3>1
        <5>2. QED
          BY <1>1, <5>1, ConcatProperties DEF rest
      <4>3. CASE i <= Len(separator) - p
        <5>1. u[i] = b[i] /\ i \in 1 .. Len(separator) - p
          BY <1>1, <2>1, <3>2, <4>1, <4>3
        <5>2. b[i] = separator[p + i]
          <6>1. b[i] = separator[p + 1 + i - 1]
            BY <2>1, <5>1
          <6>2. p + 1 + i - 1 = p + i
            BY <1>1, <5>1
          <6>3. QED
            BY <6>1, <6>2
        <5>3. QED
          BY <1>1, <4>1, <4>2, <4>3, <5>1, <5>2
      <4>4. CASE i > Len(separator) - p
        <5>1. u[i] = message[i - (Len(separator) - p)]
          BY <1>1, <2>1, <3>2, <4>1, <4>4
        <5>2. i - (Len(separator) - p) = p + i - Len(separator)
          BY <1>1
        <5>3. QED
          BY <1>1, <4>1, <4>2, <4>4, <5>1, <5>2
      <4>5. QED
        BY <1>1, <4>3, <4>4
    <3>4. Len(r) = Len(u)
      BY <1>1, <1>3, <2>1, <3>1, <3>2
    <3>5. r = u
      BY <3>1, <3>2, <3>3, <3>4, SeqEqual
    <3>6. QED
      BY <3>5 DEF r, u
  <2> HIDE DEF b
  <2>4. QED
    BY <1>1, <2>1, <2>2, <2>3, BlanksInFront
<1>12. n \in Ends(t)
  <2>1. OnOneLine(Before(t, n))
    <3>1. n - 1 \in Nat /\ Len(Before(t, n)) = n - 1
          /\ \A i \in 1 .. n - 1 : Before(t, n)[i] = object[i]
      BY <1>1, <1>6 DEF Before
    <3>2. DOMAIN Before(t, n) = 1 .. n - 1
      BY <1>1, <1>6 DEF Before
    <3>3. \A i \in 1 .. n - 1 : object[i] # LineBreak
      BY <1>1, <1>2
    <3>4. QED
      BY <3>1, <3>2, <3>3 DEF OnOneLine, ToSet
  <2>2. Prefixed(Unindented(After(t, n)))
    BY <1>7, <1>10, <1>11 DEF Prefixed, IsMessage
  <2>3. n \in 2 .. Len(t) /\ t[1] = Open /\ t[n] = Close
    BY <1>1, <1>3, <1>6
  <2>4. QED
    BY <2>1, <2>2, <2>3 DEF Ends
<1>13. ASSUME NEW k \in Ends(t), k < n
       PROVE  FALSE
  <2>1. k \in 2 .. Len(t) /\ Prefixed(Unindented(After(t, k)))
    BY DEF Ends
  <2> DEFINE a == After(t, k)
  <2>2. /\ a \in Seq(STRING) /\ Len(a) = Len(t) - k /\ Len(t) - k \in Nat
        /\ \A i \in 1 .. Len(t) - k : a[i] = t[k + i]
    <3> HIDE DEF t
    <3>1. Len(t) \in Nat /\ k \in Nat /\ k + 1 \in Int /\ \A i \in k + 1 .. Len(t) : t[i] \in STRING
      BY <1>1, <1>6, <2>1
    <3>2. QED
      BY <2>1, <3>1, SubSeqProperties DEF After
  <2> HIDE DEF a, t
  <2>3. n - k \in 1 .. Len(a) /\ a[n - k] = Close
    <3>1. n - k \in 1 .. Len(t) - k /\ k + (n - k) = n /\ n \in 1 .. n
      BY <1>1, <1>3, <1>6, <1>13, <2>1
    <3>2. QED
      BY <1>1, <1>6, <2>2, <3>1
  <2>4. PICK f \in 1 .. Len(a) + 1 :
           /\ \A i \in 1 .. f - 1 : a[i] \in Blanks
           /\ f = Len(a) + 1 \/ a[f] \notin Blanks
    BY <2>2, FirstOfText
  <2>5. f \in 1 .. n - k
    <3> SUFFICES ASSUME f > n - k PROVE FALSE
      BY <1>1, <2>1, <2>2
    <3>1. n - k \in 1 .. f - 1
      BY <1>1, <2>1, <2>2, <2>3
    <3>2. QED
      <4>1. Close \notin Blanks
        BY DEF Blanks, Space, LineBreak, Close
      <4>2. a[n - k] \in Blanks
        BY <2>4, <3>1
      <4>3. QED
        BY <2>3, <4>1, <4>2
  <2>6. Unindented(a) = SubSeq(a, f, Len(a))
    <3>1. a \in Seq(STRING)
      BY <2>2
    <3>2. f = Len(a) + 1 \/ a[f] \notin Blanks
      BY <2>4
    <3>3. \A i \in 1 .. f - 1 : a[i] \in Blanks
      BY <2>4
    <3>4. QED
      BY <3>1, <3>2, <3>3, UnindentedFrom
  <2>7. Head(SubSeq(a, f, Len(a))) = a[f]
    <3>1. f \in 1 .. Len(a) /\ Len(a) \in f .. Len(a)
      BY <1>1, <2>1, <2>2, <2>3, <2>5
    <3>2. QED
      BY <2>2, <3>1, HeadTailOfSubSeq
  <2>8. a[f] = object[k + f] /\ k + f \in 1 .. n
    <3>1. k + f \in 1 .. n /\ f \in 1 .. Len(t) - k
      BY <1>1, <2>1, <2>2, <2>3, <2>5
    <3>2. QED
      BY <1>6, <2>2, <3>1
  <2>9. QED
    BY <1>2, <2>1, <2>6, <2>7, <2>8 DEF Prefixed, a
<1>14. Ends(t) \subseteq Nat
  BY <1>6 DEF Ends
<1> HIDE DEF t
<1>15. Min(Ends(t)) = n
  <2>1. \A k \in Ends(t) : n <= k
    BY <1>1, <1>13, <1>14
  <2>2. QED
    BY <1>12, <1>14, <2>1, MinIs
<1>16. QED
  BY <1>4, <1>7, <1>8, <1>10, <1>11, <1>12, <1>15

(* So the identity is found in front of any message, and the message is    *)
(* what remains.                                                           *)
LEMMA Extraction ==
    ASSUME NEW object \in JsonObjects, NEW separator \in Separators,
           NEW message \in Messages
    PROVE  Extracted(object \o separator \o message) =
               [identity |-> CHOOSE x \in Unmarshal(object) : TRUE,
                message |-> Unindented(message)]
<1>1. IsJsonObject(object) /\ IsSeparator(separator) /\ IsMessage(message)
  BY TextsAssumption
<1> DEFINE t == object \o separator \o message
<1>2. /\ Ends(t) # {} /\ Min(Ends(t)) = Len(object) /\ Before(t, Len(object) + 1) = object
      /\ Unindented(Tail(Unindented(After(t, Len(object))))) = Unindented(message)
  BY <1>1, GroupIsTheObject
<1>3. Unmarshal(object) # {}
  BY <1>1 DEF IsJsonObject
<1> HIDE DEF t
<1>4. Extracted(t) = [identity |-> CHOOSE x \in Unmarshal(object) : TRUE,
                      message |-> Unindented(message)]
  BY <1>2, <1>3 DEF Extracted
<1>5. QED
  BY <1>4 DEF t

-----------------------------------------------------------------------------
(* A recursive function that is defined from the end of a text is there,   *)
(* and any that satisfies the equation has texts as its values.            *)
Chain(f, from, l, head, next) ==
    /\ f[l + 1] = <<>>
    /\ \A i \in from .. l : f[i] = head[i] \o f[next[i]]

LEMMA ChainExtends ==
    ASSUME NEW S, NEW l \in Nat,
           NEW head \in [1 .. l -> Seq(S)], NEW next \in [1 .. l -> 1 .. l + 1],
           \A i \in 1 .. l : i < next[i],
           NEW m \in 1 .. l, NEW f \in [m + 1 .. l + 1 -> Seq(S)],
           Chain(f, m + 1, l, head, next)
    PROVE  \E g \in [m .. l + 1 -> Seq(S)] : Chain(g, m, l, head, next)
<1> DEFINE g == [i \in m .. l + 1 |-> IF i = m THEN head[m] \o f[next[m]] ELSE f[i]]
<1>1. next[m] \in m + 1 .. l + 1
  BY next[m] \in 1 .. l + 1, m < next[m]
<1>2. head[m] \in Seq(S) /\ f[next[m]] \in Seq(S)
  BY <1>1
<1>3. head[m] \o f[next[m]] \in Seq(S)
  BY <1>2, Concat
<1>4. g \in [m .. l + 1 -> Seq(S)]
  <2> SUFFICES ASSUME NEW i \in m .. l + 1 PROVE g[i] \in Seq(S)
    OBVIOUS
  <2>1. i = m \/ i \in m + 1 .. l + 1
    OBVIOUS
  <2>2. QED
    BY <1>3, <2>1
<1>5. g[m] = head[m] \o f[next[m]] /\ \A i \in m + 1 .. l + 1 : g[i] = f[i]
  OBVIOUS
<1> HIDE DEF g
<1>6. ASSUME NEW i \in m .. l
      PROVE  g[i] = head[i] \o g[next[i]]
  <2>1. CASE i = m
    <3>1. g[next[m]] = f[next[m]]
      BY <1>1, <1>5
    <3>2. QED
      BY <1>5, <2>1, <3>1
  <2>2. CASE i # m
    <3>1. i \in m + 1 .. l /\ i \in 1 .. l
      BY <2>2
    <3>2. next[i] \in 1 .. l + 1 /\ i < next[i]
      BY <3>1
    <3>3. next[i] \in m + 1 .. l + 1 /\ i \in m + 1 .. l + 1
      BY <3>1, <3>2
    <3>4. f[i] = head[i] \o f[next[i]]
      BY <3>1 DEF Chain
    <3>5. g[i] = f[i] /\ g[next[i]] = f[next[i]]
      BY <1>5, <3>3
    <3>6. QED
      BY <3>4, <3>5
  <2>3. QED
    BY <2>1, <2>2
<1>7. g[l + 1] = <<>>
  <2>1. f[l + 1] = <<>>
    BY DEF Chain
  <2>2. l + 1 \in m + 1 .. l + 1
    OBVIOUS
  <2>3. QED
    BY <1>5, <2>1, <2>2
<1>8. QED
  BY <1>4, <1>6, <1>7 DEF Chain

LEMMA ChainExists ==
    ASSUME NEW S, NEW l \in Nat,
           NEW head \in [1 .. l -> Seq(S)], NEW next \in [1 .. l -> 1 .. l + 1],
           \A i \in 1 .. l : i < next[i]
    PROVE  \E f \in [1 .. l + 1 -> Seq(S)] : Chain(f, 1, l, head, next)
<1> DEFINE Exists(m) == \E f \in [m .. l + 1 -> Seq(S)] : Chain(f, m, l, head, next)
           Done == {k \in Nat : k <= l => Exists(l + 1 - k)}
<1>1. Exists(l + 1 - 0)
  <2> DEFINE f == [i \in l + 1 .. l + 1 |-> <<>>]
  <2>1. f \in [l + 1 .. l + 1 -> Seq(S)] /\ f[l + 1] = <<>> /\ l + 1 .. l = {}
    OBVIOUS
  <2> HIDE DEF f
  <2>2. Chain(f, l + 1, l, head, next)
    BY <2>1 DEF Chain
  <2>3. Exists(l + 1)
    BY <2>1, <2>2
  <2>4. l + 1 - 0 = l + 1
    OBVIOUS
  <2> HIDE DEF Exists
  <2>5. QED
    BY <2>3, <2>4
<1>2. ASSUME NEW k \in Nat, k + 1 <= l, Exists(l + 1 - k)
      PROVE  Exists(l + 1 - (k + 1))
  <2> DEFINE m == l - k
  <2>1. m \in 1 .. l /\ l + 1 - k = m + 1 /\ l + 1 - (k + 1) = m
    BY <1>2
  <2> HIDE DEF m
  <2>2. Exists(m + 1)
    <3> HIDE DEF Exists
    <3>1. QED
      BY <1>2, <2>1
  <2>3. Exists(m)
    BY <2>1, <2>2, ChainExtends
  <2> HIDE DEF Exists
  <2>4. QED
    BY <2>1, <2>3
<1> HIDE DEF Exists
<1>3. 0 \in Done /\ \A k \in Nat : k \in Done => k + 1 \in Done
  BY <1>1, <1>2
<1>4. Exists(l + 1 - l)
  <2> HIDE DEF Done
  <2>1. l \in Done
    BY <1>3, SetInduction
  <2>2. QED
    BY <2>1 DEF Done
<1>5. Exists(1)
  <2>1. l + 1 - l = 1
    OBVIOUS
  <2>2. QED
    BY <1>4, <2>1
<1>6. QED
  BY <1>5 DEF Exists

LEMMA ChainTyped ==
    ASSUME NEW S, NEW l \in Nat,
           NEW head \in [1 .. l -> Seq(S)], NEW next \in [1 .. l -> 1 .. l + 1],
           \A i \in 1 .. l : i < next[i],
           NEW f, Chain(f, 1, l, head, next)
    PROVE  \A i \in 1 .. l + 1 : f[i] \in Seq(S)
<1> DEFINE Done == {k \in Nat : \A i \in 1 .. l + 1 : i >= l + 1 - k => f[i] \in Seq(S)}
<1>1. 0 \in Done
  <2>1. f[l + 1] = <<>>
    BY DEF Chain
  <2>2. \A i \in 1 .. l + 1 : i >= l + 1 - 0 => i = l + 1
    OBVIOUS
  <2>3. <<>> \in Seq(S)
    OBVIOUS
  <2>4. QED
    BY <2>1, <2>2, <2>3
<1>2. ASSUME NEW k \in Nat, k \in Done
      PROVE  k + 1 \in Done
  <2> SUFFICES ASSUME NEW i \in 1 .. l + 1, i >= l + 1 - (k + 1)
               PROVE  f[i] \in Seq(S)
    OBVIOUS
  <2>1. CASE i > l
    <3>1. i = l + 1 /\ f[l + 1] = <<>> /\ <<>> \in Seq(S)
      BY <2>1 DEF Chain
    <3>2. QED
      BY <3>1
  <2>2. CASE i <= l
    <3>0. i \in 1 .. l
      BY <2>2
    <3>1. i \in 1 .. l /\ f[i] = head[i] \o f[next[i]]
      BY <3>0, Zenon DEF Chain
    <3>2. next[i] \in 1 .. l + 1 /\ i < next[i] /\ head[i] \in Seq(S)
      BY <3>1
    <3>3. next[i] >= l + 1 - k
      BY <3>2
    <3>4. f[next[i]] \in Seq(S)
      BY <1>2, <3>2, <3>3
    <3>5. QED
      BY <3>1, <3>2, <3>4, Concat
  <2>3. QED
    BY <2>1, <2>2
<1>3. l \in Done
  <2> HIDE DEF Done
  <2>1. QED
    BY <1>1, <1>2, SetInduction
<1>4. \A i \in 1 .. l + 1 : i >= l + 1 - l
  OBVIOUS
<1>5. QED
  BY <1>3, <1>4

(* What targets are made of.                                               *)
Character == STRING \cup Digits \cup {"$"}

LEMMA TextTyped ==
    /\ \A t : t \in Seq(STRING) => t \in Seq(Character)
    /\ \A t : t \in Seq(Digits) => t \in Seq(Character)
    /\ "$" \in Character /\ "$" \notin Digits
<1>1. STRING \subseteq Character /\ Digits \subseteq Character /\ "$" \in Character
  BY DEF Character
<1>2. "$" \notin Digits
  BY DEF Digits
<1>3. ASSUME NEW t, t \in Seq(STRING)
      PROVE  t \in Seq(Character)
  BY <1>1, <1>3, SeqMonotonic
<1>4. ASSUME NEW t, t \in Seq(Digits)
      PROVE  t \in Seq(Character)
  BY <1>1, <1>4, SeqMonotonic
<1>5. QED
  BY <1>1, <1>2, <1>3, <1>4

LEMMA Single ==
    ASSUME NEW S, NEW c \in S
    PROVE  <<c>> \in Seq(S) /\ Len(<<c>>) = 1 /\ <<c>>[1] = c
OBVIOUS

(* The texts that remain, and what becomes of them.                        *)
Expands(From, t, match) ==
    /\ From \in [1 .. Len(t) + 1 -> Seq(Character)]
    /\ From[Len(t) + 1] = <<>>
    /\ \A i \in 1 .. Len(t) :
          From[i] = IF IsPlaceholder(t, i)
                    THEN Replacement(SubSeq(t, i, EndOfPlaceholder(t, i)), match)
                            \o From[EndOfPlaceholder(t, i) + 1]
                    ELSE <<t[i]>> \o From[i + 1]

IsMatch(match) == \A n \in DOMAIN match : match[n] \in Seq(Character)

LEMMA EndOfPlaceholderTyped ==
    ASSUME NEW t \in Seq(Character), NEW i \in 1 .. Len(t), IsPlaceholder(t, i)
    PROVE  EndOfPlaceholder(t, i) \in i + 1 .. Len(t)
<1> DEFINE I == {j \in i + 1 .. Len(t) : j = Len(t) \/ t[j + 1] \notin Digits \ {"0"}}
<1>1. i < Len(t) /\ Len(t) \in Nat
  BY DEF IsPlaceholder
<1>2. I \subseteq Nat /\ I \subseteq i + 1 .. Len(t) /\ Len(t) \in I
  BY <1>1
<1>3. Min(I) \in I
  <2> HIDE DEF I
  <2>1. QED
    BY <1>2, MinIsLeast
<1>4. QED
  BY <1>2, <1>3 DEF EndOfPlaceholder

LEMMA ExpandedFrom ==
    ASSUME NEW t \in Seq(Character), NEW match, IsMatch(match)
    PROVE  \E From : Expands(From, t, match) /\ Expanded(t, match) = From[1]
<1> DEFINE l == Len(t)
           End(i) == EndOfPlaceholder(t, i)
           Value1(i) == Replacement(SubSeq(t, i, End(i)), match)
           head == [i \in 1 .. l |-> IF IsPlaceholder(t, i) THEN Value1(i) ELSE <<t[i]>>]
           next == [i \in 1 .. l |-> IF IsPlaceholder(t, i) THEN End(i) + 1 ELSE i + 1]
           Body(f, i) == IF i > l THEN <<>>
                         ELSE IF IsPlaceholder(t, i) THEN Value1(i) \o f[End(i) + 1]
                         ELSE <<t[i]>> \o f[i + 1]
           Equation(f) == f = [i \in 1 .. l + 1 |-> Body(f, i)]
           From == CHOOSE f : Equation(f)
<1>1. l \in Nat
  OBVIOUS
<1>2. ASSUME NEW i \in 1 .. l, IsPlaceholder(t, i)
      PROVE  End(i) \in i + 1 .. l /\ Value1(i) \in Seq(Character)
  <2>1. End(i) \in i + 1 .. l
    BY <1>2, EndOfPlaceholderTyped
  <2> DEFINE p == SubSeq(t, i, End(i))
  <2>2. p \in Seq(Character)
    BY <1>1, <2>1
  <2> HIDE DEF p
  <2>3. Replacement(p, match) \in Seq(Character)
    BY <2>2 DEF Replacement, IsMatch
  <2>4. QED
    BY <2>1, <2>3 DEF p
<1> HIDE DEF End, Value1
<1>3. head \in [1 .. l -> Seq(Character)] /\ next \in [1 .. l -> 1 .. l + 1]
      /\ \A i \in 1 .. l : i < next[i]
  <2> SUFFICES ASSUME NEW i \in 1 .. l
               PROVE  head[i] \in Seq(Character) /\ next[i] \in 1 .. l + 1 /\ i < next[i]
    OBVIOUS
  <2>1. CASE IsPlaceholder(t, i)
    <3>1. head[i] = Value1(i) /\ next[i] = End(i) + 1
      BY <2>1
    <3>2. QED
      BY <1>1, <1>2, <2>1, <3>1
  <2>2. CASE ~IsPlaceholder(t, i)
    <3>1. head[i] = <<t[i]>> /\ next[i] = i + 1
      BY <2>2
    <3>2. t[i] \in Character
      BY <1>1, ElementOfSeq
    <3>3. <<t[i]>> \in Seq(Character)
      BY <3>2
    <3> HIDE DEF head, next
    <3>4. i + 1 \in 1 .. l + 1 /\ i < i + 1
      BY <1>1
    <3>5. QED
      BY <3>1, <3>3, <3>4
  <2>3. QED
    BY <2>1, <2>2
<1>4. \A i \in 1 .. l : /\ IsPlaceholder(t, i) => head[i] = Value1(i) /\ next[i] = End(i) + 1
                        /\ ~IsPlaceholder(t, i) => head[i] = <<t[i]>> /\ next[i] = i + 1
  OBVIOUS
<1> HIDE DEF head, next, l
<1>5. /\ \A f : Body(f, l + 1) = <<>>
      /\ \A f : \A i \in 1 .. l : Body(f, i) = head[i] \o f[next[i]]
  <2>1. l + 1 > l /\ \A i \in 1 .. l : ~(i > l)
    BY <1>1
  <2>2. ASSUME NEW f, NEW i \in 1 .. l
        PROVE  Body(f, i) = head[i] \o f[next[i]]
    <3>1. CASE IsPlaceholder(t, i)
      BY <1>4, <2>1, <3>1
    <3>2. CASE ~IsPlaceholder(t, i)
      BY <1>4, <2>1, <3>2
    <3>3. QED
      BY <3>1, <3>2
  <2>3. QED
    BY <2>1, <2>2
<1> HIDE DEF Body
<1>6. \E f : Equation(f)
  <2>1. PICK f \in [1 .. l + 1 -> Seq(Character)] : Chain(f, 1, l, head, next)
    BY <1>1, <1>3, ChainExists
  <2>2. ASSUME NEW i \in 1 .. l + 1
        PROVE  f[i] = Body(f, i)
    <3>1. i = l + 1 \/ i \in 1 .. l
      BY <1>1
    <3>2. QED
      BY <1>5, <2>1, <3>1 DEF Chain
  <2>3. f = [i \in 1 .. l + 1 |-> Body(f, i)]
    BY <2>2
  <2>4. QED
    BY <2>3
<1>7. Equation(From)
  <2> HIDE DEF Equation
  <2>1. QED
    BY <1>6, Zenon
<1>8. Expanded(t, match) = From[1]
  BY DEF Expanded, Body, Value1, End, l
<1> HIDE DEF From
<1>9. Chain(From, 1, l, head, next)
  <2>1. l + 1 \in 1 .. l + 1 /\ \A i \in 1 .. l : i \in 1 .. l + 1
    BY <1>1
  <2>2. \A i \in 1 .. l + 1 : From[i] = Body(From, i)
    BY <1>7
  <2>3. QED
    BY <1>5, <2>1, <2>2 DEF Chain
<1>10. \A i \in 1 .. l + 1 : From[i] \in Seq(Character)
  BY <1>1, <1>3, <1>9, ChainTyped
<1>11. From \in [1 .. l + 1 -> Seq(Character)]
  <2>1. From = [i \in 1 .. l + 1 |-> From[i]]
    BY <1>7
  <2>2. QED
    BY <1>10, <2>1
<1>12. From[l + 1] = <<>>
  BY <1>9 DEF Chain
<1>13. ASSUME NEW i \in 1 .. l
       PROVE  From[i] = IF IsPlaceholder(t, i) THEN Value1(i) \o From[End(i) + 1]
                        ELSE <<t[i]>> \o From[i + 1]
  <2>1. From[i] = head[i] \o From[next[i]]
    BY <1>9 DEF Chain
  <2>2. QED
    BY <1>4, <2>1
<1>14. Expands(From, t, match)
  BY <1>11, <1>12, <1>13 DEF Expands, Value1, End, l
<1>15. QED
  BY <1>8, <1>14

-----------------------------------------------------------------------------
(* What FlattenSeq makes of the first texts of a list.  Concatenation has a*)
(* name so that it stays opaque.                                           *)
Joined(a, b) == a \o b

LEMMA JoinedTyped ==
    ASSUME NEW S, NEW a \in Seq(S), NEW b \in Seq(S)
    PROVE  Joined(a, b) \in Seq(S)
BY Concat DEF Joined

FlattensTo(f, k, seqs, S) ==
    /\ f \in [0 .. k -> Seq(S)]
    /\ f[0] = <<>>
    /\ \A i \in 1 .. k : f[i] = Joined(f[i - 1], seqs[i])

Flattens(f, seqs, S) == FlattensTo(f, Len(seqs), seqs, S)

LEMMA FlattensExists ==
    ASSUME NEW S, NEW seqs \in Seq(Seq(S))
    PROVE  \E f : Flattens(f, seqs, S)
<1> DEFINE l == Len(seqs)
           Exists(k) == \E f : FlattensTo(f, k, seqs, S)
           Done == {k \in Nat : k <= l => Exists(k)}
<1>1. l \in Nat /\ \A i \in 1 .. l : seqs[i] \in Seq(S)
  OBVIOUS
<1> HIDE DEF l
<1>2. \E f : FlattensTo(f, 0, seqs, S)
  <2> DEFINE f == [i \in 0 .. 0 |-> <<>>]
  <2>1. f \in [0 .. 0 -> Seq(S)] /\ f[0] = <<>> /\ 1 .. 0 = {}
    OBVIOUS
  <2> HIDE DEF f
  <2>2. QED
    BY <2>1 DEF FlattensTo
<1>3. ASSUME NEW k \in Nat, k + 1 <= l, NEW f, FlattensTo(f, k, seqs, S)
      PROVE  \E g : FlattensTo(g, k + 1, seqs, S)
  <2> DEFINE last == Joined(f[k], seqs[k + 1])
             g == [i \in 0 .. k + 1 |-> IF i = k + 1 THEN last ELSE f[i]]
  <2>0. /\ f \in [0 .. k -> Seq(S)] /\ f[0] = <<>>
        /\ \A i \in 1 .. k : f[i] = Joined(f[i - 1], seqs[i])
    BY <1>3 DEF FlattensTo
  <2>1. last \in Seq(S)
    <3>1. f[k] \in Seq(S) /\ seqs[k + 1] \in Seq(S)
      BY <1>1, <1>3, <2>0
    <3>2. QED
      BY <3>1, JoinedTyped
  <2>2. g[k + 1] = last /\ \A i \in 0 .. k : g[i] = f[i]
    OBVIOUS
  <2>3. g \in [0 .. k + 1 -> Seq(S)]
    <3> HIDE DEF last
    <3> SUFFICES ASSUME NEW i \in 0 .. k + 1 PROVE g[i] \in Seq(S)
      OBVIOUS
    <3>1. i = k + 1 \/ i \in 0 .. k
      OBVIOUS
    <3>2. QED
      BY <2>0, <2>1, <3>1
  <2> HIDE DEF g
  <2>4. \A i \in 1 .. k + 1 : g[i] = Joined(g[i - 1], seqs[i])
    <3> SUFFICES ASSUME NEW i \in 1 .. k + 1 PROVE g[i] = Joined(g[i - 1], seqs[i])
      OBVIOUS
    <3>1. i = k + 1 \/ i \in 1 .. k
      OBVIOUS
    <3>2. i - 1 \in 0 .. k
      OBVIOUS
    <3>3. CASE i = k + 1
      BY <2>2, <3>2, <3>3
    <3>4. CASE i \in 1 .. k
      <4>1. f[i] = Joined(f[i - 1], seqs[i])
        BY <2>0, <3>4
      <4>2. g[i] = f[i] /\ g[i - 1] = f[i - 1]
        BY <2>2, <3>2, <3>4
      <4>3. QED
        BY <4>1, <4>2
    <3>5. QED
      BY <3>1, <3>3, <3>4
  <2>5. g[0] = <<>>
    BY <2>0, <2>2
  <2>6. QED
    BY <2>3, <2>4, <2>5 DEF FlattensTo
<1>4. 0 \in Done /\ \A k \in Nat : k \in Done => k + 1 \in Done
  <2>1. Exists(0)
    BY <1>2
  <2>2. ASSUME NEW k \in Nat, k + 1 <= l, Exists(k)
        PROVE  Exists(k + 1)
    BY <1>3, <2>2
  <2> HIDE DEF Exists
  <2>3. QED
    BY <1>1, <2>1, <2>2
<1>5. l \in Done
  <2> HIDE DEF Done
  <2>1. QED
    BY <1>1, <1>4, SetInduction
<1>6. QED
  BY <1>1, <1>5 DEF Flattens, l

LEMMA FlattenedBy ==
    ASSUME NEW S, NEW seqs \in Seq(Seq(S)), NEW f, Flattens(f, seqs, S)
    PROVE  FlattenSeq(seqs) = f[Len(seqs)]
<1> DEFINE l == Len(seqs)
<1>1. l \in Nat /\ f[0] = <<>>
      /\ \A i \in 1 .. l : seqs[i] \in Seq(S) /\ f[i - 1] \in Seq(S) /\ f[i] = Joined(f[i - 1], seqs[i])
  <2>1. l \in Nat /\ \A i \in 1 .. l : seqs[i] \in Seq(S)
    OBVIOUS
  <2> HIDE DEF l
  <2>2. /\ f \in [0 .. l -> Seq(S)] /\ f[0] = <<>>
        /\ \A i \in 1 .. l : f[i] = Joined(f[i - 1], seqs[i])
    BY DEF Flattens, FlattensTo, l
  <2>3. \A i \in 1 .. l : i - 1 \in 0 .. l
    BY <2>1
  <2>4. QED
    BY <2>1, <2>2, <2>3
<1>2. CASE l = 0
  <2>1. seqs = <<>>
    BY <1>2
  <2>2. QED
    BY <1>1, <1>2, <2>1 DEF FlattenSeq
<1>3. CASE l # 0
  <2> DEFINE Body(g, i) == IF i = 1 THEN seqs[i] ELSE Joined(g[i - 1], seqs[i])
             Equation(g) == g = [i \in 1 .. l |-> Body(g, i)]
             flatten == CHOOSE g : Equation(g)
  <2>1. \E g : Equation(g)
    <3> DEFINE g == [i \in 1 .. l |-> f[i]]
    <3>1. \A i \in 1 .. l : g[i] = f[i]
      OBVIOUS
    <3> HIDE DEF g
    <3>2. ASSUME NEW i \in 1 .. l
          PROVE  f[i] = Body(g, i)
      <4>1. CASE i = 1
        <5>1. f[i] = Joined(f[i - 1], seqs[i]) /\ i - 1 = 0 /\ seqs[1] \in Seq(S)
          BY <1>1, <4>1
        <5>2. f[1] = Joined(<<>>, seqs[1])
          BY <1>1, <4>1, <5>1
        <5>3. f[1] = seqs[1]
          BY <5>1, <5>2, ConcatEmptySeq DEF Joined
        <5>4. QED
          BY <4>1, <5>3
      <4>2. CASE i # 1
        <5>1. i - 1 \in 1 .. l /\ f[i] = Joined(f[i - 1], seqs[i])
          BY <1>1, <4>2
        <5>2. QED
          BY <3>1, <4>2, <5>1
      <4>3. QED
        BY <4>1, <4>2
    <3> HIDE DEF Body
    <3>3. g = [i \in 1 .. l |-> Body(g, i)]
      BY <3>1, <3>2 DEF g
    <3>4. QED
      BY <3>3
  <2>2. Equation(flatten)
    <3> HIDE DEF Equation
    <3>1. QED
      BY <2>1, Zenon
  <2>3. FlattenSeq(seqs) = flatten[l]
    BY <1>3 DEF FlattenSeq, Joined
  <2> HIDE DEF flatten, l
  <2>4. flatten = [i \in 1 .. l |-> Body(flatten, i)]
    BY <2>2
  <2> DEFINE Done == {k \in Nat : k + 1 <= l => flatten[k + 1] = f[k + 1]}
  <2>5. 0 \in Done
    <3>1. 1 \in 1 .. l
      BY <1>1, <1>3
    <3>2. flatten[1] = seqs[1]
      BY <2>4, <3>1
    <3>3. f[1] = Joined(<<>>, seqs[1]) /\ seqs[1] \in Seq(S)
      <4>1. f[1] = Joined(f[1 - 1], seqs[1]) /\ 1 - 1 = 0
        BY <1>1, <3>1
      <4>2. QED
        BY <1>1, <3>1, <4>1
    <3>4. f[1] = seqs[1]
      BY <3>3, ConcatEmptySeq DEF Joined
    <3>5. QED
      BY <3>2, <3>4
  <2>6. ASSUME NEW k \in Nat, k \in Done
        PROVE  k + 1 \in Done
    <3> SUFFICES ASSUME (k + 1) + 1 <= l PROVE flatten[(k + 1) + 1] = f[(k + 1) + 1]
      OBVIOUS
    <3> DEFINE i == (k + 1) + 1
    <3>1. i \in 1 .. l /\ i # 1 /\ i - 1 = k + 1 /\ k + 1 <= l
      BY <1>1
    <3>2. flatten[k + 1] = f[k + 1]
      BY <2>6, <3>1
    <3> HIDE DEF i
    <3>3. flatten[i] = Joined(flatten[i - 1], seqs[i])
      BY <2>4, <3>1
    <3>4. f[i] = Joined(f[i - 1], seqs[i])
      BY <1>1, <3>1
    <3>5. flatten[i] = f[i]
      BY <3>1, <3>2, <3>3, <3>4
    <3>6. QED
      BY <3>5 DEF i
  <2>7. l - 1 \in Done
    <3>1. l - 1 \in Nat
      BY <1>1, <1>3
    <3> HIDE DEF Done
    <3>2. QED
      BY <2>5, <2>6, <3>1, SetInduction
  <2>8. l - 1 + 1 = l /\ l - 1 + 1 <= l
    BY <1>1
  <2>9. QED
    BY <2>3, <2>7, <2>8 DEF l
<1>4. QED
  BY <1>2, <1>3

-----------------------------------------------------------------------------
(* How a piece of a target is taken.                                       *)
PieceAt(piece, t, s) ==
    /\ s \in Nat /\ s + Len(piece) <= Len(t)
    /\ \A i \in 1 .. Len(piece) : t[s + i] = piece[i]
    /\ s + Len(piece) < Len(t) => t[s + Len(piece) + 1] \notin Digits

LEMMA PieceTyped ==
    ASSUME NEW piece \in Pieces
    PROVE  /\ piece \in Seq(Character) /\ Len(piece) \in Nat \ {0}
           /\ piece[1] \in Character /\ piece[1] \notin Digits
<1>1. CASE piece \in TextPieces
  <2>1. piece \in Seq(Character) /\ piece # <<>> /\ piece[1] \notin Digits
    BY <1>1, TextsAssumption, TextTyped DEF IsText
  <2>2. Len(piece) \in Nat \ {0}
    BY <2>1, EmptySeq
  <2>3. QED
    BY <2>1, <2>2, ElementOfSeq
<1>2. ASSUME NEW n \in DOMAIN Decimal, piece = Placeholder(n)
      PROVE  /\ piece \in Seq(Character) /\ Len(piece) \in Nat \ {0}
             /\ piece[1] \in Character /\ piece[1] \notin Digits
  <2>1. Decimal[n] \in Seq(Digits)
    BY TextsAssumption DEF AreDigitsOf
  <2>2. "$" \in Character /\ "$" \notin Digits
    BY TextTyped
  <2>3. Decimal[n] \in Seq(Character)
    BY <2>1, TextTyped
  <2> DEFINE sign == <<"$">>
  <2>4. sign \in Seq(Character) /\ Len(sign) = 1 /\ sign[1] = "$"
    BY <2>2, Single
  <2> HIDE DEF sign
  <2>5. Len(Decimal[n]) \in Nat
    BY <2>1
  <2>6. piece = sign \o Decimal[n]
    BY <1>2 DEF Placeholder, sign
  <2>7. piece \in Seq(Character) /\ Len(piece) = 1 + Len(Decimal[n])
    BY <2>3, <2>4, <2>6, Concat
  <2>8. piece[1] = "$"
    BY <2>3, <2>4, <2>6, Concat
  <2>9. QED
    BY <2>2, <2>5, <2>7, <2>8
<1>3. QED
  BY <1>1, <1>2 DEF Pieces

LEMMA PlaceholderShape ==
    ASSUME NEW n \in DOMAIN Decimal
    PROVE  LET p == Placeholder(n)
           IN  /\ p \in Seq(Character) /\ Len(p) \in Nat /\ Len(p) > 1
               /\ p[1] = "$" /\ p[2] \in Digits
               /\ \A i \in 3 .. Len(p) : p[i] \in Digits \ {"0"}
               /\ Tail(p) = Decimal[n] /\ Value(Tail(p)) = n
<1> DEFINE d == Decimal[n]
           sign == <<"$">>
           p == sign \o d
<1>1. /\ d \in Seq(Digits) /\ d # <<>> /\ Value(d) = n
      /\ \A i \in DOMAIN d \ {1} : d[i] # "0"
  BY TextsAssumption DEF AreDigitsOf
<1>2. "$" \in Character
  BY TextTyped
<1>3. sign \in Seq(Character) /\ Len(sign) = 1 /\ sign[1] = "$"
  BY <1>2, Single
<1>4. d \in Seq(Character)
  BY <1>1, TextTyped
<1>5. Tail(p) = d
  <2> HIDE DEF d
  <2>1. p \in Seq(Character) /\ p # <<>>
    BY <1>2, <1>4
  <2>2. QED
    BY <1>4, <2>1
<1> HIDE DEF d
<1>6. Len(d) \in Nat \ {0} /\ DOMAIN d = 1 .. Len(d)
  BY <1>1, EmptySeq
<1> HIDE DEF sign
<1>7. p \in Seq(Character) /\ Len(p) = 1 + Len(d)
  <2>1. sign \o d \in Seq(Character) /\ Len(sign \o d) = Len(sign) + Len(d)
    BY <1>3, <1>4, Concat
  <2>2. QED
    BY <1>3, <2>1
<1>8. p[1] = "$"
  BY <1>3, <1>4, Concat
<1>9. \A i \in 1 .. Len(d) : p[1 + i] = d[i]
  <2> SUFFICES ASSUME NEW i \in 1 .. Len(d) PROVE p[1 + i] = d[i]
    OBVIOUS
  <2>1. 1 + i \in Len(sign) + 1 .. Len(sign) + Len(d) /\ 1 + i - Len(sign) = i
    BY <1>3, <1>6
  <2>2. (sign \o d)[1 + i] = d[1 + i - Len(sign)]
    BY <1>3, <1>4, <2>1, Concat
  <2>3. QED
    BY <2>1, <2>2
<1> HIDE DEF p
<1>10. p[2] \in Digits
  <2>1. 1 \in 1 .. Len(d) /\ 1 + 1 = 2
    BY <1>6
  <2>2. p[2] = d[1] /\ d[1] \in Digits
    BY <1>1, <1>9, <2>1, ElementOfSeq
  <2>3. QED
    BY <2>2
<1>11. ASSUME NEW i \in 3 .. Len(p)
       PROVE  p[i] \in Digits \ {"0"}
  <2>1. i - 1 \in 1 .. Len(d) /\ 1 + (i - 1) = i /\ i - 1 # 1
    BY <1>6, <1>7
  <2>2. p[i] = d[i - 1] /\ d[i - 1] \in Digits /\ d[i - 1] # "0"
    BY <1>1, <1>6, <1>9, <2>1, ElementOfSeq
  <2>3. QED
    BY <2>2
<1>12. Placeholder(n) = p
  BY DEF Placeholder, p, sign, d
<1>13. Len(p) \in Nat /\ Len(p) > 1
  BY <1>6, <1>7
<1>14. QED
  BY <1>1, <1>5, <1>7, <1>8, <1>10, <1>11, <1>12, <1>13 DEF d

LEMMA ReplacedIs ==
    ASSUME NEW n \in DOMAIN Decimal, NEW match
    PROVE  Replaced(Placeholder(n), match) = Replacement(Placeholder(n), match)
<1> DEFINE p == Placeholder(n)
<1>1. \A k \in DOMAIN Decimal : p = Placeholder(k) => k = n
  <2> SUFFICES ASSUME NEW k \in DOMAIN Decimal, p = Placeholder(k) PROVE k = n
    OBVIOUS
  <2>1. Value(Tail(Placeholder(k))) = k /\ Value(Tail(Placeholder(n))) = n
    BY PlaceholderShape
  <2>2. QED
    BY <2>1
<1>2. Value(Tail(p)) = n
  BY PlaceholderShape
<1>3. (CHOOSE k \in DOMAIN Decimal : p = Placeholder(k)) = n
  BY <1>1
<1>4. (\E k \in DOMAIN Decimal \cap DOMAIN match : p = Placeholder(k)) <=> n \in DOMAIN match
  BY <1>1
<1> HIDE DEF p
<1>5. Replaced(p, match) = Replacement(p, match)
  BY <1>2, <1>3, <1>4 DEF Replaced, Replacement
<1>6. QED
  BY <1>5 DEF p

LEMMA PlaceholderTaken ==
    ASSUME NEW t \in Seq(Character), NEW match, NEW From, Expands(From, t, match),
           NEW n \in DOMAIN Decimal, NEW s, PieceAt(Placeholder(n), t, s)
    PROVE  From[s + 1] = Joined(Replaced(Placeholder(n), match),
                                From[s + Len(Placeholder(n)) + 1])
<1> DEFINE p == Placeholder(n)
           e == s + Len(p)
           I == {j \in s + 1 + 1 .. Len(t) : j = Len(t) \/ t[j + 1] \notin Digits \ {"0"}}
<1>1. /\ p \in Seq(Character) /\ Len(p) \in Nat /\ Len(p) > 1
      /\ p[1] = "$" /\ p[2] \in Digits
      /\ \A i \in 3 .. Len(p) : p[i] \in Digits \ {"0"}
  BY PlaceholderShape
<1>2. /\ s \in Nat /\ e <= Len(t) /\ Len(t) \in Nat
      /\ \A i \in 1 .. Len(p) : t[s + i] = p[i]
      /\ e < Len(t) => t[e + 1] \notin Digits
  BY DEF PieceAt
<1> HIDE DEF p
<1>3. IsPlaceholder(t, s + 1)
  <2>1. 1 \in 1 .. Len(p) /\ 2 \in 1 .. Len(p) /\ s + 1 + 1 = s + 2 /\ s + 1 < Len(t)
    BY <1>1, <1>2
  <2>2. t[s + 1] = "$" /\ t[s + 2] \in Digits
    BY <1>1, <1>2, <2>1
  <2>3. QED
    BY <2>1, <2>2 DEF IsPlaceholder
<1>4. e \in I
  <2>1. e \in s + 1 + 1 .. Len(t)
    BY <1>1, <1>2
  <2>2. e = Len(t) \/ t[e + 1] \notin Digits \ {"0"}
    BY <1>1, <1>2
  <2>3. QED
    BY <2>1, <2>2
<1>5. ASSUME NEW j \in I
      PROVE  e <= j
  <2> SUFFICES ASSUME j < e PROVE FALSE
    BY <1>1, <1>2
  <2>1. j \in s + 2 .. Len(t) /\ j # Len(t) /\ t[j + 1] \notin Digits \ {"0"}
    BY <1>1, <1>2
  <2>2. j + 1 - s \in 3 .. Len(p) /\ s + (j + 1 - s) = j + 1
    BY <1>1, <1>2, <2>1
  <2>3. t[j + 1] = p[j + 1 - s] /\ p[j + 1 - s] \in Digits \ {"0"}
    <3>1. j + 1 - s \in 1 .. Len(p)
      BY <1>1, <2>2
    <3>2. QED
      BY <1>1, <1>2, <2>2, <3>1
  <2>4. QED
    BY <2>1, <2>3
<1>6. EndOfPlaceholder(t, s + 1) = e
  <2>1. I \subseteq Nat
    BY <1>2
  <2>2. Min(I) = e
    <3> HIDE DEF I, e
    <3>1. QED
      BY <1>4, <1>5, <2>1, MinIs
  <2>3. QED
    BY <2>2 DEF EndOfPlaceholder
<1>7. SubSeq(t, s + 1, e) = p
  <2> DEFINE q == SubSeq(t, s + 1, e)
  <2>1. /\ q \in Seq(Character) /\ Len(q) = Len(p)
        /\ \A i \in 1 .. Len(p) : q[i] = t[s + i]
    <3>1. \A i \in s + 1 .. e : t[i] \in Character
      BY <1>1, <1>2, ElementOfSeq
    <3>2. /\ q \in Seq(Character) /\ Len(q) = e - (s + 1) + 1
          /\ \A i \in 1 .. e - (s + 1) + 1 : q[i] = t[s + 1 + i - 1]
      <4>1. s + 1 \in Int /\ e \in Int /\ s + 1 <= e
        BY <1>1, <1>2
      <4> HIDE DEF e
      <4>2. QED
        BY <3>1, <4>1, SubSeqProperties
    <3>3. e - (s + 1) + 1 = Len(p) /\ \A i \in 1 .. Len(p) : s + 1 + i - 1 = s + i
      BY <1>1, <1>2
    <3> HIDE DEF e, q
    <3>4. QED
      BY <3>2, <3>3
  <2> HIDE DEF q, e
  <2>2. \A i \in 1 .. Len(q) : q[i] = p[i]
    BY <1>2, <2>1
  <2>3. q = p
    BY <1>1, <2>1, <2>2, SeqEqual
  <2>4. QED
    BY <2>3 DEF q
<1>8. From[s + 1] = Joined(Replacement(p, match), From[e + 1])
  <2>1. s + 1 \in 1 .. Len(t)
    BY <1>1, <1>2
  <2> HIDE DEF e
  <2>2. From[s + 1] = Replacement(SubSeq(t, s + 1, EndOfPlaceholder(t, s + 1)), match)
                         \o From[EndOfPlaceholder(t, s + 1) + 1]
    BY <1>3, <2>1 DEF Expands
  <2>3. QED
    BY <1>6, <1>7, <2>2 DEF Joined
<1>9. Replaced(p, match) = Replacement(p, match)
  BY ReplacedIs DEF p
<1>10. QED
  BY <1>8, <1>9 DEF p

(* A piece of text is copied character by character.                       *)
LEMMA TextTaken ==
    ASSUME NEW t \in Seq(Character), NEW match, NEW From, Expands(From, t, match),
           NEW piece \in Seq(Character), Len(piece) > 0,
           \A i \in DOMAIN piece : ~IsPlaceholder(piece, i),
           NEW s, PieceAt(piece, t, s)
    PROVE  From[s + 1] = Joined(piece, From[s + Len(piece) + 1])
<1> DEFINE l == Len(piece)
<1>1. /\ s \in Nat /\ s + l <= Len(t) /\ Len(t) \in Nat /\ l \in Nat
      /\ DOMAIN piece = 1 .. l
      /\ \A i \in 1 .. l : t[s + i] = piece[i]
      /\ s + l < Len(t) => t[s + l + 1] \notin Digits
  BY DEF PieceAt
<1>2. \A i \in 1 .. Len(t) + 1 : From[i] \in Seq(Character)
  BY DEF Expands
<1> HIDE DEF l
<1>3. ASSUME NEW i \in 1 .. l
      PROVE  From[s + i] = Joined(<<piece[i]>>, From[s + i + 1])
  <2>1. s + i \in 1 .. Len(t) /\ t[s + i] = piece[i]
    BY <1>1
  <2>2. ~IsPlaceholder(t, s + i)
    <3> SUFFICES ASSUME IsPlaceholder(t, s + i) PROVE FALSE
      OBVIOUS
    <3>1. t[s + i] = "$" /\ s + i < Len(t) /\ t[s + i + 1] \in Digits
      BY DEF IsPlaceholder
    <3>2. i < l
      <4> SUFFICES ASSUME i = l PROVE FALSE
        BY <1>1
      <4>1. QED
        BY <1>1, <3>1
    <3>3. i + 1 \in 1 .. l /\ s + (i + 1) = s + i + 1
      BY <1>1, <3>2
    <3>4. piece[i + 1] = t[s + i + 1]
      BY <1>1, <3>3
    <3>5. IsPlaceholder(piece, i)
      BY <2>1, <3>1, <3>2, <3>4 DEF IsPlaceholder, l
    <3>6. QED
      BY <1>1, <3>5
  <2>3. From[s + i] = <<t[s + i]>> \o From[s + i + 1]
    BY <2>1, <2>2 DEF Expands
  <2>4. QED
    BY <2>1, <2>3 DEF Joined
<1> DEFINE front(k) == SubSeq(piece, 1, k)
           Done == {k \in Nat : k <= l => From[s + 1] = Joined(front(k), From[s + k + 1])}
<1>4. 0 \in Done
  <2>1. front(0) = <<>> /\ s + 0 + 1 = s + 1 /\ s + 1 \in 1 .. Len(t) + 1
    BY <1>1
  <2>2. From[s + 1] \in Seq(Character)
    BY <1>2, <2>1
  <2>3. From[s + 1] = Joined(<<>>, From[s + 1])
    BY <2>2, ConcatEmptySeq DEF Joined
  <2>4. QED
    BY <2>1, <2>3
<1>5. ASSUME NEW k \in Nat, k \in Done
      PROVE  k + 1 \in Done
  <2> SUFFICES ASSUME k + 1 <= l
               PROVE  From[s + 1] = Joined(front(k + 1), From[s + (k + 1) + 1])
    OBVIOUS
  <2>1. From[s + 1] = Joined(front(k), From[s + k + 1])
    BY <1>1, <1>5
  <2>2. k + 1 \in 1 .. l /\ s + (k + 1) = s + k + 1 /\ s + k + 1 + 1 \in 1 .. Len(t) + 1
    BY <1>1
  <2>3. From[s + k + 1] = Joined(<<piece[k + 1]>>, From[s + k + 1 + 1])
    BY <1>3, <2>2
  <2>4. piece[k + 1] \in Character /\ front(k) \in Seq(Character)
    <3>1. \A i \in 1 .. k : piece[i] \in Character
      BY <1>1, ElementOfSeq DEF l
    <3>2. front(k) \in Seq(Character)
      BY <3>1, SubSeqProperties
    <3>3. QED
      BY <2>2, <3>2, ElementOfSeq DEF l
  <2>5. front(k + 1) = front(k) \o <<piece[k + 1]>>
    <3>1. 1 \in 1 .. Len(piece) /\ k + 1 \in 1 .. Len(piece) /\ k + 1 - 1 = k
      BY <1>1, <2>2 DEF l
    <3>2. SubSeq(piece, 1, k + 1) = SubSeq(piece, 1, k + 1 - 1) \o <<piece[k + 1]>>
      BY <3>1, SubSeqRecursiveSecond
    <3>3. QED
      BY <3>1, <3>2
  <2> DEFINE c == <<piece[k + 1]>>
             rest == From[s + k + 1 + 1]
  <2>6. c \in Seq(Character) /\ rest \in Seq(Character)
    BY <1>2, <2>2, <2>4, Single
  <2> HIDE DEF front, c, rest
  <2>7. front(k) \o (c \o rest) = (front(k) \o c) \o rest
    <3> DEFINE a == front(k)
    <3>1. a \in Seq(Character)
      BY <2>4
    <3> HIDE DEF a
    <3>2. (a \o c) \o rest = a \o (c \o rest)
      BY <2>6, <3>1, ConcatAssociative
    <3>3. QED
      BY <3>2 DEF a
  <2>8. QED
    BY <2>1, <2>2, <2>3, <2>5, <2>7 DEF Joined, c, rest
<1>6. l \in Done
  <2> HIDE DEF Done
  <2>1. QED
    BY <1>1, <1>4, <1>5, SetInduction
<1>7. front(l) = piece
  BY SubSeqFull DEF l
<1>8. From[s + 1] = Joined(front(l), From[s + l + 1])
  <2> HIDE DEF front
  <2>1. QED
    BY <1>1, <1>6
<1> HIDE DEF front
<1>9. QED
  BY <1>7, <1>8 DEF l

(* Whatever a piece is, it is replaced as it should be.                    *)
LEMMA PieceTaken ==
    ASSUME NEW t \in Seq(Character), NEW match, NEW From, Expands(From, t, match),
           NEW piece \in Pieces, NEW s, PieceAt(piece, t, s)
    PROVE  From[s + 1] = Joined(Replaced(piece, match), From[s + Len(piece) + 1])
<1>1. CASE \E n \in DOMAIN Decimal : piece = Placeholder(n)
  BY <1>1, PlaceholderTaken
<1>2. CASE ~\E n \in DOMAIN Decimal : piece = Placeholder(n)
  <2>1. Replaced(piece, match) = piece
    BY <1>2 DEF Replaced
  <2>2. piece \in TextPieces
    BY <1>2 DEF Pieces
  <2>3. \A i \in DOMAIN piece : ~IsPlaceholder(piece, i)
    BY <2>2, TextsAssumption DEF IsText
  <2>4. piece \in Seq(Character) /\ Len(piece) > 0
    BY PieceTyped
  <2>5. QED
    BY <2>1, <2>3, <2>4, TextTaken
<1>3. QED
  BY <1>1, <1>2

LEMMA ReplacedTyped ==
    ASSUME NEW piece \in Pieces, NEW match, IsMatch(match)
    PROVE  Replaced(piece, match) \in Seq(Character)
<1>1. CASE \E n \in DOMAIN Decimal \cap DOMAIN match : piece = Placeholder(n)
  <2>1. PICK n \in DOMAIN Decimal : n \in DOMAIN match /\ piece = Placeholder(n)
    BY <1>1
  <2>2. Replaced(piece, match) = Replacement(piece, match)
    BY <2>1, ReplacedIs
  <2>3. piece \in Seq(Character)
    BY PieceTyped
  <2>4. QED
    BY <2>2, <2>3 DEF Replacement, IsMatch
<1>2. CASE ~\E n \in DOMAIN Decimal \cap DOMAIN match : piece = Placeholder(n)
  BY <1>2, PieceTyped DEF Replaced
<1>3. QED
  BY <1>1, <1>2

-----------------------------------------------------------------------------
(* Where the pieces of a target begin and end.                             *)
Extends(c, a, b, S) ==
    /\ a \in Seq(S) /\ b \in Seq(S) /\ c \in Seq(S)
    /\ c = Joined(a, b)
    /\ Len(a) \in Nat /\ Len(b) \in Nat /\ Len(c) = Len(a) + Len(b)
    /\ \A k \in 1 .. Len(a) : c[k] = a[k]
    /\ \A k \in 1 .. Len(b) : c[Len(a) + k] = b[k]

LEMMA JoinedExtends ==
    ASSUME NEW S, NEW a \in Seq(S), NEW b \in Seq(S)
    PROVE  Extends(Joined(a, b), a, b, S)
<1>1. Len(a) \in Nat /\ Len(b) \in Nat
  OBVIOUS
<1>2. /\ a \o b \in Seq(S) /\ Len(a \o b) = Len(a) + Len(b)
      /\ \A k \in 1 .. Len(a) : (a \o b)[k] = a[k]
  BY Concat
<1>3. ASSUME NEW k \in 1 .. Len(b)
      PROVE  (a \o b)[Len(a) + k] = b[k]
  <2>1. Len(a) + k \in Len(a) + 1 .. Len(a) + Len(b) /\ Len(a) + k - Len(a) = k
    BY <1>1
  <2>2. (a \o b)[Len(a) + k] = b[Len(a) + k - Len(a)]
    BY <2>1, Concat
  <2>3. QED
    BY <2>1, <2>2
<1>4. QED
  BY <1>1, <1>2, <1>3 DEF Extends, Joined

LEMMA FlattensSteps ==
    ASSUME NEW S, NEW seqs \in Seq(Seq(S)), NEW f, Flattens(f, seqs, S),
           NEW i \in 1 .. Len(seqs)
    PROVE  Extends(f[i], f[i - 1], seqs[i], S)
<1>1. Len(seqs) \in Nat /\ i - 1 \in 0 .. Len(seqs)
  OBVIOUS
<1>2. /\ f \in [0 .. Len(seqs) -> Seq(S)]
      /\ \A j \in 1 .. Len(seqs) : f[j] = Joined(f[j - 1], seqs[j])
  BY DEF Flattens, FlattensTo
<1>3. seqs[i] \in Seq(S)
  BY ElementOfSeq
<1>4. f[i - 1] \in Seq(S)
  BY <1>1, <1>2
<1>5. f[i] = Joined(f[i - 1], seqs[i])
  BY <1>2
<1>6. QED
  BY <1>3, <1>4, <1>5, JoinedExtends

StartsWith(t, a) == Len(a) <= Len(t) /\ \A k \in 1 .. Len(a) : t[k] = a[k]

LEMMA StartsTransitive ==
    ASSUME NEW t, NEW b, NEW a, Len(a) \in Nat, Len(b) \in Nat, Len(t) \in Nat,
           StartsWith(t, b), StartsWith(b, a)
    PROVE  StartsWith(t, a)
BY DEF StartsWith

LEMMA ExtendsStarts ==
    ASSUME NEW S, NEW a, NEW b, NEW c, Extends(c, a, b, S)
    PROVE  StartsWith(c, a)
BY DEF Extends, StartsWith

LEMMA StartsLonger ==
    ASSUME NEW S, NEW seqs \in Seq(Seq(S)), NEW f, Flattens(f, seqs, S),
           NEW j \in 1 .. Len(seqs)
    PROVE  StartsWith(f[j], f[j - 1])
<1>1. Extends(f[j], f[j - 1], seqs[j], S)
  BY FlattensSteps
<1>2. QED
  BY <1>1, ExtendsStarts

LEMMA FlattensPrefixes ==
    ASSUME NEW S, NEW seqs \in Seq(Seq(S)), NEW f, Flattens(f, seqs, S),
           NEW i \in 0 .. Len(seqs)
    PROVE  StartsWith(f[Len(seqs)], f[i])
<1> DEFINE Done == {m \in Nat : i <= m /\ m <= Len(seqs) => StartsWith(f[m], f[i])}
<1>1. f \in [0 .. Len(seqs) -> Seq(S)] /\ Len(seqs) \in Nat
  BY DEF Flattens, FlattensTo
<1>2. f[i] \in Seq(S) /\ Len(f[i]) \in Nat
  BY <1>1
<1>3. StartsWith(f[i], f[i])
  BY <1>2 DEF StartsWith
<1>4. 0 \in Done
  BY <1>3
<1>5. ASSUME NEW m \in Nat, m \in Done
      PROVE  m + 1 \in Done
  <2> SUFFICES ASSUME i <= m + 1, m + 1 <= Len(seqs)
               PROVE  StartsWith(f[m + 1], f[i])
    OBVIOUS
  <2>1. CASE i = m + 1
    BY <1>3, <2>1
  <2>2. CASE i # m + 1
    <3>1. i <= m
      BY <2>2
    <3>2. StartsWith(f[m], f[i])
      BY <1>1, <1>5, <3>1
    <3>3. QED
      <4> DEFINE j == m + 1
      <4>1. j \in 1 .. Len(seqs) /\ j - 1 = m /\ m \in 0 .. Len(seqs) /\ j \in 0 .. Len(seqs)
        BY <1>1
      <4> HIDE DEF j
      <4>2. f[j] \in Seq(S) /\ f[m] \in Seq(S)
        BY <1>1, <4>1
      <4>3. StartsWith(f[j], f[m])
        BY <4>1, StartsLonger
      <4>4. StartsWith(f[j], f[i])
        <5>1. Len(f[j]) \in Nat /\ Len(f[m]) \in Nat
          BY <4>2
        <5>2. QED
          BY <1>2, <3>2, <4>3, <5>1, StartsTransitive, Zenon
      <4>5. QED
        BY <4>4 DEF j
  <2>3. QED
    BY <2>1, <2>2
<1>6. Len(seqs) \in Done
  <2> HIDE DEF Done
  <2>1. QED
    BY <1>1, <1>4, <1>5, SetInduction
<1>7. QED
  BY <1>1, <1>6

LEMMA PlacedAt ==
    ASSUME NEW a, NEW b, NEW c, Extends(c, a, b, Character),
           NEW t, Len(t) \in Nat, StartsWith(t, c),
           Len(c) < Len(t) => t[Len(c) + 1] \notin Digits
    PROVE  PieceAt(b, t, Len(a))
<1>1. /\ Len(a) \in Nat /\ Len(b) \in Nat /\ Len(c) = Len(a) + Len(b)
      /\ \A k \in 1 .. Len(b) : c[Len(a) + k] = b[k]
  BY DEF Extends
<1>2. /\ Len(c) <= Len(t)
      /\ \A k \in 1 .. Len(c) : t[k] = c[k]
  BY DEF StartsWith
<1>3. ASSUME NEW k \in 1 .. Len(b)
      PROVE  t[Len(a) + k] = b[k]
  <2>1. Len(a) + k \in 1 .. Len(c)
    BY <1>1
  <2>2. QED
    BY <1>1, <1>2, <2>1
<1>4. QED
  BY <1>1, <1>2, <1>3 DEF PieceAt

LEMMA NextStarts ==
    ASSUME NEW S, NEW c, NEW b, NEW d, Extends(d, c, b, S), Len(b) # 0,
           NEW t, StartsWith(t, d)
    PROVE  t[Len(c) + 1] = b[1]
<1>1. /\ Len(c) \in Nat /\ Len(b) \in Nat /\ Len(d) = Len(c) + Len(b)
      /\ \A k \in 1 .. Len(b) : d[Len(c) + k] = b[k]
  BY DEF Extends
<1>2. \A k \in 1 .. Len(d) : t[k] = d[k]
  BY DEF StartsWith
<1>3. 1 \in 1 .. Len(b) /\ Len(c) + 1 \in 1 .. Len(d)
  BY <1>1
<1>4. QED
  BY <1>1, <1>2, <1>3

LEMMA PiecesAreSequences ==
    ASSUME NEW pieces \in Seq(Pieces)
    PROVE  /\ pieces \in Seq(Seq(Character)) /\ Len(pieces) \in Nat
           /\ \A i \in 1 .. Len(pieces) : pieces[i] \in Pieces
<1>1. Pieces \subseteq Seq(Character)
  BY PieceTyped
<1>2. pieces \in Seq(Seq(Character))
  BY <1>1, SeqMonotonic
<1>3. QED
  BY <1>2, ElementOfSeq

(* Every piece of a target is where the pieces before it end.              *)
LEMMA PiecesPlaced ==
    ASSUME NEW pieces \in Seq(Pieces), NEW F, Flattens(F, pieces, Character),
           NEW i \in 1 .. Len(pieces)
    PROVE  PieceAt(pieces[i], F[Len(pieces)], Len(F[i - 1]))
<1> DEFINE n == Len(pieces)
           t == F[n]
<1>1. /\ pieces \in Seq(Seq(Character)) /\ n \in Nat
      /\ \A j \in 1 .. n : pieces[j] \in Pieces
  BY PiecesAreSequences
<1>2. t \in Seq(Character)
  <2>1. F \in [0 .. Len(pieces) -> Seq(Character)] /\ Len(pieces) \in 0 .. Len(pieces)
    BY <1>1 DEF Flattens, FlattensTo
  <2>2. QED
    BY <2>1
<1>3. Extends(F[i], F[i - 1], pieces[i], Character)
  BY <1>1, FlattensSteps
<1>4. i \in 0 .. Len(pieces)
  BY <1>1
<1>5. StartsWith(t, F[i])
  BY <1>1, <1>4, FlattensPrefixes
<1>6. ASSUME Len(F[i]) < Len(t)
      PROVE  t[Len(F[i]) + 1] \notin Digits
  <2>1. i # n
    BY <1>2, <1>6
  <2> DEFINE j == i + 1
  <2>2. j \in 1 .. Len(pieces) /\ j \in 0 .. Len(pieces) /\ j - 1 = i
    BY <1>1, <2>1
  <2> HIDE DEF j, t
  <2>3. Extends(F[j], F[j - 1], pieces[j], Character)
    BY <1>1, <2>2, FlattensSteps
  <2>4. Extends(F[j], F[i], pieces[j], Character)
    BY <2>2, <2>3
  <2>5. StartsWith(t, F[j])
    BY <1>1, <2>2, FlattensPrefixes DEF t
  <2>6. Len(pieces[j]) # 0 /\ pieces[j][1] \notin Digits
    BY <1>1, <2>2, PieceTyped
  <2>7. t[Len(F[i]) + 1] = pieces[j][1]
    BY <2>4, <2>5, <2>6, NextStarts
  <2>8. QED
    BY <2>6, <2>7
<1>7. Len(t) \in Nat
  BY <1>2
<1> HIDE DEF t
<1>8. PieceAt(pieces[i], t, Len(F[i - 1]))
  BY <1>3, <1>5, <1>6, <1>7, PlacedAt
<1>9. QED
  BY <1>8 DEF t

LEMMA JoinedFacts ==
    ASSUME NEW S, NEW a \in Seq(S), NEW b \in Seq(S), NEW c \in Seq(S)
    PROVE  /\ Joined(Joined(a, b), c) = Joined(a, Joined(b, c))
           /\ Joined(<<>>, a) = a /\ Joined(a, <<>>) = a
BY ConcatAssociative, ConcatEmptySeq DEF Joined

(* The pieces are expanded one by one.                                     *)
LEMMA PiecesExpanded ==
    ASSUME NEW pieces \in Seq(Pieces), NEW match, IsMatch(match)
    PROVE  Expanded(FlattenSeq(pieces), match) =
              FlattenSeq([i \in DOMAIN pieces |-> Replaced(pieces[i], match)])
<1> DEFINE n == Len(pieces)
           replaced == [i \in DOMAIN pieces |-> Replaced(pieces[i], match)]
<1>1. /\ pieces \in Seq(Seq(Character)) /\ n \in Nat
      /\ \A i \in 1 .. n : pieces[i] \in Pieces
  BY PiecesAreSequences
<1>2. /\ replaced \in Seq(Seq(Character)) /\ Len(replaced) = n
      /\ \A i \in 1 .. n : replaced[i] = Replaced(pieces[i], match)
  <2>1. DOMAIN pieces = 1 .. n
    OBVIOUS
  <2>2. \A i \in 1 .. n : Replaced(pieces[i], match) \in Seq(Character)
    BY <1>1, ReplacedTyped
  <2> HIDE DEF n
  <2>3. replaced \in [1 .. n -> Seq(Character)]
    BY <2>1, <2>2
  <2>4. replaced \in Seq(Seq(Character)) /\ DOMAIN replaced = 1 .. n
    BY <1>1, <2>3, IsASeq
  <2>5. \A i \in 1 .. n : replaced[i] = Replaced(pieces[i], match)
    BY <2>1
  <2> HIDE DEF replaced
  <2>6. Len(replaced) = n
    BY <1>1, <2>4, LenProperties
  <2>7. QED
    BY <2>4, <2>5, <2>6
<1> HIDE DEF replaced
<1>3. PICK F : Flattens(F, pieces, Character)
  BY <1>1, FlattensExists
<1>4. PICK R : Flattens(R, replaced, Character)
  BY <1>2, FlattensExists
<1> DEFINE t == F[n]
<1>5. FlattenSeq(pieces) = t /\ FlattenSeq(replaced) = R[n]
  BY <1>1, <1>2, <1>3, <1>4, FlattenedBy
<1>6. /\ \A i \in 0 .. n : F[i] \in Seq(Character)
      /\ F[0] = <<>>
  BY <1>3 DEF Flattens, FlattensTo
<1>7. /\ \A i \in 0 .. n : R[i] \in Seq(Character)
      /\ R[0] = <<>>
      /\ \A i \in 1 .. n : R[i] = Joined(R[i - 1], replaced[i])
  BY <1>2, <1>4 DEF Flattens, FlattensTo
<1>8. t \in Seq(Character) /\ Len(t) \in Nat
  BY <1>1, <1>6
<1> HIDE DEF t
<1>9. PICK From : Expands(From, t, match) /\ Expanded(t, match) = From[1]
  BY <1>8, ExpandedFrom
<1>10. /\ From \in [1 .. Len(t) + 1 -> Seq(Character)]
       /\ From[Len(t) + 1] = <<>>
  BY <1>9 DEF Expands
<1>11. ASSUME NEW i \in 1 .. n
       PROVE  /\ From[Len(F[i - 1]) + 1] = Joined(replaced[i], From[Len(F[i]) + 1])
              /\ Len(F[i]) + 1 \in 1 .. Len(t) + 1
  <2>1. PieceAt(pieces[i], t, Len(F[i - 1]))
    BY <1>3, PiecesPlaced DEF t
  <2>2. Len(F[i]) = Len(F[i - 1]) + Len(pieces[i])
    <3>1. Extends(F[i], F[i - 1], pieces[i], Character)
      BY <1>1, <1>3, FlattensSteps
    <3>2. QED
      BY <3>1 DEF Extends
  <2>3. From[Len(F[i - 1]) + 1] =
           Joined(Replaced(pieces[i], match), From[Len(F[i - 1]) + Len(pieces[i]) + 1])
    <3> DEFINE p == pieces[i]
               s == Len(F[i - 1])
    <3>1. p \in Pieces /\ PieceAt(p, t, s)
      BY <1>1, <2>1
    <3> HIDE DEF p, s
    <3>2. From[s + 1] = Joined(Replaced(p, match), From[s + Len(p) + 1])
      BY <1>8, <1>9, <3>1, PieceTaken
    <3>3. QED
      BY <3>2 DEF p, s
  <2>4. Len(F[i]) <= Len(t)
    BY <2>1, <2>2 DEF PieceAt
  <2>5. Len(F[i]) \in Nat
    <3>1. F[i] \in Seq(Character)
      BY <1>6
    <3>2. QED
      BY <3>1
  <2>6. Len(F[i]) + 1 \in 1 .. Len(t) + 1
    BY <1>8, <2>4, <2>5
  <2>7. replaced[i] = Replaced(pieces[i], match)
    BY <1>2
  <2>8. From[Len(F[i - 1]) + 1] = Joined(replaced[i], From[Len(F[i]) + 1])
    BY <2>2, <2>3, <2>7
  <2>9. QED
    BY <2>6, <2>8
<1> DEFINE Rest(k) == From[Len(F[k]) + 1]
           Done == {k \in Nat : k <= n => From[1] = Joined(R[k], Rest(k))}
<1>12. \A i \in 0 .. n : Rest(i) \in Seq(Character)
  <2>1. Rest(0) \in Seq(Character)
    BY <1>6, <1>8, <1>10
  <2>2. \A i \in 1 .. n : Rest(i) \in Seq(Character)
    BY <1>10, <1>11
  <2> HIDE DEF Rest
  <2>3. QED
    BY <1>1, <2>1, <2>2
<1>13. \A i \in 1 .. n : Rest(i - 1) = Joined(replaced[i], Rest(i))
  BY <1>11
<1>14. Rest(0) = From[1] /\ Rest(n) = <<>>
  <2>1. Len(F[0]) = 0
    BY <1>6
  <2>2. QED
    BY <1>10, <2>1 DEF t
<1> HIDE DEF Rest
<1>15. 0 \in Done
  <2>1. Joined(<<>>, Rest(0)) = Rest(0)
    BY <1>1, <1>12, JoinedFacts
  <2>2. QED
    BY <1>7, <1>14, <2>1
<1>16. ASSUME NEW k \in Nat, k \in Done
       PROVE  k + 1 \in Done
  <2> SUFFICES ASSUME k + 1 <= n PROVE From[1] = Joined(R[k + 1], Rest(k + 1))
    OBVIOUS
  <2> DEFINE i == k + 1
  <2>1. i \in 1 .. n /\ i \in 0 .. n /\ k \in 0 .. n /\ i - 1 = k
    BY <1>1
  <2>2. From[1] = Joined(R[k], Rest(k))
    BY <1>16, <2>1
  <2> HIDE DEF i
  <2>3. Rest(k) = Joined(replaced[i], Rest(i)) /\ R[i] = Joined(R[k], replaced[i])
    BY <1>7, <1>13, <2>1
  <2>4. R[k] \in Seq(Character) /\ Rest(i) \in Seq(Character)
    BY <1>7, <1>12, <2>1
  <2>5. replaced[i] \in Seq(Character)
    BY <1>2, <2>1, ElementOfSeq
  <2>6. Joined(Joined(R[k], replaced[i]), Rest(i)) = Joined(R[k], Joined(replaced[i], Rest(i)))
    BY <2>4, <2>5, JoinedFacts
  <2>7. From[1] = Joined(R[i], Rest(i))
    BY <2>2, <2>3, <2>6
  <2>8. QED
    BY <2>7 DEF i
<1>17. n \in Done
  <2> HIDE DEF Done, n
  <2>1. QED
    BY <1>1, <1>15, <1>16, SetInduction
<1>18. From[1] = Joined(R[n], <<>>)
  BY <1>1, <1>14, <1>17
<1>19. Joined(R[n], <<>>) = R[n]
  BY <1>1, <1>7, JoinedFacts
<1>20. QED
  BY <1>5, <1>9, <1>18, <1>19 DEF replaced

(* The identity that a policy puts in front of its message is taken out,   *)
(* whatever the object, the separator and the message are.                 *)
THEOREM Identity == Spec => []IdentityIsExtracted
<1>1. IdentityIsExtracted
  BY Extraction DEF IdentityIsExtracted
<1>2. QED
  BY <1>1, PTL

(* Each placeholder is replaced by its group, and the rest of a target     *)
(* stays, however many pieces there are and whatever the groups matched.   *)
THEOREM Placeholders == Spec => []PlaceholdersAreReplaced
<1>1. PlaceholdersAreReplaced
  <2> SUFFICES ASSUME NEW pieces \in UpTo(MaxPieces, Pieces), NEW match \in Matches
               PROVE  Expanded(FlattenSeq(pieces), match) =
                         FlattenSeq([i \in DOMAIN pieces |-> Replaced(pieces[i], match)])
    BY DEF PlaceholdersAreReplaced
  <2>1. pieces \in Seq(Pieces)
    <3>1. PICK k \in 0 .. MaxPieces : pieces \in [1 .. k -> Pieces]
      BY DEF UpTo
    <3>2. k \in Nat
      BY <3>1, TextsAssumption
    <3>3. QED
      BY <3>1, <3>2, IsASeq
  <2>2. IsMatch(match)
    BY TextsAssumption, TextTyped DEF IsMatch
  <2>3. QED
    BY <2>1, <2>2, PiecesExpanded
<1>2. QED
  BY <1>1, PTL
=============================================================================
