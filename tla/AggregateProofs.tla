-------------------------- MODULE AggregateProofs --------------------------
(***************************************************************************)
(* What the answers and the metrics of doop-api are, for any clusters,     *)
(* reports and filters.                                                    *)
(***************************************************************************)
EXTENDS Metrics, FiniteSetTheorems, SequenceTheorems, WellFoundedInduction, TLAPS

-----------------------------------------------------------------------------
(* Induction.  A set takes the place of the predicate, so that the lemmas  *)
(* speak of no operator.                                                   *)

LEMMA SetInduction ==
    ASSUME NEW S, 0 \in S, \A n \in Nat : n \in S => n + 1 \in S
    PROVE  Nat \subseteq S
<1> DEFINE less == {p \in Nat \X Nat : p[1] < p[2]}
<1>1. IsWellFoundedOn(less, Nat)
  BY NatLessThanWellFounded DEF OpToRel
<1> HIDE DEF less
<1> SUFFICES ASSUME Nat \ S # {} PROVE FALSE
  OBVIOUS
<1>2. PICK n \in Nat \ S : \A m \in Nat \ S : <<m, n>> \notin less
  BY <1>1, WFMin, Zenon
<1>3. n # 0 /\ n - 1 \in Nat /\ n - 1 \notin S
  BY <1>2
<1>4. <<n - 1, n>> \in less
  BY <1>2, <1>3 DEF less
<1>5. QED
  BY <1>2, <1>3, <1>4

LEMMA MinIsLeast ==
    ASSUME NEW I, I \subseteq Nat, I # {}
    PROVE  Min(I) \in I /\ \A i \in I : Min(I) <= i
<1> DEFINE less == {p \in Nat \X Nat : p[1] < p[2]}
<1>1. IsWellFoundedOn(less, Nat)
  BY NatLessThanWellFounded DEF OpToRel
<1> HIDE DEF less
<1>2. PICK n \in I : \A m \in I : <<m, n>> \notin less
  BY <1>1, WFMin, Zenon
<1>3. \A m \in I : n <= m
  <2>1. \A m \in Nat : m < n => <<m, n>> \in less
    BY DEF less
  <2> SUFFICES ASSUME NEW m \in I PROVE n <= m
    OBVIOUS
  <2>2. m \in Nat /\ n \in Nat /\ ~(m < n)
    BY <1>2, <2>1
  <2>3. QED
    BY <2>2
<1>4. QED
  BY <1>2, <1>3 DEF Min

LEMMA MaxIsGreatest ==
    ASSUME NEW n \in Nat, NEW I, I \subseteq 0 .. n, I # {}
    PROVE  Max(I) \in I /\ \A i \in I : i <= Max(I)
<1> DEFINE J == {n - i : i \in I}
<1>1. J \subseteq Nat /\ J # {}
  <2>1. \A i \in I : n - i \in Nat
    OBVIOUS
  <2>2. QED
    BY <2>1
<1>2. PICK j \in J : \A k \in J : j <= k
  BY <1>1, MinIsLeast
<1>3. n - j \in I
  BY <1>2
<1>4. \A i \in I : i <= n - j
  BY <1>1, <1>2
<1>5. \A i \in I : n - j >= i
  BY <1>4, <1>3
<1>6. \A i \in I : (\A k \in I : i >= k) => i = n - j
  BY <1>3, <1>5
<1>7. QED
  BY <1>3, <1>5, <1>6 DEF Max

LEMMA MaxOfSubset ==
    ASSUME NEW n \in Nat, NEW I \in SUBSET (1 .. n), I # {}
    PROVE  Max(I) \in 1 .. n /\ I \ {Max(I)} \in SUBSET (1 .. n)
<1>1. I \subseteq 0 .. n
  OBVIOUS
<1>2. QED
  BY <1>1, MaxIsGreatest

LEMMA MaxOfInterval ==
    ASSUME NEW i \in Nat \ {0}
    PROVE  Max(1 .. i) = i /\ (1 .. i) \ {i} = 1 .. i - 1
<1>1. 1 .. i \subseteq 0 .. i /\ i \in 1 .. i
  OBVIOUS
<1>2. Max(1 .. i) \in 1 .. i /\ \A k \in 1 .. i : k <= Max(1 .. i)
  BY <1>1, MaxIsGreatest
<1>3. QED
  BY <1>1, <1>2

-----------------------------------------------------------------------------
(* FoldLeft is defined by a recursive function on the sets of positions.   *)
(* There is such a function for any step that stays in a set.              *)
Steps(T, n) == [T \X (1 .. n) -> T]

FoldsOver(f, n, T, base, step) ==
    /\ f \in [SUBSET (1 .. n) -> T]
    /\ \A s \in SUBSET (1 .. n) :
          f[s] = IF s = {} THEN base ELSE step[<<f[s \ {Max(s)}], Max(s)>>]

LEMMA FoldExtends ==
    ASSUME NEW T, NEW base \in T, NEW n \in Nat, NEW step \in Steps(T, n),
           NEW k \in Nat, k + 1 <= n, NEW g, FoldsOver(g, k, T, base, step)
    PROVE  \E f : FoldsOver(f, k + 1, T, base, step)
<1> DEFINE f == [s \in SUBSET (1 .. k + 1) |->
                    IF k + 1 \in s THEN step[<<g[s \ {k + 1}], k + 1>>] ELSE g[s]]
<1>1. k + 1 \in Nat /\ k + 1 \in 1 .. n
  OBVIOUS
<1>2. ASSUME NEW s \in SUBSET (1 .. k + 1)
      PROVE  f[s] \in T /\ f[s] = IF s = {} THEN base
                                  ELSE step[<<f[s \ {Max(s)}], Max(s)>>]
  <2>1. CASE k + 1 \in s
    <3>1. s \subseteq 0 .. k + 1 /\ s # {}
      BY <2>1
    <3>2. Max(s) \in s /\ k + 1 <= Max(s)
      BY <1>1, <2>1, <3>1, MaxIsGreatest
    <3>3. Max(s) = k + 1
      <4>1. Max(s) \in 1 .. k + 1
        BY <3>2
      <4>2. QED
        BY <1>1, <3>2, <4>1
    <3>4. s \ {k + 1} \in SUBSET (1 .. k) /\ s \ {k + 1} \in SUBSET (1 .. k + 1)
      OBVIOUS
    <3>5. g[s \ {k + 1}] \in T /\ f[s \ {k + 1}] = g[s \ {k + 1}]
      BY <3>4 DEF FoldsOver
    <3>6. f[s] = step[<<g[s \ {k + 1}], k + 1>>]
      BY <2>1
    <3> HIDE DEF f
    <3>7. step[<<g[s \ {k + 1}], k + 1>>] \in T
      <4>1. <<g[s \ {k + 1}], k + 1>> \in T \X (1 .. n)
        BY <1>1, <3>5
      <4>2. QED
        BY <4>1 DEF Steps
    <3>8. QED
      BY <2>1, <3>3, <3>5, <3>6, <3>7
  <2>2. CASE k + 1 \notin s
    <3>1. s \in SUBSET (1 .. k)
      BY <2>2
    <3>2. f[s] = g[s] /\ f[s] \in T
      BY <2>2, <3>1 DEF FoldsOver
    <3>3. CASE s = {}
      BY <3>1, <3>2, <3>3 DEF FoldsOver
    <3>4. CASE s # {}
      <4>1. s \subseteq 0 .. k + 1
        OBVIOUS
      <4>2. Max(s) \in s
        BY <1>1, <3>4, <4>1, MaxIsGreatest
      <4>3. f[s \ {Max(s)}] = g[s \ {Max(s)}]
        BY <2>2, <3>1
      <4>4. g[s] = step[<<g[s \ {Max(s)}], Max(s)>>]
        BY <3>1, <3>4 DEF FoldsOver
      <4>5. QED
        BY <3>2, <3>4, <4>3, <4>4
    <3>5. QED
      BY <3>3, <3>4
  <2>3. QED
    BY <2>1, <2>2
<1>3. FoldsOver(f, k + 1, T, base, step)
  BY <1>2 DEF FoldsOver
<1> HIDE DEF f
<1>4. QED
  BY <1>3

LEMMA FoldExists ==
    ASSUME NEW T, NEW base \in T, NEW n \in Nat, NEW step \in Steps(T, n)
    PROVE  \E f : FoldsOver(f, n, T, base, step)
<1> DEFINE Exists(k) == k <= n => \E f : FoldsOver(f, k, T, base, step)
           Done == {k \in Nat : Exists(k)}
<1>1. Exists(0)
  <2> DEFINE f == [s \in SUBSET (1 .. 0) |-> base]
  <2>1. \A s \in SUBSET (1 .. 0) : s = {} /\ f[s] = base
    OBVIOUS
  <2>2. FoldsOver(f, 0, T, base, step)
    BY <2>1 DEF FoldsOver
  <2> HIDE DEF f
  <2>3. QED
    BY <2>2
<1>2. ASSUME NEW k \in Nat, Exists(k)
      PROVE  Exists(k + 1)
  BY <1>2, FoldExtends
<1> HIDE DEF Exists
<1>3. 0 \in Done /\ \A k \in Nat : k \in Done => k + 1 \in Done
  BY <1>1, <1>2
<1>4. Exists(n)
  <2> HIDE DEF Done
  <2>1. Nat \subseteq Done
    BY <1>3, SetInduction
  <2>2. QED
    BY <2>1 DEF Done
<1>5. QED
  BY <1>4 DEF Exists

(* The values of such a function on the prefixes are those of the loop.    *)
Runs(after, n, T, base, step) ==
    /\ after \in [0 .. n -> T]
    /\ after[0] = base
    /\ \A i \in 1 .. n : after[i] = step[<<after[i - 1], i>>]

FoldsWithin(f, n, T, base, step) ==
    /\ f[{}] = base
    /\ \A s \in SUBSET (1 .. n) : s # {} /\ f[s \ {Max(s)}] \in T =>
          f[s] = step[<<f[s \ {Max(s)}], Max(s)>>]

LEMMA FoldRuns ==
    ASSUME NEW T, NEW base \in T, NEW n \in Nat, NEW step \in Steps(T, n),
           NEW f, FoldsWithin(f, n, T, base, step)
    PROVE  \E after : Runs(after, n, T, base, step) /\ after[n] = f[1 .. n]
<1> DEFINE after == [i \in 0 .. n |-> f[1 .. i]]
           Done == {i \in Nat : i <= n => f[1 .. i] \in T}
<1>1. ASSUME NEW i \in 1 .. n, f[1 .. i - 1] \in T
      PROVE  f[1 .. i] = step[<<f[1 .. i - 1], i>>] /\ f[1 .. i] \in T
  <2>1. 1 .. i \in SUBSET (1 .. n) /\ i \in 1 .. i
    OBVIOUS
  <2>2. Max(1 .. i) = i /\ (1 .. i) \ {i} = 1 .. i - 1
    BY MaxOfInterval
  <2>3. f[1 .. i] = step[<<f[1 .. i - 1], i>>]
    BY <1>1, <2>1, <2>2 DEF FoldsWithin
  <2>4. <<f[1 .. i - 1], i>> \in T \X (1 .. n)
    BY <1>1
  <2>5. QED
    BY <2>3, <2>4 DEF Steps
<1>2. 0 \in Done
  <2>1. 1 .. 0 = {}
    OBVIOUS
  <2>2. QED
    BY <2>1 DEF FoldsWithin
<1>3. ASSUME NEW i \in Nat, i \in Done
      PROVE  i + 1 \in Done
  <2>1. CASE i + 1 <= n
    <3>1. i + 1 \in 1 .. n /\ (i + 1) - 1 = i /\ i <= n
      BY <2>1
    <3>2. f[1 .. (i + 1) - 1] \in T
      BY <1>3, <3>1
    <3>3. f[1 .. i + 1] \in T
      BY <1>1, <3>1, <3>2
    <3>4. QED
      BY <3>3
  <2>2. QED
    BY <2>1
<1>4. \A i \in 0 .. n : f[1 .. i] \in T
  <2> HIDE DEF Done
  <2>1. Nat \subseteq Done
    BY <1>2, <1>3, SetInduction
  <2>2. QED
    BY <2>1 DEF Done
<1>5. after[0] = base /\ after[n] = f[1 .. n]
  <2>1. 1 .. 0 = {} /\ 0 \in 0 .. n /\ n \in 0 .. n
    OBVIOUS
  <2>2. QED
    BY <2>1 DEF FoldsWithin
<1>6. \A i \in 1 .. n : after[i] = step[<<after[i - 1], i>>]
  <2>1. \A i \in 1 .. n : i \in 0 .. n /\ i - 1 \in 0 .. n
    OBVIOUS
  <2>2. QED
    BY <1>1, <1>4, <2>1
<1>7. Runs(after, n, T, base, step)
  BY <1>4, <1>5, <1>6 DEF Runs
<1> HIDE DEF after
<1>8. QED
  BY <1>5, <1>7

(* The groups after each of the visits to the groups of a constraint.      *)
GroupSteps(after, T, base, seq) ==
    /\ after \in [0 .. Len(seq) -> T]
    /\ after[0] = base
    /\ after[Len(seq)] = FoldLeft(VisitViolationGroup, base, seq)
    /\ \A i \in 1 .. Len(seq) : after[i] = VisitViolationGroup(after[i - 1], seq[i])

LEMMA GroupVisits ==
    ASSUME NEW T, NEW base \in T, NEW E, NEW seq \in Seq(E),
           \A t \in T, e \in E : VisitViolationGroup(t, e) \in T
    PROVE  /\ \E after : GroupSteps(after, T, base, seq)
           /\ FoldLeft(VisitViolationGroup, base, seq) \in T
<1> DEFINE n == Len(seq)
           Folds(f) == f = [s \in SUBSET DOMAIN seq |->
                               IF s = {} THEN base
                               ELSE VisitViolationGroup(f[s \ {Max(s)}], seq[Max(s)])]
           step == [p \in T \X (1 .. n) |-> VisitViolationGroup(p[1], seq[p[2]])]
           fold == CHOOSE f : Folds(f)
<1>1. n \in Nat /\ DOMAIN seq = 1 .. n /\ \A i \in 1 .. n : seq[i] \in E
  OBVIOUS
<1> HIDE DEF n
<1>2. /\ step \in Steps(T, n)
      /\ \A t \in T, i \in 1 .. n : step[<<t, i>>] = VisitViolationGroup(t, seq[i])
  BY <1>1 DEF Steps
<1> HIDE DEF step
<1>3. PICK f : FoldsOver(f, n, T, base, step)
  BY <1>1, <1>2, FoldExists
<1>4. Folds(f)
  <2>1. ASSUME NEW s \in SUBSET (1 .. n)
        PROVE  f[s] = IF s = {} THEN base
                      ELSE VisitViolationGroup(f[s \ {Max(s)}], seq[Max(s)])
    BY <1>1, <1>2, <1>3, MaxOfSubset DEF FoldsOver
  <2>2. QED
    BY <1>1, <1>3, <2>1 DEF FoldsOver
<1>5. Folds(fold)
  <2> HIDE DEF Folds
  <2>1. QED
    BY <1>4, Zenon
<1>6. FoldLeft(VisitViolationGroup, base, seq) = fold[1 .. n]
  BY <1>1 DEF FoldLeft, MapThenFoldSet
<1> HIDE DEF fold
<1>7. FoldsWithin(fold, n, T, base, step)
  <2>1. fold[{}] = base
    BY <1>5
  <2>2. ASSUME NEW s \in SUBSET (1 .. n), s # {}, fold[s \ {Max(s)}] \in T
        PROVE  fold[s] = step[<<fold[s \ {Max(s)}], Max(s)>>]
    <3>1. Max(s) \in 1 .. n
      BY <1>1, <2>2, MaxOfSubset
    <3>2. QED
      BY <1>1, <1>2, <1>5, <2>2, <3>1
  <2>3. QED
    BY <2>1, <2>2 DEF FoldsWithin
<1>8. PICK after : Runs(after, n, T, base, step) /\ after[n] = fold[1 .. n]
  BY <1>1, <1>2, <1>7, FoldRuns
<1>9. GroupSteps(after, T, base, seq)
  <2>1. \A i \in 1 .. n : i - 1 \in 0 .. n
    BY <1>1
  <2>2. QED
    BY <1>1, <1>2, <1>6, <1>8, <2>1 DEF Runs, GroupSteps, n
<1>10. QED
  BY <1>1, <1>9 DEF GroupSteps, n

(* The constraints after each of the visits to those of a template.        *)
ConstraintSteps(after, T, base, seq) ==
    /\ after \in [0 .. Len(seq) -> T]
    /\ after[0] = base
    /\ after[Len(seq)] = FoldLeft(VisitConstraintReport, base, seq)
    /\ \A i \in 1 .. Len(seq) : after[i] = VisitConstraintReport(after[i - 1], seq[i])

LEMMA ConstraintVisits ==
    ASSUME NEW T, NEW base \in T, NEW E, NEW seq \in Seq(E),
           \A t \in T, e \in E : VisitConstraintReport(t, e) \in T
    PROVE  /\ \E after : ConstraintSteps(after, T, base, seq)
           /\ FoldLeft(VisitConstraintReport, base, seq) \in T
<1> DEFINE n == Len(seq)
           Folds(f) == f = [s \in SUBSET DOMAIN seq |->
                               IF s = {} THEN base
                               ELSE VisitConstraintReport(f[s \ {Max(s)}], seq[Max(s)])]
           step == [p \in T \X (1 .. n) |-> VisitConstraintReport(p[1], seq[p[2]])]
           fold == CHOOSE f : Folds(f)
<1>1. n \in Nat /\ DOMAIN seq = 1 .. n /\ \A i \in 1 .. n : seq[i] \in E
  OBVIOUS
<1> HIDE DEF n
<1>2. /\ step \in Steps(T, n)
      /\ \A t \in T, i \in 1 .. n : step[<<t, i>>] = VisitConstraintReport(t, seq[i])
  BY <1>1 DEF Steps
<1> HIDE DEF step
<1>3. PICK f : FoldsOver(f, n, T, base, step)
  BY <1>1, <1>2, FoldExists
<1>4. Folds(f)
  <2>1. ASSUME NEW s \in SUBSET (1 .. n)
        PROVE  f[s] = IF s = {} THEN base
                      ELSE VisitConstraintReport(f[s \ {Max(s)}], seq[Max(s)])
    BY <1>1, <1>2, <1>3, MaxOfSubset DEF FoldsOver
  <2>2. QED
    BY <1>1, <1>3, <2>1 DEF FoldsOver
<1>5. Folds(fold)
  <2> HIDE DEF Folds
  <2>1. QED
    BY <1>4, Zenon
<1>6. FoldLeft(VisitConstraintReport, base, seq) = fold[1 .. n]
  BY <1>1 DEF FoldLeft, MapThenFoldSet
<1> HIDE DEF fold
<1>7. FoldsWithin(fold, n, T, base, step)
  <2>1. fold[{}] = base
    BY <1>5
  <2>2. ASSUME NEW s \in SUBSET (1 .. n), s # {}, fold[s \ {Max(s)}] \in T
        PROVE  fold[s] = step[<<fold[s \ {Max(s)}], Max(s)>>]
    <3>1. Max(s) \in 1 .. n
      BY <1>1, <2>2, MaxOfSubset
    <3>2. QED
      BY <1>1, <1>2, <1>5, <2>2, <3>1
  <2>3. QED
    BY <2>1, <2>2 DEF FoldsWithin
<1>8. PICK after : Runs(after, n, T, base, step) /\ after[n] = fold[1 .. n]
  BY <1>1, <1>2, <1>7, FoldRuns
<1>9. ConstraintSteps(after, T, base, seq)
  <2>1. \A i \in 1 .. n : i - 1 \in 0 .. n
    BY <1>1
  <2>2. QED
    BY <1>1, <1>2, <1>6, <1>8, <2>1 DEF Runs, ConstraintSteps, n
<1>10. QED
  BY <1>1, <1>9 DEF ConstraintSteps, n

(* The templates after each of the visits to those of a report.            *)
TemplateSteps(after, T, base, seq) ==
    /\ after \in [0 .. Len(seq) -> T]
    /\ after[0] = base
    /\ after[Len(seq)] = FoldLeft(VisitTemplateReport, base, seq)
    /\ \A i \in 1 .. Len(seq) : after[i] = VisitTemplateReport(after[i - 1], seq[i])

LEMMA TemplateVisits ==
    ASSUME NEW T, NEW base \in T, NEW E, NEW seq \in Seq(E),
           \A t \in T, e \in E : VisitTemplateReport(t, e) \in T
    PROVE  /\ \E after : TemplateSteps(after, T, base, seq)
           /\ FoldLeft(VisitTemplateReport, base, seq) \in T
<1> DEFINE n == Len(seq)
           Folds(f) == f = [s \in SUBSET DOMAIN seq |->
                               IF s = {} THEN base
                               ELSE VisitTemplateReport(f[s \ {Max(s)}], seq[Max(s)])]
           step == [p \in T \X (1 .. n) |-> VisitTemplateReport(p[1], seq[p[2]])]
           fold == CHOOSE f : Folds(f)
<1>1. n \in Nat /\ DOMAIN seq = 1 .. n /\ \A i \in 1 .. n : seq[i] \in E
  OBVIOUS
<1> HIDE DEF n
<1>2. /\ step \in Steps(T, n)
      /\ \A t \in T, i \in 1 .. n : step[<<t, i>>] = VisitTemplateReport(t, seq[i])
  BY <1>1 DEF Steps
<1> HIDE DEF step
<1>3. PICK f : FoldsOver(f, n, T, base, step)
  BY <1>1, <1>2, FoldExists
<1>4. Folds(f)
  <2>1. ASSUME NEW s \in SUBSET (1 .. n)
        PROVE  f[s] = IF s = {} THEN base
                      ELSE VisitTemplateReport(f[s \ {Max(s)}], seq[Max(s)])
    BY <1>1, <1>2, <1>3, MaxOfSubset DEF FoldsOver
  <2>2. QED
    BY <1>1, <1>3, <2>1 DEF FoldsOver
<1>5. Folds(fold)
  <2> HIDE DEF Folds
  <2>1. QED
    BY <1>4, Zenon
<1>6. FoldLeft(VisitTemplateReport, base, seq) = fold[1 .. n]
  BY <1>1 DEF FoldLeft, MapThenFoldSet
<1> HIDE DEF fold
<1>7. FoldsWithin(fold, n, T, base, step)
  <2>1. fold[{}] = base
    BY <1>5
  <2>2. ASSUME NEW s \in SUBSET (1 .. n), s # {}, fold[s \ {Max(s)}] \in T
        PROVE  fold[s] = step[<<fold[s \ {Max(s)}], Max(s)>>]
    <3>1. Max(s) \in 1 .. n
      BY <1>1, <2>2, MaxOfSubset
    <3>2. QED
      BY <1>1, <1>2, <1>5, <2>2, <3>1
  <2>3. QED
    BY <2>1, <2>2 DEF FoldsWithin
<1>8. PICK after : Runs(after, n, T, base, step) /\ after[n] = fold[1 .. n]
  BY <1>1, <1>2, <1>7, FoldRuns
<1>9. TemplateSteps(after, T, base, seq)
  <2>1. \A i \in 1 .. n : i - 1 \in 0 .. n
    BY <1>1
  <2>2. QED
    BY <1>1, <1>2, <1>6, <1>8, <2>1 DEF Runs, TemplateSteps, n
<1>10. QED
  BY <1>1, <1>9 DEF TemplateSteps, n

-----------------------------------------------------------------------------
(* The lists of which an answer is made, merged completely.                *)
GroupLists ==
    {vgs \in Seq(ViolationGroup) :
        \A g, h \in DOMAIN vgs : vgs[g].pattern = vgs[h].pattern => g = h}

Unaudited(rc) == rc.metadata.audit = NoText

ConstraintLists ==
    {rcs \in Seq(ConstraintsWith(GroupLists \ {<<>>})) :
        /\ \A c \in DOMAIN rcs : Unaudited(rcs[c])
        /\ \A c, d \in DOMAIN rcs :
              rcs[c].name = rcs[d].name /\ rcs[c].metadata = rcs[d].metadata => c = d}

TemplateLists ==
    {rts \in Seq(TemplatesWith(ConstraintLists \ {<<>>})) :
        \A t, u \in DOMAIN rts : rts[t].kind = rts[u].kind => t = u}

LEMMA GroupFound ==
    ASSUME NEW vgs \in Seq(ViolationGroup), NEW vg,
           NEW g, g = SelectInSeq(vgs, LAMBDA c : c.pattern = vg.pattern)
    PROVE  \/ g = 0 /\ \A h \in DOMAIN vgs : vgs[h].pattern # vg.pattern
           \/ g \in DOMAIN vgs /\ g # 0 /\ vgs[g].pattern = vg.pattern
<1> DEFINE I == {i \in 1 .. Len(vgs) : vgs[i].pattern = vg.pattern}
<1>1. g = IF I # {} THEN Min(I) ELSE 0
  BY DEF SelectInSeq
<1>2. I \subseteq Nat /\ DOMAIN vgs = 1 .. Len(vgs)
  OBVIOUS
<1>3. I # {} => Min(I) \in I
  <2> HIDE DEF I
  <2>1. QED
    BY <1>2, MinIsLeast
<1>4. QED
  BY <1>1, <1>2, <1>3

LEMMA GroupOutcome ==
    ASSUME NEW vgs \in Seq(ViolationGroup), NEW vg
    PROVE  \/ /\ VisitViolationGroup(vgs, vg) = vgs
              /\ ~MatchIdentity(filter.object, vg.pattern.identity)
           \/ /\ MatchIdentity(filter.object, vg.pattern.identity)
              /\ \E g \in DOMAIN vgs :
                    /\ vgs[g].pattern = vg.pattern
                    /\ VisitViolationGroup(vgs, vg) =
                          [vgs EXCEPT ![g].instances = @ \o vg.instances]
           \/ /\ MatchIdentity(filter.object, vg.pattern.identity)
              /\ \A h \in DOMAIN vgs : vgs[h].pattern # vg.pattern
              /\ VisitViolationGroup(vgs, vg) = Append(vgs, vg)
<1> DEFINE g == SelectInSeq(vgs, LAMBDA c : c.pattern = vg.pattern)
<1>1. \/ g = 0 /\ \A h \in DOMAIN vgs : vgs[h].pattern # vg.pattern
      \/ g \in DOMAIN vgs /\ g # 0 /\ vgs[g].pattern = vg.pattern
  BY GroupFound
<1>2. VisitViolationGroup(vgs, vg) =
         IF ~MatchIdentity(filter.object, vg.pattern.identity) THEN vgs
         ELSE IF g = 0 THEN Append(vgs, vg)
         ELSE [vgs EXCEPT ![g].instances = @ \o vg.instances]
  BY DEF VisitViolationGroup
<1> HIDE DEF g
<1>3. QED
  BY <1>1, <1>2

LEMMA VisitGroup ==
    ASSUME NEW vgs \in GroupLists, NEW vg \in ViolationGroup
    PROVE  /\ VisitViolationGroup(vgs, vg) \in GroupLists
           /\ vgs # <<>> => VisitViolationGroup(vgs, vg) # <<>>
<1> DEFINE new == VisitViolationGroup(vgs, vg)
<1>1. vgs \in Seq(ViolationGroup)
  BY DEF GroupLists
<1>2. CASE new = vgs
  BY <1>2
<1>3. ASSUME NEW g \in DOMAIN vgs, new = [vgs EXCEPT ![g].instances = @ \o vg.instances]
      PROVE  new \in GroupLists /\ new # <<>>
  <2> DEFINE merged == [vgs[g] EXCEPT !.instances = @ \o vg.instances]
  <2>1. vgs[g] \in ViolationGroup
    BY <1>1
  <2>2. vgs[g].instances \o vg.instances \in NonEmpty(Violation)
    BY <2>1 DEF ViolationGroup, NonEmpty
  <2>3. merged \in ViolationGroup /\ merged.pattern = vgs[g].pattern
    BY <2>1, <2>2 DEF ViolationGroup
  <2>4. new = [vgs EXCEPT ![g] = merged]
    BY <1>1, <1>3
  <2> HIDE DEF merged, new
  <2>5. new \in Seq(ViolationGroup) /\ DOMAIN new = DOMAIN vgs
    BY <1>1, <2>3, <2>4
  <2>6. \A h \in DOMAIN vgs : new[h].pattern = vgs[h].pattern
    BY <1>1, <2>3, <2>4
  <2>7. \A h, k \in DOMAIN new : new[h].pattern = new[k].pattern => h = k
    BY <2>5, <2>6 DEF GroupLists
  <2>8. new # <<>>
    BY <2>5
  <2>9. QED
    BY <2>5, <2>7, <2>8 DEF GroupLists
<1>4. ASSUME \A h \in DOMAIN vgs : vgs[h].pattern # vg.pattern, new = Append(vgs, vg)
      PROVE  new \in GroupLists /\ new # <<>>
  <2>1. /\ new \in Seq(ViolationGroup) /\ new # <<>>
        /\ DOMAIN new = 1 .. Len(vgs) + 1
        /\ \A h \in 1 .. Len(vgs) : new[h] = vgs[h]
        /\ new[Len(vgs) + 1] = vg
    BY <1>1, <1>4
  <2> HIDE DEF new
  <2>2. \A h, k \in DOMAIN new : new[h].pattern = new[k].pattern => h = k
    <3>1. \A h, k \in 1 .. Len(vgs) : vgs[h].pattern = vgs[k].pattern => h = k
      BY <1>1 DEF GroupLists
    <3>2. \A h \in DOMAIN new : h \in 1 .. Len(vgs) \/ h = Len(vgs) + 1
      BY <1>1, <2>1
    <3>3. \A h \in 1 .. Len(vgs) : vgs[h].pattern # vg.pattern
      BY <1>1, <1>4
    <3>4. QED
      BY <2>1, <3>1, <3>2, <3>3
  <2>3. QED
    BY <2>1, <2>2 DEF GroupLists
<1>5. QED
  BY <1>1, <1>2, <1>3, <1>4, GroupOutcome

(* The groups after all visits for a constraint.                           *)
GroupsAfter(vgs, rc) == FoldLeft(VisitViolationGroup, vgs, rc.groups)

LEMMA VisitGroups ==
    ASSUME NEW vgs \in GroupLists, NEW rc \in ReportForConstraint
    PROVE  /\ GroupsAfter(vgs, rc) \in GroupLists
           /\ vgs # <<>> => GroupsAfter(vgs, rc) # <<>>
<1>1. rc.groups \in Seq(ViolationGroup)
  BY DEF ReportForConstraint, ConstraintsWith
<1>2. ASSUME NEW T, NEW base \in T,
             \A t \in T, e \in ViolationGroup : VisitViolationGroup(t, e) \in T
      PROVE  FoldLeft(VisitViolationGroup, base, rc.groups) \in T
  BY <1>1, <1>2, GroupVisits
<1>3. GroupsAfter(vgs, rc) \in GroupLists
  BY <1>2, VisitGroup DEF GroupsAfter
<1>4. ASSUME vgs # <<>>
      PROVE  GroupsAfter(vgs, rc) \in GroupLists \ {<<>>}
  BY <1>2, <1>4, VisitGroup DEF GroupsAfter
<1>5. QED
  BY <1>3, <1>4

-----------------------------------------------------------------------------
(* What a visit to a constraint does.                                      *)
AskedConstraint(rc) == Match(filter.name, rc.name) /\ Match(filter.severity, rc.metadata.severity)

SameConstraint(x, rc) == x.name = rc.name /\ x.metadata = WithoutAudit(rc.metadata)

NewConstraint(rc) == [name |-> rc.name, metadata |-> WithoutAudit(rc.metadata),
                      groups |-> GroupsAfter(<<>>, rc)]

LEMMA ConstraintFound ==
    ASSUME NEW S, NEW rcs \in Seq(S), NEW rc,
           NEW c, c = SelectInSeq(rcs, LAMBDA x : x.name = rc.name
                                             /\ x.metadata = WithoutAudit(rc.metadata))
    PROVE  \/ c = 0 /\ \A d \in DOMAIN rcs : ~SameConstraint(rcs[d], rc)
           \/ c \in DOMAIN rcs /\ c # 0 /\ SameConstraint(rcs[c], rc)
<1> DEFINE I == {i \in 1 .. Len(rcs) : SameConstraint(rcs[i], rc)}
<1>1. c = IF I # {} THEN Min(I) ELSE 0
  BY DEF SelectInSeq, SameConstraint
<1>2. I \subseteq Nat /\ DOMAIN rcs = 1 .. Len(rcs)
  OBVIOUS
<1>3. I # {} => Min(I) \in I
  <2> HIDE DEF I
  <2>1. QED
    BY <1>2, MinIsLeast
<1>4. QED
  BY <1>1, <1>2, <1>3

LEMMA ConstraintOutcome ==
    ASSUME NEW S, NEW rcs \in Seq(S), NEW rc
    PROVE  \/ /\ VisitConstraintReport(rcs, rc) = rcs
              /\ \/ ~AskedConstraint(rc)
                 \/ GroupsAfter(<<>>, rc) = <<>>
                    /\ \A d \in DOMAIN rcs : ~SameConstraint(rcs[d], rc)
           \/ /\ AskedConstraint(rc)
              /\ \E c \in DOMAIN rcs :
                    /\ SameConstraint(rcs[c], rc)
                    /\ VisitConstraintReport(rcs, rc) =
                          [rcs EXCEPT ![c].groups = GroupsAfter(@, rc)]
           \/ /\ AskedConstraint(rc)
              /\ GroupsAfter(<<>>, rc) # <<>>
              /\ \A d \in DOMAIN rcs : ~SameConstraint(rcs[d], rc)
              /\ VisitConstraintReport(rcs, rc) = Append(rcs, NewConstraint(rc))
<1> DEFINE c == SelectInSeq(rcs, LAMBDA x : x.name = rc.name
                                       /\ x.metadata = WithoutAudit(rc.metadata))
<1>1. \/ c = 0 /\ \A d \in DOMAIN rcs : ~SameConstraint(rcs[d], rc)
      \/ c \in DOMAIN rcs /\ c # 0 /\ SameConstraint(rcs[c], rc)
  BY ConstraintFound
<1>2. VisitConstraintReport(rcs, rc) =
         IF ~AskedConstraint(rc) THEN rcs
         ELSE IF c # 0 THEN [rcs EXCEPT ![c].groups = GroupsAfter(@, rc)]
         ELSE IF GroupsAfter(<<>>, rc) = <<>> THEN rcs
         ELSE Append(rcs, NewConstraint(rc))
  BY DEF VisitConstraintReport, AskedConstraint, GroupsAfter, NewConstraint
<1> HIDE DEF c
<1>3. QED
  BY <1>1, <1>2

LEMMA VisitConstraint ==
    ASSUME NEW rcs \in ConstraintLists, NEW rc \in ReportForConstraint
    PROVE  /\ VisitConstraintReport(rcs, rc) \in ConstraintLists
           /\ rcs # <<>> => VisitConstraintReport(rcs, rc) # <<>>
<1> DEFINE Merged == ConstraintsWith(GroupLists \ {<<>>})
           new == VisitConstraintReport(rcs, rc)
<1>1. rcs \in Seq(Merged)
  BY DEF ConstraintLists
<1>2. CASE new = rcs
  BY <1>2
<1>3. ASSUME NEW c \in DOMAIN rcs, new = [rcs EXCEPT ![c].groups = GroupsAfter(@, rc)]
      PROVE  new \in ConstraintLists /\ new # <<>>
  <2> DEFINE merged == [rcs[c] EXCEPT !.groups = GroupsAfter(@, rc)]
  <2>1. rcs[c] \in Merged
    BY <1>1
  <2>2. GroupsAfter(rcs[c].groups, rc) \in GroupLists \ {<<>>}
    BY <2>1, VisitGroups DEF ConstraintsWith
  <2>3. /\ merged \in Merged
        /\ merged.name = rcs[c].name /\ merged.metadata = rcs[c].metadata
    BY <2>1, <2>2 DEF ConstraintsWith
  <2>4. new = [rcs EXCEPT ![c] = merged]
    BY <1>1, <1>3
  <2> HIDE DEF merged, new, Merged
  <2>5. new \in Seq(Merged) /\ DOMAIN new = DOMAIN rcs
    BY <1>1, <1>3, <2>3, <2>4
  <2>6. \A d \in DOMAIN rcs :
            new[d].name = rcs[d].name /\ new[d].metadata = rcs[d].metadata
    BY <1>1, <2>3, <2>4
  <2>7. \A d, e \in DOMAIN new :
            new[d].name = new[e].name /\ new[d].metadata = new[e].metadata => d = e
    BY <2>5, <2>6 DEF ConstraintLists
  <2>8. \A d \in DOMAIN new : Unaudited(new[d])
    BY <2>5, <2>6 DEF ConstraintLists, Unaudited
  <2>9. new # <<>>
    BY <2>5
  <2>10. QED
    BY <2>5, <2>7, <2>8, <2>9 DEF ConstraintLists, Merged
<1>4. ASSUME \A d \in DOMAIN rcs : ~SameConstraint(rcs[d], rc),
             GroupsAfter(<<>>, rc) # <<>>, new = Append(rcs, NewConstraint(rc))
      PROVE  new \in ConstraintLists /\ new # <<>>
  <2>1. NewConstraint(rc) \in Merged
    <3>1. <<>> \in GroupLists
      BY DEF GroupLists
    <3>2. GroupsAfter(<<>>, rc) \in GroupLists \ {<<>>}
      BY <1>4, <3>1, VisitGroups
    <3>3. rc.name \in Text /\ WithoutAudit(rc.metadata) \in Metadata
      BY DEF ReportForConstraint, ConstraintsWith, WithoutAudit, Metadata, NoText, Text
    <3>4. QED
      BY <3>2, <3>3 DEF NewConstraint, ConstraintsWith
  <2> HIDE DEF Merged
  <2>2. /\ new \in Seq(Merged) /\ new # <<>>
        /\ DOMAIN new = 1 .. Len(rcs) + 1
        /\ \A d \in 1 .. Len(rcs) : new[d] = rcs[d]
        /\ new[Len(rcs) + 1] = NewConstraint(rc)
    BY <1>1, <1>4, <2>1
  <2> HIDE DEF new
  <2>3. \A c, d \in DOMAIN new :
            new[c].name = new[d].name /\ new[c].metadata = new[d].metadata => c = d
    <3>1. \A c, d \in 1 .. Len(rcs) :
              rcs[c].name = rcs[d].name /\ rcs[c].metadata = rcs[d].metadata => c = d
      BY <1>1 DEF ConstraintLists
    <3>2. \A d \in DOMAIN new : d \in 1 .. Len(rcs) \/ d = Len(rcs) + 1
      BY <1>1, <2>2
    <3>3. \A d \in 1 .. Len(rcs) :
              ~(rcs[d].name = rc.name /\ rcs[d].metadata = WithoutAudit(rc.metadata))
      BY <1>1, <1>4 DEF SameConstraint
    <3>4. NewConstraint(rc).name = rc.name
          /\ NewConstraint(rc).metadata = WithoutAudit(rc.metadata)
      BY DEF NewConstraint
    <3>5. QED
      BY <2>2, <3>1, <3>2, <3>3, <3>4
  <2>4. \A d \in DOMAIN new : Unaudited(new[d])
    <3>1. \A d \in 1 .. Len(rcs) : Unaudited(rcs[d])
      BY <1>1 DEF ConstraintLists
    <3>2. Unaudited(NewConstraint(rc))
      <4>1. rc.metadata \in Metadata
        BY DEF ReportForConstraint, ConstraintsWith
      <4>2. WithoutAudit(rc.metadata).audit = NoText
        BY <4>1 DEF WithoutAudit, Metadata
      <4>3. QED
        BY <4>2 DEF NewConstraint, Unaudited
    <3>3. \A d \in DOMAIN new : d \in 1 .. Len(rcs) \/ d = Len(rcs) + 1
      BY <1>1, <2>2
    <3>4. QED
      BY <2>2, <3>1, <3>2, <3>3
  <2>5. QED
    BY <2>2, <2>3, <2>4 DEF ConstraintLists, Merged
<1>5. QED
  BY <1>1, <1>2, <1>3, <1>4, ConstraintOutcome

(* The constraints after all visits for a template.                        *)
ConstraintsAfter(rcs, rt) == FoldLeft(VisitConstraintReport, rcs, rt.constraints)

LEMMA VisitConstraints ==
    ASSUME NEW rcs \in ConstraintLists, NEW rt \in ReportForTemplate
    PROVE  /\ ConstraintsAfter(rcs, rt) \in ConstraintLists
           /\ rcs # <<>> => ConstraintsAfter(rcs, rt) # <<>>
<1>1. rt.constraints \in Seq(ReportForConstraint)
  BY DEF ReportForTemplate, TemplatesWith
<1>2. ASSUME NEW T, NEW base \in T,
             \A t \in T, e \in ReportForConstraint : VisitConstraintReport(t, e) \in T
      PROVE  FoldLeft(VisitConstraintReport, base, rt.constraints) \in T
  BY <1>1, <1>2, ConstraintVisits
<1>3. ConstraintsAfter(rcs, rt) \in ConstraintLists
  BY <1>2, VisitConstraint DEF ConstraintsAfter
<1>4. ASSUME rcs # <<>>
      PROVE  ConstraintsAfter(rcs, rt) \in ConstraintLists \ {<<>>}
  BY <1>2, <1>4, VisitConstraint DEF ConstraintsAfter
<1>5. QED
  BY <1>3, <1>4

(* What a visit to a template does.                                        *)
NewTemplate(rt) == [kind |-> rt.kind, constraints |-> ConstraintsAfter(<<>>, rt)]

TemplateMerged(rts, t, rt) == [rts EXCEPT ![t].constraints = ConstraintsAfter(@, rt)]

LEMMA TemplateFound ==
    ASSUME NEW S, NEW rts \in Seq(S), NEW rt,
           NEW t, t = SelectInSeq(rts, LAMBDA x : x.kind = rt.kind)
    PROVE  \/ t = 0 /\ \A u \in DOMAIN rts : rts[u].kind # rt.kind
           \/ t \in DOMAIN rts /\ t # 0 /\ rts[t].kind = rt.kind
<1> DEFINE I == {i \in 1 .. Len(rts) : rts[i].kind = rt.kind}
<1>1. t = IF I # {} THEN Min(I) ELSE 0
  BY DEF SelectInSeq
<1>2. I \subseteq Nat /\ DOMAIN rts = 1 .. Len(rts)
  OBVIOUS
<1>3. I # {} => Min(I) \in I
  <2> HIDE DEF I
  <2>1. QED
    BY <1>2, MinIsLeast
<1>4. QED
  BY <1>1, <1>2, <1>3

LEMMA TemplateOutcome ==
    ASSUME NEW S, NEW rts \in Seq(S), NEW rt
    PROVE  \/ /\ VisitTemplateReport(rts, rt) = rts
              /\ \/ ~Match(filter.kind, rt.kind)
                 \/ ConstraintsAfter(<<>>, rt) = <<>>
                    /\ \A u \in DOMAIN rts : rts[u].kind # rt.kind
           \/ /\ Match(filter.kind, rt.kind)
              /\ \E t \in DOMAIN rts :
                    /\ rts[t].kind = rt.kind
                    /\ VisitTemplateReport(rts, rt) = TemplateMerged(rts, t, rt)
           \/ /\ Match(filter.kind, rt.kind)
              /\ ConstraintsAfter(<<>>, rt) # <<>>
              /\ \A u \in DOMAIN rts : rts[u].kind # rt.kind
              /\ VisitTemplateReport(rts, rt) = Append(rts, NewTemplate(rt))
<1> DEFINE t == SelectInSeq(rts, LAMBDA x : x.kind = rt.kind)
<1>1. \/ t = 0 /\ \A u \in DOMAIN rts : rts[u].kind # rt.kind
      \/ t \in DOMAIN rts /\ t # 0 /\ rts[t].kind = rt.kind
  BY TemplateFound
<1>2. VisitTemplateReport(rts, rt) =
         IF ~Match(filter.kind, rt.kind) THEN rts
         ELSE IF t # 0 THEN TemplateMerged(rts, t, rt)
         ELSE IF ConstraintsAfter(<<>>, rt) = <<>> THEN rts
         ELSE Append(rts, NewTemplate(rt))
  BY DEF VisitTemplateReport, ConstraintsAfter, NewTemplate, TemplateMerged
<1> HIDE DEF t
<1>3. QED
  BY <1>1, <1>2

LEMMA VisitTemplate ==
    ASSUME NEW rts \in TemplateLists, NEW rt \in ReportForTemplate
    PROVE  VisitTemplateReport(rts, rt) \in TemplateLists
<1> DEFINE Merged == TemplatesWith(ConstraintLists \ {<<>>})
           new == VisitTemplateReport(rts, rt)
<1>1. rts \in Seq(Merged)
  BY DEF TemplateLists
<1>2. CASE new = rts
  BY <1>2
<1>3. ASSUME NEW t \in DOMAIN rts, new = TemplateMerged(rts, t, rt)
      PROVE  new \in TemplateLists
  <2> DEFINE merged == [rts[t] EXCEPT !.constraints = ConstraintsAfter(@, rt)]
  <2>1. rts[t] \in Merged
    BY <1>1
  <2>2. ConstraintsAfter(rts[t].constraints, rt) \in ConstraintLists \ {<<>>}
    BY <2>1, VisitConstraints DEF TemplatesWith
  <2>3. merged \in Merged /\ merged.kind = rts[t].kind
    BY <2>1, <2>2 DEF TemplatesWith
  <2>4. new = [rts EXCEPT ![t] = merged]
    BY <1>1, <1>3 DEF TemplateMerged
  <2> HIDE DEF merged, new, Merged
  <2>5. new \in Seq(Merged) /\ DOMAIN new = DOMAIN rts
    BY <1>1, <1>3, <2>3, <2>4
  <2>6. \A u \in DOMAIN rts : new[u].kind = rts[u].kind
    BY <1>1, <2>3, <2>4
  <2>7. QED
    BY <2>5, <2>6 DEF TemplateLists, Merged
<1>4. ASSUME \A u \in DOMAIN rts : rts[u].kind # rt.kind,
             ConstraintsAfter(<<>>, rt) # <<>>, new = Append(rts, NewTemplate(rt))
      PROVE  new \in TemplateLists
  <2>1. NewTemplate(rt) \in Merged
    <3>1. <<>> \in ConstraintLists
      BY DEF ConstraintLists
    <3>2. ConstraintsAfter(<<>>, rt) \in ConstraintLists \ {<<>>}
      BY <1>4, <3>1, VisitConstraints
    <3>3. rt.kind \in Text
      BY DEF ReportForTemplate, TemplatesWith
    <3>4. QED
      BY <3>2, <3>3 DEF NewTemplate, TemplatesWith
  <2> HIDE DEF Merged
  <2>2. /\ new \in Seq(Merged)
        /\ DOMAIN new = 1 .. Len(rts) + 1
        /\ \A u \in 1 .. Len(rts) : new[u] = rts[u]
        /\ new[Len(rts) + 1] = NewTemplate(rt)
    BY <1>1, <1>4, <2>1
  <2> HIDE DEF new
  <2>3. \A t, u \in DOMAIN new : new[t].kind = new[u].kind => t = u
    <3>1. \A t, u \in 1 .. Len(rts) : rts[t].kind = rts[u].kind => t = u
      BY <1>1 DEF TemplateLists
    <3>2. \A u \in DOMAIN new : u \in 1 .. Len(rts) \/ u = Len(rts) + 1
      BY <1>1, <2>2
    <3>3. \A u \in 1 .. Len(rts) : rts[u].kind # NewTemplate(rt).kind
      BY <1>1, <1>4 DEF NewTemplate
    <3>4. QED
      BY <2>2, <3>1, <3>2, <3>3
  <2>4. QED
    BY <2>2, <2>3 DEF TemplateLists, Merged
<1>5. QED
  BY <1>1, <1>2, <1>3, <1>4, TemplateOutcome

(* The templates after all visits for a report.                            *)
LEMMA VisitTemplates ==
    ASSUME NEW rts \in TemplateLists, NEW seq \in Seq(ReportForTemplate)
    PROVE  FoldLeft(VisitTemplateReport, rts, seq) \in TemplateLists
  BY VisitTemplate, TemplateVisits

-----------------------------------------------------------------------------
(* Sorting permutes, whatever the order.                                   *)
Permutation(n) ==
    {o \in [1 .. n -> 1 .. n] :
        /\ \A i, j \in 1 .. n : o[i] = o[j] => i = j
        /\ \A j \in 1 .. n : \E i \in 1 .. n : o[i] = j}

Inserted(order, p, i) ==
    [k \in 1 .. Len(order) + 1 |->
        IF k <= p THEN order[k] ELSE IF k = p + 1 THEN i ELSE order[k - 1]]

LEMMA InsertSomewhere ==
    ASSUME NEW order \in Seq(Nat), NEW i \in Nat, NEW less
    PROVE  /\ Insert(order, i, less) \in Seq(Nat)
           /\ \E p \in 0 .. Len(order) : Insert(order, i, less) = Inserted(order, p, i)
<1> DEFINE P == {0} \cup {k \in DOMAIN order : <<i, order[k]>> \notin less}
           p == Max(P)
           new == InsertAt(order, p + 1, i)
<1>1. Len(order) \in Nat /\ DOMAIN order = 1 .. Len(order)
  OBVIOUS
<1>2. P \subseteq 0 .. Len(order) /\ P # {}
  BY <1>1
<1> HIDE DEF P
<1>3. p \in 0 .. Len(order)
  BY <1>1, <1>2, MaxIsGreatest
<1>4. Insert(order, i, less) = new
  BY DEF Insert, p, P
<1> HIDE DEF p
<1> DEFINE front == SubSeq(order, 1, p)
           rest == SubSeq(order, p + 1, Len(order))
<1>5. /\ front \in Seq(Nat) /\ Len(front) = p /\ \A k \in 1 .. p : front[k] = order[k]
      /\ rest \in Seq(Nat) /\ Len(rest) = Len(order) - p
      /\ \A k \in 1 .. Len(order) - p : rest[k] = order[p + k]
  <2>1. 1 \in Int /\ p \in Int /\ p + 1 \in Int /\ Len(order) \in Int
    BY <1>1, <1>3
  <2>2. /\ \A k \in 1 .. p : order[k] \in Nat
        /\ \A k \in p + 1 .. Len(order) : order[k] \in Nat
    BY <1>1, <1>3
  <2>3. /\ front \in Seq(Nat) /\ Len(front) = (IF 1 <= p THEN p - 1 + 1 ELSE 0)
        /\ \A k \in 1 .. p - 1 + 1 : front[k] = order[1 + k - 1]
    BY <2>1, <2>2, SubSeqProperties
  <2>4. /\ rest \in Seq(Nat)
        /\ Len(rest) = (IF p + 1 <= Len(order) THEN Len(order) - (p + 1) + 1 ELSE 0)
        /\ \A k \in 1 .. Len(order) - (p + 1) + 1 : rest[k] = order[p + 1 + k - 1]
    BY <2>1, <2>2, SubSeqProperties
  <2> HIDE DEF front, rest
  <2>5. Len(front) = p /\ Len(rest) = Len(order) - p
    <3>1. (IF 1 <= p THEN p - 1 + 1 ELSE 0) = p
      BY <1>1, <1>3
    <3>2. (IF p + 1 <= Len(order) THEN Len(order) - (p + 1) + 1 ELSE 0) = Len(order) - p
      <4>1. \A m \in Nat : \A q \in 0 .. m :
                (IF q + 1 <= m THEN m - (q + 1) + 1 ELSE 0) = m - q
        OBVIOUS
      <4>2. QED
        BY <1>1, <1>3, <4>1
    <3>3. QED
      BY <2>3, <2>4, <3>1, <3>2
  <2>6. \A k \in 1 .. p : front[k] = order[k]
    <3>1. \A k \in 1 .. p : k \in 1 .. p - 1 + 1 /\ 1 + k - 1 = k
      BY <1>3
    <3>2. QED
      BY <2>3, <3>1
  <2>7. \A k \in 1 .. Len(order) - p : rest[k] = order[p + k]
    <3>1. \A k \in 1 .. Len(order) - p :
              k \in 1 .. Len(order) - (p + 1) + 1 /\ p + 1 + k - 1 = p + k
      BY <1>1, <1>3
    <3>2. QED
      BY <2>4, <3>1
  <2>8. QED
    BY <2>3, <2>4, <2>5, <2>6, <2>7
<1>6. new = front \o <<i>> \o rest
  <2>1. (p + 1) - 1 = p
    BY <1>3
  <2>2. QED
    BY <2>1 DEF InsertAt
<1> HIDE DEF front, rest, new
<1> DEFINE begin == front \o <<i>>
<1>7. /\ begin \in Seq(Nat) /\ Len(begin) = p + 1
      /\ \A k \in 1 .. p : begin[k] = order[k]
      /\ begin[p + 1] = i
  <2>1. <<i>> \in Seq(Nat) /\ Len(<<i>>) = 1 /\ <<i>>[1] = i
    OBVIOUS
  <2>2. /\ begin \in Seq(Nat) /\ Len(begin) = p + 1
        /\ \A k \in 1 .. p + 1 : begin[k] = IF k <= p THEN front[k] ELSE <<i>>[k - p]
    BY <1>5, <2>1, ConcatProperties
  <2> HIDE DEF begin
  <2>3. \A k \in 1 .. p : k \in 1 .. p + 1 /\ k <= p
    BY <1>3
  <2>4. p + 1 \in 1 .. p + 1 /\ ~(p + 1 <= p) /\ (p + 1) - p = 1
    BY <1>3
  <2>5. QED
    BY <1>5, <2>1, <2>2, <2>3, <2>4
<1> HIDE DEF begin
<1>8. /\ new \in Seq(Nat) /\ Len(new) = Len(order) + 1
      /\ \A k \in 1 .. Len(order) + 1 :
          new[k] = IF k <= p THEN order[k] ELSE IF k = p + 1 THEN i ELSE order[k - 1]
  <2>1. /\ new \in Seq(Nat) /\ Len(new) = p + 1 + Len(rest)
        /\ \A k \in 1 .. p + 1 + Len(rest) :
              new[k] = IF k <= p + 1 THEN begin[k] ELSE rest[k - (p + 1)]
    <3>1. new = begin \o rest
      BY <1>6 DEF begin
    <3>2. /\ begin \o rest \in Seq(Nat) /\ Len(begin \o rest) = Len(begin) + Len(rest)
          /\ \A k \in 1 .. Len(begin) + Len(rest) :
                (begin \o rest)[k] = IF k <= Len(begin) THEN begin[k]
                                     ELSE rest[k - Len(begin)]
      BY <1>5, <1>7, ConcatProperties
    <3>3. Len(begin) = p + 1
      BY <1>7
    <3>4. QED
      BY <3>1, <3>2, <3>3
  <2>2. p + 1 + Len(rest) = Len(order) + 1
    BY <1>1, <1>3, <1>5
  <2>3. ASSUME NEW k \in 1 .. Len(order) + 1
        PROVE  new[k] = IF k <= p THEN order[k] ELSE IF k = p + 1 THEN i ELSE order[k - 1]
    <3>1. CASE k <= p
      BY <1>3, <1>7, <2>1, <2>2, <3>1
    <3>2. CASE k = p + 1
      BY <1>3, <1>7, <2>1, <2>2, <3>2
    <3>3. CASE k > p + 1
      <4>1. k - (p + 1) \in 1 .. Len(order) - p /\ p + (k - (p + 1)) = k - 1
        BY <1>1, <1>3, <3>3
      <4>2. new[k] = rest[k - (p + 1)]
        BY <1>1, <1>3, <2>1, <2>2, <3>3
      <4>3. new[k] = order[k - 1]
        BY <1>5, <4>1, <4>2
      <4>4. QED
        BY <1>3, <3>3, <4>3
    <3>4. QED
      BY <1>1, <1>3, <3>1, <3>2, <3>3
  <2>4. QED
    BY <2>1, <2>2, <2>3
<1>9. new = Inserted(order, p, i)
  BY <1>1, <1>8 DEF Inserted
<1>10. QED
  BY <1>3, <1>4, <1>8, <1>9

LEMMA InsertPermutes ==
    ASSUME NEW k \in Nat, NEW order \in Permutation(k), NEW p \in 0 .. k
    PROVE  Inserted(order, p, k + 1) \in Permutation(k + 1)
<1> DEFINE new == Inserted(order, p, k + 1)
<1>1. Len(order) = k
  BY DEF Permutation
<1>2. new = [j \in 1 .. k + 1 |->
                IF j <= p THEN order[j] ELSE IF j = p + 1 THEN k + 1 ELSE order[j - 1]]
  BY <1>1 DEF Inserted
<1> HIDE DEF new
<1>3. \A j \in 1 .. k : order[j] \in 1 .. k
  BY DEF Permutation
<1>4. new \in [1 .. k + 1 -> 1 .. k + 1]
  BY <1>2, <1>3
<1>5. ASSUME NEW i \in 1 .. k + 1, NEW j \in 1 .. k + 1, new[i] = new[j]
      PROVE  i = j
  <2>1. \A x, y \in 1 .. k : order[x] = order[y] => x = y
    BY DEF Permutation
  <2>2. QED
    BY <1>2, <1>3, <1>5, <2>1
<1>6. ASSUME NEW j \in 1 .. k + 1
      PROVE  \E i \in 1 .. k + 1 : new[i] = j
  <2>1. CASE j = k + 1
    BY <1>2, <2>1
  <2>2. CASE j # k + 1
    <3>1. PICK x \in 1 .. k : order[x] = j
      BY <2>2 DEF Permutation
    <3>2. CASE x <= p
      BY <1>2, <3>1, <3>2
    <3>3. CASE ~(x <= p)
      <4>1. x + 1 \in 1 .. k + 1 /\ new[x + 1] = j
        BY <1>2, <3>1, <3>3
      <4>2. QED
        BY <4>1
    <3>4. QED
      BY <3>2, <3>3
  <2>3. QED
    BY <2>1, <2>2
<1>7. QED
  BY <1>4, <1>5, <1>6 DEF Permutation, new

(* The order after each of the insertions.                                 *)
Insertions(after, n, less) ==
    /\ after \in [0 .. n -> Seq(Nat)]
    /\ after[0] = <<>>
    /\ after[n] = InsertionOrder(n, less)
    /\ \A i \in 1 .. n : after[i] = Insert(after[i - 1], i, less)

LEMMA InsertSteps ==
    ASSUME NEW n \in Nat, NEW less
    PROVE  \E after : Insertions(after, n, less)
<1> DEFINE T == Seq(Nat)
           seq == [i \in 1 .. n |-> i]
           Folds(f) == f = [s \in SUBSET DOMAIN seq |->
                               IF s = {} THEN <<>>
                               ELSE Insert(f[s \ {Max(s)}], seq[Max(s)], less)]
           step == [p \in T \X (1 .. n) |-> Insert(p[1], p[2], less)]
           fold == CHOOSE f : Folds(f)
<1>1. DOMAIN seq = 1 .. n /\ \A i \in 1 .. n : seq[i] = i
  OBVIOUS
<1>2. /\ step \in Steps(T, n) /\ <<>> \in T
      /\ \A t \in T, i \in 1 .. n : step[<<t, i>>] = Insert(t, i, less)
  BY InsertSomewhere DEF Steps
<1>3. FoldLeft(LAMBDA order, i : Insert(order, i, less), <<>>, seq) = fold[DOMAIN seq]
  BY DEF FoldLeft, MapThenFoldSet
<1> HIDE DEF step, T
<1>4. PICK f : FoldsOver(f, n, T, <<>>, step)
  BY <1>2, FoldExists
<1>5. Folds(f)
  <2>1. ASSUME NEW s \in SUBSET (1 .. n)
        PROVE  f[s] = IF s = {} THEN <<>> ELSE Insert(f[s \ {Max(s)}], seq[Max(s)], less)
    <3>1. CASE s = {}
      BY <1>4, <3>1 DEF FoldsOver
    <3>2. CASE s # {}
      <4>1. Max(s) \in 1 .. n /\ s \ {Max(s)} \in SUBSET (1 .. n)
        BY <3>2, MaxOfSubset
      <4>2. f[s \ {Max(s)}] \in T /\ f[s] = step[<<f[s \ {Max(s)}], Max(s)>>]
        BY <1>4, <3>2, <4>1 DEF FoldsOver
      <4>3. seq[Max(s)] = Max(s)
        BY <4>1
      <4>4. QED
        BY <1>2, <3>2, <4>1, <4>2, <4>3
    <3>3. QED
      BY <3>1, <3>2
  <2>2. QED
    BY <1>1, <1>4, <2>1 DEF FoldsOver
<1>6. Folds(fold)
  <2> HIDE DEF Folds
  <2>1. QED
    BY <1>5, Zenon
<1> HIDE DEF fold
<1>7. FoldsWithin(fold, n, T, <<>>, step)
  <2>1. fold[{}] = <<>>
    BY <1>6
  <2>2. ASSUME NEW s \in SUBSET (1 .. n), s # {}, fold[s \ {Max(s)}] \in T
        PROVE  fold[s] = step[<<fold[s \ {Max(s)}], Max(s)>>]
    <3>1. Max(s) \in 1 .. n
      BY <2>2, MaxOfSubset
    <3>2. seq[Max(s)] = Max(s)
      BY <3>1
    <3>3. fold[s] = Insert(fold[s \ {Max(s)}], seq[Max(s)], less)
      BY <1>1, <1>6, <2>2
    <3>4. QED
      BY <1>2, <2>2, <3>1, <3>2, <3>3
  <2>3. QED
    BY <2>1, <2>2 DEF FoldsWithin
<1>8. PICK after : Runs(after, n, T, <<>>, step) /\ after[n] = fold[1 .. n]
  BY <1>2, <1>7, FoldRuns
<1>9. InsertionOrder(n, less) = fold[1 .. n]
  BY <1>1, <1>3 DEF InsertionOrder
<1>10. Insertions(after, n, less)
  <2>1. \A i \in 1 .. n : i - 1 \in 0 .. n
    OBVIOUS
  <2>2. QED
    BY <1>2, <1>8, <1>9, <2>1 DEF Runs, Insertions, T
<1>11. QED
  BY <1>10

LEMMA OrderPermutes ==
    ASSUME NEW n \in Nat, NEW less
    PROVE  InsertionOrder(n, less) \in Permutation(n)
<1>1. PICK after : Insertions(after, n, less)
  BY InsertSteps
<1> DEFINE Done == {k \in Nat : k <= n => after[k] \in Permutation(k)}
<1>2. 0 \in Done
  BY <1>1 DEF Insertions, Permutation
<1>3. ASSUME NEW k \in Nat, k \in Done
      PROVE  k + 1 \in Done
  <2> SUFFICES ASSUME k + 1 <= n
               PROVE  after[k + 1] \in Permutation(k + 1)
    OBVIOUS
  <2>1. after[k] \in Permutation(k) /\ k + 1 \in 1 .. n /\ (k + 1) - 1 = k /\ k \in 0 .. n
    BY <1>3
  <2>2. after[k] \in Seq(Nat) /\ Len(after[k]) = k
    BY <1>1, <2>1 DEF Insertions, Permutation
  <2>3. after[k + 1] = Insert(after[k], k + 1, less)
    BY <1>1, <2>1 DEF Insertions
  <2>4. PICK p \in 0 .. k : after[k + 1] = Inserted(after[k], p, k + 1)
    BY <2>2, <2>3, InsertSomewhere
  <2>5. QED
    BY <2>1, <2>4, InsertPermutes
<1> HIDE DEF Done
<1>4. n \in Done
  BY <1>2, <1>3, SetInduction
<1>5. QED
  BY <1>1, <1>4 DEF Done, Insertions
Rearranged(seq, o) == [i \in DOMAIN seq |-> seq[o[i]]]

LEMMA RearrangedStays ==
    ASSUME NEW S, NEW seq \in Seq(S), NEW o \in Permutation(Len(seq))
    PROVE  /\ Rearranged(seq, o) \in Seq(S)
           /\ DOMAIN Rearranged(seq, o) = DOMAIN seq
           /\ \A i \in DOMAIN seq : o[i] \in DOMAIN seq /\ Rearranged(seq, o)[i] = seq[o[i]]
<1>1. \A i \in DOMAIN seq : o[i] \in DOMAIN seq
  BY DEF Permutation
<1>2. QED
  BY <1>1 DEF Rearranged

(* What sorting does to a group, a constraint, a template and an answer.   *)
LEMMA GroupSorted ==
    ASSUME NEW vg \in ViolationGroup
    PROVE  \E o \in Permutation(Len(vg.instances)) :
              SortGroup(vg) = [vg EXCEPT !.instances = Rearranged(vg.instances, o)]
<1> DEFINE seq == vg.instances
           positions == DOMAIN seq
           less == {p \in positions \X positions : Before(seq[p[1]], seq[p[2]])}
           o == InsertionOrder(Len(seq), less)
<1>1. seq \in Seq(Violation)
  BY DEF ViolationGroup, NonEmpty
<1>2. Sorted(seq, Before) = [i \in positions |-> seq[o[i]]]
  BY DEF Sorted
<1> HIDE DEF less
<1>3. o \in Permutation(Len(seq))
  BY <1>1, OrderPermutes
<1> HIDE DEF o
<1>4. SortGroup(vg) = [vg EXCEPT !.instances = Rearranged(seq, o)]
  BY <1>2 DEF SortGroup, Rearranged
<1>5. QED
  BY <1>3, <1>4

LEMMA ConstraintSorted ==
    ASSUME NEW S, NEW rc, rc.groups \in Seq(S)
    PROVE  \E o \in Permutation(Len(rc.groups)) :
              SortConstraint(rc) =
                  [rc EXCEPT !.groups = [i \in DOMAIN rc.groups |-> SortGroup(rc.groups[o[i]])]]
<1> DEFINE seq == rc.groups
           positions == DOMAIN seq
           less == {p \in positions \X positions : Before(seq[p[1]].pattern, seq[p[2]].pattern)}
           o == InsertionOrder(Len(seq), less)
           sorted == Sorted(seq, LAMBDA x, y : Before(x.pattern, y.pattern))
<1>1. sorted = [i \in positions |-> seq[o[i]]]
  BY DEF Sorted
<1> HIDE DEF less
<1>2. o \in Permutation(Len(seq))
  BY OrderPermutes
<1> HIDE DEF o
<1>3. SortConstraint(rc) = [rc EXCEPT !.groups = [i \in DOMAIN sorted |-> SortGroup(sorted[i])]]
  BY DEF SortConstraint
<1> HIDE DEF sorted
<1>4. [i \in DOMAIN sorted |-> SortGroup(sorted[i])] =
         [i \in positions |-> SortGroup(seq[o[i]])]
  BY <1>1
<1>5. QED
  BY <1>2, <1>3, <1>4

LEMMA TemplateSorted ==
    ASSUME NEW S, NEW rt, rt.constraints \in Seq(S)
    PROVE  \E o \in Permutation(Len(rt.constraints)) :
              SortTemplate(rt) =
                  [rt EXCEPT !.constraints =
                      [i \in DOMAIN rt.constraints |-> SortConstraint(rt.constraints[o[i]])]]
<1> DEFINE seq == rt.constraints
           positions == DOMAIN seq
           less == {p \in positions \X positions : seq[p[1]].name < seq[p[2]].name}
           o == InsertionOrder(Len(seq), less)
           sorted == Sorted(seq, LAMBDA x, y : x.name < y.name)
<1>1. sorted = [i \in positions |-> seq[o[i]]]
  BY DEF Sorted
<1> HIDE DEF less
<1>2. o \in Permutation(Len(seq))
  BY OrderPermutes
<1> HIDE DEF o
<1>3. SortTemplate(rt) =
         [rt EXCEPT !.constraints = [i \in DOMAIN sorted |-> SortConstraint(sorted[i])]]
  BY DEF SortTemplate
<1> HIDE DEF sorted
<1>4. [i \in DOMAIN sorted |-> SortConstraint(sorted[i])] =
         [i \in positions |-> SortConstraint(seq[o[i]])]
  BY <1>1
<1>5. QED
  BY <1>2, <1>3, <1>4

LEMMA TemplatesSorted ==
    ASSUME NEW S, NEW rts \in Seq(S)
    PROVE  \E o \in Permutation(Len(rts)) :
              SortTemplates(rts) = [i \in DOMAIN rts |-> SortTemplate(rts[o[i]])]
<1> DEFINE positions == DOMAIN rts
           less == {p \in positions \X positions : rts[p[1]].kind < rts[p[2]].kind}
           o == InsertionOrder(Len(rts), less)
           sorted == Sorted(rts, LAMBDA x, y : x.kind < y.kind)
<1>1. sorted = [i \in positions |-> rts[o[i]]]
  BY DEF Sorted
<1> HIDE DEF less
<1>2. o \in Permutation(Len(rts))
  BY OrderPermutes
<1> HIDE DEF o
<1>3. SortTemplates(rts) = [i \in DOMAIN sorted |-> SortTemplate(sorted[i])]
  BY DEF SortTemplates
<1> HIDE DEF sorted
<1>4. [i \in DOMAIN sorted |-> SortTemplate(sorted[i])] =
         [i \in positions |-> SortTemplate(rts[o[i]])]
  BY <1>1
<1>5. QED
  BY <1>2, <1>3, <1>4

(* An answer stays what it is when it is sorted.                           *)
MergedConstraint == ConstraintsWith(GroupLists \ {<<>>})
MergedTemplate == TemplatesWith(ConstraintLists \ {<<>>})

LEMMA SortGroupStays ==
    ASSUME NEW vg \in ViolationGroup
    PROVE  SortGroup(vg) \in ViolationGroup /\ SortGroup(vg).pattern = vg.pattern
<1>1. PICK o \in Permutation(Len(vg.instances)) :
          SortGroup(vg) = [vg EXCEPT !.instances = Rearranged(vg.instances, o)]
  BY GroupSorted
<1>2. vg.instances \in Seq(Violation) /\ vg.instances # <<>>
  BY DEF ViolationGroup, NonEmpty
<1>3. /\ Rearranged(vg.instances, o) \in Seq(Violation)
      /\ DOMAIN Rearranged(vg.instances, o) = DOMAIN vg.instances
  BY <1>2, RearrangedStays
<1>4. Rearranged(vg.instances, o) \in NonEmpty(Violation)
  BY <1>2, <1>3 DEF NonEmpty
<1>5. QED
  BY <1>1, <1>4 DEF ViolationGroup

LEMMA SortConstraintStays ==
    ASSUME NEW rc \in MergedConstraint
    PROVE  /\ SortConstraint(rc) \in MergedConstraint
           /\ SortConstraint(rc).name = rc.name /\ SortConstraint(rc).metadata = rc.metadata
<1> DEFINE vgs == rc.groups
<1>1. vgs \in GroupLists /\ vgs \in Seq(ViolationGroup) /\ vgs # <<>>
  BY DEF MergedConstraint, ConstraintsWith, GroupLists
<1>2. PICK o \in Permutation(Len(vgs)) :
          SortConstraint(rc) =
              [rc EXCEPT !.groups = [i \in DOMAIN vgs |-> SortGroup(vgs[o[i]])]]
  BY <1>1, ConstraintSorted
<1> DEFINE new == [i \in DOMAIN vgs |-> SortGroup(vgs[o[i]])]
<1>3. \A i \in DOMAIN vgs : o[i] \in DOMAIN vgs
  BY <1>1 DEF Permutation
<1>4. \A i \in DOMAIN vgs :
          new[i] \in ViolationGroup /\ new[i].pattern = vgs[o[i]].pattern
  BY <1>1, <1>3, SortGroupStays
<1>5. new \in Seq(ViolationGroup) /\ DOMAIN new = DOMAIN vgs /\ new # <<>>
  <2>1. DOMAIN vgs = 1 .. Len(vgs) /\ Len(vgs) \in Nat /\ Len(vgs) # 0
    BY <1>1
  <2>2. new \in [1 .. Len(vgs) -> ViolationGroup]
    BY <1>4, <2>1
  <2> HIDE DEF new
  <2>3. DOMAIN new = DOMAIN vgs /\ DOMAIN new # {}
    <3>1. 1 \in 1 .. Len(vgs)
      BY <2>1
    <3>2. DOMAIN new = 1 .. Len(vgs)
      BY <2>2
    <3>3. QED
      BY <2>1, <3>1, <3>2
  <2>4. new \in Seq(ViolationGroup)
    BY <2>1, <2>2
  <2>5. QED
    BY <2>3, <2>4
<1> HIDE DEF new
<1>6. \A g, h \in DOMAIN new : new[g].pattern = new[h].pattern => g = h
  <2>1. DOMAIN vgs = 1 .. Len(vgs)
    BY <1>1
  <2>2. \A g, h \in DOMAIN vgs : vgs[g].pattern = vgs[h].pattern => g = h
    BY <1>1 DEF GroupLists
  <2>3. \A g, h \in DOMAIN vgs : o[g] = o[h] => g = h
    BY <2>1 DEF Permutation
  <2> SUFFICES ASSUME NEW g \in DOMAIN vgs, NEW h \in DOMAIN vgs, new[g].pattern = new[h].pattern
               PROVE  g = h
    BY <1>5
  <2>4. vgs[o[g]].pattern = vgs[o[h]].pattern
    BY <1>4
  <2>5. QED
    BY <1>3, <2>2, <2>3, <2>4
<1>7. new \in GroupLists \ {<<>>}
  BY <1>5, <1>6 DEF GroupLists
<1>8. SortConstraint(rc) = [rc EXCEPT !.groups = new]
  BY <1>2 DEF new
<1>9. QED
  BY <1>7, <1>8 DEF MergedConstraint, ConstraintsWith

LEMMA SortTemplateStays ==
    ASSUME NEW rt \in MergedTemplate
    PROVE  SortTemplate(rt) \in MergedTemplate /\ SortTemplate(rt).kind = rt.kind
<1> DEFINE rcs == rt.constraints
<1>1. rcs \in ConstraintLists /\ rcs \in Seq(MergedConstraint) /\ rcs # <<>>
  BY DEF MergedTemplate, TemplatesWith, ConstraintLists, MergedConstraint
<1>2. PICK o \in Permutation(Len(rcs)) :
          SortTemplate(rt) =
              [rt EXCEPT !.constraints = [i \in DOMAIN rcs |-> SortConstraint(rcs[o[i]])]]
  BY <1>1, TemplateSorted
<1> DEFINE new == [i \in DOMAIN rcs |-> SortConstraint(rcs[o[i]])]
<1>3. \A i \in DOMAIN rcs : o[i] \in DOMAIN rcs
  BY <1>1 DEF Permutation
<1>4. \A i \in DOMAIN rcs :
          /\ new[i] \in MergedConstraint
          /\ new[i].name = rcs[o[i]].name /\ new[i].metadata = rcs[o[i]].metadata
  BY <1>1, <1>3, SortConstraintStays
<1>5. new \in Seq(MergedConstraint) /\ DOMAIN new = DOMAIN rcs /\ new # <<>>
  <2>1. DOMAIN rcs = 1 .. Len(rcs) /\ Len(rcs) \in Nat /\ Len(rcs) # 0
    BY <1>1
  <2>2. new \in [1 .. Len(rcs) -> MergedConstraint]
    BY <1>4, <2>1
  <2> HIDE DEF new
  <2>3. DOMAIN new = DOMAIN rcs /\ DOMAIN new # {}
    <3>1. 1 \in 1 .. Len(rcs)
      BY <2>1
    <3>2. DOMAIN new = 1 .. Len(rcs)
      BY <2>2
    <3>3. QED
      BY <2>1, <3>1, <3>2
  <2>4. new \in Seq(MergedConstraint)
    BY <2>1, <2>2
  <2>5. QED
    BY <2>3, <2>4
<1> HIDE DEF new
<1>6. \A c, d \in DOMAIN new :
          new[c].name = new[d].name /\ new[c].metadata = new[d].metadata => c = d
  <2>1. DOMAIN rcs = 1 .. Len(rcs)
    BY <1>1
  <2>2. \A c, d \in DOMAIN rcs : rcs[c].name = rcs[d].name /\ rcs[c].metadata = rcs[d].metadata => c = d
    BY <1>1 DEF ConstraintLists
  <2>3. \A c, d \in DOMAIN rcs : o[c] = o[d] => c = d
    BY <2>1 DEF Permutation
  <2> SUFFICES ASSUME NEW c \in DOMAIN rcs, NEW d \in DOMAIN rcs, new[c].name = new[d].name /\ new[c].metadata = new[d].metadata
               PROVE  c = d
    BY <1>5
  <2>4. rcs[o[c]].name = rcs[o[d]].name /\ rcs[o[c]].metadata = rcs[o[d]].metadata
    BY <1>4
  <2>5. QED
    BY <1>3, <2>2, <2>3, <2>4
<1>7. \A c \in DOMAIN new : Unaudited(new[c])
  BY <1>1, <1>3, <1>4, <1>5, SMTT(30) DEF ConstraintLists, Unaudited
<1>8. new \in ConstraintLists \ {<<>>}
  BY <1>5, <1>6, <1>7 DEF ConstraintLists, MergedConstraint
<1>9. SortTemplate(rt) = [rt EXCEPT !.constraints = new]
  BY <1>2 DEF new
<1>10. QED
  BY <1>8, <1>9 DEF MergedTemplate, TemplatesWith

LEMMA SortTemplatesStays ==
    ASSUME NEW rts \in TemplateLists
    PROVE  SortTemplates(rts) \in TemplateLists
<1>1. rts \in Seq(MergedTemplate)
  BY DEF TemplateLists, MergedTemplate
<1>2. PICK o \in Permutation(Len(rts)) :
          SortTemplates(rts) = [i \in DOMAIN rts |-> SortTemplate(rts[o[i]])]
  BY <1>1, TemplatesSorted
<1> DEFINE new == [i \in DOMAIN rts |-> SortTemplate(rts[o[i]])]
<1>3. \A i \in DOMAIN rts : o[i] \in DOMAIN rts
  BY <1>1 DEF Permutation
<1>4. \A i \in DOMAIN rts : new[i] \in MergedTemplate /\ new[i].kind = rts[o[i]].kind
  BY <1>1, <1>3, SortTemplateStays
<1>5. new \in Seq(MergedTemplate) /\ DOMAIN new = DOMAIN rts
  BY <1>1, <1>4
<1>6. SortTemplates(rts) = new
  BY <1>2
<1> HIDE DEF new
<1>7. \A t, u \in DOMAIN new : new[t].kind = new[u].kind => t = u
  <2>1. DOMAIN rts = 1 .. Len(rts)
    BY <1>1
  <2>2. \A t, u \in DOMAIN rts : rts[t].kind = rts[u].kind => t = u
    BY DEF TemplateLists
  <2>3. \A t, u \in DOMAIN rts : o[t] = o[u] => t = u
    BY <2>1 DEF Permutation
  <2> SUFFICES ASSUME NEW t \in DOMAIN rts, NEW u \in DOMAIN rts, new[t].kind = new[u].kind
               PROVE  t = u
    BY <1>5
  <2>4. rts[o[t]].kind = rts[o[u]].kind
    BY <1>4
  <2>5. QED
    BY <1>3, <2>2, <2>3, <2>4
<1>8. new \in TemplateLists
  BY <1>5, <1>7 DEF TemplateLists, MergedTemplate
<1>9. QED
  BY <1>6, <1>8

-----------------------------------------------------------------------------
(* Marking a report with the name of its cluster changes no type, and not  *)
(* the identity.                                                           *)
LEMMA SetClusterNameStays ==
    ASSUME NEW report \in Report, NEW n \in Text
    PROVE  /\ SetClusterName(report, n) \in Report
           /\ SetClusterName(report, n).identity = report.identity
<1> DEFINE inInstance(v) == [v EXCEPT !.cluster = n]
           inGroup(vg) == [vg EXCEPT !.instances = [i \in DOMAIN @ |-> inInstance(@[i])]]
           inConstraint(rc) == [rc EXCEPT !.groups = [i \in DOMAIN @ |-> inGroup(@[i])]]
           inTemplate(rt) == [rt EXCEPT !.constraints = [i \in DOMAIN @ |-> inConstraint(@[i])]]
<1>1. SetClusterName(report, n) =
         [report EXCEPT !.templates = [i \in DOMAIN @ |-> inTemplate(@[i])]]
  BY DEF SetClusterName
<1>2. \A v \in Violation : inInstance(v) \in Violation
  BY DEF Violation
<1> HIDE DEF inInstance
<1>3. ASSUME NEW vg \in ViolationGroup
      PROVE  inGroup(vg) \in ViolationGroup
  <2>1. vg.instances \in Seq(Violation) /\ vg.instances # <<>>
    BY DEF ViolationGroup, NonEmpty
  <2> DEFINE new == [i \in DOMAIN vg.instances |-> inInstance(vg.instances[i])]
  <2>2. new \in Seq(Violation) /\ new # <<>>
    BY <1>2, <2>1
  <2> HIDE DEF new
  <2>3. [vg EXCEPT !.instances = new] \in ViolationGroup
    BY <2>2 DEF ViolationGroup, NonEmpty
  <2>4. QED
    BY <2>3 DEF new
<1> HIDE DEF inGroup
<1>4. ASSUME NEW rc \in ReportForConstraint
      PROVE  inConstraint(rc) \in ReportForConstraint
  <2>1. rc.groups \in Seq(ViolationGroup)
    BY DEF ReportForConstraint, ConstraintsWith
  <2> DEFINE new == [i \in DOMAIN rc.groups |-> inGroup(rc.groups[i])]
  <2>2. new \in Seq(ViolationGroup)
    BY <1>3, <2>1
  <2> HIDE DEF new
  <2>3. [rc EXCEPT !.groups = new] \in ReportForConstraint
    BY <2>2 DEF ReportForConstraint, ConstraintsWith
  <2>4. QED
    BY <2>3 DEF new
<1> HIDE DEF inConstraint
<1>5. ASSUME NEW rt \in ReportForTemplate
      PROVE  inTemplate(rt) \in ReportForTemplate
  <2>1. rt.constraints \in Seq(ReportForConstraint)
    BY DEF ReportForTemplate, TemplatesWith
  <2> DEFINE new == [i \in DOMAIN rt.constraints |-> inConstraint(rt.constraints[i])]
  <2>2. new \in Seq(ReportForConstraint)
    BY <1>4, <2>1
  <2> HIDE DEF new
  <2>3. [rt EXCEPT !.constraints = new] \in ReportForTemplate
    BY <2>2 DEF ReportForTemplate, TemplatesWith
  <2>4. QED
    BY <2>3 DEF new
<1> HIDE DEF inTemplate
<1>6. report.templates \in Seq(ReportForTemplate)
  BY DEF Report
<1> DEFINE new == [i \in DOMAIN report.templates |-> inTemplate(report.templates[i])]
<1>7. new \in Seq(ReportForTemplate)
  BY <1>5, <1>6
<1>8. SetClusterName(report, n) = [report EXCEPT !.templates = new]
  BY <1>1
<1> HIDE DEF new
<1>9. QED
  BY <1>7, <1>8 DEF Report

-----------------------------------------------------------------------------
(* The inductive invariant of an answer and of a scrape: the answer is     *)
(* merged completely at every moment.                                      *)
MatchingClusters == {n \in Visited : MatchIdentity(filter.cluster, stored[n].identity)}

IdentitiesGiven == identities = [n \in MatchingClusters |-> stored[n].identity]

AnswerInv ==
    /\ stored \in [Clusters -> Reports]
    /\ filter \in Filters
    /\ todo \subseteq Clusters
    /\ phase \in {"visiting", "sorted"}
    /\ IdentitiesGiven
    /\ templates \in TemplateLists

LEMMA ListsAreTyped ==
    TemplateLists \subseteq
        Seq(TemplatesWith(NonEmpty(ConstraintsWith(NonEmpty(ViolationGroup)))))
<1>1. GroupLists \ {<<>>} \subseteq NonEmpty(ViolationGroup)
  BY DEF GroupLists, NonEmpty
<1>2. MergedConstraint \subseteq ConstraintsWith(NonEmpty(ViolationGroup))
  BY <1>1 DEF MergedConstraint, ConstraintsWith
<1>3. Seq(MergedConstraint) \subseteq Seq(ConstraintsWith(NonEmpty(ViolationGroup)))
  BY <1>2, SeqMonotonic
<1>4. ConstraintLists \ {<<>>} \subseteq NonEmpty(ConstraintsWith(NonEmpty(ViolationGroup)))
  BY <1>3 DEF ConstraintLists, MergedConstraint, NonEmpty
<1>5. MergedTemplate \subseteq
         TemplatesWith(NonEmpty(ConstraintsWith(NonEmpty(ViolationGroup))))
  BY <1>4 DEF MergedTemplate, TemplatesWith
<1>6. Seq(MergedTemplate) \subseteq
         Seq(TemplatesWith(NonEmpty(ConstraintsWith(NonEmpty(ViolationGroup)))))
  BY <1>5, SeqMonotonic
<1>7. QED
  BY <1>6 DEF TemplateLists, MergedTemplate

LEMMA AnswerInvMeans ==
    AnswerInv => TypeOK /\ IdentitiesOfMatchingClusters /\ MergedCompletely
<1> SUFFICES ASSUME AnswerInv
             PROVE  TypeOK /\ IdentitiesOfMatchingClusters /\ MergedCompletely
  OBVIOUS
<1>1. IdentitiesOfMatchingClusters
  BY DEF AnswerInv, IdentitiesGiven, MatchingClusters, IdentitiesOfMatchingClusters
<1>2. DOMAIN identities \subseteq Visited
  BY DEF AnswerInv, IdentitiesGiven, MatchingClusters
<1>3. TypeOK
  BY <1>2, ListsAreTyped DEF AnswerInv, TypeOK
<1>4. templates \in TemplateLists
  BY DEF AnswerInv
<1>5. templates \in Seq(MergedTemplate)
  BY <1>4 DEF TemplateLists, MergedTemplate
<1>6. ASSUME NEW rt \in ToSet(templates)
      PROVE  rt.constraints \in ConstraintLists
  <2>1. rt \in MergedTemplate
    BY <1>5 DEF ToSet
  <2>2. QED
    BY <2>1 DEF MergedTemplate, TemplatesWith
<1>7. ASSUME NEW rt \in ToSet(templates), NEW rc \in ToSet(rt.constraints)
      PROVE  rc.groups \in GroupLists
  <2>1. rt.constraints \in Seq(MergedConstraint)
    BY <1>6 DEF ConstraintLists, MergedConstraint
  <2>2. rc \in MergedConstraint
    BY <2>1 DEF ToSet
  <2>3. QED
    BY <2>2 DEF MergedConstraint, ConstraintsWith
<1>8. MergedCompletely
  <2>1. \A t, u \in DOMAIN templates : templates[t].kind = templates[u].kind => t = u
    BY <1>4 DEF TemplateLists
  <2>2. ASSUME NEW rt \in ToSet(templates)
        PROVE  \A c, d \in DOMAIN rt.constraints :
                  rt.constraints[c].name = rt.constraints[d].name
                  /\ rt.constraints[c].metadata = rt.constraints[d].metadata => c = d
    BY <1>6 DEF ConstraintLists
  <2>3. ASSUME NEW rt \in ToSet(templates), NEW rc \in ToSet(rt.constraints)
        PROVE  \A g, h \in DOMAIN rc.groups :
                  rc.groups[g].pattern = rc.groups[h].pattern => g = h
    BY <1>7 DEF GroupLists
  <2>4. QED
    BY <2>1, <2>2, <2>3 DEF MergedCompletely
<1>9. QED
  BY <1>1, <1>3, <1>8

LEMMA InitAnswerInv == Init => AnswerInv
<1> SUFFICES ASSUME Init PROVE AnswerInv
  OBVIOUS
<1>1. Visited = {}
  BY DEF Init, Visited
<1>2. IdentitiesGiven
  BY <1>1 DEF Init, IdentitiesGiven, MatchingClusters
<1>3. templates \in TemplateLists
  BY DEF Init, TemplateLists
<1>4. QED
  BY <1>2, <1>3 DEF Init, AnswerInv

LEMMA VisitKeepsAnswerInv ==
    ASSUME AnswerInv, NEW n \in Clusters, VisitClusterReport(n)
    PROVE  AnswerInv'
<1> DEFINE report == SetClusterName(stored[n], n)
<1>1. stored[n] \in Report /\ n \in Text
  BY ReportsAssumption DEF AnswerInv
<1>2. report \in Report /\ report.identity = stored[n].identity
  BY <1>1, SetClusterNameStays
<1> HIDE DEF report
<1>3. /\ n \in todo /\ todo' = todo \ {n}
      /\ IF MatchIdentity(filter.cluster, report.identity)
         THEN /\ identities' = Identified(n, report.identity)
              /\ templates' = FoldLeft(VisitTemplateReport, templates, report.templates)
         ELSE UNCHANGED <<identities, templates>>
      /\ UNCHANGED <<stored, filter, phase>>
  BY DEF VisitClusterReport, report
<1>4. Visited' = Visited \cup {n} /\ n \notin Visited
  BY <1>3 DEF Visited, AnswerInv
<1>5. templates' \in TemplateLists
  <2>1. templates \in TemplateLists /\ report.templates \in Seq(ReportForTemplate)
    BY <1>2 DEF AnswerInv, Report
  <2>2. FoldLeft(VisitTemplateReport, templates, report.templates) \in TemplateLists
    BY <2>1, VisitTemplates
  <2>3. QED
    BY <1>3, <2>1, <2>2
<1>6. IdentitiesGiven'
  <2>1. MatchingClusters' = IF MatchIdentity(filter.cluster, stored[n].identity)
                            THEN MatchingClusters \cup {n} ELSE MatchingClusters
    <3>1. MatchingClusters' =
             {m \in Visited' : MatchIdentity(filter.cluster, stored[m].identity)}
      BY <1>3 DEF MatchingClusters, MatchIdentity, Match
    <3>2. QED
      BY <1>4, <3>1 DEF MatchingClusters
  <2>2. CASE MatchIdentity(filter.cluster, stored[n].identity)
    <3>1. identities' = Identified(n, stored[n].identity)
      BY <1>2, <1>3, <2>2
    <3>2. identities = [m \in MatchingClusters |-> stored[m].identity]
      BY DEF AnswerInv, IdentitiesGiven
    <3>3. n \notin MatchingClusters
      BY <1>4 DEF MatchingClusters
    <3>4. identities' = [m \in MatchingClusters \cup {n} |-> stored[m].identity]
      BY <3>1, <3>2, <3>3 DEF Identified
    <3>5. QED
      BY <1>3, <2>1, <2>2, <3>4 DEF IdentitiesGiven
  <2>3. CASE ~MatchIdentity(filter.cluster, stored[n].identity)
    BY <1>2, <1>3, <2>1, <2>3 DEF IdentitiesGiven, AnswerInv
  <2>4. QED
    BY <2>2, <2>3
<1>7. QED
  BY <1>3, <1>5, <1>6 DEF AnswerInv

LEMMA SortKeepsAnswerInv ==
    ASSUME AnswerInv, Sort
    PROVE  AnswerInv'
<1>1. templates' \in TemplateLists
  BY SortTemplatesStays DEF AnswerInv, Sort
<1>2. IdentitiesGiven'
  BY DEF AnswerInv, Sort, IdentitiesGiven, MatchingClusters, Visited, MatchIdentity, Match
<1>3. QED
  BY <1>1, <1>2 DEF AnswerInv, Sort

LEMMA StutterKeepsAnswerInv ==
    ASSUME AnswerInv, UNCHANGED vars
    PROVE  AnswerInv'
<1>1. IdentitiesGiven'
  BY DEF AnswerInv, vars, IdentitiesGiven, MatchingClusters, Visited, MatchIdentity, Match
<1>2. QED
  BY <1>1 DEF AnswerInv, vars

LEMMA NextKeepsAnswerInv ==
    ASSUME AnswerInv, [MetricsNext]_metricVars
    PROVE  AnswerInv'
<1>1. CASE Answer
  BY <1>1, VisitKeepsAnswerInv, SortKeepsAnswerInv DEF Answer, Next
<1>2. CASE GetReportsFails
  BY <1>2, StutterKeepsAnswerInv DEF GetReportsFails
<1>3. CASE SendAges
  BY <1>3, StutterKeepsAnswerInv DEF SendAges
<1>4. ASSUME NEW n \in Clusters, Gather(n)
      PROVE  AnswerInv'
  BY <1>4, VisitKeepsAnswerInv DEF Gather
<1>5. ASSUME NEW k \in ToCount, CountViolations(k[1], k[2])
      PROVE  AnswerInv'
  BY <1>5, StutterKeepsAnswerInv DEF CountViolations
<1>6. CASE FinishScrape
  BY <1>6, StutterKeepsAnswerInv DEF FinishScrape
<1>7. CASE UNCHANGED metricVars
  BY <1>7, StutterKeepsAnswerInv DEF metricVars
<1>8. QED
  BY <1>1, <1>2, <1>3, <1>4, <1>5, <1>6, <1>7 DEF MetricsNext

LEMMA AnswerInvariant == MetricsSpec => []AnswerInv
<1>1. MetricsInit => AnswerInv
  BY InitAnswerInv DEF MetricsInit
<1>2. AnswerInv /\ [MetricsNext]_metricVars => AnswerInv'
  BY NextKeepsAnswerInv
<1>3. QED
  BY <1>1, <1>2, PTL DEF MetricsSpec

(* An answer is made of lists that are nowhere empty, and what it says of  *)
(* the clusters is about visited ones (aggregate.go:46-66, 80-100).        *)
THEOREM AnswerTyped == MetricsSpec => []TypeOK
<1>1. AnswerInv => TypeOK
  BY AnswerInvMeans
<1>2. QED
  BY <1>1, AnswerInvariant, PTL

(* The identities given are those of the visited clusters that the filter  *)
(* matches, with violations or without (aggregate.go:31-35).               *)
THEOREM ClustersIdentified == MetricsSpec => []IdentitiesOfMatchingClusters
<1>1. AnswerInv => IdentitiesOfMatchingClusters
  BY AnswerInvMeans
<1>2. QED
  BY <1>1, AnswerInvariant, PTL

(* No two templates of an answer have one kind, no two constraints of a    *)
(* template one name and metadata, no two groups one pattern, whatever the *)
(* reports repeat, in whatever order they are visited.                     *)
THEOREM AnswerMerged == MetricsSpec => []MergedCompletely
<1>1. AnswerInv => MergedCompletely
  BY AnswerInvMeans
<1>2. QED
  BY <1>1, AnswerInvariant, PTL

-----------------------------------------------------------------------------
(* Counting.  The sum of n numbers is the size of a diagram that has so    *)
(* many cells in each of its rows.                                         *)
Row(w, g) == {<<g, x>> : x \in 1 .. w[g]}
Cells(n, w) == UNION {Row(w, g) : g \in 1 .. n}
Total(n, w) == Cardinality(Cells(n, w))

LEMMA SizeOfBijection ==
    ASSUME NEW S, NEW T, IsFiniteSet(S), NEW f \in [S -> T],
           \A x, y \in S : f[x] = f[y] => x = y,
           \A t \in T : \E s \in S : f[s] = t
    PROVE  IsFiniteSet(T) /\ Cardinality(T) = Cardinality(S)
<1>1. f \in Bijection(S, T)
  BY DEF Bijection, Injection, Surjection, IsInjective
<1>2. QED
  BY <1>1, FS_Bijection DEF ExistsBijection

LEMMA SizeOfRow ==
    ASSUME NEW w, NEW g, w[g] \in Nat
    PROVE  IsFiniteSet(Row(w, g)) /\ Cardinality(Row(w, g)) = w[g]
<1> DEFINE f == [x \in 1 .. w[g] |-> <<g, x>>]
<1>1. IsFiniteSet(1 .. w[g]) /\ Cardinality(1 .. w[g]) = w[g]
  BY FS_Interval
<1>2. /\ f \in [1 .. w[g] -> Row(w, g)]
      /\ \A x, y \in 1 .. w[g] : f[x] = f[y] => x = y
      /\ \A t \in Row(w, g) : \E s \in 1 .. w[g] : f[s] = t
  BY DEF Row
<1> HIDE DEF f
<1>3. QED
  BY <1>1, <1>2, SizeOfBijection

LEMMA SizeOfDisjoint ==
    ASSUME NEW S, NEW T, IsFiniteSet(S), IsFiniteSet(T), S \cap T = {}
    PROVE  IsFiniteSet(S \cup T) /\ Cardinality(S \cup T) = Cardinality(S) + Cardinality(T)
<1>1. Cardinality(S) \in Nat /\ Cardinality(T) \in Nat
  BY FS_CardinalityType
<1>2. Cardinality(S \cap T) = 0
  BY FS_EmptySet
<1>3. /\ IsFiniteSet(S \cup T)
      /\ Cardinality(S \cup T) = Cardinality(S) + Cardinality(T) - Cardinality(S \cap T)
  BY FS_Union
<1>4. QED
  BY <1>1, <1>2, <1>3

LEMMA TotalGrows ==
    ASSUME NEW k \in Nat, NEW w, w[k + 1] \in Nat, IsFiniteSet(Cells(k, w))
    PROVE  IsFiniteSet(Cells(k + 1, w)) /\ Total(k + 1, w) = Total(k, w) + w[k + 1]
<1>1. Cells(k + 1, w) = Cells(k, w) \cup Row(w, k + 1)
  <2>1. 1 .. k + 1 = (1 .. k) \cup {k + 1}
    OBVIOUS
  <2>2. QED
    BY <2>1 DEF Cells
<1>2. Cells(k, w) \cap Row(w, k + 1) = {}
  BY DEF Cells, Row
<1>3. IsFiniteSet(Row(w, k + 1)) /\ Cardinality(Row(w, k + 1)) = w[k + 1]
  BY SizeOfRow
<1>4. QED
  BY <1>1, <1>2, <1>3, SizeOfDisjoint DEF Total

LEMMA TotalFacts ==
    ASSUME NEW n \in Nat, NEW w, \A g \in 1 .. n : w[g] \in Nat
    PROVE  /\ Total(0, w) = 0
           /\ \A k \in 0 .. n : Total(k, w) \in Nat
           /\ \A k \in 1 .. n : Total(k, w) = Total(k - 1, w) + w[k]
<1> DEFINE Done == {k \in Nat : k <= n => IsFiniteSet(Cells(k, w))}
<1>1. Cells(0, w) = {}
  <2>1. 1 .. 0 = {}
    OBVIOUS
  <2>2. QED
    BY <2>1 DEF Cells
<1>2. 0 \in Done
  BY <1>1, FS_EmptySet
<1>3. ASSUME NEW k \in Nat, k \in Done
      PROVE  k + 1 \in Done
  BY <1>3, TotalGrows
<1> HIDE DEF Done
<1>4. Nat \subseteq Done
  BY <1>2, <1>3, SetInduction
<1>5. \A k \in 0 .. n : IsFiniteSet(Cells(k, w))
  BY <1>4 DEF Done
<1>6. ASSUME NEW k \in 1 .. n
      PROVE  Total(k, w) = Total(k - 1, w) + w[k]
  <2>1. k - 1 \in Nat /\ (k - 1) + 1 = k /\ k - 1 \in 0 .. n
    OBVIOUS
  <2>2. QED
    BY <1>5, <2>1, TotalGrows
<1>7. QED
  BY <1>1, <1>5, <1>6, FS_EmptySet, FS_CardinalityType DEF Total

LEMMA TotalSame ==
    ASSUME NEW n, NEW w, NEW v, \A g \in 1 .. n : v[g] = w[g]
    PROVE  Total(n, v) = Total(n, w)
<1>1. Cells(n, v) = Cells(n, w)
  BY DEF Cells, Row
<1>2. QED
  BY <1>1 DEF Total

LEMMA TotalZero ==
    ASSUME NEW n, NEW w, \A g \in 1 .. n : w[g] = 0
    PROVE  Total(n, w) = 0
<1>1. Cells(n, w) = {}
  BY DEF Cells, Row
<1>2. QED
  BY <1>1, FS_EmptySet DEF Total

(* One number is raised by d.                                              *)
LEMMA TotalRaised ==
    ASSUME NEW n \in Nat, NEW w, \A g \in 1 .. n : w[g] \in Nat,
           NEW v, NEW h \in 1 .. n, NEW d \in Nat, v[h] = w[h] + d,
           \A g \in 1 .. n : g # h => v[g] = w[g]
    PROVE  Total(n, v) = Total(n, w) + d
<1>1. \A g \in 1 .. n : v[g] \in Nat
  OBVIOUS
<1>2. /\ Total(0, w) = 0 /\ \A k \in 0 .. n : Total(k, w) \in Nat
      /\ \A k \in 1 .. n : Total(k, w) = Total(k - 1, w) + w[k]
  BY TotalFacts
<1>3. /\ Total(0, v) = 0 /\ \A k \in 0 .. n : Total(k, v) \in Nat
      /\ \A k \in 1 .. n : Total(k, v) = Total(k - 1, v) + v[k]
  BY <1>1, TotalFacts
<1> DEFINE Sum(k) == Total(k, v) = IF h <= k THEN Total(k, w) + d ELSE Total(k, w)
           Done == {k \in Nat : k <= n => Sum(k)}
<1>4. 0 \in Done
  BY <1>2, <1>3
<1>5. ASSUME NEW k \in Nat, k \in Done
      PROVE  k + 1 \in Done
  <2> SUFFICES ASSUME k + 1 <= n PROVE Sum(k + 1)
    OBVIOUS
  <2>1. k + 1 \in 1 .. n /\ (k + 1) - 1 = k /\ k \in 0 .. n /\ Sum(k)
    BY <1>5
  <2>2. Total(k + 1, v) = Total(k, v) + v[k + 1] /\ Total(k + 1, w) = Total(k, w) + w[k + 1]
    BY <1>2, <1>3, <2>1
  <2>3. v[k + 1] = (IF k + 1 = h THEN w[k + 1] + d ELSE w[k + 1]) /\ w[k + 1] \in Nat
    BY <2>1
  <2>4. Total(k, w) \in Nat
    BY <1>2, <2>1
  <2>5. CASE k + 1 = h
    BY <2>1, <2>2, <2>3, <2>4, <2>5
  <2>6. CASE k + 1 # h
    BY <2>1, <2>2, <2>3, <2>4, <2>6
  <2>7. QED
    BY <2>5, <2>6
<1> HIDE DEF Done, Sum
<1>6. Nat \subseteq Done
  BY <1>4, <1>5, SetInduction
<1>7. Sum(n)
  BY <1>6 DEF Done
<1>8. QED
  BY <1>7 DEF Sum

LEMMA TotalRearranged ==
    ASSUME NEW n \in Nat, NEW w, \A g \in 1 .. n : w[g] \in Nat,
           NEW o \in Permutation(n), NEW v, \A g \in 1 .. n : v[g] = w[o[g]]
    PROVE  Total(n, v) = Total(n, w)
<1> DEFINE f == [p \in Cells(n, v) |-> <<o[p[1]], p[2]>>]
<1>1. \A g \in 1 .. n : o[g] \in 1 .. n
  BY DEF Permutation
<1>2. \A p \in Cells(n, v) : p[1] \in 1 .. n /\ p[2] \in 1 .. v[p[1]] /\ p = <<p[1], p[2]>>
  BY DEF Cells, Row
<1>3. f \in [Cells(n, v) -> Cells(n, w)]
  BY <1>1, <1>2 DEF Cells, Row
<1>4. ASSUME NEW p \in Cells(n, v), NEW q \in Cells(n, v), f[p] = f[q]
      PROVE  p = q
  BY <1>2, <1>4 DEF Permutation
<1>5. ASSUME NEW q \in Cells(n, w)
      PROVE  \E p \in Cells(n, v) : f[p] = q
  <2>1. PICK g \in 1 .. n : q \in Row(w, g)
    BY DEF Cells
  <2>2. PICK x \in 1 .. w[g] : q = <<g, x>>
    BY <2>1 DEF Row
  <2>3. PICK i \in 1 .. n : o[i] = g
    BY DEF Permutation
  <2>4. <<i, x>> \in Cells(n, v)
    BY <2>2, <2>3 DEF Cells, Row
  <2>5. f[<<i, x>>] = q
    BY <2>2, <2>3, <2>4
  <2>6. QED
    BY <2>4, <2>5
<1>6. IsFiniteSet(Cells(n, v))
  <2>1. \A g \in 1 .. n : v[g] \in Nat
    BY <1>1
  <2> DEFINE Done == {k \in Nat : k <= n => IsFiniteSet(Cells(k, v))}
  <2>2. 0 \in Done
    BY FS_EmptySet DEF Cells
  <2>3. ASSUME NEW k \in Nat, k \in Done
        PROVE  k + 1 \in Done
    BY <2>1, <2>3, TotalGrows
  <2> HIDE DEF Done
  <2>4. Nat \subseteq Done
    BY <2>2, <2>3, SetInduction
  <2>5. QED
    BY <2>4 DEF Done
<1> HIDE DEF f
<1>7. QED
  BY <1>3, <1>4, <1>5, <1>6, SizeOfBijection DEF Total

(* A set is counted by the values of a function on it.                     *)
WithValue(P, f, t) == {p \in P : f[p] = t}

LEMMA SizeByValue ==
    ASSUME NEW n \in Nat, NEW P, NEW f, \A p \in P : f[p] \in 1 .. n, NEW w,
           \A t \in 1 .. n : /\ IsFiniteSet(WithValue(P, f, t))
                             /\ Cardinality(WithValue(P, f, t)) = w[t]
    PROVE  IsFiniteSet(P) /\ Cardinality(P) = Total(n, w)
<1> DEFINE Upto(k) == {p \in P : f[p] <= k}
           Sum(k) == IsFiniteSet(Upto(k)) /\ Cardinality(Upto(k)) = Total(k, w)
           Done == {k \in Nat : k <= n => Sum(k)}
<1>1. \A t \in 1 .. n : w[t] \in Nat
  BY FS_CardinalityType
<1>2. /\ Total(0, w) = 0
      /\ \A k \in 1 .. n : Total(k, w) = Total(k - 1, w) + w[k]
  BY <1>1, TotalFacts
<1>3. 0 \in Done
  <2>1. Upto(0) = {}
    OBVIOUS
  <2>2. QED
    BY <1>2, <2>1, FS_EmptySet
<1>4. ASSUME NEW k \in Nat, k \in Done
      PROVE  k + 1 \in Done
  <2> SUFFICES ASSUME k + 1 <= n PROVE Sum(k + 1)
    OBVIOUS
  <2>1. Sum(k) /\ k + 1 \in 1 .. n /\ (k + 1) - 1 = k
    BY <1>4
  <2> DEFINE F == WithValue(P, f, k + 1)
  <2>2. Upto(k + 1) = Upto(k) \cup F /\ Upto(k) \cap F = {}
    BY DEF WithValue
  <2>3. IsFiniteSet(F) /\ Cardinality(F) = w[k + 1]
    BY <2>1
  <2> HIDE DEF F, Upto
  <2>4. IsFiniteSet(Upto(k + 1)) /\ Cardinality(Upto(k + 1)) = Total(k, w) + w[k + 1]
    <3>1. /\ IsFiniteSet(Upto(k) \cup F)
          /\ Cardinality(Upto(k) \cup F) = Cardinality(Upto(k)) + Cardinality(F)
      BY <2>1, <2>2, <2>3, SizeOfDisjoint
    <3>2. QED
      BY <2>1, <2>2, <2>3, <3>1
  <2>5. QED
    BY <1>2, <2>1, <2>4
<1> HIDE DEF Done
<1>5. Nat \subseteq Done
  BY <1>3, <1>4, SetInduction
<1>6. Sum(n)
  BY <1>5 DEF Done
<1>7. Upto(n) = P
  OBVIOUS
<1>8. QED
  BY <1>6, <1>7

LEMMA TotalAppended ==
    ASSUME NEW n \in Nat, NEW w, \A g \in 1 .. n : w[g] \in Nat,
           NEW v, \A g \in 1 .. n : v[g] = w[g], v[n + 1] \in Nat
    PROVE  Total(n + 1, v) = Total(n, w) + v[n + 1]
<1>1. \A g \in 1 .. n + 1 : v[g] \in Nat
  <2>1. \A g \in 1 .. n + 1 : g \in 1 .. n \/ g = n + 1
    OBVIOUS
  <2>2. QED
    BY <2>1
<1>2. n + 1 \in Nat /\ n + 1 \in 1 .. n + 1 /\ (n + 1) - 1 = n
  OBVIOUS
<1>3. Total(n + 1, v) = Total(n, v) + v[n + 1]
  <2>1. \A k \in 1 .. n + 1 : Total(k, v) = Total(k - 1, v) + v[k]
    BY <1>1, <1>2, TotalFacts
  <2>2. QED
    BY <1>2, <2>1
<1>4. Total(n, v) = Total(n, w)
  BY TotalSame
<1>5. QED
  BY <1>3, <1>4

-----------------------------------------------------------------------------
(* How often an entry is in a list of instances, of groups, of constraints *)
(* and of templates.                                                       *)
Positions(seq, v) == {i \in DOMAIN seq : seq[i] = v}
InInstances(seq, e) == Cardinality(Positions(seq, e.violation))
InGroup(vg, e) == IF vg.pattern = e.key.pattern THEN InInstances(vg.instances, e) ELSE 0
GroupSizes(vgs, e) == [g \in DOMAIN vgs |-> InGroup(vgs[g], e)]
InGroups(vgs, e) == Total(Len(vgs), GroupSizes(vgs, e))
HasKey(rc, e) == rc.name = e.key.name /\ WithoutAudit(rc.metadata) = e.key.metadata
InConstraint(rc, e) == IF HasKey(rc, e) THEN InGroups(rc.groups, e) ELSE 0
ConstraintSizes(rcs, e) == [c \in DOMAIN rcs |-> InConstraint(rcs[c], e)]
InConstraints(rcs, e) == Total(Len(rcs), ConstraintSizes(rcs, e))
InTemplate(rt, e) == IF rt.kind = e.key.kind THEN InConstraints(rt.constraints, e) ELSE 0
TemplateSizes(rts, e) == [t \in DOMAIN rts |-> InTemplate(rts[t], e)]
InTemplates(rts, e) == Total(Len(rts), TemplateSizes(rts, e))

LEMMA PositionsFinite ==
    ASSUME NEW S, NEW seq \in Seq(S), NEW v
    PROVE  IsFiniteSet(Positions(seq, v)) /\ Cardinality(Positions(seq, v)) \in Nat
<1>1. DOMAIN seq = 1 .. Len(seq) /\ Len(seq) \in Nat
  OBVIOUS
<1>2. IsFiniteSet(1 .. Len(seq))
  BY <1>1, FS_Interval
<1>3. Positions(seq, v) \in SUBSET (1 .. Len(seq))
  BY <1>1 DEF Positions
<1>4. QED
  BY <1>2, <1>3, FS_Subset, FS_CardinalityType

LEMMA PositionsOfConcat ==
    ASSUME NEW S, NEW s \in Seq(S), NEW t \in Seq(S), NEW v
    PROVE  Cardinality(Positions(s \o t, v)) =
               Cardinality(Positions(s, v)) + Cardinality(Positions(t, v))
<1> DEFINE n == Len(s)
           f == [i \in Positions(t, v) |-> n + i]
           Shifted == {n + i : i \in Positions(t, v)}
<1>1. /\ n \in Nat /\ Len(t) \in Nat
      /\ DOMAIN s = 1 .. n /\ DOMAIN t = 1 .. Len(t)
      /\ DOMAIN (s \o t) = 1 .. n + Len(t)
  OBVIOUS
<1>2. \A i \in 1 .. n + Len(t) : (s \o t)[i] = IF i <= n THEN s[i] ELSE t[i - n]
  BY ConcatProperties
<1>3. Positions(s \o t, v) = Positions(s, v) \cup Shifted
  <2>1. ASSUME NEW i \in Positions(s \o t, v)
        PROVE  i \in Positions(s, v) \cup Shifted
    <3>1. i \in 1 .. n + Len(t) /\ (s \o t)[i] = v
      BY <1>1 DEF Positions
    <3>2. CASE i <= n
      BY <1>1, <1>2, <3>1, <3>2 DEF Positions
    <3>3. CASE i > n
      <4>1. i - n \in 1 .. Len(t) /\ t[i - n] = v /\ n + (i - n) = i
        BY <1>1, <1>2, <3>1, <3>3
      <4>2. i - n \in Positions(t, v)
        BY <1>1, <4>1 DEF Positions
      <4>3. QED
        BY <4>1, <4>2
    <3>4. QED
      BY <1>1, <3>1, <3>2, <3>3
  <2>2. ASSUME NEW i \in Positions(s, v)
        PROVE  i \in Positions(s \o t, v)
    <3>1. i \in 1 .. n /\ s[i] = v
      BY <1>1 DEF Positions
    <3>2. i \in 1 .. n + Len(t) /\ i <= n
      BY <1>1, <3>1
    <3>3. QED
      BY <1>1, <1>2, <3>1, <3>2 DEF Positions
  <2>3. ASSUME NEW i \in Positions(t, v)
        PROVE  n + i \in Positions(s \o t, v)
    <3>1. i \in 1 .. Len(t) /\ t[i] = v
      BY <1>1 DEF Positions
    <3>2. n + i \in 1 .. n + Len(t) /\ ~(n + i <= n) /\ (n + i) - n = i
      BY <1>1, <3>1
    <3>3. QED
      BY <1>1, <1>2, <3>1, <3>2 DEF Positions
  <2>4. QED
    BY <2>1, <2>2, <2>3
<1>4. Positions(s, v) \cap Shifted = {}
  BY <1>1 DEF Positions
<1>5. /\ IsFiniteSet(Positions(s, v)) /\ IsFiniteSet(Positions(t, v))
  BY PositionsFinite
<1>6. IsFiniteSet(Shifted) /\ Cardinality(Shifted) = Cardinality(Positions(t, v))
  <2>1. f \in [Positions(t, v) -> Shifted]
    OBVIOUS
  <2>2. \A x, y \in Positions(t, v) : f[x] = f[y] => x = y
    BY <1>1 DEF Positions
  <2>3. \A y \in Shifted : \E x \in Positions(t, v) : f[x] = y
    OBVIOUS
  <2> HIDE DEF f, Shifted
  <2>4. QED
    BY <1>5, <2>1, <2>2, <2>3, SizeOfBijection
<1> HIDE DEF Shifted
<1>7. QED
  BY <1>3, <1>4, <1>5, <1>6, SizeOfDisjoint

LEMMA PositionsRearranged ==
    ASSUME NEW S, NEW seq \in Seq(S), NEW o \in Permutation(Len(seq)), NEW v
    PROVE  Cardinality(Positions(Rearranged(seq, o), v)) = Cardinality(Positions(seq, v))
<1> DEFINE P == Positions(Rearranged(seq, o), v)
           f == [i \in P |-> o[i]]
<1>1. DOMAIN seq = 1 .. Len(seq)
  OBVIOUS
<1>2. /\ Rearranged(seq, o) \in Seq(S) /\ DOMAIN Rearranged(seq, o) = DOMAIN seq
      /\ \A i \in DOMAIN seq : o[i] \in DOMAIN seq /\ Rearranged(seq, o)[i] = seq[o[i]]
  BY RearrangedStays
<1>3. P = {i \in DOMAIN seq : seq[o[i]] = v}
  BY <1>2 DEF Positions
<1>4. IsFiniteSet(P)
  BY <1>2, PositionsFinite
<1> HIDE DEF P
<1>5. f \in [P -> Positions(seq, v)]
  BY <1>2, <1>3 DEF Positions
<1>6. \A x, y \in P : f[x] = f[y] => x = y
  BY <1>1, <1>3 DEF Permutation
<1>7. \A y \in Positions(seq, v) : \E x \in P : f[x] = y
  BY <1>1, <1>3 DEF Permutation, Positions
<1> HIDE DEF f
<1>8. QED
  BY <1>4, <1>5, <1>6, <1>7, SizeOfBijection DEF P

(* The numbers are numbers.                                                *)
LEMMA InGroupIsNat ==
    ASSUME NEW vg \in ViolationGroup, NEW e
    PROVE  InGroup(vg, e) \in Nat
<1>1. vg.instances \in Seq(Violation)
  BY DEF ViolationGroup, NonEmpty
<1>2. QED
  BY <1>1, PositionsFinite DEF InGroup, InInstances

LEMMA InGroupsIsNat ==
    ASSUME NEW vgs \in Seq(ViolationGroup), NEW e
    PROVE  /\ \A g \in 1 .. Len(vgs) : GroupSizes(vgs, e)[g] \in Nat
           /\ InGroups(vgs, e) \in Nat
<1>1. DOMAIN vgs = 1 .. Len(vgs) /\ Len(vgs) \in Nat /\ Len(vgs) \in 0 .. Len(vgs)
  OBVIOUS
<1>2. \A g \in 1 .. Len(vgs) : GroupSizes(vgs, e)[g] \in Nat
  BY <1>1, InGroupIsNat DEF GroupSizes
<1>3. \A k \in 0 .. Len(vgs) : Total(k, GroupSizes(vgs, e)) \in Nat
  BY <1>1, <1>2, TotalFacts
<1>4. QED
  BY <1>1, <1>2, <1>3 DEF InGroups

LEMMA InConstraintIsNat ==
    ASSUME NEW rc \in ReportForConstraint, NEW e
    PROVE  InConstraint(rc, e) \in Nat
<1>1. rc.groups \in Seq(ViolationGroup)
  BY DEF ReportForConstraint, ConstraintsWith
<1>2. QED
  BY <1>1, InGroupsIsNat DEF InConstraint

LEMMA InConstraintsIsNat ==
    ASSUME NEW rcs \in Seq(ReportForConstraint), NEW e
    PROVE  /\ \A c \in 1 .. Len(rcs) : ConstraintSizes(rcs, e)[c] \in Nat
           /\ InConstraints(rcs, e) \in Nat
<1>1. DOMAIN rcs = 1 .. Len(rcs) /\ Len(rcs) \in Nat /\ Len(rcs) \in 0 .. Len(rcs)
  OBVIOUS
<1>2. \A c \in 1 .. Len(rcs) : ConstraintSizes(rcs, e)[c] \in Nat
  BY <1>1, InConstraintIsNat DEF ConstraintSizes
<1>3. \A k \in 0 .. Len(rcs) : Total(k, ConstraintSizes(rcs, e)) \in Nat
  BY <1>1, <1>2, TotalFacts
<1>4. QED
  BY <1>1, <1>2, <1>3 DEF InConstraints

LEMMA InTemplateIsNat ==
    ASSUME NEW rt \in ReportForTemplate, NEW e
    PROVE  InTemplate(rt, e) \in Nat
<1>1. rt.constraints \in Seq(ReportForConstraint)
  BY DEF ReportForTemplate, TemplatesWith
<1>2. QED
  BY <1>1, InConstraintsIsNat DEF InTemplate

LEMMA InTemplatesIsNat ==
    ASSUME NEW rts \in Seq(ReportForTemplate), NEW e
    PROVE  /\ \A t \in 1 .. Len(rts) : TemplateSizes(rts, e)[t] \in Nat
           /\ InTemplates(rts, e) \in Nat
<1>1. DOMAIN rts = 1 .. Len(rts) /\ Len(rts) \in Nat /\ Len(rts) \in 0 .. Len(rts)
  OBVIOUS
<1>2. \A t \in 1 .. Len(rts) : TemplateSizes(rts, e)[t] \in Nat
  BY <1>1, InTemplateIsNat DEF TemplateSizes
<1>3. \A k \in 0 .. Len(rts) : Total(k, TemplateSizes(rts, e)) \in Nat
  BY <1>1, <1>2, TotalFacts
<1>4. QED
  BY <1>1, <1>2, <1>3 DEF InTemplates

LEMMA ListsAreReports ==
    /\ GroupLists \subseteq Seq(ViolationGroup)
    /\ MergedConstraint \subseteq ReportForConstraint
    /\ ConstraintLists \subseteq Seq(ReportForConstraint)
    /\ MergedTemplate \subseteq ReportForTemplate
    /\ TemplateLists \subseteq Seq(ReportForTemplate)
<1>1. GroupLists \subseteq Seq(ViolationGroup)
  BY DEF GroupLists
<1>2. MergedConstraint \subseteq ReportForConstraint
  BY <1>1 DEF MergedConstraint, ReportForConstraint, ConstraintsWith
<1>3. Seq(MergedConstraint) \subseteq Seq(ReportForConstraint)
  BY <1>2, SeqMonotonic
<1>4. ConstraintLists \subseteq Seq(ReportForConstraint)
  BY <1>3 DEF ConstraintLists, MergedConstraint
<1>5. MergedTemplate \subseteq ReportForTemplate
  BY <1>4 DEF MergedTemplate, ReportForTemplate, TemplatesWith
<1>6. Seq(MergedTemplate) \subseteq Seq(ReportForTemplate)
  BY <1>5, SeqMonotonic
<1>7. QED
  BY <1>1, <1>2, <1>4, <1>5, <1>6 DEF TemplateLists, MergedTemplate

(* A list of which one element counts d more, or with one more element.    *)
LEMMA GroupsRaised ==
    ASSUME NEW vgs \in Seq(ViolationGroup), NEW new \in Seq(ViolationGroup), NEW e,
           DOMAIN new = DOMAIN vgs, NEW g \in DOMAIN vgs, NEW d \in Nat,
           \A h \in DOMAIN vgs : h # g => new[h] = vgs[h],
           InGroup(new[g], e) = InGroup(vgs[g], e) + d
    PROVE  InGroups(new, e) = InGroups(vgs, e) + d
<1> DEFINE w == GroupSizes(vgs, e)
           v == GroupSizes(new, e)
           n == Len(vgs)
<1>1. n \in Nat /\ DOMAIN vgs = 1 .. n /\ Len(new) = n
  OBVIOUS
<1>2. \A h \in 1 .. n : w[h] \in Nat
  BY InGroupsIsNat
<1>3. \A h \in 1 .. n : v[h] = InGroup(new[h], e) /\ w[h] = InGroup(vgs[h], e)
  BY <1>1 DEF GroupSizes
<1> HIDE DEF w, v, n
<1>4. /\ g \in 1 .. n /\ v[g] = w[g] + d
      /\ \A h \in 1 .. n : h # g => v[h] = w[h]
  BY <1>1, <1>3
<1>5. Total(n, v) = Total(n, w) + d
  BY <1>1, <1>2, <1>4, TotalRaised, SMTT(30)
<1>6. QED
  BY <1>1, <1>5 DEF InGroups, w, v, n

LEMMA GroupsAppended ==
    ASSUME NEW vgs \in Seq(ViolationGroup), NEW vg \in ViolationGroup, NEW e
    PROVE  InGroups(Append(vgs, vg), e) = InGroups(vgs, e) + InGroup(vg, e)
<1> DEFINE new == Append(vgs, vg)
           w == GroupSizes(vgs, e)
           v == GroupSizes(new, e)
           n == Len(vgs)
<1>1. /\ n \in Nat /\ DOMAIN vgs = 1 .. n /\ DOMAIN new = 1 .. n + 1 /\ Len(new) = n + 1
      /\ \A g \in 1 .. n : new[g] = vgs[g]
      /\ new[n + 1] = vg
  OBVIOUS
<1>2. \A g \in 1 .. n : w[g] \in Nat
  BY InGroupsIsNat
<1> HIDE DEF new
<1>3. /\ \A g \in 1 .. n : g \in 1 .. n + 1
      /\ n + 1 \in 1 .. n + 1
  BY <1>1
<1>4. /\ \A g \in 1 .. n : v[g] = w[g]
      /\ v[n + 1] = InGroup(vg, e)
  BY <1>1, <1>3 DEF GroupSizes
<1>5. InGroup(vg, e) \in Nat
  BY InGroupIsNat
<1> HIDE DEF w, v, n
<1>6. Total(n + 1, v) = Total(n, w) + v[n + 1]
  BY <1>1, <1>2, <1>4, <1>5, TotalAppended
<1>7. QED
  BY <1>1, <1>4, <1>6 DEF InGroups, new, w, v, n

(* A visit adds what the group has, if it was asked for.                   *)
GroupShare(vg, e) == IF MatchIdentity(filter.object, vg.pattern.identity)
                     THEN InGroup(vg, e) ELSE 0

LEMMA VisitGroupCounts ==
    ASSUME NEW vgs \in GroupLists, NEW vg \in ViolationGroup, NEW e
    PROVE  InGroups(VisitViolationGroup(vgs, vg), e) = InGroups(vgs, e) + GroupShare(vg, e)
<1> DEFINE new == VisitViolationGroup(vgs, vg)
<1>1. vgs \in Seq(ViolationGroup) /\ new \in Seq(ViolationGroup)
  BY VisitGroup, ListsAreReports
<1>2. InGroups(vgs, e) \in Nat /\ InGroup(vg, e) \in Nat
  BY <1>1, InGroupsIsNat, InGroupIsNat
<1>3. CASE ~MatchIdentity(filter.object, vg.pattern.identity) /\ new = vgs
  BY <1>2, <1>3 DEF GroupShare
<1>4. ASSUME MatchIdentity(filter.object, vg.pattern.identity),
             NEW g \in DOMAIN vgs, vgs[g].pattern = vg.pattern,
             new = [vgs EXCEPT ![g].instances = @ \o vg.instances]
      PROVE  InGroups(new, e) = InGroups(vgs, e) + InGroup(vg, e)
  <2>1. vgs[g] \in ViolationGroup
    BY <1>1
  <2>2. vgs[g].instances \in Seq(Violation) /\ vg.instances \in Seq(Violation)
    BY <2>1 DEF ViolationGroup, NonEmpty
  <2>3. /\ DOMAIN new = DOMAIN vgs
        /\ \A h \in DOMAIN vgs : h # g => new[h] = vgs[h]
        /\ new[g].pattern = vg.pattern
        /\ new[g].instances = vgs[g].instances \o vg.instances
    BY <1>1, <1>4, <2>1 DEF ViolationGroup
  <2> HIDE DEF new
  <2>4. InInstances(new[g].instances, e) =
            InInstances(vgs[g].instances, e) + InInstances(vg.instances, e)
    BY <2>2, <2>3, PositionsOfConcat DEF InInstances
  <2>5. InGroup(new[g], e) = InGroup(vgs[g], e) + InGroup(vg, e)
    BY <1>4, <2>3, <2>4 DEF InGroup
  <2>6. QED
    BY <1>1, <1>2, <2>3, <2>5, GroupsRaised
<1>5. ASSUME new = Append(vgs, vg)
      PROVE  InGroups(new, e) = InGroups(vgs, e) + InGroup(vg, e)
  BY <1>1, <1>5, GroupsAppended
<1>6. QED
  BY <1>1, <1>3, <1>4, <1>5, GroupOutcome DEF GroupShare

(* The number that is in what all visits for a constraint add.             *)
LEMMA GroupsAfterCounts ==
    ASSUME NEW vgs \in GroupLists, NEW rc \in ReportForConstraint, NEW e
    PROVE  InGroups(GroupsAfter(vgs, rc), e) =
               InGroups(vgs, e) + IF MatchIdentity(filter.object, e.key.pattern.identity)
                                  THEN InGroups(rc.groups, e) ELSE 0
<1> DEFINE seq == rc.groups
           n == Len(seq)
           asked == MatchIdentity(filter.object, e.key.pattern.identity)
           w == GroupSizes(seq, e)
           base == InGroups(vgs, e)
<1>1. seq \in Seq(ViolationGroup)
  BY DEF ReportForConstraint, ConstraintsWith
<1>2. n \in Nat /\ DOMAIN seq = 1 .. n /\ \A i \in 1 .. n : seq[i] \in ViolationGroup
  BY <1>1
<1>3. /\ \A t \in GroupLists, x \in ViolationGroup : VisitViolationGroup(t, x) \in GroupLists
  BY VisitGroup
<1>4. PICK after : GroupSteps(after, GroupLists, vgs, seq)
  BY <1>1, <1>3, GroupVisits
<1>5. /\ after[0] = vgs
      /\ after[n] = GroupsAfter(vgs, rc)
      /\ \A i \in 0 .. n : after[i] \in GroupLists
      /\ \A i \in 1 .. n : after[i] = VisitViolationGroup(after[i - 1], seq[i])
  BY <1>4 DEF GroupSteps, GroupsAfter
<1>6. \A i \in 1 .. n : w[i] \in Nat /\ w[i] = InGroup(seq[i], e)
  BY <1>1, <1>2, InGroupsIsNat DEF GroupSizes
<1>7. base \in Nat
  BY InGroupsIsNat, ListsAreReports
<1> HIDE DEF w, base
<1>8. /\ Total(0, w) = 0 /\ \A k \in 0 .. n : Total(k, w) \in Nat
      /\ \A k \in 1 .. n : Total(k, w) = Total(k - 1, w) + w[k]
  BY <1>2, <1>6, TotalFacts
<1>9. \A i \in 1 .. n : GroupShare(seq[i], e) = IF asked THEN w[i] ELSE 0
  BY <1>6 DEF GroupShare, InGroup
<1> DEFINE Sum(i) == InGroups(after[i], e) = base + IF asked THEN Total(i, w) ELSE 0
           Done == {i \in Nat : i <= n => Sum(i)}
<1>10. 0 \in Done
  BY <1>5, <1>7, <1>8 DEF base
<1>11. ASSUME NEW i \in Nat, i \in Done
       PROVE  i + 1 \in Done
  <2> SUFFICES ASSUME i + 1 <= n PROVE Sum(i + 1)
    OBVIOUS
  <2>1. i + 1 \in 1 .. n /\ (i + 1) - 1 = i /\ i \in 0 .. n /\ Sum(i)
    BY <1>2, <1>11
  <2>2. after[i] \in GroupLists /\ seq[i + 1] \in ViolationGroup
        /\ after[i + 1] = VisitViolationGroup(after[i], seq[i + 1])
    BY <1>2, <1>5, <2>1
  <2>3. InGroups(after[i + 1], e) = InGroups(after[i], e) + GroupShare(seq[i + 1], e)
    BY <2>2, VisitGroupCounts
  <2>4. /\ GroupShare(seq[i + 1], e) = IF asked THEN w[i + 1] ELSE 0
        /\ w[i + 1] \in Nat /\ Total(i, w) \in Nat
        /\ Total(i + 1, w) = Total(i, w) + w[i + 1]
    BY <1>6, <1>8, <1>9, <2>1
  <2> HIDE DEF asked
  <2>5. QED
    BY <1>7, <2>1, <2>3, <2>4
<1> HIDE DEF Done, Sum
<1>12. Nat \subseteq Done
  BY <1>10, <1>11, SetInduction
<1>13. Sum(n)
  BY <1>2, <1>12 DEF Done
<1>14. QED
  BY <1>5, <1>13 DEF Sum, base, w, InGroups

(* The same of constraints.                                                *)
LEMMA ConstraintsRaised ==
    ASSUME NEW rcs \in Seq(ReportForConstraint), NEW new \in Seq(ReportForConstraint), NEW e,
           DOMAIN new = DOMAIN rcs, NEW c \in DOMAIN rcs, NEW d \in Nat,
           \A x \in DOMAIN rcs : x # c => new[x] = rcs[x],
           InConstraint(new[c], e) = InConstraint(rcs[c], e) + d
    PROVE  InConstraints(new, e) = InConstraints(rcs, e) + d
<1> DEFINE w == ConstraintSizes(rcs, e)
           v == ConstraintSizes(new, e)
           n == Len(rcs)
<1>1. n \in Nat /\ DOMAIN rcs = 1 .. n /\ Len(new) = n
  OBVIOUS
<1>2. \A x \in 1 .. n : w[x] \in Nat
  BY InConstraintsIsNat
<1>3. \A x \in 1 .. n : v[x] = InConstraint(new[x], e) /\ w[x] = InConstraint(rcs[x], e)
  BY <1>1 DEF ConstraintSizes
<1> HIDE DEF w, v, n
<1>4. /\ c \in 1 .. n /\ v[c] = w[c] + d
      /\ \A x \in 1 .. n : x # c => v[x] = w[x]
  BY <1>1, <1>3
<1>5. Total(n, v) = Total(n, w) + d
  BY <1>1, <1>2, <1>4, TotalRaised, SMTT(30)
<1>6. QED
  BY <1>1, <1>5 DEF InConstraints, w, v, n

LEMMA ConstraintsAppended ==
    ASSUME NEW rcs \in Seq(ReportForConstraint), NEW rc \in ReportForConstraint, NEW e
    PROVE  InConstraints(Append(rcs, rc), e) = InConstraints(rcs, e) + InConstraint(rc, e)
<1> DEFINE new == Append(rcs, rc)
           w == ConstraintSizes(rcs, e)
           v == ConstraintSizes(new, e)
           n == Len(rcs)
<1>1. /\ n \in Nat /\ DOMAIN rcs = 1 .. n /\ DOMAIN new = 1 .. n + 1 /\ Len(new) = n + 1
      /\ \A c \in 1 .. n : new[c] = rcs[c]
      /\ new[n + 1] = rc
  OBVIOUS
<1>2. \A c \in 1 .. n : w[c] \in Nat
  BY InConstraintsIsNat
<1> HIDE DEF new
<1>3. /\ \A c \in 1 .. n : c \in 1 .. n + 1
      /\ n + 1 \in 1 .. n + 1
  BY <1>1
<1>4. /\ \A c \in 1 .. n : v[c] = w[c]
      /\ v[n + 1] = InConstraint(rc, e)
  BY <1>1, <1>3 DEF ConstraintSizes
<1>5. InConstraint(rc, e) \in Nat
  BY InConstraintIsNat
<1> HIDE DEF w, v, n
<1>6. Total(n + 1, v) = Total(n, w) + v[n + 1]
  BY <1>1, <1>2, <1>4, <1>5, TotalAppended
<1>7. QED
  BY <1>1, <1>4, <1>6 DEF InConstraints, new, w, v, n

AskedGroup(e) == MatchIdentity(filter.object, e.key.pattern.identity)

AskedInConstraint(e) ==
    /\ Match(filter.name, e.key.name)
    /\ Match(filter.severity, e.key.metadata.severity)
    /\ AskedGroup(e)

ConstraintShare(rc, e) == IF AskedInConstraint(e) THEN InConstraint(rc, e) ELSE 0

LEMMA EmptyCounts ==
    ASSUME NEW e
    PROVE  InGroups(<<>>, e) = 0 /\ InConstraints(<<>>, e) = 0 /\ InTemplates(<<>>, e) = 0
<1>1. 1 .. Len(<<>>) = {}
  OBVIOUS
<1>2. QED
  BY <1>1, TotalZero DEF InGroups, InConstraints, InTemplates

LEMMA VisitConstraintCounts ==
    ASSUME NEW rcs \in ConstraintLists, NEW rc \in ReportForConstraint, NEW e
    PROVE  InConstraints(VisitConstraintReport(rcs, rc), e) =
               InConstraints(rcs, e) + ConstraintShare(rc, e)
<1> DEFINE new == VisitConstraintReport(rcs, rc)
           share == IF AskedGroup(e) THEN InGroups(rc.groups, e) ELSE 0
<1>1. /\ rcs \in Seq(ReportForConstraint) /\ new \in Seq(ReportForConstraint)
      /\ rcs \in Seq(MergedConstraint)
  BY VisitConstraint, ListsAreReports DEF ConstraintLists, MergedConstraint
<1>2. rc.groups \in Seq(ViolationGroup) /\ rc.metadata \in Metadata
  BY DEF ReportForConstraint, ConstraintsWith
<1>3. InConstraints(rcs, e) \in Nat /\ InGroups(rc.groups, e) \in Nat /\ share \in Nat
  BY <1>1, <1>2, InConstraintsIsNat, InGroupsIsNat
<1>4. HasKey(rc, e) => (AskedInConstraint(e) <=> AskedConstraint(rc) /\ AskedGroup(e))
  <2>1. WithoutAudit(rc.metadata).severity = rc.metadata.severity
    BY <1>2 DEF WithoutAudit, Metadata
  <2>2. QED
    BY <2>1 DEF HasKey, AskedInConstraint, AskedConstraint
<1>5. ConstraintShare(rc, e) = IF HasKey(rc, e) /\ AskedConstraint(rc) THEN share ELSE 0
  BY <1>4 DEF ConstraintShare, InConstraint
<1> HIDE DEF share
<1>6. \A vgs \in GroupLists : InGroups(GroupsAfter(vgs, rc), e) = InGroups(vgs, e) + share
  BY GroupsAfterCounts DEF share, AskedGroup
<1>7. InGroups(GroupsAfter(<<>>, rc), e) = share
  <2>1. <<>> \in GroupLists
    BY DEF GroupLists
  <2>2. InGroups(GroupsAfter(<<>>, rc), e) = InGroups(<<>>, e) + share
    BY <1>6, <2>1
  <2>3. QED
    BY <1>3, <2>2, EmptyCounts
<1>8. CASE ~AskedConstraint(rc) /\ new = rcs
  BY <1>3, <1>5, <1>8
<1>9. CASE GroupsAfter(<<>>, rc) = <<>> /\ new = rcs
  <2>1. share = 0
    BY <1>7, <1>9, EmptyCounts
  <2>2. QED
    BY <1>3, <1>5, <1>9, <2>1
<1>10. ASSUME AskedConstraint(rc), NEW c \in DOMAIN rcs, SameConstraint(rcs[c], rc),
              new = [rcs EXCEPT ![c].groups = GroupsAfter(@, rc)]
       PROVE  InConstraints(new, e) = InConstraints(rcs, e) + ConstraintShare(rc, e)
  <2>1. rcs[c] \in MergedConstraint /\ rcs[c].groups \in GroupLists
    <3>1. rcs[c] \in MergedConstraint
      BY <1>1
    <3>2. QED
      BY <3>1 DEF MergedConstraint, ConstraintsWith
  <2>2. /\ DOMAIN new = DOMAIN rcs
        /\ \A x \in DOMAIN rcs : x # c => new[x] = rcs[x]
        /\ new[c].name = rcs[c].name /\ new[c].metadata = rcs[c].metadata
        /\ new[c].groups = GroupsAfter(rcs[c].groups, rc)
    BY <1>1, <1>10, <2>1 DEF MergedConstraint, ConstraintsWith
  <2> HIDE DEF new
  <2>3. WithoutAudit(WithoutAudit(rc.metadata)) = WithoutAudit(rc.metadata)
    BY <1>2 DEF WithoutAudit, Metadata
  <2>4. (HasKey(new[c], e) <=> HasKey(rc, e)) /\ (HasKey(rcs[c], e) <=> HasKey(rc, e))
    BY <1>10, <2>2, <2>3 DEF HasKey, SameConstraint
  <2>5. InGroups(new[c].groups, e) = InGroups(rcs[c].groups, e) + share
    BY <1>6, <2>1, <2>2
  <2>6. InGroups(rcs[c].groups, e) \in Nat
    BY <2>1, InGroupsIsNat, ListsAreReports
  <2>7. InConstraint(new[c], e) = InConstraint(rcs[c], e) + ConstraintShare(rc, e)
    BY <1>5, <1>10, <2>4, <2>5, <2>6 DEF InConstraint
  <2>8. ConstraintShare(rc, e) \in Nat
    BY <1>3, <1>5
  <2>9. QED
    BY <1>1, <2>2, <2>7, <2>8, ConstraintsRaised
<1>11. ASSUME AskedConstraint(rc), GroupsAfter(<<>>, rc) # <<>>,
              new = Append(rcs, NewConstraint(rc))
       PROVE  InConstraints(new, e) = InConstraints(rcs, e) + ConstraintShare(rc, e)
  <2>1. NewConstraint(rc) \in ReportForConstraint
    <3>1. new[Len(rcs) + 1] = NewConstraint(rc) /\ Len(rcs) + 1 \in DOMAIN new
      BY <1>1, <1>11
    <3> HIDE DEF new
    <3>2. QED
      BY <1>1, <3>1
  <2>2. /\ NewConstraint(rc).name = rc.name
        /\ NewConstraint(rc).metadata = WithoutAudit(rc.metadata)
        /\ NewConstraint(rc).groups = GroupsAfter(<<>>, rc)
    BY DEF NewConstraint
  <2>3. WithoutAudit(WithoutAudit(rc.metadata)) = WithoutAudit(rc.metadata)
    BY <1>2 DEF WithoutAudit, Metadata
  <2>4. HasKey(NewConstraint(rc), e) <=> HasKey(rc, e)
    BY <2>2, <2>3 DEF HasKey
  <2>5. InConstraint(NewConstraint(rc), e) = ConstraintShare(rc, e)
    BY <1>5, <1>7, <1>11, <2>2, <2>4 DEF InConstraint
  <2>6. QED
    BY <1>1, <1>11, <2>1, <2>5, ConstraintsAppended
<1>12. QED
  BY <1>1, <1>8, <1>9, <1>10, <1>11, ConstraintOutcome

LEMMA ConstraintsAfterCounts ==
    ASSUME NEW rcs \in ConstraintLists, NEW rt \in ReportForTemplate, NEW e
    PROVE  InConstraints(ConstraintsAfter(rcs, rt), e) =
               InConstraints(rcs, e) + IF AskedInConstraint(e)
                                       THEN InConstraints(rt.constraints, e) ELSE 0
<1> DEFINE seq == rt.constraints
           n == Len(seq)
           asked == AskedInConstraint(e)
           w == ConstraintSizes(seq, e)
           base == InConstraints(rcs, e)
<1>1. seq \in Seq(ReportForConstraint)
  BY DEF ReportForTemplate, TemplatesWith
<1>2. n \in Nat /\ DOMAIN seq = 1 .. n /\ \A i \in 1 .. n : seq[i] \in ReportForConstraint
  BY <1>1
<1>3. \A t \in ConstraintLists, x \in ReportForConstraint :
          VisitConstraintReport(t, x) \in ConstraintLists
  BY VisitConstraint
<1>4. PICK after : ConstraintSteps(after, ConstraintLists, rcs, seq)
  BY <1>1, <1>3, ConstraintVisits
<1>5. /\ after[0] = rcs
      /\ after[n] = ConstraintsAfter(rcs, rt)
      /\ \A i \in 0 .. n : after[i] \in ConstraintLists
      /\ \A i \in 1 .. n : after[i] = VisitConstraintReport(after[i - 1], seq[i])
  BY <1>4 DEF ConstraintSteps, ConstraintsAfter
<1>6. \A i \in 1 .. n : w[i] \in Nat /\ w[i] = InConstraint(seq[i], e)
  BY <1>1, <1>2, InConstraintsIsNat DEF ConstraintSizes
<1>7. base \in Nat
  BY InConstraintsIsNat, ListsAreReports
<1> HIDE DEF w, base
<1>8. /\ Total(0, w) = 0 /\ \A k \in 0 .. n : Total(k, w) \in Nat
      /\ \A k \in 1 .. n : Total(k, w) = Total(k - 1, w) + w[k]
  BY <1>2, <1>6, TotalFacts
<1>9. \A i \in 1 .. n : ConstraintShare(seq[i], e) = IF asked THEN w[i] ELSE 0
  BY <1>6 DEF ConstraintShare
<1> DEFINE Sum(i) == InConstraints(after[i], e) = base + IF asked THEN Total(i, w) ELSE 0
           Done == {i \in Nat : i <= n => Sum(i)}
<1>10. 0 \in Done
  BY <1>5, <1>7, <1>8 DEF base
<1>11. ASSUME NEW i \in Nat, i \in Done
       PROVE  i + 1 \in Done
  <2> SUFFICES ASSUME i + 1 <= n PROVE Sum(i + 1)
    OBVIOUS
  <2>1. i + 1 \in 1 .. n /\ (i + 1) - 1 = i /\ i \in 0 .. n /\ Sum(i)
    BY <1>2, <1>11
  <2>2. after[i] \in ConstraintLists /\ seq[i + 1] \in ReportForConstraint
        /\ after[i + 1] = VisitConstraintReport(after[i], seq[i + 1])
    BY <1>2, <1>5, <2>1
  <2>3. InConstraints(after[i + 1], e) =
            InConstraints(after[i], e) + ConstraintShare(seq[i + 1], e)
    BY <2>2, VisitConstraintCounts
  <2>4. /\ ConstraintShare(seq[i + 1], e) = IF asked THEN w[i + 1] ELSE 0
        /\ w[i + 1] \in Nat /\ Total(i, w) \in Nat
        /\ Total(i + 1, w) = Total(i, w) + w[i + 1]
    BY <1>6, <1>8, <1>9, <2>1
  <2> HIDE DEF asked
  <2>5. QED
    BY <1>7, <2>1, <2>3, <2>4
<1> HIDE DEF Done, Sum
<1>12. Nat \subseteq Done
  BY <1>10, <1>11, SetInduction
<1>13. Sum(n)
  BY <1>2, <1>12 DEF Done
<1>14. QED
  BY <1>5, <1>13 DEF Sum, base, w, InConstraints

(* The same of templates.                                                  *)
LEMMA TemplatesRaised ==
    ASSUME NEW rts \in Seq(ReportForTemplate), NEW new \in Seq(ReportForTemplate), NEW e,
           DOMAIN new = DOMAIN rts, NEW t \in DOMAIN rts, NEW d \in Nat,
           \A x \in DOMAIN rts : x # t => new[x] = rts[x],
           InTemplate(new[t], e) = InTemplate(rts[t], e) + d
    PROVE  InTemplates(new, e) = InTemplates(rts, e) + d
<1> DEFINE w == TemplateSizes(rts, e)
           v == TemplateSizes(new, e)
           n == Len(rts)
<1>1. n \in Nat /\ DOMAIN rts = 1 .. n /\ Len(new) = n
  OBVIOUS
<1>2. \A x \in 1 .. n : w[x] \in Nat
  BY InTemplatesIsNat
<1>3. \A x \in 1 .. n : v[x] = InTemplate(new[x], e) /\ w[x] = InTemplate(rts[x], e)
  BY <1>1 DEF TemplateSizes
<1> HIDE DEF w, v, n
<1>4. /\ t \in 1 .. n /\ v[t] = w[t] + d
      /\ \A x \in 1 .. n : x # t => v[x] = w[x]
  BY <1>1, <1>3
<1>5. Total(n, v) = Total(n, w) + d
  BY <1>1, <1>2, <1>4, TotalRaised, SMTT(30)
<1>6. QED
  BY <1>1, <1>5 DEF InTemplates, w, v, n

LEMMA TemplatesAppended ==
    ASSUME NEW rts \in Seq(ReportForTemplate), NEW rt \in ReportForTemplate, NEW e
    PROVE  InTemplates(Append(rts, rt), e) = InTemplates(rts, e) + InTemplate(rt, e)
<1> DEFINE new == Append(rts, rt)
           w == TemplateSizes(rts, e)
           v == TemplateSizes(new, e)
           n == Len(rts)
<1>1. /\ n \in Nat /\ DOMAIN rts = 1 .. n /\ DOMAIN new = 1 .. n + 1 /\ Len(new) = n + 1
      /\ \A t \in 1 .. n : new[t] = rts[t]
      /\ new[n + 1] = rt
  OBVIOUS
<1>2. \A t \in 1 .. n : w[t] \in Nat
  BY InTemplatesIsNat
<1> HIDE DEF new
<1>3. /\ \A t \in 1 .. n : t \in 1 .. n + 1
      /\ n + 1 \in 1 .. n + 1
  BY <1>1
<1>4. /\ \A t \in 1 .. n : v[t] = w[t]
      /\ v[n + 1] = InTemplate(rt, e)
  BY <1>1, <1>3 DEF TemplateSizes
<1>5. InTemplate(rt, e) \in Nat
  BY InTemplateIsNat
<1> HIDE DEF w, v, n
<1>6. Total(n + 1, v) = Total(n, w) + v[n + 1]
  BY <1>1, <1>2, <1>4, <1>5, TotalAppended
<1>7. QED
  BY <1>1, <1>4, <1>6 DEF InTemplates, new, w, v, n

AskedEntry(e) == Match(filter.kind, e.key.kind) /\ AskedInConstraint(e)

TemplateShare(rt, e) == IF AskedEntry(e) THEN InTemplate(rt, e) ELSE 0

LEMMA VisitTemplateCounts ==
    ASSUME NEW rts \in TemplateLists, NEW rt \in ReportForTemplate, NEW e
    PROVE  InTemplates(VisitTemplateReport(rts, rt), e) =
               InTemplates(rts, e) + TemplateShare(rt, e)
<1> DEFINE new == VisitTemplateReport(rts, rt)
           share == IF AskedInConstraint(e) THEN InConstraints(rt.constraints, e) ELSE 0
<1>1. /\ rts \in Seq(ReportForTemplate) /\ new \in Seq(ReportForTemplate)
      /\ rts \in Seq(MergedTemplate)
  BY VisitTemplate, ListsAreReports DEF TemplateLists, MergedTemplate
<1>2. rt.constraints \in Seq(ReportForConstraint)
  BY DEF ReportForTemplate, TemplatesWith
<1>3. InTemplates(rts, e) \in Nat /\ InConstraints(rt.constraints, e) \in Nat /\ share \in Nat
  BY <1>1, <1>2, InTemplatesIsNat, InConstraintsIsNat
<1>4. TemplateShare(rt, e) = IF rt.kind = e.key.kind /\ Match(filter.kind, rt.kind)
                             THEN share ELSE 0
  BY DEF TemplateShare, AskedEntry, InTemplate
<1> HIDE DEF share
<1>5. \A rcs \in ConstraintLists :
          InConstraints(ConstraintsAfter(rcs, rt), e) = InConstraints(rcs, e) + share
  BY ConstraintsAfterCounts DEF share
<1>6. InConstraints(ConstraintsAfter(<<>>, rt), e) = share
  <2>1. <<>> \in ConstraintLists
    BY DEF ConstraintLists
  <2>2. InConstraints(ConstraintsAfter(<<>>, rt), e) = InConstraints(<<>>, e) + share
    BY <1>5, <2>1
  <2>3. QED
    BY <1>3, <2>2, EmptyCounts
<1>7. CASE ~Match(filter.kind, rt.kind) /\ new = rts
  BY <1>3, <1>4, <1>7
<1>8. CASE ConstraintsAfter(<<>>, rt) = <<>> /\ new = rts
  <2>1. share = 0
    BY <1>6, <1>8, EmptyCounts
  <2>2. QED
    BY <1>3, <1>4, <1>8, <2>1
<1>9. ASSUME Match(filter.kind, rt.kind), NEW t \in DOMAIN rts, rts[t].kind = rt.kind,
             new = TemplateMerged(rts, t, rt)
      PROVE  InTemplates(new, e) = InTemplates(rts, e) + TemplateShare(rt, e)
  <2>1. rts[t] \in MergedTemplate /\ rts[t].constraints \in ConstraintLists
    <3>1. rts[t] \in MergedTemplate
      BY <1>1
    <3>2. QED
      BY <3>1 DEF MergedTemplate, TemplatesWith
  <2>2. /\ DOMAIN new = DOMAIN rts
        /\ \A x \in DOMAIN rts : x # t => new[x] = rts[x]
        /\ new[t].kind = rts[t].kind
        /\ new[t].constraints = ConstraintsAfter(rts[t].constraints, rt)
    BY <1>1, <1>9, <2>1 DEF MergedTemplate, TemplatesWith, TemplateMerged
  <2> HIDE DEF new
  <2>3. InConstraints(new[t].constraints, e) = InConstraints(rts[t].constraints, e) + share
    BY <1>5, <2>1, <2>2
  <2>4. InConstraints(rts[t].constraints, e) \in Nat
    BY <2>1, InConstraintsIsNat, ListsAreReports
  <2>5. InTemplate(new[t], e) = InTemplate(rts[t], e) + TemplateShare(rt, e)
    BY <1>4, <1>9, <2>2, <2>3, <2>4 DEF InTemplate
  <2>6. TemplateShare(rt, e) \in Nat
    BY <1>3, <1>4
  <2>7. QED
    BY <1>1, <2>2, <2>5, <2>6, TemplatesRaised
<1>10. ASSUME Match(filter.kind, rt.kind), ConstraintsAfter(<<>>, rt) # <<>>,
              new = Append(rts, NewTemplate(rt))
       PROVE  InTemplates(new, e) = InTemplates(rts, e) + TemplateShare(rt, e)
  <2>1. NewTemplate(rt) \in ReportForTemplate
    <3>1. new[Len(rts) + 1] = NewTemplate(rt) /\ Len(rts) + 1 \in DOMAIN new
      BY <1>1, <1>10
    <3> HIDE DEF new
    <3>2. QED
      BY <1>1, <3>1
  <2>2. NewTemplate(rt).kind = rt.kind
        /\ NewTemplate(rt).constraints = ConstraintsAfter(<<>>, rt)
    BY DEF NewTemplate
  <2>3. InTemplate(NewTemplate(rt), e) = TemplateShare(rt, e)
    BY <1>4, <1>6, <1>10, <2>2 DEF InTemplate
  <2>4. QED
    BY <1>1, <1>10, <2>1, <2>3, TemplatesAppended
<1>11. QED
  BY <1>1, <1>7, <1>8, <1>9, <1>10, TemplateOutcome

(* A visit to a report adds what the report has of an entry, if its key is *)
(* one that was asked for.                                                 *)
LEMMA VisitReportCounts ==
    ASSUME NEW rts \in TemplateLists, NEW seq \in Seq(ReportForTemplate), NEW e
    PROVE  InTemplates(FoldLeft(VisitTemplateReport, rts, seq), e) =
               InTemplates(rts, e) + IF AskedEntry(e) THEN InTemplates(seq, e) ELSE 0
<1> DEFINE n == Len(seq)
           asked == AskedEntry(e)
           w == TemplateSizes(seq, e)
           base == InTemplates(rts, e)
<1>1. n \in Nat /\ DOMAIN seq = 1 .. n /\ \A i \in 1 .. n : seq[i] \in ReportForTemplate
  OBVIOUS
<1>2. \A t \in TemplateLists, x \in ReportForTemplate :
          VisitTemplateReport(t, x) \in TemplateLists
  BY VisitTemplate
<1>3. PICK after : TemplateSteps(after, TemplateLists, rts, seq)
  BY <1>2, TemplateVisits
<1>4. /\ after[0] = rts
      /\ after[n] = FoldLeft(VisitTemplateReport, rts, seq)
      /\ \A i \in 0 .. n : after[i] \in TemplateLists
      /\ \A i \in 1 .. n : after[i] = VisitTemplateReport(after[i - 1], seq[i])
  BY <1>3 DEF TemplateSteps
<1>5. \A i \in 1 .. n : w[i] \in Nat /\ w[i] = InTemplate(seq[i], e)
  BY <1>1, InTemplatesIsNat DEF TemplateSizes
<1>6. base \in Nat
  BY InTemplatesIsNat, ListsAreReports
<1> HIDE DEF w, base
<1>7. /\ Total(0, w) = 0 /\ \A k \in 0 .. n : Total(k, w) \in Nat
      /\ \A k \in 1 .. n : Total(k, w) = Total(k - 1, w) + w[k]
  BY <1>1, <1>5, TotalFacts
<1>8. \A i \in 1 .. n : TemplateShare(seq[i], e) = IF asked THEN w[i] ELSE 0
  BY <1>5 DEF TemplateShare
<1> DEFINE Sum(i) == InTemplates(after[i], e) = base + IF asked THEN Total(i, w) ELSE 0
           Done == {i \in Nat : i <= n => Sum(i)}
<1>9. 0 \in Done
  BY <1>4, <1>6, <1>7 DEF base
<1>10. ASSUME NEW i \in Nat, i \in Done
       PROVE  i + 1 \in Done
  <2> SUFFICES ASSUME i + 1 <= n PROVE Sum(i + 1)
    OBVIOUS
  <2>1. i + 1 \in 1 .. n /\ (i + 1) - 1 = i /\ i \in 0 .. n /\ Sum(i)
    BY <1>1, <1>10
  <2>2. after[i] \in TemplateLists /\ seq[i + 1] \in ReportForTemplate
        /\ after[i + 1] = VisitTemplateReport(after[i], seq[i + 1])
    BY <1>1, <1>4, <2>1
  <2>3. InTemplates(after[i + 1], e) = InTemplates(after[i], e) + TemplateShare(seq[i + 1], e)
    BY <2>2, VisitTemplateCounts
  <2>4. /\ TemplateShare(seq[i + 1], e) = IF asked THEN w[i + 1] ELSE 0
        /\ w[i + 1] \in Nat /\ Total(i, w) \in Nat
        /\ Total(i + 1, w) = Total(i, w) + w[i + 1]
    BY <1>5, <1>7, <1>8, <2>1
  <2> HIDE DEF asked
  <2>5. QED
    BY <1>6, <2>1, <2>3, <2>4
<1> HIDE DEF Done, Sum
<1>11. Nat \subseteq Done
  BY <1>9, <1>10, SetInduction
<1>12. Sum(n)
  BY <1>1, <1>11 DEF Done
<1>13. QED
  BY <1>4, <1>12 DEF Sum, base, w, InTemplates

-----------------------------------------------------------------------------
(* Sorting changes no number.                                              *)
LEMMA SortGroupCounts ==
    ASSUME NEW vg \in ViolationGroup, NEW e
    PROVE  InGroup(SortGroup(vg), e) = InGroup(vg, e)
<1>1. PICK o \in Permutation(Len(vg.instances)) :
          SortGroup(vg) = [vg EXCEPT !.instances = Rearranged(vg.instances, o)]
  BY GroupSorted
<1>2. vg.instances \in Seq(Violation)
  BY DEF ViolationGroup, NonEmpty
<1>3. /\ SortGroup(vg).instances = Rearranged(vg.instances, o)
      /\ SortGroup(vg).pattern = vg.pattern
  BY <1>1 DEF ViolationGroup
<1>4. InInstances(SortGroup(vg).instances, e) = InInstances(vg.instances, e)
  BY <1>2, <1>3, PositionsRearranged DEF InInstances
<1>5. QED
  BY <1>3, <1>4 DEF InGroup

LEMMA SortConstraintCounts ==
    ASSUME NEW rc \in ReportForConstraint, NEW e
    PROVE  InConstraint(SortConstraint(rc), e) = InConstraint(rc, e)
<1> DEFINE vgs == rc.groups
           n == Len(vgs)
           w == GroupSizes(vgs, e)
<1>1. vgs \in Seq(ViolationGroup)
  BY DEF ReportForConstraint, ConstraintsWith
<1>2. PICK o \in Permutation(n) :
          SortConstraint(rc) =
              [rc EXCEPT !.groups = [i \in DOMAIN vgs |-> SortGroup(vgs[o[i]])]]
  BY <1>1, ConstraintSorted
<1> DEFINE new == [i \in DOMAIN vgs |-> SortGroup(vgs[o[i]])]
           v == GroupSizes(new, e)
<1>3. n \in Nat /\ DOMAIN vgs = 1 .. n /\ \A i \in 1 .. n : o[i] \in 1 .. n
  <2>1. n \in Nat /\ DOMAIN vgs = 1 .. n
    BY <1>1
  <2>2. QED
    BY <2>1 DEF Permutation
<1>4. \A i \in 1 .. n : vgs[o[i]] \in ViolationGroup
  BY <1>1, <1>3
<1>5. new \in Seq(ViolationGroup) /\ DOMAIN new = 1 .. n /\ Len(new) = n
  <2>1. new \in [1 .. n -> ViolationGroup]
    BY <1>3, <1>4, SortGroupStays
  <2> HIDE DEF new
  <2>2. QED
    BY <1>3, <2>1
<1>6. \A i \in 1 .. n : v[i] = w[o[i]]
  <2>1. \A i \in 1 .. n : v[i] = InGroup(SortGroup(vgs[o[i]]), e)
    BY <1>3, <1>5 DEF GroupSizes
  <2>2. \A i \in 1 .. n : w[o[i]] = InGroup(vgs[o[i]], e)
    BY <1>3 DEF GroupSizes
  <2>3. QED
    BY <1>4, <2>1, <2>2, SortGroupCounts
<1>7. \A i \in 1 .. n : w[i] \in Nat
  BY <1>1, InGroupsIsNat
<1>8. SortConstraint(rc) = [rc EXCEPT !.groups = new]
  BY <1>2
<1> HIDE DEF new, v, w
<1>9. Total(n, v) = Total(n, w)
  BY <1>3, <1>6, <1>7, TotalRearranged
<1>10. InGroups(new, e) = InGroups(vgs, e)
  BY <1>5, <1>9 DEF InGroups, v, w
<1>11. /\ SortConstraint(rc).groups = new
       /\ SortConstraint(rc).name = rc.name /\ SortConstraint(rc).metadata = rc.metadata
  BY <1>8 DEF ReportForConstraint, ConstraintsWith
<1>12. QED
  BY <1>10, <1>11 DEF InConstraint, HasKey

LEMMA SortTemplateCounts ==
    ASSUME NEW rt \in MergedTemplate, NEW e
    PROVE  InTemplate(SortTemplate(rt), e) = InTemplate(rt, e)
<1> DEFINE rcs == rt.constraints
           n == Len(rcs)
           w == ConstraintSizes(rcs, e)
<1>1. rcs \in ConstraintLists /\ rcs \in Seq(MergedConstraint)
  BY DEF MergedTemplate, TemplatesWith, ConstraintLists, MergedConstraint
<1>2. PICK o \in Permutation(n) :
          SortTemplate(rt) =
              [rt EXCEPT !.constraints = [i \in DOMAIN rcs |-> SortConstraint(rcs[o[i]])]]
  BY <1>1, TemplateSorted
<1> DEFINE new == [i \in DOMAIN rcs |-> SortConstraint(rcs[o[i]])]
           v == ConstraintSizes(new, e)
<1>3. n \in Nat /\ DOMAIN rcs = 1 .. n /\ \A i \in 1 .. n : o[i] \in 1 .. n
  <2>1. n \in Nat /\ DOMAIN rcs = 1 .. n
    BY <1>1
  <2>2. QED
    BY <2>1 DEF Permutation
<1>4. \A i \in 1 .. n : rcs[o[i]] \in MergedConstraint
  BY <1>1, <1>3
<1>5. DOMAIN new = 1 .. n /\ Len(new) = n
  <2>1. new \in [1 .. n -> MergedConstraint]
    BY <1>3, <1>4, SortConstraintStays
  <2> HIDE DEF new
  <2>2. QED
    BY <1>3, <2>1
<1>6. \A i \in 1 .. n : v[i] = w[o[i]]
  <2>1. \A i \in 1 .. n : v[i] = InConstraint(SortConstraint(rcs[o[i]]), e)
    BY <1>3, <1>5 DEF ConstraintSizes
  <2>2. \A i \in 1 .. n : w[o[i]] = InConstraint(rcs[o[i]], e)
    BY <1>3 DEF ConstraintSizes
  <2>3. \A i \in 1 .. n : rcs[o[i]] \in ReportForConstraint
    BY <1>4, ListsAreReports
  <2>4. QED
    BY <2>1, <2>2, <2>3, SortConstraintCounts
<1>7. \A i \in 1 .. n : w[i] \in Nat
  BY <1>1, InConstraintsIsNat, ListsAreReports
<1>8. SortTemplate(rt) = [rt EXCEPT !.constraints = new]
  BY <1>2
<1> HIDE DEF new, v, w
<1>9. Total(n, v) = Total(n, w)
  BY <1>3, <1>6, <1>7, TotalRearranged
<1>10. InConstraints(new, e) = InConstraints(rcs, e)
  BY <1>5, <1>9 DEF InConstraints, v, w
<1>11. SortTemplate(rt).constraints = new /\ SortTemplate(rt).kind = rt.kind
  BY <1>8 DEF MergedTemplate, TemplatesWith
<1>12. QED
  BY <1>10, <1>11 DEF InTemplate

LEMMA SortTemplatesCounts ==
    ASSUME NEW rts \in TemplateLists, NEW e
    PROVE  InTemplates(SortTemplates(rts), e) = InTemplates(rts, e)
<1> DEFINE n == Len(rts)
           w == TemplateSizes(rts, e)
<1>1. rts \in Seq(MergedTemplate)
  BY DEF TemplateLists, MergedTemplate
<1>2. PICK o \in Permutation(n) :
          SortTemplates(rts) = [i \in DOMAIN rts |-> SortTemplate(rts[o[i]])]
  BY <1>1, TemplatesSorted
<1> DEFINE new == [i \in DOMAIN rts |-> SortTemplate(rts[o[i]])]
           v == TemplateSizes(new, e)
<1>3. n \in Nat /\ DOMAIN rts = 1 .. n /\ \A i \in 1 .. n : o[i] \in 1 .. n
  <2>1. n \in Nat /\ DOMAIN rts = 1 .. n
    BY <1>1
  <2>2. QED
    BY <2>1 DEF Permutation
<1>4. \A i \in 1 .. n : rts[o[i]] \in MergedTemplate
  BY <1>1, <1>3
<1>5. DOMAIN new = 1 .. n /\ Len(new) = n
  <2>1. new \in [1 .. n -> MergedTemplate]
    BY <1>3, <1>4, SortTemplateStays
  <2> HIDE DEF new
  <2>2. QED
    BY <1>3, <2>1
<1>6. \A i \in 1 .. n : v[i] = w[o[i]]
  <2>1. \A i \in 1 .. n : v[i] = InTemplate(SortTemplate(rts[o[i]]), e)
    BY <1>3, <1>5 DEF TemplateSizes
  <2>2. \A i \in 1 .. n : w[o[i]] = InTemplate(rts[o[i]], e)
    BY <1>3 DEF TemplateSizes
  <2>3. QED
    BY <1>4, <2>1, <2>2, SortTemplateCounts
<1>7. \A i \in 1 .. n : w[i] \in Nat
  BY <1>1, InTemplatesIsNat, ListsAreReports
<1>8. SortTemplates(rts) = new
  BY <1>2
<1> HIDE DEF new, v, w
<1>9. Total(n, v) = Total(n, w)
  BY <1>3, <1>6, <1>7, TotalRearranged
<1>10. QED
  BY <1>5, <1>8, <1>9 DEF InTemplates, v, w

-----------------------------------------------------------------------------
(* The places of a list of templates, and what is there.                   *)
Key == [kind : Text, name : Text, metadata : Metadata, pattern : Violation]
Entry == [key : Key, violation : Violation]

ConstraintAt(rts, t, c) == rts[t].constraints[c]
GroupAt(rts, t, c, g) == rts[t].constraints[c].groups[g]

KeyAt(rts, t, c, g) ==
    [kind |-> rts[t].kind, name |-> ConstraintAt(rts, t, c).name,
     metadata |-> WithoutAudit(ConstraintAt(rts, t, c).metadata),
     pattern |-> GroupAt(rts, t, c, g).pattern]

EntryAt(rts, t, c, g, i) ==
    [key |-> KeyAt(rts, t, c, g), violation |-> GroupAt(rts, t, c, g).instances[i]]

IsGroup(rts, t, c, g) ==
    /\ t \in DOMAIN rts
    /\ c \in DOMAIN rts[t].constraints
    /\ g \in DOMAIN ConstraintAt(rts, t, c).groups

IsPlace(rts, t, c, g, i) ==
    IsGroup(rts, t, c, g) /\ i \in DOMAIN GroupAt(rts, t, c, g).instances

LEMMA PlacesAre ==
    ASSUME NEW rts
    PROVE  /\ \A p \in DOMAIN Entries(rts) :
                 /\ p = <<p[1], p[2], p[3], p[4]>>
                 /\ IsPlace(rts, p[1], p[2], p[3], p[4])
           /\ \A t, c, g, i : IsPlace(rts, t, c, g, i) =>
                 /\ <<t, c, g, i>> \in DOMAIN Entries(rts)
                 /\ Entries(rts)[<<t, c, g, i>>] = EntryAt(rts, t, c, g, i)
<1> DEFINE Of3(t, c, g) == {<<t, c, g, i>> : i \in DOMAIN rts[t].constraints[c].groups[g].instances}
           Of2(t, c) == UNION {Of3(t, c, g) : g \in DOMAIN rts[t].constraints[c].groups}
           Of1(t) == UNION {Of2(t, c) : c \in DOMAIN rts[t].constraints}
           places == UNION {Of1(t) : t \in DOMAIN rts}
<1>1. Entries(rts) = [p \in places |-> EntryAt(rts, p[1], p[2], p[3], p[4])]
  BY DEF Entries, EntryAt, KeyAt, ConstraintAt, GroupAt
<1> HIDE DEF places
<1>2. DOMAIN Entries(rts) = places
      /\ \A p \in places : Entries(rts)[p] = EntryAt(rts, p[1], p[2], p[3], p[4])
  BY <1>1
<1>3. ASSUME NEW p \in places
      PROVE  p = <<p[1], p[2], p[3], p[4]>> /\ IsPlace(rts, p[1], p[2], p[3], p[4])
  <2>1. PICK t \in DOMAIN rts : p \in Of1(t)
    BY DEF places
  <2>2. PICK c \in DOMAIN rts[t].constraints : p \in Of2(t, c)
    BY <2>1
  <2>3. PICK g \in DOMAIN rts[t].constraints[c].groups : p \in Of3(t, c, g)
    BY <2>2
  <2>4. PICK i \in DOMAIN rts[t].constraints[c].groups[g].instances : p = <<t, c, g, i>>
    BY <2>3
  <2>5. p[1] = t /\ p[2] = c /\ p[3] = g /\ p[4] = i
    BY <2>4
  <2>6. IsPlace(rts, t, c, g, i)
    BY DEF IsPlace, IsGroup, ConstraintAt, GroupAt
  <2>7. QED
    BY <2>4, <2>5, <2>6
<1>4. ASSUME NEW t, NEW c, NEW g, NEW i, IsPlace(rts, t, c, g, i)
      PROVE  <<t, c, g, i>> \in places
  <2>1. /\ t \in DOMAIN rts /\ c \in DOMAIN rts[t].constraints
        /\ g \in DOMAIN rts[t].constraints[c].groups
        /\ i \in DOMAIN rts[t].constraints[c].groups[g].instances
    BY <1>4 DEF IsPlace, IsGroup, ConstraintAt, GroupAt
  <2>2. <<t, c, g, i>> \in Of3(t, c, g)
    BY <2>1
  <2> HIDE DEF Of3
  <2>3. <<t, c, g, i>> \in Of2(t, c)
    BY <2>1, <2>2
  <2> HIDE DEF Of2
  <2>4. <<t, c, g, i>> \in Of1(t)
    BY <2>1, <2>3
  <2> HIDE DEF Of1
  <2>5. QED
    BY <2>1, <2>4 DEF places
<1>5. ASSUME NEW t, NEW c, NEW g, NEW i, IsPlace(rts, t, c, g, i)
      PROVE  Entries(rts)[<<t, c, g, i>>] = EntryAt(rts, t, c, g, i)
  BY <1>2, <1>4, <1>5
<1>6. QED
  BY <1>2, <1>3, <1>4, <1>5

LEMMA PlacesAreTyped ==
    ASSUME NEW rts \in Seq(ReportForTemplate), NEW t, NEW c, NEW g, IsGroup(rts, t, c, g)
    PROVE  /\ rts[t] \in ReportForTemplate
           /\ rts[t].constraints \in Seq(ReportForConstraint)
           /\ ConstraintAt(rts, t, c) \in ReportForConstraint
           /\ ConstraintAt(rts, t, c).groups \in Seq(ViolationGroup)
           /\ GroupAt(rts, t, c, g) \in ViolationGroup
           /\ GroupAt(rts, t, c, g).instances \in NonEmpty(Violation)
           /\ KeyAt(rts, t, c, g) \in Key
<1>1. rts[t] \in ReportForTemplate
  BY DEF IsGroup
<1>2. rts[t].constraints \in Seq(ReportForConstraint) /\ rts[t].kind \in Text
  BY <1>1 DEF ReportForTemplate, TemplatesWith
<1>3. ConstraintAt(rts, t, c) \in ReportForConstraint
  BY <1>2 DEF IsGroup, ConstraintAt
<1>4. /\ ConstraintAt(rts, t, c).groups \in Seq(ViolationGroup)
      /\ ConstraintAt(rts, t, c).name \in Text
      /\ ConstraintAt(rts, t, c).metadata \in Metadata
  BY <1>3 DEF ReportForConstraint, ConstraintsWith
<1>5. GroupAt(rts, t, c, g) = ConstraintAt(rts, t, c).groups[g]
  BY DEF GroupAt, ConstraintAt
<1>6. GroupAt(rts, t, c, g) \in ViolationGroup
  BY <1>4, <1>5 DEF IsGroup
<1>7. /\ GroupAt(rts, t, c, g).instances \in NonEmpty(Violation)
      /\ GroupAt(rts, t, c, g).pattern \in Violation
  BY <1>6 DEF ViolationGroup
<1>8. WithoutAudit(ConstraintAt(rts, t, c).metadata) \in Metadata
  BY <1>4 DEF WithoutAudit, Metadata, NoText, Text
<1>9. KeyAt(rts, t, c, g) \in Key
  BY <1>2, <1>4, <1>7, <1>8 DEF KeyAt, Key
<1>10. QED
  BY <1>1, <1>2, <1>3, <1>4, <1>6, <1>7, <1>9

LEMMA EntriesAreTyped ==
    ASSUME NEW rts \in Seq(ReportForTemplate)
    PROVE  \A p \in DOMAIN Entries(rts) : Entries(rts)[p] \in Entry
<1> SUFFICES ASSUME NEW p \in DOMAIN Entries(rts)
             PROVE  Entries(rts)[p] \in Entry
  OBVIOUS
<1> DEFINE t == p[1] c == p[2] g == p[3] i == p[4]
<1>1. p = <<t, c, g, i>> /\ IsPlace(rts, t, c, g, i)
  BY PlacesAre
<1> HIDE DEF t, c, g, i
<1>2. Entries(rts)[p] = EntryAt(rts, t, c, g, i)
  BY <1>1, PlacesAre
<1>3. IsGroup(rts, t, c, g) /\ i \in DOMAIN GroupAt(rts, t, c, g).instances
  BY <1>1 DEF IsPlace
<1>4. KeyAt(rts, t, c, g) \in Key /\ GroupAt(rts, t, c, g).instances \in NonEmpty(Violation)
  BY <1>3, PlacesAreTyped
<1>5. GroupAt(rts, t, c, g).instances[i] \in Violation
  <2>1. GroupAt(rts, t, c, g).instances \in Seq(Violation)
    BY <1>4 DEF NonEmpty
  <2>2. QED
    BY <1>3, <2>1
<1>6. QED
  BY <1>2, <1>4, <1>5 DEF EntryAt, Entry

(* The places at which an entry is.                                        *)
PlacesOf(rts, e) == {p \in DOMAIN Entries(rts) : Entries(rts)[p] = e}

HoldsAt(rts, e, t, c, g, i) ==
    /\ rts[t].kind = e.key.kind
    /\ HasKey(ConstraintAt(rts, t, c), e)
    /\ GroupAt(rts, t, c, g).pattern = e.key.pattern
    /\ GroupAt(rts, t, c, g).instances[i] = e.violation

LEMMA EntryHolds ==
    ASSUME NEW rts, NEW e \in Entry, NEW t, NEW c, NEW g, NEW i
    PROVE  EntryAt(rts, t, c, g, i) = e <=> HoldsAt(rts, e, t, c, g, i)
<1>1. /\ e = [key |-> e.key, violation |-> e.violation]
      /\ e.key = [kind |-> e.key.kind, name |-> e.key.name,
                  metadata |-> e.key.metadata, pattern |-> e.key.pattern]
  BY DEF Entry, Key
<1>2. EntryAt(rts, t, c, g, i) = e <=>
          /\ KeyAt(rts, t, c, g) = e.key
          /\ GroupAt(rts, t, c, g).instances[i] = e.violation
  BY <1>1 DEF EntryAt
<1>3. KeyAt(rts, t, c, g) = e.key <=>
          /\ rts[t].kind = e.key.kind
          /\ HasKey(ConstraintAt(rts, t, c), e)
          /\ GroupAt(rts, t, c, g).pattern = e.key.pattern
  BY <1>1 DEF KeyAt, HasKey
<1>4. QED
  BY <1>2, <1>3 DEF HoldsAt

LEMMA PlacesOfAre ==
    ASSUME NEW rts, NEW e \in Entry
    PROVE  /\ \A p \in PlacesOf(rts, e) :
                 /\ p = <<p[1], p[2], p[3], p[4]>>
                 /\ IsPlace(rts, p[1], p[2], p[3], p[4])
                 /\ HoldsAt(rts, e, p[1], p[2], p[3], p[4])
           /\ \A t, c, g, i : IsPlace(rts, t, c, g, i) /\ HoldsAt(rts, e, t, c, g, i)
                 => <<t, c, g, i>> \in PlacesOf(rts, e)
<1>1. ASSUME NEW p \in PlacesOf(rts, e)
      PROVE  /\ p = <<p[1], p[2], p[3], p[4]>>
             /\ IsPlace(rts, p[1], p[2], p[3], p[4])
             /\ HoldsAt(rts, e, p[1], p[2], p[3], p[4])
  <2> DEFINE t == p[1] c == p[2] g == p[3] i == p[4]
  <2>1. p \in DOMAIN Entries(rts) /\ Entries(rts)[p] = e
    BY DEF PlacesOf
  <2>2. p = <<t, c, g, i>> /\ IsPlace(rts, t, c, g, i)
    BY <2>1, PlacesAre
  <2> HIDE DEF t, c, g, i
  <2>3. EntryAt(rts, t, c, g, i) = e
    BY <2>1, <2>2, PlacesAre
  <2>4. HoldsAt(rts, e, t, c, g, i)
    BY <2>3, EntryHolds
  <2>5. QED
    BY <2>2, <2>4 DEF t, c, g, i
<1>2. ASSUME NEW t, NEW c, NEW g, NEW i,
             IsPlace(rts, t, c, g, i), HoldsAt(rts, e, t, c, g, i)
      PROVE  <<t, c, g, i>> \in PlacesOf(rts, e)
  BY <1>2, PlacesAre, EntryHolds DEF PlacesOf
<1>3. QED
  BY <1>1, <1>2

(* They are counted group by group, constraint by constraint, template by  *)
(* template.                                                               *)
InGroupAt(rts, e, t, c, g) ==
    {p \in PlacesOf(rts, e) : p[1] = t /\ p[2] = c /\ p[3] = g}
InConstraintAt(rts, e, t, c) == {p \in PlacesOf(rts, e) : p[1] = t /\ p[2] = c}
InTemplateAt(rts, e, t) == {p \in PlacesOf(rts, e) : p[1] = t}

LEMMA GroupPlacesCounted ==
    ASSUME NEW rts \in Seq(ReportForTemplate), NEW e \in Entry,
           NEW t, NEW c, NEW g, IsGroup(rts, t, c, g),
           rts[t].kind = e.key.kind, HasKey(ConstraintAt(rts, t, c), e)
    PROVE  /\ IsFiniteSet(InGroupAt(rts, e, t, c, g))
           /\ Cardinality(InGroupAt(rts, e, t, c, g)) = InGroup(GroupAt(rts, t, c, g), e)
<1> DEFINE vg == GroupAt(rts, t, c, g)
           P == InGroupAt(rts, e, t, c, g)
           Q == Positions(vg.instances, e.violation)
           f == [i \in Q |-> <<t, c, g, i>>]
<1>1. \A p \in P : /\ p = <<t, c, g, p[4]>>
                   /\ p[4] \in DOMAIN vg.instances
                   /\ vg.pattern = e.key.pattern
                   /\ vg.instances[p[4]] = e.violation
  BY PlacesOfAre DEF InGroupAt, IsPlace, HoldsAt
<1>2. CASE vg.pattern = e.key.pattern
  <2>1. vg.instances \in Seq(Violation)
    BY PlacesAreTyped DEF NonEmpty
  <2>2. IsFiniteSet(Q)
    BY <2>1, PositionsFinite
  <2>3. \A i \in Q : <<t, c, g, i>> \in P
    <3> SUFFICES ASSUME NEW i \in Q PROVE <<t, c, g, i>> \in P
      OBVIOUS
    <3>1. IsPlace(rts, t, c, g, i) /\ HoldsAt(rts, e, t, c, g, i)
      BY <1>2 DEF Positions, IsPlace, HoldsAt
    <3>2. <<t, c, g, i>> \in PlacesOf(rts, e)
      BY <3>1, PlacesOfAre
    <3>3. QED
      BY <3>2 DEF InGroupAt
  <2>4. \A p \in P : p = <<t, c, g, p[4]>> /\ p[4] \in Q
    BY <1>1 DEF Positions
  <2> HIDE DEF P, Q
  <2>5. f \in [Q -> P]
    BY <2>3
  <2>6. \A i, j \in Q : f[i] = f[j] => i = j
    OBVIOUS
  <2>7. \A p \in P : \E i \in Q : f[i] = p
    BY <2>4
  <2> HIDE DEF f
  <2>8. IsFiniteSet(P) /\ Cardinality(P) = Cardinality(Q)
    BY <2>2, <2>5, <2>6, <2>7, SizeOfBijection
  <2>9. QED
    BY <1>2, <2>8 DEF InGroup, InInstances, P, Q
<1>3. CASE vg.pattern # e.key.pattern
  <2>1. P = {}
    BY <1>1, <1>3
  <2>2. QED
    BY <1>3, <2>1, FS_EmptySet DEF InGroup
<1>4. QED
  BY <1>2, <1>3

LEMMA ConstraintPlacesCounted ==
    ASSUME NEW rts \in Seq(ReportForTemplate), NEW e \in Entry,
           NEW t \in DOMAIN rts, NEW c \in DOMAIN rts[t].constraints,
           rts[t].kind = e.key.kind
    PROVE  /\ IsFiniteSet(InConstraintAt(rts, e, t, c))
           /\ Cardinality(InConstraintAt(rts, e, t, c)) = InConstraint(ConstraintAt(rts, t, c), e)
<1> DEFINE rc == ConstraintAt(rts, t, c)
           vgs == rc.groups
           n == Len(vgs)
           w == GroupSizes(vgs, e)
           P == InConstraintAt(rts, e, t, c)
           f == [p \in P |-> p[3]]
<1>1. rts[t] \in ReportForTemplate
  OBVIOUS
<1>2. rts[t].constraints \in Seq(ReportForConstraint)
  BY <1>1 DEF ReportForTemplate, TemplatesWith
<1>3. rc \in ReportForConstraint
  BY <1>2 DEF ConstraintAt
<1>4. vgs \in Seq(ViolationGroup)
  BY <1>3 DEF ReportForConstraint, ConstraintsWith
<1>5. n \in Nat /\ DOMAIN vgs = 1 .. n
  BY <1>4
<1>6. \A p \in P : IsGroup(rts, t, c, p[3]) /\ HasKey(rc, e)
  BY PlacesOfAre DEF InConstraintAt, IsPlace, HoldsAt
<1>7. CASE HasKey(rc, e)
  <2>1. \A p \in P : f[p] \in 1 .. n
    BY <1>5, <1>6 DEF IsGroup
  <2>2. ASSUME NEW g \in 1 .. n
        PROVE  IsFiniteSet(WithValue(P, f, g)) /\ Cardinality(WithValue(P, f, g)) = w[g]
    <3>1. IsGroup(rts, t, c, g)
      BY <1>5 DEF IsGroup
    <3>2. WithValue(P, f, g) = InGroupAt(rts, e, t, c, g)
      BY DEF WithValue, InConstraintAt, InGroupAt
    <3>3. w[g] = InGroup(GroupAt(rts, t, c, g), e)
      BY <1>5 DEF GroupSizes, GroupAt, ConstraintAt
    <3>4. QED
      BY <1>7, <3>1, <3>2, <3>3, GroupPlacesCounted
  <2> HIDE DEF P, f, w, n
  <2>3. IsFiniteSet(P) /\ Cardinality(P) = Total(n, w)
    BY <1>5, <2>1, <2>2, SizeByValue
  <2>4. QED
    BY <1>7, <2>3 DEF InConstraint, InGroups, P, n, w
<1>8. CASE ~HasKey(rc, e)
  <2>1. P = {}
    BY <1>6, <1>8
  <2>2. QED
    BY <1>8, <2>1, FS_EmptySet DEF InConstraint
<1>9. QED
  BY <1>7, <1>8

LEMMA TemplatePlacesCounted ==
    ASSUME NEW rts \in Seq(ReportForTemplate), NEW e \in Entry, NEW t \in DOMAIN rts
    PROVE  /\ IsFiniteSet(InTemplateAt(rts, e, t))
           /\ Cardinality(InTemplateAt(rts, e, t)) = InTemplate(rts[t], e)
<1> DEFINE rcs == rts[t].constraints
           n == Len(rcs)
           w == ConstraintSizes(rcs, e)
           P == InTemplateAt(rts, e, t)
           f == [p \in P |-> p[2]]
<1>1. rts[t] \in ReportForTemplate
  OBVIOUS
<1>2. rcs \in Seq(ReportForConstraint)
  BY <1>1 DEF ReportForTemplate, TemplatesWith
<1>3. n \in Nat /\ DOMAIN rcs = 1 .. n
  BY <1>2
<1>4. \A p \in P : p[2] \in DOMAIN rcs /\ rts[t].kind = e.key.kind
  BY PlacesOfAre DEF InTemplateAt, IsPlace, IsGroup, HoldsAt
<1>5. CASE rts[t].kind = e.key.kind
  <2>1. \A p \in P : f[p] \in 1 .. n
    BY <1>3, <1>4
  <2>2. ASSUME NEW c \in 1 .. n
        PROVE  IsFiniteSet(WithValue(P, f, c)) /\ Cardinality(WithValue(P, f, c)) = w[c]
    <3>1. WithValue(P, f, c) = InConstraintAt(rts, e, t, c)
      BY DEF WithValue, InTemplateAt, InConstraintAt
    <3>2. w[c] = InConstraint(ConstraintAt(rts, t, c), e)
      BY <1>3 DEF ConstraintSizes, ConstraintAt
    <3>3. QED
      BY <1>3, <1>5, <3>1, <3>2, ConstraintPlacesCounted
  <2> HIDE DEF P, f, w, n
  <2>3. IsFiniteSet(P) /\ Cardinality(P) = Total(n, w)
    BY <1>3, <2>1, <2>2, SizeByValue, ZenonT(30)
  <2>4. QED
    BY <1>5, <2>3 DEF InTemplate, InConstraints, P, n, w
<1>6. CASE rts[t].kind # e.key.kind
  <2>1. P = {}
    BY <1>4, <1>6
  <2>2. QED
    BY <1>6, <2>1, FS_EmptySet DEF InTemplate
<1>7. QED
  BY <1>5, <1>6

LEMMA PlacesCounted ==
    ASSUME NEW rts \in Seq(ReportForTemplate), NEW e \in Entry
    PROVE  /\ IsFiniteSet(PlacesOf(rts, e))
           /\ Occurrences(Entries(rts), e) = InTemplates(rts, e)
<1> DEFINE n == Len(rts)
           w == TemplateSizes(rts, e)
           P == PlacesOf(rts, e)
           f == [p \in P |-> p[1]]
<1>1. n \in Nat /\ DOMAIN rts = 1 .. n
  OBVIOUS
<1>2. \A p \in P : f[p] \in 1 .. n
  BY <1>1, PlacesOfAre DEF IsPlace, IsGroup
<1>3. ASSUME NEW t \in 1 .. n
      PROVE  IsFiniteSet(WithValue(P, f, t)) /\ Cardinality(WithValue(P, f, t)) = w[t]
  <2>1. WithValue(P, f, t) = InTemplateAt(rts, e, t)
    BY DEF WithValue, InTemplateAt
  <2>2. w[t] = InTemplate(rts[t], e)
    BY <1>1 DEF TemplateSizes
  <2>3. QED
    BY <1>1, <2>1, <2>2, TemplatePlacesCounted
<1>4. Occurrences(Entries(rts), e) = Cardinality(P)
  BY DEF Occurrences, PlacesOf
<1> HIDE DEF P, f, w, n
<1>5. n \in Nat
  BY <1>1
<1>6. IsFiniteSet(P) /\ Cardinality(P) = Total(n, w)
  BY <1>2, <1>3, <1>5, SizeByValue, ZenonT(30)
<1>7. QED
  BY <1>4, <1>6 DEF InTemplates, P, n, w

-----------------------------------------------------------------------------
(* The counts of an answer are those of the reports that it was made from. *)

(* What a cluster sent, and that every place of it is marked.              *)
SentTemplates(n) == SetClusterName(stored[n], n).templates

LEMMA EveryPlaceMarked ==
    ASSUME NEW report \in Report, NEW n \in Text, NEW t, NEW c, NEW g, NEW i,
           IsPlace(SetClusterName(report, n).templates, t, c, g, i)
    PROVE  GroupAt(SetClusterName(report, n).templates, t, c, g).instances[i].cluster = n
<1> DEFINE inInstance(v) == [v EXCEPT !.cluster = n]
           inGroup(vg) == [vg EXCEPT !.instances = [k \in DOMAIN @ |-> inInstance(@[k])]]
           inConstraint(rc) == [rc EXCEPT !.groups = [k \in DOMAIN @ |-> inGroup(@[k])]]
           inTemplate(rt) == [rt EXCEPT !.constraints = [k \in DOMAIN @ |-> inConstraint(@[k])]]
           rts == report.templates
           new == SetClusterName(report, n).templates
<1>1. \A v \in Violation : inInstance(v).cluster = n
  BY DEF Violation
<1> HIDE DEF inInstance
<1>2. ASSUME NEW vg \in ViolationGroup, i \in DOMAIN inGroup(vg).instances
      PROVE  inGroup(vg).instances[i].cluster = n
  <2>1. vg.instances \in Seq(Violation)
    BY DEF ViolationGroup, NonEmpty
  <2>2. inGroup(vg).instances = [k \in DOMAIN vg.instances |-> inInstance(vg.instances[k])]
    BY DEF ViolationGroup
  <2>3. i \in DOMAIN vg.instances /\ inGroup(vg).instances[i] = inInstance(vg.instances[i])
    BY <1>2, <2>2
  <2>4. QED
    BY <1>1, <2>1, <2>3
<1> HIDE DEF inGroup
<1>3. \A rc \in ReportForConstraint :
          inConstraint(rc).groups = [k \in DOMAIN rc.groups |-> inGroup(rc.groups[k])]
  BY DEF ReportForConstraint, ConstraintsWith
<1> HIDE DEF inConstraint
<1>4. \A rt \in ReportForTemplate :
          inTemplate(rt).constraints =
              [k \in DOMAIN rt.constraints |-> inConstraint(rt.constraints[k])]
  BY DEF ReportForTemplate, TemplatesWith
<1> HIDE DEF inTemplate
<1>5. new = [k \in DOMAIN rts |-> inTemplate(rts[k])]
  <2>1. SetClusterName(report, n) =
           [report EXCEPT !.templates = [k \in DOMAIN @ |-> inTemplate(@[k])]]
    BY DEF SetClusterName, inTemplate, inConstraint, inGroup, inInstance
  <2>2. QED
    BY <2>1 DEF Report
<1> HIDE DEF new
<1>6. /\ t \in DOMAIN new /\ c \in DOMAIN new[t].constraints
      /\ g \in DOMAIN new[t].constraints[c].groups
      /\ i \in DOMAIN new[t].constraints[c].groups[g].instances
  BY DEF IsPlace, IsGroup, ConstraintAt, GroupAt, new
<1>7. rts[t] \in ReportForTemplate /\ new[t] = inTemplate(rts[t])
  <2>1. rts \in Seq(ReportForTemplate)
    BY DEF Report
  <2>2. t \in DOMAIN rts /\ new[t] = inTemplate(rts[t])
    BY <1>5, <1>6
  <2>3. QED
    BY <2>1, <2>2
<1>8. /\ rts[t].constraints \in Seq(ReportForConstraint)
      /\ c \in DOMAIN rts[t].constraints
      /\ new[t].constraints[c] = inConstraint(rts[t].constraints[c])
  <2>1. rts[t].constraints \in Seq(ReportForConstraint)
    BY <1>7 DEF ReportForTemplate, TemplatesWith
  <2>2. new[t].constraints =
            [k \in DOMAIN rts[t].constraints |-> inConstraint(rts[t].constraints[k])]
    BY <1>4, <1>7
  <2>3. QED
    BY <1>6, <2>1, <2>2
<1>9. rts[t].constraints[c] \in ReportForConstraint
  BY <1>8
<1>10. /\ rts[t].constraints[c].groups \in Seq(ViolationGroup)
       /\ g \in DOMAIN rts[t].constraints[c].groups
       /\ new[t].constraints[c].groups[g] = inGroup(rts[t].constraints[c].groups[g])
  <2>1. rts[t].constraints[c].groups \in Seq(ViolationGroup)
    BY <1>9 DEF ReportForConstraint, ConstraintsWith
  <2>2. new[t].constraints[c].groups =
            [k \in DOMAIN rts[t].constraints[c].groups |->
                inGroup(rts[t].constraints[c].groups[k])]
    BY <1>3, <1>8, <1>9
  <2>3. QED
    BY <1>6, <2>1, <2>2
<1>11. rts[t].constraints[c].groups[g] \in ViolationGroup
  BY <1>10
<1>12. new[t].constraints[c].groups[g].instances[i].cluster = n
  BY <1>2, <1>6, <1>10, <1>11
<1>13. QED
  BY <1>12 DEF GroupAt, new

LEMMA SentByOne ==
    ASSUME NEW report \in Report, NEW n \in Text
    PROVE  /\ SetClusterName(report, n).templates \in Seq(ReportForTemplate)
           /\ \A p \in DOMAIN Entries(SetClusterName(report, n).templates) :
                 Entries(SetClusterName(report, n).templates)[p].violation.cluster = n
           /\ \A e \in Entry : e.violation.cluster # n
                 => InTemplates(SetClusterName(report, n).templates, e) = 0
<1> DEFINE rts == SetClusterName(report, n).templates
<1>1. rts \in Seq(ReportForTemplate)
  BY SetClusterNameStays DEF Report
<1>2. ASSUME NEW p \in DOMAIN Entries(rts)
      PROVE  Entries(rts)[p].violation.cluster = n
  <2> DEFINE t == p[1] c == p[2] g == p[3] i == p[4]
  <2>1. p = <<t, c, g, i>> /\ IsPlace(rts, t, c, g, i)
    BY PlacesAre
  <2> HIDE DEF t, c, g, i
  <2>2. Entries(rts)[p] = EntryAt(rts, t, c, g, i)
    BY <2>1, PlacesAre
  <2>3. GroupAt(rts, t, c, g).instances[i].cluster = n
    BY <2>1, EveryPlaceMarked
  <2>4. QED
    BY <2>2, <2>3 DEF EntryAt
<1> HIDE DEF rts
<1>3. ASSUME NEW e \in Entry, e.violation.cluster # n
      PROVE  InTemplates(rts, e) = 0
  <2>1. {p \in DOMAIN Entries(rts) : Entries(rts)[p] = e} = {}
    BY <1>2, <1>3
  <2>2. Occurrences(Entries(rts), e) = 0
    BY <2>1, FS_EmptySet DEF Occurrences
  <2>3. QED
    BY <1>1, <2>2, PlacesCounted
<1>4. QED
  BY <1>1, <1>2, <1>3 DEF rts

Listed(e) == e.violation.cluster \in MatchingClusters /\ AskedEntry(e)

CountsInv ==
    \A e \in Entry :
        InTemplates(templates, e) =
            IF Listed(e) THEN InTemplates(SentTemplates(e.violation.cluster), e) ELSE 0

LEMMA InitCountsInv == Init => CountsInv
<1>1. Init => templates = <<>> /\ MatchingClusters = {}
  BY DEF Init, MatchingClusters, Visited
<1>2. QED
  BY <1>1, EmptyCounts DEF CountsInv, Listed

LEMMA SentStays ==
    ASSUME UNCHANGED <<stored, filter>>
    PROVE  /\ \A n : SentTemplates(n)' = SentTemplates(n)
           /\ \A e : AskedEntry(e)' <=> AskedEntry(e)
<1>1. \A n : SentTemplates(n)' = SentTemplates(n)
  BY DEF SentTemplates
<1>2. \A e : AskedEntry(e)' <=> AskedEntry(e)
  BY DEF AskedEntry, AskedInConstraint, AskedGroup, MatchIdentity, Match
<1>3. QED
  BY <1>1, <1>2

LEMMA VisitMatches ==
    ASSUME AnswerInv, NEW n \in Clusters, VisitClusterReport(n)
    PROVE  /\ n \notin MatchingClusters
           /\ MatchingClusters' = IF MatchIdentity(filter.cluster, stored[n].identity)
                                  THEN MatchingClusters \cup {n} ELSE MatchingClusters
<1>1. n \in todo /\ todo' = todo \ {n} /\ UNCHANGED <<stored, filter>>
  BY DEF VisitClusterReport
<1>2. Visited' = Visited \cup {n} /\ n \notin Visited
  BY <1>1 DEF Visited, AnswerInv
<1>3. MatchingClusters' =
         {m \in Visited' : MatchIdentity(filter.cluster, stored[m].identity)}
  BY <1>1 DEF MatchingClusters, MatchIdentity, Match
<1>4. QED
  BY <1>2, <1>3 DEF MatchingClusters

LEMMA VisitKeepsCountsInv ==
    ASSUME AnswerInv, CountsInv, NEW n \in Clusters, VisitClusterReport(n)
    PROVE  CountsInv'
<1> DEFINE sent == SentTemplates(n)
           matches == MatchIdentity(filter.cluster, stored[n].identity)
<1>1. stored[n] \in Report /\ n \in Text
  BY ReportsAssumption DEF AnswerInv
<1>2. UNCHANGED <<stored, filter>>
  BY DEF VisitClusterReport
<1>3. templates' = IF matches THEN FoldLeft(VisitTemplateReport, templates, sent)
                   ELSE templates
  <2>1. SetClusterName(stored[n], n).identity = stored[n].identity
    BY <1>1, SetClusterNameStays
  <2>2. QED
    BY <2>1 DEF VisitClusterReport, SentTemplates
<1>4. /\ sent \in Seq(ReportForTemplate)
      /\ \A e \in Entry : e.violation.cluster # n => InTemplates(sent, e) = 0
  BY <1>1, SentByOne DEF SentTemplates
<1>5. templates \in TemplateLists
  BY DEF AnswerInv
<1>6. n \notin MatchingClusters
      /\ MatchingClusters' = IF matches THEN MatchingClusters \cup {n} ELSE MatchingClusters
  BY VisitMatches
<1>7. \A e \in Entry : InTemplates(sent, e) \in Nat
  BY <1>4, InTemplatesIsNat
<1> SUFFICES ASSUME NEW e \in Entry
             PROVE  InTemplates(templates', e) =
                        IF Listed(e)' THEN InTemplates(SentTemplates(e.violation.cluster)', e)
                        ELSE 0
  BY DEF CountsInv
<1>8. Listed(e)' <=> e.violation.cluster \in MatchingClusters' /\ AskedEntry(e)
  BY <1>2, SentStays DEF Listed
<1>9. SentTemplates(e.violation.cluster)' = SentTemplates(e.violation.cluster)
  BY <1>2, SentStays
<1>10. InTemplates(templates, e) =
          IF Listed(e) THEN InTemplates(SentTemplates(e.violation.cluster), e) ELSE 0
  BY DEF CountsInv
<1> HIDE DEF matches, sent
<1>11. CASE matches
  <2>1. InTemplates(templates', e) =
           InTemplates(templates, e) + IF AskedEntry(e) THEN InTemplates(sent, e) ELSE 0
    BY <1>3, <1>4, <1>5, <1>11, VisitReportCounts
  <2>2. CASE e.violation.cluster = n
    <3>1. ~Listed(e) /\ (Listed(e)' <=> AskedEntry(e))
      BY <1>6, <1>8, <1>11, <2>2 DEF Listed
    <3>2. SentTemplates(e.violation.cluster)' = sent
      BY <1>9, <2>2 DEF sent
    <3>3. QED
      BY <1>7, <1>10, <2>1, <3>1, <3>2
  <2>3. CASE e.violation.cluster # n
    <3>1. Listed(e)' <=> Listed(e)
      BY <1>6, <1>8, <1>11, <2>3 DEF Listed
    <3>2. InTemplates(sent, e) = 0 /\ InTemplates(templates, e) \in Nat
      BY <1>4, <1>5, <2>3, InTemplatesIsNat, ListsAreReports
    <3>3. InTemplates(templates', e) = InTemplates(templates, e)
      BY <2>1, <3>2
    <3>4. QED
      BY <1>9, <1>10, <3>1, <3>3
  <2>4. QED
    BY <2>2, <2>3
<1>12. CASE ~matches
  <2>1. Listed(e)' <=> Listed(e)
    BY <1>6, <1>8, <1>12 DEF Listed
  <2>2. QED
    BY <1>3, <1>9, <1>10, <1>12, <2>1
<1>13. QED
  BY <1>11, <1>12

(* The steps that visit no report: they list what was listed before.       *)
LEMMA OthersKeepCountsInv ==
    ASSUME AnswerInv, CountsInv, UNCHANGED <<stored, filter, todo>>,
           templates' = templates \/ templates' = SortTemplates(templates)
    PROVE  CountsInv'
<1>1. MatchingClusters' = MatchingClusters
  BY DEF MatchingClusters, Visited, MatchIdentity, Match
<1>2. templates \in TemplateLists
  BY DEF AnswerInv
<1> SUFFICES ASSUME NEW e \in Entry
             PROVE  InTemplates(templates', e) =
                        IF Listed(e)' THEN InTemplates(SentTemplates(e.violation.cluster)', e)
                        ELSE 0
  BY DEF CountsInv
<1>3. Listed(e)' <=> Listed(e)
  BY <1>1, SentStays DEF Listed
<1>4. SentTemplates(e.violation.cluster)' = SentTemplates(e.violation.cluster)
  BY SentStays
<1>5. InTemplates(templates', e) = InTemplates(templates, e)
  BY <1>2, SortTemplatesCounts
<1>6. InTemplates(templates, e) =
          IF Listed(e) THEN InTemplates(SentTemplates(e.violation.cluster), e) ELSE 0
  BY DEF CountsInv
<1>7. QED
  BY <1>3, <1>4, <1>5, <1>6

LEMMA NextKeepsCountsInv ==
    ASSUME AnswerInv, CountsInv, [MetricsNext]_metricVars
    PROVE  CountsInv'
<1>1. ASSUME NEW n \in Clusters, VisitClusterReport(n)
      PROVE  CountsInv'
  BY <1>1, VisitKeepsCountsInv
<1>2. CASE Sort
  BY <1>2, OthersKeepCountsInv DEF Sort
<1>3. CASE UNCHANGED vars
  BY <1>3, OthersKeepCountsInv DEF vars
<1>4. CASE Answer
  BY <1>1, <1>2, <1>4 DEF Answer, Next
<1>5. CASE GetReportsFails
  BY <1>3, <1>5 DEF GetReportsFails
<1>6. CASE SendAges
  BY <1>3, <1>6 DEF SendAges
<1>7. ASSUME NEW n \in Clusters, Gather(n)
      PROVE  CountsInv'
  BY <1>1, <1>7 DEF Gather
<1>8. ASSUME NEW k \in ToCount, CountViolations(k[1], k[2])
      PROVE  CountsInv'
  BY <1>3, <1>8 DEF CountViolations
<1>9. CASE FinishScrape
  BY <1>3, <1>9 DEF FinishScrape
<1>10. CASE UNCHANGED metricVars
  BY <1>3, <1>10 DEF metricVars
<1>11. QED
  BY <1>4, <1>5, <1>6, <1>7, <1>8, <1>9, <1>10 DEF MetricsNext

(* What the invariant says of the entries.                                 *)
LEMMA CountsInvMeans ==
    ASSUME AnswerInv, CountsInv
    PROVE  ReportsExactlyTheAsked
<1> DEFINE listed == Entries(templates)
           sent == [n \in Clusters |-> Sent(n)]
           asked(e) == e.violation.cluster \in Visited /\ Asked(e.violation.cluster, e.key)
<1>1. templates \in Seq(ReportForTemplate)
  BY ListsAreReports DEF AnswerInv
<1>2. \A n \in Clusters : SentTemplates(n) \in Seq(ReportForTemplate)
  <2>1. \A n \in Clusters : stored[n] \in Report /\ n \in Text
    BY ReportsAssumption DEF AnswerInv
  <2>2. QED
    BY <2>1, SentByOne DEF SentTemplates
<1>3. \A n \in Clusters : sent[n] = Entries(SentTemplates(n))
  BY DEF Sent, SentTemplates
<1>4. \A e \in Range(listed) : e \in Entry
  BY <1>1, EntriesAreTyped DEF Range
<1>5. \A n \in Clusters : \A e \in Range(sent[n]) : e \in Entry
  BY <1>2, <1>3, EntriesAreTyped DEF Range
<1>6. ASSUME NEW e \in Entry
      PROVE  Occurrences(listed, e) =
                 IF asked(e) THEN Occurrences(sent[e.violation.cluster], e) ELSE 0
  <2> DEFINE n == e.violation.cluster
  <2>1. asked(e) <=> Listed(e)
    BY DEF Asked, Listed, MatchingClusters, AskedEntry, AskedInConstraint, AskedGroup
  <2>2. Occurrences(listed, e) = InTemplates(templates, e)
    BY <1>1, PlacesCounted
  <2>3. InTemplates(templates, e) = IF Listed(e) THEN InTemplates(SentTemplates(n), e) ELSE 0
    BY DEF CountsInv
  <2>4. ASSUME Listed(e)
        PROVE  Occurrences(sent[n], e) = InTemplates(SentTemplates(n), e)
    <3>1. n \in Clusters
      BY <2>4 DEF Listed, MatchingClusters, Visited
    <3>2. QED
      BY <1>2, <1>3, <3>1, PlacesCounted
  <2> HIDE DEF asked, listed, sent, n
  <2>5. QED
    BY <2>1, <2>2, <2>3, <2>4 DEF n
<1>7. QED
  BY <1>4, <1>5, <1>6 DEF ReportsExactlyTheAsked

LEMMA CountsInvariant == MetricsSpec => []CountsInv
<1>1. MetricsInit => CountsInv
  BY InitCountsInv DEF MetricsInit
<1>2. AnswerInv /\ CountsInv /\ [MetricsNext]_metricVars => CountsInv'
  BY NextKeepsCountsInv
<1>3. QED
  BY <1>1, <1>2, AnswerInvariant, PTL DEF MetricsSpec

(* Under every key the answer has the violations of each cluster that was  *)
(* asked for, as often as its report, marked with that cluster's name, and *)
(* no others: for any reports, any filter, and any order of the visits     *)
(* (aggregate.go:46-100, internal/doop/report.go:34-61).                   *)
THEOREM AnswerExact == MetricsSpec => []ReportsExactlyTheAsked
<1>1. AnswerInv /\ CountsInv => ReportsExactlyTheAsked
  BY CountsInvMeans
<1>2. QED
  BY <1>1, AnswerInvariant, CountsInvariant, PTL

-----------------------------------------------------------------------------
(* Tallies: how many members of a set have each value of a function.       *)
Tally(P, f) == [l \in {f[p] : p \in P} |-> Cardinality(WithValue(P, f, l))]

LEMMA FiniteByValue ==
    ASSUME NEW S, IsFiniteSet(S), NEW P, NEW f, \A p \in P : f[p] \in S,
           \A s \in S : IsFiniteSet(WithValue(P, f, s))
    PROVE  IsFiniteSet(P)
<1> DEFINE F == [s \in S |-> WithValue(P, f, s)]
           T == {F[s] : s \in S}
<1>1. F \in Surjection(S, T)
  BY DEF Surjection
<1>2. IsFiniteSet(T)
  <2> HIDE DEF F, T
  <2>1. QED
    BY <1>1, FS_Surjection
<1>3. \A U \in T : IsFiniteSet(U)
  OBVIOUS
<1>4. UNION T = P
  BY DEF WithValue
<1> HIDE DEF T
<1>5. QED
  BY <1>2, <1>3, <1>4, FS_UNION

LEMMA TallyPositive ==
    ASSUME NEW P, IsFiniteSet(P), NEW f
    PROVE  /\ DOMAIN Tally(P, f) = {f[p] : p \in P}
           /\ \A l \in DOMAIN Tally(P, f) : Tally(P, f)[l] \in Nat \ {0}
<1>1. ASSUME NEW l, NEW p \in P, f[p] = l
      PROVE  Cardinality(WithValue(P, f, l)) \in Nat \ {0}
  <2>1. WithValue(P, f, l) \in SUBSET P /\ WithValue(P, f, l) # {}
    BY <1>1 DEF WithValue
  <2>2. IsFiniteSet(WithValue(P, f, l))
    BY <2>1, FS_Subset
  <2>3. QED
    BY <2>1, <2>2, FS_CardinalityType, FS_EmptySet
<1>2. QED
  BY <1>1 DEF Tally

LEMMA TallyJoined ==
    ASSUME NEW P, NEW Q, NEW f, \A p \in P, q \in Q : f[p] # f[q]
    PROVE  /\ Tally(P \cup Q, f) = Joined(Tally(Q, f), Tally(P, f))
           /\ DOMAIN Tally(Q, f) \cap DOMAIN Tally(P, f) = {}
<1>1. \A p \in P : WithValue(P \cup Q, f, f[p]) = WithValue(P, f, f[p])
  BY DEF WithValue
<1>2. \A q \in Q : WithValue(P \cup Q, f, f[q]) = WithValue(Q, f, f[q])
  BY DEF WithValue
<1>3. {f[p] : p \in P \cup Q} = {f[q] : q \in Q} \cup {f[p] : p \in P}
  OBVIOUS
<1>4. {f[q] : q \in Q} \cap {f[p] : p \in P} = {}
  OBVIOUS
<1>5. QED
  BY <1>1, <1>2, <1>3, <1>4 DEF Tally, Joined

(* Two ways to count that a bijection relates.                             *)
LEMMA TallyMoved ==
    ASSUME NEW P, IsFiniteSet(P), NEW Q, NEW f, NEW g, NEW h \in [P -> Q],
           \A x, y \in P : h[x] = h[y] => x = y,
           \A q \in Q : \E p \in P : h[p] = q,
           \A p \in P : f[p] = g[h[p]]
    PROVE  Tally(P, f) = Tally(Q, g)
<1>1. {f[p] : p \in P} = {g[q] : q \in Q}
  OBVIOUS
<1>2. ASSUME NEW l
      PROVE  Cardinality(WithValue(P, f, l)) = Cardinality(WithValue(Q, g, l))
  <2> DEFINE S == WithValue(P, f, l)
             T == WithValue(Q, g, l)
             k == [s \in S |-> h[s]]
  <2>1. S \in SUBSET P
    BY DEF WithValue
  <2>2. IsFiniteSet(S)
    BY <2>1, FS_Subset
  <2>3. k \in [S -> T]
    BY DEF WithValue
  <2>4. \A x, y \in S : k[x] = k[y] => x = y
    BY <2>1
  <2>5. \A t \in T : \E s \in S : k[s] = t
    BY DEF WithValue
  <2> HIDE DEF S, T, k
  <2>6. Cardinality(T) = Cardinality(S)
    BY <2>2, <2>3, <2>4, <2>5, SizeOfBijection
  <2>7. QED
    BY <2>6 DEF S, T
<1>3. QED
  BY <1>1, <1>2 DEF Tally

(* Sets that have as many members under each value have as many members.   *)
SameFibres(E, P, f, Q, g) ==
    /\ \A p \in P : f[p] \in E
    /\ \A q \in Q : g[q] \in E
    /\ \A e \in E : /\ IsFiniteSet(WithValue(P, f, e))
                    /\ IsFiniteSet(WithValue(Q, g, e))
                    /\ Cardinality(WithValue(P, f, e)) = Cardinality(WithValue(Q, g, e))

LEMMA EqualFibres ==
    ASSUME NEW E, NEW P, IsFiniteSet(P), NEW f, NEW Q, NEW g, SameFibres(E, P, f, Q, g)
    PROVE  Cardinality(P) = Cardinality(Q)
<1> USE DEF SameFibres
<1> DEFINE b(e) == CHOOSE h : h \in Bijection(WithValue(P, f, e), WithValue(Q, g, e))
           F == [p \in P |-> b(f[p])[p]]
<1>1. ASSUME NEW e \in E
      PROVE  b(e) \in Bijection(WithValue(P, f, e), WithValue(Q, g, e))
  <2>1. ExistsBijection(WithValue(P, f, e), WithValue(Q, g, e))
    BY FS_SameCardinalityBij
  <2>2. \E h : h \in Bijection(WithValue(P, f, e), WithValue(Q, g, e))
    BY <2>1 DEF ExistsBijection
  <2>3. QED
    BY <2>2
<1> HIDE DEF b
<1>2. ASSUME NEW e \in E
      PROVE  /\ b(e) \in [WithValue(P, f, e) -> WithValue(Q, g, e)]
             /\ \A x, y \in WithValue(P, f, e) : b(e)[x] = b(e)[y] => x = y
             /\ \A q \in WithValue(Q, g, e) : \E p \in WithValue(P, f, e) : b(e)[p] = q
  BY <1>1 DEF Bijection, Injection, Surjection, IsInjective
<1>3. \A p \in P : p \in WithValue(P, f, f[p]) /\ f[p] \in E
  BY DEF WithValue
<1>4. \A p \in P : F[p] \in WithValue(Q, g, f[p])
  BY <1>2, <1>3
<1>5. F \in [P -> Q] /\ \A p \in P : g[F[p]] = f[p]
  BY <1>4 DEF WithValue
<1>6. \A x, y \in P : F[x] = F[y] => x = y
  <2> SUFFICES ASSUME NEW x \in P, NEW y \in P, F[x] = F[y] PROVE x = y
    OBVIOUS
  <2>1. f[x] = f[y]
    BY <1>5
  <2>2. b(f[x])[x] = b(f[x])[y] /\ y \in WithValue(P, f, f[x])
    BY <1>3, <2>1
  <2>3. QED
    BY <1>2, <1>3, <2>2
<1>7. \A q \in Q : \E p \in P : F[p] = q
  <2> SUFFICES ASSUME NEW q \in Q PROVE \E p \in P : F[p] = q
    OBVIOUS
  <2>1. g[q] \in E /\ q \in WithValue(Q, g, g[q])
    BY DEF WithValue
  <2>2. PICK p \in WithValue(P, f, g[q]) : b(g[q])[p] = q
    BY <1>2, <2>1
  <2>3. p \in P /\ f[p] = g[q]
    BY DEF WithValue
  <2>4. QED
    BY <2>2, <2>3
<1> HIDE DEF F
<1>8. QED
  BY <1>5, <1>6, <1>7, SizeOfBijection

-----------------------------------------------------------------------------
(* What is counted of a list of templates: its groups and its entries.     *)
GroupsOf(rts, t, c) == {<<t, c, g>> : g \in DOMAIN ConstraintAt(rts, t, c).groups}
GroupsIn(rts) == UNION {UNION {GroupsOf(rts, t, c) : c \in DOMAIN rts[t].constraints} :
                            t \in DOMAIN rts}

LEMMA GroupsAre ==
    ASSUME NEW rts
    PROVE  /\ \A p \in GroupsIn(rts) : /\ p = <<p[1], p[2], p[3]>>
                                       /\ IsGroup(rts, p[1], p[2], p[3])
           /\ \A t, c, g : IsGroup(rts, t, c, g) => <<t, c, g>> \in GroupsIn(rts)
<1> DEFINE Of(t) == UNION {GroupsOf(rts, t, c) : c \in DOMAIN rts[t].constraints}
<1>1. GroupsIn(rts) = UNION {Of(t) : t \in DOMAIN rts}
  BY DEF GroupsIn
<1>2. ASSUME NEW p \in GroupsIn(rts)
      PROVE  p = <<p[1], p[2], p[3]>> /\ IsGroup(rts, p[1], p[2], p[3])
  <2>1. PICK t \in DOMAIN rts : p \in Of(t)
    BY <1>1
  <2>2. PICK c \in DOMAIN rts[t].constraints : p \in GroupsOf(rts, t, c)
    BY <2>1
  <2>3. PICK g \in DOMAIN ConstraintAt(rts, t, c).groups : p = <<t, c, g>>
    BY <2>2 DEF GroupsOf
  <2>4. IsGroup(rts, t, c, g)
    BY DEF IsGroup
  <2>5. QED
    BY <2>3, <2>4
<1>3. ASSUME NEW t, NEW c, NEW g, IsGroup(rts, t, c, g)
      PROVE  <<t, c, g>> \in GroupsIn(rts)
  <2>1. t \in DOMAIN rts /\ c \in DOMAIN rts[t].constraints
        /\ g \in DOMAIN ConstraintAt(rts, t, c).groups
    BY <1>3 DEF IsGroup
  <2>2. <<t, c, g>> \in GroupsOf(rts, t, c)
    BY <2>1 DEF GroupsOf
  <2>3. <<t, c, g>> \in Of(t)
    BY <2>1, <2>2
  <2> HIDE DEF Of
  <2>4. QED
    BY <1>1, <2>1, <2>3
<1>4. QED
  BY <1>2, <1>3

LEMMA GroupsFinite ==
    ASSUME NEW rts \in Seq(ReportForTemplate)
    PROVE  IsFiniteSet(GroupsIn(rts))
<1> DEFINE P == GroupsIn(rts)
           T == DOMAIN rts
           f == [p \in P |-> p[1]]
           In(t) == WithValue(P, f, t)
           h(t) == [p \in In(t) |-> p[2]]
<1>1. IsFiniteSet(T)
  <2>1. T = 1 .. Len(rts) /\ Len(rts) \in Nat
    OBVIOUS
  <2>2. QED
    BY <2>1, FS_Interval
<1>2. \A p \in P : f[p] \in T
  BY GroupsAre DEF IsGroup
<1>3. ASSUME NEW t \in T
      PROVE  IsFiniteSet(In(t))
  <2> DEFINE rcs == rts[t].constraints
             C == DOMAIN rcs
  <2>1. rcs \in Seq(ReportForConstraint)
    <3>1. rts[t] \in ReportForTemplate
      OBVIOUS
    <3>2. QED
      BY <3>1 DEF ReportForTemplate, TemplatesWith
  <2>2. IsFiniteSet(C)
    <3>1. C = 1 .. Len(rcs) /\ Len(rcs) \in Nat
      BY <2>1
    <3> HIDE DEF C
    <3>2. IsFiniteSet(1 .. Len(rcs))
      BY <3>1, FS_Interval
    <3>3. QED
      BY <3>1, <3>2
  <2>3. \A p \in In(t) : h(t)[p] \in C /\ p \in P /\ p[1] = t
    BY GroupsAre DEF IsGroup, WithValue
  <2>4. ASSUME NEW c \in C
        PROVE  IsFiniteSet(WithValue(In(t), h(t), c))
    <3> DEFINE vgs == ConstraintAt(rts, t, c).groups
               G == DOMAIN vgs
               Q == GroupsOf(rts, t, c)
               k == [g \in G |-> <<t, c, g>>]
    <3>1. rcs[c] \in ReportForConstraint
      BY <2>1
    <3>2. vgs \in Seq(ViolationGroup)
      BY <3>1 DEF ConstraintAt, ReportForConstraint, ConstraintsWith
    <3>3. IsFiniteSet(G)
      <4>1. G = 1 .. Len(vgs) /\ Len(vgs) \in Nat
        BY <3>2
      <4>2. QED
        BY <4>1, FS_Interval
    <3>4. k \in [G -> Q] /\ (\A x, y \in G : k[x] = k[y] => x = y)
          /\ \A q \in Q : \E x \in G : k[x] = q
      BY DEF GroupsOf
    <3>5. WithValue(In(t), h(t), c) \in SUBSET Q
      <4> SUFFICES ASSUME NEW p \in WithValue(In(t), h(t), c) PROVE p \in Q
        OBVIOUS
      <4>1. p \in In(t) /\ p[2] = c
        BY DEF WithValue
      <4>2. p = <<t, c, p[3]>> /\ IsGroup(rts, t, c, p[3])
        BY <2>3, <4>1, GroupsAre
      <4>3. QED
        BY <4>2 DEF IsGroup, GroupsOf
    <3> HIDE DEF G, Q, k
    <3>6. IsFiniteSet(Q)
      BY <3>3, <3>4, SizeOfBijection
    <3>7. QED
      BY <3>5, <3>6, FS_Subset
  <2> DEFINE F == h(t)
             R == In(t)
  <2> HIDE DEF C, F, R
  <2>5. /\ \A p \in R : F[p] \in C
        /\ \A c \in C : IsFiniteSet(WithValue(R, F, c))
    BY <2>3, <2>4 DEF F, R
  <2>6. IsFiniteSet(R)
    BY <2>2, <2>5, FiniteByValue
  <2>7. QED
    BY <2>6 DEF R
<1> HIDE DEF P, T, f
<1>4. QED
  BY <1>1, <1>2, <1>3, FiniteByValue DEF P

LEMMA PlacesFinite ==
    ASSUME NEW rts \in Seq(ReportForTemplate)
    PROVE  IsFiniteSet(DOMAIN Entries(rts))
<1> DEFINE P == DOMAIN Entries(rts)
           S == GroupsIn(rts)
           f == [p \in P |-> <<p[1], p[2], p[3]>>]
<1>1. IsFiniteSet(S)
  BY GroupsFinite
<1>2. \A p \in P : f[p] \in S
  BY PlacesAre, GroupsAre DEF IsPlace
<1>3. ASSUME NEW s \in S
      PROVE  IsFiniteSet(WithValue(P, f, s))
  <2> DEFINE t == s[1] c == s[2] g == s[3]
             vs == GroupAt(rts, t, c, g).instances
             I == DOMAIN vs
             Q == WithValue(P, f, s)
             k == [q \in Q |-> q[4]]
  <2>1. s = <<t, c, g>> /\ IsGroup(rts, t, c, g)
    BY GroupsAre
  <2> HIDE DEF t, c, g
  <2>2. vs \in Seq(Violation)
    BY <2>1, PlacesAreTyped DEF NonEmpty
  <2>3. IsFiniteSet(I)
    <3>1. I = 1 .. Len(vs) /\ Len(vs) \in Nat
      BY <2>2
    <3>2. QED
      BY <3>1, FS_Interval
  <2>4. \A q \in Q : q = <<t, c, g, q[4]>> /\ IsPlace(rts, t, c, g, q[4])
    <3> SUFFICES ASSUME NEW q \in Q
                 PROVE  q = <<t, c, g, q[4]>> /\ IsPlace(rts, t, c, g, q[4])
      OBVIOUS
    <3>1. q \in P /\ <<q[1], q[2], q[3]>> = s
      BY DEF WithValue
    <3>2. q[1] = t /\ q[2] = c /\ q[3] = g
      BY <2>1, <3>1
    <3>3. QED
      BY <3>1, <3>2, PlacesAre
  <2>5. k \in Injection(Q, I)
    <3>1. \A q \in Q : q[4] \in I
      BY <2>4 DEF IsPlace
    <3> HIDE DEF Q, I
    <3>2. QED
      BY <2>4, <3>1 DEF Injection, IsInjective
  <2> HIDE DEF Q, I, k
  <2>6. IsFiniteSet(Q)
    BY <2>3, <2>5, FS_Injection
  <2>7. QED
    BY <2>6 DEF Q
<1> HIDE DEF P, S, f
<1>4. QED
  BY <1>1, <1>2, <1>3, FiniteByValue DEF P

-----------------------------------------------------------------------------
(* The metrics of the constraints in the set k, and that those of one more *)
(* constraint are joined to them without a clash.                          *)
ConstraintOf(rts, p) == <<p[1], ConstraintAt(rts, p[1], p[2]).name>>

GroupLabelsIn(rts) == [p \in GroupsIn(rts) |-> LabelsOf(KeyAt(rts, p[1], p[2], p[3]))]
PlaceLabelsIn(rts) == [p \in DOMAIN Entries(rts) |-> RawLabelsOf(Entries(rts)[p])]

CountedGroups(rts, k) == {p \in GroupsIn(rts) : ConstraintOf(rts, p) \in k}
CountedPlaces(rts, k) == {p \in DOMAIN Entries(rts) : ConstraintOf(rts, p) \in k}

GroupTally(rts, k) == Tally(CountedGroups(rts, k), GroupLabelsIn(rts))
PlaceTally(rts, k) == Tally(CountedPlaces(rts, k), PlaceLabelsIn(rts))

LEMMA NothingCounted ==
    \A rts : GroupTally(rts, {}) = NoMetrics /\ PlaceTally(rts, {}) = NoMetrics
<1>1. \A rts : CountedGroups(rts, {}) = {} /\ CountedPlaces(rts, {}) = {}
  BY DEF CountedGroups, CountedPlaces
<1>2. \A f : Tally({}, f) = NoMetrics
  BY DEF Tally, NoMetrics
<1>3. QED
  BY <1>1, <1>2 DEF GroupTally, PlaceTally

LEMMA LabelsTellConstraint ==
    ASSUME NEW rts
    PROVE  /\ \A p \in GroupsIn(rts) :
                 /\ ConstraintOf(rts, p) = <<p[1], GroupLabelsIn(rts)[p].name>>
                 /\ GroupLabelsIn(rts)[p].kind = rts[p[1]].kind
                 /\ p[1] \in DOMAIN rts
           /\ \A p \in DOMAIN Entries(rts) :
                 /\ ConstraintOf(rts, p) = <<p[1], PlaceLabelsIn(rts)[p].name>>
                 /\ PlaceLabelsIn(rts)[p].kind = rts[p[1]].kind
                 /\ p[1] \in DOMAIN rts
<1>1. \A key : LabelsOf(key).kind = key.kind /\ LabelsOf(key).name = key.name
  BY DEF LabelsOf
<1>2. \A e : RawLabelsOf(e).kind = e.key.kind /\ RawLabelsOf(e).name = e.key.name
  BY <1>1 DEF RawLabelsOf, WithCluster
<1>3. ASSUME NEW p \in GroupsIn(rts)
      PROVE  /\ ConstraintOf(rts, p) = <<p[1], GroupLabelsIn(rts)[p].name>>
             /\ GroupLabelsIn(rts)[p].kind = rts[p[1]].kind
             /\ p[1] \in DOMAIN rts
  <2>1. GroupLabelsIn(rts)[p] = LabelsOf(KeyAt(rts, p[1], p[2], p[3]))
    BY DEF GroupLabelsIn
  <2>2. IsGroup(rts, p[1], p[2], p[3])
    BY GroupsAre
  <2>3. QED
    BY <1>1, <2>1, <2>2 DEF ConstraintOf, KeyAt, IsGroup
<1>4. ASSUME NEW p \in DOMAIN Entries(rts)
      PROVE  /\ ConstraintOf(rts, p) = <<p[1], PlaceLabelsIn(rts)[p].name>>
             /\ PlaceLabelsIn(rts)[p].kind = rts[p[1]].kind
             /\ p[1] \in DOMAIN rts
  <2>1. PlaceLabelsIn(rts)[p] = RawLabelsOf(Entries(rts)[p])
    BY DEF PlaceLabelsIn
  <2>2. IsPlace(rts, p[1], p[2], p[3], p[4]) /\ p = <<p[1], p[2], p[3], p[4]>>
    BY PlacesAre
  <2>3. Entries(rts)[p] = EntryAt(rts, p[1], p[2], p[3], p[4])
    BY <2>2, PlacesAre
  <2>4. Entries(rts)[p].key = KeyAt(rts, p[1], p[2], p[3])
    BY <2>3 DEF EntryAt
  <2>5. QED
    BY <1>2, <2>1, <2>2, <2>4 DEF ConstraintOf, KeyAt, IsPlace, IsGroup
<1>5. QED
  BY <1>3, <1>4

LEMMA OneMoreCounted ==
    ASSUME NEW rts \in TemplateLists, NEW k, NEW t \in DOMAIN rts, NEW name,
           <<t, name>> \notin k
    PROVE  /\ GroupTally(rts, k \cup {<<t, name>>}) =
                  Joined(GroupTally(rts, {<<t, name>>}), GroupTally(rts, k))
           /\ DOMAIN GroupTally(rts, {<<t, name>>}) \cap DOMAIN GroupTally(rts, k) = {}
           /\ PlaceTally(rts, k \cup {<<t, name>>}) =
                  Joined(PlaceTally(rts, {<<t, name>>}), PlaceTally(rts, k))
           /\ DOMAIN PlaceTally(rts, {<<t, name>>}) \cap DOMAIN PlaceTally(rts, k) = {}
<1> DEFINE one == {<<t, name>>}
           P == CountedGroups(rts, k)
           Q == CountedGroups(rts, one)
           f == GroupLabelsIn(rts)
           R == CountedPlaces(rts, k)
           S == CountedPlaces(rts, one)
           g == PlaceLabelsIn(rts)
<1>1. \A u, v \in DOMAIN rts : rts[u].kind = rts[v].kind => u = v
  BY DEF TemplateLists
<1>2. \A p \in P, q \in Q : f[p] # f[q]
  <2> SUFFICES ASSUME NEW p \in P, NEW q \in Q, f[p] = f[q] PROVE FALSE
    OBVIOUS
  <2>1. /\ p \in GroupsIn(rts) /\ ConstraintOf(rts, p) \in k
        /\ q \in GroupsIn(rts) /\ ConstraintOf(rts, q) = <<t, name>>
    BY DEF CountedGroups
  <2>2. /\ ConstraintOf(rts, p) = <<p[1], f[p].name>> /\ ConstraintOf(rts, q) = <<q[1], f[q].name>>
        /\ f[p].kind = rts[p[1]].kind /\ f[q].kind = rts[q[1]].kind
        /\ p[1] \in DOMAIN rts /\ q[1] \in DOMAIN rts
    BY <2>1, LabelsTellConstraint
  <2>3. p[1] = q[1]
    BY <1>1, <2>2
  <2> HIDE DEF f, P, Q
  <2>4. QED
    BY <2>1, <2>2, <2>3
<1>3. \A p \in R, q \in S : g[p] # g[q]
  <2> SUFFICES ASSUME NEW p \in R, NEW q \in S, g[p] = g[q] PROVE FALSE
    OBVIOUS
  <2>1. /\ p \in DOMAIN Entries(rts) /\ ConstraintOf(rts, p) \in k
        /\ q \in DOMAIN Entries(rts) /\ ConstraintOf(rts, q) = <<t, name>>
    BY DEF CountedPlaces
  <2>2. /\ ConstraintOf(rts, p) = <<p[1], g[p].name>> /\ ConstraintOf(rts, q) = <<q[1], g[q].name>>
        /\ g[p].kind = rts[p[1]].kind /\ g[q].kind = rts[q[1]].kind
        /\ p[1] \in DOMAIN rts /\ q[1] \in DOMAIN rts
    BY <2>1, LabelsTellConstraint
  <2>3. p[1] = q[1]
    BY <1>1, <2>2
  <2> HIDE DEF g, R, S
  <2>4. QED
    BY <2>1, <2>2, <2>3
<1>4. /\ CountedGroups(rts, k \cup one) = P \cup Q
      /\ CountedPlaces(rts, k \cup one) = R \cup S
  BY DEF CountedGroups, CountedPlaces
<1> HIDE DEF one, P, Q, R, S, f, g
<1>5. /\ Tally(P \cup Q, f) = Joined(Tally(Q, f), Tally(P, f))
      /\ DOMAIN Tally(Q, f) \cap DOMAIN Tally(P, f) = {}
  BY <1>2, TallyJoined
<1>6. /\ Tally(R \cup S, g) = Joined(Tally(S, g), Tally(R, g))
      /\ DOMAIN Tally(S, g) \cap DOMAIN Tally(R, g) = {}
  BY <1>3, TallyJoined
<1>7. /\ GroupTally(rts, k \cup one) = Tally(P \cup Q, f)
      /\ GroupTally(rts, k) = Tally(P, f) /\ GroupTally(rts, one) = Tally(Q, f)
      /\ PlaceTally(rts, k \cup one) = Tally(R \cup S, g)
      /\ PlaceTally(rts, k) = Tally(R, g) /\ PlaceTally(rts, one) = Tally(S, g)
  BY <1>4 DEF GroupTally, PlaceTally, P, Q, R, S, f, g
<1>8. QED
  BY <1>5, <1>6, <1>7 DEF one

LEMMA TalliesPositive ==
    ASSUME NEW rts \in Seq(ReportForTemplate), NEW k
    PROVE  /\ \A l \in DOMAIN PlaceTally(rts, k) : PlaceTally(rts, k)[l] \in Nat \ {0}
           /\ \A l \in DOMAIN GroupTally(rts, k) :
                 /\ GroupTally(rts, k)[l] \in Nat \ {0}
                 /\ \E t \in DOMAIN rts : rts[t].kind = l.kind /\ <<t, l.name>> \in k
<1> DEFINE P == CountedGroups(rts, k)
           R == CountedPlaces(rts, k)
<1>1. P \in SUBSET GroupsIn(rts) /\ R \in SUBSET (DOMAIN Entries(rts))
  BY DEF CountedGroups, CountedPlaces
<1>2. IsFiniteSet(P) /\ IsFiniteSet(R)
  BY <1>1, GroupsFinite, PlacesFinite, FS_Subset
<1>3. \A p \in P : \E t \in DOMAIN rts : /\ rts[t].kind = GroupLabelsIn(rts)[p].kind
                                         /\ <<t, GroupLabelsIn(rts)[p].name>> \in k
  BY LabelsTellConstraint DEF CountedGroups
<1> HIDE DEF P, R
<1>4. /\ DOMAIN Tally(P, GroupLabelsIn(rts)) = {GroupLabelsIn(rts)[p] : p \in P}
      /\ \A l \in DOMAIN Tally(P, GroupLabelsIn(rts)) :
            Tally(P, GroupLabelsIn(rts))[l] \in Nat \ {0}
      /\ \A l \in DOMAIN Tally(R, PlaceLabelsIn(rts)) :
            Tally(R, PlaceLabelsIn(rts))[l] \in Nat \ {0}
  BY <1>2, TallyPositive, ZenonT(30)
<1>5. QED
  BY <1>3, <1>4 DEF GroupTally, PlaceTally, P, R

(* The counts that are sent for a constraint are its tallies.              *)
LEMMA GroupPlacesAre ==
    ASSUME NEW t, NEW name
    PROVE  /\ \A p \in GroupPlaces(t, name) :
                 /\ p = <<p[1], p[2]>> /\ p[1] \in Together(t, name)
                 /\ p[2] \in DOMAIN GroupsAt(t, p[1])
           /\ \A c \in Together(t, name) : \A g \in DOMAIN GroupsAt(t, c) :
                 <<c, g>> \in GroupPlaces(t, name)
<1> DEFINE Of(c) == {<<c, g>> : g \in DOMAIN GroupsAt(t, c)}
<1>1. GroupPlaces(t, name) = UNION {Of(c) : c \in Together(t, name)}
  BY DEF GroupPlaces
<1>2. QED
  BY <1>1

LEMMA RawPlacesAre ==
    ASSUME NEW t, NEW name
    PROVE  /\ \A p \in RawPlaces(t, name) :
                 /\ p = <<p[1], p[2], p[3]>> /\ <<p[1], p[2]>> \in GroupPlaces(t, name)
                 /\ p[3] \in DOMAIN GroupsAt(t, p[1])[p[2]].instances
           /\ \A p \in GroupPlaces(t, name) :
                 \A i \in DOMAIN GroupsAt(t, p[1])[p[2]].instances :
                    <<p[1], p[2], i>> \in RawPlaces(t, name)
<1> DEFINE Of(p) == {<<p[1], p[2], i>> : i \in DOMAIN GroupsAt(t, p[1])[p[2]].instances}
<1>1. RawPlaces(t, name) = UNION {Of(p) : p \in GroupPlaces(t, name)}
  BY DEF RawPlaces
<1>2. \A p \in GroupPlaces(t, name) : p = <<p[1], p[2]>>
  BY GroupPlacesAre
<1>3. ASSUME NEW p \in RawPlaces(t, name)
      PROVE  /\ p = <<p[1], p[2], p[3]>> /\ <<p[1], p[2]>> \in GroupPlaces(t, name)
             /\ p[3] \in DOMAIN GroupsAt(t, p[1])[p[2]].instances
  <2>1. PICK q \in GroupPlaces(t, name) : p \in Of(q)
    BY <1>1
  <2>2. PICK i \in DOMAIN GroupsAt(t, q[1])[q[2]].instances : p = <<q[1], q[2], i>>
    BY <2>1
  <2>3. q = <<q[1], q[2]>> /\ p[1] = q[1] /\ p[2] = q[2] /\ p[3] = i
    BY <1>2, <2>2
  <2>4. QED
    BY <2>2, <2>3
<1>4. QED
  BY <1>1, <1>3

LEMMA LabelsAre ==
    ASSUME NEW t, NEW c, NEW g, templates \in Seq(ReportForTemplate),
           IsGroup(templates, t, c, g)
    PROVE  LabelsOf(KeyAt(templates, t, c, g)) = GroupLabels(t, <<c, g>>)
<1> DEFINE rc == ConstraintAt(templates, t, c)
<1>1. rc \in ReportForConstraint
  BY PlacesAreTyped
<1>2. rc.metadata \in Metadata
  BY <1>1 DEF ReportForConstraint, ConstraintsWith
<1>3. WithoutAudit(rc.metadata).severity = rc.metadata.severity
  BY <1>2 DEF WithoutAudit, Metadata
<1>4. rc = templates[t].constraints[c] /\ GroupAt(templates, t, c, g) = rc.groups[g]
  BY DEF ConstraintAt, GroupAt
<1> HIDE DEF rc
<1>5. KeyAt(templates, t, c, g) =
         [kind |-> templates[t].kind, name |-> rc.name,
          metadata |-> WithoutAudit(rc.metadata), pattern |-> rc.groups[g].pattern]
  BY <1>4 DEF KeyAt, rc
<1>6. GroupLabels(t, <<c, g>>) =
         [kind |-> templates[t].kind, name |-> rc.name, severity |-> rc.metadata.severity,
          oid |-> ValuesOf(rc.groups[g].pattern)]
  BY <1>4 DEF GroupLabels
<1>7. QED
  BY <1>3, <1>5, <1>6 DEF LabelsOf

LEMMA GroupedCountsAre ==
    ASSUME templates \in Seq(ReportForTemplate), NEW t \in DOMAIN templates, NEW name
    PROVE  GroupedCounts(t, name) = GroupTally(templates, {<<t, name>>})
<1> DEFINE P == CountedGroups(templates, {<<t, name>>})
           Q == GroupPlaces(t, name)
           f == GroupLabelsIn(templates)
           g == [q \in Q |-> GroupLabels(t, q)]
           h == [p \in P |-> <<p[2], p[3]>>]
<1>1. ASSUME NEW p \in P
      PROVE  /\ p \in GroupsIn(templates) /\ p[1] = t /\ p = <<t, p[2], p[3]>>
             /\ IsGroup(templates, t, p[2], p[3])
             /\ ConstraintAt(templates, t, p[2]).name = name
  <2>1. p \in GroupsIn(templates) /\ ConstraintOf(templates, p) = <<t, name>>
    BY DEF CountedGroups
  <2>2. p[1] = t /\ ConstraintAt(templates, t, p[2]).name = name
    BY <2>1 DEF ConstraintOf
  <2>3. QED
    BY <2>1, <2>2, GroupsAre
<1>2. \A c, i : IsGroup(templates, t, c, i) /\ ConstraintAt(templates, t, c).name = name
          <=> c \in Together(t, name) /\ i \in DOMAIN GroupsAt(t, c)
  BY DEF IsGroup, ConstraintAt, Together, GroupsAt
<1>3. \A p \in P : h[p] \in Q /\ f[p] = g[h[p]]
  <2> SUFFICES ASSUME NEW p \in P PROVE h[p] \in Q /\ f[p] = g[h[p]]
    OBVIOUS
  <2>1. h[p] = <<p[2], p[3]>> /\ h[p] \in Q
    BY <1>1, <1>2, GroupPlacesAre
  <2>2. f[p] = LabelsOf(KeyAt(templates, t, p[2], p[3]))
    <3>1. p \in GroupsIn(templates) /\ p[1] = t
      BY <1>1
    <3>2. f[p] = LabelsOf(KeyAt(templates, p[1], p[2], p[3]))
      BY <3>1 DEF GroupLabelsIn
    <3>3. QED
      BY <3>1, <3>2
  <2>3. LabelsOf(KeyAt(templates, t, p[2], p[3])) = GroupLabels(t, <<p[2], p[3]>>)
    <3>1. IsGroup(templates, t, p[2], p[3])
      BY <1>1
    <3>2. QED
      BY <3>1, LabelsAre
  <2>4. QED
    BY <2>1, <2>2, <2>3
<1>4. \A q \in Q : \E p \in P : h[p] = q
  <2> SUFFICES ASSUME NEW q \in Q PROVE \E p \in P : h[p] = q
    OBVIOUS
  <2>1. q = <<q[1], q[2]>> /\ IsGroup(templates, t, q[1], q[2])
        /\ ConstraintAt(templates, t, q[1]).name = name
    BY <1>2, GroupPlacesAre
  <2>2. <<t, q[1], q[2]>> \in GroupsIn(templates)
    BY <2>1, GroupsAre
  <2>3. <<t, q[1], q[2]>> \in P
    BY <2>1, <2>2 DEF CountedGroups, ConstraintOf
  <2>4. QED
    BY <2>1, <2>3
<1>5. \A x, y \in P : h[x] = h[y] => x = y
  BY <1>1
<1>6. IsFiniteSet(P)
  <2>1. P \in SUBSET GroupsIn(templates)
    BY <1>1
  <2> HIDE DEF P
  <2>2. QED
    BY <2>1, GroupsFinite, FS_Subset
<1>7. GroupedCounts(t, name) = Tally(Q, g)
  <2>1. {GroupLabels(t, q) : q \in Q} = {g[q] : q \in Q}
    OBVIOUS
  <2>2. \A l : {q \in Q : GroupLabels(t, q) = l} = WithValue(Q, g, l)
    BY DEF WithValue
  <2> HIDE DEF g
  <2>3. QED
    BY <2>1, <2>2 DEF GroupedCounts, Tally
<1>8. h \in [P -> Q]
  BY <1>3
<1> HIDE DEF P, Q, f, g, h
<1>9. Tally(P, f) = Tally(Q, g)
  BY <1>3, <1>4, <1>5, <1>6, <1>8, TallyMoved
<1>10. QED
  BY <1>7, <1>9 DEF GroupTally, P, f

LEMMA RawCountsAre ==
    ASSUME templates \in Seq(ReportForTemplate), NEW t \in DOMAIN templates, NEW name
    PROVE  RawCounts(t, name) = PlaceTally(templates, {<<t, name>>})
<1> DEFINE P == CountedPlaces(templates, {<<t, name>>})
           Q == RawPlaces(t, name)
           f == PlaceLabelsIn(templates)
           g == [q \in Q |-> RawLabels(t, q)]
           h == [p \in P |-> <<p[2], p[3], p[4]>>]
<1>1. ASSUME NEW p \in P
      PROVE  /\ p \in DOMAIN Entries(templates) /\ p[1] = t /\ p = <<t, p[2], p[3], p[4]>>
             /\ IsPlace(templates, t, p[2], p[3], p[4])
             /\ ConstraintAt(templates, t, p[2]).name = name
  <2>1. p \in DOMAIN Entries(templates) /\ ConstraintOf(templates, p) = <<t, name>>
    BY DEF CountedPlaces
  <2>2. p[1] = t /\ ConstraintAt(templates, t, p[2]).name = name
    BY <2>1 DEF ConstraintOf
  <2>3. QED
    BY <2>1, <2>2, PlacesAre
<1>2. \A c, j, i : IsPlace(templates, t, c, j, i) /\ ConstraintAt(templates, t, c).name = name
          <=> /\ c \in Together(t, name) /\ j \in DOMAIN GroupsAt(t, c)
              /\ i \in DOMAIN GroupsAt(t, c)[j].instances
  BY DEF IsPlace, IsGroup, ConstraintAt, Together, GroupsAt, GroupAt
<1>3. ASSUME NEW p \in P
      PROVE  h[p] \in Q /\ f[p] = g[h[p]]
  <2>1. h[p] = <<p[2], p[3], p[4]>>
    OBVIOUS
  <2>2. /\ p[2] \in Together(t, name) /\ p[3] \in DOMAIN GroupsAt(t, p[2])
        /\ p[4] \in DOMAIN GroupsAt(t, p[2])[p[3]].instances
    BY <1>1, <1>2
  <2>3. <<p[2], p[3]>> \in GroupPlaces(t, name)
    BY <2>2, GroupPlacesAre
  <2>4. <<p[2], p[3], p[4]>> \in Q
    <3>1. \A q \in GroupPlaces(t, name) : \A i \in DOMAIN GroupsAt(t, q[1])[q[2]].instances :
              <<q[1], q[2], i>> \in Q
      BY RawPlacesAre
    <3> HIDE DEF Q
    <3>2. QED
      BY <2>2, <2>3, <3>1
  <2>5. f[p] = RawLabelsOf(EntryAt(templates, t, p[2], p[3], p[4]))
    <3>1. f[p] = RawLabelsOf(Entries(templates)[p])
      BY <1>1 DEF PlaceLabelsIn
    <3>2. IsPlace(templates, t, p[2], p[3], p[4]) /\ p = <<t, p[2], p[3], p[4]>>
      BY <1>1
    <3>3. Entries(templates)[<<t, p[2], p[3], p[4]>>] = EntryAt(templates, t, p[2], p[3], p[4])
      BY <3>2, PlacesAre
    <3>4. QED
      BY <3>1, <3>2, <3>3
  <2>6. EntryAt(templates, t, p[2], p[3], p[4]) =
           [key |-> KeyAt(templates, t, p[2], p[3]),
            violation |-> GroupsAt(t, p[2])[p[3]].instances[p[4]]]
    BY DEF EntryAt, GroupAt, GroupsAt
  <2>7. LabelsOf(KeyAt(templates, t, p[2], p[3])) = GroupLabels(t, <<p[2], p[3]>>)
    <3>1. IsGroup(templates, t, p[2], p[3])
      BY <1>1 DEF IsPlace
    <3>2. QED
      BY <3>1, LabelsAre
  <2>8. f[p] = WithCluster(GroupLabels(t, <<p[2], p[3]>>),
                           GroupsAt(t, p[2])[p[3]].instances[p[4]].cluster)
    BY <2>5, <2>6, <2>7 DEF RawLabelsOf
  <2>9. RawLabels(t, <<p[2], p[3], p[4]>>) =
           WithCluster(GroupLabels(t, <<p[2], p[3], p[4]>>),
                       GroupsAt(t, p[2])[p[3]].instances[p[4]].cluster)
    BY DEF RawLabels
  <2>10. GroupLabels(t, <<p[2], p[3], p[4]>>) = GroupLabels(t, <<p[2], p[3]>>)
    BY DEF GroupLabels
  <2> HIDE DEF Q, f, h
  <2>11. QED
    BY <2>1, <2>4, <2>8, <2>9, <2>10
<1>4. \A q \in Q : \E p \in P : h[p] = q
  <2> SUFFICES ASSUME NEW q \in Q PROVE \E p \in P : h[p] = q
    OBVIOUS
  <2>1. /\ q = <<q[1], q[2], q[3]>> /\ <<q[1], q[2]>> \in GroupPlaces(t, name)
        /\ q[3] \in DOMAIN GroupsAt(t, q[1])[q[2]].instances
    BY RawPlacesAre
  <2>2. q[1] \in Together(t, name) /\ q[2] \in DOMAIN GroupsAt(t, q[1])
    BY <2>1, GroupPlacesAre
  <2>3. IsPlace(templates, t, q[1], q[2], q[3])
        /\ ConstraintAt(templates, t, q[1]).name = name
    BY <1>2, <2>1, <2>2
  <2>4. <<t, q[1], q[2], q[3]>> \in DOMAIN Entries(templates)
    BY <2>3, PlacesAre
  <2>5. <<t, q[1], q[2], q[3]>> \in P
    BY <2>3, <2>4 DEF CountedPlaces, ConstraintOf
  <2>6. QED
    BY <2>1, <2>5
<1>5. \A x, y \in P : h[x] = h[y] => x = y
  BY <1>1
<1>6. IsFiniteSet(P)
  <2>1. P \in SUBSET (DOMAIN Entries(templates))
    BY <1>1
  <2> HIDE DEF P
  <2>2. QED
    BY <2>1, PlacesFinite, FS_Subset
<1>7. RawCounts(t, name) = Tally(Q, g)
  <2>1. {RawLabels(t, q) : q \in Q} = {g[q] : q \in Q}
    OBVIOUS
  <2>2. \A l : {q \in Q : RawLabels(t, q) = l} = WithValue(Q, g, l)
    BY DEF WithValue
  <2> HIDE DEF g
  <2>3. QED
    BY <2>1, <2>2 DEF RawCounts, Tally
<1>8. h \in [P -> Q]
  BY <1>3
<1> HIDE DEF P, Q, f, g, h
<1>9. Tally(P, f) = Tally(Q, g)
  BY <1>3, <1>4, <1>5, <1>6, <1>8, TallyMoved
<1>10. QED
  BY <1>7, <1>9 DEF PlaceTally, P, f

-----------------------------------------------------------------------------
(* The inductive invariant of a scrape: what is sent are the tallies of    *)
(* the constraints counted so far, and none is counted before all reports  *)
(* are visited.                                                            *)
MetricsInv ==
    /\ scrape \in {"none", "start", "collecting", "ok", "panic"}
    /\ scrape # "none" => filter = EmptyFilter
    /\ scrape = "start" => templates = <<>>
    /\ scrape \in {"none", "start"} \/ todo # {} => counted = {}
    /\ Complete => ToCount = {}
    /\ grouped = GroupTally(templates, counted)
    /\ raw = PlaceTally(templates, counted)

LEMMA NoneToCount ==
    ASSUME templates = <<>>
    PROVE  ToCount = {}
BY DEF ToCount

LEMMA InitMetricsInv == MetricsInit => MetricsInv
<1> SUFFICES ASSUME MetricsInit PROVE MetricsInv
  OBVIOUS
<1>1. /\ templates = <<>> /\ counted = {} /\ grouped = NoMetrics /\ raw = NoMetrics
      /\ scrape \in {"none", "start"}
      /\ scrape = "start" => filter = EmptyFilter
  BY DEF MetricsInit, Init
<1>2. ~Complete
  BY <1>1 DEF Complete
<1>3. QED
  BY <1>1, <1>2, NothingCounted DEF MetricsInv

(* As long as nothing is counted, the templates may change.                *)
LEMMA UncountedKeepsMetricsInv ==
    ASSUME MetricsInv, counted = {}, UNCHANGED <<counted, grouped, raw, filter>>,
           scrape' \in {"none", "collecting"}, scrape' # "none" => scrape # "none"
    PROVE  MetricsInv'
<1>1. ~Complete'
  BY DEF Complete
<1>2. grouped' = NoMetrics /\ raw' = NoMetrics
  BY NothingCounted DEF MetricsInv
<1>3. grouped' = GroupTally(templates', counted') /\ raw' = PlaceTally(templates', counted')
  BY <1>2, NothingCounted
<1>4. scrape' # "none" => filter' = EmptyFilter
  BY DEF MetricsInv
<1>5. QED
  BY <1>1, <1>3, <1>4 DEF MetricsInv

(* The steps that count nothing and change no answer.                      *)
LEMMA OthersKeepMetricsInv ==
    ASSUME MetricsInv, UNCHANGED <<vars, counted, grouped, raw>>,
           \/ scrape' = scrape
           \/ scrape = "start" /\ scrape' \in {"ok", "collecting"}
           \/ scrape = "collecting" /\ scrape' = "ok" /\ ToCount = {}
    PROVE  MetricsInv'
<1>1. UNCHANGED <<filter, todo, templates, counted, grouped, raw>>
  BY DEF vars
<1>2. Complete' => ToCount' = {}
  <2> SUFFICES ASSUME Complete' PROVE ToCount' = {}
    OBVIOUS
  <2>1. ToCount' = ToCount
    BY <1>1 DEF ToCount
  <2>2. CASE scrape' = scrape
    BY <1>1, <2>1, <2>2 DEF Complete, MetricsInv
  <2>3. CASE scrape = "start"
    BY <2>1, <2>3, NoneToCount DEF MetricsInv
  <2>4. CASE ToCount = {}
    BY <2>1, <2>4
  <2>5. QED
    BY <2>2, <2>3, <2>4
<1>3. QED
  BY <1>1, <1>2 DEF MetricsInv

LEMMA CountKeepsMetricsInv ==
    ASSUME AnswerInv, MetricsInv, NEW k \in ToCount, CountViolations(k[1], k[2])
    PROVE  MetricsInv'
<1> DEFINE t == k[1] name == k[2]
<1>1. templates \in TemplateLists /\ templates \in Seq(ReportForTemplate)
  BY ListsAreReports DEF AnswerInv
<1>2. k = <<t, name>> /\ t \in DOMAIN templates /\ <<t, name>> \notin counted
  <2> DEFINE Of(u) == {<<u, rc.name>> : rc \in ToSet(templates[u].constraints)}
  <2> DEFINE all == UNION {Of(u) : u \in DOMAIN templates}
  <2>1. k \in all /\ k \notin counted
    <3>1. ToCount = all \ counted
      BY DEF ToCount
    <3> HIDE DEF all
    <3>2. QED
      BY <3>1
  <2>2. PICK u \in DOMAIN templates : k \in Of(u)
    BY <2>1
  <2>3. PICK rc \in ToSet(templates[u].constraints) : k = <<u, rc.name>>
    BY <2>2
  <2>4. QED
    BY <2>1, <2>3
<1> HIDE DEF t, name
<1>3. /\ GroupedCounts(t, name) = GroupTally(templates, {<<t, name>>})
      /\ RawCounts(t, name) = PlaceTally(templates, {<<t, name>>})
  BY <1>1, <1>2, GroupedCountsAre, RawCountsAre
<1>4. /\ grouped = GroupTally(templates, counted) /\ raw = PlaceTally(templates, counted)
      /\ filter = EmptyFilter /\ scrape = "collecting" /\ todo = {}
  BY DEF MetricsInv, CountViolations
<1>5. /\ GroupTally(templates, counted \cup {<<t, name>>}) = Joined(GroupedCounts(t, name), grouped)
      /\ DOMAIN GroupedCounts(t, name) \cap DOMAIN grouped = {}
      /\ PlaceTally(templates, counted \cup {<<t, name>>}) = Joined(RawCounts(t, name), raw)
      /\ DOMAIN RawCounts(t, name) \cap DOMAIN raw = {}
  <2>1. t \in DOMAIN templates /\ <<t, name>> \notin counted
    BY <1>2
  <2> DEFINE one == {<<t, name>>}
  <2>2. /\ GroupTally(templates, counted \cup one) =
              Joined(GroupTally(templates, one), GroupTally(templates, counted))
        /\ DOMAIN GroupTally(templates, one) \cap DOMAIN GroupTally(templates, counted) = {}
        /\ PlaceTally(templates, counted \cup one) =
              Joined(PlaceTally(templates, one), PlaceTally(templates, counted))
        /\ DOMAIN PlaceTally(templates, one) \cap DOMAIN PlaceTally(templates, counted) = {}
    BY <1>1, <2>1, OneMoreCounted
  <2> HIDE DEF one
  <2>3. GroupedCounts(t, name) = GroupTally(templates, one)
        /\ RawCounts(t, name) = PlaceTally(templates, one)
    BY <1>3 DEF one
  <2>4. /\ GroupTally(templates, counted \cup one) = Joined(GroupedCounts(t, name), grouped)
        /\ DOMAIN GroupedCounts(t, name) \cap DOMAIN grouped = {}
        /\ PlaceTally(templates, counted \cup one) = Joined(RawCounts(t, name), raw)
        /\ DOMAIN RawCounts(t, name) \cap DOMAIN raw = {}
    BY <1>4, <2>2, <2>3
  <2>5. QED
    BY <2>4 DEF one
<1>6. /\ counted' = counted \cup {<<t, name>>}
      /\ grouped' = Joined(GroupedCounts(t, name), grouped)
      /\ raw' = Joined(RawCounts(t, name), raw)
      /\ UNCHANGED vars
  BY DEF CountViolations, t, name
<1>7. scrape' \in {"panic", "collecting"}
  BY <1>5 DEF CountViolations, t, name
<1>8. UNCHANGED <<filter, todo, templates>>
  BY <1>6 DEF vars
<1>9. ~Complete'
  BY <1>7 DEF Complete
<1>10. QED
  BY <1>4, <1>5, <1>6, <1>7, <1>8, <1>9 DEF MetricsInv

LEMMA NextKeepsMetricsInv ==
    ASSUME AnswerInv, MetricsInv, [MetricsNext]_metricVars
    PROVE  MetricsInv'
<1>1. CASE Answer
  <2>1. UNCHANGED <<counted, grouped, raw, filter, scrape>> /\ scrape = "none" /\ counted = {}
    BY <1>1 DEF Answer, Next, VisitClusterReport, Sort, MetricsInv
  <2>2. QED
    BY <2>1, UncountedKeepsMetricsInv
<1>2. CASE GetReportsFails
  BY <1>2, OthersKeepMetricsInv DEF GetReportsFails
<1>3. CASE SendAges
  BY <1>3, OthersKeepMetricsInv DEF SendAges
<1>4. ASSUME NEW n \in Clusters, Gather(n)
      PROVE  MetricsInv'
  <2>1. /\ UNCHANGED <<counted, grouped, raw, filter, scrape>>
        /\ scrape = "collecting" /\ counted = {}
    BY <1>4 DEF Gather, VisitClusterReport, MetricsInv
  <2>2. QED
    BY <2>1, UncountedKeepsMetricsInv
<1>5. ASSUME NEW k \in ToCount, CountViolations(k[1], k[2])
      PROVE  MetricsInv'
  BY <1>5, CountKeepsMetricsInv
<1>6. CASE FinishScrape
  BY <1>6, OthersKeepMetricsInv DEF FinishScrape
<1>7. CASE UNCHANGED metricVars
  BY <1>7, OthersKeepMetricsInv DEF metricVars
<1>8. QED
  BY <1>1, <1>2, <1>3, <1>4, <1>5, <1>6, <1>7 DEF MetricsNext

LEMMA MetricsInvariant == MetricsSpec => []MetricsInv
<1>1. MetricsInit => MetricsInv
  BY InitMetricsInv
<1>2. AnswerInv /\ MetricsInv /\ [MetricsNext]_metricVars => MetricsInv'
  BY NextKeepsMetricsInv
<1>3. QED
  BY <1>1, <1>2, AnswerInvariant, PTL DEF MetricsSpec

(* What is sent is positive, and nothing is sent about a constraint before *)
(* it is counted.                                                          *)
THEOREM MetricsTyped == MetricsSpec => []MetricsTypeOK
<1>1. AnswerInv /\ MetricsInv => MetricsTypeOK
  <2> SUFFICES ASSUME AnswerInv, MetricsInv PROVE MetricsTypeOK
    OBVIOUS
  <2>1. templates \in Seq(ReportForTemplate)
    BY ListsAreReports DEF AnswerInv
  <2>2. QED
    BY <2>1, TalliesPositive DEF MetricsInv, MetricsTypeOK
<1>2. QED
  BY <1>1, AnswerInvariant, MetricsInvariant, PTL

(* No scrape fails because two constraints, or two templates, send the     *)
(* same label set: constraints of one name are counted together, and those *)
(* of different names or templates differ in their labels                  *)
(* (metrics.go:101-106).                                                   *)
THEOREM LabelsDiffer == MetricsSpec => []NoDuplicateLabels
<1>1. MetricsInv => NoDuplicateLabels
  BY DEF MetricsInv, NoDuplicateLabels
<1>2. QED
  BY <1>1, MetricsInvariant, PTL

-----------------------------------------------------------------------------
(* A completed scrape has counted everything that the clusters sent.       *)
LEMMA AllCounted ==
    ASSUME MetricsInv, Complete
    PROVE  /\ CountedGroups(templates, counted) = GroupsIn(templates)
           /\ CountedPlaces(templates, counted) = DOMAIN Entries(templates)
<1> DEFINE Of(u) == {<<u, rc.name>> : rc \in ToSet(templates[u].constraints)}
           all == UNION {Of(u) : u \in DOMAIN templates}
<1>1. all \subseteq counted
  <2>1. ToCount = all \ counted
    BY DEF ToCount
  <2>2. ToCount = {}
    BY DEF MetricsInv
  <2> HIDE DEF all
  <2>3. QED
    BY <2>1, <2>2
<1>2. ASSUME NEW t \in DOMAIN templates, NEW c \in DOMAIN templates[t].constraints
      PROVE  <<t, ConstraintAt(templates, t, c).name>> \in counted
  <2>1. ConstraintAt(templates, t, c) \in ToSet(templates[t].constraints)
    BY DEF ConstraintAt, ToSet
  <2>2. <<t, ConstraintAt(templates, t, c).name>> \in Of(t)
    BY <2>1
  <2> HIDE DEF Of
  <2>3. QED
    BY <1>1, <2>2
<1>3. \A p \in GroupsIn(templates) : ConstraintOf(templates, p) \in counted
  BY <1>2, GroupsAre DEF ConstraintOf, IsGroup
<1>4. \A p \in DOMAIN Entries(templates) : ConstraintOf(templates, p) \in counted
  BY <1>2, PlacesAre DEF ConstraintOf, IsPlace, IsGroup
<1>5. QED
  BY <1>3, <1>4 DEF CountedGroups, CountedPlaces

LEMMA OccursIfCounted ==
    ASSUME NEW rts \in Seq(ReportForTemplate), NEW e \in Entry
    PROVE  e \in Range(Entries(rts)) <=> InTemplates(rts, e) # 0
<1>1. IsFiniteSet(PlacesOf(rts, e)) /\ InTemplates(rts, e) = Cardinality(PlacesOf(rts, e))
  BY PlacesCounted DEF Occurrences, PlacesOf
<1>2. InTemplates(rts, e) # 0 <=> PlacesOf(rts, e) # {}
  BY <1>1, FS_EmptySet
<1>3. PlacesOf(rts, e) # {} <=> e \in Range(Entries(rts))
  BY DEF PlacesOf, Range
<1>4. QED
  BY <1>2, <1>3

LEMMA SentIsTyped ==
    ASSUME AnswerInv, NEW n \in Clusters
    PROVE  /\ SentTemplates(n) \in Seq(ReportForTemplate)
           /\ Sent(n) = Entries(SentTemplates(n))
           /\ \A e \in Range(Sent(n)) : e \in Entry /\ e.violation.cluster = n
<1>1. stored[n] \in Report /\ n \in Text
  BY ReportsAssumption DEF AnswerInv
<1>2. SentTemplates(n) \in Seq(ReportForTemplate) /\ Sent(n) = Entries(SentTemplates(n))
  BY <1>1, SentByOne DEF SentTemplates, Sent
<1>3. \A p \in DOMAIN Sent(n) : Sent(n)[p] \in Entry
  BY <1>2, EntriesAreTyped
<1>4. \A p \in DOMAIN Sent(n) : Sent(n)[p].violation.cluster = n
  BY <1>1, SentByOne DEF Sent
<1>5. QED
  BY <1>2, <1>3, <1>4 DEF Range

LEMMA EverythingListed ==
    ASSUME AnswerInv, CountsInv, MetricsInv, Complete
    PROVE  /\ \A e \in Entry : e.violation.cluster \in Clusters
                 => InTemplates(templates, e) = InTemplates(SentTemplates(e.violation.cluster), e)
           /\ Range(Entries(templates)) = UNION {Range(Sent(n)) : n \in Clusters}
<1>1. filter = EmptyFilter /\ todo = {}
  BY DEF MetricsInv, Complete
<1>2. \A e : AskedEntry(e)
  BY <1>1 DEF AskedEntry, AskedInConstraint, AskedGroup, EmptyFilter, MatchIdentity, Match
<1>3. MatchingClusters = Clusters
  BY <1>1 DEF MatchingClusters, Visited, EmptyFilter, MatchIdentity
<1>4. \A e \in Entry :
          InTemplates(templates, e) = IF e.violation.cluster \in Clusters
                                      THEN InTemplates(SentTemplates(e.violation.cluster), e)
                                      ELSE 0
  BY <1>2, <1>3 DEF CountsInv, Listed
<1>5. templates \in Seq(ReportForTemplate)
  BY ListsAreReports DEF AnswerInv
<1>6. ASSUME NEW e \in Range(Entries(templates))
      PROVE  e \in UNION {Range(Sent(n)) : n \in Clusters}
  <2> DEFINE n == e.violation.cluster
  <2>1. e \in Entry
    BY <1>5, EntriesAreTyped DEF Range
  <2>2. InTemplates(templates, e) # 0
    BY <1>5, <2>1, OccursIfCounted
  <2>3. n \in Clusters /\ InTemplates(SentTemplates(n), e) # 0
    BY <1>4, <2>1, <2>2
  <2> HIDE DEF n
  <2>4. e \in Range(Sent(n))
    BY <2>1, <2>3, SentIsTyped, OccursIfCounted
  <2>5. QED
    BY <2>3, <2>4
<1>7. ASSUME NEW n \in Clusters, NEW e \in Range(Sent(n))
      PROVE  e \in Range(Entries(templates))
  <2>1. e \in Entry /\ e.violation.cluster = n
    BY SentIsTyped
  <2>2. InTemplates(SentTemplates(n), e) # 0
    BY <2>1, SentIsTyped, OccursIfCounted
  <2>3. InTemplates(templates, e) # 0
    BY <1>4, <2>1, <2>2
  <2>4. QED
    BY <1>5, <2>1, <2>3, OccursIfCounted
<1>8. QED
  BY <1>4, <1>6, <1>7

(* Under a label set there are as many violations in the answer as in the  *)
(* report of the cluster that the labels name.                             *)
SentUnder(n, l) == {p \in DOMAIN Sent(n) : RawLabelsOf(Sent(n)[p]) = l}

LEMMA PlacesUnderLabels ==
    ASSUME AnswerInv, CountsInv, MetricsInv, Complete, NEW l, l.cluster \in Clusters
    PROVE  Cardinality(WithValue(DOMAIN Entries(templates), PlaceLabelsIn(templates), l)) =
               Cardinality(SentUnder(l.cluster, l))
<1> DEFINE n == l.cluster
           P == WithValue(DOMAIN Entries(templates), PlaceLabelsIn(templates), l)
           Q == SentUnder(n, l)
           f == [p \in P |-> Entries(templates)[p]]
           g == [q \in Q |-> Sent(n)[q]]
<1>1. templates \in Seq(ReportForTemplate)
  BY ListsAreReports DEF AnswerInv
<1>2. /\ SentTemplates(n) \in Seq(ReportForTemplate)
      /\ Sent(n) = Entries(SentTemplates(n))
  BY SentIsTyped
<1>3. P = {p \in DOMAIN Entries(templates) : RawLabelsOf(Entries(templates)[p]) = l}
  BY DEF WithValue, PlaceLabelsIn
<1>4. IsFiniteSet(P)
  <2>1. P \in SUBSET DOMAIN Entries(templates)
    BY <1>3
  <2> HIDE DEF P
  <2>2. QED
    BY <1>1, <2>1, PlacesFinite, FS_Subset
<1>5. \A p \in P : f[p] \in Entry
  BY <1>1, <1>3, EntriesAreTyped
<1>6. \A q \in Q : g[q] \in Entry
  BY <1>2, EntriesAreTyped DEF SentUnder
<1>7. ASSUME NEW e \in Entry
      PROVE  /\ IsFiniteSet(WithValue(P, f, e)) /\ IsFiniteSet(WithValue(Q, g, e))
             /\ Cardinality(WithValue(P, f, e)) = Cardinality(WithValue(Q, g, e))
  <2>1. CASE RawLabelsOf(e) = l
    <3>1. e.violation.cluster = n
      BY <2>1 DEF RawLabelsOf, WithCluster
    <3>2. WithValue(P, f, e) = PlacesOf(templates, e)
      BY <1>3, <2>1 DEF WithValue, PlacesOf
    <3>3. WithValue(Q, g, e) = PlacesOf(SentTemplates(n), e)
      BY <1>2, <2>1 DEF WithValue, PlacesOf, SentUnder
    <3>4. /\ IsFiniteSet(PlacesOf(templates, e))
          /\ Cardinality(PlacesOf(templates, e)) = InTemplates(templates, e)
      BY <1>1, PlacesCounted DEF Occurrences, PlacesOf
    <3>5. /\ IsFiniteSet(PlacesOf(SentTemplates(n), e))
          /\ Cardinality(PlacesOf(SentTemplates(n), e)) = InTemplates(SentTemplates(n), e)
      BY <1>2, PlacesCounted DEF Occurrences, PlacesOf
    <3>6. InTemplates(templates, e) = InTemplates(SentTemplates(n), e)
      BY <3>1, EverythingListed
    <3> HIDE DEF P, Q, f, g, n
    <3>7. QED
      BY <3>2, <3>3, <3>4, <3>5, <3>6
  <2>2. CASE RawLabelsOf(e) # l
    <3>1. WithValue(P, f, e) = {}
      BY <1>3, <2>2 DEF WithValue
    <3>2. WithValue(Q, g, e) = {}
      BY <2>2 DEF WithValue, SentUnder
    <3> HIDE DEF P, Q, f, g
    <3>3. QED
      BY <3>1, <3>2, FS_EmptySet
  <2>3. QED
    BY <2>1, <2>2
<1> HIDE DEF P, Q, f, g, n
<1>8. Cardinality(P) = Cardinality(Q)
  <2>1. SameFibres(Entry, P, f, Q, g)
    BY <1>5, <1>6, <1>7 DEF SameFibres
  <2>2. QED
    BY <1>4, <2>1, EqualFibres
<1>9. QED
  BY <1>8 DEF P, Q, n

LEMMA AllViolationsCounted ==
    ASSUME AnswerInv, CountsInv, MetricsInv
    PROVE  EveryViolationCounted
<1> SUFFICES ASSUME Complete PROVE EveryViolationCounted
  BY DEF EveryViolationCounted
<1> DEFINE sent == [n \in Clusters |-> Sent(n)]
           Of(n) == {RawLabelsOf(e) : e \in Range(sent[n])}
           Labels == UNION {Of(n) : n \in Clusters}
           P == DOMAIN Entries(templates)
           f == PlaceLabelsIn(templates)
<1>1. raw = Tally(P, f)
  BY AllCounted DEF MetricsInv, PlaceTally
<1>2. \A n \in Clusters : Of(n) = {RawLabelsOf(e) : e \in Range(Sent(n))}
  OBVIOUS
<1>3. \A l \in Labels : l.cluster \in Clusters
  <2> SUFFICES ASSUME NEW l \in Labels PROVE l.cluster \in Clusters
    OBVIOUS
  <2>1. PICK n \in Clusters : l \in Of(n)
    OBVIOUS
  <2>2. PICK e \in Range(Sent(n)) : l = RawLabelsOf(e)
    BY <1>2, <2>1
  <2>3. QED
    BY <2>2, SentIsTyped DEF RawLabelsOf, WithCluster
<1>4. {f[p] : p \in P} = Labels
  <2>1. {f[p] : p \in P} = {RawLabelsOf(e) : e \in Range(Entries(templates))}
    BY DEF PlaceLabelsIn, Range
  <2>2. Range(Entries(templates)) = UNION {Range(Sent(n)) : n \in Clusters}
    BY EverythingListed
  <2>3. {RawLabelsOf(e) : e \in UNION {Range(Sent(n)) : n \in Clusters}} = Labels
    <3>1. ASSUME NEW e \in UNION {Range(Sent(n)) : n \in Clusters}
          PROVE  RawLabelsOf(e) \in Labels
      <4>1. PICK n \in Clusters : e \in Range(Sent(n))
        OBVIOUS
      <4>2. RawLabelsOf(e) \in Of(n)
        BY <1>2, <4>1
      <4> HIDE DEF Of
      <4>3. QED
        BY <4>2
    <3>2. ASSUME NEW l \in Labels
          PROVE  \E e \in UNION {Range(Sent(n)) : n \in Clusters} : l = RawLabelsOf(e)
      <4>1. PICK n \in Clusters : l \in Of(n)
        OBVIOUS
      <4>2. PICK e \in Range(Sent(n)) : l = RawLabelsOf(e)
        BY <1>2, <4>1
      <4>3. QED
        BY <4>2
    <3> HIDE DEF Labels
    <3>3. QED
      BY <3>1, <3>2
  <2>4. QED
    BY <2>1, <2>2, <2>3
<1>5. \A l \in Labels :
          Cardinality(WithValue(P, f, l)) =
              Cardinality({p \in DOMAIN sent[l.cluster] : RawLabelsOf(sent[l.cluster][p]) = l})
  <2> SUFFICES ASSUME NEW l \in Labels
               PROVE  Cardinality(WithValue(P, f, l)) =
                          Cardinality({p \in DOMAIN sent[l.cluster] :
                                          RawLabelsOf(sent[l.cluster][p]) = l})
    OBVIOUS
  <2>1. l.cluster \in Clusters
    BY <1>3
  <2>2. sent[l.cluster] = Sent(l.cluster)
    BY <2>1
  <2>3. Cardinality(WithValue(P, f, l)) = Cardinality(SentUnder(l.cluster, l))
    BY <2>1, PlacesUnderLabels
  <2>4. QED
    BY <2>2, <2>3 DEF SentUnder
<1>6. raw = [l \in Labels |-> Cardinality({p \in DOMAIN sent[l.cluster] :
                                              RawLabelsOf(sent[l.cluster][p]) = l})]
  <2> HIDE DEF Labels, P, f, sent
  <2>1. QED
    BY <1>1, <1>4, <1>5 DEF Tally
<1>7. QED
  BY <1>6 DEF EveryViolationCounted

(* No two groups of a merged answer have one key, as the constraints have  *)
(* lost their audit timestamps.                                            *)
LEMMA KeysDiffer ==
    ASSUME NEW rts \in TemplateLists,
           NEW t, NEW c, NEW g, IsGroup(rts, t, c, g),
           NEW u, NEW d, NEW h, IsGroup(rts, u, d, h),
           KeyAt(rts, t, c, g) = KeyAt(rts, u, d, h)
    PROVE  t = u /\ c = d /\ g = h
<1> DEFINE rcs == rts[t].constraints
<1>1. /\ t \in DOMAIN rts /\ c \in DOMAIN rcs /\ g \in DOMAIN ConstraintAt(rts, t, c).groups
      /\ u \in DOMAIN rts /\ d \in DOMAIN rts[u].constraints
      /\ h \in DOMAIN ConstraintAt(rts, u, d).groups
  BY DEF IsGroup
<1>2. /\ rts[t].kind = rts[u].kind
      /\ ConstraintAt(rts, t, c).name = ConstraintAt(rts, u, d).name
      /\ WithoutAudit(ConstraintAt(rts, t, c).metadata) =
            WithoutAudit(ConstraintAt(rts, u, d).metadata)
      /\ GroupAt(rts, t, c, g).pattern = GroupAt(rts, u, d, h).pattern
  BY DEF KeyAt
<1>3. t = u
  BY <1>1, <1>2 DEF TemplateLists
<1>4. rcs \in ConstraintLists /\ rcs \in Seq(MergedConstraint)
  <2>1. rts \in Seq(MergedTemplate)
    BY DEF TemplateLists, MergedTemplate
  <2>2. rts[t] \in MergedTemplate
    BY <1>1, <2>1
  <2>3. rcs \in ConstraintLists
    BY <2>2 DEF MergedTemplate, TemplatesWith
  <2>4. QED
    BY <2>3 DEF ConstraintLists, MergedConstraint
<1> HIDE DEF rcs
<1>5. ConstraintAt(rts, t, c) = rcs[c] /\ ConstraintAt(rts, u, d) = rcs[d] /\ d \in DOMAIN rcs
  BY <1>1, <1>3 DEF ConstraintAt, rcs
<1>6. ASSUME NEW x \in DOMAIN rcs
      PROVE  WithoutAudit(rcs[x].metadata) = rcs[x].metadata
  <2>1. rcs[x] \in MergedConstraint
    BY <1>4
  <2>2. rcs[x].metadata \in Metadata
    BY <2>1 DEF MergedConstraint, ConstraintsWith
  <2>3. rcs[x].metadata.audit = NoText
    BY <1>4 DEF ConstraintLists, Unaudited
  <2>4. QED
    BY <2>2, <2>3 DEF WithoutAudit, Metadata
<1>7. c = d
  <2>1. rcs[c].name = rcs[d].name /\ rcs[c].metadata = rcs[d].metadata
    BY <1>1, <1>2, <1>5, <1>6
  <2>2. \A x, y \in DOMAIN rcs :
            rcs[x].name = rcs[y].name /\ rcs[x].metadata = rcs[y].metadata => x = y
    BY <1>4 DEF ConstraintLists
  <2>3. QED
    BY <1>1, <1>5, <2>1, <2>2
<1>8. g = h
  <2>1. rcs[c] \in MergedConstraint
    BY <1>1, <1>4, <1>5, <1>7
  <2>2. rcs[c].groups \in GroupLists
    BY <2>1 DEF MergedConstraint, ConstraintsWith
  <2>3. /\ rcs[c].groups[g].pattern = rcs[c].groups[h].pattern
        /\ g \in DOMAIN rcs[c].groups /\ h \in DOMAIN rcs[c].groups
    BY <1>1, <1>2, <1>3, <1>5, <1>7 DEF GroupAt, ConstraintAt
  <2>4. QED
    BY <2>2, <2>3 DEF GroupLists
<1>9. QED
  BY <1>3, <1>7, <1>8

(* Every key that the clusters sent is that of one group of the answer.    *)
LEMMA AllGroupsCounted ==
    ASSUME AnswerInv, CountsInv, MetricsInv
    PROVE  GroupsCountedOnce
<1> SUFFICES ASSUME Complete PROVE GroupsCountedOnce
  BY DEF GroupsCountedOnce
<1> DEFINE P == GroupsIn(templates)
           f == GroupLabelsIn(templates)
           g == [k \in Keys |-> LabelsOf(k)]
           h == [p \in P |-> KeyAt(templates, p[1], p[2], p[3])]
<1>1. templates \in TemplateLists /\ templates \in Seq(ReportForTemplate)
  BY ListsAreReports DEF AnswerInv
<1>2. Keys = {e.key : e \in Range(Entries(templates))}
  <2> DEFINE Of(n) == {e.key : e \in Range(Sent(n))}
  <2>1. Keys = UNION {Of(n) : n \in Clusters}
    BY DEF Keys
  <2>2. Range(Entries(templates)) = UNION {Range(Sent(n)) : n \in Clusters}
    BY EverythingListed
  <2>3. ASSUME NEW k \in Keys
        PROVE  k \in {e.key : e \in Range(Entries(templates))}
    <3>1. PICK n \in Clusters : k \in Of(n)
      BY <2>1
    <3>2. PICK e \in Range(Sent(n)) : k = e.key
      BY <3>1
    <3>3. QED
      BY <2>2, <3>2
  <2>4. ASSUME NEW e \in Range(Entries(templates))
        PROVE  e.key \in Keys
    <3>1. PICK n \in Clusters : e \in Range(Sent(n))
      BY <2>2
    <3>2. e.key \in Of(n)
      BY <3>1
    <3> HIDE DEF Of
    <3>3. QED
      BY <2>1, <3>2
  <2>5. QED
    BY <2>3, <2>4
<1>3. ASSUME NEW p \in P
      PROVE  h[p] \in Keys
  <2> DEFINE t == p[1] c == p[2] j == p[3]
  <2>1. IsGroup(templates, t, c, j)
    BY GroupsAre
  <2> HIDE DEF t, c, j
  <2>2. GroupAt(templates, t, c, j).instances \in NonEmpty(Violation)
    BY <1>1, <2>1, PlacesAreTyped
  <2>3. 1 \in DOMAIN GroupAt(templates, t, c, j).instances
    BY <2>2 DEF NonEmpty
  <2>4. IsPlace(templates, t, c, j, 1)
    BY <2>1, <2>3 DEF IsPlace
  <2>5. /\ <<t, c, j, 1>> \in DOMAIN Entries(templates)
        /\ Entries(templates)[<<t, c, j, 1>>] = EntryAt(templates, t, c, j, 1)
    BY <2>4, PlacesAre
  <2>6. EntryAt(templates, t, c, j, 1) \in Range(Entries(templates))
    BY <2>5 DEF Range
  <2>7. EntryAt(templates, t, c, j, 1).key = KeyAt(templates, t, c, j)
    BY DEF EntryAt
  <2>8. KeyAt(templates, t, c, j) \in Keys
    BY <1>2, <2>6, <2>7
  <2>9. QED
    BY <2>8 DEF t, c, j
<1>4. ASSUME NEW k \in Keys
      PROVE  \E p \in P : h[p] = k
  <2>1. PICK q \in DOMAIN Entries(templates) : k = Entries(templates)[q].key
    BY <1>2 DEF Range
  <2> DEFINE t == q[1] c == q[2] j == q[3] i == q[4]
  <2>2. q = <<t, c, j, i>> /\ IsPlace(templates, t, c, j, i)
    BY PlacesAre
  <2> HIDE DEF t, c, j, i
  <2>3. Entries(templates)[q] = EntryAt(templates, t, c, j, i)
    BY <2>2, PlacesAre
  <2>4. k = KeyAt(templates, t, c, j)
    BY <2>1, <2>3 DEF EntryAt
  <2>5. <<t, c, j>> \in P
    BY <2>2, GroupsAre DEF IsPlace
  <2>6. h[<<t, c, j>>] = KeyAt(templates, t, c, j)
    BY <2>5
  <2>7. QED
    BY <2>4, <2>5, <2>6
<1>5. ASSUME NEW p \in P, NEW q \in P, h[p] = h[q]
      PROVE  p = q
  <2>1. /\ p = <<p[1], p[2], p[3]>> /\ IsGroup(templates, p[1], p[2], p[3])
        /\ q = <<q[1], q[2], q[3]>> /\ IsGroup(templates, q[1], q[2], q[3])
    BY GroupsAre
  <2>2. KeyAt(templates, p[1], p[2], p[3]) = KeyAt(templates, q[1], q[2], q[3])
    BY <1>5
  <2>3. p[1] = q[1] /\ p[2] = q[2] /\ p[3] = q[3]
    BY <1>1, <2>1, <2>2, KeysDiffer
  <2>4. QED
    BY <2>1, <2>3
<1>6. \A p \in P : f[p] = g[h[p]]
  BY <1>3 DEF GroupLabelsIn
<1>7. IsFiniteSet(P)
  BY <1>1, GroupsFinite
<1>8. h \in [P -> Keys]
  BY <1>3
<1>9. grouped = Tally(P, f)
  BY AllCounted DEF MetricsInv, GroupTally
<1>10. Tally(Keys, g) = [l \in {LabelsOf(k) : k \in Keys} |->
                            Cardinality({k \in Keys : LabelsOf(k) = l})]
  <2>1. {g[k] : k \in Keys} = {LabelsOf(k) : k \in Keys}
    OBVIOUS
  <2>2. \A l : WithValue(Keys, g, l) = {k \in Keys : LabelsOf(k) = l}
    BY DEF WithValue
  <2> HIDE DEF g
  <2>3. QED
    BY <2>1, <2>2 DEF Tally
<1> HIDE DEF P, f, g, h
<1>11. Tally(P, f) = Tally(Keys, g)
  BY <1>3, <1>4, <1>5, <1>6, <1>7, <1>8, TallyMoved
<1>12. QED
  BY <1>9, <1>10, <1>11 DEF GroupsCountedOnce

(* A completed scrape counts every violation of every cluster, once, under *)
(* the labels of its own report (metrics.go:158-202).                      *)
THEOREM ViolationsCounted == MetricsSpec => []EveryViolationCounted
<1>1. AnswerInv /\ CountsInv /\ MetricsInv => EveryViolationCounted
  BY AllViolationsCounted
<1>2. QED
  BY <1>1, AnswerInvariant, CountsInvariant, MetricsInvariant, PTL

(* A completed scrape counts every violation group, and one that several   *)
(* clusters have with the same metadata and pattern only once: the groups  *)
(* are not counted by cluster (metrics.go:147).                            *)
THEOREM GroupsCounted == MetricsSpec => []GroupsCountedOnce
<1>1. AnswerInv /\ CountsInv /\ MetricsInv => GroupsCountedOnce
  BY AllGroupsCounted
<1>2. QED
  BY <1>1, AnswerInvariant, CountsInvariant, MetricsInvariant, PTL
=============================================================================
