-------------------------- MODULE AnalyzerProofs ---------------------------
(***************************************************************************)
(* What the rounds of the doop-analyzer promise, for any set of templates, *)
(* any number of events and any number of faults: its reports only advance,*)
(* and it implements ReportPublisher.                                      *)
(***************************************************************************)
EXTENDS Analyzer, TLAPS

(* The program starts in the invariant.                                    *)
LEMMA InitInv == Init => IInv
<1> SUFFICES ASSUME Init PROVE IInv
  OBVIOUS
<1> USE AnalyzerAssumption DEF Init, GatekeeperInit, Empty, None
<1>1. TypeOK
  <2>1. ticker \in BOOLEAN /\ tick \in BOOLEAN /\ cancelled \in BOOLEAN
    BY Zenon
  <2>2. GatekeeperTypeOK
    BY DEF GatekeeperTypeOK
  <2>3. report \in [Templates -> Events \cup {None}]
    BY DEF Events
  <2>4. QED
    BY <2>1, <2>2, <2>3 DEF TypeOK, States
<1>2. RoundInv /\ UploadedInv
  BY DEF RoundInv, UploadedInv, Busy
<1>3. QED
  BY <1>1, <1>2 DEF IInv

(* An event gives a template a later state than it ever had.               *)
LEMMA GatekeepsTyped ==
    ASSUME GatekeeperTypeOK, Gatekeeps
    PROVE  GatekeeperTypeOK' /\ \A t \in Templates : audit'[t] >= audit[t]
<1> USE AnalyzerAssumption DEF GatekeeperTypeOK
<1>1. ASSUME NEW t \in Templates, Event(t)
      PROVE  /\ events' \in 1 .. MaxEvents /\ audit' \in [Templates -> 1 .. events']
             /\ \A u \in Templates : audit'[u] >= audit[u]
  BY <1>1 DEF Event
<1>2. QED
  BY <1>1 DEF Gatekeeps, Audit, ChangeTemplate, CreateCRD

(* The flags are flags.                                                    *)
LEMMA FlagsTyped ==
    ASSUME TypeOK, [Next]_vars
    PROVE  ticker' \in BOOLEAN /\ tick' \in BOOLEAN /\ cancelled' \in BOOLEAN
<1>1. ticker \in BOOLEAN /\ tick \in BOOLEAN /\ cancelled \in BOOLEAN
  BY Zenon DEF TypeOK
<1>2. CASE Round
  BY <1>1, <1>2, Zenon
     DEF Round, ListTemplates, SkipTemplate, ReadTemplate, ProcessReport, SendReport,
         UploadUnanswered, CallFails, timer
<1>3. CASE Boot \/ Crash
  BY <1>1, <1>3, Zenon DEF Boot, Crash, timer
<1>4. CASE Tick \/ NextRound \/ Interrupt \/ Stop
  BY <1>1, <1>4, Zenon DEF Tick, NextRound, Interrupt, Stop, timer
<1>5. CASE Gatekeeps /\ UNCHANGED <<pc, round, timer, cancelled, uploaded, faults, since>>
  BY <1>1, <1>5, Zenon DEF timer
<1>6. CASE UNCHANGED vars
  BY <1>1, <1>6, Zenon DEF vars, timer
<1>7. QED
  BY <1>2, <1>3, <1>4, <1>5, <1>6, Zenon DEF Next

(* Every step of a round keeps the invariant.                              *)
LEMMA RoundKeepsInv ==
    ASSUME IInv, Round
    PROVE  IInv'
<1> USE AnalyzerAssumption DEF None, Events, States, Empty, Busy, round, timer
<1>1. TypeOK /\ GatekeeperTypeOK /\ RoundInv /\ UploadedInv
  BY DEF IInv, TypeOK
<1>2. ticker' \in BOOLEAN /\ tick' \in BOOLEAN /\ cancelled' \in BOOLEAN
  BY <1>1, FlagsTyped, Zenon DEF Next
<1>3. UNCHANGED kubernetes /\ GatekeeperTypeOK'
  <2>1. UNCHANGED kubernetes
    BY DEF Round, ListTemplates, SkipTemplate, ReadTemplate, ProcessReport, SendReport,
           UploadUnanswered, CallFails
  <2>2. QED
    BY <1>1, <2>1 DEF GatekeeperTypeOK, kubernetes
<1>4. CASE ListTemplates
  <2>1. TypeOK'
    BY <1>1, <1>2, <1>3, <1>4 DEF ListTemplates, TypeOK, GatekeeperTypeOK
  <2>2. RoundInv' /\ UploadedInv'
    BY <1>1, <1>4 DEF ListTemplates, RoundInv, UploadedInv, TypeOK, GatekeeperTypeOK, kubernetes
  <2>3. QED
    BY <2>1, <2>2 DEF IInv
<1>5. ASSUME NEW t \in Templates, SkipTemplate(t)
      PROVE  IInv'
  <2>1. TypeOK'
    BY <1>1, <1>2, <1>3, <1>5 DEF SkipTemplate, TypeOK
  <2>2. RoundInv' /\ UploadedInv'
    BY <1>1, <1>5 DEF SkipTemplate, RoundInv, UploadedInv, kubernetes
  <2>3. QED
    BY <2>1, <2>2 DEF IInv
<1>6. ASSUME NEW t \in Templates, ReadTemplate(t)
      PROVE  IInv'
  <2>1. TypeOK'
    BY <1>1, <1>2, <1>3, <1>6 DEF ReadTemplate, TypeOK, GatekeeperTypeOK
  <2>2. since[t] \in 1 .. audit[t]
    BY <1>1, <1>6 DEF ReadTemplate, UploadedInv
  <2>3. RoundInv' /\ UploadedInv'
    BY <1>1, <1>6, <2>2 DEF ReadTemplate, RoundInv, UploadedInv, TypeOK, GatekeeperTypeOK, kubernetes
  <2>4. QED
    BY <2>1, <2>3 DEF IInv
<1>7. CASE ProcessReport
  <2>1. TypeOK'
    BY <1>1, <1>2, <1>3, <1>7 DEF ProcessReport, TypeOK
  <2>2. RoundInv' /\ UploadedInv'
    BY <1>1, <1>7 DEF ProcessReport, RoundInv, UploadedInv, kubernetes
  <2>3. QED
    BY <2>1, <2>2 DEF IInv
<1>8. CASE SendReport \/ UploadUnanswered
  <2>1. TypeOK'
    BY <1>1, <1>2, <1>3, <1>8 DEF SendReport, UploadUnanswered, Fault, TypeOK
  <2>2. \A t \in Templates : report[t] <= audit[t]
    BY <1>1, <1>8 DEF SendReport, UploadUnanswered, TypeOK, RoundInv, GatekeeperTypeOK
  <2>3. RoundInv' /\ UploadedInv'
    BY <1>1, <1>8, <2>2 DEF SendReport, UploadUnanswered, RoundInv, UploadedInv, kubernetes
  <2>4. QED
    BY <2>1, <2>3 DEF IInv
<1>9. CASE CallFails
  <2>1. TypeOK'
    BY <1>1, <1>2, <1>3, <1>9 DEF CallFails, Fault, TypeOK
  <2>2. RoundInv' /\ UploadedInv'
    BY <1>1, <1>9 DEF CallFails, RoundInv, UploadedInv, kubernetes
  <2>3. QED
    BY <2>1, <2>2 DEF IInv
<1>10. QED
  BY <1>4, <1>5, <1>6, <1>7, <1>8, <1>9 DEF Round

(* So does everything that happens around the rounds.                      *)
LEMMA NextKeepsInv ==
    ASSUME IInv, [Next]_vars
    PROVE  IInv'
<1> USE AnalyzerAssumption DEF None, Events, States, Empty, Busy, round, timer
<1>1. TypeOK /\ GatekeeperTypeOK /\ RoundInv /\ UploadedInv
  BY DEF IInv, TypeOK
<1>2. ticker' \in BOOLEAN /\ tick' \in BOOLEAN /\ cancelled' \in BOOLEAN
  BY <1>1, FlagsTyped, Zenon
<1>3. CASE Round
  BY <1>3, RoundKeepsInv
<1>4. CASE Gatekeeps /\ UNCHANGED <<pc, round, timer, cancelled, uploaded, faults, since>>
  <2>1. GatekeeperTypeOK' /\ \A t \in Templates : audit'[t] >= audit[t]
    BY <1>1, <1>4, GatekeepsTyped
  <2>2. TypeOK'
    BY <1>1, <1>2, <1>4, <2>1 DEF TypeOK
  <2>3. \A t \in Templates : /\ audit[t] \in Nat /\ audit'[t] \in Nat
                             /\ uploaded[t] \in Nat /\ since[t] \in Nat /\ report[t] \in Nat
    BY <1>1, <2>1 DEF TypeOK, GatekeeperTypeOK
  <2>4. RoundInv'
    BY <1>1, <1>4, <2>1, <2>3 DEF RoundInv, TypeOK
  <2>5. UploadedInv'
    BY <1>1, <1>4, <2>1, <2>3 DEF UploadedInv
  <2>6. QED
    BY <2>2, <2>4, <2>5 DEF IInv
<1>5. CASE Boot \/ Crash \/ Tick \/ NextRound \/ Interrupt \/ Stop
  <2>1. UNCHANGED kubernetes /\ GatekeeperTypeOK' /\ UNCHANGED <<uploaded, since>>
    BY <1>1, <1>5
       DEF Boot, Crash, Tick, NextRound, Interrupt, Stop, kubernetes, GatekeeperTypeOK
  <2>2. /\ pc' \in States /\ faults' \in 0 .. MaxFaults
        /\ Busy' => Busy /\ pc' = pc
        /\ \/ UNCHANGED <<created, todo, report>>
           \/ ~Busy' /\ created' = {} /\ todo' = {} /\ report' = Empty
    BY <1>1, <1>5 DEF Boot, Crash, Tick, NextRound, Interrupt, Stop, Fault, TypeOK
  <2>3. TypeOK'
    BY <1>1, <1>2, <2>1, <2>2 DEF TypeOK
  <2>4. RoundInv' /\ UploadedInv'
    BY <1>1, <2>1, <2>2 DEF RoundInv, UploadedInv, kubernetes
  <2>5. QED
    BY <2>3, <2>4 DEF IInv
<1>6. CASE UNCHANGED vars
  <2>1. TypeOK'
    BY <1>1, <1>2, <1>6 DEF vars, kubernetes, TypeOK, GatekeeperTypeOK
  <2>2. RoundInv' /\ UploadedInv'
    BY <1>1, <1>6 DEF vars, kubernetes, RoundInv, UploadedInv
  <2>3. QED
    BY <2>1, <2>2 DEF IInv
<1>7. QED
  BY <1>3, <1>4, <1>5, <1>6 DEF Next

(* The invariant of the rounds: what has been read is of this round, and   *)
(* neither Swift nor a round is ahead of the cluster (report.go:14-33).    *)
THEOREM Invariant == Spec => []IInv
  BY InitInv, NextKeepsInv, PTL DEF Spec

(* Every variable of the analyzer keeps its type.                          *)
THEOREM TypeCorrect == Spec => []TypeOK
<1>1. IInv => TypeOK
  BY DEF IInv
<1>2. QED
  BY <1>1, Invariant, PTL

-----------------------------------------------------------------------------
(* What reaches Swift has each listed template as it was in this round.    *)
LEMMA UploadIsWhole ==
    ASSUME IInv, SendReport \/ UploadUnanswered
    PROVE  /\ Busy /\ ~Busy' /\ uploaded' = report
           /\ \A t \in Templates : IF t \in created THEN report[t] \in since[t] .. audit[t]
                                   ELSE report[t] = None
  BY DEF IInv, TypeOK, RoundInv, Busy, SendReport, UploadUnanswered

(* Only those two steps change the report in Swift.                        *)
LEMMA OthersDoNotUpload ==
    ASSUME [Next]_vars, ~(SendReport \/ UploadUnanswered)
    PROVE  uploaded' = uploaded
  BY DEF Next, Round, ListTemplates, SkipTemplate, ReadTemplate, ProcessReport, CallFails,
         Boot, Crash, Tick, NextRound, Interrupt, Stop, vars

(* For any templates, events and faults: a report in Swift gives way only  *)
(* to one that has nothing older, or lacks the template (main.go:96-108).  *)
THEOREM UploadsOnlyAdvance == Spec => UploadsAdvance
<1>1. ASSUME IInv, [Next]_vars
      PROVE  \A t \in Templates : uploaded'[t] = None \/ uploaded'[t] >= uploaded[t]
  <2>1. CASE SendReport \/ UploadUnanswered
    BY <1>1, <2>1, UploadIsWhole
       DEF IInv, TypeOK, GatekeeperTypeOK, UploadedInv, Busy, Events, None
  <2>2. CASE ~(SendReport \/ UploadUnanswered)
    BY <1>1, <2>2, OthersDoNotUpload DEF IInv, TypeOK, Events, None
  <2>3. QED
    BY <2>1, <2>2
<1>2. QED
  BY <1>1, Invariant, PTL DEF Spec, UploadsAdvance

-----------------------------------------------------------------------------
(* The analyzer implements ReportPublisher.                                *)

LEMMA InitRefines == Init => Publisher!Init
  BY DEF Init, GatekeeperInit, Publisher!Init, Publisher!GatekeeperInit, Busy,
         Empty, Publisher!Empty, None, Publisher!None

(* Kubernetes does the same in both.                                       *)
LEMMA GatekeepsRefines ==
    ASSUME Gatekeeps
    PROVE  Publisher!Gatekeeps
  BY DEF Gatekeeps, Audit, ChangeTemplate, CreateCRD, Event,
         Publisher!Gatekeeps, Publisher!Audit, Publisher!ChangeTemplate,
         Publisher!CreateCRD, Publisher!Event

(* A round that comes to nothing.                                          *)
LEMMA AbandonRefines ==
    ASSUME ~Busy', UNCHANGED <<kubernetes, uploaded>>
    PROVE  Publisher!Abandon \/ UNCHANGED Publisher!publisherVars
<1>1. CASE Busy
  BY <1>1 DEF kubernetes, Publisher!kubernetes, Publisher!Abandon, Publisher!End,
              Empty, Publisher!Empty, None, Publisher!None
<1>2. CASE ~Busy
  BY <1>2 DEF kubernetes, Publisher!kubernetes, Publisher!publisherVars, Empty, None, Busy
<1>3. QED
  BY <1>1, <1>2

LEMMA NextRefines ==
    ASSUME IInv, [Next]_vars
    PROVE  [Publisher!Next]_Publisher!publisherVars
<1> USE DEF kubernetes, Publisher!kubernetes, Publisher!publisherVars, Empty, None
<1>1. CASE ListTemplates
  <2>1. Publisher!Begin
    BY <1>1 DEF ListTemplates, Busy, Publisher!Begin
  <2>2. QED
    BY <2>1 DEF Publisher!Next
<1>2. CASE SendReport \/ UploadUnanswered
  <2>1. uploaded' \in [Templates -> 0 .. MaxEvents]
    BY <1>2, AnalyzerAssumption
       DEF IInv, TypeOK, Events, SendReport, UploadUnanswered
  <2>2. Publisher!Whole(uploaded')
    BY <1>2, UploadIsWhole DEF Publisher!Whole, Publisher!None
  <2>3. Publisher!End
    BY <1>2, UploadIsWhole
       DEF Publisher!End, Publisher!Empty, Publisher!None, SendReport, UploadUnanswered,
           Busy
  <2>4. QED
    BY <2>1, <2>2, <2>3 DEF Publisher!Publish, Publisher!Next
<1>3. CASE CallFails \/ Crash
  <2>1. ~Busy' /\ UNCHANGED <<kubernetes, uploaded>>
    BY <1>3 DEF CallFails, Crash, Busy
  <2>2. QED
    BY <2>1, AbandonRefines DEF Publisher!Next
<1>4. CASE Gatekeeps /\ UNCHANGED <<pc, round, timer, cancelled, uploaded, faults, since>>
  BY <1>4, GatekeepsRefines DEF round, Busy, Publisher!Next
<1>5. CASE (\E t \in Templates : SkipTemplate(t) \/ ReadTemplate(t)) \/ ProcessReport
  BY <1>5 DEF SkipTemplate, ReadTemplate, ProcessReport, round, Busy
<1>6. CASE Boot \/ Tick \/ NextRound \/ Interrupt \/ Stop
  BY <1>6 DEF Boot, Tick, NextRound, Interrupt, Stop, round, Busy
<1>7. CASE UNCHANGED vars
  BY <1>7 DEF vars, round, Busy
<1>8. QED
  BY <1>1, <1>2, <1>3, <1>4, <1>5, <1>6, <1>7 DEF Next, Round

(* For any templates, events and faults: of the listings, errors, ticks,   *)
(* crashes and restarts nothing is visible in Swift but whole rounds, one  *)
(* after the other.                                                        *)
THEOREM AnalyzerIsAReportPublisher == Spec => ImplementsReportPublisher
<1>1. QED
  BY Invariant, InitRefines, NextRefines, PTL
     DEF Spec, ImplementsReportPublisher, Publisher!Spec
=============================================================================
