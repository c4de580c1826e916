---------------------------- MODULE AgentNode_proofs ----------------------------
(***************************************************************************)
(* Proofs about AgentNode and its RuleEngine, for any rules, masters,      *)
(* priorities, reporters and capacities.                                   *)
(***************************************************************************)
EXTENDS AgentNode, SequenceTheorems, WellFoundedInduction, TLAPS

(* What is still to be checked and cooling in the engine's list is cooling *)
(* in the copy as well; the rule at work has been checked.                 *)
CopyIsCurrent ==
  /\ engine.at # "acting" => engine.rule = NoRule
  /\ engine.rule \notin engine.todo
  /\ engine.todo \cap cooling \subseteq engine.cooled

(* Only a reportEvents that posts holds a batch.                           *)
BatchIsPosted ==
  \A g \in Reporters : report[g].at # "posting" => report[g].batch = <<>>

AgentInv == AgentTypeOK /\ CopyIsCurrent /\ BatchIsPosted /\ EventInOnePlace

-----------------------------------------------------------------------------
(* GetActiveMaster finds a master: least and greatest elements exist.      *)
LEMMA LeastExists ==
  ASSUME NEW S \in SUBSET Nat, S # {}
  PROVE  \E m \in S : \A n \in S : m <= n
<1> DEFINE less == OpToRel(<, Nat)
<1>1. IsWellFoundedOn(less, Nat)
  BY NatLessThanWellFounded
<1>2. \A m, n \in Nat : n < m => <<n, m>> \in less
  BY DEF OpToRel
<1> HIDE DEF less
<1>3. PICK m \in S : \A n \in S : ~(<<n, m>> \in less)
  BY <1>1, WFMin
<1>4. ASSUME NEW n \in S PROVE m <= n
  <2>1. m \in Nat /\ n \in Nat /\ ~(n < m)
    BY <1>2, <1>3, <1>4
  <2> QED
    BY <2>1
<1> QED
  BY <1>4

LEMMA FirstIsMember ==
  ASSUME NEW S \in SUBSET Masters, S # {}
  PROVE  First(S) \in S
<1>1. S \in SUBSET Nat
  BY AgentAssumption DEF Masters
<1>2. \E m \in S : \A n \in S : m <= n
  BY <1>1, LeastExists
<1> QED
  BY <1>2 DEF First

LEMMA PriorityIsBounded == \E u \in Nat : \A n \in Masters : Priority[n] <= u
<1> DEFINE Bounded(k) == \E u \in Nat : \A n \in 1..k : Priority[n] <= u
           unbounded == {k \in 0..NumMasters : ~Bounded(k)}
<1>1. SUFFICES unbounded = {}
  <2>1. NumMasters \in 0..NumMasters
    BY AgentAssumption
  <2>2. Bounded(NumMasters)
    BY <1>1, <2>1
  <2> QED
    BY <2>2 DEF Masters
<1>2. SUFFICES ASSUME unbounded # {} PROVE FALSE
  OBVIOUS
<1>3. unbounded \in SUBSET Nat
  BY AgentAssumption
<1> HIDE DEF unbounded
<1>4. PICK k \in unbounded : \A j \in unbounded : k <= j
  BY <1>2, <1>3, LeastExists
<1> USE DEF unbounded
<1>5. k # 0
  <2>1. Bounded(0)
    OBVIOUS
  <2> QED
    BY <2>1
<1>6. k - 1 \in 0..NumMasters /\ k - 1 \notin unbounded
  <2>1. k \in 0..NumMasters /\ NumMasters \in Nat
    BY AgentAssumption
  <2>2. k - 1 \in 0..NumMasters /\ ~(k <= k - 1)
    BY <1>5, <2>1
  <2> HIDE DEF unbounded
  <2> QED
    BY <1>4, <2>2
<1>7. PICK u \in Nat : \A n \in 1..(k - 1) : Priority[n] <= u
  BY <1>6
<1>8. Priority[k] \in Nat
  BY <1>5, AgentAssumption DEF Masters
<1>9. PICK v \in Nat : u <= v /\ Priority[k] <= v
  BY <1>8
<1>10. \A n \in 1..k : Priority[n] <= v
  <2> SUFFICES ASSUME NEW n \in 1..k PROVE Priority[n] <= v
    OBVIOUS
  <2>1. Priority[n] \in Nat
    BY <1>4, AgentAssumption DEF Masters
  <2>2. n \in 1..(k - 1) \/ n = k
    BY <1>5
  <2> QED
    BY <1>7, <1>9, <2>1, <2>2
<1> QED
  BY <1>10

(* A master of the highest priority exists.                                *)
LEMMA SomeIsPreferred == \E m \in Masters : \A n \in Masters : Priority[n] <= Priority[m]
<1> DEFINE bounds == {u \in Nat : \A n \in Masters : Priority[n] <= u}
<1>1. bounds \in SUBSET Nat /\ bounds # {}
  BY PriorityIsBounded
<1>2. PICK u \in bounds : \A v \in bounds : u <= v
  BY <1>1, LeastExists
<1>3. \E m \in Masters : Priority[m] = u
  <2> SUFFICES ASSUME \A m \in Masters : Priority[m] # u PROVE FALSE
    OBVIOUS
  <2>1. 1 \in Masters /\ \A n \in Masters : Priority[n] \in Nat /\ Priority[n] <= u
    BY <1>2, AgentAssumption DEF Masters
  <2>2. \A n \in Masters : Priority[n] <= u - 1
    BY <1>2, <2>1
  <2>3. u - 1 \in bounds
    BY <2>1, <2>2
  <2> QED
    BY <1>2, <2>3
<1> QED
  BY <1>2, <1>3

LEMMA ConfigMasterIsMaster ==
  ASSUME isActive \in [Masters -> BOOLEAN]
  PROVE  ConfigMaster \in Masters
<1>1. /\ {m \in Masters : isActive[m]} \in SUBSET Masters
      /\ {m \in Masters : \A n \in Masters : Priority[n] <= Priority[m]} \in SUBSET Masters
      /\ {m \in Masters : \A n \in Masters : Priority[n] <= Priority[m]} # {}
  BY SomeIsPreferred
<1> QED
  BY <1>1, FirstIsMember DEF ConfigMaster

LEMMA ActiveMasterIsMaster == AgentTypeOK => ActiveMaster \in Masters
BY ConfigMasterIsMaster DEF AgentTypeOK, ActiveMaster

-----------------------------------------------------------------------------
(* What the operations on sequences do to membership and duplicates.       *)
LEMMA Appended ==
  ASSUME NEW s \in Seq(Events), NEW e \in Events
  PROVE  /\ Append(s, e) \in Seq(Events)
         /\ \A x : InSeq(x, Append(s, e)) <=> InSeq(x, s) \/ x = e
         /\ Distinct(s) /\ ~InSeq(e, s) => Distinct(Append(s, e))
BY DEF InSeq, Distinct

LEMMA Suffix ==
  ASSUME NEW s \in Seq(Events), NEW k \in Nat, k <= Len(s)
  PROVE  LET t == SubSeq(s, k + 1, Len(s))
         IN  /\ t \in Seq(Events)
             /\ \A x : InSeq(x, t) => InSeq(x, s)
             /\ Distinct(s) => Distinct(t)
             /\ Distinct(s) => \A i \in 1..k : ~InSeq(s[i], t)
<1> DEFINE t == SubSeq(s, k + 1, Len(s))
<1>1. /\ t \in Seq(Events) /\ Len(s) \in Nat
      /\ Len(t) = Len(s) - k
      /\ \A i \in 1..Len(t) : t[i] = s[k + i]
  OBVIOUS
<1> HIDE DEF t
<1>2. \A i \in 1..Len(t) : k + i \in 1..Len(s)
  BY <1>1
<1>3. \A x : InSeq(x, t) => InSeq(x, s)
  BY <1>1, <1>2 DEF InSeq
<1>4. Distinct(s) => Distinct(t)
  BY <1>1, <1>2 DEF Distinct
<1>5. ASSUME Distinct(s), NEW i \in 1..k, InSeq(s[i], t) PROVE FALSE
  <2>1. PICK j \in 1..Len(t) : t[j] = s[i]
    BY <1>5 DEF InSeq
  <2>2. k + j \in 1..Len(s) /\ i \in 1..Len(s) /\ s[k + j] = s[i] /\ k + j # i
    BY <1>1, <1>2, <2>1
  <2> QED
    BY <1>5, <2>2 DEF Distinct
<1> QED
  BY <1>1, <1>3, <1>4, <1>5 DEF t

LEMMA Shortened ==
  ASSUME NEW s \in Seq(Events), s # <<>>
  PROVE  /\ Head(s) \in Events /\ Tail(s) \in Seq(Events)
         /\ \A x : InSeq(x, s) <=> x = Head(s) \/ InSeq(x, Tail(s))
         /\ Distinct(s) => Distinct(Tail(s)) /\ ~InSeq(Head(s), Tail(s))
<1>1. /\ Head(s) = s[1] /\ Head(s) \in Events /\ Tail(s) \in Seq(Events)
      /\ Len(s) \in Nat \ {0} /\ Len(Tail(s)) = Len(s) - 1
      /\ \A i \in 1..Len(Tail(s)) : Tail(s)[i] = s[i + 1]
  BY EmptySeq, HeadTailProperties
<1>2. \A i \in 1..Len(Tail(s)) : i + 1 \in 1..Len(s) /\ i + 1 # 1
  BY <1>1
<1>3. \A i \in 1..Len(s) : i = 1 \/ (i - 1 \in 1..Len(Tail(s)) /\ Tail(s)[i - 1] = s[i])
  BY <1>1
<1>4. ASSUME NEW x, InSeq(x, s) PROVE x = Head(s) \/ InSeq(x, Tail(s))
  BY <1>1, <1>3, <1>4 DEF InSeq
<1>5. ASSUME NEW x, x = Head(s) \/ InSeq(x, Tail(s)) PROVE InSeq(x, s)
  BY <1>1, <1>2, <1>5 DEF InSeq
<1>6. ASSUME Distinct(s) PROVE Distinct(Tail(s))
  BY <1>1, <1>2, <1>6 DEF Distinct
<1>7. ASSUME Distinct(s) PROVE ~InSeq(Head(s), Tail(s))
  BY <1>1, <1>2, <1>7 DEF Distinct, InSeq
<1> QED
  BY <1>1, <1>4, <1>5, <1>6, <1>7

LEMMA Joined ==
  ASSUME NEW s \in Seq(Events), NEW t \in Seq(Events)
  PROVE  /\ s \o t \in Seq(Events)
         /\ \A x : InSeq(x, s \o t) <=> InSeq(x, s) \/ InSeq(x, t)
         /\ Distinct(s) /\ Distinct(t) /\ Apart(t, s) => Distinct(s \o t)
<1>1. /\ s \o t \in Seq(Events) /\ Len(s) \in Nat /\ Len(t) \in Nat
      /\ Len(s \o t) = Len(s) + Len(t)
      /\ \A i \in 1..Len(s) : (s \o t)[i] = s[i]
      /\ \A i \in 1..Len(t) : (s \o t)[Len(s) + i] = t[i]
  BY ConcatProperties
<1>2. \A i \in 1..Len(s \o t) :
        i \in 1..Len(s) \/ (i - Len(s) \in 1..Len(t) /\ (s \o t)[i] = t[i - Len(s)])
  BY <1>1
<1>3. ASSUME NEW x, InSeq(x, s \o t) PROVE InSeq(x, s) \/ InSeq(x, t)
  BY <1>1, <1>2, <1>3 DEF InSeq
<1>4. ASSUME NEW x, InSeq(x, s) PROVE InSeq(x, s \o t)
  BY <1>1, <1>4 DEF InSeq
<1>5. ASSUME NEW x, InSeq(x, t) PROVE InSeq(x, s \o t)
  <2>1. \A i \in 1..Len(t) : Len(s) + i \in 1..Len(s \o t)
    BY <1>1
  <2> QED
    BY <1>1, <1>5, <2>1 DEF InSeq
<1>6. ASSUME Distinct(s), Distinct(t), Apart(t, s) PROVE Distinct(s \o t)
  <2> SUFFICES ASSUME NEW i \in 1..Len(s \o t), NEW j \in 1..Len(s \o t),
                      (s \o t)[i] = (s \o t)[j]
               PROVE  i = j
    BY DEF Distinct
  <2>1. CASE i \in 1..Len(s) /\ j \in 1..Len(s)
    BY <1>1, <1>6, <2>1 DEF Distinct
  <2>2. CASE i \notin 1..Len(s) /\ j \notin 1..Len(s)
    <3>1. i - Len(s) = j - Len(s)
      BY <1>2, <1>6, <2>2 DEF Distinct
    <3> QED
      BY <1>1, <3>1
  <2>3. CASE i \in 1..Len(s) /\ j \notin 1..Len(s)
    BY <1>1, <1>2, <1>6, <2>3 DEF Apart, InSeq
  <2>4. CASE i \notin 1..Len(s) /\ j \in 1..Len(s)
    BY <1>1, <1>2, <1>6, <2>4 DEF Apart, InSeq
  <2> QED
    BY <2>1, <2>2, <2>3, <2>4
<1> QED
  BY <1>1, <1>3, <1>4, <1>5, <1>6

LEMMA NewestIsSuffix ==
  ASSUME NEW s \in Seq(Events)
  PROVE  /\ Newest(s) \in Seq(Events)
         /\ \A x : InSeq(x, Newest(s)) => InSeq(x, s)
         /\ Distinct(s) => Distinct(Newest(s))
         /\ Len(s) <= Keep => Newest(s) = s
<1>1. CASE Len(s) > Keep
  <2> DEFINE k == Len(s) - Keep
  <2>1. k \in Nat /\ k <= Len(s) /\ ~(Len(s) <= Keep)
    BY <1>1, AgentAssumption
  <2>2. Newest(s) = SubSeq(s, k + 1, Len(s))
    BY <1>1 DEF Newest
  <2> HIDE DEF k
  <2> QED
    BY <2>1, <2>2, Suffix
<1>2. CASE ~(Len(s) > Keep)
  BY <1>2 DEF Newest
<1> QED
  BY <1>1, <1>2

LEMMA NothingIn == Distinct(<<>>) /\ \A x : ~InSeq(x, <<>>)
BY DEF Distinct, InSeq

LEMMA ApartMeans ==
  ASSUME NEW s \in Seq(Events), NEW t \in Seq(Events)
  PROVE  /\ Apart(s, t) <=> \A x : ~(InSeq(x, s) /\ InSeq(x, t))
         /\ Apart(s, t) <=> Apart(t, s)
BY DEF Apart, InSeq

-----------------------------------------------------------------------------
LEMMA EngineTypeStep ==
  ASSUME EngineTypeOK,
         \/ EngineStep \/ EngineRestart
         \/ \E e \in Events : EndAction(e)
         \/ \E R \in SUBSET Rules : SetRules(R)
         \/ \E r \in Rules : CooldownEnds(r)
  PROVE  EngineTypeOK'
<1> USE EngineAssumption DEF EngineTypeOK
<1>1. CASE StartEvaluate
  BY <1>1 DEF StartEvaluate
<1>2. CASE \E r \in Rules : SkipRule(r)
  <2>1. PICK r \in Rules : SkipRule(r)
    BY <1>2
  <2>2. engine' \in [at : {"idle", "checking", "acting"}, rule : Rules \cup {NoRule},
                     left : Nat, todo : SUBSET Rules, cooled : SUBSET Rules]
    BY <2>1, Zenon DEF SkipRule
  <2> QED
    BY <2>1, <2>2 DEF SkipRule
<1>3. CASE \E r \in Rules : FireRule(r)
  <2>1. PICK r \in Rules : FireRule(r)
    BY <1>3
  <2>2. ActionCount[r] \in Nat
    OBVIOUS
  <2>3. engine' \in [at : {"idle", "checking", "acting"}, rule : Rules \cup {NoRule},
                     left : Nat, todo : SUBSET Rules, cooled : SUBSET Rules]
    BY <2>1, <2>2, Zenon DEF FireRule
  <2> QED
    BY <2>1, <2>3 DEF FireRule
<1>4. CASE \E e \in Events : EndAction(e)
  <2>1. PICK e \in Events : EndAction(e)
    BY <1>4
  <2>2. eventChan' \in Seq(Events)
    BY <2>1, Appended DEF EndAction
  <2>3. engine.left - 1 \in Nat
    BY <2>1 DEF EndAction
  <2> QED
    BY <2>1, <2>2, <2>3 DEF EndAction
<1>5. CASE EndRule
  BY <1>5 DEF EndRule
<1>6. CASE EndEvaluate
  BY <1>6 DEF EndEvaluate, Idle
<1>7. CASE \E R \in SUBSET Rules : SetRules(R)
  BY <1>7 DEF SetRules
<1>8. CASE \E r \in Rules : CooldownEnds(r)
  <2>1. PICK r \in Rules : CooldownEnds(r)
    BY <1>8
  <2>2. engine' \in [at : {"idle", "checking", "acting"}, rule : Rules \cup {NoRule},
                     left : Nat, todo : SUBSET Rules, cooled : SUBSET Rules]
    BY <2>1 DEF CooldownEnds
  <2> QED
    BY <2>1, <2>2 DEF CooldownEnds
<1>9. CASE EngineRestart
  BY <1>9 DEF EngineRestart, Idle
<1> QED
  BY <1>1, <1>2, <1>3, <1>4, <1>5, <1>6, <1>7, <1>8, <1>9 DEF EngineStep

LEMMA AgentTypeInit == AgentInit => AgentTypeOK
BY EngineAssumption, AgentAssumption
   DEF AgentInit, AgentTypeOK, EngineInit, EngineTypeOK, Idle, Waiting, NoReport,
       Masters, NoMaster

LEMMA AgentTypeStep == AgentTypeOK /\ [AgentNext]_agentVars => AgentTypeOK'
<1> SUFFICES ASSUME AgentTypeOK, [AgentNext]_agentVars PROVE AgentTypeOK'
  OBVIOUS
<1> USE DEF AgentTypeOK, masterVars, eventVars
<1>1. EngineTypeOK'
  <2>1. CASE UNCHANGED engineVars
    BY <2>1 DEF engineVars, EngineTypeOK
  <2>2. CASE \E g \in Reporters : CollectEvent(g)
    BY <2>2, Shortened DEF CollectEvent, EngineTypeOK
  <2> QED
    BY <2>1, <2>2, EngineTypeStep
    DEF AgentNext, agentVars, HeartbeatStep, WSHeartbeat, PostHeartbeat,
        HeartbeatAnswered, HeartbeatFails, ProbeAnswered, ProbeFails, GoAutonomous,
        Evaluate, MakeEvent, ApplyConfigUpdate, ReportStep, AddressReport, TakeBatch,
        ReportAnswered, ReportFails, TimePasses, Network, Restart
<1>2. ActiveMaster \in Masters
  BY ActiveMasterIsMaster
<1> HIDE DEF EngineTypeOK
<1>3. CASE HeartbeatStep
  <2>1. CASE WSHeartbeat
    BY <1>1, <2>1 DEF WSHeartbeat
  <2>2. CASE PostHeartbeat
    BY <1>1, <1>2, <2>2 DEF PostHeartbeat
  <2>3. CASE HeartbeatAnswered
    BY <1>1, <2>3 DEF HeartbeatAnswered, Waiting
  <2>4. CASE HeartbeatFails
    BY <1>1, <2>4 DEF HeartbeatFails
  <2>5. CASE ProbeAnswered
    <3>1. First(beat.left) \in Masters
      BY <2>5, FirstIsMember DEF ProbeAnswered
    <3> QED
      BY <1>1, <2>5, <3>1 DEF ProbeAnswered, Waiting
  <2>6. CASE ProbeFails
    BY <1>1, <2>6 DEF ProbeFails
  <2>7. CASE GoAutonomous
    BY <1>1, <2>7 DEF GoAutonomous, Waiting
  <2> QED
    BY <1>3, <2>1, <2>2, <2>3, <2>4, <2>5, <2>6, <2>7 DEF HeartbeatStep
<1>4. CASE \E g \in Reporters : CollectEvent(g)
  <2>1. PICK g \in Reporters : CollectEvent(g)
    BY <1>4
  <2>2. Append(pendingEvents, Head(eventChan)) \in Seq(Events)
    BY <2>1, Shortened, Appended DEF CollectEvent, EngineTypeOK
  <2>3. pendingEvents' \in Seq(Events)
    BY <2>1, <2>2, NewestIsSuffix DEF CollectEvent
  <2> QED
    BY <1>1, <2>1, <2>3 DEF CollectEvent
<1>5. CASE \E g \in Reporters : ReportStep(g)
  <2>1. PICK g \in Reporters : ReportStep(g)
    BY <1>5
  <2>2. CASE AddressReport(g)
    <3>1. [report[g] EXCEPT !.at = "addressed", !.master = ActiveMaster] \in
            [at : {"none", "started", "addressed", "posting"},
             master : Masters \cup {NoMaster}, batch : Seq(Events)]
      BY <1>2
    <3>2. report' = [report EXCEPT ![g] = [@ EXCEPT !.at = "addressed", !.master = ActiveMaster]]
      BY <2>2 DEF AddressReport
    <3>3. report' \in [Reporters -> [at : {"none", "started", "addressed", "posting"},
                                     master : Masters \cup {NoMaster}, batch : Seq(Events)]]
      BY <3>1, <3>2
    <3> QED
      BY <1>1, <2>2, <3>3 DEF AddressReport
  <2>3. CASE TakeBatch(g)
    <3>1. pendingEvents' \in Seq(Events)
      BY <2>3 DEF TakeBatch
    <3> QED
      BY <1>1, <2>3, <3>1 DEF TakeBatch, NoReport
  <2>4. CASE ReportAnswered(g)
    BY <1>1, <2>4 DEF ReportAnswered, NoReport
  <2>5. CASE ReportFails(g)
    <3>1. pendingEvents' \in Seq(Events)
      BY <2>5, Joined DEF ReportFails
    <3> QED
      BY <1>1, <2>5, <3>1 DEF ReportFails, NoReport
  <2> QED
    BY <2>1, <2>2, <2>3, <2>4, <2>5 DEF ReportStep
<1>6. CASE Restart
  <2>1. pendingEvents' \in Seq(Events)
    BY <1>6 DEF Restart
  <2> QED
    BY <1>1, <1>6, <2>1 DEF Restart, Waiting, NoReport
<1>7. CASE Evaluate
  BY <1>1, <1>7 DEF Evaluate
<1>8. CASE \E e \in Events : MakeEvent(e)
  BY <1>1, <1>8 DEF MakeEvent
<1>9. CASE \E R \in SUBSET Rules : ApplyConfigUpdate(R)
  BY <1>1, <1>9 DEF ApplyConfigUpdate
<1>10. CASE \E r \in Rules : TimePasses(r)
  BY <1>1, <1>10 DEF TimePasses
<1>11. CASE Network
  BY <1>1, <1>11 DEF Network
<1>12. CASE UNCHANGED agentVars
  BY <1>1, <1>12 DEF agentVars
<1> QED
  BY <1>3, <1>4, <1>5, <1>6, <1>7, <1>8, <1>9, <1>10, <1>11, <1>12 DEF AgentNext

-----------------------------------------------------------------------------
(* The steps that leave the engine alone, and those that leave the events  *)
(* alone.                                                                  *)
LEMMA CopyStep ==
  AgentTypeOK /\ CopyIsCurrent /\ [AgentNext]_agentVars => CopyIsCurrent'
<1> SUFFICES ASSUME AgentTypeOK, CopyIsCurrent, [AgentNext]_agentVars
             PROVE  CopyIsCurrent'
  OBVIOUS
<1> USE EngineAssumption DEF CopyIsCurrent, AgentTypeOK, EngineTypeOK
<1>1. CASE engine' = engine /\ cooling' = cooling
  BY <1>1
<1>2. CASE StartEvaluate
  BY <1>2 DEF StartEvaluate
<1>3. CASE \E r \in Rules : SkipRule(r)
  BY <1>3 DEF SkipRule
<1>4. CASE \E r \in Rules : FireRule(r)
  BY <1>4 DEF FireRule
<1>5. CASE EndRule
  BY <1>5 DEF EndRule
<1>6. CASE EndEvaluate
  BY <1>6 DEF EndEvaluate, Idle
<1>7. CASE \E e \in Events : MakeEvent(e)
  BY <1>7 DEF MakeEvent, EndAction
<1>8. CASE \E R \in SUBSET Rules : ApplyConfigUpdate(R)
  BY <1>8 DEF ApplyConfigUpdate, SetRules
<1>9. CASE \E r \in Rules : TimePasses(r)
  BY <1>9 DEF TimePasses, CooldownEnds
<1>10. CASE Restart
  BY <1>10 DEF Restart, EngineRestart, Idle
<1>11. CASE HeartbeatStep
  BY <1>1, <1>11
  DEF HeartbeatStep, WSHeartbeat, PostHeartbeat, HeartbeatAnswered, HeartbeatFails,
      ProbeAnswered, ProbeFails, GoAutonomous, engineVars
<1>12. CASE \E g \in Reporters : CollectEvent(g) \/ ReportStep(g)
  BY <1>1, <1>12
  DEF CollectEvent, ReportStep, AddressReport, TakeBatch, ReportAnswered, ReportFails,
      engineVars
<1>13. CASE Network
  BY <1>1, <1>13 DEF Network, engineVars
<1>14. CASE UNCHANGED agentVars
  BY <1>1, <1>14 DEF agentVars, engineVars
<1> QED
  BY <1>2, <1>3, <1>4, <1>5, <1>6, <1>7, <1>8, <1>9, <1>10, <1>11, <1>12, <1>13, <1>14
  DEF AgentNext, Evaluate, EngineStep

EventPlaces == <<eventChan, pendingEvents, report>>

LEMMA OtherSteps ==
  ASSUME [AgentNext]_agentVars
  PROVE  \/ UNCHANGED EventPlaces
         \/ \E e \in Events : MakeEvent(e)
         \/ \E g \in Reporters : CollectEvent(g) \/ ReportStep(g)
         \/ Restart
BY DEF AgentNext, HeartbeatStep, WSHeartbeat, PostHeartbeat, HeartbeatAnswered,
       HeartbeatFails, ProbeAnswered, ProbeFails, GoAutonomous, Evaluate, EngineStep,
       StartEvaluate, SkipRule, FireRule, EndRule, EndEvaluate, ApplyConfigUpdate,
       SetRules, TimePasses, CooldownEnds, Network, agentVars, engineVars, eventVars,
       EventPlaces

LEMMA BatchStep ==
  AgentTypeOK /\ BatchIsPosted /\ [AgentNext]_agentVars => BatchIsPosted'
<1> SUFFICES ASSUME AgentTypeOK, BatchIsPosted, [AgentNext]_agentVars
             PROVE  BatchIsPosted'
  OBVIOUS
<1> USE DEF BatchIsPosted, AgentTypeOK
<1>1. CASE UNCHANGED EventPlaces
  BY <1>1 DEF EventPlaces
<1>2. CASE \E e \in Events : MakeEvent(e)
  BY <1>2 DEF MakeEvent
<1>3. CASE \E g \in Reporters : CollectEvent(g) \/ ReportStep(g)
  <2>1. PICK g \in Reporters : CollectEvent(g) \/ ReportStep(g)
    BY <1>3
  <2>2. \A h \in Reporters \ {g} : report'[h] = report[h]
    BY <2>1 DEF CollectEvent, ReportStep, AddressReport, TakeBatch, ReportAnswered,
                ReportFails
  <2>3. CASE CollectEvent(g)
    BY <2>2, <2>3 DEF CollectEvent
  <2>4. CASE AddressReport(g)
    BY <2>2, <2>4 DEF AddressReport
  <2>5. CASE TakeBatch(g)
    BY <2>2, <2>5 DEF TakeBatch, NoReport
  <2>6. CASE report'[g] = NoReport
    <3>1. report'[g].batch = <<>>
      BY <2>6 DEF NoReport
    <3> QED
      BY <2>2, <3>1
  <2> QED
    BY <2>1, <2>3, <2>4, <2>5, <2>6 DEF ReportStep, ReportAnswered, ReportFails
<1>4. CASE Restart
  BY <1>4 DEF Restart, NoReport
<1> QED
  BY <1>1, <1>2, <1>3, <1>4, OtherSteps

LEMMA OnePlaceStep ==
  AgentTypeOK /\ BatchIsPosted /\ EventInOnePlace /\ [AgentNext]_agentVars
    => EventInOnePlace'
<1> SUFFICES ASSUME AgentTypeOK, BatchIsPosted, EventInOnePlace, [AgentNext]_agentVars
             PROVE  EventInOnePlace'
  OBVIOUS
<1> DEFINE B(g) == report[g].batch
<1>1. /\ eventChan \in Seq(Events) /\ pendingEvents \in Seq(Events)
      /\ \A g \in Reporters : B(g) \in Seq(Events)
      /\ eventChan' \in Seq(Events) /\ pendingEvents' \in Seq(Events)
      /\ \A g \in Reporters : B(g)' \in Seq(Events)
  BY AgentTypeStep DEF AgentTypeOK, EngineTypeOK
<1>2. /\ Distinct(eventChan) /\ Distinct(pendingEvents)
      /\ \A x : ~(InSeq(x, eventChan) /\ InSeq(x, pendingEvents))
      /\ \A g \in Reporters :
           /\ Distinct(B(g))
           /\ \A x : ~(InSeq(x, eventChan) /\ InSeq(x, B(g)))
           /\ \A x : ~(InSeq(x, pendingEvents) /\ InSeq(x, B(g)))
           /\ \A h \in Reporters \ {g} : \A x : ~(InSeq(x, B(g)) /\ InSeq(x, B(h)))
  BY <1>1, ApartMeans DEF EventInOnePlace
<1> DEFINE Goal ==
        /\ Distinct(eventChan') /\ Distinct(pendingEvents')
        /\ \A x : ~(InSeq(x, eventChan') /\ InSeq(x, pendingEvents'))
        /\ \A g \in Reporters :
             /\ Distinct(B(g)')
             /\ \A x : ~(InSeq(x, eventChan') /\ InSeq(x, B(g)'))
             /\ \A x : ~(InSeq(x, pendingEvents') /\ InSeq(x, B(g)'))
             /\ \A h \in Reporters \ {g} : \A x : ~(InSeq(x, B(g)') /\ InSeq(x, B(h)'))
<1>3. SUFFICES Goal
  BY <1>1, ApartMeans DEF EventInOnePlace
<1>4. CASE UNCHANGED EventPlaces
  BY <1>2, <1>4 DEF EventPlaces
<1>5. ASSUME NEW e \in Events, MakeEvent(e) PROVE Goal
  <2>1. /\ pendingEvents' = pendingEvents /\ report' = report
        /\ ~InSeq(e, eventChan) /\ ~InSeq(e, pendingEvents)
        /\ \A g \in Reporters : ~InSeq(e, B(g))
        /\ eventChan' = eventChan \/ eventChan' = Append(eventChan, e)
    BY <1>5 DEF MakeEvent, EndAction, Held
  <2>2. /\ Distinct(Append(eventChan, e))
        /\ \A x : InSeq(x, Append(eventChan, e)) => InSeq(x, eventChan) \/ x = e
    <3>1. eventChan \in Seq(Events) /\ Distinct(eventChan) /\ ~InSeq(e, eventChan)
      BY <1>1, <1>2, <2>1
    <3> QED
      BY <3>1, Appended
  <2>3. Distinct(eventChan') /\ \A x : InSeq(x, eventChan') => InSeq(x, eventChan) \/ x = e
    BY <1>2, <2>1, <2>2
  <2> QED
    BY <1>2, <2>1, <2>3
<1>6. ASSUME NEW g \in Reporters, CollectEvent(g) PROVE Goal
  <2> DEFINE longer == Append(pendingEvents, Head(eventChan))
  <2>1. /\ eventChan # <<>> /\ eventChan' = Tail(eventChan)
        /\ pendingEvents' = Newest(longer)
        /\ \A h \in Reporters : B(h)' = B(h)
    BY <1>6 DEF CollectEvent, AgentTypeOK
  <2>2. /\ Head(eventChan) \in Events /\ InSeq(Head(eventChan), eventChan)
        /\ Distinct(eventChan') /\ ~InSeq(Head(eventChan), eventChan')
        /\ \A x : InSeq(x, eventChan') => InSeq(x, eventChan)
    BY <1>1, <1>2, <2>1, Shortened
  <2>3. /\ longer \in Seq(Events) /\ Distinct(longer)
        /\ \A x : InSeq(x, longer) => InSeq(x, pendingEvents) \/ x = Head(eventChan)
    BY <1>1, <1>2, <2>2, Appended
  <2> HIDE DEF longer
  <2>4. /\ Distinct(pendingEvents')
        /\ \A x : InSeq(x, pendingEvents') => InSeq(x, longer)
    BY <2>1, <2>3, NewestIsSuffix
  <2> QED
    BY <1>2, <2>1, <2>2, <2>3, <2>4
<1>7. ASSUME NEW g \in Reporters, ReportStep(g) PROVE Goal
  <2>1. eventChan' = eventChan
    BY <1>7 DEF ReportStep, AddressReport, TakeBatch, ReportAnswered, ReportFails, engineVars
  <2>2. \A h \in Reporters \ {g} : B(h)' = B(h)
    BY <1>7 DEF ReportStep, AddressReport, TakeBatch, ReportAnswered, ReportFails, AgentTypeOK
  <2>3. CASE AddressReport(g)
    <3>1. pendingEvents' = pendingEvents /\ B(g)' = B(g)
      BY <2>3 DEF AddressReport, AgentTypeOK
    <3> QED
      BY <1>2, <2>1, <2>2, <3>1
  <2>4. CASE TakeBatch(g)
    <3>1. pendingEvents' = <<>> /\ (B(g)' = pendingEvents \/ B(g)' = <<>>)
      BY <2>4 DEF TakeBatch, NoReport, AgentTypeOK
    <3> QED
      BY <1>2, <2>1, <2>2, <3>1, NothingIn
  <2>5. CASE ReportAnswered(g)
    <3>1. pendingEvents' = pendingEvents /\ B(g)' = <<>>
      BY <2>5 DEF ReportAnswered, NoReport, AgentTypeOK
    <3> QED
      BY <1>2, <2>1, <2>2, <3>1, NothingIn
  <2>6. CASE ReportFails(g)
    <3>1. pendingEvents' = B(g) \o pendingEvents /\ B(g)' = <<>>
      BY <2>6 DEF ReportFails, NoReport, AgentTypeOK
    <3>2. /\ Distinct(pendingEvents')
          /\ \A x : InSeq(x, pendingEvents') <=> InSeq(x, B(g)) \/ InSeq(x, pendingEvents)
      BY <1>1, <1>2, <3>1, Joined, ApartMeans
    <3> QED
      BY <1>2, <2>1, <2>2, <3>1, <3>2, NothingIn
  <2> QED
    BY <1>7, <2>3, <2>4, <2>5, <2>6 DEF ReportStep
<1>8. CASE Restart
  <2>1. /\ eventChan' = <<>> /\ pendingEvents' = <<>>
        /\ \A g \in Reporters : B(g)' = <<>>
    BY <1>8 DEF Restart, EngineRestart, NoReport
  <2> QED
    BY <2>1, NothingIn
<1> QED
  BY <1>4, <1>5, <1>6, <1>7, <1>8, OtherSteps

-----------------------------------------------------------------------------
LEMMA AgentInvInit == AgentInit => AgentInv
<1> SUFFICES ASSUME AgentInit PROVE AgentInv
  OBVIOUS
<1>1. AgentTypeOK
  BY AgentTypeInit
<1>2. CopyIsCurrent /\ BatchIsPosted
  BY DEF AgentInit, EngineInit, Idle, NoReport, CopyIsCurrent, BatchIsPosted
<1>3. EventInOnePlace
  BY NothingIn DEF AgentInit, EngineInit, NoReport, EventInOnePlace, Apart, InSeq
<1> QED
  BY <1>1, <1>2, <1>3 DEF AgentInv

LEMMA AgentInvStep == AgentInv /\ [AgentNext]_agentVars => AgentInv'
BY AgentTypeStep, CopyStep, BatchStep, OnePlaceStep DEF AgentInv

LEMMA AgentInvariant == AgentSpec => []AgentInv
BY AgentInvInit, AgentInvStep, PTL DEF AgentSpec

(* The variables of the agent and of its rule engine have their types.     *)
THEOREM AgentTypeCorrect == AgentSpec => []AgentTypeOK
<1>1. AgentInv => AgentTypeOK
  BY DEF AgentInv
<1> QED
  BY AgentInvariant, <1>1, PTL

(* No interleaving of collecting, reporting and putting back copies an     *)
(* event (agent.go:497-536).                                               *)
THEOREM EventAlwaysInOnePlace == AgentSpec => []EventInOnePlace
<1>1. AgentInv => EventInOnePlace
  BY DEF AgentInv
<1> QED
  BY AgentInvariant, <1>1, PTL

(* The cooldown is kept whatever configuration updates come while rules    *)
(* are evaluated (rule_engine.go:69-135).                                  *)
THEOREM CooldownAlwaysKept == AgentSpec => CooldownKept
<1>1. ASSUME AgentInv, [AgentNext]_agentVars, NEW r \in Rules,
             engine.rule # r, engine'.rule = r
      PROVE  r \notin cooling
  <2>1. PICK q \in Rules : FireRule(q)
    <3> USE <1>1, EngineAssumption DEF AgentInv, AgentTypeOK, EngineTypeOK
    <3>1. engine' # engine /\ r # NoRule
      OBVIOUS
    <3>2. CASE EngineStep
      <4>1. CASE \E p \in Rules : SkipRule(p)
        BY <4>1 DEF SkipRule
      <4>2. CASE StartEvaluate
        BY <4>2 DEF StartEvaluate
      <4>3. CASE EndRule
        <5>1. engine'.rule = NoRule
          BY <4>3 DEF EndRule
        <5> QED
          BY <3>1, <5>1
      <4>4. CASE EndEvaluate
        BY <3>1, <4>4 DEF EndEvaluate, Idle
      <4> QED
        BY <3>2, <4>1, <4>2, <4>3, <4>4 DEF EngineStep
    <3>3. CASE \E e \in Events : MakeEvent(e)
      BY <3>3 DEF MakeEvent, EndAction
    <3>4. CASE \E p \in Rules : TimePasses(p)
      BY <3>4 DEF TimePasses, CooldownEnds
    <3>5. CASE Restart
      BY <3>1, <3>5 DEF Restart, EngineRestart, Idle
    <3>6. CASE engine' = engine
      BY <3>1, <3>6
    <3> QED
      BY <3>2, <3>3, <3>4, <3>5, <3>6
      DEF AgentNext, HeartbeatStep, WSHeartbeat, PostHeartbeat, HeartbeatAnswered,
          HeartbeatFails, ProbeAnswered, ProbeFails, GoAutonomous, Evaluate,
          ApplyConfigUpdate, SetRules, CollectEvent, ReportStep, AddressReport, TakeBatch,
          ReportAnswered, ReportFails, Network, agentVars, engineVars
  <2>2. q = r
    BY <1>1, <2>1 DEF FireRule, AgentInv, AgentTypeOK, EngineTypeOK
  <2> QED
    BY <1>1, <2>1, <2>2 DEF FireRule, CopyIsCurrent, AgentInv
<1>2. AgentInv /\ [AgentNext]_agentVars =>
        [\A r \in Rules :
           engine.rule # r /\ engine'.rule = r => r \notin cooling]_engineVars
  BY <1>1
<1> QED
  BY AgentInvariant, <1>2, PTL DEF AgentSpec, CooldownKept

(* No event is lost between the channel and a master, but for the cut to   *)
(* Keep and for the end of the process (agent.go:482, 497-536).            *)
THEOREM EventsAlwaysKept == AgentSpec => EventsKept
<1>1. ASSUME AgentInv, [AgentNext]_agentVars, ~Restart, NEW e \in Events, Held(e)
      PROVE  Held(e)' \/ MayLeave(e)
  <2> USE <1>1 DEF AgentInv, AgentTypeOK
  <2>1. CASE UNCHANGED EventPlaces
    BY <2>1 DEF EventPlaces, Held
  <2>2. CASE \E d \in Events : MakeEvent(d)
    BY <2>2 DEF MakeEvent, Held
  <2>3. ASSUME NEW g \in Reporters, CollectEvent(g) PROVE Held(e)' \/ MayLeave(e)
    <3>1. \A h \in Reporters : report'[h].batch = report[h].batch
      BY <2>3 DEF CollectEvent
    <3>2. CASE InSeq(e, pendingEvents)
      <4>1. /\ eventChan \in Seq(Events) /\ eventChan # <<>> /\ eventChan' = Tail(eventChan)
            /\ pendingEvents' = Newest(Append(pendingEvents, Head(eventChan)))
        BY <2>3 DEF CollectEvent, EngineTypeOK
      <4>2. eventChan' # eventChan /\ Head(eventChan) \in Events
        BY <4>1, HeadTailProperties, EmptySeq
      <4>3. CASE Len(pendingEvents) < Keep
        <5>1. /\ Append(pendingEvents, Head(eventChan)) \in Seq(Events)
              /\ Len(Append(pendingEvents, Head(eventChan))) <= Keep
              /\ InSeq(e, Append(pendingEvents, Head(eventChan)))
          BY <3>2, <4>2, <4>3, Appended, AppendProperties, AgentAssumption
        <5> QED
          BY <4>1, <5>1, NewestIsSuffix DEF Held
      <4>4. CASE ~(Len(pendingEvents) < Keep)
        BY <4>2, <4>4, AgentAssumption DEF MayLeave
      <4> QED
        BY <4>3, <4>4
    <3>3. CASE \E h \in Reporters : InSeq(e, report[h].batch)
      BY <3>1, <3>3 DEF Held
    <3> QED
      BY <3>2, <3>3 DEF Held
  <2>4. ASSUME NEW g \in Reporters, ReportStep(g) PROVE Held(e)' \/ MayLeave(e)
    <3>1. \A h \in Reporters \ {g} : report'[h] = report[h]
      BY <2>4 DEF ReportStep, AddressReport, TakeBatch, ReportAnswered, ReportFails
    <3>2. CASE AddressReport(g)
      BY <3>1, <3>2 DEF AddressReport, Held
    <3>3. CASE TakeBatch(g)
      <4>1. ~InSeq(e, report[g].batch)
        BY <3>3, NothingIn DEF TakeBatch, BatchIsPosted
      <4>2. CASE InSeq(e, pendingEvents)
        <5>1. report'[g].batch = pendingEvents
          BY <3>3, <4>2, NothingIn DEF TakeBatch
        <5> QED
          BY <4>2, <5>1 DEF Held
      <4>3. CASE ~InSeq(e, pendingEvents)
        BY <3>1, <4>1, <4>3 DEF Held
      <4> QED
        BY <4>2, <4>3
    <3>4. CASE ReportAnswered(g)
      BY <3>1, <3>4 DEF ReportAnswered, Held, MayLeave
    <3>5. CASE ReportFails(g)
      <4>1. \A x : InSeq(x, pendingEvents') <=>
                     InSeq(x, report[g].batch) \/ InSeq(x, pendingEvents)
        BY <3>5, Joined DEF ReportFails
      <4> QED
        BY <3>1, <4>1 DEF Held
    <3> QED
      BY <2>4, <3>2, <3>3, <3>4, <3>5 DEF ReportStep
  <2> QED
    BY <2>1, <2>2, <2>3, <2>4, OtherSteps
<1>2. AgentInv /\ [AgentNext]_agentVars => 
        [Restart \/ \A e \in Events : Held(e) => Held(e)' \/ MayLeave(e)]_agentVars
  BY <1>1
<1> QED
  BY AgentInvariant, <1>2, PTL DEF AgentSpec, EventsKept

-----------------------------------------------------------------------------
(* The failover.  GetActiveMaster goes by the flags isActive, which        *)
(* tryFailover sets and clears one at a time.  A flag is that of the       *)
(* active master, or was set in the configuration file and never cleared:  *)
(* the active master's own flag falls when the failover begins, before     *)
(* another one rises or none is active.                                    *)
Preferred(m) == \A n \in Masters : Priority[n] <= Priority[m]

FlagsFollow ==
  /\ beat.at = "posting" => beat.master = ActiveMaster
  /\ activeMaster # NoMaster => (isActive[activeMaster] <=> LockFree)
  /\ \A m \in Masters : isActive[m] => m = activeMaster \/ m \in ConfigActive

(* The master GetActiveMaster finds: a flagged one or a preferred one.     *)
LEMMA ConfigMasterIs ==
  ASSUME isActive \in [Masters -> BOOLEAN]
  PROVE  isActive[ConfigMaster] \/ Preferred(ConfigMaster)
<1> DEFINE active == {m \in Masters : isActive[m]}
           best == {m \in Masters : \A n \in Masters : Priority[n] <= Priority[m]}
<1>1. CASE active # {}
  <2>1. First(active) \in active
    BY <1>1, FirstIsMember
  <2> QED
    BY <1>1, <2>1 DEF ConfigMaster
<1>2. CASE active = {}
  <2>1. best # {}
    BY SomeIsPreferred
  <2>2. First(best) \in best
    BY <2>1, FirstIsMember
  <2> QED
    BY <1>2, <2>2 DEF ConfigMaster, Preferred
<1> QED
  BY <1>1, <1>2

LEMMA FlagsFollowStep ==
  ASSUME AgentTypeOK, FlagsFollow, [AgentNext]_agentVars
  PROVE  FlagsFollow'
<1> USE DEF FlagsFollow, LockFree
<1>1. CASE UNCHANGED masterVars
  BY <1>1 DEF masterVars, ActiveMaster, ConfigMaster
<1>2. CASE WSHeartbeat
  BY <1>2 DEF WSHeartbeat
<1>3. CASE PostHeartbeat
  <2>1. ActiveMaster' = ActiveMaster
    BY <1>3 DEF PostHeartbeat, ActiveMaster, ConfigMaster
  <2> QED
    BY <1>3, <2>1 DEF PostHeartbeat, AgentTypeOK
<1>4. CASE HeartbeatAnswered
  BY <1>4 DEF HeartbeatAnswered, Waiting
<1>5. CASE HeartbeatFails
  BY <1>5 DEF HeartbeatFails, AgentTypeOK
<1>6. CASE ProbeAnswered
  <2>1. First(beat.left) \in Masters /\ NoMaster \notin Masters
    BY <1>6, FirstIsMember DEF ProbeAnswered, AgentTypeOK, Masters, NoMaster
  <2>2. activeMaster # NoMaster => ~isActive[activeMaster]
    BY <1>6 DEF ProbeAnswered
  <2> QED
    BY <1>6, <2>1, <2>2 DEF ProbeAnswered, AgentTypeOK, Waiting
<1>7. CASE ProbeFails
  BY <1>7 DEF ProbeFails, AgentTypeOK
<1>8. CASE GoAutonomous
  BY <1>8 DEF GoAutonomous, AgentTypeOK, Waiting
<1>9. CASE Restart
  BY <1>9 DEF Restart, Waiting
<1> QED
  BY <1>1, <1>2, <1>3, <1>4, <1>5, <1>6, <1>7, <1>8, <1>9
  DEF AgentNext, HeartbeatStep, Evaluate, MakeEvent, ApplyConfigUpdate, CollectEvent,
      ReportStep, AddressReport, TakeBatch, ReportAnswered, ReportFails, TimePasses,
      Network, agentVars

(* An agent without an active master turns to one its configuration file   *)
(* names, marked active there or of the highest priority, never to one it  *)
(* has only failed over to; and while a heartbeat is on its way, reports   *)
(* are addressed to the master it goes to (getActiveMaster, tryFailover).  *)
FallbackIsConfigured ==
  /\ activeMaster = NoMaster => ActiveMaster \in ConfigActive \/ Preferred(ActiveMaster)
  /\ beat.at = "posting" => beat.master = ActiveMaster

(* However failovers follow one another, none leaves a flag behind.        *)
THEOREM FallsBackToConfigured == AgentSpec => []FallbackIsConfigured
<1>1. ASSUME AgentInit PROVE FlagsFollow
  <2>1. /\ beat.at = "waiting" /\ activeMaster = NoMaster
        /\ isActive = [m \in Masters |-> m \in ConfigActive]
    BY <1>1 DEF AgentInit, Waiting
  <2> QED
    BY <2>1 DEF FlagsFollow
<1>2. AgentInv /\ FlagsFollow /\ [AgentNext]_agentVars => FlagsFollow'
  BY FlagsFollowStep DEF AgentInv
<1>3. ASSUME AgentInv, FlagsFollow PROVE FallbackIsConfigured
  <2>1. isActive \in [Masters -> BOOLEAN] /\ NoMaster \notin Masters
    BY <1>3 DEF AgentInv, AgentTypeOK, Masters, NoMaster
  <2>2. ConfigMaster \in Masters /\ (isActive[ConfigMaster] \/ Preferred(ConfigMaster))
    BY <2>1, ConfigMasterIsMaster, ConfigMasterIs
  <2> QED
    BY <1>3, <2>1, <2>2 DEF FlagsFollow, FallbackIsConfigured, ActiveMaster
<1>4. (AgentInit => FlagsFollow) /\ (AgentInv /\ FlagsFollow => FallbackIsConfigured)
  BY <1>1, <1>3
<1> QED
  BY <1>2, <1>4, AgentInvariant, PTL DEF AgentSpec
=============================================================================
