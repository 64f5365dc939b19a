---------------------- MODULE HealthIncidentsProofs ----------------------
(***************************************************************************)
(* Proofs about HealthIncidents, for any evidence, sessions and calls: the *)
(* type invariant, that incidents are opened and resolved for cause, that  *)
(* the open incidents of a key are bounded by the evaluations that overlap,*)
(* and that after undisturbed evaluations dashboard and incidents agree.   *)
(***************************************************************************)
EXTENDS HealthIncidents, FiniteSetTheorems, TLAPS

\* The statements of a call.
OfKind(call) ==
  \/ call.kind = "domain" /\ call.next \in {"failures", "sla", "find", "insert", "resolve", "refresh"}
  \/ call.kind = "quality" /\ call.next \in {"dq", "reconciliation", "find", "insert", "resolve"}

\* The keys whose conditions the call has looked for before a statement.
LookedFor(statement, kind) ==
  IF statement \in {"failures", "dq"} THEN {}
  ELSE IF statement = "sla" THEN FailureKey
  ELSE IF statement = "reconciliation" THEN DqKey
  ELSE Managed(kind)

\* A call has seen the conditions as they are; it holds conditions of its kind
\* that it has seen; and what it has looked for and does not hold it has seen gone.
CallInv(s) ==
  /\ OfKind(session[s])
  /\ Condition \subseteq seenTrue[s] /\ Key \ Condition \subseteq seenFalse[s]
  /\ session[s].conditions \subseteq seenTrue[s] \cap Managed(session[s].kind)
  /\ session[s].missing \subseteq session[s].conditions
  /\ LookedFor(session[s].next, session[s].kind) \ session[s].conditions \subseteq seenFalse[s]
CauseInv == \A s \in Session : Running(s) => CallInv(s)

\* The parts of the types that the argument needs.
Call == [kind : Kind \cup {"none"}, next : Statement,
         conditions : SUBSET AutomaticKey, missing : SUBSET AutomaticKey]
HistoryOK ==
  /\ session \in [Session -> Call]
  /\ open \in [Key -> Nat]
  /\ seenTrue \in [Session -> SUBSET Key]
  /\ seenFalse \in [Session -> SUBSET Key]

-----------------------------------------------------------------------------
\* Keys and conditions

\* The type is the first component of a key.
LEMMA KeyTypes ==
  /\ \A k \in FailureKey : k[1] \in {"INGESTION_FAILURE", "PIPELINE_FAILURE", "DBT_FAILURE"}
  /\ \A k \in SlaKey : k[1] = "SLA_VIOLATION"
  /\ \A k \in DqKey : k[1] = "DQ_FAILURE"
  /\ \A k \in ReconKey : k[1] = "RECONCILIATION_FAILURE"
  /\ \A k \in ManualKey : k[1] = "INVESTIGATION"
<1>0. ASSUME NEW type, NEW stage
      PROVE  <<type, stage>>[1] = type
  OBVIOUS
<1>1. \A k \in FailureKey : k = <<"INGESTION_FAILURE", "">> \/ k = <<"PIPELINE_FAILURE", "">>
                             \/ k = <<"DBT_FAILURE", "">>
  BY DEF FailureKey
<1>2. \A k \in SlaKey : k[1] = "SLA_VIOLATION"
  BY DEF SlaKey
<1>3. \A k \in DqKey : k = <<"DQ_FAILURE", "">>
  BY DEF DqKey
<1>4. \A k \in ReconKey : k[1] = "RECONCILIATION_FAILURE"
  BY DEF ReconKey
<1>5. \A k \in ManualKey : k = <<"INVESTIGATION", "">>
  BY DEF ManualKey
<1> QED
  BY <1>0, <1>1, <1>2, <1>3, <1>4, <1>5, Zenon

\* The keys of each evaluator.
LEMMA ManagedKeys ==
  /\ Managed("domain") = FailureKey \cup SlaKey
  /\ Managed("quality") = DqKey \cup ReconKey
  /\ AutomaticKey \subseteq Key
<1>1. ManagedType["domain"] = DomainType /\ ManagedType["quality"] = QualityType
  BY DEF ManagedType
<1> QED
  BY <1>1, KeyTypes DEF Managed, DomainType, QualityType, Key, AutomaticKey

\* No key is of two types.
LEMMA KeysDiffer ==
  /\ FailureKey \cap SlaKey = {} /\ FailureKey \cap DqKey = {} /\ FailureKey \cap ReconKey = {}
  /\ SlaKey \cap DqKey = {} /\ SlaKey \cap ReconKey = {} /\ DqKey \cap ReconKey = {}
  BY KeyTypes

\* Each statement collects conditions of its own type, and all of them.
LEMMA ConditionsByType ==
  /\ FailureConditions = Condition \cap FailureKey
  /\ SlaConditions = Condition \cap SlaKey
  /\ DqConditions = Condition \cap DqKey
  /\ ReconConditions = Condition \cap ReconKey
  /\ Condition \subseteq AutomaticKey
<1>1. FailureConditions \subseteq FailureKey
  BY DEF FailureConditions, FailureKey
<1>2. SlaConditions \subseteq SlaKey
  BY DEF SlaConditions, SlaKey, ViolatedStages
<1>3. DqConditions \subseteq DqKey
  BY DEF DqConditions, DqKey
<1>4. ReconConditions \subseteq ReconKey
  BY DEF ReconConditions, ReconKey
<1> QED
  BY <1>1, <1>2, <1>3, <1>4, KeysDiffer DEF Condition, AutomaticKey

\* The conditions are a function of the evidence.
LEMMA ConditionStays ==
  ASSUME UNCHANGED evidence
  PROVE  Condition' = Condition
<1> USE DEF evidence
<1>1. Enabled' = Enabled
  BY DEF Enabled
<1>2. IngestionStatus' = IngestionStatus /\ SilverStatus' = SilverStatus
  BY DEF IngestionStatus, SilverStatus
<1>3. DataKnown' = DataKnown
  BY <1>2 DEF DataKnown
<1>4. \A stage \in SlaStage : SlaStatus(stage)' = SlaStatus(stage)
  BY <1>1, <1>3 DEF SlaStatus
<1>5. ViolatedStages' = ViolatedStages
  BY <1>4 DEF ViolatedStages
<1>6. \A subject : Verdict(subject)' = Verdict(subject)
  BY DEF Verdict
<1>7. DqVerdict' = DqVerdict
  BY <1>6 DEF DqVerdict
<1>8. \A stage \in ReconStage : ReconVerdict(stage)' = ReconVerdict(stage)
  BY <1>6 DEF ReconVerdict
<1>9. FailureConditions' = FailureConditions
  BY <1>1, <1>2 DEF FailureConditions
<1>10. SlaConditions' = SlaConditions
  BY <1>1, <1>5 DEF SlaConditions
<1>11. DqConditions' = DqConditions
  BY <1>1, <1>7 DEF DqConditions
<1>12. ReconConditions' = ReconConditions
  BY <1>1, <1>8 DEF ReconConditions
<1> QED
  BY <1>9, <1>10, <1>11, <1>12 DEF Condition
\* So do the conditions of the next state.
LEMMA NextConditions ==
  (Condition \subseteq AutomaticKey)'
<1>1. Condition \subseteq AutomaticKey
  BY ConditionsByType
<1> QED
  BY <1>1, PTL

-----------------------------------------------------------------------------
\* What the statements do to their call

\* A call that goes on.
Goes(call, next) == [call EXCEPT !.next = next]
Holds(call, next, conditions) == [call EXCEPT !.next = next, !.conditions = conditions]
Misses(call, next, missing) == [call EXCEPT !.next = next, !.missing = missing]
Begun(kind, statement) == [Idle EXCEPT !.kind = kind, !.next = statement]

Is(call, kind, next, conditions, missing) ==
  /\ call \in Call
  /\ call.kind = kind /\ call.next = next
  /\ call.conditions = conditions /\ call.missing = missing

LEMMA CallIs ==
  ASSUME NEW call \in Call
  PROVE  /\ call.kind \in Kind \cup {"none"} /\ call.next \in Statement
         /\ call.conditions \in SUBSET AutomaticKey /\ call.missing \in SUBSET AutomaticKey
  BY DEF Call

LEMMA GoesIs ==
  ASSUME NEW call \in Call, NEW next \in Statement
  PROVE  Is(Goes(call, next), call.kind, next, call.conditions, call.missing)
<1>1. Goes(call, next) \in Call
  BY DEF Call, Goes
<1> QED
  BY <1>1 DEF Call, Goes, Is

LEMMA HoldsIs ==
  ASSUME NEW call \in Call, NEW next \in Statement, NEW conditions \in SUBSET AutomaticKey
  PROVE  Is(Holds(call, next, conditions), call.kind, next, conditions, call.missing)
<1>1. Holds(call, next, conditions) \in Call
  BY DEF Call, Holds
<1> QED
  BY <1>1 DEF Call, Holds, Is

LEMMA MissesIs ==
  ASSUME NEW call \in Call, NEW next \in Statement, NEW missing \in SUBSET AutomaticKey
  PROVE  Is(Misses(call, next, missing), call.kind, next, call.conditions, missing)
<1>1. Misses(call, next, missing) \in Call
  BY DEF Call, Misses
<1> QED
  BY <1>1 DEF Call, Misses, Is

LEMMA IdleIs == Idle \in Call /\ Idle.next = "idle"
  BY DEF Idle, Call, Statement

LEMMA BegunIs ==
  ASSUME NEW kind \in Kind, NEW statement \in Statement
  PROVE  Is(Begun(kind, statement), kind, statement, {}, {})
<1>1. Begun(kind, statement) \in Call
  BY IdleIs DEF Call, Begun
<1>2. Idle.conditions = {} /\ Idle.missing = {}
  BY DEF Idle
<1> QED
  BY <1>1, <1>2, IdleIs DEF Call, Begun, Is

\* The step of one session leaves the calls of the others.
Steps(s, kind, next, conditions, missing) ==
  /\ Is(session'[s], kind, next, conditions, missing)
  /\ \A t \in Session : t # s => session'[t] = session[t]
LEMMA Replaced ==
  ASSUME HistoryOK, NEW s \in Session, NEW call \in Call,
         session' = [session EXCEPT ![s] = call]
  PROVE  /\ session' \in [Session -> Call]
         /\ session'[s] = call /\ \A t \in Session : t # s => session'[t] = session[t]
  BY DEF HistoryOK

\* A statement that collects conditions.
LEMMA Collected ==
  ASSUME HistoryOK, NEW s \in Session, NEW conditions \in SUBSET AutomaticKey,
         NEW statement, NEW next \in Statement, Collect(s, statement, conditions, next)
  PROVE  /\ session' \in [Session -> Call]
         /\ Steps(s, session[s].kind, next, session[s].conditions \cup conditions,
                  session[s].missing)
<1> DEFINE all == session[s].conditions \cup conditions
<1>1. session[s] \in Call /\ all \in SUBSET AutomaticKey
  BY CallIs DEF HistoryOK
<1>2. session' = [session EXCEPT ![s] =
                    [session[s] EXCEPT !.next = next, !.conditions = all]]
  BY DEF Collect, HistoryOK
<1>3. session' = [session EXCEPT ![s] = Holds(session[s], next, all)]
  BY <1>2 DEF Holds
<1> HIDE DEF all
<1>4. Is(Holds(session[s], next, all), session[s].kind, next, all, session[s].missing)
  BY <1>1, HoldsIs
<1>5. Holds(session[s], next, all) \in Call
  BY <1>4 DEF Is
<1>6. session' \in [Session -> Call]
      /\ Steps(s, session[s].kind, next, all, session[s].missing)
  BY <1>3, <1>4, <1>5, Replaced DEF Steps
<1> QED
  BY <1>6 DEF all

\* The read of the INSERT.
LEMMA Found ==
  ASSUME HistoryOK, NEW s \in Session, FindMissing(s)
  PROVE  /\ session' \in [Session -> Call]
         /\ Steps(s, session[s].kind, "insert", session[s].conditions,
                  {k \in session[s].conditions : open[k] = 0})
<1> DEFINE missing == {k \in session[s].conditions : open[k] = 0}
<1>1. session[s] \in Call /\ missing \in SUBSET AutomaticKey /\ "insert" \in Statement
  BY CallIs DEF HistoryOK, Statement
<1>2. session' = [session EXCEPT ![s] =
                    [session[s] EXCEPT !.next = "insert", !.missing = missing]]
  BY DEF FindMissing, HistoryOK
<1>3. session' = [session EXCEPT ![s] = Misses(session[s], "insert", missing)]
  BY <1>2 DEF Misses
<1> HIDE DEF missing
<1>4. Is(Misses(session[s], "insert", missing),
         session[s].kind, "insert", session[s].conditions, missing)
  BY <1>1, MissesIs
<1>5. Misses(session[s], "insert", missing) \in Call
  BY <1>4 DEF Is
<1>6. session' \in [Session -> Call]
      /\ Steps(s, session[s].kind, "insert", session[s].conditions, missing)
  BY <1>3, <1>4, <1>5, Replaced DEF Steps
<1> QED
  BY <1>6 DEF missing

\* Its commit.
LEMMA Opened ==
  ASSUME HistoryOK, NEW s \in Session, OpenMissing(s)
  PROVE  /\ session' \in [Session -> Call]
         /\ Steps(s, session[s].kind, "resolve", session[s].conditions, {})
<1>1. session[s] \in Call /\ {} \in SUBSET AutomaticKey /\ "resolve" \in Statement
  BY DEF HistoryOK, Statement
<1>2. session' = [session EXCEPT ![s] =
                    [session[s] EXCEPT !.next = "resolve", !.missing = {}]]
  BY DEF OpenMissing, HistoryOK
<1>3. session' = [session EXCEPT ![s] = Misses(session[s], "resolve", {})]
  BY <1>2 DEF Misses
<1>4. Is(Misses(session[s], "resolve", {}),
         session[s].kind, "resolve", session[s].conditions, {})
  BY <1>1, MissesIs
<1>5. Misses(session[s], "resolve", {}) \in Call
  BY <1>4 DEF Is
<1> QED
  BY <1>3, <1>4, <1>5, Replaced DEF Steps

\* The resolving statement of a domain evaluation.
LEMMA Resolved ==
  ASSUME HistoryOK, NEW s \in Session, ResolveDomain(s)
  PROVE  /\ session' \in [Session -> Call]
         /\ Steps(s, session[s].kind, "refresh", session[s].conditions, session[s].missing)
<1>1. session[s] \in Call /\ "refresh" \in Statement
  BY DEF HistoryOK, Statement
<1>2. session' = [session EXCEPT ![s] = Goes(session[s], "refresh")]
  BY DEF ResolveDomain, HistoryOK, Goes
<1>3. Is(Goes(session[s], "refresh"),
         session[s].kind, "refresh", session[s].conditions, session[s].missing)
  BY <1>1, GoesIs
<1>4. Goes(session[s], "refresh") \in Call
  BY <1>3 DEF Is
<1> QED
  BY <1>2, <1>3, <1>4, Replaced DEF Steps

\* A call that begins.
LEMMA Started ==
  ASSUME HistoryOK, NEW s \in Session, NEW kind \in Kind, NEW statement \in Statement,
         Start(s, kind, statement)
  PROVE  session' \in [Session -> Call] /\ Steps(s, kind, statement, {}, {})
<1>1. session' = [session EXCEPT ![s] = Begun(kind, statement)]
  BY DEF Start, Begun
<1>2. Is(Begun(kind, statement), kind, statement, {}, {})
  BY BegunIs
<1>3. Begun(kind, statement) \in Call
  BY <1>2 DEF Is
<1> QED
  BY <1>1, <1>2, <1>3, Replaced DEF Steps

-----------------------------------------------------------------------------
\* Every step keeps what the calls know

\* A change of the evidence is seen by every running call.
LEMMA ChangeStep ==
  ASSUME HistoryOK, CauseInv, Change
  PROVE  HistoryOK' /\ CauseInv'
<1>1. session' = session /\ open' = open
  BY DEF Change
<1>2. /\ seenTrue' = [s \in Session |-> IF ~Running(s) THEN {} ELSE seenTrue[s] \cup Condition']
      /\ seenFalse' = [s \in Session |->
                         IF ~Running(s) THEN {} ELSE seenFalse[s] \cup (Key \ Condition')]
  BY DEF Change, Watch, Running
<1>3. Condition' \subseteq Key
  BY NextConditions, ManagedKeys
<1>4. HistoryOK'
  BY <1>1, <1>2, <1>3 DEF HistoryOK
<1>5. ASSUME NEW s \in Session, Running(s)
      PROVE  CallInv(s)'
  <2>1. CallInv(s)
    BY <1>5 DEF CauseInv
  <2>2. seenTrue'[s] = seenTrue[s] \cup Condition' /\ seenFalse'[s] = seenFalse[s] \cup (Key \ Condition')
    BY <1>2, <1>5
  <2> QED
    BY <1>1, <2>1, <2>2 DEF CallInv
<1>6. \A s \in Session : Running(s)' = Running(s)
  BY <1>1 DEF Running
<1> QED
  BY <1>4, <1>5, <1>6 DEF CauseInv

\* A call that does nothing keeps what it knows while the evidence stays.
LEMMA CallStays ==
  ASSUME NEW s \in Session, Running(s) => CallInv(s), UNCHANGED evidence,
         session'[s] = session[s], seenTrue'[s] = seenTrue[s], seenFalse'[s] = seenFalse[s]
  PROVE  Running(s)' => CallInv(s)'
  BY ConditionStays DEF CallInv, Running

\* A statement of a session leaves the evidence and what other sessions know.
Frame(s) ==
  /\ UNCHANGED evidence
  /\ \A t \in Session : t # s => /\ session'[t] = session[t]
                                /\ seenTrue'[t] = seenTrue[t] /\ seenFalse'[t] = seenFalse[t]
LEMMA FrameStep ==
  ASSUME CauseInv, NEW s \in Session, Frame(s), Running(s)' => CallInv(s)'
  PROVE  CauseInv'
<1>1. ASSUME NEW t \in Session, t # s
      PROVE  Running(t)' => CallInv(t)'
  BY <1>1, CallStays DEF CauseInv, Frame
<1> QED
  BY <1>1 DEF CauseInv

\* A statement that collects the conditions of some types.
LEMMA CollectStep ==
  ASSUME HistoryOK, CauseInv, NEW s \in Session, NEW keys, keys \subseteq AutomaticKey,
         NEW statement \in Statement \ {"idle"}, NEW next \in Statement,
         Collect(s, statement, Condition \cap keys, next),
         NEW kind, CallInv(s) => session[s].kind = kind,
         keys \subseteq Managed(kind),
         LookedFor(next, kind) \subseteq LookedFor(statement, kind) \cup keys,
         OfKind([kind |-> kind, next |-> next])
  PROVE  HistoryOK' /\ CauseInv'
<1> DEFINE found == Condition \cap keys
<1>1. session' \in [Session -> Call]
      /\ Steps(s, session[s].kind, next, session[s].conditions \cup found, session[s].missing)
  <2>1. found \in SUBSET AutomaticKey
    OBVIOUS
  <2> HIDE DEF found
  <2>2. Collect(s, statement, found, next)
    BY DEF found
  <2> QED
    BY <2>1, <2>2, Collected
<1>2. /\ UNCHANGED evidence /\ open' = open /\ seenTrue' = seenTrue /\ seenFalse' = seenFalse
      /\ session[s].next = statement
  BY DEF Collect, history
<1>3. CallInv(s) /\ session[s].kind = kind
  BY <1>2 DEF CauseInv, Running
<1>4. /\ session'[s].kind = kind /\ session'[s].next = next
      /\ session'[s].conditions = session[s].conditions \cup found
      /\ session'[s].missing = session[s].missing
  BY <1>1, <1>3 DEF Steps, Is
<1>5. Condition' = Condition
  BY <1>2, ConditionStays
<1>6. CallInv(s)'
  <2>1. OfKind(session'[s])
    BY <1>4 DEF OfKind
  <2>2. Condition' \subseteq seenTrue'[s] /\ Key \ Condition' \subseteq seenFalse'[s]
    BY <1>2, <1>3, <1>5 DEF CallInv
  <2>3. session'[s].conditions \subseteq seenTrue'[s] \cap Managed(kind)
    BY <1>2, <1>3, <1>4 DEF CallInv
  <2>4. session'[s].missing \subseteq session'[s].conditions
    BY <1>3, <1>4 DEF CallInv
  <2>5. LookedFor(next, kind) \ session'[s].conditions \subseteq seenFalse'[s]
    <3>1. LookedFor(statement, kind) \ session[s].conditions \subseteq seenFalse[s]
      BY <1>2, <1>3 DEF CallInv
    <3>2. keys \ found \subseteq seenFalse[s]
      BY <1>3, ManagedKeys DEF CallInv
    <3> QED
      BY <1>2, <1>4, <3>1, <3>2
  <2> QED
    BY <1>4, <2>1, <2>2, <2>3, <2>4, <2>5 DEF CallInv
<1>7. Frame(s)
  BY <1>1, <1>2 DEF Frame, Steps
<1>8. HistoryOK'
  BY <1>1, <1>2 DEF HistoryOK
<1> QED
  BY <1>6, <1>7, <1>8, FrameStep

LEMMA CollectorsStep ==
  ASSUME HistoryOK, CauseInv, NEW s \in Session,
         CollectFailures(s) \/ CollectSla(s) \/ CollectDq(s) \/ CollectReconciliation(s)
  PROVE  HistoryOK' /\ CauseInv'
<1>1. CASE CollectFailures(s)
  <2>1. Collect(s, "failures", Condition \cap FailureKey, "sla")
    BY <1>1, ConditionsByType DEF CollectFailures
  <2>2. CallInv(s) => session[s].kind = "domain"
    BY <2>1 DEF CallInv, OfKind, Collect
  <2>3. FailureKey \subseteq Managed("domain") /\ FailureKey \subseteq AutomaticKey
    BY ManagedKeys DEF AutomaticKey
  <2>4. LookedFor("sla", "domain") \subseteq LookedFor("failures", "domain") \cup FailureKey
    BY DEF LookedFor
  <2>5. OfKind([kind |-> "domain", next |-> "sla"])
    BY DEF OfKind
  <2>6. "failures" \in Statement \ {"idle"} /\ "sla" \in Statement
    BY DEF Statement
  <2> QED
    BY <2>1, <2>2, <2>3, <2>4, <2>5, <2>6, CollectStep
<1>2. CASE CollectSla(s)
  <2>1. Collect(s, "sla", Condition \cap SlaKey, "find")
    BY <1>2, ConditionsByType DEF CollectSla
  <2>2. CallInv(s) => session[s].kind = "domain"
    BY <2>1 DEF CallInv, OfKind, Collect
  <2>3. SlaKey \subseteq Managed("domain") /\ SlaKey \subseteq AutomaticKey
    BY ManagedKeys DEF AutomaticKey
  <2>4. LookedFor("find", "domain") \subseteq LookedFor("sla", "domain") \cup SlaKey
    BY ManagedKeys DEF LookedFor
  <2>5. OfKind([kind |-> "domain", next |-> "find"])
    BY DEF OfKind
  <2>6. "sla" \in Statement \ {"idle"} /\ "find" \in Statement
    BY DEF Statement
  <2> QED
    BY <2>1, <2>2, <2>3, <2>4, <2>5, <2>6, CollectStep
<1>3. CASE CollectDq(s)
  <2>1. Collect(s, "dq", Condition \cap DqKey, "reconciliation")
    BY <1>3, ConditionsByType DEF CollectDq
  <2>2. CallInv(s) => session[s].kind = "quality"
    BY <2>1 DEF CallInv, OfKind, Collect
  <2>3. DqKey \subseteq Managed("quality") /\ DqKey \subseteq AutomaticKey
    BY ManagedKeys DEF AutomaticKey
  <2>4. LookedFor("reconciliation", "quality") \subseteq LookedFor("dq", "quality") \cup DqKey
    BY DEF LookedFor
  <2>5. OfKind([kind |-> "quality", next |-> "reconciliation"])
    BY DEF OfKind
  <2>6. "dq" \in Statement \ {"idle"} /\ "reconciliation" \in Statement
    BY DEF Statement
  <2> QED
    BY <2>1, <2>2, <2>3, <2>4, <2>5, <2>6, CollectStep
<1>4. CASE CollectReconciliation(s)
  <2>1. Collect(s, "reconciliation", Condition \cap ReconKey, "find")
    BY <1>4, ConditionsByType DEF CollectReconciliation
  <2>2. CallInv(s) => session[s].kind = "quality"
    BY <2>1 DEF CallInv, OfKind, Collect
  <2>3. ReconKey \subseteq Managed("quality") /\ ReconKey \subseteq AutomaticKey
    BY ManagedKeys DEF AutomaticKey
  <2>4. LookedFor("find", "quality") \subseteq LookedFor("reconciliation", "quality") \cup ReconKey
    BY ManagedKeys DEF LookedFor
  <2>5. OfKind([kind |-> "quality", next |-> "find"])
    BY DEF OfKind
  <2>6. "reconciliation" \in Statement \ {"idle"} /\ "find" \in Statement
    BY DEF Statement
  <2> QED
    BY <2>1, <2>2, <2>3, <2>4, <2>5, <2>6, CollectStep
<1> QED
  BY <1>1, <1>2, <1>3, <1>4

\* A call begins with what is there.
LEMMA StartStep ==
  ASSUME HistoryOK, CauseInv, NEW s \in Session, StartDomain(s) \/ StartQuality(s)
  PROVE  HistoryOK' /\ CauseInv'
<1>1. PICK kind \in Kind, statement \in {"failures", "dq"} :
        /\ Start(s, kind, statement)
        /\ OfKind(Begun(kind, statement))
  <2>0. OfKind(Begun("domain", "failures")) /\ OfKind(Begun("quality", "dq"))
    BY BegunIs DEF OfKind, Is, Kind, Statement
  <2>1. CASE StartDomain(s)
    <3>1. Start(s, "domain", "failures") /\ "domain" \in Kind
      BY <2>1 DEF StartDomain, Kind
    <3> QED
      BY <2>0, <3>1
  <2>2. CASE StartQuality(s)
    <3>1. Start(s, "quality", "dq") /\ "quality" \in Kind
      BY <2>2 DEF StartQuality, Kind
    <3> QED
      BY <2>0, <3>1
  <2> QED
    BY <2>1, <2>2
<1>2. session' \in [Session -> Call] /\ Steps(s, kind, statement, {}, {})
  <2>1. statement \in Statement
    BY DEF Statement
  <2> QED
    BY <1>1, <2>1, Started
<1>3. /\ UNCHANGED evidence /\ open' = open
      /\ seenTrue' = [seenTrue EXCEPT ![s] = Condition]
      /\ seenFalse' = [seenFalse EXCEPT ![s] = Key \ Condition]
  BY <1>1 DEF Start
<1>4. Condition' = Condition /\ Condition \subseteq Key
  BY <1>3, ConditionStays, ConditionsByType, ManagedKeys
<1>5. /\ seenTrue' \in [Session -> SUBSET Key] /\ seenFalse' \in [Session -> SUBSET Key]
      /\ seenTrue'[s] = Condition /\ seenFalse'[s] = Key \ Condition
      /\ \A t \in Session : t # s => seenTrue'[t] = seenTrue[t] /\ seenFalse'[t] = seenFalse[t]
  BY <1>3, <1>4 DEF HistoryOK
<1>6. CallInv(s)'
  <2>1. /\ session'[s].kind = kind /\ session'[s].next = statement
        /\ session'[s].conditions = {} /\ session'[s].missing = {}
    BY <1>2 DEF Steps, Is
  <2>2. OfKind(session'[s])
    <3>1. Begun(kind, statement).kind = kind /\ Begun(kind, statement).next = statement
      BY BegunIs DEF Is, Statement
    <3> QED
      BY <1>1, <2>1, <3>1 DEF OfKind
  <2>3. LookedFor(session'[s].next, session'[s].kind) = {}
    BY <2>1 DEF LookedFor
  <2> QED
    BY <1>4, <1>5, <2>1, <2>2, <2>3 DEF CallInv
<1>7. Frame(s)
  BY <1>2, <1>3, <1>5 DEF Frame, Steps
<1>8. HistoryOK'
  BY <1>2, <1>3, <1>5 DEF HistoryOK
<1> QED
  BY <1>6, <1>7, <1>8, FrameStep

\* The rows that an evaluation inserts or resolves are counted.
LEMMA ResolvedCounts ==
  ASSUME HistoryOK, NEW s \in Session
  PROVE  ResolvedBy(s) \in [Key -> Nat]
  BY DEF HistoryOK, ResolvedBy

\* The statements after the last condition has been collected.
LEMMA WriteStep ==
  ASSUME HistoryOK, CauseInv, NEW s \in Session,
         FindMissing(s) \/ OpenMissing(s) \/ ResolveDomain(s)
  PROVE  HistoryOK' /\ CauseInv'
<1>1. PICK next \in {"insert", "resolve", "refresh"}, missing \in SUBSET session[s].conditions :
        /\ session' \in [Session -> Call]
        /\ Steps(s, session[s].kind, next, session[s].conditions, missing)
        /\ next = "refresh" => session[s].kind = "domain"
        /\ session[s].next \in {"find", "insert", "resolve"}
  <2>1. CASE FindMissing(s)
    <3> DEFINE missing == {k \in session[s].conditions : open[k] = 0}
    <3>1. /\ session' \in [Session -> Call]
          /\ Steps(s, session[s].kind, "insert", session[s].conditions, missing)
          /\ session[s].next = "find" /\ missing \in SUBSET session[s].conditions
      BY <2>1, Found DEF FindMissing
    <3> HIDE DEF missing
    <3> QED
      BY <3>1
  <2>2. CASE OpenMissing(s)
    <3>1. /\ session' \in [Session -> Call]
          /\ Steps(s, session[s].kind, "resolve", session[s].conditions, {})
          /\ session[s].next = "insert" /\ {} \in SUBSET session[s].conditions
      BY <2>2, Opened DEF OpenMissing
    <3> QED
      BY <3>1
  <2>3. CASE ResolveDomain(s)
    <3>1. session[s].missing \subseteq session[s].conditions
      BY <2>3 DEF ResolveDomain, CauseInv, CallInv, Running
    <3> QED
      BY <2>3, <3>1, Resolved DEF ResolveDomain
  <2> QED
    BY <2>1, <2>2, <2>3
<1>2. /\ UNCHANGED evidence /\ seenTrue' = seenTrue /\ seenFalse' = seenFalse
      /\ open' \in [Key -> Nat]
  <2>1. CASE FindMissing(s)
    BY <2>1 DEF FindMissing, history, HistoryOK
  <2>2. CASE OpenMissing(s)
    BY <2>2 DEF OpenMissing, history, HistoryOK
  <2>3. CASE ResolveDomain(s)
    BY <2>3, ResolvedCounts DEF ResolveDomain, history
  <2> QED
    BY <2>1, <2>2, <2>3
<1>3. CallInv(s)
  BY <1>1 DEF CauseInv, Running
<1>4. /\ session'[s].kind = session[s].kind /\ session'[s].next = next
      /\ session'[s].conditions = session[s].conditions /\ session'[s].missing = missing
  BY <1>1 DEF Steps, Is
<1>5. CallInv(s)'
  <2>1. OfKind(session'[s])
    BY <1>1, <1>3, <1>4 DEF CallInv, OfKind
  <2>2. LookedFor(session'[s].next, session'[s].kind) = LookedFor(session[s].next, session[s].kind)
    BY <1>1, <1>4 DEF LookedFor
  <2>3. Condition' = Condition
    BY <1>2, ConditionStays
  <2> QED
    BY <1>2, <1>3, <1>4, <2>1, <2>2, <2>3 DEF CallInv
<1>6. Frame(s)
  BY <1>1, <1>2 DEF Frame, Steps
<1>7. HistoryOK'
  BY <1>1, <1>2 DEF HistoryOK
<1> QED
  BY <1>5, <1>6, <1>7, FrameStep

\* A call that ends knows nothing.
LEMMA EndStep ==
  ASSUME HistoryOK, CauseInv, NEW s \in Session,
         ResolveQuality(s) \/ RefreshHealth(s) \/ Abort(s)
  PROVE  HistoryOK' /\ CauseInv'
<1>1. /\ session' = [session EXCEPT ![s] = Idle] /\ UNCHANGED evidence /\ Forget(s)
  BY DEF ResolveQuality, RefreshHealth, End, Abort
<1>2. /\ session' \in [Session -> Call] /\ session'[s] = Idle
      /\ \A t \in Session : t # s => session'[t] = session[t]
  BY <1>1, IdleIs, Replaced
<1>3. /\ seenTrue' \in [Session -> SUBSET Key] /\ seenFalse' \in [Session -> SUBSET Key]
      /\ \A t \in Session : t # s => seenTrue'[t] = seenTrue[t] /\ seenFalse'[t] = seenFalse[t]
  BY <1>1 DEF Forget, HistoryOK
<1>4. open' \in [Key -> Nat]
  <2>1. CASE ResolveQuality(s)
    BY <2>1, ResolvedCounts DEF ResolveQuality
  <2>2. CASE RefreshHealth(s) \/ Abort(s)
    BY <2>2 DEF RefreshHealth, Abort, HistoryOK
  <2> QED
    BY <2>1, <2>2
<1>5. ~Running(s)'
  BY <1>2, IdleIs DEF Running
<1>6. Frame(s)
  BY <1>1, <1>2, <1>3 DEF Frame
<1>7. HistoryOK'
  BY <1>2, <1>3, <1>4 DEF HistoryOK
<1> QED
  BY <1>5, <1>6, <1>7, FrameStep

\* Every step keeps what the calls know.
LEMMA CauseStep ==
  ASSUME HistoryOK, CauseInv, [Next]_vars
  PROVE  HistoryOK' /\ CauseInv'
<1>1. CASE EvidenceChanges
  <2>1. Change
    BY <1>1 DEF EvidenceChanges, BeginIngestion, CompleteIngestion, FailIngestion, EndIngestion,
       StampSilver, StampGold, Measure, RecordResult, SetLifecycle, SetActive
  <2> QED
    BY <2>1, ChangeStep
<1>2. ASSUME NEW s \in Session, Evaluate(s)
      PROVE  HistoryOK' /\ CauseInv'
  BY <1>2, StartStep, CollectorsStep, WriteStep, EndStep DEF Evaluate
<1>3. ASSUME UNCHANGED <<evidence, session, seenTrue, seenFalse>>, open' \in [Key -> Nat]
      PROVE  HistoryOK' /\ CauseInv'
  <2>1. HistoryOK'
    BY <1>3 DEF HistoryOK
  <2>2. \A s \in Session : Running(s)' => CallInv(s)'
    BY <1>3, CallStays DEF CauseInv
  <2> QED
    BY <2>1, <2>2 DEF CauseInv
<1>4. CASE UNCHANGED vars
  BY <1>3, <1>4 DEF vars, history, HistoryOK
<1>5. ASSUME NEW s \in Task, ResumeTask(s)
      PROVE  HistoryOK' /\ CauseInv'
  BY <1>3, <1>5 DEF ResumeTask, history, HistoryOK
<1>6. ASSUME NEW k \in ManualKey, OpenInvestigation(k) \/ CloseInvestigation(k)
      PROVE  HistoryOK' /\ CauseInv'
  <2>1. open' \in [Key -> Nat]
    BY <1>6 DEF OpenInvestigation, CloseInvestigation, HistoryOK
  <2> QED
    BY <1>3, <1>6, <2>1 DEF OpenInvestigation, CloseInvestigation, history
<1> QED
  BY <1>1, <1>2, <1>4, <1>5, <1>6 DEF Next

-----------------------------------------------------------------------------
\* Opened and resolved for cause

\* A statement opens what its call holds, and resolves what it has seen gone.
LEMMA StatementJustified ==
  ASSUME HistoryOK, CauseInv, NEW s \in Session, Evaluate(s)
  PROVE  JustifiedStep(s)
<1>1. CASE open' = open
  BY <1>1 DEF JustifiedStep, HistoryOK
<1>2. CASE OpenMissing(s)
  <2>1. CallInv(s)
    BY <1>2 DEF OpenMissing, CauseInv, Running
  <2>2. session[s].missing \subseteq seenTrue[s] \cap Managed(session[s].kind)
    BY <2>1 DEF CallInv
  <2>3. \A k \in Key : open'[k] = IF k \in session[s].missing THEN open[k] + 1 ELSE open[k]
    BY <1>2 DEF OpenMissing
  <2> QED
    BY <2>2, <2>3 DEF JustifiedStep, HistoryOK
<1>3. CASE ResolveDomain(s) \/ ResolveQuality(s)
  <2>1. CallInv(s) /\ session[s].next = "resolve" /\ open' = ResolvedBy(s)
    BY <1>3 DEF ResolveDomain, ResolveQuality, CauseInv, Running
  <2>2. Managed(session[s].kind) \ session[s].conditions \subseteq seenFalse[s]
    BY <2>1 DEF CallInv, LookedFor
  <2>3. \A k \in Key : open'[k] = IF k \in Recovered(s) THEN 0 ELSE open[k]
    BY <2>1 DEF ResolvedBy
  <2> QED
    BY <2>2, <2>3 DEF JustifiedStep, HistoryOK, Recovered
<1> QED
  BY <1>1, <1>2, <1>3 DEF Evaluate, StartDomain, StartQuality, Start, CollectFailures, CollectSla,
     CollectDq, CollectReconciliation, Collect, FindMissing, RefreshHealth, Abort

\* A session takes a step of its own only.
LEMMA OwnStep ==
  ASSUME HistoryOK, CauseInv, Next, NEW s \in Session, session'[s] # session[s]
  PROVE  Evaluate(s)
<1>1. ~EvidenceChanges
  BY DEF EvidenceChanges, BeginIngestion, CompleteIngestion, FailIngestion, EndIngestion,
     StampSilver, StampGold, Measure, RecordResult, SetLifecycle, SetActive, Change
<1>2. \A k \in ManualKey : ~OpenInvestigation(k) /\ ~CloseInvestigation(k)
  BY DEF OpenInvestigation, CloseInvestigation
<1>3. \A t \in Task : ~ResumeTask(t)
  BY DEF ResumeTask
<1>4. ASSUME NEW t \in Session, Evaluate(t), t # s
      PROVE  FALSE
  BY <1>4 DEF Evaluate, StartDomain, StartQuality, Start, CollectFailures, CollectSla, CollectDq,
     CollectReconciliation, Collect, FindMissing, OpenMissing, ResolveDomain, ResolveQuality,
     RefreshHealth, End, Abort, HistoryOK
<1> QED
  BY <1>1, <1>2, <1>3, <1>4 DEF Next

\* For any evidence, sessions and calls: an incident is opened only for a condition
\* that held, and resolved only for one that had ceased, since its evaluation began.
THEOREM IncidentsHaveCause == Spec => OpenedAndResolvedForCause
<1>1. Init => HistoryOK /\ CauseInv
  <2> SUFFICES ASSUME Init
               PROVE  HistoryOK /\ CauseInv
    OBVIOUS
  <2>1. session \in [Session -> Call] /\ \A s \in Session : session[s].next = "idle"
    BY IdleIs DEF Init
  <2> QED
    BY <2>1 DEF Init, HistoryOK, CauseInv, Running
<1>2. HistoryOK /\ CauseInv /\ [Next]_vars => (HistoryOK /\ CauseInv)'
  BY CauseStep
<1>3. HistoryOK /\ CauseInv /\ [Next]_vars =>
        [\A s \in Session : session[s] # session'[s] => JustifiedStep(s)]_vars
  BY OwnStep, StatementJustified
<1> QED
  BY <1>1, <1>2, <1>3, PTL DEF Spec, OpenedAndResolvedForCause

-----------------------------------------------------------------------------
\* How many incidents of a key may be open

\* A running call is one that its session may make; no other holds anything.
CallsInv == \A s \in Session :
  IF Running(s) THEN session[s].kind \in Calls[s] ELSE session[s].missing = {}

\* Calls that are about to insert a key have no open incident of it yet.
Waiting(k) == {s \in Session : k \in session[s].missing}
Spent(kind, k) == Evaluators(kind) \ Waiting(k)
BoundInv ==
  \A kind \in Kind : \A k \in Managed(kind) : open[k] <= Cardinality(Spent(kind, k))

LEMMA SpentFinite ==
  ASSUME NEW kind, NEW k
  PROVE  /\ IsFiniteSet(Evaluators(kind)) /\ IsFiniteSet(Spent(kind, k))
         /\ Cardinality(Spent(kind, k)) \in Nat
         /\ Cardinality(Spent(kind, k)) <= Cardinality(Evaluators(kind))
<1>1. Evaluators(kind) \subseteq Session /\ Spent(kind, k) \subseteq Evaluators(kind)
  BY DEF Evaluators, Spent
<1> QED
  BY <1>1, SessionAssumption, FS_Subset, FS_CardinalityType

LEMMA NextSpentFinite ==
  ASSUME NEW kind, NEW k
  PROVE  IsFiniteSet(Evaluators(kind) \ Waiting(k)')
<1>1. Evaluators(kind) \subseteq Session /\ Evaluators(kind) \ Waiting(k)' \subseteq Evaluators(kind)
  BY DEF Evaluators
<1> QED
  BY <1>1, SessionAssumption, FS_Subset

\* If neither the open incidents nor the waiting calls of a key become more, its
\* bound stays.
LEMMA BoundStays ==
  ASSUME HistoryOK, HistoryOK', BoundInv, NEW kind \in Kind, NEW k \in Managed(kind),
         open'[k] <= open[k], Waiting(k)' \subseteq Waiting(k)
  PROVE  open'[k] <= Cardinality(Spent(kind, k)')
<1> DEFINE before == Evaluators(kind) \ Waiting(k)
           after == Evaluators(kind) \ Waiting(k)'
<1>1. before \subseteq after
  OBVIOUS
<1>2. IsFiniteSet(after) /\ IsFiniteSet(before)
  BY NextSpentFinite, SpentFinite DEF Spent
<1> HIDE DEF before, after
<1>3. Cardinality(before) <= Cardinality(after)
      /\ Cardinality(before) \in Nat /\ Cardinality(after) \in Nat
  BY <1>1, <1>2, FS_Subset, FS_CardinalityType
<1>4. open[k] <= Cardinality(before)
  BY DEF BoundInv, Spent, before
<1>5. k \in Key /\ open[k] \in Nat /\ open'[k] \in Nat
  BY DEF Managed, HistoryOK
<1>6. open'[k] <= Cardinality(after)
  BY <1>3, <1>4, <1>5
<1>7. Spent(kind, k)' = after
  BY DEF Spent, after, Evaluators
<1> QED
  BY <1>6, <1>7

\* Who waits for a key has a call of its kind, which it may make.
LEMMA WaitingEvaluates ==
  ASSUME CauseInv, CallsInv, NEW kind \in Kind, NEW k \in Managed(kind),
         NEW s \in Session, k \in session[s].missing
  PROVE  s \in Evaluators(kind)
<1>1. Running(s) /\ session[s].kind \in Calls[s]
  BY DEF CallsInv
<1>2. k \in Managed(session[s].kind) /\ session[s].kind \in Kind
  BY <1>1 DEF CauseInv, CallInv, OfKind, Kind
<1>3. session[s].kind = kind
  BY <1>2, ManagedKeys, KeysDiffer DEF Kind
<1> QED
  BY <1>1, <1>3 DEF Evaluators

\* The steps that only end calls, or leave what they are about to insert.
Lets(t) == Running(t)' => /\ session'[t].missing \subseteq session[t].missing
                          /\ session'[t].kind \in Calls[t]
LEMMA LettingStep ==
  ASSUME HistoryOK, HistoryOK', BoundInv, CallsInv,
         \A t \in Session : Lets(t) /\ (~Running(t)' => session'[t].missing = {}),
         \A kind \in Kind : \A k \in Managed(kind) : open'[k] <= open[k]
  PROVE  BoundInv' /\ CallsInv'
<1>1. CallsInv'
  BY DEF CallsInv, Lets
<1>2. ASSUME NEW kind \in Kind, NEW k \in Managed(kind)
      PROVE  open'[k] <= Cardinality(Spent(kind, k)')
  <2>1. Waiting(k)' \subseteq Waiting(k)
    BY DEF Waiting, Lets
  <2> QED
    BY <2>1, BoundStays
<1> QED
  BY <1>1, <1>2 DEF BoundInv
LEMMA ResolvedLess ==
  ASSUME HistoryOK, NEW s \in Session, NEW k \in Key
  PROVE  ResolvedBy(s)[k] <= open[k]
  BY DEF HistoryOK, ResolvedBy

\* The statements of a call, but for those of its INSERT.
LEMMA BoundOtherStatements ==
  ASSUME HistoryOK, HistoryOK', CauseInv, BoundInv, CallsInv, NEW s \in Session, Evaluate(s),
         ~FindMissing(s), ~OpenMissing(s)
  PROVE  BoundInv' /\ CallsInv'
<1>1. \A kind \in Kind : \A k \in Managed(kind) : open'[k] <= open[k]
  <2> SUFFICES ASSUME NEW kind \in Kind, NEW k \in Managed(kind)
               PROVE  open'[k] <= open[k]
    OBVIOUS
  <2>1. k \in Key /\ open[k] \in Nat
    BY DEF Managed, HistoryOK
  <2>2. CASE open' = open
    BY <2>1, <2>2
  <2>3. CASE open' = ResolvedBy(s)
    BY <2>1, <2>3, ResolvedLess
  <2> QED
    BY <2>2, <2>3 DEF Evaluate, StartDomain, StartQuality, Start, CollectFailures, CollectSla,
       CollectDq, CollectReconciliation, Collect, ResolveDomain, ResolveQuality, RefreshHealth, Abort
<1>2. /\ Lets(s) /\ (~Running(s)' => session'[s].missing = {})
      /\ \A t \in Session : t # s => session'[t] = session[t]
  <2>1. CASE StartDomain(s) \/ StartQuality(s)
    <3>1. PICK kind \in Kind, statement \in Statement : Start(s, kind, statement)
      <4>1. "domain" \in Kind /\ "quality" \in Kind /\ "failures" \in Statement /\ "dq" \in Statement
        BY DEF Kind, Statement
      <4> QED
        BY <2>1, <4>1 DEF StartDomain, StartQuality
    <3>2. Steps(s, kind, statement, {}, {}) /\ kind \in Calls[s]
      BY <3>1, Started DEF Start
    <3> QED
      BY <3>2 DEF Steps, Is, Lets
  <2>2. ASSUME NEW statement, NEW next \in Statement \ {"idle"}, statement # "idle",
               NEW conditions \in SUBSET AutomaticKey,
               Collect(s, statement, conditions, next)
        PROVE  /\ Lets(s) /\ (~Running(s)' => session'[s].missing = {})
               /\ \A t \in Session : t # s => session'[t] = session[t]
    <3>1. Steps(s, session[s].kind, next, session[s].conditions \cup conditions,
                session[s].missing)
      BY <2>2, Collected
    <3>2. session[s].kind \in Calls[s]
      BY <2>2 DEF Collect, CallsInv, Running
    <3> QED
      BY <3>1, <3>2 DEF Steps, Is, Lets, Running
  <2>3. CASE CollectFailures(s) \/ CollectSla(s) \/ CollectDq(s) \/ CollectReconciliation(s)
    <3>1. /\ FailureConditions \in SUBSET AutomaticKey /\ SlaConditions \in SUBSET AutomaticKey
          /\ DqConditions \in SUBSET AutomaticKey /\ ReconConditions \in SUBSET AutomaticKey
      BY ConditionsByType
    <3>2. {"sla", "find", "reconciliation"} \subseteq Statement \ {"idle"}
      BY DEF Statement
    <3> QED
      BY <2>2, <2>3, <3>1, <3>2 DEF CollectFailures, CollectSla, CollectDq, CollectReconciliation
  <2>4. CASE ResolveDomain(s)
    <3>1. Steps(s, session[s].kind, "refresh", session[s].conditions, session[s].missing)
      BY <2>4, Resolved
    <3>2. session[s].kind \in Calls[s]
      BY <2>4 DEF ResolveDomain, CallsInv, Running
    <3> QED
      BY <3>1, <3>2 DEF Steps, Is, Lets, Running
  <2>5. CASE ResolveQuality(s) \/ RefreshHealth(s) \/ Abort(s)
    <3>1. session' = [session EXCEPT ![s] = Idle]
      BY <2>5 DEF ResolveQuality, RefreshHealth, End, Abort
    <3>2. session'[s] = Idle /\ \A t \in Session : t # s => session'[t] = session[t]
      BY <3>1, IdleIs, Replaced
    <3>3. Idle.missing = {} /\ Idle.next = "idle"
      BY DEF Idle
    <3> QED
      BY <3>2, <3>3 DEF Lets, Running
  <2> QED
    BY <2>1, <2>3, <2>4, <2>5 DEF Evaluate
<1>3. ASSUME NEW t \in Session, t # s
      PROVE  Lets(t) /\ (~Running(t)' => session'[t].missing = {})
  BY <1>2, <1>3 DEF Lets, CallsInv, Running
<1> QED
  BY <1>1, <1>2, <1>3, LettingStep

\* The read of the INSERT lets a call wait for keys without an open incident only.
LEMMA BoundFind ==
  ASSUME HistoryOK, HistoryOK', CauseInv, BoundInv, CallsInv, NEW s \in Session, FindMissing(s)
  PROVE  BoundInv' /\ CallsInv'
<1>1. Steps(s, session[s].kind, "insert", session[s].conditions,
            {k \in session[s].conditions : open[k] = 0})
  BY Found
<1>2. /\ session'[s].kind = session[s].kind /\ session'[s].next = "insert"
      /\ session'[s].missing = {k \in session[s].conditions : open[k] = 0}
      /\ \A t \in Session : t # s => session'[t] = session[t]
  BY <1>1 DEF Steps, Is
<1>3. open' = open /\ session[s].next = "find"
  BY DEF FindMissing
<1>4. CallsInv'
  BY <1>2, <1>3 DEF CallsInv, Running
<1>5. ASSUME NEW kind \in Kind, NEW k \in Managed(kind)
      PROVE  open'[k] <= Cardinality(Spent(kind, k)')
  <2>1. k \in Key /\ open[k] \in Nat
    BY DEF Managed, HistoryOK
  <2>2. CASE open[k] = 0
    <3>1. Cardinality(Evaluators(kind) \ Waiting(k)') \in Nat
      BY NextSpentFinite, FS_CardinalityType
    <3> QED
      BY <1>3, <2>2, <3>1 DEF Spent, Evaluators
  <2>3. CASE open[k] # 0
    <3>1. Waiting(k)' \subseteq Waiting(k)
      BY <1>2, <2>3 DEF Waiting
    <3>2. open'[k] <= open[k]
      BY <1>3, <2>1
    <3> QED
      BY <3>1, <3>2, BoundStays
  <2> QED
    BY <2>2, <2>3
<1> QED
  BY <1>4, <1>5 DEF BoundInv

\* Its commit opens one incident of a key and ends one wait for it.
LEMMA BoundOpen ==
  ASSUME HistoryOK, HistoryOK', CauseInv, BoundInv, CallsInv, NEW s \in Session, OpenMissing(s)
  PROVE  BoundInv' /\ CallsInv'
<1>1. Steps(s, session[s].kind, "resolve", session[s].conditions, {})
  BY Opened
<1>2. /\ session'[s].kind = session[s].kind /\ session'[s].next = "resolve"
      /\ session'[s].missing = {}
      /\ \A t \in Session : t # s => session'[t] = session[t]
  BY <1>1 DEF Steps, Is
<1>3. /\ session[s].next = "insert"
      /\ \A k \in Key : open'[k] = IF k \in session[s].missing THEN open[k] + 1 ELSE open[k]
  BY DEF OpenMissing
<1>4. CallsInv'
  BY <1>2, <1>3 DEF CallsInv, Running
<1>5. ASSUME NEW kind \in Kind, NEW k \in Managed(kind)
      PROVE  open'[k] <= Cardinality(Spent(kind, k)')
  <2>1. k \in Key /\ open[k] \in Nat
    BY DEF Managed, HistoryOK
  <2>2. CASE k \notin session[s].missing
    <3>1. Waiting(k)' \subseteq Waiting(k)
      BY <1>2 DEF Waiting
    <3>2. open'[k] <= open[k]
      BY <1>3, <2>1, <2>2
    <3> QED
      BY <3>1, <3>2, BoundStays
  <2>3. CASE k \in session[s].missing
    <3> DEFINE before == Spent(kind, k)
               after == Evaluators(kind) \ Waiting(k)'
    <3>1. s \in Evaluators(kind)
      BY <2>3, WaitingEvaluates
    <3>2. Waiting(k)' = Waiting(k) \ {s}
      BY <1>2 DEF Waiting
    <3>3. s \in Waiting(k)
      BY <2>3 DEF Waiting
    <3>4. after = before \cup {s} /\ s \notin before
      BY <3>1, <3>2, <3>3 DEF Spent
    <3>5. IsFiniteSet(before) /\ Cardinality(before) \in Nat
      BY SpentFinite
    <3> HIDE DEF before, after
    <3>6. Cardinality(after) = Cardinality(before) + 1
      BY <3>4, <3>5, FS_AddElement
    <3>7. open[k] <= Cardinality(before)
      BY DEF BoundInv, before
    <3>8. open'[k] = open[k] + 1
      BY <1>3, <2>1, <2>3
    <3>9. open'[k] <= Cardinality(after)
      BY <2>1, <3>5, <3>6, <3>7, <3>8
    <3> QED
      BY <3>9 DEF after, Spent, Evaluators
  <2> QED
    BY <2>2, <2>3
<1> QED
  BY <1>4, <1>5 DEF BoundInv

\* A step that touches no call and no automatic incident.
LEMMA BoundUntouched ==
  ASSUME HistoryOK, HistoryOK', BoundInv, CallsInv, session' = session,
         \A kind \in Kind : \A k \in Managed(kind) : open'[k] = open[k]
  PROVE  BoundInv' /\ CallsInv'
<1>1. \A kind \in Kind : \A k \in Managed(kind) : open'[k] <= open[k]
  BY DEF Managed, HistoryOK
<1>2. \A t \in Session : Lets(t) /\ (~Running(t)' => session'[t].missing = {})
  BY DEF Lets, CallsInv, Running
<1> QED
  BY <1>1, <1>2, LettingStep

\* Every step keeps the bound.
LEMMA BoundStep ==
  ASSUME HistoryOK, HistoryOK', CauseInv, BoundInv, CallsInv, [Next]_vars
  PROVE  BoundInv' /\ CallsInv'
<1>1. CASE EvidenceChanges
  <2>1. session' = session /\ open' = open
    BY <1>1 DEF EvidenceChanges, BeginIngestion, CompleteIngestion, FailIngestion, EndIngestion,
       StampSilver, StampGold, Measure, RecordResult, SetLifecycle, SetActive, Change
  <2> QED
    BY <2>1, BoundUntouched
<1>2. ASSUME NEW s \in Session, Evaluate(s)
      PROVE  BoundInv' /\ CallsInv'
  BY <1>2, BoundOtherStatements, BoundFind, BoundOpen
<1>3. CASE UNCHANGED vars
  BY <1>3, BoundUntouched DEF vars
<1>4. ASSUME NEW s \in Task, ResumeTask(s)
      PROVE  BoundInv' /\ CallsInv'
  BY <1>4, BoundUntouched DEF ResumeTask
<1>5. ASSUME NEW k \in ManualKey, OpenInvestigation(k) \/ CloseInvestigation(k)
      PROVE  BoundInv' /\ CallsInv'
  <2>1. session' = session
    BY <1>5 DEF OpenInvestigation, CloseInvestigation
  <2>2. PICK n \in {0, 1} : open' = [open EXCEPT ![k] = n]
    BY <1>5 DEF OpenInvestigation, CloseInvestigation
  <2>3. \A kind \in Kind : k \notin Managed(kind)
    BY KeyTypes, ManagedKeys DEF Kind
  <2>4. \A kind \in Kind : \A other \in Managed(kind) : open'[other] = open[other]
    BY <2>2, <2>3 DEF HistoryOK, Managed
  <2> QED
    BY <2>1, <2>4, BoundUntouched
<1> QED
  BY <1>1, <1>2, <1>3, <1>4, <1>5 DEF Next

\* No key has more open incidents than evaluations of its kind can run at once, for
\* any evidence, sessions and calls.
THEOREM OpenIncidentsBounded == Spec => []OpenBounded
<1>1. Init => HistoryOK /\ CauseInv /\ BoundInv /\ CallsInv
  <2> SUFFICES ASSUME Init
               PROVE  HistoryOK /\ CauseInv /\ BoundInv /\ CallsInv
    OBVIOUS
  <2>1. /\ session \in [Session -> Call]
        /\ \A s \in Session : session[s].next = "idle" /\ session[s].missing = {}
    <3>1. session = [s \in Session |-> Idle] /\ Idle.missing = {}
      BY DEF Init, Idle
    <3> QED
      BY <3>1, IdleIs
  <2>2. HistoryOK /\ CauseInv /\ CallsInv
    BY <2>1 DEF Init, HistoryOK, CauseInv, CallsInv, Running
  <2>3. ASSUME NEW kind \in Kind, NEW k \in Managed(kind)
        PROVE  open[k] <= Cardinality(Spent(kind, k))
    <3>1. open[k] = 0
      BY DEF Init, Managed
    <3> QED
      BY <3>1, SpentFinite
  <2> QED
    BY <2>2, <2>3 DEF BoundInv
<1>2. HistoryOK /\ CauseInv /\ BoundInv /\ CallsInv /\ [Next]_vars
        => (HistoryOK /\ CauseInv /\ BoundInv /\ CallsInv)'
  BY CauseStep, BoundStep
<1>3. HistoryOK /\ BoundInv => OpenBounded
  <2> SUFFICES ASSUME HistoryOK, BoundInv, NEW kind \in Kind, NEW k \in Managed(kind)
               PROVE  open[k] <= Cardinality(Evaluators(kind))
    BY DEF OpenBounded
  <2>1. open[k] \in Nat /\ open[k] <= Cardinality(Spent(kind, k))
    BY DEF Managed, HistoryOK, BoundInv
  <2>2. Cardinality(Evaluators(kind)) \in Nat
    BY SpentFinite, FS_CardinalityType
  <2> QED
    BY <2>1, <2>2, SpentFinite
<1> QED
  BY <1>1, <1>2, <1>3, PTL DEF Spec

-----------------------------------------------------------------------------
\* What undisturbed evaluations have found and done

\* The open incidents of a kind are those of the conditions that hold.
Agrees(kind) == \A k \in Managed(kind) : open[k] > 0 <=> k \in Condition

\* A call during which no evidence changed and none of its kind ran holds exactly the
\* conditions it has looked for, and its INSERT and UPDATE do what they say.
AloneCall(s) ==
  /\ Running(s) /\ session[s].kind \in Kind
  /\ \A t \in Session : t # s => session[t].kind # session[s].kind
  /\ session[s].conditions = Condition \cap LookedFor(session[s].next, session[s].kind)
  /\ session[s].next = "insert" =>
       session[s].missing = {k \in session[s].conditions : open[k] = 0}
  /\ session[s].next = "resolve" => \A k \in session[s].conditions : open[k] > 0
  /\ session[s].next = "refresh" => Agrees(session[s].kind)

\* While nothing has happened since such a call ended, its results stand.
SettledKind(kind) ==
  /\ kind \in Kind
  /\ \A t \in Session : session[t].kind # kind
  /\ Agrees(kind)
  /\ kind = "domain" => base = BaseStatus
RedInv ==
  /\ alone \subseteq Session
  /\ \A s \in alone : AloneCall(s)
  /\ \A kind \in settled : SettledKind(kind)

\* The snapshot is a function of the evidence.
LEMMA BaseStays ==
  ASSUME UNCHANGED evidence
  PROVE  BaseStatus' = BaseStatus
<1> USE DEF evidence
<1>1. Enabled' = Enabled
  BY DEF Enabled
<1>2. IngestionStatus' = IngestionStatus /\ SilverStatus' = SilverStatus
  BY DEF IngestionStatus, SilverStatus
<1>3. DataKnown' = DataKnown /\ SomeStageFailed' = SomeStageFailed
  BY <1>2 DEF DataKnown, SomeStageFailed
<1>4. \A stage \in SlaStage : SlaStatus(stage)' = SlaStatus(stage)
  BY <1>1, <1>3 DEF SlaStatus
<1>5. ViolatedStages' = ViolatedStages
  BY <1>4 DEF ViolatedStages
<1> QED
  BY <1>1, <1>3, <1>4, <1>5 DEF BaseStatus

\* A kind whose incidents are not touched agrees as before.
LEMMA AgreesStays ==
  ASSUME UNCHANGED evidence, NEW kind, \A k \in Managed(kind) : open'[k] = open[k]
  PROVE  Agrees(kind)' <=> Agrees(kind)
<1>1. Condition' = Condition
  BY ConditionStays
<1> QED
  BY <1>1 DEF Agrees, Managed, Key, AutomaticKey

\* A statement of a session leaves the calls of other sessions, the incidents of
\* other kinds, and no call of another's kind.
Apart(s) ==
  /\ UNCHANGED evidence
  /\ \A t \in Session : t # s => session'[t] = session[t]
  /\ alone' \subseteq alone \cup {s}
  /\ \A t \in alone' \ {s} : /\ session'[s].kind # session[t].kind
                            /\ \A k \in Managed(session[t].kind) : open'[k] = open[k]
LEMMA OthersAlone ==
  ASSUME HistoryOK, CauseInv, RedInv, NEW s \in Session, Apart(s), NEW t \in alone' \ {s}
  PROVE  AloneCall(t)'
<1>1. t \in alone /\ t \in Session /\ AloneCall(t) /\ session'[t] = session[t]
  BY DEF Apart, RedInv
<1>2. /\ \A k \in Managed(session[t].kind) : open'[k] = open[k]
      /\ session'[s].kind # session[t].kind
  BY DEF Apart
<1>3. Condition' = Condition
  BY ConditionStays DEF Apart
<1>4. PICK kind \in Kind : kind = session[t].kind /\ kind = session'[t].kind
  BY <1>1 DEF AloneCall
<1>5. session[t].conditions \subseteq Managed(kind) /\ \A k \in Managed(kind) : open'[k] = open[k]
  BY <1>1, <1>2, <1>4 DEF CauseInv, CallInv, AloneCall
<1>6. Agrees(kind)' <=> Agrees(kind)
  BY <1>5, AgreesStays DEF Apart
<1>7. \A u \in Session : u # t => session'[u].kind # kind
  BY <1>1, <1>2, <1>4 DEF Apart, AloneCall
<1>8. {k \in session[t].conditions : open'[k] = 0} = {k \in session[t].conditions : open[k] = 0}
  BY <1>5
<1>9. \A k \in session[t].conditions : open'[k] = open[k]
  BY <1>5
<1> QED
  <2> DEFINE call == session[t]
  <2>1. /\ call.next # "idle" /\ call.kind \in Kind
        /\ call.conditions = Condition \cap LookedFor(call.next, call.kind)
        /\ call.next = "insert" => call.missing = {k \in call.conditions : open[k] = 0}
        /\ call.next = "resolve" => \A k \in call.conditions : open[k] > 0
        /\ call.next = "refresh" => Agrees(kind)
    BY <1>1, <1>4 DEF AloneCall, Running
  <2>2. Agrees(call.kind)' <=> Agrees(kind)'
    BY <1>4
  <2>3. LookedFor(call.next, call.kind)' = LookedFor(call.next, call.kind)
    BY <1>1 DEF LookedFor, Managed, Key, AutomaticKey
  <2>4. /\ call'.next # "idle" /\ call'.kind \in Kind
        /\ call'.conditions = Condition' \cap LookedFor(call.next, call.kind)'
        /\ call'.next = "insert" => call'.missing = {k \in call'.conditions : open'[k] = 0}
        /\ call'.next = "resolve" => \A k \in call'.conditions : open'[k] > 0
        /\ call'.next = "refresh" => Agrees(call.kind)'
    BY <1>1, <1>3, <1>6, <1>8, <1>9, <2>1, <2>2, <2>3
  <2> QED
    BY <1>4, <1>7, <2>4 DEF AloneCall, Running

\* So does a kind that is settled, and is not that of the session.
LEMMA OthersSettled ==
  ASSUME RedInv, NEW s \in Session, UNCHANGED evidence,
         \A t \in Session : t # s => session'[t] = session[t],
         NEW kind \in settled, session'[s].kind # kind,
         \A k \in Managed(kind) : open'[k] = open[k],
         kind = "domain" => base' = base
  PROVE  SettledKind(kind)'
<1>1. SettledKind(kind)
  BY DEF RedInv
<1>2. Agrees(kind)'
  BY <1>1, AgreesStays DEF SettledKind
<1>3. BaseStatus' = BaseStatus
  BY BaseStays
<1> QED
  BY <1>1, <1>2, <1>3 DEF SettledKind

\* The call of a session after a statement of its own.
LEMMA OwnAlone ==
  ASSUME NEW s \in Session, NEW kind \in Kind, NEW next, NEW conditions, NEW missing,
         Steps(s, kind, next, conditions, missing), next # "idle", UNCHANGED evidence,
         \A t \in Session : t # s => session[t].kind # kind,
         conditions = Condition \cap LookedFor(next, kind),
         next = "insert" => missing = {k \in conditions : open'[k] = 0},
         next = "resolve" => \A k \in conditions : open'[k] > 0,
         next = "refresh" => Agrees(kind)'
  PROVE  AloneCall(s)'
<1> DEFINE call == session[s]
<1>1. /\ call'.kind = kind /\ call'.next = next
      /\ call'.conditions = conditions /\ call'.missing = missing
  BY DEF Steps, Is
<1>2. \A t \in Session : t # s => session'[t].kind # kind
  BY DEF Steps
<1>3. Condition' = Condition
  BY ConditionStays
<1>4. LookedFor(call.next, call.kind)' = LookedFor(next, kind)
  BY <1>1 DEF LookedFor, Managed, Key, AutomaticKey
<1>5. Agrees(call.kind)' <=> Agrees(kind)'
  BY <1>1
<1>6. /\ call'.next # "idle" /\ call'.kind \in Kind
      /\ call'.conditions = Condition' \cap LookedFor(call.next, call.kind)'
      /\ call'.next = "insert" => call'.missing = {k \in call'.conditions : open'[k] = 0}
      /\ call'.next = "resolve" => \A k \in call'.conditions : open'[k] > 0
      /\ call'.next = "refresh" => Agrees(call.kind)'
  BY <1>1, <1>3, <1>4, <1>5
<1> QED
  BY <1>1, <1>2, <1>6 DEF AloneCall, Running

\* A statement of a running call keeps what is said of the others.
LEMMA RunningRed ==
  ASSUME HistoryOK, CauseInv, RedInv, NEW s \in Session, Running(s), UNCHANGED evidence,
         \A t \in Session : t # s => session'[t] = session[t],
         session'[s].kind \in {session[s].kind, "none"}, alone' \subseteq alone,
         \A kind \in Kind \ {session[s].kind} : \A k \in Managed(kind) : open'[k] = open[k],
         s \in alone' => AloneCall(s)',
         \A kind \in settled' : kind \in settled \/ SettledKind(kind)',
         base' = base \/ session[s].kind = "domain"
  PROVE  RedInv'
<1>1. session[s].kind \in Kind
  BY DEF CauseInv, CallInv, OfKind, Kind
<1>2. Apart(s)
  <2>1. ASSUME NEW t \in alone' \ {s}
        PROVE  /\ session'[s].kind # session[t].kind
               /\ \A k \in Managed(session[t].kind) : open'[k] = open[k]
    <3>1. t \in Session /\ session[t].kind \in Kind /\ session[s].kind # session[t].kind
      BY <2>1 DEF RedInv, AloneCall
    <3>2. "none" \notin Kind
      BY DEF Kind
    <3> QED
      BY <3>1, <3>2
  <2> QED
    BY <2>1 DEF Apart
<1>3. \A t \in alone' : AloneCall(t)'
  BY <1>2, OthersAlone
<1>4. ASSUME NEW kind \in settled
      PROVE  SettledKind(kind)'
  <2>1. kind \in Kind /\ session[s].kind # kind /\ session'[s].kind # kind
    BY DEF RedInv, SettledKind, Kind
  <2>2. \A k \in Managed(kind) : open'[k] = open[k]
    BY <2>1
  <2> QED
    BY <2>1, <2>2, OthersSettled
<1>5. alone' \subseteq Session
  BY DEF RedInv
<1> QED
  BY <1>3, <1>4, <1>5 DEF RedInv

\* A statement that collects conditions.
LEMMA RedCollect ==
  ASSUME HistoryOK, CauseInv, RedInv, NEW s \in Session,
         NEW keys, NEW statement \in Statement \ {"idle"},
         NEW next \in Statement \ {"idle", "insert", "resolve", "refresh"},
         NEW kind, session[s].kind = kind,
         Collect(s, statement, Condition \cap keys, next),
         LookedFor(next, kind) = LookedFor(statement, kind) \cup keys
  PROVE  RedInv'
<1> DEFINE found == Condition \cap keys
           all == session[s].conditions \cup found
<1>1. /\ UNCHANGED evidence /\ open' = open /\ base' = base
      /\ alone' = alone /\ settled' = settled /\ session[s].next = statement
  BY DEF Collect, history
<1>2. Running(s) /\ kind \in Kind
  BY <1>1 DEF Running, CauseInv, CallInv, OfKind, Kind
<1>3. Steps(s, kind, next, all, session[s].missing)
  <2>1. found \in SUBSET AutomaticKey
    BY ConditionsByType
  <2> HIDE DEF found
  <2>2. Collect(s, statement, found, next)
    BY DEF found
  <2> QED
    BY <2>1, <2>2, Collected
<1>4. ASSUME s \in alone
      PROVE  AloneCall(s)'
  <2>1. /\ \A t \in Session : t # s => session[t].kind # kind
        /\ session[s].conditions = Condition \cap LookedFor(statement, kind)
    BY <1>1, <1>4 DEF RedInv, AloneCall
  <2>2. all = Condition \cap LookedFor(next, kind)
    BY <2>1
  <2> HIDE DEF all
  <2> QED
    BY <1>1, <1>2, <1>3, <2>1, <2>2, OwnAlone
<1>5. session'[s].kind = kind /\ \A t \in Session : t # s => session'[t] = session[t]
  BY <1>3 DEF Steps, Is
<1> QED
  BY <1>1, <1>2, <1>4, <1>5, RunningRed
LEMMA RedCollectors ==
  ASSUME HistoryOK, CauseInv, RedInv, NEW s \in Session,
         CollectFailures(s) \/ CollectSla(s) \/ CollectDq(s) \/ CollectReconciliation(s)
  PROVE  RedInv'
<1>0. Running(s) => OfKind(session[s])
  BY DEF CauseInv, CallInv
<1>1. CASE CollectFailures(s)
  <2>1. Collect(s, "failures", Condition \cap FailureKey, "sla")
    BY <1>1, ConditionsByType DEF CollectFailures
  <2>2. session[s].kind = "domain"
    BY <1>0, <2>1 DEF Running, OfKind, Collect
  <2>3. LookedFor("sla", "domain") = LookedFor("failures", "domain") \cup FailureKey
    BY DEF LookedFor
  <2> QED
    BY <2>1, <2>2, <2>3, RedCollect DEF Statement
<1>2. CASE CollectSla(s)
  <2>1. Collect(s, "sla", Condition \cap SlaKey, "find")
    BY <1>2, ConditionsByType DEF CollectSla
  <2>2. session[s].kind = "domain"
    BY <1>0, <2>1 DEF Running, OfKind, Collect
  <2>3. LookedFor("find", "domain") = LookedFor("sla", "domain") \cup SlaKey
    BY ManagedKeys DEF LookedFor
  <2> QED
    BY <2>1, <2>2, <2>3, RedCollect DEF Statement
<1>3. CASE CollectDq(s)
  <2>1. Collect(s, "dq", Condition \cap DqKey, "reconciliation")
    BY <1>3, ConditionsByType DEF CollectDq
  <2>2. session[s].kind = "quality"
    BY <1>0, <2>1 DEF Running, OfKind, Collect
  <2>3. LookedFor("reconciliation", "quality") = LookedFor("dq", "quality") \cup DqKey
    BY DEF LookedFor
  <2> QED
    BY <2>1, <2>2, <2>3, RedCollect DEF Statement
<1>4. CASE CollectReconciliation(s)
  <2>1. Collect(s, "reconciliation", Condition \cap ReconKey, "find")
    BY <1>4, ConditionsByType DEF CollectReconciliation
  <2>2. session[s].kind = "quality"
    BY <1>0, <2>1 DEF Running, OfKind, Collect
  <2>3. LookedFor("find", "quality") = LookedFor("reconciliation", "quality") \cup ReconKey
    BY ManagedKeys DEF LookedFor
  <2> QED
    BY <2>1, <2>2, <2>3, RedCollect DEF Statement
<1> QED
  BY <1>1, <1>2, <1>3, <1>4

\* The read of the INSERT finds the conditions without an open incident.
LEMMA RedFind ==
  ASSUME HistoryOK, CauseInv, RedInv, NEW s \in Session, FindMissing(s)
  PROVE  RedInv'
<1> DEFINE kind == session[s].kind
           conditions == session[s].conditions
           missing == {k \in conditions : open[k] = 0}
<1>1. /\ UNCHANGED evidence /\ open' = open /\ base' = base
      /\ alone' = alone /\ settled' = settled /\ session[s].next = "find"
  BY DEF FindMissing, history
<1>2. Running(s) /\ kind \in Kind
  BY <1>1 DEF Running, CauseInv, CallInv, OfKind, Kind
<1>3. Steps(s, kind, "insert", conditions, missing)
  BY Found
<1>4. ASSUME s \in alone
      PROVE  AloneCall(s)'
  <2>1. /\ \A t \in Session : t # s => session[t].kind # kind
        /\ conditions = Condition \cap LookedFor("insert", kind)
    BY <1>1, <1>4 DEF RedInv, AloneCall, LookedFor
  <2>2. missing = {k \in conditions : open'[k] = 0}
    BY <1>1
  <2> HIDE DEF kind, conditions, missing
  <2> QED
    BY <1>1, <1>2, <1>3, <2>1, <2>2, OwnAlone DEF kind
<1>5. session'[s].kind = kind /\ \A t \in Session : t # s => session'[t] = session[t]
  BY <1>3 DEF Steps, Is
<1> QED
  BY <1>1, <1>2, <1>4, <1>5, RunningRed

\* Its commit opens one of each.
LEMMA RedOpen ==
  ASSUME HistoryOK, CauseInv, RedInv, NEW s \in Session, OpenMissing(s)
  PROVE  RedInv'
<1> DEFINE kind == session[s].kind
           conditions == session[s].conditions
<1>1. /\ UNCHANGED evidence /\ base' = base
      /\ \A k \in Key : open'[k] = IF k \in session[s].missing THEN open[k] + 1 ELSE open[k]
      /\ alone' = alone /\ settled' = settled /\ session[s].next = "insert"
  BY DEF OpenMissing, history
<1>2. Running(s) /\ kind \in Kind /\ conditions \subseteq Managed(kind)
      /\ session[s].missing \subseteq conditions
  BY <1>1 DEF Running, CauseInv, CallInv, OfKind, Kind
<1>3. Steps(s, kind, "resolve", conditions, {})
  BY Opened
<1>4. ASSUME s \in alone
      PROVE  AloneCall(s)'
  <2>1. /\ \A t \in Session : t # s => session[t].kind # kind
        /\ conditions = Condition \cap LookedFor("resolve", kind)
        /\ session[s].missing = {k \in conditions : open[k] = 0}
    BY <1>1, <1>4 DEF RedInv, AloneCall, LookedFor
  <2>2. ASSUME NEW k \in conditions
        PROVE  open'[k] > 0
    <3>1. k \in Key /\ open[k] \in Nat
      BY <1>2 DEF HistoryOK, Managed
    <3>2. CASE open[k] = 0
      BY <1>1, <2>1, <3>1, <3>2
    <3>3. CASE open[k] > 0
      BY <1>1, <3>1, <3>3
    <3> QED
      BY <3>1, <3>2, <3>3
  <2> HIDE DEF kind, conditions
  <2> QED
    BY <1>1, <1>2, <1>3, <2>1, <2>2, OwnAlone
<1>5. session'[s].kind = kind /\ \A t \in Session : t # s => session'[t] = session[t]
  BY <1>3 DEF Steps, Is
<1>6. ASSUME NEW other \in Kind \ {kind}, NEW k \in Managed(other)
      PROVE  open'[k] = open[k]
  <2>1. k \notin Managed(kind) /\ k \in Key
    BY <1>2, <1>6, ManagedKeys, KeysDiffer DEF Kind, Managed
  <2> QED
    BY <1>1, <1>2, <2>1
<1> QED
  BY <1>1, <1>2, <1>4, <1>5, <1>6, RunningRed

\* After the UPDATE of an undisturbed call the incidents of its kind agree.
LEMMA ResolvedAgrees ==
  ASSUME HistoryOK, CauseInv, RedInv, NEW s \in Session, session[s].next = "resolve",
         UNCHANGED evidence, open' = ResolvedBy(s)
  PROVE  /\ \A kind \in Kind : kind = session[s].kind /\ s \in alone => Agrees(kind)'
         /\ \A kind \in Kind \ {session[s].kind} : \A k \in Managed(kind) : open'[k] = open[k]
<1>1. Running(s) /\ session[s].kind \in Kind
      /\ session[s].conditions \subseteq Managed(session[s].kind)
  BY DEF Running, CauseInv, CallInv, OfKind, Kind
<1>2. \A k \in Key : open'[k] = IF k \in Recovered(s) THEN 0 ELSE open[k]
  BY DEF ResolvedBy
<1>3. ASSUME NEW kind \in Kind, kind = session[s].kind, s \in alone
      PROVE  Agrees(kind)'
  <2>1. session[s].conditions = Condition \cap Managed(kind)
        /\ \A k \in session[s].conditions : open[k] > 0
    BY <1>3 DEF RedInv, AloneCall, LookedFor
  <2>2. Condition' = Condition
    BY ConditionStays
  <2>3. ASSUME NEW k \in Managed(kind)
        PROVE  open'[k] > 0 <=> k \in Condition
    <3>1. k \in Key
      BY DEF Managed
    <3>2. CASE k \in Condition
      BY <1>2, <1>3, <2>1, <3>1, <3>2 DEF Recovered
    <3>3. CASE k \notin Condition
      BY <1>2, <1>3, <2>1, <3>1, <3>3 DEF Recovered
    <3> QED
      BY <3>2, <3>3
  <2> QED
    BY <2>2, <2>3 DEF Agrees, Managed, Key, AutomaticKey
<1>4. ASSUME NEW other \in Kind \ {session[s].kind}, NEW k \in Managed(other)
      PROVE  open'[k] = open[k]
  <2>1. k \notin Managed(session[s].kind) /\ k \in Key
    BY <1>1, <1>4, ManagedKeys, KeysDiffer DEF Kind, Managed
  <2> QED
    BY <1>2, <2>1 DEF Recovered
<1> QED
  BY <1>3, <1>4

LEMMA RedResolve ==
  ASSUME HistoryOK, CauseInv, RedInv, NEW s \in Session, ResolveDomain(s)
  PROVE  RedInv'
<1> DEFINE conditions == session[s].conditions
           missing == session[s].missing
<1>1. /\ UNCHANGED evidence /\ base' = base /\ open' = ResolvedBy(s)
      /\ alone' = alone /\ settled' = settled
      /\ session[s].next = "resolve" /\ session[s].kind = "domain"
  BY DEF ResolveDomain, history
<1>2. Running(s) /\ "domain" \in Kind
  BY <1>1 DEF Running, Kind
<1>3. Steps(s, "domain", "refresh", conditions, missing)
  BY <1>1, Resolved
<1>4. ASSUME s \in alone
      PROVE  AloneCall(s)'
  <2>1. /\ \A t \in Session : t # s => session[t].kind # "domain"
        /\ conditions = Condition \cap LookedFor("refresh", "domain")
    BY <1>1, <1>4 DEF RedInv, AloneCall, LookedFor
  <2>2. Agrees("domain")'
    BY <1>1, <1>2, <1>4, ResolvedAgrees
  <2> HIDE DEF conditions, missing
  <2> QED
    BY <1>1, <1>2, <1>3, <2>1, <2>2, OwnAlone
<1>5. session'[s].kind = "domain" /\ \A t \in Session : t # s => session'[t] = session[t]
  BY <1>3 DEF Steps, Is
<1>6. \A other \in Kind \ {"domain"} : \A k \in Managed(other) : open'[k] = open[k]
  BY <1>1, ResolvedAgrees
<1> QED
  BY <1>1, <1>2, <1>4, <1>5, <1>6, RunningRed

\* The end of a call settles its kind if the call was undisturbed.
LEMMA RedEnd ==
  ASSUME HistoryOK, CauseInv, RedInv, NEW s \in Session,
         ResolveQuality(s) \/ RefreshHealth(s) \/ Abort(s)
  PROVE  RedInv'
<1> DEFINE kind == session[s].kind
<1>1. /\ UNCHANGED evidence /\ session' = [session EXCEPT ![s] = Idle] /\ Forget(s)
      /\ Running(s)
  BY DEF ResolveQuality, RefreshHealth, End, Abort, Running
<1>2. /\ session'[s].kind = "none" /\ \A t \in Session : t # s => session'[t] = session[t]
      /\ kind \in Kind /\ alone' = alone \ {s}
  <2>1. session'[s] = Idle /\ \A t \in Session : t # s => session'[t] = session[t]
    BY <1>1, IdleIs, Replaced
  <2> QED
    BY <1>1, <2>1 DEF Idle, Forget, Running, CauseInv, CallInv, OfKind, Kind
<1>3. \A other \in Kind \ {kind} : \A k \in Managed(other) : open'[k] = open[k]
  BY ResolvedAgrees DEF ResolveQuality, RefreshHealth, Abort, End
<1>4. base' = base \/ kind = "domain"
  BY <1>1 DEF ResolveQuality, RefreshHealth, Abort, CauseInv, CallInv, OfKind
<1>5. ASSUME NEW other \in settled', other \notin settled
      PROVE  SettledKind(other)'
  <2>1. s \in alone /\ other = kind /\ ~Abort(s)
    BY <1>5 DEF ResolveQuality, RefreshHealth, Abort, End
  <2>2. \A t \in Session : session'[t].kind # kind
    BY <1>2, <2>1 DEF RedInv, AloneCall, Kind
  <2>3. CASE ResolveQuality(s)
    <3>1. kind = "quality" /\ Agrees(other)'
      BY <1>1, <1>2, <2>1, <2>3, ResolvedAgrees DEF ResolveQuality
    <3> QED
      BY <1>2, <2>1, <2>2, <3>1 DEF SettledKind
  <2>4. CASE RefreshHealth(s)
    <3>1. session[s].next = "refresh" /\ base' = BaseStatus /\ open' = open
      BY <2>4 DEF RefreshHealth
    <3>2. Agrees(other)
      BY <2>1, <3>1 DEF RedInv, AloneCall
    <3>3. Agrees(other)' /\ BaseStatus' = BaseStatus
      BY <1>1, <3>1, <3>2, AgreesStays, BaseStays
    <3> QED
      BY <1>2, <2>1, <2>2, <3>1, <3>3 DEF SettledKind
  <2> QED
    BY <2>1, <2>3, <2>4
<1> QED
  BY <1>1, <1>2, <1>3, <1>4, <1>5, RunningRed

\* A call that begins while none of its kind runs is alone, and its kind not settled.
LEMMA RedStart ==
  ASSUME HistoryOK, CauseInv, RedInv, NEW s \in Session, StartDomain(s) \/ StartQuality(s)
  PROVE  RedInv'
<1>1. PICK kind \in Kind, statement \in {"failures", "dq"} :
        /\ Start(s, kind, statement)
        /\ base' = base \/ kind = "domain"
  BY DEF StartDomain, StartQuality, Kind
<1>2. /\ UNCHANGED evidence /\ open' = open /\ ~Running(s)
      /\ settled' = settled \ {kind}
      /\ alone' \subseteq alone \cup {s}
      /\ \A t \in alone' \ {s} : t \in alone /\ session[t].kind # kind
      /\ s \in alone' => s \in alone \/ \A t \in Session : session[t].kind # kind
  <2> DEFINE others == {t \in Session : session[t].kind = kind}
  <2>1. alone' = (alone \ others) \cup (IF others = {} THEN {s} ELSE {})
    BY <1>1 DEF Start
  <2>2. alone \subseteq Session
    BY DEF RedInv
  <2> QED
    BY <1>1, <2>1, <2>2 DEF Start
<1>3. Steps(s, kind, statement, {}, {})
  <2>1. statement \in Statement
    BY DEF Statement
  <2> QED
    BY <1>1, <2>1, Started
<1>4. session'[s].kind = kind /\ \A t \in Session : t # s => session'[t] = session[t]
  BY <1>3 DEF Steps, Is
<1>5. \A t \in alone' \ {s} : AloneCall(t)'
  <2>1. Apart(s)
    BY <1>2, <1>4 DEF Apart
  <2> QED
    BY <2>1, OthersAlone
<1>6. ASSUME s \in alone'
      PROVE  AloneCall(s)'
  <2>1. s \notin alone
    BY <1>2 DEF RedInv, AloneCall
  <2>2. {} = Condition \cap LookedFor(statement, kind)
    BY DEF LookedFor
  <2> QED
    BY <1>2, <1>3, <1>6, <2>1, <2>2, OwnAlone
<1>7. ASSUME NEW other \in settled'
      PROVE  SettledKind(other)'
  <2>1. other \in settled /\ other # kind /\ other \in Kind
    BY <1>2, <1>7 DEF RedInv, SettledKind
  <2>2. other = "domain" => base' = base
    BY <1>1, <2>1
  <2> QED
    BY <1>2, <1>4, <2>1, <2>2, OthersSettled
<1>8. alone' \subseteq Session
  BY <1>2 DEF RedInv
<1> QED
  BY <1>5, <1>6, <1>7, <1>8 DEF RedInv

\* A step that touches no call and no automatic incident.
LEMMA RedUntouched ==
  ASSUME HistoryOK, CauseInv, RedInv,
         UNCHANGED <<evidence, session, base, alone, settled>>,
         \A kind \in Kind : \A k \in Managed(kind) : open'[k] = open[k]
  PROVE  RedInv'
<1>1. ASSUME NEW s \in alone
      PROVE  AloneCall(s)'
  <2>1. s \in Session /\ AloneCall(s)
    BY DEF RedInv
  <2>2. Running(s) /\ session[s].kind \in Kind
    BY <2>1 DEF AloneCall
  <2>3. CallInv(s) /\ session[s] \in Call /\ session' = session
    BY <2>1, <2>2 DEF CauseInv, HistoryOK
  <2>4. PICK kind, next, conditions, missing :
          /\ kind \in Kind /\ kind = session[s].kind /\ next = session[s].next
          /\ conditions = session[s].conditions /\ missing = session[s].missing
    BY <2>2
  <2>5. Steps(s, kind, next, conditions, missing)
    BY <2>3, <2>4 DEF Steps, Is
  <2>6. conditions \subseteq Managed(kind) /\ \A k \in conditions : open'[k] = open[k]
    BY <2>3, <2>4 DEF CallInv
  <2>7. /\ next # "idle" /\ \A t \in Session : t # s => session[t].kind # kind
        /\ conditions = Condition \cap LookedFor(next, kind)
        /\ next = "insert" => missing = {k \in conditions : open[k] = 0}
        /\ next = "resolve" => \A k \in conditions : open[k] > 0
        /\ next = "refresh" => Agrees(kind)
    BY <2>1, <2>4 DEF AloneCall, Running
  <2>8. /\ next = "insert" => missing = {k \in conditions : open'[k] = 0}
        /\ next = "resolve" => \A k \in conditions : open'[k] > 0
    BY <2>6, <2>7
  <2>9. next = "refresh" => Agrees(kind)'
    BY <2>4, <2>7, AgreesStays
  <2> QED
    BY <2>1, <2>4, <2>5, <2>7, <2>8, <2>9, OwnAlone
<1>2. ASSUME NEW kind \in settled
      PROVE  SettledKind(kind)'
  <2>1. SettledKind(kind)
    BY DEF RedInv
  <2>2. Agrees(kind)' /\ BaseStatus' = BaseStatus
    BY <2>1, AgreesStays, BaseStays DEF SettledKind
  <2> QED
    BY <2>1, <2>2 DEF SettledKind
<1> QED
  BY <1>1, <1>2 DEF RedInv

\* Every step keeps what is said of undisturbed calls.
LEMMA RedStep ==
  ASSUME HistoryOK, CauseInv, RedInv, [Next]_vars
  PROVE  RedInv'
<1>1. CASE EvidenceChanges
  <2>1. alone' = {} /\ settled' = {}
    BY <1>1 DEF EvidenceChanges, BeginIngestion, CompleteIngestion, FailIngestion, EndIngestion,
       StampSilver, StampGold, Measure, RecordResult, SetLifecycle, SetActive, Change
  <2> QED
    BY <2>1 DEF RedInv
<1>2. ASSUME NEW s \in Session, Evaluate(s)
      PROVE  RedInv'
  BY <1>2, RedStart, RedCollectors, RedFind, RedOpen, RedResolve, RedEnd DEF Evaluate
<1>3. CASE UNCHANGED vars
  BY <1>3, RedUntouched DEF vars, history
<1>4. ASSUME NEW s \in Task, ResumeTask(s)
      PROVE  RedInv'
  BY <1>4, RedUntouched DEF ResumeTask, history
<1>5. ASSUME NEW k \in ManualKey, OpenInvestigation(k) \/ CloseInvestigation(k)
      PROVE  RedInv'
  <2>1. UNCHANGED <<evidence, session, base, alone, settled>>
    BY <1>5 DEF OpenInvestigation, CloseInvestigation, history
  <2>2. PICK n \in {0, 1} : open' = [open EXCEPT ![k] = n]
    BY <1>5 DEF OpenInvestigation, CloseInvestigation
  <2>3. \A kind \in Kind : k \notin Managed(kind)
    BY KeyTypes, ManagedKeys DEF Kind
  <2>4. \A kind \in Kind : \A other \in Managed(kind) : open'[other] = open[other]
    BY <2>2, <2>3 DEF HistoryOK, Managed
  <2> QED
    BY <2>1, <2>4, RedUntouched
<1> QED
  BY <1>1, <1>2, <1>3, <1>4, <1>5 DEF Next

\* The inductive invariant behind RedMeansIncident: what an undisturbed evaluation
\* holds, has opened and has resolved at each of its statements, and leaves.
THEOREM UndisturbedInvariant == Spec => [](HistoryOK /\ CauseInv /\ RedInv)
<1>1. Init => HistoryOK /\ CauseInv /\ RedInv
  <2> SUFFICES ASSUME Init
               PROVE  HistoryOK /\ CauseInv /\ RedInv
    OBVIOUS
  <2>1. session \in [Session -> Call] /\ \A s \in Session : session[s].next = "idle"
    BY IdleIs DEF Init
  <2> QED
    BY <2>1 DEF Init, HistoryOK, CauseInv, RedInv, Running
<1>2. HistoryOK /\ CauseInv /\ RedInv /\ [Next]_vars => (HistoryOK /\ CauseInv /\ RedInv)'
  BY CauseStep, RedStep
<1> QED
  BY <1>1, <1>2, PTL DEF Spec

\* The dashboard and the evaluators agree on what is RED.
LEMMA RedIsCondition ==
  ASSUME Enabled, active # NoVersion, base = BaseStatus
  PROVE  OverallStatus = "RED" <=> Condition # {}
<1>1. lifecycle = "ACTIVE"
  BY DEF Enabled
<1>2. base = "RED" <=> SomeStageFailed \/ ViolatedStages # {}
  BY DEF BaseStatus
<1>3. OverallStatus = "RED" <=> base = "RED" \/ "FAILED" \in QualityVerdicts
  BY <1>1 DEF OverallStatus
<1>4. FailureConditions # {} <=> SomeStageFailed
  BY DEF FailureConditions, SomeStageFailed
<1>5. SlaConditions # {} <=> ViolatedStages # {}
  BY DEF SlaConditions
<1>6. DqConditions # {} <=> DqVerdict = "FAILED"
  BY DEF DqConditions
<1>7. ReconConditions # {} <=> \E stage \in ReconStage : ReconVerdict(stage) = "FAILED"
  BY DEF ReconConditions
<1> QED
  BY <1>2, <1>3, <1>4, <1>5, <1>6, <1>7 DEF Condition, QualityVerdicts

\* For any evidence, sessions and calls: when the last evaluation of each kind was
\* undisturbed and nothing has changed since, an operating dataset with a published
\* version is RED on the dashboard exactly if it has an open automatic incident.
THEOREM DashboardAgrees == Spec => []RedMeansIncident
<1>1. RedInv => RedMeansIncident
  <2> SUFFICES ASSUME RedInv, settled = Kind, Enabled, active # NoVersion
               PROVE  OverallStatus = "RED" <=> \E k \in AutomaticKey : open[k] > 0
    BY DEF RedMeansIncident
  <2>1. Agrees("domain") /\ Agrees("quality") /\ base = BaseStatus
    BY DEF RedInv, SettledKind, Kind
  <2>2. \A k \in AutomaticKey : open[k] > 0 <=> k \in Condition
    BY <2>1, ManagedKeys DEF Agrees, AutomaticKey
  <2> QED
    BY <2>1, <2>2, RedIsCondition, ConditionsByType
<1> QED
  BY <1>1, UndisturbedInvariant, PTL

-----------------------------------------------------------------------------
\* Types

\* Whatever a producer reports is stored as one of three outcomes.
LEMMA OutcomeKnown == \A severity, status : OutcomeOf(severity, status) \in Outcome
  BY DEF OutcomeOf, Outcome

EvidenceOK ==
  /\ lifecycle \in Lifecycle
  /\ active \in Version \cup {NoVersion}
  /\ ingestion \in [IngestionRun -> RunStatus]
  /\ lastIngestion \in IngestionRun \cup {NoRun}
  /\ silver \in [Version -> RunStatus \cup RefreshState]
  /\ gold \in RunStatus \cup {"SKIPPED"}
  /\ timing \in [SlaStage -> SlaFacts]
  /\ results \in [Subject -> [QualityRun -> SUBSET Outcome]]
  /\ latest \in [Subject -> QualityRun \cup {NoRun}]
TaskOK ==
  /\ base \in OverallStatuses
  /\ failures \in [Task -> 0..3]
  /\ suspended \subseteq Task
  /\ changes \in 0..MaxChanges

\* Evidence keeps its types.
LEMMA EvidenceTyped ==
  ASSUME EvidenceOK, EvidenceChanges
  PROVE  EvidenceOK'
<1> USE DEF EvidenceOK
<1>1. ASSUME NEW r \in IngestionRun, BeginIngestion(r) \/ CompleteIngestion(r) \/ FailIngestion(r)
      PROVE  EvidenceOK'
  <2>1. PICK status \in RunStatus : ingestion' = [ingestion EXCEPT ![r] = status]
    BY <1>1 DEF BeginIngestion, CompleteIngestion, FailIngestion, EndIngestion, RunStatus
  <2>2. lastIngestion' = r
        /\ UNCHANGED <<lifecycle, active, silver, gold, timing, results, latest>>
    BY <1>1 DEF BeginIngestion, CompleteIngestion, FailIngestion, EndIngestion
  <2> QED
    BY <2>1, <2>2
<1>2. ASSUME NEW v \in Version, StampSilver(v)
      PROVE  EvidenceOK'
  <2>1. PICK state \in RunStatus \cup RefreshState : silver' = [silver EXCEPT ![v] = state]
    BY <1>2 DEF StampSilver
  <2> QED
    BY <1>2, <2>1 DEF StampSilver
<1>3. CASE StampGold
  BY <1>3 DEF StampGold, RunStatus
<1>4. ASSUME NEW stage \in SlaStage, Measure(stage)
      PROVE  EvidenceOK'
  BY <1>4 DEF Measure
<1>5. ASSUME NEW subject \in Subject, NEW run \in QualityRun, RecordResult(subject, run)
      PROVE  EvidenceOK'
  <2>1. PICK outcome \in Outcome :
          results' = [results EXCEPT ![subject][run] = @ \cup {outcome}]
    BY <1>5, OutcomeKnown DEF RecordResult
  <2>2. results' \in [Subject -> [QualityRun -> SUBSET Outcome]]
    BY <2>1
  <2> QED
    BY <1>5, <2>2 DEF RecordResult
<1>6. CASE SetLifecycle
  BY <1>6 DEF SetLifecycle
<1>7. CASE SetActive
  BY <1>7 DEF SetActive
<1> QED
  BY <1>1, <1>2, <1>3, <1>4, <1>5, <1>6, <1>7 DEF EvidenceChanges

\* The snapshot has one of its statuses.
LEMMA BaseTyped == BaseStatus \in OverallStatuses
  BY DEF BaseStatus, OverallStatuses

\* The snapshot, the tasks and the bound keep their types.
LEMMA TaskTyped ==
  ASSUME TaskOK, [Next]_vars
  PROVE  TaskOK'
<1> USE DEF TaskOK
<1>1. CASE changes < MaxChanges /\ EvidenceChanges
  <2>1. changes' = changes + 1 /\ UNCHANGED <<base, scheduling>>
    BY <1>1 DEF EvidenceChanges, BeginIngestion, CompleteIngestion, FailIngestion, EndIngestion,
       StampSilver, StampGold, Measure, RecordResult, SetLifecycle, SetActive, Change
  <2> QED
    BY <1>1, <2>1, BoundAssumption DEF scheduling
<1>2. ASSUME NEW s \in Session, Evaluate(s)
      PROVE  TaskOK'
  <2>1. changes' = changes
    BY <1>2 DEF Evaluate, StartDomain, StartQuality, Start, CollectFailures, CollectSla, CollectDq,
       CollectReconciliation, Collect, FindMissing, OpenMissing, ResolveDomain, ResolveQuality,
       RefreshHealth, End, Abort
  <2>2. base' \in OverallStatuses
    BY <1>2, BaseTyped DEF Evaluate, StartDomain, StartQuality, CollectFailures, CollectSla,
       CollectDq, CollectReconciliation, Collect, FindMissing, OpenMissing, ResolveDomain,
       ResolveQuality, RefreshHealth, Abort
  <2>3. CASE UNCHANGED scheduling
    BY <2>1, <2>2, <2>3 DEF scheduling
  <2>4. CASE ResolveQuality(s) \/ RefreshHealth(s)
    BY <2>1, <2>2, <2>4 DEF ResolveQuality, RefreshHealth, End
  <2>5. CASE Abort(s)
    <3>1. \A t \in Task : failures[t] \in 0..3 /\ (failures[t] + 1) % 3 \in 0..3
      OBVIOUS
    <3> QED
      BY <2>1, <2>2, <2>5, <3>1 DEF Abort
  <2> QED
    BY <1>2, <2>3, <2>4, <2>5 DEF Evaluate, StartDomain, StartQuality, Start, CollectFailures,
       CollectSla, CollectDq, CollectReconciliation, Collect, FindMissing, OpenMissing, ResolveDomain
<1>3. CASE UNCHANGED vars
  BY <1>3 DEF vars, scheduling
<1>4. ASSUME NEW s \in Task, ResumeTask(s)
      PROVE  TaskOK'
  BY <1>4 DEF ResumeTask
<1>5. ASSUME NEW k \in ManualKey, OpenInvestigation(k) \/ CloseInvestigation(k)
      PROVE  TaskOK'
  BY <1>5, BoundAssumption DEF OpenInvestigation, CloseInvestigation, scheduling
<1> QED
  BY <1>1, <1>2, <1>3, <1>4, <1>5 DEF Next

\* The rows of the control tables, the calls and the tasks keep their types (TypeOK), for
\* any evidence, sessions and calls; each kind that is settled is an evaluator's.
THEOREM IncidentTypeCorrect == Spec => []TypeOK
<1>1. Init => EvidenceOK /\ TaskOK
  <2> SUFFICES ASSUME Init
               PROVE  EvidenceOK /\ TaskOK
    OBVIOUS
  <2>1. timing \in [SlaStage -> SlaFacts]
    BY DEF Init
  <2> QED
    BY <2>1, BoundAssumption
       DEF Init, EvidenceOK, TaskOK, Lifecycle, RunStatus, OverallStatuses
<1>2. EvidenceOK /\ TaskOK /\ [Next]_vars => (EvidenceOK /\ TaskOK)'
  <2> SUFFICES ASSUME EvidenceOK, TaskOK, [Next]_vars
               PROVE  EvidenceOK' /\ TaskOK'
    OBVIOUS
  <2>1. CASE EvidenceChanges
    BY <2>1, EvidenceTyped, TaskTyped
  <2>2. CASE UNCHANGED evidence
    BY <2>2, TaskTyped DEF evidence, EvidenceOK
  <2> QED
    BY <2>1, <2>2 DEF Next, vars, Evaluate, StartDomain, StartQuality, Start, CollectFailures,
       CollectSla, CollectDq, CollectReconciliation, Collect, FindMissing, OpenMissing,
       ResolveDomain, ResolveQuality, RefreshHealth, End, Abort, ResumeTask, OpenInvestigation,
       CloseInvestigation
<1>3. HistoryOK /\ CauseInv /\ RedInv /\ EvidenceOK /\ TaskOK => TypeOK
  BY DEF HistoryOK, RedInv, SettledKind, EvidenceOK, TaskOK, TypeOK, Call
<1> QED
  BY <1>1, <1>2, <1>3, UndisturbedInvariant, PTL DEF Spec
=============================================================================
