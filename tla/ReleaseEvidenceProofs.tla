---------------------- MODULE ReleaseEvidenceProofs ----------------------
(***************************************************************************)
(* Proofs about ReleaseEvidence: for any checks and any number of          *)
(* sessions, if a run has no company but comparisons, readiness speaks of  *)
(* the data the candidate holds now.                                       *)
(***************************************************************************)
EXTENDS ReleaseEvidence, TLAPS

\* A check of the validation, or of the comparison, is one of its checks.
LEMMA CheckAt ==
  /\ \A i \in DOMAIN Validation : Validation[i] \in DqCheck
  /\ \A i \in DOMAIN Comparison : Comparison[i] \in CompareCheck
  /\ 1 \in DOMAIN Validation /\ 1 \in DOMAIN Comparison
  /\ \A i \in DOMAIN Validation : i # Len(Validation) => i + 1 \in DOMAIN Validation
  /\ \A i \in DOMAIN Comparison : i # Len(Comparison) => i + 1 \in DOMAIN Comparison
  BY CheckAssumption DEF DqCheck, CompareCheck, Range

\* The kind of a script follows from the step it is at.
LEMMA ScriptValue ==
  ASSUME NEW x \in Script \cup {NoScript}
  PROVE  /\ x.step \in {"transforming", "committed"} <=> x \in RunScript
         /\ x.step \in {"measure", "record"} <=> x \in ValidationScript
         /\ x.step = "compare" <=> x \in ComparisonScript
         /\ x # NoScript <=> x.kind # "none"
         /\ x \in RunScript => x.kind \in RunKind
         /\ x \in ValidationScript => x.kind \in {"task", "validate"}
         /\ x \in ComparisonScript => x.kind = "compare"
<1>1. x \in RunScript \/ x \in ValidationScript \/ x \in ComparisonScript \/ x = NoScript
  BY DEF Script
<1>2. x \in RunScript => x.step \in {"transforming", "committed"} /\ x.kind \in RunKind
  BY DEF RunScript
<1>3. x \in ValidationScript => x.step \in {"measure", "record"} /\ x.kind \in {"task", "validate"}
  BY DEF ValidationScript
<1>4. x \in ComparisonScript => x.step = "compare" /\ x.kind = "compare"
  BY DEF ComparisonScript
<1>5. NoScript.step = "none" /\ NoScript.kind = "none"
  BY DEF NoScript
<1>6. /\ x.step \in {"transforming", "committed"} <=> x \in RunScript
      /\ x.step \in {"measure", "record"} <=> x \in ValidationScript
      /\ x.step = "compare" <=> x \in ComparisonScript
  BY <1>1, <1>2, <1>3, <1>4, <1>5
<1>7. x # NoScript <=> x.kind # "none"
  BY <1>1, <1>2, <1>3, <1>4, <1>5 DEF RunKind
<1> QED
  BY <1>2, <1>3, <1>4, <1>6, <1>7

\* So does what a session executes.
LEMMA ScriptOf ==
  ASSUME TypeOK, NEW s \in Session
  PROVE  /\ script[s] \in Script \cup {NoScript}
         /\ script[s].step \in {"transforming", "committed"} <=> script[s] \in RunScript
         /\ script[s].step \in {"measure", "record"} <=> script[s] \in ValidationScript
         /\ script[s].step = "compare" <=> script[s] \in ComparisonScript
         /\ Running(s) <=> script[s].kind # "none"
         /\ script[s] \in RunScript => script[s].kind \in RunKind
         /\ script[s] \in ValidationScript => script[s].kind \in {"task", "validate"}
         /\ script[s] \in ComparisonScript => script[s].kind = "compare"
<1>1. script[s] \in Script \cup {NoScript}
  BY DEF TypeOK
<1> QED
  BY <1>1, ScriptValue DEF Running

\* A run has no company but comparisons.
LEMMA RunAlone ==
  ASSUME EvidenceInv, NEW s \in Session, script[s].kind \in RunKind,
         NEW other \in Session, other # s
  PROVE  script[other] \notin RunScript /\ script[other] \notin ValidationScript
<1>1. TypeOK /\ script[other].kind \in {"compare", "none"}
  BY DEF EvidenceInv, CompanyInv
<1> QED
  BY <1>1, ScriptOf DEF RunKind

\* Results that have aged keep their checks, and none is fresh.
LEMMA OlderResults ==
  ASSUME NEW checks, NEW results \in SUBSET Result(checks)
  PROVE  /\ Older(results) \subseteq Result(checks)
         /\ \A r \in Older(results) : ~r.fresh
  BY DEF Older, Result

\* A stamp of a run keeps the types and leaves nothing fresh.
LEMMA Stamped ==
  ASSUME TypeOK, NEW s \in Session, NEW status, StampRun(s, status)
  PROVE  /\ dq' \subseteq Result(DqCheck) /\ compared' \subseteq Result(CompareCheck)
         /\ \A r \in dq' \cup compared' : ~r.fresh
         /\ recorded' \in [Session -> SUBSET Result(DqCheck)]
         /\ recorded'[s] = {}
         /\ runtime' = status
<1>1. /\ dq \in SUBSET Result(DqCheck) /\ compared \in SUBSET Result(CompareCheck)
      /\ \A other \in Session : recorded[other] \in SUBSET Result(DqCheck)
  BY DEF TypeOK
<1>2. /\ Older(dq) \subseteq Result(DqCheck) /\ \A r \in Older(dq) : ~r.fresh
      /\ Older(compared) \subseteq Result(CompareCheck) /\ \A r \in Older(compared) : ~r.fresh
      /\ \A other \in Session : Older(recorded[other]) \subseteq Result(DqCheck)
  BY <1>1, OlderResults
<1> QED
  BY <1>2 DEF StampRun

\* The script of a session that goes from a run, validation or comparison to its
\* next step is again a script.
LEMMA NextScript ==
  ASSUME NEW x \in Script
  PROVE  /\ x \in RunScript => [x EXCEPT !.step = "committed"] \in RunScript
         /\ x \in RunScript /\ x.kind = "task" =>
              [x EXCEPT !.step = "measure"] \in ValidationScript
         /\ x \in ValidationScript =>
              \A found \in BOOLEAN : [x EXCEPT !.step = "record", !.found = found]
                                      \in ValidationScript
         /\ x \in ValidationScript /\ x.next # Len(Validation) =>
              [x EXCEPT !.step = "measure", !.next = @ + 1, !.found = FALSE]
                \in ValidationScript
         /\ x \in ComparisonScript /\ x.next # Len(Comparison) =>
              [x EXCEPT !.next = @ + 1] \in ComparisonScript
<1>1. x \in RunScript => [x EXCEPT !.step = "committed"] \in RunScript
  BY DEF RunScript
<1>2. x \in RunScript /\ x.kind = "task" => [x EXCEPT !.step = "measure"] \in ValidationScript
  BY CheckAt DEF RunScript, ValidationScript
<1>3. x \in ValidationScript =>
        \A found \in BOOLEAN : [x EXCEPT !.step = "record", !.found = found] \in ValidationScript
  BY DEF ValidationScript
<1>4. ASSUME x \in ValidationScript, x.next # Len(Validation)
      PROVE  [x EXCEPT !.step = "measure", !.next = @ + 1, !.found = FALSE] \in ValidationScript
  <2>1. x.next + 1 \in DOMAIN Validation
    BY <1>4, CheckAt DEF ValidationScript
  <2> QED
    BY <1>4, <2>1 DEF ValidationScript
<1>5. ASSUME x \in ComparisonScript, x.next # Len(Comparison)
      PROVE  [x EXCEPT !.next = @ + 1] \in ComparisonScript
  <2>1. x.next + 1 \in DOMAIN Comparison
    BY <1>5, CheckAt DEF ComparisonScript
  <2> QED
    BY <1>5, <2>1 DEF ComparisonScript
<1> QED
  BY <1>1, <1>2, <1>3, <1>4, <1>5

\* What a session executes at the first step is a script.
LEMMA FirstScript ==
  /\ \A kind \in RunKind :
       [kind |-> kind, step |-> "transforming", next |-> 1, found |-> FALSE] \in RunScript
  /\ [kind |-> "validate", step |-> "measure", next |-> 1, found |-> FALSE] \in ValidationScript
  /\ [kind |-> "compare", step |-> "compare", next |-> 1, found |-> FALSE] \in ComparisonScript
  BY CheckAt DEF RunScript, ValidationScript, ComparisonScript

\* The result of a check.
LEMMA ResultOf ==
  ASSUME TypeOK, NEW s \in Session, script[s] \in ValidationScript
  PROVE  /\ ResultNow(s) \in Result(DqCheck)
         /\ ResultNow(s).fresh
         /\ ~RunPerCheck /\ script[s].found = (Validation[script[s].next] \in flaws) =>
              (ResultNow(s).failed <=> ResultNow(s).check \in flaws)
         /\ RunPerCheck => (ResultNow(s).failed <=> ResultNow(s).check \in flaws)
<1>1. script[s].next \in DOMAIN Validation /\ script[s].found \in BOOLEAN
  BY DEF ValidationScript
<1>2. Validation[script[s].next] \in DqCheck
  BY <1>1, CheckAt
<1> DEFINE check == Validation[script[s].next]
<1>3. CASE RunPerCheck
  <2>1. ResultNow(s) = [check |-> check, fresh |-> TRUE, failed |-> check \in flaws]
    BY <1>3 DEF ResultNow
  <2>2. [check |-> check, fresh |-> TRUE, failed |-> check \in flaws] \in Result(DqCheck)
    BY <1>2 DEF Result
  <2>3. ResultNow(s).failed = (check \in flaws) /\ ResultNow(s).check = check
    BY <2>1
  <2>4. ResultNow(s).fresh
    BY <2>1
  <2> QED
    BY <1>3, <2>1, <2>2, <2>3, <2>4
<1>4. CASE ~RunPerCheck
  <2>1. ResultNow(s) = [check |-> check, fresh |-> TRUE, failed |-> script[s].found]
    BY <1>4 DEF ResultNow
  <2> QED
    BY <1>1, <1>2, <1>4, <2>1 DEF Result
<1> QED
  BY <1>3, <1>4

\* Every step keeps the types.
LEMMA TypeStep ==
  ASSUME TypeOK, [Next]_vars
  PROVE  TypeOK'
<1>1. CASE UNCHANGED vars
  BY <1>1 DEF vars, evidence, TypeOK
<1>2. CASE Replay
  BY <1>2 DEF Replay, evidence, TypeOK
<1>3. ASSUME NEW s \in Session, Execute(s)
      PROVE  TypeOK'
  <2> USE DEF evidence
  <2>0. /\ script \in [Session -> Script \cup {NoScript}]
        /\ Running(s) => script[s] \in Script
        /\ script[s].step \in {"transforming", "committed"} => script[s] \in RunScript
        /\ script[s].step \in {"measure", "record"} => script[s] \in ValidationScript
        /\ script[s].step = "compare" => script[s] \in ComparisonScript
        /\ RunScript \subseteq Script /\ ValidationScript \subseteq Script
        /\ ComparisonScript \subseteq Script
    BY ScriptOf DEF TypeOK, Script, Running
  <2>1. ASSUME NEW kind \in FileKind, StartRun(s, kind)
        PROVE  TypeOK'
    <3>1. script' \in [Session -> Script \cup {NoScript}]
      BY <2>0, <2>1, FirstScript DEF StartRun, Open
    <3> QED
      BY <2>1, <3>1, Stamped DEF StartRun, TypeOK
  <2>2. CASE CommitRun(s)
    <3>1. script' \in [Session -> Script \cup {NoScript}]
      BY <2>0, <2>2, NextScript DEF CommitRun, At, GoTo
    <3> QED
      BY <2>2, <3>1 DEF CommitRun, TypeOK
  <2>3. CASE FailRun(s)
    <3>1. script' \in [Session -> Script \cup {NoScript}]
      BY <2>0, <2>3 DEF FailRun, Close
    <3> QED
      BY <2>3, <3>1, Stamped DEF FailRun, TypeOK
  <2>4. CASE RecordRun(s)
    <3>1. script' \in [Session -> Script \cup {NoScript}]
      <4>1. CASE script[s].kind = "task"
        BY <2>0, <2>4, <4>1, NextScript DEF RecordRun, At, GoTo
      <4>2. CASE script[s].kind # "task"
        BY <2>0, <2>4, <4>2 DEF RecordRun, Close
      <4> QED
        BY <4>1, <4>2
    <3> QED
      BY <2>4, <3>1, Stamped DEF RecordRun, TypeOK
  <2>5. CASE StartValidation(s)
    <3>1. script' \in [Session -> Script \cup {NoScript}]
      BY <2>0, <2>5, FirstScript DEF StartValidation, Open
    <3> QED
      BY <2>5, <3>1 DEF StartValidation, TypeOK
  <2>6. CASE MeasureCheck(s)
    <3>1. script' \in [Session -> Script \cup {NoScript}]
      <4> DEFINE flawed == Validation[script[s].next] \in flaws
      <4>1. script' = [script EXCEPT ![s] = [script[s] EXCEPT !.step = "record",
                                                              !.found = flawed]]
        BY <2>0, <2>6 DEF MeasureCheck
      <4>2. [script[s] EXCEPT !.step = "record", !.found = flawed] \in ValidationScript
        <5>1. script[s] \in ValidationScript /\ script[s] \in Script /\ flawed \in BOOLEAN
          BY <2>0, <2>6 DEF MeasureCheck, At
        <5> HIDE DEF flawed
        <5> QED
          BY <5>1, NextScript
      <4> QED
        BY <2>0, <4>1, <4>2
    <3> QED
      BY <2>6, <3>1 DEF MeasureCheck, TypeOK
  <2>7. CASE RecordCheck(s)
    <3>1. script[s] \in ValidationScript
      BY <2>0, <2>7 DEF RecordCheck, At
    <3>2. script' \in [Session -> Script \cup {NoScript}]
      <4>1. CASE script[s].next = Len(Validation)
        BY <2>0, <2>7, <4>1 DEF RecordCheck, NextCheck, Close
      <4>2. CASE script[s].next # Len(Validation)
        BY <2>0, <2>7, <3>1, <4>2, NextScript DEF RecordCheck, NextCheck
      <4> QED
        BY <4>1, <4>2
    <3>3. ResultNow(s) \in Result(DqCheck)
      BY <3>1, ResultOf
    <3> QED
      BY <2>7, <3>2, <3>3 DEF RecordCheck, TypeOK
  <2>8. CASE StartComparison(s)
    <3>1. script' \in [Session -> Script \cup {NoScript}]
      BY <2>0, <2>8, FirstScript DEF StartComparison, Open
    <3> QED
      BY <2>8, <3>1 DEF StartComparison, TypeOK
  <2>9. CASE RecordComparison(s)
    <3>1. script[s] \in ComparisonScript
      BY <2>0, <2>9 DEF RecordComparison, At
    <3>2. script' \in [Session -> Script \cup {NoScript}]
      <4>1. CASE script[s].next = Len(Comparison)
        BY <2>0, <2>9, <4>1 DEF RecordComparison, Close
      <4>2. CASE script[s].next # Len(Comparison)
        BY <2>0, <2>9, <3>1, <4>2, NextScript DEF RecordComparison
      <4> QED
        BY <4>1, <4>2
    <3>3. Comparison[script[s].next] \in CompareCheck
      BY <3>1, CheckAt DEF ComparisonScript
    <3>4. compared' \subseteq Result(CompareCheck)
      <4> DEFINE check == Comparison[script[s].next]
      <4>1. [check |-> check, failed |-> check \in flaws, fresh |-> TRUE] \in Result(CompareCheck)
        BY <3>3 DEF Result
      <4> QED
        BY <2>9, <4>1 DEF RecordComparison, TypeOK
    <3> QED
      BY <2>9, <3>2, <3>4 DEF RecordComparison, TypeOK
  <2>10. CASE Stop(s)
    <3>1. script' \in [Session -> Script \cup {NoScript}]
      BY <2>0, <2>10 DEF Stop, Close
    <3> QED
      BY <2>10, <3>1 DEF Stop, TypeOK
  <2> QED
    BY <1>3, <2>1, <2>2, <2>3, <2>4, <2>5, <2>6, <2>7, <2>8, <2>9, <2>10 DEF Execute
<1> QED
  BY <1>1, <1>2, <1>3 DEF Next

\* Type correctness of the evidence model, whatever may overlap.
THEOREM EvidenceTypeCorrect == Spec => []TypeOK
<1>1. Init => TypeOK
  BY DEF Init, TypeOK, Check
<1> QED
  BY <1>1, TypeStep, PTL DEF Spec

\* Nothing but comparisons is in progress when a run starts, and no run is when a
\* validation starts.
LEMMA AloneAtStart ==
  ASSUME RunsAlone, TypeOK, NEW kind, MayRun(kind), NEW other \in Session
  PROVE  /\ kind \in RunKind => script[other].kind \in {"compare", "none"}
         /\ kind = "validate" => script[other].kind \notin RunKind
<1>1. /\ Running(other) <=> script[other].kind # "none"
      /\ script[other].kind \in {"task", "apply", "validate", "compare", "none"}
  <2>1. script[other] = NoScript => script[other].kind = "none"
    BY DEF NoScript
  <2> QED
    BY <2>1, ScriptOf DEF Script, RunKind
<1>2. Running(other) => {kind, script[other].kind} \in Overlap
  BY DEF MayRun
<1>3. kind \in RunKind /\ Running(other) => script[other].kind \notin RunKind \cup {"validate"}
  BY <1>2 DEF RunsAlone
<1>4. ASSUME kind = "validate", script[other].kind \in RunKind
      PROVE  FALSE
  <2>1. Running(other) /\ {kind, script[other].kind} = {script[other].kind, "validate"}
    BY <1>1, <1>4 DEF RunKind
  <2> QED
    BY <1>2, <1>4, <2>1 DEF RunsAlone
<1> QED
  BY <1>1, <1>3, <1>4 DEF RunKind

\* A step in which no session starts anything keeps every run alone.
LEMMA CompanyKept ==
  ASSUME CompanyInv,
         \A s \in Session : script'[s].kind = script[s].kind \/ script'[s].kind = "none"
  PROVE  CompanyInv'
<1> SUFFICES ASSUME NEW s \in Session, NEW other \in Session, s # other,
                    script'[s].kind \in RunKind
             PROVE  script'[other].kind \in {"compare", "none"}
  BY DEF CompanyInv
<1>1. script[s].kind \in RunKind
  BY DEF RunKind
<1>2. script[other].kind \in {"compare", "none"}
  BY <1>1 DEF CompanyInv
<1> QED
  BY <1>2

\* After a stamp nothing is fresh.
LEMMA StampedFresh ==
  ASSUME TypeOK, NEW s \in Session, NEW status, StampRun(s, status)
  PROVE  FreshInv'
  BY Stamped DEF FreshInv, DqFresh, Fresh, Current

\* The invariant is inductive if runs are alone.
LEMMA EvidenceStep ==
  ASSUME RunsAlone, EvidenceInv, [Next]_vars
  PROVE  EvidenceInv'
<1>1. TypeOK /\ CompanyInv /\ RunningInv /\ ValidationInv /\ FreshInv
  BY DEF EvidenceInv
<1>2. TypeOK'
  BY <1>1, TypeStep
<1>3. CASE UNCHANGED vars
  <2> USE <1>3 DEF vars, evidence
  <2>1. CompanyInv' /\ RunningInv' /\ FreshInv'
    BY <1>1 DEF CompanyInv, RunningInv, FreshInv, DqFresh, Fresh, Current
  <2>2. ValidationInv'
    BY <1>1 DEF ValidationInv, Fresh, Current, At
  <2> QED
    BY <1>2, <2>1, <2>2 DEF EvidenceInv
<1>4. CASE Replay
  BY <1>4 DEF RunsAlone, Replay, MayRun
<1>5. ASSUME NEW s \in Session, Execute(s)
      PROVE  EvidenceInv'
  <2> USE DEF evidence
  <2>0. \A other \in Session :
          /\ script[other].step \in {"transforming", "committed"} <=> script[other] \in RunScript
          /\ script[other].step \in {"measure", "record"} <=> script[other] \in ValidationScript
          /\ script'[other].step \in {"transforming", "committed"} <=> script'[other] \in RunScript
          /\ script'[other].step \in {"measure", "record"} <=> script'[other] \in ValidationScript
          /\ script[other] \in RunScript => script[other].kind \in RunKind
          /\ script[other] \in ValidationScript => script[other].kind \in {"task", "validate"}
    <3>1. \A other \in Session :
            /\ script[other].step \in {"transforming", "committed"} <=> script[other] \in RunScript
            /\ script[other].step \in {"measure", "record"} <=> script[other] \in ValidationScript
            /\ script[other] \in RunScript => script[other].kind \in RunKind
            /\ script[other] \in ValidationScript => script[other].kind \in {"task", "validate"}
      BY <1>1, ScriptOf
    <3>2. \A other \in Session :
            /\ script'[other].step \in {"transforming", "committed"} <=> script'[other] \in RunScript
            /\ script'[other].step \in {"measure", "record"} <=> script'[other] \in ValidationScript
      <4>1. \A other \in Session : script'[other] \in Script \cup {NoScript}
        BY <1>2 DEF TypeOK
      <4> QED
        BY <4>1, ScriptValue
    <3> QED
      BY <3>1, <3>2
  <2>a. ASSUME script[s].kind \in RunKind, NEW other \in Session, other # s
        PROVE  script[other] \notin RunScript /\ script[other] \notin ValidationScript
    BY <2>a, RunAlone
  <2>1. ASSUME NEW kind \in FileKind, StartRun(s, kind)
        PROVE  EvidenceInv'
    <3>1. /\ kind \in RunKind
          /\ script' = [script EXCEPT ![s] = [kind |-> kind, step |-> "transforming",
                                              next |-> 1, found |-> FALSE]]
          /\ \A other \in Session : script[other].kind \in {"compare", "none"}
      BY <1>1, <2>1, AloneAtStart DEF StartRun, Open
    <3>2. script \in [Session -> Script \cup {NoScript}]
      BY <1>1 DEF TypeOK
    <3>3. CompanyInv'
      BY <3>1, <3>2 DEF CompanyInv, RunKind
    <3>4. RunningInv'
      BY <2>0, <2>1, <3>1, <3>2, Stamped, <1>1 DEF RunningInv, StartRun, RunKind
    <3>5. \A other \in Session : script'[other] \notin ValidationScript
      BY <2>0, <3>1, <3>2
    <3>6. ValidationInv' /\ FreshInv'
      BY <1>1, <2>1, <3>5, StampedFresh DEF ValidationInv, StartRun
    <3> QED
      BY <1>2, <3>3, <3>4, <3>6 DEF EvidenceInv
  <2>2. CASE CommitRun(s)
    <3>1. script[s] \in RunScript /\ script[s].kind \in RunKind /\ runtime = "RUNNING"
      BY <1>1, <2>0, <2>2 DEF CommitRun, At, RunningInv
    <3>2. /\ script \in [Session -> Script \cup {NoScript}]
          /\ script' = [script EXCEPT ![s].step = "committed"]
      BY <1>1, <2>2 DEF CommitRun, GoTo, TypeOK
    <3>3. \A other \in Session : script'[other].kind = script[other].kind
      BY <3>2, <3>1 DEF RunScript
    <3>4. CompanyInv'
      BY <1>1, <3>3, CompanyKept
    <3>5. RunningInv'
      BY <2>2, <3>1 DEF RunningInv, CommitRun
    <3>6. \A other \in Session : script'[other] \notin ValidationScript
      BY <2>0, <2>a, <3>1, <3>2 DEF RunScript
    <3>7. ValidationInv'
      BY <3>6 DEF ValidationInv
    <3>8. FreshInv'
      BY <1>1, <2>2, <3>1 DEF FreshInv, DqFresh, Fresh, CommitRun
    <3> QED
      BY <1>2, <3>4, <3>5, <3>7, <3>8 DEF EvidenceInv
  <2>3. CASE FailRun(s)
    <3>1. script[s].kind \in RunKind
      BY <2>0, <2>3 DEF FailRun, At
    <3>2. /\ script \in [Session -> Script \cup {NoScript}]
          /\ script' = [script EXCEPT ![s] = NoScript]
      BY <1>1, <2>3 DEF FailRun, Close, TypeOK
    <3>3. \A other \in Session : script'[other].kind = script[other].kind
                                   \/ script'[other].kind = "none"
      BY <3>2 DEF NoScript
    <3>4. CompanyInv'
      BY <1>1, <3>3, CompanyKept
    <3>5. script'[s] = NoScript /\ NoScript.step = "none"
      BY <3>2 DEF NoScript
    <3>6. \A other \in Session : script'[other] \notin RunScript
                                   /\ script'[other] \notin ValidationScript
      BY <2>0, <2>a, <3>1, <3>2, <3>5
    <3>7. RunningInv' /\ ValidationInv' /\ FreshInv'
      BY <1>1, <2>3, <3>6, StampedFresh DEF RunningInv, ValidationInv, FailRun
    <3> QED
      BY <1>2, <3>4, <3>7 DEF EvidenceInv
  <2>4. CASE RecordRun(s)
    <3>1. script[s] \in RunScript /\ script[s].kind \in RunKind
      BY <2>0, <2>4 DEF RecordRun, At
    <3>2. /\ script \in [Session -> Script \cup {NoScript}]
          /\ \/ script' = [script EXCEPT ![s].step = "measure"]
             \/ script' = [script EXCEPT ![s] = NoScript]
      BY <1>1, <2>4 DEF RecordRun, GoTo, Close, TypeOK
    <3>3. \A other \in Session : script'[other].kind = script[other].kind
                                   \/ script'[other].kind = "none"
      BY <3>1, <3>2 DEF NoScript, RunScript
    <3>4. CompanyInv'
      BY <1>1, <3>3, CompanyKept
    <3>5. script'[s].step \in {"measure", "none"}
      BY <3>1, <3>2 DEF NoScript, RunScript
    <3>6. \A other \in Session : /\ script'[other] \notin RunScript
                                 /\ other # s => script'[other] \notin ValidationScript
      BY <2>0, <2>a, <3>1, <3>2, <3>5
    <3>7. StampRun(s, "SUCCESS")
      BY <2>4 DEF RecordRun
    <3>8. recorded'[s] = {}
      BY <1>1, <3>7, Stamped
    <3>9. ValidationInv'
      <4> SUFFICES ASSUME NEW other \in Session, script'[other] \in ValidationScript
                   PROVE  /\ Current(recorded[other])' /\ Fresh(recorded[other])'
                          /\ script'[other].step # "record"
        BY DEF ValidationInv, At
      <4>1. other = s
        BY <3>6
      <4> QED
        BY <3>5, <3>8, <4>1 DEF Current, Fresh
    <3>10. RunningInv'
      BY <3>6 DEF RunningInv
    <3>11. FreshInv'
      BY <1>1, <3>7, StampedFresh
    <3> QED
      BY <1>2, <3>4, <3>9, <3>10, <3>11 DEF EvidenceInv
  <2>5. CASE StartValidation(s)
    <3>1. /\ script \in [Session -> Script \cup {NoScript}]
          /\ script' = [script EXCEPT ![s] = [kind |-> "validate", step |-> "measure",
                                              next |-> 1, found |-> FALSE]]
          /\ recorded' = [recorded EXCEPT ![s] = {}] /\ recorded'[s] = {}
      BY <1>1, <2>5 DEF StartValidation, Open, TypeOK
    <3>2. \A other \in Session : script[other].kind \notin RunKind
      BY <1>1, <2>5, AloneAtStart DEF StartValidation, Open
    <3>3. CompanyInv'
      BY <3>1, <3>2 DEF CompanyInv, RunKind
    <3>4. RunningInv'
      BY <2>0, <3>1, <3>2 DEF RunningInv
    <3>5. ValidationInv'
      <4> SUFFICES ASSUME NEW other \in Session, script'[other] \in ValidationScript
                   PROVE  /\ ~RunPerCheck => Current(recorded[other])' /\ Fresh(recorded[other])'
                          /\ At(other, "record")' =>
                               script'[other].found = (Validation[script'[other].next] \in flaws')
        BY DEF ValidationInv
      <4>1. CASE other = s
        BY <3>1, <4>1 DEF Current, Fresh, At
      <4>2. CASE other # s
        <5>1. /\ script'[other] = script[other] /\ recorded'[other] = recorded[other]
              /\ flaws' = flaws
          BY <2>5, <3>1, <4>2 DEF StartValidation
        <5> QED
          BY <1>1, <5>1 DEF ValidationInv, Current, Fresh, At
      <4> QED
        BY <4>1, <4>2
    <3>6. FreshInv'
      BY <1>1, <2>5 DEF FreshInv, DqFresh, Fresh, Current, StartValidation
    <3> QED
      BY <1>2, <3>3, <3>4, <3>5, <3>6 DEF EvidenceInv
  <2>6. CASE MeasureCheck(s)
    <3> DEFINE flawed == Validation[script[s].next] \in flaws
    <3>1. /\ script \in [Session -> Script \cup {NoScript}]
          /\ script' = [script EXCEPT ![s] = [script[s] EXCEPT !.step = "record",
                                                              !.found = flawed]]
          /\ script[s] \in ValidationScript
      BY <1>1, <2>0, <2>6 DEF MeasureCheck, At, TypeOK
    <3>2. /\ script'[s].found = flawed /\ script'[s].next = script[s].next
          /\ script'[s].kind = script[s].kind /\ script'[s].step = "record"
      BY <3>1 DEF ValidationScript
    <3>3. \A other \in Session : other # s => script'[other] = script[other]
      BY <3>1
    <3>4. CompanyInv'
      BY <1>1, <3>2, <3>3, CompanyKept
    <3>5. RunningInv'
      BY <1>1, <2>0, <2>6, <3>2, <3>3 DEF RunningInv, MeasureCheck
    <3>6. ValidationInv'
      <4>1. UNCHANGED <<flaws, recorded>>
        BY <2>6 DEF MeasureCheck
      <4>2. \A other \in Session : script'[other] \in ValidationScript =>
              script[other] \in ValidationScript
        BY <3>1, <3>3
      <4> QED
        BY <1>1, <3>2, <3>3, <4>1, <4>2 DEF ValidationInv, Current, Fresh, At
    <3>7. FreshInv'
      BY <1>1, <2>6 DEF FreshInv, DqFresh, Fresh, Current, MeasureCheck
    <3> QED
      BY <1>2, <3>4, <3>5, <3>6, <3>7 DEF EvidenceInv
  <2>7. CASE RecordCheck(s)
    <3>1. /\ script \in [Session -> Script \cup {NoScript}]
          /\ script[s] \in ValidationScript
          /\ \/ script' = [script EXCEPT ![s] = NoScript]
             \/ script' = [script EXCEPT ![s] = [script[s] EXCEPT !.step = "measure",
                                                   !.next = @ + 1, !.found = FALSE]]
      BY <1>1, <2>0, <2>7 DEF RecordCheck, At, NextCheck, Close, TypeOK
    <3>2. /\ script'[s].kind \in {script[s].kind, "none"}
          /\ script'[s].step \in {"measure", "none"}
      <4>1. NoScript.kind = "none" /\ NoScript.step = "none"
        BY DEF NoScript
      <4>2. LET x == [script[s] EXCEPT !.step = "measure", !.next = @ + 1, !.found = FALSE]
            IN  x.kind = script[s].kind /\ x.step = "measure"
        BY <3>1 DEF ValidationScript
      <4>3. script'[s] \in {NoScript, [script[s] EXCEPT !.step = "measure", !.next = @ + 1,
                                                       !.found = FALSE]}
        BY <3>1
      <4> QED
        BY <4>1, <4>2, <4>3
    <3>3. \A other \in Session : other # s => script'[other] = script[other]
      BY <3>1
    <3>4. CompanyInv'
      BY <1>1, <3>2, <3>3, CompanyKept
    <3>5. RunningInv'
      BY <1>1, <2>0, <2>7, <3>2, <3>3 DEF RunningInv, RecordCheck
    <3> DEFINE now == ResultNow(s)
    <3>6. now.fresh /\ (now.failed <=> now.check \in flaws)
      <4>1. ~RunPerCheck => At(s, "record")
        BY <2>7 DEF RecordCheck
      <4> QED
        BY <1>1, <3>1, <4>1, ResultOf, ModelAssumption DEF ValidationInv
    <3>7. /\ ~RunPerCheck => Current(recorded[s]) /\ Fresh(recorded[s])
          /\ flaws' = flaws /\ runtime' = runtime /\ compared' = compared
          /\ recorded'[s] = recorded[s] \cup {now}
          /\ \A other \in Session : other # s => recorded'[other] = recorded[other]
          /\ dq' = {now} \cup (IF RunPerCheck THEN {} ELSE recorded[s])
      BY <1>1, <2>7, <3>1 DEF RecordCheck, ValidationInv, TypeOK
    <3> HIDE DEF now
    <3>8. ValidationInv'
      <4> SUFFICES ASSUME NEW other \in Session, script'[other] \in ValidationScript
                   PROVE  /\ ~RunPerCheck => Current(recorded[other])' /\ Fresh(recorded[other])'
                          /\ At(other, "record")' =>
                               script'[other].found = (Validation[script'[other].next] \in flaws')
        BY DEF ValidationInv
      <4>1. CASE other = s
        BY <3>2, <3>6, <3>7, <4>1 DEF Current, Fresh, At
      <4>2. CASE other # s
        BY <1>1, <3>3, <3>7, <4>2 DEF ValidationInv, Current, Fresh, At
      <4> QED
        BY <4>1, <4>2
    <3>9. FreshInv'
      <4>1. \A r \in dq' : r.fresh /\ (r.failed <=> r.check \in flaws)
        BY <3>6, <3>7 DEF Current, Fresh
      <4>2. runtime = "SUCCESS" => \A r \in compared : r.fresh => (r.failed <=> r.check \in flaws)
        BY <1>1 DEF FreshInv, Current
      <4> QED
        BY <3>7, <4>1, <4>2 DEF FreshInv, DqFresh, Fresh, Current
    <3> QED
      BY <1>2, <3>4, <3>5, <3>8, <3>9 DEF EvidenceInv
  <2>8. CASE StartComparison(s)
    <3>1. /\ script \in [Session -> Script \cup {NoScript}]
          /\ script' = [script EXCEPT ![s] = [kind |-> "compare", step |-> "compare",
                                              next |-> 1, found |-> FALSE]]
      BY <1>1, <2>8 DEF StartComparison, Open, TypeOK
    <3>2. /\ script'[s].kind = "compare" /\ script'[s].step = "compare"
          /\ \A other \in Session : other # s => script'[other] = script[other]
      BY <3>1
    <3>3. CompanyInv'
      BY <1>1, <3>2 DEF CompanyInv, RunKind
    <3>4. script'[s] \notin RunScript /\ script'[s] \notin ValidationScript
      BY <2>0, <3>2
    <3>5. RunningInv'
      BY <1>1, <2>8, <3>2, <3>4 DEF RunningInv, StartComparison
    <3>6. ValidationInv' /\ FreshInv'
      <4>1. UNCHANGED <<flaws, evidence, recorded>>
        BY <2>8 DEF StartComparison
      <4>2. ValidationInv'
        BY <1>1, <3>2, <3>4, <4>1 DEF ValidationInv, Current, Fresh, At
      <4>3. FreshInv'
        BY <1>1, <4>1 DEF FreshInv, DqFresh, Current, Fresh
      <4> QED
        BY <4>2, <4>3
    <3> QED
      BY <1>2, <3>3, <3>5, <3>6 DEF EvidenceInv
  <2>9. CASE RecordComparison(s)
    <3>1. /\ script \in [Session -> Script \cup {NoScript}]
          /\ script[s] \in ComparisonScript
          /\ \/ script' = [script EXCEPT ![s] = NoScript]
             \/ script' = [script EXCEPT ![s] = [script[s] EXCEPT !.next = @ + 1]]
      BY <1>1, <2>9, ScriptOf DEF RecordComparison, At, Close, TypeOK
    <3>2. /\ script'[s].kind \in {script[s].kind, "none"}
          /\ script'[s].step \in {"compare", "none"}
      <4>1. NoScript.kind = "none" /\ NoScript.step = "none"
        BY DEF NoScript
      <4>2. LET x == [script[s] EXCEPT !.next = @ + 1]
            IN  x.kind = script[s].kind /\ x.step = "compare"
        BY <3>1 DEF ComparisonScript
      <4>3. script'[s] \in {NoScript, [script[s] EXCEPT !.next = @ + 1]}
        BY <3>1
      <4> QED
        BY <4>1, <4>2, <4>3
    <3>3. \A other \in Session : other # s => script'[other] = script[other]
      BY <3>1
    <3>4. UNCHANGED <<flaws, runtime, dq, recorded>>
      BY <2>9 DEF RecordComparison
    <3>5. CompanyInv'
      BY <1>1, <3>2, <3>3, CompanyKept
    <3>6. RunningInv'
      BY <1>1, <2>0, <3>2, <3>3, <3>4 DEF RunningInv
    <3>7. script'[s] \notin ValidationScript
      BY <2>0, <3>2
    <3>8. ValidationInv'
      BY <1>1, <3>3, <3>4, <3>7 DEF ValidationInv, Current, Fresh, At
    <3>9. FreshInv'
      <4> DEFINE check == Comparison[script[s].next]
      <4> DEFINE now == [check |-> check, failed |-> check \in flaws, fresh |-> TRUE]
      <4>1. compared' \subseteq compared \cup {now}
        BY <2>9 DEF RecordComparison
      <4>2. now.failed <=> now.check \in flaws
        OBVIOUS
      <4> HIDE DEF now
      <4>3. runtime = "SUCCESS" =>
              \A r \in dq \cup compared : r.fresh => (r.failed <=> r.check \in flaws)
        BY <1>1 DEF FreshInv, Current
      <4>4. runtime = "SUCCESS" =>
              \A r \in dq \cup compared' : r.fresh => (r.failed <=> r.check \in flaws)
        BY <4>1, <4>2, <4>3
      <4> QED
        BY <1>1, <3>4, <4>4 DEF FreshInv, DqFresh, Current, Fresh
    <3> QED
      BY <1>2, <3>5, <3>6, <3>8, <3>9 DEF EvidenceInv
  <2>10. CASE Stop(s)
    <3>1. /\ script \in [Session -> Script \cup {NoScript}]
          /\ script' = [script EXCEPT ![s] = NoScript]
          /\ recorded' = [recorded EXCEPT ![s] = {}]
      BY <1>1, <2>10 DEF Stop, Close, TypeOK
    <3>2. script'[s].kind = "none" /\ script'[s].step = "none"
      BY <3>1 DEF NoScript
    <3>3. \A other \in Session : other # s => script'[other] = script[other]
                                             /\ recorded'[other] = recorded[other]
      BY <1>1, <3>1 DEF TypeOK
    <3>4. UNCHANGED <<flaws, evidence>>
      BY <2>10 DEF Stop
    <3>5. CompanyInv'
      BY <1>1, <3>2, <3>3, CompanyKept
    <3>6. RunningInv'
      BY <1>1, <2>0, <3>2, <3>3, <3>4 DEF RunningInv
    <3>7. script'[s] \notin ValidationScript
      BY <2>0, <3>2
    <3>8. ValidationInv'
      BY <1>1, <3>3, <3>4, <3>7 DEF ValidationInv, Current, Fresh, At
    <3>9. FreshInv'
      BY <1>1, <3>4 DEF FreshInv, DqFresh, Current, Fresh
    <3> QED
      BY <1>2, <3>5, <3>6, <3>8, <3>9 DEF EvidenceInv
  <2> QED
    BY <1>5, <2>1, <2>2, <2>3, <2>4, <2>5, <2>6, <2>7, <2>8, <2>9, <2>10 DEF Execute
<1> QED
  BY <1>3, <1>4, <1>5 DEF Next

\* The inductive invariant of the evidence, for any checks and sessions: a run has
\* no company but comparisons, the newest stamp is its own, a validation in progress
\* has seen one state of the data, and what is fresh is about the last run's data.
THEOREM EvidenceInvariant == ASSUME RunsAlone PROVE Spec => []EvidenceInv
<1>1. Init => EvidenceInv
  <2> SUFFICES ASSUME Init PROVE EvidenceInv
    OBVIOUS
  <2>1. \A s \in Session : script[s].kind = "none" /\ script[s].step = "none"
    BY DEF Init, NoScript
  <2>2. TypeOK
    BY DEF Init, TypeOK, Check
  <2>3. \A s \in Session : script[s] \notin RunScript /\ script[s] \notin ValidationScript
    BY <2>1, <2>2, ScriptOf
  <2>4. CompanyInv /\ RunningInv /\ ValidationInv
    BY <2>1, <2>3 DEF CompanyInv, RunningInv, ValidationInv, RunKind
  <2>5. FreshInv
    BY DEF Init, FreshInv, DqFresh, Fresh, Current
  <2> QED
    BY <2>2, <2>4, <2>5 DEF EvidenceInv
<1>2. EvidenceInv /\ [Next]_vars => EvidenceInv'
  BY EvidenceStep
<1> QED
  BY <1>1, <1>2, PTL DEF Spec

\* The invariant says so of what readiness counts.
LEMMA InvariantCounts ==
  ASSUME EvidenceInv, Readiness # "BLOCKED"
  PROVE  \A r \in dq \cup compared : r.failed <=> r.check \in flaws
<1>1. ~Blocked
  BY DEF Readiness
<1>2. runtime = "SUCCESS" /\ DqFresh /\ ComparisonFresh
  BY <1>1 DEF Blocked
<1>3. \A r \in dq \cup compared : r.fresh
  BY <1>2 DEF EvidenceInv, FreshInv, Fresh, ComparisonFresh
<1> QED
  BY <1>2, <1>3 DEF EvidenceInv, FreshInv, Current

\* What readiness counts is about the data the candidate holds now.
THEOREM CountedCurrent == ASSUME RunsAlone PROVE Spec => []CountedIsCurrent
<1>1. EvidenceInv => CountedIsCurrent
  BY InvariantCounts DEF CountedIsCurrent
<1> QED
  BY <1>1, EvidenceInvariant, PTL

\* A run between its RUNNING row and its end blocks the release.
THEOREM RunInProgressBlocks == ASSUME RunsAlone PROVE Spec => []RunBlocks
<1>1. EvidenceInv => RunBlocks
  <2> SUFFICES ASSUME EvidenceInv, NEW s \in Session,
                      script[s].step \in {"transforming", "committed"}
               PROVE  Blocked
    BY DEF RunBlocks
  <2>1. script[s] \in RunScript
    BY ScriptOf DEF EvidenceInv
  <2> QED
    BY <2>1 DEF EvidenceInv, RunningInv, Blocked
<1> QED
  BY <1>1, EvidenceInvariant, PTL

\* If all results of a validation carry one RUN_ID, as in the procedure, then for any
\* checks and sessions, whatever overlaps: when it ends, each failure it has recorded
\* is in the latest DQ run, and the candidate is blocked.
THEOREM FailureBlocks == ASSUME ~RunPerCheck PROVE Spec => FailedDqBlocks
<1>1. TypeOK /\ [Next]_vars =>
        [\A s \in Session :
           (RecordCheck(s) /\ ~Running(s)' /\ \E r \in recorded'[s] : r.failed) => Blocked']_vars
  <2> SUFFICES ASSUME TypeOK, NEW s \in Session, RecordCheck(s), NEW r \in recorded'[s], r.failed
               PROVE  Blocked'
    OBVIOUS
  <2>1. dq' = recorded'[s]
    BY DEF RecordCheck, TypeOK
  <2> QED
    BY <2>1 DEF Blocked, DqFailed
<1> QED
  BY <1>1, EvidenceTypeCorrect, PTL DEF Spec, FailedDqBlocks

=============================================================================
