-------------------------- MODULE FontProbeProofs --------------------------
(***************************************************************************)
(* Proofs about the font probe, for any installed families and any command *)
(* lines.  FailuresAreTold follows from an account of the scenarios: what  *)
(* is over, running and pending makes up the whole list (Accounted), and   *)
(* the worst code is zero only while every outcome was a picture, a skip or *)
(* an untold failure (Judged).                                              *)
(* RequestedInModel follows from where the window of the list is cut.      *)
(***************************************************************************)
EXTENDS FontProbe, FiniteSetTheorems, SequenceTheorems, TLAPS

ScenarioNames == {"qpaint"} \cup Quick
Hows == {"drawn", "notDrawn", "skipped", "negative", "failed", "crashed", "timeout", "notStarted"}
Outcomes == [scenario : ScenarioNames, how : Hows]
Stages == {"none", "starting", "exited", "crashed"} \cup Working
Skipped(seq) == {i \in DOMAIN seq : seq[i].how = "skipped"}

\* What an exit code of zero may stand for.
ZeroFor(o) == o.how \in {"drawn", "skipped"} \/ Untold(o)

-----------------------------------------------------------------------------
(* Sequences and maxima *)

\* The larger of two numbers.
LEMMA MaxOfTwo ==
    ASSUME NEW a \in Int, NEW b \in Int
    PROVE  Max({a, b}) = IF a >= b THEN a ELSE b
  <1>1. \E x \in {a, b} : \A y \in {a, b} : x >= y
    OBVIOUS
  <1>. QED
    BY <1>1 DEF Max

\* The smaller of two numbers.
LEMMA MinOfTwo ==
    ASSUME NEW a \in Int, NEW b \in Int
    PROVE  Min({a, b}) = IF a <= b THEN a ELSE b
  <1>1. \E x \in {a, b} : \A y \in {a, b} : x =< y
    OBVIOUS
  <1>. QED
    BY <1>1 DEF Min

\* A family that is in the list stands at its position.
LEMMA PositionOf ==
    ASSUME NEW S, NEW list \in Seq(S), NEW e, Contains(list, e)
    PROVE  Position(list, e) \in 1..Len(list) /\ list[Position(list, e)] = e
  <1>1. \E i \in DOMAIN list : list[i] = e
    BY DEF Contains
  <1>. QED
    BY <1>1 DEF Position

\* The requested family is added in front of a list that lacks it.
LEMMA WithRequestedContains ==
    ASSUME NEW S, NEW list \in Seq(S), NEW e \in S
    PROVE  /\ WithRequested(list, e) \in Seq(S)
           /\ Contains(WithRequested(list, e), e)
  <1>1. CASE Contains(list, e)
    BY <1>1 DEF WithRequested
  <1>2. CASE ~Contains(list, e)
    <2>1. WithRequested(list, e) = <<e>> \o list
      BY <1>2 DEF WithRequested
    <2>2. /\ <<e>> \o list \in Seq(S) /\ Len(<<e>> \o list) = 1 + Len(list)
          /\ (<<e>> \o list)[1] = e
      OBVIOUS
    <2>. QED
      BY <2>1, <2>2 DEF Contains
  <1>. QED
    BY <1>1, <1>2

-----------------------------------------------------------------------------
(* The list of a stress scenario *)

\* The window of the list has the requested family and is not longer than the bound.
LEMMA WindowHasFamily ==
    ASSUME NEW S, NEW list \in Seq(S), NEW e \in S, Contains(list, e),
           NEW keep \in Nat \ {0}, Len(list) > keep,
           NEW first, first = FirstKept(list, e, keep),
           NEW last, last = Min({first + keep - 1, Len(list)})
    PROVE  /\ SubSeq(list, first, last) \in Seq(S)
           /\ Contains(SubSeq(list, first, last), e)
           /\ Len(SubSeq(list, first, last)) <= keep
  <1>. DEFINE at == Position(list, e)
              half == keep \div 2
  <1>1. at \in 1..Len(list) /\ list[at] = e
    BY PositionOf
  <1>2. half \in Nat /\ half < keep
    OBVIOUS
  <1>3. first = Max({1, at - half})
    BY DEF FirstKept
  <1>. HIDE DEF at, half
  <1>. Len(list) \in Nat
    OBVIOUS
  <1>4. at - half \in Int
    BY <1>1, <1>2
  <1>5. first = IF 1 >= at - half THEN 1 ELSE at - half
    BY <1>3, <1>4, MaxOfTwo
  <1>6. first \in 1..at /\ at <= first + keep - 1
    BY <1>5, <1>4, <1>1, <1>2
  <1>7. last = IF first + keep - 1 <= Len(list) THEN first + keep - 1 ELSE Len(list)
    BY <1>6, MinOfTwo
  <1>8. last \in at..Len(list) /\ last - first + 1 <= keep
    BY <1>7, <1>6, <1>1
  <1>9. first \in 1..Len(list) /\ last \in first..Len(list)
    BY <1>8, <1>6, <1>1
  <1>11. /\ SubSeq(list, first, last) \in Seq(S)
         /\ Len(SubSeq(list, first, last)) = last - first + 1
         /\ \A i \in 1..(last - first + 1) : SubSeq(list, first, last)[i] = list[first + i - 1]
    <2>1. first \in Int /\ last \in Int /\ first >= 1 /\ first <= last /\ last <= Len(list)
      BY <1>9
    <2>. QED
      BY ONLY <2>1, list \in Seq(S)
  <1>12. at - first + 1 \in 1..(last - first + 1) /\ first + (at - first + 1) - 1 = at
    <2>1. /\ at \in Int /\ first \in Int /\ last \in Int
          /\ first <= at /\ at <= last
      BY <1>6, <1>8, <1>1
    <2>. QED BY ONLY <2>1
  <1>13. SubSeq(list, first, last)[at - first + 1] = e
    BY <1>11, <1>12, <1>1
  <1>14. Contains(SubSeq(list, first, last), e)
    <2>. DEFINE cut == SubSeq(list, first, last)
                i == at - first + 1
    <2>1. cut \in Seq(S) /\ i \in 1..Len(cut) /\ cut[i] = e
      BY <1>11, <1>12, <1>13
    <2>. HIDE DEF cut, i
    <2>2. Contains(cut, e)
      BY <2>1 DEF Contains
    <2>. QED BY <2>2 DEF cut
  <1>. QED
    BY <1>8, <1>11, <1>14

\* The families of a worker have the one it was asked for, within a bound if there is one.
LEMMA ModelHasFamily ==
    ASSUME NEW c, c.stressMaxFamilies \in Nat
    PROVE  /\ Contains(familiesInModel(c), c.family)
           /\ c.stressMaxFamilies > 0 => Len(familiesInModel(c)) <= c.stressMaxFamilies
  <1>. DEFINE S == Range(Installed) \cup {c.family}
              all == WithRequested(Installed, c.family)
              keep == c.stressMaxFamilies
              first == FirstKept(all, c.family, keep)
              last == Min({first + keep - 1, Len(all)})
  <1>1. all \in Seq(S) /\ Contains(all, c.family)
    <2>1. Installed \in Seq(S)
      BY ProbeAssumption
    <2>. QED
      BY <2>1, WithRequestedContains
  <1>2. CASE keep > 0 /\ Len(all) > keep
    <2>1. familiesInModel(c) = WithRequested(SubSeq(all, first, last), c.family)
      BY <1>2 DEF familiesInModel
    <2>2. /\ Contains(SubSeq(all, first, last), c.family)
          /\ Len(SubSeq(all, first, last)) <= keep
      <3>. HIDE DEF S, all, first, last
      <3>1. keep \in Nat \ {0} /\ c.family \in S
        BY <1>2 DEF S
      <3>2. first = FirstKept(all, c.family, keep)
        BY DEF first
      <3>3. last = Min({first + keep - 1, Len(all)})
        BY DEF last
      <3>. HIDE DEF keep
      <3>. QED
        BY <1>1, <1>2, <3>1, <3>2, <3>3, WindowHasFamily
    <2>3. familiesInModel(c) = SubSeq(all, first, last)
      BY <2>1, <2>2 DEF WithRequested
    <2>. QED
      BY <2>2, <2>3
  <1>3. CASE ~(keep > 0 /\ Len(all) > keep)
    <2>1. familiesInModel(c) = all
      BY <1>3 DEF familiesInModel
    <2>2. Len(all) \in Nat
      BY <1>1
    <2>. QED
      BY <1>1, <1>3, <2>1, <2>2
  <1>. QED
    BY <1>2, <1>3

-----------------------------------------------------------------------------
(* Types, and what the worker is *)

Options == [family : {c.family : c \in CommandLines}, outDir : {"writable", "unwritable"},
            stress : BOOLEAN, stressScan : BOOLEAN, stressMaxFamilies : Int]

\* Every variable has its type; the bound is negative only before main() reads it.
TypeOK ==
    /\ cfg \in Options /\ phase \in {"start", "orchestrating", "done"}
    /\ phase # "start" => cfg.stressMaxFamilies \in Nat
    /\ pending \in Seq(ScenarioNames) /\ stage \in Stages
    /\ workerCode \in Int /\ drawn \in BOOLEAN
    /\ worst \in Nat /\ skipped \in Nat /\ exitCode \in Nat /\ outcomes \in Seq(Outcomes)

\* The worker has what the orchestrator passed to it, and its list is made from that; only a
\* scroll scenario scrolls, and only one exits with zero without its picture.
WorkerIs ==
    /\ stage # "none" => \E s \in ScenarioNames : worker = Passed(cfg, s)
    /\ families # <<>> => stage # "none" /\ families = familiesInModel(worker)
    /\ stage # "none" => phase = "orchestrating"
    /\ stage = "scroll" => worker.scenario \in Stress
    /\ stage = "exited" /\ workerCode = 0 /\ ~drawn => worker.scenario \in Stress

Typed == TypeOK /\ WorkerIs

\* What the scenarios are depends on the options alone.
LEMMA ScenariosType ==
    ASSUME NEW c
    PROVE  Scenarios(c) \in Seq(ScenarioNames)
  <1>. DEFINE more == IF c.stress THEN <<"quick-scroll-qt", "quick-scroll-native">> ELSE <<>>
              always == <<"qpaint", "quick-qt", "quick-native">>
  <1>1. more \in Seq(ScenarioNames) /\ always \in Seq(ScenarioNames)
    <2>1. always \in Seq(ScenarioNames)
      BY DEF ScenarioNames, Quick
    <2>3. <<"quick-scroll-qt", "quick-scroll-native">> \in Seq(ScenarioNames)
      BY DEF ScenarioNames, Quick
    <2>2. <<>> \in Seq(ScenarioNames)
      OBVIOUS
    <2>. QED
      BY <2>1, <2>2, <2>3, Zenon
  <1>2. Scenarios(c) = always \o more
    BY DEF Scenarios
  <1>. HIDE DEF more, always
  <1>. QED
    BY <1>1, <1>2

\* An outcome is added, and the worst code is the larger.
LEMMA WorkerGoneParts ==
    ASSUME Typed, stage # "none", NEW how \in Hows, NEW code \in Int, WorkerGone(how, code)
    PROVE  /\ stage' = "none" /\ workerCode' = 0 /\ drawn' = FALSE /\ families' = <<>>
           /\ UNCHANGED <<cfg, phase, pending, exitCode>>
           /\ outcomes' = Append(outcomes, [scenario |-> worker.scenario, how |-> how])
           /\ [scenario |-> worker.scenario, how |-> how] \in Outcomes
           /\ outcomes' \in Seq(Outcomes)
           /\ worst' \in Nat /\ worst' = IF worst >= code THEN worst ELSE code
  <1>. DEFINE outcome == [scenario |-> worker.scenario, how |-> how]
  <1>1. worst' = Max({worst, code}) /\ outcomes' = Append(outcomes, outcome)
    BY DEF WorkerGone
  <1>2. worst \in Nat /\ outcomes \in Seq(Outcomes)
    BY DEF Typed, TypeOK
  <1>3. worst' = IF worst >= code THEN worst ELSE code
    BY <1>1, <1>2, MaxOfTwo
  <1>4. outcome \in Outcomes
    <2>1. PICK s \in ScenarioNames : worker = Passed(cfg, s)
      BY DEF Typed, WorkerIs
    <2>2. worker.scenario \in ScenarioNames
      BY <2>1 DEF Passed
    <2>. QED
      BY <2>2 DEF Outcomes
  <1>5. /\ stage' = "none" /\ workerCode' = 0 /\ drawn' = FALSE /\ families' = <<>>
        /\ UNCHANGED <<cfg, phase, pending, exitCode>>
    BY DEF WorkerGone
  <1>6. outcomes' \in Seq(Outcomes)
    <2>. HIDE DEF outcome
    <2>. QED
      BY <1>1, <1>2, <1>4
  <1>7. worst' \in Nat
    BY <1>2, <1>3
  <1>. QED
    BY <1>1, <1>3, <1>4, <1>5, <1>6, <1>7

\* A worker ends one by one: the four ways a scenario is over.  Its code counts nothing only
\* after a picture, a skip or an untold failure.
LEMMA ScenarioOver ==
    ASSUME Typed, StartFails \/ Timeout \/ Crashed \/ Exited
    PROVE  \E how \in Hows, code \in Int :
              /\ stage # "none" /\ WorkerGone(how, code)
              /\ code <= 0 => ZeroFor([scenario |-> worker.scenario, how |-> how])
              /\ skipped' = IF how = "skipped" THEN skipped + 1 ELSE skipped
  <1>1. CASE StartFails
    <2>1. stage # "none" /\ WorkerGone("notStarted", 100) /\ skipped' = skipped
      BY <1>1 DEF StartFails
    <2>. QED
      BY <2>1 DEF Hows
  <1>2. CASE Timeout
    <2>1. stage # "none" /\ WorkerGone("timeout", 124) /\ skipped' = skipped
      BY <1>2 DEF Timeout, Working
    <2>. QED
      BY <2>1 DEF Hows
  <1>3. CASE Crashed
    <2>1. stage # "none" /\ WorkerGone("crashed", 125) /\ skipped' = skipped
      BY <1>3 DEF Crashed
    <2>. QED
      BY <2>1 DEF Hows
  <1>4. CASE Exited
    <2>. DEFINE code == workerCode
                treated == treatAsSkipped(code)
                how == HowItExited
                counted == IF treated THEN 0 ELSE code
    <2>1. /\ stage = "exited" /\ WorkerGone(how, counted)
          /\ skipped' = IF treated THEN skipped + 1 ELSE skipped
      BY <1>4 DEF Exited
    <2>2. how = IF code = 0 THEN IF drawn THEN "drawn" ELSE "notDrawn"
                ELSE IF treated THEN "skipped" ELSE IF code < 0 THEN "negative" ELSE "failed"
      BY DEF HowItExited
    <2>3. code \in Int
      BY DEF Typed, TypeOK
    <2>4. treated => code # 0
      BY <2>3 DEF treatAsSkipped
    <2>5. code = 0 /\ ~drawn => worker.scenario \in Stress
      BY <2>1 DEF Typed, WorkerIs
    <2>. HIDE DEF code, treated, how
    <2>6. how \in Hows /\ counted \in Int
      BY <2>2, <2>3 DEF Hows
    <2>7. counted <= 0 => ZeroFor([scenario |-> worker.scenario, how |-> how])
      BY <2>2, <2>3, <2>4, <2>5 DEF ZeroFor, Untold
    <2>8. skipped' = IF how = "skipped" THEN skipped + 1 ELSE skipped
      BY <2>1, <2>2, <2>4
    <2>. QED
      BY <2>1, <2>6, <2>7, <2>8
  <1>. QED
    BY <1>1, <1>2, <1>3, <1>4

\* Lists, options and counters keep their types, and a worker what it was asked for.
LEMMA StepTyped ==
    ASSUME Typed, [Next]_vars
    PROVE  Typed'
  <1>. USE DEF Typed
  <1>1. CASE main
    <2>1. cfg \in Options /\ DOMAIN cfg = {"family", "outDir", "stress", "stressScan", "stressMaxFamilies"}
      BY DEF TypeOK, Options
    <2>2. Max({0, cfg.stressMaxFamilies}) \in Nat
      BY <2>1, MaxOfTwo DEF Options
    <2>. DEFINE bound == Max({0, cfg.stressMaxFamilies})
    <2>. HIDE DEF bound
    <2>3. cfg' \in Options /\ cfg'.stressMaxFamilies \in Nat
      <3>1. cfg' = [cfg EXCEPT !.stressMaxFamilies = bound]
        BY <1>1 DEF main, Bounded, bound
      <3>2. bound \in Nat
        BY <2>2 DEF bound
      <3>. QED
        BY <3>1, <3>2, <2>1 DEF Options
    <2>4. pending' \in Seq(ScenarioNames)
      BY <1>1, ScenariosType DEF main, TypeOK
    <2>5. TypeOK'
      <3>1. exitCode' \in Nat /\ phase' \in {"orchestrating", "done"}
        <4>1. CASE cfg.outDir = "unwritable" \/ cfg.family = ""
          <5>1. exitCode' = 2 /\ phase' = "done"
            BY <1>1, <4>1 DEF main
          <5>. QED
            BY <5>1
        <4>2. CASE ~(cfg.outDir = "unwritable" \/ cfg.family = "")
          <5>1. exitCode' = exitCode /\ phase' = "orchestrating"
            BY <1>1, <4>2 DEF main
          <5>. QED
            BY <5>1 DEF TypeOK
        <4>. QED
          BY <4>1, <4>2
      <3>2. UNCHANGED <<worker, stage, workerCode, drawn, families, worst, skipped, outcomes>>
        BY <1>1 DEF main
      <3>. QED
        BY <3>1, <3>2, <2>3, <2>4 DEF TypeOK
    <2>6. stage = "none" /\ stage' = "none" /\ families = <<>> /\ families' = <<>>
      BY <1>1 DEF main, WorkerIs
    <2>. QED
      BY <2>5, <2>6 DEF WorkerIs
  <1>2. CASE StartWorker
    <2>1. Head(pending) \in ScenarioNames /\ Tail(pending) \in Seq(ScenarioNames)
      BY <1>2 DEF StartWorker, TypeOK
    <2>2. TypeOK'
      BY <1>2, <2>1 DEF StartWorker, TypeOK, Stages
    <2>3. WorkerIs'
      BY <1>2, <2>1 DEF StartWorker, WorkerIs
    <2>. QED
      BY <2>2, <2>3
  <1>3. CASE StartFails \/ Timeout \/ Crashed \/ Exited
    <2>1. PICK how \in Hows, code \in Int :
             /\ stage # "none" /\ WorkerGone(how, code)
             /\ skipped' = IF how = "skipped" THEN skipped + 1 ELSE skipped
      BY <1>3, ScenarioOver
    <2>2. /\ stage' = "none" /\ workerCode' = 0 /\ drawn' = FALSE /\ families' = <<>>
          /\ UNCHANGED <<cfg, phase, pending, exitCode>>
          /\ outcomes' \in Seq(Outcomes) /\ worst' \in Nat
      BY <2>1, WorkerGoneParts
    <2>4. skipped' \in Nat
      <3>1. skipped \in Nat
        BY DEF TypeOK
      <3>. QED
        BY <2>1, <3>1
    <2>5. drawn' \in BOOLEAN
      BY <2>2, Zenon
    <2>3. TypeOK'
      <3>1. stage' \in Stages /\ workerCode' \in Int
        BY <2>2 DEF Stages
      <3>2. UNCHANGED <<cfg, phase, pending, exitCode>> /\ outcomes' \in Seq(Outcomes) /\ worst' \in Nat
        BY <2>2
      <3>. QED
        BY <2>4, <2>5, <3>1, <3>2 DEF TypeOK
    <2>. QED
      BY <2>2, <2>3 DEF WorkerIs
  <1>4. CASE Report
    BY <1>4 DEF Report, TypeOK, WorkerIs
  <1>5. CASE Worker
    <2>1. /\ stage # "none" /\ stage' \in Stages \ {"none"} /\ UNCHANGED <<worker, orchestrator>>
          /\ workerCode' \in Int /\ drawn' \in BOOLEAN
          /\ families' \in {families, familiesInModel(worker), <<>>}
          /\ stage' = "scroll" => worker.scenario \in Stress
          /\ stage' = "exited" /\ workerCode' = 0 /\ ~drawn' => worker.scenario \in Stress
      <3>. USE DEF Stages, Working, ExitWith
      <3>0. workerCode \in Int /\ drawn \in BOOLEAN
        BY DEF TypeOK
      <3>1. CASE WorkerStarts
        BY <3>0, <3>1 DEF WorkerStarts
      <3>2. CASE WorkerPaints
        <4>1. PICK code \in {0, 2} : ExitWith(code) /\ drawn' = (code = 0)
          BY <3>2 DEF WorkerPaints
        <4>2. workerCode' = 0 => drawn'
          BY <4>1
        <4>. QED
          BY <3>2, <4>1, <4>2 DEF WorkerPaints
      <3>3. CASE WorkerCompiles
        <4>1. stage = "compile" /\ UNCHANGED <<worker, drawn, families, orchestrator>>
          BY <3>3 DEF WorkerCompiles
        <4>2. CASE \E code \in {3, 4} : ExitWith(code)
          BY <3>0, <4>1, <4>2
        <4>3. CASE UNCHANGED workerCode /\ stage' = IF worker.scenario \in Stress THEN "scroll" ELSE "grab"
          <5>1. CASE worker.scenario \in Stress
            BY <3>0, <4>1, <4>3, <5>1
          <5>2. CASE worker.scenario \notin Stress
            BY <3>0, <4>1, <4>3, <5>2
          <5>. QED
            BY <5>1, <5>2
        <4>. QED
          BY <3>3, <4>2, <4>3 DEF WorkerCompiles
      <3>4. CASE WorkerGrabs
        <4>1. PICK code \in {0, 5, 6} : ExitWith(code) /\ drawn' = (code = 0)
          BY <3>4 DEF WorkerGrabs
        <4>2. workerCode' = 0 => drawn'
          BY <4>1
        <4>. QED
          BY <3>4, <4>1, <4>2 DEF WorkerGrabs
      <3>5. CASE WorkerScrolls
        <4>1. worker.scenario \in Stress
          BY <3>5 DEF WorkerScrolls, WorkerIs
        <4>. QED
          BY <3>0, <3>5, <4>1 DEF WorkerScrolls
      <3>6. CASE WorkerThrows
        BY <3>0, <3>6 DEF WorkerThrows
      <3>7. CASE WorkerCrashes
        BY <3>0, <3>7 DEF WorkerCrashes
      <3>8. CASE WorkerIsEnded
        BY <3>0, <3>8, ProbeAssumption DEF WorkerIsEnded
      <3>. QED
        BY <1>5, <3>1, <3>2, <3>3, <3>4, <3>5, <3>6, <3>7, <3>8 DEF Worker
    <2>2. TypeOK'
      BY <2>1 DEF TypeOK, orchestrator
    <2>3. WorkerIs'
      BY <2>1 DEF WorkerIs, orchestrator
    <2>. QED
      BY <2>2, <2>3
  <1>6. CASE UNCHANGED vars
    BY <1>6 DEF vars, TypeOK, WorkerIs
  <1>. QED
    BY <1>1, <1>2, <1>3, <1>4, <1>5, <1>6 DEF Next, Orchestrator

\* The probe begins with options read from the command line and nothing under way.
LEMMA InitTyped ==
    ASSUME Init
    PROVE  Typed
  <1>1. cfg \in Options
    BY ProbeAssumption DEF Init, Options
  <1>2. TypeOK
    <2>1. drawn \in BOOLEAN
      BY Zenon DEF Init
    <2>2. /\ phase = "start" /\ stage = "none" /\ pending = <<>> /\ outcomes = <<>>
          /\ workerCode = 0 /\ worst = 0 /\ skipped = 0 /\ exitCode = 0
      BY DEF Init
    <2>. QED
      BY <1>1, <2>1, <2>2 DEF TypeOK, Stages
  <1>3. stage = "none" /\ families = <<>>
    BY DEF Init
  <1>. QED
    BY <1>2, <1>3 DEF Typed, WorkerIs

\* The options, the lists and the counters of the probe keep their types; once main() has
\* read it, the bound of the list is a natural number.
THEOREM TypeCorrect == Spec => []TypeOK
  <1>1. Init => Typed
    BY InitTyped
  <1>2. Typed /\ [Next]_vars => Typed'
    BY StepTyped
  <1>3. Typed => TypeOK
    BY DEF Typed
  <1>. QED
    BY <1>1, <1>2, <1>3, PTL DEF Spec

\* The list of a stress worker always has the family that is probed, wherever it stands and
\* installed or not, and keeps the bound of "Max families in stress model".
THEOREM RequestedAlwaysInModel == Spec => []RequestedInModel
  <1>1. Init => Typed
    BY InitTyped
  <1>2. Typed /\ [Next]_vars => Typed'
    BY StepTyped
  <1>3. Typed => RequestedInModel
    <2>. SUFFICES ASSUME Typed, families # <<>>
                  PROVE  /\ Contains(families, worker.family)
                         /\ worker.stressMaxFamilies > 0 =>
                               Len(families) <= worker.stressMaxFamilies
      BY DEF RequestedInModel
    <2>1. PICK s \in ScenarioNames : worker = Passed(cfg, s)
      BY DEF Typed, WorkerIs
    <2>2. phase = "orchestrating" /\ families = familiesInModel(worker)
      BY DEF Typed, WorkerIs
    <2>3. worker.stressMaxFamilies \in Nat
      BY <2>1, <2>2 DEF Typed, TypeOK, Passed
    <2>. QED
      BY <2>2, <2>3, ModelHasFamily
  <1>. QED
    BY <1>1, <1>2, <1>3, PTL DEF Spec

-----------------------------------------------------------------------------
(* The account of the scenarios *)

\* Every scenario is over, running or pending; a probe that ends has refused its options or
\* is through with the list.
Accounted ==
    /\ phase = "start" => outcomes = <<>>
    /\ phase = "orchestrating" =>
         /\ stage = "none" => Len(outcomes) + Len(pending) = Len(Scenarios(cfg))
         /\ stage # "none" => Len(outcomes) + 1 + Len(pending) = Len(Scenarios(cfg))
    /\ phase = "done" =>
         exitCode = 2 \/ (exitCode = worst /\ Len(outcomes) = Len(Scenarios(cfg)))

\* While the worst code is zero nothing has failed but untold, and the skipped ones are counted.
Judged ==
    /\ worst = 0 => \A i \in DOMAIN outcomes : ZeroFor(outcomes[i])
    /\ IsFiniteSet(Skipped(outcomes)) /\ skipped = Cardinality(Skipped(outcomes))

Told == Typed /\ Accounted /\ Judged

\* One more outcome: it counts as skipped if it is.
LEMMA SkippedAppend ==
    ASSUME NEW seq \in Seq(Outcomes), NEW outcome \in Outcomes, IsFiniteSet(Skipped(seq))
    PROVE  /\ IsFiniteSet(Skipped(Append(seq, outcome)))
           /\ Cardinality(Skipped(Append(seq, outcome))) =
                 IF outcome.how = "skipped" THEN Cardinality(Skipped(seq)) + 1
                                        ELSE Cardinality(Skipped(seq))
  <1>. DEFINE next == Len(seq) + 1
  <1>1. /\ DOMAIN Append(seq, outcome) = DOMAIN seq \cup {next} /\ next \notin DOMAIN seq
        /\ Append(seq, outcome)[next] = outcome
        /\ \A i \in DOMAIN seq : Append(seq, outcome)[i] = seq[i]
    OBVIOUS
  <1>. HIDE DEF next
  <1>2. next \notin Skipped(seq)
    BY <1>1 DEF Skipped
  <1>3. CASE outcome.how = "skipped"
    <2>1. Skipped(Append(seq, outcome)) = Skipped(seq) \cup {next}
      BY <1>1, <1>3 DEF Skipped
    <2>. QED
      BY <1>2, <1>3, <2>1, FS_AddElement
  <1>4. CASE outcome.how # "skipped"
    <2>1. Skipped(Append(seq, outcome)) = Skipped(seq)
      BY <1>1, <1>4 DEF Skipped
    <2>. QED
      BY <1>4, <2>1
  <1>. QED
    BY <1>3, <1>4

\* A scenario that is over moves from running to over, with its judgement.
LEMMA OverTold ==
    ASSUME Told, StartFails \/ Timeout \/ Crashed \/ Exited
    PROVE  Accounted' /\ Judged'
  <1>. USE DEF Told, Typed
  <1>1. PICK how \in Hows, code \in Int :
           /\ stage # "none" /\ WorkerGone(how, code)
           /\ code <= 0 => ZeroFor([scenario |-> worker.scenario, how |-> how])
           /\ skipped' = IF how = "skipped" THEN skipped + 1 ELSE skipped
    BY ScenarioOver
  <1>. DEFINE outcome == [scenario |-> worker.scenario, how |-> how]
  <1>2. /\ stage' = "none" /\ UNCHANGED <<cfg, phase, pending, exitCode>>
        /\ outcomes' = Append(outcomes, outcome) /\ outcome \in Outcomes
        /\ worst' = IF worst >= code THEN worst ELSE code
    BY <1>1, WorkerGoneParts
  <1>8. code <= 0 => ZeroFor(outcome)
    BY <1>1
  <1>9. skipped' = IF outcome.how = "skipped" THEN skipped + 1 ELSE skipped
    BY <1>1
  <1>. HIDE DEF outcome
  <1>3. outcomes \in Seq(Outcomes) /\ pending \in Seq(ScenarioNames) /\ worst \in Nat /\ skipped \in Nat
    BY DEF TypeOK
  <1>4. phase = "orchestrating"
    BY <1>1 DEF WorkerIs
  <1>5. Accounted'
    <2>1. Len(outcomes') = Len(outcomes) + 1 /\ Len(outcomes) \in Nat /\ Len(pending) \in Nat
      BY <1>2, <1>3
    <2>2. Scenarios(cfg)' = Scenarios(cfg)
      BY <1>2 DEF Scenarios
    <2>3. Len(outcomes) + 1 + Len(pending) = Len(Scenarios(cfg))
      BY <1>1, <1>4 DEF Accounted
    <2>. QED
      BY <1>2, <1>4, <2>1, <2>2, <2>3 DEF Accounted
  <1>6. worst' = 0 => \A i \in DOMAIN outcomes' : ZeroFor(outcomes'[i])
    <2>. SUFFICES ASSUME worst' = 0, NEW i \in DOMAIN outcomes'
                  PROVE  ZeroFor(outcomes'[i])
      OBVIOUS
    <2>1. worst = 0 /\ code <= 0
      BY <1>2, <1>3
    <2>2. i \in DOMAIN outcomes \/ i = Len(outcomes) + 1
      BY <1>2, <1>3
    <2>3. CASE i \in DOMAIN outcomes
      <3>1. outcomes'[i] = outcomes[i]
        BY <1>2, <1>3, <2>3
      <3>. QED
        BY <2>1, <2>3, <3>1 DEF Judged
    <2>4. CASE i = Len(outcomes) + 1
      <3>1. outcomes'[i] = outcome
        BY <1>2, <1>3, <2>4
      <3>. QED
        BY <1>8, <2>1, <3>1
    <2>. QED
      BY <2>2, <2>3, <2>4
  <1>7. IsFiniteSet(Skipped(outcomes')) /\ skipped' = Cardinality(Skipped(outcomes'))
    <2>1. IsFiniteSet(Skipped(outcomes)) /\ skipped = Cardinality(Skipped(outcomes))
      BY DEF Judged
    <2>. QED
      BY <1>2, <1>3, <1>9, <2>1, SkippedAppend
  <1>. QED
    BY <1>5, <1>6, <1>7 DEF Judged, Skipped, ZeroFor, Untold

\* Every step keeps the account.
LEMMA StepTold ==
    ASSUME Told, [Next]_vars
    PROVE  Told'
  <1>0. Typed'
    BY StepTyped DEF Told
  <1>. USE DEF Told, Typed
  <1>1. CASE main
    <2>1. /\ phase = "start" /\ phase' \in {"orchestrating", "done"} /\ stage = "none"
          /\ UNCHANGED <<stage, worst, skipped, outcomes>> /\ outcomes = <<>>
      BY <1>1 DEF main, WorkerIs, Accounted
    <2>2. Scenarios(cfg)' = Scenarios(cfg)
      <3>1. cfg \in Options /\ cfg' = [cfg EXCEPT !.stressMaxFamilies = Max({0, cfg.stressMaxFamilies})]
        BY <1>1 DEF main, Bounded, TypeOK
      <3>2. cfg'.stress = cfg.stress
        BY <3>1 DEF Options
      <3>. QED
        BY <3>2 DEF Scenarios
    <2>3. \/ phase' = "done" /\ exitCode' = 2
          \/ phase' = "orchestrating" /\ pending' = Scenarios(cfg)
      BY <1>1 DEF main
    <2>4. Len(outcomes) = 0 /\ Len(Scenarios(cfg)) \in Nat
      BY <2>1, ScenariosType
    <2>5. Accounted'
      BY <2>1, <2>2, <2>3, <2>4 DEF Accounted
    <2>. QED
      BY <1>0, <2>1, <2>5 DEF Judged, Skipped
  <1>2. CASE StartWorker
    <2>1. /\ phase = "orchestrating" /\ stage = "none" /\ stage' = "starting" /\ pending # <<>>
          /\ pending' = Tail(pending) /\ UNCHANGED <<cfg, phase, worst, skipped, exitCode, outcomes>>
      BY <1>2 DEF StartWorker
    <2>2. pending \in Seq(ScenarioNames) /\ outcomes \in Seq(Outcomes)
      BY DEF TypeOK
    <2>3. Len(pending) \in Nat /\ Len(pending') = Len(pending) - 1 /\ Len(outcomes) \in Nat
      BY <2>1, <2>2
    <2>4. Scenarios(cfg)' = Scenarios(cfg)
      BY <2>1 DEF Scenarios
    <2>5. Accounted'
      BY <2>1, <2>3, <2>4 DEF Accounted
    <2>. QED
      BY <1>0, <2>1, <2>5 DEF Judged, Skipped
  <1>3. CASE StartFails \/ Timeout \/ Crashed \/ Exited
    BY <1>0, <1>3, OverTold
  <1>4. CASE Report
    <2>1. /\ phase = "orchestrating" /\ stage = "none" /\ pending = <<>> /\ phase' = "done"
          /\ exitCode' = worst /\ UNCHANGED <<cfg, pending, stage, worst, skipped, outcomes>>
      BY <1>4 DEF Report
    <2>2. Scenarios(cfg)' = Scenarios(cfg) /\ Len(pending) = 0
      BY <2>1 DEF Scenarios
    <2>3. Len(outcomes) \in Nat
      BY DEF TypeOK
    <2>4. Accounted'
      BY <2>1, <2>2, <2>3 DEF Accounted
    <2>. QED
      BY <1>0, <2>1, <2>4 DEF Judged, Skipped
  <1>5. CASE Worker
    <2>1. /\ UNCHANGED <<cfg, phase, pending, worst, skipped, exitCode, outcomes>>
          /\ stage # "none" /\ stage' # "none"
      BY <1>5 DEF Worker, WorkerStarts, WorkerPaints, WorkerCompiles, WorkerGrabs, WorkerScrolls,
                  WorkerThrows, WorkerIsEnded, WorkerCrashes, ExitWith, Working, orchestrator
    <2>2. Scenarios(cfg)' = Scenarios(cfg)
      BY <2>1 DEF Scenarios
    <2>. QED
      BY <1>0, <2>1, <2>2 DEF Accounted, Judged, Skipped
  <1>6. CASE UNCHANGED vars
    <2>1. /\ UNCHANGED <<cfg, phase, pending, stage, worst, skipped, exitCode, outcomes>>
          /\ Scenarios(cfg)' = Scenarios(cfg)
      BY <1>6 DEF vars, Scenarios
    <2>. QED
      BY <1>0, <2>1 DEF Accounted, Judged, Skipped
  <1>. QED
    BY <1>1, <1>2, <1>3, <1>4, <1>5, <1>6 DEF Next, Orchestrator

\* The probe exits with zero only if every scenario of the list was tried and drew its picture,
\* was skipped and counted, or failed in one of the two ways its code does not tell: a scroll
\* scenario without a picture, a negative code.  No later success hides another failure,
\* whatever fonts do to the workers.
THEOREM FailuresAlwaysTold == Spec => []FailuresAreTold
  <1>1. Init => Told
    <2>. SUFFICES ASSUME Init PROVE Told
      OBVIOUS
    <2>1. outcomes = <<>> /\ phase = "start" /\ skipped = 0
      BY DEF Init
    <2>2. Skipped(<<>>) = {}
      BY DEF Skipped
    <2>. QED
      BY <2>1, <2>2, InitTyped, FS_EmptySet DEF Told, Accounted, Judged
  <1>2. Told /\ [Next]_vars => Told'
    BY StepTold
  <1>3. Told => FailuresAreTold
    <2>. SUFFICES ASSUME Told, phase = "done", exitCode = 0
                  PROVE  /\ Len(outcomes) = Len(Scenarios(cfg))
                         /\ \A i \in DOMAIN outcomes : ZeroFor(outcomes[i])
                         /\ skipped = Cardinality(Skipped(outcomes))
      BY DEF FailuresAreTold, ZeroFor, Skipped
    <2>1. worst = 0 /\ Len(outcomes) = Len(Scenarios(cfg))
      BY DEF Told, Accounted
    <2>. QED
      BY <2>1 DEF Told, Judged
  <1>. QED
    BY <1>1, <1>2, <1>3, PTL DEF Spec

=============================================================================
