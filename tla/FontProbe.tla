----------------------------- MODULE FontProbe -----------------------------
(***************************************************************************)
(* vcstream_fontprobe: a process that runs each rendering scenario in a     *)
(* worker process of its own, because a bad font may crash a scenario or    *)
(* hang it.  The workers come one after another; how far one gets is        *)
(* nondeterministic, and it may stop for good at any stage.                 *)
(***************************************************************************)
EXTENDS Integers, SequencesExt

CONSTANTS
    Installed,      \* the families of the font database, in order
    CommandLines,   \* the options: [family, outDir, stress, stressScan, stressMaxFamilies]
    ForeignCodes,   \* exit codes with which a library under the worker may end it
    None            \* there is no worker

ASSUME ProbeAssumption ==
    /\ Installed \in Seq(Range(Installed)) /\ IsInjective(Installed)
    /\ CommandLines \subseteq
          [family : {c.family : c \in CommandLines}, outDir : {"writable", "unwritable"},
           stress : BOOLEAN, stressScan : BOOLEAN, stressMaxFamilies : Int]
    /\ ForeignCodes \subseteq Int \ {0}

VARIABLES
    cfg,            \* RunConfig of the orchestrator
    phase,          \* "start", "orchestrating" or "done"
    pending,        \* scenarios that are still to run
    worker,         \* RunConfig of the worker, with its scenario
    stage,          \* where the worker is, "none" if there is none
    workerCode,     \* its exit code, once it exited
    drawn,          \* whether it has saved the picture of its scenario
    families,       \* the model of the worker's list
    worst, skipped, \* as in runOrchestrator()
    exitCode,       \* of the orchestrator
    outcomes        \* history: what became of each scenario so far

vars == <<cfg, phase, pending, worker, stage, workerCode, drawn, families, worst, skipped, exitCode, outcomes>>

Quick == {"quick-qt", "quick-native", "quick-scroll-qt", "quick-scroll-native"}
Stress == {"quick-scroll-qt", "quick-scroll-native"}

\* The stages of a worker that started and has not ended.
Working == {"paint", "compile", "grab", "scroll"}

Scenarios(c) == <<"qpaint", "quick-qt", "quick-native">>
                \o (IF c.stress THEN <<"quick-scroll-qt", "quick-scroll-native">> ELSE <<>>)

-----------------------------------------------------------------------------
(* The list of a stress scenario *)

Position(list, e) == CHOOSE i \in DOMAIN list : list[i] = e

\* Fault: the window begins one family too early.
FirstKept_Early(list, family, keep) == Max({1, Position(list, family) - keep \div 2 - 1})

\* The requested family in the middle, unless the list begins before.
FirstKept(list, family, keep) == Max({1, Position(list, family) - keep \div 2})

WithRequested(list, family) == IF Contains(list, family) THEN list ELSE <<family>> \o list

familiesInModel(c) ==
    LET all == WithRequested(Installed, c.family)
        keep == c.stressMaxFamilies
        first == FirstKept(all, c.family, keep)
    IN IF keep > 0 /\ Len(all) > keep
       THEN WithRequested(SubSeq(all, first, Min({first + keep - 1, Len(all)})), c.family)
       ELSE all

-----------------------------------------------------------------------------
(* main(): the options, and the orchestrator *)

Init ==
    /\ cfg \in CommandLines /\ phase = "start" /\ pending = <<>>
    /\ worker = None /\ stage = "none" /\ workerCode = 0 /\ drawn = FALSE /\ families = <<>>
    /\ worst = 0 /\ skipped = 0 /\ exitCode = 0 /\ outcomes = <<>>

\* A negative bound means none.
Bounded(c) == [c EXCEPT !.stressMaxFamilies = Max({0, c.stressMaxFamilies})]

main ==
    /\ phase = "start"
    /\ cfg' = Bounded(cfg)
    /\ IF cfg.outDir = "unwritable" \/ cfg.family = ""
       THEN phase' = "done" /\ exitCode' = 2 /\ UNCHANGED pending
       ELSE phase' = "orchestrating" /\ pending' = Scenarios(cfg) /\ UNCHANGED exitCode
    /\ UNCHANGED <<worker, stage, workerCode, drawn, families, worst, skipped, outcomes>>

\* What the worker's command line has of the options; its main() reads it again.
Passed(c, scenario) ==
    [scenario |-> scenario, family |-> c.family, outDir |-> c.outDir, stress |-> c.stress,
     stressScan |-> FALSE, stressMaxFamilies |-> c.stressMaxFamilies]

StartWorker ==
    /\ phase = "orchestrating" /\ stage = "none" /\ pending # <<>>
    /\ worker' = Passed(cfg, Head(pending)) /\ pending' = Tail(pending)
    /\ stage' = "starting"
    /\ UNCHANGED <<cfg, phase, workerCode, drawn, families, worst, skipped, exitCode, outcomes>>

\* Fault: the last failure is reported.
WorkerGone_Last(how, code) ==
    /\ worker' = None /\ stage' = "none" /\ workerCode' = 0 /\ drawn' = FALSE /\ families' = <<>>
    /\ outcomes' = Append(outcomes, [scenario |-> worker.scenario, how |-> how])
    /\ worst' = code
    /\ UNCHANGED <<cfg, phase, pending, exitCode>>

\* The scenario is over and its code counts; ~QProcess ends what is still running.
WorkerGone(how, code) ==
    /\ worker' = None /\ stage' = "none" /\ workerCode' = 0 /\ drawn' = FALSE /\ families' = <<>>
    /\ outcomes' = Append(outcomes, [scenario |-> worker.scenario, how |-> how])
    /\ worst' = Max({worst, code})
    /\ UNCHANGED <<cfg, phase, pending, exitCode>>

\* waitForStarted(2000) fails.
StartFails == /\ stage = "starting"
              /\ WorkerGone("notStarted", 100)
              /\ UNCHANGED skipped

\* Fault: a worker that started is waited for as long as it takes.
Timeout_StartOnly == /\ stage = "starting"
                     /\ WorkerGone("timeout", 124)
                     /\ UNCHANGED skipped

\* waitForFinished() fails: the worker is killed.
Timeout == /\ stage \in Working
           /\ WorkerGone("timeout", 124)
           /\ UNCHANGED skipped

Crashed == /\ stage = "crashed"
           /\ WorkerGone("crashed", 125)
           /\ UNCHANGED skipped

\* "Qt Quick may be unavailable in this environment"
treatAsSkipped(code) == worker.scenario \in Quick /\ code \in {3, 4, 5}

\* What a scenario came to whose worker exited: its code is all the orchestrator sees.
HowItExited == IF workerCode = 0 THEN IF drawn THEN "drawn" ELSE "notDrawn"
               ELSE IF treatAsSkipped(workerCode) THEN "skipped"
               ELSE IF workerCode < 0 THEN "negative" ELSE "failed"

Exited == /\ stage = "exited"
          /\ WorkerGone(HowItExited, IF treatAsSkipped(workerCode) THEN 0 ELSE workerCode)
          /\ skipped' = IF treatAsSkipped(workerCode) THEN skipped + 1 ELSE skipped

Report == /\ phase = "orchestrating" /\ stage = "none" /\ pending = <<>>
          /\ phase' = "done" /\ exitCode' = worst
          /\ UNCHANGED <<cfg, pending, worker, stage, workerCode, drawn, families, worst, skipped, outcomes>>

-----------------------------------------------------------------------------
(* The worker *)

orchestrator == <<cfg, phase, pending, worst, skipped, exitCode, outcomes>>

ExitWith(code) == stage' = "exited" /\ workerCode' = code

\* The worker's own main() and runWorkerOnce().
WorkerStarts ==
    /\ stage = "starting"
    /\ stage' = IF worker.scenario = "qpaint" THEN "paint" ELSE "compile"
    /\ families' = IF worker.scenario \in Stress THEN familiesInModel(worker) ELSE <<>>
    /\ UNCHANGED <<worker, workerCode, drawn, orchestrator>>

\* runQPainterScenario(): the picture is saved, or the code says that it is not.
WorkerPaints == /\ stage = "paint"
                /\ \E code \in {0, 2} : ExitWith(code) /\ drawn' = (code = 0)
                /\ UNCHANGED <<worker, families, orchestrator>>

\* The component does not get ready in 2 s, or is created as something else.
WorkerCompiles ==
    /\ stage = "compile"
    /\ \/ \E code \in {3, 4} : ExitWith(code)
       \/ /\ stage' = IF worker.scenario \in Stress THEN "scroll" ELSE "grab"
          /\ UNCHANGED workerCode
    /\ UNCHANGED <<worker, drawn, families, orchestrator>>

\* runQtQuickScenario(): no image, or it cannot be saved.
WorkerGrabs == /\ stage = "grab"
               /\ \E code \in {0, 5, 6} : ExitWith(code) /\ drawn' = (code = 0)
               /\ UNCHANGED <<worker, families, orchestrator>>

\* runQtQuickScrollStress(): no list, or its last position is grabbed.  Whether there is an image,
\* and whether it can be saved, the code does not say.
WorkerScrolls == /\ stage = "scroll"
                 /\ \/ ExitWith(8) /\ UNCHANGED drawn
                    \/ ExitWith(0) /\ drawn' \in BOOLEAN
                 /\ UNCHANGED <<worker, families, orchestrator>>

\* An exception is caught by the guard of main().
WorkerThrows == /\ stage \in Working /\ ExitWith(1)
                /\ UNCHANGED <<worker, drawn, families, orchestrator>>

\* A library ends the process with a code of its own: on Windows a normal exit whatever the sign,
\* and abort() may be one with code 3.
WorkerIsEnded == /\ stage \in Working /\ \E code \in ForeignCodes : ExitWith(code)
                 /\ UNCHANGED <<worker, drawn, families, orchestrator>>

WorkerCrashes == /\ stage \in Working /\ stage' = "crashed"
                 /\ UNCHANGED <<worker, workerCode, drawn, families, orchestrator>>

Worker == \/ WorkerStarts \/ WorkerPaints \/ WorkerCompiles \/ WorkerGrabs \/ WorkerScrolls
          \/ WorkerThrows \/ WorkerIsEnded \/ WorkerCrashes

Orchestrator == main \/ StartWorker \/ StartFails \/ Timeout \/ Crashed \/ Exited \/ Report

Next == Orchestrator \/ Worker

\* The orchestrator goes on and its waits end; a worker owes nothing, not even to start.
Spec == Init /\ [][Next]_vars /\ WF_vars(Orchestrator)

-----------------------------------------------------------------------------
(* Properties *)

\* Whatever the fonts do to the workers, every scenario is tried and the probe ends.
ProbeEnds == <>(phase = "done")

\* The failures that the exit code does not have: a scroll scenario that exits with 0 without its
\* picture, and a negative code, which the maximum with 0 drops.
Untold(o) == \/ o.how = "notDrawn" /\ o.scenario \in Stress
             \/ o.how = "negative"

\* The exit code is zero only if every scenario was tried and each drew its picture, was skipped
\* and counted as such, or failed in one of the two untold ways: neither a later success nor a
\* skipped scenario hides any other failure.
FailuresAreTold ==
    (phase = "done" /\ exitCode = 0) =>
        /\ Len(outcomes) = Len(Scenarios(cfg))
        /\ \A i \in DOMAIN outcomes : outcomes[i].how \in {"drawn", "skipped"} \/ Untold(outcomes[i])
        /\ skipped = Cardinality({i \in DOMAIN outcomes : outcomes[i].how = "skipped"})

\* "Max families in stress model" holds, and the family that is probed is among them, installed
\* or not and wherever in the list it stands.
RequestedInModel ==
    families # <<>> => /\ Contains(families, worker.family)
                       /\ worker.stressMaxFamilies > 0 => Len(families) <= worker.stressMaxFamilies

=============================================================================
