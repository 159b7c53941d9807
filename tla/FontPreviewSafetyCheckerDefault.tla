------------------- MODULE FontPreviewSafetyCheckerDefault ------------------
(***************************************************************************)
(* The cache with the checker the application gives it: one worker thread  *)
(* per check, whose answer is posted to the UI thread, where the checker   *)
(* passes it on, stops the thread and deletes it; and the destruction of   *)
(* both when the application ends, with checks possibly still running.     *)
(*                                                                         *)
(* A worker may hang inside the font stack and never answer; if it does    *)
(* answer, FontSanity says what.  It is then back in its event loop, so    *)
(* quit() and wait() end it.                                               *)
(***************************************************************************)
EXTENDS FontPreviewSafetyCache, FontSanity

CONSTANTS Threads,  \* slots for QThread objects
          NoThread,
          FontTables  \* what fonts the keys may name: functions on Keys

ASSUME CheckerAssumption ==
    /\ NoThread \notin Threads
    /\ \A table \in FontTables : \A k \in Keys :
          table[k].merged = NoPicture \/ IsFiniteSet(table[k].merged)

VARIABLES font,       \* the font of each key
          m_threads,  \* the thread the checker holds for each key
          thread,     \* the QThread objects and what their workers do
          answers,    \* worker answers posted to the checker, as <<thread, ok>>
          alive       \* the cache and its checker exist

checkerVars == <<font, m_threads, thread, answers, alive>>
allVars == <<vars, checkerVars>>

\* The worker is "checking" inside the font stack, or "idle" once it has answered; there is
\* no object ("deleted"), or the destructor gave up on it ("left").
Deleted == [state |-> "deleted", key |-> NoThread]

DefaultInit == /\ Init
               /\ font \in FontTables
               /\ m_threads = [k \in Keys |-> NoThread]
               /\ thread = [t \in Threads |-> Deleted]
               /\ answers = <<>>
               /\ alive = TRUE

-----------------------------------------------------------------------------
\* A new thread; which of the free slots it gets does not matter.
Free == {t \in Threads : thread[t].state = "deleted"}
NewThread(k) ==
    /\ Free # {}
    /\ thread' = [thread EXCEPT ![CHOOSE t \in Free : TRUE] = [state |-> "checking", key |-> k]]

\* Spawn the thread, remember it under its key.
StartThread(k) ==
    /\ NewThread(k)
    /\ m_threads' = [m_threads EXCEPT ![k] = CHOOSE t \in Free : TRUE]

Request(k) ==
    /\ alive
    /\ RequestCheck(k)
    /\ IF running'[k] > running[k] THEN StartThread(k) ELSE UNCHANGED <<thread, m_threads>>
    /\ UNCHANGED <<font, answers, alive>>

TimeOut(k) == alive /\ onCheckTimedOut(k) /\ UNCHANGED checkerVars

Finish == alive /\ onCheckFinished /\ UNCHANGED checkerVars

\* checkRequested() returns from the font stack and posts its answer; one whose checker
\* is gone has nobody to tell.
WorkerAnswers(t) ==
    /\ thread[t].state = "checking"
    /\ thread' = [thread EXCEPT ![t].state = "idle"]
    /\ answers' = Append(answers, <<t, checkPreviewLooksSane(font[thread[t].key])>>)
    /\ UNCHANGED <<vars, font, m_threads, alive>>

\* The checker's slot: emit checkFinished, forget the thread, quit, wait, delete.
PassOn ==
    /\ alive /\ answers # <<>>
    /\ answers' = Tail(answers)
    /\ LET t == Head(answers)[1]
       IN /\ CheckerAnswers(thread[t].key, Head(answers)[2])
          /\ m_threads' = [m_threads EXCEPT ![thread[t].key] = NoThread]
          /\ thread' = [thread EXCEPT ![t] = Deleted]
    /\ UNCHANGED <<font, alive>>

Held == {m_threads[k] : k \in Keys} \ {NoThread}

\* Fault: what the destructor waited for is deleted even if it still runs.
Destroy_DeletesAll ==
    /\ alive /\ alive' = FALSE
    /\ thread' = [t \in Threads |-> IF t \in Held THEN Deleted ELSE thread[t]]
    /\ m_threads' = [k \in Keys |-> NoThread]
    /\ UNCHANGED <<vars, font, answers>>

\* ~FontPreviewSafetyCheckerDefault(): each thread is told to quit and given 50 ms.  A
\* worker that answers in that time did so just before; one still inside the font stack is
\* left running and its thread object is not deleted.
Destroy ==
    /\ alive /\ alive' = FALSE
    /\ thread' = [t \in Threads |->
                    IF t \notin Held THEN thread[t]
                    ELSE IF thread[t].state = "idle" THEN Deleted
                    ELSE [thread[t] EXCEPT !.state = "left"]]
    /\ m_threads' = [k \in Keys |-> NoThread]
    /\ UNCHANGED <<vars, font, answers>>

DefaultNext == \/ \E k \in Keys : Request(k) \/ TimeOut(k)
               \/ Finish
               \/ \E t \in Threads : WorkerAnswers(t)
               \/ PassOn
               \/ Destroy

\* Any client: keys are asked for at any time and in any order, or never.
DefaultSpec == DefaultInit /\ [][DefaultNext]_allVars

\* The font stack owes nothing ("implementations MAY hang or never finish").  This is what one that
\* always returns adds, as long as the application runs.
FontStackReturns == []alive /\ \A t \in Threads : WF_allVars(WorkerAnswers(t))

HasVerdict(k) == status[k] = IF checkPreviewLooksSane(font[k]) THEN "Safe" ELSE "Bad"

-----------------------------------------------------------------------------
\* A font that Qt draws with its own family is Safe only if its preview shows something, and,
\* where its glyphs can be read and are not replaced by those of other fonts, shows some of them.
SafePreviewsShow ==
    \A k \in Keys : status[k] = "Safe" /\ ~NothingToDraw(font[k]) =>
        LET ref == renderReferenceMask(font[k])
        IN /\ font[k].merged \notin {NoPicture, {}}
           /\ ref # NoPicture /\ ~GlyphsOfOthers(font[k]) => font[k].merged \cap ref # {}

\* A thread object is deleted only after its worker has left the font stack, by the slot
\* and by the destructor alike: deleting a running QThread aborts the program.
NoRunningThreadDeleted ==
    [][\A t \in Threads : thread'[t].state = "deleted" /\ thread[t].state # "deleted" =>
          thread[t].state = "idle"]_allVars

\* After the destructor only checks that hang are left: every thread was either deleted by
\* its answer's slot or found through m_threads.
OnlyHungThreadsLeft ==
    ~alive => \A t \in Threads : thread[t].state \in {"deleted", "left"}
=============================================================================
