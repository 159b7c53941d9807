----------------------- MODULE FontPreviewSafetyCache -----------------------
(***************************************************************************)
(* The policy of the font preview safety check: which (family, pixel size) *)
(* keys are checked, when a check counts as stuck, and when new checks are *)
(* blocked.  Every action is one UI-thread call or event; the mutex of the *)
(* code is never contended, because all of them run on that thread.        *)
(*                                                                         *)
(* The checker is seen through its contract (FontPreviewSafetyChecker):    *)
(* after startCheck(k) it may answer once, late, or never.  The module     *)
(* FontPreviewSafetyCheckerDefault gives the checker the application uses. *)
(***************************************************************************)
EXTENDS Naturals, Sequences, FiniteSets

CONSTANTS Keys,           \* the (family, pixelSize) pairs
          maxStuckChecks  \* Config::maxStuckChecks

ASSUME CacheAssumption == maxStuckChecks \in Nat \ {0}

VARIABLES status,        \* m_status
          countedStuck,  \* m_countedStuck: the keys it maps to true
          stuckChecks,   \* m_stuckChecks
          timers,        \* single-shot timers pending for each key
          running,       \* started checks of each key the checker has not answered
          results        \* checkFinished calls queued for the cache, as <<key, ok>>

vars == <<status, countedStuck, stuckChecks, timers, running, results>>

Status == {"NeverChecked", "Checking", "Safe", "Bad", "TimedOut", "Blocked"}

\* The statuses for which requestCheck() is a no-op.
Settled == {"Safe", "Bad", "Checking", "TimedOut"}

TypeOK == /\ status \in [Keys -> Status]
          /\ countedStuck \subseteq Keys
          /\ stuckChecks \in Nat
          /\ timers \in [Keys -> Nat]
          /\ running \in [Keys -> Nat]
          /\ results \in Seq(Keys \X BOOLEAN)

Init == /\ status = [k \in Keys |-> "NeverChecked"]
        /\ countedStuck = {}
        /\ stuckChecks = 0
        /\ timers = [k \in Keys |-> 0]
        /\ running = [k \in Keys |-> 0]
        /\ results = <<>>

-----------------------------------------------------------------------------
\* Hand the key to the checker and arm its timer.
startCheck(k) == /\ running' = [running EXCEPT ![k] = @ + 1]
                 /\ timers' = [timers EXCEPT ![k] = @ + 1]

\* requestCheck(), a no-op for the statuses of S.  Past the limit it only marks the key.
RequestCheckUnless(k, S) ==
    /\ status[k] \notin S
    /\ IF stuckChecks >= maxStuckChecks
       THEN /\ status' = [status EXCEPT ![k] = "Blocked"]
            /\ UNCHANGED <<timers, running>>
       ELSE /\ status' = [status EXCEPT ![k] = "Checking"]
            /\ startCheck(k)
    /\ UNCHANGED <<countedStuck, stuckChecks, results>>

\* Fault: a timed-out key is checked again.
RequestCheck_RetriesTimedOut(k) == RequestCheckUnless(k, Settled \ {"TimedOut"})

RequestCheck(k) == RequestCheckUnless(k, Settled)

\* Fault: the timer does not look whether an answer came first.
onCheckTimedOut_Always(k) ==
    /\ timers[k] > 0
    /\ timers' = [timers EXCEPT ![k] = @ - 1]
    /\ status' = [status EXCEPT ![k] = "TimedOut"]
    /\ countedStuck' = countedStuck \cup {k}
    /\ stuckChecks' = stuckChecks + 1
    /\ UNCHANGED <<running, results>>

\* The timer of the key fires; it means nothing if the check has been answered.
onCheckTimedOut(k) ==
    /\ timers[k] > 0
    /\ timers' = [timers EXCEPT ![k] = @ - 1]
    /\ IF status[k] = "Checking"
       THEN /\ status' = [status EXCEPT ![k] = "TimedOut"]
            /\ countedStuck' = countedStuck \cup {k}
            /\ stuckChecks' = IF k \in countedStuck THEN stuckChecks ELSE stuckChecks + 1
       ELSE UNCHANGED <<status, countedStuck, stuckChecks>>
    /\ UNCHANGED <<running, results>>

\* The checker answers: its signal is queued for the cache.
CheckerAnswers(k, ok) ==
    /\ running[k] > 0
    /\ running' = [running EXCEPT ![k] = @ - 1]
    /\ results' = Append(results, <<k, ok>>)
    /\ UNCHANGED <<status, countedStuck, stuckChecks, timers>>

\* Fault: a late answer does not give back the place of the stuck check.
onCheckFinished_KeepsStuck ==
    /\ results # <<>>
    /\ results' = Tail(results)
    /\ LET k == Head(results)[1]
           ok == Head(results)[2]
       IN IF status[k] \in {"Checking", "TimedOut"}
          THEN status' = [status EXCEPT ![k] = IF ok THEN "Safe" ELSE "Bad"]
          ELSE UNCHANGED status
    /\ UNCHANGED <<countedStuck, stuckChecks, timers, running>>

\* A late answer replaces TimedOut and frees the place the check was counted for.
onCheckFinished ==
    /\ results # <<>>
    /\ results' = Tail(results)
    /\ LET k == Head(results)[1]
           ok == Head(results)[2]
       IN IF status[k] \in {"Checking", "TimedOut"}
          THEN /\ status' = [status EXCEPT ![k] = IF ok THEN "Safe" ELSE "Bad"]
               /\ countedStuck' = countedStuck \ {k}
               /\ stuckChecks' = IF k \in countedStuck /\ stuckChecks > 0
                                 THEN stuckChecks - 1 ELSE stuckChecks
          ELSE UNCHANGED <<status, countedStuck, stuckChecks>>
    /\ UNCHANGED <<timers, running>>

Next == \/ \E k \in Keys : \/ RequestCheck(k)
                           \/ onCheckTimedOut(k)
                           \/ \E ok \in BOOLEAN : CheckerAnswers(k, ok)
        \/ onCheckFinished

Spec == Init /\ [][Next]_vars

-----------------------------------------------------------------------------
Queued(k) == {i \in DOMAIN results : results[i][1] = k}

\* The counter that blocks new checks is exactly the number of keys shown as timed out,
\* whichever of timeout and answer comes first: no place is lost and none is given back twice.
StuckChecksExact == /\ countedStuck = {k \in Keys : status[k] = "TimedOut"}
                    /\ stuckChecks = Cardinality(countedStuck)

\* A key is in the checker's hands at most once, ever: FontPreviewSafetyCheckerDefault keeps
\* one thread per key and would lose the first if the key were started again.  An answer is
\* outstanding only while the cache waits for it.
StartedAtMostOnce ==
    \A k \in Keys :
        /\ running[k] + Cardinality(Queued(k)) <= 1
        /\ running[k] + Cardinality(Queued(k)) = 1 <=> status[k] \in {"Checking", "TimedOut"}

\* A verdict is final, and a timed-out key changes only into one: "requesting again while
\* TimedOut does not re-run the check" (tst_fontpreviewsafetycache.cpp:171).
VerdictsAreFinal ==
    [][\A k \in Keys : /\ status[k] \in {"Safe", "Bad"} => status'[k] = status[k]
                       /\ status[k] = "TimedOut" => status'[k] \in {"TimedOut", "Safe", "Bad"}]_vars

=============================================================================
