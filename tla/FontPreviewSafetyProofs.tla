---------------------- MODULE FontPreviewSafetyProofs -----------------------
(***************************************************************************)
(* Proofs about the font preview safety cache, for any set of keys and any *)
(* limit.  The inductive invariant adds to the properties that each key is *)
(* in one place at most: with the checker, or once in the result queue.    *)
(*                                                                         *)
(* Then about the cache composed with the checker the application gives it, *)
(* for any keys, any number of threads, any limit and any fonts.  The      *)
(* composition implements the cache, so what is proved of the cache holds  *)
(* there.  What the destructor and the slot need is that the checker holds *)
(* every thread that exists under the key it checks (Linked), and that a   *)
(* thread has answered at most once (AnswersOfIdle).                       *)
(*                                                                         *)
(* Last about the picker, for any lists: it is one of the clients of       *)
(* DefaultSpec, so what is proved of any client holds of it.               *)
(***************************************************************************)
EXTENDS VcFontPicker, FiniteSetTheorems, SequenceTheorems, TLAPS

-----------------------------------------------------------------------------
(* Types *)

\* The initial state has the right types.
LEMMA InitTypeOK == Init => TypeOK
  BY EmptySeq DEF Init, TypeOK, Status

\* What a queued result is, and what taking it off leaves.
LEMMA HeadOfResults ==
  ASSUME TypeOK, results # <<>>
  PROVE  /\ Head(results)[1] \in Keys /\ Head(results)[2] \in BOOLEAN
         /\ Tail(results) \in Seq(Keys \X BOOLEAN)
  <1>1. /\ Head(results) \in Keys \X BOOLEAN
        /\ Tail(results) \in Seq(Keys \X BOOLEAN)
    BY HeadTailProperties DEF TypeOK
  <1> QED BY <1>1

\* Every step keeps the types.
LEMMA NextTypeOK == TypeOK /\ [Next]_vars => TypeOK'
  <1> SUFFICES ASSUME TypeOK, [Next]_vars PROVE TypeOK'
    OBVIOUS
  <1>1. ASSUME NEW k \in Keys, RequestCheck(k) PROVE TypeOK'
    <2>1. CASE stuckChecks >= maxStuckChecks
      <3>1. status' = [status EXCEPT ![k] = "Blocked"]
        BY <1>1, <2>1 DEF RequestCheck, RequestCheckUnless
      <3>2. UNCHANGED <<countedStuck, stuckChecks, timers, running, results>>
        BY <1>1, <2>1 DEF RequestCheck, RequestCheckUnless
      <3> QED BY <3>1, <3>2 DEF TypeOK, Status
    <2>2. CASE ~(stuckChecks >= maxStuckChecks)
      <3>1. status' = [status EXCEPT ![k] = "Checking"]
        BY <1>1, <2>2 DEF RequestCheck, RequestCheckUnless
      <3>2. /\ running' = [running EXCEPT ![k] = @ + 1]
            /\ timers' = [timers EXCEPT ![k] = @ + 1]
            /\ UNCHANGED <<countedStuck, stuckChecks, results>>
        BY <1>1, <2>2 DEF RequestCheck, RequestCheckUnless, startCheck
      <3>3. running' \in [Keys -> Nat] /\ timers' \in [Keys -> Nat]
        BY <3>2 DEF TypeOK
      <3> QED BY <3>1, <3>2, <3>3 DEF TypeOK, Status
    <2> QED BY <2>1, <2>2
  <1>2. ASSUME NEW k \in Keys, onCheckTimedOut(k) PROVE TypeOK'
    <2>1. timers' \in [Keys -> Nat]
      BY <1>2 DEF TypeOK, onCheckTimedOut
    <2>2. CASE status[k] = "Checking"
      <3>1. /\ status' = [status EXCEPT ![k] = "TimedOut"]
            /\ countedStuck' = countedStuck \cup {k}
            /\ stuckChecks' \in Nat
            /\ UNCHANGED <<running, results>>
        BY <1>2, <2>2 DEF TypeOK, onCheckTimedOut
      <3> QED BY <2>1, <3>1 DEF TypeOK, Status
    <2>3. CASE status[k] # "Checking"
      BY <1>2, <2>1, <2>3 DEF TypeOK, onCheckTimedOut
    <2> QED BY <2>2, <2>3
  <1>3. ASSUME NEW k \in Keys, NEW ok \in BOOLEAN, CheckerAnswers(k, ok) PROVE TypeOK'
    <2>1. results' \in Seq(Keys \X BOOLEAN)
      BY <1>3, AppendProperties DEF TypeOK, CheckerAnswers
    <2> QED BY <1>3, <2>1 DEF TypeOK, CheckerAnswers
  <1>4. CASE onCheckFinished
    <2>1. Tail(results) \in Seq(Keys \X BOOLEAN) /\ Head(results)[1] \in Keys
      BY <1>4, HeadOfResults DEF onCheckFinished
    <2>2. CASE status[Head(results)[1]] \in {"Checking", "TimedOut"}
      <3> DEFINE k == Head(results)[1]
      <3>1. \E v \in {"Safe", "Bad"} : status' = [status EXCEPT ![k] = v]
        BY <1>4, <2>2 DEF onCheckFinished
      <3>2. /\ countedStuck' \subseteq countedStuck
            /\ stuckChecks' \in Nat
            /\ results' = Tail(results)
            /\ UNCHANGED <<timers, running>>
        BY <1>4, <2>2 DEF TypeOK, onCheckFinished
      <3> QED BY <2>1, <3>1, <3>2 DEF TypeOK, Status
    <2>3. CASE status[Head(results)[1]] \notin {"Checking", "TimedOut"}
      BY <1>4, <2>1, <2>3 DEF TypeOK, onCheckFinished
    <2> QED BY <2>2, <2>3
  <1>5. CASE UNCHANGED vars
    BY <1>5 DEF TypeOK, vars
  <1> QED BY <1>1, <1>2, <1>3, <1>4, <1>5 DEF Next

\* The state of the cache, of its timers and of what the checker owes it is well formed
\* in every run.
THEOREM TypeCorrect == Spec => []TypeOK
  <1> QED BY InitTypeOK, NextTypeOK, PTL DEF Spec

-----------------------------------------------------------------------------
(* The counter of stuck checks *)

StuckInv == IsFiniteSet(countedStuck) /\ StuckChecksExact

\* The counter starts exact.
LEMMA InitStuck == Init => StuckInv
  BY FS_EmptySet DEF Init, StuckInv, StuckChecksExact

\* A timeout counts a key that was not counted, and a late answer gives back one that was.
LEMMA NextStuck == TypeOK /\ StuckInv /\ [Next]_vars => StuckInv'
  <1> SUFFICES ASSUME TypeOK, StuckInv, [Next]_vars PROVE StuckInv'
    OBVIOUS
  <1> USE DEF StuckInv, StuckChecksExact
  <1>1. ASSUME NEW k \in Keys, RequestCheck(k) PROVE StuckInv'
    BY <1>1 DEF TypeOK, RequestCheck, RequestCheckUnless, Settled
  <1>2. ASSUME NEW k \in Keys, onCheckTimedOut(k) PROVE StuckInv'
    <2>1. CASE status[k] = "Checking"
      <3>1. k \notin countedStuck
        BY <2>1
      <3>2. countedStuck' = {j \in Keys : status'[j] = "TimedOut"}
        BY <1>2, <2>1 DEF TypeOK, onCheckTimedOut
      <3>3. /\ IsFiniteSet(countedStuck \cup {k})
            /\ Cardinality(countedStuck \cup {k}) = Cardinality(countedStuck) + 1
        BY <3>1, FS_AddElement
      <3> QED BY <1>2, <2>1, <3>1, <3>2, <3>3 DEF onCheckTimedOut
    <2>2. CASE status[k] # "Checking"
      BY <1>2, <2>2 DEF onCheckTimedOut
    <2> QED BY <2>1, <2>2
  <1>3. ASSUME NEW k \in Keys, NEW ok \in BOOLEAN, CheckerAnswers(k, ok) PROVE StuckInv'
    BY <1>3 DEF CheckerAnswers
  <1>4. CASE onCheckFinished
    <2> DEFINE k == Head(results)[1]
    <2>1. k \in Keys
      BY <1>4, HeadOfResults DEF onCheckFinished
    <2>2. CASE status[k] \in {"Checking", "TimedOut"}
      <3>1. /\ IsFiniteSet(countedStuck \ {k})
            /\ Cardinality(countedStuck \ {k}) =
                 IF k \in countedStuck THEN Cardinality(countedStuck) - 1
                                       ELSE Cardinality(countedStuck)
        BY FS_RemoveElement
      <3>2. k \in countedStuck => stuckChecks > 0
        BY FS_EmptySet, FS_CardinalityType
      <3>3. countedStuck' = {j \in Keys : status'[j] = "TimedOut"}
        BY <1>4, <2>1, <2>2 DEF TypeOK, onCheckFinished
      <3> QED BY <1>4, <2>2, <3>1, <3>2, <3>3 DEF onCheckFinished
    <2>3. CASE status[k] \notin {"Checking", "TimedOut"}
      BY <1>4, <2>3 DEF onCheckFinished
    <2> QED BY <2>2, <2>3
  <1>5. CASE UNCHANGED vars
    BY <1>5 DEF vars
  <1> QED BY <1>1, <1>2, <1>3, <1>4, <1>5 DEF Next

\* The counter that blocks new checks is the number of timed-out keys, in every run.
THEOREM StuckChecksAreExact == Spec => []StuckChecksExact
  <1>1. TypeOK /\ StuckInv /\ [Next]_vars => StuckInv'
    BY NextStuck
  <1>2. StuckInv => StuckChecksExact
    BY DEF StuckInv
  <1> QED BY InitStuck, TypeCorrect, <1>1, <1>2, PTL DEF Spec

-----------------------------------------------------------------------------
(* Verdicts *)

\* A step changes no verdict, and turns a timed-out key into one or leaves it.
LEMMA StepKeepsVerdicts ==
  ASSUME TypeOK, [Next]_vars
  PROVE  \A k \in Keys :
            /\ status[k] \in {"Safe", "Bad"} => status'[k] = status[k]
            /\ status[k] = "TimedOut" => status'[k] \in {"TimedOut", "Safe", "Bad"}
  <1>1. ASSUME NEW k \in Keys, RequestCheck(k)
        PROVE  /\ status[k] \notin {"Safe", "Bad", "TimedOut"}
               /\ \A j \in Keys \ {k} : status'[j] = status[j]
    BY <1>1 DEF TypeOK, RequestCheck, RequestCheckUnless, Settled
  <1>2. ASSUME NEW k \in Keys, onCheckTimedOut(k)
        PROVE  \A j \in Keys : status[j] # "Checking" => status'[j] = status[j]
    BY <1>2 DEF TypeOK, onCheckTimedOut
  <1>3. ASSUME NEW k \in Keys, NEW ok \in BOOLEAN, CheckerAnswers(k, ok) PROVE status' = status
    BY <1>3 DEF CheckerAnswers
  <1>4. ASSUME onCheckFinished
        PROVE  \A j \in Keys : \/ status'[j] = status[j]
                               \/ /\ status[j] \in {"Checking", "TimedOut"}
                                  /\ status'[j] \in {"Safe", "Bad"}
    BY <1>4, HeadOfResults DEF TypeOK, onCheckFinished
  <1>5. ASSUME UNCHANGED vars PROVE status' = status
    BY <1>5 DEF vars
  <1> QED BY <1>1, <1>2, <1>3, <1>4, <1>5 DEF Next

\* No run ever takes a verdict back, or checks a timed-out key again.
THEOREM VerdictsStayFinal == Spec => VerdictsAreFinal
  <1>1. TypeOK /\ [Next]_vars =>
          [\A k \in Keys : /\ status[k] \in {"Safe", "Bad"} => status'[k] = status[k]
                           /\ status[k] = "TimedOut" =>
                                status'[k] \in {"TimedOut", "Safe", "Bad"}]_vars
    BY StepKeepsVerdicts
  <1> QED BY TypeCorrect, <1>1, PTL DEF Spec, VerdictsAreFinal

-----------------------------------------------------------------------------
(* A key is in one place at most *)

InQueue(k) == \E i \in DOMAIN results : results[i][1] = k

\* The checker holds the key or its answer is queued, once and never both, exactly while
\* the cache waits for an answer.
OnePlace ==
    /\ \A k \in Keys : /\ running[k] <= 1
                       /\ running[k] = 1 => ~InQueue(k)
                       /\ (running[k] = 1 \/ InQueue(k)) <=> status[k] \in {"Checking", "TimedOut"}
    /\ \A i, j \in DOMAIN results : results[i][1] = results[j][1] => i = j

\* At first nothing is anywhere.
LEMMA InitOnePlace == Init => OnePlace
  BY DEF Init, OnePlace, InQueue

\* What Append does to the queue: the new answer's key is in it, and nothing else is new.
LEMMA AppendedKey ==
  ASSUME TypeOK, NEW k \in Keys, NEW ok \in BOOLEAN, results' = Append(results, <<k, ok>>)
  PROVE  /\ \A j \in Keys : InQueue(j)' <=> (InQueue(j) \/ j = k)
         /\ OnePlace /\ ~InQueue(k) =>
              \A i, j \in DOMAIN results' : results'[i][1] = results'[j][1] => i = j
  <1>1. results \in Seq(Keys \X BOOLEAN) /\ <<k, ok>> \in Keys \X BOOLEAN
    BY DEF TypeOK
  <1>2. /\ Len(results) \in Nat /\ DOMAIN results = 1..Len(results)
        /\ results' \in Seq(Keys \X BOOLEAN) /\ Len(results') = Len(results) + 1
        /\ \A i \in 1..Len(results) : results'[i] = results[i]
        /\ results'[Len(results) + 1] = <<k, ok>>
    BY <1>1, AppendProperties, LenProperties
  <1>3. DOMAIN results' = 1..(Len(results) + 1)
    BY <1>2, LenProperties
  <1>4. \A j \in Keys : InQueue(j)' <=> (InQueue(j) \/ j = k)
    BY <1>2, <1>3 DEF InQueue
  <1>5. ASSUME OnePlace, ~InQueue(k), NEW i \in DOMAIN results', NEW j \in DOMAIN results',
               results'[i][1] = results'[j][1]
        PROVE  i = j
    BY <1>2, <1>3, <1>5 DEF InQueue, OnePlace
  <1> QED BY <1>4, <1>5

\* What Tail does to it: the key of the head leaves it, and nothing else does.
LEMMA HeadKeyLeaves ==
  ASSUME TypeOK, OnePlace, results # <<>>, results' = Tail(results)
  PROVE  /\ InQueue(Head(results)[1])
         /\ \A j \in Keys : InQueue(j)' <=> (InQueue(j) /\ j # Head(results)[1])
         /\ \A i, j \in DOMAIN results' : results'[i][1] = results'[j][1] => i = j
  <1>1. results \in Seq(Keys \X BOOLEAN)
    BY DEF TypeOK
  <1>2. /\ Len(results) \in Nat \ {0} /\ DOMAIN results = 1..Len(results)
        /\ results' \in Seq(Keys \X BOOLEAN) /\ Len(results') = Len(results) - 1
        /\ \A i \in 1..Len(results') : results'[i] = results[i + 1]
    BY <1>1, HeadTailProperties, LenProperties, EmptySeq
  <1>3. DOMAIN results' = 1..(Len(results) - 1)
    BY <1>2, LenProperties
  <1>4. Head(results) = results[1] /\ 1 \in DOMAIN results
    BY <1>1, <1>2
  <1>5. InQueue(Head(results)[1])
    BY <1>4 DEF InQueue
  <1>6. \A i, j \in DOMAIN results' : results'[i][1] = results'[j][1] => i = j
    <2> SUFFICES ASSUME NEW i \in DOMAIN results', NEW j \in DOMAIN results',
                        results'[i][1] = results'[j][1]
                 PROVE  i = j
      OBVIOUS
    <2>1. i + 1 \in DOMAIN results /\ j + 1 \in DOMAIN results
      BY <1>2, <1>3
    <2>2. results[i + 1][1] = results[j + 1][1]
      BY <1>2, <1>3
    <2> QED BY <2>1, <2>2, <1>2, <1>3 DEF OnePlace
  <1>7. ASSUME NEW j \in Keys, InQueue(j), j # Head(results)[1] PROVE InQueue(j)'
    <2>1. PICK i \in DOMAIN results : results[i][1] = j
      BY <1>7 DEF InQueue
    <2>2. i # 1
      BY <2>1, <1>4, <1>7
    <2>3. i - 1 \in 1..Len(results') /\ (i - 1) + 1 = i
      BY <2>2, <1>2
    <2>4. results'[i - 1] = results[i]
      BY <2>3, <1>2
    <2> QED BY <2>1, <2>3, <2>4, <1>2, <1>3 DEF InQueue
  <1>8. ASSUME NEW j \in Keys, InQueue(j)' PROVE InQueue(j) /\ j # Head(results)[1]
    <2>1. PICK i \in DOMAIN results' : results'[i][1] = j
      BY <1>8 DEF InQueue
    <2>2. i + 1 \in DOMAIN results /\ results[i + 1][1] = j /\ i + 1 # 1
      BY <2>1, <1>2, <1>3
    <2> QED BY <2>2, <1>4 DEF InQueue, OnePlace
  <1> QED BY <1>5, <1>6, <1>7, <1>8

\* No step puts a key in a second place: a request starts only what the cache does not wait
\* for, and an answer moves its key.
LEMMA NextOnePlace == TypeOK /\ OnePlace /\ [Next]_vars => OnePlace'
  <1> SUFFICES ASSUME TypeOK, OnePlace, [Next]_vars PROVE OnePlace'
    OBVIOUS
  <1>1. ASSUME NEW k \in Keys, RequestCheck(k) PROVE OnePlace'
    <2>1. /\ results' = results /\ \A j \in Keys : InQueue(j)' <=> InQueue(j)
          /\ status[k] \notin {"Checking", "TimedOut"}
      BY <1>1 DEF RequestCheck, RequestCheckUnless, Settled, InQueue
    <2>2. running[k] = 0 /\ ~InQueue(k)
      BY <2>1 DEF OnePlace, TypeOK
    <2>3. CASE stuckChecks >= maxStuckChecks
      <3>1. status' = [status EXCEPT ![k] = "Blocked"] /\ running' = running
        BY <1>1, <2>3 DEF RequestCheck, RequestCheckUnless
      <3> QED BY <2>1, <2>2, <3>1 DEF OnePlace, TypeOK
    <2>4. CASE ~(stuckChecks >= maxStuckChecks)
      <3>1. /\ status' = [status EXCEPT ![k] = "Checking"]
            /\ running' = [running EXCEPT ![k] = @ + 1]
        BY <1>1, <2>4 DEF RequestCheck, RequestCheckUnless, startCheck
      <3> QED BY <2>1, <2>2, <3>1 DEF OnePlace, TypeOK
    <2> QED BY <2>3, <2>4
  <1>2. ASSUME NEW k \in Keys, onCheckTimedOut(k) PROVE OnePlace'
    <2>1. running' = running /\ results' = results /\ \A j \in Keys : InQueue(j)' <=> InQueue(j)
      BY <1>2 DEF onCheckTimedOut, InQueue
    <2>2. \/ status' = status
          \/ status[k] = "Checking" /\ status' = [status EXCEPT ![k] = "TimedOut"]
      BY <1>2 DEF onCheckTimedOut
    <2> QED BY <2>1, <2>2 DEF OnePlace, TypeOK
  <1>3. ASSUME NEW k \in Keys, NEW ok \in BOOLEAN, CheckerAnswers(k, ok) PROVE OnePlace'
    <2>1. running[k] = 1 /\ ~InQueue(k)
      BY <1>3 DEF CheckerAnswers, OnePlace, TypeOK
    <2>2. /\ running' = [running EXCEPT ![k] = 0] /\ status' = status
          /\ results' = Append(results, <<k, ok>>)
      BY <1>3, <2>1 DEF CheckerAnswers, TypeOK
    <2>3. /\ \A j \in Keys : InQueue(j)' <=> (InQueue(j) \/ j = k)
          /\ \A i, j \in DOMAIN results' : results'[i][1] = results'[j][1] => i = j
      BY <2>1, <2>2, AppendedKey
    <2> QED BY <2>1, <2>2, <2>3 DEF OnePlace, TypeOK
  <1>4. CASE onCheckFinished
    <2> DEFINE k == Head(results)[1]
    <2>1. k \in Keys /\ results' = Tail(results) /\ running' = running
      BY <1>4, HeadOfResults DEF onCheckFinished
    <2>2. /\ InQueue(k)
          /\ \A j \in Keys : InQueue(j)' <=> (InQueue(j) /\ j # k)
          /\ \A i, j \in DOMAIN results' : results'[i][1] = results'[j][1] => i = j
      BY <1>4, HeadKeyLeaves DEF onCheckFinished
    <2>3. status[k] \in {"Checking", "TimedOut"} /\ running[k] = 0
      BY <2>1, <2>2 DEF OnePlace, TypeOK
    <2>4. \E v \in {"Safe", "Bad"} : status' = [status EXCEPT ![k] = v]
      BY <1>4, <2>3 DEF onCheckFinished
    <2> QED BY <2>1, <2>2, <2>3, <2>4 DEF OnePlace, TypeOK
  <1>5. CASE UNCHANGED vars
    BY <1>5 DEF vars, OnePlace, InQueue
  <1> QED BY <1>1, <1>2, <1>3, <1>4, <1>5 DEF Next

\* One place at most means one start at most is outstanding.
LEMMA OnePlaceIsOnce == TypeOK /\ OnePlace => StartedAtMostOnce
  <1> SUFFICES ASSUME TypeOK, OnePlace, NEW k \in Keys
               PROVE  /\ running[k] + Cardinality(Queued(k)) <= 1
                      /\ running[k] + Cardinality(Queued(k)) = 1
                           <=> status[k] \in {"Checking", "TimedOut"}
    BY DEF StartedAtMostOnce
  <1>1. running[k] \in {0, 1}
    BY DEF TypeOK, OnePlace
  <1>2. CASE InQueue(k)
    <2>1. PICK i \in DOMAIN results : results[i][1] = k
      BY <1>2 DEF InQueue
    <2>2. Queued(k) = {i}
      BY <2>1 DEF Queued, OnePlace
    <2>3. Cardinality(Queued(k)) = 1
      BY <2>2, FS_Singleton
    <2> QED BY <1>1, <1>2, <2>3 DEF OnePlace
  <1>3. CASE ~InQueue(k)
    <2>1. Queued(k) = {}
      BY <1>3 DEF Queued, InQueue
    <2>2. Cardinality(Queued(k)) = 0
      BY <2>1, FS_EmptySet
    <2> QED BY <1>1, <1>3, <2>2 DEF OnePlace
  <1> QED BY <1>2, <1>3

\* In every run the checker is handed a key again only after it has answered and the cache
\* has read the answer, and then never: the key has its verdict.
THEOREM KeysAreStartedAtMostOnce == Spec => []StartedAtMostOnce
  <1> QED BY InitOnePlace, NextOnePlace, OnePlaceIsOnce, TypeCorrect, PTL DEF Spec

-----------------------------------------------------------------------------
(* The checker *)

-----------------------------------------------------------------------------
(* The invariant *)

ThreadState == {"checking", "idle", "deleted", "left"}

CheckerTypes ==
    /\ m_threads \in [Keys -> Threads \cup {NoThread}]
    /\ thread \in [Threads -> [state : ThreadState, key : Keys \cup {NoThread}]]
    /\ answers \in Seq(Threads \X BOOLEAN)
    /\ alive \in BOOLEAN

Exists(t) == thread[t].state \in {"checking", "idle"}

\* A thread that exists is held under the key it checks, and a key the cache waits for has one.
Linked ==
    /\ \A t \in Threads : /\ thread[t].state # "left"
                          /\ Exists(t) => thread[t].key \in Keys /\ m_threads[thread[t].key] = t
    /\ \A k \in Keys : /\ m_threads[k] # NoThread =>
                             m_threads[k] \in Threads /\ Exists(m_threads[k]) /\ thread[m_threads[k]].key = k
                       /\ m_threads[k] # NoThread <=> running[k] = 1

\* An answer in the queue is its thread's only one.
AnswersOfIdle ==
    /\ \A i \in DOMAIN answers : thread[answers[i][1]].state = "idle"
    /\ \A i, j \in DOMAIN answers : answers[i][1] = answers[j][1] => i = j

CheckerInv == /\ CheckerTypes
              /\ alive => Linked /\ AnswersOfIdle
              /\ OnlyHungThreadsLeft

\* At first there are no threads.
LEMMA InitChecker == DefaultInit => CheckerInv
  <1> SUFFICES ASSUME DefaultInit PROVE CheckerInv
    OBVIOUS
  <1>1. CheckerTypes
    BY EmptySeq DEF DefaultInit, CheckerTypes, ThreadState, Deleted
  <1>2. Linked
    BY CheckerAssumption DEF DefaultInit, Init, Linked, Exists, Deleted
  <1>3. AnswersOfIdle
    BY DEF DefaultInit, AnswersOfIdle
  <1> QED BY <1>1, <1>2, <1>3 DEF CheckerInv, OnlyHungThreadsLeft, DefaultInit

\* What the oldest answer is, and what taking it off leaves.
LEMMA HeadOfAnswers ==
  ASSUME CheckerInv, alive, answers # <<>>
  PROVE  /\ Head(answers)[1] \in Threads /\ Head(answers)[2] \in BOOLEAN
         /\ thread[Head(answers)[1]].state = "idle"
         /\ thread[Head(answers)[1]].key \in Keys
         /\ m_threads[thread[Head(answers)[1]].key] = Head(answers)[1]
         /\ Tail(answers) \in Seq(Threads \X BOOLEAN)
         /\ \A i \in DOMAIN Tail(answers) :
               i + 1 \in DOMAIN answers /\ Tail(answers)[i] = answers[i + 1]
         /\ \A i \in DOMAIN Tail(answers) : Tail(answers)[i][1] # Head(answers)[1]
  <1>1. answers \in Seq(Threads \X BOOLEAN)
    BY DEF CheckerInv, CheckerTypes
  <1>2. /\ Head(answers) \in Threads \X BOOLEAN
        /\ Tail(answers) \in Seq(Threads \X BOOLEAN)
        /\ Len(answers) \in Nat \ {0} /\ DOMAIN answers = 1..Len(answers)
        /\ Head(answers) = answers[1]
        /\ Len(Tail(answers)) = Len(answers) - 1
        /\ \A i \in 1..Len(Tail(answers)) : Tail(answers)[i] = answers[i + 1]
    BY <1>1, HeadTailProperties, EmptySeq, LenProperties
  <1>3. DOMAIN Tail(answers) = 1..(Len(answers) - 1)
    BY <1>2, LenProperties
  <1>4. 1 \in DOMAIN answers
    BY <1>2
  <1>5. \A i \in DOMAIN Tail(answers) :
           /\ i + 1 \in DOMAIN answers /\ i + 1 # 1 /\ Tail(answers)[i] = answers[i + 1]
    BY <1>2, <1>3
  <1>6. thread[answers[1][1]].state = "idle"
    BY <1>4 DEF CheckerInv, AnswersOfIdle
  <1>7. \A i \in DOMAIN Tail(answers) : Tail(answers)[i][1] # answers[1][1]
    BY <1>4, <1>5 DEF CheckerInv, AnswersOfIdle
  <1>8. Head(answers)[1] \in Threads /\ Head(answers)[2] \in BOOLEAN
    BY <1>2
  <1> QED BY <1>2, <1>5, <1>6, <1>7, <1>8 DEF CheckerInv, Linked, Exists

-----------------------------------------------------------------------------
(* The composition implements the cache *)

\* Every step of the composition is one of the cache, or leaves it alone.
LEMMA StepImplements == CheckerInv /\ [DefaultNext]_allVars => [Next]_vars
  <1> SUFFICES ASSUME CheckerInv, [DefaultNext]_allVars PROVE [Next]_vars
    OBVIOUS
  <1>1. ASSUME NEW k \in Keys, Request(k) PROVE [Next]_vars
    BY <1>1 DEF Request, Next
  <1>2. ASSUME NEW k \in Keys, TimeOut(k) PROVE [Next]_vars
    BY <1>2 DEF TimeOut, Next
  <1>3. CASE Finish
    BY <1>3 DEF Finish, Next
  <1>4. ASSUME NEW t \in Threads, WorkerAnswers(t) PROVE [Next]_vars
    BY <1>4 DEF WorkerAnswers
  <1>5. CASE PassOn
    <2>1. alive /\ answers # <<>>
          /\ CheckerAnswers(thread[Head(answers)[1]].key, Head(answers)[2])
      BY <1>5 DEF PassOn
    <2>2. thread[Head(answers)[1]].key \in Keys /\ Head(answers)[2] \in BOOLEAN
      BY <2>1, HeadOfAnswers
    <2> QED BY <2>1, <2>2 DEF Next
  <1>6. CASE Destroy
    BY <1>6 DEF Destroy
  <1>7. CASE UNCHANGED allVars
    BY <1>7 DEF allVars
  <1> QED BY <1>1, <1>2, <1>3, <1>4, <1>5, <1>6, <1>7 DEF DefaultNext

-----------------------------------------------------------------------------
(* The invariant is kept *)

\* A new thread is one that did not exist, for a key that had none.
LEMMA StartKeepsLinks ==
  ASSUME TypeOK, OnePlace, CheckerInv, alive, NEW k \in Keys, Request(k)
  PROVE  CheckerInv'
  <1> USE DEF CheckerInv
  <1>1. UNCHANGED <<answers, alive>> /\ RequestCheck(k)
    BY DEF Request
  <1>2. CASE running'[k] > running[k]
    <2> DEFINE t == CHOOSE f \in Free : TRUE
    <2>1. t \in Threads /\ thread[t].state = "deleted"
      BY <1>2 DEF Request, StartThread, NewThread, Free
    <2>2. /\ thread' = [thread EXCEPT ![t] = [state |-> "checking", key |-> k]]
          /\ m_threads' = [m_threads EXCEPT ![k] = t]
      BY <1>2 DEF Request, StartThread, NewThread
    <2>3. running' = [running EXCEPT ![k] = @ + 1] /\ status[k] \notin Settled
      <3>1. running' # running
        BY <1>2 DEF TypeOK
      <3> QED BY <1>1, <3>1 DEF RequestCheck, RequestCheckUnless, startCheck
    <2>4. running[k] = 0
      <3>1. running[k] # 1 /\ running[k] <= 1
        BY <2>3 DEF OnePlace, Settled
      <3> QED BY <3>1 DEF TypeOK
    <2>5. m_threads[k] = NoThread
      BY <2>4 DEF Linked
    <2>6. CheckerTypes'
      BY <1>1, <2>1, <2>2 DEF CheckerTypes, ThreadState
    <2>7. \A s \in Threads : thread'[s] = IF s = t THEN [state |-> "checking", key |-> k] ELSE thread[s]
      BY <2>2 DEF CheckerTypes
    <2>8. \A j \in Keys : /\ m_threads'[j] = IF j = k THEN t ELSE m_threads[j]
                          /\ running'[j] = IF j = k THEN 1 ELSE running[j]
      BY <2>2, <2>3, <2>4 DEF CheckerTypes, TypeOK
    <2>9. Linked'
      <3>1. ASSUME NEW s \in Threads
            PROVE  /\ thread'[s].state # "left"
                   /\ Exists(s)' => thread'[s].key \in Keys /\ m_threads'[thread'[s].key] = s
        <4>1. CASE s = t
          BY <2>7, <2>8, <4>1
        <4>2. CASE s # t
          <5>1. thread'[s] = thread[s] /\ (Exists(s)' <=> Exists(s))
            BY <2>7, <4>2 DEF Exists
          <5>2. Exists(s) => thread[s].key # k
            BY <2>5, CheckerAssumption DEF Linked
          <5> QED BY <2>8, <5>1, <5>2 DEF Linked
        <4> QED BY <4>1, <4>2
      <3>2. ASSUME NEW j \in Keys
            PROVE  /\ m_threads'[j] # NoThread =>
                          /\ m_threads'[j] \in Threads /\ Exists(m_threads[j])'
                          /\ thread'[m_threads'[j]].key = j
                   /\ m_threads'[j] # NoThread <=> running'[j] = 1
        <4>1. CASE j = k
          BY <2>1, <2>7, <2>8, <4>1, CheckerAssumption DEF Exists
        <4>2. CASE j # k
          <5>1. m_threads'[j] = m_threads[j] /\ running'[j] = running[j]
            BY <2>8, <4>2
          <5>2. ASSUME m_threads[j] # NoThread
                PROVE  /\ m_threads[j] \in Threads /\ m_threads[j] # t
                       /\ Exists(m_threads[j]) /\ thread[m_threads[j]].key = j
            BY <2>1, <5>2 DEF Linked, Exists
          <5>3. ASSUME m_threads[j] # NoThread
                PROVE  thread'[m_threads[j]] = thread[m_threads[j]]
            BY <2>7, <5>2, <5>3
          <5> QED BY <5>1, <5>2, <5>3 DEF Linked, Exists
        <4> QED BY <4>1, <4>2
      <3> QED BY <3>1, <3>2 DEF Linked
    <2>10. AnswersOfIdle'
      <3>1. ASSUME NEW i \in DOMAIN answers
            PROVE  thread'[answers[i][1]].state = "idle"
        <4>1. answers[i][1] \in Threads /\ thread[answers[i][1]].state = "idle"
          BY LenProperties, ElementOfSeq DEF CheckerTypes, AnswersOfIdle
        <4> QED BY <2>1, <2>7, <4>1
      <3> QED BY <1>1, <3>1 DEF AnswersOfIdle
    <2> QED BY <1>1, <2>6, <2>9, <2>10 DEF OnlyHungThreadsLeft
  <1>3. CASE ~(running'[k] > running[k])
    <2>1. UNCHANGED <<thread, m_threads>>
      BY <1>3 DEF Request
    <2>2. running' = running
      <3>1. \/ running' = running
            \/ running' = [running EXCEPT ![k] = @ + 1]
        BY <1>1 DEF RequestCheck, RequestCheckUnless, startCheck
      <3>2. running' = [running EXCEPT ![k] = @ + 1] => running'[k] > running[k]
        BY DEF TypeOK
      <3> QED BY <1>3, <3>1, <3>2
    <2> QED BY <1>1, <2>1, <2>2
          DEF CheckerTypes, Linked, Exists, AnswersOfIdle, OnlyHungThreadsLeft
  <1> QED BY <1>2, <1>3

\* A worker that answers was still checking, so it is not among those that answered.
LEMMA AnswerKeepsLinks ==
  ASSUME CheckerInv, NEW w \in Threads, WorkerAnswers(w)
  PROVE  CheckerInv'
  <1> USE DEF CheckerInv
  <1> DEFINE verdict == checkPreviewLooksSane(font[thread[w].key])
  <1>1. /\ thread[w].state = "checking" /\ alive
        /\ UNCHANGED <<vars, m_threads, alive>>
    BY DEF WorkerAnswers, OnlyHungThreadsLeft
  <1>2. thread' = [thread EXCEPT ![w] = [thread[w] EXCEPT !.state = "idle"]]
    BY DEF WorkerAnswers
  <1>3. answers' = Append(answers, <<w, verdict>>)
    BY DEF WorkerAnswers
  <1>4. verdict \in BOOLEAN
    BY DEF checkPreviewLooksSane
  <1>5. \A s \in Threads : /\ thread'[s].key = thread[s].key
                          /\ thread'[s].state = IF s = w THEN "idle" ELSE thread[s].state
    BY <1>2 DEF CheckerTypes
  <1>6. answers' \in Seq(Threads \X BOOLEAN)
    BY <1>3, <1>4, AppendProperties DEF CheckerTypes
  <1>7. CheckerTypes'
    BY <1>1, <1>2, <1>6 DEF CheckerTypes, ThreadState
  <1>8. \A s \in Threads : Exists(s)' <=> Exists(s)
    BY <1>1, <1>5 DEF Exists
  <1>9. Linked'
    <2>1. ASSUME NEW s \in Threads
          PROVE  /\ thread'[s].state # "left"
                 /\ Exists(s)' => thread'[s].key \in Keys /\ m_threads'[thread'[s].key] = s
      BY <1>1, <1>5, <1>8 DEF Linked
    <2>2. ASSUME NEW j \in Keys
          PROVE  /\ m_threads'[j] # NoThread =>
                        /\ m_threads'[j] \in Threads /\ Exists(m_threads[j])'
                        /\ thread'[m_threads'[j]].key = j
                 /\ m_threads'[j] # NoThread <=> running'[j] = 1
      BY <1>1, <1>5, <1>8 DEF Linked, vars, Exists
    <2> QED BY <2>1, <2>2 DEF Linked
  <1>10. AnswersOfIdle'
    <2>1. /\ Len(answers) \in Nat /\ DOMAIN answers = 1..Len(answers)
          /\ DOMAIN answers' = 1..(Len(answers) + 1)
          /\ \A i \in 1..Len(answers) : answers'[i] = answers[i]
          /\ answers'[Len(answers) + 1] = <<w, verdict>>
      <3>1. answers \in Seq(Threads \X BOOLEAN) /\ <<w, verdict>> \in Threads \X BOOLEAN
        BY <1>4 DEF CheckerTypes
      <3>2. /\ Len(answers) \in Nat /\ DOMAIN answers = 1..Len(answers)
            /\ Len(answers') = Len(answers) + 1
            /\ \A i \in 1..Len(answers) : answers'[i] = answers[i]
            /\ answers'[Len(answers) + 1] = <<w, verdict>>
        BY <1>3, <3>1, AppendProperties, LenProperties
      <3> QED BY <3>2, <1>6, LenProperties
    <2>2. \A i \in DOMAIN answers :
              /\ answers[i][1] \in Threads /\ answers[i][1] # w
              /\ thread[answers[i][1]].state = "idle"
      BY <1>1, <2>1, ElementOfSeq DEF CheckerTypes, AnswersOfIdle
    <2>3. \A i \in DOMAIN answers' : thread'[answers'[i][1]].state = "idle"
      BY <1>5, <2>1, <2>2
    <2>4. \A i, j \in DOMAIN answers' : answers'[i][1] = answers'[j][1] => i = j
      BY <1>1, <2>1, <2>2 DEF AnswersOfIdle
    <2> QED BY <2>3, <2>4 DEF AnswersOfIdle
  <1> QED BY <1>1, <1>7, <1>9, <1>10 DEF OnlyHungThreadsLeft

\* The slot forgets the thread it deletes, and the key it answers for.
LEMMA PassOnKeepsLinks ==
  ASSUME TypeOK, OnePlace, CheckerInv, PassOn
  PROVE  CheckerInv'
  <1> USE DEF CheckerInv
  <1> DEFINE t == Head(answers)[1]
             k == thread[t].key
  <1>1. /\ alive /\ alive' = alive /\ answers # <<>> /\ answers' = Tail(answers)
        /\ CheckerAnswers(k, Head(answers)[2])
        /\ m_threads' = [m_threads EXCEPT ![k] = NoThread]
        /\ thread' = [thread EXCEPT ![t] = Deleted]
    BY DEF PassOn
  <1>2. /\ t \in Threads /\ k \in Keys /\ m_threads[k] = t
        /\ Tail(answers) \in Seq(Threads \X BOOLEAN)
        /\ \A i \in DOMAIN Tail(answers) :
               i + 1 \in DOMAIN answers /\ Tail(answers)[i] = answers[i + 1]
        /\ \A i \in DOMAIN Tail(answers) : Tail(answers)[i][1] # t
    BY <1>1, HeadOfAnswers
  <1>3. CheckerTypes'
    BY <1>1, <1>2 DEF CheckerTypes, ThreadState, Deleted
  <1>4. \A s \in Threads : thread'[s] = IF s = t THEN Deleted ELSE thread[s]
    BY <1>1 DEF CheckerTypes
  <1>5. \A j \in Keys : /\ m_threads'[j] = IF j = k THEN NoThread ELSE m_threads[j]
                        /\ running'[j] = IF j = k THEN 0 ELSE running[j]
    <2>1. running' = [running EXCEPT ![k] = @ - 1] /\ running[k] = 1
      BY <1>1, <1>2 DEF CheckerAnswers, TypeOK, OnePlace
    <2> QED BY <1>1, <1>2, <2>1 DEF CheckerTypes, TypeOK
  <1>6. Linked'
    <2>1. ASSUME NEW s \in Threads
          PROVE  /\ thread'[s].state # "left"
                 /\ Exists(s)' => thread'[s].key \in Keys /\ m_threads'[thread'[s].key] = s
      <3>1. CASE s = t
        BY <1>4, <3>1 DEF Deleted, Exists
      <3>2. CASE s # t
        <4>1. thread'[s] = thread[s] /\ (Exists(s)' <=> Exists(s))
          BY <1>4, <3>2 DEF Exists
        <4>2. Exists(s) => thread[s].key # k
          BY <1>1, <1>2, <3>2 DEF Linked
        <4> QED BY <1>1, <1>5, <4>1, <4>2 DEF Linked
      <3> QED BY <3>1, <3>2
    <2>2. ASSUME NEW j \in Keys
          PROVE  /\ m_threads'[j] # NoThread =>
                        /\ m_threads'[j] \in Threads /\ Exists(m_threads[j])'
                        /\ thread'[m_threads'[j]].key = j
                 /\ m_threads'[j] # NoThread <=> running'[j] = 1
      <3>1. CASE j = k
        BY <1>5, <3>1
      <3>2. CASE j # k
        <4>1. m_threads'[j] = m_threads[j] /\ running'[j] = running[j]
          BY <1>5, <3>2
        <4>2. ASSUME m_threads[j] # NoThread
              PROVE  /\ m_threads[j] \in Threads /\ m_threads[j] # t
                     /\ Exists(m_threads[j]) /\ thread[m_threads[j]].key = j
          BY <1>1, <3>2, <4>2 DEF Linked
        <4>3. ASSUME m_threads[j] # NoThread
              PROVE  thread'[m_threads[j]] = thread[m_threads[j]]
          BY <1>4, <4>2, <4>3
        <4> QED BY <1>1, <4>1, <4>2, <4>3 DEF Linked, Exists
      <3> QED BY <3>1, <3>2
    <2> QED BY <2>1, <2>2 DEF Linked
  <1>7. AnswersOfIdle'
    <2>1. ASSUME NEW i \in DOMAIN Tail(answers)
          PROVE  thread'[Tail(answers)[i][1]].state = "idle"
      <3>1. /\ Tail(answers)[i][1] \in Threads
            /\ Tail(answers)[i][1] # t
        BY <1>2, LenProperties, ElementOfSeq
      <3>2. thread[Tail(answers)[i][1]].state = "idle"
        BY <1>1, <1>2 DEF AnswersOfIdle
      <3> QED BY <1>4, <3>1, <3>2
    <2>2. ASSUME NEW i \in DOMAIN Tail(answers), NEW j \in DOMAIN Tail(answers),
                 Tail(answers)[i][1] = Tail(answers)[j][1]
          PROVE  i = j
      <3>1. i + 1 = j + 1
        BY <1>1, <1>2, <2>2 DEF AnswersOfIdle
      <3>2. i \in Nat /\ j \in Nat
        BY <1>2, LenProperties
      <3> QED BY <3>1, <3>2
    <2> QED BY <1>1, <2>1, <2>2 DEF AnswersOfIdle
  <1> QED BY <1>1, <1>3, <1>6, <1>7 DEF OnlyHungThreadsLeft

\* The destructor finds every thread through the keys.
LEMMA DestroyKeepsLinks ==
  ASSUME CheckerInv, Destroy
  PROVE  CheckerInv'
  <1> USE DEF CheckerInv
  <1>1. /\ alive /\ alive' = FALSE /\ answers' = answers
        /\ m_threads' = [k \in Keys |-> NoThread]
    BY DEF Destroy
  <1>2. ASSUME NEW t \in Threads
        PROVE  /\ thread'[t] \in [state : ThreadState, key : Keys \cup {NoThread}]
               /\ thread'[t].state \in {"deleted", "left"}
    <2>1. CASE t \notin Held
      <3>1. thread'[t] = thread[t] /\ thread[t] \in [state : ThreadState, key : Keys \cup {NoThread}]
        BY <2>1 DEF Destroy, CheckerTypes
      <3>2. ~Exists(t) /\ thread[t].state # "left"
        BY <1>1, <2>1, CheckerAssumption DEF Held, Linked
      <3> QED BY <3>1, <3>2 DEF Exists, ThreadState
    <2>2. CASE t \in Held /\ thread[t].state = "idle"
      <3>1. thread'[t] = Deleted
        BY <2>2 DEF Destroy
      <3> QED BY <3>1 DEF Deleted, ThreadState
    <2>3. CASE t \in Held /\ thread[t].state # "idle"
      <3>1. thread'[t] = [thread[t] EXCEPT !.state = "left"]
        BY <2>3 DEF Destroy
      <3> QED BY <3>1 DEF CheckerTypes, ThreadState
    <2> QED BY <2>1, <2>2, <2>3
  <1>3. thread' \in [Threads -> [state : ThreadState, key : Keys \cup {NoThread}]]
    BY <1>2 DEF Destroy
  <1>4. CheckerTypes'
    BY <1>1, <1>2, <1>3 DEF CheckerTypes, ThreadState
  <1> QED BY <1>1, <1>2, <1>4 DEF OnlyHungThreadsLeft

\* Every step keeps the invariant.
LEMMA NextChecker ==
  TypeOK /\ OnePlace /\ CheckerInv /\ [DefaultNext]_allVars => CheckerInv'
  <1> SUFFICES ASSUME TypeOK, OnePlace, CheckerInv, [DefaultNext]_allVars PROVE CheckerInv'
    OBVIOUS
  <1>1. ASSUME NEW k \in Keys, Request(k) PROVE CheckerInv'
    BY <1>1, StartKeepsLinks DEF Request
  <1>2. ASSUME NEW k \in Keys, TimeOut(k) PROVE CheckerInv'
    <2>1. UNCHANGED <<running, m_threads, thread, answers, alive>>
      BY <1>2 DEF TimeOut, onCheckTimedOut, checkerVars
    <2> QED BY <2>1 DEF CheckerInv, CheckerTypes, Linked, Exists, AnswersOfIdle, OnlyHungThreadsLeft
  <1>3. CASE Finish
    <2>1. UNCHANGED <<running, m_threads, thread, answers, alive>>
      BY <1>3 DEF Finish, onCheckFinished, checkerVars
    <2> QED BY <2>1 DEF CheckerInv, CheckerTypes, Linked, Exists, AnswersOfIdle, OnlyHungThreadsLeft
  <1>4. ASSUME NEW t \in Threads, WorkerAnswers(t) PROVE CheckerInv'
    BY <1>4, AnswerKeepsLinks
  <1>5. CASE PassOn
    BY <1>5, PassOnKeepsLinks
  <1>6. CASE Destroy
    BY <1>6, DestroyKeepsLinks
  <1>7. CASE UNCHANGED allVars
    <2>1. UNCHANGED <<running, m_threads, thread, answers, alive>>
      BY <1>7 DEF allVars, vars, checkerVars
    <2> QED BY <2>1 DEF CheckerInv, CheckerTypes, Linked, Exists, AnswersOfIdle, OnlyHungThreadsLeft
  <1> QED BY <1>1, <1>2, <1>3, <1>4, <1>5, <1>6, <1>7 DEF DefaultNext

-----------------------------------------------------------------------------
(* What the cache promises, of the composition *)

\* Cache and checker together keep their invariants.
LEMMA CheckerInvariant == DefaultSpec => [](TypeOK /\ OnePlace /\ CheckerInv)
  <1>1. DefaultInit => TypeOK /\ OnePlace /\ CheckerInv
    BY InitTypeOK, InitOnePlace, InitChecker DEF DefaultInit
  <1>2. TypeOK /\ OnePlace /\ CheckerInv /\ [DefaultNext]_allVars
          => (TypeOK /\ OnePlace /\ CheckerInv)'
    BY StepImplements, NextTypeOK, NextOnePlace, NextChecker
  <1> QED BY <1>1, <1>2, PTL DEF DefaultSpec

\* The checker the application uses keeps the contract the cache relies on: with it the cache
\* behaves as FontPreviewSafetyCache says.
THEOREM ImplementsCache == DefaultSpec => Spec
  <1>1. DefaultInit => Init
    BY DEF DefaultInit
  <1>2. CheckerInv /\ [DefaultNext]_allVars => [Next]_vars
    BY StepImplements
  <1> QED BY <1>1, <1>2, CheckerInvariant, PTL DEF DefaultSpec, Spec

\* With threads and their answers in between, no key is started while a check of it is open.
THEOREM StartedAtMostOnceWithThreads == DefaultSpec => []StartedAtMostOnce
  <1> QED BY ImplementsCache, KeysAreStartedAtMostOnce, PTL

\* ... the count of stuck checks is exact ...
THEOREM StuckChecksExactWithThreads == DefaultSpec => []StuckChecksExact
  <1> QED BY ImplementsCache, StuckChecksAreExact, PTL

\* ... and verdicts are final.
THEOREM VerdictsFinalWithThreads == DefaultSpec => VerdictsAreFinal
  <1> QED BY ImplementsCache, VerdictsStayFinal, PTL

-----------------------------------------------------------------------------
(* Threads *)

\* When the destructor is through, what is left are threads it gave up on: none is forgotten,
\* whatever was asked, answered and timed out before.
THEOREM NoThreadForgotten == DefaultSpec => []OnlyHungThreadsLeft
  <1>1. CheckerInv => OnlyHungThreadsLeft
    BY DEF CheckerInv
  <1> QED BY <1>1, CheckerInvariant, PTL

\* A step deletes a thread only if its worker is back in its event loop.
LEMMA StepDeletesIdle ==
  ASSUME CheckerInv, [DefaultNext]_allVars, NEW t \in Threads,
         thread'[t].state = "deleted", thread[t].state # "deleted"
  PROVE  thread[t].state = "idle"
  <1>1. ASSUME NEW k \in Keys, Request(k) PROVE FALSE
    <2>1. thread' # thread
      OBVIOUS
    <2>2. /\ (CHOOSE f \in Free : TRUE) \in Free
          /\ thread' = [thread EXCEPT ![CHOOSE f \in Free : TRUE] = [state |-> "checking", key |-> k]]
      BY <1>1, <2>1 DEF Request, StartThread, NewThread
    <2> QED BY <2>2 DEF CheckerInv, CheckerTypes
  <1>2. ASSUME NEW k \in Keys, TimeOut(k) PROVE FALSE
    BY <1>2 DEF TimeOut, checkerVars
  <1>3. CASE Finish
    BY <1>3 DEF Finish, checkerVars
  <1>4. ASSUME NEW w \in Threads, WorkerAnswers(w) PROVE FALSE
    <2>1. thread' = [thread EXCEPT ![w] = [thread[w] EXCEPT !.state = "idle"]]
      BY <1>4 DEF WorkerAnswers
    <2> QED BY <2>1 DEF CheckerInv, CheckerTypes
  <1>5. CASE PassOn
    <2>1. thread' = [thread EXCEPT ![Head(answers)[1]] = Deleted] /\ alive /\ answers # <<>>
      BY <1>5 DEF PassOn
    <2>2. t = Head(answers)[1]
      BY <2>1 DEF CheckerInv, CheckerTypes
    <2> QED BY <2>1, <2>2, HeadOfAnswers
  <1>6. CASE Destroy
    <2>1. thread[t].state # "idle" => \/ thread'[t] = thread[t]
                                      \/ thread'[t] = [thread[t] EXCEPT !.state = "left"]
      BY <1>6 DEF Destroy
    <2> QED BY <2>1 DEF CheckerInv, CheckerTypes
  <1>7. CASE UNCHANGED allVars
    BY <1>7 DEF allVars, checkerVars
  <1> QED BY <1>1, <1>2, <1>3, <1>4, <1>5, <1>6, <1>7 DEF DefaultNext

\* No QThread object is deleted while its worker may still be inside the font stack.
THEOREM ThreadsEndBeforeDeletion == DefaultSpec => NoRunningThreadDeleted
  <1>1. CheckerInv /\ [DefaultNext]_allVars =>
          [\A t \in Threads : thread'[t].state = "deleted" /\ thread[t].state # "deleted" =>
              thread[t].state = "idle"]_allVars
    BY StepDeletesIdle
  <1> QED BY <1>1, CheckerInvariant, PTL DEF DefaultSpec, NoRunningThreadDeleted

-----------------------------------------------------------------------------
(* Verdicts *)

\* A font whose preview is judged sane, though Qt draws it with its own family, shows ink, and
\* some of its own glyphs if they can be read and are not replaced.
LEMMA SaneMeansShown ==
  ASSUME NEW f, f.merged = NoPicture \/ IsFiniteSet(f.merged),
         checkPreviewLooksSane(f), ~NothingToDraw(f)
  PROVE  /\ f.merged \notin {NoPicture, {}}
         /\ renderReferenceMask(f) # NoPicture /\ ~GlyphsOfOthers(f) =>
               f.merged \cap renderReferenceMask(f) # {}
  <1> DEFINE ref == renderReferenceMask(f)
  <1>1. /\ f.merged # NoPicture /\ f.noMerge # NoPicture /\ IsFiniteSet(f.merged)
        /\ GlyphsOfOthers(f) \/ LooksSane(f)
    BY DEF checkPreviewLooksSane
  <1>2. Cardinality(f.merged) \in Nat
    BY <1>1, FS_CardinalityType
  <1>3. \A r : r # NoPicture =>
            /\ computeMaskStats(f.merged, r).rasterInk = Cardinality(f.merged)
            /\ computeMaskStats(f.merged, r).outsideInk = Cardinality(f.merged \ r)
    BY <1>1 DEF computeMaskStats, Stats
  <1>4. Cardinality(f.merged) > 0
    <2>1. CASE GlyphsOfOthers(f)
      BY <1>1, <1>3, <2>1 DEF GlyphsOfOthers
    <2>2. CASE LooksSane(f)
      BY <1>1, <1>3, <2>2 DEF LooksSane, LooksLikeGlyphs
    <2> QED BY <1>1, <2>1, <2>2
  <1>5. f.merged # {}
    BY <1>4, FS_EmptySet
  <1>6. ASSUME ref # NoPicture, ~GlyphsOfOthers(f), f.merged \cap ref = {} PROVE FALSE
    <2>1. LooksLikeGlyphs(f.merged, ref)
      BY <1>1, <1>6 DEF LooksSane
    <2>2. f.merged \ ref = f.merged
      BY <1>6
    <2>3. 100 * Cardinality(f.merged) <= 55 * Cardinality(f.merged)
      BY <1>3, <1>6, <2>1, <2>2 DEF LooksLikeGlyphs
    <2> QED BY <1>2, <1>4, <2>3
  <1> QED BY <1>1, <1>5, <1>6

Sane(k) == checkPreviewLooksSane(font[k])

\* What a queued answer, a queued result and a status say is the verdict of the key's font.
VerdictInv ==
    /\ font \in FontTables
    /\ alive => \A i \in DOMAIN answers : answers[i][2] = Sane(thread[answers[i][1]].key)
    /\ \A i \in DOMAIN results : results[i][2] = Sane(results[i][1])
    /\ \A k \in Keys : status[k] = "Safe" => Sane(k)

\* At first there are no verdicts.
LEMMA InitVerdict == DefaultInit => VerdictInv
  BY DEF DefaultInit, Init, VerdictInv

\* A request makes no key Safe, and takes no thread that has answered.
LEMMA RequestKeepsVerdicts ==
  ASSUME TypeOK, CheckerInv, VerdictInv, NEW k \in Keys, Request(k)
  PROVE  VerdictInv'
  <1>1. /\ UNCHANGED <<font, answers, alive, results>> /\ alive
        /\ \E v \in {"Checking", "Blocked"} : status' = [status EXCEPT ![k] = v]
    BY DEF Request, RequestCheck, RequestCheckUnless
  <1>2. ASSUME NEW i \in DOMAIN answers
        PROVE  thread'[answers[i][1]] = thread[answers[i][1]]
    <2>1. answers[i][1] \in Threads /\ thread[answers[i][1]].state = "idle"
      BY <1>1, LenProperties, ElementOfSeq DEF CheckerInv, CheckerTypes, AnswersOfIdle
    <2>2. CASE thread' = thread
      BY <2>2
    <2>3. CASE thread' # thread
      <3> DEFINE t == CHOOSE f \in Free : TRUE
      <3>1. t \in Free /\ thread' = [thread EXCEPT ![t] = [state |-> "checking", key |-> k]]
        BY <2>3 DEF Request, StartThread, NewThread
      <3> QED BY <2>1, <3>1 DEF Free, CheckerInv, CheckerTypes
    <2> QED BY <2>2, <2>3
  <1>3. \A j \in Keys : status'[j] = "Safe" => status[j] = "Safe"
    BY <1>1 DEF TypeOK
  <1> QED BY <1>1, <1>2, <1>3 DEF VerdictInv, Sane

\* A worker answers for the font of its key.
LEMMA AnswerIsVerdict ==
  ASSUME CheckerInv, VerdictInv, NEW w \in Threads, WorkerAnswers(w)
  PROVE  VerdictInv'
  <1> DEFINE answer == <<w, checkPreviewLooksSane(font[thread[w].key])>>
  <1>1. /\ UNCHANGED <<font, status, results>> /\ answers' = Append(answers, answer)
        /\ alive /\ thread' = [thread EXCEPT ![w] = [thread[w] EXCEPT !.state = "idle"]]
    BY DEF WorkerAnswers, CheckerInv, OnlyHungThreadsLeft, vars
  <1>2. \A s \in Threads : thread'[s].key = thread[s].key
    BY <1>1 DEF CheckerInv, CheckerTypes
  <1>3. answer \in Threads \X BOOLEAN /\ answers \in Seq(Threads \X BOOLEAN)
    BY DEF CheckerInv, CheckerTypes, checkPreviewLooksSane
  <1>4. /\ Len(answers) \in Nat /\ DOMAIN answers = 1..Len(answers)
        /\ DOMAIN answers' = 1..(Len(answers) + 1)
        /\ \A i \in 1..Len(answers) : answers'[i] = answers[i] /\ answers[i][1] \in Threads
        /\ answers'[Len(answers) + 1] = answer
    BY <1>1, <1>3, AppendProperties, LenProperties, ElementOfSeq
  <1>5. \A i \in DOMAIN answers' :
           answers'[i][2] = checkPreviewLooksSane(font[thread[answers'[i][1]].key])
    BY <1>1, <1>4 DEF VerdictInv, Sane
  <1>6. \A i \in DOMAIN answers' : answers'[i][1] \in Threads
    BY <1>4
  <1> QED BY <1>1, <1>2, <1>5, <1>6 DEF VerdictInv, Sane

\* The checker passes an answer on as it is.
LEMMA PassOnKeepsVerdicts ==
  ASSUME TypeOK, CheckerInv, VerdictInv, PassOn
  PROVE  VerdictInv'
  <1> DEFINE t == Head(answers)[1]
             result == <<thread[t].key, Head(answers)[2]>>
  <1>1. /\ alive /\ answers # <<>> /\ answers' = Tail(answers) /\ results' = Append(results, result)
        /\ thread' = [thread EXCEPT ![t] = Deleted] /\ UNCHANGED <<font, status>>
    BY DEF PassOn, CheckerAnswers
  <1>2. /\ t \in Threads /\ result \in Keys \X BOOLEAN
        /\ Tail(answers) \in Seq(Threads \X BOOLEAN)
        /\ \A i \in DOMAIN Tail(answers) :
               i + 1 \in DOMAIN answers /\ Tail(answers)[i] = answers[i + 1]
        /\ \A i \in DOMAIN Tail(answers) : Tail(answers)[i][1] # t
    BY <1>1, HeadOfAnswers
  <1>3. answers \in Seq(Threads \X BOOLEAN) /\ results \in Seq(Keys \X BOOLEAN)
    BY DEF TypeOK, CheckerInv, CheckerTypes
  <1>4. result[2] = Sane(result[1])
    <2>1. 1 \in DOMAIN answers /\ Head(answers) = answers[1]
      BY <1>1, <1>3, HeadTailProperties, EmptySeq, LenProperties
    <2> QED BY <1>1, <2>1 DEF VerdictInv
  <1>5. \A i \in DOMAIN results' : results'[i][2] = Sane(results'[i][1])
    <2>1. /\ Len(results) \in Nat /\ DOMAIN results = 1..Len(results)
          /\ DOMAIN results' = 1..(Len(results) + 1)
          /\ \A i \in 1..Len(results) : results'[i] = results[i]
          /\ results'[Len(results) + 1] = result
      BY <1>1, <1>2, <1>3, AppendProperties, LenProperties
    <2> QED BY <1>4, <2>1 DEF VerdictInv
  <1>6. ASSUME NEW i \in DOMAIN Tail(answers)
        PROVE  Tail(answers)[i][2] = Sane(thread'[Tail(answers)[i][1]].key)
    <2>1. Tail(answers)[i][1] \in Threads
      BY <1>2, LenProperties, ElementOfSeq
    <2>2. thread'[Tail(answers)[i][1]] = thread[Tail(answers)[i][1]]
      BY <1>1, <1>2, <2>1 DEF CheckerInv, CheckerTypes
    <2> QED BY <1>1, <1>2, <2>2 DEF VerdictInv
  <1> QED BY <1>1, <1>5, <1>6 DEF VerdictInv, Sane

\* The cache makes a key Safe by the verdict of its font.
LEMMA FinishKeepsVerdicts ==
  ASSUME TypeOK, VerdictInv, Finish
  PROVE  VerdictInv'
  <1> DEFINE k == Head(results)[1]
             ok == Head(results)[2]
  <1>1. /\ results # <<>> /\ results' = Tail(results)
        /\ UNCHANGED <<font, thread, answers, alive>>
        /\ \/ status' = status
           \/ status' = [status EXCEPT ![k] = IF ok THEN "Safe" ELSE "Bad"]
    BY DEF Finish, onCheckFinished, checkerVars
  <1>2. /\ k \in Keys /\ ok \in BOOLEAN /\ Tail(results) \in Seq(Keys \X BOOLEAN)
    BY <1>1, HeadOfResults
  <1>3. /\ 1 \in DOMAIN results /\ Head(results) = results[1]
        /\ \A i \in DOMAIN Tail(results) :
               i + 1 \in DOMAIN results /\ Tail(results)[i] = results[i + 1]
    <2>1. results \in Seq(Keys \X BOOLEAN)
      BY DEF TypeOK
    <2>2. /\ Len(results) \in Nat \ {0} /\ DOMAIN results = 1..Len(results)
          /\ Head(results) = results[1]
          /\ Len(Tail(results)) = Len(results) - 1
          /\ \A i \in 1..Len(Tail(results)) : Tail(results)[i] = results[i + 1]
      BY <1>1, <2>1, HeadTailProperties, EmptySeq, LenProperties
    <2>3. DOMAIN Tail(results) = 1..(Len(results) - 1)
      BY <1>2, <2>2, LenProperties
    <2> QED BY <2>2, <2>3
  <1>4. ok => Sane(k)
    BY <1>3 DEF VerdictInv
  <1>5. \A j \in Keys : status'[j] = "Safe" => Sane(j)
    BY <1>1, <1>2, <1>4 DEF TypeOK, VerdictInv
  <1>6. \A i \in DOMAIN Tail(results) : Tail(results)[i][2] = Sane(Tail(results)[i][1])
    BY <1>3 DEF VerdictInv
  <1> QED BY <1>1, <1>5, <1>6 DEF VerdictInv, Sane

\* Every step keeps answers, results and statuses true to the fonts.
LEMMA NextVerdict ==
  TypeOK /\ CheckerInv /\ VerdictInv /\ [DefaultNext]_allVars => VerdictInv'
  <1> SUFFICES ASSUME TypeOK, CheckerInv, VerdictInv, [DefaultNext]_allVars PROVE VerdictInv'
    OBVIOUS
  <1>1. ASSUME NEW k \in Keys, Request(k) PROVE VerdictInv'
    BY <1>1, RequestKeepsVerdicts
  <1>2. ASSUME NEW k \in Keys, TimeOut(k) PROVE VerdictInv'
    <2>1. /\ UNCHANGED <<font, thread, answers, alive, results>>
          /\ status' = status \/ status' = [status EXCEPT ![k] = "TimedOut"]
      BY <1>2 DEF TimeOut, onCheckTimedOut, checkerVars
    <2>2. \A j \in Keys : status'[j] = "Safe" => status[j] = "Safe"
      BY <2>1 DEF TypeOK
    <2> QED BY <2>1, <2>2 DEF VerdictInv, Sane
  <1>3. CASE Finish
    BY <1>3, FinishKeepsVerdicts
  <1>4. ASSUME NEW t \in Threads, WorkerAnswers(t) PROVE VerdictInv'
    BY <1>4, AnswerIsVerdict
  <1>5. CASE PassOn
    BY <1>5, PassOnKeepsVerdicts
  <1>6. CASE Destroy
    <2>1. UNCHANGED <<font, status, results>> /\ ~alive'
      BY <1>6 DEF Destroy, vars
    <2> QED BY <2>1 DEF VerdictInv, Sane
  <1>7. CASE UNCHANGED allVars
    <2>1. UNCHANGED <<font, thread, answers, alive, status, results>>
      BY <1>7 DEF allVars, vars, checkerVars
    <2> QED BY <2>1 DEF VerdictInv, Sane
  <1> QED BY <1>1, <1>2, <1>3, <1>4, <1>5, <1>6, <1>7 DEF DefaultNext

\* A preview the user is shown as safe shows something, through every race of timers, answers
\* and retries, for any fonts.
THEOREM SafePreviewsAlwaysShow == DefaultSpec => []SafePreviewsShow
  <1>1. VerdictInv => SafePreviewsShow
    <2> SUFFICES ASSUME VerdictInv, NEW k \in Keys, status[k] = "Safe", ~NothingToDraw(font[k])
                 PROVE  /\ font[k].merged \notin {NoPicture, {}}
                        /\ /\ renderReferenceMask(font[k]) # NoPicture
                           /\ ~GlyphsOfOthers(font[k])
                           => font[k].merged \cap renderReferenceMask(font[k]) # {}
      BY DEF SafePreviewsShow
    <2>1. font[k].merged = NoPicture \/ IsFiniteSet(font[k].merged)
      BY CheckerAssumption DEF VerdictInv
    <2>2. checkPreviewLooksSane(font[k])
      BY DEF VerdictInv, Sane
    <2> QED BY <2>1, <2>2, SaneMeansShown
  <1> QED BY <1>1, InitVerdict, NextVerdict, CheckerInvariant, PTL DEF DefaultSpec

-----------------------------------------------------------------------------
(* The picker *)

\* Every step of the picker is one that any client may take, or touches nothing of the checks.
LEMMA PickerStep == [PickerNext]_allPickerVars => [DefaultNext]_allVars
  <1> SUFFICES ASSUME [PickerNext]_allPickerVars PROVE [DefaultNext]_allVars
    OBVIOUS
  <1>1. ASSUME NEW k \in Keys, Ask(k) PROVE Request(k) \/ UNCHANGED allVars
    BY <1>1 DEF Ask
  <1>2. CASE onOpened \/ Scroll \/ Filter \/ Close \/ \E s \in SampleKeys \cup {NoFamily} : Select(s)
    <2>1. UNCHANGED allVars
      BY <1>2 DEF onOpened, Scroll, Filter, Close, Select
    <2> QED BY <2>1
  <1>3. ASSUME NEW k \in Keys, Event(TimeOut(k)) PROVE TimeOut(k)
    BY <1>3 DEF Event
  <1>4. CASE Event(Finish) \/ Event(PassOn) \/ Event(Destroy)
    BY <1>4 DEF Event, DefaultNext
  <1>5. CASE UNCHANGED allPickerVars
    BY <1>5 DEF allPickerVars
  <1> QED BY <1>1, <1>2, <1>3, <1>4, <1>5 DEF PickerNext, DefaultNext

\* The rows and the sample ask as any client may: what is proved of DefaultSpec holds of them.
THEOREM PickerIsAClient == PickerSpec => DefaultSpec
  <1>1. PickerInit => DefaultInit
    BY DEF PickerInit
  <1> QED BY <1>1, PickerStep, PTL DEF PickerSpec, DefaultSpec

\* What the user may see, and what the running handler asks for, are keys.
PickerTypes == /\ rows \subseteq RowKeys /\ asking \subseteq Keys
               /\ selected \in SampleKeys \cup {NoFamily}

Shown == (IF opened THEN rows ELSE {}) \cup ({selected} \ {NoFamily})

\* Whatever is shown has been asked for, or the handler has yet to.
AskedOrAsking == \A k \in Shown : k \in asking \/ status[k] # "NeverChecked"

PickerInv == PickerTypes /\ AskedOrAsking

\* At first only the sample's family is shown, and it is being asked for.
LEMMA InitPicker == PickerInit => PickerInv
  BY PickerAssumption DEF PickerInit, PickerInv, PickerTypes, AskedOrAsking, Shown

\* A key that was asked for once never looks as if it had not been.
LEMMA AskedStaysAsked ==
  ASSUME TypeOK, [Next]_vars, NEW k \in Keys, status[k] # "NeverChecked"
  PROVE  status'[k] # "NeverChecked"
  <1>1. ASSUME NEW j \in Keys, RequestCheck(j) PROVE status'[k] # "NeverChecked"
    BY <1>1 DEF TypeOK, RequestCheck, RequestCheckUnless
  <1>2. ASSUME NEW j \in Keys, onCheckTimedOut(j) PROVE status'[k] # "NeverChecked"
    BY <1>2 DEF TypeOK, onCheckTimedOut
  <1>3. ASSUME NEW j \in Keys, NEW ok \in BOOLEAN, CheckerAnswers(j, ok)
        PROVE  status'[k] # "NeverChecked"
    BY <1>3 DEF CheckerAnswers
  <1>4. CASE onCheckFinished
    BY <1>4, HeadOfResults DEF TypeOK, onCheckFinished
  <1>5. CASE UNCHANGED vars
    BY <1>5 DEF vars
  <1> QED BY <1>1, <1>2, <1>3, <1>4, <1>5 DEF Next

\* The picker shows nothing new without putting it among what is to be asked for, and takes from
\* that only what it asks for.
LEMMA NextPicker ==
  TypeOK /\ CheckerInv /\ PickerInv /\ [PickerNext]_allPickerVars => PickerInv'
  <1> SUFFICES ASSUME TypeOK, CheckerInv, PickerInv, [PickerNext]_allPickerVars PROVE PickerInv'
    OBVIOUS
  <1>a. \A k \in Keys : status[k] # "NeverChecked" => status'[k] # "NeverChecked"
    BY PickerStep, StepImplements, AskedStaysAsked
  <1>b. Shown \subseteq Keys /\ Shown' \subseteq Keys \cup {selected'}
    <2>1. Shown \subseteq Keys
      BY PickerAssumption DEF PickerInv, PickerTypes, Shown
    <2>2. rows' \subseteq RowKeys
      BY DEF PickerNext, allPickerVars, pickerVars, PickerInv, PickerTypes,
             Ask, onOpened, Scroll, Filter, Close, Select, Event
    <2> QED BY <2>1, <2>2, PickerAssumption DEF Shown
  <1>1. ASSUME NEW k \in Keys, Ask(k) PROVE PickerInv'
    <2>1. UNCHANGED <<opened, rows, selected>> /\ asking' = asking \ {k}
      BY <1>1 DEF Ask
    <2>2. status'[k] # "NeverChecked"
      <3>1. CASE status[k] \in Settled /\ UNCHANGED allVars
        BY <1>a, <3>1 DEF Settled
      <3>2. CASE Request(k)
        BY <3>2 DEF Request, RequestCheck, RequestCheckUnless, TypeOK
      <3> QED BY <1>1, <3>1, <3>2 DEF Ask
    <2>3. Shown' = Shown
      BY <2>1 DEF Shown
    <2> QED BY <1>a, <1>b, <2>1, <2>2, <2>3 DEF PickerInv, PickerTypes, AskedOrAsking
  <1>2. CASE onOpened \/ Scroll \/ Filter
    <2>1. /\ rows' \subseteq RowKeys /\ asking' \subseteq rows' /\ asking = {}
          /\ selected' = selected /\ status' = status
          /\ asking' = rows' \/ (opened /\ asking' = rows' \ rows)
      BY <1>2 DEF onOpened, Scroll, Filter, Loop, allVars, vars
    <2>2. \A k \in Shown' : k \in Shown \/ k \in asking'
      BY <2>1 DEF Shown
    <2> QED BY <2>1, <2>2, PickerAssumption DEF PickerInv, PickerTypes, AskedOrAsking
  <1>3. CASE Close
    BY <1>3 DEF Close, PickerInv, PickerTypes, AskedOrAsking, Shown, allVars, vars
  <1>4. ASSUME NEW s \in SampleKeys \cup {NoFamily}, Select(s) PROVE PickerInv'
    BY <1>4, PickerAssumption DEF Select, PickerInv, PickerTypes, AskedOrAsking, Shown
  <1>5. CASE UNCHANGED pickerVars
    <2>1. UNCHANGED <<opened, rows, selected, asking>>
      BY <1>5 DEF pickerVars
    <2>2. Shown' = Shown
      BY <2>1 DEF Shown
    <2> QED BY <1>a, <1>b, <2>1, <2>2 DEF PickerInv, PickerTypes, AskedOrAsking
  <1> QED BY <1>1, <1>2, <1>3, <1>4, <1>5 DEF PickerNext, Event, allPickerVars

\* No font of an open popup, and no selected one, is left out, for any lists of fonts: whichever
\* delegates were created before the popup opened, by scrolling, or by a new model.
THEOREM NoFontLeftOut == PickerSpec => []ShownKeysAsked
  <1>1. PickerInv => ShownKeysAsked
    BY DEF PickerInv, AskedOrAsking, Shown, ShownKeysAsked, Loop
  <1> QED BY <1>1, InitPicker, NextPicker, PickerIsAClient, CheckerInvariant, PTL DEF PickerSpec
=============================================================================
