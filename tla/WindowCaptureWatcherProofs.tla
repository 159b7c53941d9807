---------------------- MODULE WindowCaptureWatcherProofs ----------------------
(***************************************************************************)
(* Proofs about the window watcher, for any desktop: any windows, however  *)
(* often they open, close and change their titles between the timers.      *)
(***************************************************************************)
EXTENDS WindowCaptureWatcher, FiniteSetTheorems, TLAPS

\* Every id in use or ever published is below the next one to be given.
IdsBelow == /\ nextWindowId \in Nat
            /\ \A w \in visible : ids[w] \in Nat /\ ids[w] < nextWindowId
            /\ \A p \in announced : p[2] \in Nat /\ p[2] < nextWindowId

WatcherInv == DOMAIN open \subseteq Windows /\ IdsBelow /\ PendingMatchesList

-----------------------------------------------------------------------------
(* The ids of a new list *)

\* A window that was listed keeps its id; the others get ids from the counter on, as many as
\* there are new windows.
LEMMA IdsOfNewList ==
  ASSUME WatcherInv, SetChanged
  PROVE  /\ visible' = DOMAIN open
         /\ \A w \in visible \cap visible' : ids'[w] = ids[w]
         /\ \A w \in visible' \ visible :
               ids'[w] \in Nat /\ nextWindowId <= ids'[w] /\ ids'[w] < nextWindowId'
         /\ nextWindowId' \in Nat /\ nextWindowId <= nextWindowId'
  <1> DEFINE fresh == DOMAIN open \ visible
             card == Cardinality(fresh)
  <1>1. PICK n \in Bijection(fresh, 1..card) :
           ids' = [w \in DOMAIN open |-> IF w \in fresh THEN nextWindowId + n[w] - 1 ELSE ids[w]]
    BY DEF SetChanged, NewIds, visible
  <1>2. n \in [fresh -> 1..card]
    BY DEF Bijection, Injection, Surjection
  <1>3. card \in Nat
    <2>1. IsFiniteSet(fresh)
      BY WatcherAssumption, FS_Subset DEF WatcherInv
    <2> QED BY <2>1, FS_CardinalityType
  <1>4. nextWindowId \in Nat /\ nextWindowId' = nextWindowId + card
    BY DEF SetChanged, WatcherInv, IdsBelow
  <1>5. visible' = DOMAIN open
    BY <1>1 DEF visible
  <1>6. ASSUME NEW w \in fresh
        PROVE  ids'[w] \in Nat /\ nextWindowId <= ids'[w] /\ ids'[w] < nextWindowId'
    <2>1. n[w] \in 1..card /\ ids'[w] = nextWindowId + n[w] - 1
      BY <1>1, <1>2
    <2> QED BY <2>1, <1>3, <1>4
  <1>7. \A w \in visible \cap visible' : ids'[w] = ids[w]
    BY <1>1, <1>5
  <1>8. visible' \ visible = fresh
    BY <1>5
  <1>9. \A w \in visible' \ visible :
           ids'[w] \in Nat /\ nextWindowId <= ids'[w] /\ ids'[w] < nextWindowId'
    BY <1>6, <1>8
  <1>10. nextWindowId' \in Nat /\ nextWindowId <= nextWindowId'
    BY <1>3, <1>4
  <1> QED BY <1>5, <1>7, <1>9, <1>10

\* The ids of a list are those of its windows.
LEMMA IdsOfList ==
  ASSUME NEW t, NEW i
  PROVE  {e.id : e \in List(t, i)} = {i[w] : w \in DOMAIN t}
  <1> DEFINE entry(w) == [id |-> i[w], name |-> t[w]]
  <1>1. List(t, i) = {entry(w) : w \in DOMAIN t}
    BY DEF List
  <1>2. \A w \in DOMAIN t : entry(w).id = i[w]
    OBVIOUS
  <1> HIDE DEF entry
  <1> QED BY <1>1, <1>2

-----------------------------------------------------------------------------
(* The invariant *)

\* Before the first poll there are no ids and no lists.
LEMMA InitWatcher == Init => WatcherInv
  <1> SUFFICES ASSUME Init PROVE WatcherInv
    OBVIOUS
  <1>1. DOMAIN open \subseteq Windows
    BY DEF Init, PartialOn
  <1>2. visible = {}
    BY DEF Init, Empty, Restrict, visible
  <1> QED BY <1>1, <1>2 DEF Init, WatcherInv, IdsBelow, PendingMatchesList

\* A poll that finds other windows.
LEMMA ChangedKeeps ==
  ASSUME WatcherInv, SetChanged, UNCHANGED desktop
  PROVE  WatcherInv'
  <1>1. /\ visible' = DOMAIN open
        /\ \A w \in visible \cap visible' : ids'[w] = ids[w]
        /\ \A w \in visible' \ visible :
              ids'[w] \in Nat /\ nextWindowId <= ids'[w] /\ ids'[w] < nextWindowId'
        /\ nextWindowId' \in Nat /\ nextWindowId <= nextWindowId'
    BY IdsOfNewList
  <1>2. nextWindowId \in Nat
    BY DEF WatcherInv, IdsBelow
  <1>3. ASSUME NEW w \in visible' PROVE ids'[w] \in Nat /\ ids'[w] < nextWindowId'
    <2>1. CASE w \in visible
      <3>1. ids'[w] = ids[w] /\ ids[w] \in Nat /\ ids[w] < nextWindowId
        BY <1>1, <1>3, <2>1 DEF WatcherInv, IdsBelow
      <3> QED BY <3>1, <1>1, <1>2
    <2>2. CASE w \notin visible
      BY <1>1, <1>3, <2>2
    <2> QED BY <2>1, <2>2
  <1>4. ASSUME NEW p \in announced' PROVE p[2] \in Nat /\ p[2] < nextWindowId'
    <2>1. CASE p \in announced
      <3>1. p[2] \in Nat /\ p[2] < nextWindowId
        BY <2>1 DEF WatcherInv, IdsBelow
      <3> QED BY <3>1, <1>1, <1>2
    <2>2. CASE p \notin announced
      <3>1. PICK w \in DOMAIN open : p = <<w, ids'[w]>>
        BY <1>4, <2>2 DEF SetChanged
      <3> QED BY <3>1, <1>1, <1>3
    <2> QED BY <2>1, <2>2
  <1>5. shown' = List(open, ids') /\ ~titlesDirty'
    BY DEF SetChanged, Publish
  <1>6. {e.id : e \in shown'} = {ids'[w] : w \in visible'}
    BY <1>1, <1>5, IdsOfList
  <1>7. DOMAIN open' \subseteq Windows
    BY DEF WatcherInv, desktop
  <1> QED BY <1>1, <1>3, <1>4, <1>5, <1>6, <1>7 DEF WatcherInv, IdsBelow, PendingMatchesList

\* A poll that finds the same windows.
LEMMA UnchangedKeeps ==
  ASSUME WatcherInv, SetUnchanged, UNCHANGED desktop
  PROVE  WatcherInv'
  <1>1. UNCHANGED <<open, ids, nextWindowId, shown, announced>> /\ visible' = visible
    BY DEF SetUnchanged, desktop, visible
  <1>2. CASE open # descriptions
    <2>1. pending' = List(open, ids) /\ DOMAIN open = visible
      BY <1>2 DEF SetUnchanged
    <2>2. {e.id : e \in pending'} = {ids[w] : w \in visible}
      BY <2>1, IdsOfList
    <2> QED BY <1>1, <2>2 DEF WatcherInv, IdsBelow, PendingMatchesList
  <1>3. CASE open = descriptions
    <2>1. UNCHANGED <<pending, titlesDirty>>
      BY <1>3 DEF SetUnchanged
    <2> QED BY <1>1, <2>1 DEF WatcherInv, IdsBelow, PendingMatchesList
  <1> QED BY <1>2, <1>3

\* The slow tick publishes other names for the same ids.
LEMMA TitlesKeep ==
  ASSUME WatcherInv, refreshTitlesIfDirty
  PROVE  WatcherInv'
  <1>1. UNCHANGED <<open, ids, nextWindowId, announced>> /\ visible' = visible
    BY DEF refreshTitlesIfDirty, desktop, visible
  <1>2. ~titlesDirty'
    BY DEF refreshTitlesIfDirty
  <1>3. {e.id : e \in shown'} = {e.id : e \in shown}
    <2>1. CASE titlesDirty /\ pending # {}
      <3>1. shown' = pending
        BY <2>1 DEF refreshTitlesIfDirty, Publish
      <3>2. {e.id : e \in pending} = {e.id : e \in shown}
        BY <2>1 DEF WatcherInv, PendingMatchesList
      <3> QED BY <3>1, <3>2
    <2>2. CASE ~(titlesDirty /\ pending # {})
      <3>1. shown' = shown
        BY <2>2 DEF refreshTitlesIfDirty
      <3> QED BY <3>1
    <2> QED BY <2>1, <2>2
  <1> QED BY <1>1, <1>2, <1>3 DEF WatcherInv, IdsBelow, PendingMatchesList

\* Every step keeps the invariant.
LEMMA NextWatcher == WatcherInv /\ [Next]_vars => WatcherInv'
  <1> SUFFICES ASSUME WatcherInv, [Next]_vars PROVE WatcherInv'
    OBVIOUS
  <1>1. CASE refreshNow
    BY <1>1, ChangedKeeps, UnchangedKeeps DEF refreshNow
  <1>2. CASE refreshTitlesIfDirty
    BY <1>2, TitlesKeep
  <1>3. CASE DesktopChanges
    <2>1. UNCHANGED <<ids, nextWindowId, announced, pending, titlesDirty, shown>> /\ visible' = visible
      BY <1>3 DEF DesktopChanges, visible
    <2>2. DOMAIN open' \subseteq Windows
      BY <1>3 DEF DesktopChanges, WatcherInv, Restrict
    <2> QED BY <2>1, <2>2 DEF WatcherInv, IdsBelow, PendingMatchesList
  <1>4. CASE UNCHANGED vars
    <2>1. UNCHANGED <<open, ids, nextWindowId, announced, pending, titlesDirty, shown>> /\ visible' = visible
      BY <1>4 DEF vars, visible
    <2> QED BY <2>1 DEF WatcherInv, IdsBelow, PendingMatchesList
  <1> QED BY <1>1, <1>2, <1>3, <1>4 DEF Next

\* The invariant of the watcher.
LEMMA WatcherInvariant == Spec => []WatcherInv
  <1> QED BY InitWatcher, NextWatcher, PTL DEF Spec

-----------------------------------------------------------------------------
(* Results *)

\* What waits for the slow tick names the windows of the last list, and that list the windows
\* known to the watcher.
THEOREM PendingStaysWithItsList == Spec => []PendingMatchesList
  <1>1. WatcherInv => PendingMatchesList
    BY DEF WatcherInv
  <1> QED BY <1>1, WatcherInvariant, PTL

\* One step gives no window the id of another, of now or of any time before.
LEMMA StepKeepsIds ==
  ASSUME WatcherInv, [Next]_vars
  PROVE  /\ \A w \in visible \cap visible' : ids'[w] = ids[w]
         /\ \A w \in visible' \ visible : \A p \in announced : p[2] # ids'[w]
  <1>1. CASE refreshNow /\ SetChanged
    <2>1. /\ \A w \in visible \cap visible' : ids'[w] = ids[w]
          /\ \A w \in visible' \ visible : ids'[w] \in Nat /\ nextWindowId <= ids'[w]
      BY <1>1, IdsOfNewList
    <2>2. ASSUME NEW w \in visible' \ visible, NEW p \in announced
          PROVE  p[2] # ids'[w]
      <3>1. ids'[w] \in Nat /\ nextWindowId <= ids'[w]
        BY <2>1
      <3>2. p[2] \in Nat /\ p[2] < nextWindowId /\ nextWindowId \in Nat
        BY DEF WatcherInv, IdsBelow
      <3> QED BY <3>1, <3>2
    <2> QED BY <2>1, <2>2
  <1>2. CASE ~(refreshNow /\ SetChanged)
    <2>1. ids' = ids
      BY <1>2 DEF Next, refreshNow, SetUnchanged, refreshTitlesIfDirty, DesktopChanges, vars
    <2> QED BY <2>1 DEF visible
  <1> QED BY <1>1, <1>2

\* An id that was ever published means the same window for the whole run.
THEOREM IdsKeepTheirWindow == Spec => IdsMeanOneWindow
  <1>1. WatcherInv /\ [Next]_vars =>
           [/\ \A w \in visible \cap visible' : ids'[w] = ids[w]
            /\ \A w \in visible' \ visible : \A p \in announced : p[2] # ids'[w]]_vars
    BY StepKeepsIds
  <1> QED BY <1>1, WatcherInvariant, PTL DEF Spec, IdsMeanOneWindow
=============================================================================
