------------------------ MODULE WindowCaptureWatcher ------------------------
(***************************************************************************)
(* The watcher behind the catalogue's list of capturable windows.  A fast  *)
(* poll (2 s) looks for windows added or removed and publishes a new list  *)
(* at once; a change of titles alone is kept pending until the slow tick   *)
(* (30 s).  Windows, titles and the two timers move independently.         *)
(*                                                                         *)
(* A published list is the set of its (id, name) entries: its order is the *)
(* names' and carries nothing else.                                        *)
(***************************************************************************)
EXTENDS Naturals, FiniteSets, Functions

CONSTANTS Windows,    \* what QCapturableWindow values identify
          Titles,     \* window descriptions
          MaxChanges  \* bound: windows opened, closed or renamed

ASSUME WatcherAssumption == IsFiniteSet(Windows)

VARIABLES open,            \* the desktop: capturable windows and their titles
          changes,         \* how often it changed
          descriptions,    \* windowIdentityDescriptions, by window of windowIdentityVisible
          ids,             \* windowIdentityIds, by window of windowIdentityVisible
          nextWindowId,
          pending,         \* windowPending
          titlesDirty,     \* windowTitlesDirty
          shown,           \* the list last published, which the catalogue shows
          polled,          \* the fast poll has run since the slow tick
          announced        \* history: the (window, id) pairs ever published

desktop == <<open, changes>>
vars == <<open, changes, descriptions, ids, nextWindowId, pending, titlesDirty, shown,
          polled, announced>>

PartialOn(S, R) == UNION {[D -> R] : D \in SUBSET S}

\* windowIdentityVisible
visible == DOMAIN ids

\* The entries for windows titled by t and identified by i.
List(t, i) == {[id |-> i[w], name |-> t[w]] : w \in DOMAIN t}

Empty == Restrict(open, {})

Init == /\ open \in PartialOn(Windows, Titles)
        /\ changes = 0
        /\ descriptions = Empty /\ ids = Empty /\ nextWindowId = 1
        /\ pending = {} /\ titlesDirty = FALSE
        /\ shown = {} /\ polled = FALSE /\ announced = {}

-----------------------------------------------------------------------------
\* Ids for the listed windows: one seen before keeps its own, new ones are numbered in the
\* order the platform lists them.
NewIds(old) ==
    LET fresh == DOMAIN open \ DOMAIN old
    IN {[w \in DOMAIN open |-> IF w \in fresh THEN nextWindowId + n[w] - 1 ELSE old[w]] :
            n \in Bijection(fresh, 1..Cardinality(fresh))}

Publish(list) == shown' = list

\* Fault: pending titles survive a change of the set.
SetChanged_KeepsPending ==
    /\ DOMAIN open # visible
    /\ ids' \in NewIds(ids)
    /\ nextWindowId' = nextWindowId + Cardinality(DOMAIN open \ visible)
    /\ descriptions' = open
    /\ Publish(List(open, ids'))
    /\ announced' = announced \cup {<<w, ids'[w]>> : w \in DOMAIN open}
    /\ UNCHANGED <<pending, titlesDirty>>

\* Fault: the list is published only with the next title refresh.
SetChanged_Deferred ==
    /\ DOMAIN open # visible
    /\ ids' \in NewIds(ids)
    /\ nextWindowId' = nextWindowId + Cardinality(DOMAIN open \ visible)
    /\ descriptions' = open
    /\ pending' = {} /\ titlesDirty' = FALSE
    /\ UNCHANGED <<shown, announced>>

\* Fault: the counter is not advanced past the ids given out.
SetChanged_ReusesIds ==
    /\ DOMAIN open # visible
    /\ ids' \in NewIds(ids)
    /\ nextWindowId' = Cardinality(DOMAIN open) + 1
    /\ descriptions' = open
    /\ Publish(List(open, ids'))
    /\ announced' = announced \cup {<<w, ids'[w]>> : w \in DOMAIN open}
    /\ pending' = {} /\ titlesDirty' = FALSE

\* A window came or went: publish everything as it is now.
SetChanged ==
    /\ DOMAIN open # visible
    /\ ids' \in NewIds(ids)
    /\ nextWindowId' = nextWindowId + Cardinality(DOMAIN open \ visible)
    /\ descriptions' = open
    /\ Publish(List(open, ids'))
    /\ announced' = announced \cup {<<w, ids'[w]>> : w \in DOMAIN open}
    /\ pending' = {} /\ titlesDirty' = FALSE

\* The same windows: a title that differs from the stored one makes all titles pending.
SetUnchanged ==
    /\ DOMAIN open = visible
    /\ IF open # descriptions
       THEN pending' = List(open, ids) /\ titlesDirty' = TRUE
       ELSE UNCHANGED <<pending, titlesDirty>>
    /\ UNCHANGED <<descriptions, ids, nextWindowId, shown, announced>>

refreshNow == /\ SetChanged \/ SetUnchanged
              /\ polled' = TRUE
              /\ UNCHANGED desktop

\* The slow tick; the fast poll has a fifteenth of its period, so it ran in between.  It
\* publishes the titles of the poll that made them pending, but stores the titles of now.
refreshTitlesIfDirty ==
    /\ polled /\ polled' = FALSE
    /\ IF titlesDirty
       THEN /\ IF pending # {} THEN Publish(pending) ELSE UNCHANGED shown
            /\ pending' = {}
            /\ descriptions' = IF DOMAIN open = visible THEN open ELSE descriptions
            /\ titlesDirty' = FALSE
       ELSE UNCHANGED <<pending, descriptions, titlesDirty, shown>>
    /\ UNCHANGED <<desktop, ids, nextWindowId, announced>>

\* The user opens, closes or renames one window.
DesktopChanges ==
    /\ changes < MaxChanges
    /\ changes' = changes + 1
    /\ \E w \in Windows :
         \/ w \in DOMAIN open /\ open' = Restrict(open, DOMAIN open \ {w})
         \/ \E t \in Titles :
              /\ w \in DOMAIN open => open[w] # t
              /\ open' = [v \in DOMAIN open \cup {w} |-> IF v = w THEN t ELSE open[v]]
    /\ UNCHANGED <<descriptions, ids, nextWindowId, pending, titlesDirty, shown, polled, announced>>

Next == refreshNow \/ refreshTitlesIfDirty \/ DesktopChanges

Spec == Init /\ [][Next]_vars

\* Both timers repeat for as long as the watcher exists.
FairSpec == Spec /\ WF_vars(refreshNow) /\ WF_vars(refreshTitlesIfDirty)

-----------------------------------------------------------------------------
\* A window keeps its id for as long as it is listed, whatever opens and closes around it,
\* and a window that enters the list gets an id no list ever showed: a client that holds an
\* id never sees another window under it.
IdsMeanOneWindow ==
    [][/\ \A w \in visible \cap visible' : ids'[w] = ids[w]
       /\ \A w \in visible' \ visible : \A p \in announced : p[2] # ids'[w]]_vars

\* A slow tick never brings back a closed window nor drops a new one: what is pending names
\* exactly the windows of the last list.
PendingMatchesList ==
    /\ titlesDirty => {e.id : e \in pending} = {e.id : e \in shown}
    /\ {e.id : e \in shown} = {ids[w] : w \in visible}

\* Once the desktop is quiet the list has exactly the windows that are open.
ListedWindows == {w \in visible : \E e \in shown : e.id = ids[w]}
SetEventuallyListed == <>[](ListedWindows = DOMAIN open)

\* "refreshTitlesIfDirty() applies any pending title-only changes": once the desktop is
\* quiet, the titles shown are those of the windows.
TitlesEventuallyShown == <>[](DOMAIN open = visible /\ shown = List(open, ids))
=============================================================================
