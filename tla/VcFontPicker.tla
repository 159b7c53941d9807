---------------------------- MODULE VcFontPicker ----------------------------
(***************************************************************************)
(* Who asks for font preview checks, and when: the rows of the font picker *)
(* and the font sample of the preferences.  A row asks when its delegate   *)
(* is created while the popup is open, and every row that exists asks when *)
(* the popup has opened; the sample asks when it is created and when       *)
(* another family is selected.  Nothing asks because a status changed: a   *)
(* Blocked row stays so while the popup just stays open.                   *)
(*                                                                         *)
(* A handler that asks for several keys runs to its end before the event   *)
(* loop goes on; only worker threads run meanwhile.  Sizes do not change,  *)
(* so that a family's row, and a family's sample, is one key.              *)
(***************************************************************************)
EXTENDS FontPreviewSafetyCheckerDefault

CONSTANTS RowKeys,     \* the families of the list, in the size of the rows
          SampleKeys,  \* the families to select, in the size of the sample
          NoFamily     \* the system's default font, which is not checked

ASSUME PickerAssumption == RowKeys \subseteq Keys /\ SampleKeys \subseteq Keys /\ NoFamily \notin Keys

VARIABLES opened,   \* pickerPopup.opened
          rows,     \* the keys whose delegates exist
          selected, \* the sample's selectedFamily
          asking    \* the keys the running handler has yet to ask for

pickerVars == <<opened, rows, selected, asking>>
allPickerVars == <<allVars, pickerVars>>

\* The preferences are created: Component.onCompleted of the sample.
PickerInit == /\ DefaultInit
              /\ opened = FALSE /\ rows = {}
              /\ selected \in SampleKeys \cup {NoFamily}
              /\ asking = {selected} \ {NoFamily}

Loop == alive /\ asking = {}

-----------------------------------------------------------------------------
\* Fault: a key that has some status already is not asked for again.
Ask_Once(k) == /\ k \in asking /\ asking' = asking \ {k}
               /\ IF status[k] = "NeverChecked" THEN Request(k) ELSE UNCHANGED allVars
               /\ UNCHANGED <<opened, rows, selected>>

\* A handler goes on with the next of its keys; for one that is settled the request does nothing.
Ask(k) == /\ k \in asking /\ asking' = asking \ {k}
          /\ \/ Request(k)
             \/ status[k] \in Settled /\ UNCHANGED allVars
          /\ UNCHANGED <<opened, rows, selected>>

\* Fault: opening the popup does not bump the serial.
onOpened_NoSerial ==
    /\ Loop /\ ~opened /\ opened' = TRUE
    /\ rows' \in SUBSET RowKeys /\ asking' = {}
    /\ UNCHANGED <<allVars, selected>>

\* The popup has opened, with delegates for the families it has room for: the serial makes each
\* of them ask.  Those created before ask only now.
onOpened ==
    /\ Loop /\ ~opened /\ opened' = TRUE
    /\ rows' \in SUBSET RowKeys /\ asking' = rows'
    /\ UNCHANGED <<allVars, selected>>

\* Scrolling creates the delegates that come into view.
Scroll == /\ Loop /\ opened
          /\ rows' \in SUBSET RowKeys /\ asking' = rows' \ rows
          /\ UNCHANGED <<allVars, opened, selected>>

\* Another text in the search field is another model, and all its delegates are new.
Filter == /\ Loop /\ opened
          /\ rows' \in SUBSET RowKeys /\ asking' = rows'
          /\ UNCHANGED <<allVars, opened, selected>>

Close == /\ Loop /\ opened /\ opened' = FALSE
         /\ UNCHANGED <<allVars, rows, selected, asking>>

\* A click on a row, or another preset: the sample asks for the new family, the popup is closed.
Select(s) == /\ Loop /\ s # selected /\ selected' = s
             /\ opened' = FALSE /\ asking' = {s} \ {NoFamily}
             /\ UNCHANGED <<allVars, rows>>

\* Timers, posted answers and the end of the application wait for the event loop.
Event(A) == Loop /\ A /\ UNCHANGED pickerVars

PickerNext == \/ \E k \in Keys : Ask(k) \/ Event(TimeOut(k))
              \/ onOpened \/ Scroll \/ Filter \/ Close
              \/ \E s \in SampleKeys \cup {NoFamily} : Select(s)
              \/ Event(Finish) \/ Event(PassOn) \/ Event(Destroy)
              \/ \E t \in Threads : WorkerAnswers(t) /\ UNCHANGED pickerVars

\* A handler goes on, and the event loop takes its turn.
PickerSpec == /\ PickerInit /\ [][PickerNext]_allPickerVars
              /\ \A k \in Keys : WF_allPickerVars(Ask(k)) /\ SF_allPickerVars(Event(TimeOut(k)))
              /\ SF_allPickerVars(Event(Finish)) /\ SF_allPickerVars(Event(PassOn))

-----------------------------------------------------------------------------
\* No font is left out: outside a handler every row of the open popup, and the selected family,
\* has been asked for, however its delegate came to be and whatever happened to the key since.
ShownKeysAsked ==
    Loop => \A k \in (IF opened THEN rows ELSE {}) \cup ({selected} \ {NoFamily}) :
                status[k] # "NeverChecked"

\* While the font stack returns, back-pressure is temporary for who opens the picker again:
\* a row that is listed at opening after opening gets the verdict of its font, the rows that were
\* blocked included.
ReopenedRowsGetTheirVerdict ==
    \A k \in RowKeys :
        FontStackReturns /\ []<><<onOpened /\ k \in rows'>>_allPickerVars => <>HasVerdict(k)
=============================================================================
