--------------------------- MODULE AppSessionProofs ---------------------------
(****************************************************************************)
(* Proofs about runs of the application, for any edits, any settings and    *)
(* placements found at the first start and any finitely many screens.       *)
(*                                                                          *)
(* The preferences come first.  Then the fit of the window: the places that *)
(* the code tries, taken from the edges of the screens, include a best one  *)
(* of all (NearestIsCandidate, TopCandidate); the binary search finds the   *)
(* widest window that fits (SearchFinds); so the fit is best among all      *)
(* places (FitIsBest), and fitting twice is fitting once (FitStays).  With  *)
(* these the window across runs: where it is restored to, and that it does  *)
(* not creep.                                                               *)
(****************************************************************************)
EXTENDS AppSession, FiniteSetTheorems, SequenceTheorems, WellFoundedInduction, TLAPS

\* A value that a setter of the right type has been through: its setter leaves it as it is.
Kept(name, v) == Typed(name, v) /\ setter(name, v) = v

KeptAll(p) == p = [n \in Names |-> p[n]] /\ \A n \in Names : Kept(n, p[n])

\* What the program wrote is what the settings hold, and comes back unchanged.
WrittenInv ==
    \A n \in DOMAIN written : /\ n \in Names \cap DOMAIN settings
                              /\ settings[n] = written[n] /\ Kept(n, written[n])

\* What the settings hold is of its type or garbled.
PreferencesInv ==
    /\ \A n \in Names \cap DOMAIN settings : Typed(n, settings[n]) \/ settings[n] = Garbled
    /\ KeptAll(preferences)
    /\ WrittenInv
    /\ phase = "loading" => \A n \in DOMAIN written : preferences[n] = written[n]

-----------------------------------------------------------------------------
(* Setters and loading *)

\* What a setter makes of a value it keeps from then on.
LEMMA SetterKeeps ==
  ASSUME NEW n \in Names, NEW v, Typed(n, v)
  PROVE  Kept(n, setter(n, v))
  <1> DEFINE s == setter(n, v)
  <1>1. CASE n = "fontPreset"
    BY <1>1 DEF Kept, Typed, setter, OneOf, Numbers, Percent, Unit
  <1>2. CASE n = "density"
    BY <1>2 DEF Kept, Typed, setter, OneOf, Numbers, Percent, Unit
  <1>3. CASE n = "fontScalePercent"
    <2>1. v \in Int /\ \A u : setter(n, u) = Between(75, u, 150)
      BY <1>3 DEF Typed, setter, Numbers, Percent, Unit
    <2>2. s \in Int /\ Between(75, s, 150) = s
      BY <2>1 DEF Between
    <2>3. Typed(n, s)
      BY <1>3, <2>2 DEF Typed, Unit
    <2> QED BY <2>1, <2>2, <2>3 DEF Kept
  <1>4. CASE n = "zoomPercent"
    <2>1. v \in Int /\ \A u : setter(n, u) = Between(50, u, 200)
      BY <1>4 DEF Typed, setter, Numbers, Percent, Unit
    <2>2. s \in Int /\ Between(50, s, 200) = s
      BY <2>1 DEF Between
    <2>3. Typed(n, s)
      BY <1>4, <2>2 DEF Typed, Unit
    <2> QED BY <2>1, <2>2, <2>3 DEF Kept
  <1>5. CASE n \in Unit
    <2>1. v \in Int /\ \A u : setter(n, u) = Between(0, u, 100)
      BY <1>5 DEF Typed, setter, Numbers, Percent, Unit
    <2>2. s \in Int /\ Between(0, s, 100) = s
      BY <2>1 DEF Between
    <2>3. Typed(n, s)
      BY <1>5, <2>2 DEF Typed, Unit
    <2> QED BY <2>1, <2>2, <2>3 DEF Kept
  <1>6. CASE n = "customAccentHueDegrees"
    <2>1. v \in Int /\ s = v % 360
      BY <1>6 DEF Typed, setter, Numbers, Unit
    <2>2. s \in 0..359
      BY <2>1
    <2>3. s % 360 = s
      BY <2>2
    <2> QED BY <1>6, <2>2, <2>3 DEF Kept, Typed, setter, Unit
  <1>7. CASE n \in Text \cup {"softwareRenderingEnabled"}
    <2>1. \A u : setter(n, u) = u
      BY <1>7 DEF setter, Text, Unit
    <2> QED BY <2>1 DEF Kept
  <1> QED BY <1>1, <1>2, <1>3, <1>4, <1>5, <1>6, <1>7 DEF Names, Percent

\* The defaults are values of their setters.
LEMMA DefaultsKept == KeptAll(Defaults)
  <1>1. Defaults = [n \in Names |-> Defaults[n]]
    BY DEF Defaults, Names, Percent, Unit, Text
  <1>2. ASSUME NEW n \in Names PROVE Kept(n, Defaults[n])
    <2>1. CASE n \in Percent
      <3>0. Defaults["fontScalePercent"] = 100 /\ Defaults["zoomPercent"] = 100
        BY DEF Defaults
      <3>1. Defaults[n] = 100
        BY <2>1, <3>0 DEF Percent
      <3>2. setter(n, 100) = Between(75, 100, 150) \/ setter(n, 100) = Between(50, 100, 200)
        BY <2>1 DEF setter, Percent, Unit
      <3>3. Between(75, 100, 150) = 100 /\ Between(50, 100, 200) = 100
        BY DEF Between
      <3> QED BY <2>1, <3>1, <3>2, <3>3 DEF Kept, Typed, Percent
    <2>2. CASE n \in Unit
      <3>0. Defaults["customAccentLightness"] = 75 /\ Defaults["customAccentChroma"] = 16
        BY DEF Defaults
      <3>1. Defaults[n] \in {75, 16}
        BY <2>2, <3>0 DEF Unit
      <3>2. setter(n, Defaults[n]) = Between(0, Defaults[n], 100)
        BY <2>2 DEF setter, Unit
      <3>3. setter(n, Defaults[n]) = Defaults[n]
        BY <3>1, <3>2 DEF Between
      <3> QED BY <2>2, <3>1, <3>3 DEF Kept, Typed, Unit
    <2>3. CASE n = "customAccentHueDegrees"
      <3>1. 260 % 360 = 260
        OBVIOUS
      <3> QED BY <2>3, <3>1 DEF Kept, Typed, setter, Defaults, Numbers, Percent, Unit
    <2>4. CASE n = "softwareRenderingEnabled"
      BY <2>4 DEF Kept, Typed, setter, Defaults, Numbers, Percent, Unit
    <2>5. CASE n \in Text \cup {"fontPreset", "density"}
      <3>1. Typed(n, Defaults[n])
        BY <2>5 DEF Typed, Numbers, Percent, Unit, Text
      <3>2. CASE n \in Text
        <4>1. setter(n, Defaults[n]) = Defaults[n]
          BY <3>2 DEF setter, Unit, Text
        <4> QED BY <3>1, <4>1 DEF Kept
      <3>3. CASE n = "fontPreset"
        <4>1. Defaults[n] = "victorian"
          BY <3>3 DEF Defaults
        <4>2. setter(n, "victorian") = "victorian"
          BY <3>3 DEF setter, Unit, OneOf
        <4> QED BY <3>1, <4>1, <4>2 DEF Kept
      <3>4. CASE n = "density"
        <4>1. Defaults[n] = "comfortable"
          BY <3>4 DEF Defaults
        <4>2. setter(n, "comfortable") = "comfortable"
          BY <3>4 DEF setter, Unit, OneOf
        <4> QED BY <3>1, <4>1, <4>2 DEF Kept
      <3> QED BY <2>5, <3>2, <3>3, <3>4
    <2> QED BY <2>1, <2>2, <2>3, <2>4, <2>5 DEF Names
  <1> QED BY <1>1, <1>2 DEF KeptAll

\* A garbled setting is converted to a value of its type.
LEMMA ConvertedTyped ==
  ASSUME NEW n \in Names, NEW v, Typed(n, v) \/ v = Garbled
  PROVE  Typed(n, Converted(n, v))
  <1>1. CASE v # Garbled
    BY <1>1 DEF Converted
  <1>2. CASE v = Garbled /\ n \in Numbers
    <2>1. Converted(n, v) = 0 /\ n # "softwareRenderingEnabled"
      BY <1>2 DEF Converted, Numbers, Percent, Unit
    <2> QED BY <2>1 DEF Typed
  <1>3. CASE v = Garbled /\ n \notin Numbers
    <2>1. n = "softwareRenderingEnabled" => Converted(n, v) = TRUE
      BY <1>3 DEF Converted
    <2> QED BY <1>3, <2>1 DEF Typed
  <1> QED BY <1>1, <1>2, <1>3

\* Whatever is stored, what is loaded are values that setters keep.
LEMMA LoadKept ==
  ASSUME PreferencesInv
  PROVE  KeptAll(LoadedFrom(settings, Defaults))
  <1> DEFINE p == LoadedFrom(settings, Defaults)
  <1>1. p = [n \in Names |-> p[n]]
    BY DEF LoadedFrom
  <1>2. ASSUME NEW n \in Names PROVE Kept(n, p[n])
    <2>1. Kept(n, Defaults[n])
      BY DefaultsKept DEF KeptAll
    <2>2. CASE n \in DOMAIN settings
      <3>1. p[n] = setter(n, Converted(n, settings[n]))
        BY <2>2 DEF LoadedFrom
      <3>2. Typed(n, Converted(n, settings[n]))
        BY <2>2, ConvertedTyped DEF PreferencesInv
      <3> QED BY <3>1, <3>2, SetterKeeps
    <2>3. CASE n \notin DOMAIN settings
      <3>1. p[n] = Defaults[n] \/ p[n] = setter(n, Defaults[n])
        BY <2>3 DEF LoadedFrom
      <3> QED BY <2>1, <3>1, SetterKeeps DEF Kept
    <2> QED BY <2>2, <2>3
  <1> QED BY <1>1, <1>2 DEF KeptAll

\* What a run has written is what the next one loads.
LEMMA LoadReturns ==
  ASSUME PreferencesInv, NEW n \in DOMAIN written
  PROVE  LoadedFrom(settings, Defaults)[n] = written[n]
  <1>1. n \in Names /\ n \in DOMAIN settings /\ settings[n] = written[n] /\ Kept(n, written[n])
    BY DEF PreferencesInv, WrittenInv
  <1>2. Converted(n, written[n]) = written[n]
    BY <1>1, PreferencesAssumption DEF Kept, Typed, Converted
  <1>3. setter(n, Converted(n, settings[n])) = written[n]
    BY <1>1, <1>2 DEF Kept
  <1> QED BY <1>1, <1>3 DEF LoadedFrom

-----------------------------------------------------------------------------
(* The invariant *)

\* Before the first run nothing was written.
LEMMA InitPreferences == SessionInit => PreferencesInv
  <1> SUFFICES ASSUME SessionInit PROVE PreferencesInv
    OBVIOUS
  <1>1. DOMAIN written = {}
    BY DEF SessionInit
  <1>2. preferences = Defaults /\ settings \in SettingsFiles
    BY DEF SessionInit
  <1> QED BY <1>1, <1>2, DefaultsKept, SessionAssumption DEF PreferencesInv, WrittenInv

\* A save that was cut off has stored preferences, and knows it.
LEMMA CutSaveKept ==
  ASSUME PreferencesInv, NEW count \in 1..11,
         settings' = SavedOver(settings, count), written' = SavedOver(written, count)
  PROVE  /\ (\A n \in Names \cap DOMAIN settings : Typed(n, settings[n]) \/ settings[n] = Garbled)'
         /\ WrittenInv'
  <1> DEFINE first == FirstSaved(count)
  <1>1. first \subseteq Names
    BY DEF FirstSaved, SaveOrder, Names, Percent, Unit, Text
  <1>2. \A n \in Names : Kept(n, preferences[n])
    BY DEF PreferencesInv, KeptAll
  <1>3. /\ DOMAIN settings' = first \cup DOMAIN settings
        /\ \A n \in DOMAIN settings' : settings'[n] = IF n \in first THEN preferences[n] ELSE settings[n]
    BY DEF SavedOver
  <1>4. /\ DOMAIN written' = first \cup DOMAIN written
        /\ \A n \in DOMAIN written' : written'[n] = IF n \in first THEN preferences[n] ELSE written[n]
    BY DEF SavedOver
  <1> HIDE DEF first
  <1>5. ASSUME NEW n \in Names \cap DOMAIN settings'
        PROVE  Typed(n, settings'[n]) \/ settings'[n] = Garbled
    <2>1. CASE n \in first
      BY <1>2, <1>3, <2>1 DEF Kept
    <2>2. CASE n \notin first
      BY <1>3, <2>2 DEF PreferencesInv
    <2> QED BY <2>1, <2>2
  <1>6. ASSUME NEW n \in DOMAIN written'
        PROVE  /\ n \in Names \cap DOMAIN settings'
               /\ settings'[n] = written'[n] /\ Kept(n, written'[n])
    <2>1. CASE n \in first
      BY <1>1, <1>2, <1>3, <1>4, <2>1
    <2>2. CASE n \notin first
      BY <1>3, <1>4, <2>2 DEF PreferencesInv, WrittenInv
    <2> QED BY <2>1, <2>2
  <1> QED BY <1>5, <1>6 DEF WrittenInv

\* Every step keeps the invariant.
LEMMA NextPreferences == PreferencesInv /\ [SessionNext]_vars => PreferencesInv'
  <1> SUFFICES ASSUME PreferencesInv, [SessionNext]_vars PROVE PreferencesInv'
    OBVIOUS
  <1>1. CASE Launch
    <2>1. preferences' = LoadedFrom(settings, Defaults) /\ UNCHANGED <<settings, written>>
      BY <1>1 DEF Launch, construct, history
    <2>2. KeptAll(preferences')
      BY <2>1, LoadKept
    <2>3. \A n \in DOMAIN written' : preferences'[n] = written'[n]
      BY <2>1, LoadReturns
    <2>4. WrittenInv'
      BY <2>1 DEF PreferencesInv, WrittenInv
    <2> QED BY <2>1, <2>2, <2>3, <2>4 DEF PreferencesInv
  <1>2. CASE EditPreference
    <2>1. PICK e \in Edits : preferences' = [preferences EXCEPT ![e[1]] = setter(e[1], e[2])]
      BY <1>2 DEF EditPreference, edit
    <2>2. UNCHANGED <<settings, written, phase>> /\ phase = "running"
      BY <1>2 DEF EditPreference, edit, history, session
    <2>3. e[1] \in Names /\ Kept(e[1], setter(e[1], e[2]))
      BY PreferencesAssumption, SetterKeeps
    <2>4. KeptAll(preferences')
      BY <2>1, <2>3 DEF PreferencesInv, KeptAll
    <2> QED BY <2>2, <2>4 DEF PreferencesInv, WrittenInv
  <1>3. CASE closePreferences \/ shutdown
    <2>1. settings' = preferences /\ written' = preferences /\ UNCHANGED preferences
      BY <1>3 DEF closePreferences, shutdown, save
    <2>2. phase' # "loading"
      BY <1>3 DEF closePreferences, shutdown, session
    <2>3. /\ DOMAIN preferences = Names
          /\ \A n \in Names : Kept(n, preferences[n]) /\ Typed(n, preferences[n])
      BY DEF PreferencesInv, KeptAll, Kept
    <2>4. WrittenInv'
      BY <2>1, <2>3 DEF WrittenInv
    <2> QED BY <2>1, <2>2, <2>3, <2>4 DEF PreferencesInv
  <1>4. CASE SavePlacement \/ Die \/ DieInPlacement
    <2>1. preferences' = Defaults /\ phase' = "down" /\ UNCHANGED <<settings, written>>
      BY <1>4 DEF SavePlacement, Die, DieInPlacement, ProcessEnds
    <2> QED BY <2>1, DefaultsKept DEF PreferencesInv, WrittenInv
  <1>6. CASE DieInSave
    <2>1. preferences' = Defaults /\ phase' = "down"
      BY <1>6 DEF DieInSave, ProcessEnds
    <2>2. PICK count \in 1..11 : settings' = SavedOver(settings, count) /\ written' = SavedOver(written, count)
      BY <1>6 DEF DieInSave
    <2> QED BY <2>1, <2>2, CutSaveKept, DefaultsKept DEF PreferencesInv
  <1>5. CASE objectCreated \/ MoveWindow \/ ChangeScreens \/ UNCHANGED vars
    <2>1. UNCHANGED <<settings, preferences, written>>
      BY <1>5 DEF objectCreated, MoveWindow, ChangeScreens, vars, prefVars, history
    <2>2. phase' = "loading" => phase = "loading"
      BY <1>5 DEF objectCreated, MoveWindow, ChangeScreens, vars, session
    <2> QED BY <2>1, <2>2 DEF PreferencesInv, WrittenInv
  <1> QED BY <1>1, <1>2, <1>3, <1>4, <1>5, <1>6 DEF SessionNext

-----------------------------------------------------------------------------
(* Results *)

\* Whatever is edited, clamped, converted, quit and killed, also between two settings of a save:
\* a run has what was last stored of each preference.
THEOREM SavedPreferencesSurvive == SessionSpec => []PreferencesSurvive
  <1>1. PreferencesInv => PreferencesSurvive
    BY DEF PreferencesInv, PreferencesSurvive
  <1> QED BY <1>1, InitPreferences, NextPreferences, PTL DEF SessionSpec

\* main() and AppPreferences read the same choice of renderer, whatever is stored.
THEOREM RendererIsTheUsers == SessionSpec => []RendererIsChosen
  <1>1. SessionInit => RendererIsChosen
    BY DEF SessionInit, RendererIsChosen
  <1>2. RendererIsChosen /\ [SessionNext]_vars => RendererIsChosen'
    <2> SUFFICES ASSUME RendererIsChosen, [SessionNext]_vars, phase' = "loading"
                 PROVE  backend' = IF userBackend' # Unset THEN userBackend'
                                   ELSE IF preferences'.softwareRenderingEnabled THEN "software"
                                   ELSE Unset
      BY DEF RendererIsChosen
    <2>1. CASE Launch
      <3>1. preferences' = LoadedFrom(settings, Defaults) /\ backend' = QuickBackend(userBackend')
        BY <2>1 DEF Launch, construct
      <3>2. "softwareRenderingEnabled" \in Names
        BY DEF Names
      <3>3. \A v : setter("softwareRenderingEnabled", v) = v
        BY DEF setter, Unit
      <3>4. Defaults["softwareRenderingEnabled"] = FALSE
        BY DEF Defaults
      <3>5. preferences'.softwareRenderingEnabled = storedSoftwareRendering
        BY <3>1, <3>2, <3>3, <3>4 DEF LoadedFrom, storedSoftwareRendering
      <3> QED BY <3>1, <3>5 DEF QuickBackend
    <2>2. CASE ~Launch
      <3>1. UNCHANGED <<backend, userBackend, preferences, phase>>
        BY <2>2 DEF SessionNext, objectCreated, MoveWindow, ChangeScreens, EditPreference, edit,
                    closePreferences, save, shutdown, SavePlacement, Die, DieInSave, DieInPlacement, ProcessEnds,
                    vars, session, prefVars
      <3> QED BY <3>1 DEF RendererIsChosen
    <2> QED BY <2>1, <2>2
  <1> QED BY <1>1, <1>2, PTL DEF SessionSpec

-----------------------------------------------------------------------------
(* Least elements *)

\* Among subsets of a finite set there is one that includes no other.
LEMMA LeastSubset ==
  ASSUME NEW S, IsFiniteSet(S), NEW T, T \subseteq SUBSET S, T # {}
  PROVE  \E X \in T : \A Y \in T : Y \subseteq X => Y = X
  <1>1. T \subseteq FiniteSubsetsOf(S)
    BY FS_FiniteSubsetsOfFinite
  <1>2. PICK X \in T : \A Y \in T : ~(<<Y, X>> \in StrictSubsetOrdering(S))
    BY <1>1, FS_StrictSubsetOrderingWellFounded, WFMin
  <1>3. \A Y \in T : Y \subseteq X => Y = X
    BY <1>2 DEF StrictSubsetOrdering
  <1> QED BY <1>3

\* A function to the naturals has a least value.
LEMMA LeastValue ==
  ASSUME NEW S, S # {}, NEW f \in [S -> Nat]
  PROVE  \E x \in S : \A y \in S : f[x] <= f[y]
  <1>1. PICK x0 \in S : TRUE
    OBVIOUS
  <1> DEFINE N == f[x0]
             U == {x \in S : f[x] <= N}
             I == 0..N
             T == {0..f[x] : x \in U}
  <1>2. N \in Nat /\ x0 \in U
    OBVIOUS
  <1>3. IsFiniteSet(I)
    BY <1>2, FS_Interval
  <1>4. T \subseteq SUBSET I /\ T # {}
    <2>1. \A x \in U : f[x] \in Nat /\ f[x] <= N
      OBVIOUS
    <2>2. \A x \in U : 0..f[x] \in SUBSET (0..N)
      BY <1>2, <2>1
    <2> QED BY <1>2, <2>2
  <1>5. PICK X \in T : \A Y \in T : Y \subseteq X => Y = X
    <2> HIDE DEF T, I
    <2> QED BY <1>3, <1>4, LeastSubset
  <1>6. PICK x \in U : X = 0..f[x]
    OBVIOUS
  <1>7. \A y \in S : f[x] <= f[y]
    <2> SUFFICES ASSUME NEW y \in S, f[y] < f[x] PROVE FALSE
      OBVIOUS
    <2>1. f[y] \in Nat /\ f[x] \in Nat /\ f[x] <= N
      OBVIOUS
    <2>2. y \in U
      BY <1>2, <2>1
    <2>3. 0..f[y] \subseteq X /\ 0..f[y] \in T
      BY <1>6, <2>1, <2>2
    <2>4. 0..f[y] = 0..f[x]
      BY <1>5, <1>6, <2>3
    <2>5. f[x] \in 0..f[x] /\ ~(f[x] \in 0..f[y])
      BY <2>1
    <2> QED BY <2>4, <2>5
  <1> QED BY <1>7

-----------------------------------------------------------------------------
(* Scores *)

Score(n) == [1..n -> Int]

\* The first difference decides: a strict order, in which any two scores can be compared.
LEMMA BeforeOrder ==
  ASSUME NEW n \in Nat, NEW a \in Score(n), NEW b \in Score(n), NEW c \in Score(n)
  PROVE  /\ ~Before(a, a)
         /\ Before(a, b) /\ Before(b, c) => Before(a, c)
         /\ a # b => Before(a, b) \/ Before(b, a)
  <1>1. ~Before(a, a)
    BY DEF Before, Score
  <1>2. ASSUME Before(a, b), Before(b, c) PROVE Before(a, c)
    <2>1. PICK i \in 1..n : a[i] < b[i] /\ \A j \in 1..i - 1 : a[j] = b[j]
      BY <1>2 DEF Before, Score
    <2>2. PICK k \in 1..n : b[k] < c[k] /\ \A j \in 1..k - 1 : b[j] = c[j]
      BY <1>2 DEF Before, Score
    <2>3. \A j \in 1..n : a[j] \in Int /\ b[j] \in Int /\ c[j] \in Int
      BY DEF Score
    <2>4. DOMAIN a = 1..n
      BY DEF Score
    <2>5. CASE i <= k
      <3>1. a[i] < c[i]
        BY <2>1, <2>2, <2>3, <2>5
      <3>2. \A j \in 1..i - 1 : a[j] = c[j]
        BY <2>1, <2>2, <2>5
      <3> QED BY <2>4, <3>1, <3>2 DEF Before
    <2>6. CASE k < i
      <3>1. a[k] < c[k]
        BY <2>1, <2>2, <2>3, <2>6
      <3>2. \A j \in 1..k - 1 : a[j] = c[j]
        BY <2>1, <2>2, <2>6
      <3> QED BY <2>4, <3>1, <3>2 DEF Before
    <2> QED BY <2>5, <2>6
  <1>3. ASSUME a # b PROVE Before(a, b) \/ Before(b, a)
    <2> DEFINE D == {i \in 1..n : a[i] # b[i]}
               f == [i \in D |-> i]
    <2>1. D # {}
      <3>1. a = [i \in 1..n |-> a[i]] /\ b = [i \in 1..n |-> b[i]]
        BY DEF Score
      <3>2. (\A i \in 1..n : a[i] = b[i]) => [i \in 1..n |-> a[i]] = [i \in 1..n |-> b[i]]
        OBVIOUS
      <3> QED BY <1>3, <3>1, <3>2
    <2>6. f \in [D -> Nat]
      OBVIOUS
    <2>2. PICK i \in D : \A j \in D : f[i] <= f[j]
      <3> HIDE DEF D, f
      <3> QED BY <2>1, <2>6, LeastValue
    <2>3. \A j \in 1..i - 1 : a[j] = b[j]
      BY <2>2
    <2>4. a[i] \in Int /\ b[i] \in Int /\ i \in DOMAIN a /\ i \in DOMAIN b
      BY DEF Score
    <2>5. a[i] < b[i] \/ b[i] < a[i]
      BY <2>4
    <2> HIDE DEF f
    <2> QED BY <2>3, <2>4, <2>5 DEF Before
  <1> QED BY <1>1, <1>2, <1>3

\* What comes first has the least first part.
LEMMA BeforeFirst ==
  ASSUME NEW n \in Nat \ {0}, NEW a \in Score(n), NEW b \in Score(n), Before(a, b)
  PROVE  a[1] <= b[1]
  <1>1. PICK i \in 1..n : a[i] < b[i] /\ \A j \in 1..i - 1 : a[j] = b[j]
    BY DEF Before, Score
  <1>2. a[1] \in Int /\ b[1] \in Int
    BY DEF Score
  <1>3. CASE i = 1
    BY <1>1, <1>2, <1>3
  <1>4. CASE i # 1
    <2>1. 1 \in 1..i - 1
      BY <1>4
    <2> QED BY <1>1, <1>2, <2>1
  <1> QED BY <1>3, <1>4

Wins(score, S, r) == r \in S /\ \A s \in S \ {r} : Before(score[r], score[s])

\* Of finitely many with different scores one is the best.
LEMMA BestWins ==
  ASSUME NEW S, IsFiniteSet(S), S # {}, NEW n \in Nat, NEW score \in [S -> Score(n)],
         \A r, s \in S : score[r] = score[s] => r = s
  PROVE  Wins(score, S, BestBy(score))
  <1> DEFINE Ahead(u) == {v \in S : Before(score[v], score[u])}
             T == {Ahead(u) : u \in S}
  <1>1. T \subseteq SUBSET S /\ T # {}
    <2>1. \A u \in S : Ahead(u) \in SUBSET S
      OBVIOUS
    <2> HIDE DEF Ahead
    <2> QED BY <2>1
  <1>2. PICK X \in T : \A Y \in T : Y \subseteq X => Y = X
    <2> HIDE DEF T
    <2> QED BY <1>1, LeastSubset
  <1>3. PICK u \in S : X = Ahead(u)
    OBVIOUS
  <1>4. \A v \in S : score[v] \in Score(n)
    OBVIOUS
  <1>5. X = {}
    <2> SUFFICES ASSUME NEW v \in X PROVE FALSE
      OBVIOUS
    <2>1. v \in S /\ Before(score[v], score[u])
      BY <1>3
    <2>2. \A x \in S : Before(score[x], score[v]) => Before(score[x], score[u])
      BY <1>4, <2>1, BeforeOrder
    <2>3. Ahead(v) \subseteq X
      BY <1>3, <2>2
    <2>4. v \notin Ahead(v)
      BY <1>4, <2>1, BeforeOrder
    <2> QED BY <1>2, <2>1, <2>3, <2>4
  <1>6. \A v \in S \ {u} : Before(score[u], score[v])
    <2> SUFFICES ASSUME NEW v \in S \ {u} PROVE Before(score[u], score[v])
      OBVIOUS
    <2>1. ~Before(score[v], score[u])
      BY <1>3, <1>5
    <2>2. score[u] # score[v]
      OBVIOUS
    <2> QED BY <1>4, <2>1, <2>2, BeforeOrder
  <1>7. DOMAIN score = S
    OBVIOUS
  <1>8. \E r \in DOMAIN score : \A s \in DOMAIN score \ {r} : Before(score[r], score[s])
    BY <1>6, <1>7
  <1> HIDE DEF Ahead, T
  <1> QED BY <1>7, <1>8 DEF BestBy, Wins

\* Nothing else is as good.
LEMMA WinnerIsBest ==
  ASSUME NEW S, NEW n \in Nat, NEW score \in [S -> Score(n)], NEW r, Wins(score, S, r)
  PROVE  BestBy(score) = r
  <1>1. DOMAIN score = S /\ \A s \in S : score[s] \in Score(n)
    OBVIOUS
  <1>2. Wins(score, S, BestBy(score))
    BY <1>1 DEF Wins, BestBy
  <1>3. ASSUME BestBy(score) # r PROVE FALSE
    <2> DEFINE b == BestBy(score)
    <2>1. b \in S /\ r \in S /\ Before(score[r], score[b]) /\ Before(score[b], score[r])
      BY <1>2, <1>3 DEF Wins
    <2> HIDE DEF b
    <2> QED BY <1>1, <2>1, BeforeOrder
  <1> QED BY <1>3

-----------------------------------------------------------------------------
(* Regions and their edges *)

Region(allowed) == IsFiniteSet(allowed) /\ allowed \subseteq Int \X Int

\* The values of a function over a finite set.
LEMMA ImageFinite ==
  ASSUME NEW S, IsFiniteSet(S), NEW f, DOMAIN f = S
  PROVE  IsFiniteSet({f[x] : x \in S})
  <1> DEFINE T == {f[x] : x \in S}
             g == [x \in S |-> f[x]]
  <1>1. g \in [S -> T] /\ \A t \in T : \E x \in S : g[x] = t
    OBVIOUS
  <1>2. g \in Surjection(S, T)
    <2> HIDE DEF g, T
    <2> QED BY <1>1 DEF Surjection
  <1> HIDE DEF g, T
  <1>3. IsFiniteSet(T)
    BY <1>2, FS_Surjection
  <1> QED BY <1>3 DEF T

\* The edges are finitely many numbers.
LEMMA EdgesFinite ==
  ASSUME NEW allowed, Region(allowed)
  PROVE  /\ IsFiniteSet(Lefts(allowed)) /\ Lefts(allowed) \subseteq Int
         /\ IsFiniteSet(Rights(allowed)) /\ Rights(allowed) \subseteq Int
         /\ IsFiniteSet(Tops(allowed)) /\ Tops(allowed) \subseteq Int
         /\ IsFiniteSet(Bottoms(allowed)) /\ Bottoms(allowed) \subseteq Int
  <1> DEFINE f == [c \in allowed |-> c[1]]
             g == [c \in allowed |-> c[2]]
             X == {f[c] : c \in allowed}
             Y == {g[c] : c \in allowed}
  <1>1. IsFiniteSet(X) /\ IsFiniteSet(Y)
    <2>1. DOMAIN f = allowed /\ DOMAIN g = allowed
      OBVIOUS
    <2> HIDE DEF f, g
    <2> QED BY <2>1, ImageFinite DEF Region
  <1>2. \A c \in allowed : f[c] = c[1] /\ g[c] = c[2] /\ c[1] \in Int /\ c[2] \in Int
    BY DEF Region
  <1> HIDE DEF f, g
  <1>3. X \subseteq Int /\ Y \subseteq Int
    BY <1>2
  <1>4. Lefts(allowed) \in SUBSET X /\ Rights(allowed) \in SUBSET X
    <2>1. Lefts(allowed) \subseteq X
      BY <1>2 DEF Lefts
    <2>2. Rights(allowed) \subseteq X
      BY <1>2 DEF Rights
    <2> QED BY <2>1, <2>2
  <1>5. Tops(allowed) \in SUBSET Y /\ Bottoms(allowed) \in SUBSET Y
    <2>1. Tops(allowed) \subseteq Y
      BY <1>2 DEF Tops
    <2>2. Bottoms(allowed) \subseteq Y
      BY <1>2 DEF Bottoms
    <2> QED BY <2>1, <2>2
  <1> HIDE DEF X, Y
  <1>6. \A T \in SUBSET X : IsFiniteSet(T) /\ T \subseteq Int
    BY <1>1, <1>3, FS_Subset
  <1>7. \A T \in SUBSET Y : IsFiniteSet(T) /\ T \subseteq Int
    BY <1>1, <1>3, FS_Subset
  <1> QED BY <1>4, <1>5, <1>6, <1>7

\* A set of numbers moved by w.
LEMMA MovedFinite ==
  ASSUME NEW S, IsFiniteSet(S), S \subseteq Int, NEW w \in Int
  PROVE  IsFiniteSet({i - w + 1 : i \in S}) /\ {i - w + 1 : i \in S} \subseteq Int
  <1> DEFINE f == [i \in S |-> i - w + 1]
  <1>1. {f[i] : i \in S} = {i - w + 1 : i \in S}
    OBVIOUS
  <1>3. DOMAIN f = S
    OBVIOUS
  <1>2. IsFiniteSet({f[i] : i \in S})
    <2> HIDE DEF f
    <2> QED BY <1>3, ImageFinite
  <1> QED BY <1>1, <1>2

\* The candidates are finitely many, at integer positions.
LEMMA CandidatesFinite ==
  ASSUME NEW allowed, Region(allowed), NEW desired, desired.x \in Int, desired.y \in Int,
         NEW w \in Int, NEW h \in Int
  PROVE  /\ IsFiniteSet(Candidates(allowed, desired, w, h))
         /\ candidateXPositions(desired, allowed, w) \subseteq Int
         /\ candidateYPositions(desired, allowed, h) \subseteq Int
  <1> DEFINE X == candidateXPositions(desired, allowed, w)
             Y == candidateYPositions(desired, allowed, h)
             f == [p \in X \X Y |-> Rect(p[1], p[2], w, h)]
  <1>1. IsFiniteSet({desired.x}) /\ IsFiniteSet({desired.y})
    BY FS_Singleton
  <1>2. IsFiniteSet(X) /\ X \subseteq Int
    BY <1>1, EdgesFinite, MovedFinite, FS_Union DEF candidateXPositions
  <1>3. IsFiniteSet(Y) /\ Y \subseteq Int
    BY <1>1, EdgesFinite, MovedFinite, FS_Union DEF candidateYPositions
  <1> HIDE DEF X, Y
  <1>4. IsFiniteSet(X \X Y)
    BY <1>2, <1>3, FS_Product
  <1>5. DOMAIN f = X \X Y
    OBVIOUS
  <1>6. IsFiniteSet({f[p] : p \in X \X Y})
    <2> HIDE DEF f
    <2> QED BY <1>4, <1>5, ImageFinite
  <1>7. ASSUME NEW r \in Candidates(allowed, desired, w, h) PROVE r \in {f[p] : p \in X \X Y}
    <2>1. PICK x \in X, y \in Y : r = Rect(x, y, w, h)
      BY DEF Candidates, X, Y
    <2>2. <<x, y>> \in X \X Y /\ f[<<x, y>>] = r
      BY <2>1
    <2> HIDE DEF f
    <2> QED BY <2>2
  <1> HIDE DEF f
  <1>8. Candidates(allowed, desired, w, h) \in SUBSET {f[p] : p \in X \X Y}
    BY <1>7
  <1>9. IsFiniteSet(Candidates(allowed, desired, w, h))
    BY <1>6, <1>8, FS_Subset
  <1> QED BY <1>2, <1>3, <1>9 DEF X, Y

\* A pixel beside one that is not in the region gives an edge.
LEMMA EdgeIs ==
  ASSUME NEW allowed, Region(allowed), NEW i \in Int, NEW j \in Int, <<i, j>> \in allowed
  PROVE  /\ <<i - 1, j>> \notin allowed => i \in Lefts(allowed)
         /\ <<i + 1, j>> \notin allowed => i \in Rights(allowed)
         /\ <<i, j - 1>> \notin allowed => j \in Tops(allowed)
         /\ <<i, j + 1>> \notin allowed => j \in Bottoms(allowed)
  <1> DEFINE c == <<i, j>>
  <1>1. c \in allowed /\ c[1] = i /\ c[2] = j
    OBVIOUS
  <1>2. \A k \in Int : i \in Row(allowed, k) <=> <<i, k>> \in allowed
    <2>1. \A d \in allowed : d = <<d[1], d[2]>>
      BY DEF Region
    <2> QED BY <2>1 DEF Row
  <1>3. i \in Row(allowed, j)
    BY <1>1, <1>2
  <1> HIDE DEF c
  <1>4. <<i, j - 1>> \notin allowed => Row(allowed, c[2] - 1) # Row(allowed, c[2])
    BY <1>1, <1>2, <1>3
  <1>5. <<i, j + 1>> \notin allowed => Row(allowed, c[2] + 1) # Row(allowed, c[2])
    BY <1>1, <1>2, <1>3
  <1> QED BY <1>1, <1>4, <1>5 DEF Lefts, Rights, Tops, Bottoms

-----------------------------------------------------------------------------
(* Where a rectangle of a given size fits *)

\* The square of the distance that containedScore() compares first.
Far(desired, x, y) ==
    (x - desired.x) * (x - desired.x) + (y - desired.y) * (y - desired.y)

\* A rectangle is contained when all its pixels are in the region.
LEMMA ContainedIs ==
  ASSUME NEW allowed, NEW x \in Int, NEW y \in Int, NEW w \in Nat, NEW h \in Nat
  PROVE  fullyContainsRect(allowed, Rect(x, y, w, h)) <=>
            \A i \in x..x + w - 1 : \A j \in y..y + h - 1 : <<i, j>> \in allowed
  <1> DEFINE I == x..x + w - 1
             J == y..y + h - 1
  <1>1. Pixels(Rect(x, y, w, h)) = I \X J
    BY DEF Pixels, Rect
  <1> HIDE DEF I, J
  <1>2. I \X J \subseteq allowed <=> \A i \in I : \A j \in J : <<i, j>> \in allowed
    OBVIOUS
  <1> QED BY <1>1, <1>2 DEF fullyContainsRect, I, J

\* One step nearer is nearer.
LEMMA Nearer ==
  ASSUME NEW desired, desired.x \in Int, desired.y \in Int, NEW x \in Int, NEW y \in Int
  PROVE  /\ Far(desired, x, y) \in Nat
         /\ x > desired.x => Far(desired, x - 1, y) < Far(desired, x, y)
         /\ x < desired.x => Far(desired, x + 1, y) < Far(desired, x, y)
         /\ y > desired.y => Far(desired, x, y - 1) < Far(desired, x, y)
         /\ y < desired.y => Far(desired, x, y + 1) < Far(desired, x, y)
  <1>1. \A n \in Int : /\ n * n \in Nat
                       /\ n > 0 => (n - 1) * (n - 1) < n * n
                       /\ n < 0 => (n + 1) * (n + 1) < n * n
    OBVIOUS
  <1> DEFINE a == x - desired.x
             b == y - desired.y
  <1>2. a \in Int /\ b \in Int
    OBVIOUS
  <1>3. /\ (a - 1) * (a - 1) \in Nat /\ (a + 1) * (a + 1) \in Nat /\ a * a \in Nat
        /\ (b - 1) * (b - 1) \in Nat /\ (b + 1) * (b + 1) \in Nat /\ b * b \in Nat
        /\ a > 0 => (a - 1) * (a - 1) < a * a
        /\ a < 0 => (a + 1) * (a + 1) < a * a
        /\ b > 0 => (b - 1) * (b - 1) < b * b
        /\ b < 0 => (b + 1) * (b + 1) < b * b
    <2> HIDE DEF a, b
    <2> QED BY <1>1, <1>2
  <1>4. /\ Far(desired, x, y) = a * a + b * b
        /\ Far(desired, x - 1, y) = (a - 1) * (a - 1) + b * b
        /\ Far(desired, x + 1, y) = (a + 1) * (a + 1) + b * b
        /\ Far(desired, x, y - 1) = a * a + (b - 1) * (b - 1)
        /\ Far(desired, x, y + 1) = a * a + (b + 1) * (b + 1)
    <2>1. /\ x - 1 - desired.x = a - 1 /\ x + 1 - desired.x = a + 1
          /\ y - 1 - desired.y = b - 1 /\ y + 1 - desired.y = b + 1
      OBVIOUS
    <2> QED BY <2>1 DEF Far
  <1>5. (x > desired.x <=> a > 0) /\ (x < desired.x <=> a < 0) /\
        (y > desired.y <=> b > 0) /\ (y < desired.y <=> b < 0)
    OBVIOUS
  <1> HIDE DEF a, b
  <1> QED BY <1>2, <1>3, <1>4, <1>5

\* A contained rectangle that is as near as possible stands where it was wanted, or touches an
\* edge that keeps it from coming nearer: it is a candidate.
LEMMA NearestIsCandidate ==
  ASSUME NEW allowed, Region(allowed),
         NEW desired, desired.x \in Int, desired.y \in Int,
         NEW w \in Nat \ {0}, NEW h \in Nat \ {0}, NEW x \in Int, NEW y \in Int,
         fullyContainsRect(allowed, Rect(x, y, w, h)),
         \A u, v \in Int : fullyContainsRect(allowed, Rect(u, v, w, h)) =>
                              Far(desired, x, y) <= Far(desired, u, v)
  PROVE  Rect(x, y, w, h) \in Candidates(allowed, desired, w, h)
  <1> DEFINE In(u, v) == \A i \in u..u + w - 1 : \A j \in v..v + h - 1 : <<i, j>> \in allowed
  <1>1. In(x, y)
    BY ContainedIs
  <1>2. \A u, v \in Int : In(u, v) => Far(desired, x, y) <= Far(desired, u, v)
    BY ContainedIs
  <1>3. \A u, v \in Int : Far(desired, u, v) \in Nat
    BY Nearer
  <1>4. \A u, v \in Int : Far(desired, u, v) < Far(desired, x, y) => ~In(u, v)
    <2> HIDE DEF In
    <2> QED BY <1>2, <1>3
  <1>5. x \in candidateXPositions(desired, allowed, w)
    <2>1. CASE x = desired.x
      BY <2>1 DEF candidateXPositions
    <2>2. CASE x > desired.x
      <3>1. ~In(x - 1, y)
        BY <1>4, <2>2, Nearer
      <3>2. PICK i \in x - 1..x - 1 + w - 1, j \in y..y + h - 1 : <<i, j>> \notin allowed
        BY <3>1
      <3>3. j \in Int /\ <<x - 1, j>> \notin allowed /\ <<x, j>> \in allowed
        BY <1>1, <3>2
      <3>4. x \in Lefts(allowed)
        BY <3>3, EdgeIs
      <3> QED BY <3>4 DEF candidateXPositions
    <2>3. CASE x < desired.x
      <3>1. ~In(x + 1, y)
        BY <1>4, <2>3, Nearer
      <3>2. PICK i \in x + 1..x + 1 + w - 1, j \in y..y + h - 1 : <<i, j>> \notin allowed
        BY <3>1
      <3>3. /\ x + w - 1 \in Int /\ j \in Int
            /\ <<(x + w - 1) + 1, j>> \notin allowed /\ <<x + w - 1, j>> \in allowed
        BY <1>1, <3>2
      <3>4. x + w - 1 \in Rights(allowed)
        BY <3>3, EdgeIs
      <3>5. x = (x + w - 1) - w + 1
        OBVIOUS
      <3> QED BY <3>4, <3>5 DEF candidateXPositions
    <2> QED BY <2>1, <2>2, <2>3
  <1>6. y \in candidateYPositions(desired, allowed, h)
    <2>1. CASE y = desired.y
      BY <2>1 DEF candidateYPositions
    <2>2. CASE y > desired.y
      <3>1. ~In(x, y - 1)
        BY <1>4, <2>2, Nearer
      <3>2. PICK i \in x..x + w - 1, j \in y - 1..y - 1 + h - 1 : <<i, j>> \notin allowed
        BY <3>1
      <3>3. i \in Int /\ <<i, y - 1>> \notin allowed /\ <<i, y>> \in allowed
        BY <1>1, <3>2
      <3>4. y \in Tops(allowed)
        BY <3>3, EdgeIs
      <3> QED BY <3>4 DEF candidateYPositions
    <2>3. CASE y < desired.y
      <3>1. ~In(x, y + 1)
        BY <1>4, <2>3, Nearer
      <3>2. PICK i \in x..x + w - 1, j \in y + 1..y + 1 + h - 1 : <<i, j>> \notin allowed
        BY <3>1
      <3>3. /\ i \in Int /\ y + h - 1 \in Int
            /\ <<i, (y + h - 1) + 1>> \notin allowed /\ <<i, y + h - 1>> \in allowed
        BY <1>1, <3>2
      <3>4. y + h - 1 \in Bottoms(allowed)
        BY <3>3, EdgeIs
      <3>5. y = (y + h - 1) - h + 1
        OBVIOUS
      <3> QED BY <3>4, <3>5 DEF candidateYPositions
    <2> QED BY <2>1, <2>2, <2>3
  <1> QED BY <1>5, <1>6 DEF Candidates

\* Where there is room for a size there is a nearest place.
LEMMA NearestExists ==
  ASSUME NEW allowed, NEW desired, desired.x \in Int, desired.y \in Int, NEW w, NEW h,
         NEW x0 \in Int, NEW y0 \in Int, fullyContainsRect(allowed, Rect(x0, y0, w, h))
  PROVE  \E x, y \in Int :
            /\ fullyContainsRect(allowed, Rect(x, y, w, h))
            /\ \A u, v \in Int : fullyContainsRect(allowed, Rect(u, v, w, h)) =>
                                    Far(desired, x, y) <= Far(desired, u, v)
  <1> DEFINE S == {p \in Int \X Int : fullyContainsRect(allowed, Rect(p[1], p[2], w, h))}
             f == [p \in S |-> Far(desired, p[1], p[2])]
  <1>1. \A u, v \in Int : <<u, v>> \in S <=> fullyContainsRect(allowed, Rect(u, v, w, h))
    OBVIOUS
  <1>2. S # {}
    BY <1>1
  <1>3. f \in [S -> Nat]
    BY Nearer
  <1>4. PICK p \in S : \A q \in S : f[p] <= f[q]
    <2> HIDE DEF S, f
    <2> QED BY <1>2, <1>3, LeastValue
  <1>5. \A u, v \in Int : <<u, v>> \in S => f[p] <= Far(desired, u, v)
    BY <1>4
  <1>6. PICK x \in Int, y \in Int :
           f[p] = Far(desired, x, y) /\ fullyContainsRect(allowed, Rect(x, y, w, h))
    <2>1. p[1] \in Int /\ p[2] \in Int /\ f[p] = Far(desired, p[1], p[2])
          /\ fullyContainsRect(allowed, Rect(p[1], p[2], w, h))
      OBVIOUS
    <2> HIDE DEF f, S
    <2> QED BY <2>1
  <1> HIDE DEF S, f
  <1>7. \A u, v \in Int : fullyContainsRect(allowed, Rect(u, v, w, h)) =>
                             Far(desired, x, y) <= Far(desired, u, v)
    BY <1>1, <1>5, <1>6
  <1> QED BY <1>6, <1>7, Zenon

\* An absolute value is a number.
LEMMA AbsInt == ASSUME NEW n \in Int PROVE AbsOf(n) \in Int
  BY DEF AbsOf

\* The score of a contained place: its distance first, its position last.
LEMMA ContainedScoreIs ==
  ASSUME NEW desired, desired.x \in Int, desired.y \in Int, NEW r, r.x \in Int, r.y \in Int
  PROVE  /\ containedScore(desired, r) \in Score(5)
         /\ containedScore(desired, r)[1] = Far(desired, r.x, r.y)
         /\ containedScore(desired, r)[4] = r.x /\ containedScore(desired, r)[5] = r.y
  <1> DEFINE a == Far(desired, r.x, r.y)
             b == AbsOf(r.x - desired.x)
             c == AbsOf(r.y - desired.y)
             s == <<a, b, c, r.x, r.y>>
  <1>1. a \in Int /\ b \in Int /\ c \in Int
    BY AbsInt, Nearer
  <1>2. containedScore(desired, r) = s
    BY DEF containedScore, Far
  <1> HIDE DEF a, b, c
  <1>3. s \in Score(5) /\ s[1] = a /\ s[4] = r.x /\ s[5] = r.y
    <2>1. s \in [1..5 -> Int]
      BY <1>1
    <2> QED BY <2>1 DEF Score
  <1> QED BY <1>2, <1>3 DEF a

\* Nothing is as near as the place itself.
LEMMA FarIs ==
  ASSUME NEW desired, desired.x \in Int, desired.y \in Int, NEW x \in Int, NEW y \in Int
  PROVE  /\ Far(desired, desired.x, desired.y) = 0
         /\ x # desired.x \/ y # desired.y => Far(desired, x, y) > 0
  <1>1. \A n \in Int : n * n \in Nat /\ (n # 0 => n * n > 0)
    OBVIOUS
  <1> DEFINE a == x - desired.x
             b == y - desired.y
  <1>2. a \in Int /\ b \in Int /\ (x # desired.x => a # 0) /\ (y # desired.y => b # 0)
    OBVIOUS
  <1>3. Far(desired, x, y) = a * a + b * b
    BY DEF Far
  <1>4. desired.x - desired.x = 0 /\ desired.y - desired.y = 0
    OBVIOUS
  <1> HIDE DEF a, b
  <1>5. a * a \in Nat /\ b * b \in Nat /\ (a # 0 => a * a > 0) /\ (b # 0 => b * b > 0)
    BY <1>1, <1>2
  <1> QED BY <1>2, <1>3, <1>4, <1>5 DEF Far

\* The candidates are places of the size.
LEMMA CandidateIs ==
  ASSUME NEW allowed, Region(allowed), NEW desired, desired.x \in Int, desired.y \in Int,
         NEW w \in Int, NEW h \in Int, NEW r \in Candidates(allowed, desired, w, h)
  PROVE  r.x \in Int /\ r.y \in Int /\ r = Rect(r.x, r.y, w, h)
  <1>1. PICK x \in candidateXPositions(desired, allowed, w), y \in candidateYPositions(desired, allowed, h) :
           r = Rect(x, y, w, h)
    BY DEF Candidates
  <1>2. x \in Int /\ y \in Int
    BY CandidatesFinite
  <1> QED BY <1>1, <1>2 DEF Rect

\* If there is room anywhere, there is room at a candidate.
LEMMA RoomIsFound ==
  ASSUME NEW allowed, Region(allowed), NEW desired, desired.x \in Int, desired.y \in Int,
         NEW w \in Nat \ {0}, NEW h \in Nat \ {0}
  PROVE  ContainedCandidates(allowed, desired, w, h) # {} <=>
            \E x, y \in Int : fullyContainsRect(allowed, Rect(x, y, w, h))
  <1>1. ASSUME NEW x0 \in Int, NEW y0 \in Int, fullyContainsRect(allowed, Rect(x0, y0, w, h))
        PROVE  ContainedCandidates(allowed, desired, w, h) # {}
    <2>1. PICK x \in Int, y \in Int :
            /\ fullyContainsRect(allowed, Rect(x, y, w, h))
            /\ \A u, v \in Int : fullyContainsRect(allowed, Rect(u, v, w, h)) =>
                                    Far(desired, x, y) <= Far(desired, u, v)
      BY <1>1, NearestExists
    <2>2. Rect(x, y, w, h) \in Candidates(allowed, desired, w, h)
      BY <2>1, NearestIsCandidate
    <2> QED BY <2>1, <2>2 DEF ContainedCandidates
  <1>2. ASSUME NEW r \in ContainedCandidates(allowed, desired, w, h)
        PROVE  \E x, y \in Int : fullyContainsRect(allowed, Rect(x, y, w, h))
    <2>1. r \in Candidates(allowed, desired, w, h) /\ fullyContainsRect(allowed, r)
      BY DEF ContainedCandidates
    <2>2. r.x \in Int /\ r.y \in Int /\ r = Rect(r.x, r.y, w, h)
      BY <2>1, CandidateIs
    <2> QED BY <2>1, <2>2
  <1> QED BY <1>1, <1>2

\* findBestPlacementContained() finds a place as near as there is.
LEMMA ContainedBest ==
  ASSUME NEW allowed, Region(allowed), NEW desired, desired.x \in Int, desired.y \in Int,
         NEW w \in Nat \ {0}, NEW h \in Nat \ {0},
         ContainedCandidates(allowed, desired, w, h) # {},
         NEW r, r = findBestPlacementContained(allowed, desired, w, h)
  PROVE  /\ r.x \in Int /\ r.y \in Int /\ r = Rect(r.x, r.y, w, h)
         /\ fullyContainsRect(allowed, r)
         /\ \A u, v \in Int : fullyContainsRect(allowed, Rect(u, v, w, h)) =>
                                 Far(desired, r.x, r.y) <= Far(desired, u, v)
  <1> DEFINE C == ContainedCandidates(allowed, desired, w, h)
             score == [s \in C |-> containedScore(desired, s)]
  <1>1. \A s \in C : /\ s \in Candidates(allowed, desired, w, h) /\ fullyContainsRect(allowed, s)
                     /\ s.x \in Int /\ s.y \in Int /\ s = Rect(s.x, s.y, w, h)
    BY CandidateIs DEF ContainedCandidates
  <1>2. IsFiniteSet(C)
    <2>1. C \in SUBSET Candidates(allowed, desired, w, h)
      BY DEF ContainedCandidates
    <2> HIDE DEF C
    <2> QED BY <2>1, CandidatesFinite, FS_Subset
  <1>3. \A s \in C : /\ score[s] \in Score(5) /\ score[s][1] = Far(desired, s.x, s.y)
                     /\ score[s][4] = s.x /\ score[s][5] = s.y
    <2> HIDE DEF C
    <2> QED BY <1>1, ContainedScoreIs
  <1>4. r = BestBy(score)
    BY DEF findBestPlacementContained
  <1>8. score \in [C -> Score(5)]
    <2>1. score = [s \in C |-> score[s]]
      OBVIOUS
    <2> HIDE DEF score
    <2> QED BY <1>3, <2>1
  <1> HIDE DEF score, C
  <1>5. \A s, t \in C : score[s] = score[t] => s = t
    BY <1>1, <1>3
  <1>6. Wins(score, C, r)
    BY <1>2, <1>8, <1>4, <1>5, BestWins DEF C
  <1>7. ASSUME NEW u \in Int, NEW v \in Int, fullyContainsRect(allowed, Rect(u, v, w, h))
        PROVE  Far(desired, r.x, r.y) <= Far(desired, u, v)
    <2>1. PICK x \in Int, y \in Int :
            /\ fullyContainsRect(allowed, Rect(x, y, w, h))
            /\ \A i, j \in Int : fullyContainsRect(allowed, Rect(i, j, w, h)) =>
                                    Far(desired, x, y) <= Far(desired, i, j)
      BY <1>7, NearestExists
    <2> DEFINE n == Rect(x, y, w, h)
    <2>2. n \in C /\ n.x = x /\ n.y = y
      BY <2>1, NearestIsCandidate DEF C, ContainedCandidates, Rect
    <2>3. r \in C /\ (n = r \/ Before(score[r], score[n]))
      BY <1>6, <2>2 DEF Wins
    <2>4. score[r][1] <= score[n][1]
      <3>1. score[r] \in Score(5) /\ score[n] \in Score(5)
        BY <1>3, <2>2, <2>3
      <3>2. score[r][1] \in Int
        BY <3>1 DEF Score
      <3> HIDE DEF n
      <3> QED BY <2>3, <3>1, <3>2, BeforeFirst
    <2>5. Far(desired, r.x, r.y) <= Far(desired, x, y)
      BY <1>3, <2>2, <2>3, <2>4
    <2>6. /\ Far(desired, x, y) <= Far(desired, u, v)
          /\ Far(desired, x, y) \in Nat /\ Far(desired, u, v) \in Nat /\ Far(desired, r.x, r.y) \in Nat
      BY <1>1, <1>7, <2>1, <2>3, Nearer
    <2> QED BY <2>5, <2>6
  <1> QED BY <1>1, <1>6, <1>7 DEF Wins

\* A rectangle that is contained is put where it is.
LEMMA ContainedStays ==
  ASSUME NEW allowed, Region(allowed), NEW x \in Int, NEW y \in Int,
         NEW w \in Nat \ {0}, NEW h \in Nat \ {0}, NEW r, r = Rect(x, y, w, h),
         fullyContainsRect(allowed, r)
  PROVE  /\ ContainedCandidates(allowed, r, w, h) # {}
         /\ findBestPlacementContained(allowed, r, w, h) = r
  <1>1. r.x = x /\ r.y = y /\ r.x \in Int /\ r.y \in Int
    BY DEF Rect
  <1>2. ContainedCandidates(allowed, r, w, h) # {}
    BY <1>1, RoomIsFound
  <1> DEFINE b == findBestPlacementContained(allowed, r, w, h)
  <1>3. /\ b.x \in Int /\ b.y \in Int /\ b = Rect(b.x, b.y, w, h)
        /\ Far(r, b.x, b.y) <= Far(r, x, y)
    BY <1>1, <1>2, ContainedBest
  <1>4. Far(r, x, y) = 0
    BY <1>1, FarIs
  <1>5. b.x = x /\ b.y = y
    <2>1. Far(r, b.x, b.y) \in Nat
      BY <1>1, <1>3, Nearer
    <2> HIDE DEF b
    <2> QED BY <1>1, <1>3, <1>4, <2>1, FarIs
  <1> HIDE DEF b
  <1>6. b = r
    BY <1>3, <1>5
  <1> QED BY <1>2, <1>6 DEF b

-----------------------------------------------------------------------------
(* The binary search *)

Ranges(minW, maxW) == (minW .. maxW + 1) \X (minW - 1 .. maxW) \X (minW - 1 .. maxW)

\* One turn of the search, for a function that says what the rest of it finds.
Turn(allowed, desired, h, minW, maxW, f) ==
    [range \in Ranges(minW, maxW) |->
        LET low == range[1]
            high == range[2]
            best == range[3]
            mid == low + (high - low) \div 2
        IN IF low > high THEN best
           ELSE IF ContainedCandidates(allowed, desired, mid, h) # {}
           THEN f[<<mid + 1, high, mid>>]
           ELSE f[<<low, mid - 1, best>>]]

\* The search is a function that its own turn describes, if there is one.
LEMMA SearchIs ==
  ASSUME NEW allowed, NEW desired, NEW h, NEW minW \in Nat \ {0}, NEW maxW \in Nat,
         \E f : f = Turn(allowed, desired, h, minW, maxW, f)
  PROVE  \E f : /\ f = Turn(allowed, desired, h, minW, maxW, f)
                /\ widestContained(allowed, desired, h, minW, maxW) = f[<<minW, maxW, minW - 1>>]
  <1> DEFINE search == CHOOSE f : f =
                [range \in (minW .. maxW + 1) \X (minW - 1 .. maxW) \X (minW - 1 .. maxW) |->
                    LET low == range[1]
                        high == range[2]
                        best == range[3]
                        mid == low + (high - low) \div 2
                    IN IF low > high THEN best
                       ELSE IF ContainedCandidates(allowed, desired, mid, h) # {}
                       THEN f[<<mid + 1, high, mid>>]
                       ELSE f[<<low, mid - 1, best>>]]
  <1>1. widestContained(allowed, desired, h, minW, maxW) = search[<<minW, maxW, minW - 1>>]
    BY DEF widestContained
  <1>2. search = CHOOSE f : f = Turn(allowed, desired, h, minW, maxW, f)
    BY DEF Turn, Ranges
  <1> HIDE DEF search
  <1>3. search = Turn(allowed, desired, h, minW, maxW, search)
    BY <1>2
  <1> QED BY <1>1, <1>3

Mid(range) == range[1] + (range[2] - range[1]) \div 2
Above(range) == <<Mid(range) + 1, range[2], Mid(range)>>
Below(range) == <<range[1], Mid(range) - 1, range[3]>>
Left(range) == range[2] - range[1] + 1

\* A turn stops, or goes on above or below the middle.
LEMMA TurnIs ==
  ASSUME NEW allowed, NEW desired, NEW h, NEW minW, NEW maxW, NEW f, NEW range \in Ranges(minW, maxW)
  PROVE  Turn(allowed, desired, h, minW, maxW, f)[range] =
           IF range[1] > range[2] THEN range[3]
           ELSE IF ContainedCandidates(allowed, desired, Mid(range), h) # {}
           THEN f[Above(range)] ELSE f[Below(range)]
  BY DEF Turn, Mid, Above, Below

\* The two ranges it goes on with are smaller.
LEMMA Halves ==
  ASSUME NEW minW \in Nat \ {0}, NEW maxW \in Nat, NEW range \in Ranges(minW, maxW)
  PROVE  /\ range[1] \in Int /\ range[2] \in Int /\ range[3] \in Int
         /\ Left(range) \in Int
         /\ range[1] > range[2] <=> Left(range) <= 0
         /\ range[1] <= range[2] =>
              /\ Mid(range) \in range[1] .. range[2]
              /\ Above(range) \in Ranges(minW, maxW) /\ Left(Above(range)) \in Int
              /\ Left(Above(range)) < Left(range)
              /\ Below(range) \in Ranges(minW, maxW) /\ Left(Below(range)) \in Int
              /\ Left(Below(range)) < Left(range)
  <1>1. /\ range[1] \in minW .. maxW + 1 /\ range[2] \in minW - 1 .. maxW
        /\ range[3] \in minW - 1 .. maxW
    BY DEF Ranges
  <1>2. ASSUME range[1] <= range[2]
        PROVE  Mid(range) \in range[1] .. range[2]
    BY <1>1, <1>2 DEF Mid
  <1> QED BY <1>1, <1>2 DEF Left, Ranges, Above, Below

\* What a turn makes of a range depends on the rest of the search for smaller ranges only.
LEMMA TurnAgrees ==
  ASSUME NEW allowed, NEW desired, NEW h, NEW minW \in Nat \ {0}, NEW maxW \in Nat, NEW f, NEW g,
         NEW n \in Int, \A r \in Ranges(minW, maxW) : Left(r) < n => f[r] = g[r],
         NEW range \in Ranges(minW, maxW), Left(range) <= n
  PROVE  Turn(allowed, desired, h, minW, maxW, f)[range] =
         Turn(allowed, desired, h, minW, maxW, g)[range]
  <1>1. CASE range[1] > range[2]
    BY <1>1, TurnIs
  <1>2. CASE range[1] <= range[2]
    <2>1. ~(range[1] > range[2])
      BY <1>2, Halves
    <2>2. f[Above(range)] = g[Above(range)] /\ f[Below(range)] = g[Below(range)]
      BY <1>2, Halves
    <2> QED BY <2>1, <2>2, TurnIs
  <1> QED BY <1>1, <1>2, Halves

\* The search ends: the function it defines exists.
LEMMA SearchExists ==
  ASSUME NEW allowed, NEW desired, NEW h, NEW minW \in Nat \ {0}, NEW maxW \in Nat
  PROVE  \E f : f = Turn(allowed, desired, h, minW, maxW, f)
  <1> DEFINE R == Ranges(minW, maxW)
             T(f) == Turn(allowed, desired, h, minW, maxW, f)
             Upto(n) == \E f : \A r \in R : Left(r) <= n => f[r] = T(f)[r]
             N == maxW + 1
  <1>1. Upto(0)
    <2> DEFINE f == T(R)
    <2>1. \A r \in R : Left(r) <= 0 => T(R)[r] = T(f)[r]
      <3> SUFFICES ASSUME NEW r \in R, Left(r) <= 0 PROVE T(R)[r] = T(f)[r]
        OBVIOUS
      <3>1. r[1] > r[2]
        BY Halves
      <3>2. T(R)[r] = r[3] /\ T(f)[r] = r[3]
        BY <3>1, TurnIs
      <3> QED BY <3>2
    <2> HIDE DEF T
    <2> QED BY <2>1
  <1>2. ASSUME NEW n \in Nat, Upto(n) PROVE Upto(n + 1)
    <2>1. PICK f : \A r \in R : Left(r) <= n => f[r] = T(f)[r]
      BY <1>2
    <2> DEFINE g == T(f)
    <2>2. \A r \in R : Left(r) < n + 1 => f[r] = g[r]
      <3>1. \A r \in R : Left(r) \in Int
        BY Halves
      <3> HIDE DEF T, R
      <3> QED BY <2>1, <3>1
    <2>3. \A r \in R : Left(r) <= n + 1 => T(f)[r] = T(g)[r]
      <3> HIDE DEF g
      <3> QED BY <2>2, TurnAgrees
    <2> HIDE DEF T
    <2> QED BY <2>3
  <1>3. \A n \in 0..N : Upto(n)
    <2> DEFINE Bad == {n \in 0..N : ~Upto(n)}
               value == [n \in Bad |-> n]
    <2> HIDE DEF Upto
    <2> SUFFICES ASSUME Bad # {} PROVE FALSE
      OBVIOUS
    <2>1. value \in [Bad -> Nat]
      OBVIOUS
    <2>2. PICK n \in Bad : \A m \in Bad : value[n] <= value[m]
      <3> HIDE DEF Bad, value
      <3> QED BY <2>1, LeastValue
    <2>3. n \in 0..N /\ ~Upto(n) /\ n # 0
      BY <1>1
    <2>4. n - 1 \in Nat /\ n - 1 \in 0..N /\ n - 1 \notin Bad
      BY <2>2, <2>3
    <2>5. Upto(n - 1)
      BY <2>4
    <2>6. Upto((n - 1) + 1)
      BY <1>2, <2>4, <2>5
    <2> QED BY <2>3, <2>6
  <1>4. PICK f : \A r \in R : Left(r) <= N => f[r] = T(f)[r]
    BY <1>3
  <1>5. \A r \in R : Left(r) <= N
    BY DEF Ranges, Left
  <1> DEFINE g == T(f)
  <1>6. \A r \in R : f[r] = g[r]
    BY <1>4, <1>5
  <1>7. \A r \in R : T(f)[r] = T(g)[r]
    <2>1. \A r \in R : Left(r) < N + 1 => f[r] = g[r]
      BY <1>6
    <2>2. \A r \in R : Left(r) <= N + 1
      BY <1>5, Halves
    <2> HIDE DEF g
    <2> QED BY <2>1, <2>2, TurnAgrees
  <1>8. T(f) = T(g)
    <2>1. T(f) = [r \in R |-> T(f)[r]] /\ T(g) = [r \in R |-> T(g)[r]]
      BY DEF Turn
    <2> HIDE DEF T
    <2> QED BY <1>7, <2>1
  <1> QED BY <1>8

Monotone(allowed, desired, h, minW, maxW) ==
    \A m, n \in minW..maxW : m <= n /\ ContainedCandidates(allowed, desired, n, h) # {}
                                => ContainedCandidates(allowed, desired, m, h) # {}

IsWidest(allowed, desired, h, minW, maxW, b) ==
    /\ b \in minW - 1 .. maxW
    /\ b >= minW => ContainedCandidates(allowed, desired, b, h) # {}
    /\ \A m \in minW..maxW : m > b => ContainedCandidates(allowed, desired, m, h) = {}

\* If a width that fits leaves room for every smaller one, the search finds the widest.
LEMMA SearchFinds ==
  ASSUME NEW allowed, NEW desired, NEW h, NEW minW \in Nat \ {0}, NEW maxW \in Nat,
         Monotone(allowed, desired, h, minW, maxW),
         minW <= maxW, NEW b, b = widestContained(allowed, desired, h, minW, maxW)
  PROVE  IsWidest(allowed, desired, h, minW, maxW, b)
  <1> DEFINE R == Ranges(minW, maxW)
             Room(m) == ContainedCandidates(allowed, desired, m, h) # {}
             Found(w) == /\ w \in minW - 1 .. maxW
                         /\ w >= minW => Room(w)
                         /\ \A m \in minW..maxW : m > w => ~Room(m)
             Sound(r) == /\ r \in R /\ r[3] = r[1] - 1 /\ r[1] <= r[2] + 1
                         /\ r[3] >= minW => Room(r[3])
                         /\ \A m \in minW..maxW : m > r[2] => ~Room(m)
  <1>1. PICK f : /\ f = Turn(allowed, desired, h, minW, maxW, f)
                 /\ b = f[<<minW, maxW, minW - 1>>]
    <2>1. \E f : f = Turn(allowed, desired, h, minW, maxW, f)
      BY SearchExists
    <2> QED BY <2>1, SearchIs
  <1>2. \A m, n \in minW..maxW : m <= n /\ Room(n) => Room(m)
    BY DEF Monotone
  <1>3. \A r \in R : f[r] = IF r[1] > r[2] THEN r[3]
                            ELSE IF Room(Mid(r)) THEN f[Above(r)] ELSE f[Below(r)]
    <2> SUFFICES ASSUME NEW r \in R
                 PROVE  f[r] = IF r[1] > r[2] THEN r[3]
                               ELSE IF Room(Mid(r)) THEN f[Above(r)] ELSE f[Below(r)]
      OBVIOUS
    <2>1. f[r] = Turn(allowed, desired, h, minW, maxW, f)[r]
      BY <1>1
    <2> QED BY <2>1, TurnIs
  <1> HIDE DEF Room
  <1>4. \A r \in R : r[1] \in minW .. maxW + 1 /\ r[2] \in minW - 1 .. maxW /\ r[3] \in minW - 1 .. maxW
    BY DEF Ranges
  <1>5. ASSUME NEW r, Sound(r), r[1] > r[2] PROVE Found(f[r])
    <2>1. r[3] = r[2]
      BY <1>4, <1>5
    <2> QED BY <1>3, <1>4, <1>5, <2>1
  <1>6. ASSUME NEW r, Sound(r), r[1] <= r[2], Room(Mid(r)) PROVE Sound(Above(r)) /\ f[r] = f[Above(r)]
    <2>1. Above(r) \in R /\ Mid(r) \in r[1]..r[2]
      BY <1>6, Halves
    <2>2. Above(r)[1] = Mid(r) + 1 /\ Above(r)[2] = r[2] /\ Above(r)[3] = Mid(r)
      BY DEF Above
    <2>3. ~(r[1] > r[2])
      BY <1>4, <1>6
    <2> HIDE DEF R
    <2> QED BY <1>3, <1>4, <1>6, <2>1, <2>2, <2>3
  <1>7. ASSUME NEW r, Sound(r), r[1] <= r[2], ~Room(Mid(r)) PROVE Sound(Below(r)) /\ f[r] = f[Below(r)]
    <2>1. Below(r) \in R /\ Mid(r) \in r[1]..r[2]
      BY <1>7, Halves
    <2>2. Below(r)[1] = r[1] /\ Below(r)[2] = Mid(r) - 1 /\ Below(r)[3] = r[3]
      BY DEF Below
    <2>3. ~(r[1] > r[2])
      BY <1>4, <1>7
    <2>4. \A m \in minW..maxW : m > Mid(r) - 1 => ~Room(m)
      <3>1. Mid(r) \in minW..maxW
        BY <1>4, <1>7, <2>1
      <3> HIDE DEF R
      <3> QED BY <1>2, <1>7, <3>1
    <2> HIDE DEF R
    <2> QED BY <1>3, <1>4, <1>7, <2>1, <2>2, <2>3, <2>4
  <1>8. \A r : Sound(r) => Found(f[r])
    <2> DEFINE Bad == {r \in R : Sound(r) /\ ~Found(f[r])}
               value == [r \in Bad |-> Left(r)]
    <2> SUFFICES ASSUME Bad # {} PROVE FALSE
      OBVIOUS
    <2>1. \A r \in Bad : Left(r) \in Nat
      BY <1>4 DEF Left
    <2>2. value \in [Bad -> Nat]
      BY <2>1
    <2>3. PICK r \in Bad : \A s \in Bad : value[r] <= value[s]
      <3> HIDE DEF Bad, value
      <3> QED BY <2>2, LeastValue
    <2>4. Sound(r) /\ ~Found(f[r]) /\ r \in R
      OBVIOUS
    <2>5. r[1] <= r[2]
      BY <1>4, <1>5, <2>4
    <2>6. PICK s : s \in R /\ Sound(s) /\ f[r] = f[s] /\ Left(s) < Left(r)
      BY <1>6, <1>7, <2>4, <2>5, Halves
    <2>7. s \in Bad /\ value[s] = Left(s) /\ value[r] = Left(r)
      BY <2>4, <2>6
    <2>8. Left(r) <= Left(s) /\ Left(r) \in Nat /\ Left(s) \in Nat
      BY <2>1, <2>3, <2>7
    <2> QED BY <2>6, <2>8
  <1>9. Sound(<<minW, maxW, minW - 1>>)
    BY DEF Ranges
  <1>10. Found(b)
    BY <1>1, <1>8, <1>9
  <1> QED BY <1>10 DEF Room, IsWidest

\* For each height the code finds the greatest width that fits anywhere.
LEMMA WidestIs ==
  ASSUME NEW allowed, Region(allowed), NEW desired, desired.x \in Int, desired.y \in Int,
         NEW h \in Nat \ {0}, NEW minW \in Nat \ {0}, NEW maxW \in Nat, minW <= maxW,
         NEW b, b = widestContained(allowed, desired, h, minW, maxW)
  PROVE  IsWidest(allowed, desired, h, minW, maxW, b)
  <1>1. ASSUME NEW m \in minW..maxW, NEW n \in minW..maxW, m <= n,
               ContainedCandidates(allowed, desired, n, h) # {}
        PROVE  ContainedCandidates(allowed, desired, m, h) # {}
    <2>1. m \in Nat \ {0} /\ n \in Nat \ {0}
      OBVIOUS
    <2>2. PICK x \in Int, y \in Int : fullyContainsRect(allowed, Rect(x, y, n, h))
      BY <1>1, <2>1, RoomIsFound
    <2>3. \A i \in x..x + n - 1 : \A j \in y..y + h - 1 : <<i, j>> \in allowed
      BY <2>1, <2>2, ContainedIs
    <2>4. \A i \in x..x + m - 1 : i \in x..x + n - 1
      BY <1>1, <2>1
    <2>5. \A i \in x..x + m - 1 : \A j \in y..y + h - 1 : <<i, j>> \in allowed
      BY <2>3, <2>4
    <2>6. fullyContainsRect(allowed, Rect(x, y, m, h))
      BY <2>1, <2>5, ContainedIs
    <2> QED BY <2>1, <2>6, RoomIsFound
  <1>2. Monotone(allowed, desired, h, minW, maxW)
    BY <1>1 DEF Monotone
  <1> QED BY <1>2, SearchFinds

\* Multiplying by a natural number keeps the order.
LEMMA Times ==
  ASSUME NEW a \in Int, NEW b \in Int, NEW c \in Nat, a <= b
  PROVE  a * c \in Int /\ b * c \in Int /\ a * c <= b * c
  <1>1. (b - a) * c \in Nat
    <2> DEFINE d == b - a
    <2>1. d \in Nat
      OBVIOUS
    <2> HIDE DEF d
    <2>2. d * c \in Nat
      BY <2>1
    <2> QED BY <2>2 DEF d
  <1>2. (b - a) * c = b * c - a * c
    OBVIOUS
  <1>3. a * c \in Int /\ b * c \in Int
    OBVIOUS
  <1> QED BY <1>1, <1>2, <1>3

\* The sizes that the code compares.
SizesFound(allowed, desired, minW, minH) ==
    {s \in {<<widestContained(allowed, desired, h, minW, desired.w), h>> : h \in minH .. desired.h} :
        s[1] >= minW}

Size(desired, minimum) ==
    /\ desired.x \in Int /\ desired.y \in Int /\ desired.w \in Nat /\ desired.h \in Nat
    /\ minimum.w \in Nat \ {0} /\ minimum.h \in Nat \ {0}
    /\ minimum.w <= desired.w /\ minimum.h <= desired.h

\* They are finitely many sizes that fit, and as wide as any at their height.
LEMMA SizesFoundAre ==
  ASSUME NEW allowed, Region(allowed), NEW desired, NEW minimum, Size(desired, minimum)
  PROVE  LET found == SizesFound(allowed, desired, minimum.w, minimum.h)
         IN /\ IsFiniteSet(found)
            /\ \A s \in found : /\ s = <<s[1], s[2]>>
                                /\ s[1] \in minimum.w .. desired.w /\ s[2] \in minimum.h .. desired.h
                                /\ ContainedCandidates(allowed, desired, s[1], s[2]) # {}
            /\ \A w \in minimum.w .. desired.w, h \in minimum.h .. desired.h :
                  ContainedCandidates(allowed, desired, w, h) # {} =>
                     \E s \in found : s[1] >= w /\ s[2] = h
  <1> DEFINE minW == minimum.w
             H == minimum.h .. desired.h
             wide == [h \in H |-> widestContained(allowed, desired, h, minW, desired.w)]
             pairs == [h \in H |-> <<wide[h], h>>]
             found == SizesFound(allowed, desired, minimum.w, minimum.h)
  <1>1. \A h \in H : IsWidest(allowed, desired, h, minW, desired.w, wide[h])
    BY WidestIs DEF Size
  <1>2. /\ found = {s \in {<<wide[h], h>> : h \in H} : s[1] >= minW}
    BY DEF SizesFound
  <1>3. IsFiniteSet(found)
    <2>1. IsFiniteSet(H)
      <3>1. minimum.h \in Int /\ desired.h \in Int
        BY DEF Size
      <3> QED BY <3>1, FS_Interval
    <2>2. DOMAIN pairs = H
      OBVIOUS
    <2>3. found \in SUBSET {pairs[h] : h \in H}
      BY <1>2
    <2> HIDE DEF pairs, H, found
    <2>4. IsFiniteSet({pairs[h] : h \in H})
      BY <2>1, <2>2, ImageFinite
    <2> QED BY <2>3, <2>4, FS_Subset
  <1> HIDE DEF wide, pairs
  <1>4. ASSUME NEW s \in found
        PROVE  /\ s = <<s[1], s[2]>>
               /\ s[1] \in minimum.w .. desired.w /\ s[2] \in minimum.h .. desired.h
               /\ ContainedCandidates(allowed, desired, s[1], s[2]) # {}
    <2>1. PICK h \in H : s = <<wide[h], h>> /\ wide[h] >= minW
      BY <1>2
    <2>2. wide[h] \in minW - 1 .. desired.w /\ ContainedCandidates(allowed, desired, wide[h], h) # {}
      BY <1>1, <2>1 DEF IsWidest
    <2> QED BY <2>1, <2>2 DEF Size
  <1>5. ASSUME NEW w \in minimum.w .. desired.w, NEW h \in minimum.h .. desired.h,
               ContainedCandidates(allowed, desired, w, h) # {}
        PROVE  \E s \in found : s[1] >= w /\ s[2] = h
    <2>1. /\ wide[h] \in minW - 1 .. desired.w
          /\ \A m \in minW .. desired.w : m > wide[h] => ContainedCandidates(allowed, desired, m, h) = {}
      BY <1>1 DEF IsWidest
    <2>2. wide[h] >= w /\ wide[h] >= minW
      BY <1>5, <2>1 DEF Size
    <2> DEFINE s == <<wide[h], h>>
    <2>3. s[1] = wide[h] /\ s[2] = h
      OBVIOUS
    <2>4. s \in found
      BY <1>2, <2>2
    <2> HIDE DEF s
    <2> QED BY <2>2, <2>3, <2>4
  <1> HIDE DEF found
  <1> QED BY <1>3, <1>4, <1>5 DEF found

\* largestContained() finds a size whenever one fits, and none that fits is larger.
LEMMA LargestIs ==
  ASSUME NEW allowed, Region(allowed), NEW desired, NEW minimum, Size(desired, minimum)
  PROVE  LET largest == largestContained(allowed, desired, minimum.w, minimum.h)
         IN /\ largest = {} =>
                  \A w \in minimum.w .. desired.w, h \in minimum.h .. desired.h :
                     ContainedCandidates(allowed, desired, w, h) = {}
            /\ \A s \in largest :
                  /\ s = <<s[1], s[2]>>
                  /\ s[1] \in minimum.w .. desired.w /\ s[2] \in minimum.h .. desired.h
                  /\ ContainedCandidates(allowed, desired, s[1], s[2]) # {}
                  /\ \A w \in minimum.w .. desired.w, h \in minimum.h .. desired.h :
                        ContainedCandidates(allowed, desired, w, h) # {} => w * h <= s[1] * s[2]
  <1> DEFINE found == SizesFound(allowed, desired, minimum.w, minimum.h)
             area(s) == s[1] * s[2]
             score == [s \in found |-> <<-area(s), -s[1]>>]
             largest == largestContained(allowed, desired, minimum.w, minimum.h)
  <1>1. largest = {s \in found : \A t \in found \ {s} : Before(score[s], score[t])}
    BY DEF largestContained, SizesFound
  <1>2. /\ IsFiniteSet(found)
        /\ \A s \in found : /\ s = <<s[1], s[2]>>
                            /\ s[1] \in minimum.w .. desired.w /\ s[2] \in minimum.h .. desired.h
                            /\ ContainedCandidates(allowed, desired, s[1], s[2]) # {}
        /\ \A w \in minimum.w .. desired.w, h \in minimum.h .. desired.h :
              ContainedCandidates(allowed, desired, w, h) # {} =>
                 \E s \in found : s[1] >= w /\ s[2] = h
    BY SizesFoundAre
  <1>3. \A s \in found : area(s) \in Int /\ s[1] \in Nat \ {0} /\ s[2] \in Nat \ {0}
    BY <1>2 DEF Size
  <1>4. \A s \in found : /\ score[s] \in Score(2)
                         /\ score[s][1] = -area(s) /\ score[s][2] = -s[1]
    <2> SUFFICES ASSUME NEW s \in found
                 PROVE  /\ score[s] \in Score(2)
                        /\ score[s][1] = -area(s) /\ score[s][2] = -s[1]
      OBVIOUS
    <2>1. score[s] = <<-area(s), -s[1]>> /\ -area(s) \in Int /\ -s[1] \in Int
      BY <1>3
    <2> HIDE DEF area, score
    <2> QED BY <2>1 DEF Score
  <1>5. score \in [found -> Score(2)]
    <2>1. score = [s \in found |-> score[s]]
      OBVIOUS
    <2> HIDE DEF score
    <2> QED BY <1>4, <2>1
  <1>6. \A s, t \in found : score[s] = score[t] => s = t
    <2> SUFFICES ASSUME NEW s \in found, NEW t \in found, score[s] = score[t] PROVE s = t
      OBVIOUS
    <2>1. -area(s) = -area(t) /\ -s[1] = -t[1]
      BY <1>4
    <2>2. s[1] = t[1] /\ s[1] * s[2] = s[1] * t[2]
      BY <1>3, <2>1
    <2>3. s[2] = t[2]
      BY <1>3, <2>2
    <2> QED BY <1>2, <2>2, <2>3
  <1> HIDE DEF score, found, largest
  <1>7. ASSUME NEW w \in minimum.w .. desired.w, NEW h \in minimum.h .. desired.h,
               ContainedCandidates(allowed, desired, w, h) # {}
        PROVE  largest # {} /\ \A s \in largest : w * h <= s[1] * s[2]
    <2>1. PICK t \in found : t[1] >= w /\ t[2] = h
      BY <1>2, <1>7
    <2>2. Wins(score, found, BestBy(score))
      BY <1>2, <1>5, <1>6, <2>1, BestWins
    <2>3. largest # {}
      BY <1>1, <2>2 DEF Wins
    <2>4. w * h \in Int /\ w * h <= area(t)
      BY <1>3, <2>1, Times DEF Size
    <2>5. ASSUME NEW s \in largest PROVE area(t) <= area(s)
      <3>1. s \in found /\ (s = t \/ Before(score[s], score[t]))
        BY <1>1, <2>5
      <3>2. s = t \/ score[s][1] <= score[t][1]
        BY <1>4, <3>1, BeforeFirst
      <3>3. s = t \/ -area(s) <= -area(t)
        BY <1>4, <3>1, <3>2
      <3> HIDE DEF area
      <3> QED BY <1>3, <3>1, <3>3
    <2>6. ASSUME NEW s \in largest PROVE w * h <= area(s)
      <3>1. s \in found
        BY <1>1
      <3> HIDE DEF area
      <3> QED BY <1>3, <2>4, <2>5, <3>1
    <2> QED BY <2>3, <2>6
  <1>8. \A s \in largest : s \in found
    BY <1>1
  <1> QED BY <1>2, <1>7, <1>8 DEF largest

-----------------------------------------------------------------------------
(* When nothing fits *)

\* What of the region is seen in row y from x on, w wide.
Seen(allowed, x, y, w) == Row(allowed, y) \cap (x .. x + w - 1)

\* A row holds the numbers of its pixels.
LEMMA RowIs ==
  ASSUME NEW allowed, Region(allowed), NEW y \in Int
  PROVE  /\ Row(allowed, y) \subseteq Int
         /\ \A i \in Int : i \in Row(allowed, y) <=> <<i, y>> \in allowed
  <1>1. \A d \in allowed : d[1] \in Int /\ d = <<d[1], d[2]>>
    BY DEF Region
  <1>2. \A i \in Int : <<i, y>>[1] = i /\ <<i, y>>[2] = y
    OBVIOUS
  <1> QED BY <1>1, <1>2 DEF Row

\* The visible top edge is counted along its row.
LEMMA TopIs ==
  ASSUME NEW allowed, Region(allowed), NEW x \in Int, NEW y \in Int, NEW w \in Nat, NEW h
  PROVE  /\ IsFiniteSet(Seen(allowed, x, y, w))
         /\ visibleTopEdge(allowed, Rect(x, y, w, h)) = Cardinality(Seen(allowed, x, y, w))
         /\ Cardinality(Seen(allowed, x, y, w)) \in 0..Cardinality(allowed)
         /\ Cardinality(allowed) \in Nat
  <1> DEFINE S == Seen(allowed, x, y, w)
             T == {c \in allowed : c[2] = y /\ c[1] \in x .. x + w - 1}
             f == [i \in S |-> <<i, y>>]
  <1>1. visibleTopEdge(allowed, Rect(x, y, w, h)) = Cardinality(T)
    BY DEF visibleTopEdge, Rect
  <1>2. IsFiniteSet(S)
    <2>1. IsFiniteSet(x .. x + w - 1)
      <3>1. x + w - 1 \in Int
        OBVIOUS
      <3> QED BY <3>1, FS_Interval
    <2> QED BY <2>1, FS_Intersection DEF Seen
  <1>3. \A i \in S : i \in Int /\ <<i, y>> \in T
    BY RowIs DEF Seen
  <1>4. \A c \in T : c[1] \in S /\ c = <<c[1], y>>
    BY RowIs DEF Seen, Region
  <1>5. f \in Bijection(S, T)
    <2>1. f \in [S -> T]
      BY <1>3
    <2>2. \A i, j \in S : f[i] = f[j] => i = j
      OBVIOUS
    <2>3. \A c \in T : c[1] \in S /\ f[c[1]] = c
      BY <1>4
    <2> HIDE DEF f, S, T
    <2>4. f \in Surjection(S, T)
      BY <2>1, <2>3 DEF Surjection
    <2>5. f \in Injection(S, T)
      BY <2>1, <2>2 DEF Injection, IsInjective
    <2> QED BY <2>4, <2>5 DEF Bijection
  <1>6. Cardinality(S) = Cardinality(T)
    <2>1. ExistsBijection(S, T)
      BY <1>5 DEF ExistsBijection
    <2> HIDE DEF S, T
    <2> QED BY <1>2, <2>1, FS_Bijection
  <1>7. /\ Cardinality(T) \in Nat /\ Cardinality(T) <= Cardinality(allowed)
        /\ Cardinality(allowed) \in Nat
    <2>1. T \in SUBSET allowed
      OBVIOUS
    <2> HIDE DEF T
    <2> QED BY <2>1, FS_Subset, FS_CardinalityType DEF Region
  <1> HIDE DEF T, S
  <1> QED BY <1>1, <1>2, <1>6, <1>7 DEF S

\* The least of finitely many numbers.
LEMMA Bounded ==
  ASSUME NEW S, IsFiniteSet(S), S \subseteq Int, S # {}
  PROVE  \E m \in Int : \A s \in S : m <= s
  <1> DEFINE Upto(m) == {s \in S : s <= m}
             T == {Upto(m) : m \in S}
  <1>1. T \subseteq SUBSET S /\ T # {}
    <2>1. \A m \in S : Upto(m) \in SUBSET S
      OBVIOUS
    <2> HIDE DEF Upto
    <2> QED BY <2>1
  <1>2. PICK X \in T : \A Y \in T : Y \subseteq X => Y = X
    <2> DEFINE U == S
    <2>1. IsFiniteSet(U) /\ T \subseteq SUBSET U /\ T # {}
      BY <1>1
    <2> HIDE DEF T, Upto, U
    <2> QED BY <2>1, LeastSubset
  <1>3. PICK m \in S : X = Upto(m)
    OBVIOUS
  <1>4. \A s \in S : m <= s
    <2> SUFFICES ASSUME NEW s \in S, s < m PROVE FALSE
      OBVIOUS
    <2>1. Upto(s) \subseteq X
      <3>1. \A t \in S : t \in Int
        OBVIOUS
      <3>2. \A t \in S : t <= s => t <= m
        BY <3>1
      <3> QED BY <1>3, <3>2
    <2>2. m \in X /\ m \notin Upto(s)
      BY <1>3
    <2> QED BY <1>2, <2>1, <2>2
  <1> QED BY <1>4

\* Sliding a window over a row: when one step to the left shows less, and no step to the right
\* more, then it starts or ends with a run of the row.
LEMMA Slide ==
  ASSUME NEW allowed, Region(allowed), NEW x \in Int, NEW y \in Int, NEW w \in Nat \ {0},
         Cardinality(Seen(allowed, x - 1, y, w)) < Cardinality(Seen(allowed, x, y, w)),
         Cardinality(Seen(allowed, x + 1, y, w)) <= Cardinality(Seen(allowed, x, y, w))
  PROVE  x \in Lefts(allowed) \/ x + w - 1 \in Rights(allowed)
  <1> DEFINE R == Row(allowed, y)
             A == Seen(allowed, x, y, w)
             B == Seen(allowed, x - 1, y, w)
             C == Seen(allowed, x + 1, y, w)
             last == x + w - 1
  <1>1. IsFiniteSet(A) /\ IsFiniteSet(B) /\ IsFiniteSet(C)
    BY TopIs
  <1>2. Cardinality(A) \in Nat /\ Cardinality(B) \in Nat /\ Cardinality(C) \in Nat
    BY <1>1, FS_CardinalityType
  <1>3. last \in Int /\ last + 1 \in Int /\ x - 1 \in Int
    OBVIOUS
  <1>4. /\ \A i : i \in A <=> i \in R /\ i \in Int /\ x <= i /\ i <= last
        /\ \A i : i \in B <=> i \in R /\ i \in Int /\ x - 1 <= i /\ i < last
        /\ \A i : i \in C <=> i \in R /\ i \in Int /\ x + 1 <= i /\ i <= last + 1
    BY DEF Seen
  <1> HIDE DEF A, B, C
  <1>5. Cardinality(B) < Cardinality(A) /\ Cardinality(C) <= Cardinality(A)
    BY DEF A, B, C
  <1> HIDE DEF R, last
  <1>6. last \in R
    <2> SUFFICES ASSUME last \notin R PROVE FALSE
      OBVIOUS
    <2>1. A \in SUBSET B
      BY <1>3, <1>4
    <2>2. Cardinality(A) <= Cardinality(B)
      BY <1>1, <2>1, FS_Subset
    <2> QED BY <1>2, <1>5, <2>2
  <1>7. x - 1 \notin R
    <2> SUFFICES ASSUME x - 1 \in R PROVE FALSE
      OBVIOUS
    <2>1. x - 1 \notin A /\ last \in A /\ x - 1 \notin A \ {last}
      BY <1>3, <1>4, <1>6 DEF last
    <2>2. (A \ {last}) \cup {x - 1} \in SUBSET B
      BY <1>3, <1>4 DEF last
    <2>3. /\ IsFiniteSet(A \ {last}) /\ Cardinality(A \ {last}) = Cardinality(A) - 1
      BY <1>1, <2>1, FS_RemoveElement
    <2>4. Cardinality((A \ {last}) \cup {x - 1}) = Cardinality(A \ {last}) + 1
      BY <2>1, <2>3, FS_AddElement
    <2>5. Cardinality((A \ {last}) \cup {x - 1}) <= Cardinality(B)
      BY <1>1, <2>2, FS_Subset
    <2> QED BY <1>2, <1>5, <2>3, <2>4, <2>5
  <1>8. CASE x \in R
    <2>1. <<x, y>> \in allowed /\ <<x - 1, y>> \notin allowed
      BY <1>3, <1>7, <1>8, RowIs DEF R
    <2> QED BY <2>1, EdgeIs
  <1>9. CASE x \notin R
    <2>1. last + 1 \notin R
      <3> SUFFICES ASSUME last + 1 \in R PROVE FALSE
        OBVIOUS
      <3>1. last + 1 \notin A
        BY <1>3, <1>4
      <3>2. A \cup {last + 1} \in SUBSET C
        BY <1>3, <1>4, <1>9 DEF last
      <3>3. Cardinality(A \cup {last + 1}) = Cardinality(A) + 1
        BY <1>1, <3>1, FS_AddElement
      <3>4. Cardinality(A \cup {last + 1}) <= Cardinality(C)
        BY <1>1, <3>2, FS_Subset
      <3> QED BY <1>2, <1>5, <3>3, <3>4
    <2>2. <<last, y>> \in allowed /\ <<last + 1, y>> \notin allowed
      BY <1>3, <1>6, <2>1, RowIs DEF R
    <2>3. last \in Rights(allowed)
      BY <1>3, <2>2, EdgeIs
    <2> QED BY <2>3 DEF last
  <1> QED BY <1>8, <1>9

\* Some candidate shows as much of its top edge as any place does, and it shows something.
LEMMA TopCandidate ==
  ASSUME NEW allowed, Region(allowed), allowed # {}, NEW desired, desired.x \in Int, desired.y \in Int,
         NEW w \in Nat \ {0}, NEW h \in Nat \ {0}
  PROVE  \E x, y \in Int :
            /\ Rect(x, y, w, h) \in Candidates(allowed, desired, w, h)
            /\ Cardinality(Seen(allowed, x, y, w)) >= 1
            /\ \A u, v \in Int : Cardinality(Seen(allowed, u, v, w)) <= Cardinality(Seen(allowed, x, y, w))
  <1> DEFINE N == Cardinality(allowed)
             T(u, v) == Cardinality(Seen(allowed, u, v, w))
             P == Int \X Int
             less == [p \in P |-> N - T(p[1], p[2])]
  <1>1. N \in Nat /\ \A u, v \in Int : T(u, v) \in 0..N /\ IsFiniteSet(Seen(allowed, u, v, w))
    <2>1. Region(allowed) /\ w \in Nat
      OBVIOUS
    <2>2. ASSUME NEW u \in Int, NEW v \in Int
          PROVE  N \in Nat /\ T(u, v) \in 0..N /\ IsFiniteSet(Seen(allowed, u, v, w))
      BY <2>1, TopIs
    <2>3. N \in Nat
      BY FS_CardinalityType DEF Region
    <2> QED BY <2>2, <2>3
  <1>2. PICK p0 \in P : \A p \in P : less[p0] <= less[p]
    <2>1. less \in [P -> Nat]
      <3> HIDE DEF T, N
      <3>1. \A p \in P : p[1] \in Int /\ p[2] \in Int
        OBVIOUS
      <3>2. ASSUME NEW p \in P PROVE N - T(p[1], p[2]) \in Nat
        <4> DEFINE t == T(p[1], p[2])
        <4>1. t \in 0..N /\ N \in Nat
          BY <1>1, <3>1
        <4> HIDE DEF t
        <4>2. N - t \in Nat
          BY <4>1
        <4> QED BY <4>2 DEF t
      <3> QED BY <3>2
    <2>2. P # {}
      <3>1. <<0, 0>> \in P
        OBVIOUS
      <3> QED BY <3>1
    <2> HIDE DEF less, P
    <2> QED BY <2>1, <2>2, LeastValue
  <1> DEFINE m == T(p0[1], p0[2])
  <1> HIDE DEF T, N
  <1>3. m \in 0..N /\ \A u, v \in Int : T(u, v) <= m
    <2>1. p0[1] \in Int /\ p0[2] \in Int /\ less[p0] = N - m
      OBVIOUS
    <2>2. \A u, v \in Int : <<u, v>> \in P /\ less[<<u, v>>] = N - T(u, v)
      OBVIOUS
    <2> HIDE DEF less, P
    <2>3. m \in 0..N
      BY <1>1, <2>1
    <2>4. \A u, v \in Int : N - m <= N - T(u, v)
      BY <1>2, <2>1, <2>2
    <2> HIDE DEF m
    <2> QED BY <1>1, <2>3, <2>4
  <1> HIDE DEF less, m
  <1>4. m >= 1
    <2>1. PICK c \in allowed : c[1] \in Int /\ c[2] \in Int /\ c = <<c[1], c[2]>>
      BY DEF Region
    <2>2. c[1] \in Seen(allowed, c[1], c[2], w)
      BY <2>1, RowIs DEF Seen
    <2>3. T(c[1], c[2]) # 0
      BY <1>1, <2>1, <2>2, FS_EmptySet DEF T
    <2>4. T(c[1], c[2]) \in 0..N /\ T(c[1], c[2]) <= m
      BY <1>1, <1>3, <2>1
    <2> QED BY <1>1, <1>3, <2>3, <2>4
  <1> DEFINE Q == {p \in P : T(p[1], p[2]) = m}
  <1>5. Q # {}
    <2>1. p0 \in P /\ T(p0[1], p0[2]) = m
      BY DEF m
    <2> QED BY <2>1
  <1>6. PICK lx \in Int, ly \in Int : \A c \in allowed : lx <= c[1] /\ ly <= c[2]
    <2> DEFINE f == [c \in allowed |-> c[1]]
               g == [c \in allowed |-> c[2]]
    <2>1. \A c \in allowed : f[c] = c[1] /\ g[c] = c[2] /\ c[1] \in Int /\ c[2] \in Int
      BY DEF Region
    <2>2. DOMAIN f = allowed /\ DOMAIN g = allowed
      OBVIOUS
    <2> HIDE DEF f, g
    <2> DEFINE X == {f[c] : c \in allowed}
               Y == {g[c] : c \in allowed}
    <2>3. IsFiniteSet(X) /\ IsFiniteSet(Y)
      BY <2>2, ImageFinite DEF Region
    <2>4. X \subseteq Int /\ X # {} /\ Y \subseteq Int /\ Y # {}
      BY <2>1
    <2>5. \A c \in allowed : c[1] \in X /\ c[2] \in Y
      BY <2>1
    <2> HIDE DEF X, Y
    <2>6. PICK lx \in Int : \A i \in X : lx <= i
      BY <2>3, <2>4, Bounded
    <2>7. PICK ly \in Int : \A j \in Y : ly <= j
      BY <2>3, <2>4, Bounded
    <2> QED BY <2>5, <2>6, <2>7
  <1>7. \A p \in Q : p[1] \in Int /\ p[2] \in Int /\ p[1] - (lx - w) \in Nat /\ p[2] - ly \in Nat
    <2> SUFFICES ASSUME NEW p \in Q
                 PROVE  p[1] \in Int /\ p[2] \in Int /\ p[1] - (lx - w) \in Nat /\ p[2] - ly \in Nat
      OBVIOUS
    <2>1. p[1] \in Int /\ p[2] \in Int /\ T(p[1], p[2]) >= 1
      BY <1>4
    <2>2. Seen(allowed, p[1], p[2], w) # {}
      BY <2>1, FS_EmptySet DEF T
    <2>3. PICK i : i \in Seen(allowed, p[1], p[2], w)
      BY <2>2
    <2>4. i \in p[1] .. p[1] + w - 1 /\ <<i, p[2]>> \in allowed
      BY <2>1, <2>3, RowIs DEF Seen
    <2>5. lx <= i /\ ly <= p[2]
      BY <1>6, <2>4
    <2> QED BY <2>1, <2>4, <2>5
  <1>8. PICK q0 \in Q : \A q \in Q : q0[2] <= q[2]
    <2> DEFINE f == [q \in Q |-> q[2] - ly]
    <2>1. f \in [Q -> Nat]
      BY <1>7
    <2>2. PICK q0 \in Q : \A q \in Q : f[q0] <= f[q]
      <3> HIDE DEF f, Q
      <3> QED BY <1>5, <2>1, LeastValue
    <2>3. \A q \in Q : q0[2] - ly <= q[2] - ly
      BY <2>2
    <2> HIDE DEF Q
    <2> QED BY <1>7, <2>3
  <1> DEFINE y == q0[2]
             Q1 == {q \in Q : q[2] = y}
  <1>9. PICK q1 \in Q1 : \A q \in Q1 : q1[1] <= q[1]
    <2> DEFINE f == [q \in Q1 |-> q[1] - (lx - w)]
    <2>1. f \in [Q1 -> Nat] /\ Q1 # {}
      BY <1>7
    <2>2. PICK q1 \in Q1 : \A q \in Q1 : f[q1] <= f[q]
      <3> HIDE DEF f, Q1
      <3> QED BY <2>1, LeastValue
    <2>3. \A q \in Q1 : q1[1] - (lx - w) <= q[1] - (lx - w)
      BY <2>2
    <2>4. \A q \in Q1 : q \in Q
      OBVIOUS
    <2> HIDE DEF Q, Q1
    <2> QED BY <1>7, <2>3, <2>4
  <1> DEFINE x == q1[1]
  <1>10. /\ x \in Int /\ y \in Int /\ T(x, y) = m
         /\ \A u, v \in Int : T(u, v) = m => y <= v
         /\ \A u \in Int : T(u, y) = m => x <= u
    <2>1. q1 \in Q /\ q1[2] = y /\ q0 \in Q
      OBVIOUS
    <2>2. x \in Int /\ y \in Int /\ T(x, y) = m
      BY <2>1
    <2>3. \A u, v \in Int : T(u, v) = m => <<u, v>> \in Q
      OBVIOUS
    <2>4. \A u \in Int : T(u, y) = m => <<u, y>> \in Q1
      BY <2>2
    <2>5. \A u, v \in Int : T(u, v) = m => y <= v
      <3>1. \A u, v \in Int : <<u, v>>[2] = v
        OBVIOUS
      <3> HIDE DEF Q
      <3> QED BY <1>8, <2>3, <3>1
    <2>6. \A u \in Int : T(u, y) = m => x <= u
      BY <1>9, <2>4
    <2> QED BY <2>2, <2>5, <2>6
  <1> HIDE DEF x, y, Q, Q1
  <1>11. T(x - 1, y) < m /\ T(x, y - 1) < m
    <2>1. x - 1 \in Int /\ y - 1 \in Int /\ ~(x <= x - 1) /\ ~(y <= y - 1)
      BY <1>10
    <2>2. T(x - 1, y) # m /\ T(x, y - 1) # m
      BY <1>10, <2>1
    <2>3. T(x - 1, y) \in 0..N /\ T(x, y - 1) \in 0..N /\ T(x - 1, y) <= m /\ T(x, y - 1) <= m
      BY <1>1, <1>3, <1>10, <2>1
    <2>4. m \in Int /\ T(x - 1, y) \in Int /\ T(x, y - 1) \in Int
      BY <1>3, <2>3
    <2> QED BY <2>2, <2>3, <2>4
  <1>12. x \in Lefts(allowed) \/ x + w - 1 \in Rights(allowed)
    <2>1. T(x + 1, y) <= m
      <3>1. x + 1 \in Int
        BY <1>10
      <3> QED BY <1>3, <1>10, <3>1
    <2>2. T(x - 1, y) < T(x, y) /\ T(x + 1, y) <= T(x, y)
      BY <1>10, <1>11, <2>1
    <2> QED BY <1>10, <2>2, Slide DEF T
  <1>13. y \in Tops(allowed)
    <2>1. Row(allowed, y - 1) # Row(allowed, y)
      <3> SUFFICES ASSUME Row(allowed, y - 1) = Row(allowed, y) PROVE FALSE
        OBVIOUS
      <3>1. T(x, y - 1) = T(x, y)
        BY DEF T, Seen
      <3> QED BY <1>3, <1>10, <1>11, <3>1
    <2>2. PICK i : i \in Seen(allowed, x, y, w)
      <3>1. Seen(allowed, x, y, w) # {}
        <4>1. T(x, y) >= 1
          BY <1>4, <1>10
        <4>2. T(x, y) # 0
          BY <1>3, <1>10, <4>1
        <4> QED BY <4>2, FS_EmptySet DEF T
      <3> QED BY <3>1
    <2>3. PICK c \in allowed : c[2] = y
      BY <2>2 DEF Seen, Row
    <2> QED BY <2>1, <2>3 DEF Tops
  <1>14. Rect(x, y, w, h) \in Candidates(allowed, desired, w, h)
    <2>1. x = (x + w - 1) - w + 1
      BY <1>10
    <2>2. x \in candidateXPositions(desired, allowed, w)
      BY <1>12, <2>1 DEF candidateXPositions
    <2>3. y \in candidateYPositions(desired, allowed, h)
      BY <1>13 DEF candidateYPositions
    <2> QED BY <2>2, <2>3 DEF Candidates
  <1>15. /\ T(x, y) >= 1
         /\ \A u, v \in Int : T(u, v) <= T(x, y)
    BY <1>3, <1>4, <1>10
  <1> QED BY <1>10, <1>14, <1>15 DEF T

\* A score is a sequence of so many numbers.
LEMMA ScoreIsSeq ==
  ASSUME NEW n \in Nat, NEW s
  PROVE  s \in Score(n) <=> s \in Seq(Int) /\ Len(s) = n
  <1>1. ASSUME s \in Score(n) PROVE s \in Seq(Int) /\ Len(s) = n
    BY <1>1, SeqDef, LenProperties DEF Score
  <1>2. ASSUME s \in Seq(Int), Len(s) = n PROVE s \in Score(n)
    BY <1>2, LenProperties DEF Score
  <1> QED BY <1>1, <1>2

\* The first three parts are about the region, the others break ties as for contained places.
LEMMA DegradedScoreIs ==
  ASSUME NEW allowed, Region(allowed), NEW desired, desired.x \in Int, desired.y \in Int,
         NEW w \in Nat, NEW h \in Nat, NEW barHeight, NEW gripWidth,
         NEW r, r.x \in Int, r.y \in Int, r = Rect(r.x, r.y, w, h),
         NEW s, s = degradedScore(allowed, desired, r, barHeight, gripWidth)
  PROVE  /\ s \in Score(8)
         /\ s[1] = -visibleTopEdge(allowed, r)
         /\ s[2] = IF gripVisible(allowed, r, barHeight, gripWidth) THEN 0 ELSE 1
         /\ s[3] = offScreenArea(allowed, r)
         /\ s[4] = Far(desired, r.x, r.y) /\ s[7] = r.x /\ s[8] = r.y
  <1> DEFINE x == r.x
             y == r.y
             top == visibleTopEdge(allowed, r)
             grip == IF gripVisible(allowed, r, barHeight, gripWidth) THEN 0 ELSE 1
             area == offScreenArea(allowed, r)
             a == <<-top, grip, area>>
             b == containedScore(desired, r)
  <1>1. top \in Nat
    <2>1. /\ visibleTopEdge(allowed, Rect(x, y, w, h)) = Cardinality(Seen(allowed, x, y, w))
          /\ Cardinality(Seen(allowed, x, y, w)) \in 0..Cardinality(allowed)
          /\ Cardinality(allowed) \in Nat
      BY TopIs
    <2> QED BY <2>1
  <1>2. grip \in {0, 1}
    OBVIOUS
  <1>3. area \in Nat
    <2>1. x + w - 1 \in Int /\ y + h - 1 \in Int
      OBVIOUS
    <2>2. IsFiniteSet(x..x + w - 1) /\ IsFiniteSet(y..y + h - 1)
      BY <2>1, FS_Interval
    <2>3. IsFiniteSet((x..x + w - 1) \X (y..y + h - 1))
      BY <2>2, FS_Product
    <2>4. Pixels(r) = (x..x + w - 1) \X (y..y + h - 1)
      BY DEF Pixels, Rect
    <2>5. Pixels(r) \ allowed \in SUBSET Pixels(r)
      OBVIOUS
    <2>6. IsFiniteSet(Pixels(r) \ allowed)
      BY <2>3, <2>4, <2>5, FS_Subset
    <2> QED BY <2>6, FS_CardinalityType DEF offScreenArea
  <1>4. s = a \o b
    BY DEF degradedScore
  <1>5. r.x = x /\ r.y = y
    OBVIOUS
  <1>6. b \in Score(5) /\ b[1] = Far(desired, x, y) /\ b[4] = x /\ b[5] = y
    BY <1>5, ContainedScoreIs
  <1> HIDE DEF top, grip, area, b
  <1>7. a \in Seq(Int) /\ Len(a) = 3 /\ a[1] = -top /\ a[2] = grip /\ a[3] = area
    BY <1>1, <1>2, <1>3
  <1>8. b \in Seq(Int) /\ Len(b) = 5
    BY <1>6, ScoreIsSeq
  <1> HIDE DEF a
  <1>9. /\ s \in Seq(Int) /\ Len(s) = 8
        /\ \A i \in 1..8 : s[i] = IF i <= 3 THEN a[i] ELSE b[i - 3]
    <2>1. /\ a \o b \in Seq(Int)
          /\ Len(a \o b) = Len(a) + Len(b)
          /\ \A i \in 1 .. Len(a) + Len(b) : (a \o b)[i] = IF i <= Len(a) THEN a[i] ELSE b[i - Len(a)]
      BY <1>7, <1>8, ConcatProperties
    <2>2. Len(a) + Len(b) = 8
      BY <1>7, <1>8
    <2> QED BY <1>4, <1>7, <2>1, <2>2
  <1>10. s \in Score(8)
    BY <1>9, ScoreIsSeq
  <1>11. s[1] = a[1] /\ s[2] = a[2] /\ s[3] = a[3] /\ s[4] = b[1] /\ s[7] = b[4] /\ s[8] = b[5]
    BY <1>9
  <1> QED BY <1>6, <1>7, <1>10, <1>11 DEF top, grip, area

DegradedScores(allowed, desired, w, h, barHeight, gripWidth) ==
    [s \in Candidates(allowed, desired, w, h) |->
        degradedScore(allowed, desired, s, barHeight, gripWidth)]

\* findBestPlacementDegraded() takes the candidate with the least score.
LEMMA DegradedWins ==
  ASSUME NEW allowed, Region(allowed), NEW desired, desired.x \in Int, desired.y \in Int,
         NEW w \in Nat \ {0}, NEW h \in Nat \ {0}, NEW barHeight, NEW gripWidth
  PROVE  /\ DegradedScores(allowed, desired, w, h, barHeight, gripWidth)
               \in [Candidates(allowed, desired, w, h) -> Score(8)]
         /\ Wins(DegradedScores(allowed, desired, w, h, barHeight, gripWidth),
                 Candidates(allowed, desired, w, h),
                 findBestPlacementDegraded(allowed, desired, w, h, barHeight, gripWidth))
  <1> DEFINE best == findBestPlacementDegraded(allowed, desired, w, h, barHeight, gripWidth)
             C == Candidates(allowed, desired, w, h)
             score == DegradedScores(allowed, desired, w, h, barHeight, gripWidth)
  <1>1. IsFiniteSet(C) /\ C # {}
    <2>1. /\ desired.x \in candidateXPositions(desired, allowed, w)
          /\ desired.y \in candidateYPositions(desired, allowed, h)
      BY DEF candidateXPositions, candidateYPositions
    <2>2. Rect(desired.x, desired.y, w, h) \in Candidates(allowed, desired, w, h)
      BY <2>1 DEF Candidates
    <2>3. IsFiniteSet(Candidates(allowed, desired, w, h))
      BY CandidatesFinite
    <2> QED BY <2>2, <2>3
  <1>2. ASSUME NEW s \in C
        PROVE  /\ score[s] \in Score(8) /\ score[s][7] = s.x /\ score[s][8] = s.y
               /\ s = Rect(s.x, s.y, w, h)
    <2>1. s.x \in Int /\ s.y \in Int /\ s = Rect(s.x, s.y, w, h)
      BY CandidateIs
    <2>2. score[s] = degradedScore(allowed, desired, s, barHeight, gripWidth)
      BY DEF DegradedScores
    <2>3. w \in Nat /\ h \in Nat
      OBVIOUS
    <2> HIDE DEF score, C
    <2> QED BY <2>1, <2>2, <2>3, DegradedScoreIs
  <1>3. best = BestBy(score)
    BY DEF findBestPlacementDegraded, DegradedScores
  <1>4. score = [s \in C |-> score[s]]
    BY DEF DegradedScores
  <1> HIDE DEF best, score, C
  <1>5. score \in [C -> Score(8)]
    BY <1>2, <1>4
  <1>6. \A s, t \in C : score[s] = score[t] => s = t
    BY <1>2
  <1>7. Wins(score, C, best)
    BY <1>1, <1>3, <1>5, <1>6, BestWins
  <1> QED BY <1>5, <1>7 DEF best, score, C

\* A place of the size that shows as much of its top edge as any, and shows some.
ShowsMost(allowed, w, h, r) ==
    /\ r.x \in Int /\ r.y \in Int /\ r = Rect(r.x, r.y, w, h)
    /\ visibleTopEdge(allowed, r) >= 1
    /\ \A u, v \in Int : visibleTopEdge(allowed, Rect(u, v, w, h)) <= visibleTopEdge(allowed, r)

\* findBestPlacementDegraded() finds such a place.
LEMMA DegradedBest ==
  ASSUME NEW allowed, Region(allowed), allowed # {}, NEW desired, desired.x \in Int, desired.y \in Int,
         NEW w \in Nat \ {0}, NEW h \in Nat \ {0}, NEW barHeight, NEW gripWidth,
         NEW r, r = findBestPlacementDegraded(allowed, desired, w, h, barHeight, gripWidth)
  PROVE  ShowsMost(allowed, w, h, r)
  <1> DEFINE C == Candidates(allowed, desired, w, h)
             score == DegradedScores(allowed, desired, w, h, barHeight, gripWidth)
  <1>1. score \in [C -> Score(8)] /\ Wins(score, C, r)
    BY DegradedWins
  <1>2. r \in C
    BY <1>1 DEF Wins
  <1>3. r.x \in Int /\ r.y \in Int /\ r = Rect(r.x, r.y, w, h)
    BY <1>2, CandidateIs
  <1>4. PICK x \in Int, y \in Int :
           /\ Rect(x, y, w, h) \in C
           /\ Cardinality(Seen(allowed, x, y, w)) >= 1
           /\ \A u, v \in Int : Cardinality(Seen(allowed, u, v, w)) <= Cardinality(Seen(allowed, x, y, w))
    BY TopCandidate
  <1> DEFINE s == Rect(x, y, w, h)
             top(u, v) == visibleTopEdge(allowed, Rect(u, v, w, h))
  <1>5. w \in Nat /\ h \in Nat /\ \A u, v \in Int : top(u, v) = Cardinality(Seen(allowed, u, v, w)) /\ top(u, v) \in Int
    <2>1. w \in Nat
      OBVIOUS
    <2>2. ASSUME NEW u \in Int, NEW v \in Int
          PROVE  top(u, v) = Cardinality(Seen(allowed, u, v, w)) /\ top(u, v) \in Int
      <3>1. /\ visibleTopEdge(allowed, Rect(u, v, w, h)) = Cardinality(Seen(allowed, u, v, w))
            /\ Cardinality(Seen(allowed, u, v, w)) \in 0..Cardinality(allowed)
            /\ Cardinality(allowed) \in Nat
        BY <2>1, TopIs
      <3> QED BY <3>1
    <2> QED BY <2>2
  <1>6. score[s][1] = -top(x, y)
    <2>1. s \in C /\ score[s] = degradedScore(allowed, desired, s, barHeight, gripWidth)
      BY <1>4 DEF DegradedScores
    <2>2. s.x = x /\ s.y = y
      BY DEF Rect
    <2>3. s.x \in Int /\ s.y \in Int /\ s = Rect(s.x, s.y, w, h)
      BY <2>2
    <2> HIDE DEF score, C, s
    <2>5. w \in Nat /\ h \in Nat
      OBVIOUS
    <2>4. score[s][1] = -visibleTopEdge(allowed, s)
      BY <2>5, <2>1, <2>3, DegradedScoreIs
    <2> QED BY <2>4 DEF s
  <1>7. score[r][1] = -top(r.x, r.y)
    <2>1. score[r] = degradedScore(allowed, desired, r, barHeight, gripWidth)
      BY <1>2 DEF DegradedScores
    <2> HIDE DEF score, C
    <2>3. w \in Nat /\ h \in Nat
      OBVIOUS
    <2>2. score[r][1] = -visibleTopEdge(allowed, r)
      BY <1>3, <2>1, <2>3, DegradedScoreIs
    <2> QED BY <1>3, <2>2
  <1>8. score[r][1] <= score[s][1]
    <2>1. s = r \/ Before(score[r], score[s])
      BY <1>1, <1>4 DEF Wins
    <2>2. score[r] \in Score(8) /\ score[s] \in Score(8)
      BY <1>1, <1>2, <1>4
    <2>3. score[r][1] \in Int
      BY <2>2 DEF Score
    <2> HIDE DEF score, s
    <2> QED BY <2>1, <2>2, <2>3, BeforeFirst
  <1> HIDE DEF score, s, C
  <1>9. top(r.x, r.y) >= top(x, y) /\ top(r.x, r.y) \in Int /\ top(x, y) \in Int
    <2>1. top(r.x, r.y) \in Int /\ top(x, y) \in Int
      BY <1>3, <1>5
    <2> HIDE DEF top
    <2> QED BY <1>6, <1>7, <1>8, <2>1
  <1>10. top(x, y) >= 1 /\ \A u, v \in Int : top(u, v) <= top(x, y)
    BY <1>4, <1>5
  <1>11. top(r.x, r.y) >= 1 /\ \A u, v \in Int : top(u, v) <= top(r.x, r.y)
    <2> DEFINE a == top(r.x, r.y)
               b == top(x, y)
    <2>1. a \in Int /\ b \in Int /\ a >= b /\ b >= 1
      BY <1>9, <1>10
    <2> SUFFICES ASSUME NEW u \in Int, NEW v \in Int PROVE a >= 1 /\ top(u, v) <= a
      OBVIOUS
    <2>2. top(u, v) \in Int /\ top(u, v) <= b
      BY <1>5, <1>10
    <2> HIDE DEF top, a, b
    <2> QED BY <2>1, <2>2
  <1>12. top(r.x, r.y) = visibleTopEdge(allowed, r)
    BY <1>3
  <1> QED BY <1>3, <1>11, <1>12 DEF ShowsMost

\* Asked to leave a window where it has put it, it does.
LEMMA DegradedStays ==
  ASSUME NEW allowed, Region(allowed), NEW desired, desired.x \in Int, desired.y \in Int,
         NEW w \in Nat \ {0}, NEW h \in Nat \ {0}, NEW barHeight, NEW gripWidth,
         NEW r, r = findBestPlacementDegraded(allowed, desired, w, h, barHeight, gripWidth)
  PROVE  findBestPlacementDegraded(allowed, r, w, h, barHeight, gripWidth) = r
  <1> DEFINE C == Candidates(allowed, desired, w, h)
             old == DegradedScores(allowed, desired, w, h, barHeight, gripWidth)
             D == Candidates(allowed, r, w, h)
             new == DegradedScores(allowed, r, w, h, barHeight, gripWidth)
  <1>1. old \in [C -> Score(8)] /\ Wins(old, C, r)
    BY DegradedWins
  <1>2. r \in C /\ r.x \in Int /\ r.y \in Int /\ r = Rect(r.x, r.y, w, h)
    BY <1>1, CandidateIs DEF Wins
  <1>3. r \in D /\ D \subseteq C
    <2>1. PICK x \in candidateXPositions(desired, allowed, w), y \in candidateYPositions(desired, allowed, h) :
             r = Rect(x, y, w, h)
      BY <1>2 DEF Candidates
    <2>2. r.x = x /\ r.y = y
      BY <2>1 DEF Rect
    <2>3. candidateXPositions(r, allowed, w) \subseteq candidateXPositions(desired, allowed, w)
      BY <2>2 DEF candidateXPositions
    <2>4. candidateYPositions(r, allowed, h) \subseteq candidateYPositions(desired, allowed, h)
      BY <2>2 DEF candidateYPositions
    <2>5. D \subseteq C
      BY <2>3, <2>4 DEF Candidates
    <2>6. r \in D
      <3>1. /\ r.x \in candidateXPositions(r, allowed, w)
            /\ r.y \in candidateYPositions(r, allowed, h)
        BY DEF candidateXPositions, candidateYPositions
      <3>2. Rect(r.x, r.y, w, h) \in D
        BY <3>1 DEF Candidates
      <3> QED BY <1>2, <3>2
    <2> QED BY <2>5, <2>6
  <1>4. new \in [D -> Score(8)]
    BY <1>2, DegradedWins
  <1>5. ASSUME NEW s \in D
        PROVE  /\ s.x \in Int /\ s.y \in Int /\ s = Rect(s.x, s.y, w, h)
               /\ \A i \in 1..3 : new[s][i] = old[s][i]
               /\ new[s][4] = Far(r, s.x, s.y)
    <2>1. s.x \in Int /\ s.y \in Int /\ s = Rect(s.x, s.y, w, h)
      BY <1>2, CandidateIs
    <2>2. s \in C
      BY <1>3
    <2>3. /\ new[s] = degradedScore(allowed, r, s, barHeight, gripWidth)
          /\ old[s] = degradedScore(allowed, desired, s, barHeight, gripWidth)
          /\ w \in Nat /\ h \in Nat
      BY <2>2 DEF DegradedScores
    <2> DEFINE n == new[s]
               o == old[s]
    <2> HIDE DEF n, o, C, D
    <2>4. /\ n[1] = -visibleTopEdge(allowed, s)
          /\ n[2] = IF gripVisible(allowed, s, barHeight, gripWidth) THEN 0 ELSE 1
          /\ n[3] = offScreenArea(allowed, s)
          /\ n[4] = Far(r, s.x, s.y)
      <3>1. n = degradedScore(allowed, r, s, barHeight, gripWidth)
        BY <2>3 DEF n
      <3> QED BY <1>2, <2>1, <2>3, <3>1, DegradedScoreIs
    <2>5. /\ o[1] = -visibleTopEdge(allowed, s)
          /\ o[2] = IF gripVisible(allowed, s, barHeight, gripWidth) THEN 0 ELSE 1
          /\ o[3] = offScreenArea(allowed, s)
      <3>1. o = degradedScore(allowed, desired, s, barHeight, gripWidth)
        BY <2>3 DEF o
      <3> QED BY <2>1, <2>3, <3>1, DegradedScoreIs
    <2>6. \A i \in 1..3 : i = 1 \/ i = 2 \/ i = 3
      OBVIOUS
    <2>7. n[1] = o[1] /\ n[2] = o[2] /\ n[3] = o[3]
      BY <2>4, <2>5
    <2>8. \A i \in 1..3 : n[i] = o[i]
      BY <2>6, <2>7
    <2> HIDE DEF old, new
    <2> QED BY <2>1, <2>4, <2>8 DEF n, o
  <1>6. ASSUME NEW s \in D \ {r} PROVE Before(new[r], new[s])
    <2>1. Before(old[r], old[s])
      BY <1>1, <1>3 DEF Wins
    <2>2. old[r] \in Score(8) /\ old[s] \in Score(8) /\ new[r] \in Score(8) /\ new[s] \in Score(8)
      BY <1>1, <1>3, <1>4
    <2>3. /\ \A i \in 1..3 : new[r][i] = old[r][i] /\ new[s][i] = old[s][i]
          /\ new[r][4] = Far(r, r.x, r.y) /\ new[s][4] = Far(r, s.x, s.y)
      BY <1>3, <1>5
    <2>4. s.x \in Int /\ s.y \in Int /\ (s.x # r.x \/ s.y # r.y)
      BY <1>2, <1>5
    <2> HIDE DEF old, new, C, D
    <2>5. new[r][4] < new[s][4]
      BY <1>2, <2>3, <2>4, FarIs
    <2>6. PICK i \in 1..8 : old[r][i] < old[s][i] /\ \A j \in 1..i - 1 : old[r][j] = old[s][j]
      BY <2>1, <2>2 DEF Before, Score
    <2>7. CASE i <= 3
      <3>1. new[r][i] < new[s][i] /\ \A j \in 1..i - 1 : new[r][j] = new[s][j]
        BY <2>3, <2>6, <2>7
      <3> QED BY <2>2, <3>1 DEF Before, Score
    <2>8. CASE i > 3
      <3>1. \A j \in 1..3 : new[r][j] = new[s][j]
        BY <2>3, <2>6, <2>8
      <3>2. \A j \in 1..4 - 1 : new[r][j] = new[s][j]
        BY <3>1
      <3>3. 4 \in DOMAIN new[r]
        BY <2>2 DEF Score
      <3> QED BY <2>5, <3>2, <3>3 DEF Before
    <2> QED BY <2>7, <2>8
  <1>7. findBestPlacementDegraded(allowed, r, w, h, barHeight, gripWidth) = BestBy(new)
    BY DEF findBestPlacementDegraded, DegradedScores
  <1>8. Wins(new, D, r)
    BY <1>3, <1>6 DEF Wins
  <1> HIDE DEF new, old, C, D
  <1>9. BestBy(new) = r
    BY <1>4, <1>8, WinnerIsBest
  <1> QED BY <1>7, <1>9

-----------------------------------------------------------------------------
(* The fit *)

\* The available geometries of finitely many screens.
IsLayout(rects) ==
    /\ IsFiniteSet(rects)
    /\ \A r \in rects : r.x \in Int /\ r.y \in Int /\ r.w \in Nat /\ r.h \in Nat

IsPlacement(r) == r.x \in Int /\ r.y \in Int /\ r.w \in Int /\ r.h \in Int

IsMinimum(m) == m.w \in Nat \ {0} /\ m.h \in Nat \ {0}

\* The screens make a region.
LEMMA LayoutIsRegion ==
  ASSUME NEW rects, IsLayout(rects)
  PROVE  Region(buildAllowedRegion(rects))
  <1> DEFINE f == [r \in rects |-> Pixels(r)]
             S == {f[r] : r \in rects}
  <1>1. buildAllowedRegion(rects) = UNION S
    BY DEF buildAllowedRegion
  <1>2. ASSUME NEW r \in rects PROVE IsFiniteSet(f[r]) /\ f[r] \subseteq Int \X Int
    <2> DEFINE X == r.x .. r.x + r.w - 1
               Y == r.y .. r.y + r.h - 1
    <2>1. r.x \in Int /\ r.x + r.w - 1 \in Int /\ r.y \in Int /\ r.y + r.h - 1 \in Int
      BY DEF IsLayout
    <2>2. IsFiniteSet(X) /\ IsFiniteSet(Y)
      BY <2>1, FS_Interval
    <2>3. X \subseteq Int /\ Y \subseteq Int
      BY <2>1
    <2>4. f[r] = X \X Y
      BY DEF Pixels
    <2> HIDE DEF X, Y, f
    <2>5. IsFiniteSet(X \X Y)
      BY <2>2, FS_Product
    <2> QED BY <2>3, <2>4, <2>5
  <1>3. DOMAIN f = rects
    OBVIOUS
  <1> HIDE DEF f
  <1>4. IsFiniteSet(S)
    BY <1>3, ImageFinite DEF IsLayout
  <1>5. \A T \in S : IsFiniteSet(T) /\ T \subseteq Int \X Int
    BY <1>2
  <1> HIDE DEF S
  <1>6. IsFiniteSet(UNION S)
    BY <1>4, <1>5, FS_UNION
  <1> QED BY <1>1, <1>5, <1>6 DEF Region

\* The maximum of two numbers.
LEMMA MaxIs ==
  ASSUME NEW a \in Int, NEW b \in Int
  PROVE  Max({a, b}) \in {a, b} /\ Max({a, b}) >= a /\ Max({a, b}) >= b
  <1>1. \E x \in {a, b} : \A y \in {a, b} : x >= y
    <2>1. a >= b \/ b >= a
      OBVIOUS
    <2>2. a >= a /\ b >= b
      OBVIOUS
    <2> QED BY <2>1, <2>2
  <1> DEFINE m == CHOOSE x \in {a, b} : \A y \in {a, b} : x >= y
  <1>2. Max({a, b}) = m
    BY DEF Max
  <1>3. m \in {a, b} /\ \A y \in {a, b} : m >= y
    BY <1>1
  <1> HIDE DEF m
  <1> QED BY <1>2, <1>3

\* What is wanted is at least the minimum, and a window that is, is wanted as it is.
LEMMA EnlargedIs ==
  ASSUME NEW desired, IsPlacement(desired), NEW minimum, IsMinimum(minimum),
         NEW wanted, wanted = Enlarged(desired, minimum)
  PROVE  /\ Size(wanted, minimum) /\ wanted.x = desired.x /\ wanted.y = desired.y
         /\ desired = Rect(desired.x, desired.y, desired.w, desired.h) /\
            desired.w >= minimum.w /\ desired.h >= minimum.h => wanted = desired
  <1> DEFINE w == Max({desired.w, minimum.w})
             h == Max({desired.h, minimum.h})
  <1>1. w \in {desired.w, minimum.w} /\ w >= desired.w /\ w >= minimum.w
    <2>1. desired.w \in Int /\ minimum.w \in Int
      BY DEF IsPlacement, IsMinimum
    <2> QED BY <2>1, MaxIs
  <1>2. h \in {desired.h, minimum.h} /\ h >= desired.h /\ h >= minimum.h
    <2>1. desired.h \in Int /\ minimum.h \in Int
      BY DEF IsPlacement, IsMinimum
    <2> QED BY <2>1, MaxIs
  <1>3. wanted = Rect(desired.x, desired.y, w, h)
    BY DEF Enlarged
  <1> HIDE DEF w, h
  <1>4. wanted.x = desired.x /\ wanted.y = desired.y /\ wanted.w = w /\ wanted.h = h
    BY <1>3 DEF Rect
  <1>5. w \in Nat /\ h \in Nat /\ minimum.w <= w /\ minimum.h <= h
    BY <1>1, <1>2 DEF IsPlacement, IsMinimum
  <1>6. Size(wanted, minimum)
    BY <1>4, <1>5 DEF Size, IsPlacement, IsMinimum
  <1>7. ASSUME desired.w >= minimum.w, desired.h >= minimum.h PROVE w = desired.w /\ h = desired.h
    BY <1>1, <1>2, <1>7 DEF IsPlacement, IsMinimum
  <1> QED BY <1>3, <1>4, <1>6, <1>7

\* The three ways to fit a window on the screens there are.
LEMMA FitIs ==
  ASSUME NEW rects, IsLayout(rects), NEW allowed, allowed = buildAllowedRegion(rects), allowed # {},
         NEW desired, IsPlacement(desired), NEW minimum, IsMinimum(minimum),
         NEW barHeight, NEW gripWidth,
         NEW wanted, wanted = Enlarged(desired, minimum),
         NEW r, r = fit(desired, rects, minimum, barHeight, gripWidth).rect
  PROVE  \/ \E w \in minimum.w .. wanted.w, h \in minimum.h .. wanted.h :
               /\ ContainedCandidates(allowed, wanted, w, h) # {}
               /\ r = findBestPlacementContained(allowed, wanted, w, h)
               /\ \A u \in minimum.w .. wanted.w, v \in minimum.h .. wanted.h :
                     ContainedCandidates(allowed, wanted, u, v) # {} => u * v <= w * h
         \/ /\ r = findBestPlacementDegraded(allowed, wanted, minimum.w, minimum.h, barHeight, gripWidth)
            /\ \A w \in minimum.w .. wanted.w, h \in minimum.h .. wanted.h :
                  ContainedCandidates(allowed, wanted, w, h) = {}
  <1> DEFINE sizes == largestContained(allowed, wanted, minimum.w, minimum.h)
             size == CHOOSE s \in sizes : TRUE
  <1>1. Region(allowed) /\ Size(wanted, minimum)
    BY LayoutIsRegion, EnlargedIs
  <1>2. CASE ContainedCandidates(allowed, wanted, wanted.w, wanted.h) # {}
    <2>1. r = findBestPlacementContained(allowed, wanted, wanted.w, wanted.h)
      BY <1>2 DEF fit
    <2>2. wanted.w \in minimum.w .. wanted.w /\ wanted.h \in minimum.h .. wanted.h
      BY <1>1 DEF Size
    <2>3. ASSUME NEW u \in minimum.w .. wanted.w, NEW v \in minimum.h .. wanted.h
          PROVE  u * v <= wanted.w * wanted.h
      <3>1. /\ u \in Nat /\ v \in Nat /\ wanted.w \in Nat /\ wanted.h \in Nat
            /\ u <= wanted.w /\ v <= wanted.h
        BY <1>1 DEF Size
      <3>2. u * v <= wanted.w * v /\ u * v \in Int /\ wanted.w * v \in Int
        BY <3>1, Times
      <3>3. v * wanted.w <= wanted.h * wanted.w /\ wanted.h * wanted.w \in Int
        BY <3>1, Times
      <3>4. v * wanted.w = wanted.w * v /\ wanted.h * wanted.w = wanted.w * wanted.h
        BY <3>1
      <3> QED BY <3>2, <3>3, <3>4
    <2> QED BY <1>2, <2>1, <2>2, <2>3
  <1>3. CASE ContainedCandidates(allowed, wanted, wanted.w, wanted.h) = {} /\ sizes # {}
    <2>1. r = findBestPlacementContained(allowed, wanted, size[1], size[2])
      BY <1>3 DEF fit
    <2>2. size \in sizes
      BY <1>3
    <2> HIDE DEF size, sizes
    <2>3. /\ size[1] \in minimum.w .. wanted.w /\ size[2] \in minimum.h .. wanted.h
          /\ ContainedCandidates(allowed, wanted, size[1], size[2]) # {}
          /\ \A u \in minimum.w .. wanted.w, v \in minimum.h .. wanted.h :
                ContainedCandidates(allowed, wanted, u, v) # {} => u * v <= size[1] * size[2]
      BY <1>1, <2>2, LargestIs DEF sizes
    <2> QED BY <2>1, <2>3
  <1>4. CASE ContainedCandidates(allowed, wanted, wanted.w, wanted.h) = {} /\ sizes = {}
    <2>1. r = findBestPlacementDegraded(allowed, wanted, minimum.w, minimum.h, barHeight, gripWidth)
      BY <1>4 DEF fit
    <2>2. \A w \in minimum.w .. wanted.w, h \in minimum.h .. wanted.h :
             ContainedCandidates(allowed, wanted, w, h) = {}
      BY <1>1, <1>4, LargestIs
    <2> QED BY <2>1, <2>2
  <1> QED BY <1>2, <1>3, <1>4

-----------------------------------------------------------------------------
(* Nothing is better *)

\* A place whose top edge meets the region is one of the places that touch it.
LEMMA TouchingIsEverywhere ==
  ASSUME NEW allowed, Region(allowed), NEW w \in Nat \ {0}, NEW h \in Nat \ {0},
         NEW x \in Int, NEW y \in Int, NEW i \in x..x + w - 1, <<i, y>> \in allowed
  PROVE  Rect(x, y, w, h) \in Everywhere(allowed, w, h)
  <1> DEFINE c == <<i, y>>
             X == UNION {d[1] - w + 1 .. d[1] : d \in allowed}
             Y == UNION {d[2] - h + 1 .. d[2] : d \in allowed}
  <1>1. c \in allowed /\ c[1] = i /\ c[2] = y
    OBVIOUS
  <1>2. x \in c[1] - w + 1 .. c[1] /\ y \in c[2] - h + 1 .. c[2]
    BY <1>1
  <1> HIDE DEF c
  <1>3. x \in X /\ y \in Y
    BY <1>1, <1>2
  <1>4. Everywhere(allowed, w, h) = {Rect(u, v, w, h) : u \in X, v \in Y}
    BY DEF Everywhere
  <1> HIDE DEF X, Y
  <1> QED BY <1>3, <1>4

\* A rectangle that lies in the region touches it.
LEMMA FittingIs ==
  ASSUME NEW allowed, Region(allowed), NEW w \in Nat \ {0}, NEW h \in Nat \ {0}, NEW r
  PROVE  r \in Fitting(allowed, w, h) <=>
            \E x, y \in Int : r = Rect(x, y, w, h) /\ fullyContainsRect(allowed, r)
  <1>1. \A c \in allowed : c[1] \in Int /\ c[2] \in Int
    BY DEF Region
  <1>2. ASSUME r \in Fitting(allowed, w, h)
        PROVE  \E x, y \in Int : r = Rect(x, y, w, h) /\ fullyContainsRect(allowed, r)
    <2>1. r \in Everywhere(allowed, w, h) /\ fullyContainsRect(allowed, r)
      BY <1>2 DEF Fitting
    <2>2. PICK x \in UNION {c[1] - w + 1 .. c[1] : c \in allowed},
               y \in UNION {c[2] - h + 1 .. c[2] : c \in allowed} : r = Rect(x, y, w, h)
      BY <2>1 DEF Everywhere
    <2>3. x \in Int /\ y \in Int
      BY <1>1, <2>2
    <2> QED BY <2>1, <2>2, <2>3
  <1>3. ASSUME NEW x \in Int, NEW y \in Int, r = Rect(x, y, w, h), fullyContainsRect(allowed, r)
        PROVE  r \in Fitting(allowed, w, h)
    <2>1. x \in x..x + w - 1 /\ y \in y..y + h - 1
      OBVIOUS
    <2>2. <<x, y>> \in allowed
      BY <1>3, <2>1, ContainedIs
    <2>3. r \in Everywhere(allowed, w, h)
      BY <1>3, <2>2, TouchingIsEverywhere
    <2> QED BY <1>3, <2>3 DEF Fitting
  <1> QED BY <1>2, <1>3

\* fit() finds a place that is as good as any.
THEOREM FitIsBest ==
  ASSUME NEW rects, IsLayout(rects), NEW desired, IsPlacement(desired),
         NEW minimum, IsMinimum(minimum), NEW barHeight, NEW gripWidth
  PROVE  fit(desired, rects, minimum, barHeight, gripWidth).rect \in BestFits(desired, rects, minimum)
  <1> DEFINE allowed == buildAllowedRegion(rects)
             wanted == Enlarged(desired, minimum)
             r == fit(desired, rects, minimum, barHeight, gripWidth).rect
             sizes == {s \in (minimum.w .. wanted.w) \X (minimum.h .. wanted.h) :
                          Fitting(allowed, s[1], s[2]) # {}}
             largest == {s \in sizes : \A t \in sizes : t[1] * t[2] <= s[1] * s[2]}
             minimal == Everywhere(allowed, minimum.w, minimum.h)
             room(w, h) == ContainedCandidates(allowed, wanted, w, h) # {}
  <1>1. Region(allowed) /\ Size(wanted, minimum)
    BY LayoutIsRegion, EnlargedIs
  <1>2. CASE allowed = {}
    BY <1>2 DEF fit, BestFits
  <1>3. CASE allowed # {}
    <2>1. BestFits(desired, rects, minimum) =
            IF sizes # {} THEN UNION {NearestOf(Fitting(allowed, s[1], s[2]), wanted) : s \in largest}
            ELSE {q \in minimal : \A s \in minimal : visibleTopEdge(allowed, s) <= visibleTopEdge(allowed, q)}
      BY <1>3 DEF BestFits
    <2>2. \/ \E w \in minimum.w .. wanted.w, h \in minimum.h .. wanted.h :
               /\ room(w, h)
               /\ r = findBestPlacementContained(allowed, wanted, w, h)
               /\ \A u \in minimum.w .. wanted.w, v \in minimum.h .. wanted.h :
                     room(u, v) => u * v <= w * h
         \/ /\ r = findBestPlacementDegraded(allowed, wanted, minimum.w, minimum.h, barHeight, gripWidth)
            /\ \A w \in minimum.w .. wanted.w, h \in minimum.h .. wanted.h : ~room(w, h)
      BY <1>3, FitIs
    <2>3. wanted.x \in Int /\ wanted.y \in Int /\ allowed # {}
      BY <1>1, <1>3 DEF Size
    <2>4. ASSUME NEW w \in minimum.w .. wanted.w, NEW h \in minimum.h .. wanted.h
          PROVE  /\ w \in Nat \ {0} /\ h \in Nat \ {0}
                 /\ room(w, h) <=> Fitting(allowed, w, h) # {}
      <3>1. w \in Nat \ {0} /\ h \in Nat \ {0}
        BY <1>1 DEF Size
      <3>2. room(w, h) <=> \E x, y \in Int : fullyContainsRect(allowed, Rect(x, y, w, h))
        BY <1>1, <2>3, <3>1, RoomIsFound
      <3>3. \A q : q \in Fitting(allowed, w, h) <=>
                      \E x, y \in Int : q = Rect(x, y, w, h) /\ fullyContainsRect(allowed, q)
        BY <1>1, <3>1, FittingIs
      <3>4. Fitting(allowed, w, h) # {} <=> \E x, y \in Int : fullyContainsRect(allowed, Rect(x, y, w, h))
        BY <3>3
      <3> QED BY <3>1, <3>2, <3>4
    <2> HIDE DEF allowed, wanted, r, room
    <2>5. \A s : s \in sizes <=> /\ s \in (minimum.w .. wanted.w) \X (minimum.h .. wanted.h)
                                /\ room(s[1], s[2])
      BY <2>4
    <2> HIDE DEF sizes, minimal
    <2>6. ASSUME NEW w \in minimum.w .. wanted.w, NEW h \in minimum.h .. wanted.h,
                 room(w, h), r = findBestPlacementContained(allowed, wanted, w, h),
                 \A u \in minimum.w .. wanted.w, v \in minimum.h .. wanted.h :
                     room(u, v) => u * v <= w * h
          PROVE  r \in BestFits(desired, rects, minimum)
      <3>1. w \in Nat \ {0} /\ h \in Nat \ {0}
        BY <2>4
      <3>2. /\ r.x \in Int /\ r.y \in Int /\ r = Rect(r.x, r.y, w, h)
            /\ fullyContainsRect(allowed, r)
            /\ \A u, v \in Int : fullyContainsRect(allowed, Rect(u, v, w, h)) =>
                                    Far(wanted, r.x, r.y) <= Far(wanted, u, v)
        BY <1>1, <2>3, <2>6, <3>1, ContainedBest DEF room
      <3>3. r \in Fitting(allowed, w, h)
        BY <1>1, <3>1, <3>2, FittingIs
      <3>4. r \in NearestOf(Fitting(allowed, w, h), wanted)
        <4> SUFFICES ASSUME NEW s \in Fitting(allowed, w, h)
                     PROVE  containedScore(wanted, r)[1] <= containedScore(wanted, s)[1]
          BY <3>3 DEF NearestOf
        <4>1. PICK x \in Int, y \in Int : s = Rect(x, y, w, h) /\ fullyContainsRect(allowed, s)
          BY <1>1, <3>1, FittingIs
        <4>2. s.x = x /\ s.y = y
          BY <4>1 DEF Rect
        <4>3. /\ containedScore(wanted, r)[1] = Far(wanted, r.x, r.y)
              /\ containedScore(wanted, s)[1] = Far(wanted, x, y)
          BY <2>3, <3>2, <4>2, ContainedScoreIs
        <4> QED BY <3>2, <4>1, <4>3
      <3> DEFINE size == <<w, h>>
      <3>5. size[1] = w /\ size[2] = h /\ size \in sizes
        BY <2>5, <2>6
      <3>6. size \in largest
        <4> SUFFICES ASSUME NEW t \in sizes PROVE t[1] * t[2] <= w * h
          BY <3>5
        <4>1. t[1] \in minimum.w .. wanted.w /\ t[2] \in minimum.h .. wanted.h /\ room(t[1], t[2])
          BY <2>5
        <4> QED BY <2>6, <4>1
      <3> HIDE DEF size, largest
      <3>7. r \in UNION {NearestOf(Fitting(allowed, s[1], s[2]), wanted) : s \in largest}
        BY <3>4, <3>5, <3>6
      <3> QED BY <2>1, <3>5, <3>7
    <2>7. ASSUME r = findBestPlacementDegraded(allowed, wanted, minimum.w, minimum.h, barHeight, gripWidth),
                 \A w \in minimum.w .. wanted.w, h \in minimum.h .. wanted.h : ~room(w, h)
          PROVE  r \in BestFits(desired, rects, minimum)
      <3> DEFINE w == minimum.w
                 h == minimum.h
      <3>1. w \in Nat \ {0} /\ h \in Nat \ {0}
        BY DEF IsMinimum
      <3>2. sizes = {}
        BY <2>5, <2>7
      <3>3. /\ r.x \in Int /\ r.y \in Int /\ r = Rect(r.x, r.y, w, h)
            /\ visibleTopEdge(allowed, r) >= 1
            /\ \A u, v \in Int : visibleTopEdge(allowed, Rect(u, v, w, h)) <= visibleTopEdge(allowed, r)
        <4>1. r = findBestPlacementDegraded(allowed, wanted, w, h, barHeight, gripWidth)
          BY <2>7
        <4>2. Region(allowed)
          BY <1>1
        <4> HIDE DEF w, h
        <4>3. ShowsMost(allowed, w, h, r)
          BY <2>3, <3>1, <4>1, <4>2, DegradedBest
        <4> QED BY <4>3 DEF ShowsMost
      <3>4. PICK i : i \in Seen(allowed, r.x, r.y, w)
        <4>1. visibleTopEdge(allowed, Rect(r.x, r.y, w, h)) = Cardinality(Seen(allowed, r.x, r.y, w))
          <5>1. w \in Nat
            BY <3>1
          <5> QED BY <1>1, <3>3, <5>1, TopIs
        <4>2. Cardinality(Seen(allowed, r.x, r.y, w)) # 0
          BY <3>3, <4>1
        <4> QED BY <4>2, FS_EmptySet
      <3>5. r \in minimal
        <4>1. i \in r.x .. r.x + w - 1 /\ <<i, r.y>> \in allowed
          BY <1>1, <3>3, <3>4, RowIs DEF Seen
        <4> QED BY <1>1, <3>1, <3>3, <4>1, TouchingIsEverywhere DEF minimal
      <3>6. ASSUME NEW s \in minimal PROVE visibleTopEdge(allowed, s) <= visibleTopEdge(allowed, r)
        <4>1. \A c \in allowed : c[1] \in Int /\ c[2] \in Int
          BY <1>1 DEF Region
        <4>2. PICK x \in UNION {c[1] - w + 1 .. c[1] : c \in allowed},
                   y \in UNION {c[2] - h + 1 .. c[2] : c \in allowed} : s = Rect(x, y, w, h)
          BY DEF minimal, Everywhere
        <4>3. x \in Int /\ y \in Int
          BY <3>1, <4>1, <4>2
        <4> QED BY <3>3, <4>2, <4>3
      <3> QED BY <2>1, <3>2, <3>5, <3>6
    <2> QED BY <2>2, <2>6, <2>7 DEF r
  <1> QED BY <1>2, <1>3

-----------------------------------------------------------------------------
(* A window that was fitted is left alone *)

IsWindow(r, minimum) ==
    /\ IsPlacement(r) /\ r = Rect(r.x, r.y, r.w, r.h)
    /\ r.w >= minimum.w /\ r.h >= minimum.h

\* Where a window is contained it stays.
LEMMA FitKeepsContained ==
  ASSUME NEW rects, IsLayout(rects), NEW minimum, IsMinimum(minimum), NEW barHeight, NEW gripWidth,
         NEW r, IsWindow(r, minimum), fullyContainsRect(buildAllowedRegion(rects), r)
  PROVE  fit(r, rects, minimum, barHeight, gripWidth).rect = r
  <1> DEFINE allowed == buildAllowedRegion(rects)
  <1>1. Region(allowed) /\ IsPlacement(r) /\ r = Rect(r.x, r.y, r.w, r.h)
    BY LayoutIsRegion DEF IsWindow
  <1>2. /\ r.x \in Int /\ r.y \in Int /\ r.w \in Nat \ {0} /\ r.h \in Nat \ {0}
        /\ minimum.w <= r.w /\ minimum.h <= r.h
    BY DEF IsWindow, IsPlacement, IsMinimum
  <1>3. Enlarged(r, minimum) = r
    BY <1>1, EnlargedIs DEF IsWindow
  <1>4. fullyContainsRect(allowed, r)
    OBVIOUS
  <1>5. ContainedCandidates(allowed, r, r.w, r.h) # {} /\ findBestPlacementContained(allowed, r, r.w, r.h) = r
    <2> HIDE DEF allowed
    <2> QED BY <1>1, <1>2, <1>4, ContainedStays
  <1>6. allowed # {}
    <2>1. r.x \in r.x .. r.x + r.w - 1 /\ r.y \in r.y .. r.y + r.h - 1
      BY <1>2
    <2>2. <<r.x, r.y>> \in allowed
      BY <1>4, <2>1 DEF fullyContainsRect, Pixels
    <2> QED BY <2>2
  <1> QED BY <1>3, <1>5, <1>6 DEF fit

\* Fitting twice is fitting once.
THEOREM FitStays ==
  ASSUME NEW rects, IsLayout(rects), NEW desired, IsPlacement(desired), NEW minimum, IsMinimum(minimum),
         NEW barHeight, NEW gripWidth, NEW r, r = fit(desired, rects, minimum, barHeight, gripWidth).rect
  PROVE  IsWindow(r, minimum) /\ fit(r, rects, minimum, barHeight, gripWidth).rect = r
  <1> DEFINE allowed == buildAllowedRegion(rects)
             wanted == Enlarged(desired, minimum)
  <1>1. Region(allowed) /\ Size(wanted, minimum)
    BY LayoutIsRegion, EnlargedIs
  <1>2. CASE allowed = {}
    <2>1. \A d : fit(d, rects, minimum, barHeight, gripWidth).rect = Rect(0, 0, minimum.w, minimum.h)
      BY <1>2 DEF fit
    <2>2. r = Rect(0, 0, minimum.w, minimum.h)
      BY <2>1
    <2>3. IsWindow(r, minimum)
      BY <2>2 DEF IsWindow, IsPlacement, IsMinimum, Rect
    <2> QED BY <2>1, <2>2, <2>3
  <1>3. CASE allowed # {}
    <2>1. wanted.x \in Int /\ wanted.y \in Int
      BY <1>1 DEF Size
    <2>2. \/ \E w \in minimum.w .. wanted.w, h \in minimum.h .. wanted.h :
               /\ ContainedCandidates(allowed, wanted, w, h) # {}
               /\ r = findBestPlacementContained(allowed, wanted, w, h)
          \/ /\ r = findBestPlacementDegraded(allowed, wanted, minimum.w, minimum.h, barHeight, gripWidth)
             /\ \A w \in minimum.w .. wanted.w, h \in minimum.h .. wanted.h :
                   ContainedCandidates(allowed, wanted, w, h) = {}
      BY <1>3, FitIs
    <2> HIDE DEF wanted
    <2>3. ASSUME NEW w \in minimum.w .. wanted.w, NEW h \in minimum.h .. wanted.h,
                 ContainedCandidates(allowed, wanted, w, h) # {},
                 r = findBestPlacementContained(allowed, wanted, w, h)
          PROVE  IsWindow(r, minimum) /\ fit(r, rects, minimum, barHeight, gripWidth).rect = r
      <3>1. w \in Nat \ {0} /\ h \in Nat \ {0} /\ w >= minimum.w /\ h >= minimum.h
        BY <1>1 DEF Size
      <3>2. r.x \in Int /\ r.y \in Int /\ r = Rect(r.x, r.y, w, h) /\ fullyContainsRect(allowed, r)
        <4> HIDE DEF allowed
        <4> QED BY <1>1, <2>1, <2>3, <3>1, ContainedBest
      <3>3. r.w = w /\ r.h = h
        BY <3>2 DEF Rect
      <3>4. IsWindow(r, minimum)
        BY <3>1, <3>2, <3>3 DEF IsWindow, IsPlacement
      <3> QED BY <3>2, <3>4, FitKeepsContained
    <2>4. ASSUME r = findBestPlacementDegraded(allowed, wanted, minimum.w, minimum.h, barHeight, gripWidth),
                 \A w \in minimum.w .. wanted.w, h \in minimum.h .. wanted.h :
                    ContainedCandidates(allowed, wanted, w, h) = {}
          PROVE  IsWindow(r, minimum) /\ fit(r, rects, minimum, barHeight, gripWidth).rect = r
      <3>1. minimum.w \in Nat \ {0} /\ minimum.h \in Nat \ {0}
        BY DEF IsMinimum
      <3>2. ShowsMost(allowed, minimum.w, minimum.h, r)
        <4> HIDE DEF allowed
        <4> QED BY <1>1, <1>3, <2>1, <2>4, <3>1, DegradedBest
      <3>3. /\ r.x \in Int /\ r.y \in Int /\ r = Rect(r.x, r.y, minimum.w, minimum.h)
            /\ r.w = minimum.w /\ r.h = minimum.h
        BY <3>2 DEF ShowsMost, Rect
      <3>4. IsPlacement(r) /\ IsWindow(r, minimum)
        BY <3>1, <3>3 DEF IsWindow, IsPlacement
      <3>5. ContainedCandidates(allowed, r, minimum.w, minimum.h) = {}
        <4>1. minimum.w \in minimum.w .. wanted.w /\ minimum.h \in minimum.h .. wanted.h
          BY <1>1 DEF Size
        <4>2. ContainedCandidates(allowed, wanted, minimum.w, minimum.h) = {}
          BY <2>4, <4>1
        <4> HIDE DEF allowed
        <4> QED BY <1>1, <2>1, <3>1, <3>3, <4>2, RoomIsFound
      <3>6. Enlarged(r, minimum) = r
        BY <3>3, <3>4, EnlargedIs DEF IsWindow
      <3> DEFINE again == fit(r, rects, minimum, barHeight, gripWidth).rect
      <3>7. \/ \E w \in minimum.w .. r.w, h \in minimum.h .. r.h :
                 ContainedCandidates(allowed, r, w, h) # {}
            \/ again = findBestPlacementDegraded(allowed, r, minimum.w, minimum.h, barHeight, gripWidth)
        BY <1>3, <3>4, <3>6, FitIs
      <3> HIDE DEF again
      <3>8. again = findBestPlacementDegraded(allowed, r, minimum.w, minimum.h, barHeight, gripWidth)
        <4>1. \A w \in minimum.w .. r.w, h \in minimum.h .. r.h : w = minimum.w /\ h = minimum.h
          BY <3>1, <3>3
        <4> HIDE DEF allowed
        <4> QED BY <3>5, <3>7, <4>1
      <3>9. findBestPlacementDegraded(allowed, r, minimum.w, minimum.h, barHeight, gripWidth) = r
        <4> HIDE DEF allowed
        <4> QED BY <1>1, <2>1, <2>4, <3>1, DegradedStays
      <3> QED BY <3>4, <3>8, <3>9 DEF again
    <2> QED BY <2>2, <2>3, <2>4
  <1> QED BY <1>2, <1>3

-----------------------------------------------------------------------------
(* The window across runs *)

PlacementNames == {"x", "y", "w", "h"}

FitOn(r, layout) == fit(r, layout, MinimumSize, kTitleBarHeight, kTitleBarGripWidth).rect

\* The placement that a complete save stored is the window's, and if the window could stay, the
\* fit leaves it alone.
SavedInv ==
    savedWindow # None =>
       /\ IsWindow(savedWindow.rect, MinimumSize)
       /\ PlacementNames \subseteq DOMAIN placement
       /\ \A key \in PlacementNames : placement[key] = savedWindow.rect[key]
       /\ savedWindow.canStay => FitOn(savedWindow.rect, savedWindow.screens) = savedWindow.rect

WindowInv ==
    /\ screens \in Layouts
    /\ IsWindow(window, MinimumSize)
    /\ \A key \in DOMAIN placement : placement[key] \in Int
    /\ settled => FitOn(window, screens) = window
    /\ SavedInv

\* The screens are finitely many rectangles.
LEMMA ScreensAreLayouts == \A layout \in Layouts : IsLayout(layout)
  <1> SUFFICES ASSUME NEW layout \in Layouts PROVE IsLayout(layout)
    OBVIOUS
  <1>1. IsFiniteSet(layout) /\ \A r \in layout : r \in [x : Int, y : Int, w : Nat, h : Nat]
    BY PlacementAssumption
  <1> QED BY <1>1 DEF IsLayout

\* The minimum size is at least one pixel.
LEMMA MinimumIs == IsMinimum(MinimumSize)
  BY PlacementAssumption DEF IsMinimum

\* A rectangle no smaller than the minimum is a window.
LEMMA WindowsAre ==
  ASSUME NEW r \in [x : Int, y : Int, w : Int, h : Int], r.w >= MinimumSize.w, r.h >= MinimumSize.h
  PROVE  IsWindow(r, MinimumSize)
  BY DEF IsWindow, IsPlacement, Rect

\* A window is created no smaller than its minimum.
LEMMA CreatedIs == IsWindow(CreatedWindow, MinimumSize)
  BY PlacementAssumption, WindowsAre

\* A window has its four numbers under the names of the keys.
LEMMA WindowFields ==
  ASSUME NEW r, IsWindow(r, MinimumSize)
  PROVE  /\ r["x"] = r.x /\ r["y"] = r.y /\ r["w"] = r.w /\ r["h"] = r.h
         /\ \A key \in PlacementNames : r[key] \in Int
  BY DEF IsWindow, IsPlacement, PlacementNames

\* Before the first run nothing was saved.
LEMMA InitWindow == SessionInit => WindowInv
  BY SessionAssumption, CreatedIs DEF SessionInit, WindowInv, SavedInv

\* Whatever of the placement is stored, what the window is asked to be is a placement.
LEMMA DesiredIs ==
  ASSUME WindowInv, NEW desired \in Desired
  PROVE  IsPlacement(desired)
  <1> DEFINE e == Enlarged(Resized, MinimumSize)
  <1>1. IsPlacement(window) /\ \A key \in DOMAIN placement : placement[key] \in Int
    BY DEF WindowInv, IsWindow
  <1>2. IsPlacement(Resized)
    BY <1>1 DEF Resized, Stored, IsPlacement, Rect
  <1>3. IsPlacement(e) /\ e = Rect(e.x, e.y, e.w, e.h)
    <2>1. e.x = Resized.x /\ e.y = Resized.y /\ Size(e, MinimumSize)
      BY <1>2, MinimumIs, EnlargedIs
    <2> QED BY <2>1 DEF Size, IsPlacement, Enlarged, Rect
  <1>4. desired \in Positioned(e)
    BY DEF Desired
  <1> HIDE DEF e
  <1>5. CASE Stored({"x", "y"})
    BY <1>1, <1>3, <1>4, <1>5 DEF Positioned, Stored, IsPlacement, Rect
  <1>6. CASE ~Stored({"x", "y"}) /\ screens = {}
    BY <1>3, <1>4, <1>6 DEF Positioned
  <1>7. CASE ~Stored({"x", "y"}) /\ screens # {}
    <2>1. PICK avail \in screens : desired = centredPosition(avail, e)
      BY <1>4, <1>7 DEF Positioned
    <2>2. avail.x \in Int /\ avail.y \in Int /\ avail.w \in Nat /\ avail.h \in Nat
      BY ScreensAreLayouts DEF WindowInv, IsLayout
    <2>3. \A n \in Int : HalfOf(n) \in Int
      BY DEF HalfOf
    <2>4. avail.x + HalfOf(avail.w - e.w) \in Int /\ avail.y + HalfOf(avail.h - e.h) \in Int
      <3>1. avail.w - e.w \in Int /\ avail.h - e.h \in Int
        BY <1>3, <2>2 DEF IsPlacement
      <3> QED BY <2>2, <2>3, <3>1
    <2>5. desired = [e EXCEPT !.x = avail.x + HalfOf(avail.w - e.w), !.y = avail.y + HalfOf(avail.h - e.h)]
      BY <2>1 DEF centredPosition
    <2>6. /\ desired.x = avail.x + HalfOf(avail.w - e.w) /\ desired.y = avail.y + HalfOf(avail.h - e.h)
          /\ desired.w = e.w /\ desired.h = e.h
      BY <1>3, <2>5 DEF Rect
    <2> QED BY <1>3, <2>4, <2>6 DEF IsPlacement
  <1> QED BY <1>5, <1>6, <1>7

\* After a complete save the window is asked to be where it was.
LEMMA DesiredIsSaved ==
  ASSUME WindowInv, savedWindow # None
  PROVE  Desired = {savedWindow.rect}
  <1> DEFINE r == savedWindow.rect
  <1>1. /\ IsWindow(r, MinimumSize) /\ PlacementNames \subseteq DOMAIN placement
        /\ placement["x"] = r.x /\ placement["y"] = r.y /\ placement["w"] = r.w /\ placement["h"] = r.h
    <2>1. /\ IsWindow(r, MinimumSize) /\ PlacementNames \subseteq DOMAIN placement
          /\ \A key \in PlacementNames : placement[key] = r[key]
      BY DEF WindowInv, SavedInv
    <2> HIDE DEF r
    <2> QED BY <2>1, WindowFields DEF PlacementNames
  <1> HIDE DEF r
  <1>2. /\ r.x \in Int /\ r.y \in Int /\ r.w \in Nat \ {0} /\ r.h \in Nat \ {0} /\ r = Rect(r.x, r.y, r.w, r.h)
        /\ r.w >= MinimumSize.w /\ r.h >= MinimumSize.h
    BY <1>1, MinimumIs DEF IsWindow, IsPlacement, IsMinimum
  <1>3. Stored({"w", "h"}) /\ Stored({"x", "y"})
    BY <1>1 DEF Stored, PlacementNames
  <1> DEFINE a == Rect(window.x, window.y, r.w, r.h)
  <1>4. Resized = a
    BY <1>1, <1>2, <1>3 DEF Resized
  <1>5. Enlarged(a, MinimumSize) = a
    <2>1. a.x = window.x /\ a.y = window.y /\ a.w = r.w /\ a.h = r.h
      BY DEF Rect
    <2>2. window.x \in Int /\ window.y \in Int
      BY DEF WindowInv, IsWindow, IsPlacement
    <2>3. IsPlacement(a) /\ a = Rect(a.x, a.y, a.w, a.h)
      BY <1>2, <2>1, <2>2 DEF IsPlacement
    <2> HIDE DEF a
    <2> QED BY <1>2, <2>1, <2>3, MinimumIs, EnlargedIs
  <1>6. Desired = Positioned(a)
    BY <1>4, <1>5 DEF Desired
  <1>7. Positioned(a) = {Rect(r.x, r.y, r.w, r.h)}
    BY <1>1, <1>3 DEF Positioned, Rect
  <1> QED BY <1>2, <1>6, <1>7 DEF r

\* Steps that leave placement and the last save as they are.
LEMMA SavedKept ==
  ASSUME WindowInv, UNCHANGED <<placement, savedWindow>>
  PROVE  /\ \A key \in DOMAIN placement' : placement'[key] \in Int
         /\ SavedInv'
  BY DEF WindowInv, SavedInv

\* What is stored of a window are its numbers.
LEMMA WrittenIs ==
  ASSUME WindowInv, NEW count \in 1..4, saveMainWindowPlacement(count)
  PROVE  /\ \A key \in DOMAIN placement' : placement'[key] \in Int
         /\ count = 4 => /\ PlacementNames \subseteq DOMAIN placement'
                         /\ \A key \in PlacementNames : placement'[key] = window[key]
  <1>1. placement' = Written(FirstKeys(count))
    BY DEF saveMainWindowPlacement
  <1>2. FirstKeys(count) \subseteq PlacementNames /\ (count = 4 => FirstKeys(count) = PlacementNames)
    BY DEF FirstKeys, PlacementKeys, PlacementNames
  <1>3. \A key \in PlacementNames : window[key] \in Int
    BY WindowFields DEF WindowInv
  <1> QED BY <1>1, <1>2, <1>3 DEF Written, WindowInv

\* Every step keeps the invariant.
LEMMA NextWindow == WindowInv /\ [SessionNext]_vars => WindowInv'
  <1> SUFFICES ASSUME WindowInv, [SessionNext]_vars PROVE WindowInv'
    OBVIOUS
  <1>1. CASE Launch
    <2>1. /\ window' = CreatedWindow /\ settled' = FALSE /\ UNCHANGED <<screens, placement, savedWindow>>
      BY <1>1 DEF Launch, history
    <2> QED BY <2>1, SavedKept, CreatedIs DEF WindowInv
  <1>2. CASE objectCreated
    <2>1. PICK desired \in Desired : window' = FitOn(desired, screens)
      BY <1>2 DEF objectCreated, restoreAndRepairMainWindowPlacement, FitOn
    <2>2. UNCHANGED <<screens, placement, savedWindow>>
      BY <1>2 DEF objectCreated, restoreAndRepairMainWindowPlacement, history
    <2>3. IsPlacement(desired) /\ IsLayout(screens) /\ IsMinimum(MinimumSize)
      BY DesiredIs, ScreensAreLayouts, MinimumIs DEF WindowInv
    <2>4. IsWindow(window', MinimumSize) /\ FitOn(window', screens) = window'
      BY <2>1, <2>3, FitStays DEF FitOn
    <2> QED BY <2>2, <2>4, SavedKept DEF WindowInv, FitOn
  <1>3. CASE MoveWindow
    <2>1. /\ window' \in UserWindows /\ settled' = FALSE /\ UNCHANGED <<screens, placement, savedWindow>>
      BY <1>3 DEF MoveWindow, history
    <2>2. IsWindow(window', MinimumSize)
      BY <2>1, SessionAssumption, WindowsAre
    <2> QED BY <2>1, <2>2, SavedKept DEF WindowInv
  <1>4. CASE ChangeScreens
    <2>1. /\ screens' \in Layouts /\ settled' = FALSE /\ UNCHANGED <<window, placement, savedWindow>>
      BY <1>4 DEF ChangeScreens, history
    <2> QED BY <2>1, SavedKept DEF WindowInv
  <1>5. CASE EditPreference \/ closePreferences \/ shutdown \/ UNCHANGED vars
    <2>1. UNCHANGED <<window, screens, placement, savedWindow, settled>>
      BY <1>5 DEF EditPreference, closePreferences, shutdown, vars, placementVars, history, session
    <2> QED BY <2>1, SavedKept DEF WindowInv, FitOn
  <1>6. CASE SavePlacement \/ Die \/ DieInSave \/ DieInPlacement
    <2>1. /\ window' = CreatedWindow /\ settled' = FALSE /\ UNCHANGED screens
      BY <1>6 DEF SavePlacement, Die, DieInSave, DieInPlacement, ProcessEnds
    <2>2. /\ \A key \in DOMAIN placement' : placement'[key] \in Int
          /\ SavedInv'
      <3>1. CASE SavePlacement /\ mainWindow
        <4>1. /\ saveMainWindowPlacement(4)
              /\ savedWindow' = [rect |-> window, screens |-> screens, canStay |-> CanStay]
          BY <3>1 DEF SavePlacement
        <4>2. /\ \A key \in DOMAIN placement' : placement'[key] \in Int
              /\ PlacementNames \subseteq DOMAIN placement'
              /\ \A key \in PlacementNames : placement'[key] = window[key]
          <5>1. 4 \in 1..4
            OBVIOUS
          <5> QED BY <4>1, <5>1, WrittenIs
        <4>3. CanStay => FitOn(window, screens) = window
          <5>1. CASE settled
            BY <5>1 DEF WindowInv
          <5>2. CASE fullyContainsRect(buildAllowedRegion(screens), window)
            BY <5>2, FitKeepsContained, ScreensAreLayouts, MinimumIs DEF WindowInv, FitOn
          <5> QED BY <5>1, <5>2 DEF CanStay
        <4>4. savedWindow'.rect = window /\ savedWindow'.screens = screens /\ savedWindow'.canStay = CanStay
          BY <4>1
        <4>5. FitOn(savedWindow.rect, savedWindow.screens)' = FitOn(window, screens)
          BY <4>4 DEF FitOn
        <4> QED BY <4>2, <4>3, <4>4, <4>5 DEF WindowInv, SavedInv
      <3>2. CASE (SavePlacement /\ ~mainWindow) \/ Die \/ DieInSave
        <4>1. UNCHANGED <<placement, savedWindow>>
          BY <3>2 DEF SavePlacement, Die, DieInSave
        <4> QED BY <4>1, SavedKept
      <3>3. CASE DieInPlacement
        <4>1. savedWindow' = None
          BY <3>3 DEF DieInPlacement
        <4>2. PICK count \in 1..3 : saveMainWindowPlacement(count)
          BY <3>3 DEF DieInPlacement
        <4>3. count \in 1..4
          OBVIOUS
        <4> QED BY <4>1, <4>2, <4>3, WrittenIs DEF SavedInv
      <3> QED BY <1>6, <3>1, <3>2, <3>3
    <2> QED BY <2>1, <2>2, CreatedIs DEF WindowInv
  <1> QED BY <1>1, <1>2, <1>3, <1>4, <1>5, <1>6 DEF SessionNext

\* Only the handler of objectCreated places the window.
LEMMA RestoresIs ==
  ASSUME [SessionNext]_vars, Restores
  PROVE  objectCreated
  <1>1. phase = "loading" /\ phase' = "running"
    BY DEF Restores
  <1> QED BY <1>1 DEF SessionNext, Launch, MoveWindow, ChangeScreens, EditPreference, closePreferences,
                      shutdown, SavePlacement, Die, DieInSave, DieInPlacement, ProcessEnds, session, vars

\* Whatever is stored and whatever screens there are, the window goes to the best place.
THEOREM WindowGoesToBestPlace == SessionSpec => RestoredToBestPlace
  <1>1. WindowInv /\ [SessionNext]_vars =>
          [Restores => \E desired \in Desired : window' \in BestFits(desired, screens, MinimumSize)]_vars
    <2> SUFFICES ASSUME WindowInv, [SessionNext]_vars, Restores
                 PROVE  \E desired \in Desired : window' \in BestFits(desired, screens, MinimumSize)
      OBVIOUS
    <2>1. objectCreated
      BY RestoresIs
    <2>2. PICK desired \in Desired : window' = FitOn(desired, screens)
      BY <2>1 DEF objectCreated, restoreAndRepairMainWindowPlacement, FitOn
    <2>3. IsPlacement(desired) /\ IsLayout(screens) /\ IsMinimum(MinimumSize)
      BY DesiredIs, ScreensAreLayouts, MinimumIs DEF WindowInv
    <2> QED BY <2>2, <2>3, FitIsBest DEF FitOn
  <1> QED BY <1>1, InitWindow, NextWindow, PTL DEF SessionSpec, RestoredToBestPlace

\* A window that could stay is found where it was by the next run.
THEOREM WindowIsFoundWhereItWas == SessionSpec => RestartKeepsWindow
  <1>1. WindowInv /\ [SessionNext]_vars =>
          [Restores /\ savedWindow # None /\ savedWindow.canStay /\ savedWindow.screens = screens
             => window' = savedWindow.rect]_vars
    <2> SUFFICES ASSUME WindowInv, [SessionNext]_vars, Restores, savedWindow # None,
                        savedWindow.canStay, savedWindow.screens = screens
                 PROVE  window' = savedWindow.rect
      OBVIOUS
    <2>1. objectCreated
      BY RestoresIs
    <2>2. PICK desired \in Desired : window' = FitOn(desired, screens)
      BY <2>1 DEF objectCreated, restoreAndRepairMainWindowPlacement, FitOn
    <2>3. desired = savedWindow.rect
      BY <2>2, DesiredIsSaved
    <2> QED BY <2>2, <2>3 DEF WindowInv, SavedInv
  <1> QED BY <1>1, InitWindow, NextWindow, PTL DEF SessionSpec, RestartKeepsWindow
=============================================================================
