--------------------------- MODULE AppPreferences ---------------------------
(***************************************************************************)
(* The preferences of the application, kept in QSettings.                   *)
(*                                                                          *)
(* A preference is named as in AppPreferences; its settings key is left     *)
(* out.  Lightness and chroma are in hundredths, the hue in whole degrees.  *)
(* A setting is stored, missing, or a text that is no value of its type.    *)
(***************************************************************************)
EXTENDS Integers, TLC

CONSTANTS
    Garbled,        \* a stored text that is neither a number nor one of the names
    Edits           \* <<preference, argument>>: the calls of setters the UI makes

VARIABLES
    preferences,    \* the members of AppPreferences
    settings        \* what QSettings holds for them

prefVars == <<preferences, settings>>

Percent == {"fontScalePercent", "zoomPercent"}
Unit == {"customAccentLightness", "customAccentChroma"}
Text == {"displayName", "themeMode", "accent", "fontFamily"}
Names == Percent \cup Unit \cup Text
             \cup {"fontPreset", "density", "customAccentHueDegrees", "softwareRenderingEnabled"}

Defaults == [displayName |-> "", themeMode |-> "victorian", accent |-> "victorian",
             fontPreset |-> "victorian", fontFamily |-> "", fontScalePercent |-> 100,
             density |-> "comfortable", zoomPercent |-> 100,
             customAccentLightness |-> 75, customAccentChroma |-> 16, customAccentHueDegrees |-> 260,
             softwareRenderingEnabled |-> FALSE]

Numbers == Percent \cup Unit \cup {"customAccentHueDegrees"}

\* The parameter types of the setters.
Typed(name, v) == /\ name \in Numbers => v \in Int
                  /\ name = "softwareRenderingEnabled" => v \in BOOLEAN

ASSUME PreferencesAssumption ==
    /\ Garbled \notin Int /\ Garbled \notin BOOLEAN
    /\ \A e \in Edits : e[1] \in Names /\ Typed(e[1], e[2])

Between(low, n, high) == IF n < low THEN low ELSE IF n > high THEN high ELSE n

OneOf(names, default, v) == IF v \in names THEN v ELSE default

\* What a setter makes of its argument; the wrapping of the hue goes by steps of a turn.
setter(name, v) ==
    CASE name = "fontPreset" -> OneOf({"system", "victorian", "custom"}, "victorian", v)
      [] name = "density" -> OneOf({"compact", "comfortable", "spacious"}, "comfortable", v)
      [] name = "fontScalePercent" -> Between(75, v, 150)
      [] name = "zoomPercent" -> Between(50, v, 200)
      [] name \in Unit -> Between(0, v, 100)
      [] name = "customAccentHueDegrees" -> v % 360
      [] OTHER -> v

\* toInt(), toDouble() and toBool() of a text that is none; toString() leaves it.
Converted(name, v) ==
    IF v # Garbled THEN v
    ELSE IF name \in Numbers THEN 0
    ELSE IF name = "softwareRenderingEnabled" THEN TRUE
    ELSE v

\* reload(): a missing setting leaves the member as it is, but for three of them.
LoadedFrom(file, old) ==
    [n \in Names |->
        IF n \in DOMAIN file THEN setter(n, Converted(n, file[n]))
        ELSE IF n \in {"displayName", "fontFamily", "density"} THEN Defaults[n]
        ELSE setter(n, old[n])]

\* The constructor: the defaults, then reload().
construct == preferences' = LoadedFrom(settings, Defaults) /\ UNCHANGED settings

edit == /\ \E e \in Edits : preferences' = [preferences EXCEPT ![e[1]] = setter(e[1], e[2])]
        /\ UNCHANGED settings

\* Fault: one key is forgotten.
save_Forgets == /\ settings' = [n \in Names \ {"customAccentHueDegrees"} |-> preferences[n]] @@ settings
                /\ UNCHANGED preferences

save == /\ settings' = preferences
        /\ UNCHANGED preferences

\* save() sets them one after another.
SaveOrder == <<"displayName", "themeMode", "accent", "fontPreset", "fontFamily", "fontScalePercent",
               "density", "zoomPercent", "customAccentLightness", "customAccentChroma",
               "customAccentHueDegrees", "softwareRenderingEnabled">>

FirstSaved(count) == {SaveOrder[i] : i \in 1..count}

\* A file after the first settings of a save.
SavedOver(file, count) ==
    [n \in FirstSaved(count) \cup DOMAIN file |->
        IF n \in FirstSaved(count) THEN preferences[n] ELSE file[n]]
=============================================================================
