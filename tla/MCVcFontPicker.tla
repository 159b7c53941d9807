--------------------------- MODULE MCVcFontPicker ---------------------------
(* Fonts on both sides of every decision of checkPreviewLooksSane().  Ink is counted in pixels
   of 1..12: the limits are at 0.25, 0.55 and 0.90 of it. *)
EXTENDS VcFontPicker

Glyph(kind, ink) == [kind |-> kind, ink |-> ink]

Font(merged, noMerge, glyphs) ==
    [named |-> TRUE, resolved |-> TRUE, valid |-> TRUE,
     merged |-> merged, noMerge |-> noMerge, glyphs |-> glyphs]

Plain == Font(1..4, 1..4, <<Glyph("outline", 1..2), Glyph("bitmap", {3})>>)

\* Two systems with a font for each of three keys.
MCFonts ==
    {<<Plain,
       [Font({}, {}, <<>>) EXCEPT !.resolved = FALSE],                  \* another family
       [Plain EXCEPT !.noMerge = {4, 9}]>>,                             \* 0.20: fallback
     <<Font({}, {}, <<Glyph("blank", {})>>),                            \* nothing at all
       Font(1..4, 1..4, <<Glyph("outline", {4, 5})>>),                  \* 0.75 outside
       Plain>>}

\* Which key has which place among the three.
Place == CHOOSE place \in [Keys -> 1..3] : \A j, k \in Keys : j # k => place[j] # place[k]

MCFontTables == {[k \in Keys |-> fonts[Place[k]]] : fonts \in MCFonts}
=============================================================================
