----------------------------- MODULE FontSanity -----------------------------
(***************************************************************************)
(* Whether the preview of a font looks sane: what Qt draws for a sample    *)
(* text is compared with what the glyphs of the font alone would look like. *)
(* A picture is the set of its inked pixels after scaling; a font is known  *)
(* by the pictures Qt makes of it:                                          *)
(*   named, resolved  its family has a name, and Qt finds it                *)
(*   merged, noMerge  the text drawn with and without glyphs of other fonts *)
(*   valid, glyphs    the raw font, and its glyphs of the text with their   *)
(*                    ink where the pen puts it, each an "outline", a       *)
(*                    "bitmap" or "blank"                                   *)
(***************************************************************************)
EXTENDS Integers, SequencesExt

CONSTANT NoPicture  \* a null QImage

-----------------------------------------------------------------------------
(* computeMaskStats() *)

Stats(raster, ref) ==
    [rasterInk |-> Cardinality(raster), refInk |-> Cardinality(ref),
     outsideInk |-> Cardinality(raster \ ref), missingInk |-> Cardinality(ref \ raster)]

computeMaskStats(raster, ref) ==
    IF NoPicture \in {raster, ref} THEN Stats({}, {}) ELSE Stats(raster, ref)

\* computeMaskIoU() < 0.25, which is 0 for two empty pictures.
HardlyOverlap(a, b) ==
    LET st == computeMaskStats(a, b)
        uni == st.rasterInk + st.missingInk
    IN uni = 0 \/ 4 * (st.rasterInk - st.outsideInk) < uni

\* renderReferenceMask(): the outlines and the alpha masks of the glyphs that have one.
renderReferenceMask(font) ==
    LET drawn == {i \in DOMAIN font.glyphs : font.glyphs[i].kind # "blank"}
    IN IF font.valid /\ drawn # {} THEN UNION {font.glyphs[i].ink : i \in drawn} ELSE NoPicture

-----------------------------------------------------------------------------
(* checkPreviewLooksSane() *)

\* The family Qt would draw with is another one, or there is none to draw.
NothingToDraw(font) == ~font.named \/ ~font.resolved

\* Most of what is drawn comes from other fonts.
GlyphsOfOthers(font) ==
    LET st == computeMaskStats(font.merged, font.noMerge)
    IN st.rasterInk > 0 /\ st.refInk > 0 /\ HardlyOverlap(font.merged, font.noMerge)

\* More than 0.55 of the ink is outside the glyphs, or more than 0.90 of the glyphs is missing.
LooksLikeGlyphs(raster, ref) ==
    LET st == computeMaskStats(raster, ref)
    IN /\ st.rasterInk > 0 /\ st.refInk > 0
       /\ 100 * st.outsideInk <= 55 * st.rasterInk
       /\ 100 * st.missingInk <= 90 * st.refInk

\* Fault: a font whose glyphs cannot be read is taken as it is.
LooksSane_Unread(font) ==
    \/ renderReferenceMask(font) = NoPicture
    \/ LooksLikeGlyphs(font.merged, renderReferenceMask(font))

\* Without glyphs to compare with, any ink will do.
LooksSane(font) ==
    IF renderReferenceMask(font) = NoPicture
    THEN computeMaskStats(font.merged, font.merged).rasterInk > 0
    ELSE LooksLikeGlyphs(font.merged, renderReferenceMask(font))

checkPreviewLooksSane(font) ==
    \/ NothingToDraw(font)
    \/ NoPicture \notin {font.merged, font.noMerge} /\ (GlyphsOfOthers(font) \/ LooksSane(font))
=============================================================================
