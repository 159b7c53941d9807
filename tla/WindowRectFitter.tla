-------------------------- MODULE WindowRectFitter --------------------------
(***************************************************************************)
(* windowrectfitter::fit(): where a window goes on the screens there are.   *)
(*                                                                          *)
(* A rectangle is [x, y, w, h]; a region is the set of its pixels.  QRegion *)
(* (external) keeps a region as horizontal bands of rectangles, from whose  *)
(* edges the candidate positions are taken: its left and right edges are    *)
(* those of the runs of pixels of the rows, its top and bottom edges the    *)
(* places where a row has other runs than the next one.  Which candidate    *)
(* wins does not depend on their order, so they are a set.                  *)
(***************************************************************************)
EXTENDS Integers, SequencesExt

Rect(x, y, w, h) == [x |-> x, y |-> y, w |-> w, h |-> h]

Pixels(r) == (r.x .. r.x + r.w - 1) \X (r.y .. r.y + r.h - 1)

buildAllowedRegion(rects) == UNION {Pixels(r) : r \in rects}

fullyContainsRect(allowed, r) == Pixels(r) \subseteq allowed

-----------------------------------------------------------------------------
(* The edges of a region *)

Row(allowed, y) == {c[1] : c \in {d \in allowed : d[2] = y}}

Lefts(allowed) == {c[1] : c \in {d \in allowed : <<d[1] - 1, d[2]>> \notin allowed}}
Rights(allowed) == {c[1] : c \in {d \in allowed : <<d[1] + 1, d[2]>> \notin allowed}}
Tops(allowed) == {c[2] : c \in {d \in allowed : Row(allowed, d[2] - 1) # Row(allowed, d[2])}}
Bottoms(allowed) == {c[2] : c \in {d \in allowed : Row(allowed, d[2] + 1) # Row(allowed, d[2])}}

candidateXPositions(desired, allowed, w) ==
    {desired.x} \cup Lefts(allowed) \cup {right - w + 1 : right \in Rights(allowed)}

candidateYPositions(desired, allowed, h) ==
    {desired.y} \cup Tops(allowed) \cup {bottom - h + 1 : bottom \in Bottoms(allowed)}

Candidates(allowed, desired, w, h) ==
    {Rect(x, y, w, h) : x \in candidateXPositions(desired, allowed, w),
                        y \in candidateYPositions(desired, allowed, h)}

-----------------------------------------------------------------------------
(* Which candidate is better *)

AbsOf(n) == IF n < 0 THEN -n ELSE n

\* The order in which the code compares: the first score that differs decides, and less is better.
Before(a, b) == \E i \in DOMAIN a : a[i] < b[i] /\ \A j \in 1..i - 1 : a[j] = b[j]

BestBy(score) == CHOOSE r \in DOMAIN score : \A s \in DOMAIN score \ {r} : Before(score[r], score[s])

\* isBetterContained()
containedScore(desired, r) ==
    LET dx == r.x - desired.x
        dy == r.y - desired.y
    IN <<dx * dx + dy * dy, AbsOf(dx), AbsOf(dy), r.x, r.y>>

visibleTopEdge(allowed, r) == Cardinality({c \in allowed : c[2] = r.y /\ c[1] \in r.x .. r.x + r.w - 1})

offScreenArea(allowed, r) == Cardinality(Pixels(r) \ allowed)

gripVisible(allowed, r, barHeight, gripWidth) ==
    \/ fullyContainsRect(allowed, Rect(r.x, r.y, gripWidth, barHeight))
    \/ fullyContainsRect(allowed, Rect(r.x + r.w - gripWidth, r.y, gripWidth, barHeight))

\* Fault: what is off the screen counts before the title bar does.
degradedScore_AreaFirst(allowed, desired, r, barHeight, gripWidth) ==
    <<offScreenArea(allowed, r), -visibleTopEdge(allowed, r)>> \o containedScore(desired, r)

\* scoreCandidate() and isBetterDegraded()
degradedScore(allowed, desired, r, barHeight, gripWidth) ==
    <<-visibleTopEdge(allowed, r),
      IF gripVisible(allowed, r, barHeight, gripWidth) THEN 0 ELSE 1,
      offScreenArea(allowed, r)>> \o containedScore(desired, r)

-----------------------------------------------------------------------------
(* The fit *)

ContainedCandidates(allowed, desired, w, h) ==
    {r \in Candidates(allowed, desired, w, h) : fullyContainsRect(allowed, r)}

findBestPlacementContained(allowed, desired, w, h) ==
    BestBy([r \in ContainedCandidates(allowed, desired, w, h) |-> containedScore(desired, r)])

findBestPlacementDegraded(allowed, desired, w, h, barHeight, gripWidth) ==
    BestBy([r \in Candidates(allowed, desired, w, h) |->
               degradedScore(allowed, desired, r, barHeight, gripWidth)])

\* The binary search for a width, at a given height; minW - 1 if none fits.
widestContained(allowed, desired, h, minW, maxW) ==
    LET search[range \in (minW .. maxW + 1) \X (minW - 1 .. maxW) \X (minW - 1 .. maxW)] ==
            LET low == range[1]
                high == range[2]
                best == range[3]
                mid == low + (high - low) \div 2
            IN IF low > high THEN best
               ELSE IF ContainedCandidates(allowed, desired, mid, h) # {}
               THEN search[<<mid + 1, high, mid>>]
               ELSE search[<<low, mid - 1, best>>]
    IN search[<<minW, maxW, minW - 1>>]

\* The largest of the sizes found, the wider one of two that are as large; empty if none is found.
largestContained(allowed, desired, minW, minH) ==
    LET sizes == {s \in {<<widestContained(allowed, desired, h, minW, desired.w), h>> :
                             h \in minH .. desired.h} : s[1] >= minW}
    IN {s \in sizes : \A t \in sizes \ {s} : Before(<<-s[1] * s[2], -s[1]>>, <<-t[1] * t[2], -t[1]>>)}

Enlarged(desired, minimum) ==
    Rect(desired.x, desired.y, Max({desired.w, minimum.w}), Max({desired.h, minimum.h}))

fit(desired, allowedRects, minimum, barHeight, gripWidth) ==
    LET allowed == buildAllowedRegion(allowedRects)
        wanted == Enlarged(desired, minimum)
        sizes == largestContained(allowed, wanted, minimum.w, minimum.h)
        size == CHOOSE s \in sizes : TRUE
    IN IF allowed = {} THEN [rect |-> Rect(0, 0, minimum.w, minimum.h), outcome |-> "Fallback"]
       ELSE IF ContainedCandidates(allowed, wanted, wanted.w, wanted.h) # {}
       THEN LET r == findBestPlacementContained(allowed, wanted, wanted.w, wanted.h)
            IN [rect |-> r, outcome |-> IF r = wanted THEN "Unchanged" ELSE "Moved"]
       ELSE IF sizes # {}
       THEN [rect |-> findBestPlacementContained(allowed, wanted, size[1], size[2]), outcome |-> "Resized"]
       ELSE [rect |-> findBestPlacementDegraded(allowed, wanted, minimum.w, minimum.h, barHeight, gripWidth),
             outcome |-> "Degraded"]

-----------------------------------------------------------------------------
(* What the fit promises, said without candidates *)

\* Every place of the plane that touches the region, and the wanted one.
Everywhere(allowed, w, h) ==
    {Rect(x, y, w, h) : x \in UNION {c[1] - w + 1 .. c[1] : c \in allowed},
                        y \in UNION {c[2] - h + 1 .. c[2] : c \in allowed}}

Fitting(allowed, w, h) == {r \in Everywhere(allowed, w, h) : fullyContainsRect(allowed, r)}

NearestOf(rects, desired) ==
    {r \in rects : \A s \in rects : containedScore(desired, r)[1] <= containedScore(desired, s)[1]}

\* The rectangles that are as good as can be: the wanted size as near as possible; or the largest
\* size that fits, as near as possible; or the minimum size with as much of its top edge visible
\* as possible.
BestFits(desired, allowedRects, minimum) ==
    LET allowed == buildAllowedRegion(allowedRects)
        wanted == Enlarged(desired, minimum)
        sizes == {s \in (minimum.w .. wanted.w) \X (minimum.h .. wanted.h) : Fitting(allowed, s[1], s[2]) # {}}
        largest == {s \in sizes : \A t \in sizes : t[1] * t[2] <= s[1] * s[2]}
        minimal == Everywhere(allowed, minimum.w, minimum.h)
    IN IF allowed = {} THEN {Rect(0, 0, minimum.w, minimum.h)}
       ELSE IF sizes # {} THEN UNION {NearestOf(Fitting(allowed, s[1], s[2]), wanted) : s \in largest}
       ELSE {r \in minimal : \A s \in minimal : visibleTopEdge(allowed, s) <= visibleTopEdge(allowed, r)}
=============================================================================
