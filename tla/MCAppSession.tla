---------------------------- MODULE MCAppSession ----------------------------
EXTENDS AppSession

MCMinimum == [w |-> 3, h |-> 2]
MCCreated == Rect(0, 0, 3, 2)

\* No screen; one; two of different heights; two apart; a low one and a narrow one.
MCLayouts == {{}, {Rect(0, 0, 4, 3)}, {Rect(0, 0, 3, 3), Rect(3, 1, 3, 2)},
              {Rect(0, 0, 3, 2), Rect(4, 0, 3, 3)}, {Rect(1, 1, 4, 1), Rect(0, 3, 2, 2)}}

MCUserWindows == {Rect(1, 1, 3, 2), Rect(-1, 2, 4, 3)}

MCPlacements ==
    {Restrict(f, keys) : f \in [x : {-2, 4}, y : {2}, w : {-1, 1, 5}, h : {1, 4}],
                    keys \in {{"x", "y", "w", "h"}, {"x", "w", "h"}, {"x", "y"}, {}}}

MCSettings == {<<>>,
               [fontScalePercent |-> Garbled, density |-> Garbled, softwareRenderingEnabled |-> TRUE],
               [softwareRenderingEnabled |-> Garbled, customAccentHueDegrees |-> 720]}

MCEdits == {<<"customAccentHueDegrees", -30>>, <<"softwareRenderingEnabled", TRUE>>}
=============================================================================
