----------------------------- MODULE MCSessions -----------------------------
EXTENDS Sessions

\* Three forwards go round the keys; their status lines are left to the others.
Scene(f, s, c, x, u) ==
  [forwards |-> f, shells |-> s, conns |-> c, crashes |-> x, updates |-> u,
   lines |-> f < 3]
AllScenes == {Scene(3, 0, 1, 0, FALSE), Scene(2, 0, 2, 0, FALSE), Scene(2, 0, 1, 1, TRUE),
              Scene(0, 1, 1, 1, FALSE)}
=============================================================================
