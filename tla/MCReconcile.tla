---------------------------- MODULE MCReconcile -----------------------------
EXTENDS Reconcile

S(k, s, t, u) == [kind |-> k, strategy |-> s, target |-> t, upsets |-> u]

AllScenes == {S("Deployment", "Rolling", 2, 1), S("Deployment", "Rolling", 1, 1),
              S("Deployment", "Replace", 1, 2), S("Job", "Replace", 1, 2)}
Rollout == {S("Deployment", "Rolling", 1, 0)}
=============================================================================
