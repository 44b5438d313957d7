----------------------------- MODULE MCRepoSync -----------------------------
(* Two machines; the first runs two hooks.  Two of the edits clash.        *)
EXTENDS RepoSync, TLC

CONSTANTS m1, m2, h1, h2, h3, e1, e2, e3

Place == h1 :> m1 @@ h2 :> m1 @@ h3 :> m2
Where == e1 :> {m1} @@ e2 :> {m1} @@ e3 :> {m2}
OneClash == {<<e1, e3>>, <<e3, e1>>}

=============================================================================
