----------------------------- MODULE MCRegion -----------------------------
(* Region for TLC: two groups at the top, of which one has a long path and the
   other one nested in it; tables that the machine outgrows. *)
EXTENDS Region

CONSTANTS t1, t2, a, b, ab

MCTasks == {t1, t2}
MCGroups == {a, b, ab}
MCParent == (a :> Root) @@ (b :> Root) @@ (ab :> a)
MCLists == {{}, {0, 1}, {2}}
MCLong == {b}
\* One test CPU, or three with a level that leaves the third alone.
MCHierarchies == <<{<<{{1}}>>}, {}, {<<{{1, 2}, {3}}, {{1, 2, 3}}>>}>>
TaskSymmetry == Permutations(MCTasks)

============================================================================
