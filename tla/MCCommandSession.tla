-------------------------- MODULE MCCommandSession --------------------------
(* TLC instances of CommandSession. *)
EXTENDS CommandSession, TLC

CONSTANTS c1, c2, c3, k1, k2, w1, w2

\* A reserve-first and an added song, both kept in playlistTask.
MCOpPlaylist == c1 :> "first" @@ c2 :> "add"
\* A volume key, a sort that no field remembers and a dance key.
MCOpMixed == c1 :> "control" @@ c2 :> "sort" @@ c3 :> "dance"
\* Two requests whose replies are of one kind.
MCOpSameKind == c1 :> "first" @@ c2 :> "sort"

\* One volume key.
MCOpControl == c1 :> "control"

MCSymmetry == Permutations({w1, w2})
=============================================================================
