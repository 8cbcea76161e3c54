-------------------------- MODULE MCAv2TileWorkers --------------------------
(* One row of four blocks in two tiles of equal shape; two of the three     *)
(* block contents share a hash.                                            *)
EXTENDS Av2TileWorkers, TLC

CONSTANTS t1, t2

MCBlock == Grid
MCTileOf == [b \in Grid |-> IF b[2] < 2 THEN t1 ELSE t2]
MCTileOrder == <<t1, t2>>
MCHashOf == (0 :> 7) @@ (1 :> 7) @@ (2 :> 9)
MCSteps == <<1>>

\* Pictures that stay, move by one, two or three blocks, change in part,
\* collide by hash, fill a bucket, or move only where the search does not look.
Row(a, b, c, d) == [p \in Grid |-> <<a, b, c, d>>[p[2] + 1]]
MCInputs == {Row(0, 1, 2, 2), Row(0, 0, 1, 2), Row(2, 2, 0, 1), Row(1, 2, 2, 0),
             Row(0, 1, 1, 0), Row(2, 0, 0, 0), Row(1, 1, 1, 1),
             Row(2, 2, 2, 2), Row(0, 1, 2, 0), Row(0, 1, 1, 1), Row(2, 2, 2, 0)}
=============================================================================
