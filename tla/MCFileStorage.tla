---------------------------- MODULE MCFileStorage ----------------------------
(***************************************************************************)
(* Instances of FileStorage for TLC: three savers that want one path, and  *)
(* two whose directories are to be made with a configured mode.            *)
(***************************************************************************)
EXTENDS FileStorage, TLC

CONSTANTS a, b, c, n1, n2, n3, m1, d1, d2

MCDir == (n1 :> d1) @@ (n2 :> d1) @@ (n3 :> d1) @@ (m1 :> d2)

OnePath == (a :> n1) @@ (b :> n1) @@ (c :> n1)
TwoDirectories == (a :> n1) @@ (b :> m1)

MCChunks == [s \in Savers |-> IF s = c THEN 0 ELSE 1]
=============================================================================
