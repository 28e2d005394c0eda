----------------------------- MODULE MCGcLimit -----------------------------
(***************************************************************************)
(* GcLimit with the real kInitialGcLimit and table sizes on both sides of  *)
(* each comparison: 3681 = 4096 / 10 * 9, and 48681 = 54096 / 10 * 9 where *)
(* 54096 is the limit that 50000 survivors set.                            *)
(***************************************************************************)
EXTENDS GcLimit

MCKind == {"v", "m"}
MCSize == {0, 1, 3681, 3682, 4096, 48681, 48682, 50000, 54096}
=============================================================================
