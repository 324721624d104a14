----------------------------- MODULE MCMigration -----------------------------
(***************************************************************************)
(* Migration for TLC: one key of each kind, which either database may come *)
(* to hold with one of two digests.                                        *)
(***************************************************************************)
EXTENDS Migration, TLC

CONSTANTS n1, e1, l1, a1, k1, d1, d2
==============================================================================
