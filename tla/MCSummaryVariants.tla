-------------------------- MODULE MCSummaryVariants --------------------------
(* Small instances of SummaryVariants for TLC.                             *)
EXTENDS SummaryVariants

CONSTANTS w1, w2
=============================================================================
