---------------------------- MODULE MCQueueSafety ----------------------------
(* Small instances of QueueSafety for TLC.                                 *)
EXTENDS QueueSafety

CONSTANTS summary, variant, t1
=============================================================================
