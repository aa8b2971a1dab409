--------------------------- MODULE MCSummaryTasks ---------------------------
(* Small instances of SummaryTasks for TLC.                                *)
EXTENDS SummaryTasks, TLC

CONSTANTS a1, p1, p2, w1, w2, k1

TwoProcesses == (w1 :> p1) @@ (w2 :> p2)
OneSlot == w1 :> p1
OneProcess == (w1 :> p1) @@ (w2 :> p1)

(* No article was saved before tasks were durable.                         *)
FreshInit == Init /\ \A a \in Articles : article[a].row = "never"
FreshSpec == FreshInit /\ [][Next]_vars

(* Nothing was in progress when tasks became durable, or had a document:   *)
(* the next generation is that of a save or of a retry.                    *)
IdleInit ==
    Init /\ \A a \in Articles :
              ~Processing(a) /\ article[a].resultGeneration = NoResult
FairIdleSpec == IdleInit /\ [][Next]_vars /\ Fairness

(* The two processes, each with its own slot, are interchangeable.         *)
Swap == {(p1 :> p2) @@ (p2 :> p1) @@ (w1 :> w2) @@ (w2 :> w1)}
(* The two slots of one process are interchangeable.                       *)
Slots == {(w1 :> w2) @@ (w2 :> w1)}
=============================================================================
