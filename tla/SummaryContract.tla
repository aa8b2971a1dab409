--------------------------- MODULE SummaryContract ---------------------------
(***************************************************************************)
(* What the summary subsystem promises about one saved article, with every *)
(* task row, lease, queue job and worker hidden.                           *)
(*                                                                         *)
(* An article is processing one generation at a time.  A generation ends   *)
(* by publishing its own document or by giving up, and a new one is only   *)
(* accepted after the previous one has ended.  The last good document      *)
(* stays in place until a newer generation publishes.                      *)
(***************************************************************************)
EXTENDS Integers

CONSTANTS
    Articles,       \* identities of saved articles
    MaxGeneration   \* bound on the generations of one article

NoResult == -1      \* resultGeneration IS NULL

VARIABLES
    phase,          \* "never", "processing", "settled" or "removed"
    generation,     \* the generation accepted last
    shown           \* the generation whose document the reader sees

vars == <<phase, generation, shown>>

(* Articles saved before tasks were durable start at generation 0, with or *)
(* without a document of that generation.                                  *)
Init ==
    /\ phase \in [Articles -> {"never", "processing", "settled"}]
    /\ generation = [a \in Articles |-> 0]
    /\ shown \in [Articles -> {NoResult, 0}]

(* The user saves the article, or asks for the summary again.              *)
Accept(a) ==
    /\ phase[a] \in {"never", "settled"}
    /\ generation[a] < MaxGeneration
    /\ phase' = [phase EXCEPT ![a] = "processing"]
    /\ generation' = [generation EXCEPT ![a] = @ + 1]
    /\ UNCHANGED shown

Publish(a) ==
    /\ phase[a] = "processing"
    /\ phase' = [phase EXCEPT ![a] = "settled"]
    /\ shown' = [shown EXCEPT ![a] = generation[a]]
    /\ UNCHANGED generation

GiveUp(a) ==
    /\ phase[a] = "processing"
    /\ phase' = [phase EXCEPT ![a] = "settled"]
    /\ UNCHANGED <<generation, shown>>

(* The row goes, and its document with it.                                 *)
Remove(a) ==
    /\ phase[a] \in {"processing", "settled"}
    /\ phase' = [phase EXCEPT ![a] = "removed"]
    /\ generation' = [generation EXCEPT ![a] = 0]
    /\ shown' = [shown EXCEPT ![a] = NoResult]

Settle(a) == Publish(a) \/ GiveUp(a)

Next == \E a \in Articles : Accept(a) \/ Settle(a) \/ Remove(a)

Spec == Init /\ [][Next]_vars

(* An accepted generation does not stay in progress for ever.              *)
Settles == \A a \in Articles : phase[a] = "processing" ~> phase[a] # "processing"
=============================================================================
