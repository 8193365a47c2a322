--------------------------- MODULE CaptureLedger ---------------------------
(***************************************************************************)
(* What capturing promises about one exchange, with the journal, the files *)
(* and the database left out: evidence that is held is saved or withdrawn, *)
(* never dropped, and what is withdrawn stays withdrawn.                   *)
(***************************************************************************)
CONSTANT Captures

VARIABLE fate  \* of each capture: "unknown", "held", "saved" or "withdrawn"

Init == fate = [c \in Captures |-> "unknown"]

\* A journal entry became durable before any original.
Hold(c) == fate[c] = "unknown" /\ fate' = [fate EXCEPT ![c] = "held"]

\* A row was committed, from a journal or, if it could not be written, without.
Save(c) == fate[c] \in {"unknown", "held"} /\ fate' = [fate EXCEPT ![c] = "saved"]

\* Retention or a confirmed deletion marks captures, several in one transaction.
Withdraw(S) ==
    /\ \A c \in S : fate[c] \in {"held", "saved"}
    /\ fate' = [c \in Captures |-> IF c \in S THEN "withdrawn" ELSE fate[c]]

Next ==
    \/ \E c \in Captures : Hold(c) \/ Save(c)
    \/ \E S \in SUBSET Captures : Withdraw(S)

Spec == Init /\ [][Next]_fate
=============================================================================
