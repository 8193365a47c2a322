--------------------------- MODULE MonitorLease ---------------------------
(***************************************************************************)
(* What ProxyRuntime promises to the code that shares the capture files    *)
(* with it: the files have at most one holder at a time, a run of the      *)
(* proxy or a confirmed maintenance action, and every run holds them once. *)
(***************************************************************************)
CONSTANTS Runs, Maintenance   \* Maintenance is not a run

VARIABLES
    holders,  \* who holds the capture files now
    spent     \* runs that held them and let go

Init == holders = {} /\ spent = {}

Take(x) ==
    /\ holders = {} /\ x \notin spent
    /\ holders' = {x}
    /\ UNCHANGED spent

Drop(x) ==
    /\ holders = {x}
    /\ holders' = {}
    /\ spent' = spent \cup ({x} \ {Maintenance})

Next == \E x \in Runs \cup {Maintenance} : Take(x) \/ Drop(x)

Spec == Init /\ [][Next]_<<holders, spent>>
===========================================================================
