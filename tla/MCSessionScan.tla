--------------------------- MODULE MCSessionScan ---------------------------
(* Instances of SessionScan: a file of each kind, of which the first is     *)
(* written, and a database of two sessions.                                *)
EXTENDS SessionScan, TLC

CONSTANTS jsonl, sqlite, s1, s2, s3

Home == (s1 :> jsonl @@ s2 :> sqlite)
FewWrites == (jsonl :> 2 @@ sqlite :> 0)

HomeOfTwo == (s2 :> sqlite @@ s3 :> sqlite)
OneWrite == (sqlite :> 1)
============================================================================
