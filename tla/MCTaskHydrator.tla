-------------------------- MODULE MCTaskHydrator --------------------------
(* Pages that share a member, between two tasks or with another page. *)
EXTENDS TaskHydrator

CONSTANTS s, t, k1, k2
SomeMembers == {{<<s, k1>>}, {<<s, k1>>, <<t, k1>>}, {<<s, k1>>, <<t, k2>>}, {<<s, k1>>, <<s, k2>>}}
===========================================================================
