--------------------------- MODULE MCEntityTracker ---------------------------
(***************************************************************************)
(* Small instance of EntityTracker: a chain s1, s2, s3 and a fork t2 of s2 *)
(* on the same parent.                                                     *)
(***************************************************************************)
EXTENDS EntityTracker

CONSTANTS s1, s2, s3, t2

MCStates == {s1, s2, s3, t2}
MCParent == [s \in MCStates |-> CASE s = s1 -> NoState
                                  [] s = s2 -> s1
                                  [] s = s3 -> s2
                                  [] s = t2 -> s1]
MCAncestor == {<<s1, s2>>, <<s1, s3>>, <<s2, s3>>, <<s1, t2>>}
=============================================================================
