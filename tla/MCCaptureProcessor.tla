------------------------ MODULE MCCaptureProcessor ------------------------
(* CaptureProcessor with jobs of different sizes on two processors.        *)
EXTENDS CaptureProcessor

CONSTANTS j1, j2, j3, j4

MCBytes == (j1 :> 1) @@ (j2 :> 1) @@ (j3 :> 2) @@ (j4 :> 3)
===========================================================================
