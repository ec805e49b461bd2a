----------------------------- MODULE MCHipSession -----------------------------
(* An instance of HipSession: three files over buffers of two frames.        *)
EXTENDS HipSession

CONSTANTS f1, f2, f3
===============================================================================
