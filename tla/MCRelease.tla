------------------------------ MODULE MCRelease ------------------------------
(* The component and its releases come from the configuration alone.        *)
EXTENDS Release
=============================================================================
