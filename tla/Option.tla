------------------------------- MODULE Option -------------------------------
(* The None of the code's optional values, and of results not there yet.   *)
CONSTANT NONE
=============================================================================
