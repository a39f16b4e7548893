------------------------------ MODULE CancelFlag ------------------------------
(***************************************************************************)
(* The flag that cuts a diagnostic short.  It is set once and never reset; *)
(* each stage of the engine looks at it where its code does.  The pause    *)
(* flag beside it is never set: nothing in the repository sends a Pause.   *)
(***************************************************************************)

VARIABLE cancelled

Cancel ==
    /\ ~cancelled
    /\ cancelled' = TRUE
=============================================================================
