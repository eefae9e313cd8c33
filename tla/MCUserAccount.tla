--------------------------- MODULE MCUserAccount ---------------------------
(***************************************************************************)
(* Two requests at a time and the cleanup, over two registrations of the   *)
(* name and a few failures.                                                *)
(***************************************************************************)
EXTENDS UserAccount
==============================================================================
