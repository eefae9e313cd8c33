--------------------------- MODULE MCShareSession ---------------------------
(***************************************************************************)
(* Instances of ShareSession for TLC.  A unit of time is a minute for      *)
(* leases; the constants keep the order of the code's: a lease may be too  *)
(* short to be left alone (MinTTL <= RefreshWindow), long enough           *)
(* (MaxTTL > RefreshWindow), over but within Connect's grace, or past it.  *)
(***************************************************************************)
EXTENDS ShareSession, TLC

CONSTANTS r1, r2, v1
=============================================================================
