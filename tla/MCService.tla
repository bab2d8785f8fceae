----------------------------- MODULE MCService -----------------------------
(***************************************************************************)
(* Two requests at a time beside the sync task: enough for every pair of    *)
(* handlers to meet while the refresh, the scan or both wait in the lines.  *)
(***************************************************************************)
EXTENDS Service

\* Bounds and constants are in ServiceProgress.cfg.
=============================================================================
