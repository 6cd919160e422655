----------------------------- MODULE MCScopeLog -----------------------------
(* ScopeLog on small histories.                                             *)
EXTENDS ScopeLog
=============================================================================
