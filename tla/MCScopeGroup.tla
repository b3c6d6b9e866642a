---------------------------- MODULE MCScopeGroup ----------------------------
(* Instances of ScopeGroup for TLC.                                        *)
EXTENDS ScopeGroup, TLC
=============================================================================
