-------------------------- MODULE MCActivityControl --------------------------
(***************************************************************************)
(* Instances of ActivityControl for TLC: a chain of two steps, the second  *)
(* of which may be a dynamic group of one item.                            *)
(***************************************************************************)
EXTENDS ActivityControl

Chain == <<1, 2>>
BothRemarks == {"needs_attention", "active_long_running"}
=============================================================================
