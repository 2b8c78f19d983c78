-------------------------- MODULE MCResultDelivery --------------------------
(***************************************************************************)
(* Instances of ResultDelivery for TLC: two runs, one of which names no    *)
(* session, or a single run where one file shows what is asked.            *)
(***************************************************************************)
EXTENDS ResultDelivery, TLC

CONSTANTS r1, r2, s1, s2

WithUnscoped == (r1 :> s1) @@ (r2 :> Unscoped)
=============================================================================
