----------------------------- MODULE MCDispatch -----------------------------
(* Two keys with budgets of two and one, a window of three ticks of which   *)
(* one is padding, and up to three acquire calls.                           *)
EXTENDS Dispatch, TLC

CONSTANTS k1, k2

MCInitOrder == <<k1, k2>>
MCInitRpm == (k1 :> 2) @@ (k2 :> 1)
MCSwapRpm == (k1 :> 1) @@ (k2 :> 2)
MCOneKey == <<k1>>
=============================================================================
