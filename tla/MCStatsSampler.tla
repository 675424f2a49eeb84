--------------------------- MODULE MCStatsSampler ---------------------------
(***************************************************************************)
(* StatsSampler for TLC: two containers, so that one of them can end the   *)
(* stream that samples the other.                                          *)
(***************************************************************************)
EXTENDS StatsSampler, TLC

MCContainer == {"primary", "secondary"}
MCMaxUse == "primary" :> 2 @@ "secondary" :> 0
=============================================================================
