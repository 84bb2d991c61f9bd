--------------------------- MODULE MC_RiskEngine ---------------------------
(***************************************************************************)
(* Small instances of RiskEngine.                                          *)
(***************************************************************************)
EXTENDS RiskEngine

AllProbes == FeedProbes \cup LossProbes

\* One check of each kind; an opportunity fails none or one of them.
OneFault == {{}, {"leverage"}, {"slippage"}, {"open_positions"}, {"exposure"}}

NoFault == {{}}
=============================================================================
