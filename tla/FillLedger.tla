----------------------------- MODULE FillLedger -----------------------------
(***************************************************************************)
(* What the paper portfolio promises, with reservations, orders and order  *)
(* books out of sight: "Portfolio is updated ONLY from fills — never from  *)
(* mere order submission" (bot/portfolio/accounting.py).  Cash and         *)
(* holdings move when a fill is applied that was never applied before, a   *)
(* buy never spends cash that is not there, a sale never delivers assets   *)
(* that are not there, and a restart goes back to a saved ledger as a      *)
(* whole.                                                                  *)
(***************************************************************************)
EXTENDS Integers

CONSTANTS Fills,    \* identities of fills
          Symbols

VARIABLES cash,     \* quote asset, available and reserved together
          holding,  \* base asset of each symbol, likewise
          applied,  \* the fills that made cash and holding what they are
          saved     \* the ledger that a restart would find

ledgerVars == <<cash, holding, applied, saved>>

Ledger == [cash |-> cash, holding |-> holding, applied |-> applied]

LedgerInit ==
  /\ cash \in Nat
  /\ holding = [s \in Symbols |-> 0]
  /\ applied = {}
  /\ saved = Ledger

Buy(f, s) ==
  /\ cash' \in 0 .. cash
  /\ holding'[s] > holding[s]

Sell(f, s) ==
  /\ cash' >= cash
  /\ holding'[s] \in 0 .. holding[s] - 1

Apply(f) ==
  /\ f \notin applied
  /\ applied' = applied \cup {f}
  /\ \E s \in Symbols :
       /\ holding' = [holding EXCEPT ![s] = holding'[s]]
       /\ Buy(f, s) \/ Sell(f, s)
  /\ UNCHANGED saved

Save == saved' = Ledger /\ UNCHANGED <<cash, holding, applied>>

Restore ==
  /\ cash' = saved.cash
  /\ holding' = saved.holding
  /\ applied' = saved.applied
  /\ UNCHANGED saved

LedgerNext == (\E f \in Fills : Apply(f)) \/ Save \/ Restore

LedgerSpec == LedgerInit /\ [][LedgerNext]_ledgerVars
=============================================================================
