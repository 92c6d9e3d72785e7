----------------------------- MODULE MCRelayer -----------------------------
(***************************************************************************)
(* Instances of Relayer for TLC.                                           *)
(***************************************************************************)
EXTENDS Relayer, TLC

CONSTANTS d1, e1, e2

\* A payout asked for by a ciphertext, a deposit event and a risk tick.
MixedKind == (d1 :> "PAYOUT") @@ (e1 :> "DEPOSIT") @@ (e2 :> "RISK_TICK")
=============================================================================
