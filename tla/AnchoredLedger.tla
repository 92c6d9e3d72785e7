--------------------------- MODULE AnchoredLedger ---------------------------
(***************************************************************************)
(* What the anchoring protocol promises, with no handlers, locks, messages *)
(* or crashes: a private ledger applies operations one at a time, each at  *)
(* most once, and does not apply the next before the vault has settled the *)
(* last one.  The vault follows by exactly one operation per settlement.   *)
(*                                                                         *)
(* Spec leaves open which of the fund movements applied so far a settlement*)
(* pays, at most one and none twice; ExactSpec says that it is the one it  *)
(* settles.                                                                *)
(***************************************************************************)
EXTENDS Naturals, Sequences

CONSTANTS Ops, Payouts

VARIABLES ledger, settled, paid

ledgerVars == <<ledger, settled, paid>>

Init ==
  /\ ledger = <<>>
  /\ settled = <<>>
  /\ paid = {}

Applied == {ledger[i] : i \in 1..Len(ledger)}

Apply(o) ==
  /\ settled = ledger
  /\ o \notin Applied
  /\ ledger' = Append(ledger, o)
  /\ UNCHANGED <<settled, paid>>

\* The vault takes the ledger's root, and pays the operations in payouts.
Settle(payouts) ==
  /\ settled # ledger
  /\ settled' = ledger
  /\ paid' = paid \cup payouts
  /\ UNCHANGED ledger

\* The last operation, if it is a fund movement.
LastPayout == {o \in Payouts : ledger # <<>> /\ o = ledger[Len(ledger)]}

Next ==
  \/ \E o \in Ops : Apply(o)
  \/ Settle({})
  \/ \E o \in (Applied \cap Payouts) \ paid : Settle({o})

Spec == Init /\ [][Next]_ledgerVars

ExactNext == (\E o \in Ops : Apply(o)) \/ Settle(LastPayout)

ExactSpec == Init /\ [][ExactNext]_ledgerVars
=============================================================================
