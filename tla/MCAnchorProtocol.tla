-------------------------- MODULE MCAnchorProtocol --------------------------
(***************************************************************************)
(* Instances of AnchorProtocol for TLC.  In all of them one RECOVER_ANCHOR *)
(* and one ANCHOR_CONFIRMED action can be sent again and again.            *)
(*                                                                         *)
(* "Mixed": a deposit and a borrow that is accepted twice, instructions,   *)
(* and a withdrawal from a mandate, a direct action.  "Checkpoints": only  *)
(* a deposit and a repayment.  "Skipped": a deposit, an instruction, and a *)
(* withdrawal from a mandate, a direct action.  "Paused": a withdrawal and *)
(* a borrow.                                                               *)
(***************************************************************************)
EXTENDS AnchorProtocol, TLC

CONSTANTS d, w, b, m, p,            \* operations
          rd, rw, rb, rb2, rm, rp,  \* requests
          h1, c1                    \* a RECOVER_ANCHOR and an ANCHOR_CONFIRMED action

MixedOps == {d, b, m}
MixedRequests == {rd, rb, rb2, rm}
MixedInstructions == {rd, rb, rb2}
MixedSlow == {rd, rb, rm, h1}

CheckpointOps == {d, p}
CheckpointRequests == {rd, rp}
CheckpointInstructions == {rd}

AllHandlers == Handlers
NoHandlers == {}

SkippedOps == {d, m}
SkippedRequests == {rd, rm}
SkippedInstructions == {rd}

PausedOps == {w, b}
PausedRequests == {rw, rb}
PausedInstructions == {rw, rb}

OpOf == (rd :> d) @@ (rw :> w) @@ (rb :> b) @@ (rb2 :> b) @@ (rm :> m) @@ (rp :> p)
KindOf == (d :> "DEPOSIT") @@ (w :> "WITHDRAW_REQUEST") @@ (b :> "BORROW_ACCEPT")
          @@ (m :> "WITHDRAW_FROM_MANDATE") @@ (p :> "APPLY_REPAYMENT")

MixedOp == [r \in MixedRequests |-> OpOf[r]]
MixedKind == [o \in MixedOps |-> KindOf[o]]
SkippedOp == [r \in SkippedRequests |-> OpOf[r]]
SkippedKind == [o \in SkippedOps |-> KindOf[o]]
PausedOp == [r \in PausedRequests |-> OpOf[r]]
PausedKind == [o \in PausedOps |-> KindOf[o]]
CheckpointOp == [r \in CheckpointRequests |-> OpOf[r]]
CheckpointKind == [o \in CheckpointOps |-> KindOf[o]]
=============================================================================
