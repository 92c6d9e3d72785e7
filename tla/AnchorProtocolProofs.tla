------------------------ MODULE AnchorProtocolProofs ------------------------
(***************************************************************************)
(* Theorems of AnchorProtocol, for every set of operations and handlers.   *)
(*                                                                         *)
(* The argument: under the engine's lock the memory is what the store      *)
(* holds, so what is signed is durable.  A settlement that still fits the  *)
(* vault's root is therefore the one of the pending anchor, and executing  *)
(* it brings the vault to the ledger's root.  A confirmation verified at   *)
(* some earlier moment names a root the vault has left behind, or still    *)
(* holds, so the one that matches the pending anchor is true.              *)
(***************************************************************************)
EXTENDS AnchorProtocol, TLAPS

IInv == TypeOK /\ AnchorInvariant

USE ConstantsAssumption DEF Handlers

-----------------------------------------------------------------------------
(***************************************************************************)
(* Type correctness                                                        *)
(***************************************************************************)
\* What a handler signs is a settlement between two histories.
LEMMA SettlementOfType ==
  ASSUME TypeOK, NEW h \in Requests \cup Recoveries
  PROVE  SettlementOf(h) \in Settlement
<1>1. SettlementType(h) \in SettlementTypes
  BY DEF SettlementType, SettlementTypes
<1>2. mem.prev \in Seq(Ops) /\ mem.log \in Seq(Ops)
  BY DEF TypeOK, State
<1>3. Overtaken(h) \in BOOLEAN
  BY DEF Overtaken
<1> QED
  BY <1>1, <1>2, <1>3 DEF SettlementOf, Settlement

\* The state written by mutate and the one written by ConfirmAnchor are states.
LEMMA DurableType ==
  ASSUME TypeOK
  PROVE  /\ \A r \in Requests :
              [log |-> Append(mem.log, Op[r]), prev |-> mem.log, pending |-> TRUE] \in State
         /\ [mem EXCEPT !.pending = FALSE] \in State
<1>1. mem.log \in Seq(Ops) /\ \A r \in Requests : Op[r] \in Ops
  BY DEF TypeOK, State
<1>2. \A r \in Requests : Append(mem.log, Op[r]) \in Seq(Ops)
  BY <1>1
<1>3. [mem EXCEPT !.pending = FALSE] \in State
  BY DEF TypeOK, State
<1> QED
  BY <1>1, <1>2, <1>3 DEF State

\* Returning keeps the handler's place and the abandoned set typed.
LEMMA ReturnType ==
  ASSUME TypeOK, NEW h \in Handlers, NEW where \in Places, Return(h, where)
  PROVE  pc' \in [Handlers -> Places] /\ abandoned' \subseteq SlowHandlers
BY DEF TypeOK, Return

\* Counting one more payment of an operation.
LEMMA CountOnce ==
  ASSUME NEW f \in [Ops -> Nat], NEW o
  PROVE  [f EXCEPT ![o] = @ + 1] \in [Ops -> Nat]
<1>1. \A x \in Ops : [f EXCEPT ![o] = @ + 1][x] = IF x = o THEN f[x] + 1 ELSE f[x]
  OBVIOUS
<1>2. \A x \in Ops : f[x] \in Nat /\ f[x] + 1 \in Nat
  OBVIOUS
<1> QED
  BY <1>1, <1>2

\* Every step of the protocol keeps every variable in its type.
THEOREM TypeCorrect == Spec => []TypeOK
<1>1. Init => TypeOK
  <2> SUFFICES ASSUME Init PROVE TypeOK
    OBVIOUS
  <2>1. NewState \in State /\ <<>> \in Seq(Ops)
    BY DEF State, NewState
  <2>2. pc \in [Handlers -> Places]
    BY DEF Init, Places
  <2>3. payload \in [Recoveries \cup Confirmations -> Seq(Ops)] /\ paid \in [Ops -> Nat]
    BY DEF Init
  <2>4. crashes \in 0..MaxCrashes /\ pauses \in 0..MaxPauses
    BY DEF Init
  <2> QED
    BY <2>1, <2>2, <2>3, <2>4 DEF Init, TypeOK
<1>2. TypeOK /\ [Next]_vars => TypeOK'
  <2> SUFFICES ASSUME TypeOK, [Next]_vars
               PROVE  TypeOK'
    OBVIOUS
  <2>0. {"idle", "waiting", "committed", "mutated", "checked", "verified",
         "saved", "done", "failed"} = Places
    BY DEF Places
  <2>1. ASSUME NEW r \in Requests, Mutation(r)
        PROVE  TypeOK'
    <3>1. CASE Deliver(r)
      BY <3>1, <2>0 DEF Deliver, TypeOK, vaultVars
    <3>2. CASE Refuse(r)
      BY <3>2, <2>0, ReturnType DEF Refuse, TypeOK, vaultVars
    <3>3. CASE Commit(r)
      BY <3>3, <2>0, DurableType DEF Commit, TypeOK, vaultVars
    <3>4. CASE Assign(r)
      BY <3>4, <2>0 DEF Assign, TypeOK, vaultVars
    <3>5. CASE SignMutation(r)
      BY <3>5, <2>0, ReturnType, SettlementOfType DEF SignMutation, Sign, TypeOK, vaultVars
    <3>6. CASE SignMutationFails(r)
      BY <3>6, <2>0, ReturnType DEF SignMutationFails, TypeOK, vaultVars
    <3> QED
      BY <2>1, <3>1, <3>2, <3>3, <3>4, <3>5, <3>6 DEF Mutation
  <2>2. ASSUME NEW h \in Recoveries, Recovery(h)
        PROVE  TypeOK'
    <3>0. <<>> \in Seq(Ops) /\ mem.log \in Seq(Ops)
      BY DEF TypeOK, State
    <3>1. CASE RecoverRead(h)
      BY <3>1, <3>0, <2>0 DEF RecoverRead, TypeOK, vaultVars
    <3>2. CASE RecoverSign(h)
      BY <3>2, <3>0, <2>0, ReturnType, SettlementOfType DEF RecoverSign, Sign, TypeOK, vaultVars
    <3>3. CASE RecoverSignFails(h)
      BY <3>3, <3>0, <2>0, ReturnType DEF RecoverSignFails, TypeOK, vaultVars
    <3> QED
      BY <2>2, <3>1, <3>2, <3>3 DEF Recovery
  <2>3. ASSUME NEW c \in Confirmations, Confirmation(c)
        PROVE  TypeOK'
    <3>0. <<>> \in Seq(Ops)
      OBVIOUS
    <3>1. CASE ConfirmVerify(c)
      BY <3>1, <2>0 DEF ConfirmVerify, TypeOK, vaultVars
    <3>2. CASE ConfirmSave(c)
      BY <3>2, <2>0, DurableType DEF ConfirmSave, TypeOK, vaultVars
    <3>3. CASE ConfirmAssign(c)
      BY <3>3, <3>0, <2>0, ReturnType DEF ConfirmAssign, TypeOK, vaultVars
    <3>4. CASE ConfirmNoChange(c)
      BY <3>4, <3>0, <2>0, ReturnType DEF ConfirmNoChange, TypeOK, vaultVars
    <3> QED
      BY <2>3, <3>1, <3>2, <3>3, <3>4 DEF Confirmation
  <2>4. ASSUME NEW h \in Handlers, Abandon(h)
        PROVE  TypeOK'
    BY <2>4 DEF Abandon, TypeOK, vaultVars
  <2>5. CASE Crash
    <3>1. pc' \in [Handlers -> Places]
      BY <2>5, <2>0 DEF Crash, TypeOK
    <3>2. payload' \in [Recoveries \cup Confirmations -> Seq(Ops)]
      BY <2>5 DEF Crash
    <3>3. crashes' \in 0..MaxCrashes
      BY <2>5 DEF Crash, TypeOK
    <3> QED
      BY <2>5, <3>1, <3>2, <3>3 DEF Crash, TypeOK, vaultVars
  <2>6. ASSUME NEW s \in known, ExecuteSettlement(s) \/ Expire(s)
        PROVE  TypeOK'
    <3>0. s \in Settlement
      BY DEF TypeOK
    <3>1. CASE ExecuteSettlement(s)
      <4>1. SettlementID(s) \in (Requests \cup Recoveries) \X Seq(Ops) /\ s.next \in Seq(Ops)
        BY <3>0 DEF Settlement, SettlementID
      <4>2. paid' \in [Ops -> Nat]
        BY <3>1, CountOnce DEF ExecuteSettlement, TypeOK
      <4> QED
        BY <3>1, <4>1, <4>2 DEF ExecuteSettlement, TypeOK, handlerVars
    <3>2. CASE Expire(s)
      BY <3>2 DEF Expire, TypeOK, handlerVars, vaultVars
    <3> QED
      BY <2>6, <3>1, <3>2
  <2>7. ASSUME NEW b \in BOOLEAN, SetPaused(b)
        PROVE  TypeOK'
    BY <2>7 DEF SetPaused, TypeOK, handlerVars
  <2>8. CASE UNCHANGED vars
    BY <2>8 DEF vars, TypeOK
  <2> QED
    BY <2>1, <2>2, <2>3, <2>4, <2>5, <2>6, <2>7, <2>8 DEF Next
<1> QED
  BY <1>1, <1>2, PTL DEF Spec

-----------------------------------------------------------------------------
(***************************************************************************)
(* The ledger and the vault agree                                          *)
(***************************************************************************)
\* Facts about the prefix order on histories.
LEMMA PrefixReflexive ==
  ASSUME NEW s \in Seq(Ops)
  PROVE  Prefix(s, s)
BY DEF Prefix

LEMMA PrefixAppend ==
  ASSUME NEW s \in Seq(Ops), NEW t \in Seq(Ops), NEW o \in Ops, Prefix(s, t)
  PROVE  Prefix(s, Append(t, o)) /\ Len(Append(t, o)) = Len(t) + 1
BY DEF Prefix

\* A handler signs the pending anchor, which the store holds as well.
LEMMA SignKeeps ==
  ASSUME IInv, NEW h \in Requests \cup Recoveries, Sign(h),
         UNCHANGED <<disk, root>>
  PROVE  SignedIsPendingOrPast' /\ SignedIsDurable'
<1>1. mem = disk /\ disk.pending /\ disk.log \in Seq(Ops)
  BY DEF IInv, AnchorInvariant, MemoryIsDurable, Sign, TypeOK, State
<1>2. SettlementOf(h).prev = disk.prev /\ SettlementOf(h).next = disk.log
  BY <1>1 DEF SettlementOf
<1>3. \A s \in signed' : s \in signed \/ s = SettlementOf(h)
  BY DEF Sign
<1>4. SignedIsPendingOrPast'
  BY <1>1, <1>2, <1>3 DEF IInv, AnchorInvariant, SignedIsPendingOrPast
<1>5. SignedIsDurable'
  BY <1>1, <1>2, <1>3, PrefixReflexive DEF IInv, AnchorInvariant, SignedIsDurable
<1> QED
  BY <1>4, <1>5

\* A confirmation that matches the pending anchor is true: the vault does hold
\* the ledger's root, however long ago verifyAnchorOnChain read it.
LEMMA ConfirmationIsTrue ==
  ASSUME IInv, NEW c \in Confirmations, ConfirmSave(c)
  PROVE  mem = disk /\ disk.pending /\ root = disk.log /\ Len(disk.prev) < Len(root)
<1>1. mem = disk /\ disk.pending /\ payload[c] = disk.log
  BY DEF IInv, AnchorInvariant, MemoryIsDurable, ConfirmSave
<1>2. root \in {disk.prev, disk.log}
  BY <1>1 DEF IInv, AnchorInvariant, AnchorAgreement
<1>3. Len(disk.log) = Len(disk.prev) + 1 /\ Len(disk.prev) \in Nat
  BY <1>1 DEF IInv, AnchorInvariant, PendingIsOneStep, TypeOK, State
<1>4. Len(disk.log) < Len(root) \/ root = disk.log
  BY <1>1 DEF IInv, AnchorInvariant, VerifiedIsRootOrPast, ConfirmSave
<1> QED
  BY <1>1, <1>2, <1>3, <1>4

\* A settlement the vault accepts is the one of the pending anchor.
LEMMA AcceptedIsPending ==
  ASSUME IInv, NEW s \in known, ExecuteSettlement(s)
  PROVE  disk.pending /\ root = disk.prev /\ root' = disk.log /\ Len(root') = Len(root) + 1
<1>1. s \in signed /\ s.prev = root /\ root' = s.next /\ Len(s.next) = Len(root) + 1
  BY DEF IInv, TypeOK, ExecuteSettlement
<1>2. Len(root) \in Nat
  BY DEF IInv, TypeOK
<1> QED
  BY <1>1, <1>2 DEF IInv, AnchorInvariant, SignedIsPendingOrPast

\* The conjuncts of the invariant survive a step that changes none of what they
\* are about, except the handlers' places.
LEMMA Undisturbed ==
  ASSUME IInv, UNCHANGED <<mem, disk, lock, signed, root>>,
         \A c \in Confirmations : /\ pc'[c] = "verified" => pc[c] = "verified"
                                  /\ payload'[c] = payload[c]
  PROVE  AnchorInvariant'
BY DEF IInv, AnchorInvariant, AnchorAgreement, MemoryIsDurable, PendingIsOneStep,
       SignedIsPendingOrPast, SignedIsDurable, VerifiedIsRootOrPast

\* A confirmation is not at a place where it is not moved to.
LEMMA OthersStay ==
  ASSUME TypeOK, NEW h \in Handlers, NEW where, where # "verified",
         pc' = [pc EXCEPT ![h] = where]
  PROVE  \A c \in Confirmations : pc'[c] = "verified" => pc[c] = "verified"
BY DEF TypeOK

\* Every step preserves the invariant.
THEOREM InvariantStep == IInv /\ TypeOK' /\ [Next]_vars => AnchorInvariant'
<1> SUFFICES ASSUME IInv, TypeOK', [Next]_vars
             PROVE  AnchorInvariant'
  OBVIOUS
<1>0. TypeOK
  BY DEF IInv
<1>1. ASSUME NEW r \in Requests, Mutation(r)
      PROVE  AnchorInvariant'
  <2>1. CASE Deliver(r) \/ Refuse(r) \/ SignMutationFails(r)
    BY <2>1, <1>0, OthersStay, Undisturbed
      DEF Deliver, Refuse, SignMutationFails, Return, vaultVars
  <2>2. CASE Commit(r)
    <3> DEFINE o == Op[r]
    <3>1. /\ mem = disk /\ ~disk.pending /\ root = disk.log
          /\ disk.log \in Seq(Ops) /\ o \in Ops
      BY <2>2, <1>0 DEF Commit, IInv, AnchorInvariant, MemoryIsDurable, AnchorAgreement,
                        TypeOK, State
    <3>2. /\ disk' = [log |-> Append(disk.log, o), prev |-> disk.log, pending |-> TRUE]
          /\ UNCHANGED <<signed, root, payload>> /\ lock' # Free
      BY <2>2, <3>1 DEF Commit, vaultVars
    <3>3. AnchorAgreement' /\ MemoryIsDurable'
      BY <3>1, <3>2 DEF AnchorAgreement, MemoryIsDurable
    <3>4. PendingIsOneStep'
      BY <3>1, <3>2, PrefixReflexive, PrefixAppend DEF PendingIsOneStep
    <3>5. SignedIsPendingOrPast'
      BY <3>1, <3>2 DEF IInv, AnchorInvariant, SignedIsPendingOrPast
    <3>6. SignedIsDurable'
      <4> SUFFICES ASSUME NEW s \in signed
                   PROVE  Prefix(s.next, Append(disk.log, o))
        BY <3>2 DEF SignedIsDurable
      <4>1. Prefix(s.next, disk.log) /\ s.next \in Seq(Ops)
        BY <1>0 DEF IInv, AnchorInvariant, SignedIsDurable, TypeOK, Settlement
      <4> QED
        BY <4>1, <3>1, PrefixAppend
    <3>7. VerifiedIsRootOrPast'
      BY <2>2, <3>2, <1>0, OthersStay
        DEF Commit, IInv, AnchorInvariant, VerifiedIsRootOrPast
    <3> QED
      BY <3>3, <3>4, <3>5, <3>6, <3>7 DEF AnchorInvariant
  <2>3. CASE Assign(r)
    <3>1. UNCHANGED <<disk, signed, root, payload>> /\ mem' = disk
      BY <2>3 DEF Assign, vaultVars
    <3>2. VerifiedIsRootOrPast'
      BY <2>3, <3>1, <1>0, OthersStay
        DEF Assign, IInv, AnchorInvariant, VerifiedIsRootOrPast
    <3> QED
      BY <3>1, <3>2 DEF IInv, AnchorInvariant, AnchorAgreement, MemoryIsDurable,
                        PendingIsOneStep, SignedIsPendingOrPast, SignedIsDurable
  <2>4. CASE SignMutation(r)
    <3>1. UNCHANGED <<mem, disk, lock, root, payload>> /\ Sign(r)
      BY <2>4 DEF SignMutation, vaultVars
    <3>2. SignedIsPendingOrPast' /\ SignedIsDurable'
      BY <3>1, SignKeeps
    <3>3. VerifiedIsRootOrPast'
      BY <2>4, <3>1, <1>0, OthersStay
        DEF SignMutation, Return, IInv, AnchorInvariant, VerifiedIsRootOrPast
    <3> QED
      BY <3>1, <3>2, <3>3 DEF IInv, AnchorInvariant, AnchorAgreement, MemoryIsDurable,
                              PendingIsOneStep
  <2> QED
    BY <1>1, <2>1, <2>2, <2>3, <2>4 DEF Mutation
<1>2. ASSUME NEW h \in Recoveries, Recovery(h)
      PROVE  AnchorInvariant'
  <2>0. \A c \in Confirmations : payload'[c] = payload[c]
    BY <1>2, <1>0 DEF Recovery, RecoverRead, RecoverSign, RecoverSignFails, TypeOK
  <2>1. CASE RecoverRead(h) \/ RecoverSignFails(h)
    BY <2>0, <2>1, <1>0, OthersStay, Undisturbed
      DEF RecoverRead, RecoverSignFails, Return, vaultVars
  <2>2. CASE RecoverSign(h)
    <3>1. UNCHANGED <<mem, disk, lock, root>> /\ Sign(h)
      BY <2>2 DEF RecoverSign, vaultVars
    <3>2. SignedIsPendingOrPast' /\ SignedIsDurable'
      BY <3>1, SignKeeps
    <3>3. VerifiedIsRootOrPast'
      BY <2>0, <2>2, <3>1, <1>0, OthersStay
        DEF RecoverSign, Return, IInv, AnchorInvariant, VerifiedIsRootOrPast
    <3> QED
      BY <3>1, <3>2, <3>3 DEF IInv, AnchorInvariant, AnchorAgreement, MemoryIsDurable,
                              PendingIsOneStep
  <2> QED
    BY <1>2, <2>1, <2>2 DEF Recovery
<1>3. ASSUME NEW c \in Confirmations, Confirmation(c)
      PROVE  AnchorInvariant'
  <2>1. CASE ConfirmVerify(c)
    <3>1. /\ UNCHANGED <<mem, disk, lock, signed, root>>
          /\ payload' = [payload EXCEPT ![c] = root]
          /\ pc' = [pc EXCEPT ![c] = "verified"]
      BY <2>1 DEF ConfirmVerify, vaultVars
    <3>2. VerifiedIsRootOrPast'
      BY <3>1, <1>0 DEF IInv, AnchorInvariant, VerifiedIsRootOrPast, TypeOK
    <3> QED
      BY <3>1, <3>2 DEF IInv, AnchorInvariant, AnchorAgreement, MemoryIsDurable,
                        PendingIsOneStep, SignedIsPendingOrPast, SignedIsDurable
  <2>2. CASE ConfirmSave(c)
    <3>1. mem = disk /\ disk.pending /\ root = disk.log /\ Len(disk.prev) < Len(root)
      BY <2>2, ConfirmationIsTrue
    <3>2. /\ disk' = [disk EXCEPT !.pending = FALSE]
          /\ UNCHANGED <<signed, root, payload>> /\ lock' # Free
      BY <2>2, <3>1 DEF ConfirmSave, vaultVars
    <3>3. ~disk'.pending /\ disk'.log = disk.log
      BY <3>2, <1>0 DEF TypeOK, State
    <3>4. AnchorAgreement' /\ MemoryIsDurable' /\ PendingIsOneStep'
      BY <3>1, <3>2, <3>3 DEF AnchorAgreement, MemoryIsDurable, PendingIsOneStep
    <3>5. SignedIsPendingOrPast' /\ SignedIsDurable'
      BY <3>1, <3>2, <3>3 DEF IInv, AnchorInvariant, SignedIsPendingOrPast, SignedIsDurable
    <3>6. VerifiedIsRootOrPast'
      BY <2>2, <3>2, <1>0, OthersStay
        DEF ConfirmSave, IInv, AnchorInvariant, VerifiedIsRootOrPast
    <3> QED
      BY <3>4, <3>5, <3>6 DEF AnchorInvariant
  <2>3. CASE ConfirmAssign(c) \/ ConfirmNoChange(c)
    <3>1. /\ UNCHANGED <<disk, signed, root>>
          /\ mem' = disk \/ UNCHANGED <<mem, lock>>
          /\ payload' = [payload EXCEPT ![c] = <<>>]
          /\ pc' = [pc EXCEPT ![c] = "idle"]
      BY <2>3 DEF ConfirmAssign, ConfirmNoChange, Return, vaultVars
    <3>2. VerifiedIsRootOrPast'
      BY <3>1, <1>0 DEF IInv, AnchorInvariant, VerifiedIsRootOrPast, TypeOK
    <3> QED
      BY <3>1, <3>2 DEF IInv, AnchorInvariant, AnchorAgreement, MemoryIsDurable,
                        PendingIsOneStep, SignedIsPendingOrPast, SignedIsDurable
  <2> QED
    BY <1>3, <2>1, <2>2, <2>3 DEF Confirmation
<1>4. ASSUME NEW h \in Handlers, Abandon(h)
      PROVE  AnchorInvariant'
  BY <1>4, Undisturbed DEF Abandon, vaultVars
<1>5. CASE Crash
  <2>1. UNCHANGED <<disk, signed, root>> /\ mem' = disk
    BY <1>5 DEF Crash, vaultVars
  <2>2. \A c \in Confirmations : pc'[c] # "verified"
    BY <1>5 DEF Crash, InFlight
  <2> QED
    BY <2>1, <2>2 DEF IInv, AnchorInvariant, AnchorAgreement, MemoryIsDurable,
                      PendingIsOneStep, SignedIsPendingOrPast, SignedIsDurable,
                      VerifiedIsRootOrPast
<1>6. ASSUME NEW s \in known, ExecuteSettlement(s)
      PROVE  AnchorInvariant'
  <2>1. /\ disk.pending /\ root = disk.prev /\ root' = disk.log
        /\ Len(root') = Len(root) + 1 /\ Len(root) \in Nat
    BY <1>6, <1>0, AcceptedIsPending DEF TypeOK
  <2>2. UNCHANGED <<mem, disk, lock, pc, payload, signed>>
    BY <1>6 DEF ExecuteSettlement, handlerVars
  <2>3. AnchorAgreement' /\ MemoryIsDurable' /\ PendingIsOneStep' /\ SignedIsDurable'
    BY <2>1, <2>2 DEF IInv, AnchorInvariant, AnchorAgreement, MemoryIsDurable,
                      PendingIsOneStep, SignedIsDurable
  <2>4. SignedIsPendingOrPast'
    BY <2>1, <2>2 DEF IInv, AnchorInvariant, SignedIsPendingOrPast
  <2>5. VerifiedIsRootOrPast'
    <3>1. \A c \in Confirmations : Len(payload[c]) \in Nat
      BY <1>0 DEF TypeOK
    <3> QED
      BY <2>1, <2>2, <3>1 DEF IInv, AnchorInvariant, VerifiedIsRootOrPast
  <2> QED
    BY <2>3, <2>4, <2>5 DEF AnchorInvariant
<1>7. ASSUME NEW s \in known, Expire(s)
      PROVE  AnchorInvariant'
  BY <1>7, Undisturbed DEF Expire, handlerVars, vaultVars
<1>8. ASSUME NEW b \in BOOLEAN, SetPaused(b)
      PROVE  AnchorInvariant'
  BY <1>8, Undisturbed DEF SetPaused, handlerVars
<1>9. CASE UNCHANGED vars
  BY <1>9, Undisturbed DEF vars
<1> QED
  BY <1>1, <1>2, <1>3, <1>4, <1>5, <1>6, <1>7, <1>8, <1>9 DEF Next

\* The invariant holds in every reachable state.
THEOREM Invariant == Spec => []IInv
<1>1. Init => AnchorInvariant
  BY DEF Init, NewState, AnchorInvariant, AnchorAgreement, MemoryIsDurable, PendingIsOneStep,
         SignedIsPendingOrPast, SignedIsDurable, VerifiedIsRootOrPast
<1>2. IInv /\ TypeOK' /\ [Next]_vars => IInv'
  BY InvariantStep DEF IInv
<1>3. Init /\ TypeOK => IInv
  BY <1>1 DEF IInv
<1> QED
  BY <1>2, <1>3, TypeCorrect, PTL DEF Spec

\* The vault's root is the durable ledger's, or one of the two roots of its
\* pending anchor, whatever is lost, late, repeated or crashed.
THEOREM LedgerAndVaultAgree == Spec => []AnchorAgreement
<1>1. IInv => AnchorAgreement
  BY DEF IInv, AnchorInvariant
<1> QED
  BY <1>1, Invariant, PTL

\* What the TEE has signed, a restarted workload still has applied.
THEOREM SignedStatesAreDurable == Spec => []SignedIsDurable
<1>1. IInv => SignedIsDurable
  BY DEF IInv, AnchorInvariant
<1> QED
  BY <1>1, Invariant, PTL

-----------------------------------------------------------------------------
(***************************************************************************)
(* Payments.  A payout is signed only by the request that committed it, of *)
(* which there is one for each operation (Processed), and once: that       *)
(* request is then done.  The vault refuses a settlement id it has used.   *)
(***************************************************************************)
Applied(r) == pc[r] \in {"committed", "mutated", "done"}

AppliedIsProcessed ==
  \A r \in Requests : Applied(r) => Op[r] \in Processed(disk.log)

OneAppliedRequest ==
  \A r, q \in Requests : Applied(r) /\ Applied(q) /\ Op[r] = Op[q] => r = q

SignedByDoneRequest ==
  \A s \in signed : s.request \in Requests =>
    /\ pc[s.request] = "done"
    /\ s.type = SettlementType(s.request)

SignedOnce ==
  \A s, t \in signed : s.request \in Requests /\ s.request = t.request => s = t

PayoutByRequest ==
  \A s \in signed : IsPayout(s) => s.request \in Requests

PaidByUsedSettlement ==
  \A o \in Ops : paid[o] > 0 =>
    \E s \in signed : /\ IsPayout(s)
                      /\ Op[s.request] = o
                      /\ SettlementID(s) \in used

PaymentInvariant ==
  /\ AppliedIsProcessed
  /\ OneAppliedRequest
  /\ SignedByDoneRequest
  /\ SignedOnce
  /\ PayoutByRequest
  /\ PaidByUsedSettlement
  /\ PaidAtMostOnce

\* The last operation of a history is processed, and so is every earlier one.
LEMMA ProcessedAppend ==
  ASSUME NEW s \in Seq(Ops), NEW o \in Ops
  PROVE  Processed(Append(s, o)) = Processed(s) \cup {o}
<1> DEFINE t == Append(s, o)
<1>1. Len(t) = Len(s) + 1 /\ t[Len(s) + 1] = o /\ \A i \in 1..Len(s) : t[i] = s[i]
  OBVIOUS
<1>2. 1..Len(t) = 1..Len(s) \cup {Len(s) + 1}
  BY <1>1
<1> HIDE DEF t
<1>3. Processed(t) \subseteq Processed(s) \cup {o}
  BY <1>1, <1>2 DEF Processed
<1>4. Processed(s) \cup {o} \subseteq Processed(t)
  BY <1>1, <1>2 DEF Processed
<1> QED
  BY <1>3, <1>4 DEF t

\* The durable history never forgets an operation, and changes only when a
\* request commits.
LEMMA DiskStep ==
  ASSUME IInv, [Next]_vars
  PROVE  \/ disk'.log = disk.log
         \/ \E r \in Requests : /\ Commit(r)
                                /\ disk'.log = Append(disk.log, Op[r])
                                /\ Op[r] \in Ops \ Processed(disk.log)
                                /\ root = disk.log /\ root' = root
<1>1. ASSUME NEW r \in Requests, Commit(r)
      PROVE  /\ disk'.log = Append(disk.log, Op[r]) /\ Op[r] \in Ops \ Processed(disk.log)
             /\ root = disk.log /\ root' = root
  BY <1>1 DEF Commit, IInv, AnchorInvariant, MemoryIsDurable, AnchorAgreement, vaultVars
<1>2. ASSUME NEW c \in Confirmations, ConfirmSave(c)
      PROVE  disk'.log = disk.log
  BY <1>2 DEF ConfirmSave, IInv, AnchorInvariant, MemoryIsDurable, TypeOK, State
<1> QED
  BY <1>1, <1>2 DEF Next, vars, Mutation, Deliver, Refuse, Assign, SignMutation,
     SignMutationFails, Recovery, RecoverRead, RecoverSign, RecoverSignFails, Confirmation,
     ConfirmVerify, ConfirmAssign, ConfirmNoChange, Abandon, Crash, ExecuteSettlement, Expire,
     SetPaused

\* The ledger applies an operation once, whatever requests carry its id: mutate
\* refuses the ids it has processed, on the very state it commits over.
THEOREM OperationsApplyOnce == Spec => []AppliedOnce
<1>1. Init => AppliedOnce
  BY DEF Init, NewState, AppliedOnce
<1>2. ASSUME IInv, AppliedOnce, [Next]_vars
      PROVE  AppliedOnce'
  <2>1. disk.log \in Seq(Ops)
    BY <1>2 DEF IInv, TypeOK, State
  <2>2. CASE disk'.log = disk.log
    BY <1>2, <2>2 DEF AppliedOnce
  <2>3. ASSUME NEW r \in Requests, disk'.log = Append(disk.log, Op[r]),
               Op[r] \in Ops \ Processed(disk.log)
        PROVE  AppliedOnce'
    <3>1. /\ Len(disk'.log) = Len(disk.log) + 1 /\ Len(disk.log) \in Nat
          /\ disk'.log[Len(disk.log) + 1] = Op[r]
          /\ \A i \in 1..Len(disk.log) : disk'.log[i] = disk.log[i]
      BY <2>1, <2>3
    <3>2. \A i \in 1..Len(disk.log) : disk.log[i] # Op[r]
      BY <2>3 DEF Processed
    <3>3. \A i, j \in 1..Len(disk.log) : disk.log[i] = disk.log[j] => i = j
      BY <1>2 DEF AppliedOnce
    <3>4. ASSUME NEW i \in 1..Len(disk'.log), NEW j \in 1..Len(disk'.log),
                 disk'.log[i] = disk'.log[j]
          PROVE  i = j
      <4>1. /\ i \in 1..Len(disk.log) \/ i = Len(disk.log) + 1
            /\ j \in 1..Len(disk.log) \/ j = Len(disk.log) + 1
        BY <3>1
      <4> QED
        BY <3>1, <3>2, <3>3, <3>4, <4>1
    <3> QED
      BY <3>4 DEF AppliedOnce
  <2> QED
    BY <1>2, <2>2, <2>3, DiskStep
<1> QED
  BY <1>1, <1>2, Invariant, PTL DEF Spec

\* A request is applied by its own Commit only, and once done it stays done.
LEMMA PlacesStep ==
  ASSUME IInv, [Next]_vars, NEW r \in Requests
  PROVE  /\ Applied(r)' => Applied(r) \/ Commit(r)
         /\ pc[r] = "done" => pc'[r] = "done"
<1>0. pc \in [Handlers -> Places]
  BY DEF IInv, TypeOK
<1>1. ASSUME NEW q \in Requests, Mutation(q)
      PROVE  /\ Applied(r)' => Applied(r) \/ Commit(r)
             /\ pc[r] = "done" => pc'[r] = "done"
  <2>1. CASE Commit(q)
    BY <2>1, <1>0 DEF Commit, Applied
  <2>2. CASE ~Commit(q)
    BY <1>1, <2>2, <1>0 DEF Mutation, Deliver, Refuse, Assign, SignMutation,
       SignMutationFails, Return, Applied
  <2> QED
    BY <2>1, <2>2
<1>2. ASSUME NEW h \in Recoveries, Recovery(h)
      PROVE  pc'[r] = pc[r]
  BY <1>2, <1>0 DEF Recovery, RecoverRead, RecoverSign, RecoverSignFails, Return
<1>3. ASSUME NEW c \in Confirmations, Confirmation(c)
      PROVE  pc'[r] = pc[r]
  BY <1>3, <1>0 DEF Confirmation, ConfirmVerify, ConfirmSave, ConfirmAssign, ConfirmNoChange,
                    Return
<1>4. CASE Crash
  BY <1>4, <1>0 DEF Crash, InFlight, Applied
<1>5. CASE UNCHANGED pc
  BY <1>5 DEF Applied
<1> QED
  BY <1>1, <1>2, <1>3, <1>4, <1>5 DEF Next, vars, Abandon, ExecuteSettlement, Expire, SetPaused,
     handlerVars, Applied

\* What a step can add to the signed settlements.
LEMMA SignedStep ==
  ASSUME IInv, [Next]_vars
  PROVE  \/ signed' = signed
         \/ \E r \in Requests : /\ signed' = signed \cup {SettlementOf(r)}
                                /\ pc[r] = "mutated" /\ pc'[r] = "done"
         \/ \E h \in Recoveries : signed' = signed \cup {SettlementOf(h)}
<1>1. ASSUME NEW r \in Requests, SignMutation(r)
      PROVE  signed' = signed \cup {SettlementOf(r)} /\ pc[r] = "mutated" /\ pc'[r] = "done"
  BY <1>1 DEF SignMutation, Sign, Return, IInv, TypeOK
<1>2. ASSUME NEW h \in Recoveries, RecoverSign(h)
      PROVE  signed' = signed \cup {SettlementOf(h)}
  BY <1>2 DEF RecoverSign, Sign
<1> QED
  BY <1>1, <1>2 DEF Next, vars, Mutation, Deliver, Refuse, Commit, Assign,
     SignMutationFails, Recovery, RecoverRead, RecoverSignFails, Confirmation,
     ConfirmVerify, ConfirmSave, ConfirmAssign, ConfirmNoChange, Abandon, Crash,
     ExecuteSettlement, Expire, SetPaused, vaultVars

\* Only executeSettlement touches the vault's books.
LEMMA VaultStep ==
  ASSUME IInv, [Next]_vars
  PROVE  \/ UNCHANGED <<root, used, paid>>
         \/ \E s \in known : ExecuteSettlement(s)
BY DEF Next, vars, Mutation, Deliver, Refuse, Commit, Assign, SignMutation, Sign,
     SignMutationFails, Recovery, RecoverRead, RecoverSign, RecoverSignFails, Confirmation,
     ConfirmVerify, ConfirmSave, ConfirmAssign, ConfirmNoChange, Abandon, Crash, Expire,
     SetPaused, vaultVars

\* A payout settlement the vault executes pays an operation for the first time.
LEMMA FirstPayment ==
  ASSUME IInv, PaymentInvariant, NEW s \in known, ExecuteSettlement(s), IsPayout(s)
  PROVE  /\ s \in signed /\ s.request \in Requests
         /\ Op[s.request] \in Processed(disk.log)
         /\ Kind[Op[s.request]] \in PayoutKinds
         /\ paid[Op[s.request]] = 0
<1> DEFINE o == Op[s.request]
<1>1. s \in signed /\ s.request \in Requests /\ o \in Ops
  BY DEF IInv, TypeOK, PaymentInvariant, PayoutByRequest
<1>2. pc[s.request] = "done" /\ s.type = SettlementType(s.request)
  BY <1>1 DEF PaymentInvariant, SignedByDoneRequest
<1>3. o \in Processed(disk.log)
  BY <1>1, <1>2 DEF PaymentInvariant, AppliedIsProcessed, Applied
<1>4. Kind[o] \in PayoutKinds
  BY <1>1, <1>2 DEF IsPayout, SettlementType, Kinds
<1>5. paid[o] = 0
  <2> SUFFICES ASSUME paid[o] > 0 PROVE FALSE
    BY <1>1 DEF IInv, TypeOK
  <2>1. PICK t \in signed : IsPayout(t) /\ Op[t.request] = o /\ SettlementID(t) \in used
    BY <1>1 DEF PaymentInvariant, PaidByUsedSettlement
  <2>2. t.request \in Requests /\ pc[t.request] = "done"
    BY <2>1 DEF PaymentInvariant, PayoutByRequest, SignedByDoneRequest
  <2>3. t.request = s.request
    BY <1>1, <1>2, <2>1, <2>2 DEF PaymentInvariant, OneAppliedRequest, Applied
  <2>4. t = s
    BY <1>1, <2>1, <2>2, <2>3 DEF PaymentInvariant, SignedOnce
  <2> QED
    BY <2>1, <2>4 DEF ExecuteSettlement
<1> QED
  BY <1>1, <1>3, <1>4, <1>5

\* Every step preserves the payment invariant.
THEOREM PaymentStep ==
  IInv /\ IInv' /\ PaymentInvariant /\ [Next]_vars => PaymentInvariant'
<1> SUFFICES ASSUME IInv, IInv', PaymentInvariant, [Next]_vars
             PROVE  PaymentInvariant'
  OBVIOUS
<1>0. disk.log \in Seq(Ops) /\ \A r \in Requests : Op[r] \in Ops
  BY DEF IInv, TypeOK, State
<1>1. Processed(disk.log) \subseteq Processed(disk.log)'
  BY <1>0, DiskStep, ProcessedAppend DEF Processed
<1>2. AppliedIsProcessed'
  <2> SUFFICES ASSUME NEW r \in Requests, Applied(r)'
               PROVE  Op[r] \in Processed(disk.log)'
    BY DEF AppliedIsProcessed
  <2>1. CASE Applied(r)
    BY <2>1, <1>1 DEF PaymentInvariant, AppliedIsProcessed
  <2>2. CASE Commit(r)
    <3>1. disk'.log = Append(disk.log, Op[r])
      BY <2>2 DEF Commit, IInv, AnchorInvariant, MemoryIsDurable
    <3> QED
      BY <3>1, <1>0, ProcessedAppend
  <2> QED
    BY <2>1, <2>2, PlacesStep
<1>3. OneAppliedRequest'
  <2>1. \A r \in Requests : Commit(r) => \A q \in Requests : Applied(q) => Op[q] # Op[r]
    BY DEF PaymentInvariant, AppliedIsProcessed, Commit, IInv, AnchorInvariant, MemoryIsDurable
  <2>2. \A r, q \in Requests : Commit(r) /\ Commit(q) => r = q
    BY DEF Commit
  <2> QED
    BY <2>1, <2>2, PlacesStep DEF PaymentInvariant, OneAppliedRequest
<1>4. SignedByDoneRequest' /\ SignedOnce' /\ PayoutByRequest'
  <2>1. CASE signed' = signed
    BY <2>1, PlacesStep
      DEF PaymentInvariant, SignedByDoneRequest, SignedOnce, PayoutByRequest
  <2>2. ASSUME NEW r \in Requests, signed' = signed \cup {SettlementOf(r)},
               pc[r] = "mutated", pc'[r] = "done"
        PROVE  SignedByDoneRequest' /\ SignedOnce' /\ PayoutByRequest'
    <3>1. SettlementOf(r).request = r /\ SettlementOf(r).type = SettlementType(r)
      BY DEF SettlementOf
    <3>2. \A s \in signed : s.request # r
      BY <2>2 DEF PaymentInvariant, SignedByDoneRequest
    <3> QED
      BY <2>2, <3>1, <3>2, PlacesStep
        DEF PaymentInvariant, SignedByDoneRequest, SignedOnce, PayoutByRequest
  <2>3. ASSUME NEW h \in Recoveries, signed' = signed \cup {SettlementOf(h)}
        PROVE  SignedByDoneRequest' /\ SignedOnce' /\ PayoutByRequest'
    <3>1. /\ SettlementOf(h).request \notin Requests
          /\ ~IsPayout(SettlementOf(h))
      BY <2>3 DEF SettlementOf, SettlementType, IsPayout
    <3> QED
      BY <2>3, <3>1, PlacesStep
        DEF PaymentInvariant, SignedByDoneRequest, SignedOnce, PayoutByRequest
  <2> QED
    BY <2>1, <2>2, <2>3, SignedStep
<1>5. PaidByUsedSettlement' /\ PaidAtMostOnce'
  <2>1. CASE UNCHANGED <<root, used, paid>>
    <3>1. signed \subseteq signed'
      BY SignedStep
    <3> QED
      BY <2>1, <3>1 DEF PaymentInvariant, PaidByUsedSettlement, PaidAtMostOnce
  <2>2. ASSUME NEW s \in known, ExecuteSettlement(s)
        PROVE  PaidByUsedSettlement' /\ PaidAtMostOnce'
    <3>1. /\ signed' = signed /\ used' = used \cup {SettlementID(s)}
          /\ paid \in [Ops -> Nat]
      BY <2>2 DEF ExecuteSettlement, IInv, TypeOK
    <3>2. Processed(root) \subseteq Processed(root') /\ Processed(root') = Processed(disk.log)
      <4>1. root' = disk.log /\ root = disk.prev /\ Prefix(disk.prev, disk.log)
        BY <2>2, AcceptedIsPending DEF IInv, AnchorInvariant, PendingIsOneStep
      <4>2. Len(disk.prev) \in Nat /\ Len(disk.log) \in Nat
        BY DEF IInv, TypeOK, State
      <4> QED
        BY <4>1, <4>2 DEF Prefix, Processed
    <3>3. CASE IsPayout(s)
      <4>1. /\ s \in signed /\ Op[s.request] \in Ops /\ Op[s.request] \in Processed(root')
            /\ Kind[Op[s.request]] \in PayoutKinds /\ paid[Op[s.request]] = 0
        BY <2>2, <3>2, <3>3, <1>0, FirstPayment
      <4>2. \A o \in Ops : paid'[o] = IF o = Op[s.request] THEN 1 ELSE paid[o]
        BY <2>2, <3>1, <3>3, <4>1 DEF ExecuteSettlement
      <4> QED
        BY <3>1, <3>2, <3>3, <4>1, <4>2
          DEF PaymentInvariant, PaidByUsedSettlement, PaidAtMostOnce
    <3>4. CASE ~IsPayout(s)
      <4>1. paid' = paid
        BY <2>2, <3>4 DEF ExecuteSettlement
      <4> QED
        BY <3>1, <3>2, <4>1 DEF PaymentInvariant, PaidByUsedSettlement, PaidAtMostOnce
    <3> QED
      BY <3>3, <3>4
  <2> QED
    BY <2>1, <2>2, VaultStep
<1> QED
  BY <1>2, <1>3, <1>4, <1>5 DEF PaymentInvariant

\* The payment invariant holds in every reachable state.
THEOREM Payments == Spec => [](IInv /\ PaymentInvariant)
<1>1. Init => PaymentInvariant
  BY DEF Init, PaymentInvariant, AppliedIsProcessed, OneAppliedRequest, Applied,
         SignedByDoneRequest, SignedOnce, PayoutByRequest, PaidByUsedSettlement, PaidAtMostOnce
<1> QED
  BY <1>1, Invariant, PaymentStep, PTL DEF Spec

\* The vault pays an operation once at most, after the ledger has debited it.
THEOREM NoDoublePayment == Spec => []PaidAtMostOnce
<1>1. PaymentInvariant => PaidAtMostOnce
  BY DEF PaymentInvariant
<1> QED
  BY <1>1, Payments, PTL

-----------------------------------------------------------------------------
(***************************************************************************)
(* Steps: history only grows, and the abstract ledger is implemented       *)
(***************************************************************************)
\* The store's history and the vault's root are extended, never rewritten.
THEOREM HistoryIsAppendOnly == Spec => HistoryOnlyGrows
<1>1. ASSUME IInv, [Next]_vars
      PROVE  /\ Prefix(disk.log, disk'.log) /\ Len(disk'.log) <= Len(disk.log) + 1
             /\ Prefix(root, root') /\ Len(root') <= Len(root) + 1
  <2>1. disk.log \in Seq(Ops) /\ root \in Seq(Ops) /\ Len(disk.log) \in Nat /\ Len(root) \in Nat
    BY <1>1 DEF IInv, TypeOK, State
  <2>2. Prefix(disk.log, disk'.log) /\ Len(disk'.log) <= Len(disk.log) + 1
    <3>1. CASE disk'.log = disk.log
      BY <2>1, <3>1, PrefixReflexive
    <3>2. ASSUME NEW r \in Requests, disk'.log = Append(disk.log, Op[r]), Op[r] \in Ops
          PROVE  Prefix(disk.log, disk'.log) /\ Len(disk'.log) <= Len(disk.log) + 1
      BY <2>1, <3>2, PrefixReflexive, PrefixAppend
    <3> QED
      BY <1>1, <3>1, <3>2, DiskStep
  <2>3. Prefix(root, root') /\ Len(root') <= Len(root) + 1
    <3>1. CASE root' = root
      BY <2>1, <3>1, PrefixReflexive
    <3>2. ASSUME NEW s \in known, ExecuteSettlement(s)
          PROVE  Prefix(root, root') /\ Len(root') <= Len(root) + 1
      BY <1>1, <2>1, <3>2, AcceptedIsPending DEF IInv, AnchorInvariant, PendingIsOneStep
    <3> QED
      BY <1>1, <3>1, <3>2, VaultStep
  <2> QED
    BY <2>2, <2>3
<1> QED
  BY <1>1, Invariant, PTL DEF Spec, HistoryOnlyGrows

\* A step of the protocol is a step of the abstract ledger, or changes nothing
\* in it: Commit applies, ExecuteSettlement settles.
LEMMA AbstractStep ==
  ASSUME IInv, PaymentInvariant, [Next]_vars
  PROVE  [Abstract!Next]_(Abstract!ledgerVars)
<1> DEFINE PaidOps == {o \in Ops : paid[o] > 0}
<1>0. Abstract!Applied = Processed(disk.log)
  BY DEF Abstract!Applied, Processed
<1>1. CASE UNCHANGED <<root, used, paid>> /\ disk'.log = disk.log
  BY <1>1 DEF Abstract!ledgerVars
<1>2. ASSUME NEW r \in Requests, disk'.log = Append(disk.log, Op[r]),
             Op[r] \in Ops \ Processed(disk.log), root = disk.log,
             UNCHANGED <<root, used, paid>>
      PROVE  Abstract!Next
  <2>1. Abstract!Apply(Op[r])
    BY <1>2, <1>0 DEF Abstract!Apply
  <2> QED
    BY <1>2, <2>1 DEF Abstract!Next
<1>3. ASSUME NEW s \in known, ExecuteSettlement(s)
      PROVE  Abstract!Next
  <2>1. /\ disk.pending /\ root = disk.prev /\ root' = disk.log
        /\ Len(root') = Len(root) + 1 /\ Len(root) \in Nat
    BY <1>3, AcceptedIsPending DEF IInv, TypeOK
  <2>2. disk' = disk /\ root # disk.log
    BY <1>3, <2>1 DEF ExecuteSettlement
  <2>3. CASE IsPayout(s)
    <3> DEFINE o == Op[s.request]
    <3>1. /\ o \in Processed(disk.log) /\ Kind[o] \in PayoutKinds /\ paid[o] = 0
          /\ o \in Ops /\ paid \in [Ops -> Nat]
      BY <1>3, <2>3, FirstPayment DEF IInv, TypeOK
    <3>2. paid' = [paid EXCEPT ![o] = @ + 1]
      BY <1>3, <2>3 DEF ExecuteSettlement
    <3> HIDE DEF o
    <3>3. {x \in Ops : paid'[x] > 0} = PaidOps \cup {o}
      BY <3>1, <3>2
    <3>4. Abstract!Settle({o})
      BY <2>1, <2>2, <3>3 DEF Abstract!Settle
    <3>5. o \in (Abstract!Applied \cap {x \in Ops : Kind[x] \in PayoutKinds}) \ PaidOps
      BY <3>1, <1>0
    <3> QED
      BY <3>4, <3>5 DEF Abstract!Next
  <2>4. CASE ~IsPayout(s)
    <3>1. paid' = paid
      BY <1>3, <2>4 DEF ExecuteSettlement
    <3>2. Abstract!Settle({})
      BY <2>1, <2>2, <3>1 DEF Abstract!Settle
    <3> QED
      BY <3>2 DEF Abstract!Next
  <2> QED
    BY <2>3, <2>4
<1>4. \A s \in known : ExecuteSettlement(s) => disk' = disk
  BY DEF ExecuteSettlement
<1>5. \A s \in known : ExecuteSettlement(s) => ~UNCHANGED root
  BY AcceptedIsPending DEF IInv, TypeOK
<1> QED
  BY <1>1, <1>2, <1>3, <1>4, <1>5, DiskStep, VaultStep

\* The protocol implements the abstract ledger of AnchoredLedger.
THEOREM Implementation == Spec => ImplementsAnchoredLedger
<1>1. Init => Abstract!Init
  BY DEF Init, NewState, Abstract!Init
<1> QED
  BY <1>1, AbstractStep, Payments, PTL DEF Spec, ImplementsAnchoredLedger, Abstract!Spec

-----------------------------------------------------------------------------
(***************************************************************************)
(* Until a handler of a checkpoint has signed over a fund movement that    *)
(* overtook it, each settlement pays the operation it settles.  The        *)
(* request that has committed a fund movement, and not signed it yet, has  *)
(* the pending anchor for itself: a recovery that checked an earlier       *)
(* anchor, or a handler that committed one, is overtaken if it signs now,  *)
(* and a recovery that checks this one refuses.                            *)
(***************************************************************************)
Owns(r) == pc[r] \in {"committed", "mutated"} /\ Kind[Op[r]] \in PayoutKinds

CheckedIsRecoverable ==
  \A h \in Recoveries : pc[h] = "checked" => Recoverable(Kind[LastOp(payload[h])])

SignedByKind ==
  \A s \in signed :
    IF IsPayout(s) THEN s.request \in Requests /\ LastOp(s.next) = Op[s.request]
                   ELSE Kind[LastOp(s.next)] \notin PayoutKinds

OwnerIsPending ==
  \A r \in Requests : Owns(r) =>
    /\ disk.pending /\ LastOp(disk.log) = Op[r]
    /\ root # disk.log
    /\ \A s \in signed : s.next # disk.log

OneOwner == \A r, q \in Requests : Owns(r) /\ Owns(q) => r = q

PaysAsItSettles == SignedByKind /\ OwnerIsPending /\ OneOwner /\ NoPayoutSkipped

ExactInvariant == CheckedIsRecoverable /\ (NoStaleCheckpoint => PaysAsItSettles)

\* A kind is that of a checkpoint or that of a fund movement.
LEMMA KindsAreDisjoint == CheckpointKinds \cap PayoutKinds = {}
BY DEF CheckpointKinds, PayoutKinds, WithdrawalKinds

\* What a step does to the place of a request that owns the pending anchor.
LEMMA OwnerStep ==
  ASSUME IInv, [Next]_vars, NEW r \in Requests, Owns(r)'
  PROVE  Owns(r) \/ Commit(r)
<1>1. r \in Handlers /\ pc \in [Handlers -> Places]
  BY DEF IInv, TypeOK
<1>2. CASE UNCHANGED pc
  BY <1>2 DEF Owns
<1>3. ASSUME NEW q \in Requests, Mutation(q)
      PROVE  Owns(r) \/ Commit(r)
  BY <1>1, <1>3 DEF Mutation, Deliver, Refuse, Commit, Assign, SignMutation, SignMutationFails,
                    Return, Owns
<1>4. ASSUME NEW h \in Recoveries, Recovery(h)
      PROVE  Owns(r)
  BY <1>1, <1>4 DEF Recovery, RecoverRead, RecoverSign, RecoverSignFails, Return, Owns
<1>5. ASSUME NEW c \in Confirmations, Confirmation(c)
      PROVE  Owns(r)
  BY <1>1, <1>5 DEF Confirmation, ConfirmVerify, ConfirmSave, ConfirmAssign, ConfirmNoChange,
                    Return, Owns
<1>6. CASE Crash
  BY <1>1, <1>6 DEF Crash, Owns, InFlight
<1> QED
  BY <1>2, <1>3, <1>4, <1>5, <1>6 DEF Next, vars, Abandon, ExecuteSettlement, Expire, SetPaused,
     handlerVars

\* The store changes when a request commits or a confirmation is saved.
LEMMA StoreStep ==
  ASSUME IInv, [Next]_vars
  PROVE  \/ disk' = disk
         \/ \E r \in Requests : Commit(r)
         \/ \E c \in Confirmations : ConfirmSave(c)
BY DEF Next, vars, Mutation, Deliver, Refuse, Assign, SignMutation,
     SignMutationFails, Recovery, RecoverRead, RecoverSign, RecoverSignFails, Confirmation,
     ConfirmVerify, ConfirmAssign, ConfirmNoChange, Abandon, Crash, ExecuteSettlement, Expire,
     SetPaused

\* A handler signs the anchor that the store holds as pending, and changes neither the store
\* nor the vault.
LEMMA SignerStep ==
  ASSUME IInv, [Next]_vars
  PROVE  \/ signed' = signed
         \/ /\ mem = disk /\ disk.pending /\ disk' = disk /\ root' = root
            /\ \E h \in Requests \cup Recoveries :
                 /\ signed' = signed \cup {SettlementOf(h)}
                 /\ IF h \in Requests THEN pc[h] = "mutated" /\ pc'[h] = "done"
                                      ELSE pc[h] = "checked"
<1>1. ASSUME NEW r \in Requests, SignMutation(r)
      PROVE  /\ signed' = signed \cup {SettlementOf(r)} /\ pc[r] = "mutated" /\ pc'[r] = "done"
             /\ mem = disk /\ disk.pending /\ disk' = disk /\ root' = root
  BY <1>1 DEF SignMutation, Sign, Return, IInv, TypeOK, AnchorInvariant, MemoryIsDurable, vaultVars
<1>2. ASSUME NEW h \in Recoveries, RecoverSign(h)
      PROVE  /\ signed' = signed \cup {SettlementOf(h)} /\ pc[h] = "checked"
             /\ mem = disk /\ disk.pending /\ disk' = disk /\ root' = root
  BY <1>2 DEF RecoverSign, Sign, IInv, AnchorInvariant, MemoryIsDurable, vaultVars
<1>3. \/ signed' = signed
      \/ \E r \in Requests : SignMutation(r)
      \/ \E h \in Recoveries : RecoverSign(h)
  BY DEF Next, vars, Mutation, Deliver, Refuse, Commit, Assign,
     SignMutationFails, Recovery, RecoverRead, RecoverSignFails, Confirmation, ConfirmVerify,
     ConfirmSave, ConfirmAssign, ConfirmNoChange, Abandon, Crash, ExecuteSettlement, Expire,
     SetPaused
<1> QED
  BY <1>1, <1>2, <1>3

\* The signatures of a state are still there in the next.
LEMMA StaleStaysStale ==
  ASSUME IInv, [Next]_vars, NoStaleCheckpoint'
  PROVE  NoStaleCheckpoint
<1>1. signed \subseteq signed'
  BY SignedStep
<1> QED
  BY <1>1 DEF NoStaleCheckpoint, SignsCheckpoint

\* Between its two reads a recovery keeps the anchor whose kind it has checked.
LEMMA CheckedStep ==
  ASSUME IInv, CheckedIsRecoverable, [Next]_vars
  PROVE  CheckedIsRecoverable'
<1> SUFFICES ASSUME NEW h \in Recoveries, pc'[h] = "checked"
             PROVE  Recoverable(Kind[LastOp(payload'[h])])
  BY DEF CheckedIsRecoverable
<1>1. /\ pc \in [Handlers -> Places] /\ h \in Handlers
      /\ payload \in [Recoveries \cup Confirmations -> Seq(Ops)]
      /\ pc[h] = "checked" => Recoverable(Kind[LastOp(payload[h])])
  BY DEF IInv, TypeOK, CheckedIsRecoverable
<1>2. ASSUME NEW r \in Requests, Mutation(r)
      PROVE  pc[h] = "checked" /\ payload'[h] = payload[h]
  BY <1>1, <1>2 DEF Mutation, Deliver, Refuse, Commit, Assign, SignMutation, SignMutationFails,
                    Return
<1>3. ASSUME NEW g \in Recoveries, Recovery(g)
      PROVE  \/ pc[h] = "checked" /\ payload'[h] = payload[h]
             \/ Recoverable(Kind[LastOp(payload'[h])])
  <2>1. CASE RecoverRead(g)
    BY <1>1, <2>1 DEF RecoverRead
  <2>2. CASE RecoverSign(g) \/ RecoverSignFails(g)
    BY <1>1, <2>2 DEF RecoverSign, RecoverSignFails, Return
  <2> QED
    BY <1>3, <2>1, <2>2 DEF Recovery
<1>4. ASSUME NEW c \in Confirmations, Confirmation(c)
      PROVE  pc[h] = "checked" /\ payload'[h] = payload[h]
  BY <1>1, <1>4 DEF Confirmation, ConfirmVerify, ConfirmSave, ConfirmAssign, ConfirmNoChange,
                    Return
<1>5. CASE Crash
  BY <1>1, <1>5 DEF Crash, InFlight
<1>6. CASE UNCHANGED <<pc, payload>>
  BY <1>1, <1>6
<1> QED
  BY <1>1, <1>2, <1>3, <1>4, <1>5, <1>6 DEF Next, vars, Abandon, ExecuteSettlement, Expire,
     SetPaused, handlerVars

\* A payout is signed over its own operation, a checkpoint over no payout.
LEMMA SignedByKindStep ==
  ASSUME IInv, CheckedIsRecoverable, PaysAsItSettles, [Next]_vars, NoStaleCheckpoint'
  PROVE  SignedByKind'
<1>1. CASE signed' = signed
  BY <1>1 DEF PaysAsItSettles, SignedByKind
<1>2. ASSUME NEW h \in Requests \cup Recoveries, signed' = signed \cup {SettlementOf(h)},
             IF h \in Requests THEN pc[h] = "mutated" ELSE pc[h] = "checked",
             mem = disk
      PROVE  SignedByKind'
  <2> DEFINE s == SettlementOf(h)
  <2>1. /\ s.request = h /\ s.next = disk.log /\ s.type = SettlementType(h)
        /\ s.overtaken = Overtaken(h) /\ s \in signed'
    BY <1>2 DEF SettlementOf
  <2> HIDE DEF s
  <2>2. CASE h \in Requests /\ Kind[Op[h]] \in PayoutKinds
    <3>1. LastOp(disk.log) = Op[h]
      BY <1>2, <2>2 DEF PaysAsItSettles, OwnerIsPending, Owns
    <3>2. IsPayout(s)
      BY <2>1, <2>2, KindsAreDisjoint DEF SettlementType, IsPayout
    <3> QED
      BY <1>2, <2>1, <2>2, <3>1, <3>2 DEF PaysAsItSettles, SignedByKind, s
  <2>3. CASE ~(h \in Requests /\ Kind[Op[h]] \in PayoutKinds)
    <3>1. SignsCheckpoint(h)
      BY <2>3 DEF SignsCheckpoint, Kinds
    <3>2. ~IsPayout(s)
      BY <2>1, <3>1 DEF SettlementType, IsPayout, SignsCheckpoint
    <3>3. CASE Overtaken(h)
      <4>1. Kind[LastOp(s.next)] \notin PayoutKinds
        BY <2>1, <3>1, <3>3 DEF NoStaleCheckpoint, SignsCheckpoint
      <4> QED
        BY <1>2, <3>2, <4>1 DEF PaysAsItSettles, SignedByKind, s
    <3>4. CASE ~Overtaken(h)
      <4>1. Kind[LastOp(disk.log)] \in CheckpointKinds
        BY <1>2, <3>1, <3>4 DEF Overtaken, SignsCheckpoint, CheckedIsRecoverable, Recoverable
      <4> QED
        BY <1>2, <2>1, <3>2, <4>1, KindsAreDisjoint DEF PaysAsItSettles, SignedByKind, s
    <3> QED
      BY <3>3, <3>4
  <2> QED
    BY <2>2, <2>3
<1> QED
  BY <1>1, <1>2, SignerStep

\* The vault takes a root from a settlement of its last operation, and pays that operation
\* if it moves funds.
LEMMA ExactPayment ==
  ASSUME IInv, PaymentInvariant, SignedByKind, NEW s \in known, ExecuteSettlement(s)
  PROVE  /\ disk.log # <<>> /\ LastOp(disk.log) \in Ops
         /\ root' = s.next /\ s.next = disk.log
         /\ Processed(disk.log) = Processed(root) \cup {LastOp(disk.log)}
         /\ IF Kind[LastOp(disk.log)] \in PayoutKinds
              THEN /\ paid' = [paid EXCEPT ![LastOp(disk.log)] = @ + 1]
                   /\ paid[LastOp(disk.log)] = 0
              ELSE paid' = paid
<1>1. /\ root = disk.prev /\ root' = disk.log /\ Len(root') = Len(root) + 1
      /\ root' = s.next /\ Prefix(disk.prev, disk.log)
      /\ disk.prev \in Seq(Ops) /\ disk.log \in Seq(Ops)
  BY AcceptedIsPending DEF ExecuteSettlement, IInv, AnchorInvariant, PendingIsOneStep, TypeOK, State
<1>2. disk.log = Append(disk.prev, LastOp(disk.log)) /\ LastOp(disk.log) \in Ops
  BY <1>1 DEF Prefix, LastOp
<1>3. Processed(disk.log) = Processed(disk.prev) \cup {LastOp(disk.log)}
  BY <1>1, <1>2, ProcessedAppend
<1>4. disk.log # <<>>
  BY <1>1
<1>5. s \in signed
  BY DEF IInv, TypeOK
<1>6. CASE IsPayout(s)
  <2>1. s.request \in Requests /\ LastOp(disk.log) = Op[s.request]
    BY <1>1, <1>5, <1>6 DEF SignedByKind
  <2>2. Kind[Op[s.request]] \in PayoutKinds /\ paid[Op[s.request]] = 0
    BY <1>6, FirstPayment
  <2>3. paid' = [paid EXCEPT ![Op[s.request]] = @ + 1]
    BY <1>6 DEF ExecuteSettlement
  <2> QED
    BY <1>1, <1>2, <1>3, <1>4, <2>1, <2>2, <2>3
<1>7. CASE ~IsPayout(s)
  <2>1. Kind[LastOp(disk.log)] \notin PayoutKinds
    BY <1>1, <1>5, <1>7 DEF SignedByKind
  <2>2. paid' = paid
    BY <1>7 DEF ExecuteSettlement
  <2> QED
    BY <1>1, <1>2, <1>3, <1>4, <2>1, <2>2
<1> QED
  BY <1>6, <1>7

\* A request commits a fund movement over a ledger that nobody else owns.
LEMMA CommitIsAlone ==
  ASSUME IInv, PaysAsItSettles, NEW r \in Requests, Commit(r)
  PROVE  /\ \A q \in Requests : ~Owns(q)
         /\ disk'.pending /\ disk'.log = Append(disk.log, Op[r]) /\ root' = root
         /\ signed' = signed /\ root = disk.log
<1>1. mem = disk /\ ~disk.pending /\ root' = root /\ signed' = signed
  BY DEF Commit, IInv, AnchorInvariant, MemoryIsDurable, vaultVars
<1>2. disk'.pending /\ disk'.log = Append(disk.log, Op[r])
  BY <1>1 DEF Commit
<1> QED
  BY <1>1, <1>2 DEF PaysAsItSettles, OwnerIsPending, IInv, AnchorInvariant, AnchorAgreement

\* The pending anchor of a fund movement stays its owner's until the owner has signed.
LEMMA OwnerIsPendingStep ==
  ASSUME IInv, PaymentInvariant, PaysAsItSettles, [Next]_vars, SignedByKind'
  PROVE  OwnerIsPending'
<1> SUFFICES ASSUME NEW r \in Requests, Owns(r)'
             PROVE  /\ disk'.pending /\ LastOp(disk'.log) = Op[r]
                    /\ root' # disk'.log
                    /\ \A s \in signed' : s.next # disk'.log
  BY DEF OwnerIsPending
<1>0. Op[r] \in Ops /\ disk.log \in Seq(Ops) /\ Len(disk.log) \in Nat
  BY DEF IInv, TypeOK, State
<1>1. CASE Commit(r)
  <2>1. /\ disk'.pending /\ disk'.log = Append(disk.log, Op[r]) /\ root' = disk.log
        /\ signed' = signed
    BY <1>1, CommitIsAlone
  <2>2. LastOp(disk'.log) = Op[r] /\ Len(disk'.log) = Len(disk.log) + 1
    BY <1>0, <2>1 DEF LastOp
  <2>3. \A s \in signed : Len(s.next) <= Len(disk.log)
    BY DEF IInv, AnchorInvariant, SignedIsDurable, Prefix
  <2> QED
    BY <1>0, <2>1, <2>2, <2>3
<1>2. CASE ~Commit(r)
  <2>1. Owns(r)
    BY <1>2, OwnerStep
  <2>2. /\ disk.pending /\ LastOp(disk.log) = Op[r] /\ root # disk.log
        /\ \A s \in signed : s.next # disk.log
    BY <2>1 DEF PaysAsItSettles, OwnerIsPending
  <2>3. \A c \in Confirmations : ~ConfirmSave(c)
    BY <2>2, ConfirmationIsTrue
  <2>4. disk' = disk
    BY <2>1, <2>3, StoreStep, CommitIsAlone
  <2>5. signed' = signed
    <3> SUFFICES ASSUME NEW h \in Requests \cup Recoveries, mem = disk,
                        signed' = signed \cup {SettlementOf(h)},
                        h \in Requests => pc[h] = "mutated" /\ pc'[h] = "done"
                 PROVE  FALSE
      BY SignerStep
    <3> DEFINE s == SettlementOf(h)
    <3>1. s \in signed' /\ s.request = h /\ s.next = disk.log /\ s.type = SettlementType(h)
      BY DEF SettlementOf
    <3> HIDE DEF s
    <3>2. Kind[LastOp(s.next)] \in PayoutKinds
      BY <2>1, <2>2, <3>1 DEF Owns
    <3>3. IsPayout(s) /\ h \in Requests
      BY <3>1, <3>2 DEF SignedByKind
    <3>4. Kind[Op[h]] \in PayoutKinds
      BY <3>1, <3>3 DEF IsPayout, SettlementType, Kinds
    <3>5. h = r
      BY <2>1, <3>3, <3>4 DEF PaysAsItSettles, OneOwner, Owns
    <3> QED
      BY <3>3, <3>5 DEF Owns
  <2>6. root' # disk.log
    <3>1. CASE root' = root
      BY <2>2, <3>1
    <3>2. ASSUME NEW s \in known, ExecuteSettlement(s) PROVE FALSE
      <4>1. s \in signed /\ s.next = disk.log
        BY <3>2, ExactPayment DEF PaysAsItSettles, IInv, TypeOK
      <4> QED
        BY <2>2, <4>1
    <3> QED
      BY <3>1, <3>2, VaultStep
  <2> QED
    BY <2>2, <2>4, <2>5, <2>6
<1> QED
  BY <1>1, <1>2

LEMMA ExactStep ==
  ASSUME IInv, PaymentInvariant, ExactInvariant, [Next]_vars
  PROVE  ExactInvariant'
<1>1. CheckedIsRecoverable /\ CheckedIsRecoverable'
  BY CheckedStep DEF ExactInvariant
<1>2. ASSUME NoStaleCheckpoint' PROVE PaysAsItSettles'
  <2>1. PaysAsItSettles
    BY <1>2, StaleStaysStale DEF ExactInvariant
  <2>2. SignedByKind'
    BY <1>1, <1>2, <2>1, SignedByKindStep
  <2>3. OwnerIsPending'
    BY <2>1, <2>2, OwnerIsPendingStep
  <2>4. OneOwner'
    <3>1. \A r, q \in Requests : Commit(r) /\ Commit(q) => r = q
      BY DEF Commit
    <3> QED
      BY <2>1, <3>1, CommitIsAlone, OwnerStep DEF PaysAsItSettles, OneOwner
  <2>5. NoPayoutSkipped'
    <3>1. CASE UNCHANGED <<root, used, paid>>
      BY <2>1, <3>1 DEF PaysAsItSettles, NoPayoutSkipped
    <3>2. ASSUME NEW s \in known, ExecuteSettlement(s) PROVE NoPayoutSkipped'
      <4> DEFINE l == LastOp(disk.log)
      <4>1. /\ l \in Ops /\ root' = disk.log /\ Processed(disk.log) = Processed(root) \cup {l}
            /\ IF Kind[l] \in PayoutKinds
                 THEN paid' = [paid EXCEPT ![l] = @ + 1] /\ paid[l] = 0
                 ELSE paid' = paid
        BY <2>1, <3>2, ExactPayment DEF PaysAsItSettles
      <4> HIDE DEF l
      <4>2. paid \in [Ops -> Nat] /\ Processed(root') = Processed(root) \cup {l}
        BY <4>1 DEF IInv, TypeOK
      <4>3. \A o \in Ops : Kind[o] \in PayoutKinds =>
                             paid'[o] = IF o = l THEN 1 ELSE paid[o]
        BY <4>1, <4>2
      <4>4. Processed(root) \subseteq Ops
        BY DEF Processed, IInv, TypeOK
      <4> QED
        BY <2>1, <4>1, <4>2, <4>3, <4>4 DEF PaysAsItSettles, NoPayoutSkipped
    <3> QED
      BY <3>1, <3>2, VaultStep
  <2> QED
    BY <2>2, <2>3, <2>4, <2>5 DEF PaysAsItSettles
<1> QED
  BY <1>1, <1>2 DEF ExactInvariant

LEMMA ExactPayouts == Spec => [](IInv /\ PaymentInvariant /\ ExactInvariant)
<1>1. Init => ExactInvariant
  BY DEF Init, NewState, ExactInvariant, CheckedIsRecoverable, PaysAsItSettles, SignedByKind,
         OwnerIsPending, OneOwner, Owns, NoPayoutSkipped, Processed
<1> QED
  BY <1>1, Payments, ExactStep, PTL DEF Spec

\* Until a handler of a checkpoint has signed over a fund movement that overtook it, every
\* fund movement whose root the vault has taken was paid out, whatever requests, checkpoints
\* and recoveries run beside it, and whatever is lost, paused or crashes.
THEOREM NoPayoutIsSkipped == Spec => []SkippedOnlyIfOvertaken
<1>1. ExactInvariant => SkippedOnlyIfOvertaken
  BY DEF ExactInvariant, PaysAsItSettles, SkippedOnlyIfOvertaken
<1> QED
  BY <1>1, ExactPayouts, PTL

\* ... and as long as none has, each step is one of the ledger whose settlements pay exactly
\* what they settle.
THEOREM ExactImplementation == Spec => ImplementsExactLedger
<1>1. Init => Abstract!Init
  BY DEF Init, NewState, Abstract!Init
<1>2. ASSUME IInv, PaymentInvariant, ExactInvariant, [Next]_vars
      PROVE  [NoStaleCheckpoint' => Abstract!ExactNext]_(Abstract!ledgerVars)
  <2> SUFFICES ASSUME NoStaleCheckpoint'
               PROVE  [Abstract!ExactNext]_(Abstract!ledgerVars)
    OBVIOUS
  <2>0. SignedByKind
    BY <1>2, StaleStaysStale DEF ExactInvariant, PaysAsItSettles
  <2>1. CASE UNCHANGED <<root, used, paid>> /\ disk'.log = disk.log
    BY <2>1 DEF Abstract!ledgerVars
  <2>2. ASSUME NEW r \in Requests, disk'.log = Append(disk.log, Op[r]),
               Op[r] \in Ops \ Processed(disk.log), root = disk.log,
               UNCHANGED <<root, used, paid>>
        PROVE  Abstract!ExactNext
    <3>1. Abstract!Apply(Op[r])
      BY <2>2 DEF Abstract!Apply, Abstract!Applied, Processed
    <3> QED
      BY <2>2, <3>1 DEF Abstract!ExactNext
  <2>3. ASSUME NEW s \in known, ExecuteSettlement(s)
        PROVE  Abstract!ExactNext
    <3> DEFINE l == LastOp(disk.log)
    <3>1. /\ disk.log # <<>> /\ l \in Ops /\ root' = disk.log
          /\ IF Kind[l] \in PayoutKinds
               THEN paid' = [paid EXCEPT ![l] = @ + 1] /\ paid[l] = 0
               ELSE paid' = paid
      BY <1>2, <2>0, <2>3, ExactPayment
    <3>2. disk' = disk /\ root # disk.log /\ paid \in [Ops -> Nat]
      <4>1. Len(root') = Len(root) + 1 /\ root' = disk.log /\ Len(root) \in Nat
        BY <1>2, <2>3, AcceptedIsPending DEF IInv, TypeOK
      <4> QED
        BY <1>2, <2>3, <4>1 DEF ExecuteSettlement, IInv, TypeOK
    <3>3. Abstract!LastPayout = IF Kind[l] \in PayoutKinds THEN {l} ELSE {}
      BY <3>1 DEF Abstract!LastPayout, LastOp
    <3> HIDE DEF l
    <3>4. {x \in Ops : paid'[x] > 0} = {o \in Ops : paid[o] > 0} \cup Abstract!LastPayout
      BY <3>1, <3>2, <3>3
    <3>5. Abstract!Settle(Abstract!LastPayout)
      BY <3>1, <3>2, <3>4 DEF Abstract!Settle
    <3> QED
      BY <3>5 DEF Abstract!ExactNext
  <2>4. \A s \in known : ExecuteSettlement(s) => disk' = disk
    BY DEF ExecuteSettlement
  <2>5. \A s \in known : ExecuteSettlement(s) => ~UNCHANGED root
    BY <1>2, AcceptedIsPending DEF IInv, TypeOK
  <2> QED
    BY <1>2, <2>1, <2>2, <2>3, <2>4, <2>5, DiskStep, VaultStep
<1> QED
  BY <1>1, <1>2, ExactPayouts, PTL DEF Spec, ImplementsExactLedger
=============================================================================
