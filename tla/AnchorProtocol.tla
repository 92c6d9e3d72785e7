--------------------------- MODULE AnchorProtocol ---------------------------
(***************************************************************************)
(* How a confidential mutation reaches the chain.                          *)
(*                                                                         *)
(* The extension's handlers run as goroutines that share one ledger engine.*)
(* A mutation is committed to the encrypted store together with a pending  *)
(* anchor, then assigned to memory, then a settlement that moves the vault *)
(* from the previous root to the next is signed by the TEE.  Anyone may    *)
(* execute a signed settlement on QuietVault, and a confirmation that      *)
(* matches the vault clears the pending anchor.  One mutation at a time is *)
(* pending; the others wait in Engine.mutate.                              *)
(*                                                                         *)
(* A root is modelled by the history it commits to: the sequence of the    *)
(* operations applied so far.  The sequence number of a state is then the  *)
(* length of its history.  What an operation does to balances is the       *)
(* subject of QuietLedger; here fn(&next) only succeeds or fails.          *)
(***************************************************************************)
EXTENDS Naturals, Sequences, FiniteSets

CONSTANTS
  Ops,            \* operation ids (deposit id, mandate id, request id, ...)
  Kind,           \* [Ops -> Kinds]
  Requests,       \* actions that ask for a mutation
  Op,             \* [Requests -> Ops]: two requests may carry the same id
  Instructions,   \* the requests fetched from the node's Main queue
  Recoveries,     \* RECOVER_ANCHOR direct actions
  Confirmations,  \* ANCHOR_CONFIRMED direct actions
  SlowHandlers,   \* the handlers that may outlast the node's ProxyTimeout
  MaxCrashes,     \* bound on workload crashes
  MaxPauses,      \* bound on calls of pause and unpause
  Free            \* value of lock when Engine.mu is not held for writing

VARIABLES
  mem,        \* Engine.state
  disk,       \* the state in the store, loaded after a restart
  lock,       \* Engine.mu: the handler that holds it for writing, or Free
  pc,         \* where each handler is
  abandoned,  \* handlers whose caller has timed out: their result is lost
  payload,    \* the root each confirmation has verified against the vault, and the
              \* one that was pending when each recovery checked its kind
  signed,     \* every settlement the TEE has signed
  known,      \* signed settlements the relayer holds that have not expired
  root,       \* QuietVault.stateRoot (stateSequence is its length)
  used,       \* QuietVault.usedSettlementId
  paid,       \* how many times the vault has paid each operation out
  paused,     \* QuietVault.paused()
  crashes,    \* number of crashes so far
  pauses      \* number of calls of pause and unpause so far

handlerVars == <<pc, abandoned, payload>>
vaultVars == <<root, used, paid, paused, pauses>>
vars == <<mem, disk, lock, pc, abandoned, payload, signed, known,
          root, used, paid, paused, crashes, pauses>>

CheckpointKinds == {"DEPOSIT", "BACKSTOP_DEPOSIT", "RISK_TICK", "OPEN_ACCOUNT",
                    "SET_MANDATE", "CANCEL_MANDATE", "APPLY_REPAYMENT"}
WithdrawalKinds == {"WITHDRAW_REQUEST", "WITHDRAW_FROM_MANDATE"}
PayoutKinds == WithdrawalKinds \cup {"BORROW_ACCEPT"}
Kinds == CheckpointKinds \cup PayoutKinds

Handlers == Requests \cup Recoveries \cup Confirmations

ASSUME ConstantsAssumption ==
  /\ Kind \in [Ops -> Kinds]
  /\ Op \in [Requests -> Ops]
  /\ Instructions \subseteq Requests
  /\ Requests \cap Recoveries = {}
  /\ Requests \cap Confirmations = {}
  /\ Recoveries \cap Confirmations = {}
  /\ SlowHandlers \subseteq Handlers
  /\ MaxCrashes \in Nat
  /\ MaxPauses \in Nat
  /\ Free \notin Handlers

\* Definitions named Faulty* are variants with a bug, none of them part of the
\* specification: the properties are shown to tell them from the code.
FaultyRecoverableAll(kind) == kind \in Kinds
FaultyRecoverableSome(kind) == kind \in CheckpointKinds \ {"APPLY_REPAYMENT"}

\* isRecoverableCheckpoint: fund movements need their own settlement.
Recoverable(kind) == kind \in CheckpointKinds

\* ledger.State as far as anchoring sees it: while pending, prev and log are
\* PendingAnchor.PreviousRoot and NextRoot.
State == [log : Seq(Ops), prev : Seq(Ops), pending : BOOLEAN]

NewState == [log |-> <<>>, prev |-> <<>>, pending |-> FALSE]

LastOp(log) == log[Len(log)]

\* State.Processed: the operations already applied.
Processed(log) == {log[i] : i \in 1..Len(log)}

SettlementTypes == {"BorrowPayout", "UserWithdrawal", "Checkpoint"}

FaultySettlementKind(h) == IF h \in Recoveries THEN "Checkpoint" ELSE Kind[Op[h]]
FaultySettlementCheckpoint(h) ==
  IF h \in Recoveries \/ Kind[Op[h]] # "BORROW_ACCEPT" THEN "Checkpoint" ELSE "BorrowPayout"

\* The settlement type each handler passes to anchorSettlement.
SettlementType(h) ==
  IF h \in Recoveries \/ Kind[Op[h]] \in CheckpointKinds THEN "Checkpoint"
  ELSE IF Kind[Op[h]] \in WithdrawalKinds THEN "UserWithdrawal"
  ELSE "BorrowPayout"

\* overtaken is a history of the signature: see Overtaken.
Settlement == [type : SettlementTypes, request : Requests \cup Recoveries,
               prev : Seq(Ops), next : Seq(Ops), overtaken : BOOLEAN]

SettlementID(s) == <<s.request, s.next>>

IsPayout(s) == s.type # "Checkpoint"

\* The pending anchor is no longer the one the handler has committed or checked.
Overtaken(h) == IF h \in Recoveries THEN mem.log # payload[h]
                                    ELSE LastOp(mem.log) # Op[h]

\* What anchorSettlement signs: the root transition is the one of the anchor
\* pending NOW, everything else comes from the handler's own request.
SettlementOf(h) == [type |-> SettlementType(h), request |-> h, prev |-> mem.prev,
                    next |-> mem.log, overtaken |-> Overtaken(h)]

InFlight(h) == pc[h] \notin {"idle", "done", "failed"}

\* Each of the node's queues has one worker, which fetches the next action
\* once the current one has been answered or its caller has timed out.
WorkerFree(h) ==
  \A g \in Handlers :
    (g \in Instructions <=> h \in Instructions) /\ InFlight(g) => g \in abandoned

\* The handler returns; its result reaches the caller unless it was abandoned.
Return(h, where) ==
  /\ pc' = [pc EXCEPT ![h] = where]
  /\ abandoned' = abandoned \ {h}
-----------------------------------------------------------------------------
Init ==
  /\ mem = NewState
  /\ disk = NewState
  /\ lock = Free
  /\ pc = [h \in Handlers |-> "idle"]
  /\ abandoned = {}
  /\ payload = [h \in Recoveries \cup Confirmations |-> <<>>]
  /\ signed = {}
  /\ known = {}
  /\ root = <<>>
  /\ used = {}
  /\ paid = [o \in Ops |-> 0]
  /\ paused = FALSE
  /\ crashes = 0
  /\ pauses = 0

(***************************************************************************)
(* Mutation handlers                                                       *)
(***************************************************************************)
\* A worker posts the action to the extension, whose handler enters mutate.
Deliver(r) ==
  /\ pc[r] = "idle"
  /\ WorkerFree(r)
  /\ pc' = [pc EXCEPT ![r] = "waiting"]
  /\ UNCHANGED <<mem, disk, lock, abandoned, payload, signed, known, vaultVars, crashes>>

\* The request is refused before anything changes: a failed pre-check, a
\* failed fn(&next), a failed store transaction, or ErrAnchorPending.
Refuse(r) ==
  /\ pc[r] = "waiting"
  /\ Return(r, "failed")
  /\ UNCHANGED <<mem, disk, lock, payload, signed, known, vaultVars, crashes>>

\* Without the loop that waits for the pending anchor.
FaultyCommitWhilePending(r) ==
  /\ pc[r] = "waiting"
  /\ lock = Free
  /\ Op[r] \notin Processed(mem.log)
  /\ disk' = [log |-> Append(mem.log, Op[r]), prev |-> mem.log, pending |-> TRUE]
  /\ lock' = r
  /\ pc' = [pc EXCEPT ![r] = "committed"]
  /\ UNCHANGED <<mem, abandoned, payload, signed, known, vaultVars, crashes>>

\* Without the check of State.Processed.
FaultyCommitTwice(r) ==
  /\ pc[r] = "waiting"
  /\ lock = Free
  /\ ~mem.pending
  /\ disk' = [log |-> Append(mem.log, Op[r]), prev |-> mem.log, pending |-> TRUE]
  /\ lock' = r
  /\ pc' = [pc EXCEPT ![r] = "committed"]
  /\ UNCHANGED <<mem, abandoned, payload, signed, known, vaultVars, crashes>>

\* The memory is assigned, and the store transaction is lost.
FaultyCommitInMemory(r) ==
  /\ pc[r] = "waiting"
  /\ lock = Free
  /\ ~mem.pending
  /\ Op[r] \notin Processed(mem.log)
  /\ mem' = [log |-> Append(mem.log, Op[r]), prev |-> mem.log, pending |-> TRUE]
  /\ pc' = [pc EXCEPT ![r] = "mutated"]
  /\ UNCHANGED <<disk, lock, abandoned, payload, signed, known, vaultVars, crashes>>

\* mutate up to store.Commit: the loop has found no pending anchor, fn has
\* accepted the operation, and the new state is durable.
Commit(r) ==
  /\ pc[r] = "waiting"
  /\ lock = Free
  /\ ~mem.pending
  /\ Op[r] \notin Processed(mem.log)
  /\ disk' = [log |-> Append(mem.log, Op[r]), prev |-> mem.log, pending |-> TRUE]
  /\ lock' = r
  /\ pc' = [pc EXCEPT ![r] = "committed"]
  /\ UNCHANGED <<mem, abandoned, payload, signed, known, vaultVars, crashes>>

\* mutate after store.Commit: e.state = &next, and the lock is released.
Assign(r) ==
  /\ pc[r] = "committed"
  /\ mem' = disk
  /\ lock' = Free
  /\ pc' = [pc EXCEPT ![r] = "mutated"]
  /\ UNCHANGED <<disk, abandoned, payload, signed, known, vaultVars, crashes>>

\* anchorSettlement: the state is read again, under a new read lock.  The time
\* until the signature is made and posted is the time until someone uses it.
Sign(h) ==
  /\ mem.pending
  /\ lock = Free
  /\ signed' = signed \cup {SettlementOf(h)}
  /\ known' = IF h \in abandoned THEN known ELSE known \cup {SettlementOf(h)}

SignMutation(r) ==
  /\ pc[r] = "mutated"
  /\ Sign(r)
  /\ Return(r, "done")
  /\ UNCHANGED <<mem, disk, lock, payload, vaultVars, crashes>>

\* No anchor is pending any more, or the sign server fails.
SignMutationFails(r) ==
  /\ pc[r] = "mutated"
  /\ lock = Free
  /\ Return(r, "failed")
  /\ UNCHANGED <<mem, disk, lock, payload, signed, known, vaultVars, crashes>>

(***************************************************************************)
(* RECOVER_ANCHOR                                                          *)
(***************************************************************************)
\* The first snapshot of handleAnchorRecovery, and its two checks.
RecoverRead(h) ==
  /\ pc[h] = "idle"
  /\ WorkerFree(h)
  /\ lock = Free
  /\ mem.pending
  /\ Recoverable(Kind[LastOp(mem.log)])
  /\ pc' = [pc EXCEPT ![h] = "checked"]
  /\ payload' = [payload EXCEPT ![h] = mem.log]
  /\ UNCHANGED <<mem, disk, lock, abandoned, signed, known, vaultVars, crashes>>

\* e.checkpoint takes a second snapshot and signs what is pending in it.
RecoverSign(h) ==
  /\ pc[h] = "checked"
  /\ Sign(h)
  /\ Return(h, "idle")
  /\ payload' = [payload EXCEPT ![h] = <<>>]
  /\ UNCHANGED <<mem, disk, lock, vaultVars, crashes>>

RecoverSignFails(h) ==
  /\ pc[h] = "checked"
  /\ lock = Free
  /\ Return(h, "idle")
  /\ payload' = [payload EXCEPT ![h] = <<>>]
  /\ UNCHANGED <<mem, disk, lock, signed, known, vaultVars, crashes>>

(***************************************************************************)
(* ANCHOR_CONFIRMED                                                        *)
(***************************************************************************)
\* verifyAnchorOnChain succeeds: the payload is the vault's current anchor.
ConfirmVerify(c) ==
  /\ pc[c] = "idle"
  /\ WorkerFree(c)
  /\ pc' = [pc EXCEPT ![c] = "verified"]
  /\ payload' = [payload EXCEPT ![c] = root]
  /\ UNCHANGED <<mem, disk, lock, abandoned, signed, known, vaultVars, crashes>>

\* Without the comparison of the confirmation with the pending anchor.
FaultyConfirmAny(c) ==
  /\ pc[c] = "verified"
  /\ lock = Free
  /\ mem.pending
  /\ disk' = [mem EXCEPT !.pending = FALSE]
  /\ lock' = c
  /\ pc' = [pc EXCEPT ![c] = "saved"]
  /\ UNCHANGED <<mem, abandoned, payload, signed, known, vaultVars, crashes>>

\* ConfirmAnchor up to store.SaveState.
ConfirmSave(c) ==
  /\ pc[c] = "verified"
  /\ lock = Free
  /\ mem.pending
  /\ mem.log = payload[c]
  /\ disk' = [mem EXCEPT !.pending = FALSE]
  /\ lock' = c
  /\ pc' = [pc EXCEPT ![c] = "saved"]
  /\ UNCHANGED <<mem, abandoned, payload, signed, known, vaultVars, crashes>>

\* ConfirmAnchor after store.SaveState: assign, close the channel, unlock.
ConfirmAssign(c) ==
  /\ pc[c] = "saved"
  /\ mem' = disk
  /\ lock' = Free
  /\ Return(c, "idle")
  /\ payload' = [payload EXCEPT ![c] = <<>>]
  /\ UNCHANGED <<disk, signed, known, vaultVars, crashes>>

\* ConfirmAnchor returns without a change: the anchor is already cleared, the
\* confirmation does not match, or the store transaction fails.
ConfirmNoChange(c) ==
  /\ pc[c] = "verified"
  /\ lock = Free
  /\ Return(c, "idle")
  /\ payload' = [payload EXCEPT ![c] = <<>>]
  /\ UNCHANGED <<mem, disk, lock, signed, known, vaultVars, crashes>>

(***************************************************************************)
(* The node, the workload and the vault                                    *)
(***************************************************************************)
\* PostActionToExtension gives up; the handler's goroutine runs on.
Abandon(h) ==
  /\ h \in SlowHandlers
  /\ InFlight(h)
  /\ h \notin abandoned
  /\ abandoned' = abandoned \cup {h}
  /\ UNCHANGED <<mem, disk, lock, pc, payload, signed, known, vaultVars, crashes>>

\* A restart that discards the mutation whose anchor is pending.
FaultyCrash ==
  /\ crashes < MaxCrashes
  /\ crashes' = crashes + 1
  /\ disk' = IF disk.pending THEN [disk EXCEPT !.log = disk.prev, !.pending = FALSE] ELSE disk
  /\ mem' = disk'
  /\ lock' = Free
  /\ pc' = [h \in Handlers |-> IF ~InFlight(h) THEN pc[h]
                               ELSE IF h \in Requests THEN "failed" ELSE "idle"]
  /\ abandoned' = {}
  /\ payload' = [h \in Recoveries \cup Confirmations |-> <<>>]
  /\ UNCHANGED <<signed, known, vaultVars>>

\* The workload stops: goroutines are gone, and NewEngine loads the store.
Crash ==
  /\ crashes < MaxCrashes
  /\ crashes' = crashes + 1
  /\ mem' = disk
  /\ lock' = Free
  /\ pc' = [h \in Handlers |-> IF ~InFlight(h) THEN pc[h]
                               ELSE IF h \in Requests THEN "failed" ELSE "idle"]
  /\ abandoned' = {}
  /\ payload' = [h \in Recoveries \cup Confirmations |-> <<>>]
  /\ UNCHANGED <<disk, signed, known, vaultVars>>

\* QuietVault.executeSettlement, called by anyone with a signed settlement.
ExecuteSettlement(s) ==
  /\ SettlementID(s) \notin used
  /\ s.prev = root
  /\ Len(s.next) = Len(root) + 1
  /\ s.type = "BorrowPayout" => ~paused
  /\ used' = used \cup {SettlementID(s)}
  /\ root' = s.next
  /\ paid' = IF IsPayout(s) THEN [paid EXCEPT ![Op[s.request]] = @ + 1] ELSE paid
  /\ UNCHANGED <<mem, disk, lock, handlerVars, signed, known, paused, pauses, crashes>>

\* The relayer's ten minutes are over: settlement.deadline < block.timestamp.
Expire(s) ==
  /\ known' = known \ {s}
  /\ UNCHANGED <<mem, disk, lock, handlerVars, signed, vaultVars, crashes>>

\* QuietVault.pause and unpause by the operator.
SetPaused(b) ==
  /\ pauses < MaxPauses
  /\ paused # b
  /\ paused' = b
  /\ pauses' = pauses + 1
  /\ UNCHANGED <<mem, disk, lock, handlerVars, signed, known, root, used, paid, crashes>>
-----------------------------------------------------------------------------
Mutation(r) == \/ Deliver(r) \/ Refuse(r) \/ Commit(r) \/ Assign(r)
               \/ SignMutation(r) \/ SignMutationFails(r)

Recovery(h) == RecoverRead(h) \/ RecoverSign(h) \/ RecoverSignFails(h)

Confirmation(c) == \/ ConfirmVerify(c) \/ ConfirmSave(c)
                   \/ ConfirmAssign(c) \/ ConfirmNoChange(c)

Next ==
  \/ \E r \in Requests : Mutation(r)
  \/ \E h \in Recoveries : Recovery(h)
  \/ \E c \in Confirmations : Confirmation(c)
  \/ \E h \in Handlers : Abandon(h)
  \/ Crash
  \/ \E s \in known : ExecuteSettlement(s) \/ Expire(s)
  \/ \E b \in BOOLEAN : SetPaused(b)

Spec == Init /\ [][Next]_vars
-----------------------------------------------------------------------------
(***************************************************************************)
(* Properties                                                              *)
(***************************************************************************)
Places == {"idle", "waiting", "committed", "mutated", "checked", "verified",
           "saved", "done", "failed"}

\* s is a prefix of t.
Prefix(s, t) == Len(s) <= Len(t) /\ \A i \in 1..Len(s) : s[i] = t[i]

\* Every variable has its type: the engine's state, the handlers, the vault.
TypeOK ==
  /\ mem \in State
  /\ disk \in State
  /\ lock \in Handlers \cup {Free}
  /\ pc \in [Handlers -> Places]
  /\ abandoned \subseteq SlowHandlers
  /\ payload \in [Recoveries \cup Confirmations -> Seq(Ops)]
  /\ signed \subseteq Settlement
  /\ known \subseteq signed
  /\ root \in Seq(Ops)
  /\ used \subseteq (Requests \cup Recoveries) \X Seq(Ops)
  /\ paid \in [Ops -> Nat]
  /\ paused \in BOOLEAN
  /\ crashes \in 0..MaxCrashes
  /\ pauses \in 0..MaxPauses

\* The vault and the durable ledger never diverge (Engine.mutate, ConfirmAnchor
\* and executeSettlement together): with no anchor pending the vault holds the
\* ledger's root, with one pending it holds the root before or after it.
AnchorAgreement ==
  IF disk.pending THEN root \in {disk.prev, disk.log} ELSE root = disk.log

\* The TEE never signs a root that a crash could take back (mutate commits to
\* the store before it publishes the state that anchorSettlement reads).
SignedIsDurable ==
  \A s \in signed : Prefix(s.next, disk.log)

\* No operation id is applied twice, whatever requests carry it (Processed).
AppliedOnce ==
  \A i, j \in 1..Len(disk.log) : disk.log[i] = disk.log[j] => i = j

\* The vault pays an operation at most once, and only after the ledger has
\* debited it and the vault has taken its root.
PaidAtMostOnce ==
  \A o \in Ops : /\ paid[o] <= 1
                 /\ paid[o] = 1 => o \in Processed(root) /\ Kind[o] \in PayoutKinds

\* Every fund movement whose root the vault has taken was paid out: a payout is
\* settled by its own settlement and by nothing else (the comments at
\* handleWithdrawal and WITHDRAW_FROM_MANDATE: "intentionally not
\* checkpoint-recoverable").
NoPayoutSkipped ==
  \A o \in Processed(root) : Kind[o] \in PayoutKinds => paid[o] = 1

\* A recovery, or the handler of an operation that moves no funds.
SignsCheckpoint(h) == h \in Recoveries \/ Kind[Op[h]] \in CheckpointKinds

\* No such handler was overtaken by a fund movement before it signed.
NoStaleCheckpoint ==
  \A s \in signed : SignsCheckpoint(s.request) /\ s.overtaken
                      => Kind[LastOp(s.next)] \notin PayoutKinds

\* The code breaks NoPayoutSkipped in one way only: a recovery or a handler of a checkpoint
\* signs over a fund movement that has overtaken it (anchor.go:32-44, handlers.go:25-30).
\* Until one has, every fund movement whose root the vault has taken was paid out,
\* whatever else is lost, repeated, paused or crashes.
SkippedOnlyIfOvertaken == NoStaleCheckpoint => NoPayoutSkipped

\* What the steps of mutate, anchorSettlement, ConfirmAnchor and
\* executeSettlement rely on and re-establish: the memory a handler reads under
\* the lock is durable; a pending anchor is one operation long; a signed
\* settlement is either the pending one or behind the vault; and a verified
\* confirmation names the vault's root or one it has left behind.
MemoryIsDurable == lock = Free => mem = disk

PendingIsOneStep ==
  disk.pending => /\ Len(disk.log) = Len(disk.prev) + 1
                  /\ Prefix(disk.prev, disk.log)

SignedIsPendingOrPast ==
  \A s \in signed : \/ Len(s.prev) < Len(root)
                    \/ disk.pending /\ s.prev = disk.prev /\ s.next = disk.log

VerifiedIsRootOrPast ==
  \A c \in Confirmations :
    pc[c] = "verified" => Len(payload[c]) < Len(root) \/ payload[c] = root

AnchorInvariant ==
  /\ AnchorAgreement
  /\ MemoryIsDurable
  /\ PendingIsOneStep
  /\ SignedIsPendingOrPast
  /\ SignedIsDurable
  /\ VerifiedIsRootOrPast

\* Neither a crash nor any handler rewrites history: the durable ledger and the
\* vault's root only ever grow, and a settlement moves the vault by one.
HistoryOnlyGrows ==
  [][/\ Prefix(disk.log, disk'.log) /\ Len(disk'.log) <= Len(disk.log) + 1
     /\ Prefix(root, root') /\ Len(root') <= Len(root) + 1]_vars

\* The protocol implements the abstract ledger (see AnchoredLedger): what the
\* store holds is the ledger, what the vault's root commits to is settled.
Abstract == INSTANCE AnchoredLedger WITH
  Payouts <- {o \in Ops : Kind[o] \in PayoutKinds},
  ledger <- disk.log,
  settled <- root,
  paid <- {o \in Ops : paid[o] > 0}

\* mutate, anchorSettlement, executeSettlement and ConfirmAnchor together apply
\* and settle one operation at a time, and pay only a payout as it is settled.
ImplementsAnchoredLedger == Abstract!Spec

\* ... and, as long as no handler of a checkpoint was overtaken by a fund movement,
\* settling an operation pays it: the very ledger, not only one that pays late or never.
ImplementsExactLedger ==
  /\ Abstract!Init
  /\ [][NoStaleCheckpoint' => Abstract!ExactNext]_(Abstract!ledgerVars)
-----------------------------------------------------------------------------
(***************************************************************************)
(* Liveness.  The handlers' goroutines are scheduled, so a step of theirs  *)
(* that stays possible is taken, and a request that waits in mutate ends,  *)
(* by anchorWaitTimeout at the latest.  The environment is assumed to keep *)
(* trying (docs/OPERATIONS.md: "Restore the relayer first"): recovery and  *)
(* confirmation are requested again and again, sometimes answer within the *)
(* node's ProxyTimeout, and a settlement the relayer holds is sometimes    *)
(* executed before it expires.  Nothing makes a crash, a timeout, a new    *)
(* request or a change of the pause happen.                                *)
(***************************************************************************)
HandlersRun ==
  /\ \A r \in Requests : /\ WF_vars(Commit(r) \/ Refuse(r))
                        /\ WF_vars(Assign(r))
                        /\ WF_vars(SignMutation(r) \/ SignMutationFails(r))
  /\ \A h \in Recoveries : WF_vars(RecoverSign(h) \/ RecoverSignFails(h))
  /\ \A c \in Confirmations : /\ WF_vars(ConfirmSave(c) \/ ConfirmNoChange(c))
                              /\ WF_vars(ConfirmAssign(c))

EnvironmentRetries ==
  /\ \A h \in Recoveries : /\ SF_vars(RecoverRead(h))
                           /\ SF_vars(h \notin abandoned /\ RecoverSign(h))
  /\ \A c \in Confirmations : SF_vars(ConfirmVerify(c)) /\ SF_vars(ConfirmSave(c))
  /\ SF_vars(\E s \in known : ExecuteSettlement(s))

FairSpec == Spec /\ HandlersRun /\ EnvironmentRetries

\* A pending anchor does not block the ledger for ever: it is eventually
\* settled, confirmed and cleared, whatever responses or workloads are lost
\* (handleAnchorRecovery, handleAnchorConfirmation).
PendingAnchorClears == disk.pending ~> ~disk.pending

\* While the vault stays paused, and the relayer holds the settlement of the
\* pending anchor, the ledger still becomes free to take a withdrawal again and
\* again (docs/ARCHITECTURE.md:40, "permits user withdrawals while borrow
\* payouts are paused").
WithdrawalsStayAvailable ==
  <>[](paused /\ \E s \in known : s.next = mem.log) => []<>(~mem.pending)
=============================================================================
