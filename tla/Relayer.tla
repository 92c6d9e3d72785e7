------------------------------ MODULE Relayer ------------------------------
(***************************************************************************)
(* The relayer: the durable job store, the orchestrator's single worker,   *)
(* the indexer that turns vault events into jobs, and the risk keeper.     *)
(*                                                                         *)
(* A step of the worker is the code between two awaits.  SQLite commits    *)
(* each statement by itself, so a process that is killed may stop between  *)
(* two statements of one step: where that matters (a block range's jobs    *)
(* and its cursor; the statuses confirming and confirmed) each statement   *)
(* is a step.                                                              *)
(*                                                                         *)
(* The TEE node and the vault are the environment.  They are what          *)
(* AnchorProtocol has in detail: one mutation of the ledger is pending at  *)
(* a time, a handler that waits outlives its caller, and a settlement      *)
(* applies to one position of the ledger's history.                        *)
(***************************************************************************)
EXTENDS Integers, Sequences, FiniteSets

CONSTANTS
  Directs,         \* ciphertexts posted to the API
  Events,          \* vault events that carry a request id
  Kind,            \* what each of them asks of the ledger
  Refusable,       \* those the ledger may refuse
  Slow,            \* those whose handler may outlast the node's ProxyTimeout
  WaitIsReported,  \* the engine's pending-anchor error reaches the relayer
  BlockRange,      \* MAX_BLOCK_RANGE
  MaxBlock,        \* bound on the chain's height
  MaxCrashes,      \* bound on relayer crashes
  MaxFaults,       \* bound on failed requests, timeouts and expiries
  MaxRetries,      \* bound on manual retries
  NoAction         \* the empty action_id column

Sources == Directs \cup Events
Kinds == {"QUERY", "CHECKPOINT", "DEPOSIT", "RISK_TICK", "PAYOUT"}
Ticks == {e \in Events : Kind[e] = "RISK_TICK"}
Recoverable == {"CHECKPOINT", "DEPOSIT", "RISK_TICK"}

ASSUME ConstantsAssumption ==
  /\ Directs \cap Events = {}
  /\ \A s \in Sources : Kind[s] \in Kinds
  /\ BlockRange \in Nat \ {0}
  /\ MaxBlock \in Nat
  /\ Sources \cap Nat = {}
  /\ NoAction \notin Nat \cup Sources

VARIABLES
  jobs,      \* the jobs table, in the order of created_at
  cursor,    \* the cursors table: the next block the indexer reads
  alive,     \* the process runs
  pc,        \* where the worker is; "idle" when running is false
  cur,       \* the job in the worker's hands (0: none)
  stage,     \* what the settlement in the worker's hands is for
  hand,      \* that settlement: the action that signed it, its position
  side,      \* the confirmation or recovery action being polled
  head,      \* the block number the indexer's poll has read (-1: no poll)
  batch,     \* events of the current range without a job yet
  loaded,    \* the events of the current range have been fetched
  block,     \* the chain's latest block
  at,        \* the block of each event (0: not emitted)
  sent,      \* the direct actions the proxy has accepted, in order
  result,    \* the node's stored result of each action
  late,      \* actions whose handler runs on after the node gave up
  applied,   \* the operations in the ledger's history
  acked,     \* how many of them are confirmed to the engine
  settled,   \* who signed the settlement of each position of the vault
  expired,   \* settlements past their deadline
  crashes, faults, retries

tables == <<jobs, cursor>>
worker == <<pc, cur, stage, hand, side>>
indexer == <<head, batch, loaded>>
chain == <<block, at>>
node == <<sent, result, late, applied, acked>>
vault == <<settled, expired>>
bounds == <<crashes, faults, retries>>
vars == <<jobs, cursor, alive, pc, cur, stage, hand, side, head, batch, loaded,
          block, at, sent, result, late, applied, acked, settled, expired,
          crashes, faults, retries>>

-----------------------------------------------------------------------------
\* Jobs

RunnableStatuses == {"queued", "submitted", "processing", "settling", "confirming"}
Statuses == RunnableStatuses \cup {"confirmed", "failed"}

NewJob(s) ==
  [src |-> s, status |-> "queued", action |-> NoAction, tx |-> FALSE, error |-> "none"]

\* Faulty: the lookup by external key is left out.
FaultyCreateJob(s, js) == Append(js, NewJob(s))

\* A request id is the unique external key of its event's job.
CreateJob(s, js) ==
  IF s \in Events /\ \E i \in DOMAIN js : js[i].src = s THEN js
  ELSE Append(js, NewJob(s))

Runnable(js) == {i \in DOMAIN js : js[i].status \in RunnableStatuses}

NextRunnableJob(js) ==
  CHOOSE i \in Runnable(js) : \A k \in Runnable(js) : i <= k

\* process up to its first await: an instruction's action id is its request id.
Opened(job) ==
  IF job.action # NoAction \/ job.src \in Events
  THEN [job EXCEPT !.status = "processing", !.error = "none",
                   !.action = IF @ = NoAction THEN job.src ELSE @]
  ELSE [job EXCEPT !.error = "none"]

\* The loop of drain, from a table to the next await: take the oldest runnable
\* job, or stop.  Nothing runs between finding none and running = false.
Drain(js) ==
  IF Runnable(js) = {}
  THEN /\ jobs' = js
       /\ pc' = "idle"
       /\ cur' = 0
  ELSE LET i == NextRunnableJob(js)
       IN /\ jobs' = [js EXCEPT ![i] = Opened(@)]
          /\ cur' = i
          /\ pc' = IF Opened(js[i]).action = NoAction THEN "submit" ELSE "poll"

\* A running worker finds the new job when it asks for the next one.
Wake(js) ==
  \/ /\ pc = "idle"
     /\ Drain(js)
  \/ /\ pc # "idle"
     /\ jobs' = js
     /\ UNCHANGED <<pc, cur>>

\* updateJob, with a status, an error and whether there is a transaction hash.
Updated(job, status, error, tx) ==
  [job EXCEPT !.status = status, !.error = error, !.tx = tx]

\* The worker writes the job's last status and goes on with the next job.
Finish(status, error, tx) ==
  /\ Drain([jobs EXCEPT ![cur] = Updated(@, status, error, tx)])
  /\ UNCHANGED <<stage, hand, side>>

Fail(error) == Finish("failed", error, jobs[cur].tx)

EnqueueDirect(d) ==
  /\ alive
  /\ \A i \in DOMAIN jobs : jobs[i].src # d
  /\ Wake(CreateJob(d, jobs))
  /\ UNCHANGED <<cursor, alive, stage, hand, side, indexer, chain, node, vault, bounds>>

\* An action id that was saved is kept.
ResetForRetry(job) ==
  [job EXCEPT !.status = IF job.action = NoAction THEN "queued" ELSE "submitted",
              !.error = "none"]

\* POST /jobs/:id/retry
Retry(i) ==
  /\ alive /\ retries < MaxRetries
  /\ jobs[i].status = "failed"
  /\ Wake([jobs EXCEPT ![i] = ResetForRetry(@)])
  /\ retries' = retries + 1
  /\ UNCHANGED <<cursor, alive, stage, hand, side, indexer, chain, node, vault,
                 crashes, faults>>

-----------------------------------------------------------------------------
\* The node, the ledger and the vault

Issued == {e \in Events : at[e] # 0} \cup DOMAIN sent
Unanswered == {a \in Issued : result[a].kind = "none"}
FaultyLedgerPending == Len(applied) > acked + 1
LedgerPending == Len(applied) > acked
History == {applied[p] : p \in DOMAIN applied}

\* What the action asks for.  An instruction's action id is its request id.
OpOf(a) == IF a \in Events THEN [op |-> "APPLY", arg |-> a] ELSE sent[a]
Mutates(a) ==
  \/ OpOf(a).op = "RECOVER_DEPOSIT"
  \/ OpOf(a).op = "APPLY" /\ Kind[OpOf(a).arg] # "QUERY"

Answer(a, kind, pos) ==
  result' = [result EXCEPT ![a] = [kind |-> kind, pos |-> pos]]

\* A handler the node no longer waits for has nobody to answer.
AnswerUnlessLate(a, kind, pos) ==
  \/ a \notin late /\ Answer(a, kind, pos) /\ late' = late
  \/ a \in late /\ late' = late \ {a} /\ UNCHANGED result

\* A handler that committed and answered in time, or committed too late.
Apply(a) ==
  /\ a \in Unanswered \cup late
  /\ Mutates(a) /\ ~LedgerPending
  /\ OpOf(a).arg \notin History
  /\ applied' = Append(applied, OpOf(a).arg)
  /\ \/ AnswerUnlessLate(a, "ok", Len(applied) + 1)
     \/ /\ OpOf(a).arg \in Slow
        /\ AnswerUnlessLate(a, "error", 0)
  /\ UNCHANGED <<tables, alive, worker, indexer, chain, sent, acked, vault, bounds>>

\* The operation is in the history already: an error (ErrDuplicate or the
\* account's nonce), except for the recovery of a deposit.
Duplicate(a) ==
  /\ a \in Unanswered \cup late
  /\ Mutates(a) /\ ~LedgerPending
  /\ OpOf(a).arg \in History
  /\ AnswerUnlessLate(a, IF OpOf(a).op = "APPLY" THEN "error" ELSE "ok", 0)
  /\ UNCHANGED <<tables, alive, worker, indexer, chain, sent, applied, acked,
                 vault, bounds>>

Refuse(a) ==
  /\ a \in Unanswered
  /\ Mutates(a) /\ OpOf(a).arg \in Refusable
  /\ Answer(a, "error", 0)
  /\ UNCHANGED <<tables, alive, worker, indexer, chain, sent, late, applied,
                 acked, vault, bounds>>

\* The handler waits for the pending anchor.  The node gives up after two
\* seconds and the handler waits on; were the node to wait longer than the
\* engine, it would answer with the engine's error.
WaitTooLong(a) ==
  /\ a \in Unanswered
  /\ Mutates(a) /\ LedgerPending
  /\ IF WaitIsReported
     THEN Answer(a, "pending", 0) /\ late' = late
     ELSE Answer(a, "error", 0) /\ late' = late \cup {a}
  /\ UNCHANGED <<tables, alive, worker, indexer, chain, sent, applied, acked,
                 vault, bounds>>

\* anchorWaitTimeout: the handler gives up too.
StopWaiting(a) ==
  /\ a \in late /\ LedgerPending
  /\ late' = late \ {a}
  /\ UNCHANGED <<tables, alive, worker, indexer, chain, sent, result, applied,
                 acked, vault, bounds>>

Query(a) ==
  /\ a \in Unanswered
  /\ OpOf(a).op = "APPLY" /\ Kind[OpOf(a).arg] = "QUERY"
  /\ Answer(a, "ok", 0)
  /\ UNCHANGED <<tables, alive, worker, indexer, chain, sent, late, applied,
                 acked, vault, bounds>>

\* ANCHOR_CONFIRMED: the vault must be at the confirmed root, and so must the
\* ledger, pending or not.
ConfirmAnchor(a) ==
  /\ a \in Unanswered
  /\ OpOf(a).op = "ANCHOR_CONFIRMED"
  /\ LET n == OpOf(a).arg
     IN \/ /\ Len(settled) = n /\ Len(applied) = n
           /\ acked' = n
           /\ \/ Answer(a, "ok", 0)
              \/ applied[n] \in Slow /\ Answer(a, "error", 0)
        \/ /\ Len(settled) # n \/ Len(applied) # n
           /\ Answer(a, "error", 0)
           /\ UNCHANGED acked
  /\ UNCHANGED <<tables, alive, worker, indexer, chain, sent, late, applied,
                 vault, bounds>>

\* RECOVER_ANCHOR: a new settlement for a checkpoint, never for a payout.
RecoverAnchor(a) ==
  /\ a \in Unanswered
  /\ OpOf(a).op = "RECOVER_ANCHOR"
  /\ \/ ~LedgerPending /\ Answer(a, "cleared", 0)
     \/ /\ LedgerPending
        /\ IF Kind[applied[Len(applied)]] \in Recoverable
           THEN Answer(a, "ok", Len(applied))
           ELSE Answer(a, "error", 0)
  /\ UNCHANGED <<tables, alive, worker, indexer, chain, sent, late, applied,
                 acked, vault, bounds>>

NodeStep(a) ==
  \/ Apply(a) \/ Duplicate(a) \/ Refuse(a) \/ WaitTooLong(a) \/ StopWaiting(a)
  \/ Query(a) \/ ConfirmAnchor(a) \/ RecoverAnchor(a)

\* usedSettlementId: this very settlement moved the vault.
Used(h) == h.pos \in DOMAIN settled /\ settled[h.pos] = h.by
Executable(h) == h.pos = Len(settled) + 1 /\ h \notin expired

\* The deadline of a signed settlement passes.
Expire(a) ==
  /\ faults < MaxFaults
  /\ result[a].pos > Len(settled)
  /\ expired' = expired \cup {[by |-> a, pos |-> result[a].pos]}
  /\ faults' = faults + 1
  /\ UNCHANGED <<tables, alive, worker, indexer, chain, node, settled, crashes, retries>>

\* A block with the events of some users' transactions.
Mine(S) ==
  /\ block < MaxBlock
  /\ S \subseteq Events \ Ticks /\ \A e \in S : at[e] = 0
  /\ block' = block + 1
  /\ at' = [e \in Events |-> IF e \in S THEN block + 1 ELSE at[e]]
  /\ UNCHANGED <<tables, alive, worker, indexer, node, vault, bounds>>

\* RiskKeeper.tick: the relayer's own transaction.
RequestRiskTick(e) ==
  /\ alive /\ block < MaxBlock
  /\ e \in Ticks /\ at[e] = 0
  /\ block' = block + 1
  /\ at' = [at EXCEPT ![e] = block + 1]
  /\ UNCHANGED <<tables, alive, worker, indexer, node, vault, bounds>>

-----------------------------------------------------------------------------
\* The worker

elsewhere == <<cursor, alive, indexer, chain, vault, bounds>>
nodeButSent == <<late, applied, acked>>

\* The proxy accepts an action and gives it an id.
Send(op, arg) ==
  /\ sent' = Append(sent, [op |-> op, arg |-> arg])
  /\ result' = [a \in DOMAIN result \cup {Len(sent) + 1} |->
                  IF a = Len(sent) + 1 THEN [kind |-> "none", pos |-> 0]
                  ELSE result[a]]
  /\ UNCHANGED nodeButSent

\* submitCiphertext: the proxy has the action, the relayer not yet its id.
SubmitCiphertext ==
  /\ pc = "submit"
  /\ Send("APPLY", jobs[cur].src)
  /\ pc' = "submitted"
  /\ side' = Len(sent) + 1
  /\ UNCHANGED <<jobs, cur, stage, hand, elsewhere>>

SaveActionId ==
  /\ pc = "submitted"
  /\ jobs' = [jobs EXCEPT ![cur] = [@ EXCEPT !.action = side, !.status = "processing"]]
  /\ pc' = "poll"
  /\ UNCHANGED <<cur, stage, hand, side, elsewhere, node>>

\* The answer of the job's action.  A query has no anchor; a settlement whose
\* transaction is already recorded is only confirmed again.
PollAnswer ==
  /\ pc = "poll"
  /\ LET a == jobs[cur].action
         answer == result[a]
     IN \/ answer.kind = "ok" /\ answer.pos = 0
           /\ Finish("confirmed", "none", jobs[cur].tx)
        \/ /\ answer.kind = "ok" /\ answer.pos > 0
           /\ jobs' = [jobs EXCEPT ![cur] = [@ EXCEPT !.status = "settling"]]
           /\ hand' = [by |-> a, pos |-> answer.pos]
           /\ stage' = "job"
           /\ pc' = IF jobs[cur].tx THEN "confirm" ELSE "execute"
           /\ UNCHANGED <<cur, side>>
        \/ answer.kind = "pending"
           /\ pc' = "recover"
           /\ UNCHANGED <<jobs, cur, stage, hand, side>>
        \/ answer.kind = "error" /\ Fail("failed")
  /\ UNCHANGED <<elsewhere, node>>

\* execute: the transaction is mined ...
SettlementMined ==
  /\ pc = "execute"
  /\ Executable(hand)
  /\ settled' = Append(settled, hand.by)
  /\ UNCHANGED <<tables, alive, worker, indexer, chain, node, expired, bounds>>

\* ... and its hash returned, or that of an earlier execution.
Executed ==
  /\ pc = "execute" /\ Used(hand)
  /\ pc' = "confirm"
  /\ UNCHANGED <<jobs, cur, stage, hand, side, elsewhere, node>>

ExecuteReverts ==
  /\ pc = "execute" /\ ~Used(hand) /\ ~Executable(hand)
  /\ Fail("failed")
  /\ UNCHANGED <<elsewhere, node>>

SubmitConfirmation ==
  /\ pc = "confirm"
  /\ Send("ANCHOR_CONFIRMED", hand.pos)
  /\ side' = Len(sent) + 1
  /\ pc' = "confirming"
  /\ UNCHANGED <<jobs, cur, stage, hand, elsewhere>>

\* What follows depends on what was settled: the job's own anchor, the one
\* that was in its way, or the deposit recovered in its name.
ConfirmAnswer ==
  /\ pc = "confirming"
  /\ \/ /\ result[side].kind = "ok" /\ stage = "job"
        /\ jobs' = [jobs EXCEPT ![cur] = [@ EXCEPT !.tx = TRUE, !.status = "confirming"]]
        /\ pc' = "confirmed"
        /\ UNCHANGED <<cur, stage, hand, side>>
     \/ /\ result[side].kind = "ok" /\ stage = "anchor"
        /\ pc' = "recovered"
        /\ UNCHANGED <<jobs, cur, stage, hand, side>>
     \/ /\ result[side].kind = "ok" /\ stage = "deposit"
        /\ Finish("confirmed", "none", TRUE)
     \/ result[side].kind = "error" /\ Fail("failed")
  /\ UNCHANGED <<elsewhere, node>>

FinishConfirmed ==
  /\ pc = "confirmed"
  /\ Finish("confirmed", "none", TRUE)
  /\ UNCHANGED <<elsewhere, node>>

\* The vault's sequence; its root is that of the history up to it.
anchorState == Len(settled)

\* The catch block, for the engine's pending-anchor error: recover that anchor.
SubmitRecovery ==
  /\ pc = "recover"
  /\ Send("RECOVER_ANCHOR", 0)
  /\ side' = Len(sent) + 1
  /\ pc' = "recovering"
  /\ UNCHANGED <<jobs, cur, stage, hand, elsewhere>>

RecoveryAnswer ==
  /\ pc = "recovering"
  /\ LET answer == result[side]
     IN \/ /\ answer.kind = "ok"
           /\ hand' = [by |-> side, pos |-> answer.pos]
           /\ stage' = "anchor"
           /\ anchorState \in {answer.pos - 1, answer.pos}
           /\ pc' = IF anchorState = answer.pos THEN "confirm" ELSE "execute"
           /\ UNCHANGED <<jobs, cur, side>>
        \/ /\ answer.kind = "ok"
           /\ anchorState \notin {answer.pos - 1, answer.pos}
           /\ Fail("failed")
        \/ answer.kind = "cleared"
           /\ pc' = "recovered"
           /\ UNCHANGED <<jobs, cur, stage, hand, side>>
        \/ answer.kind = "error" /\ Fail("failed")
  /\ UNCHANGED <<elsewhere, node>>

\* A deposit is applied in the place of its instruction; anything else is left
\* to the user.
AfterRecovery ==
  /\ pc = "recovered"
  /\ IF jobs[cur].src \in Events /\ Kind[jobs[cur].src] = "DEPOSIT"
     THEN /\ Send("RECOVER_DEPOSIT", jobs[cur].src)
          /\ side' = Len(sent) + 1
          /\ pc' = "depositing"
          /\ UNCHANGED <<jobs, cur, stage, hand>>
     ELSE Fail("retry") /\ UNCHANGED node
  /\ UNCHANGED elsewhere

\* Faulty: the anchor of the recovered deposit is not settled.
FaultyDepositAnswer ==
  /\ pc = "depositing"
  /\ \/ result[side].kind = "ok" /\ Finish("confirmed", "none", jobs[cur].tx)
     \/ result[side].kind \in {"error", "pending"} /\ Fail("failed")
  /\ UNCHANGED <<elsewhere, node>>

DepositAnswer ==
  /\ pc = "depositing"
  /\ LET answer == result[side]
     IN \/ /\ answer.kind = "ok" /\ answer.pos = 0
           /\ Finish("confirmed", "none", jobs[cur].tx)
        \/ /\ answer.kind = "ok" /\ answer.pos > 0
           /\ hand' = [by |-> side, pos |-> answer.pos]
           /\ stage' = "deposit"
           /\ pc' = "execute"
           /\ UNCHANGED <<jobs, cur, side>>
        \/ answer.kind \in {"error", "pending"} /\ Fail("failed")
  /\ UNCHANGED <<elsewhere, node>>

\* A refused or lost request, an RPC error, or the end of poll's 300 seconds.
WorkerFault ==
  /\ pc \notin {"idle", "confirmed"} /\ faults < MaxFaults
  /\ Fail("failed")
  /\ faults' = faults + 1
  /\ UNCHANGED <<cursor, alive, indexer, chain, node, vault, crashes, retries>>

Work ==
  \/ SubmitCiphertext \/ SaveActionId \/ PollAnswer \/ Executed \/ ExecuteReverts
  \/ SettlementMined \/ SubmitConfirmation \/ ConfirmAnswer \/ FinishConfirmed
  \/ SubmitRecovery \/ RecoveryAnswer \/ AfterRecovery \/ DepositAnswer

-----------------------------------------------------------------------------
\* The indexer

elsewhereThanIndexer ==
  <<alive, stage, hand, side, chain, node, vault, crashes, retries>>

\* poll: the latest block, read once per poll.
BlockNumber ==
  /\ alive /\ head = -1
  /\ head' = block
  /\ UNCHANGED <<tables, pc, cur, batch, loaded, faults, elsewhereThanIndexer>>

\* Faulty: a whole range, mined or not.
FaultyToBlock == cursor + BlockRange - 1

ToBlock ==
  IF cursor + BlockRange - 1 < head THEN cursor + BlockRange - 1 ELSE head

FetchEvents ==
  /\ head # -1 /\ ~loaded /\ cursor <= head
  /\ batch' = {e \in Events : at[e] # 0 /\ cursor <= at[e] /\ at[e] <= ToBlock}
  /\ loaded' = TRUE
  /\ UNCHANGED <<tables, pc, cur, head, faults, elsewhereThanIndexer>>

\* In the order of the blocks.
EnqueueChain(e) ==
  /\ e \in batch /\ \A f \in batch : at[e] <= at[f]
  /\ Wake(CreateJob(e, jobs))
  /\ batch' = batch \ {e}
  /\ UNCHANGED <<cursor, head, loaded, faults, elsewhereThanIndexer>>

SetCursor ==
  /\ loaded /\ batch = {}
  /\ cursor' = ToBlock + 1
  /\ loaded' = FALSE
  /\ UNCHANGED <<jobs, pc, cur, head, batch, faults, elsewhereThanIndexer>>

\* The poll ends at the block it read, or with an RPC error.
EndPoll ==
  /\ head # -1 /\ ~loaded
  /\ \/ cursor > head /\ UNCHANGED faults
     \/ faults < MaxFaults /\ faults' = faults + 1
  /\ head' = -1
  /\ UNCHANGED <<tables, pc, cur, batch, loaded, elsewhereThanIndexer>>

Index ==
  \/ BlockNumber \/ FetchEvents \/ SetCursor \/ EndPoll
  \/ \E e \in Events : EnqueueChain(e)

-----------------------------------------------------------------------------
\* The process

\* The tables survive; what the worker and the indexer held does not.
Crash ==
  /\ alive /\ crashes < MaxCrashes
  /\ alive' = FALSE
  /\ crashes' = crashes + 1
  /\ pc' = "idle" /\ cur' = 0
  /\ head' = -1 /\ batch' = {} /\ loaded' = FALSE
  /\ UNCHANGED <<tables, stage, hand, side, chain, node, vault, faults, retries>>

\* Faulty: unfinished jobs wait for the next request.
FaultyRestart ==
  /\ ~alive
  /\ alive' = TRUE
  /\ UNCHANGED <<tables, worker, indexer, chain, node, vault, bounds>>

\* main: wake the orchestrator, then start the indexer and the keeper.
Restart ==
  /\ ~alive
  /\ alive' = TRUE
  /\ Drain(jobs)
  /\ UNCHANGED <<cursor, stage, hand, side, indexer, chain, node, vault, bounds>>

Init ==
  /\ jobs = <<>> /\ cursor = 1 /\ alive = TRUE
  /\ pc = "idle" /\ cur = 0 /\ stage = "job" /\ side = 0
  /\ hand = [by |-> NoAction, pos |-> 0]
  /\ head = -1 /\ batch = {} /\ loaded = FALSE
  /\ block = 0 /\ at = [e \in Events |-> 0]
  /\ sent = <<>> /\ result = [e \in Events |-> [kind |-> "none", pos |-> 0]]
  /\ late = {} /\ applied = <<>> /\ acked = 0
  /\ settled = <<>> /\ expired = {}
  /\ crashes = 0 /\ faults = 0 /\ retries = 0

Next ==
  \/ Work \/ WorkerFault \/ Index \/ Crash \/ Restart
  \/ \E d \in Directs : EnqueueDirect(d)
  \/ \E i \in DOMAIN jobs : Retry(i)
  \/ \E S \in SUBSET Events : Mine(S)
  \/ \E e \in Events : RequestRiskTick(e)
  \/ \E a \in Events \cup DOMAIN sent : NodeStep(a) \/ Expire(a)

Spec == Init /\ [][Next]_vars

\* Timers and promises of a running process fire, the host restarts it, and the
\* node answers what it has accepted, with an error if nothing better.
Fairness ==
  /\ WF_vars(Work) /\ WF_vars(Index) /\ WF_vars(Restart)
  /\ WF_vars(\E a \in Events \cup DOMAIN sent : NodeStep(a))

FairSpec == Spec /\ Fairness

-----------------------------------------------------------------------------
\* Properties

Stages == {"job", "anchor", "deposit"}
Steps == {"idle", "submit", "submitted", "poll", "execute", "confirm",
          "confirming", "confirmed", "recover", "recovering", "recovered", "depositing"}
ActionIds == Events \cup DOMAIN sent

JobsOK ==
  \A i \in DOMAIN jobs :
    /\ jobs[i].src \in Sources
    /\ jobs[i].status \in Statuses
    /\ jobs[i].action \in ActionIds \cup {NoAction}
    /\ jobs[i].tx \in BOOLEAN
    /\ jobs[i].error \in {"none", "failed", "retry"}

\* Every row, index and answer refers to something that exists, and the worker
\* holds a job it has still to finish.
TypeOK ==
  /\ JobsOK
  /\ pc \in Steps /\ stage \in Stages
  /\ pc # "idle" => alive /\ cur \in Runnable(jobs)
  /\ pc = "poll" => jobs[cur].action \in ActionIds
  /\ pc \in {"submitted", "confirming", "recovering", "depositing"} => side \in DOMAIN sent
  /\ head \in -1..block /\ cursor \in 1..block + 1
  /\ batch \subseteq Events
  /\ at \in [Events -> 0..block]
  /\ DOMAIN result = ActionIds
  /\ late \subseteq ActionIds
  /\ \A p \in DOMAIN applied : applied[p] \in Sources

\* The vault and the ledger stay one operation apart at most.
LedgerAgreement ==
  /\ acked <= Len(settled)
  /\ Len(settled) <= Len(applied)
  /\ Len(applied) <= acked + 1

Done(s) ==
  \E p \in 1..acked : p <= Len(settled) /\ p <= Len(applied) /\ applied[p] = s

\* A job is shown as confirmed only when its operation is in the ledger, its
\* root in the vault and the vault's root confirmed to the ledger
\* (orchestrator.ts, process).
ConfirmedIsDone ==
  \A i \in DOMAIN jobs :
    jobs[i].status = "confirmed" /\ Kind[jobs[i].src] # "QUERY" => Done(jobs[i].src)

\* The cursor never passes an event that has no job, wherever the process stops
\* (indexer.ts, poll).
NoEventLost ==
  \A e \in Events :
    at[e] # 0 /\ at[e] < cursor => \E i \in DOMAIN jobs : jobs[i].src = e

\* A block range that is read again after a crash makes no second job
\* (db.ts, createJob).
OneJobPerEvent ==
  \A i, k \in DOMAIN jobs :
    jobs[i].src = jobs[k].src /\ jobs[i].src \in Events => i = k

\* A worker that stopped has left nothing to do: the jobs that a restart finds unfinished
\* are taken up by its start, like those that come later (orchestrator.ts, wake and drain).
NoJobStranded == alive /\ pc = "idle" => Runnable(jobs) = {}

Requested(s) == \/ s \in Events /\ at[s] # 0
                \/ \E i \in DOMAIN jobs : jobs[i].src = s
Ended(s) == \E i \in DOMAIN jobs :
              jobs[i].src = s /\ jobs[i].status \in {"confirmed", "failed"}

\* Every event and every accepted request gets a job that ends, whatever crashes,
\* timeouts and failed requests come in between.
EveryRequestEnds == \A s \in Sources : Requested(s) ~> Ended(s)
=============================================================================
