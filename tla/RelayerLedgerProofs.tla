------------------------- MODULE RelayerLedgerProofs -------------------------
(***************************************************************************)
(* What a confirmed job means: theorems of Relayer about its jobs, the     *)
(* ledger behind the node and the vault.                                   *)
(*                                                                         *)
(* The argument: a job's action id stands for the job's own operation, so  *)
(* an answer with a settlement names the position of that operation in the *)
(* history; the settlement the worker holds is for that position until it  *)
(* is confirmed; and the engine accepts a confirmation only of a position  *)
(* that the ledger and the vault have both reached.                        *)
(***************************************************************************)
EXTENDS RelayerProofs

Signer == Events \cup Nat \cup {NoAction}

\* The operation of s is at this position of the history.
Placed(s, pos) == pos \in 1..Len(applied) /\ applied[pos] = s

\* What an "ok" answer to command c, with a settlement for pos (0: none), implies.
Justified(c, pos) ==
  /\ c.op = "APPLY" => (Kind[c.arg] = "QUERY" /\ pos = 0) \/ Placed(c.arg, pos)
  /\ c.op = "RECOVER_DEPOSIT" => (pos = 0 /\ Done(c.arg)) \/ Placed(c.arg, pos)
  /\ c.op = "ANCHOR_CONFIRMED" => c.arg <= acked

AnswersJustified ==
  \A a \in ActionIds :
    /\ result[a].pos <= Len(applied)
    /\ result[a].kind = "ok" => Justified(OpOf(a), result[a].pos)

RowJustified(job) ==
  /\ job.action # NoAction => OpOf(job.action) = [op |-> "APPLY", arg |-> job.src]
  /\ job.status = "confirmed" => Kind[job.src] = "QUERY" \/ Done(job.src)

RowsJustified == \A i \in 1..Len(jobs) : RowJustified(jobs[i])

WorkerJustified ==
  /\ hand.by \in Signer /\ hand.pos <= Len(applied)
  /\ pc \in {"execute", "confirm", "confirming"} /\ stage # "anchor"
       => Placed(jobs[cur].src, hand.pos)
  /\ pc = "confirmed" => Done(jobs[cur].src)
  /\ pc = "submitted" => sent[side] = [op |-> "APPLY", arg |-> jobs[cur].src]
  /\ pc = "confirming" => sent[side] = [op |-> "ANCHOR_CONFIRMED", arg |-> hand.pos]
  /\ pc = "depositing" => sent[side] = [op |-> "RECOVER_DEPOSIT", arg |-> jobs[cur].src]

LedgerOK == settled \in Seq(Signer) /\ LedgerAgreement

\* The inductive invariant.
RelayerInv ==
  /\ Types /\ NoJobStranded
  /\ LedgerOK /\ AnswersJustified /\ RowsJustified /\ WorkerJustified

-----------------------------------------------------------------------------
(***************************************************************************)
(* The table                                                               *)
(***************************************************************************)
LEMMA OpenedJustified ==
  ASSUME NEW job \in Row, RowJustified(job)
  PROVE  RowJustified(Opened(job))
<1>1. Opened(job).src = job.src /\ (Opened(job).status = "confirmed" => job.status = "confirmed")
  BY DEF Opened, Row
<1>2. Opened(job).action # NoAction
      => \/ Opened(job).action = job.action
         \/ Opened(job).action = job.src /\ job.src \in Events
  BY DEF Opened, Row
<1>3. job.src \in Events => OpOf(job.src) = [op |-> "APPLY", arg |-> job.src]
  BY DEF OpOf
<1> QED
  BY <1>1, <1>2, <1>3 DEF RowJustified

LEMMA DrainJustified ==
  ASSUME NEW js \in Seq(Row), Drain(js), \A i \in 1..Len(js) : RowJustified(js[i])
  PROVE  \A i \in 1..Len(jobs') : RowJustified(jobs'[i])
<1>1. CASE Runnable(js) = {}
  BY <1>1 DEF Drain
<1>2. CASE Runnable(js) # {}
  <2> DEFINE i == NextRunnableJob(js)
  <2>1. i \in 1..Len(js)
    BY <1>2, NextIsRunnable DEF Runnable
  <2>2. js[i] \in Row
    BY <2>1, ElementOfSeq
  <2>3. jobs' = [js EXCEPT ![i] = Opened(js[i])]
    BY <1>2 DEF Drain
  <2> HIDE DEF i
  <2>4. /\ Len(jobs') = Len(js)
        /\ \A j \in 1..Len(js) : jobs'[j] = IF j = i THEN Opened(js[i]) ELSE js[j]
    BY <2>1, <2>2, <2>3, OpenedRow, ExceptSeq
  <2> QED
    BY <2>1, <2>2, <2>4, OpenedJustified
<1> QED
  BY <1>1, <1>2

LEMMA CreatedJustified ==
  ASSUME NEW js \in Seq(Row), NEW s \in Sources, \A i \in 1..Len(js) : RowJustified(js[i])
  PROVE  \A i \in 1..Len(CreateJob(s, js)) : RowJustified(CreateJob(s, js)[i])
<1>1. NewJob(s) \in Row /\ RowJustified(NewJob(s))
  BY DEF NewJob, Row, Statuses, RunnableStatuses, RowJustified
<1>2. CASE CreateJob(s, js) = js
  BY <1>2
<1>3. CASE CreateJob(s, js) = Append(js, NewJob(s))
  BY <1>1, <1>3, AppendProperties
<1> QED
  BY <1>2, <1>3 DEF CreateJob

\* A row is replaced by one that is justified.
LEMMA ReplacedJustified ==
  ASSUME NEW js \in Seq(Row), NEW i \in 1..Len(js), NEW row \in Row,
         \A j \in 1..Len(js) : RowJustified(js[j]), RowJustified(row)
  PROVE  /\ [js EXCEPT ![i] = row] \in Seq(Row)
         /\ \A j \in 1..Len([js EXCEPT ![i] = row]) : RowJustified([js EXCEPT ![i] = row][j])
<1>1. /\ [js EXCEPT ![i] = row] \in Seq(Row)
      /\ Len([js EXCEPT ![i] = row]) = Len(js)
      /\ \A j \in 1..Len(js) : [js EXCEPT ![i] = row][j] = IF j = i THEN row ELSE js[j]
  BY ExceptSeq
<1> QED
  BY <1>1

-----------------------------------------------------------------------------
(***************************************************************************)
(* The steps of the relayer                                                *)
(***************************************************************************)
\* What a step has to show besides EveryStep.
Preserved == LedgerOK' /\ AnswersJustified' /\ RowsJustified' /\ WorkerJustified'

\* A step that leaves the node and the vault alone.
LEMMA QuietStep ==
  ASSUME RelayerInv, UNCHANGED <<node, settled>>,
         \A i \in 1..Len(jobs') : RowJustified(jobs'[i])
  PROVE  LedgerOK' /\ AnswersJustified' /\ RowsJustified'
<1>1. UNCHANGED <<sent, result, late, applied, acked, settled>>
  BY DEF node
<1>2. LedgerOK'
  BY <1>1 DEF RelayerInv, LedgerOK, LedgerAgreement
<1>3. AnswersJustified'
  BY <1>1 DEF RelayerInv, AnswersJustified, Justified, Placed, Done, OpOf, ActionIds
<1>4. RowsJustified'
  BY <1>1 DEF RowsJustified, RowJustified, OpOf, Done
<1> QED
  BY <1>2, <1>3, <1>4

\* After the worker has opened a job, or stopped, it holds nothing to justify.
LEMMA DrainStep ==
  ASSUME RelayerInv, NEW js \in Seq(Row), \A i \in 1..Len(js) : RowJustified(js[i]),
         Drain(js), UNCHANGED <<stage, hand, side, node, settled>>
  PROVE  Preserved
<1>1. \A i \in 1..Len(jobs') : RowJustified(jobs'[i])
  BY DrainJustified
<1>2. pc' \in {"idle", "submit", "poll"}
  BY DrainKeepsRows
<1>3. WorkerJustified'
  BY <1>2 DEF RelayerInv, WorkerJustified, node
<1> QED
  BY <1>1, <1>3, QuietStep DEF Preserved

\* A job is finished as confirmed only when it is done.
LEMMA FinishJustified ==
  ASSUME RelayerInv, pc # "idle", NEW status \in Statuses, NEW error \in {"none", "failed", "retry"},
         NEW tx \in BOOLEAN, Finish(status, error, tx), UNCHANGED <<node, settled>>,
         status = "confirmed" => Kind[jobs[cur].src] = "QUERY" \/ Done(jobs[cur].src)
  PROVE  Preserved
<1> DEFINE row == Updated(jobs[cur], status, error, tx)
           js == [jobs EXCEPT ![cur] = row]
<1>1. /\ jobs \in Seq(Row) /\ cur \in 1..Len(jobs) /\ jobs[cur] \in Row
      /\ \A i \in 1..Len(jobs) : RowJustified(jobs[i])
  BY CurrentRow DEF RelayerInv, Types, TableType, WorkerType, Runnable, RowsJustified
<1>2. row \in Row /\ row.src = jobs[cur].src /\ row.action = jobs[cur].action
  BY <1>1, UpdatedRow
<1>3. row.status = status
  BY <1>1 DEF Updated, Row
<1>4. Drain(js) /\ UNCHANGED <<stage, hand, side>>
  BY DEF Finish
<1> HIDE DEF row
<1>5. RowJustified(row)
  BY <1>1, <1>2, <1>3 DEF RowJustified
<1>6. js \in Seq(Row) /\ \A i \in 1..Len(js) : RowJustified(js[i])
  BY <1>1, <1>2, <1>5, ReplacedJustified
<1> HIDE DEF js
<1> QED
  BY <1>4, <1>6, DrainStep

LEMMA FailJustified ==
  ASSUME RelayerInv, pc # "idle", NEW error \in {"none", "failed", "retry"}, Fail(error),
         UNCHANGED <<node, settled>>
  PROVE  Preserved
<1>1. jobs[cur].tx \in BOOLEAN
  BY CurrentRow DEF RelayerInv
<1> QED
  BY <1>1, FinishJustified DEF Fail, Statuses

\* A wake-up of the worker, with a table whose rows are justified.
LEMMA WakeJustified ==
  ASSUME RelayerInv, NEW js \in Seq(Row), \A i \in 1..Len(js) : RowJustified(js[i]),
         pc # "idle" => js[cur].src = jobs[cur].src,
         Wake(js), UNCHANGED <<stage, hand, side, node, settled>>
  PROVE  Preserved
<1>1. CASE pc = "idle" /\ Drain(js)
  BY <1>1, DrainStep
<1>2. CASE pc # "idle" /\ jobs' = js /\ UNCHANGED <<pc, cur>>
  <2>1. WorkerJustified'
    BY <1>2 DEF RelayerInv, WorkerJustified, Placed, Done, node
  <2> QED
    BY <1>2, <2>1, QuietStep DEF Preserved
<1> QED
  BY <1>1, <1>2 DEF Wake

LEMMA CreateJustified ==
  ASSUME RelayerInv, NEW s \in Sources, Wake(CreateJob(s, jobs)),
         UNCHANGED <<stage, hand, side, node, settled>>
  PROVE  Preserved
<1> DEFINE js == CreateJob(s, jobs)
<1>1. jobs \in Seq(Row) /\ \A i \in 1..Len(jobs) : RowJustified(jobs[i])
  BY DEF RelayerInv, Types, TableType, RowsJustified
<1>2. js \in Seq(Row) /\ \A i \in 1..Len(jobs) : js[i] = jobs[i]
  BY <1>1, CreatedRow
<1>3. \A i \in 1..Len(js) : RowJustified(js[i])
  BY <1>1, CreatedJustified
<1>4. pc # "idle" => js[cur].src = jobs[cur].src
  BY <1>2 DEF RelayerInv, Types, WorkerType, Runnable
<1> HIDE DEF js
<1>5. Wake(js)
  BY DEF js
<1> QED
  BY <1>2, <1>3, <1>4, <1>5, WakeJustified

LEMMA RetryJustified ==
  ASSUME RelayerInv, NEW i \in DOMAIN jobs, Retry(i)
  PROVE  Preserved
<1> DEFINE row == ResetForRetry(jobs[i])
           js == [jobs EXCEPT ![i] = row]
<1>1. /\ jobs \in Seq(Row) /\ i \in 1..Len(jobs) /\ jobs[i] \in Row
      /\ \A k \in 1..Len(jobs) : RowJustified(jobs[k])
  BY LenProperties, ElementOfSeq DEF RelayerInv, Types, TableType, RowsJustified
<1>2. /\ row \in Row /\ row.src = jobs[i].src /\ row.action = jobs[i].action
      /\ row.status # "confirmed"
  BY <1>1 DEF ResetForRetry, Row, Statuses, RunnableStatuses
<1>3. Wake(js) /\ UNCHANGED <<stage, hand, side, node, settled>>
  BY DEF Retry, vault
<1> HIDE DEF row
<1>4. RowJustified(row)
  BY <1>1, <1>2 DEF RowJustified
<1>5. js \in Seq(Row) /\ \A k \in 1..Len(js) : RowJustified(js[k])
  BY <1>1, <1>2, <1>4, ReplacedJustified
<1>6. \A k \in 1..Len(jobs) : js[k] = IF k = i THEN row ELSE jobs[k]
  BY <1>1, <1>2, ExceptSeq
<1>7. pc # "idle" => js[cur].src = jobs[cur].src
  BY <1>2, <1>6 DEF RelayerInv, Types, WorkerType, Runnable
<1> HIDE DEF js
<1> QED
  BY <1>3, <1>5, <1>7, WakeJustified

\* A step that changes neither the table nor the worker, nor anything beyond it.
LEMMA StillJustified ==
  ASSUME RelayerInv, UNCHANGED <<jobs, pc, cur, stage, hand, side, node, settled>>
  PROVE  Preserved
<1>1. \A i \in 1..Len(jobs') : RowJustified(jobs'[i])
  BY DEF RelayerInv, RowsJustified
<1>2. WorkerJustified'
  BY DEF RelayerInv, WorkerJustified, Placed, Done, node
<1> QED
  BY <1>1, <1>2, QuietStep DEF Preserved

-----------------------------------------------------------------------------
(***************************************************************************)
(* The steps of the worker                                                 *)
(***************************************************************************)
\* A command that was sent is what its id stands for.
LEMMA SentOperation ==
  ASSUME Types, NEW a \in DOMAIN sent
  PROVE  OpOf(a) = sent[a] /\ a \in ActionIds /\ a \in Nat
<1>1. a \in Nat
  BY LenProperties DEF Types, NodeType
<1>2. a \notin Events
  BY <1>1, ConstantsAssumption DEF Sources
<1> QED
  BY <1>1, <1>2 DEF OpOf, ActionIds

\* A new command has no answer yet, and the older ones keep theirs.
LEMMA SendJustified ==
  ASSUME RelayerInv, NEW op, NEW arg, [op |-> op, arg |-> arg] \in Command, Send(op, arg),
         UNCHANGED <<jobs, settled>>
  PROVE  /\ LedgerOK' /\ AnswersJustified' /\ RowsJustified'
         /\ sent'[Len(sent) + 1] = [op |-> op, arg |-> arg]
         /\ UNCHANGED applied
<1>1. /\ sent \in Seq(Command) /\ Len(sent) \in Nat /\ DOMAIN sent = 1..Len(sent)
      /\ sent' = Append(sent, [op |-> op, arg |-> arg])
      /\ UNCHANGED <<late, applied, acked>>
  BY LenProperties DEF RelayerInv, Types, NodeType, Send, nodeButSent
<1>2. /\ DOMAIN sent' = 1..Len(sent) + 1
      /\ \A a \in DOMAIN sent : sent'[a] = sent[a]
      /\ sent'[Len(sent) + 1] = [op |-> op, arg |-> arg]
  BY <1>1, AppendProperties, LenProperties
<1>3. /\ ActionIds' = ActionIds \cup {Len(sent) + 1}
      /\ Len(sent) + 1 \notin ActionIds
      /\ \A a \in ActionIds : OpOf(a)' = OpOf(a)
  BY <1>1, <1>2, ConstantsAssumption DEF ActionIds, OpOf, Sources
<1>4. \A a \in ActionIds' :
        result'[a] = IF a = Len(sent) + 1 THEN [kind |-> "none", pos |-> 0] ELSE result[a]
  BY <1>3 DEF Send, RelayerInv, Types, NodeType
<1>5. Len(applied) \in Nat
  BY LenProperties DEF RelayerInv, Types, NodeType
<1>6. ASSUME NEW a \in ActionIds, result[a].kind = "ok"
      PROVE  Justified(OpOf(a), result[a].pos)'
  <2>1. Justified(OpOf(a), result[a].pos)
    BY <1>6 DEF RelayerInv, AnswersJustified
  <2>2. OpOf(a)' = OpOf(a) /\ result'[a] = result[a]
    BY <1>3, <1>4
  <2> QED
    BY <1>1, <2>1, <2>2 DEF Justified, Placed, Done
<1>7. AnswersJustified'
  <2> SUFFICES ASSUME NEW a \in ActionIds'
               PROVE  (/\ result[a].pos <= Len(applied)
                       /\ result[a].kind = "ok" => Justified(OpOf(a), result[a].pos))'
    BY DEF AnswersJustified
  <2>1. CASE a = Len(sent) + 1
    BY <1>1, <1>4, <1>5, <2>1
  <2>2. CASE a # Len(sent) + 1
    <3>1. a \in ActionIds /\ result'[a] = result[a] /\ applied' = applied
      BY <1>1, <1>3, <1>4, <2>2
    <3> QED
      BY <1>6, <3>1 DEF RelayerInv, AnswersJustified
  <2> QED
    BY <2>1, <2>2
<1>8. RowsJustified'
  <2>1. \A i \in 1..Len(jobs) : jobs[i].action \in ActionIds \cup {NoAction}
    BY DEF RelayerInv, Types, TableType
  <2> QED
    BY <1>1, <1>3, <2>1 DEF RelayerInv, RowsJustified, RowJustified, Done
<1>9. LedgerOK'
  BY <1>1 DEF RelayerInv, LedgerOK, LedgerAgreement
<1> QED
  BY <1>1, <1>2, <1>7, <1>8, <1>9

\* The worker sends a command and waits for its answer.
LEMMA SendAndWait ==
  ASSUME RelayerInv, pc # "idle", NEW op, NEW arg, [op |-> op, arg |-> arg] \in Command,
         Send(op, arg), side' = Len(sent) + 1, UNCHANGED <<jobs, cur, stage, hand, settled>>,
         \/ pc' = "submitted" /\ op = "APPLY" /\ arg = jobs[cur].src
         \/ /\ pc' = "confirming" /\ op = "ANCHOR_CONFIRMED" /\ arg = hand.pos
            /\ stage # "anchor" => Placed(jobs[cur].src, hand.pos)
         \/ pc' = "recovering"
         \/ pc' = "depositing" /\ op = "RECOVER_DEPOSIT" /\ arg = jobs[cur].src
  PROVE  Preserved
<1>1. /\ LedgerOK' /\ AnswersJustified' /\ RowsJustified'
      /\ sent'[side'] = [op |-> op, arg |-> arg]
      /\ UNCHANGED applied
  BY SendJustified
<1>2. WorkerJustified'
  BY <1>1 DEF RelayerInv, WorkerJustified, Placed
<1> QED
  BY <1>1, <1>2 DEF Preserved

\* The worker writes a row that is justified, and goes on with the same job.
LEMMA RowWritten ==
  ASSUME RelayerInv, pc # "idle", NEW row \in Row, RowJustified(row), row.src = jobs[cur].src,
         jobs' = [jobs EXCEPT ![cur] = row], UNCHANGED <<cur, node, settled>>,
         hand'.by \in Signer, hand'.pos <= Len(applied),
         \/ pc' = "poll"
         \/ pc' \in {"execute", "confirm"} /\ Placed(jobs[cur].src, hand'.pos)
         \/ pc' = "confirmed" /\ Done(jobs[cur].src)
  PROVE  Preserved
<1>1. /\ jobs \in Seq(Row) /\ cur \in 1..Len(jobs)
      /\ \A i \in 1..Len(jobs) : RowJustified(jobs[i])
  BY DEF RelayerInv, Types, TableType, WorkerType, Runnable, RowsJustified
<1>2. \A i \in 1..Len(jobs') : RowJustified(jobs'[i])
  BY <1>1, ReplacedJustified
<1>3. jobs'[cur] = row
  BY <1>1, ExceptSeq
<1>4. WorkerJustified'
  BY <1>3 DEF WorkerJustified, Placed, Done, node
<1> QED
  BY <1>2, <1>4, QuietStep DEF Preserved

\* The worker goes on with what it holds.
LEMMA WorkerMoves ==
  ASSUME RelayerInv, UNCHANGED <<jobs, cur, node, settled>>,
         hand'.by \in Signer, hand'.pos <= Len(applied),
         \/ pc' \in {"recover", "recovered"}
         \/ /\ pc' \in {"execute", "confirm"}
            /\ stage' # "anchor" => Placed(jobs[cur].src, hand'.pos)
  PROVE  Preserved
<1>1. \A i \in 1..Len(jobs') : RowJustified(jobs'[i])
  BY DEF RelayerInv, RowsJustified
<1>2. WorkerJustified'
  BY DEF WorkerJustified, Placed, node
<1> QED
  BY <1>1, <1>2, QuietStep DEF Preserved

\* An answer with a settlement for the command the worker has sent.
LEMMA SideJustified ==
  ASSUME RelayerInv, pc \in {"confirming", "recovering", "depositing"}
  PROVE  /\ side \in Nat /\ side \in Signer
         /\ result[side].pos \in Nat /\ result[side].pos <= Len(applied)
         /\ result[side].kind = "ok" => Justified(sent[side], result[side].pos)
<1>1. side \in DOMAIN sent /\ side \in ActionIds /\ result[side].pos \in Nat
  BY SideAnswer DEF RelayerInv, Types, WorkerType
<1>2. OpOf(side) = sent[side] /\ side \in Nat
  BY <1>1, SentOperation DEF RelayerInv
<1> QED
  BY <1>1, <1>2 DEF RelayerInv, AnswersJustified, Signer

\* A place that the ledger has confirmed is done in the vault too.
LEMMA ConfirmedPlace ==
  ASSUME RelayerInv, NEW s, NEW pos, Placed(s, pos), pos <= acked
  PROVE  Done(s)
<1>1. /\ acked \in Nat /\ Len(applied) \in Nat /\ Len(settled) \in Nat
      /\ acked <= Len(settled) /\ Len(settled) <= Len(applied)
  BY LenProperties DEF RelayerInv, Types, NodeType, LedgerOK, LedgerAgreement
<1>2. pos \in 1..acked /\ pos <= Len(settled) /\ pos <= Len(applied) /\ applied[pos] = s
  BY <1>1 DEF Placed
<1> QED
  BY <1>2 DEF Done

\* The vault accepts the settlement of the next position only, and the worker holds
\* none past the ledger's history.
LEMMA MinedStep ==
  ASSUME RelayerInv, SettlementMined
  PROVE  Preserved
<1>1. /\ settled \in Seq(Signer) /\ hand.by \in Signer /\ hand.pos \in Nat
      /\ hand.pos = Len(settled) + 1 /\ hand.pos <= Len(applied)
      /\ acked <= Len(settled) /\ Len(applied) <= acked + 1
      /\ acked \in Nat /\ Len(applied) \in Nat /\ Len(settled) \in Nat
  BY LenProperties DEF RelayerInv, Types, WorkerType, NodeType, LedgerOK, LedgerAgreement,
     WorkerJustified, SettlementMined, Executable
<1>2. settled' = Append(settled, hand.by) /\ UNCHANGED <<tables, worker, node>>
  BY DEF SettlementMined
<1>3. settled' \in Seq(Signer) /\ Len(settled') = Len(settled) + 1
  BY <1>1, <1>2, AppendProperties
<1>4. LedgerOK'
  BY <1>1, <1>2, <1>3 DEF LedgerOK, LedgerAgreement, node
<1>5. \A s : Done(s) => Done(s)'
  BY <1>1, <1>2, <1>3 DEF Done, node
<1>6. AnswersJustified'
  BY <1>2, <1>5 DEF RelayerInv, AnswersJustified, Justified, Placed, OpOf, ActionIds, node
<1>7. RowsJustified'
  BY <1>2, <1>5 DEF RelayerInv, RowsJustified, RowJustified, OpOf, node, tables
<1>8. WorkerJustified'
  BY <1>2, <1>5 DEF RelayerInv, WorkerJustified, Placed, node, tables, worker
<1> QED
  BY <1>4, <1>6, <1>7, <1>8 DEF Preserved

\* The answer of the job's own action.
LEMMA PollStep ==
  ASSUME RelayerInv, PollAnswer
  PROVE  Preserved
<1> DEFINE a == jobs[cur].action
           pos == result[a].pos
<1>0. /\ pc = "poll" /\ UNCHANGED <<node, settled>>
      /\ jobs[cur] \in Row /\ a \in ActionIds /\ RowJustified(jobs[cur])
  BY CurrentRow DEF PollAnswer, elsewhere, vault, RelayerInv, Types, WorkerType, Runnable,
     RowsJustified
<1>1. /\ OpOf(a) = [op |-> "APPLY", arg |-> jobs[cur].src]
      /\ pos \in Nat /\ pos <= Len(applied) /\ a \in Signer
  BY <1>0, ActionNumbers DEF RelayerInv, Types, NodeType, WorkerType, AnswerType, RowJustified,
     AnswersJustified, Signer
<1>2. result[a].kind = "ok" =>
        (Kind[jobs[cur].src] = "QUERY" /\ pos = 0) \/ Placed(jobs[cur].src, pos)
  BY <1>0, <1>1 DEF RelayerInv, AnswersJustified, Justified
<1>3. CASE result[a].kind = "ok" /\ pos = 0 /\ Finish("confirmed", "none", jobs[cur].tx)
  <2>1. Kind[jobs[cur].src] = "QUERY"
    BY <1>2, <1>3 DEF Placed
  <2>2. jobs[cur].tx \in BOOLEAN
    BY <1>0, CurrentRow DEF RelayerInv
  <2> QED
    BY <1>0, <1>3, <2>1, <2>2, FinishJustified DEF Statuses
<1>4. CASE /\ result[a].kind = "ok" /\ pos > 0
           /\ jobs' = [jobs EXCEPT ![cur] = [@ EXCEPT !.status = "settling"]]
           /\ hand' = [by |-> a, pos |-> pos]
           /\ pc' = IF jobs[cur].tx THEN "confirm" ELSE "execute"
           /\ UNCHANGED cur
  <2> DEFINE row == [jobs[cur] EXCEPT !.status = "settling"]
  <2>1. /\ row \in Row /\ row.src = jobs[cur].src
        /\ row.action = jobs[cur].action /\ row.status = "settling"
    BY <1>0 DEF Row, Statuses, RunnableStatuses
  <2>2. jobs' = [jobs EXCEPT ![cur] = row]
    BY <1>4
  <2> HIDE DEF row
  <2>3. RowJustified(row)
    BY <1>0, <2>1 DEF RowJustified
  <2>4. Placed(jobs[cur].src, pos)
    BY <1>1, <1>2, <1>4
  <2>5. hand'.by \in Signer /\ hand'.pos = pos /\ hand'.pos <= Len(applied)
    BY <1>1, <1>4
  <2>6. pc' \in {"execute", "confirm"}
    BY <1>4
  <2> HIDE DEF a, pos
  <2> QED
    BY <1>0, <1>4, <2>1, <2>2, <2>3, <2>4, <2>5, <2>6, RowWritten
<1>5. CASE pc' = "recover" /\ UNCHANGED <<jobs, cur, stage, hand, side>>
  BY <1>0, <1>5, WorkerMoves DEF RelayerInv, WorkerJustified
<1>6. CASE Fail("failed")
  BY <1>0, <1>6, FailJustified
<1> QED
  BY <1>3, <1>4, <1>5, <1>6 DEF PollAnswer

\* The engine has confirmed the position the worker holds.
LEMMA ConfirmStep ==
  ASSUME RelayerInv, ConfirmAnswer
  PROVE  Preserved
<1>0. /\ pc = "confirming" /\ UNCHANGED <<node, settled>>
      /\ jobs[cur] \in Row /\ RowJustified(jobs[cur])
      /\ hand.by \in Signer /\ hand.pos <= Len(applied)
  BY CurrentRow DEF ConfirmAnswer, elsewhere, vault, RelayerInv, Types, WorkerType, Runnable,
     RowsJustified, WorkerJustified
<1>1. result[side].kind = "ok" => hand.pos <= acked
  BY <1>0, SideJustified DEF RelayerInv, WorkerJustified, Justified
<1>2. result[side].kind = "ok" /\ stage # "anchor" => Done(jobs[cur].src)
  BY <1>0, <1>1, ConfirmedPlace DEF RelayerInv, WorkerJustified
<1>3. CASE /\ result[side].kind = "ok" /\ stage = "job"
           /\ jobs' = [jobs EXCEPT ![cur] = [@ EXCEPT !.tx = TRUE, !.status = "confirming"]]
           /\ pc' = "confirmed"
           /\ UNCHANGED <<cur, stage, hand, side>>
  <2> DEFINE row == [jobs[cur] EXCEPT !.tx = TRUE, !.status = "confirming"]
  <2>1. /\ row \in Row /\ row.src = jobs[cur].src
        /\ row.action = jobs[cur].action /\ row.status = "confirming"
    BY <1>0 DEF Row, Statuses, RunnableStatuses
  <2>2. jobs' = [jobs EXCEPT ![cur] = row]
    BY <1>3
  <2> HIDE DEF row
  <2>3. RowJustified(row)
    BY <1>0, <2>1 DEF RowJustified
  <2> QED
    BY <1>0, <1>2, <1>3, <2>1, <2>2, <2>3, RowWritten
<1>4. CASE pc' = "recovered" /\ UNCHANGED <<jobs, cur, stage, hand, side>>
  BY <1>0, <1>4, WorkerMoves
<1>5. CASE result[side].kind = "ok" /\ stage = "deposit" /\ Finish("confirmed", "none", TRUE)
  BY <1>0, <1>2, <1>5, FinishJustified DEF Statuses
<1>6. CASE Fail("failed")
  BY <1>0, <1>6, FailJustified
<1> QED
  BY <1>3, <1>4, <1>5, <1>6 DEF ConfirmAnswer

LEMMA RecoveryStep ==
  ASSUME RelayerInv, RecoveryAnswer
  PROVE  Preserved
<1>0. /\ pc = "recovering" /\ UNCHANGED <<node, settled>>
      /\ hand.by \in Signer /\ hand.pos <= Len(applied)
  BY DEF RecoveryAnswer, elsewhere, vault, RelayerInv, WorkerJustified
<1>1. CASE /\ hand' = [by |-> side, pos |-> result[side].pos] /\ stage' = "anchor"
           /\ pc' = IF anchorState = result[side].pos THEN "confirm" ELSE "execute"
           /\ UNCHANGED <<jobs, cur, side>>
  <2>1. hand'.by \in Signer /\ hand'.pos <= Len(applied) /\ pc' \in {"execute", "confirm"}
    BY <1>0, <1>1, SideJustified
  <2> QED
    BY <1>0, <1>1, <2>1, WorkerMoves
<1>2. CASE pc' = "recovered" /\ UNCHANGED <<jobs, cur, stage, hand, side>>
  BY <1>0, <1>2, WorkerMoves
<1>3. CASE Fail("failed")
  BY <1>0, <1>3, FailJustified
<1> QED
  BY <1>1, <1>2, <1>3 DEF RecoveryAnswer

\* The answer to the deposit's recovery: in the ledger before, or with a settlement.
LEMMA DepositStep ==
  ASSUME RelayerInv, DepositAnswer
  PROVE  Preserved
<1>0. /\ pc = "depositing" /\ UNCHANGED <<node, settled>>
      /\ jobs[cur].tx \in BOOLEAN
      /\ result[side].kind = "ok" =>
           (result[side].pos = 0 /\ Done(jobs[cur].src)) \/ Placed(jobs[cur].src, result[side].pos)
  BY CurrentRow, SideJustified DEF DepositAnswer, elsewhere, vault, RelayerInv, WorkerJustified,
     Justified
<1>1. CASE /\ result[side].kind = "ok" /\ result[side].pos = 0
           /\ Finish("confirmed", "none", jobs[cur].tx)
  <2>1. Done(jobs[cur].src)
    BY <1>0, <1>1 DEF Placed
  <2> QED
    BY <1>0, <1>1, <2>1, FinishJustified DEF Statuses
<1>2. CASE /\ result[side].kind = "ok" /\ result[side].pos > 0
           /\ hand' = [by |-> side, pos |-> result[side].pos]
           /\ stage' = "deposit" /\ pc' = "execute"
           /\ UNCHANGED <<jobs, cur, side>>
  <2>1. Placed(jobs[cur].src, result[side].pos)
    BY <1>0, <1>2
  <2>2. hand'.by \in Signer /\ hand'.pos = result[side].pos /\ hand'.pos <= Len(applied)
    BY <1>0, <1>2, SideJustified
  <2> QED
    BY <1>0, <1>2, <2>1, <2>2, WorkerMoves
<1>3. CASE Fail("failed")
  BY <1>0, <1>3, FailJustified
<1> QED
  BY <1>1, <1>2, <1>3 DEF DepositAnswer

LEMMA WorkJustified ==
  ASSUME RelayerInv, Work \/ WorkerFault
  PROVE  Preserved
<1>0. /\ Types /\ jobs \in Seq(Row) /\ hand.by \in Signer /\ hand.pos \in Nat
      /\ hand.pos <= Len(applied)
  BY DEF RelayerInv, Types, TableType, WorkerType, WorkerJustified
<1>1. CASE SubmitCiphertext
  <2>1. [op |-> "APPLY", arg |-> jobs[cur].src] \in Command
    BY <1>0, <1>1, CurrentRow DEF SubmitCiphertext, Command
  <2> QED
    BY <1>1, <2>1, SendAndWait DEF SubmitCiphertext, elsewhere, vault
<1>2. CASE SaveActionId
  <2> DEFINE row == [jobs[cur] EXCEPT !.action = side, !.status = "processing"]
  <2>1. /\ pc = "submitted" /\ side \in DOMAIN sent
        /\ sent[side] = [op |-> "APPLY", arg |-> jobs[cur].src]
    BY <1>2 DEF SaveActionId, RelayerInv, Types, WorkerType, WorkerJustified
  <2>2. OpOf(side) = [op |-> "APPLY", arg |-> jobs[cur].src] /\ side \in Nat
    BY <1>0, <2>1, SentOperation
  <2>3. /\ row \in Row /\ row.src = jobs[cur].src
        /\ row.action = side /\ row.status = "processing"
    BY <1>0, <2>1, <2>2, CurrentRow DEF Row, Statuses, RunnableStatuses
  <2>4. /\ jobs' = [jobs EXCEPT ![cur] = row] /\ pc' = "poll"
        /\ UNCHANGED <<cur, hand, node, settled>>
    BY <1>2 DEF SaveActionId, elsewhere, vault
  <2> HIDE DEF row
  <2>5. RowJustified(row)
    BY <2>2, <2>3 DEF RowJustified
  <2> QED
    BY <1>0, <2>1, <2>3, <2>4, <2>5, RowWritten
<1>3. CASE Executed
  BY <1>0, <1>3, WorkerMoves DEF Executed, elsewhere, vault, RelayerInv, WorkerJustified
<1>4. CASE ExecuteReverts
  BY <1>4, FailJustified DEF ExecuteReverts, elsewhere, vault
<1>5. CASE SubmitConfirmation
  <2>1. [op |-> "ANCHOR_CONFIRMED", arg |-> hand.pos] \in Command
    BY <1>0 DEF Command
  <2> QED
    BY <1>5, <2>1, SendAndWait DEF SubmitConfirmation, elsewhere, vault, RelayerInv, WorkerJustified
<1>6. CASE FinishConfirmed
  <2>1. pc = "confirmed" /\ Done(jobs[cur].src)
    BY <1>6 DEF FinishConfirmed, RelayerInv, WorkerJustified
  <2> QED
    BY <1>6, <2>1, FinishJustified DEF FinishConfirmed, elsewhere, vault, Statuses
<1>7. CASE SubmitRecovery
  <2>1. [op |-> "RECOVER_ANCHOR", arg |-> 0] \in Command
    BY DEF Command
  <2> QED
    BY <1>7, <2>1, SendAndWait DEF SubmitRecovery, elsewhere, vault
<1>8. CASE AfterRecovery
  <2>0. pc = "recovered" /\ UNCHANGED settled
    BY <1>8 DEF AfterRecovery, elsewhere, vault
  <2>1. CASE /\ Send("RECOVER_DEPOSIT", jobs[cur].src) /\ side' = Len(sent) + 1
             /\ pc' = "depositing" /\ UNCHANGED <<jobs, cur, stage, hand>>
    <3>1. [op |-> "RECOVER_DEPOSIT", arg |-> jobs[cur].src] \in Command
      BY <1>0, <2>0, CurrentRow DEF Command
    <3> QED
      BY <2>0, <2>1, <3>1, SendAndWait
  <2>2. CASE Fail("retry") /\ UNCHANGED node
    BY <2>0, <2>2, FailJustified
  <2> QED
    BY <1>8, <2>1, <2>2 DEF AfterRecovery
<1>9. CASE WorkerFault
  BY <1>9, FailJustified DEF WorkerFault, vault
<1> QED
  BY <1>1, <1>2, <1>3, <1>4, <1>5, <1>6, <1>7, <1>8, <1>9, PollStep, MinedStep, ConfirmStep,
     RecoveryStep, DepositStep DEF Work

-----------------------------------------------------------------------------
(***************************************************************************)
(* The steps of the node, and every step                                   *)
(***************************************************************************)
\* The node gives one answer at most, and the ledger's history only grows.
LEMMA LedgerGrows ==
  ASSUME RelayerInv, NEW a \in ActionIds, NEW kind, NEW pos \in Nat,
         UNCHANGED <<jobs, pc, cur, stage, hand, side, sent, settled>>,
         LedgerAgreement', Len(applied) <= Len(applied'), Len(applied') \in Nat,
         \A p \in 1..Len(applied) : applied'[p] = applied[p],
         acked <= acked', acked' \in Nat,
         pos <= Len(applied'), kind = "ok" => Justified(OpOf(a), pos)',
         Answer(a, kind, pos) \/ result' = result
  PROVE  Preserved
<1>0. /\ acked \in Nat /\ Len(applied) \in Nat /\ hand.pos \in Nat
      /\ result \in [ActionIds -> AnswerType]
  BY LenProperties DEF RelayerInv, Types, NodeType, WorkerType
<1>1. \A s : Done(s) => Done(s)'
  BY <1>0 DEF Done
<1>2. \A s, p : Placed(s, p) => Placed(s, p)'
  BY <1>0 DEF Placed
<1>3. LedgerOK'
  BY DEF RelayerInv, LedgerOK
<1>4. AnswersJustified'
  <2> SUFFICES ASSUME NEW b \in ActionIds
               PROVE  (/\ result[b].pos <= Len(applied)
                       /\ result[b].kind = "ok" => Justified(OpOf(b), result[b].pos))'
    BY DEF AnswersJustified, ActionIds
  <2>0. OpOf(b)' = OpOf(b) /\ result[b].pos \in Nat
    BY <1>0 DEF OpOf, AnswerType
  <2>1. CASE result'[b] = result[b]
    <3>1. (/\ result[b].pos <= Len(applied))'
      BY <1>0, <2>0, <2>1 DEF RelayerInv, AnswersJustified
    <3>2. ASSUME result[b].kind = "ok" PROVE Justified(OpOf(b), result[b].pos)'
      <4>1. Justified(OpOf(b), result[b].pos)
        BY <3>2 DEF RelayerInv, AnswersJustified
      <4>2. (OpOf(b).op = "ANCHOR_CONFIRMED") => OpOf(b).arg <= acked'
        <5>1. OpOf(b).op = "ANCHOR_CONFIRMED" => OpOf(b).arg \in Nat
          BY OperationType DEF RelayerInv, Command
        <5> QED
          BY <1>0, <4>1, <5>1 DEF Justified
      <4> QED
        BY <1>1, <1>2, <2>0, <2>1, <4>1, <4>2 DEF Justified
    <3> QED
      BY <2>1, <3>1, <3>2
  <2>2. CASE result'[b] # result[b]
    <3>1. b = a /\ result'[b].pos = pos /\ result'[b].kind = kind
      BY <1>0, <2>2 DEF Answer
    <3> QED
      BY <3>1
  <2> QED
    BY <2>1, <2>2
<1>5. RowsJustified'
  BY <1>1 DEF RelayerInv, RowsJustified, RowJustified, OpOf
<1>6. WorkerJustified'
  BY <1>0, <1>1, <1>2 DEF RelayerInv, WorkerJustified
<1> QED
  BY <1>3, <1>4, <1>5, <1>6 DEF Preserved

LEMMA NodeJustified ==
  ASSUME RelayerInv, NEW a \in ActionIds, NodeStep(a)
  PROVE  Preserved
<1> DEFINE ledger == <<applied, acked>>
<1>0. /\ acked \in Nat /\ Len(applied) \in Nat /\ Len(settled) \in Nat /\ applied \in Seq(Sources)
      /\ acked <= Len(settled) /\ Len(settled) <= Len(applied) /\ Len(applied) <= acked + 1
      /\ OpOf(a) \in Command
      /\ UNCHANGED <<jobs, pc, cur, stage, hand, side, sent, settled>>
  BY NodeTypes, OperationType, LenProperties
  DEF RelayerInv, Types, NodeType, LedgerOK, LedgerAgreement
<1>1. ASSUME UNCHANGED ledger, NEW kind, NEW pos \in Nat, pos <= Len(applied),
             kind = "ok" => Justified(OpOf(a), pos),
             Answer(a, kind, pos) \/ result' = result
      PROVE  Preserved
  <2>1. LedgerAgreement'
    BY <1>0, <1>1 DEF LedgerAgreement
  <2>2. kind = "ok" => Justified(OpOf(a), pos)'
    BY <1>0, <1>1 DEF Justified, Placed, Done, OpOf
  <2> QED
    BY <1>0, <1>1, <2>1, <2>2, LedgerGrows
<1>2. CASE Apply(a)
  <2>1. /\ Len(applied) <= acked /\ OpOf(a).arg \in Sources
        /\ applied' = Append(applied, OpOf(a).arg) /\ acked' = acked
    BY <1>0, <1>2, OperationType DEF RelayerInv, Apply, LedgerPending
  <2>2. /\ Len(applied') = Len(applied) + 1
        /\ \A p \in 1..Len(applied) : applied'[p] = applied[p]
        /\ applied'[Len(applied) + 1] = OpOf(a).arg
    BY <1>0, <2>1, AppendProperties
  <2> PICK top \in Nat : top = Len(applied) + 1
    BY <1>0
  <2>3. LedgerAgreement' /\ Len(applied') \in Nat /\ acked' \in Nat
    BY <1>0, <2>1, <2>2 DEF LedgerAgreement
  <2>4. OpOf(a)' = OpOf(a) /\ OpOf(a).op \in {"APPLY", "RECOVER_DEPOSIT"}
    BY <1>0, <1>2 DEF OpOf, Apply, Mutates
  <2>5. Justified(OpOf(a), top)'
    BY <1>0, <2>1, <2>2, <2>4 DEF Justified, Placed
  <2>6. CASE Answer(a, "ok", top)
    BY <1>0, <2>1, <2>2, <2>3, <2>5, <2>6, LedgerGrows
  <2>7. CASE Answer(a, "error", 0)
    BY <1>0, <2>1, <2>2, <2>3, <2>7, LedgerGrows
  <2>8. CASE result' = result
    <3>1. Answer(a, "error", 0) \/ result' = result
      BY <2>8
    <3> QED
      BY <1>0, <2>1, <2>2, <2>3, <3>1, LedgerGrows
  <2> QED
    BY <1>2, <2>6, <2>7, <2>8 DEF Apply, AnswerUnlessLate
<1>3. CASE Duplicate(a)
  <2>1. UNCHANGED ledger /\ OpOf(a).arg \in History /\ Len(applied) <= acked
        /\ OpOf(a).op \in {"APPLY", "RECOVER_DEPOSIT"}
    BY <1>0, <1>3 DEF Duplicate, LedgerPending, Mutates
  <2>2. PICK p \in DOMAIN applied : applied[p] = OpOf(a).arg
    BY <2>1 DEF History
  <2>3. p \in 1..acked /\ p <= Len(settled) /\ p <= Len(applied)
    BY <1>0, <2>1, LenProperties
  <2>4. Done(OpOf(a).arg)
    BY <2>2, <2>3 DEF Done
  <2>5. OpOf(a).op # "APPLY" => Justified(OpOf(a), 0)
    BY <2>1, <2>4 DEF Justified
  <2> DEFINE kind == IF OpOf(a).op = "APPLY" THEN "error" ELSE "ok"
  <2>6. Answer(a, kind, 0) \/ result' = result
    BY <1>3 DEF Duplicate, AnswerUnlessLate
  <2>7. kind = "ok" => Justified(OpOf(a), 0)
    BY <2>5
  <2> HIDE DEF kind, ledger
  <2> QED
    BY <1>0, <1>1, <2>1, <2>6, <2>7
<1>4. CASE Refuse(a)
  BY <1>0, <1>1, <1>4 DEF Refuse
<1>5. CASE WaitTooLong(a)
  BY <1>0, <1>1, <1>5 DEF WaitTooLong
<1>6. CASE StopWaiting(a)
  <2>1. UNCHANGED ledger /\ (Answer(a, "error", 0) \/ result' = result)
    BY <1>6 DEF StopWaiting
  <2> QED
    BY <1>0, <1>1, <2>1
<1>7. CASE Query(a)
  <2>1. UNCHANGED ledger /\ Answer(a, "ok", 0)
    BY <1>7 DEF Query
  <2>2. Justified(OpOf(a), 0)
    BY <1>7 DEF Query, Justified
  <2> QED
    BY <1>0, <1>1, <2>1, <2>2
<1>8. CASE ConfirmAnchor(a)
  <2> DEFINE n == OpOf(a).arg
  <2>1. OpOf(a).op = "ANCHOR_CONFIRMED" /\ OpOf(a)' = OpOf(a) /\ applied' = applied /\ n \in Nat
    BY <1>0, <1>8 DEF ConfirmAnchor, OpOf, Command
  <2>2. CASE Answer(a, "error", 0) /\ UNCHANGED acked
    BY <1>0, <1>1, <2>1, <2>2
  <2>3. CASE Len(settled) = n /\ Len(applied) = n /\ acked' = n
             /\ (Answer(a, "ok", 0) \/ Answer(a, "error", 0))
    <3>1. LedgerAgreement'
      BY <1>0, <2>1, <2>3 DEF LedgerAgreement
    <3>2. Justified(OpOf(a), 0)'
      BY <1>0, <2>1, <2>3 DEF Justified
    <3>3. CASE Answer(a, "ok", 0)
      BY <1>0, <2>1, <2>3, <3>1, <3>2, <3>3, LedgerGrows
    <3>4. CASE Answer(a, "error", 0)
      BY <1>0, <2>1, <2>3, <3>1, <3>4, LedgerGrows
    <3> QED
      BY <2>3, <3>3, <3>4
  <2> QED
    BY <1>8, <2>2, <2>3 DEF ConfirmAnchor
<1>9. CASE RecoverAnchor(a)
  <2>1. UNCHANGED ledger /\ OpOf(a).op = "RECOVER_ANCHOR"
    BY <1>9 DEF RecoverAnchor
  <2>2. Justified(OpOf(a), Len(applied))
    BY <2>1 DEF Justified
  <2>3. CASE Answer(a, "ok", Len(applied))
    BY <1>0, <1>1, <2>1, <2>2, <2>3
  <2>4. CASE Answer(a, "error", 0) \/ Answer(a, "cleared", 0)
    BY <1>0, <1>1, <2>1, <2>4
  <2> QED
    BY <1>9, <2>3, <2>4 DEF RecoverAnchor
<1> QED
  BY <1>2, <1>3, <1>4, <1>5, <1>6, <1>7, <1>8, <1>9 DEF NodeStep

LEMMA InitInv == ASSUME Init PROVE RelayerInv
<1>1. Types /\ NoJobStranded
  BY InitTypes, InitIdle
<1>2. LedgerOK
  BY DEF Init, LedgerOK, LedgerAgreement
<1>3. AnswersJustified
  BY DEF Init, AnswersJustified, ActionIds
<1>4. RowsJustified
  BY DEF Init, RowsJustified
<1>5. WorkerJustified
  BY DEF Init, WorkerJustified, Signer
<1> QED
  BY <1>1, <1>2, <1>3, <1>4, <1>5 DEF RelayerInv

LEMMA InvStep ==
  ASSUME RelayerInv, [Next]_vars
  PROVE  RelayerInv'
<1>0. /\ Types' /\ NoJobStranded' /\ Types /\ jobs \in Seq(Row)
      /\ \A i \in 1..Len(jobs) : RowJustified(jobs[i])
  BY EveryStep DEF RelayerInv, StepOK, Types, TableType, RowsJustified
<1> SUFFICES Preserved
  BY <1>0 DEF RelayerInv, Preserved
<1>1. CASE Work \/ WorkerFault
  BY <1>1, WorkJustified
<1>2. CASE Index
  <2>1. ASSUME NEW e \in Events, EnqueueChain(e) PROVE Preserved
    BY <2>1, CreateJustified DEF EnqueueChain, elsewhereThanIndexer, vault, Sources
  <2>2. CASE BlockNumber
    BY <2>2, StillJustified DEF BlockNumber, elsewhereThanIndexer, tables, vault
  <2>3. CASE FetchEvents
    BY <2>3, StillJustified DEF FetchEvents, elsewhereThanIndexer, tables, vault
  <2>4. CASE SetCursor
    BY <2>4, StillJustified DEF SetCursor, elsewhereThanIndexer, vault
  <2>5. CASE EndPoll
    BY <2>5, StillJustified DEF EndPoll, elsewhereThanIndexer, tables, vault
  <2> QED
    BY <1>2, <2>1, <2>2, <2>3, <2>4, <2>5 DEF Index
<1>3. CASE Crash
  <2>1. UNCHANGED <<jobs, stage, hand, side, node, settled>> /\ pc' = "idle"
    BY <1>3 DEF Crash, tables, vault
  <2>2. WorkerJustified'
    BY <2>1 DEF RelayerInv, WorkerJustified, node
  <2> QED
    BY <1>0, <2>1, <2>2, QuietStep DEF Preserved
<1>4. CASE Restart
  BY <1>0, <1>4, DrainStep DEF Restart, vault
<1>5. CASE \E d \in Directs : EnqueueDirect(d)
  BY <1>5, CreateJustified DEF EnqueueDirect, vault, Sources
<1>6. CASE \E i \in DOMAIN jobs : Retry(i)
  BY <1>6, RetryJustified
<1>7. CASE \E S \in SUBSET Events : Mine(S)
  BY <1>7, StillJustified DEF Mine, tables, worker, vault
<1>8. CASE \E e \in Events : RequestRiskTick(e)
  BY <1>8, StillJustified DEF RequestRiskTick, tables, worker, vault
<1>9. ASSUME NEW a \in ActionIds, NodeStep(a) PROVE Preserved
  BY <1>9, NodeJustified
<1>10. ASSUME NEW a \in ActionIds, Expire(a) PROVE Preserved
  BY <1>10, StillJustified DEF Expire, tables, worker
<1>11. CASE UNCHANGED vars
  BY <1>11, StillJustified DEF vars, node
<1> QED
  BY <1>0, <1>1, <1>2, <1>3, <1>4, <1>5, <1>6, <1>7, <1>8, <1>9, <1>10, <1>11
  DEF Next, ActionIds

\* The vault and the ledger stay one operation apart at most, whatever the relayer
\* submits, repeats or forgets (Engine.mutate and ConfirmAnchor, QuietVault._settle).
THEOREM LedgersAgree == Spec => []LedgerAgreement
<1>1. RelayerInv => LedgerAgreement
  BY DEF RelayerInv, LedgerOK
<1> QED
  BY <1>1, InitInv, InvStep, PTL DEF Spec

\* A job is shown as confirmed only when its operation is in the ledger, its root in the
\* vault and the vault's root confirmed to the ledger (orchestrator.ts, process).
THEOREM ConfirmedJobsAreDone == Spec => []ConfirmedIsDone
<1>1. RelayerInv => ConfirmedIsDone
  <2> SUFFICES ASSUME RelayerInv, NEW i \in DOMAIN jobs PROVE RowJustified(jobs[i])
    BY DEF ConfirmedIsDone, RowJustified
  <2> QED
    BY LenProperties DEF RelayerInv, RowsJustified, Types, TableType
<1> QED
  BY <1>1, InitInv, InvStep, PTL DEF Spec

=============================================================================
