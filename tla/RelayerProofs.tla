---------------------------- MODULE RelayerProofs ----------------------------
(***************************************************************************)
(* Theorems of Relayer, for every set of requests and events, every block  *)
(* range and every number of crashes, faults and retries.                  *)
(*                                                                         *)
(* The argument: every write of the job table keeps the rows and their     *)
(* sources, or appends one row (CreateJob).  Between two awaits the worker *)
(* either holds a runnable job or has just found none (Drain).  A range is *)
(* fetched after its blocks were mined, and the cursor passes it when each *)
(* of its events has left the batch for the table.                         *)
(***************************************************************************)
EXTENDS Relayer, SequenceTheorems, WellFoundedInduction, TLAPS

\* The rows of the table, whatever actions were issued.
Row == [src : Sources, status : Statuses, action : Events \cup Nat \cup {NoAction},
        tx : BOOLEAN, error : {"none", "failed", "retry"}]

\* What the proxy was sent, and what the node answers.
Command == [op : {"APPLY", "RECOVER_DEPOSIT"}, arg : Sources]
             \cup [op : {"ANCHOR_CONFIRMED", "RECOVER_ANCHOR"}, arg : Nat]
AnswerType == [kind : {"none", "ok", "error", "pending", "cleared"}, pos : Nat]

\* A table with the rows of another, in other states.
SameSources(js, ks) ==
  /\ ks \in Seq(Row)
  /\ Len(ks) = Len(js)
  /\ \A i \in 1..Len(js) : ks[i].src = js[i].src

-----------------------------------------------------------------------------
(***************************************************************************)
(* The job table                                                           *)
(***************************************************************************)
\* A non-empty set of row numbers has a least one.
LEMMA LeastNatural ==
  ASSUME NEW S \in SUBSET Nat, S # {}
  PROVE  \E i \in S : \A k \in S : i <= k
<1>1. PICK i \in S : \A k \in S : ~ (<<k, i>> \in OpToRel(<, Nat))
  BY NatLessThanWellFounded, WFMin
<1>2. \A k \in S : ~ (k < i)
  BY <1>1 DEF OpToRel
<1> QED
  BY <1>2

\* nextRunnableJob returns a runnable row when there is one.
LEMMA NextIsRunnable ==
  ASSUME NEW js \in Seq(Row), Runnable(js) # {}
  PROVE  NextRunnableJob(js) \in Runnable(js)
<1>1. Runnable(js) \in SUBSET Nat
  BY DEF Runnable
<1> QED
  BY <1>1, LeastNatural DEF NextRunnableJob

\* Opening a job keeps its source, and keeps it runnable.
LEMMA OpenedRow ==
  ASSUME NEW job \in Row
  PROVE  /\ Opened(job) \in Row
         /\ Opened(job).src = job.src
         /\ job.status \in RunnableStatuses => Opened(job).status \in RunnableStatuses
BY DEF Opened, Row, Statuses, RunnableStatuses, Sources

\* A row is replaced by one of the same source.
LEMMA ReplacedRow ==
  ASSUME NEW js \in Seq(Row), NEW i \in 1..Len(js), NEW row \in Row, row.src = js[i].src
  PROVE  /\ SameSources(js, [js EXCEPT ![i] = row])
         /\ [js EXCEPT ![i] = row][i] = row
<1>1. /\ [js EXCEPT ![i] = row] \in Seq(Row)
      /\ Len([js EXCEPT ![i] = row]) = Len(js)
      /\ \A j \in 1..Len(js) : [js EXCEPT ![i] = row][j] = IF j = i THEN row ELSE js[j]
  BY ExceptSeq
<1> QED
  BY <1>1 DEF SameSources

\* Drain keeps the rows; it ends with a runnable job in the worker's hands, or with
\* no runnable job at all.
LEMMA DrainKeepsRows ==
  ASSUME NEW js \in Seq(Row), Drain(js)
  PROVE  /\ SameSources(js, jobs')
         /\ pc' = "idle" => Runnable(jobs') = {}
         /\ pc' # "idle" => cur' \in Runnable(jobs')
         /\ pc' \in {"idle", "submit", "poll"}
<1>1. CASE Runnable(js) = {}
  BY <1>1 DEF Drain, SameSources
<1>2. CASE Runnable(js) # {}
  <2> DEFINE i == NextRunnableJob(js)
  <2>1. i \in 1..Len(js) /\ js[i].status \in RunnableStatuses
    BY <1>2, NextIsRunnable DEF Runnable
  <2>2. js[i] \in Row
    BY <2>1, ElementOfSeq
  <2>3. jobs' = [js EXCEPT ![i] = Opened(js[i])] /\ cur' = i /\ pc' \in {"submit", "poll"}
    BY <1>2 DEF Drain
  <2> HIDE DEF i
  <2>4. SameSources(js, jobs') /\ jobs'[i] = Opened(js[i])
    <3>1. PICK row : row = Opened(js[i])
      OBVIOUS
    <3>2. row \in Row /\ row.src = js[i].src
      BY <2>2, <3>1, OpenedRow
    <3>3. jobs' = [js EXCEPT ![i] = row]
      BY <2>3, <3>1
    <3>4. SameSources(js, [js EXCEPT ![i] = row]) /\ [js EXCEPT ![i] = row][i] = row
      BY <2>1, <3>2, ReplacedRow
    <3> QED
      BY <3>1, <3>3, <3>4
  <2>5. cur' \in Runnable(jobs')
    <3>1. jobs' \in Seq(Row) /\ Len(jobs') = Len(js)
      BY <2>4 DEF SameSources
    <3>2. i \in DOMAIN jobs'
      BY <2>1, <3>1
    <3>3. jobs'[i].status \in RunnableStatuses
      BY <2>1, <2>2, <2>4, OpenedRow
    <3> QED
      BY <2>3, <3>2, <3>3 DEF Runnable
  <2> QED
    BY <2>3, <2>4, <2>5
<1> QED
  BY <1>1, <1>2

\* A new job is a row with its source; every older row stays.
LEMMA CreatedRow ==
  ASSUME NEW js \in Seq(Row), NEW s \in Sources
  PROVE  /\ CreateJob(s, js) \in Seq(Row)
         /\ Len(js) <= Len(CreateJob(s, js))
         /\ \A i \in 1..Len(js) : CreateJob(s, js)[i] = js[i]
         /\ \E i \in 1..Len(CreateJob(s, js)) : CreateJob(s, js)[i].src = s
<1>1. NewJob(s) \in Row /\ NewJob(s).src = s
  BY DEF NewJob, Row, Statuses, RunnableStatuses
<1>2. CASE s \in Events /\ \E i \in DOMAIN js : js[i].src = s
  BY <1>2 DEF CreateJob
<1>3. CASE ~(s \in Events /\ \E i \in DOMAIN js : js[i].src = s)
  <2>1. CreateJob(s, js) = Append(js, NewJob(s))
    BY <1>3 DEF CreateJob
  <2> QED
    BY <1>1, <2>1, AppendProperties
<1> QED
  BY <1>2, <1>3

\* An event gets no second row.
LEMMA CreatedOnce ==
  ASSUME NEW js \in Seq(Row), NEW s \in Sources,
         \A i, k \in DOMAIN js : js[i].src = js[k].src /\ js[i].src \in Events => i = k,
         NEW i \in DOMAIN CreateJob(s, js), NEW k \in DOMAIN CreateJob(s, js),
         CreateJob(s, js)[i].src = CreateJob(s, js)[k].src, CreateJob(s, js)[i].src \in Events
  PROVE  i = k
<1>1. NewJob(s) \in Row /\ NewJob(s).src = s
  BY DEF NewJob, Row, Statuses, RunnableStatuses
<1>2. CASE s \in Events /\ \E j \in DOMAIN js : js[j].src = s
  BY <1>2 DEF CreateJob
<1>3. CASE ~(s \in Events /\ \E j \in DOMAIN js : js[j].src = s)
  <2>1. CreateJob(s, js) = Append(js, NewJob(s))
    BY <1>3 DEF CreateJob
  <2>2. /\ DOMAIN js = 1..Len(js) /\ DOMAIN CreateJob(s, js) = 1..Len(js) + 1
        /\ \A j \in 1..Len(js) : CreateJob(s, js)[j] = js[j]
        /\ CreateJob(s, js)[Len(js) + 1].src = s
    BY <1>1, <2>1, AppendProperties, LenProperties
  <2> QED
    BY <1>3, <2>2
<1> QED
  BY <1>2, <1>3

\* The actions of the rows, after a row was opened or created.
LEMMA DrainActions ==
  ASSUME NEW js \in Seq(Row), Drain(js), NEW A, Events \subseteq A, NoAction \notin Events,
         \A i \in 1..Len(js) : js[i].action \in A \cup {NoAction}
  PROVE  /\ \A i \in 1..Len(jobs') : jobs'[i].action \in A \cup {NoAction}
         /\ pc' = "poll" => jobs'[cur'].action # NoAction
<1>1. CASE Runnable(js) = {}
  BY <1>1 DEF Drain
<1>2. CASE Runnable(js) # {}
  <2> DEFINE i == NextRunnableJob(js)
  <2>1. i \in 1..Len(js)
    BY <1>2, NextIsRunnable DEF Runnable
  <2>2. js[i] \in Row
    BY <2>1, ElementOfSeq
  <2>3. /\ jobs' = [js EXCEPT ![i] = Opened(js[i])] /\ cur' = i
        /\ pc' = IF Opened(js[i]).action = NoAction THEN "submit" ELSE "poll"
    BY <1>2 DEF Drain
  <2>4. Opened(js[i]).action \in Events \cup {js[i].action}
    BY <2>2 DEF Opened, Row
  <2> HIDE DEF i
  <2>5. /\ Len(jobs') = Len(js) /\ jobs'[i] = Opened(js[i])
        /\ \A j \in 1..Len(js) : jobs'[j] = IF j = i THEN Opened(js[i]) ELSE js[j]
    BY <2>1, <2>2, <2>3, OpenedRow, ExceptSeq
  <2> QED
    BY <2>1, <2>3, <2>4, <2>5
<1> QED
  BY <1>1, <1>2

LEMMA CreatedActions ==
  ASSUME NEW js \in Seq(Row), NEW s \in Sources, NEW A,
         \A i \in 1..Len(js) : js[i].action \in A \cup {NoAction}
  PROVE  \A i \in 1..Len(CreateJob(s, js)) : CreateJob(s, js)[i].action \in A \cup {NoAction}
<1>1. NewJob(s) \in Row /\ NewJob(s).action = NoAction
  BY DEF NewJob, Row, Statuses, RunnableStatuses
<1>2. CASE CreateJob(s, js) = js
  BY <1>2
<1>3. CASE CreateJob(s, js) = Append(js, NewJob(s))
  BY <1>1, <1>3, AppendProperties
<1> QED
  BY <1>2, <1>3 DEF CreateJob

\* The row the worker finishes.
LEMMA UpdatedRow ==
  ASSUME NEW job \in Row, NEW status \in Statuses,
         NEW error \in {"none", "failed", "retry"}, NEW tx \in BOOLEAN
  PROVE  /\ Updated(job, status, error, tx) \in Row
         /\ Updated(job, status, error, tx).src = job.src
         /\ Updated(job, status, error, tx).action = job.action
BY DEF Row, Updated

LEMMA UpdatedTable ==
  ASSUME NEW js \in Seq(Row), NEW i \in 1..Len(js), NEW status \in Statuses,
         NEW error \in {"none", "failed", "retry"}, NEW tx \in BOOLEAN
  PROVE  /\ SameSources(js, [js EXCEPT ![i] = Updated(@, status, error, tx)])
         /\ \A j \in 1..Len(js) :
              [js EXCEPT ![i] = Updated(@, status, error, tx)][j].action = js[j].action
<1> DEFINE row == Updated(js[i], status, error, tx)
<1>1. js[i] \in Row
  BY ElementOfSeq
<1>2. row \in Row /\ row.src = js[i].src /\ row.action = js[i].action
  BY <1>1, UpdatedRow
<1>3. SameSources(js, [js EXCEPT ![i] = row])
  BY <1>2, ReplacedRow
<1>4. \A j \in 1..Len(js) : [js EXCEPT ![i] = row][j] = IF j = i THEN row ELSE js[j]
  BY <1>2, ExceptSeq
<1> QED
  BY <1>2, <1>3, <1>4

-----------------------------------------------------------------------------
(***************************************************************************)
(* Type correctness                                                        *)
(***************************************************************************)
TableType ==
  /\ jobs \in Seq(Row)
  /\ \A i \in 1..Len(jobs) : jobs[i].action \in ActionIds \cup {NoAction}

WorkerType ==
  /\ alive \in BOOLEAN
  /\ pc \in Steps /\ stage \in Stages
  /\ hand.pos \in Nat
  /\ pc # "idle" => alive /\ cur \in Runnable(jobs)
  /\ pc = "poll" => jobs[cur].action # NoAction
  /\ pc \in {"submitted", "confirming", "recovering", "depositing"} => side \in DOMAIN sent

\* A process that is down polls nothing; a batch is of the range that was fetched.
IndexerType ==
  /\ block \in Nat /\ head \in -1..block /\ cursor \in 1..block + 1
  /\ at \in [Events -> 0..block]
  /\ batch \subseteq Events /\ loaded \in BOOLEAN
  /\ ~loaded => batch = {}
  /\ loaded => head # -1 /\ cursor <= head
  /\ head # -1 => alive

NodeType ==
  /\ sent \in Seq(Command)
  /\ result \in [ActionIds -> AnswerType]
  /\ late \subseteq ActionIds
  /\ applied \in Seq(Sources) /\ acked \in Nat

Types == TableType /\ WorkerType /\ IndexerType /\ NodeType

LEMMA TypesImplyTypeOK == ASSUME Types PROVE TypeOK
<1>1. JobsOK
  <2> SUFFICES ASSUME NEW i \in DOMAIN jobs
               PROVE  /\ jobs[i] \in Row /\ jobs[i].action \in ActionIds \cup {NoAction}
    BY DEF JobsOK, Row
  <2>1. i \in 1..Len(jobs)
    BY LenProperties DEF Types, TableType
  <2> QED
    BY <2>1, ElementOfSeq DEF Types, TableType
<1>2. pc = "poll" => jobs[cur].action \in ActionIds
  BY DEF Types, TableType, WorkerType, Runnable
<1>3. \A p \in DOMAIN applied : applied[p] \in Sources
  BY ElementOfSeq, LenProperties DEF Types, NodeType
<1> QED
  BY <1>1, <1>2, <1>3 DEF Types, TypeOK, WorkerType, IndexerType, NodeType

LEMMA InitTypes == ASSUME Init PROVE Types
<1>1. TableType
  BY DEF Init, TableType
<1>2. WorkerType
  BY DEF Init, WorkerType, Steps, Stages
<1>3. IndexerType
  <2>1. block \in Nat /\ head \in -1..block /\ cursor \in 1..block + 1 /\ at \in [Events -> 0..block]
    BY DEF Init
  <2>2. batch = {} /\ loaded = FALSE /\ head = -1
    BY DEF Init
  <2> QED
    BY <2>1, <2>2 DEF IndexerType
<1>4. NodeType
  BY DEF Init, NodeType, ActionIds, AnswerType
<1> QED
  BY <1>1, <1>2, <1>3, <1>4 DEF Types

\* The action ids are the events and the numbers of what was sent.
LEMMA ActionNumbers == ASSUME Types PROVE ActionIds = Events \cup 1..Len(sent)
BY LenProperties DEF Types, NodeType, ActionIds

\* Finish writes a row and drains the table.
LEMMA FinishTypes ==
  ASSUME Types, pc # "idle", NEW status \in Statuses, NEW error \in {"none", "failed", "retry"},
         NEW tx \in BOOLEAN, Finish(status, error, tx), UNCHANGED <<alive, sent>>
  PROVE  /\ TableType' /\ WorkerType'
         /\ SameSources(jobs, jobs')
         /\ pc' = "idle" => Runnable(jobs') = {}
<1> DEFINE js == [jobs EXCEPT ![cur] = Updated(@, status, error, tx)]
<1>1. cur \in 1..Len(jobs) /\ jobs \in Seq(Row) /\ alive
  BY DEF Types, TableType, WorkerType, Runnable
<1>2. SameSources(jobs, js) /\ \A j \in 1..Len(jobs) : js[j].action = jobs[j].action
  BY <1>1, UpdatedTable
<1>3. Drain(js) /\ UNCHANGED <<stage, hand, side>>
  BY DEF Finish
<1>4. js \in Seq(Row) /\ \A i \in 1..Len(js) : js[i].action \in ActionIds \cup {NoAction}
  BY <1>2 DEF SameSources, Types, TableType
<1> HIDE DEF js
<1>5. /\ SameSources(js, jobs')
      /\ pc' = "idle" => Runnable(jobs') = {}
      /\ pc' # "idle" => cur' \in Runnable(jobs')
      /\ pc' \in {"idle", "submit", "poll"}
  BY <1>3, <1>4, DrainKeepsRows
<1>6. /\ \A i \in 1..Len(jobs') : jobs'[i].action \in ActionIds \cup {NoAction}
      /\ pc' = "poll" => jobs'[cur'].action # NoAction
  BY <1>3, <1>4, DrainActions, ConstantsAssumption DEF ActionIds, Sources
<1>7. TableType'
  BY <1>5, <1>6 DEF TableType, SameSources, ActionIds
<1>8. WorkerType'
  BY <1>1, <1>3, <1>5, <1>6 DEF Types, WorkerType, Steps
<1>9. SameSources(jobs, jobs')
  BY <1>2, <1>5 DEF SameSources
<1> QED
  BY <1>5, <1>7, <1>8, <1>9

\* A wake-up leaves a running worker alone, and starts one that stopped.
LEMMA WakeTypes ==
  ASSUME Types, alive, NEW js \in Seq(Row), Wake(js), UNCHANGED <<alive, stage, hand, side, sent>>,
         \A i \in 1..Len(js) : js[i].action \in ActionIds \cup {NoAction},
         \A i \in Runnable(jobs) : i \in Runnable(js) /\ js[i].action = jobs[i].action
  PROVE  /\ TableType' /\ WorkerType'
         /\ SameSources(js, jobs')
         /\ pc' = "idle" => Runnable(jobs') = {}
<1>1. CASE pc = "idle" /\ Drain(js)
  <2>1. /\ SameSources(js, jobs')
        /\ pc' = "idle" => Runnable(jobs') = {}
        /\ pc' # "idle" => cur' \in Runnable(jobs')
        /\ pc' \in {"idle", "submit", "poll"}
    BY <1>1, DrainKeepsRows
  <2>0. Events \subseteq ActionIds /\ NoAction \notin Events
    BY ConstantsAssumption DEF ActionIds, Sources
  <2>2. /\ \A i \in 1..Len(jobs') : jobs'[i].action \in ActionIds \cup {NoAction}
        /\ pc' = "poll" => jobs'[cur'].action # NoAction
    <3> DEFINE A == ActionIds
    <3>1. Events \subseteq A /\ \A i \in 1..Len(js) : js[i].action \in A \cup {NoAction}
      BY <2>0
    <3> HIDE DEF A
    <3>2. /\ \A i \in 1..Len(jobs') : jobs'[i].action \in A \cup {NoAction}
          /\ pc' = "poll" => jobs'[cur'].action # NoAction
      BY <1>1, <2>0, <3>1, DrainActions
    <3> QED
      BY <3>2 DEF A
  <2>3. TableType'
    BY <2>1, <2>2 DEF TableType, SameSources, ActionIds
  <2>4. WorkerType'
    BY <2>1, <2>2 DEF Types, WorkerType, Steps
  <2> QED
    BY <2>1, <2>3, <2>4
<1>2. CASE pc # "idle" /\ jobs' = js /\ UNCHANGED <<pc, cur>>
  <2>1. TableType'
    BY <1>2 DEF TableType, ActionIds
  <2>2. WorkerType'
    BY <1>2 DEF Types, WorkerType, Runnable
  <2>3. SameSources(js, jobs')
    BY <1>2 DEF SameSources
  <2> QED
    BY <1>2, <2>1, <2>2, <2>3
<1> QED
  BY <1>1, <1>2 DEF Wake

\* The proxy numbers what it is sent.
LEMMA SendTypes ==
  ASSUME Types, NEW op, NEW arg, [op |-> op, arg |-> arg] \in Command, Send(op, arg)
  PROVE  /\ NodeType'
         /\ ActionIds \subseteq ActionIds'
         /\ DOMAIN sent \subseteq DOMAIN sent'
         /\ Len(sent) + 1 \in DOMAIN sent'
<1>1. sent \in Seq(Command) /\ sent' = Append(sent, [op |-> op, arg |-> arg])
  BY DEF Types, NodeType, Send
<1>2. sent' \in Seq(Command) /\ Len(sent') = Len(sent) + 1
  BY <1>1, AppendProperties
<1>3. DOMAIN sent = 1..Len(sent) /\ DOMAIN sent' = 1..Len(sent) + 1
  BY <1>1, <1>2, LenProperties
<1>4. ActionIds' = ActionIds \cup {Len(sent) + 1}
  BY <1>1, <1>3, LenProperties DEF ActionIds
<1>5. result' \in [ActionIds' -> AnswerType]
  BY <1>4 DEF Types, NodeType, Send, AnswerType
<1>6. NodeType'
  BY <1>2, <1>4, <1>5 DEF Types, NodeType, Send, nodeButSent
<1> QED
  BY <1>1, <1>3, <1>4, <1>6, LenProperties

\* What an action asks for is a command; one that mutates names a request.
LEMMA OperationType ==
  ASSUME Types, NEW a \in ActionIds
  PROVE  OpOf(a) \in Command /\ (Mutates(a) => OpOf(a).arg \in Sources)
<1>1. OpOf(a) \in Command
  <2>1. CASE a \in Events
    BY <2>1 DEF OpOf, Command, Sources
  <2>2. CASE a \notin Events
    BY <2>2, ActionNumbers, ElementOfSeq DEF OpOf, Types, NodeType
  <2> QED
    BY <2>1, <2>2
<1>2. Mutates(a) => OpOf(a).op \in {"APPLY", "RECOVER_DEPOSIT"}
  BY DEF Mutates
<1> QED
  BY <1>1, <1>2 DEF Command

\* Answers are typed, and the node has no effect on the relayer's own state.
LEMMA AnswerTypes ==
  ASSUME Types, NEW a \in ActionIds, NEW pos \in Nat,
         NEW kind \in {"ok", "error", "pending", "cleared"}
  PROVE  /\ Answer(a, kind, pos) => result' \in [ActionIds -> AnswerType]
         /\ AnswerUnlessLate(a, kind, pos) =>
              result' \in [ActionIds -> AnswerType] /\ late' \subseteq ActionIds
<1>1. result \in [ActionIds -> AnswerType] /\ late \subseteq ActionIds
  BY DEF Types, NodeType
<1>2. [kind |-> kind, pos |-> pos] \in AnswerType
  BY DEF AnswerType
<1>3. Answer(a, kind, pos) => result' \in [ActionIds -> AnswerType]
  BY <1>1, <1>2 DEF Answer
<1> QED
  BY <1>1, <1>3 DEF AnswerUnlessLate

LEMMA NodeTypes ==
  ASSUME Types, NEW a \in ActionIds, NodeStep(a)
  PROVE  /\ NodeType'
         /\ UNCHANGED <<jobs, cursor, alive, pc, cur, stage, hand, side, head, batch, loaded,
                        block, at, sent, settled>>
<1>0. /\ sent \in Seq(Command) /\ late \subseteq ActionIds
      /\ applied \in Seq(Sources) /\ acked \in Nat /\ Len(applied) \in Nat
      /\ result \in [ActionIds -> AnswerType]
  BY LenProperties DEF Types, NodeType
<1>1. CASE Apply(a)
  <2>1. OpOf(a).arg \in Sources /\ applied' = Append(applied, OpOf(a).arg)
    BY <1>1, OperationType DEF Apply
  <2>2. applied' \in Seq(Sources)
    BY <1>0, <2>1, AppendProperties
  <2>3. result' \in [ActionIds -> AnswerType] /\ late' \subseteq ActionIds
    BY <1>0, <1>1, AnswerTypes DEF Apply
  <2> QED
    BY <1>0, <1>1, <2>2, <2>3
    DEF Apply, NodeType, ActionIds, tables, worker, indexer, chain, vault
<1>2. CASE Duplicate(a)
  <2>1. result' \in [ActionIds -> AnswerType] /\ late' \subseteq ActionIds
    BY <1>2, AnswerTypes DEF Duplicate
  <2> QED
    BY <1>0, <1>2, <2>1
    DEF Duplicate, NodeType, ActionIds, tables, worker, indexer, chain, vault
<1>3. CASE Refuse(a)
  <2>1. result' \in [ActionIds -> AnswerType]
    BY <1>3, AnswerTypes DEF Refuse
  <2> QED
    BY <1>0, <1>3, <2>1 DEF Refuse, NodeType, ActionIds, tables, worker, indexer, chain, vault
<1>4. CASE WaitTooLong(a)
  <2>1. result' \in [ActionIds -> AnswerType] /\ late' \subseteq ActionIds
    BY <1>0, <1>4, AnswerTypes DEF WaitTooLong
  <2> QED
    BY <1>0, <1>4, <2>1
    DEF WaitTooLong, NodeType, ActionIds, tables, worker, indexer, chain, vault
<1>5. CASE StopWaiting(a)
  BY <1>0, <1>5 DEF StopWaiting, NodeType, ActionIds, tables, worker, indexer, chain, vault
<1>6. CASE Query(a)
  <2>1. result' \in [ActionIds -> AnswerType]
    BY <1>6, AnswerTypes DEF Query
  <2> QED
    BY <1>0, <1>6, <2>1 DEF Query, NodeType, ActionIds, tables, worker, indexer, chain, vault
<1>7. CASE ConfirmAnchor(a)
  <2>1. result' \in [ActionIds -> AnswerType]
    BY <1>7, AnswerTypes DEF ConfirmAnchor
  <2>2. acked' \in Nat
    BY <1>0, <1>7 DEF ConfirmAnchor
  <2> QED
    BY <1>0, <1>7, <2>1, <2>2
    DEF ConfirmAnchor, NodeType, ActionIds, tables, worker, indexer, chain, vault
<1>8. CASE RecoverAnchor(a)
  <2>1. result' \in [ActionIds -> AnswerType]
    BY <1>0, <1>8, AnswerTypes DEF RecoverAnchor
  <2> QED
    BY <1>0, <1>8, <2>1
    DEF RecoverAnchor, NodeType, ActionIds, tables, worker, indexer, chain, vault
<1> QED
  BY <1>1, <1>2, <1>3, <1>4, <1>5, <1>6, <1>7, <1>8 DEF NodeStep

\* What a step of the worker leaves to the rest of the process.
WorkStep ==
  /\ Types'
  /\ SameSources(jobs, jobs')
  /\ pc' = "idle" => Runnable(jobs') = {}
  /\ UNCHANGED <<cursor, alive, indexer, chain>>

LEMMA SameTable == ASSUME Types PROVE SameSources(jobs, jobs)
BY DEF Types, TableType, SameSources

\* A step that finishes a job.
LEMMA FinishStep ==
  ASSUME Types, pc # "idle", NEW status \in Statuses, NEW error \in {"none", "failed", "retry"},
         NEW tx \in BOOLEAN, Finish(status, error, tx),
         UNCHANGED <<cursor, alive, indexer, chain, node>>
  PROVE  WorkStep
<1>1. /\ TableType' /\ WorkerType' /\ SameSources(jobs, jobs')
      /\ pc' = "idle" => Runnable(jobs') = {}
  BY FinishTypes DEF node
<1>2. IndexerType'
  BY DEF Types, IndexerType, indexer, chain
<1>3. NodeType'
  BY DEF Types, NodeType, node, ActionIds
<1> QED
  BY <1>1, <1>2, <1>3 DEF WorkStep, Types

\* A step that moves the worker and leaves its job's row as it is.
LEMMA MoveStep ==
  ASSUME Types, pc # "idle", pc' \in Steps \ {"idle"}, stage' \in Stages, hand'.pos \in Nat,
         pc' = "poll" => jobs[cur].action # NoAction,
         pc' \in {"submitted", "confirming", "recovering", "depositing"} => side' \in (DOMAIN sent)',
         NodeType', ActionIds \subseteq ActionIds',
         UNCHANGED <<jobs, cur, cursor, alive, indexer, chain>>
  PROVE  WorkStep
<1>1. TableType'
  BY DEF Types, TableType
<1>2. WorkerType'
  BY DEF Types, WorkerType, Runnable
<1>3. IndexerType'
  BY DEF Types, IndexerType, indexer, chain
<1> QED
  BY <1>1, <1>2, <1>3, SameTable DEF WorkStep, Types

\* A step that sends a command and waits for its answer.
LEMMA SendStep ==
  ASSUME Types, pc # "idle", NEW op, NEW arg, [op |-> op, arg |-> arg] \in Command,
         Send(op, arg), side' = Len(sent) + 1,
         pc' \in {"submitted", "confirming", "recovering", "depositing"},
         UNCHANGED <<jobs, cur, stage, hand, cursor, alive, indexer, chain>>
  PROVE  WorkStep
<1>1. NodeType' /\ ActionIds \subseteq ActionIds' /\ side' \in (DOMAIN sent)'
  BY SendTypes
<1>2. stage' \in Stages /\ hand'.pos \in Nat /\ pc' \in Steps \ {"idle"}
  BY DEF Types, WorkerType, Steps
<1> QED
  BY <1>1, <1>2, MoveStep

\* A step that writes another state into the row of the worker's job.
LEMMA RowStep ==
  ASSUME Types, pc # "idle", NEW row \in Row, row.src = jobs[cur].src,
         row.status \in RunnableStatuses, row.action \in ActionIds \cup {NoAction},
         jobs' = [jobs EXCEPT ![cur] = row], pc' \in {"poll", "execute", "confirm", "confirmed"},
         pc' = "poll" => row.action # NoAction, stage' \in Stages, hand'.pos \in Nat,
         UNCHANGED <<cur, cursor, alive, indexer, chain, node>>
  PROVE  WorkStep
<1>1. jobs \in Seq(Row) /\ cur \in 1..Len(jobs)
  BY DEF Types, TableType, WorkerType, Runnable
<1>2. /\ jobs' \in Seq(Row) /\ Len(jobs') = Len(jobs)
      /\ \A i \in 1..Len(jobs) : jobs'[i] = IF i = cur THEN row ELSE jobs[i]
  BY <1>1, ExceptSeq
<1>3. SameSources(jobs, jobs')
  BY <1>2 DEF SameSources
<1>4. TableType'
  BY <1>2 DEF Types, TableType, node, ActionIds
<1>5. cur' \in Runnable(jobs') /\ (pc' = "poll" => jobs'[cur'].action # NoAction)
  BY <1>1, <1>2, LenProperties DEF Runnable
<1>6. WorkerType'
  BY <1>5 DEF Types, WorkerType, Steps
<1>7. IndexerType'
  BY DEF Types, IndexerType, indexer, chain
<1>8. NodeType'
  BY DEF Types, NodeType, node, ActionIds
<1> QED
  BY <1>3, <1>4, <1>6, <1>7, <1>8 DEF WorkStep, Types

\* The job in the worker's hands.
LEMMA CurrentRow ==
  ASSUME Types, pc # "idle"
  PROVE  /\ jobs[cur] \in Row /\ jobs[cur].src \in Sources /\ jobs[cur].tx \in BOOLEAN
         /\ jobs[cur].status \in RunnableStatuses
         /\ jobs[cur].action \in ActionIds \cup {NoAction}
<1>1. jobs \in Seq(Row) /\ cur \in 1..Len(jobs) /\ jobs[cur].status \in RunnableStatuses
  BY LenProperties DEF Types, TableType, WorkerType, Runnable
<1>2. jobs[cur] \in Row
  BY <1>1, ElementOfSeq
<1> QED
  BY <1>1, <1>2 DEF Row, Types, TableType

LEMMA FailStep ==
  ASSUME Types, pc # "idle", NEW error \in {"none", "failed", "retry"}, Fail(error),
         UNCHANGED <<cursor, alive, indexer, chain, node>>
  PROVE  WorkStep
BY CurrentRow, FinishStep DEF Fail, Statuses

\* The answer to the command the worker has sent.
LEMMA SideAnswer ==
  ASSUME Types, pc \in {"confirming", "recovering", "depositing"}
  PROVE  side \in Nat /\ side \in ActionIds /\ result[side].pos \in Nat
BY LenProperties DEF Types, WorkerType, NodeType, ActionIds, AnswerType

LEMMA WorkSteps == ASSUME Types, Work PROVE WorkStep
<1>0. /\ jobs \in Seq(Row) /\ DOMAIN sent = 1..Len(sent) /\ Len(sent) \in Nat
      /\ stage \in Stages /\ hand.pos \in Nat
      /\ result \in [ActionIds -> AnswerType] /\ NodeType /\ ActionIds = Events \cup DOMAIN sent
  BY LenProperties DEF Types, TableType, WorkerType, NodeType, ActionIds
<1>1. CASE SubmitCiphertext
  <2>1. [op |-> "APPLY", arg |-> jobs[cur].src] \in Command
    BY <1>1, CurrentRow DEF SubmitCiphertext, Command
  <2> QED
    BY <1>1, <2>1, SendStep DEF SubmitCiphertext, elsewhere
<1>2. CASE SaveActionId
  <2> DEFINE row == [jobs[cur] EXCEPT !.action = side, !.status = "processing"]
  <2>1. pc = "submitted" /\ side \in ActionIds /\ side \in Nat
    BY <1>0, <1>2 DEF SaveActionId, Types, WorkerType
  <2>2. /\ row \in Row /\ row.src = jobs[cur].src
        /\ row.status \in RunnableStatuses /\ row.action = side
    BY <2>1, CurrentRow DEF Row, Statuses, RunnableStatuses
  <2>3. side # NoAction
    BY <2>1, ConstantsAssumption
  <2>4. jobs' = [jobs EXCEPT ![cur] = row] /\ pc' = "poll"
        /\ UNCHANGED <<cur, stage, hand, cursor, alive, indexer, chain, node>>
    BY <1>2 DEF SaveActionId, elsewhere
  <2> HIDE DEF row
  <2> QED
    BY <1>0, <2>1, <2>2, <2>3, <2>4, RowStep
<1>3. CASE PollAnswer
  <2> DEFINE answer == result[jobs[cur].action]
  <2>0. pc = "poll" /\ UNCHANGED <<cursor, alive, indexer, chain, node>>
    BY <1>3 DEF PollAnswer, elsewhere
  <2>1. jobs[cur].action \in ActionIds /\ answer.pos \in Nat
    BY <1>0, <2>0, CurrentRow DEF Types, WorkerType, AnswerType
  <2>2. CASE Finish("confirmed", "none", jobs[cur].tx)
    BY <2>0, <2>2, CurrentRow, FinishStep DEF Statuses
  <2>3. CASE /\ jobs' = [jobs EXCEPT ![cur] = [@ EXCEPT !.status = "settling"]]
             /\ hand' = [by |-> jobs[cur].action, pos |-> answer.pos]
             /\ stage' = "job"
             /\ pc' = IF jobs[cur].tx THEN "confirm" ELSE "execute"
             /\ UNCHANGED <<cur, side>>
    <3> DEFINE row == [jobs[cur] EXCEPT !.status = "settling"]
    <3>1. /\ row \in Row /\ row.src = jobs[cur].src
          /\ row.status \in RunnableStatuses /\ row.action = jobs[cur].action
      BY <2>0, CurrentRow DEF Row, Statuses, RunnableStatuses
    <3>2. /\ jobs' = [jobs EXCEPT ![cur] = row] /\ pc' \in {"execute", "confirm"}
          /\ stage' \in Stages /\ hand'.pos \in Nat /\ cur' = cur
      BY <2>1, <2>3 DEF Stages
    <3> HIDE DEF row
    <3> QED
      BY <2>0, <2>1, <3>1, <3>2, RowStep
  <2>4. CASE pc' = "recover" /\ UNCHANGED <<jobs, cur, stage, hand, side>>
    <3>1. NodeType' /\ ActionIds' = ActionIds
      BY <1>0, <2>0 DEF NodeType, node, ActionIds
    <3> QED
      BY <1>0, <2>0, <2>4, <3>1, MoveStep DEF Steps
  <2>5. CASE Fail("failed")
    BY <2>0, <2>5, FailStep
  <2> QED
    BY <1>3, <2>2, <2>3, <2>4, <2>5 DEF PollAnswer
<1>4. CASE Executed
  <2>1. NodeType' /\ ActionIds' = ActionIds
    BY <1>0, <1>4 DEF Executed, NodeType, node, ActionIds
  <2> QED
    BY <1>0, <1>4, <2>1, MoveStep DEF Executed, elsewhere, Steps
<1>5. CASE ExecuteReverts
  BY <1>5, FailStep DEF ExecuteReverts, elsewhere
<1>6. CASE SettlementMined
  <2>1. NodeType' /\ ActionIds' = ActionIds
    BY <1>0, <1>6 DEF SettlementMined, NodeType, node, ActionIds
  <2> QED
    BY <1>0, <1>6, <2>1, MoveStep DEF SettlementMined, tables, worker, Steps
<1>7. CASE SubmitConfirmation
  <2>1. [op |-> "ANCHOR_CONFIRMED", arg |-> hand.pos] \in Command
    BY <1>0 DEF Command
  <2> QED
    BY <1>7, <2>1, SendStep DEF SubmitConfirmation, elsewhere
<1>8. CASE ConfirmAnswer
  <2>0. pc = "confirming" /\ UNCHANGED <<cursor, alive, indexer, chain, node>>
    BY <1>8 DEF ConfirmAnswer, elsewhere
  <2>1. CASE /\ jobs' = [jobs EXCEPT ![cur] = [@ EXCEPT !.tx = TRUE, !.status = "confirming"]]
             /\ pc' = "confirmed"
             /\ UNCHANGED <<cur, stage, hand, side>>
    <3> DEFINE row == [jobs[cur] EXCEPT !.tx = TRUE, !.status = "confirming"]
    <3>1. /\ row \in Row /\ row.src = jobs[cur].src
          /\ row.status \in RunnableStatuses /\ row.action = jobs[cur].action
      BY <2>0, CurrentRow DEF Row, Statuses, RunnableStatuses
    <3>2. jobs' = [jobs EXCEPT ![cur] = row] /\ pc' = "confirmed"
      BY <2>1
    <3> HIDE DEF row
    <3> QED
      BY <1>0, <2>0, <2>1, <3>1, <3>2, CurrentRow, RowStep
  <2>2. CASE pc' = "recovered" /\ UNCHANGED <<jobs, cur, stage, hand, side>>
    <3>1. NodeType' /\ ActionIds' = ActionIds
      BY <1>0, <2>0 DEF NodeType, node, ActionIds
    <3> QED
      BY <1>0, <2>0, <2>2, <3>1, MoveStep DEF Steps
  <2>3. CASE Finish("confirmed", "none", TRUE)
    BY <2>0, <2>3, FinishStep DEF Statuses
  <2>4. CASE Fail("failed")
    BY <2>0, <2>4, FailStep
  <2> QED
    BY <1>8, <2>1, <2>2, <2>3, <2>4 DEF ConfirmAnswer
<1>9. CASE FinishConfirmed
  BY <1>9, FinishStep DEF FinishConfirmed, elsewhere, Statuses
<1>10. CASE SubmitRecovery
  <2>1. [op |-> "RECOVER_ANCHOR", arg |-> 0] \in Command
    BY DEF Command
  <2> QED
    BY <1>10, <2>1, SendStep DEF SubmitRecovery, elsewhere
<1>11. CASE RecoveryAnswer
  <2>0. pc = "recovering" /\ UNCHANGED <<cursor, alive, indexer, chain, node>>
    BY <1>11 DEF RecoveryAnswer, elsewhere
  <2>1. NodeType' /\ ActionIds' = ActionIds
    BY <1>0, <2>0 DEF NodeType, node, ActionIds
  <2>2. CASE /\ hand' = [by |-> side, pos |-> result[side].pos] /\ stage' = "anchor"
             /\ pc' = IF anchorState = result[side].pos THEN "confirm" ELSE "execute"
             /\ UNCHANGED <<jobs, cur, side>>
    <3>1. hand'.pos \in Nat /\ stage' \in Stages /\ pc' \in {"confirm", "execute"}
      BY <2>0, <2>2, SideAnswer DEF Stages
    <3> QED
      BY <2>0, <2>1, <2>2, <3>1, MoveStep DEF Steps
  <2>3. CASE pc' = "recovered" /\ UNCHANGED <<jobs, cur, stage, hand, side>>
    BY <1>0, <2>0, <2>1, <2>3, MoveStep DEF Steps
  <2>4. CASE Fail("failed")
    BY <2>0, <2>4, FailStep
  <2> QED
    BY <1>11, <2>2, <2>3, <2>4 DEF RecoveryAnswer
<1>12. CASE AfterRecovery
  <2>0. pc = "recovered" /\ UNCHANGED <<cursor, alive, indexer, chain>>
    BY <1>12 DEF AfterRecovery, elsewhere
  <2>1. CASE /\ Send("RECOVER_DEPOSIT", jobs[cur].src) /\ side' = Len(sent) + 1
             /\ pc' = "depositing" /\ UNCHANGED <<jobs, cur, stage, hand>>
    <3>1. [op |-> "RECOVER_DEPOSIT", arg |-> jobs[cur].src] \in Command
      BY <2>0, CurrentRow DEF Command
    <3> QED
      BY <2>0, <2>1, <3>1, SendStep
  <2>2. CASE Fail("retry") /\ UNCHANGED node
    BY <2>0, <2>2, FailStep
  <2> QED
    BY <1>12, <2>1, <2>2 DEF AfterRecovery
<1>13. CASE DepositAnswer
  <2>0. pc = "depositing" /\ UNCHANGED <<cursor, alive, indexer, chain, node>>
    BY <1>13 DEF DepositAnswer, elsewhere
  <2>1. CASE Finish("confirmed", "none", jobs[cur].tx)
    BY <2>0, <2>1, CurrentRow, FinishStep DEF Statuses
  <2>2. CASE /\ hand' = [by |-> side, pos |-> result[side].pos]
             /\ stage' = "deposit" /\ pc' = "execute"
             /\ UNCHANGED <<jobs, cur, side>>
    <3>1. NodeType' /\ ActionIds' = ActionIds
      BY <1>0, <2>0 DEF NodeType, node, ActionIds
    <3>2. hand'.pos \in Nat /\ stage' \in Stages
      BY <2>0, <2>2, SideAnswer DEF Stages
    <3> QED
      BY <2>0, <2>2, <3>1, <3>2, MoveStep DEF Steps
  <2>3. CASE Fail("failed")
    BY <2>0, <2>3, FailStep
  <2> QED
    BY <1>13, <2>1, <2>2, <2>3 DEF DepositAnswer
<1> QED
  BY <1>1, <1>2, <1>3, <1>4, <1>5, <1>6, <1>7, <1>8, <1>9, <1>10, <1>11, <1>12, <1>13 DEF Work

LEMMA WorkerFaultStep == ASSUME Types, WorkerFault PROVE WorkStep
BY FailStep DEF WorkerFault

-----------------------------------------------------------------------------
(***************************************************************************)
(* The other steps                                                         *)
(***************************************************************************)
\* A step keeps the rows and their sources, or adds the row of one request.
TableStep ==
  \/ SameSources(jobs, jobs')
  \/ \E s \in Sources : SameSources(CreateJob(s, jobs), jobs')

\* What every step leaves.
StepOK == Types' /\ TableStep /\ NoJobStranded'

\* A step that touches neither the worker nor the node.
LEMMA SameProcess ==
  ASSUME Types, UNCHANGED <<jobs, alive, pc, cur, stage, hand, side, sent, result, late,
                            applied, acked>>
  PROVE  TableType' /\ WorkerType' /\ NodeType' /\ SameSources(jobs, jobs')
<1>1. TableType'
  BY DEF Types, TableType, ActionIds
<1>2. WorkerType'
  BY DEF Types, WorkerType, Runnable
<1>3. NodeType'
  BY DEF Types, NodeType, ActionIds
<1> QED
  BY <1>1, <1>2, <1>3, SameTable

\* A request gets its row, and a worker that stopped takes it.
LEMMA CreateStep ==
  ASSUME Types, alive, NEW s \in Sources, Wake(CreateJob(s, jobs)),
         UNCHANGED <<alive, stage, hand, side, sent, result, late, applied, acked>>
  PROVE  /\ TableType' /\ WorkerType' /\ NodeType'
         /\ SameSources(CreateJob(s, jobs), jobs')
         /\ pc' = "idle" => Runnable(jobs') = {}
<1> DEFINE js == CreateJob(s, jobs)
<1>1. jobs \in Seq(Row) /\ \A i \in 1..Len(jobs) : jobs[i].action \in ActionIds \cup {NoAction}
  BY DEF Types, TableType
<1>2. /\ js \in Seq(Row) /\ Len(jobs) <= Len(js)
      /\ \A i \in 1..Len(jobs) : js[i] = jobs[i]
  BY <1>1, CreatedRow
<1>3. \A i \in 1..Len(js) : js[i].action \in ActionIds \cup {NoAction}
  <2> DEFINE A == ActionIds
  <2>1. \A i \in 1..Len(jobs) : jobs[i].action \in A \cup {NoAction}
    BY <1>1
  <2> HIDE DEF A
  <2>2. \A i \in 1..Len(js) : js[i].action \in A \cup {NoAction}
    BY <1>1, <2>1, CreatedActions
  <2> QED
    BY <2>2 DEF A
<1>4. \A i \in Runnable(jobs) : i \in Runnable(js) /\ js[i].action = jobs[i].action
  <2> HIDE DEF js
  <2> QED
    BY <1>1, <1>2, LenProperties DEF Runnable
<1>5. NodeType'
  BY DEF Types, NodeType, ActionIds
<1> HIDE DEF js
<1>6. Wake(js)
  BY DEF js
<1>7. /\ TableType' /\ WorkerType' /\ SameSources(js, jobs')
      /\ pc' = "idle" => Runnable(jobs') = {}
  BY <1>2, <1>3, <1>4, <1>6, WakeTypes
<1> QED
  BY <1>5, <1>7 DEF js

\* A failed job is made runnable again; the others stay as they are.
LEMMA RetryStep ==
  ASSUME Types, NEW i \in DOMAIN jobs, Retry(i)
  PROVE  StepOK
<1> DEFINE row == ResetForRetry(jobs[i])
           js == [jobs EXCEPT ![i] = row]
<1>1. jobs \in Seq(Row) /\ i \in 1..Len(jobs) /\ jobs[i] \in Row
  BY LenProperties, ElementOfSeq DEF Types, TableType
<1>2. row \in Row /\ row.src = jobs[i].src /\ row.action = jobs[i].action
  BY <1>1 DEF ResetForRetry, Row, Statuses, RunnableStatuses
<1>3. /\ js \in Seq(Row) /\ Len(js) = Len(jobs)
      /\ \A k \in 1..Len(jobs) : js[k] = IF k = i THEN row ELSE jobs[k]
  BY <1>1, <1>2, ExceptSeq
<1>4. jobs[i].status = "failed" /\ alive /\ Wake(js)
      /\ UNCHANGED <<alive, stage, hand, side, sent, indexer, chain, cursor, node>>
  BY DEF Retry, node
<1> HIDE DEF js, row
<1>5. \A k \in 1..Len(js) : js[k].action \in ActionIds \cup {NoAction}
  BY <1>1, <1>2, <1>3 DEF Types, TableType
<1>6. \A k \in Runnable(jobs) : k \in Runnable(js) /\ js[k].action = jobs[k].action
  BY <1>1, <1>2, <1>3, <1>4, LenProperties DEF Runnable, RunnableStatuses
<1>7. /\ TableType' /\ WorkerType' /\ SameSources(js, jobs')
      /\ pc' = "idle" => Runnable(jobs') = {}
  BY <1>3, <1>4, <1>5, <1>6, WakeTypes
<1>8. SameSources(jobs, jobs')
  BY <1>2, <1>3, <1>7 DEF SameSources
<1>9. IndexerType' /\ NodeType'
  <2>1. IndexerType'
    BY <1>4 DEF Types, IndexerType, indexer, chain
  <2>2. NodeType'
    BY <1>4 DEF Types, NodeType, node, ActionIds
  <2> QED
    BY <2>1, <2>2
<1> QED
  BY <1>7, <1>8, <1>9 DEF StepOK, Types, TableStep, NoJobStranded

LEMMA IndexStep ==
  ASSUME Types, NoJobStranded, Index
  PROVE  StepOK
<1>0. /\ block \in Nat /\ head \in -1..block /\ cursor \in 1..block + 1
      /\ BlockRange \in Nat \ {0}
  BY ConstantsAssumption DEF Types, IndexerType
<1>1. ASSUME NEW e \in Events, EnqueueChain(e) PROVE StepOK
  <2>1. alive /\ e \in Sources
    BY <1>1 DEF EnqueueChain, Types, IndexerType, Sources
  <2>2. /\ TableType' /\ WorkerType' /\ NodeType'
        /\ SameSources(CreateJob(e, jobs), jobs')
        /\ pc' = "idle" => Runnable(jobs') = {}
    BY <1>1, <2>1, CreateStep DEF EnqueueChain, elsewhereThanIndexer, node
  <2>3. IndexerType'
    BY <1>1 DEF EnqueueChain, Types, IndexerType, elsewhereThanIndexer, chain
  <2> QED
    BY <2>1, <2>2, <2>3 DEF StepOK, Types, TableStep, NoJobStranded
<1>2. CASE UNCHANGED <<jobs, pc, cur, elsewhereThanIndexer>> /\ IndexerType'
  <2>1. TableType' /\ WorkerType' /\ NodeType' /\ SameSources(jobs, jobs')
    BY <1>2, SameProcess DEF elsewhereThanIndexer, node
  <2>2. NoJobStranded'
    BY <1>2 DEF NoJobStranded, Runnable, elsewhereThanIndexer
  <2> QED
    BY <1>2, <2>1, <2>2 DEF StepOK, Types, TableStep
<1>3. ToBlock \in Int /\ ToBlock <= head /\ (cursor <= head => cursor <= ToBlock)
  BY <1>0 DEF ToBlock
<1>4. CASE BlockNumber
  <2>1. IndexerType'
    BY <1>0, <1>4 DEF BlockNumber, Types, IndexerType, tables, elsewhereThanIndexer, chain
  <2> QED
    BY <1>2, <1>4, <2>1 DEF BlockNumber, tables
<1>5. CASE FetchEvents
  <2>1. IndexerType'
    BY <1>0, <1>5 DEF FetchEvents, Types, IndexerType, tables, elsewhereThanIndexer, chain
  <2> QED
    BY <1>2, <1>5, <2>1 DEF FetchEvents, tables
<1>6. CASE SetCursor
  <2>0. loaded /\ batch = {} /\ cursor <= head
    BY <1>6 DEF SetCursor, Types, IndexerType
  <2>1. cursor' \in 1..block + 1
    BY <1>0, <1>3, <1>6, <2>0 DEF SetCursor
  <2>2. IndexerType'
    BY <1>0, <1>6, <2>0, <2>1 DEF SetCursor, Types, IndexerType, elsewhereThanIndexer, chain
  <2> QED
    BY <1>2, <1>6, <2>2 DEF SetCursor
<1>7. CASE EndPoll
  <2>1. IndexerType'
    BY <1>0, <1>7 DEF EndPoll, Types, IndexerType, tables, elsewhereThanIndexer, chain
  <2> QED
    BY <1>2, <1>7, <2>1 DEF EndPoll, tables
<1> QED
  BY <1>1, <1>4, <1>5, <1>6, <1>7 DEF Index

LEMMA ProcessStep ==
  ASSUME Types, Crash \/ Restart
  PROVE  StepOK
<1>1. CASE Crash
  <2>1. TableType' /\ NodeType' /\ SameSources(jobs, jobs')
    <3>1. TableType'
      BY <1>1 DEF Crash, Types, TableType, tables, node, ActionIds
    <3>2. NodeType'
      BY <1>1 DEF Crash, Types, NodeType, node, ActionIds
    <3> QED
      BY <1>1, <3>1, <3>2, SameTable DEF Crash, tables
  <2>2. WorkerType'
    BY <1>1 DEF Crash, Types, WorkerType, Steps
  <2>3. IndexerType'
    <3>1. head' = -1 /\ batch' = {} /\ loaded' = FALSE /\ UNCHANGED <<cursor, block, at>>
      BY <1>1 DEF Crash, tables, chain
    <3>2. /\ block' \in Nat /\ head' \in -1..block' /\ cursor' \in 1..block' + 1
          /\ at' \in [Events -> 0..block']
      BY <3>1 DEF Types, IndexerType
    <3> QED
      BY <3>1, <3>2 DEF IndexerType
  <2> QED
    BY <1>1, <2>1, <2>2, <2>3 DEF Crash, StepOK, Types, TableStep, NoJobStranded
<1>2. CASE Restart
  <2>0. /\ jobs \in Seq(Row) /\ Drain(jobs)
        /\ alive' /\ UNCHANGED <<cursor, stage, hand, side, indexer, chain, node>>
    BY <1>2 DEF Restart, Types, TableType
  <2>1. /\ SameSources(jobs, jobs')
        /\ pc' = "idle" => Runnable(jobs') = {}
        /\ pc' # "idle" => cur' \in Runnable(jobs')
        /\ pc' \in {"idle", "submit", "poll"}
    BY <2>0, DrainKeepsRows
  <2>2. /\ \A i \in 1..Len(jobs') : jobs'[i].action \in ActionIds \cup {NoAction}
        /\ pc' = "poll" => jobs'[cur'].action # NoAction
    <3> DEFINE A == ActionIds
    <3>1. /\ Events \subseteq A /\ NoAction \notin Events
          /\ \A i \in 1..Len(jobs) : jobs[i].action \in A \cup {NoAction}
      BY ConstantsAssumption DEF Sources, ActionIds, Types, TableType
    <3> HIDE DEF A
    <3>2. /\ \A i \in 1..Len(jobs') : jobs'[i].action \in A \cup {NoAction}
          /\ pc' = "poll" => jobs'[cur'].action # NoAction
      BY <2>0, <3>1, DrainActions
    <3> QED
      BY <3>2 DEF A
  <2>3. TableType'
    BY <2>0, <2>1, <2>2 DEF TableType, SameSources, ActionIds, node
  <2>4. alive' \in BOOLEAN
    BY <1>2 DEF Restart
  <2>5. WorkerType'
    BY <2>0, <2>1, <2>2, <2>4 DEF Types, WorkerType, Steps, node
  <2>6. IndexerType'
    BY <2>0 DEF Types, IndexerType, indexer, chain
  <2>7. NodeType'
    BY <2>0 DEF Types, NodeType, node, ActionIds
  <2> QED
    BY <2>1, <2>3, <2>5, <2>6, <2>7 DEF StepOK, Types, TableStep, NoJobStranded
<1> QED
  BY <1>1, <1>2

\* The chain goes on, whether the relayer runs or not.
LEMMA ChainStep ==
  ASSUME Types, NoJobStranded,
         (\E S \in SUBSET Events : Mine(S)) \/ (\E e \in Events : RequestRiskTick(e))
  PROVE  /\ StepOK
         /\ UNCHANGED <<jobs, cursor, head, batch, loaded>>
         /\ \A e \in Events : at'[e] = at[e] \/ at'[e] = block + 1
<1>0. /\ block \in Nat /\ head \in -1..block /\ cursor \in 1..block + 1
      /\ at \in [Events -> 0..block]
  BY DEF Types, IndexerType
<1>1. /\ block' = block + 1
      /\ at' \in [Events -> 0..block + 1]
      /\ \A e \in Events : at'[e] = at[e] \/ at'[e] = block + 1
      /\ UNCHANGED <<tables, alive, worker, indexer, node, vault, bounds>>
  <2>1. CASE \E S \in SUBSET Events : Mine(S)
    BY <1>0, <2>1 DEF Mine
  <2>2. CASE \E e \in Events : RequestRiskTick(e)
    BY <1>0, <2>2 DEF RequestRiskTick
  <2> QED
    BY <2>1, <2>2
<1>2. IndexerType'
  BY <1>0, <1>1 DEF Types, IndexerType, tables, indexer
<1>3. TableType' /\ WorkerType' /\ NodeType' /\ SameSources(jobs, jobs')
  BY <1>1, SameProcess DEF tables, worker, node
<1>4. NoJobStranded'
  BY <1>1 DEF NoJobStranded, Runnable, tables, worker
<1> QED
  BY <1>1, <1>2, <1>3, <1>4 DEF StepOK, Types, TableStep, tables, indexer

LEMMA DirectStep ==
  ASSUME Types, NEW d \in Directs, EnqueueDirect(d)
  PROVE  StepOK
<1>1. d \in Sources /\ alive
  BY DEF EnqueueDirect, Sources
<1>2. /\ TableType' /\ WorkerType' /\ NodeType'
      /\ SameSources(CreateJob(d, jobs), jobs')
      /\ pc' = "idle" => Runnable(jobs') = {}
  BY <1>1, CreateStep DEF EnqueueDirect, node
<1>3. IndexerType'
  BY DEF EnqueueDirect, Types, IndexerType, indexer, chain
<1> QED
  BY <1>1, <1>2, <1>3 DEF StepOK, Types, TableStep, NoJobStranded

LEMMA EnvironmentStep ==
  ASSUME Types, NoJobStranded, NEW a \in ActionIds, NodeStep(a) \/ Expire(a)
  PROVE  StepOK /\ UNCHANGED <<cursor, head, batch, loaded, at>>
<1>1. /\ NodeType'
      /\ UNCHANGED <<jobs, cursor, alive, pc, cur, stage, hand, side, head, batch, loaded,
                     block, at, sent>>
  <2>1. CASE NodeStep(a)
    BY <2>1, NodeTypes
  <2>2. CASE Expire(a)
    <3>1. UNCHANGED <<jobs, cursor, alive, pc, cur, stage, hand, side, head, batch, loaded,
                      block, at, sent, result, late, applied, acked>>
      BY <2>2 DEF Expire, tables, worker, indexer, chain, node
    <3> QED
      BY <3>1, SameProcess
  <2> QED
    BY <2>1, <2>2
<1>2. TableType'
  BY <1>1 DEF Types, TableType, ActionIds
<1>3. WorkerType'
  BY <1>1 DEF Types, WorkerType, Runnable
<1>4. IndexerType'
  BY <1>1 DEF Types, IndexerType
<1>5. NoJobStranded' /\ SameSources(jobs, jobs')
  BY <1>1, SameTable DEF NoJobStranded, Runnable
<1> QED
  BY <1>1, <1>2, <1>3, <1>4, <1>5 DEF StepOK, Types, TableStep

LEMMA WorkerStep ==
  ASSUME Types, Work \/ WorkerFault
  PROVE  StepOK /\ UNCHANGED <<cursor, head, batch, loaded, at>>
<1>1. WorkStep
  BY WorkSteps, WorkerFaultStep
<1> QED
  BY <1>1 DEF WorkStep, StepOK, TableStep, NoJobStranded, indexer, chain

LEMMA EveryStep ==
  ASSUME Types, NoJobStranded, [Next]_vars
  PROVE  StepOK
<1>1. CASE Work \/ WorkerFault
  BY <1>1, WorkerStep
<1>2. CASE Index
  BY <1>2, IndexStep
<1>3. CASE Crash \/ Restart
  BY <1>3, ProcessStep
<1>4. CASE \E d \in Directs : EnqueueDirect(d)
  BY <1>4, DirectStep
<1>5. CASE \E i \in DOMAIN jobs : Retry(i)
  BY <1>5, RetryStep
<1>6. CASE (\E S \in SUBSET Events : Mine(S)) \/ (\E e \in Events : RequestRiskTick(e))
  BY <1>6, ChainStep
<1>7. CASE \E a \in Events \cup DOMAIN sent : NodeStep(a) \/ Expire(a)
  BY <1>7, EnvironmentStep DEF ActionIds
<1>8. CASE UNCHANGED vars
  <2>1. TableType' /\ WorkerType' /\ NodeType' /\ SameSources(jobs, jobs')
    BY <1>8, SameProcess DEF vars
  <2>2. IndexerType'
    BY <1>8 DEF vars, Types, IndexerType
  <2>3. NoJobStranded'
    BY <1>8 DEF vars, NoJobStranded, Runnable
  <2> QED
    BY <2>1, <2>2, <2>3 DEF StepOK, Types, TableStep
<1> QED
  BY <1>1, <1>2, <1>3, <1>4, <1>5, <1>6, <1>7, <1>8 DEF Next

LEMMA InitIdle == ASSUME Init PROVE NoJobStranded
BY DEF Init, NoJobStranded, Runnable

\* Every row, index and answer refers to something that exists, and the worker holds a
\* job it has still to finish, after any crash, fault, retry or restart (TypeOK).
THEOREM TypeCorrect == Spec => []TypeOK
<1>1. Init => Types /\ NoJobStranded
  BY InitTypes, InitIdle
<1>2. Types /\ NoJobStranded /\ [Next]_vars => (Types /\ NoJobStranded)'
  BY EveryStep DEF StepOK
<1>3. Types => TypeOK
  BY TypesImplyTypeOK
<1> QED
  BY <1>1, <1>2, <1>3, PTL DEF Spec

\* Whenever the process runs and its worker has stopped, no job of the table is left to
\* run, not even one that a restart has found (orchestrator.ts, wake and drain).
THEOREM WorkerLeavesNothing == Spec => []NoJobStranded
<1>1. Init => Types /\ NoJobStranded
  BY InitTypes, InitIdle
<1>2. Types /\ NoJobStranded /\ [Next]_vars => (Types /\ NoJobStranded)'
  BY EveryStep DEF StepOK
<1> QED
  BY <1>1, <1>2, PTL DEF Spec

-----------------------------------------------------------------------------
(***************************************************************************)
(* Events and jobs                                                         *)
(***************************************************************************)
LEMMA SameSourcesOnce ==
  ASSUME NEW js \in Seq(Row), SameSources(js, jobs'),
         \A i, k \in DOMAIN js : js[i].src = js[k].src /\ js[i].src \in Events => i = k
  PROVE  OneJobPerEvent'
<1>1. DOMAIN js = 1..Len(js) /\ DOMAIN jobs' = 1..Len(js)
  BY LenProperties DEF SameSources
<1> QED
  BY <1>1 DEF SameSources, OneJobPerEvent

LEMMA OnceStep ==
  ASSUME Types, OneJobPerEvent, TableStep
  PROVE  OneJobPerEvent'
<1>0. jobs \in Seq(Row)
  BY DEF Types, TableType
<1>1. CASE SameSources(jobs, jobs')
  BY <1>0, <1>1, SameSourcesOnce DEF OneJobPerEvent
<1>2. ASSUME NEW s \in Sources, SameSources(CreateJob(s, jobs), jobs')
      PROVE  OneJobPerEvent'
  <2>1. CreateJob(s, jobs) \in Seq(Row)
    BY <1>0, CreatedRow
  <2>2. \A i, k \in DOMAIN CreateJob(s, jobs) :
          CreateJob(s, jobs)[i].src = CreateJob(s, jobs)[k].src
          /\ CreateJob(s, jobs)[i].src \in Events => i = k
    BY <1>0, CreatedOnce DEF OneJobPerEvent
  <2> QED
    BY <1>2, <2>1, <2>2, SameSourcesOnce
<1> QED
  BY <1>1, <1>2 DEF TableStep

\* A block range that is read again after a crash makes no second job, whatever was
\* enqueued meanwhile (db.ts, createJob).
THEOREM JobsAreUnique == Spec => []OneJobPerEvent
<1>1. Init => Types /\ NoJobStranded /\ OneJobPerEvent
  <2>1. Init => DOMAIN jobs = {}
    BY DEF Init
  <2> QED
    BY <2>1, InitTypes, InitIdle DEF OneJobPerEvent
<1>2. Types /\ NoJobStranded /\ OneJobPerEvent /\ [Next]_vars
      => (Types /\ NoJobStranded /\ OneJobPerEvent)'
  BY EveryStep, OnceStep DEF StepOK
<1> QED
  BY <1>1, <1>2, PTL DEF Spec

\* An event with a job.
Queued(e) == \E i \in DOMAIN jobs : jobs[i].src = e

\* The events of the fetched range are in the batch or in the table.
RangeComplete ==
  loaded => \A e \in Events :
              at[e] # 0 /\ cursor <= at[e] /\ at[e] <= ToBlock => e \in batch \/ Queued(e)

\* A row that is in the table stays.
LEMMA StaysQueued ==
  ASSUME Types, TableStep, NEW e \in Events, Queued(e)
  PROVE  Queued(e)'
<1>1. PICK i \in 1..Len(jobs) : jobs[i].src = e
  BY LenProperties DEF Queued, Types, TableType
<1>2. CASE SameSources(jobs, jobs')
  BY <1>1, <1>2, LenProperties DEF SameSources, Queued
<1>3. ASSUME NEW s \in Sources, SameSources(CreateJob(s, jobs), jobs')
      PROVE  Queued(e)'
  <2>1. /\ Len(jobs) \in Nat /\ Len(CreateJob(s, jobs)) \in Nat
        /\ Len(jobs) <= Len(CreateJob(s, jobs)) /\ CreateJob(s, jobs)[i] = jobs[i]
    BY <1>1, CreatedRow, LenProperties DEF Types, TableType
  <2>2. i \in DOMAIN jobs' /\ jobs'[i].src = e
    BY <1>1, <1>3, <2>1, LenProperties DEF SameSources
  <2> QED
    BY <2>2 DEF Queued
<1> QED
  BY <1>2, <1>3 DEF TableStep

\* The job of an event that leaves the batch is in the table.
LEMMA EnqueuedIsQueued ==
  ASSUME Types, NEW e \in Events, EnqueueChain(e)
  PROVE  Queued(e)'
<1>1. alive /\ e \in Sources
  BY DEF EnqueueChain, Types, IndexerType, Sources
<1>2. SameSources(CreateJob(e, jobs), jobs')
  BY <1>1, CreateStep DEF EnqueueChain, elsewhereThanIndexer, node
<1>3. PICK i \in 1..Len(CreateJob(e, jobs)) : CreateJob(e, jobs)[i].src = e
  BY <1>1, CreatedRow DEF Types, TableType
<1>4. i \in DOMAIN jobs' /\ jobs'[i].src = e
  BY <1>2, <1>3, LenProperties DEF SameSources
<1> QED
  BY <1>4 DEF Queued

\* A step that leaves the indexer's view of the chain as it is.
LEMMA SameView ==
  ASSUME Types, TableStep, NoEventLost, RangeComplete,
         UNCHANGED <<cursor, at>>, loaded' => UNCHANGED <<head, batch, loaded>>
  PROVE  (NoEventLost /\ RangeComplete)'
<1>1. NoEventLost'
  BY StaysQueued DEF NoEventLost, Queued
<1>2. RangeComplete'
  BY StaysQueued DEF RangeComplete, ToBlock
<1> QED
  BY <1>1, <1>2

LEMMA EventStep ==
  ASSUME Types, NoJobStranded, NoEventLost, RangeComplete, [Next]_vars
  PROVE  (NoEventLost /\ RangeComplete)'
<1>0. /\ block \in Nat /\ head \in -1..block /\ cursor \in 1..block + 1
      /\ at \in [Events -> 0..block] /\ BlockRange \in Nat \ {0}
      /\ TableStep /\ Types'
  BY EveryStep, ConstantsAssumption DEF StepOK, Types, IndexerType
<1>1. CASE Work \/ WorkerFault
  BY <1>0, <1>1, WorkerStep, SameView
<1>2. CASE BlockNumber
  <2>1. ~loaded
    BY <1>2 DEF BlockNumber, Types, IndexerType
  <2> QED
    BY <1>0, <1>2, <2>1, SameView DEF BlockNumber, tables, elsewhereThanIndexer, chain
<1>3. CASE FetchEvents
  <2>1. NoEventLost'
    BY <1>3 DEF FetchEvents, NoEventLost, tables, elsewhereThanIndexer, chain
  <2>2. RangeComplete'
    BY <1>3 DEF FetchEvents, RangeComplete, ToBlock, tables, elsewhereThanIndexer, chain
  <2> QED
    BY <2>1, <2>2
<1>4. CASE SetCursor
  <2>1. NoEventLost'
    <3> SUFFICES ASSUME NEW e \in Events, at[e] # 0, at[e] < ToBlock + 1
                 PROVE  Queued(e)
      BY <1>4 DEF SetCursor, NoEventLost, Queued, elsewhereThanIndexer, chain
    <3>1. CASE at[e] < cursor
      BY <3>1 DEF NoEventLost, Queued
    <3>2. CASE cursor <= at[e]
      <4>1. at[e] <= ToBlock
        BY <1>0 DEF ToBlock
      <4> QED
        BY <1>4, <3>2, <4>1 DEF SetCursor, RangeComplete
    <3> QED
      BY <1>0, <3>1, <3>2
  <2>2. RangeComplete'
    BY <1>4 DEF SetCursor, RangeComplete
  <2> QED
    BY <2>1, <2>2
<1>5. CASE EndPoll
  BY <1>0, <1>5, SameView DEF EndPoll, tables, elsewhereThanIndexer, chain
<1>6. ASSUME NEW e \in Events, EnqueueChain(e) PROVE (NoEventLost /\ RangeComplete)'
  <2>1. UNCHANGED <<cursor, head, loaded, at>> /\ batch' = batch \ {e}
    BY <1>6 DEF EnqueueChain, elsewhereThanIndexer, chain
  <2>2. NoEventLost'
    BY <1>0, <2>1, StaysQueued DEF NoEventLost, Queued
  <2>3. RangeComplete'
    BY <1>0, <1>6, <2>1, StaysQueued, EnqueuedIsQueued DEF RangeComplete, ToBlock
  <2> QED
    BY <2>2, <2>3
<1>7. CASE Crash \/ Restart
  BY <1>0, <1>7, SameView DEF Crash, Restart, tables, chain, indexer
<1>8. CASE \E d \in Directs : EnqueueDirect(d)
  BY <1>0, <1>8, SameView DEF EnqueueDirect, chain, indexer
<1>9. CASE \E i \in DOMAIN jobs : Retry(i)
  BY <1>0, <1>9, SameView DEF Retry, chain, indexer
<1>10. CASE (\E S \in SUBSET Events : Mine(S)) \/ (\E e \in Events : RequestRiskTick(e))
  <2>1. /\ UNCHANGED <<jobs, cursor, head, batch, loaded>>
        /\ \A e \in Events : at'[e] = at[e] \/ at'[e] = block + 1
    BY <1>10, ChainStep
  <2>2. ToBlock \in Int /\ ToBlock <= head
    BY <1>0 DEF ToBlock
  <2>3. NoEventLost'
    BY <1>0, <2>1 DEF NoEventLost
  <2>4. RangeComplete'
    <3>1. ToBlock' = ToBlock
      BY <2>1 DEF ToBlock
    <3>2. ASSUME NEW e \in Events, at'[e] <= ToBlock PROVE at'[e] = at[e]
      BY <1>0, <2>1, <2>2, <3>2
    <3> QED
      BY <2>1, <3>1, <3>2 DEF RangeComplete, Queued
  <2> QED
    BY <2>3, <2>4
<1>11. CASE \E a \in Events \cup DOMAIN sent : NodeStep(a) \/ Expire(a)
  BY <1>0, <1>11, EnvironmentStep, SameView DEF ActionIds
<1>12. CASE UNCHANGED vars
  BY <1>0, <1>12, SameView DEF vars
<1> QED
  BY <1>1, <1>2, <1>3, <1>4, <1>5, <1>6, <1>7, <1>8, <1>9, <1>10, <1>11, <1>12 DEF Next, Index

\* The cursor never passes an event that has no job, wherever the process stops
\* (indexer.ts, poll).
THEOREM EventsBecomeJobs == Spec => []NoEventLost
<1>1. Init => Types /\ NoJobStranded /\ NoEventLost /\ RangeComplete
  BY InitTypes, InitIdle DEF Init, NoEventLost, RangeComplete
<1>2. Types /\ NoJobStranded /\ NoEventLost /\ RangeComplete /\ [Next]_vars
      => (Types /\ NoJobStranded /\ NoEventLost /\ RangeComplete)'
  BY EveryStep, EventStep DEF StepOK
<1> QED
  BY <1>1, <1>2, PTL DEF Spec

=============================================================================
