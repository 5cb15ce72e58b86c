-------------------------- MODULE MetricLifecycle --------------------------
(***************************************************************************)
(* One custom metric of htmengine: its row and its data in the database,    *)
(* the input queue and the model behind it, and the results on their way    *)
(* back.  The metric storer stores and streams samples, clients of the web  *)
(* service monitor and unmonitor the metric, the AnomalyService writes the  *)
(* scores.  They meet in the status of the metric, which some of them read  *)
(* under a lock of its row, and some do not.                                *)
(***************************************************************************)
EXTENDS Integers, Sequences, FiniteSets, SequencesExt

CONSTANTS
  Clients,      \* calls of the web service that may run at the same time
  Storer,       \* the metric storer, which runs the MetricStreamer
  Threshold,    \* MODEL_CREATION_RECORD_THRESHOLD
  Times,        \* time stamps of samples
  MaxBatch,     \* bound: samples of one call of the streamer
  MaxBatches,   \* bound: such calls
  MaxCalls,     \* bound: calls of the clients
  MaxFailures   \* bound: crashes, failing commits and failing publishes

ASSUME MetricAssumption ==
  /\ Storer \notin Clients
  /\ {Threshold, MaxBatch, MaxBatches, MaxCalls, MaxFailures} \subseteq Nat
  /\ Threshold > 0
  /\ Times \subseteq Nat \ {0}

VARIABLES
  status,      \* metric.status, as committed
  parameters,  \* metric.parameters holds a model specification
  modelParams, \* metric.model_params holds the swarmParams of a model
  rows,        \* metric_data: the time stamp of each row, by row ID
  scored,      \* the row IDs with an anomaly score
  queueUp,     \* the model's input queue exists
  queue,       \* ... and holds these messages
  model,       \* the definition of the model, NoParams when there is none
  results,     \* the results queue
  pc, params,  \* what the storer and each client do, and the swarmParams they hold
  batch,       \* storer: the samples it has not acknowledged
  lo,          \* storer: the first row ID it stored of them
  ref,         \* storer: the status startModel read
  tail,        \* storer: cached time stamp of the last row, 0 when not cached
  service,     \* what the AnomalyService does with the first of the results
  batches, calls, failures,
  unmonitored, \* history: a client has called unmonitorMetric
  fed,         \* history: the rows published since the last defineModel, and
               \* since the queue was deleted
  lost,        \* history: those whose publication was cut short since then
  overwritten  \* history: the service has overwritten a status it had not read

rowVars   == <<status, parameters, modelParams, rows, scored>>
modelVars == <<queueUp, queue, model>>
storerVars == <<batch, lo, ref, tail, batches>>
history   == <<fed, lost, overwritten>>
vars == <<rowVars, modelVars, results, pc, params, storerVars, service,
          calls, failures, unmonitored, history>>

Status == {"UNMONITORED", "PENDING_DATA", "CREATE_PENDING", "ACTIVE", "ERROR"}
Procs  == Clients \cup {Storer}

\* swarmParams: none, made of the user's minimum and maximum, or estimated
\* from that many rows.
NoParams == -1
Given    == 0

\* Calls carry at least one sample.
Batches == UNION {[1 .. n -> Times] : n \in 1 .. MaxBatch}
MaxRows == MaxBatch * MaxBatches

RowIds(from) == from .. Len(rows)

DefineMessage(p) == [kind |-> "define", params |-> p]
RowsMessage(from) == [kind |-> "rows", lo |-> from, hi |-> Len(rows)]
DeleteMessage    == [kind |-> "delete"]

Idle == [step |-> "idle", read |-> "UNMONITORED", next |-> "ERROR", parameters |-> FALSE]

Init ==
  /\ status = "UNMONITORED" /\ parameters = FALSE /\ modelParams = FALSE
  /\ rows = <<>> /\ scored = {}
  /\ queueUp = FALSE /\ queue = <<>> /\ model = NoParams
  /\ results = <<>>
  /\ pc = [p \in Procs |-> "idle"] /\ params = [p \in Procs |-> NoParams]
  /\ batch = <<>> /\ lo = 0 /\ ref = "UNMONITORED" /\ tail = 0
  /\ service = Idle
  /\ batches = 0 /\ calls = 0 /\ failures = 0
  /\ unmonitored = FALSE
  /\ fed = {} /\ lost = {} /\ overwritten = FALSE

Goto(p, step) == pc' = [pc EXCEPT ![p] = step]

Fail == failures < MaxFailures /\ failures' = failures + 1

\* A transaction that has claimed the metric for a model holds the lock of
\* its row, and everybody who updates the row or reads it with a lock waits.
InTransaction(p) == pc[p] \in {"define", "backlog", "commit"}
Locked == \E p \in Procs : InTransaction(p)

\* submitRequests with rows: without a queue it does nothing (ModelNotFound
\* is ignored).
PublishRows(from) ==
  IF queueUp /\ from <= Len(rows)
  THEN /\ queue' = Append(queue, RowsMessage(from))
       /\ fed' = fed \cup RowIds(from)
  ELSE UNCHANGED <<queue, fed>>

-----------------------------------------------------------------------------
\* The MetricStreamer in the metric storer.

TakeMessages ==
  /\ pc[Storer] = "idle" /\ batches < MaxBatches
  /\ batches' = batches + 1
  /\ batch' \in Batches
  /\ Goto(Storer, "store")
  /\ UNCHANGED <<rowVars, modelVars, results, params, lo, ref, tail, service,
                 calls, failures, unmonitored, history>>

\* The time stamp of the last row: from the cache, which is emptied at times,
\* else from the database.
Tails ==
  LET stored == IF rows = <<>> THEN 0 ELSE Last(rows)
  IN  {stored, IF tail = 0 THEN stored ELSE tail}

\* Mutant: a sample with the time stamp of the last row passes, as does one
\* with that of the sample before.
ScrubbedLoosely(last) ==
  LET passing == {i \in DOMAIN batch : /\ batch[i] >= last
                                       /\ \A j \in 1 .. i - 1 : batch[j] <= batch[i]}
  IN  {new \in Batches \cup {<<>>} :
         /\ Range(new) = {batch[i] : i \in passing}
         /\ \A i, j \in DOMAIN new : i < j => new[i] <= new[j]}

\* _scrubDataSamples: the samples that are newer than the tail and than those
\* before them, in order.
Scrubbed(last) ==
  LET passing == {i \in DOMAIN batch : /\ batch[i] > last
                                       /\ \A j \in 1 .. i - 1 : batch[j] < batch[i]}
  IN  {new \in Batches \cup {<<>>} :
         /\ Range(new) = {batch[i] : i \in passing}
         /\ \A i, j \in DOMAIN new : i < j => new[i] < new[j]}

Streamable == status # "ERROR"

\* What the storer does after the transaction that stored rows: nothing for
\* an unmonitored metric, activateModel or nothing for one that waits for
\* data, or send the rows.
AfterStore ==
  IF status \in {"CREATE_PENDING", "ACTIVE"} THEN "send"
  ELSE IF status = "PENDING_DATA" /\ Len(rows') >= Threshold THEN "start"
  ELSE "idle"

\* Mutant: the streamer does not wait for the lock of the metric.
StoreSamplesUnlocked ==
  /\ pc[Storer] = "store"
  /\ Streamable
  /\ \E last \in Tails : \E new \in Scrubbed(last) :
       /\ rows' = rows \o new
       /\ tail' = IF new = <<>> THEN last ELSE Last(new)
       /\ lo' = Len(rows) + 1
       /\ Goto(Storer, IF new = <<>> THEN "idle" ELSE AfterStore)
  /\ UNCHANGED <<status, parameters, modelParams, scored, modelVars, results, params,
                 batch, ref, service, batches, calls, failures, unmonitored, history>>

\* storeDataWithRetries
StoreSamples ==
  /\ pc[Storer] = "store" /\ ~Locked
  /\ Streamable
  /\ \E last \in Tails : \E new \in Scrubbed(last) :
       /\ rows' = rows \o new
       /\ tail' = IF new = <<>> THEN last ELSE Last(new)
       /\ lo' = Len(rows) + 1
       /\ Goto(Storer, IF new = <<>> THEN "idle" ELSE AfterStore)
  /\ UNCHANGED <<status, parameters, modelParams, scored, modelVars, results, params,
                 batch, ref, service, batches, calls, failures, unmonitored, history>>

RejectSamples ==
  /\ pc[Storer] = "store" /\ ~Locked
  /\ ~Streamable
  /\ Goto(Storer, "idle")
  /\ UNCHANGED <<rowVars, modelVars, results, params, storerVars, service,
                 calls, failures, unmonitored, history>>

\* The commit fails and is retried.  The cache was updated before it.
StoreFails ==
  /\ pc[Storer] = "store" /\ ~Locked
  /\ Streamable
  /\ Fail
  /\ \E last \in Tails : \E new \in Scrubbed(last) \ {<<>>} : tail' = Last(new)
  /\ UNCHANGED <<rowVars, modelVars, results, pc, params, batch, lo, ref, batches,
                 service, calls, unmonitored, history>>

\* The rows are sent after the commit: the status may have changed.
SendRows ==
  /\ pc[Storer] = "send"
  /\ PublishRows(lo)
  /\ Goto(Storer, "idle")
  /\ UNCHANGED <<rowVars, queueUp, model, results, params, storerVars, service,
                 calls, failures, unmonitored, lost, overwritten>>

\* The exception is logged, and the messages are acknowledged.
SendFails ==
  /\ pc[Storer] = "send"
  /\ Fail
  /\ lost' = lost \cup RowIds(lo)
  /\ Goto(Storer, "idle")
  /\ UNCHANGED <<rowVars, modelVars, results, params, storerVars, service,
                 calls, unmonitored, fed, overwritten>>

\* activateModel: statistics of the rows, and startModel reads the metric.
ActivateModel ==
  /\ pc[Storer] = "start"
  /\ params' = [params EXCEPT ![Storer] = Len(rows)]
  /\ ref' = status
  /\ Goto(Storer, IF status \in {"UNMONITORED", "PENDING_DATA"} THEN "claim" ELSE "idle")
  /\ UNCHANGED <<rowVars, modelVars, results, batch, lo, tail, service,
                 batches, calls, failures, unmonitored, history>>

\* updateMetricColumnsForRefStatus, or MetricStatusChangedError
ClaimMetric ==
  /\ pc[Storer] = "claim" /\ ~Locked
  /\ Goto(Storer, IF status = ref THEN "define" ELSE "idle")
  /\ UNCHANGED <<rowVars, modelVars, results, params, storerVars, service,
                 calls, failures, unmonitored, history>>

\* The storer dies.  Its transaction is rolled back and its messages are
\* delivered again.
StorerCrashes ==
  /\ pc[Storer] # "idle"
  /\ Fail
  /\ Goto(Storer, "store")
  /\ tail' = 0
  /\ lost' = CASE pc[Storer] = "store" -> lost
               [] pc[Storer] = "send" -> lost \cup RowIds(lo)
               [] OTHER -> lost \cup RowIds(1)
  /\ UNCHANGED <<rowVars, modelVars, results, params, batch, lo, ref, service,
                 batches, calls, unmonitored, fed, overwritten>>

-----------------------------------------------------------------------------
\* The rest of the transaction that starts a model, of the storer
\* (startModel) or of a client (_startMonitoringWithRetries).

\* createHTMModel
DefineModel(p) ==
  /\ pc[p] = "define"
  /\ queueUp' = TRUE
  /\ queue' = Append(queue, DefineMessage(params[p]))
  /\ fed' = {} /\ lost' = {}
  /\ Goto(p, "backlog")
  /\ UNCHANGED <<rowVars, model, results, params, storerVars, service,
                 calls, failures, unmonitored, overwritten>>

\* The queue may have been created.  The status ERROR that is set here is
\* rolled back with the transaction.
DefineFails(p) ==
  /\ pc[p] = "define"
  /\ Fail
  /\ queueUp' \in {queueUp, TRUE}
  /\ lost' = lost \cup RowIds(1)
  /\ Goto(p, "idle")
  /\ UNCHANGED <<rowVars, queue, model, results, params, storerVars, service,
                 calls, unmonitored, fed, overwritten>>

\* sendBacklogDataToModel
SendBacklog(p) ==
  /\ pc[p] = "backlog"
  /\ PublishRows(1)
  /\ Goto(p, "commit")
  /\ UNCHANGED <<rowVars, queueUp, model, results, params, storerVars, service,
                 calls, failures, unmonitored, lost, overwritten>>

BacklogFails(p) ==
  /\ pc[p] = "backlog"
  /\ Fail
  /\ lost' = lost \cup RowIds(1)
  /\ Goto(p, "idle")
  /\ UNCHANGED <<rowVars, modelVars, results, params, storerVars, service,
                 calls, unmonitored, fed, overwritten>>

\* Only a client sets the parameters.
CommitStart(p) ==
  /\ pc[p] = "commit"
  /\ status' = "CREATE_PENDING" /\ modelParams' = TRUE
  /\ parameters' = (parameters \/ p # Storer)
  /\ Goto(p, "idle")
  /\ UNCHANGED <<rows, scored, modelVars, results, params, storerVars, service,
                 calls, failures, unmonitored, history>>

\* retryOnTransientErrors runs the transaction again.
CommitFails(p) ==
  /\ pc[p] = "commit"
  /\ Fail
  /\ Goto(p, IF p = Storer THEN "start" ELSE "lock")
  /\ UNCHANGED <<rowVars, modelVars, results, params, storerVars, service,
                 calls, unmonitored, history>>

-----------------------------------------------------------------------------
\* The custom datasource adapter, called by a client.

Call(c) ==
  /\ pc[c] = "idle" /\ calls < MaxCalls
  /\ calls' = calls + 1

\* monitorMetric with the user's limits, or with those of the rows when there
\* are enough of them now.
MonitorMetric(c) ==
  /\ Call(c)
  /\ \E p \in {Given, IF Len(rows) >= Threshold THEN Len(rows) ELSE NoParams} :
       params' = [params EXCEPT ![c] = p]
  /\ Goto(c, "lock")
  /\ UNCHANGED <<rowVars, modelVars, results, storerVars, service,
                 failures, unmonitored, history>>

\* MetricAlreadyMonitored, or a metric that waits for data, or a model.
StartMonitoring(c) ==
  /\ pc[c] = "lock" /\ ~Locked
  /\ IF status = "UNMONITORED" /\ params[c] = NoParams
     THEN status' = "PENDING_DATA" /\ parameters' = TRUE
     ELSE UNCHANGED <<status, parameters>>
  /\ Goto(c, IF status = "UNMONITORED" /\ params[c] # NoParams THEN "define" ELSE "idle")
  /\ UNCHANGED <<modelParams, rows, scored, modelVars, results, params, storerVars,
                 service, calls, failures, unmonitored, history>>

\* unmonitorMetric, whatever the status: deleteModel of the repository, then
\* deleteHTMModel, which purges the queue and submits the command.
UnmonitorMetric(c) ==
  /\ Call(c) /\ ~Locked
  /\ status' = "UNMONITORED" /\ parameters' = FALSE /\ modelParams' = FALSE
  /\ scored' = {}
  /\ unmonitored' = TRUE /\ overwritten' = FALSE
  /\ Goto(c, "purge")
  /\ UNCHANGED <<rows, modelVars, results, params, storerVars, service,
                 failures, fed, lost>>

PurgeQueue(c) ==
  /\ pc[c] = "purge"
  /\ queue' = <<>>
  /\ Goto(c, IF queueUp THEN "delete" ELSE "idle")
  /\ UNCHANGED <<rowVars, queueUp, model, results, params, storerVars, service,
                 calls, failures, unmonitored, history>>

SubmitDelete(c) ==
  /\ pc[c] = "delete"
  /\ queue' = IF queueUp THEN Append(queue, DeleteMessage) ELSE queue
  /\ Goto(c, "idle")
  /\ UNCHANGED <<rowVars, queueUp, model, results, params, storerVars, service,
                 calls, failures, unmonitored, history>>

DeleteFails(c) ==
  /\ pc[c] \in {"purge", "delete"}
  /\ Fail
  /\ Goto(c, "idle")
  /\ UNCHANGED <<rowVars, modelVars, results, params, storerVars, service,
                 calls, unmonitored, history>>

-----------------------------------------------------------------------------
\* The ModelRunner takes the next message: its runs, checkpoints and crashes
\* are those of ModelRunner.tla.

Answer(kind, ok) == [kind |-> kind, ok |-> ok]
RowsAnswer(m, ok) == [kind |-> "rows", ok |-> ok, lo |-> m.lo, hi |-> m.hi]

\* A model that exists keeps its definition; limits that were estimated from
\* other rows may be the same limits.
RunDefine ==
  /\ queue # <<>> /\ Head(queue).kind = "define"
  /\ queue' = Tail(queue)
  /\ model' = IF model = NoParams THEN Head(queue).params ELSE model
  /\ \E same \in IF model \in {NoParams, Head(queue).params} THEN {TRUE} ELSE BOOLEAN :
       results' = Append(results, Answer("define", same))
  /\ UNCHANGED <<rowVars, queueUp, pc, params, storerVars, service,
                 calls, failures, unmonitored, history>>

\* Without a model every row is answered with an error.
RunRows ==
  /\ queue # <<>> /\ Head(queue).kind = "rows"
  /\ queue' = Tail(queue)
  /\ results' = Append(results, RowsAnswer(Head(queue), model # NoParams))
  /\ UNCHANGED <<rowVars, queueUp, model, pc, params, storerVars, service,
                 calls, failures, unmonitored, history>>

\* The queue goes with the model, and everything in it.
RunDelete ==
  /\ queue # <<>> /\ Head(queue).kind = "delete"
  /\ queue' = <<>> /\ queueUp' = FALSE
  /\ model' = NoParams
  /\ results' = Append(results, Answer("delete", TRUE))
  /\ fed' = {}
  /\ UNCHANGED <<rowVars, pc, params, storerVars, service,
                 calls, failures, unmonitored, lost, overwritten>>

-----------------------------------------------------------------------------
\* The AnomalyService.  A result stays the first until it is acknowledged.

Pending(kind) == service = Idle /\ results # <<>> /\ Head(results).kind = kind

Acknowledge == results' = Tail(results) /\ service' = Idle

SetNext(s) ==
  /\ service' = [step |-> "set", read |-> status, next |-> s, parameters |-> parameters]
  /\ UNCHANGED results

\* The result of deleteModel is passed on and no more.
DeleteResult ==
  /\ Pending("delete")
  /\ Acknowledge
  /\ UNCHANGED <<rowVars, modelVars, pc, params, storerVars,
                 calls, failures, unmonitored, history>>

\* Mutant: ... without a lock.
ReadForCommandUnlocked == TRUE

\* The status is read with a shared lock, which ends with the statement.
ReadForCommand == ~Locked

DefineResult ==
  /\ Pending("define")
  /\ ReadForCommand
  /\ IF Head(results).ok
     THEN IF status = "CREATE_PENDING" THEN SetNext("ACTIVE") ELSE Acknowledge
     ELSE IF status # "ERROR" THEN SetNext("ERROR") ELSE Acknowledge
  /\ UNCHANGED <<rowVars, modelVars, pc, params, storerVars,
                 calls, failures, unmonitored, history>>

\* setMetricStatus, whatever the status is now.
SetStatus ==
  /\ service.step = "set" /\ ~Locked
  /\ status' = service.next
  /\ overwritten' = (overwritten \/ status # service.read)
  /\ Acknowledge
  /\ UNCHANGED <<parameters, modelParams, rows, scored, modelVars, pc, params,
                 storerVars, calls, failures, unmonitored, fed, lost>>

\* The metric is read without a lock.  Without the parameters of a model the
\* service dies at it, and takes no step until they are there.
RowsResult ==
  /\ Pending("rows")
  /\ status = "ACTIVE" /\ Head(results).ok => modelParams
  /\ IF status # "ACTIVE" THEN Acknowledge
     ELSE IF ~Head(results).ok THEN SetNext("ERROR")
     ELSE /\ service' = [Idle EXCEPT !.step = "write", !.parameters = parameters]
          /\ UNCHANGED results
  /\ UNCHANGED <<rowVars, modelVars, pc, params, storerVars,
                 calls, failures, unmonitored, history>>

\* Mutant: the status is not checked again.
StillActiveAsRead == TRUE

\* The transaction that writes the scores checks the status again, under the
\* lock.  Without parameters the message for the subscribers cannot be made:
\* the service dies, and is started again with the same result.
StillActive == status = "ACTIVE"

WriteScores ==
  /\ service.step = "write" /\ ~Locked
  /\ scored' = IF StillActive
               THEN scored \cup Head(results).lo .. Head(results).hi ELSE scored
  /\ IF StillActive /\ ~service.parameters
     THEN service' = Idle /\ UNCHANGED results
     ELSE Acknowledge
  /\ UNCHANGED <<status, parameters, modelParams, rows, modelVars, pc, params,
                 storerVars, calls, failures, unmonitored, history>>

ServiceCrashes ==
  /\ service # Idle
  /\ Fail
  /\ service' = Idle
  /\ UNCHANGED <<rowVars, modelVars, results, pc, params, storerVars,
                 calls, unmonitored, history>>

-----------------------------------------------------------------------------
StorerStep ==
  \/ StoreSamples \/ RejectSamples \/ SendRows \/ ActivateModel \/ ClaimMetric

StartStep(p) == DefineModel(p) \/ SendBacklog(p) \/ CommitStart(p)

ClientStep(c) == StartMonitoring(c) \/ PurgeQueue(c) \/ SubmitDelete(c)

RunnerStep == RunDefine \/ RunRows \/ RunDelete

ServiceStep ==
  \/ DeleteResult \/ DefineResult \/ SetStatus \/ RowsResult \/ WriteScores

Failure ==
  \/ StoreFails \/ SendFails \/ StorerCrashes \/ ServiceCrashes
  \/ \E p \in Procs : DefineFails(p) \/ BacklogFails(p) \/ CommitFails(p)
  \/ \E c \in Clients : DeleteFails(c)

Next ==
  \/ TakeMessages \/ StorerStep \/ RunnerStep \/ ServiceStep \/ Failure
  \/ \E p \in Procs : StartStep(p)
  \/ \E c \in Clients : MonitorMetric(c) \/ UnmonitorMetric(c) \/ ClientStep(c)

Spec == Init /\ [][Next]_vars

\* Processes that have begun something go on, and the Model Scheduler runs
\* models with input.  Samples and calls need not come.
Fairness ==
  /\ WF_vars(StorerStep) /\ WF_vars(RunnerStep) /\ WF_vars(ServiceStep)
  /\ \A p \in Procs : WF_vars(StartStep(p))
  /\ \A c \in Clients : WF_vars(ClientStep(c))

FairSpec == Spec /\ Fairness

-----------------------------------------------------------------------------
Message == [kind : {"define"}, params : Int] \cup [kind : {"delete"}]
           \cup [kind : {"rows"}, lo : Nat \ {0}, hi : DOMAIN rows]
Result  == [kind : {"define", "delete"}, ok : BOOLEAN]
           \cup [kind : {"rows"}, ok : BOOLEAN, lo : Nat \ {0}, hi : DOMAIN rows]

TypeOK ==
  /\ status \in Status /\ parameters \in BOOLEAN /\ modelParams \in BOOLEAN
  /\ rows \in Seq(Times) /\ scored \subseteq DOMAIN rows
  /\ queueUp \in BOOLEAN /\ queue \in Seq(Message) /\ results \in Seq(Result)
  /\ model \in Int /\ params \in [Procs -> Int]
  /\ pc \in [Procs -> {"idle", "store", "send", "start", "claim", "define",
                       "backlog", "commit", "lock", "purge", "delete"}]
  /\ batch \in Batches \cup {<<>>} /\ lo \in Nat /\ ref \in Status
  /\ tail \in Times \cup {0}
  /\ service \in [step : {"idle", "set", "write"}, read : Status,
                  next : {"ACTIVE", "ERROR"}, parameters : BOOLEAN]
  /\ {batches, calls, failures} \subseteq Nat
  /\ unmonitored \in BOOLEAN /\ overwritten \in BOOLEAN
  /\ fed \cup lost \subseteq DOMAIN rows

\* Only a metric whose model was created has scores: results that come late
\* write nothing after unmonitorMetric has cleared them, though the status
\* was read before.
ScoresNeedModel == scored # {} => status \in {"ACTIVE", "ERROR"}

RowsInOrder == \A i, j \in DOMAIN rows : i < j => rows[i] < rows[j]

\* The model of a metric that a client monitors is not sent a row without
\* those before it, however monitorMetric, activateModel and the storer meet.
Monitored ==
  status \in {"CREATE_PENDING", "ACTIVE"} /\ parameters /\ ~overwritten

NoRowSkipped == Monitored => \A r \in fed : 1 .. r \subseteq fed \cup lost

\* A metric that nobody unmonitors gets a score for each row.
InProgress ==
  \/ status \in {"CREATE_PENDING", "ACTIVE"}
  \/ status = "PENDING_DATA" /\ pc[Storer] = "start"

RowsAreScored ==
  \A r \in 1 .. MaxRows :
    (r \in DOMAIN rows /\ InProgress)
      ~> (r \in scored \cup lost \/ unmonitored \/ status = "ERROR")
=============================================================================
