----------------------- MODULE MetricLifecycleProofs -----------------------
(***************************************************************************)
(* The safety properties of a metric's life, for any number of clients,     *)
(* samples, calls and failures.                                             *)
(***************************************************************************)
EXTENDS MetricLifecycle, SequenceTheorems, TLAPS

\* The cached time stamp is never older than a row of the database.
TailCovers == tail # 0 => \A i \in DOMAIN rows : rows[i] <= tail

\* The lock of the metric's row excludes.
OneTransaction ==
  \A p, q \in Procs : InTransaction(p) /\ InTransaction(q) => p = q

\* A transaction starts a model for a metric without one, and so does the
\* storer when its claim succeeds.
StartsFresh ==
  /\ Locked => status \in {"UNMONITORED", "PENDING_DATA"}
  /\ pc[Storer] = "claim" => ref \in {"UNMONITORED", "PENDING_DATA"}

NothingFed == ~queueUp => fed = {}

\* The rows the storer is about to send were all sent with the backlog, or
\* none of them was.
SendingWhole ==
  pc[Storer] = "send" =>
    /\ lo \in 1 .. Len(rows)
    /\ RowIds(lo) \subseteq fed \/ RowIds(lo) \cap fed = {}

\* Every row of a monitored metric, or one about to be, was published, was
\* lost on the way, or is in the hands of the storer.
OnTheWay == IF pc[Storer] = "send" THEN RowIds(lo) ELSE {}

Covered ==
  (Monitored \/ \E p \in Procs : pc[p] = "commit") /\ queueUp =>
    1 .. Len(rows) \subseteq fed \cup lost \cup OnTheWay

SetsActive ==
  service.step = "set" /\ service.next = "ACTIVE" => service.read = "CREATE_PENDING"

\* The result that the service handles is the first of the queue.
ServiceHolds ==
  /\ service.step # "idle" => results # <<>>
  /\ service.step = "write" => Head(results).kind = "rows"

LifeInv ==
  /\ TypeOK /\ RowsInOrder /\ TailCovers /\ ScoresNeedModel /\ OneTransaction
  /\ StartsFresh /\ NothingFed /\ SendingWhole /\ Covered /\ SetsActive
  /\ ServiceHolds

USE MetricAssumption

-----------------------------------------------------------------------------
\* What is in a queue stays typed when rows are added.
LEMMA SeqGrows ==
  ASSUME NEW S, NEW T, S \subseteq T, NEW s \in Seq(S)
  PROVE  s \in Seq(T)
OBVIOUS

\* A time stamp of a sequence is a positive number.
LEMMA StampIsNat ==
  ASSUME NEW s \in Seq(Times), NEW i \in DOMAIN s
  PROVE  i \in 1 .. Len(s) /\ s[i] \in Times /\ s[i] \in Nat
<1>1. i \in 1 .. Len(s) /\ s[i] \in Times
  OBVIOUS
<1> QED
  BY <1>1

\* The samples of a call are a sequence.
LEMMA BatchIsSeq ==
  ASSUME NEW b \in Batches \cup {<<>>}
  PROVE  b \in Seq(Times)
<1>1. CASE b = <<>>
  BY <1>1
<1>2. CASE b \in Batches
  <2>1. PICK n \in 1 .. MaxBatch : b \in [1 .. n -> Times]
    BY <1>2 DEF Batches
  <2> QED
    BY <2>1, SeqDef
<1> QED
  BY <1>1, <1>2

\* What is scrubbed is ordered and newer than the last row.
LEMMA ScrubbedIsNewer ==
  ASSUME NEW last \in Nat, NEW new \in Scrubbed(last),
         batch \in Batches \cup {<<>>}
  PROVE  /\ new \in Seq(Times)
         /\ \A i \in DOMAIN new : new[i] > last
         /\ \A i, j \in DOMAIN new : i < j => new[i] < new[j]
<1>1. new \in Seq(Times) /\ batch \in Seq(Times)
  BY BatchIsSeq DEF Scrubbed
<1>2. ASSUME NEW i \in DOMAIN new PROVE new[i] > last
  <2>1. new[i] \in Range(new)
    BY DEF Range
  <2> QED
    BY <2>1 DEF Scrubbed
<1> QED
  BY <1>1, <1>2 DEF Scrubbed

\* Every row is at most as new as the time stamp the streamer compares with.
LEMMA TailIsNewest ==
  ASSUME TypeOK, RowsInOrder, TailCovers, NEW last \in Tails
  PROVE  /\ last \in Times \cup {0}
         /\ \A i \in DOMAIN rows : rows[i] <= last
<1>1. rows \in Seq(Times) /\ tail \in Times \cup {0} /\ Times \subseteq Nat
  BY DEF TypeOK
<1>2. CASE rows = <<>>
  BY <1>1, <1>2 DEF Tails, TailCovers
<1>3. CASE rows # <<>>
  <2>1. Last(rows) = rows[Len(rows)] /\ Len(rows) \in DOMAIN rows
    BY <1>1, <1>3 DEF Last
  <2>2. \A i \in DOMAIN rows : rows[i] <= Last(rows)
    <3> SUFFICES ASSUME NEW i \in DOMAIN rows PROVE rows[i] <= rows[Len(rows)]
      BY <2>1
    <3>1. rows[i] \in Nat /\ rows[Len(rows)] \in Nat /\ i \in 1 .. Len(rows)
      BY <1>1, <2>1, StampIsNat
    <3>2. i < Len(rows) => rows[i] < rows[Len(rows)]
      BY <2>1 DEF RowsInOrder
    <3> QED
      BY <1>1, <3>1, <3>2
  <2> QED
    BY <1>1, <1>3, <2>1, <2>2 DEF Tails, TailCovers
<1> QED
  BY <1>2, <1>3

\* The rows after new ones were stored.
LEMMA StoredRows ==
  ASSUME TypeOK, RowsInOrder, TailCovers,
         NEW last \in Tails, NEW new \in Scrubbed(last), rows' = rows \o new
  PROVE  /\ rows' \in Seq(Times) /\ Len(rows') = Len(rows) + Len(new)
         /\ DOMAIN rows \subseteq DOMAIN rows'
         /\ RowsInOrder'
         /\ new # <<>> => /\ Last(new) \in Times /\ Len(new) > 0
                          /\ \A i \in DOMAIN rows' : rows'[i] <= Last(new)
         /\ new = <<>> => rows' = rows
<1>1. rows \in Seq(Times) /\ batch \in Batches \cup {<<>>} /\ Times \subseteq Nat \ {0}
  BY DEF TypeOK
<1>2. last \in Nat /\ \A i \in DOMAIN rows : rows[i] <= last
  <2>1. last \in Times \cup {0} /\ \A i \in DOMAIN rows : rows[i] <= last
    BY TailIsNewest
  <2> QED
    BY <1>1, <2>1
<1>3. /\ new \in Seq(Times)
      /\ \A i \in DOMAIN new : new[i] > last
      /\ \A i, j \in DOMAIN new : i < j => new[i] < new[j]
  BY <1>1, <1>2, ScrubbedIsNewer
<1>4. /\ rows' \in Seq(Times) /\ Len(rows') = Len(rows) + Len(new)
      /\ DOMAIN rows \subseteq DOMAIN rows'
  BY <1>1, <1>3
<1>5. /\ \A i \in 1 .. Len(rows) : rows'[i] = rows[i]
      /\ \A i \in Len(rows) + 1 .. Len(rows') :
           i - Len(rows) \in DOMAIN new /\ rows'[i] = new[i - Len(rows)]
  BY <1>1, <1>3, <1>4
<1>6. RowsInOrder'
  <2> SUFFICES ASSUME NEW i \in DOMAIN rows', NEW j \in DOMAIN rows', i < j
               PROVE  rows'[i] < rows'[j]
    BY DEF RowsInOrder
  <2>1. i \in 1 .. Len(rows') /\ j \in 1 .. Len(rows')
    BY <1>4
  <2>2. CASE j <= Len(rows)
    BY <1>1, <1>5, <2>1, <2>2 DEF RowsInOrder
  <2>3. CASE i <= Len(rows) /\ j > Len(rows)
    <3>1. i \in 1 .. Len(rows) /\ i \in DOMAIN rows /\ rows[i] \in Times
      BY <1>1, <2>1, <2>3
    <3>2. rows'[i] = rows[i] /\ rows[i] <= last /\ rows[i] \in Nat
      BY <1>1, <1>2, <1>5, <3>1
    <3>3. j \in Len(rows) + 1 .. Len(rows') /\ j - Len(rows) \in DOMAIN new
      BY <1>1, <1>4, <1>5, <2>1, <2>3
    <3>4. new[j - Len(rows)] > last /\ new[j - Len(rows)] \in Times
      BY <1>3, <3>3
    <3>5. rows'[j] > last /\ rows'[j] \in Nat
      BY <1>1, <1>5, <3>3, <3>4
    <3> QED
      BY <1>2, <3>2, <3>5
  <2>4. CASE i > Len(rows)
    BY <1>1, <1>3, <1>5, <2>1, <2>4
  <2> QED
    BY <1>1, <1>4, <2>1, <2>2, <2>3, <2>4
<1>7. ASSUME new # <<>>
      PROVE  /\ Last(new) \in Times /\ Len(new) > 0
             /\ \A i \in DOMAIN rows' : rows'[i] <= Last(new)
  <2>1. Last(new) = new[Len(new)] /\ Len(new) \in DOMAIN new /\ Len(new) > 0
    BY <1>3, <1>7 DEF Last
  <2>2. Last(new) = rows'[Len(rows')] /\ Len(rows') \in DOMAIN rows'
    BY <1>1, <1>3, <1>4, <1>5, <2>1
  <2>3. ASSUME NEW i \in DOMAIN rows' PROVE rows'[i] <= Last(new)
    <3>1. rows'[i] \in Nat /\ rows'[Len(rows')] \in Nat /\ i \in 1 .. Len(rows')
      BY <1>1, <1>4, <2>2, StampIsNat
    <3>2. i < Len(rows') => rows'[i] < rows'[Len(rows')]
      BY <1>6, <2>2 DEF RowsInOrder
    <3>3. CASE i = Len(rows')
      BY <2>2, <3>1, <3>3
    <3>4. CASE i # Len(rows')
      <4>1. i < Len(rows')
        BY <1>4, <3>1, <3>4
      <4>2. rows'[i] < rows'[Len(rows')]
        BY <3>2, <4>1
      <4>3. rows'[i] <= rows'[Len(rows')]
        BY <3>1, <4>2
      <4> QED
        BY <2>2, <4>3
    <3> QED
      BY <3>3, <3>4
  <2> QED
    BY <1>3, <2>1, <2>3
<1> QED
  BY <1>1, <1>3, <1>4, <1>6, <1>7

-----------------------------------------------------------------------------
\* The initial state.
LEMMA InitLife == Init => LifeInv
<1> SUFFICES ASSUME Init PROVE LifeInv
  OBVIOUS
<1>1. TypeOK
  <2>1. pc \in [Procs -> {"idle"}] /\ params \in [Procs -> Int]
    BY DEF Init, NoParams
  <2>2. service \in [step : {"idle", "set", "write"}, read : Status,
                     next : {"ACTIVE", "ERROR"}, parameters : BOOLEAN]
    BY DEF Init, Idle, Status
  <2>3. queue \in Seq(Message) /\ results \in Seq(Result) /\ rows \in Seq(Times)
    BY DEF Init
  <2>4. /\ scored \subseteq DOMAIN rows /\ fed \cup lost \subseteq DOMAIN rows
        /\ batch \in Batches \cup {<<>>} /\ {batches, calls, failures} \subseteq Nat
    BY DEF Init
  <2>5. pc \in [Procs -> {"idle", "store", "send", "start", "claim", "define",
                          "backlog", "commit", "lock", "purge", "delete"}]
    BY <2>1
  <2>6. status \in Status /\ ref \in Status /\ model \in Int
    BY DEF Init, Status, NoParams
  <2> QED
    BY <2>1, <2>2, <2>3, <2>4, <2>5, <2>6 DEF Init, TypeOK
<1>2. /\ RowsInOrder /\ TailCovers /\ ScoresNeedModel /\ OneTransaction
      /\ StartsFresh /\ NothingFed /\ SendingWhole /\ Covered /\ SetsActive
      /\ ServiceHolds
  BY DEF Init, RowsInOrder, TailCovers, ScoresNeedModel, OneTransaction, StartsFresh,
         NothingFed, SendingWhole, Covered, SetsActive, Monitored, Locked,
         InTransaction, Idle, Procs, ServiceHolds
<1> QED
  BY <1>1, <1>2 DEF LifeInv

-----------------------------------------------------------------------------
\* The types are kept: a step of the storer or of a client.
LEMMA StorerTypes ==
  ASSUME LifeInv,
         \/ TakeMessages \/ StoreSamples \/ RejectSamples \/ StoreFails \/ SendRows
         \/ SendFails \/ ActivateModel \/ ClaimMetric \/ StorerCrashes
  PROVE  TypeOK'
<1> USE DEF rowVars, modelVars, storerVars, history, Goto, Fail, Procs
<1>1. TypeOK /\ RowsInOrder /\ TailCovers /\ SendingWhole
  BY DEF LifeInv
<1>2. rows' = rows => Message' = Message /\ Result' = Result
  BY DEF Message, Result
<1>3. CASE TakeMessages
  BY <1>1, <1>2, <1>3 DEF TakeMessages, TypeOK
<1>4. CASE StoreSamples
  <2>0. PICK last \in Tails : \E new \in Scrubbed(last) :
          /\ rows' = rows \o new
          /\ tail' = IF new = <<>> THEN last ELSE Last(new)
          /\ lo' = Len(rows) + 1
          /\ Goto(Storer, IF new = <<>> THEN "idle" ELSE AfterStore)
    BY <1>4 DEF StoreSamples
  <2>1. PICK new \in Scrubbed(last) :
          /\ rows' = rows \o new
          /\ tail' = IF new = <<>> THEN last ELSE Last(new)
          /\ lo' = Len(rows) + 1
          /\ Goto(Storer, IF new = <<>> THEN "idle" ELSE AfterStore)
    BY <2>0
  <2>2. /\ rows' \in Seq(Times) /\ DOMAIN rows \subseteq DOMAIN rows'
        /\ tail' \in Times \cup {0}
    BY <1>1, <2>1, StoredRows, TailIsNewest
  <2>3. Message \subseteq Message' /\ Result \subseteq Result'
    BY <2>2 DEF Message, Result
  <2>4. queue \in Seq(Message') /\ results \in Seq(Result')
    BY <1>1, <2>3, SeqGrows DEF TypeOK
  <2>5. AfterStore \in {"send", "start", "idle"}
    BY DEF AfterStore
  <2>6. lo' \in Nat
    BY <1>1, <2>1 DEF TypeOK
  <2>7. pc' = [pc EXCEPT ![Storer] = "send"] \/ pc' = [pc EXCEPT ![Storer] = "start"]
        \/ pc' = [pc EXCEPT ![Storer] = "idle"]
    BY <2>1, <2>5
  <2>8. /\ pc' \in [Procs -> {"idle", "store", "send", "start", "claim", "define",
                            "backlog", "commit", "lock", "purge", "delete"}]
        /\ params' \in [Procs -> Int]
    BY <1>1, <1>4, <2>7 DEF StoreSamples, TypeOK
  <2>9. scored' \subseteq DOMAIN rows' /\ fed' \cup lost' \subseteq DOMAIN rows'
    BY <1>1, <1>4, <2>2 DEF StoreSamples, TypeOK
  <2>10. queue' \in Seq(Message') /\ results' \in Seq(Result')
    BY <1>4, <2>4 DEF StoreSamples
  <2> QED
    BY <1>1, <1>4, <2>2, <2>6, <2>8, <2>9, <2>10 DEF StoreSamples, TypeOK
<1>5. CASE RejectSamples
  BY <1>1, <1>2, <1>5 DEF RejectSamples, TypeOK
<1>6. CASE StoreFails
  <2>0. PICK last \in Tails : \E new \in Scrubbed(last) \ {<<>>} : tail' = Last(new)
    BY <1>6 DEF StoreFails
  <2>1. PICK new \in Scrubbed(last) \ {<<>>} : tail' = Last(new)
    BY <2>0
  <2>2. batch \in Batches \cup {<<>>} /\ last \in Nat
    <3>1. last \in Times \cup {0}
      BY <1>1, TailIsNewest
    <3> QED
      BY <1>1, <3>1 DEF TypeOK
  <2>3. new \in Seq(Times) /\ new # <<>>
    BY <2>1, <2>2, ScrubbedIsNewer
  <2>4. tail' \in Times
    BY <2>1, <2>3 DEF Last
  <2> QED
    BY <1>1, <1>2, <1>6, <2>4 DEF StoreFails, TypeOK
<1>7. CASE SendRows
  <2>1. lo \in 1 .. Len(rows) /\ rows \in Seq(Times) /\ queue \in Seq(Message)
    BY <1>1, <1>7 DEF SendRows, SendingWhole, TypeOK
  <2>2. RowsMessage(lo) \in Message
    BY <2>1 DEF RowsMessage, Message
  <2>3. queue' \in Seq(Message) /\ fed' \subseteq DOMAIN rows
    <3>1. RowIds(lo) \subseteq DOMAIN rows /\ fed \subseteq DOMAIN rows
      BY <1>1, <2>1 DEF RowIds, TypeOK
    <3>2. \/ queue' = Append(queue, RowsMessage(lo)) /\ fed' = fed \cup RowIds(lo)
          \/ queue' = queue /\ fed' = fed
      BY <1>7 DEF SendRows, PublishRows
    <3>3. Append(queue, RowsMessage(lo)) \in Seq(Message)
      BY <2>1, <2>2
    <3>4. queue' \in Seq(Message)
      BY <2>1, <3>2, <3>3, Zenon
    <3>5. fed' \subseteq DOMAIN rows
      BY <3>1, <3>2, Zenon
    <3> QED
      BY <3>4, <3>5
  <2> QED
    BY <1>1, <1>2, <1>7, <2>3 DEF SendRows, TypeOK
<1>8. CASE SendFails
  BY <1>1, <1>2, <1>8 DEF SendFails, TypeOK, RowIds, SendingWhole
<1>9. CASE ActivateModel
  BY <1>1, <1>2, <1>9 DEF ActivateModel, TypeOK
<1>10. CASE ClaimMetric
  BY <1>1, <1>2, <1>10 DEF ClaimMetric, TypeOK
<1>11. CASE StorerCrashes
  <2>1. lost' \subseteq DOMAIN rows
    BY <1>1, <1>11 DEF StorerCrashes, TypeOK, RowIds, SendingWhole
  <2> QED
    BY <1>1, <1>2, <1>11, <2>1 DEF StorerCrashes, TypeOK
<1> QED
  BY <1>3, <1>4, <1>5, <1>6, <1>7, <1>8, <1>9, <1>10, <1>11

\* ... a step of the transaction that starts a model.
LEMMA StartTypes ==
  ASSUME LifeInv, NEW p \in Procs,
         StartStep(p) \/ DefineFails(p) \/ BacklogFails(p) \/ CommitFails(p)
  PROVE  TypeOK'
<1> USE DEF rowVars, modelVars, storerVars, history, Goto, Fail
<1>1. TypeOK
  BY DEF LifeInv
<1>2. rows' = rows => Message' = Message /\ Result' = Result
  BY DEF Message, Result
<1>3. CASE DefineModel(p)
  <2>1. queue' \in Seq(Message)
    BY <1>1, <1>3 DEF DefineModel, DefineMessage, TypeOK, Message
  <2> QED
    BY <1>1, <1>2, <1>3, <2>1 DEF DefineModel, TypeOK
<1>4. CASE SendBacklog(p)
  <2>1. rows \in Seq(Times) /\ queue \in Seq(Message)
    BY <1>1 DEF TypeOK
  <2>2. 1 <= Len(rows) => RowsMessage(1) \in Message
    BY <2>1 DEF RowsMessage, Message
  <2>3. queue' \in Seq(Message) /\ fed' \subseteq DOMAIN rows
    <3>1. RowIds(1) \subseteq DOMAIN rows /\ fed \subseteq DOMAIN rows
      BY <1>1, <2>1 DEF RowIds, TypeOK
    <3>2. \/ 1 <= Len(rows) /\ queue' = Append(queue, RowsMessage(1))
             /\ fed' = fed \cup RowIds(1)
          \/ queue' = queue /\ fed' = fed
      BY <1>4 DEF SendBacklog, PublishRows
    <3>3. 1 <= Len(rows) => Append(queue, RowsMessage(1)) \in Seq(Message)
      BY <2>1, <2>2
    <3>4. queue' \in Seq(Message)
      BY <2>1, <3>2, <3>3, Zenon
    <3>5. fed' \subseteq DOMAIN rows
      BY <3>1, <3>2, Zenon
    <3> QED
      BY <3>4, <3>5
  <2> QED
    BY <1>1, <1>2, <1>4, <2>3 DEF SendBacklog, TypeOK
<1>5. CASE CommitStart(p)
  <2>1. parameters' \in BOOLEAN /\ modelParams' \in BOOLEAN /\ status' \in Status
    BY <1>5 DEF CommitStart, Status
  <2> QED
    BY <1>1, <1>2, <1>5, <2>1 DEF CommitStart, TypeOK
<1>6. CASE DefineFails(p)
  <2>1. queueUp \in BOOLEAN /\ queueUp' \in {queueUp, TRUE}
    BY <1>1, <1>6 DEF DefineFails, TypeOK
  <2>2. queueUp' \in BOOLEAN
    BY <2>1, Zenon
  <2>3. RowIds(1) \subseteq DOMAIN rows
    BY <1>1 DEF RowIds, TypeOK
  <2>4. fed' \cup lost' \subseteq DOMAIN rows
    BY <1>1, <1>6, <2>3 DEF DefineFails, TypeOK
  <2> QED
    BY <1>1, <1>2, <1>6, <2>2, <2>4 DEF DefineFails, TypeOK
<1>7. CASE BacklogFails(p)
  BY <1>1, <1>2, <1>7 DEF BacklogFails, TypeOK, RowIds
<1>8. CASE CommitFails(p)
  BY <1>1, <1>2, <1>8 DEF CommitFails, TypeOK
<1> QED
  BY <1>3, <1>4, <1>5, <1>6, <1>7, <1>8 DEF StartStep

\* ... a step of a client.
LEMMA ClientTypes ==
  ASSUME LifeInv, NEW c \in Clients,
         MonitorMetric(c) \/ UnmonitorMetric(c) \/ ClientStep(c) \/ DeleteFails(c)
  PROVE  TypeOK'
<1> USE DEF rowVars, modelVars, storerVars, history, Goto, Fail, Call, Procs
<1>1. TypeOK
  BY DEF LifeInv
<1>2. rows' = rows => Message' = Message /\ Result' = Result
  BY DEF Message, Result
<1>3. CASE MonitorMetric(c)
  <2>1. PICK q \in {Given, IF Len(rows) >= Threshold THEN Len(rows) ELSE NoParams} :
          params' = [params EXCEPT ![c] = q]
    BY <1>3 DEF MonitorMetric
  <2>2. q \in Int
    BY <1>1 DEF TypeOK, Given, NoParams
  <2>3. /\ params' \in [Procs -> Int]
        /\ pc' \in [Procs -> {"idle", "store", "send", "start", "claim", "define",
                            "backlog", "commit", "lock", "purge", "delete"}]
    BY <1>1, <1>3, <2>1, <2>2 DEF MonitorMetric, TypeOK
  <2> QED
    BY <1>1, <1>2, <1>3, <2>3 DEF MonitorMetric, TypeOK
<1>4. CASE UnmonitorMetric(c)
  <2>1. /\ parameters' \in BOOLEAN /\ modelParams' \in BOOLEAN /\ status' \in Status
        /\ unmonitored' \in BOOLEAN /\ overwritten' \in BOOLEAN
    BY <1>4 DEF UnmonitorMetric, Status
  <2> QED
    BY <1>1, <1>2, <1>4, <2>1 DEF UnmonitorMetric, TypeOK
<1>5. CASE StartMonitoring(c)
  <2>1. parameters' \in BOOLEAN /\ status' \in Status
    BY <1>1, <1>5 DEF StartMonitoring, Status, TypeOK
  <2>2. pc' = [pc EXCEPT ![c] = "define"] \/ pc' = [pc EXCEPT ![c] = "idle"]
    BY <1>5 DEF StartMonitoring
  <2> QED
    BY <1>1, <1>2, <1>5, <2>1, <2>2 DEF StartMonitoring, TypeOK
<1>6. CASE PurgeQueue(c)
  BY <1>1, <1>2, <1>6 DEF PurgeQueue, TypeOK
<1>7. CASE SubmitDelete(c)
  <2>1. queue' \in Seq(Message)
    BY <1>1, <1>7 DEF SubmitDelete, DeleteMessage, TypeOK, Message
  <2> QED
    BY <1>1, <1>2, <1>7, <2>1 DEF SubmitDelete, TypeOK
<1>8. CASE DeleteFails(c)
  BY <1>1, <1>2, <1>8 DEF DeleteFails, TypeOK
<1> QED
  BY <1>3, <1>4, <1>5, <1>6, <1>7, <1>8 DEF ClientStep

\* ... a step of the runner or of the AnomalyService.
LEMMA EngineTypes ==
  ASSUME LifeInv, RunnerStep \/ ServiceStep \/ ServiceCrashes
  PROVE  TypeOK'
<1> USE DEF rowVars, modelVars, storerVars, history, Fail
<1>1. TypeOK
  BY DEF LifeInv
<1>2. rows' = rows => Message' = Message /\ Result' = Result
  BY DEF Message, Result
<1>3. queue # <<>> => Head(queue) \in Message /\ Tail(queue) \in Seq(Message)
  BY <1>1 DEF TypeOK
<1>4. results # <<>> => Head(results) \in Result /\ Tail(results) \in Seq(Result)
  BY <1>1 DEF TypeOK
<1>5. CASE RunDefine
  <2>1. PICK same \in BOOLEAN : results' = Append(results, Answer("define", same))
    BY <1>5 DEF RunDefine
  <2>2. results' \in Seq(Result)
    BY <1>1, <2>1 DEF Answer, Result, TypeOK
  <2>3. Head(queue).params \in Int
    BY <1>3, <1>5 DEF RunDefine, Message
  <2>4. queue' \in Seq(Message') /\ results' \in Seq(Result')
    BY <1>2, <1>3, <1>5, <2>2 DEF RunDefine
  <2>5. model' \in Int
    BY <1>1, <1>5, <2>3 DEF RunDefine, TypeOK
  <2> QED
    BY <1>1, <1>5, <2>4, <2>5 DEF RunDefine, TypeOK
<1>6. CASE RunRows
  <2>1. Head(queue) \in Message /\ Head(queue).kind = "rows"
    BY <1>3, <1>6 DEF RunRows
  <2>2. Head(queue).lo \in Nat \ {0} /\ Head(queue).hi \in DOMAIN rows
    BY <2>1 DEF Message
  <2>3. RowsAnswer(Head(queue), model # NoParams) \in Result
    BY <2>2 DEF RowsAnswer, Result
  <2>4. results' \in Seq(Result)
    BY <1>1, <1>6, <2>3 DEF RunRows, TypeOK
  <2>5. queue' \in Seq(Message') /\ results' \in Seq(Result')
    BY <1>2, <1>3, <1>6, <2>4 DEF RunRows
  <2> QED
    BY <1>1, <1>6, <2>5 DEF RunRows, TypeOK
<1>7. CASE RunDelete
  <2>1. results' \in Seq(Result)
    BY <1>1, <1>7 DEF RunDelete, Answer, Result, TypeOK
  <2>2. queueUp' = FALSE /\ model' \in Int
    BY <1>7 DEF RunDelete, NoParams
  <2>3. queue' = <<>>
    BY <1>7 DEF RunDelete
  <2>4. fed' \cup lost' \subseteq DOMAIN rows
    BY <1>1, <1>7 DEF RunDelete, TypeOK
  <2>5. /\ queue' \in Seq(Message')
        /\ results' \in Seq(Result')
    <3>1. rows' = rows
      BY <1>7 DEF RunDelete
    <3> QED
      BY <1>2, <2>1, <2>3, <3>1
  <2>6. queueUp' \in BOOLEAN
    BY <2>2, Zenon
  <2> QED
    BY <1>1, <1>7, <2>2, <2>4, <2>5, <2>6 DEF RunDelete, TypeOK
<1> DEFINE Services == [step : {"idle", "set", "write"}, read : Status,
                        next : {"ACTIVE", "ERROR"}, parameters : BOOLEAN]
<1>8. /\ service.step \in {"set", "write"} => results # <<>>
      /\ service.step = "write" => Head(results).kind = "rows"
  BY DEF LifeInv, ServiceHolds
<1>9. Idle \in Services
  BY DEF Idle, Status
<1>10. ASSUME Acknowledge, results # <<>>
       PROVE  service' \in Services /\ results' \in Seq(Result)
  BY <1>4, <1>9, <1>10 DEF Acknowledge
<1>11. ASSUME NEW s \in {"ACTIVE", "ERROR"}, SetNext(s)
       PROVE  service' \in Services /\ results' = results
  BY <1>1, <1>11 DEF SetNext, TypeOK
<1>12. CASE DeleteResult
  BY <1>1, <1>2, <1>10, <1>12 DEF DeleteResult, Pending, TypeOK
<1>13. CASE DefineResult
  <2>1. (Acknowledge /\ results # <<>>) \/ SetNext("ACTIVE") \/ SetNext("ERROR")
    BY <1>13 DEF DefineResult, Pending
  <2>2. service' \in Services /\ results' \in Seq(Result)
    BY <1>1, <1>10, <1>11, <2>1 DEF TypeOK
  <2> QED
    BY <1>1, <1>2, <1>13, <2>2 DEF DefineResult, TypeOK
<1>14. CASE SetStatus
  <2>1. service' \in Services /\ results' \in Seq(Result)
    <3>1. Acknowledge /\ service.step = "set"
      BY <1>14, Zenon DEF SetStatus
    <3>2. results # <<>>
      BY <1>8, <3>1
    <3> QED
      BY <1>10, <3>1, <3>2
  <2>2. status' \in Status /\ overwritten' \in BOOLEAN
    BY <1>1, <1>14 DEF SetStatus, TypeOK, Status
  <2> QED
    BY <1>1, <1>2, <1>14, <2>1, <2>2 DEF SetStatus, TypeOK
<1>15. CASE RowsResult
  <2>1. CASE Acknowledge
    BY <1>1, <1>2, <1>10, <1>15, <2>1 DEF RowsResult, Pending, TypeOK
  <2>2. CASE SetNext("ERROR")
    BY <1>1, <1>2, <1>11, <1>15, <2>2 DEF RowsResult, TypeOK
  <2>3. CASE service' = [Idle EXCEPT !.step = "write", !.parameters = parameters]
             /\ UNCHANGED results
    <3>1. service' \in Services
      BY <1>1, <2>3 DEF Idle, Status, TypeOK
    <3> QED
      BY <1>1, <1>2, <1>15, <2>3, <3>1 DEF RowsResult, TypeOK
  <2> QED
    BY <1>15, <2>1, <2>2, <2>3 DEF RowsResult
<1>16. CASE WriteScores
  <2>1. service' \in Services /\ results' \in Seq(Result)
    <3>1. CASE service' = Idle /\ UNCHANGED results
      BY <1>1, <1>9, <3>1 DEF TypeOK
    <3>2. CASE Acknowledge
      <4>1. service.step = "write"
        BY <1>16, Zenon DEF WriteScores
      <4>2. results # <<>>
        BY <1>8, <4>1
      <4> QED
        BY <1>10, <3>2, <4>2
    <3> QED
      BY <1>16, <3>1, <3>2 DEF WriteScores
  <2>2. Head(results).lo \in Nat \ {0} /\ Head(results).hi \in DOMAIN rows
    <3>0. service.step = "write"
      BY <1>16, Zenon DEF WriteScores
    <3>1. Head(results) \in Result /\ Head(results).kind = "rows"
      BY <1>4, <1>8, <3>0
    <3> QED
      BY <3>1 DEF Result
  <2>3. Head(results).lo .. Head(results).hi \subseteq DOMAIN rows
    <3>1. DOMAIN rows = 1 .. Len(rows) /\ Len(rows) \in Nat
      BY <1>1 DEF TypeOK
    <3> QED
      BY <2>2, <3>1
  <2>4. scored' \subseteq DOMAIN rows
    BY <1>1, <1>16, <2>3 DEF WriteScores, TypeOK
  <2> QED
    BY <1>1, <1>2, <1>16, <2>1, <2>4 DEF WriteScores, TypeOK
<1>17. CASE ServiceCrashes
  BY <1>1, <1>2, <1>9, <1>17 DEF ServiceCrashes, TypeOK
<1> QED
  BY <1>5, <1>6, <1>7, <1>12, <1>13, <1>17, <1>14, <1>15, <1>16 DEF RunnerStep, ServiceStep

-----------------------------------------------------------------------------
\* The rows stay in order, and the cache newer than them: also when a commit
\* failed after the cache was updated.
LEMMA OrderKept ==
  ASSUME LifeInv, [Next]_vars
  PROVE  RowsInOrder' /\ TailCovers'
<1> USE DEF Fail
<1>1. TypeOK /\ RowsInOrder /\ TailCovers /\ rows \in Seq(Times)
  BY DEF LifeInv, TypeOK
<1>2. CASE UNCHANGED <<rows, tail>>
  BY <1>1, <1>2 DEF RowsInOrder, TailCovers
<1>3. CASE StoreSamples
  <2>1. PICK last \in Tails : \E new \in Scrubbed(last) :
          rows' = rows \o new /\ tail' = IF new = <<>> THEN last ELSE Last(new)
    BY <1>3 DEF StoreSamples
  <2>2. PICK new \in Scrubbed(last) :
          rows' = rows \o new /\ tail' = IF new = <<>> THEN last ELSE Last(new)
    BY <2>1
  <2>3. RowsInOrder' /\ \A i \in DOMAIN rows' : rows'[i] <= tail'
    BY <1>1, <2>2, StoredRows, TailIsNewest
  <2> QED
    BY <2>3 DEF TailCovers
<1>4. CASE StoreFails
  <2>1. PICK last \in Tails : \E new \in Scrubbed(last) \ {<<>>} : tail' = Last(new)
    BY <1>4 DEF StoreFails
  <2>2. PICK new \in Scrubbed(last) \ {<<>>} : tail' = Last(new)
    BY <2>1
  <2>3. batch \in Batches \cup {<<>>} /\ last \in Nat /\ \A i \in DOMAIN rows : rows[i] <= last
    <3>1. last \in Times \cup {0} /\ \A i \in DOMAIN rows : rows[i] <= last
      BY <1>1, TailIsNewest
    <3> QED
      BY <1>1, <3>1 DEF TypeOK
  <2>4. new \in Seq(Times) /\ \A i \in DOMAIN new : new[i] > last
    BY <2>2, <2>3, ScrubbedIsNewer
  <2>5. tail' \in Nat /\ tail' > last
    <3>1. Len(new) \in DOMAIN new /\ tail' = new[Len(new)]
      BY <2>2, <2>4 DEF Last
    <3> QED
      BY <2>4, <3>1, StampIsNat
  <2>6. ASSUME NEW i \in DOMAIN rows PROVE rows[i] <= tail'
    <3>1. rows[i] <= last /\ rows[i] \in Nat
      BY <1>1, <2>3, StampIsNat
    <3> QED
      BY <2>3, <2>5, <3>1
  <2> QED
    BY <1>1, <1>4, <2>6 DEF StoreFails, rowVars, RowsInOrder, TailCovers
<1>5. CASE StorerCrashes
  BY <1>1, <1>5 DEF StorerCrashes, rowVars, RowsInOrder, TailCovers
<1>6. StoreSamples \/ StoreFails \/ StorerCrashes \/ UNCHANGED <<rows, tail>>
  BY DEF Next, vars, rowVars, modelVars, storerVars, history, TakeMessages,
         StorerStep, RejectSamples, SendRows, SendFails, ActivateModel, ClaimMetric,
         StartStep, DefineModel, DefineFails, SendBacklog, BacklogFails, CommitStart,
         CommitFails, MonitorMetric, ClientStep, StartMonitoring, UnmonitorMetric,
         PurgeQueue, SubmitDelete, DeleteFails, RunnerStep, RunDefine, RunRows,
         RunDelete, ServiceStep, DeleteResult, DefineResult, SetStatus, RowsResult,
         WriteScores, ServiceCrashes, Failure
<1> QED
  BY <1>2, <1>3, <1>4, <1>5, <1>6

\* The result that the service handles stays the first of the queue, and the
\* service makes a metric active only when it was waiting for its model.
LEMMA ServiceKept ==
  ASSUME LifeInv, [Next]_vars
  PROVE  SetsActive' /\ ServiceHolds'
<1>1. SetsActive /\ ServiceHolds /\ results \in Seq(Result)
  BY DEF LifeInv, TypeOK
<1>2. CASE UNCHANGED <<service, results>>
  BY <1>1, <1>2 DEF SetsActive, ServiceHolds
<1>3. ASSUME NEW e, results' = Append(results, e), UNCHANGED service
      PROVE  SetsActive' /\ ServiceHolds'
  <2>1. results # <<>> => results' # <<>> /\ Head(results') = Head(results)
    BY <1>1, <1>3
  <2>2. results' # <<>>
    BY <1>1, <1>3
  <2> QED
    BY <1>1, <1>3, <2>1, <2>2 DEF SetsActive, ServiceHolds
<1>4. CASE service' = Idle
  BY <1>4 DEF Idle, SetsActive, ServiceHolds
<1>5. ASSUME NEW s, SetNext(s), s = "ACTIVE" => status = "CREATE_PENDING", results # <<>>
      PROVE  SetsActive' /\ ServiceHolds'
  BY <1>5 DEF SetNext, SetsActive, ServiceHolds
<1>6. CASE RunDefine
  BY <1>3, <1>6 DEF RunDefine
<1>7. CASE RunRows
  BY <1>3, <1>7 DEF RunRows
<1>8. CASE RunDelete
  BY <1>3, <1>8 DEF RunDelete
<1>9. CASE DefineResult
  BY <1>4, <1>5, <1>9 DEF DefineResult, Pending, Acknowledge
<1>10. CASE RowsResult
  <2>1. CASE service' = [Idle EXCEPT !.step = "write", !.parameters = parameters]
             /\ UNCHANGED results
    BY <1>10, <2>1 DEF RowsResult, Pending, Idle, SetsActive, ServiceHolds
  <2>2. CASE Acknowledge
    BY <1>4, <2>2 DEF Acknowledge
  <2>3. CASE SetNext("ERROR")
    BY <1>5, <1>10, <2>3 DEF RowsResult, Pending
  <2> QED
    BY <1>10, <2>1, <2>2, <2>3 DEF RowsResult
<1>11. CASE DeleteResult \/ SetStatus \/ WriteScores \/ ServiceCrashes
  BY <1>4, <1>11 DEF DeleteResult, SetStatus, WriteScores, ServiceCrashes, Acknowledge
<1>12. \/ RunDefine \/ RunRows \/ RunDelete \/ DefineResult \/ RowsResult
       \/ DeleteResult \/ SetStatus \/ WriteScores \/ ServiceCrashes
       \/ UNCHANGED <<service, results>>
  BY DEF Next, vars, TakeMessages, StorerStep, StoreSamples, StoreFails, RejectSamples,
         SendRows, SendFails, ActivateModel, ClaimMetric, StorerCrashes, StartStep,
         DefineModel, DefineFails, SendBacklog, BacklogFails, CommitStart, CommitFails,
         MonitorMetric, ClientStep, StartMonitoring, UnmonitorMetric, PurgeQueue,
         SubmitDelete, DeleteFails, RunnerStep, ServiceStep, Failure
<1> QED
  BY <1>2, <1>6, <1>7, <1>8, <1>9, <1>10, <1>11, <1>12

-----------------------------------------------------------------------------
\* One transaction at a time starts a model, and nobody changes the status
\* under it.
LEMMA TransactionKept ==
  ASSUME LifeInv, [Next]_vars
  PROVE  OneTransaction' /\ StartsFresh'
<1> USE DEF Goto, InTransaction
<1>1. OneTransaction /\ StartsFresh /\ Storer \in Procs /\ Clients \subseteq Procs
      /\ \E S : pc \in [Procs -> S]
  BY DEF LifeInv, TypeOK, Procs
<1>2. CASE UNCHANGED <<pc, status, ref>>
  BY <1>1, <1>2 DEF OneTransaction, StartsFresh, Locked
<1>3. ASSUME NEW p \in Procs, NEW step, Goto(p, step), UNCHANGED <<status, ref>>,
             step \notin {"define", "backlog", "commit", "claim"}
      PROVE  OneTransaction' /\ StartsFresh'
  <2>1. \A q \in Procs : q # p => pc'[q] = pc[q]
    BY <1>1, <1>3
  <2>2. pc'[p] = step
    BY <1>1, <1>3
  <2> QED
    BY <1>1, <1>3, <2>1, <2>2 DEF OneTransaction, StartsFresh, Locked
<1>4. ASSUME NEW p \in Procs, NEW step, Goto(p, step), UNCHANGED ref,
             ~Locked \/ InTransaction(p), step # "claim",
             InTransaction(p)' => status' \in {"UNMONITORED", "PENDING_DATA"}
      PROVE  OneTransaction' /\ StartsFresh'
  <2>1. \A q \in Procs : q # p => pc'[q] = pc[q]
    BY <1>1, <1>4
  <2>2. \A q \in Procs : InTransaction(q)' => q = p
    BY <1>1, <1>4, <2>1 DEF OneTransaction, Locked
  <2>3. pc'[p] = step
    BY <1>1, <1>4
  <2>4. pc'[Storer] = "claim" => pc[Storer] = "claim"
    BY <1>1, <1>4, <2>1, <2>3
  <2> QED
    BY <1>1, <1>4, <2>2, <2>4 DEF OneTransaction, StartsFresh, Locked
<1>5. CASE StoreSamples
  <2>1. /\ UNCHANGED <<status, ref>>
        /\ \E new : Goto(Storer, IF new = <<>> THEN "idle" ELSE AfterStore)
    BY <1>5 DEF StoreSamples
  <2> QED
    BY <1>1, <1>3, <2>1 DEF AfterStore
<1>6. \/ TakeMessages \/ RejectSamples \/ SendRows \/ SendFails \/ StorerCrashes
      => OneTransaction' /\ StartsFresh'
  BY <1>1, <1>3 DEF TakeMessages, RejectSamples, SendRows, SendFails, StorerCrashes,
                    rowVars, storerVars
<1>7. CASE ActivateModel
  <2>1. UNCHANGED status /\ ref' = status
        /\ Goto(Storer, IF status \in {"UNMONITORED", "PENDING_DATA"} THEN "claim" ELSE "idle")
    BY <1>7 DEF ActivateModel, rowVars
  <2>2. /\ \A q \in Procs : q # Storer => pc'[q] = pc[q]
        /\ pc'[Storer] \in {"claim", "idle"}
        /\ pc'[Storer] = "claim" => status \in {"UNMONITORED", "PENDING_DATA"}
    BY <1>1, <2>1
  <2> QED
    BY <1>1, <2>1, <2>2 DEF OneTransaction, StartsFresh, Locked
<1>8. CASE ClaimMetric
  BY <1>1, <1>4, <1>8 DEF ClaimMetric, rowVars, storerVars, StartsFresh
<1>9. ASSUME NEW p \in Procs, DefineModel(p) \/ SendBacklog(p)
      PROVE  OneTransaction' /\ StartsFresh'
  BY <1>1, <1>4, <1>9 DEF DefineModel, SendBacklog, rowVars, storerVars, StartsFresh, Locked
<1>10. ASSUME NEW p \in Procs, CommitStart(p)
       PROVE  OneTransaction' /\ StartsFresh'
  <2>1. pc[p] = "commit" /\ Goto(p, "idle") /\ UNCHANGED ref
    BY <1>10 DEF CommitStart, storerVars
  <2>2. pc'[p] = "idle"
    BY <1>1, <2>1
  <2> QED
    BY <1>4, <2>1, <2>2
<1>11. ASSUME NEW p \in Procs, DefineFails(p) \/ BacklogFails(p) \/ CommitFails(p)
       PROVE  OneTransaction' /\ StartsFresh'
  BY <1>3, <1>11 DEF DefineFails, BacklogFails, CommitFails, rowVars, storerVars
<1>12. ASSUME NEW c \in Clients,
              MonitorMetric(c) \/ PurgeQueue(c) \/ SubmitDelete(c) \/ DeleteFails(c)
       PROVE  OneTransaction' /\ StartsFresh'
  BY <1>1, <1>3, <1>12
     DEF MonitorMetric, PurgeQueue, SubmitDelete, DeleteFails, rowVars, storerVars
<1>13. ASSUME NEW c \in Clients, StartMonitoring(c)
       PROVE  OneTransaction' /\ StartsFresh'
  <2>1. /\ ~Locked /\ UNCHANGED ref
        /\ \/ Goto(c, "define") /\ status = "UNMONITORED" /\ status' = status
           \/ Goto(c, "idle")
    BY <1>13 DEF StartMonitoring, storerVars
  <2>2. CASE Goto(c, "define") /\ status = "UNMONITORED" /\ status' = status
    BY <1>1, <1>4, <2>1, <2>2
  <2>3. CASE Goto(c, "idle")
    <3>1. pc'[c] = "idle"
      BY <1>1, <2>3
    <3> QED
      BY <1>1, <1>4, <2>1, <2>3, <3>1
  <2> QED
    BY <2>1, <2>2, <2>3
<1>14. ASSUME NEW c \in Clients, UnmonitorMetric(c)
       PROVE  OneTransaction' /\ StartsFresh'
  BY <1>1, <1>4, <1>14 DEF UnmonitorMetric, storerVars
<1>15. CASE SetStatus
  <2>1. ~Locked /\ UNCHANGED <<pc, ref>>
    BY <1>15 DEF SetStatus, storerVars
  <2> QED
    BY <1>1, <2>1 DEF OneTransaction, StartsFresh, Locked
<1>16. RunnerStep \/ DeleteResult \/ DefineResult \/ RowsResult \/ WriteScores
       \/ ServiceCrashes \/ StoreFails \/ UNCHANGED vars
       => UNCHANGED <<pc, status, ref>>
  BY DEF RunnerStep, RunDefine, RunRows, RunDelete, DeleteResult, DefineResult,
         RowsResult, WriteScores, ServiceCrashes, StoreFails, vars, rowVars, storerVars
<1> QED
  BY <1>2, <1>5, <1>6, <1>7, <1>8, <1>9, <1>10, <1>11, <1>12, <1>13, <1>14, <1>15, <1>16
     DEF Next, StorerStep, StartStep, ClientStep, ServiceStep, Failure

\* A metric without a model has no scores.
LEMMA ScoresKept ==
  ASSUME LifeInv, [Next]_vars
  PROVE  ScoresNeedModel'
<1>1. ScoresNeedModel /\ StartsFresh /\ service.next \in {"ACTIVE", "ERROR"}
  BY DEF LifeInv, TypeOK
<1>2. CASE UNCHANGED <<scored, status>>
  BY <1>1, <1>2 DEF ScoresNeedModel
<1>3. ASSUME NEW p \in Procs, CommitStart(p) PROVE ScoresNeedModel'
  <2>1. status \in {"UNMONITORED", "PENDING_DATA"}
    BY <1>1, <1>3 DEF CommitStart, StartsFresh, Locked, InTransaction
  <2> QED
    BY <1>1, <1>3, <2>1 DEF CommitStart, ScoresNeedModel
<1>4. ASSUME NEW c \in Clients, StartMonitoring(c) PROVE ScoresNeedModel'
  BY <1>1, <1>4 DEF StartMonitoring, ScoresNeedModel
<1>5. ASSUME NEW c \in Clients, UnmonitorMetric(c) PROVE ScoresNeedModel'
  BY <1>5 DEF UnmonitorMetric, ScoresNeedModel
<1>6. CASE SetStatus
  BY <1>1, <1>6 DEF SetStatus, ScoresNeedModel
<1>7. CASE WriteScores
  BY <1>1, <1>7 DEF WriteScores, StillActive, ScoresNeedModel
<1>8. \/ \E p \in Procs : CommitStart(p)
      \/ \E c \in Clients : StartMonitoring(c) \/ UnmonitorMetric(c)
      \/ SetStatus \/ WriteScores \/ UNCHANGED <<scored, status>>
  BY DEF Next, vars, rowVars, TakeMessages, StorerStep, StoreSamples, StoreFails,
         RejectSamples, SendRows, SendFails, ActivateModel, ClaimMetric, StorerCrashes,
         StartStep, DefineModel, DefineFails, SendBacklog, BacklogFails, CommitFails,
         MonitorMetric, ClientStep, PurgeQueue, SubmitDelete, DeleteFails, RunnerStep,
         RunDefine, RunRows, RunDelete, ServiceStep, DeleteResult, DefineResult,
         RowsResult, ServiceCrashes, Failure
<1> QED
  BY <1>2, <1>3, <1>4, <1>5, <1>6, <1>7, <1>8

-----------------------------------------------------------------------------
\* What brings the storer to sending, and a transaction to its commit.
LEMMA WhoSends ==
  ASSUME LifeInv, [Next]_vars
  PROVE  /\ pc'[Storer] = "send" => pc[Storer] = "send" \/ StoreSamples
         /\ \A p \in Procs : pc'[p] = "commit" => pc[p] = "commit" \/ SendBacklog(p)
<1> USE DEF Goto
<1>1. Storer \in Procs /\ Clients \subseteq Procs /\ \E S : pc \in [Procs -> S]
  BY DEF LifeInv, TypeOK, Procs
<1> DEFINE Claim == /\ pc'[Storer] = "send" => pc[Storer] = "send" \/ StoreSamples
                    /\ \A p \in Procs : pc'[p] = "commit"
                                          => pc[p] = "commit" \/ SendBacklog(p)
<1>2. CASE UNCHANGED pc
  BY <1>2
<1>3. ASSUME NEW p \in Procs, NEW step, Goto(p, step), step \notin {"send", "commit"}
      PROVE  Claim
  <2>1. \A q \in Procs : pc'[q] = IF q = p THEN step ELSE pc[q]
    BY <1>1, <1>3
  <2> QED
    BY <1>1, <1>3, <2>1
<1>4. CASE StoreSamples
  <2>1. \E new : Goto(Storer, IF new = <<>> THEN "idle" ELSE AfterStore)
    BY <1>4 DEF StoreSamples
  <2>2. pc'[Storer] # "commit" /\ \A q \in Procs : q # Storer => pc'[q] = pc[q]
    BY <1>1, <2>1 DEF AfterStore
  <2> QED
    BY <1>1, <1>4, <2>2
<1>5. ASSUME NEW p \in Procs, SendBacklog(p) PROVE Claim
  <2>1. \A q \in Procs : pc'[q] = IF q = p THEN "commit" ELSE pc[q]
    BY <1>1, <1>5 DEF SendBacklog
  <2> QED
    BY <1>1, <1>5, <2>1
<1>6. TakeMessages \/ RejectSamples \/ SendRows \/ SendFails \/ StorerCrashes
      \/ ActivateModel \/ ClaimMetric
      => Claim
  BY <1>1, <1>3 DEF TakeMessages, RejectSamples, SendRows, SendFails, StorerCrashes,
                    ActivateModel, ClaimMetric
<1>7. ASSUME NEW p \in Procs,
             DefineModel(p) \/ CommitStart(p) \/ DefineFails(p) \/ BacklogFails(p)
             \/ CommitFails(p)
      PROVE  Claim
  <2>1. \/ Goto(p, "backlog") \/ Goto(p, "idle") \/ Goto(p, "start") \/ Goto(p, "lock")
    BY <1>7, Zenon
       DEF DefineModel, CommitStart, DefineFails, BacklogFails, CommitFails
  <2> QED
    BY <1>3, <2>1
<1>8. ASSUME NEW c \in Clients,
             MonitorMetric(c) \/ UnmonitorMetric(c) \/ ClientStep(c) \/ DeleteFails(c)
      PROVE  Claim
  BY <1>1, <1>3, <1>8 DEF MonitorMetric, UnmonitorMetric, ClientStep, StartMonitoring,
                          PurgeQueue, SubmitDelete, DeleteFails
<1>9. RunnerStep \/ ServiceStep \/ ServiceCrashes \/ StoreFails \/ UNCHANGED vars
      => UNCHANGED pc
  BY DEF RunnerStep, RunDefine, RunRows, RunDelete, ServiceStep, DeleteResult,
         DefineResult, SetStatus, RowsResult, WriteScores, ServiceCrashes, StoreFails, vars
<1> QED
  BY <1>2, <1>4, <1>5, <1>6, <1>7, <1>8, <1>9 DEF Next, StorerStep, StartStep, Failure

\* Rows are published to a queue that exists, and those the storer has in
\* hand are published together.
LEMMA SendingKept ==
  ASSUME LifeInv, [Next]_vars
  PROVE  NothingFed' /\ SendingWhole'
<1>1. /\ NothingFed /\ SendingWhole /\ rows \in Seq(Times) /\ fed \subseteq DOMAIN rows
      /\ Storer \in Procs /\ \E S : pc \in [Procs -> S]
      /\ TypeOK /\ RowsInOrder /\ TailCovers
  BY DEF LifeInv, TypeOK, Procs
<1>2. pc'[Storer] = "send" => pc[Storer] = "send" \/ StoreSamples
  BY WhoSends
<1>3. CASE UNCHANGED <<queueUp, rows, lo, fed>> /\ ~StoreSamples
  BY <1>1, <1>2, <1>3 DEF NothingFed, SendingWhole, RowIds
<1>4. CASE StoreSamples
  <2>1. PICK last \in Tails : \E new \in Scrubbed(last) :
          /\ rows' = rows \o new /\ lo' = Len(rows) + 1
          /\ Goto(Storer, IF new = <<>> THEN "idle" ELSE AfterStore)
    BY <1>4 DEF StoreSamples
  <2>2. PICK new \in Scrubbed(last) :
          /\ rows' = rows \o new /\ lo' = Len(rows) + 1
          /\ Goto(Storer, IF new = <<>> THEN "idle" ELSE AfterStore)
    BY <2>1
  <2>3. Len(rows') = Len(rows) + Len(new) /\ (new # <<>> => Len(new) > 0)
    BY <1>1, <2>2, StoredRows
  <2>4. new \in Seq(Times)
    BY BatchIsSeq DEF Scrubbed
  <2>5. UNCHANGED <<fed, queueUp>>
    BY <1>4 DEF StoreSamples, modelVars, history
  <2>6. pc'[Storer] = "send" => lo' \in 1 .. Len(rows')
    BY <1>1, <2>2, <2>3, <2>4 DEF Goto
  <2>7. (RowIds(lo) \cap fed = {})'
    BY <1>1, <2>2, <2>5 DEF RowIds
  <2> QED
    BY <1>1, <2>5, <2>6, <2>7 DEF NothingFed, SendingWhole
<1>5. CASE SendRows
  <2>1. pc'[Storer] = "idle" /\ UNCHANGED queueUp /\ (queueUp \/ UNCHANGED fed)
    BY <1>1, <1>5 DEF SendRows, Goto, PublishRows
  <2> QED
    BY <1>1, <2>1 DEF NothingFed, SendingWhole
<1>6. ASSUME NEW p \in Procs, SendBacklog(p) PROVE NothingFed' /\ SendingWhole'
  <2>0. /\ queueUp /\ 1 <= Len(rows) => fed' = fed \cup RowIds(1)
        /\ ~(queueUp /\ 1 <= Len(rows)) => UNCHANGED fed
    BY <1>6 DEF SendBacklog, PublishRows
  <2>1. UNCHANGED <<queueUp, rows, lo>> /\ pc' = [pc EXCEPT ![p] = "commit"]
    BY <1>6 DEF SendBacklog, Goto, rowVars, storerVars
  <2>2. pc'[Storer] = "send" => pc[Storer] = "send"
    BY <1>1, <2>1
  <2>3. CASE ~(queueUp /\ 1 <= Len(rows))
    BY <1>1, <2>0, <2>1, <2>2, <2>3 DEF NothingFed, SendingWhole, RowIds
  <2>4. CASE queueUp /\ 1 <= Len(rows)
    <3>1. lo \in 1 .. Len(rows) => RowIds(lo) \subseteq RowIds(1)
      BY <1>1 DEF RowIds
    <3> QED
      BY <1>1, <2>0, <2>1, <2>2, <2>4, <3>1 DEF NothingFed, SendingWhole, RowIds
  <2> QED
    BY <2>3, <2>4
<1>7. ASSUME NEW p \in Procs, DefineModel(p) PROVE NothingFed' /\ SendingWhole'
  <2>1. fed' = {} /\ UNCHANGED <<rows, lo>> /\ pc' = [pc EXCEPT ![p] = "backlog"]
    BY <1>7 DEF DefineModel, Goto, rowVars, storerVars
  <2>2. pc'[Storer] = "send" => pc[Storer] = "send"
    BY <1>1, <2>1
  <2> QED
    BY <1>1, <2>1, <2>2 DEF NothingFed, SendingWhole, RowIds
<1>8. ASSUME NEW p \in Procs, DefineFails(p) PROVE NothingFed' /\ SendingWhole'
  <2>1. /\ queueUp' = queueUp \/ queueUp' = TRUE
        /\ UNCHANGED <<rows, lo, fed>> /\ pc' = [pc EXCEPT ![p] = "idle"]
    BY <1>8, Zenon DEF DefineFails, Goto, rowVars, storerVars
  <2>2. pc'[Storer] = "send" => pc[Storer] = "send"
    BY <1>1, <2>1
  <2> QED
    BY <1>1, <2>1, <2>2 DEF NothingFed, SendingWhole, RowIds
<1>9. CASE RunDelete
  <2>1. fed' = {} /\ UNCHANGED <<rows, lo, pc>>
    BY <1>9 DEF RunDelete, rowVars, storerVars
  <2> QED
    BY <1>1, <2>1 DEF NothingFed, SendingWhole, RowIds
<1>10. \/ StoreSamples \/ SendRows \/ RunDelete
       \/ \E p \in Procs : SendBacklog(p) \/ DefineModel(p) \/ DefineFails(p)
       \/ UNCHANGED <<queueUp, rows, lo, fed>>
  BY DEF Next, vars, rowVars, modelVars, storerVars, history, TakeMessages, StorerStep,
         StoreFails, RejectSamples, SendFails, ActivateModel, ClaimMetric, StorerCrashes,
         StartStep, BacklogFails, CommitStart, CommitFails, MonitorMetric, ClientStep,
         StartMonitoring, UnmonitorMetric, PurgeQueue, SubmitDelete, DeleteFails,
         RunnerStep, RunDefine, RunRows, ServiceStep, DeleteResult, DefineResult,
         SetStatus, RowsResult, WriteScores, ServiceCrashes, Failure
<1> QED
  BY <1>3, <1>4, <1>5, <1>6, <1>7, <1>8, <1>9, <1>10

\* Every row of a monitored metric was published, was lost, or is in the hands
\* of the storer, however a transaction and the storer meet.
LEMMA CoveredKept ==
  ASSUME LifeInv, [Next]_vars
  PROVE  Covered'
<1> DEFINE Commits == \E p \in Procs : pc[p] = "commit"
           All     == 1 .. Len(rows)
<1>1. /\ Covered /\ SendingWhole /\ OneTransaction /\ StartsFresh
      /\ TypeOK /\ RowsInOrder /\ TailCovers /\ rows \in Seq(Times)
      /\ SetsActive /\ fed \cup lost \subseteq DOMAIN rows
      /\ Storer \in Procs /\ Clients \subseteq Procs /\ \E S : pc \in [Procs -> S]
  BY DEF LifeInv, TypeOK, Procs
<1>2. /\ pc'[Storer] = "send" => pc[Storer] = "send" \/ StoreSamples
      /\ \A p \in Procs : pc'[p] = "commit" => pc[p] = "commit" \/ SendBacklog(p)
  BY WhoSends
<1>3. RowIds(1) = All /\ DOMAIN rows = All
  BY <1>1 DEF RowIds
<1>4. Locked => ~Monitored
  BY <1>1 DEF StartsFresh, Monitored
<1>5. Commits => Locked
  BY DEF Locked, InTransaction
  \* The four ways to keep it.
<1>6. ASSUME UNCHANGED <<rows, queueUp, fed, lost>>, OnTheWay' = OnTheWay,
             Monitored' => Monitored \/ Commits, Commits' => Commits
      PROVE  Covered'
  BY <1>1, <1>6 DEF Covered
<1>7. ASSUME UNCHANGED rows, All \subseteq fed' \cup lost' PROVE Covered'
  BY <1>1, <1>7 DEF Covered
<1>8. ASSUME ~queueUp' PROVE Covered'
  BY <1>8 DEF Covered
<1>9. ASSUME ~Monitored', ~Commits' PROVE Covered'
  BY <1>9 DEF Covered
  \* Steps of the storer.
<1>10. ASSUME UNCHANGED <<lo, rows>>, pc'[Storer] = "send" <=> pc[Storer] = "send"
       PROVE  OnTheWay' = OnTheWay
  BY <1>10 DEF OnTheWay, RowIds
<1>11. CASE StoreSamples
  <2>1. PICK last \in Tails : \E new \in Scrubbed(last) :
          /\ rows' = rows \o new /\ lo' = Len(rows) + 1
          /\ Goto(Storer, IF new = <<>> THEN "idle" ELSE AfterStore)
    BY <1>11 DEF StoreSamples
  <2>2. PICK new \in Scrubbed(last) :
          /\ rows' = rows \o new /\ lo' = Len(rows) + 1
          /\ Goto(Storer, IF new = <<>> THEN "idle" ELSE AfterStore)
    BY <2>1
  <2>3. /\ rows' \in Seq(Times) /\ Len(rows') = Len(rows) + Len(new)
        /\ new = <<>> => rows' = rows
    BY <1>1, <2>2, StoredRows
  <2>4. new \in Seq(Times)
    BY BatchIsSeq DEF Scrubbed
  <2>5. /\ UNCHANGED <<status, parameters, overwritten, queueUp, fed, lost>>
        /\ pc[Storer] = "store" /\ ~Locked
    BY <1>11 DEF StoreSamples, modelVars, history
  <2>6. ~Commits'
    <3>1. pc'[Storer] # "commit" /\ \A q \in Procs : q # Storer => pc'[q] = pc[q]
      BY <1>1, <2>2 DEF Goto, AfterStore
    <3> QED
      BY <1>5, <2>5, <3>1
  <2>7. SUFFICES ASSUME Monitored, queueUp
                 PROVE  1 .. Len(rows') \subseteq fed' \cup lost' \cup OnTheWay'
    BY <2>5, <2>6 DEF Covered, Monitored
  <2>8. All \subseteq fed \cup lost
    BY <1>1, <2>5, <2>7 DEF Covered, OnTheWay
  <2>9. CASE new = <<>>
    BY <2>3, <2>5, <2>8, <2>9
  <2>10. CASE new # <<>>
    <3>1. pc'[Storer] = "send"
      BY <1>1, <2>2, <2>7, <2>10 DEF Goto, AfterStore, Monitored
    <3>2. OnTheWay' = Len(rows) + 1 .. Len(rows')
      BY <2>2, <3>1 DEF OnTheWay, RowIds
    <3> QED
      BY <1>1, <2>3, <2>4, <2>5, <2>8, <3>2
  <2> QED
    BY <2>9, <2>10
<1>12. ASSUME pc[Storer] = "send", Goto(Storer, "idle") \/ Goto(Storer, "store"),
              UNCHANGED <<rows, queueUp, status, parameters, overwritten>>,
              queueUp => RowIds(lo) \cup fed \cup lost \subseteq fed' \cup lost'
       PROVE  Covered'
  <2>1. ~\E p \in Procs : SendBacklog(p) /\ pc'[p] = "commit" /\ pc[p] # "commit"
    BY <1>1, <1>12 DEF Goto, SendBacklog
  <2>2. Commits' => Commits
    BY <1>2, <2>1
  <2>3. Monitored' = Monitored
    BY <1>12 DEF Monitored
  <2> QED
    BY <1>1, <1>12, <2>2, <2>3 DEF Covered, OnTheWay
<1>13. CASE SendRows
  <2>1. queueUp => fed' = fed \cup RowIds(lo)
    BY <1>1, <1>13 DEF SendRows, PublishRows, SendingWhole
  <2> QED
    BY <1>12, <1>13, <2>1 DEF SendRows, rowVars
<1>14. CASE SendFails
  BY <1>12, <1>14 DEF SendFails, rowVars, modelVars
<1>15. CASE StorerCrashes
  <2>1. CASE pc[Storer] = "send"
    BY <1>12, <1>15, <2>1 DEF StorerCrashes, rowVars, modelVars
  <2>2. CASE pc[Storer] = "store"
    <3>1. UNCHANGED <<rows, lo, queueUp, fed, lost, status, parameters, overwritten>>
      BY <1>15, <2>2 DEF StorerCrashes, rowVars, modelVars
    <3>2. pc' = pc
      BY <1>1, <1>15, <2>2 DEF StorerCrashes, Goto
    <3> QED
      BY <1>6, <1>10, <3>1, <3>2 DEF Monitored
  <2>3. CASE pc[Storer] \notin {"send", "store"}
    BY <1>3, <1>7, <1>15, <2>3 DEF StorerCrashes, rowVars
  <2> QED
    BY <2>1, <2>2, <2>3
<1>16. CASE TakeMessages \/ RejectSamples \/ ActivateModel \/ ClaimMetric
  <2>1. /\ UNCHANGED <<rows, lo, queueUp, fed, lost, status, parameters, overwritten>>
        /\ pc[Storer] # "send" /\ \E step : Goto(Storer, step) /\ step # "send"
    BY <1>16 DEF TakeMessages, RejectSamples, ActivateModel, ClaimMetric, rowVars,
                 modelVars, storerVars, history
  <2>2. /\ pc'[Storer] # "send"
        /\ Commits' => Commits
    BY <1>1, <1>2, <1>16, <2>1
       DEF TakeMessages, RejectSamples, ActivateModel, ClaimMetric, Goto
  <2>3. Monitored' = Monitored
    BY <2>1 DEF Monitored
  <2>4. OnTheWay' = OnTheWay
    BY <2>1, <2>2 DEF OnTheWay
  <2> QED
    BY <1>6, <2>1, <2>2, <2>3, <2>4
  \* Steps of a transaction.
<1>17. ASSUME NEW p \in Procs, DefineModel(p) PROVE Covered'
  <2>1. /\ UNCHANGED <<status, parameters, overwritten>> /\ InTransaction(p)
        /\ Goto(p, "backlog")
    BY <1>17 DEF DefineModel, InTransaction, rowVars
  <2>2. ~Monitored'
    BY <1>4, <2>1 DEF Monitored, Locked
  <2>3. pc'[p] = "backlog" /\ \A q \in Procs : q # p => pc'[q] = pc[q] /\ pc[q] # "commit"
    BY <1>1, <2>1 DEF Goto, OneTransaction, InTransaction
  <2> QED
    BY <1>9, <2>2, <2>3
<1>18. ASSUME NEW p \in Procs, DefineFails(p) \/ BacklogFails(p) PROVE Covered'
  BY <1>3, <1>7, <1>18 DEF DefineFails, BacklogFails, rowVars
<1>19. ASSUME NEW p \in Procs, SendBacklog(p) PROVE Covered'
  <2>1. CASE queueUp
    <3>1. UNCHANGED <<rows, lost>> /\ (1 <= Len(rows) => fed' = fed \cup RowIds(1))
      BY <1>19, <2>1 DEF SendBacklog, PublishRows, rowVars
    <3>2. All \subseteq fed' \cup lost'
      BY <1>1, <1>3, <3>1
    <3> QED
      BY <1>7, <3>1, <3>2
  <2>2. CASE ~queueUp
    BY <1>8, <1>19, <2>2 DEF SendBacklog
  <2> QED
    BY <2>1, <2>2
<1>20. ASSUME NEW p \in Procs, CommitStart(p) \/ CommitFails(p) PROVE Covered'
  <2>1. /\ UNCHANGED <<rows, lo, queueUp, fed, lost>> /\ pc[p] = "commit"
        /\ Goto(p, "idle") \/ Goto(p, "start") \/ Goto(p, "lock")
    BY <1>20 DEF CommitStart, CommitFails, rowVars, modelVars, storerVars, history
  <2>2. pc'[Storer] = "send" <=> pc[Storer] = "send"
    BY <1>1, <2>1 DEF Goto
  <2> QED
    BY <1>6, <1>10, <2>1, <2>2
  \* Steps of the others.
<1>21. ASSUME NEW c \in Clients,
              MonitorMetric(c) \/ UnmonitorMetric(c) \/ ClientStep(c) \/ DeleteFails(c)
       PROVE  Covered'
  <2>1. /\ UNCHANGED <<rows, lo, queueUp, fed, lost>>
        /\ \E step : Goto(c, step) /\ step # "commit"
    BY <1>21 DEF MonitorMetric, UnmonitorMetric, ClientStep, StartMonitoring, PurgeQueue,
                 SubmitDelete, DeleteFails, rowVars, modelVars, storerVars, history
  <2>2. Monitored' => Monitored
    BY <1>21 DEF MonitorMetric, UnmonitorMetric, ClientStep, StartMonitoring, PurgeQueue,
                 SubmitDelete, DeleteFails, rowVars, history, Monitored
  <2>3. c # Storer
    BY DEF MetricAssumption
  <2>4. pc'[Storer] = pc[Storer] /\ (Commits' => Commits)
    BY <1>1, <2>1, <2>3 DEF Goto
  <2> QED
    BY <1>6, <1>10, <2>1, <2>2, <2>4
<1>22. CASE RunDelete
  BY <1>8, <1>22 DEF RunDelete
<1>23. CASE SetStatus
  <2>1. /\ UNCHANGED <<rows, lo, queueUp, fed, lost, pc, parameters>> /\ ~Locked
        /\ service.step = "set" /\ status' = service.next
        /\ overwritten' = (overwritten \/ status # service.read)
    BY <1>23 DEF SetStatus, modelVars, storerVars
  <2>2. ASSUME Monitored' PROVE Monitored
    <3>1. service.next = "ACTIVE"
      BY <1>1, <2>1, <2>2 DEF Monitored, TypeOK
    <3>2. service.read = "CREATE_PENDING"
      BY <1>1, <2>1, <3>1 DEF SetsActive
    <3>3. ~overwritten /\ status = service.read
      BY <2>1, <2>2, Zenon DEF Monitored
    <3> QED
      BY <2>1, <2>2, <3>2, <3>3 DEF Monitored
  <2> QED
    BY <1>6, <1>10, <2>1, <2>2
<1>24. CASE RunDefine \/ RunRows \/ DeleteResult \/ DefineResult \/ RowsResult
            \/ WriteScores \/ ServiceCrashes \/ StoreFails \/ UNCHANGED vars
  <2>1. UNCHANGED <<rows, lo, queueUp, fed, lost, pc, status, parameters, overwritten>>
    BY <1>24 DEF RunDefine, RunRows, DeleteResult, DefineResult, RowsResult, WriteScores,
                 ServiceCrashes, StoreFails, vars, rowVars, modelVars, storerVars, history
  <2> QED
    BY <1>6, <1>10, <2>1 DEF Monitored
<1> QED
  BY <1>11, <1>13, <1>14, <1>15, <1>16, <1>17, <1>18, <1>19, <1>20, <1>21, <1>22, <1>23,
     <1>24
     DEF Next, StorerStep, StartStep, RunnerStep, ServiceStep, Failure

-----------------------------------------------------------------------------
\* The invariant is inductive.
LEMMA LifeKept == LifeInv /\ [Next]_vars => LifeInv'
<1> SUFFICES ASSUME LifeInv, [Next]_vars PROVE LifeInv'
  OBVIOUS
<1>1. TypeOK'
  <2>1. CASE UNCHANGED vars
    <3>1. TypeOK
      BY DEF LifeInv
    <3> QED
      BY <2>1, <3>1 DEF TypeOK, Message, Result, vars, rowVars, modelVars, storerVars,
                        history
  <2>2. CASE Next
    BY <2>2, StorerTypes, StartTypes, ClientTypes, EngineTypes
       DEF Next, StorerStep, Failure
  <2> QED
    BY <2>1, <2>2
<1>2. /\ RowsInOrder' /\ TailCovers' /\ SetsActive' /\ ServiceHolds'
      /\ OneTransaction' /\ StartsFresh' /\ ScoresNeedModel'
      /\ NothingFed' /\ SendingWhole' /\ Covered'
  BY OrderKept, ServiceKept, TransactionKept, ScoresKept, SendingKept, CoveredKept
<1> QED
  BY <1>1, <1>2 DEF LifeInv

\* Every reachable state satisfies it.
THEOREM LifeInvariant == Spec => []LifeInv
BY InitLife, LifeKept, PTL DEF Spec

\* The types hold for any numbers of clients, samples, calls and failures.
THEOREM LifeKeepsTypes == Spec => []TypeOK
<1>1. LifeInv => TypeOK
  BY DEF LifeInv
<1> QED
  BY <1>1, LifeInvariant, PTL

\* Only a metric whose model was created has scores, however late the results
\* of a model that is gone arrive.
THEOREM ScoresFollowModel == Spec => []ScoresNeedModel
<1>1. LifeInv => ScoresNeedModel
  BY DEF LifeInv
<1> QED
  BY <1>1, LifeInvariant, PTL

\* The rows of a metric are stored in the order of their time stamps, with a
\* stale cache of the last one, failing commits and a crashing storer.
THEOREM RowsStayOrdered == Spec => []RowsInOrder
<1>1. LifeInv => RowsInOrder
  BY DEF LifeInv
<1> QED
  BY <1>1, LifeInvariant, PTL

\* No row of a monitored metric is published before those that precede it,
\* unless the publication of those was cut short.
THEOREM NoRowIsSkipped == Spec => []NoRowSkipped
<1>1. ASSUME LifeInv PROVE NoRowSkipped
  <2>1. SUFFICES ASSUME Monitored, NEW r \in fed, NEW i \in 1 .. r
                 PROVE  i \in fed \cup lost
    BY DEF NoRowSkipped
  <2>2. /\ NothingFed /\ SendingWhole /\ Covered /\ rows \in Seq(Times)
        /\ fed \subseteq DOMAIN rows
    BY <1>1 DEF LifeInv, TypeOK
  <2>3. r \in 1 .. Len(rows) /\ i \in 1 .. Len(rows) /\ i <= r
    BY <2>1, <2>2
  <2>4. i \in fed \cup lost \cup OnTheWay
    BY <2>1, <2>2, <2>3 DEF NothingFed, Covered
  <2>5. CASE OnTheWay \subseteq fed
    BY <2>4, <2>5
  <2>6. CASE OnTheWay \cap fed = {}
    <3>1. r \notin OnTheWay
      BY <2>1, <2>6
    <3>2. i \notin OnTheWay
      BY <2>2, <2>3, <3>1 DEF OnTheWay, RowIds, SendingWhole
    <3> QED
      BY <2>4, <3>2
  <2> QED
    BY <2>2, <2>5, <2>6 DEF SendingWhole, OnTheWay
<1> QED
  BY <1>1, LifeInvariant, PTL
=============================================================================
