---------------------------- MODULE ModelRunner ----------------------------
(***************************************************************************)
(* One model's ModelRunner processes, one after the other                  *)
(* (htmengine/model_swapper/model_runner.py), the model's input queue and  *)
(* its checkpoint on disk, under crashes of the process and losses of its  *)
(* connection to the message broker.                                       *)
(*                                                                         *)
(* A runner takes batches of requests off the queue without acknowledging  *)
(* them, submits the results of each, and after a run of batches saves a   *)
(* checkpoint and acknowledges the run.  The checkpoint carries the IDs of *)
(* the run's batches, by which a batch that is delivered again is known.   *)
(*                                                                         *)
(* A batch is one request here: the command that defines the model, an     *)
(* input row, or the command that deletes the model.  Rows are numbered in *)
(* the order of their submission, and a model is the sequence of the rows  *)
(* it has learnt from.                                                     *)
(***************************************************************************)
EXTENDS Integers, Sequences, FiniteSets

CONSTANTS Define, Delete,  (* the batches of the two commands              *)
          NoBatch,
          TargetRequests,  (* _targetMaxRequestsPerCheckpoint              *)
          MaxIncremental,  (* _MAX_INCREMENTAL_CHECKPOINT_DATA_ROWS        *)
          MaxRows,         (* bound: rows submitted                        *)
          MaxCopies,       (* bound: messages published twice              *)
          MaxCrashes,      (* bound: crashes of a runner                   *)
          MaxDrops         (* bound: losses of the broker connection       *)

ASSUME RunnerAssumption ==
  /\ Define \notin Nat /\ Delete \notin Nat /\ NoBatch \notin Nat
  /\ Define # Delete /\ NoBatch \notin {Define, Delete}
  /\ TargetRequests \in Nat \ {0} /\ MaxIncremental \in Nat
  /\ MaxRows \in Nat /\ MaxCopies \in Nat /\ MaxCrashes \in Nat /\ MaxDrops \in Nat

VARIABLES
  (* the application *)
  app,          (* what it has asked for                                   *)
  rows,         (* how many rows it has submitted                          *)
  (* the broker *)
  queueExists,  (* the model's input queue exists                          *)
  ready,        (* its messages ready for delivery                         *)
  unacked,      (* delivered on the runner's channel, not acknowledged     *)
  limbo,        (* delivered on a dead channel, not yet returned           *)
  (* the disk *)
  disk,         (* the model's entry in the checkpoint archive             *)
  (* the runner *)
  pc,           (* where its run() is                                      *)
  current,      (* the batch being processed                               *)
  loaded,       (* _model is not None                                      *)
  model,        (* the rows _model has learnt                              *)
  hasCheckpoint,  (* _hasCheckpoint                                        *)
  samples,      (* _inputSamplesSinceLastFullCheckpointCache               *)
  checkpointIDs,  (* modelCheckpointBatchIDSet                             *)
  runIDs,       (* currentRunBatchIDSet                                    *)
  runSamples,   (* currentRunInputSamples                                  *)
  lastBatch,    (* lastRequestBatch and its channel: none, live or dead    *)
  done,         (* _done                                                   *)
  (* what has happened *)
  answered,     (* batches whose result has been submitted                 *)
  failed,       (* rows ever answered with an error                        *)
  purged,       (* batches purged by deleteModel()                         *)
  overtaken,    (* a batch was delivered before an earlier one came back   *)
  copies, crashes, drops  (* counts, up to the bounds                      *)

appVars == <<app, rows, purged, copies>>
queueVars == <<queueExists, ready, unacked, limbo>>
memory == <<loaded, model, hasCheckpoint, samples>>
runVars == <<runIDs, runSamples, lastBatch, current>>
runnerVars == <<pc, memory, checkpointIDs, runVars, done>>
ghosts == <<answered, failed, overtaken>>
faultVars == <<crashes, drops>>
vars == <<appVars, queueVars, disk, runnerVars, ghosts, faultVars>>

Rows == 1 .. MaxRows
Batches == Rows \cup {Define, Delete}
RangeOf(q) == {q[i] : i \in DOMAIN q}

(* An entry of the archive: the definition, and the current checkpoint     *)
(* store with the saved model and the attributes beside it.                *)
NoEntry == [defined |-> FALSE, stored |-> FALSE, full |-> <<>>,
            ids |-> {}, samples |-> <<>>]
Entry == [defined : BOOLEAN, stored : BOOLEAN, full : Seq(Rows),
          ids : SUBSET Batches, samples : Seq(Rows)]

TypeOK ==
  /\ app \in {"new", "live", "purged", "deleted"}
  /\ rows \in 0 .. MaxRows
  /\ queueExists \in BOOLEAN
  /\ ready \in Seq(Batches) /\ unacked \in Seq(Batches) /\ limbo \in Seq(Batches)
  /\ disk \in Entry
  /\ pc \in {"off", "poll", "process", "cleanup", "answer", "save", "ack", "check"}
  /\ current \in Batches \cup {NoBatch}
  /\ loaded \in BOOLEAN /\ model \in Seq(Rows)
  /\ hasCheckpoint \in BOOLEAN /\ samples \in Seq(Rows)
  /\ checkpointIDs \in SUBSET Batches
  /\ runIDs \in SUBSET Batches /\ runSamples \in Seq(Rows)
  /\ lastBatch \in {"none", "live", "dead"}
  /\ done \in BOOLEAN
  /\ answered \in SUBSET Batches /\ failed \in SUBSET Rows
  /\ purged \in SUBSET Batches
  /\ overtaken \in BOOLEAN
  /\ copies \in 0 .. MaxCopies /\ crashes \in 0 .. MaxCrashes /\ drops \in 0 .. MaxDrops

NoRun == /\ runIDs' = {} /\ runSamples' = <<>>
         /\ lastBatch' = "none" /\ current' = NoBatch

(* The memory of a process that has ended.                                 *)
Gone ==
  /\ pc' = "off"
  /\ loaded' = FALSE /\ model' = <<>> /\ hasCheckpoint' = FALSE
  /\ samples' = <<>> /\ checkpointIDs' = {} /\ done' = FALSE
  /\ NoRun

Init ==
  /\ app = "new" /\ rows = 0 /\ purged = {} /\ copies = 0
  /\ queueExists = FALSE /\ ready = <<>> /\ unacked = <<>> /\ limbo = <<>>
  /\ disk = NoEntry
  /\ pc = "off" /\ current = NoBatch
  /\ loaded = FALSE /\ model = <<>> /\ hasCheckpoint = FALSE /\ samples = <<>>
  /\ checkpointIDs = {} /\ runIDs = {} /\ runSamples = <<>>
  /\ lastBatch = "none" /\ done = FALSE
  /\ answered = {} /\ failed = {} /\ overtaken = FALSE
  /\ crashes = 0 /\ drops = 0

-----------------------------------------------------------------------------
(* The application, through ModelSwapperInterface.                         *)

(* publish() delivers at least once: a retry may leave a second copy.      *)
Publish(q, b) ==
  \/ ready' = Append(q, b) /\ UNCHANGED copies
  \/ /\ copies < MaxCopies
     /\ ready' = q \o <<b, b>>
     /\ copies' = copies + 1

DefineModel ==
  /\ app = "new"
  /\ app' = "live"
  /\ queueExists' = TRUE
  /\ Publish(ready, Define)
  /\ UNCHANGED <<rows, purged, unacked, limbo, disk, runnerVars, ghosts, faultVars>>

SubmitRow ==
  /\ app = "live"
  /\ rows < MaxRows
  /\ rows' = rows + 1
  /\ Publish(ready, rows + 1)
  /\ UNCHANGED <<app, purged, queueExists, unacked, limbo, disk, runnerVars,
                 ghosts, faultVars>>

(* deleteModel() first purges the queue, then submits the command.         *)
PurgeQueue ==
  /\ app = "live"
  /\ app' = "purged"
  /\ purged' = purged \cup RangeOf(ready)
  /\ ready' = <<>>
  /\ UNCHANGED <<rows, copies, queueExists, unacked, limbo, disk, runnerVars,
                 ghosts, faultVars>>

DeleteModel ==
  /\ app = "purged"
  /\ app' = "deleted"
  /\ Publish(ready, Delete)
  /\ UNCHANGED <<rows, purged, queueExists, unacked, limbo, disk, runnerVars,
                 ghosts, faultVars>>

-----------------------------------------------------------------------------
(* A runner process.                                                       *)

(* The scheduler starts it; run() looks up the batch IDs and the input     *)
(* samples that the checkpoint's attributes carry.                         *)
RunnerStart ==
  /\ pc = "off"
  /\ queueExists
  /\ pc' = "poll"
  /\ checkpointIDs' = disk.ids
  /\ samples' = disk.samples
  /\ UNCHANGED <<appVars, queueVars, disk, loaded, model, hasCheckpoint, runVars,
                 done, ghosts, faultVars>>

(* Mutant: only the IDs of the present run are looked at.                  *)
KnownInRun(b) == b \in runIDs

Known(b) == b \in runIDs \cup checkpointIDs

(* A batch processed before is acknowledged at once and skipped.           *)
SkipBatch ==
  /\ pc = "poll"
  /\ ready # <<>>
  /\ Known(Head(ready))
  /\ ready' = Tail(ready)
  /\ overtaken' = (overtaken \/ limbo # <<>>)
  /\ UNCHANGED <<appVars, queueExists, unacked, limbo, disk, runnerVars, answered,
                 failed, faultVars>>

TakeBatch ==
  /\ pc = "poll"
  /\ ready # <<>>
  /\ ~Known(Head(ready))
  /\ ready' = Tail(ready)
  /\ unacked' = Append(unacked, Head(ready))
  /\ overtaken' = (overtaken \/ limbo # <<>>)
  /\ current' = Head(ready)
  /\ runIDs' = runIDs \cup {Head(ready)}
  /\ lastBatch' = "live"
  /\ pc' = "process"
  /\ UNCHANGED <<appVars, queueExists, limbo, disk, memory, checkpointIDs,
                 runSamples, done, answered, failed, faultVars>>

(* The consumer is exhausted: this run is the last.                        *)
NoMoreBatches ==
  /\ pc = "poll"
  /\ ready = <<>>
  /\ done' = TRUE
  /\ pc' = IF lastBatch = "none" THEN "check" ELSE "save"
  /\ UNCHANGED <<appVars, queueVars, disk, memory, checkpointIDs, runVars, ghosts,
                 faultVars>>

(* Mutant: a definition that arrives a second time counts as a failed row. *)
ProcessDefineOnce ==
  /\ pc = "process"
  /\ current = Define
  /\ disk' = [disk EXCEPT !.defined = TRUE]
  /\ failed' = IF disk.defined THEN failed \cup {current} ELSE failed
  /\ pc' = "answer"
  /\ UNCHANGED <<appVars, queueVars, memory, checkpointIDs, runVars, done, answered,
                 overtaken, faultVars>>

(* _defineModel: an entry with the same definition is as good.             *)
ProcessDefine ==
  /\ pc = "process"
  /\ current = Define
  /\ disk' = [disk EXCEPT !.defined = TRUE]
  /\ pc' = "answer"
  /\ UNCHANGED <<appVars, queueVars, memory, checkpointIDs, runVars, done, ghosts,
                 faultVars>>

(* _processInputRow: the model is loaded when it is needed first, from the *)
(* checkpoint and the samples since, or from the definition.  A row that   *)
(* fails is answered with an error and not learnt.                         *)
ProcessRow ==
  /\ pc = "process"
  /\ current \in Rows
  /\ IF disk.defined
     THEN /\ loaded' = TRUE
          /\ hasCheckpoint' = IF loaded THEN hasCheckpoint ELSE disk.stored
          /\ LET before == IF loaded THEN model ELSE disk.full \o samples IN
             \/ /\ model' = Append(before, current)
                /\ runSamples' = Append(runSamples, current)
                /\ UNCHANGED failed
             \/ /\ model' = before
                /\ failed' = failed \cup {current}
                /\ UNCHANGED runSamples
     ELSE /\ failed' = failed \cup {current}
          /\ UNCHANGED <<loaded, hasCheckpoint, model, runSamples>>
  /\ pc' = "answer"
  /\ UNCHANGED <<appVars, queueVars, disk, samples, checkpointIDs, runIDs, lastBatch,
                 current, done, answered, overtaken, faultVars>>

(* _deleteModel: the entry in the archive goes first, then the queue.      *)
ProcessDelete ==
  /\ pc = "process"
  /\ current = Delete
  /\ disk' = NoEntry
  /\ pc' = "cleanup"
  /\ UNCHANGED <<appVars, queueVars, memory, checkpointIDs, runVars, done, ghosts,
                 faultVars>>

CleanUpAfterModelDeletion ==
  /\ pc = "cleanup"
  /\ queueExists' = FALSE
  /\ ready' = <<>> /\ unacked' = <<>> /\ limbo' = <<>>
  /\ loaded' = FALSE /\ model' = <<>> /\ hasCheckpoint' = FALSE /\ samples' = <<>>
  /\ done' = TRUE
  /\ pc' = "answer"
  /\ UNCHANGED <<appVars, disk, checkpointIDs, runVars, ghosts, faultVars>>

(* Mutant: the run ends before the results of its last batch are sent.     *)
AnswerLate ==
  /\ pc = "answer"
  /\ answered' = IF Cardinality(runIDs) >= TargetRequests THEN answered
                 ELSE answered \cup {current}
  /\ pc' = IF done \/ Cardinality(runIDs) >= TargetRequests THEN "save" ELSE "poll"
  /\ current' = NoBatch
  /\ UNCHANGED <<appVars, queueVars, disk, memory, checkpointIDs, runIDs, runSamples,
                 lastBatch, done, failed, overtaken, faultVars>>

(* submitResults(), and the end of the run when it has its target.         *)
Answer ==
  /\ pc = "answer"
  /\ answered' = answered \cup {current}
  /\ pc' = IF done \/ Cardinality(runIDs) >= TargetRequests THEN "save" ELSE "poll"
  /\ current' = NoBatch
  /\ UNCHANGED <<appVars, queueVars, disk, memory, checkpointIDs, runIDs, runSamples,
                 lastBatch, done, failed, overtaken, faultVars>>

(* Mutant: the samples before a full checkpoint are kept.                  *)
SaveModelKeepsSamples ==
  IF ~hasCheckpoint \/ Len(samples) + Len(runSamples) > MaxIncremental
  THEN /\ disk' = [disk EXCEPT !.stored = TRUE, !.full = model, !.ids = runIDs,
                               !.samples = <<>>]
       /\ hasCheckpoint' = TRUE
       /\ UNCHANGED samples
  ELSE /\ samples' = samples \o runSamples
       /\ disk' = [disk EXCEPT !.ids = runIDs, !.samples = samples']
       /\ UNCHANGED hasCheckpoint

(* Mutant: an incremental checkpoint lacks the samples of its own run.     *)
SaveModelSkipsRun ==
  IF ~hasCheckpoint \/ Len(samples) + Len(runSamples) > MaxIncremental
  THEN /\ disk' = [disk EXCEPT !.stored = TRUE, !.full = model, !.ids = runIDs,
                               !.samples = <<>>]
       /\ hasCheckpoint' = TRUE
       /\ samples' = <<>>
  ELSE /\ disk' = [disk EXCEPT !.ids = runIDs, !.samples = samples]
       /\ UNCHANGED <<hasCheckpoint, samples>>

(* _ModelArchiver.saveModel: a full checkpoint, or an incremental one that *)
(* only rewrites the attributes of the current store.                      *)
SaveModel ==
  IF ~hasCheckpoint \/ Len(samples) + Len(runSamples) > MaxIncremental
  THEN /\ disk' = [disk EXCEPT !.stored = TRUE, !.full = model, !.ids = runIDs,
                               !.samples = <<>>]
       /\ hasCheckpoint' = TRUE
       /\ samples' = <<>>
  ELSE /\ samples' = samples \o runSamples
       /\ disk' = [disk EXCEPT !.ids = runIDs, !.samples = samples']
       /\ UNCHANGED hasCheckpoint

Save ==
  /\ pc = "save"
  /\ checkpointIDs' = runIDs
  /\ \/ loaded /\ SaveModel
     \/ ~loaded /\ UNCHANGED <<disk, hasCheckpoint, samples>>
  /\ pc' = "ack"
  /\ UNCHANGED <<appVars, queueVars, loaded, model, runVars, done, ghosts, faultVars>>

(* ack(multiple=True) of the last batch.                                   *)
Ack ==
  /\ pc = "ack"
  /\ lastBatch = "live"
  /\ unacked' = <<>>
  /\ pc' = "check"
  /\ UNCHANGED <<appVars, queueExists, ready, limbo, disk, memory, checkpointIDs,
                 runVars, done, ghosts, faultVars>>

(* On a channel that has died it fails, which ends the process, or has no  *)
(* effect when the death has not been noticed.                             *)
AckOnDeadChannel ==
  /\ pc = "ack"
  /\ lastBatch = "dead"
  /\ \/ /\ Gone
        /\ limbo' = limbo \o unacked
        /\ unacked' = <<>>
     \/ /\ pc' = "check"
        /\ UNCHANGED <<limbo, unacked, memory, checkpointIDs, runVars, done>>
  /\ UNCHANGED <<appVars, queueExists, ready, disk, ghosts, faultVars>>

(* The next run, or the end: done, or stdin closed by the scheduler.  The  *)
(* consumer and its channel are closed, which returns what is unacked.     *)
EndRun ==
  /\ pc = "check"
  /\ \/ Gone
     \/ /\ ~done
        /\ pc' = "poll"
        /\ NoRun
        /\ UNCHANGED <<memory, checkpointIDs, done>>
  /\ limbo' = limbo \o unacked
  /\ unacked' = <<>>
  /\ UNCHANGED <<appVars, queueExists, ready, disk, ghosts, faultVars>>

RunnerStep ==
  \/ SkipBatch \/ TakeBatch \/ NoMoreBatches
  \/ ProcessDefine \/ ProcessRow \/ ProcessDelete \/ CleanUpAfterModelDeletion
  \/ Answer \/ Save \/ Ack \/ AckOnDeadChannel \/ EndRun

-----------------------------------------------------------------------------
(* Failures, and the broker's part in them.                                *)

Crash ==
  /\ pc # "off"
  /\ crashes < MaxCrashes
  /\ crashes' = crashes + 1
  /\ Gone
  /\ limbo' = limbo \o unacked
  /\ unacked' = <<>>
  /\ UNCHANGED <<appVars, queueExists, ready, disk, ghosts, drops>>

(* The runner's channel dies; the consumer will open another one.          *)
DropConnection ==
  /\ pc # "off"
  /\ drops < MaxDrops
  /\ drops' = drops + 1
  /\ limbo' = limbo \o unacked
  /\ unacked' = <<>>
  /\ lastBatch' = IF lastBatch = "none" THEN "none" ELSE "dead"
  /\ UNCHANGED <<appVars, queueExists, ready, disk, pc, memory, checkpointIDs, runIDs,
                 runSamples, current, done, ghosts, crashes>>

(* The broker has noticed, and returns the messages to their places.       *)
Requeue ==
  /\ limbo # <<>>
  /\ ready' = limbo \o ready
  /\ limbo' = <<>>
  /\ UNCHANGED <<appVars, queueExists, unacked, disk, runnerVars, ghosts, faultVars>>

-----------------------------------------------------------------------------
AppStep == DefineModel \/ SubmitRow \/ PurgeQueue \/ DeleteModel

Next == AppStep \/ RunnerStart \/ RunnerStep \/ Crash \/ DropConnection \/ Requeue

(* The scheduler starts the runner of a model with input, the runner runs, *)
(* and the broker notices a dead channel.                                  *)
Fairness ==
  /\ WF_vars(RunnerStart)
  /\ WF_vars(RunnerStep)
  /\ WF_vars(Requeue)

Spec == Init /\ [][Next]_vars
FairSpec == Spec /\ Fairness

-----------------------------------------------------------------------------
(* Properties *)

Pending == RangeOf(ready) \cup RangeOf(unacked) \cup RangeOf(limbo)
Submitted == 1 .. rows

(* What a new runner would load.                                           *)
Recoverable == disk.full \o disk.samples

(* At-least-once results: a row is answered before its message is gone,    *)
(* whatever fails and however often, unless the whole queue is deleted.    *)
NoRowUnanswered ==
  queueExists => Submitted \subseteq answered \cup Pending \cup purged

(* No row's contribution to the model is lost: it is in the checkpoint, or *)
(* in the running model, or will be delivered again.                       *)
NoUpdateLost ==
  app \in {"new", "live"} =>
    \A b \in Submitted :
      b \in RangeOf(Recoverable) \cup RangeOf(model) \cup Pending \cup failed

(* One kind of failure alone loses nothing.                                *)
OneFailureKindLosesNothing == crashes = 0 \/ drops = 0 => NoUpdateLost

(* Incremental checkpoints: while a model is loaded what is on disk is     *)
(* what it was at its last checkpoint, and right after a checkpoint it is  *)
(* what it is.                                                             *)
CheckpointMatchesModel ==
  loaded /\ disk.defined =>
    /\ Len(Recoverable) <= Len(model)
    /\ \A i \in DOMAIN Recoverable : model[i] = Recoverable[i]
    /\ pc = "ack" => Len(Recoverable) = Len(model)

(* A model learns its rows in the order of their submission and each only  *)
(* once, unless the broker delivers later batches before it returns an     *)
(* earlier one.                                                            *)
Ascending(q) == \A i, j \in DOMAIN q : i < j => q[i] < q[j]
LearnsInOrder == ~overtaken => Ascending(model) /\ Ascending(Recoverable)

(* Every row is answered in the end, unless the model is being deleted:    *)
(* again and again, all that was submitted has been answered.              *)
EveryRowAnswered ==
  []<>(app \in {"purged", "deleted"} \/ Submitted \subseteq answered)

(* deleteModel(): "The ModelCommandResult will be delivered                *)
(* asynchronously".                                                        *)
DeleteIsAnswered == app = "deleted" ~> Delete \in answered
=============================================================================
