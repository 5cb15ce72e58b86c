------------------------- MODULE ModelRunnerProofs -------------------------
(***************************************************************************)
(* Proofs about the ModelRunner (module ModelRunner): its five safety      *)
(* properties, for any number of rows, crashes, losses of the connection   *)
(* and published copies, and any length of a run.                          *)
(*                                                                         *)
(* The inductive invariant is built in layers, each of which rests on the  *)
(* ones before it: where the runner is and what it holds there (Control),  *)
(* what has been answered (Answers), how the model in memory follows from  *)
(* the checkpoint (Restores), where each row's contribution is (Keeps),    *)
(* and the order of the queue and of the model (Bounded, Queued, Knows,    *)
(* Grows).                                                                 *)
(***************************************************************************)
EXTENDS ModelRunner, SequenceTheorems, TLAPS

-----------------------------------------------------------------------------
(* The inductive invariant.                                                *)

(* What the variables of a runner are at each place of its run().          *)
Control ==
  /\ pc \in {"process", "cleanup", "answer"} => current \in Batches
  /\ pc \notin {"process", "cleanup", "answer"} => current = NoBatch
  /\ pc \in {"poll", "process", "cleanup"} => ~done
  /\ pc \in {"process", "cleanup", "answer", "save", "ack"} => lastBatch # "none"
  /\ pc = "check" /\ lastBatch = "none" => done
  /\ pc = "cleanup" => disk = NoEntry /\ current = Delete
  /\ pc = "off" => lastBatch = "none" /\ checkpointIDs = {} /\ ~loaded /\ ~done
  /\ lastBatch = "none" => runIDs = {} /\ runSamples = <<>> /\ unacked = <<>>
  /\ ~loaded => model = <<>>
  /\ current # NoBatch => current \in runIDs
  /\ RangeOf(unacked) \subseteq runIDs

(* A batch that is known has been answered, but for the one in hand.       *)
Answers ==
  /\ app = "new" => rows = 0
  /\ disk.ids \subseteq answered
  /\ checkpointIDs \subseteq answered
  /\ runIDs \subseteq answered \cup {current}

(* The model in memory is the checkpoint and the samples of the run.       *)
Restores ==
  /\ pc \notin {"off", "cleanup"} => samples = disk.samples
  /\ loaded /\ pc \in {"poll", "process", "answer", "save"} =>
       model = Recoverable \o runSamples
  /\ loaded /\ pc \in {"ack", "check"} => model = Recoverable
  /\ ~loaded /\ ~done => runSamples = <<>>

Undeleted == app \in {"new", "live"}
Saving == pc \in {"poll", "process", "answer", "save"}
InHand == IF pc = "process" THEN {current} ELSE {}

(* Where the contribution of a row is that the runner takes to be known.   *)
Keeps ==
  /\ app # "deleted" => Delete \notin Pending \cup runIDs
  /\ Undeleted =>
       /\ ~loaded => runSamples = <<>>
       /\ (disk.ids \cup checkpointIDs) \cap Rows
            \subseteq RangeOf(Recoverable) \cup failed
       /\ runIDs \cap Rows
            \subseteq RangeOf(Recoverable) \cup RangeOf(runSamples) \cup failed \cup InHand
       /\ pc \in {"ack", "check"} => RangeOf(runSamples) \subseteq RangeOf(Recoverable)
       /\ drops = 0 /\ Saving =>
            RangeOf(runSamples) \cup InHand \subseteq RangeOf(unacked)

(* The order of the batches' submission.                                   *)
Rank(b) == IF b = Define THEN 0 ELSE IF b = Delete THEN MaxRows + 1 ELSE b
Sorted(q) == \A i, j \in DOMAIN q : i <= j => Rank(q[i]) <= Rank(q[j])
Learnt == RangeOf(model) \cup RangeOf(Recoverable)

(* Only what has been submitted is pending, in hand, or learnt.            *)
Bounded ==
  /\ app = "new" => Pending = {}
  /\ (Pending \cup {current} \cup Learnt) \cap Rows \subseteq Submitted

(* The queue is in the order of submission, with what is delivered before  *)
(* what is ready.                                                          *)
Queued ==
  ~overtaken =>
    /\ limbo = <<>> \/ unacked = <<>>
    /\ Sorted(limbo) /\ Sorted(unacked) /\ Sorted(ready)
    /\ \A a \in RangeOf(limbo) \cup RangeOf(unacked), b \in RangeOf(ready) :
         Rank(a) <= Rank(b)

(* A pending batch that comes no later than a row of the checkpoint is     *)
(* known from the checkpoint; one that comes no later than a row that has  *)
(* been learnt, or is in hand, is known to the runner.                     *)
KnownNow == IF lastBatch = "none" THEN checkpointIDs ELSE runIDs
Knows ==
  /\ pc \in {"ack", "check"} /\ lastBatch # "none" => checkpointIDs = runIDs
  /\ ~overtaken =>
       /\ \A b \in Pending, m \in RangeOf(Recoverable) : Rank(b) <= m => b \in disk.ids
       /\ pc # "off" => \A b \in Pending, m \in Learnt \cup (InHand \cap Rows) :
                           Rank(b) <= m => b \in KnownNow

(* A row in hand comes after all that has been learnt.                     *)
Grows ==
  ~overtaken =>
    /\ \A m \in Learnt, r \in InHand \cap Rows : m < r
    /\ Ascending(model)
    /\ Ascending(Recoverable)

RunnerInv == TypeOK /\ Control /\ Answers /\ Restores /\ Keeps /\ Bounded /\ Queued
             /\ Knows /\ Grows /\ NoRowUnanswered /\ OneFailureKindLosesNothing

-----------------------------------------------------------------------------
(* Sequences: what they contain, and their order.                          *)

(* A sequence contains members of its set.                                 *)
LEMMA RangeType ==
  ASSUME NEW S, NEW q \in Seq(S)
  PROVE  RangeOf(q) \subseteq S
  BY LenProperties, ElementOfSeq DEF RangeOf

(* The empty sequence contains nothing, and no other one does.             *)
LEMMA RangeEmpty ==
  /\ RangeOf(<<>>) = {}
  /\ \A S : \A q \in Seq(S) : RangeOf(q) = {} => q = <<>>
  <1>1. RangeOf(<<>>) = {}
    BY DEF RangeOf
  <1>2. ASSUME NEW S, NEW q \in Seq(S), RangeOf(q) = {}
        PROVE  q = <<>>
    <2>1. Len(q) \in Nat /\ DOMAIN q = 1 .. Len(q)
      BY LenProperties
    <2>2. ASSUME Len(q) # 0
          PROVE  FALSE
      <3>1. q[1] \in RangeOf(q)
        BY <2>1, <2>2 DEF RangeOf
      <3> QED
        BY <3>1, <1>2
    <2> QED
      BY <2>1, <2>2, EmptySeq
  <1> QED
    BY <1>1, <1>2

(* Append() adds the element it appends.                                   *)
LEMMA RangeAppend ==
  ASSUME NEW S, NEW q \in Seq(S), NEW e \in S
  PROVE  Append(q, e) \in Seq(S) /\ RangeOf(Append(q, e)) = RangeOf(q) \cup {e}
  <1>1. /\ Append(q, e) \in Seq(S) /\ Len(Append(q, e)) = Len(q) + 1
        /\ \A i \in 1 .. Len(q) : Append(q, e)[i] = q[i]
        /\ Append(q, e)[Len(q) + 1] = e
    BY AppendProperties
  <1>2. /\ Len(q) \in Nat /\ DOMAIN q = 1 .. Len(q)
        /\ DOMAIN Append(q, e) = 1 .. Len(q) + 1
    BY <1>1, LenProperties
  <1>3. RangeOf(Append(q, e)) \subseteq RangeOf(q) \cup {e}
    BY <1>1, <1>2 DEF RangeOf
  <1>4. RangeOf(q) \cup {e} \subseteq RangeOf(Append(q, e))
    <2>1. ASSUME NEW i \in DOMAIN q
          PROVE  q[i] \in RangeOf(Append(q, e))
      BY <1>1, <1>2 DEF RangeOf
    <2>2. e \in RangeOf(Append(q, e))
      BY <1>1, <1>2 DEF RangeOf
    <2> QED
      BY <2>1, <2>2 DEF RangeOf
  <1> QED
    BY <1>1, <1>3, <1>4

(* A concatenation contains what its two parts contain.                    *)
LEMMA RangeConcat ==
  ASSUME NEW S, NEW q \in Seq(S), NEW r \in Seq(S)
  PROVE  q \o r \in Seq(S) /\ RangeOf(q \o r) = RangeOf(q) \cup RangeOf(r)
  <1>1. /\ q \o r \in Seq(S) /\ Len(q \o r) = Len(q) + Len(r)
        /\ \A i \in 1 .. Len(q) + Len(r) :
             (q \o r)[i] = IF i <= Len(q) THEN q[i] ELSE r[i - Len(q)]
    BY ConcatProperties
  <1>2. /\ Len(q) \in Nat /\ DOMAIN q = 1 .. Len(q)
        /\ Len(r) \in Nat /\ DOMAIN r = 1 .. Len(r)
        /\ DOMAIN (q \o r) = 1 .. Len(q) + Len(r)
    BY <1>1, LenProperties
  <1>3. ASSUME NEW i \in DOMAIN (q \o r)
        PROVE  (q \o r)[i] \in RangeOf(q) \cup RangeOf(r)
    BY <1>1, <1>2 DEF RangeOf
  <1>4. ASSUME NEW i \in DOMAIN q
        PROVE  q[i] \in RangeOf(q \o r)
    BY <1>1, <1>2 DEF RangeOf
  <1>5. ASSUME NEW i \in DOMAIN r
        PROVE  r[i] \in RangeOf(q \o r)
    <2>1. Len(q) + i \in DOMAIN (q \o r) /\ (q \o r)[Len(q) + i] = r[i]
      BY <1>1, <1>2
    <2> QED
      BY <2>1 DEF RangeOf
  <1> QED
    BY <1>1, <1>3, <1>4, <1>5 DEF RangeOf

(* Two copies at the end of a queue add one element.                       *)
LEMMA TwoCopies ==
  ASSUME NEW S, NEW q \in Seq(S), NEW e \in S
  PROVE  /\ q \o <<e, e>> \in Seq(S)
         /\ q \o <<e, e>> = Append(Append(q, e), e)
         /\ RangeOf(q \o <<e, e>>) = RangeOf(q) \cup {e}
  <1>1. /\ Append(q, e) \in Seq(S) /\ Append(Append(q, e), e) \in Seq(S)
        /\ RangeOf(Append(Append(q, e), e)) = RangeOf(q) \cup {e}
    <2>1. Append(q, e) \in Seq(S) /\ RangeOf(Append(q, e)) = RangeOf(q) \cup {e}
      BY RangeAppend
    <2>2. ASSUME NEW p \in Seq(S)
          PROVE  Append(p, e) \in Seq(S) /\ RangeOf(Append(p, e)) = RangeOf(p) \cup {e}
      BY RangeAppend
    <2>3. /\ Append(Append(q, e), e) \in Seq(S)
          /\ RangeOf(Append(Append(q, e), e)) = RangeOf(Append(q, e)) \cup {e}
      BY <2>1, <2>2
    <2> QED
      BY <2>1, <2>3
  <1>2. <<e>> \in Seq(S) /\ <<e, e>> = <<e>> \o <<e>>
    OBVIOUS
  <1>3. Append(Append(q, e), e) = (q \o <<e>>) \o <<e>>
    BY <1>1, AppendIsConcat
  <1>4. (q \o <<e>>) \o <<e>> = q \o (<<e>> \o <<e>>)
    BY <1>2, ConcatAssociative
  <1> QED
    BY <1>1, <1>2, <1>3, <1>4

(* A queue contains its head and what its tail contains.                   *)
LEMMA RangeHeadTail ==
  ASSUME NEW S, NEW q \in Seq(S), q # <<>>
  PROVE  /\ Head(q) \in S /\ Tail(q) \in Seq(S)
         /\ RangeOf(q) = {Head(q)} \cup RangeOf(Tail(q))
  <1>1. /\ Head(q) \in S /\ Tail(q) \in Seq(S) /\ Len(Tail(q)) = Len(q) - 1
        /\ \A i \in 1 .. Len(Tail(q)) : Tail(q)[i] = q[i + 1]
    BY HeadTailProperties
  <1>2. /\ Len(q) \in Nat \ {0} /\ DOMAIN q = 1 .. Len(q)
        /\ DOMAIN Tail(q) = 1 .. Len(q) - 1
    BY <1>1, LenProperties, EmptySeq
  <1>3. Head(q) = q[1]
    OBVIOUS
  <1>4. ASSUME NEW i \in DOMAIN q
        PROVE  q[i] \in {Head(q)} \cup RangeOf(Tail(q))
    <2>1. CASE i = 1
      BY <2>1, <1>3
    <2>2. CASE i # 1
      <3>1. i - 1 \in DOMAIN Tail(q) /\ Tail(q)[i - 1] = q[i]
        BY <2>2, <1>1, <1>2
      <3> QED
        BY <3>1 DEF RangeOf
    <2> QED
      BY <2>1, <2>2
  <1>5. ASSUME NEW i \in DOMAIN Tail(q)
        PROVE  Tail(q)[i] \in RangeOf(q)
    BY <1>1, <1>2 DEF RangeOf
  <1>6. Head(q) \in RangeOf(q)
    BY <1>2, <1>3 DEF RangeOf
  <1> QED
    BY <1>1, <1>4, <1>5, <1>6 DEF RangeOf

-----------------------------------------------------------------------------
(* Types.                                                                  *)

(* publish() leaves one or two copies of the batch at the end.             *)
LEMMA PublishType ==
  ASSUME TypeOK, NEW b \in Batches, Publish(ready, b)
  PROVE  /\ ready' \in Seq(Batches) /\ RangeOf(ready') = RangeOf(ready) \cup {b}
         /\ copies' \in 0 .. MaxCopies
  <1>1. /\ ready \in Seq(Batches) /\ copies \in 0 .. MaxCopies
        /\ MaxCopies \in Nat
    BY RunnerAssumption DEF TypeOK
  <1>2. CASE ready' = Append(ready, b) /\ UNCHANGED copies
    BY <1>1, <1>2, RangeAppend
  <1>3. CASE /\ copies < MaxCopies
             /\ ready' = ready \o <<b, b>>
             /\ copies' = copies + 1
    <2>1. /\ ready \o <<b, b>> \in Seq(Batches)
          /\ RangeOf(ready \o <<b, b>>) = RangeOf(ready) \cup {b}
      BY <1>1, TwoCopies
    <2>2. copies' \in 0 .. MaxCopies
      BY <1>1, <1>3
    <2> QED
      BY <1>3, <2>1, <2>2
  <1> QED
    BY <1>2, <1>3 DEF Publish

(* The entry of the archive and the memory after a checkpoint.             *)
LEMMA SaveType ==
  ASSUME TypeOK, SaveModel
  PROVE  disk' \in Entry /\ samples' \in Seq(Rows) /\ hasCheckpoint' \in BOOLEAN
  <1>1. /\ disk \in Entry /\ model \in Seq(Rows) /\ samples \in Seq(Rows)
        /\ runSamples \in Seq(Rows) /\ runIDs \in SUBSET Batches
        /\ hasCheckpoint \in BOOLEAN /\ <<>> \in Seq(Rows)
    BY EmptySeq DEF TypeOK
  <1>2. samples \o runSamples \in Seq(Rows)
    BY <1>1, ConcatProperties
  <1>3. CASE ~hasCheckpoint \/ Len(samples) + Len(runSamples) > MaxIncremental
    BY <1>1, <1>3 DEF SaveModel, Entry
  <1>4. CASE ~(~hasCheckpoint \/ Len(samples) + Len(runSamples) > MaxIncremental)
    BY <1>1, <1>2, <1>4 DEF SaveModel, Entry
  <1> QED
    BY <1>3, <1>4

(* The initial state has the types.                                        *)
LEMMA TypesInit == Init => TypeOK
  <1> SUFFICES ASSUME Init
               PROVE  TypeOK
    OBVIOUS
  <1>1. <<>> \in Seq(Rows) /\ <<>> \in Seq(Batches)
    BY EmptySeq
  <1>2. NoEntry \in Entry
    BY <1>1 DEF NoEntry, Entry
  <1>3. /\ app \in {"new", "live", "purged", "deleted"} /\ rows \in 0 .. MaxRows
        /\ copies \in 0 .. MaxCopies /\ crashes \in 0 .. MaxCrashes
        /\ drops \in 0 .. MaxDrops
    BY RunnerAssumption DEF Init
  <1>4. disk \in Entry
    BY <1>2 DEF Init
  <1> QED
    BY <1>1, <1>3, <1>4 DEF Init, TypeOK

(* What ends a process leaves its memory empty.                            *)
LEMMA GoneType ==
  ASSUME TypeOK, Gone
  PROVE  /\ pc' = "off" /\ current' = NoBatch /\ loaded' = FALSE /\ model' = <<>>
         /\ hasCheckpoint' = FALSE /\ samples' = <<>> /\ checkpointIDs' = {}
         /\ runIDs' = {} /\ runSamples' = <<>> /\ lastBatch' = "none"
         /\ done' = FALSE
         /\ model' \in Seq(Rows) /\ samples' \in Seq(Rows) /\ runSamples' \in Seq(Rows)
  BY EmptySeq DEF Gone, NoRun

(* Every step keeps the types.                                             *)
LEMMA TypesStep == TypeOK /\ Control /\ [Next]_vars => TypeOK'
  <1> SUFFICES ASSUME TypeOK, Control, [Next]_vars
               PROVE  TypeOK'
    OBVIOUS
  <1> USE RunnerAssumption
  <1>e. <<>> \in Seq(Rows) /\ <<>> \in Seq(Batches)
    BY EmptySeq
  <1>q. limbo \o unacked \in Seq(Batches) /\ limbo \o ready \in Seq(Batches)
    BY ConcatProperties DEF TypeOK
  <1>1. CASE AppStep
    <2>1. CASE DefineModel
      <3>1. ready' \in Seq(Batches) /\ copies' \in 0 .. MaxCopies
        BY <2>1, PublishType DEF DefineModel, Batches
      <3> QED
        BY <2>1, <3>1 DEF DefineModel, TypeOK, runnerVars, memory, runVars, ghosts, faultVars
    <2>2. CASE SubmitRow
      <3>1. rows + 1 \in Batches /\ rows + 1 \in 0 .. MaxRows
        BY <2>2 DEF SubmitRow, TypeOK, Batches, Rows
      <3>2. ready' \in Seq(Batches) /\ copies' \in 0 .. MaxCopies
        BY <2>2, <3>1, PublishType DEF SubmitRow
      <3> QED
        BY <2>2, <3>1, <3>2 DEF SubmitRow, TypeOK, runnerVars, memory, runVars, ghosts, faultVars
    <2>3. CASE PurgeQueue
      <3>1. RangeOf(ready) \subseteq Batches
        BY RangeType DEF TypeOK
      <3> QED
        BY <2>3, <3>1, <1>e DEF PurgeQueue, TypeOK, runnerVars, memory, runVars, ghosts, faultVars
    <2>4. CASE DeleteModel
      <3>1. ready' \in Seq(Batches) /\ copies' \in 0 .. MaxCopies
        BY <2>4, PublishType DEF DeleteModel, Batches
      <3> QED
        BY <2>4, <3>1 DEF DeleteModel, TypeOK, runnerVars, memory, runVars, ghosts, faultVars
    <2> QED
      BY <1>1, <2>1, <2>2, <2>3, <2>4 DEF AppStep
  <1>2. CASE RunnerStart
    BY <1>2 DEF RunnerStart, TypeOK, Entry, appVars, queueVars, runVars, ghosts, faultVars
  <1>3. CASE SkipBatch
    <2>1. Tail(ready) \in Seq(Batches)
      BY <1>3, RangeHeadTail DEF SkipBatch, TypeOK
    <2> QED
      BY <1>3, <2>1 DEF SkipBatch, TypeOK, appVars, runnerVars, memory, runVars, faultVars
  <1>4. CASE TakeBatch
    <2>1. Tail(ready) \in Seq(Batches) /\ Head(ready) \in Batches
      BY <1>4, RangeHeadTail DEF TakeBatch, TypeOK
    <2>2. Append(unacked, Head(ready)) \in Seq(Batches)
      BY <2>1, RangeAppend DEF TypeOK
    <2> QED
      BY <1>4, <2>1, <2>2 DEF TakeBatch, TypeOK, appVars, memory, faultVars
  <1>5. CASE NoMoreBatches
    BY <1>5 DEF NoMoreBatches, TypeOK, appVars, queueVars, memory, runVars, ghosts, faultVars
  <1>6. CASE ProcessDefine
    BY <1>6 DEF ProcessDefine, TypeOK, Entry, appVars, queueVars, memory, runVars, ghosts, faultVars
  <1>7. CASE ProcessRow
    <2>1. disk.full \o samples \in Seq(Rows)
      BY ConcatProperties DEF TypeOK, Entry
    <2>2. Append(model, current) \in Seq(Rows) /\ Append(runSamples, current) \in Seq(Rows)
          /\ Append(disk.full \o samples, current) \in Seq(Rows)
      BY <1>7, <2>1, RangeAppend DEF ProcessRow, TypeOK
    <2>3. /\ model' \in Seq(Rows) /\ runSamples' \in Seq(Rows)
          /\ loaded' \in BOOLEAN /\ hasCheckpoint' \in BOOLEAN
          /\ failed' \in SUBSET Rows
      BY <1>7, <2>1, <2>2 DEF ProcessRow, TypeOK, Entry
    <2> QED
      BY <1>7, <2>3 DEF ProcessRow, TypeOK, appVars, queueVars, faultVars
  <1>8. CASE ProcessDelete
    BY <1>8, <1>e DEF ProcessDelete, TypeOK, NoEntry, Entry, appVars, queueVars, memory, runVars, ghosts, faultVars
  <1>9. CASE CleanUpAfterModelDeletion
    BY <1>9, <1>e DEF CleanUpAfterModelDeletion, TypeOK, appVars, runVars, ghosts, faultVars
  <1>10. CASE Answer
    <2>1. answered' \in SUBSET Batches
      BY <1>10 DEF Answer, TypeOK, Control
    <2> QED
      BY <1>10, <2>1 DEF Answer, TypeOK, appVars, queueVars, memory, faultVars
  <1>11. CASE Save
    <2>1. disk' \in Entry /\ samples' \in Seq(Rows) /\ hasCheckpoint' \in BOOLEAN
      BY <1>11, SaveType DEF Save, TypeOK
    <2> QED
      BY <1>11, <2>1 DEF Save, TypeOK, appVars, queueVars, runVars, ghosts, faultVars
  <1>12. CASE Ack
    BY <1>12, <1>e DEF Ack, TypeOK, appVars, memory, runVars, ghosts, faultVars
  <1>13. CASE AckOnDeadChannel
    <2>1. CASE Gone /\ limbo' = limbo \o unacked /\ unacked' = <<>>
      BY <1>13, <2>1, <1>e, <1>q, GoneType DEF AckOnDeadChannel, TypeOK, appVars, ghosts, faultVars
    <2>2. CASE /\ pc' = "check"
               /\ UNCHANGED <<limbo, unacked, memory, checkpointIDs, runVars, done>>
      BY <1>13, <2>2 DEF AckOnDeadChannel, TypeOK, appVars, memory, runVars, ghosts, faultVars
    <2> QED
      BY <1>13, <2>1, <2>2 DEF AckOnDeadChannel
  <1>14. CASE EndRun
    <2>1. CASE Gone
      BY <1>14, <2>1, <1>e, <1>q, GoneType DEF EndRun, TypeOK, appVars, ghosts, faultVars
    <2>2. CASE ~done /\ pc' = "poll" /\ NoRun /\ UNCHANGED <<memory, checkpointIDs, done>>
      BY <1>14, <2>2, <1>e, <1>q DEF EndRun, NoRun, TypeOK, appVars, memory, ghosts, faultVars
    <2> QED
      BY <1>14, <2>1, <2>2 DEF EndRun
  <1>15. CASE Crash
    <2>1. Gone /\ limbo' = limbo \o unacked /\ unacked' = <<>> /\ crashes' \in 0 .. MaxCrashes
      BY <1>15 DEF Crash, TypeOK
    <2> QED
      BY <1>15, <2>1, <1>e, <1>q, GoneType DEF Crash, TypeOK, appVars, ghosts
  <1>16. CASE DropConnection
    BY <1>16, <1>e, <1>q DEF DropConnection, TypeOK, appVars, memory, ghosts
  <1>17. CASE Requeue
    BY <1>17, <1>e, <1>q DEF Requeue, TypeOK, appVars, runnerVars, memory, runVars, ghosts, faultVars
  <1>18. CASE UNCHANGED vars
    BY <1>18 DEF TypeOK, vars, appVars, queueVars, runnerVars, memory, runVars, ghosts, faultVars
  <1> QED
    BY <1>1, <1>2, <1>3, <1>4, <1>5, <1>6, <1>7, <1>8, <1>9, <1>10, <1>11, <1>12,
       <1>13, <1>14, <1>15, <1>16, <1>17, <1>18 DEF Next, RunnerStep

-----------------------------------------------------------------------------
(* Control.                                                                *)

(* The rows and the two commands are different batches.                    *)
LEMMA Kinds ==
  /\ Rows \subseteq Nat /\ Define \notin Rows /\ Delete \notin Rows
  /\ Define # Delete /\ NoBatch \notin Batches /\ Define \in Batches /\ Delete \in Batches
  BY RunnerAssumption DEF Rows, Batches

(* No step takes the runner out of its control.                            *)
LEMMA ControlStep == TypeOK /\ Control /\ [Next]_vars => Control'
  <1> SUFFICES ASSUME TypeOK, Control, [Next]_vars
               PROVE  Control'
    OBVIOUS
  <1> USE RangeEmpty, Kinds
  <1>g. ASSUME Gone, unacked' = <<>>
        PROVE  Control'
    BY <1>g DEF Gone, NoRun, Control
  <1>1. CASE AppStep
    BY <1>1 DEF AppStep, DefineModel, SubmitRow, PurgeQueue, DeleteModel, Control,
                runnerVars, memory, runVars
  <1>2. CASE RunnerStart
    BY <1>2 DEF RunnerStart, Control, queueVars, runVars
  <1>3. CASE SkipBatch
    BY <1>3 DEF SkipBatch, Control, runnerVars, memory, runVars
  <1>4. CASE TakeBatch
    <2>1. Head(ready) \in Batches
      BY <1>4, RangeHeadTail DEF TakeBatch, TypeOK
    <2>2. RangeOf(unacked') = RangeOf(unacked) \cup {Head(ready)}
      BY <1>4, <2>1, RangeAppend DEF TakeBatch, TypeOK
    <2> QED
      BY <1>4, <2>1, <2>2 DEF TakeBatch, Control, memory
  <1>5. CASE NoMoreBatches
    BY <1>5 DEF NoMoreBatches, Control, queueVars, memory, runVars
  <1>6. CASE ProcessDefine
    BY <1>6 DEF ProcessDefine, Control, queueVars, memory, runVars
  <1>7. CASE ProcessRow
    <2>1. ~loaded' => model' = <<>>
      BY <1>7 DEF ProcessRow, Control
    <2> QED
      BY <1>7, <2>1 DEF ProcessRow, Control, queueVars
  <1>8. CASE ProcessDelete
    BY <1>8 DEF ProcessDelete, Control, queueVars, memory, runVars
  <1>9. CASE CleanUpAfterModelDeletion
    BY <1>9 DEF CleanUpAfterModelDeletion, Control, runVars
  <1>10. CASE Answer
    BY <1>10 DEF Answer, Control, queueVars, memory
  <1>11. CASE Save
    BY <1>11 DEF Save, Control, queueVars, runVars
  <1>12. CASE Ack
    BY <1>12 DEF Ack, Control, memory, runVars
  <1>13. CASE AckOnDeadChannel
    BY <1>13, <1>g DEF AckOnDeadChannel, Control, memory, runVars
  <1>14. CASE EndRun
    <2>1. CASE ~done /\ pc' = "poll" /\ NoRun /\ UNCHANGED <<memory, checkpointIDs, done>>
      BY <1>14, <2>1 DEF EndRun, NoRun, Control, memory
    <2> QED
      BY <1>14, <2>1, <1>g DEF EndRun
  <1>15. CASE Crash
    BY <1>15, <1>g DEF Crash
  <1>16. CASE DropConnection
    BY <1>16 DEF DropConnection, Control, memory
  <1>17. CASE Requeue
    BY <1>17 DEF Requeue, Control, runnerVars, memory, runVars
  <1>18. CASE UNCHANGED vars
    BY <1>18 DEF Control, vars, queueVars, runnerVars, memory, runVars
  <1> QED
    BY <1>1, <1>2, <1>3, <1>4, <1>5, <1>6, <1>7, <1>8, <1>9, <1>10, <1>11, <1>12,
       <1>13, <1>14, <1>15, <1>16, <1>17, <1>18 DEF Next, RunnerStep

-----------------------------------------------------------------------------
(* What the steps do to the messages that are pending.                     *)

(* The messages that a dead channel gives up stay pending.                 *)
LEMMA GiveUp ==
  ASSUME TypeOK, limbo' = limbo \o unacked, unacked' = <<>>
  PROVE  RangeOf(limbo') = RangeOf(limbo) \cup RangeOf(unacked) /\ RangeOf(unacked') = {}
  BY RangeConcat, RangeEmpty DEF TypeOK

(* Apart from the application no step adds a message; the runner and the   *)
(* broker let go of a message only where it is known (SkipBatch), at an    *)
(* acknowledgement, and with the queue.                                    *)
LEMMA PendingStep ==
  ASSUME TypeOK, Control, [Next]_vars
  PROVE  /\ DefineModel => Pending' = Pending \cup {Define}
         /\ SubmitRow => Pending' = Pending \cup {rows + 1} /\ rows + 1 \in Rows
         /\ PurgeQueue => Pending \subseteq Pending' \cup purged' /\ Pending' \subseteq Pending
         /\ DeleteModel => Pending' = Pending \cup {Delete}
         /\ SkipBatch => Pending = Pending' \cup {Head(ready)}
         /\ TakeBatch => /\ Pending' = Pending
                         /\ RangeOf(unacked') = RangeOf(unacked) \cup {Head(ready)}
         /\ Ack => Pending \subseteq Pending' \cup runIDs /\ Pending' \subseteq Pending
         /\ CleanUpAfterModelDeletion => Pending' = {}
         /\ ~(\/ AppStep \/ SkipBatch \/ Ack \/ CleanUpAfterModelDeletion) =>
              Pending' = Pending
  <1>t. /\ ready \in Seq(Batches) /\ unacked \in Seq(Batches) /\ limbo \in Seq(Batches)
    BY DEF TypeOK
  <1>1. ASSUME DefineModel
        PROVE  Pending' = Pending \cup {Define}
    <2>1. RangeOf(ready') = RangeOf(ready) \cup {Define}
      BY <1>1, PublishType, Kinds DEF DefineModel
    <2> QED
      BY <1>1, <2>1 DEF DefineModel, Pending
  <1>2. ASSUME SubmitRow
        PROVE  Pending' = Pending \cup {rows + 1} /\ rows + 1 \in Rows
    <2>1. rows + 1 \in Rows
      BY <1>2, RunnerAssumption DEF SubmitRow, TypeOK, Rows
    <2>2. RangeOf(ready') = RangeOf(ready) \cup {rows + 1}
      BY <1>2, <2>1, PublishType DEF SubmitRow, Batches
    <2> QED
      BY <1>2, <2>1, <2>2 DEF SubmitRow, Pending
  <1>3. ASSUME PurgeQueue
        PROVE  Pending \subseteq Pending' \cup purged' /\ Pending' \subseteq Pending
    BY <1>3, RangeEmpty DEF PurgeQueue, Pending
  <1>4. ASSUME DeleteModel
        PROVE  Pending' = Pending \cup {Delete}
    <2>1. RangeOf(ready') = RangeOf(ready) \cup {Delete}
      BY <1>4, PublishType, Kinds DEF DeleteModel
    <2> QED
      BY <1>4, <2>1 DEF DeleteModel, Pending
  <1>5. ASSUME SkipBatch
        PROVE  Pending = Pending' \cup {Head(ready)}
    <2>1. RangeOf(ready) = {Head(ready)} \cup RangeOf(ready')
      BY <1>5, <1>t, RangeHeadTail DEF SkipBatch
    <2> QED
      BY <1>5, <2>1 DEF SkipBatch, Pending
  <1>6. ASSUME TakeBatch
        PROVE  /\ Pending' = Pending
               /\ RangeOf(unacked') = RangeOf(unacked) \cup {Head(ready)}
    <2>1. Head(ready) \in Batches /\ RangeOf(ready) = {Head(ready)} \cup RangeOf(ready')
      BY <1>6, <1>t, RangeHeadTail DEF TakeBatch
    <2>2. RangeOf(unacked') = RangeOf(unacked) \cup {Head(ready)}
      BY <1>6, <1>t, <2>1, RangeAppend DEF TakeBatch
    <2> QED
      BY <1>6, <2>1, <2>2 DEF TakeBatch, Pending
  <1>7. ASSUME Ack
        PROVE  Pending \subseteq Pending' \cup runIDs /\ Pending' \subseteq Pending
    BY <1>7, RangeEmpty DEF Ack, Pending, Control
  <1>8. ASSUME CleanUpAfterModelDeletion
        PROVE  Pending' = {}
    BY <1>8, RangeEmpty DEF CleanUpAfterModelDeletion, Pending
  <1>9. ASSUME AckOnDeadChannel \/ EndRun \/ Crash \/ DropConnection
        PROVE  Pending' = Pending
    <2>1. UNCHANGED ready
      BY <1>9 DEF AckOnDeadChannel, EndRun, Crash, DropConnection
    <2>2. \/ limbo' = limbo \o unacked /\ unacked' = <<>>
          \/ UNCHANGED <<limbo, unacked>>
      BY <1>9 DEF AckOnDeadChannel, EndRun, Crash, DropConnection
    <2> QED
      BY <2>1, <2>2, GiveUp DEF Pending
  <1>10. ASSUME Requeue
         PROVE  Pending' = Pending
    <2>1. RangeOf(ready') = RangeOf(limbo) \cup RangeOf(ready)
      BY <1>10, <1>t, RangeConcat DEF Requeue
    <2> QED
      BY <1>10, <2>1, RangeEmpty DEF Requeue, Pending
  <1>11. ASSUME \/ RunnerStart \/ NoMoreBatches \/ ProcessDefine \/ ProcessRow
                \/ ProcessDelete \/ Answer \/ Save \/ UNCHANGED vars
         PROVE  Pending' = Pending
    BY <1>11 DEF RunnerStart, NoMoreBatches, ProcessDefine, ProcessRow, ProcessDelete,
                 Answer, Save, vars, queueVars, Pending
  <1> QED
    BY <1>1, <1>2, <1>3, <1>4, <1>5, <1>6, <1>7, <1>8, <1>9, <1>10, <1>11
       DEF Next, RunnerStep, AppStep

-----------------------------------------------------------------------------
(* Answers.                                                                *)

(* A checkpoint carries the IDs of its run; the definition stays.          *)
LEMMA SaveIDs ==
  ASSUME TypeOK, SaveModel
  PROVE  disk'.ids = runIDs /\ disk'.defined = disk.defined
  <1>1. disk \in Entry
    BY DEF TypeOK
  <1>2. CASE ~hasCheckpoint \/ Len(samples) + Len(runSamples) > MaxIncremental
    BY <1>1, <1>2 DEF SaveModel, Entry
  <1>3. CASE ~(~hasCheckpoint \/ Len(samples) + Len(runSamples) > MaxIncremental)
    BY <1>1, <1>3 DEF SaveModel, Entry
  <1> QED
    BY <1>2, <1>3

(* What is known stays answered.                                           *)
LEMMA AnswersStep == TypeOK /\ Control /\ Answers /\ [Next]_vars => Answers'
  <1> SUFFICES ASSUME TypeOK, Control, Answers, [Next]_vars
               PROVE  Answers'
    OBVIOUS
  <1> USE Kinds
  <1>g. ASSUME Gone, UNCHANGED <<appVars, disk, ghosts>>
        PROVE  Answers'
    BY <1>g DEF Gone, NoRun, Answers, appVars, ghosts
  <1>s. ASSUME UNCHANGED <<app, rows, disk, checkpointIDs, runIDs, current, answered>>
        PROVE  Answers'
    BY <1>s DEF Answers
  <1>1. CASE AppStep
    BY <1>1 DEF AppStep, DefineModel, SubmitRow, PurgeQueue, DeleteModel, Answers,
                runnerVars, memory, runVars, ghosts
  <1>2. CASE RunnerStart
    BY <1>2 DEF RunnerStart, Answers, appVars, queueVars, runVars, ghosts
  <1>3. CASE TakeBatch
    BY <1>3 DEF TakeBatch, Answers, Control, appVars, memory, ghosts, TypeOK
  <1>4. CASE ProcessDefine
    <2>1. disk'.ids = disk.ids
      BY <1>4 DEF ProcessDefine, TypeOK, Entry
    <2> QED
      BY <1>4, <2>1 DEF ProcessDefine, Answers, appVars, queueVars, memory, runVars, ghosts
  <1>5. CASE ProcessDelete
    BY <1>5 DEF ProcessDelete, NoEntry, Answers, appVars, queueVars, memory, runVars, ghosts
  <1>6. CASE Answer
    BY <1>6 DEF Answer, Answers, appVars, queueVars, memory
  <1>7. CASE Save
    <2>1. runIDs \subseteq answered
      BY <1>7 DEF Save, Answers, Control, TypeOK
    <2>2. disk'.ids \in {disk.ids, runIDs}
      BY <1>7, SaveIDs DEF Save
    <2> QED
      BY <1>7, <2>1, <2>2 DEF Save, Answers, appVars, queueVars, runVars, ghosts
  <1>8. CASE AckOnDeadChannel \/ EndRun \/ Crash
    <2>1. CASE Gone
      BY <1>8, <2>1, <1>g DEF AckOnDeadChannel, EndRun, Crash
    <2>2. CASE AckOnDeadChannel /\ ~Gone
      BY <2>2, <1>s DEF AckOnDeadChannel, appVars, runVars, ghosts
    <2>3. CASE EndRun /\ ~Gone
      BY <2>3 DEF EndRun, NoRun, Answers, Control, appVars, ghosts
    <2> QED
      BY <1>8, <2>1, <2>2, <2>3 DEF Crash
  <1>9. CASE \/ SkipBatch \/ NoMoreBatches \/ ProcessRow \/ CleanUpAfterModelDeletion
             \/ Ack \/ DropConnection \/ Requeue \/ UNCHANGED vars
    BY <1>9, <1>s DEF SkipBatch, NoMoreBatches, ProcessRow, CleanUpAfterModelDeletion,
                Ack, DropConnection, Requeue, vars, appVars, runnerVars, runVars, ghosts
  <1> QED
    BY <1>1, <1>2, <1>3, <1>4, <1>5, <1>6, <1>7, <1>8, <1>9 DEF Next, RunnerStep

(* A row leaves the queue only answered, or with the queue.                *)
LEMMA AnsweredStep ==
  TypeOK /\ Control /\ Answers /\ NoRowUnanswered /\ [Next]_vars => NoRowUnanswered'
  <1> SUFFICES ASSUME TypeOK, Control, Answers, NoRowUnanswered, [Next]_vars
               PROVE  NoRowUnanswered'
    OBVIOUS
  <1>1. answered \subseteq answered'
    BY DEF Next, AppStep, DefineModel, SubmitRow, PurgeQueue, DeleteModel, RunnerStart,
           RunnerStep, SkipBatch, TakeBatch, NoMoreBatches, ProcessDefine, ProcessRow,
           ProcessDelete, CleanUpAfterModelDeletion, Answer, Save, Ack, AckOnDeadChannel,
           EndRun, Crash, DropConnection, Requeue, vars, ghosts
  <1>2. purged \subseteq purged'
    BY DEF Next, AppStep, DefineModel, SubmitRow, PurgeQueue, DeleteModel, RunnerStart,
           RunnerStep, SkipBatch, TakeBatch, NoMoreBatches, ProcessDefine, ProcessRow,
           ProcessDelete, CleanUpAfterModelDeletion, Answer, Save, Ack, AckOnDeadChannel,
           EndRun, Crash, DropConnection, Requeue, vars, appVars
  <1>3. ASSUME Pending \subseteq Pending' \cup answered \cup purged',
               UNCHANGED <<rows, queueExists>>
        PROVE  NoRowUnanswered'
    BY <1>1, <1>2, <1>3 DEF NoRowUnanswered, Submitted
  <1>4. CASE DefineModel
    BY <1>4, RunnerAssumption DEF DefineModel, Answers, NoRowUnanswered, Submitted
  <1>5. CASE SubmitRow
    <2>1. Pending' = Pending \cup {rows + 1}
      BY <1>5, PendingStep
    <2>2. Submitted' = Submitted \cup {rows + 1}
      BY <1>5 DEF SubmitRow, Submitted, TypeOK
    <2> QED
      BY <1>5, <2>1, <2>2, <1>1, <1>2 DEF SubmitRow, NoRowUnanswered
  <1>6. CASE PurgeQueue
    BY <1>6, <1>3, PendingStep DEF PurgeQueue
  <1>7. CASE DeleteModel
    BY <1>7, <1>3, PendingStep DEF DeleteModel
  <1>8. CASE SkipBatch
    <2>1. Head(ready) \in answered
      <3>1. Head(ready) \in Batches
        BY <1>8, RangeHeadTail DEF SkipBatch, TypeOK
      <3> QED
        BY <1>8, <3>1, Kinds DEF SkipBatch, Known, Answers, Control
    <2> QED
      BY <1>8, <2>1, <1>3, PendingStep DEF SkipBatch, appVars
  <1>9. CASE Ack
    <2>1. runIDs \subseteq answered
      BY <1>9, Kinds DEF Ack, Answers, Control, TypeOK
    <2> QED
      BY <1>9, <2>1, <1>3, PendingStep DEF Ack, appVars
  <1>10. CASE CleanUpAfterModelDeletion
    BY <1>10 DEF CleanUpAfterModelDeletion, NoRowUnanswered
  <1>11. CASE ~(\/ AppStep \/ SkipBatch \/ Ack \/ CleanUpAfterModelDeletion)
    <2>1. UNCHANGED <<rows, queueExists>>
      BY <1>11 DEF Next, RunnerStart, RunnerStep, TakeBatch, NoMoreBatches, ProcessDefine,
             ProcessRow, ProcessDelete, Answer, Save, AckOnDeadChannel, EndRun, Crash,
             DropConnection, Requeue, vars, appVars, queueVars
    <2> QED
      BY <1>11, <2>1, <1>3, PendingStep
  <1> QED
    BY <1>4, <1>5, <1>6, <1>7, <1>8, <1>9, <1>10, <1>11 DEF AppStep

-----------------------------------------------------------------------------
(* The checkpoint and the model in memory.                                 *)

(* Concatenation of rows is associative.                                   *)
LEMMA RowsAssociative ==
  \A s, t, u \in Seq(Rows) : (s \o t) \o u = s \o (t \o u)
  BY ConcatAssociative

(* After a full checkpoint and after an incremental one, what can be       *)
(* loaded is what the model is.                                            *)
LEMMA SaveRestores ==
  ASSUME TypeOK, SaveModel, samples = disk.samples, model = Recoverable \o runSamples
  PROVE  Recoverable' = model /\ samples' = disk'.samples
  <1>1. /\ disk \in Entry /\ model \in Seq(Rows) /\ samples \in Seq(Rows)
        /\ disk.full \in Seq(Rows) /\ runSamples \in Seq(Rows)
    BY DEF TypeOK, Entry
  <1>2. CASE ~hasCheckpoint \/ Len(samples) + Len(runSamples) > MaxIncremental
    <2>1. disk'.full = model /\ disk'.samples = <<>> /\ samples' = <<>>
      BY <1>1, <1>2 DEF SaveModel, Entry
    <2>2. model \o <<>> = model
      BY <1>1, ConcatEmptySeq
    <2> QED
      BY <2>1, <2>2 DEF Recoverable
  <1>3. CASE ~(~hasCheckpoint \/ Len(samples) + Len(runSamples) > MaxIncremental)
    <2>1. /\ disk'.full = disk.full /\ disk'.samples = samples \o runSamples
          /\ samples' = samples \o runSamples
      BY <1>1, <1>3 DEF SaveModel, Entry
    <2>2. (disk.full \o samples) \o runSamples = disk.full \o (samples \o runSamples)
      BY <1>1, RowsAssociative
    <2> QED
      BY <2>1, <2>2 DEF Recoverable
  <1> QED
    BY <1>2, <1>3

(* What a checkpoint holds is a sequence of rows.                          *)
LEMMA RecoverableType == TypeOK => Recoverable \in Seq(Rows)
  <1>1. TypeOK => disk.full \in Seq(Rows) /\ disk.samples \in Seq(Rows)
    BY DEF TypeOK, Entry
  <1> QED
    BY <1>1, ConcatProperties DEF Recoverable

(* The model in memory stays the checkpoint and what came since.           *)
LEMMA RestoresStep == TypeOK /\ Control /\ Restores /\ [Next]_vars => Restores'
  <1> SUFFICES ASSUME TypeOK, Control, Restores, [Next]_vars
               PROVE  Restores'
    OBVIOUS
  <1>r. /\ Recoverable \in Seq(Rows) /\ Recoverable \o <<>> = Recoverable
        /\ runSamples \in Seq(Rows) /\ model \in Seq(Rows)
    BY RecoverableType, ConcatEmptySeq DEF TypeOK
  <1>g. ASSUME Gone
        PROVE  Restores'
    BY <1>g DEF Gone, NoRun, Restores
  <1>s. ASSUME UNCHANGED <<pc, memory, runSamples, done, disk>>
        PROVE  Restores'
    BY <1>s DEF Restores, Recoverable, memory, Saving
  <1>1. CASE RunnerStart
    <2>1. /\ pc' = "poll" /\ samples' = disk'.samples /\ ~loaded' /\ runSamples' = <<>>
      BY <1>1 DEF RunnerStart, Control, runVars
    <2> QED
      BY <2>1 DEF Restores
  <1>2. CASE TakeBatch
    BY <1>2 DEF TakeBatch, Restores, Recoverable, memory
  <1>3. CASE NoMoreBatches
    BY <1>3, <1>r DEF NoMoreBatches, Restores, Control, Recoverable, memory, runVars
  <1>4. CASE ProcessDefine
    <2>1. disk'.full = disk.full /\ disk'.samples = disk.samples
      BY <1>4 DEF ProcessDefine, TypeOK, Entry
    <2>2. Recoverable' = Recoverable
      BY <2>1 DEF Recoverable
    <2> QED
      BY <1>4, <2>1, <2>2 DEF ProcessDefine, Restores, memory, runVars
  <1>5. CASE ProcessRow
    <2>1. Recoverable' = Recoverable /\ samples' = samples /\ disk' = disk /\ pc' = "answer"
          /\ pc = "process" /\ done' = done /\ ~done /\ samples = disk.samples
      BY <1>5 DEF ProcessRow, Recoverable, Control, Restores
    <2>2. CASE ~disk.defined
      BY <1>5, <2>1, <2>2 DEF ProcessRow, Restores
    <2>3. CASE disk.defined
      <3> DEFINE before == IF loaded THEN model ELSE disk.full \o samples
      <3>1. before = Recoverable \o runSamples
        BY <2>1, <1>r DEF Restores, Recoverable
      <3>2. loaded'
        BY <1>5, <2>3 DEF ProcessRow
      <3>3. CASE model' = before /\ runSamples' = runSamples
        BY <2>1, <3>1, <3>2, <3>3 DEF Restores
      <3>4. CASE /\ model' = Append(before, current)
                 /\ runSamples' = Append(runSamples, current)
        <4>1. current \in Rows
          BY <1>5 DEF ProcessRow
        <4>2. /\ before \in Seq(Rows) /\ <<current>> \in Seq(Rows)
              /\ Append(runSamples, current) = runSamples \o <<current>>
          <5>1. before \in Seq(Rows)
            BY <3>1, <1>r, ConcatProperties
          <5>2. <<current>> \in Seq(Rows)
            BY <4>1
          <5>3. Append(runSamples, current) = runSamples \o <<current>>
            BY <4>1, <1>r, AppendIsConcat
          <5> QED
            BY <5>1, <5>2, <5>3
        <4>3. Append(before, current) = before \o <<current>>
          BY <4>1, <4>2, AppendIsConcat
        <4>4. (Recoverable \o runSamples) \o <<current>>
                = Recoverable \o (runSamples \o <<current>>)
          BY <4>2, <1>r, RowsAssociative
        <4>5. model' = Recoverable' \o runSamples'
          BY <2>1, <3>1, <3>4, <4>2, <4>3, <4>4
        <4> QED
          BY <2>1, <3>2, <4>5 DEF Restores
      <3> QED
        BY <1>5, <2>3, <3>3, <3>4 DEF ProcessRow
    <2> QED
      BY <2>2, <2>3
  <1>6. CASE ProcessDelete
    BY <1>6 DEF ProcessDelete, Restores, memory, runVars
  <1>7. CASE CleanUpAfterModelDeletion
    BY <1>7 DEF CleanUpAfterModelDeletion, Restores, Control, NoEntry
  <1>8. CASE Answer
    BY <1>8 DEF Answer, Restores, Recoverable, memory
  <1>9. CASE Save
    <2>1. CASE loaded /\ SaveModel
      <3>1. Recoverable' = model /\ samples' = disk'.samples
        BY <1>9, <2>1, SaveRestores DEF Save, Restores
      <3> QED
        BY <1>9, <2>1, <3>1 DEF Save, Restores, runVars
    <2>2. CASE ~loaded /\ UNCHANGED <<disk, hasCheckpoint, samples>>
      BY <1>9, <2>2 DEF Save, Restores, runVars
    <2> QED
      BY <1>9, <2>1, <2>2 DEF Save
  <1>10. CASE Ack
    BY <1>10 DEF Ack, Restores, Recoverable, memory, runVars
  <1>11. CASE AckOnDeadChannel
    <2>1. CASE /\ pc' = "check"
               /\ UNCHANGED <<limbo, unacked, memory, checkpointIDs, runVars, done>>
      BY <1>11, <2>1 DEF AckOnDeadChannel, Restores, Recoverable, memory, runVars
    <2> QED
      BY <1>11, <2>1, <1>g DEF AckOnDeadChannel
  <1>12. CASE EndRun
    <2>1. CASE ~done /\ pc' = "poll" /\ NoRun /\ UNCHANGED <<memory, checkpointIDs, done>>
      BY <1>12, <2>1, <1>r DEF EndRun, NoRun, Restores, Recoverable, memory
    <2> QED
      BY <1>12, <2>1, <1>g DEF EndRun
  <1>13. CASE Crash
    BY <1>13, <1>g DEF Crash
  <1>14. CASE AppStep \/ SkipBatch \/ DropConnection \/ Requeue \/ UNCHANGED vars
    BY <1>14, <1>s DEF AppStep, DefineModel, SubmitRow, PurgeQueue, DeleteModel, SkipBatch,
                DropConnection, Requeue, vars, runnerVars, runVars
  <1> QED
    BY <1>1, <1>2, <1>3, <1>4, <1>5, <1>6, <1>7, <1>8, <1>9, <1>10, <1>11, <1>12,
       <1>13, <1>14 DEF Next, RunnerStep

(* The checkpoint is a prefix of the model in memory, and the whole of it  *)
(* right after a save.                                                     *)
LEMMA RestoresMatches == TypeOK /\ Control /\ Restores => CheckpointMatchesModel
  <1> SUFFICES ASSUME TypeOK, Control, Restores, loaded, disk.defined
               PROVE  /\ Len(Recoverable) <= Len(model)
                      /\ \A i \in DOMAIN Recoverable : model[i] = Recoverable[i]
                      /\ pc = "ack" => Len(Recoverable) = Len(model)
    BY DEF CheckpointMatchesModel
  <1>1. pc # "off" /\ pc # "cleanup"
    BY DEF Control, NoEntry
  <1>2. /\ Recoverable \in Seq(Rows) /\ runSamples \in Seq(Rows)
        /\ Len(Recoverable) \in Nat /\ Len(runSamples) \in Nat
        /\ DOMAIN Recoverable = 1 .. Len(Recoverable)
    BY RecoverableType, LenProperties DEF TypeOK
  <1>3. CASE model = Recoverable \o runSamples /\ pc # "ack"
    <2>1. /\ Len(Recoverable \o runSamples) = Len(Recoverable) + Len(runSamples)
          /\ \A i \in 1 .. Len(Recoverable) + Len(runSamples) :
               (Recoverable \o runSamples)[i] = IF i <= Len(Recoverable) THEN Recoverable[i]
                                                ELSE runSamples[i - Len(Recoverable)]
      BY <1>2, ConcatProperties
    <2>2. /\ Len(model) = Len(Recoverable) + Len(runSamples)
          /\ \A i \in 1 .. Len(Recoverable) : model[i] = Recoverable[i]
      BY <1>2, <1>3, <2>1
    <2>3. Len(Recoverable) <= Len(model)
      BY <1>2, <2>2
    <2> QED
      BY <1>2, <1>3, <2>2, <2>3
  <1>4. CASE model = Recoverable
    BY <1>2, <1>4
  <1> QED
    BY <1>1, <1>3, <1>4 DEF Restores, TypeOK

-----------------------------------------------------------------------------
(* Where the contributions are.                                            *)

(* The command that deletes the model is nowhere before it is submitted.   *)
LEMMA DeleteStep ==
  TypeOK /\ Control /\ Keeps /\ [Next]_vars =>
    (app' # "deleted" => Delete \notin Pending' \cup runIDs')
  <1> SUFFICES ASSUME TypeOK, Control, Keeps, [Next]_vars, app' # "deleted"
               PROVE  Delete \notin Pending' \cup runIDs'
    OBVIOUS
  <1> USE Kinds
  <1>1. app # "deleted"
    BY DEF Next, AppStep, DefineModel, SubmitRow, PurgeQueue, DeleteModel, RunnerStart,
           RunnerStep, SkipBatch, TakeBatch, NoMoreBatches, ProcessDefine, ProcessRow,
           ProcessDelete, CleanUpAfterModelDeletion, Answer, Save, Ack, AckOnDeadChannel,
           EndRun, Crash, DropConnection, Requeue, vars, appVars
  <1>2. Delete \notin Pending \cup runIDs
    BY <1>1 DEF Keeps
  <1>3. Delete \notin Pending'
    <2>1. CASE AppStep
      BY <2>1, <1>2, PendingStep DEF AppStep, DeleteModel
    <2>2. CASE ~AppStep
      <3>1. Pending' \subseteq Pending
        BY <2>2, PendingStep
      <3> QED
        BY <3>1, <1>2
    <2> QED
      BY <2>1, <2>2
  <1>4. Delete \notin runIDs'
    <2>1. CASE TakeBatch
      <3>1. Head(ready) \in Pending
        BY <2>1, RangeHeadTail DEF TakeBatch, Pending, TypeOK
      <3> QED
        BY <2>1, <3>1, <1>2 DEF TakeBatch
    <2>2. CASE ~TakeBatch
      <3>1. runIDs' \subseteq runIDs
        BY <2>2 DEF Next, AppStep, DefineModel, SubmitRow, PurgeQueue, DeleteModel,
           RunnerStart, RunnerStep, SkipBatch, NoMoreBatches, ProcessDefine, ProcessRow,
           ProcessDelete, CleanUpAfterModelDeletion, Answer, Save, Ack, AckOnDeadChannel,
           EndRun, Crash, DropConnection, Requeue, vars, runnerVars, runVars, Gone, NoRun
      <3> QED
        BY <3>1, <1>2
    <2> QED
      BY <2>1, <2>2
  <1> QED
    BY <1>3, <1>4

(* A known row stays in the checkpoint, in the samples of the run, or      *)
(* answered with an error.                                                 *)
LEMMA KeepsStep == TypeOK /\ Control /\ Restores /\ Keeps /\ [Next]_vars => Keeps'
  <1> SUFFICES ASSUME TypeOK, Control, Restores, Keeps, [Next]_vars, Undeleted'
               PROVE  /\ ~loaded' => runSamples' = <<>>
                      /\ (disk'.ids \cup checkpointIDs') \cap Rows
                           \subseteq RangeOf(Recoverable') \cup failed'
                      /\ runIDs' \cap Rows \subseteq RangeOf(Recoverable')
                           \cup RangeOf(runSamples') \cup failed' \cup InHand'
                      /\ pc' \in {"ack", "check"} =>
                           RangeOf(runSamples') \subseteq RangeOf(Recoverable')
                      /\ drops' = 0 /\ Saving' =>
                           RangeOf(runSamples') \cup InHand' \subseteq RangeOf(unacked')
    BY DeleteStep DEF Keeps
  <1> USE RangeEmpty, Kinds
  <1>1. Undeleted
    BY DEF Undeleted, Next, AppStep, DefineModel, SubmitRow, PurgeQueue, DeleteModel,
           RunnerStart, RunnerStep, SkipBatch, TakeBatch, NoMoreBatches, ProcessDefine,
           ProcessRow, ProcessDelete, CleanUpAfterModelDeletion, Answer, Save, Ack,
           AckOnDeadChannel, EndRun, Crash, DropConnection, Requeue, vars, appVars
  <1>2. /\ ~loaded => runSamples = <<>>
        /\ (disk.ids \cup checkpointIDs) \cap Rows \subseteq RangeOf(Recoverable) \cup failed
        /\ runIDs \cap Rows
             \subseteq RangeOf(Recoverable) \cup RangeOf(runSamples) \cup failed \cup InHand
        /\ pc \in {"ack", "check"} => RangeOf(runSamples) \subseteq RangeOf(Recoverable)
        /\ drops = 0 /\ Saving =>
             RangeOf(runSamples) \cup InHand \subseteq RangeOf(unacked)
        /\ Delete \notin Pending \cup runIDs
    BY <1>1 DEF Keeps, Undeleted
  <1>s. ASSUME UNCHANGED <<disk, runIDs, checkpointIDs, runSamples, loaded, failed, drops,
                           pc, current, unacked>>
        PROVE  Keeps'
    BY <1>s, <1>2, DeleteStep DEF Keeps, Recoverable, InHand, Saving
  <1>g. ASSUME Gone, UNCHANGED <<disk, ghosts>>
        PROVE  Keeps'
    BY <1>g, <1>2, DeleteStep DEF Keeps, Gone, NoRun, Recoverable, InHand, Saving, ghosts
  <1>3. CASE AppStep \/ SkipBatch \/ Requeue \/ UNCHANGED vars
    <2>1. UNCHANGED <<disk, runIDs, checkpointIDs, runSamples, loaded, failed, drops,
                      pc, current, unacked>>
      BY <1>3 DEF AppStep, DefineModel, SubmitRow, PurgeQueue, DeleteModel, SkipBatch,
                  Requeue, vars, runnerVars, memory, runVars, ghosts, faultVars, queueVars
    <2> QED
      BY <2>1, <1>2 DEF Recoverable, InHand, Saving
  <1>4. CASE RunnerStart
    <2>1. /\ runSamples' = <<>> /\ runIDs' = {} /\ pc' = "poll" /\ checkpointIDs' = disk'.ids
          /\ disk' = disk /\ failed' = failed
      BY <1>4 DEF RunnerStart, Control, runVars, ghosts
    <2> QED
      BY <2>1, <1>2 DEF Recoverable, InHand
  <1>5. CASE TakeBatch
    <2>1. /\ runIDs' = runIDs \cup {Head(ready)} /\ InHand' = {Head(ready)}
          /\ RangeOf(unacked') = RangeOf(unacked) \cup {Head(ready)}
          /\ UNCHANGED <<disk, checkpointIDs, runSamples, loaded, failed, drops>>
          /\ InHand = {} /\ Saving /\ pc' = "process"
      BY <1>5, PendingStep DEF TakeBatch, InHand, Saving, memory, faultVars
    <2> QED
      BY <2>1, <1>2 DEF Recoverable
  <1>6. CASE NoMoreBatches
    <2>1. /\ UNCHANGED <<disk, checkpointIDs, runSamples, runIDs, loaded, failed, drops, unacked>>
          /\ InHand = {} /\ InHand' = {} /\ Saving /\ pc' \in {"check", "save"}
          /\ pc' = "check" => runSamples = <<>>
      BY <1>6 DEF NoMoreBatches, InHand, Saving, Control, memory, runVars, ghosts, faultVars,
                  queueVars
    <2> QED
      BY <2>1, <1>2 DEF Recoverable, Saving
  <1>7. CASE ProcessDefine
    <2>1. /\ disk'.full = disk.full /\ disk'.samples = disk.samples /\ disk'.ids = disk.ids
      BY <1>7 DEF ProcessDefine, TypeOK, Entry
    <2>2. /\ UNCHANGED <<checkpointIDs, runSamples, runIDs, loaded, failed, drops, unacked>>
          /\ InHand = {Define} /\ InHand' = {} /\ Saving /\ pc' = "answer"
      BY <1>7 DEF ProcessDefine, InHand, Saving, memory, runVars, ghosts, faultVars, queueVars
    <2> QED
      BY <2>1, <2>2, <1>2 DEF Recoverable, Saving
  <1>8. CASE ProcessRow
    <2>1. /\ UNCHANGED <<disk, checkpointIDs, runIDs, drops, unacked>>
          /\ InHand = {current} /\ InHand' = {} /\ Saving /\ pc' = "answer"
          /\ current \in Rows
      BY <1>8 DEF ProcessRow, InHand, Saving, faultVars, queueVars
    <2>2. \/ /\ runSamples' = Append(runSamples, current) /\ failed' = failed /\ loaded'
          \/ /\ runSamples' = runSamples /\ failed' = failed \cup {current}
             /\ loaded' \/ loaded' = loaded
      BY <1>8 DEF ProcessRow
    <2>3. RangeOf(Append(runSamples, current)) = RangeOf(runSamples) \cup {current}
      BY <2>1, RangeAppend DEF TypeOK
    <2> QED
      BY <2>1, <2>2, <2>3, <1>2 DEF Recoverable
  <1>9. CASE ProcessDelete \/ CleanUpAfterModelDeletion
    BY <1>9, <1>2 DEF ProcessDelete, CleanUpAfterModelDeletion, Control
  <1>10. CASE Answer
    <2>1. /\ UNCHANGED <<disk, checkpointIDs, runSamples, runIDs, loaded, failed, drops, unacked>>
          /\ InHand = {} /\ InHand' = {} /\ Saving /\ pc' \in {"poll", "save"}
      BY <1>10 DEF Answer, InHand, Saving, memory, faultVars, queueVars
    <2> QED
      BY <2>1, <1>2 DEF Recoverable
  <1>11. CASE Save
    <2>1. /\ UNCHANGED <<runSamples, runIDs, loaded, failed, drops, unacked>>
          /\ checkpointIDs' = runIDs /\ InHand = {} /\ InHand' = {} /\ pc' = "ack"
      BY <1>11 DEF Save, InHand, runVars, ghosts, faultVars, queueVars
    <2>2. CASE loaded /\ SaveModel
      <3>1. Recoverable' = Recoverable \o runSamples /\ disk'.ids = runIDs
        BY <1>11, <2>2, SaveRestores, SaveIDs DEF Save, Restores
      <3>2. RangeOf(Recoverable') = RangeOf(Recoverable) \cup RangeOf(runSamples)
        BY <3>1, RecoverableType, RangeConcat DEF TypeOK
      <3> QED
        BY <2>1, <2>2, <3>1, <3>2, <1>2 DEF Saving
    <2>3. CASE ~loaded /\ UNCHANGED <<disk, hasCheckpoint, samples>>
      BY <2>1, <2>3, <1>2 DEF Recoverable, Saving
    <2> QED
      BY <1>11, <2>2, <2>3 DEF Save
  <1>12. CASE Ack
    <2>1. /\ UNCHANGED <<disk, checkpointIDs, runSamples, runIDs, loaded, failed>>
          /\ InHand = {} /\ InHand' = {} /\ pc = "ack" /\ pc' = "check"
      BY <1>12 DEF Ack, InHand, memory, runVars, ghosts
    <2> QED
      BY <2>1, <1>2 DEF Recoverable, Saving
  <1>13. CASE AckOnDeadChannel
    <2>1. CASE Gone
      BY <1>13, <2>1, <1>g DEF AckOnDeadChannel, Keeps
    <2>2. CASE /\ pc' = "check"
               /\ UNCHANGED <<limbo, unacked, memory, checkpointIDs, runVars, done>>
      <3>1. /\ UNCHANGED <<disk, checkpointIDs, runSamples, runIDs, loaded, failed>>
            /\ InHand = {} /\ InHand' = {} /\ pc = "ack" /\ pc' = "check"
        BY <1>13, <2>2 DEF AckOnDeadChannel, InHand, memory, runVars, ghosts
      <3> QED
        BY <3>1, <1>2 DEF Recoverable, Saving
    <2> QED
      BY <1>13, <2>1, <2>2 DEF AckOnDeadChannel
  <1>14. CASE EndRun
    <2>1. CASE Gone
      BY <1>14, <2>1, <1>g DEF EndRun, Keeps
    <2>2. CASE ~done /\ pc' = "poll" /\ NoRun /\ UNCHANGED <<memory, checkpointIDs, done>>
      <3>1. /\ UNCHANGED <<disk, checkpointIDs, loaded, failed>>
            /\ runSamples' = <<>> /\ runIDs' = {} /\ InHand' = {} /\ pc' = "poll"
        BY <1>14, <2>2 DEF EndRun, NoRun, InHand, memory, ghosts
      <3> QED
        BY <3>1, <1>2 DEF Recoverable
    <2> QED
      BY <1>14, <2>1, <2>2 DEF EndRun
  <1>15. CASE Crash
    BY <1>15, <1>g DEF Crash, Keeps
  <1>16. CASE DropConnection
    <2>1. /\ UNCHANGED <<disk, checkpointIDs, runSamples, runIDs, loaded, failed, pc, current>>
          /\ drops' # 0
      BY <1>16 DEF DropConnection, TypeOK, memory, ghosts
    <2> QED
      BY <2>1, <1>2 DEF Recoverable, InHand
  <1> QED
    BY <1>3, <1>4, <1>5, <1>6, <1>7, <1>8, <1>9, <1>10, <1>11, <1>12, <1>13, <1>14,
       <1>15, <1>16 DEF Next, RunnerStep

(* What the model in memory contains.                                      *)
LEMMA ModelContains ==
  ASSUME TypeOK, Control, Restores, Keeps, Undeleted
  PROVE  /\ Saving => RangeOf(model) \cup RangeOf(Recoverable)
                         = RangeOf(runSamples) \cup RangeOf(Recoverable)
         /\ pc \in {"ack", "check"} => RangeOf(model) \subseteq RangeOf(Recoverable)
         /\ pc # "cleanup"
  <1>1. RangeOf(Recoverable \o runSamples) = RangeOf(Recoverable) \cup RangeOf(runSamples)
    BY RecoverableType, RangeConcat DEF TypeOK
  <1>2. ASSUME Saving
        PROVE  RangeOf(model) \cup RangeOf(Recoverable)
                 = RangeOf(runSamples) \cup RangeOf(Recoverable)
    <2>1. CASE loaded
      BY <1>1, <1>2, <2>1 DEF Restores, Saving
    <2>2. CASE ~loaded
      BY <2>2 DEF Keeps, Control
    <2> QED
      BY <2>1, <2>2
  <1>3. ASSUME pc \in {"ack", "check"}
        PROVE  RangeOf(model) \subseteq RangeOf(Recoverable)
    <2>1. CASE loaded
      BY <1>3, <2>1 DEF Restores
    <2>2. CASE ~loaded
      BY <2>2, RangeEmpty DEF Control
    <2> QED
      BY <2>1, <2>2
  <1>4. pc # "cleanup"
    BY Kinds DEF Keeps, Undeleted, Control
  <1> QED
    BY <1>2, <1>3, <1>4

(* No step loses the contribution of a row, as long as no more than one    *)
(* kind of failure has happened.                                           *)
LEMMA LossStep ==
  TypeOK /\ Control /\ Restores /\ Keeps /\ OneFailureKindLosesNothing /\ [Next]_vars =>
    OneFailureKindLosesNothing'
  <1> SUFFICES ASSUME TypeOK, Control, Restores, Keeps, OneFailureKindLosesNothing,
                      [Next]_vars, crashes' = 0 \/ drops' = 0, Undeleted',
                      NEW b \in Submitted'
               PROVE  b \in RangeOf(Recoverable') \cup RangeOf(model') \cup Pending' \cup failed'
    BY DEF OneFailureKindLosesNothing, NoUpdateLost, Undeleted
  <1> DEFINE Held == RangeOf(Recoverable) \cup RangeOf(model)
  <1> USE RangeEmpty, Kinds
  <1>1. /\ Undeleted
        /\ crashes' = 0 => crashes = 0
        /\ drops' = 0 => drops = 0
    <2>1. Undeleted
      BY DEF Undeleted, Next, AppStep, DefineModel, SubmitRow, PurgeQueue, DeleteModel,
             RunnerStart, RunnerStep, SkipBatch, TakeBatch, NoMoreBatches, ProcessDefine,
             ProcessRow, ProcessDelete, CleanUpAfterModelDeletion, Answer, Save, Ack,
             AckOnDeadChannel, EndRun, Crash, DropConnection, Requeue, vars, appVars
    <2>2. CASE Crash
      BY <2>1, <2>2 DEF Crash, TypeOK
    <2>3. CASE DropConnection
      BY <2>1, <2>3 DEF DropConnection, TypeOK
    <2>4. CASE ~Crash /\ ~DropConnection
      <3>1. UNCHANGED faultVars
        BY <2>4 DEF Next, AppStep, DefineModel, SubmitRow, PurgeQueue, DeleteModel,
             RunnerStart, RunnerStep, SkipBatch, TakeBatch, NoMoreBatches, ProcessDefine,
             ProcessRow, ProcessDelete, CleanUpAfterModelDeletion, Answer, Save, Ack,
             AckOnDeadChannel, EndRun, Requeue, vars
      <3> QED
        BY <2>1, <3>1 DEF faultVars
    <2> QED
      BY <2>2, <2>3, <2>4
  <1>2. Submitted \subseteq Held \cup Pending \cup failed
    BY <1>1 DEF OneFailureKindLosesNothing, NoUpdateLost, Undeleted
  <1>3. Submitted \subseteq Rows
    BY RunnerAssumption DEF Submitted, Rows, TypeOK
  <1>4. ASSUME UNCHANGED rows, Submitted \subseteq Held' \cup Pending' \cup failed'
        PROVE  b \in Held' \cup Pending' \cup failed'
    BY <1>4 DEF Submitted
  <1>k. /\ Saving => Held = RangeOf(runSamples) \cup RangeOf(Recoverable)
        /\ pc \in {"ack", "check"} => RangeOf(model) \subseteq RangeOf(Recoverable)
        /\ pc # "cleanup"
    BY <1>1, ModelContains
  <1>5. CASE DefineModel \/ RunnerStart \/ TakeBatch \/ NoMoreBatches \/ Answer
             \/ DropConnection \/ Requeue \/ UNCHANGED vars
    <2>1. UNCHANGED <<rows, disk, model, failed>>
      BY <1>5 DEF DefineModel, RunnerStart, TakeBatch, NoMoreBatches, Answer, DropConnection,
                  Requeue, vars, appVars, runnerVars, memory, ghosts
    <2>2. Pending \subseteq Pending'
      <3>1. CASE DefineModel
        BY <3>1, PendingStep
      <3>2. CASE ~DefineModel
        <4>1. ~(\/ AppStep \/ SkipBatch \/ Ack \/ CleanUpAfterModelDeletion) \/ TakeBatch
          BY <1>5, <3>2 DEF AppStep, SubmitRow, PurgeQueue, DeleteModel, SkipBatch, Ack,
             CleanUpAfterModelDeletion, RunnerStart, NoMoreBatches, Answer, DropConnection,
             Requeue, DefineModel, vars, appVars, queueVars, runnerVars, faultVars, TypeOK
        <4> QED
          BY <4>1, PendingStep
      <3> QED
        BY <3>1, <3>2
    <2> QED
      BY <2>1, <2>2, <1>2, <1>4 DEF Recoverable
  <1>6. CASE SubmitRow
    <2>1. Pending' = Pending \cup {rows + 1}
      BY <1>6, PendingStep
    <2>2. Submitted' = Submitted \cup {rows + 1}
      BY <1>6 DEF SubmitRow, Submitted, TypeOK
    <2>3. UNCHANGED <<disk, model, failed>>
      BY <1>6 DEF SubmitRow, runnerVars, memory, ghosts
    <2> QED
      BY <2>1, <2>2, <2>3, <1>2 DEF Recoverable
  <1>7. CASE PurgeQueue \/ DeleteModel
    BY <1>7 DEF PurgeQueue, DeleteModel, Undeleted
  <1>8. CASE SkipBatch
    <2>1. /\ Head(ready) \in Rows => Head(ready) \in Held \cup failed
          /\ Head(ready) \in runIDs \cup checkpointIDs /\ Saving /\ InHand = {}
      BY <1>8, <1>1, <1>k DEF SkipBatch, Known, Keeps, Saving, InHand
    <2>2. UNCHANGED <<rows, disk, model, failed>>
      BY <1>8 DEF SkipBatch, appVars, runnerVars, memory
    <2> QED
      BY <1>8, <2>1, <2>2, <1>2, <1>3, <1>4, PendingStep DEF Recoverable
  <1>9. CASE ProcessDefine
    <2>1. Recoverable' = Recoverable
      <3>1. disk'.full = disk.full /\ disk'.samples = disk.samples
        BY <1>9 DEF ProcessDefine, TypeOK, Entry
      <3> QED
        BY <3>1 DEF Recoverable
    <2>2. UNCHANGED <<rows, model, failed, ready, unacked, limbo>>
      BY <1>9 DEF ProcessDefine, appVars, memory, ghosts, queueVars
    <2> QED
      BY <2>1, <2>2, <1>2, <1>4 DEF Pending
  <1>10. CASE ProcessRow
    <2>1. UNCHANGED <<rows, disk, ready, unacked, limbo>> /\ failed \subseteq failed'
          /\ current \in Rows
      BY <1>10 DEF ProcessRow, appVars, queueVars
    <2>2. RangeOf(model) \subseteq RangeOf(model')
      <3>1. RangeOf(Append(model, current)) = RangeOf(model) \cup {current}
        BY <2>1, RangeAppend DEF TypeOK
      <3>2. CASE loaded
        BY <1>10, <3>1, <3>2 DEF ProcessRow
      <3>3. CASE ~loaded
        BY <3>3 DEF Control
      <3> QED
        BY <3>2, <3>3
    <2> QED
      BY <2>1, <2>2, <1>2, <1>4 DEF Recoverable, Pending
  <1>11. CASE ProcessDelete \/ CleanUpAfterModelDeletion
    BY <1>11, <1>1 DEF ProcessDelete, CleanUpAfterModelDeletion, Control, Keeps, Undeleted
  <1>12. CASE Save
    <2>1. UNCHANGED <<rows, model, failed, ready, unacked, limbo>>
      BY <1>12 DEF Save, appVars, queueVars, ghosts
    <2>2. RangeOf(Recoverable) \subseteq RangeOf(Recoverable')
      <3>1. CASE loaded /\ SaveModel
        <4>1. Recoverable' = Recoverable \o runSamples
          BY <1>12, <3>1, SaveRestores DEF Save, Restores
        <4>2. RangeOf(Recoverable') = RangeOf(Recoverable) \cup RangeOf(runSamples)
          BY <4>1, RecoverableType, RangeConcat DEF TypeOK
        <4> QED
          BY <4>2
      <3>2. CASE UNCHANGED disk
        BY <3>2 DEF Recoverable
      <3> QED
        BY <1>12, <3>1, <3>2 DEF Save
    <2> QED
      BY <2>1, <2>2, <1>2, <1>4 DEF Pending
  <1>13. CASE Ack
    <2>1. UNCHANGED <<rows, disk, model, failed>> /\ pc = "ack" /\ InHand = {}
      BY <1>13 DEF Ack, appVars, memory, ghosts, InHand
    <2>2. runIDs \cap Rows \subseteq RangeOf(Recoverable) \cup failed
      BY <2>1, <1>1 DEF Keeps
    <2> QED
      BY <1>13, <2>1, <2>2, <1>2, <1>3, <1>4, PendingStep DEF Recoverable
  <1>14. ASSUME Gone, UNCHANGED <<rows, disk, failed>>, Pending \subseteq Pending',
                RangeOf(model) \subseteq RangeOf(Recoverable) \cup Pending
         PROVE  b \in Held' \cup Pending' \cup failed'
    BY <1>14, <1>2, <1>4 DEF Recoverable
  <1>15. CASE AckOnDeadChannel
    <2>0. UNCHANGED <<rows, disk, failed>> /\ pc = "ack"
      BY <1>15 DEF AckOnDeadChannel, appVars, ghosts
    <2>1. Pending' = Pending
      <3>1. ~(\/ AppStep \/ SkipBatch \/ Ack \/ CleanUpAfterModelDeletion)
        BY <1>15 DEF AckOnDeadChannel, AppStep, DefineModel, SubmitRow, PurgeQueue,
           DeleteModel, SkipBatch, Ack, CleanUpAfterModelDeletion, appVars, TypeOK
      <3> QED
        BY <3>1, PendingStep
    <2>2. CASE Gone
      BY <2>0, <2>1, <2>2, <1>14, <1>k
    <2>3. CASE UNCHANGED memory
      BY <2>0, <2>1, <2>3, <1>2, <1>4 DEF memory, Recoverable
    <2> QED
      BY <1>15, <2>2, <2>3 DEF AckOnDeadChannel
  <1>16. CASE EndRun
    <2>0. UNCHANGED <<rows, disk, failed>> /\ pc = "check"
      BY <1>16 DEF EndRun, appVars, ghosts
    <2>1. Pending' = Pending
      <3>1. ready' = ready
        BY <1>16 DEF EndRun
      <3> QED
        BY <1>16, <3>1, GiveUp DEF EndRun, Pending
    <2>2. CASE Gone
      BY <2>0, <2>1, <2>2, <1>14, <1>k
    <2>3. CASE UNCHANGED memory
      BY <2>0, <2>1, <2>3, <1>2, <1>4 DEF memory, Recoverable
    <2> QED
      BY <1>16, <2>2, <2>3 DEF EndRun
  <1>17. CASE Crash
    <2>0. UNCHANGED <<rows, disk, failed, ready>> /\ Gone /\ drops = 0 /\ pc # "off"
      BY <1>17, <1>1 DEF Crash, appVars, ghosts, TypeOK
    <2>1. Pending' = Pending
      BY <1>17, <2>0, GiveUp DEF Crash, Pending
    <2>2. RangeOf(model) \subseteq RangeOf(Recoverable) \cup Pending
      <3>1. CASE Saving
        <4>1. RangeOf(runSamples) \subseteq Pending
          BY <2>0, <3>1, <1>1 DEF Keeps, Pending
        <4> QED
          BY <3>1, <4>1, <1>k
      <3>2. CASE pc \in {"ack", "check"}
        BY <3>2, <1>k
      <3> QED
        BY <2>0, <3>1, <3>2, <1>k DEF Saving, TypeOK
    <2> QED
      BY <2>0, <2>1, <2>2, <1>14
  <1> QED
    BY <1>5, <1>6, <1>7, <1>8, <1>9, <1>10, <1>11, <1>12, <1>13, <1>15, <1>16, <1>17
       DEF Next, AppStep, RunnerStep

-----------------------------------------------------------------------------
(* The order of the queue.                                                 *)

(* The rank of a batch is a number, a row is its own, and batches of one   *)
(* rank are the same.                                                      *)
LEMMA Ranks ==
  /\ \A b \in Batches : Rank(b) \in Nat /\ Rank(b) <= Rank(Delete)
  /\ \A r \in Rows : Rank(r) = r
  /\ Rank(Define) = 0 /\ Rank(Delete) = MaxRows + 1
  /\ \A a, b \in Batches : Rank(a) = Rank(b) => a = b
  BY RunnerAssumption, Kinds DEF Rank, Batches, Rows

(* An empty queue is sorted.                                               *)
LEMMA SortedEmpty == Sorted(<<>>)
  BY DEF Sorted

(* So is a sorted queue with a batch at its end that comes no earlier.     *)
LEMMA SortedAppend ==
  ASSUME NEW q \in Seq(Batches), NEW b \in Batches, Sorted(q),
         \A a \in RangeOf(q) : Rank(a) <= Rank(b)
  PROVE  Sorted(Append(q, b))
  <1>1. /\ Append(q, b) \in Seq(Batches) /\ Len(Append(q, b)) = Len(q) + 1
        /\ \A i \in 1 .. Len(q) : Append(q, b)[i] = q[i]
        /\ Append(q, b)[Len(q) + 1] = b
    BY AppendProperties
  <1>2. /\ Len(q) \in Nat /\ DOMAIN q = 1 .. Len(q)
        /\ DOMAIN Append(q, b) = 1 .. Len(q) + 1
    BY <1>1, LenProperties
  <1>3. ASSUME NEW i \in 1 .. Len(q) + 1, NEW j \in 1 .. Len(q) + 1, i <= j
        PROVE  Rank(Append(q, b)[i]) <= Rank(Append(q, b)[j])
    <2>1. CASE j \in 1 .. Len(q)
      <3>1. i \in 1 .. Len(q)
        BY <1>3, <2>1, <1>2
      <3> QED
        BY <1>1, <1>2, <1>3, <2>1, <3>1 DEF Sorted
    <2>2. CASE j = Len(q) + 1 /\ i \in 1 .. Len(q)
      <3>1. q[i] \in RangeOf(q)
        BY <2>2, <1>2 DEF RangeOf
      <3> QED
        BY <1>1, <2>2, <3>1
    <2>3. CASE j = Len(q) + 1 /\ i = Len(q) + 1
      BY <1>1, <2>3, Ranks
    <2> QED
      BY <1>2, <1>3, <2>1, <2>2, <2>3
  <1> QED
    BY <1>2, <1>3 DEF Sorted

(* So is the concatenation of two sorted queues, the first before the      *)
(* second.                                                                 *)
LEMMA SortedConcat ==
  ASSUME NEW q \in Seq(Batches), NEW r \in Seq(Batches), Sorted(q), Sorted(r),
         \A a \in RangeOf(q), b \in RangeOf(r) : Rank(a) <= Rank(b)
  PROVE  Sorted(q \o r)
  <1>1. /\ q \o r \in Seq(Batches) /\ Len(q \o r) = Len(q) + Len(r)
        /\ \A i \in 1 .. Len(q) + Len(r) :
             (q \o r)[i] = IF i <= Len(q) THEN q[i] ELSE r[i - Len(q)]
    BY ConcatProperties
  <1>2. /\ Len(q) \in Nat /\ DOMAIN q = 1 .. Len(q)
        /\ Len(r) \in Nat /\ DOMAIN r = 1 .. Len(r)
        /\ DOMAIN (q \o r) = 1 .. Len(q) + Len(r)
    BY <1>1, LenProperties
  <1>3. ASSUME NEW i \in 1 .. Len(q) + Len(r), NEW j \in 1 .. Len(q) + Len(r), i <= j
        PROVE  Rank((q \o r)[i]) <= Rank((q \o r)[j])
    <2>1. CASE j <= Len(q)
      <3>1. i \in 1 .. Len(q) /\ j \in 1 .. Len(q)
        BY <1>2, <1>3, <2>1
      <3>2. (q \o r)[i] = q[i] /\ (q \o r)[j] = q[j]
        BY <1>1, <1>2, <3>1
      <3> QED
        BY <1>2, <1>3, <3>1, <3>2 DEF Sorted
    <2>2. CASE i <= Len(q) /\ Len(q) < j
      <3>1. i \in 1 .. Len(q) /\ j - Len(q) \in 1 .. Len(r)
        BY <1>2, <2>2
      <3>2. (q \o r)[i] = q[i] /\ (q \o r)[j] = r[j - Len(q)]
        BY <1>1, <1>2, <2>2
      <3>3. q[i] \in RangeOf(q) /\ r[j - Len(q)] \in RangeOf(r)
        BY <1>2, <3>1 DEF RangeOf
      <3> QED
        BY <3>2, <3>3
    <2>3. CASE Len(q) < i
      <3>1. i - Len(q) \in 1 .. Len(r) /\ j - Len(q) \in 1 .. Len(r)
            /\ i - Len(q) <= j - Len(q)
        BY <1>2, <1>3, <2>3
      <3>2. (q \o r)[i] = r[i - Len(q)] /\ (q \o r)[j] = r[j - Len(q)]
        BY <1>1, <1>2, <1>3, <2>3
      <3> QED
        BY <1>2, <3>1, <3>2 DEF Sorted
    <2> QED
      BY <1>2, <2>1, <2>2, <2>3
  <1> QED
    BY <1>2, <1>3 DEF Sorted

(* The head of a sorted queue comes first; the tail is sorted.             *)
LEMMA SortedHeadTail ==
  ASSUME NEW q \in Seq(Batches), q # <<>>, Sorted(q)
  PROVE  Sorted(Tail(q)) /\ \A b \in RangeOf(q) : Rank(Head(q)) <= Rank(b)
  <1>1. /\ Tail(q) \in Seq(Batches) /\ Len(Tail(q)) = Len(q) - 1
        /\ \A i \in 1 .. Len(Tail(q)) : Tail(q)[i] = q[i + 1]
    BY HeadTailProperties
  <1>2. /\ Len(q) \in Nat \ {0} /\ DOMAIN q = 1 .. Len(q)
        /\ DOMAIN Tail(q) = 1 .. Len(q) - 1
    BY <1>1, LenProperties, EmptySeq
  <1>3. Head(q) = q[1]
    OBVIOUS
  <1>4. ASSUME NEW i \in DOMAIN Tail(q), NEW j \in DOMAIN Tail(q), i <= j
        PROVE  Rank(Tail(q)[i]) <= Rank(Tail(q)[j])
    <2>1. i + 1 \in DOMAIN q /\ j + 1 \in DOMAIN q /\ i + 1 <= j + 1
      BY <1>2, <1>4
    <2>2. Tail(q)[i] = q[i + 1] /\ Tail(q)[j] = q[j + 1]
      BY <1>1, <1>2
    <2> QED
      BY <2>1, <2>2 DEF Sorted
  <1>5. ASSUME NEW i \in DOMAIN q
        PROVE  Rank(Head(q)) <= Rank(q[i])
    BY <1>2, <1>3 DEF Sorted
  <1> QED
    BY <1>4, <1>5 DEF Sorted, RangeOf

-----------------------------------------------------------------------------
(* What a step adds to the model and to the checkpoint.                    *)

(* Only a row that is processed is learnt; a save makes the checkpoint     *)
(* what the model is.                                                      *)
LEMMA LearntStep ==
  ASSUME TypeOK, Control, Restores, [Next]_vars
  PROVE  /\ ProcessRow => /\ Recoverable' = Recoverable /\ current \in Rows
                          /\ InHand = {current} /\ InHand' = {}
                          /\ Learnt' \subseteq Learnt \cup {current}
         /\ ~ProcessRow => Learnt' \subseteq Learnt
         /\ \/ Recoverable' = Recoverable /\ disk'.ids = disk.ids
            \/ Recoverable' = <<>>
            \/ Save /\ Recoverable' = model /\ disk'.ids = runIDs
  <1>t. /\ model \in Seq(Rows) /\ Recoverable \in Seq(Rows)
    BY RecoverableType DEF TypeOK
  <1>1. CASE ProcessRow
    <2>1. /\ Recoverable' = Recoverable /\ current \in Rows /\ pc = "process"
          /\ InHand = {current} /\ InHand' = {} /\ disk' = disk
      BY <1>1 DEF ProcessRow, Recoverable, InHand
    <2>2. model' \in {model, Recoverable, Append(model, current), Append(Recoverable, current)}
      BY <1>1, <2>1 DEF ProcessRow, Restores, Recoverable
    <2>3. RangeOf(model') \subseteq Learnt \cup {current}
      <3>1. /\ RangeOf(Append(model, current)) = RangeOf(model) \cup {current}
            /\ RangeOf(Append(Recoverable, current)) = RangeOf(Recoverable) \cup {current}
        BY <1>t, <2>1, RangeAppend
      <3> QED
        BY <2>2, <3>1 DEF Learnt
    <2> QED
      BY <1>1, <2>1, <2>3 DEF Learnt, Save
  <1>2. CASE Save
    <2>1. model' = model /\ ~ProcessRow
      BY <1>2 DEF Save, ProcessRow
    <2>2. \/ Recoverable' = Recoverable /\ disk'.ids = disk.ids
          \/ Recoverable' = model /\ disk'.ids = runIDs
      <3>1. CASE loaded /\ SaveModel
        BY <1>2, <3>1, SaveRestores, SaveIDs DEF Save, Restores
      <3> QED
        BY <1>2, <3>1 DEF Save, Recoverable
    <2> QED
      BY <1>2, <2>1, <2>2 DEF Learnt
  <1>3. CASE ProcessDelete
    <2>1. Recoverable' = <<>> /\ model' = model /\ ~ProcessRow
      <3>1. <<>> \o <<>> = <<>>
        OBVIOUS
      <3> QED
        BY <1>3, <3>1, Kinds DEF ProcessDelete, ProcessRow, NoEntry, Recoverable, memory
    <2> QED
      BY <2>1, RangeEmpty DEF Learnt
  <1>4. CASE ProcessDefine
    <2>1. disk'.full = disk.full /\ disk'.samples = disk.samples /\ disk'.ids = disk.ids
      BY <1>4 DEF ProcessDefine, TypeOK, Entry
    <2>2. model' = model /\ ~ProcessRow
      BY <1>4, Kinds DEF ProcessDefine, ProcessRow, memory
    <2> QED
      BY <2>1, <2>2 DEF Learnt, Recoverable
  <1>5. CASE ~(ProcessRow \/ Save \/ ProcessDelete \/ ProcessDefine)
    <2>1. disk' = disk
      BY <1>5 DEF Next, AppStep, DefineModel, SubmitRow, PurgeQueue, DeleteModel, RunnerStart,
           RunnerStep, SkipBatch, TakeBatch, NoMoreBatches, CleanUpAfterModelDeletion, Answer,
           Ack, AckOnDeadChannel, EndRun, Crash, DropConnection, Requeue, vars
    <2>2. model' = model \/ model' = <<>>
      BY <1>5 DEF Next, AppStep, DefineModel, SubmitRow, PurgeQueue, DeleteModel, RunnerStart,
           RunnerStep, SkipBatch, TakeBatch, NoMoreBatches, CleanUpAfterModelDeletion, Answer,
           Ack, AckOnDeadChannel, EndRun, Crash, DropConnection, Requeue, vars, runnerVars,
           memory, Gone
    <2> QED
      BY <1>5, <2>1, <2>2, RangeEmpty DEF Learnt, Recoverable
  <1> QED
    BY <1>1, <1>2, <1>3, <1>4, <1>5

(* While nothing has overtaken an earlier batch, the runner takes batches  *)
(* only when none is on a dead channel.                                    *)
LEMMA OvertakenStep ==
  ASSUME TypeOK, [Next]_vars, ~overtaken'
  PROVE  ~overtaken /\ (TakeBatch \/ SkipBatch => limbo = <<>>)
  <1>1. CASE TakeBatch \/ SkipBatch
    BY <1>1 DEF TakeBatch, SkipBatch, TypeOK
  <1>2. CASE ~(TakeBatch \/ SkipBatch)
    BY <1>2 DEF Next, AppStep, DefineModel, SubmitRow, PurgeQueue, DeleteModel, RunnerStart,
           RunnerStep, NoMoreBatches, ProcessDefine, ProcessRow, ProcessDelete,
           CleanUpAfterModelDeletion, Answer, Save, Ack, AckOnDeadChannel,
           EndRun, Crash, DropConnection, Requeue, vars, ghosts
  <1> QED
    BY <1>1, <1>2

(* Only what has been submitted is pending, in hand, or learnt.            *)
LEMMA BoundedStep ==
  TypeOK /\ Control /\ Answers /\ Restores /\ Bounded /\ [Next]_vars => Bounded'
  <1> SUFFICES ASSUME TypeOK, Control, Answers, Restores, Bounded, [Next]_vars
               PROVE  Bounded'
    OBVIOUS
  <1> USE Kinds
  <1>1. app' = "new" => Pending' = {}
    <2> SUFFICES ASSUME app' = "new"
                 PROVE  Pending' = {}
      OBVIOUS
    <2>1. app = "new" /\ ~AppStep
      BY DEF Next, AppStep, DefineModel, SubmitRow, PurgeQueue, DeleteModel, RunnerStart,
           RunnerStep, SkipBatch, TakeBatch, NoMoreBatches, ProcessDefine, ProcessRow,
           ProcessDelete, CleanUpAfterModelDeletion, Answer, Save, Ack, AckOnDeadChannel,
           EndRun, Crash, DropConnection, Requeue, vars, appVars
    <2>2. Pending' \subseteq Pending
      BY <2>1, PendingStep
    <2> QED
      BY <2>1, <2>2 DEF Bounded
  <1>2. Submitted \subseteq Submitted'
    <2>1. CASE SubmitRow
      BY <2>1 DEF SubmitRow, Submitted, TypeOK
    <2>2. CASE ~SubmitRow
      <3>1. rows' = rows
        BY <2>2 DEF Next, AppStep, DefineModel, PurgeQueue, DeleteModel, RunnerStart,
           RunnerStep, SkipBatch, TakeBatch, NoMoreBatches, ProcessDefine, ProcessRow,
           ProcessDelete, CleanUpAfterModelDeletion, Answer, Save, Ack, AckOnDeadChannel,
           EndRun, Crash, DropConnection, Requeue, vars, appVars
      <3> QED
        BY <3>1 DEF Submitted
    <2> QED
      BY <2>1, <2>2
  <1>3. Pending' \cap Rows \subseteq Submitted'
    <2>1. CASE SubmitRow
      <3>1. rows + 1 \in Submitted'
        BY <2>1 DEF SubmitRow, Submitted, TypeOK
      <3> QED
        BY <2>1, <3>1, <1>2, PendingStep DEF Bounded
    <2>2. CASE ~SubmitRow
      <3>1. Pending' \cap Rows \subseteq Pending
        BY <2>2, PendingStep DEF AppStep
      <3> QED
        BY <3>1, <1>2 DEF Bounded
    <2> QED
      BY <2>1, <2>2
  <1>4. {current'} \cap Rows \subseteq Submitted'
    <2>1. CASE TakeBatch
      <3>1. current' \in Pending
        BY <2>1, RangeHeadTail DEF TakeBatch, Pending, TypeOK
      <3> QED
        BY <3>1, <1>2 DEF Bounded
    <2>2. CASE ~TakeBatch
      <3>1. current' \in {current, NoBatch}
        BY <2>2 DEF Next, AppStep, DefineModel, SubmitRow, PurgeQueue, DeleteModel,
           RunnerStart, RunnerStep, SkipBatch, NoMoreBatches, ProcessDefine, ProcessRow,
           ProcessDelete, CleanUpAfterModelDeletion, Answer, Save, Ack, AckOnDeadChannel,
           EndRun, Crash, DropConnection, Requeue, vars, runnerVars, runVars, Gone, NoRun
      <3>2. NoBatch \notin Rows
        BY DEF Batches
      <3> QED
        BY <3>1, <3>2, <1>2 DEF Bounded
    <2> QED
      BY <2>1, <2>2
  <1>5. Learnt' \cap Rows \subseteq Submitted'
    <2>1. Learnt' \cap Rows \subseteq (Learnt \cup {current}) \cap Rows
      BY LearntStep
    <2> QED
      BY <2>1, <1>2 DEF Bounded
  <1> QED
    BY <1>1, <1>3, <1>4, <1>5 DEF Bounded

(* A batch that comes no earlier than what is pending leaves the queue in  *)
(* order, once or twice.                                                   *)
LEMMA PublishSorted ==
  ASSUME TypeOK, Queued, ~overtaken, NEW b \in Batches, Publish(ready, b),
         \A a \in Pending : Rank(a) <= Rank(b)
  PROVE  /\ Sorted(ready')
         /\ \A a \in RangeOf(limbo) \cup RangeOf(unacked), c \in RangeOf(ready') :
              Rank(a) <= Rank(c)
  <1>1. /\ ready \in Seq(Batches) /\ Append(ready, b) \in Seq(Batches)
        /\ RangeOf(Append(ready, b)) = RangeOf(ready) \cup {b}
        /\ RangeOf(ready) \subseteq Pending
    BY RangeAppend DEF TypeOK, Pending
  <1>2. Sorted(Append(ready, b))
    BY <1>1, SortedAppend DEF Queued
  <1>3. Sorted(Append(Append(ready, b), b))
    <2>1. \A a \in RangeOf(Append(ready, b)) : Rank(a) <= Rank(b)
      BY <1>1, Ranks
    <2>2. ASSUME NEW q \in Seq(Batches), Sorted(q), \A a \in RangeOf(q) : Rank(a) <= Rank(b)
          PROVE  Sorted(Append(q, b))
      BY <2>2, SortedAppend
    <2> QED
      BY <1>1, <1>2, <2>1, <2>2
  <1>4. ready \o <<b, b>> = Append(Append(ready, b), b)
    BY <1>1, TwoCopies
  <1>5. Sorted(ready')
    BY <1>2, <1>3, <1>4 DEF Publish
  <1>6. RangeOf(ready') = RangeOf(ready) \cup {b}
    BY PublishType
  <1> QED
    BY <1>5, <1>6 DEF Queued, Pending

(* The queue stays in order while no batch overtakes an earlier one.       *)
LEMMA QueuedStep ==
  TypeOK /\ Control /\ Keeps /\ Bounded /\ Queued /\ [Next]_vars => Queued'
  <1> SUFFICES ASSUME TypeOK, Control, Keeps, Bounded, Queued, [Next]_vars, ~overtaken'
               PROVE  /\ limbo' = <<>> \/ unacked' = <<>>
                      /\ Sorted(limbo') /\ Sorted(unacked') /\ Sorted(ready')
                      /\ \A a \in RangeOf(limbo') \cup RangeOf(unacked'),
                            b \in RangeOf(ready') : Rank(a) <= Rank(b)
    BY DEF Queued
  <1> USE RangeEmpty, SortedEmpty, Kinds
  <1>1. ~overtaken /\ (TakeBatch \/ SkipBatch => limbo = <<>>)
    BY OvertakenStep
  <1>2. /\ limbo = <<>> \/ unacked = <<>>
        /\ Sorted(limbo) /\ Sorted(unacked) /\ Sorted(ready)
        /\ \A a \in RangeOf(limbo) \cup RangeOf(unacked), b \in RangeOf(ready) :
             Rank(a) <= Rank(b)
    BY <1>1 DEF Queued
  <1>t. /\ ready \in Seq(Batches) /\ unacked \in Seq(Batches) /\ limbo \in Seq(Batches)
    BY DEF TypeOK
  <1>p. ASSUME NEW b \in Batches, Publish(ready, b), UNCHANGED <<limbo, unacked>>,
               \A a \in Pending : Rank(a) <= Rank(b)
        PROVE  Queued'
    BY <1>1, <1>2, <1>p, PublishSorted DEF Queued
  <1>b. Pending \subseteq Batches
    BY <1>t, RangeType DEF Pending
  <1>3. CASE DefineModel
    <2>1. Pending = {}
      BY <1>3 DEF DefineModel, Bounded
    <2> QED
      BY <1>3, <2>1, <1>p DEF DefineModel, Queued
  <1>4. CASE SubmitRow
    <2>1. rows + 1 \in Rows /\ Rank(rows + 1) = rows + 1
      BY <1>4, RunnerAssumption, Ranks DEF SubmitRow, TypeOK, Rows
    <2>2. ASSUME NEW a \in Pending
          PROVE  Rank(a) <= Rank(rows + 1)
      <3>1. a # Delete
        BY <1>4 DEF SubmitRow, Keeps
      <3>2. CASE a = Define
        BY <3>2, <2>1, Ranks DEF Rows
      <3>3. CASE a \in Rows
        <4>1. a \in 1 .. rows
          BY <3>3 DEF Bounded, Submitted
        <4> QED
          BY <4>1, <3>3, <2>1, Ranks DEF TypeOK
      <3> QED
        BY <1>b, <3>1, <3>2, <3>3 DEF Batches
    <2> QED
      BY <1>4, <2>1, <2>2, <1>p DEF SubmitRow, Queued, Batches
  <1>5. CASE DeleteModel
    <2>1. \A a \in Pending : Rank(a) <= Rank(Delete)
      BY <1>b, Ranks
    <2> QED
      BY <1>5, <2>1, <1>p DEF DeleteModel, Queued
  <1>6. CASE PurgeQueue
    BY <1>6, <1>2 DEF PurgeQueue
  <1>7. CASE SkipBatch
    <2>1. Sorted(Tail(ready)) /\ RangeOf(Tail(ready)) \subseteq RangeOf(ready)
      BY <1>7, <1>2, <1>t, SortedHeadTail, RangeHeadTail DEF SkipBatch
    <2> QED
      BY <1>7, <1>2, <2>1 DEF SkipBatch
  <1>8. CASE TakeBatch
    <2>1. /\ Sorted(Tail(ready)) /\ RangeOf(ready) = {Head(ready)} \cup RangeOf(Tail(ready))
          /\ Head(ready) \in Batches
          /\ \A b \in RangeOf(ready) : Rank(Head(ready)) <= Rank(b)
      BY <1>8, <1>2, <1>t, SortedHeadTail, RangeHeadTail DEF TakeBatch
    <2>2. Sorted(Append(unacked, Head(ready)))
      BY <2>1, <1>2, <1>t, SortedAppend
    <2>3. RangeOf(Append(unacked, Head(ready))) = RangeOf(unacked) \cup {Head(ready)}
      BY <2>1, <1>t, RangeAppend
    <2> QED
      BY <1>8, <1>1, <1>2, <2>1, <2>2, <2>3 DEF TakeBatch
  <1>9. CASE CleanUpAfterModelDeletion \/ Ack
    BY <1>9, <1>2 DEF CleanUpAfterModelDeletion, Ack
  <1>10. CASE Requeue
    <2>1. Sorted(limbo \o ready)
      BY <1>2, <1>t, SortedConcat
    <2> QED
      BY <1>10, <1>2, <2>1 DEF Requeue
  <1>11. ASSUME limbo' = limbo \o unacked, unacked' = <<>>, UNCHANGED ready
         PROVE  Queued'
    <2>1. limbo' \in {limbo, unacked}
      BY <1>11, <1>2, <1>t, ConcatEmptySeq
    <2> QED
      BY <1>11, <1>2, <2>1 DEF Queued
  <1>12. CASE AckOnDeadChannel \/ EndRun \/ Crash \/ DropConnection
    <2>1. UNCHANGED ready
      BY <1>12 DEF AckOnDeadChannel, EndRun, Crash, DropConnection
    <2>2. \/ limbo' = limbo \o unacked /\ unacked' = <<>>
          \/ UNCHANGED <<limbo, unacked>>
      BY <1>12 DEF AckOnDeadChannel, EndRun, Crash, DropConnection
    <2> QED
      BY <2>1, <2>2, <1>2, <1>11 DEF Queued
  <1>13. CASE \/ RunnerStart \/ NoMoreBatches \/ ProcessDefine \/ ProcessRow
              \/ ProcessDelete \/ Answer \/ Save \/ UNCHANGED vars
    BY <1>13, <1>2 DEF RunnerStart, NoMoreBatches, ProcessDefine, ProcessRow, ProcessDelete,
                       Answer, Save, vars, queueVars
  <1> QED
    BY <1>3, <1>4, <1>5, <1>6, <1>7, <1>8, <1>9, <1>10, <1>12, <1>13
       DEF Next, AppStep, RunnerStep

-----------------------------------------------------------------------------
(* What is known, and the order of learning.                               *)

(* Nothing that has been learnt ranks as high as a batch that is new.      *)
LEMMA NewIsLater ==
  ASSUME TypeOK, Control, Answers, Bounded, [Next]_vars,
         NEW b \in Pending' \ Pending, NEW m \in Learnt \cup (InHand \cap Rows)
  PROVE  ~(Rank(b) <= m)
  <1>1. m \in Rows
    BY RecoverableType, RangeType DEF Learnt, TypeOK
  <1>2. m \in 1 .. rows
    BY <1>1 DEF Bounded, Submitted, InHand
  <1>3. CASE DefineModel
    BY <1>2, <1>3, RunnerAssumption DEF DefineModel, Answers
  <1>4. CASE SubmitRow
    <2>1. b = rows + 1 /\ rows + 1 \in Rows
      BY <1>4, PendingStep
    <2> QED
      BY <2>1, <1>2, Ranks DEF TypeOK
  <1>5. CASE DeleteModel
    <2>1. b = Delete
      BY <1>5, PendingStep
    <2> QED
      BY <2>1, <1>1, Ranks, RunnerAssumption DEF Rows
  <1>6. CASE ~(DefineModel \/ SubmitRow \/ DeleteModel)
    BY <1>6, PendingStep DEF AppStep
  <1> QED
    BY <1>3, <1>4, <1>5, <1>6

(* What is not known to the runner comes after all that has been learnt.   *)
LEMMA UnknownIsLater ==
  ASSUME TypeOK, Control, Bounded, Knows, ~overtaken, TakeBatch
  PROVE  \A m \in Learnt : m < Rank(Head(ready))
  <1>1. Head(ready) \in Pending /\ Head(ready) \in Batches /\ Rank(Head(ready)) \in Nat
    BY RangeHeadTail, Ranks DEF TakeBatch, Pending, TypeOK
  <1>2. Head(ready) \notin KnownNow /\ pc # "off"
    BY DEF TakeBatch, Known, KnownNow
  <1>3. ASSUME NEW m \in Learnt
        PROVE  m < Rank(Head(ready))
    <2>1. m \in Nat
      BY RecoverableType, RangeType, Kinds DEF Learnt, TypeOK
    <2>2. ~(Rank(Head(ready)) <= m)
      BY <1>1, <1>2 DEF Knows
    <2> QED
      BY <1>1, <2>1, <2>2
  <1> QED
    BY <1>3

(* What could be learnt a second time stays known.                         *)
LEMMA KnowsStep ==
  TypeOK /\ Control /\ Answers /\ Restores /\ Bounded /\ Queued /\ Knows /\ [Next]_vars
    => Knows'
  <1> SUFFICES ASSUME TypeOK, Control, Answers, Restores, Bounded, Queued, Knows, [Next]_vars
               PROVE  Knows'
    OBVIOUS
  <1> USE Kinds
  <1>1. pc' \in {"ack", "check"} /\ lastBatch' # "none" => checkpointIDs' = runIDs'
    <2>1. CASE \/ Save \/ Ack \/ AckOnDeadChannel \/ NoMoreBatches \/ EndRun \/ Crash
      BY <2>1 DEF Save, Ack, AckOnDeadChannel, NoMoreBatches, EndRun, Crash, Gone, NoRun, Knows,
                  memory, runVars
    <2>2. CASE DropConnection
      BY <2>2 DEF DropConnection, Knows
    <2>3. CASE RunnerStart \/ TakeBatch \/ ProcessDefine \/ ProcessRow \/ ProcessDelete
               \/ CleanUpAfterModelDeletion \/ Answer
      BY <2>3 DEF RunnerStart, TakeBatch, ProcessDefine, ProcessRow, ProcessDelete,
                  CleanUpAfterModelDeletion, Answer
    <2>4. CASE AppStep \/ SkipBatch \/ Requeue \/ UNCHANGED vars
      BY <2>4 DEF AppStep, DefineModel, SubmitRow, PurgeQueue, DeleteModel, SkipBatch, Requeue,
                  vars, runnerVars, runVars, Knows
    <2> QED
      BY <2>1, <2>2, <2>3, <2>4 DEF Next, RunnerStep
  <1> SUFFICES ASSUME ~overtaken'
               PROVE  /\ \A b \in Pending', m \in RangeOf(Recoverable') :
                           Rank(b) <= m => b \in disk'.ids
                      /\ pc' # "off" =>
                           \A b \in Pending', m \in Learnt' \cup (InHand' \cap Rows) :
                             Rank(b) <= m => b \in KnownNow'
    BY <1>1 DEF Knows
  <1>2. ~overtaken /\ (TakeBatch \/ SkipBatch => limbo = <<>>)
    BY OvertakenStep
  <1>3. /\ \A b \in Pending, m \in RangeOf(Recoverable) : Rank(b) <= m => b \in disk.ids
        /\ pc # "off" => \A b \in Pending, m \in Learnt \cup (InHand \cap Rows) :
                            Rank(b) <= m => b \in KnownNow
    BY <1>2 DEF Knows
  <1>4. ASSUME NEW b \in Pending', NEW m \in RangeOf(Recoverable'), Rank(b) <= m
        PROVE  b \in disk'.ids
    <2>1. CASE Recoverable' = Recoverable /\ disk'.ids = disk.ids
      BY <2>1, <1>3, <1>4, NewIsLater DEF Learnt
    <2>2. CASE Recoverable' = <<>>
      BY <2>2, RangeEmpty
    <2>3. CASE Save /\ Recoverable' = model /\ disk'.ids = runIDs
      <3>1. m \in Learnt /\ pc = "save"
        BY <2>3 DEF Learnt, Save
      <3>2. b \in Pending
        BY <3>1, <1>4, NewIsLater
      <3>3. KnownNow = runIDs
        BY <3>1 DEF Control, KnownNow
      <3> QED
        BY <1>3, <1>4, <2>3, <3>1, <3>2, <3>3
    <2> QED
      BY <2>1, <2>2, <2>3, LearntStep
  <1>5. ASSUME pc' # "off", NEW b \in Pending', NEW m \in Learnt' \cup (InHand' \cap Rows),
               Rank(b) <= m
        PROVE  b \in KnownNow'
    <2>1. CASE RunnerStart
      <3>1. /\ model' = <<>> /\ Recoverable' = Recoverable /\ InHand' = {}
            /\ KnownNow' = disk'.ids
        BY <2>1 DEF RunnerStart, Control, Recoverable, InHand, KnownNow, runVars
      <3>2. m \in RangeOf(Recoverable')
        BY <3>1, RangeEmpty DEF Learnt
      <3> QED
        BY <3>1, <3>2, <1>4, <1>5
    <2>2. CASE TakeBatch
      <3>1. /\ b \in Pending /\ Learnt' \subseteq Learnt /\ KnownNow' = runIDs'
            /\ runIDs' = runIDs \cup {Head(ready)} /\ InHand' = {Head(ready)}
        <4>1. b \in Pending
          BY <2>2, PendingStep
        <4>2. Learnt' \subseteq Learnt
          BY <2>2, LearntStep DEF TakeBatch, ProcessRow
        <4> QED
          BY <4>1, <4>2, <2>2 DEF TakeBatch, KnownNow, InHand
      <3>2. /\ Head(ready) \in Batches /\ Rank(Head(ready)) \in Nat
            /\ Sorted(ready) /\ ready # <<>> /\ ready \in Seq(Batches)
        BY <2>2, <1>2, RangeHeadTail, Ranks DEF TakeBatch, Queued, TypeOK
      <3>3. CASE b \in RangeOf(unacked)
        BY <3>1, <3>3 DEF Control
      <3>4. CASE b \in RangeOf(ready)
        <4>1. Rank(Head(ready)) <= Rank(b) /\ b \in Batches /\ Rank(b) \in Nat
          BY <3>2, <3>4, SortedHeadTail, RangeType, Ranks
        <4>2. CASE m \in Learnt
          <5>1. m < Rank(Head(ready)) /\ m \in Nat
            BY <2>2, <4>2, <1>2, UnknownIsLater, RecoverableType, RangeType
               DEF Learnt, TypeOK
          <5> QED
            BY <5>1, <4>1, <3>2, <1>5
        <4>3. CASE m \in InHand' \cap Rows
          <5>1. m = Head(ready) /\ Rank(m) = m /\ m \in Nat
            BY <4>3, <3>1, Ranks
          <5>2. Rank(b) = Rank(Head(ready))
            BY <5>1, <4>1, <1>5
          <5>3. b = Head(ready)
            BY <5>2, <4>1, <3>2, Ranks
          <5> QED
            BY <5>3, <3>1
        <4> QED
          BY <4>2, <4>3, <3>1
      <3>5. b \notin RangeOf(limbo)
        BY <2>2, <1>2, RangeEmpty
      <3> QED
        BY <3>1, <3>3, <3>4, <3>5 DEF Pending
    <2>3. CASE ~(RunnerStart \/ TakeBatch)
      <3>1. pc # "off" \/ AppStep \/ Requeue \/ UNCHANGED vars
        BY <2>3 DEF Next, RunnerStep, SkipBatch, NoMoreBatches, ProcessDefine, ProcessRow,
             ProcessDelete, CleanUpAfterModelDeletion, Answer, Save, Ack, AckOnDeadChannel,
             EndRun, Crash, DropConnection
      <3>2. pc # "off"
        BY <3>1, <1>5 DEF AppStep, DefineModel, SubmitRow, PurgeQueue, DeleteModel, Requeue,
             vars, runnerVars
      <3>3. m \in Learnt \cup (InHand \cap Rows)
        <4>1. CASE ProcessRow
          BY <4>1, LearntStep
        <4>2. CASE ~ProcessRow
          <5>1. InHand' \subseteq InHand
            BY <2>3, <4>2 DEF InHand, Next, AppStep, DefineModel, SubmitRow, PurgeQueue,
             DeleteModel, RunnerStep, SkipBatch, NoMoreBatches, ProcessDefine,
             ProcessDelete, CleanUpAfterModelDeletion, Answer, Save, Ack, AckOnDeadChannel,
             EndRun, Crash, DropConnection, Requeue, vars, runnerVars, runVars, Gone
          <5> QED
            BY <4>2, <5>1, LearntStep
        <4> QED
          BY <4>1, <4>2
      <3>4. b \in KnownNow
        BY <3>2, <3>3, <1>3, <1>5, NewIsLater
      <3>5. KnownNow \subseteq KnownNow'
        <4>1. CASE EndRun
          <5>1. ~done /\ NoRun /\ checkpointIDs' = checkpointIDs /\ pc = "check"
            BY <4>1, <1>5 DEF EndRun, Gone
          <5> QED
            BY <5>1 DEF NoRun, KnownNow, Control, Knows
        <4>2. CASE Crash
          BY <4>2, <1>5 DEF Crash, Gone
        <4>3. CASE AckOnDeadChannel
          BY <4>3, <1>5 DEF AckOnDeadChannel, Gone, runVars, KnownNow
        <4>4. CASE DropConnection
          BY <4>4 DEF DropConnection, KnownNow, TypeOK
        <4>5. CASE Save
          BY <4>5 DEF Save, runVars, KnownNow, Control
        <4>6. CASE AppStep \/ SkipBatch \/ Requeue \/ UNCHANGED vars
          BY <4>6 DEF AppStep, DefineModel, SubmitRow, PurgeQueue, DeleteModel, SkipBatch,
               Requeue, vars, runnerVars, runVars, KnownNow
        <4>7. CASE NoMoreBatches \/ ProcessDefine \/ ProcessRow \/ ProcessDelete
                   \/ CleanUpAfterModelDeletion \/ Answer \/ Ack
          BY <4>7 DEF NoMoreBatches, ProcessDefine, ProcessRow, ProcessDelete,
               CleanUpAfterModelDeletion, Answer, Ack, runVars, KnownNow
        <4> QED
          BY <2>3, <4>1, <4>2, <4>3, <4>4, <4>5, <4>6, <4>7 DEF Next, RunnerStep
      <3> QED
        BY <3>4, <3>5
    <2> QED
      BY <2>1, <2>2, <2>3
  <1> QED
    BY <1>4, <1>5

(* A row at the end of a model that it comes after.                        *)
LEMMA AscendingAppend ==
  ASSUME NEW q \in Seq(Rows), NEW r \in Rows, Ascending(q), \A m \in RangeOf(q) : m < r
  PROVE  Ascending(Append(q, r))
  <1>1. /\ Append(q, r) \in Seq(Rows) /\ Len(Append(q, r)) = Len(q) + 1
        /\ \A i \in 1 .. Len(q) : Append(q, r)[i] = q[i]
        /\ Append(q, r)[Len(q) + 1] = r
    BY AppendProperties
  <1>2. /\ Len(q) \in Nat /\ DOMAIN q = 1 .. Len(q)
        /\ DOMAIN Append(q, r) = 1 .. Len(q) + 1
    BY <1>1, LenProperties
  <1>3. ASSUME NEW i \in 1 .. Len(q) + 1, NEW j \in 1 .. Len(q) + 1, i < j
        PROVE  Append(q, r)[i] < Append(q, r)[j]
    <2>1. i \in 1 .. Len(q)
      BY <1>2, <1>3
    <2>2. CASE j \in 1 .. Len(q)
      BY <1>1, <1>2, <1>3, <2>1, <2>2 DEF Ascending
    <2>3. CASE j = Len(q) + 1
      <3>1. q[i] \in RangeOf(q)
        BY <1>2, <2>1 DEF RangeOf
      <3> QED
        BY <1>1, <2>1, <2>3, <3>1
    <2> QED
      BY <1>2, <2>2, <2>3
  <1> QED
    BY <1>2, <1>3 DEF Ascending

(* The model and the checkpoint stay in the order of submission.           *)
LEMMA GrowsStep ==
  TypeOK /\ Control /\ Restores /\ Bounded /\ Knows /\ Grows /\ [Next]_vars => Grows'
  <1> SUFFICES ASSUME TypeOK, Control, Restores, Bounded, Knows, Grows, [Next]_vars, ~overtaken'
               PROVE  /\ \A m \in Learnt', r \in InHand' \cap Rows : m < r
                      /\ Ascending(model')
                      /\ Ascending(Recoverable')
    BY DEF Grows
  <1>1. ~overtaken
    BY OvertakenStep
  <1>2. /\ \A m \in Learnt, r \in InHand \cap Rows : m < r
        /\ Ascending(model)
        /\ Ascending(Recoverable)
        /\ Ascending(<<>>)
    BY <1>1 DEF Grows, Ascending
  <1>3. Ascending(Recoverable')
    BY <1>2, LearntStep
  <1>4. CASE ProcessRow
    <2>1. /\ InHand = {current} /\ InHand' = {} /\ current \in Rows
      BY <1>4, LearntStep
    <2>2. Ascending(Append(model, current)) /\ Ascending(Append(Recoverable, current))
      <3>1. \A m \in RangeOf(model) \cup RangeOf(Recoverable) : m < current
        BY <1>2, <2>1 DEF Learnt
      <3>2. model \in Seq(Rows) /\ Recoverable \in Seq(Rows)
        BY RecoverableType DEF TypeOK
      <3> QED
        BY <1>2, <2>1, <3>1, <3>2, AscendingAppend
    <2>3. model' \in {model, Recoverable, Append(model, current), Append(Recoverable, current)}
      BY <1>4 DEF ProcessRow, Restores, Recoverable
    <2> QED
      BY <1>2, <1>3, <2>1, <2>2, <2>3
  <1>5. CASE ~ProcessRow
    <2>1. model' = model \/ model' = <<>>
      BY <1>5 DEF Next, AppStep, DefineModel, SubmitRow, PurgeQueue, DeleteModel, RunnerStart,
           RunnerStep, SkipBatch, TakeBatch, NoMoreBatches, ProcessDefine, ProcessDelete,
           CleanUpAfterModelDeletion, Answer, Save, Ack, AckOnDeadChannel, EndRun, Crash,
           DropConnection, Requeue, vars, runnerVars, memory, Gone
    <2>2. Learnt' \subseteq Learnt
      BY <1>5, LearntStep
    <2>3. \A m \in Learnt', r \in InHand' \cap Rows : m < r
      <3>1. CASE TakeBatch
        <4>1. InHand' = {Head(ready)}
          BY <3>1 DEF TakeBatch, InHand
        <4>2. \A m \in Learnt : m < Rank(Head(ready))
          BY <3>1, <1>1, UnknownIsLater
        <4> QED
          BY <4>1, <4>2, <2>2, Ranks
      <3>2. CASE ~TakeBatch
        <4>1. InHand' \subseteq InHand
          BY <1>5, <3>2 DEF InHand, Next, AppStep, DefineModel, SubmitRow, PurgeQueue,
             DeleteModel, RunnerStart, RunnerStep, SkipBatch, NoMoreBatches, ProcessDefine,
             ProcessDelete, CleanUpAfterModelDeletion, Answer, Save, Ack, AckOnDeadChannel,
             EndRun, Crash, DropConnection, Requeue, vars, runnerVars, runVars, Gone
        <4> QED
          BY <4>1, <2>2, <1>2
      <3> QED
        BY <3>1, <3>2
    <2> QED
      BY <1>2, <1>3, <2>1, <2>3
  <1> QED
    BY <1>4, <1>5

-----------------------------------------------------------------------------
(* The theorems.                                                           *)

(* The initial states have the invariant.                                  *)
LEMMA InvInit == Init => RunnerInv
  <1> SUFFICES ASSUME Init
               PROVE  RunnerInv
    OBVIOUS
  <1> USE RangeEmpty, SortedEmpty
  <1>1. <<>> \in Seq(Rows) /\ <<>> \o <<>> = <<>>
    BY EmptySeq
  <1>2. Recoverable = <<>> /\ disk.ids = {} /\ disk.samples = <<>>
    BY <1>1 DEF Init, NoEntry, Recoverable
  <1>3. Pending = {} /\ Learnt = {} /\ Submitted = {}
    BY <1>2 DEF Init, Pending, Learnt, Submitted
  <1>4. TypeOK
    BY TypesInit
  <1>5. Control /\ Answers /\ Restores
    BY <1>2 DEF Init, Control, Answers, Restores
  <1>6. Keeps /\ Bounded
    BY <1>2, <1>3, Kinds DEF Init, Keeps, Bounded, InHand, Saving, Batches
  <1>7. Queued /\ Knows /\ Grows
    BY <1>2, <1>3 DEF Init, Queued, Knows, Grows, InHand, Ascending
  <1>8. NoRowUnanswered /\ OneFailureKindLosesNothing
    BY <1>3 DEF NoRowUnanswered, OneFailureKindLosesNothing, NoUpdateLost
  <1> QED
    BY <1>4, <1>5, <1>6, <1>7, <1>8 DEF RunnerInv

(* The inductive invariant of the runner: its control, what is answered,   *)
(* what the memory restores to, where each row is, and what is known.      *)
THEOREM RunnerInvariant == Spec => []RunnerInv
  <1>1. RunnerInv /\ [Next]_vars => RunnerInv'
    BY TypesStep, ControlStep, AnswersStep, RestoresStep, KeepsStep, BoundedStep, QueuedStep,
       KnowsStep, GrowsStep, AnsweredStep, LossStep DEF RunnerInv
  <1> QED
    BY <1>1, InvInit, PTL DEF Spec

(* The variables of the runner, its queue and its checkpoint have their    *)
(* types: a batch is never lost to the sentinel, a count never passes its  *)
(* bound.                                                                  *)
THEOREM RunnerTypes == Spec => []TypeOK
  <1>1. RunnerInv => TypeOK
    BY DEF RunnerInv
  <1> QED
    BY <1>1, RunnerInvariant, PTL

(* At-least-once results: whatever crashes and whatever connection is      *)
(* lost, and however often, a row is answered before its message is gone.  *)
THEOREM RowsAreAnswered == Spec => []NoRowUnanswered
  <1>1. RunnerInv => NoRowUnanswered
    BY DEF RunnerInv
  <1> QED
    BY <1>1, RunnerInvariant, PTL

(* Crashes alone, and losses of the connection alone, never lose the       *)
(* contribution of a row that was not answered with an error.              *)
THEOREM OneKindLosesNothing == Spec => []OneFailureKindLosesNothing
  <1>1. RunnerInv => OneFailureKindLosesNothing
    BY DEF RunnerInv
  <1> QED
    BY <1>1, RunnerInvariant, PTL

(* Full and incremental checkpoints alike hold what the model was at its   *)
(* last save.                                                              *)
THEOREM CheckpointIsTheModel == Spec => []CheckpointMatchesModel
  <1>1. RunnerInv => CheckpointMatchesModel
    BY RestoresMatches DEF RunnerInv
  <1> QED
    BY <1>1, RunnerInvariant, PTL

(* The model learns each row once and in order, unless the broker delivers *)
(* later batches before it returns an earlier one.                         *)
THEOREM RowsAreLearntInOrder == Spec => []LearnsInOrder
  <1>1. RunnerInv => LearnsInOrder
    BY DEF RunnerInv, Grows, LearnsInOrder
  <1> QED
    BY <1>1, RunnerInvariant, PTL
=============================================================================
