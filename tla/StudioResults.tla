--------------------------- MODULE StudioResults ---------------------------
(***************************************************************************)
(* How the results of a model reach its chart in HTM Studio.  The main      *)
(* process writes each row a child reports to the database and, when the    *)
(* row is written, notifies the renderer; the renderer's ModelDataStore     *)
(* reads the database from the end of what it holds.  One model is followed *)
(* through being shown, hidden, run, deleted, added and run again.          *)
(***************************************************************************)
EXTENDS Naturals, Sequences, FiniteSets, SequencesExt

CONSTANTS
  None,          \* no view of the model is held
  MaxRows,       \* bound: rows of a run
  MaxRuns,       \* bound: runs of the model
  MaxTimers,     \* bound: scheduled fetches
  MaxShows,      \* bound: times the model is being shown at once
  BackToBack,    \* a model that is being shown is shown again only before its
                 \* data came, and is not shown and deleted at once
  OrderedWrites  \* the database completes writes in the order they were issued

ASSUME ResultsAssumption ==
  /\ {MaxRows, MaxRuns, MaxTimers, MaxShows} \subseteq Nat \ {0}
  /\ {BackToBack, OrderedWrites} \subseteq BOOLEAN

VARIABLES
  run,        \* which run of the model is the latest
  child,      \* its child runs, and its listeners are in place
  emitted,    \* how many rows it has reported
  puts,       \* putModelData calls the database has not completed
  rows,       \* the run that wrote each row of the database, 0 for no row
  deletion,   \* how far deleteModel is, with the keys it has read
  reads,      \* getModelData calls not answered, with the rows they saw
  toUi,       \* messages to the renderer, in the order they were sent
  model,      \* the model in ModelStore
  visible,    \* and whether it is shown
  pending,    \* its entry in _pendingModels: none, or its shouldFetch
  view,       \* the data of its entry in _models
  timer,      \* whether fetchTimeoutId of that entry is set
  timers,     \* the scheduled fetches, those of earlier entries included
  loading,    \* ShowModel actions that wait for the data
  showing     \* ShowModel actions that have yet to dispatch SHOW_MODEL

vars == <<run, child, emitted, puts, rows, deletion, reads, toUi, model,
          visible, pending, view, timer, timers, loading, showing>>

mainVars  == <<run, child, emitted, puts, rows, deletion>>
storeVars == <<model, visible>>
dataVars  == <<pending, view, timer, timers>>

RowIndex == 0 .. MaxRows - 1
Row  == [row : RowIndex, run : 1 .. MaxRuns]

ASSUME NoneAssumption == None \notin Seq(Row)

NotDeleting == [step |-> "none", keys |-> {}]
Event(kind) == [kind |-> kind, offset |-> 0, data |-> <<>>]

\* A view holds at most the rows of two runs.
Answer(kinds) == [kind : kinds, offset : 0 .. 2 * MaxRows, data : Seq(Row)]

TypeOK ==
  /\ run \in 0 .. MaxRuns
  /\ child \in BOOLEAN
  /\ emitted \in 0 .. MaxRows
  /\ puts \in Seq(Row)
  /\ rows \in [RowIndex -> 0 .. MaxRuns]
  /\ deletion \in [step : {"none", "record", "keys"}, keys : SUBSET RowIndex]
  /\ reads \in Seq(Answer({"load", "fetch"}))
  /\ toUi \in Seq(Answer({"load", "fetch", "notify", "close", "deleted"}))
  /\ model \in {"none", "added", "active", "ran"}
  /\ visible \in BOOLEAN
  /\ pending \in {"none", "waiting", "fetch"}
  /\ view = None \/ view \in Seq(Row)
  /\ timer \in BOOLEAN
  /\ timers \in 0 .. MaxTimers
  /\ loading + showing \in 0 .. MaxShows

Init ==
  /\ run = 0 /\ child = FALSE /\ emitted = 0
  /\ puts = <<>> /\ rows = [k \in RowIndex |-> 0]
  /\ deletion = NotDeleting
  /\ reads = <<>> /\ toUi = <<>>
  /\ model = "none" /\ visible = FALSE
  /\ pending = "none" /\ view = None /\ timer = FALSE /\ timers = 0
  /\ loading = 0 /\ showing = 0

-----------------------------------------------------------------------------
\* Mutant: the rows are not looked up.
StoredWithGaps(offset) ==
  [n \in 1 .. MaxRows - offset |-> [row |-> offset + n - 1, run |-> rows[offset + n - 1]]]

\* The n-th smallest of some numbers.
Nth(S, n) == CHOOSE k \in S : Cardinality({j \in S : j <= k}) = n

\* getModelData: the rows from the offset on, in the order of their index,
\* as they are when the stream is created.
Stored(offset) ==
  LET seen == {k \in RowIndex : rows[k] # 0 /\ k >= offset}
  IN  [n \in 1 .. Cardinality(seen) |-> [row |-> Nth(seen, n), run |-> rows[Nth(seen, n)]]]

GetModelData(kind, offset) ==
  [kind |-> kind, offset |-> offset, data |-> Stored(offset)]

\* _fetchNewResults for the entry that holds data.
Fetch(data) == GetModelData("fetch", Len(data))

\* Answers to an entry that is gone change nothing that is held.
Alive(q) ==
  LET kept == {k \in DOMAIN q : q[k].kind # "fetch"}
  IN  [n \in 1 .. Cardinality(kept) |-> q[Nth(kept, n)]]

\* _fetchNewResultsSoon: nothing while a fetch is scheduled; otherwise the
\* fetch is scheduled, or made now when the last one is long ago.
FetchSoon(data, scheduled, others) ==
  \/ scheduled /\ timer' = TRUE /\ reads' = others /\ UNCHANGED timers
  \/ /\ ~scheduled /\ timers < MaxTimers
     /\ timer' = TRUE /\ timers' = timers + 1 /\ reads' = others
  \/ ~scheduled /\ timer' = FALSE /\ reads' = Append(others, Fetch(data)) /\ UNCHANGED timers

-----------------------------------------------------------------------------
\* The main process.

\* A row of the child's output: putModelData is called with its index.
ModelData ==
  /\ child /\ emitted < MaxRows
  /\ puts' = Append(puts, [row |-> emitted, run |-> run])
  /\ emitted' = emitted + 1
  /\ UNCHANGED <<run, child, rows, deletion, reads, toUi, loading, showing>>
  /\ UNCHANGED storeVars /\ UNCHANGED dataVars

ChildCloses ==
  /\ child
  /\ child' = FALSE
  /\ toUi' = Append(toUi, Event("close"))
  /\ UNCHANGED <<run, emitted, puts, rows, deletion, reads, loading, showing>>
  /\ UNCHANGED storeVars /\ UNCHANGED dataVars

\* A write completes, and its callback notifies the renderer.
PutCompletes ==
  \E k \in DOMAIN puts :
    /\ OrderedWrites => k = 1
    /\ rows' = [rows EXCEPT ![puts[k].row] = puts[k].run]
    /\ puts' = RemoveAt(puts, k)
    /\ toUi' = Append(toUi, Event("notify"))
    /\ UNCHANGED <<run, child, emitted, deletion, reads, loading, showing>>
    /\ UNCHANGED storeVars /\ UNCHANGED dataVars

\* deleteModel deletes the record, reads the keys of the data, and deletes
\* those in one batch.
DeleteStep ==
  /\ \/ /\ deletion.step = "record"
        /\ OrderedWrites => puts = <<>>
        /\ deletion' = [step |-> "keys", keys |-> {k \in RowIndex : rows[k] # 0}]
        /\ UNCHANGED <<rows, toUi>>
     \/ /\ deletion.step = "keys"
        /\ rows' = [k \in RowIndex |-> IF k \in deletion.keys THEN 0 ELSE rows[k]]
        /\ deletion' = NotDeleting
        /\ toUi' = Append(toUi, Event("deleted"))
  /\ UNCHANGED <<run, child, emitted, puts, reads, loading, showing>>
  /\ UNCHANGED storeVars /\ UNCHANGED dataVars

ReadAnswered ==
  \E k \in DOMAIN reads :
    /\ reads' = RemoveAt(reads, k)
    /\ toUi' = Append(toUi, reads[k])
    /\ UNCHANGED <<loading, showing>>
    /\ UNCHANGED mainVars /\ UNCHANGED storeVars /\ UNCHANGED dataVars

-----------------------------------------------------------------------------
\* The user.

\* A deleted model is started or deleted again only once it has been added.
NoDeletion == deletion = NotDeleting /\ Event("deleted") \notin Range(toUi)

\* ShowModel: PREPARE_FOR_MODEL_RESULTS, and the data is asked for.
Show ==
  /\ loading + showing < MaxShows
  /\ BackToBack => view = None /\ NoDeletion
  /\ pending' = "waiting"
  /\ reads' = Append(reads, GetModelData("load", 0))
  /\ loading' = loading + 1

ShowModel ==
  /\ model # "none" /\ ~visible
  /\ Show
  /\ UNCHANGED <<toUi, view, timer, timers, showing>>
  /\ UNCHANGED mainVars /\ UNCHANGED storeVars

AddShowModel ==
  /\ model = "none"
  /\ model' = "added"
  /\ Show
  /\ UNCHANGED <<toUi, visible, view, timer, timers, showing>>
  /\ UNCHANGED mainVars

\* The entry goes; its pending entry and its scheduled fetch do not.
DropView ==
  /\ view' = None /\ timer' = FALSE
  /\ reads' = Alive(reads) /\ toUi' = Alive(toUi)
  /\ UNCHANGED <<pending, timers>>

HideModel ==
  /\ visible
  /\ visible' = FALSE
  /\ DropView
  /\ UNCHANGED <<model, loading, showing>>
  /\ UNCHANGED mainVars

StartModel ==
  /\ visible /\ model = "added" /\ NoDeletion
  /\ run < MaxRuns
  /\ model' = "active"
  /\ run' = run + 1 /\ child' = TRUE /\ emitted' = 0
  /\ UNCHANGED <<puts, rows, deletion, reads, toUi, visible, loading, showing>>
  /\ UNCHANGED dataVars

\* The model is deleted by itself once it has ended, or with its file, which
\* hides and stops it first.
DeleteModel ==
  /\ model # "none" /\ NoDeletion
  /\ BackToBack => loading + showing = 0
  /\ deletion' = [step |-> "record", keys |-> {}]
  /\ \/ /\ model = "ran" /\ visible
        /\ UNCHANGED <<child, model, visible, reads, toUi>>
        /\ UNCHANGED dataVars
     \/ /\ child' = FALSE
        /\ model' = IF model = "active" THEN "ran" ELSE model
        /\ visible' = FALSE
        /\ IF visible THEN DropView
           ELSE UNCHANGED <<reads, toUi>> /\ UNCHANGED dataVars
  /\ UNCHANGED <<run, emitted, puts, rows, loading, showing>>

-----------------------------------------------------------------------------
\* The renderer handles the messages of the main process in order.

Handle(kind) ==
  /\ toUi # <<>>
  /\ Head(toUi).kind = kind

\* Mutant: a notification for a model that is being loaded is dropped.
NotifyShownOnly ==
  /\ Handle("notify")
  /\ toUi' = Tail(toUi)
  /\ IF view # None
     THEN FetchSoon(view, timer, reads)
     ELSE UNCHANGED <<timer, timers, reads>>
  /\ UNCHANGED <<pending, view, loading, showing>>
  /\ UNCHANGED mainVars /\ UNCHANGED storeVars

NotifyNewModelResults ==
  /\ Handle("notify")
  /\ toUi' = Tail(toUi)
  /\ IF view # None
     THEN FetchSoon(view, timer, reads) /\ UNCHANGED <<pending, view>>
     ELSE /\ pending' = IF pending = "none" THEN "none" ELSE "fetch"
          /\ UNCHANGED <<view, timer, timers, reads>>
  /\ UNCHANGED <<loading, showing>>
  /\ UNCHANGED mainVars /\ UNCHANGED storeVars

\* A pending entry is replaced by one that holds the data, and a notification
\* that came meanwhile is made good; without a pending entry the data of the
\* answer is dropped.
LoadModelData ==
  /\ Handle("load")
  /\ \/ /\ pending # "none"
        /\ pending' = "none"
        /\ view' = Head(toUi).data
        /\ toUi' = Tail(Alive(toUi))
        /\ IF pending = "fetch"
           THEN FetchSoon(Head(toUi).data, FALSE, Alive(reads))
           ELSE timer' = FALSE /\ reads' = Alive(reads) /\ UNCHANGED timers
     \/ /\ pending = "none" /\ view # None
        /\ toUi' = Tail(toUi)
        /\ FetchSoon(view, timer, reads)
        /\ UNCHANGED <<pending, view>>
     \/ /\ pending = "none" /\ view = None
        /\ toUi' = Tail(toUi)
        /\ UNCHANGED reads /\ UNCHANGED dataVars
  /\ loading' = loading - 1 /\ showing' = showing + 1
  /\ UNCHANGED mainVars /\ UNCHANGED storeVars

\* Mutant: the records of an answer are appended.
SpliceAtEnd(data, offset, records) == data \o records

\* model.data.splice(offset, records.length, ...records)
Splice(data, offset, records) ==
  SubSeq(data, 1, offset) \o records \o SubSeq(data, offset + Len(records) + 1, Len(data))

FetchAnswered ==
  /\ Handle("fetch")
  /\ toUi' = Tail(toUi)
  /\ view' = Splice(view, Head(toUi).offset, Head(toUi).data)
  /\ UNCHANGED <<reads, pending, timer, timers, loading, showing>>
  /\ UNCHANGED mainVars /\ UNCHANGED storeVars

\* The metric's own data has come too: SHOW_MODEL.
Shown ==
  /\ showing > 0
  /\ showing' = showing - 1
  /\ visible' = (visible \/ model # "none")
  /\ UNCHANGED <<reads, toUi, model, loading>>
  /\ UNCHANGED mainVars /\ UNCHANGED dataVars

CloseModel ==
  /\ Handle("close")
  /\ toUi' = Tail(toUi)
  /\ model' = IF model = "active" THEN "ran" ELSE model
  /\ UNCHANGED <<reads, visible, loading, showing>>
  /\ UNCHANGED mainVars /\ UNCHANGED dataVars

\* DELETE_MODEL
Deleted ==
  /\ Handle("deleted")
  /\ model' = "none" /\ visible' = FALSE
  /\ view' = None /\ timer' = FALSE
  /\ reads' = Alive(reads) /\ toUi' = Tail(Alive(toUi))
  /\ UNCHANGED <<pending, timers, loading, showing>>
  /\ UNCHANGED mainVars

\* Mutant: fetchTimeoutId stays set.
FetchKeepsTimer ==
  /\ timers > 0
  /\ timers' = timers - 1
  /\ IF view = None THEN UNCHANGED reads ELSE reads' = Append(reads, Fetch(view))
  /\ UNCHANGED <<timer, toUi, pending, view, loading, showing>>
  /\ UNCHANGED mainVars /\ UNCHANGED storeVars

\* A scheduled fetch, of this entry or of an earlier one, is due.
FetchNewResults ==
  /\ timers > 0
  /\ timers' = timers - 1
  /\ IF view = None THEN UNCHANGED <<timer, reads>>
     ELSE timer' = FALSE /\ reads' = Append(reads, Fetch(view))
  /\ UNCHANGED <<toUi, pending, view, loading, showing>>
  /\ UNCHANGED mainVars /\ UNCHANGED storeVars

-----------------------------------------------------------------------------
Main     == ModelData \/ ChildCloses \/ PutCompletes \/ DeleteStep \/ ReadAnswered
User     == ShowModel \/ AddShowModel \/ HideModel \/ StartModel \/ DeleteModel
Messages == NotifyNewModelResults \/ LoadModelData \/ FetchAnswered \/ CloseModel \/ Deleted

Next == Main \/ User \/ Messages \/ Shown \/ FetchNewResults

Spec == Init /\ [][Next]_vars

\* The child reaches the end of its input, the database answers, and the
\* renderer's event loop turns; nothing makes the user act.
Fairness ==
  /\ WF_vars(ModelData) /\ WF_vars(ChildCloses)
  /\ WF_vars(PutCompletes) /\ WF_vars(DeleteStep) /\ WF_vars(ReadAnswered)
  /\ WF_vars(Messages) /\ WF_vars(Shown) /\ WF_vars(FetchNewResults)

FairSpec == Spec /\ Fairness

-----------------------------------------------------------------------------
\* The chart of a shown model shows the rows of its latest run, from the first
\* on, in their order and without gaps: a fetch asks for what follows the rows
\* the entry holds (_fetchNewResults), however fetches overlap, and neither a
\* late answer nor a deletion leaves rows of an earlier run behind.
ChartShowsTheRun ==
  visible /\ view # None =>
    \A n \in DOMAIN view : view[n] = [row |-> n - 1, run |-> run]

\* A chart that nothing is on its way to shows all the database holds: a
\* notification that finds a load or a fetch under way is not lost
\* (shouldFetch, fetchTimeoutId).
QuietMeansComplete ==
  visible /\ view # None
  /\ reads = <<>> /\ toUi = <<>> /\ timers = 0 /\ puts = <<>> /\ deletion = NotDeleting
    => view = Stored(0)

\* The chart of a model that has ended becomes complete, or is put away.
CompleteInTheEnd ==
  visible /\ view # None /\ model = "ran" ~>
    view = Stored(0) \/ ~visible \/ model # "ran"
=============================================================================
