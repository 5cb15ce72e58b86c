---------------------------- MODULE StudioFiles ----------------------------
(***************************************************************************)
(* A file of HTM Studio, over all its uploads and deletions: its copy in    *)
(* the cache, its record, its metrics and their rows in the database, and   *)
(* what the renderer lists.  uploadFile and deleteFile take many steps, and *)
(* the application may end between any two.  IDs are made of the file's     *)
(* base name, so that everything a file leaves behind belongs to the next   *)
(* file of that name.                                                       *)
(***************************************************************************)
EXTENDS Naturals, Sequences, FiniteSets

CONSTANTS
  Metrics,     \* columns with numbers that files of this name may have
  MaxRows,     \* bound: rows of a file
  MaxUploads,  \* bound: uploads under this name
  Patient      \* the user begins with the file only when nothing is under way

ASSUME FilesAssumption ==
  /\ IsFiniteSet(Metrics)
  /\ {MaxRows, MaxUploads} \subseteq Nat
  /\ Patient \in BOOLEAN

VARIABLES
  uploads,    \* how many uploads there were
  content,    \* what each of them uploaded
  cache,      \* the upload whose copy is in the cache, 0 for no complete copy
  unlinking,  \* an unlink of the copy is under way; nobody waits for it
  record,     \* the upload whose File record is in the database, or 0
  metrics,    \* the metrics whose records are in the database
  rows,       \* the upload that wrote each row of each metric, or 0
  writes,     \* the writes of an upload the database has not completed
  up,         \* how far uploadFile is
  del,        \* how far deleteFile is
  listed,     \* FileStore: the upload that is listed, or 0
  known,      \* MetricStore
  cut         \* history: an operation on the file was cut short or failed

vars == <<uploads, content, cache, unlinking, record, metrics, rows, writes,
          up, del, listed, known, cut>>

RowIndex == 0 .. MaxRows - 1
Uploads  == 1 .. MaxUploads
Content  == [columns : (SUBSET Metrics) \ {{}}, size : 0 .. MaxRows]

RowWrite  == [kind : {"row"}, metric : Metrics, row : RowIndex]
FileWrite == [kind |-> "file"]

UpSteps == {"none", "dialog", "copy", "fields", "rows", "record", "answer", "list"}
NoUpload == [step |-> "none", read |-> 0]

\* deleteFile deletes the record, reads the keys of the metrics, and starts
\* deleteMetric for all of them: chain is how far each is.
DelSteps   == {"none", "record", "keys", "metrics", "answer"}
ChainSteps == {"none", "metric", "rows", "model", "done", "failed"}
NoDeletion == [step |-> "none", chain |-> [m \in Metrics |-> "none"]]

TypeOK ==
  /\ uploads \in 0 .. MaxUploads
  /\ content \in [Uploads -> Content \cup {[columns |-> {}, size |-> 0]}]
  /\ cache \in 0 .. uploads
  /\ unlinking \in BOOLEAN
  /\ record \in 0 .. uploads
  /\ metrics \subseteq Metrics
  /\ rows \in [Metrics -> [RowIndex -> 0 .. uploads]]
  /\ writes \in Seq(RowWrite \cup {FileWrite})
  /\ up \in [step : UpSteps, read : 0 .. MaxRows]
  /\ del \in [step : DelSteps, chain : [Metrics -> ChainSteps]]
  /\ listed \in 0 .. uploads
  /\ known \subseteq Metrics
  /\ cut \in BOOLEAN

Init ==
  /\ uploads = 0
  /\ content = [u \in Uploads |-> [columns |-> {}, size |-> 0]]
  /\ cache = 0 /\ unlinking = FALSE
  /\ record = 0 /\ metrics = {} /\ rows = [m \in Metrics |-> [k \in RowIndex |-> 0]]
  /\ writes = <<>>
  /\ up = NoUpload /\ del = NoDeletion
  /\ listed = 0 /\ known = {}
  /\ cut = FALSE

-----------------------------------------------------------------------------
\* The user.

Quiet == up.step = "none" /\ del.step = "none" /\ ~unlinking

Begin == up.step = "none" /\ (Patient => Quiet)

\* A file is selected: when there is no record of its name the details are
\* shown, with a button that saves it.
ValidateFile ==
  /\ Begin
  /\ record = 0
  /\ uploads < MaxUploads
  /\ up' = [NoUpload EXCEPT !.step = "dialog"]
  /\ UNCHANGED <<uploads, content, cache, unlinking, record, metrics, rows, writes,
                 del, listed, known, cut>>

HideFileDetails ==
  /\ up.step = "dialog"
  /\ up' = NoUpload
  /\ UNCHANGED <<uploads, content, cache, unlinking, record, metrics, rows, writes,
                 del, listed, known, cut>>

\* The copy is opened for writing: what was there is gone.
UploadFile ==
  /\ up.step = "dialog"
  /\ uploads' = uploads + 1
  /\ \E c \in Content : content' = [content EXCEPT ![uploads + 1] = c]
  /\ cache' = 0
  /\ up' = [NoUpload EXCEPT !.step = "copy"]
  /\ UNCHANGED <<unlinking, record, metrics, rows, writes, del, listed, known, cut>>

\* The unlink is begun before the record is deleted.
DeleteFile ==
  /\ del.step = "none" /\ listed # 0
  /\ Patient => Quiet
  /\ del' = [NoDeletion EXCEPT !.step = "record"]
  /\ unlinking' = TRUE
  /\ UNCHANGED <<uploads, content, cache, record, metrics, rows, writes,
                 up, listed, known, cut>>

-----------------------------------------------------------------------------
\* uploadFile in the main process.

columns == content[uploads].columns

FileCopied ==
  /\ up.step = "copy"
  /\ cache' = uploads
  /\ up' = [up EXCEPT !.step = "fields"]
  /\ UNCHANGED <<uploads, content, unlinking, record, metrics, rows, writes,
                 del, listed, known, cut>>

\* putMetricBatch
MetricsSaved ==
  /\ up.step = "fields"
  /\ metrics' = metrics \cup columns
  /\ up' = [up EXCEPT !.step = "rows"]
  /\ UNCHANGED <<uploads, content, cache, unlinking, record, rows, writes,
                 del, listed, known, cut>>

\* Mutant: the copy stays when the upload fails.
UploadFailsOnly ==
  /\ up.step \in {"copy", "fields"}
  /\ up' = NoUpload
  /\ UNCHANGED <<uploads, content, cache, unlinking, record, metrics, rows, writes,
                 del, listed, known, cut>>

\* Copying, reading the fields or saving the metrics fails: the copy is
\* deleted, but nobody waits for that.
UploadFails ==
  /\ up.step \in {"copy", "fields"}
  /\ up' = NoUpload
  /\ unlinking' = TRUE
  /\ UNCHANGED <<uploads, content, cache, record, metrics, rows, writes,
                 del, listed, known, cut>>

\* putMetricData for each column; the calls are not waited for.
RowRead ==
  /\ up.step = "rows" /\ up.read < content[uploads].size
  /\ \E order \in [1 .. Cardinality(columns) -> columns] :
       /\ columns = {order[k] : k \in DOMAIN order}
       /\ writes' = writes \o [k \in DOMAIN order |->
                               [kind |-> "row", metric |-> order[k], row |-> up.read]]
  /\ up' = [up EXCEPT !.read = @ + 1]
  /\ UNCHANGED <<uploads, content, cache, unlinking, record, metrics, rows,
                 del, listed, known, cut>>

\* Mutant: the record is written when the first rows are.
EndOfFileEarly ==
  /\ up.step = "rows"
  /\ writes' = <<FileWrite>> \o writes
  /\ up' = [up EXCEPT !.step = "record"]
  /\ UNCHANGED <<uploads, content, cache, unlinking, record, metrics, rows,
                 del, listed, known, cut>>

\* putFile
EndOfFile ==
  /\ up.step = "rows" /\ up.read = content[uploads].size
  /\ writes' = Append(writes, FileWrite)
  /\ up' = [up EXCEPT !.step = "record"]
  /\ UNCHANGED <<uploads, content, cache, unlinking, record, metrics, rows,
                 del, listed, known, cut>>

\* The database completes writes in the order they were issued.
RowWritten ==
  /\ writes # <<>> /\ Head(writes) # FileWrite
  /\ rows' = [rows EXCEPT ![Head(writes).metric][Head(writes).row] = uploads]
  /\ writes' = Tail(writes)
  /\ UNCHANGED <<uploads, content, cache, unlinking, record, metrics,
                 up, del, listed, known, cut>>

FileWritten ==
  /\ writes # <<>> /\ Head(writes) = FileWrite
  /\ writes' = Tail(writes)
  /\ record' = uploads
  /\ up' = [up EXCEPT !.step = "answer"]
  /\ UNCHANGED <<uploads, content, cache, unlinking, metrics, rows,
                 del, listed, known, cut>>

\* A failure of putFile is reported, and everything else stays.
FileWriteFails ==
  /\ writes # <<>> /\ Head(writes) = FileWrite
  /\ writes' = Tail(writes)
  /\ up' = NoUpload
  /\ cut' = TRUE
  /\ UNCHANGED <<uploads, content, cache, unlinking, record, metrics, rows,
                 del, listed, known>>

-----------------------------------------------------------------------------
\* deleteFile in the main process.

Unlinked ==
  /\ unlinking
  /\ unlinking' = FALSE
  /\ cache' = 0
  /\ UNCHANGED <<uploads, content, record, metrics, rows, writes, up,
                 del, listed, known, cut>>

FileDeleted ==
  /\ del.step = "record"
  /\ record' = 0
  /\ del' = [del EXCEPT !.step = "keys"]
  /\ UNCHANGED <<uploads, content, cache, unlinking, metrics, rows, writes, up,
                 listed, known, cut>>

\* With no metric left the callback is never called.
MetricKeysRead ==
  /\ del.step = "keys"
  /\ del' = IF metrics = {} THEN NoDeletion
            ELSE [step |-> "metrics",
                  chain |-> [m \in Metrics |-> IF m \in metrics THEN "metric" ELSE "none"]]
  /\ UNCHANGED <<uploads, content, cache, unlinking, record, metrics, rows, writes,
                 up, listed, known, cut>>

Chains(chain, step) == {m \in Metrics : chain[m] = step}

\* Mutant: the metrics deleted are counted after the comparison, so that their
\* number is never reached.
AfterNeverAnswers(chain) ==
  IF \E m \in Metrics : chain[m] \in {"metric", "rows", "model"}
  THEN [step |-> "metrics", chain |-> chain]
  ELSE NoDeletion

\* The operation is over when every chain is; it is answered as done when
\* none has failed (a failure is answered at once, and changes no store).
After(chain) ==
  IF \E m \in Metrics : chain[m] \in {"metric", "rows", "model"}
  THEN [step |-> "metrics", chain |-> chain]
  ELSE IF Chains(chain, "failed") = {} THEN [NoDeletion EXCEPT !.step = "answer"]
  ELSE NoDeletion

Advance(m, from, to) ==
  /\ del.step = "metrics" /\ del.chain[m] = from
  /\ del' = After([del.chain EXCEPT ![m] = to])
  /\ UNCHANGED <<uploads, content, cache, unlinking, record, writes, up,
                 listed, known>>

\* The record of the metric, its rows, and what its model left.
DeleteMetric(m) ==
  \/ Advance(m, "metric", "rows") /\ metrics' = metrics \ {m} /\ UNCHANGED <<rows, cut>>
  \/ /\ Advance(m, "rows", "model")
     /\ rows' = [rows EXCEPT ![m] = [k \in RowIndex |-> 0]]
     /\ UNCHANGED <<metrics, cut>>
  \/ Advance(m, "model", "done") /\ UNCHANGED <<metrics, rows, cut>>

DeleteMetricFails(m) ==
  /\ \E from \in {"metric", "rows", "model"} : Advance(m, from, "failed")
  /\ cut' = TRUE
  /\ UNCHANGED <<metrics, rows>>

DeleteFails ==
  /\ del.step \in {"record", "keys"}
  /\ del' = NoDeletion
  /\ cut' = TRUE
  /\ UNCHANGED <<uploads, content, cache, unlinking, record, metrics, rows, writes,
                 up, listed, known>>

-----------------------------------------------------------------------------
\* The renderer.

\* UPLOADED_FILE; then the metrics of the file are asked for.
FileUploaded ==
  /\ up.step = "answer"
  /\ listed' = uploads
  /\ up' = [up EXCEPT !.step = "list"]
  /\ UNCHANGED <<uploads, content, cache, unlinking, record, metrics, rows, writes,
                 del, known, cut>>

\* LIST_METRICS
MetricsListed ==
  /\ up.step = "list"
  /\ known' = known \cup metrics
  /\ up' = NoUpload
  /\ UNCHANGED <<uploads, content, cache, unlinking, record, metrics, rows, writes,
                 del, listed, cut>>

\* DELETE_FILE
FileUnlisted ==
  /\ del.step = "answer"
  /\ listed' = 0 /\ known' = {}
  /\ del' = NoDeletion
  /\ UNCHANGED <<uploads, content, cache, unlinking, record, metrics, rows, writes,
                 up, cut>>

\* The application ends, at any moment, and is started again: the stores are
\* filled from the database before anything is shown.
Restart ==
  /\ cut' = (cut \/ ~(up.step \in {"none", "dialog", "answer", "list"}
                      /\ del.step \in {"none", "answer"} /\ ~unlinking))
  /\ up' = NoUpload /\ del' = NoDeletion
  /\ writes' = <<>> /\ unlinking' = FALSE
  /\ listed' = record /\ known' = metrics
  /\ UNCHANGED <<uploads, content, cache, record, metrics, rows>>

-----------------------------------------------------------------------------
User   == ValidateFile \/ HideFileDetails \/ UploadFile \/ DeleteFile
Upload == FileCopied \/ MetricsSaved \/ UploadFails \/ RowRead \/ EndOfFile
            \/ RowWritten \/ FileWritten \/ FileWriteFails
Delete == FileDeleted \/ MetricKeysRead \/ DeleteFails
            \/ \E m \in Metrics : DeleteMetric(m) \/ DeleteMetricFails(m)
Stores == FileUploaded \/ MetricsListed \/ FileUnlisted

Next == User \/ Upload \/ Unlinked \/ Delete \/ Stores \/ Restart

Spec == Init /\ [][Next]_vars

\* The database and the file system answer, and the event loops turn; the
\* user need not act, and the application need not end.
Fairness == WF_vars(Upload) /\ WF_vars(Unlinked) /\ WF_vars(Delete) /\ WF_vars(Stores)

FairSpec == Spec /\ Fairness

-----------------------------------------------------------------------------
\* A file with a record is complete and its own: all its metrics are there and
\* have its rows, whatever operations were cut short before and however: rows
\* of an earlier file can only follow those of the file.
RecordedFileIsWhole ==
  record # 0 =>
    /\ content[record].columns \subseteq metrics
    /\ \A m \in content[record].columns, k \in 0 .. content[record].size - 1 :
         rows[m][k] = record

\* Only an operation that was cut short or failed leaves anything behind: at
\* rest the cache, the metrics, the rows and the lists of the renderer are
\* those of the recorded file, or there is nothing.
OnlyCutsLeaveData ==
  Quiet /\ ~cut =>
    /\ listed = record /\ known = metrics /\ cache = record
    /\ metrics = IF record = 0 THEN {} ELSE content[record].columns
    /\ \A m \in Metrics, k \in RowIndex :
         rows[m][k] # 0 => m \in metrics /\ k < content[record].size

\* A file that is being deleted is unlisted in the end, unless a step fails.
DeletedFileIsUnlisted == del.step # "none" ~> listed = 0 \/ cut
=============================================================================
