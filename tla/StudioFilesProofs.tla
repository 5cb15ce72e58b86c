------------------------- MODULE StudioFilesProofs -------------------------
(***************************************************************************)
(* A file of HTM Studio that has a record is complete and its own, whatever *)
(* operations were cut short before, and only those leave anything behind:  *)
(* for any metrics, numbers of rows and uploads, when the user lets one     *)
(* operation on the file end before the next.                               *)
(***************************************************************************)
EXTENDS StudioFiles, FiniteSetTheorems, TLAPS

RowOf(m, k)  == [kind |-> "row", metric |-> m, row |-> k]
Issued(m, k) == \E i \in 1 .. Len(writes) : writes[i] = RowOf(m, k)

\* Patience: an upload and a deletion are never under way at once.
OneOperation == up.step # "none" => del.step = "none"

\* An upload begins without a record and makes it last; a deletion takes it
\* away before anything else in the database.
NoRecordYet ==
  /\ up.step \in {"dialog", "copy", "fields", "rows", "record"} => record = 0
  /\ del.step \in {"keys", "metrics", "answer"} => record = 0

ContentKnown ==
  /\ up.step = "dialog" => uploads < MaxUploads
  /\ up.step \in {"copy", "fields", "rows", "record"} =>
       uploads \in Uploads /\ content[uploads] \in Content

MetricsFirst == up.step \in {"rows", "record"} => columns \subseteq metrics

\* Every row that was read is in the database or among the writes.
RowsIssued ==
  /\ up.step \in {"none", "dialog", "copy", "fields"} => up.read = 0
  /\ up.step \in {"rows", "record"} =>
       \A m \in columns, k \in 0 .. up.read - 1 : rows[m][k] = uploads \/ Issued(m, k)

\* The record is the last of the writes, after all rows.
RecordLast ==
  /\ writes # <<>> => up.step \in {"rows", "record"}
  /\ up.step = "rows" => \A i \in 1 .. Len(writes) : writes[i] # FileWrite
  /\ up.step = "record" =>
       /\ up.read = content[uploads].size
       /\ \A i \in 1 .. Len(writes) : writes[i] = FileWrite <=> i = Len(writes)

FilesInv ==
  /\ TypeOK /\ OneOperation /\ NoRecordYet /\ ContentKnown /\ MetricsFirst
  /\ RowsIssued /\ RecordLast /\ RecordedFileIsWhole

USE FilesAssumption

-----------------------------------------------------------------------------
\* Nothing is there before the first upload.
LEMMA InitInv == Init => FilesInv
<1> SUFFICES ASSUME Init PROVE FilesInv
  OBVIOUS
<1> USE DEF Init
<1>1. TypeOK
  <2>1. up \in [step : UpSteps, read : 0 .. MaxRows]
    BY DEF NoUpload, UpSteps
  <2>2. del \in [step : DelSteps, chain : [Metrics -> ChainSteps]]
    BY DEF NoDeletion, DelSteps, ChainSteps
  <2>3. rows \in [Metrics -> [RowIndex -> 0 .. uploads]]
    BY DEF RowIndex
  <2>4. content \in [Uploads -> Content \cup {[columns |-> {}, size |-> 0]}]
    OBVIOUS
  <2>5. writes \in Seq(RowWrite \cup {FileWrite})
    OBVIOUS
  <2>6. uploads \in 0 .. MaxUploads /\ cache \in 0 .. uploads
    OBVIOUS
  <2>7. record \in 0 .. uploads /\ listed \in 0 .. uploads
    OBVIOUS
  <2>8. /\ unlinking \in BOOLEAN /\ cut \in BOOLEAN
        /\ metrics \subseteq Metrics /\ known \subseteq Metrics
    OBVIOUS
  <2> HIDE DEF Init
  <2> QED  BY <2>1, <2>2, <2>3, <2>4, <2>5, <2>6, <2>7, <2>8 DEF TypeOK
<1>2. OneOperation /\ NoRecordYet /\ ContentKnown /\ MetricsFirst /\ RowsIssued
  BY DEF OneOperation, NoRecordYet, ContentKnown, MetricsFirst, RowsIssued, NoUpload, NoDeletion
<1>3. RecordLast /\ RecordedFileIsWhole
  BY DEF RecordLast, RecordedFileIsWhole, NoUpload
<1> QED  BY <1>1, <1>2, <1>3 DEF FilesInv

\* When no upload is writing, only the recorded file matters.
LEMMA NothingWritten ==
  ASSUME up'.step \notin {"rows", "record"}, writes' = <<>>,
         up'.read = 0 \/ up'.step \in {"answer", "list"}
  PROVE  MetricsFirst' /\ RowsIssued' /\ RecordLast'
BY DEF MetricsFirst, RowsIssued, RecordLast

\* No write is outstanding unless an upload writes.
LEMMA NoWrites ==
  ASSUME RecordLast, up.step \notin {"rows", "record"}
  PROVE  writes = <<>>
BY DEF RecordLast

\* The details are shown, hidden, and the file is saved or deleted.
LEMMA UserInv ==
  ASSUME FilesInv, Patient, User
  PROVE  FilesInv'
<1> USE DEF FilesInv
<1>1. CASE ValidateFile
  <2>1. up.step = "none" /\ writes = <<>>
    BY <1>1, NoWrites DEF ValidateFile, Begin
  <2>2. TypeOK'
    BY <1>1 DEF ValidateFile, TypeOK, NoUpload, UpSteps
  <2>3. up'.step = "dialog" /\ del.step = "none" /\ record = 0
    BY <1>1 DEF ValidateFile, Begin, Quiet, NoUpload
  <2>4. MetricsFirst' /\ RowsIssued' /\ RecordLast'
    BY <1>1, <2>1, <2>2, <2>3, NothingWritten DEF ValidateFile, NoUpload
  <2>5. OneOperation' /\ NoRecordYet' /\ ContentKnown' /\ RecordedFileIsWhole'
    BY <1>1, <2>3 DEF ValidateFile, OneOperation, NoRecordYet, ContentKnown, RecordedFileIsWhole
  <2> QED  BY <2>2, <2>4, <2>5
<1>2. CASE HideFileDetails
  <2>1. up.step = "dialog" /\ writes = <<>> /\ up'.step = "none"
    BY <1>2, NoWrites DEF HideFileDetails, NoUpload
  <2>2. TypeOK'
    BY <1>2 DEF HideFileDetails, TypeOK, NoUpload, UpSteps
  <2>3. MetricsFirst' /\ RowsIssued' /\ RecordLast'
    BY <1>2, <2>1, <2>2, NothingWritten DEF HideFileDetails, NoUpload
  <2>4. OneOperation' /\ NoRecordYet' /\ ContentKnown' /\ RecordedFileIsWhole'
    BY <1>2, <2>1 DEF HideFileDetails, OneOperation, NoRecordYet, ContentKnown, RecordedFileIsWhole
  <2> QED  BY <2>2, <2>3, <2>4
<1>3. CASE UploadFile
  <2>1. up.step = "dialog" /\ writes = <<>> /\ up'.step = "copy" /\ record = 0 /\ record' = 0
    BY <1>3, NoWrites DEF UploadFile, NoUpload, NoRecordYet
  <2>2. PICK c \in Content : content' = [content EXCEPT ![uploads + 1] = c]
    BY <1>3 DEF UploadFile
  <2>3. uploads' = uploads + 1 /\ uploads + 1 \in Uploads /\ uploads \in Nat
    BY <1>3 DEF UploadFile, TypeOK, ContentKnown, Uploads
  <2>4. content' \in [Uploads -> Content \cup {[columns |-> {}, size |-> 0]}]
        /\ content'[uploads'] \in Content
    BY <2>2, <2>3 DEF TypeOK
  <2>5. TypeOK'
    BY <1>3, <2>3, <2>4 DEF UploadFile, TypeOK, NoUpload, UpSteps, Uploads
  <2>6. MetricsFirst' /\ RowsIssued' /\ RecordLast'
    BY <1>3, <2>1, <2>5, NothingWritten DEF UploadFile, NoUpload
  <2>7. OneOperation' /\ NoRecordYet' /\ ContentKnown' /\ RecordedFileIsWhole'
    BY <1>3, <2>1, <2>3, <2>4
    DEF UploadFile, OneOperation, NoRecordYet, ContentKnown, RecordedFileIsWhole
  <2> QED  BY <2>5, <2>6, <2>7
<1>4. CASE DeleteFile
  <2>1. up.step = "none" /\ writes = <<>> /\ del'.step = "record"
    BY <1>4, NoWrites DEF DeleteFile, Quiet, NoDeletion
  <2>2. TypeOK'
    BY <1>4 DEF DeleteFile, TypeOK, NoDeletion, DelSteps, ChainSteps
  <2>3. MetricsFirst' /\ RowsIssued' /\ RecordLast'
    BY <1>4, <2>1, <2>2, NothingWritten DEF DeleteFile, RowsIssued
  <2>4. OneOperation' /\ NoRecordYet' /\ ContentKnown' /\ RecordedFileIsWhole'
    BY <1>4, <2>1 DEF DeleteFile, OneOperation, NoRecordYet, ContentKnown, RecordedFileIsWhole
  <2> QED  BY <2>2, <2>3, <2>4
<1> QED  BY <1>1, <1>2, <1>3, <1>4 DEF User

-----------------------------------------------------------------------------
\* The upload before its first row: the copy, the metrics, and a failure.
LEMMA UploadBeginsInv ==
  ASSUME FilesInv, FileCopied \/ MetricsSaved \/ UploadFails
  PROVE  FilesInv'
<1> USE DEF FilesInv
<1>0. writes = <<>>
  BY NoWrites DEF FileCopied, MetricsSaved, UploadFails
<1>1. CASE FileCopied
  <2>1. /\ up.step = "copy" /\ up'.step = "fields" /\ uploads \in Uploads
        /\ up'.read = 0 /\ uploads \in 0 .. uploads
    BY <1>1 DEF FileCopied, TypeOK, ContentKnown, RowsIssued, Uploads
  <2>a. up' \in [step : UpSteps, read : 0 .. MaxRows]
    BY <1>1 DEF FileCopied, TypeOK, UpSteps
  <2>2. TypeOK'
    BY <1>1, <2>1, <2>a DEF FileCopied, TypeOK
  <2>3. MetricsFirst' /\ RowsIssued' /\ RecordLast'
    BY <1>0, <1>1, <2>1, <2>2, NothingWritten DEF FileCopied
  <2>4. OneOperation' /\ NoRecordYet' /\ ContentKnown' /\ RecordedFileIsWhole'
    BY <1>1, <2>1 DEF FileCopied, OneOperation, NoRecordYet, ContentKnown, RecordedFileIsWhole
  <2> QED  BY <2>2, <2>3, <2>4
<1>2. CASE MetricsSaved
  <2>1. /\ up.step = "fields" /\ up'.step = "rows" /\ up'.read = up.read
        /\ record = 0 /\ columns \subseteq Metrics
    BY <1>2 DEF MetricsSaved, TypeOK, ContentKnown, NoRecordYet, Content, columns
  <2>2. TypeOK'
    BY <1>2, <2>1 DEF MetricsSaved, TypeOK, UpSteps
  <2>3. MetricsFirst'
    BY <1>2 DEF MetricsSaved, MetricsFirst, columns
  <2>4. RowsIssued'
    <3>1. up'.read = 0
      BY <2>1 DEF RowsIssued
    <3> QED  BY <2>1, <3>1 DEF RowsIssued
  <2>5. RecordLast'
    BY <1>0, <1>2, <2>1 DEF MetricsSaved, RecordLast
  <2>6. OneOperation' /\ NoRecordYet' /\ ContentKnown' /\ RecordedFileIsWhole'
    BY <1>2, <2>1 DEF MetricsSaved, OneOperation, NoRecordYet, ContentKnown, RecordedFileIsWhole
  <2> QED  BY <2>2, <2>3, <2>4, <2>5, <2>6
<1>3. CASE UploadFails
  <2>1. up.step \in {"copy", "fields"} /\ up'.step = "none" /\ record = 0
    BY <1>3 DEF UploadFails, NoUpload, NoRecordYet
  <2>2. TypeOK'
    BY <1>3 DEF UploadFails, TypeOK, NoUpload, UpSteps
  <2>3. MetricsFirst' /\ RowsIssued' /\ RecordLast'
    BY <1>0, <1>3, <2>1, <2>2, NothingWritten DEF UploadFails, NoUpload
  <2>4. OneOperation' /\ NoRecordYet' /\ ContentKnown' /\ RecordedFileIsWhole'
    BY <1>3, <2>1 DEF UploadFails, OneOperation, NoRecordYet, ContentKnown, RecordedFileIsWhole
  <2> QED  BY <2>2, <2>3, <2>4
<1> QED  BY <1>1, <1>2, <1>3

\* What appending a sequence does.
LEMMA Appended ==
  ASSUME NEW S, NEW s \in Seq(S), NEW t \in Seq(S)
  PROVE  /\ s \o t \in Seq(S)
         /\ Len(s) \in Nat /\ Len(t) \in Nat
         /\ Len(s \o t) = Len(s) + Len(t)
         /\ \A i \in 1 .. Len(s) : (s \o t)[i] = s[i]
         /\ \A i \in 1 .. Len(t) : (s \o t)[Len(s) + i] = t[i]
OBVIOUS

\* A row is read: its writes follow those of the rows before.
LEMMA RowReadInv ==
  ASSUME FilesInv, RowRead
  PROVE  FilesInv'
<1> USE DEF FilesInv
<1>1. PICK order \in [1 .. Cardinality(columns) -> columns] :
        /\ columns = {order[k] : k \in DOMAIN order}
        /\ writes' = writes \o [k \in DOMAIN order |->
                                [kind |-> "row", metric |-> order[k], row |-> up.read]]
  BY DEF RowRead
<1> DEFINE more == [k \in DOMAIN order |->
                      [kind |-> "row", metric |-> order[k], row |-> up.read]]
           n == Cardinality(columns)
<1>2. /\ up.step = "rows" /\ up'.step = "rows"
      /\ up.read < content[uploads].size /\ up.read \in Nat /\ up'.read = up.read + 1
      /\ uploads \in Uploads /\ content[uploads] \in Content /\ columns \subseteq Metrics
      /\ record = 0 /\ writes \in Seq(RowWrite \cup {FileWrite})
  BY DEF RowRead, TypeOK, ContentKnown, Content, columns, NoRecordYet
<1>3. up.read \in RowIndex /\ up'.read \in 0 .. MaxRows
  BY <1>2 DEF Content, RowIndex
<1>4. n \in Nat
  <2>1. IsFiniteSet(columns)
    BY <1>2, FS_Subset
  <2> QED  BY <2>1, FS_CardinalityType
<1>5. more \in [1 .. n -> RowWrite]
  BY <1>1, <1>2, <1>3 DEF RowWrite
<1>6. more \in Seq(RowWrite) /\ Len(more) = n
  BY <1>4, <1>5
<1>7. \A k \in 1 .. n : more[k] = RowOf(order[k], up.read)
  BY <1>1 DEF RowOf
<1>8. writes' = writes \o more
  BY <1>1
<1> HIDE DEF more, n
<1>9. /\ writes' \in Seq(RowWrite \cup {FileWrite})
      /\ Len(writes') = Len(writes) + n
      /\ \A i \in 1 .. Len(writes) : writes'[i] = writes[i]
      /\ \A k \in 1 .. n : writes'[Len(writes) + k] = more[k]
      /\ Len(writes) \in Nat
  <2>1. more \in Seq(RowWrite \cup {FileWrite})
    BY <1>4, <1>5, <1>6
  <2> QED  BY <1>2, <1>6, <1>8, <2>1, Appended
<1>10. TypeOK'
  BY <1>2, <1>3, <1>9 DEF RowRead, TypeOK
<1>11. columns' = columns /\ rows' = rows /\ uploads' = uploads
  BY DEF RowRead, columns
<1>12. RowsIssued'
  <2> SUFFICES ASSUME NEW m \in columns, NEW k \in 0 .. up'.read - 1
               PROVE  rows[m][k] = uploads \/ Issued(m, k)'
    BY <1>2, <1>11 DEF RowsIssued
  <2>1. CASE k = up.read
    <3>1. PICK j \in 1 .. n : order[j] = m
      BY <1>1 DEF n
    <3>2. writes'[Len(writes) + j] = RowOf(m, k)
      BY <1>7, <1>9, <2>1, <3>1
    <3>3. Len(writes) + j \in 1 .. Len(writes')
      BY <1>4, <1>9, <3>1
    <3> QED  BY <3>2, <3>3 DEF Issued
  <2>2. CASE k # up.read
    <3>1. rows[m][k] = uploads \/ Issued(m, k)
      BY <1>2, <2>2 DEF RowsIssued
    <3>2. Issued(m, k) => Issued(m, k)'
      BY <1>4, <1>9 DEF Issued
    <3> QED  BY <3>1, <3>2
  <2> QED  BY <2>1, <2>2
<1>13. RecordLast'
  <2>1. \A i \in 1 .. Len(writes') : writes'[i] # FileWrite
    <3> SUFFICES ASSUME NEW i \in 1 .. Len(writes') PROVE writes'[i] # FileWrite
      OBVIOUS
    <3>1. CASE i <= Len(writes)
      BY <1>2, <1>9, <3>1 DEF RecordLast
    <3>2. CASE i > Len(writes)
      <4>1. i - Len(writes) \in 1 .. n /\ i = Len(writes) + (i - Len(writes))
        BY <1>4, <1>9, <3>2
      <4>2. writes'[i] = RowOf(order[i - Len(writes)], up.read)
        BY <1>7, <1>9, <4>1
      <4> QED  BY <4>2 DEF RowOf, FileWrite
    <3> QED  BY <1>9, <3>1, <3>2
  <2> QED  BY <1>2, <2>1 DEF RecordLast
<1>14. OneOperation' /\ NoRecordYet' /\ ContentKnown' /\ MetricsFirst' /\ RecordedFileIsWhole'
  BY <1>2, <1>11
  DEF RowRead, OneOperation, NoRecordYet, ContentKnown, MetricsFirst, RecordedFileIsWhole
<1> QED  BY <1>10, <1>12, <1>13, <1>14

\* After the last row the record is written.
LEMMA EndOfFileInv ==
  ASSUME FilesInv, EndOfFile
  PROVE  FilesInv'
<1> USE DEF FilesInv
<1>1. /\ up.step = "rows" /\ up'.step = "record" /\ up'.read = up.read
      /\ up.read = content[uploads].size /\ record = 0
      /\ writes \in Seq(RowWrite \cup {FileWrite}) /\ writes' = Append(writes, FileWrite)
  BY DEF EndOfFile, TypeOK, NoRecordYet
<1>2. /\ writes' \in Seq(RowWrite \cup {FileWrite})
      /\ Len(writes) \in Nat /\ Len(writes') = Len(writes) + 1
      /\ \A i \in 1 .. Len(writes) : writes'[i] = writes[i]
      /\ writes'[Len(writes) + 1] = FileWrite
  BY <1>1
<1>3. TypeOK'
  <2>1. up' \in [step : UpSteps, read : 0 .. MaxRows]
    BY DEF EndOfFile, TypeOK, UpSteps
  <2> QED  BY <1>2, <2>1 DEF EndOfFile, TypeOK
<1>4. columns' = columns /\ rows' = rows /\ uploads' = uploads /\ content' = content
  BY DEF EndOfFile, columns
<1>5. RowsIssued'
  <2>1. \A m, k : Issued(m, k) => Issued(m, k)'
    BY <1>2 DEF Issued
  <2> QED  BY <1>1, <1>4, <2>1 DEF RowsIssued
<1>6. RecordLast'
  <2>1. \A i \in 1 .. Len(writes) : writes[i] # FileWrite
    BY <1>1 DEF RecordLast
  <2>2. \A i \in 1 .. Len(writes') : writes'[i] = FileWrite <=> i = Len(writes')
    BY <1>2, <2>1
  <2> QED  BY <1>1, <1>4, <2>2 DEF RecordLast
<1>7. OneOperation' /\ NoRecordYet' /\ ContentKnown' /\ MetricsFirst' /\ RecordedFileIsWhole'
  BY <1>1, <1>4
  DEF EndOfFile, OneOperation, NoRecordYet, ContentKnown, MetricsFirst, RecordedFileIsWhole
<1> QED  BY <1>3, <1>5, <1>6, <1>7

\* What the first write is, and what its completion leaves.
LEMMA FirstWrite ==
  ASSUME FilesInv, writes # <<>>, writes' = Tail(writes)
  PROVE  /\ up.step \in {"rows", "record"} /\ record = 0
         /\ Head(writes) = writes[1] /\ Head(writes) \in RowWrite \cup {FileWrite}
         /\ Len(writes) \in Nat \ {0} /\ Len(writes') = Len(writes) - 1
         /\ writes' \in Seq(RowWrite \cup {FileWrite})
         /\ \A i \in 1 .. Len(writes') : writes'[i] = writes[i + 1]
<1>1. writes \in Seq(RowWrite \cup {FileWrite})
  BY DEF FilesInv, TypeOK
<1>2. up.step \in {"rows", "record"} /\ record = 0
  BY DEF FilesInv, RecordLast, NoRecordYet
<1> QED  BY <1>1, <1>2

\* A row is written, by the upload that read it.
LEMMA RowWrittenInv ==
  ASSUME FilesInv, RowWritten
  PROVE  FilesInv'
<1> USE DEF FilesInv
<1> DEFINE w == Head(writes)
<1>1. /\ up.step \in {"rows", "record"} /\ record = 0
      /\ w = writes[1] /\ w \in RowWrite \cup {FileWrite}
      /\ Len(writes) \in Nat \ {0} /\ Len(writes') = Len(writes) - 1
      /\ writes' \in Seq(RowWrite \cup {FileWrite})
      /\ \A i \in 1 .. Len(writes') : writes'[i] = writes[i + 1]
  BY FirstWrite DEF RowWritten
<1>2. /\ w \in RowWrite /\ w # FileWrite
      /\ rows' = [rows EXCEPT ![w.metric][w.row] = uploads]
      /\ UNCHANGED <<uploads, content, cache, unlinking, record, metrics,
                     up, del, listed, known, cut>>
  BY <1>1 DEF RowWritten
<1>3. w.metric \in Metrics /\ w.row \in RowIndex
  BY <1>2 DEF RowWrite
<1>4. columns' = columns /\ uploads \in Uploads /\ content[uploads] \in Content
      /\ columns \subseteq Metrics /\ content[uploads].size \in 0 .. MaxRows
  BY <1>1, <1>2 DEF columns, ContentKnown, Content
<1>5. \A m \in Metrics, k \in RowIndex :
        rows'[m][k] = IF m = w.metric /\ k = w.row THEN uploads ELSE rows[m][k]
  BY <1>2, <1>3 DEF TypeOK
<1>6. TypeOK'
  <2>1. rows' \in [Metrics -> [RowIndex -> 0 .. uploads]]
    <3>1. uploads \in 0 .. uploads
      BY <1>4 DEF Uploads
    <3>2. rows[w.metric] \in [RowIndex -> 0 .. uploads]
      BY <1>3 DEF TypeOK
    <3>3. [rows[w.metric] EXCEPT ![w.row] = uploads] \in [RowIndex -> 0 .. uploads]
      BY <3>1, <3>2
    <3> QED  BY <1>2, <1>3, <3>3 DEF TypeOK
  <2> QED  BY <1>1, <1>2, <2>1 DEF TypeOK
<1>7. RowsIssued'
  <2> SUFFICES ASSUME NEW m \in columns, NEW k \in 0 .. up.read - 1
               PROVE  rows'[m][k] = uploads \/ Issued(m, k)'
    BY <1>1, <1>2, <1>4 DEF RowsIssued
  <2>1. m \in Metrics /\ k \in RowIndex
    BY <1>4 DEF TypeOK, RowIndex
  <2>2. CASE rows[m][k] = uploads
    BY <1>5, <2>1, <2>2
  <2>3. CASE rows[m][k] # uploads
    <3>1. PICK i \in 1 .. Len(writes) : writes[i] = RowOf(m, k)
      BY <1>1, <2>3 DEF RowsIssued, Issued
    <3>2. CASE i = 1
      <4>1. m = w.metric /\ k = w.row
        BY <1>1, <3>1, <3>2 DEF RowOf
      <4> QED  BY <1>5, <2>1, <4>1
    <3>3. CASE i # 1
      <4>1. i - 1 \in 1 .. Len(writes') /\ writes'[i - 1] = writes[i]
        BY <1>1, <3>3
      <4> QED  BY <3>1, <4>1 DEF Issued
    <3> QED  BY <3>2, <3>3
  <2> QED  BY <2>2, <2>3
<1>8. RecordLast'
  <2>1. CASE up.step = "rows"
    BY <1>1, <1>2, <2>1 DEF RecordLast
  <2>2. CASE up.step = "record"
    <3>1. \A i \in 1 .. Len(writes) : writes[i] = FileWrite <=> i = Len(writes)
      BY <2>2 DEF RecordLast
    <3>2. \A i \in 1 .. Len(writes') : writes'[i] = FileWrite <=> i = Len(writes')
      BY <1>1, <3>1
    <3> QED  BY <1>2, <2>2, <3>2 DEF RecordLast
  <2> QED  BY <1>1, <2>1, <2>2
<1>9. OneOperation' /\ NoRecordYet' /\ ContentKnown' /\ MetricsFirst' /\ RecordedFileIsWhole'
  BY <1>1, <1>2, <1>4
  DEF OneOperation, NoRecordYet, ContentKnown, MetricsFirst, RecordedFileIsWhole
<1> QED  BY <1>6, <1>7, <1>8, <1>9

\* The record is written after all rows, or not at all.
LEMMA FileWrittenInv ==
  ASSUME FilesInv, FileWritten \/ FileWriteFails
  PROVE  FilesInv'
<1> USE DEF FilesInv
<1>1. /\ up.step \in {"rows", "record"} /\ record = 0
      /\ Head(writes) = writes[1] /\ Head(writes) = FileWrite
      /\ Len(writes) \in Nat \ {0} /\ Len(writes') = Len(writes) - 1
      /\ writes' \in Seq(RowWrite \cup {FileWrite})
  BY FirstWrite DEF FileWritten, FileWriteFails
<1>2. /\ UNCHANGED <<uploads, content, cache, unlinking, metrics, rows, del, listed, known>>
      /\ columns' = columns
  BY DEF FileWritten, FileWriteFails, columns
<1>3. up.step = "record" /\ up.read = content[uploads].size /\ Len(writes) = 1
  <2>1. up.step # "rows"
    BY <1>1 DEF RecordLast
  <2>2. 1 = Len(writes)
    BY <1>1, <2>1 DEF RecordLast
  <2> QED  BY <1>1, <2>1, <2>2 DEF RecordLast
<1>4. writes' = <<>>
  BY <1>1, <1>3
<1>5. /\ uploads \in Uploads /\ content[uploads] \in Content /\ uploads \in 0 .. uploads
      /\ columns \subseteq metrics /\ del.step = "none"
  BY <1>3 DEF ContentKnown, MetricsFirst, OneOperation, Uploads
<1>6. \A m \in columns, k \in 0 .. content[uploads].size - 1 : rows[m][k] = uploads
  <2> SUFFICES ASSUME NEW m \in columns, NEW k \in 0 .. up.read - 1
               PROVE  rows[m][k] = uploads
    BY <1>3
  <2>1. ~Issued(m, k)
    BY <1>1, <1>3 DEF Issued, RowOf, FileWrite
  <2> QED  BY <1>3, <2>1 DEF RowsIssued
<1>7. CASE FileWritten
  <2>1. record' = uploads /\ up'.step = "answer" /\ up'.read = up.read /\ cut' = cut
    BY <1>7 DEF FileWritten, TypeOK
  <2>2. TypeOK'
    <3>1. up' \in [step : UpSteps, read : 0 .. MaxRows]
      BY <1>7 DEF FileWritten, TypeOK, UpSteps
    <3> QED  BY <1>1, <1>2, <1>5, <2>1, <3>1 DEF TypeOK
  <2>3. MetricsFirst' /\ RowsIssued' /\ RecordLast'
    BY <1>4, <2>1, NothingWritten
  <2>4. RecordedFileIsWhole'
    BY <1>2, <1>5, <1>6, <2>1 DEF RecordedFileIsWhole, columns
  <2>5. OneOperation' /\ NoRecordYet' /\ ContentKnown'
    BY <1>2, <1>5, <2>1 DEF OneOperation, NoRecordYet, ContentKnown
  <2> QED  BY <2>2, <2>3, <2>4, <2>5
<1>8. CASE FileWriteFails
  <2>1. record' = record /\ up' = NoUpload /\ up'.step = "none" /\ up'.read = 0 /\ cut' = TRUE
    BY <1>8 DEF FileWriteFails, NoUpload
  <2>2. TypeOK'
    BY <1>1, <1>2, <2>1 DEF TypeOK, NoUpload, UpSteps
  <2>3. MetricsFirst' /\ RowsIssued' /\ RecordLast'
    BY <1>4, <2>1, NothingWritten
  <2>4. OneOperation' /\ NoRecordYet' /\ ContentKnown' /\ RecordedFileIsWhole'
    BY <1>1, <1>2, <1>5, <2>1
    DEF OneOperation, NoRecordYet, ContentKnown, RecordedFileIsWhole
  <2> QED  BY <2>2, <2>3, <2>4
<1> QED  BY <1>7, <1>8

-----------------------------------------------------------------------------
\* A deletion: no upload is under way, and the record is the first to go.
LEMMA DeletionInv ==
  ASSUME FilesInv, UNCHANGED <<uploads, content, writes, up, known>>,
         del.step # "none", TypeOK', del'.step # "none" => record' = 0,
         record' = 0 \/ (UNCHANGED <<record, metrics, rows>>)
  PROVE  FilesInv'
<1> USE DEF FilesInv
<1>1. up.step = "none" /\ up.read = 0 /\ writes = <<>>
  BY NoWrites DEF OneOperation, RowsIssued
<1>2. MetricsFirst' /\ RowsIssued' /\ RecordLast'
  BY <1>1, NothingWritten
<1>3. OneOperation' /\ NoRecordYet' /\ ContentKnown' /\ RecordedFileIsWhole'
  BY <1>1 DEF OneOperation, NoRecordYet, ContentKnown, RecordedFileIsWhole
<1> QED  BY <1>2, <1>3

\* The chains of deleteMetric keep the type of the operation.
LEMMA AdvanceType ==
  ASSUME TypeOK, NEW m \in Metrics, NEW from \in ChainSteps, NEW to \in ChainSteps,
         Advance(m, from, to)
  PROVE  del' \in [step : DelSteps, chain : [Metrics -> ChainSteps]]
<1> DEFINE chain == [del.chain EXCEPT ![m] = to]
<1>1. chain \in [Metrics -> ChainSteps] /\ del' = After(chain)
  BY DEF TypeOK, Advance
<1>2. NoDeletion \in [step : DelSteps, chain : [Metrics -> ChainSteps]]
      /\ [NoDeletion EXCEPT !.step = "answer"] \in [step : DelSteps, chain : [Metrics -> ChainSteps]]
  BY DEF NoDeletion, DelSteps, ChainSteps
<1>3. [step |-> "metrics", chain |-> chain] \in [step : DelSteps, chain : [Metrics -> ChainSteps]]
  BY <1>1 DEF DelSteps
<1> QED  BY <1>1, <1>2, <1>3 DEF After

LEMMA DeleteInv ==
  ASSUME FilesInv, Delete
  PROVE  FilesInv'
<1> USE DEF FilesInv
<1>1. CASE FileDeleted
  <2>1. del.step = "record" /\ record' = 0
    BY <1>1 DEF FileDeleted
  <2>2. del' \in [step : DelSteps, chain : [Metrics -> ChainSteps]]
    BY <1>1 DEF FileDeleted, TypeOK, DelSteps
  <2>3. TypeOK'
    BY <1>1, <2>2 DEF FileDeleted, TypeOK
  <2> QED  BY <1>1, <2>1, <2>3, DeletionInv DEF FileDeleted
<1>2. CASE MetricKeysRead
  <2>1. del.step = "keys" /\ record = 0 /\ record' = 0
    BY <1>2 DEF MetricKeysRead, NoRecordYet
  <2>2. del' \in [step : DelSteps, chain : [Metrics -> ChainSteps]]
    BY <1>2 DEF MetricKeysRead, NoDeletion, DelSteps, ChainSteps
  <2>3. TypeOK'
    BY <1>2, <2>2 DEF MetricKeysRead, TypeOK
  <2> QED  BY <1>2, <2>1, <2>3, DeletionInv DEF MetricKeysRead
<1>3. CASE DeleteFails
  <2>1. del.step \in {"record", "keys"} /\ del'.step = "none"
        /\ UNCHANGED <<record, metrics, rows>>
    BY <1>3 DEF DeleteFails, NoDeletion
  <2>2. del' \in [step : DelSteps, chain : [Metrics -> ChainSteps]]
    BY <1>3 DEF DeleteFails, NoDeletion, DelSteps, ChainSteps
  <2>3. TypeOK'
    BY <1>3, <2>2 DEF DeleteFails, TypeOK
  <2> QED  BY <1>3, <2>1, <2>3, DeletionInv DEF DeleteFails
<1>4. ASSUME NEW m \in Metrics, DeleteMetric(m) \/ DeleteMetricFails(m)
      PROVE  FilesInv'
  <2>1. PICK from \in ChainSteps, to \in ChainSteps : Advance(m, from, to)
    BY <1>4 DEF DeleteMetric, DeleteMetricFails, ChainSteps
  <2>2. /\ del.step = "metrics" /\ record = 0 /\ record' = 0
        /\ UNCHANGED <<uploads, content, cache, unlinking, writes, up, listed, known>>
    BY <2>1 DEF Advance, NoRecordYet
  <2>3. metrics' \subseteq Metrics /\ cut' \in BOOLEAN
    BY <1>4 DEF DeleteMetric, DeleteMetricFails, TypeOK
  <2>4. rows' \in [Metrics -> [RowIndex -> 0 .. uploads]]
    <3>1. 0 \in 0 .. uploads
      BY DEF TypeOK
    <3>2. [k \in RowIndex |-> 0] \in [RowIndex -> 0 .. uploads]
      BY <3>1
    <3> QED  BY <1>4, <3>2 DEF DeleteMetric, DeleteMetricFails, TypeOK
  <2>5. del' \in [step : DelSteps, chain : [Metrics -> ChainSteps]]
    BY <2>1, AdvanceType
  <2>6. TypeOK'
    BY <2>2, <2>3, <2>4, <2>5 DEF TypeOK
  <2> QED  BY <2>2, <2>6, DeletionInv
<1> QED  BY <1>1, <1>2, <1>3, <1>4 DEF Delete

-----------------------------------------------------------------------------
\* The answers reach the renderer, and a copy is deleted.
LEMMA StoresInv ==
  ASSUME FilesInv, Stores \/ Unlinked
  PROVE  FilesInv'
<1> USE DEF FilesInv
<1>1. CASE FileUploaded
  <2>1. /\ up.step = "answer" /\ up'.step = "list" /\ writes = <<>> /\ del.step = "none"
        /\ up' \in [step : UpSteps, read : 0 .. MaxRows]
    BY <1>1, NoWrites DEF FileUploaded, TypeOK, UpSteps, OneOperation
  <2>2. uploads \in 0 .. uploads
    BY DEF TypeOK
  <2>3. TypeOK'
    BY <1>1, <2>1, <2>2 DEF FileUploaded, TypeOK
  <2>4. MetricsFirst' /\ RowsIssued' /\ RecordLast'
    BY <1>1, <2>1, NothingWritten DEF FileUploaded
  <2>5. OneOperation' /\ NoRecordYet' /\ ContentKnown' /\ RecordedFileIsWhole'
    BY <1>1, <2>1 DEF FileUploaded, OneOperation, NoRecordYet, ContentKnown, RecordedFileIsWhole
  <2> QED  BY <2>3, <2>4, <2>5
<1>2. CASE MetricsListed
  <2>1. /\ up.step = "list" /\ up'.step = "none" /\ up'.read = 0 /\ writes = <<>>
        /\ up' \in [step : UpSteps, read : 0 .. MaxRows]
    BY <1>2, NoWrites DEF MetricsListed, NoUpload, UpSteps
  <2>2. TypeOK'
    BY <1>2, <2>1 DEF MetricsListed, TypeOK
  <2>3. MetricsFirst' /\ RowsIssued' /\ RecordLast'
    BY <1>2, <2>1, NothingWritten DEF MetricsListed
  <2>4. OneOperation' /\ NoRecordYet' /\ ContentKnown' /\ RecordedFileIsWhole'
    BY <1>2, <2>1 DEF MetricsListed, OneOperation, NoRecordYet, ContentKnown, RecordedFileIsWhole
  <2> QED  BY <2>2, <2>3, <2>4
<1>3. CASE FileUnlisted
  <2>1. del.step = "answer" /\ del'.step = "none" /\ record = 0 /\ up.step = "none"
        /\ writes = <<>> /\ up.read = 0
    BY <1>3, NoWrites DEF FileUnlisted, NoDeletion, NoRecordYet, OneOperation, RowsIssued
  <2>2. del' \in [step : DelSteps, chain : [Metrics -> ChainSteps]]
    BY <1>3 DEF FileUnlisted, NoDeletion, DelSteps, ChainSteps
  <2>3. TypeOK'
    BY <1>3, <2>2 DEF FileUnlisted, TypeOK
  <2>4. MetricsFirst' /\ RowsIssued' /\ RecordLast'
    BY <1>3, <2>1, NothingWritten DEF FileUnlisted
  <2>5. OneOperation' /\ NoRecordYet' /\ ContentKnown' /\ RecordedFileIsWhole'
    BY <1>3, <2>1 DEF FileUnlisted, OneOperation, NoRecordYet, ContentKnown, RecordedFileIsWhole
  <2> QED  BY <2>3, <2>4, <2>5
<1>4. CASE Unlinked
  <2>0. uploads \in Nat /\ unlinking' = FALSE /\ cache' = 0 /\ 0 \in 0 .. uploads
        /\ UNCHANGED <<uploads, content, record, metrics, rows, writes, up, del, listed, known, cut>>
    BY <1>4 DEF Unlinked, TypeOK
  <2>1. TypeOK'
    BY <2>0 DEF TypeOK
  <2>2. columns' = columns /\ \A m, k : Issued(m, k)' <=> Issued(m, k)
    BY <1>4 DEF Unlinked, columns, Issued
  <2>3. MetricsFirst' /\ RowsIssued' /\ RecordLast'
    BY <1>4, <2>2 DEF Unlinked, MetricsFirst, RowsIssued, RecordLast
  <2>4. OneOperation' /\ NoRecordYet' /\ ContentKnown' /\ RecordedFileIsWhole'
    BY <1>4 DEF Unlinked, OneOperation, NoRecordYet, ContentKnown, RecordedFileIsWhole
  <2> QED  BY <2>1, <2>3, <2>4
<1> QED  BY <1>1, <1>2, <1>3, <1>4 DEF Stores

\* The database is all that a restart keeps.
LEMMA RestartInv ==
  ASSUME FilesInv, Restart
  PROVE  FilesInv'
<1> USE DEF FilesInv
<1>1. /\ up'.step = "none" /\ up'.read = 0 /\ del'.step = "none" /\ writes' = <<>>
      /\ UNCHANGED <<uploads, content, cache, record, metrics, rows>>
  BY DEF Restart, NoUpload, NoDeletion
<1>2. up' \in [step : UpSteps, read : 0 .. MaxRows]
      /\ del' \in [step : DelSteps, chain : [Metrics -> ChainSteps]]
  BY DEF Restart, NoUpload, NoDeletion, UpSteps, DelSteps, ChainSteps
<1>3. listed' \in 0 .. uploads /\ known' \subseteq Metrics
      /\ unlinking' \in BOOLEAN /\ cut' \in BOOLEAN
  BY DEF Restart, TypeOK
<1>4. TypeOK'
  BY <1>1, <1>2, <1>3 DEF TypeOK
<1>5. MetricsFirst' /\ RowsIssued' /\ RecordLast'
  BY <1>1, NothingWritten
<1>6. OneOperation' /\ NoRecordYet' /\ ContentKnown' /\ RecordedFileIsWhole'
  BY <1>1 DEF OneOperation, NoRecordYet, ContentKnown, RecordedFileIsWhole
<1> QED  BY <1>4, <1>5, <1>6

\* Every step keeps the invariant.
LEMMA StepInv ==
  ASSUME Patient, FilesInv, [Next]_vars
  PROVE  FilesInv'
<1>1. CASE Upload
  BY <1>1, UploadBeginsInv, RowReadInv, EndOfFileInv, RowWrittenInv, FileWrittenInv DEF Upload
<1>2. CASE UNCHANGED vars
  <2> USE <1>2 DEF vars, FilesInv
  <2>1. TypeOK'
    BY DEF TypeOK
  <2>2. OneOperation' /\ NoRecordYet' /\ ContentKnown' /\ RecordedFileIsWhole'
    BY DEF OneOperation, NoRecordYet, ContentKnown, RecordedFileIsWhole
  <2>3. MetricsFirst' /\ RowsIssued' /\ RecordLast'
    BY DEF MetricsFirst, RowsIssued, RecordLast, columns, Issued
  <2> QED  BY <2>1, <2>2, <2>3
<1> QED
  BY <1>1, <1>2, UserInv, DeleteInv, StoresInv, RestartInv DEF Next

\* The inductive invariant holds throughout.
THEOREM FilesCorrect == ASSUME Patient PROVE Spec => []FilesInv
<1>1. FilesInv /\ [Next]_vars => FilesInv'
  BY StepInv
<1> QED  BY <1>1, InitInv, PTL DEF Spec

\* A file with a record has all its metrics and all their rows, as it was
\* uploaded, whatever was cut short or failed before: putMetricBatch comes
\* first, putFile last, and deleteFile begins with the record.
THEOREM FileIsWhole == ASSUME Patient PROVE Spec => []RecordedFileIsWhole
<1>1. FilesInv => RecordedFileIsWhole
  BY DEF FilesInv
<1> QED  BY <1>1, FilesCorrect, PTL

\* The model keeps its types, in uploadFile, deleteFile and the stores.
THEOREM FilesTypes == ASSUME Patient PROVE Spec => []TypeOK
<1>1. FilesInv => TypeOK
  BY DEF FilesInv
<1> QED  BY <1>1, FilesCorrect, PTL

-----------------------------------------------------------------------------
\* What is left behind, while no operation was cut short or failed.

RecordKnown == record # 0 => content[record] \in Content

RowsWithin(M, n) == \A m \in Metrics, k \in RowIndex : rows[m][k] # 0 => m \in M /\ k < n

\* Between operations everything is that of the recorded file, but for a copy
\* that is about to be deleted.
AtRest ==
  up.step = "none" /\ del.step = "none" =>
    /\ listed = record /\ known = metrics
    /\ metrics = IF record = 0 THEN {} ELSE content[record].columns
    /\ RowsWithin(metrics, content[record].size)
    /\ IF record = 0 THEN cache = 0 \/ unlinking ELSE cache = record /\ ~unlinking

\* An upload begins with nothing, and adds what belongs to it.
Uploading ==
  up.step # "none" =>
    /\ ~unlinking
    /\ cache = IF up.step \in {"dialog", "copy"} THEN 0 ELSE uploads
    /\ record = IF up.step \in {"answer", "list"} THEN uploads ELSE 0
    /\ listed = IF up.step = "list" THEN uploads ELSE 0
    /\ known = {}
    /\ metrics = IF up.step \in {"dialog", "copy", "fields"} THEN {} ELSE columns
    /\ RowsWithin(metrics, up.read)
    /\ \A i \in 1 .. Len(writes) : writes[i] # FileWrite =>
         writes[i].metric \in metrics /\ writes[i].row < up.read
    /\ up.step \in {"answer", "list"} =>
         uploads \in Uploads /\ up.read = content[uploads].size

\* A deletion takes away the rows of every metric, and the metric first.
Deleting ==
  del.step # "none" =>
    /\ cache = 0 \/ unlinking
    /\ del.step \in {"record", "keys"} => metrics # {} /\ RowsWithin(metrics, MaxRows)
    /\ del.step = "metrics" =>
         \A m \in Metrics :
           /\ m \in metrics <=> del.chain[m] = "metric"
           /\ del.chain[m] # "failed"
           /\ \A k \in RowIndex : rows[m][k] # 0 => del.chain[m] \in {"metric", "rows"}
    /\ del.step = "answer" => metrics = {} /\ RowsWithin({}, 0)

CleanInv == RecordKnown /\ (~cut => AtRest /\ Uploading /\ Deleting)

\* At first there is nothing.
LEMMA InitClean == Init => CleanInv
<1> SUFFICES ASSUME Init PROVE CleanInv
  OBVIOUS
<1>1. RowsWithin({}, 0) /\ RowsWithin(metrics, content[record].size)
  BY DEF Init, RowsWithin
<1> QED  BY <1>1 DEF Init, CleanInv, RecordKnown, AtRest, Uploading, Deleting, NoUpload, NoDeletion

\* The rows stay when the metrics do.
LEMMA RowsStay ==
  ASSUME UNCHANGED rows
  PROVE  \A M, n : RowsWithin(M, n)' <=> RowsWithin(M, n)
BY DEF RowsWithin, RowIndex

\* What the user begins.
LEMMA UserClean ==
  ASSUME FilesInv, CleanInv, Patient, User
  PROVE  CleanInv'
<1>0. /\ TypeOK /\ OneOperation /\ NoRecordYet /\ ContentKnown /\ RecordLast /\ RowsIssued
      /\ RecordKnown
  BY DEF FilesInv, CleanInv
<1>1. CASE ValidateFile
  <2>1. /\ up.step = "none" /\ del.step = "none" /\ ~unlinking /\ record = 0
        /\ up'.step = "dialog" /\ up'.read = 0
        /\ UNCHANGED <<uploads, content, cache, unlinking, record, metrics, rows, writes,
                       del, listed, known, cut>>
    BY <1>1 DEF ValidateFile, Begin, Quiet, NoUpload
  <2>2. writes = <<>>
    BY <1>0, <2>1, NoWrites
  <2>3. ASSUME ~cut PROVE AtRest' /\ Uploading' /\ Deleting'
    <3>1. /\ listed = 0 /\ known = {} /\ metrics = {} /\ cache = 0
          /\ \A n : RowsWithin({}, n)
      BY <2>1, <2>3 DEF CleanInv, AtRest, RowsWithin
    <3>2. RowsWithin({}, 0)'
      BY <2>1, <3>1, RowsStay
    <3> QED  BY <2>1, <2>2, <3>1, <3>2 DEF AtRest, Uploading, Deleting
  <2> QED  BY <1>0, <2>1, <2>3 DEF CleanInv, RecordKnown
<1>2. CASE HideFileDetails
  <2>1. /\ up.step = "dialog" /\ up'.step = "none" /\ del.step = "none" /\ record = 0
        /\ UNCHANGED <<uploads, content, cache, unlinking, record, metrics, rows, writes,
                       del, listed, known, cut>>
    BY <1>0, <1>2 DEF HideFileDetails, NoUpload, OneOperation, NoRecordYet
  <2>2. ASSUME ~cut PROVE AtRest' /\ Uploading' /\ Deleting'
    <3>1. /\ listed = 0 /\ known = {} /\ metrics = {} /\ cache = 0
          /\ \A n : RowsWithin({}, n)
      BY <2>1, <2>2 DEF CleanInv, Uploading, RowsWithin
    <3>2. \A n : RowsWithin({}, n)'
      BY <2>1, <3>1, RowsStay
    <3> QED  BY <2>1, <3>1, <3>2 DEF AtRest, Uploading, Deleting
  <2> QED  BY <1>0, <2>1, <2>2 DEF CleanInv, RecordKnown
<1>3. CASE UploadFile
  <2>1. /\ up.step = "dialog" /\ up'.step = "copy" /\ up'.read = 0 /\ del.step = "none"
        /\ record = 0 /\ cache' = 0
        /\ UNCHANGED <<unlinking, record, metrics, rows, writes, del, listed, known, cut>>
    BY <1>0, <1>3 DEF UploadFile, NoUpload, OneOperation, NoRecordYet
  <2>2. writes = <<>>
    BY <1>0, <2>1, NoWrites
  <2>3. ASSUME ~cut PROVE AtRest' /\ Uploading' /\ Deleting'
    <3>1. /\ listed = 0 /\ known = {} /\ metrics = {} /\ ~unlinking
          /\ \A n : RowsWithin({}, n)
      BY <2>1, <2>3 DEF CleanInv, Uploading, RowsWithin
    <3>2. RowsWithin({}, 0)'
      BY <2>1, <3>1, RowsStay
    <3> QED  BY <2>1, <2>2, <3>1, <3>2 DEF AtRest, Uploading, Deleting
  <2> QED  BY <1>0, <2>1, <2>3 DEF CleanInv, RecordKnown
<1>4. CASE DeleteFile
  <2>1. /\ up.step = "none" /\ del.step = "none" /\ del'.step = "record" /\ listed # 0
        /\ unlinking'
        /\ UNCHANGED <<uploads, content, cache, record, metrics, rows, writes,
                       up, listed, known, cut>>
    BY <1>4 DEF DeleteFile, Quiet, NoDeletion
  <2>2. ASSUME ~cut PROVE AtRest' /\ Uploading' /\ Deleting'
    <3>0. AtRest
      BY <2>2 DEF CleanInv
    <3>1. /\ record # 0 /\ metrics = content[record].columns
          /\ RowsWithin(metrics, content[record].size)
      BY <2>1, <3>0 DEF AtRest
    <3>2. metrics # {}
      BY <1>0, <3>1 DEF RecordKnown, Content
    <3>3. RowsWithin(metrics, MaxRows)
      BY <3>1 DEF RowsWithin, RowIndex
    <3>4. RowsWithin(metrics, MaxRows)'
      BY <2>1, <3>3, RowsStay
    <3> QED  BY <2>1, <3>2, <3>4 DEF AtRest, Uploading, Deleting
  <2> QED  BY <1>0, <2>1, <2>2 DEF CleanInv, RecordKnown
<1> QED  BY <1>1, <1>2, <1>3, <1>4 DEF User

\* The copy is made, the metrics and the rows are written, and the record.
LEMMA UploadClean ==
  ASSUME FilesInv, FilesInv', CleanInv, Upload
  PROVE  CleanInv'
<1>0. /\ TypeOK /\ OneOperation /\ NoRecordYet /\ ContentKnown /\ RecordLast /\ RowsIssued
      /\ RecordKnown
  BY DEF FilesInv, CleanInv
<1> DEFINE Clean == AtRest /\ Uploading /\ Deleting
<1>s. ASSUME up.step # "none", del.step = "none"
      PROVE  ~cut => /\ ~unlinking /\ known = {}
                     /\ cache = IF up.step \in {"dialog", "copy"} THEN 0 ELSE uploads
                     /\ record = IF up.step \in {"answer", "list"} THEN uploads ELSE 0
                     /\ listed = IF up.step = "list" THEN uploads ELSE 0
                     /\ metrics = IF up.step \in {"dialog", "copy", "fields"} THEN {} ELSE columns
                     /\ RowsWithin(metrics, up.read)
                     /\ \A i \in 1 .. Len(writes) : writes[i] # FileWrite =>
                          writes[i].metric \in metrics /\ writes[i].row < up.read
  BY <1>s DEF CleanInv, Uploading
<1>1. CASE FileCopied
  <2>1. /\ up.step = "copy" /\ up'.step = "fields" /\ up'.read = up.read /\ cache' = uploads
        /\ del.step = "none" /\ record = 0
        /\ UNCHANGED <<uploads, content, unlinking, record, metrics, rows, writes,
                       del, listed, known, cut>>
    BY <1>0, <1>1 DEF FileCopied, TypeOK, OneOperation, NoRecordYet
  <2>2. ASSUME ~cut PROVE Clean'
    <3>1. RowsWithin(metrics, up.read)' /\ columns' = columns
      BY <1>s, <2>1, <2>2, RowsStay DEF columns
    <3> QED  BY <1>s, <2>1, <2>2, <3>1 DEF AtRest, Uploading, Deleting
  <2> QED  BY <2>1, <2>2 DEF CleanInv, RecordKnown
<1>2. CASE MetricsSaved
  <2>1. /\ up.step = "fields" /\ up'.step = "rows" /\ up'.read = up.read
        /\ metrics' = metrics \cup columns /\ columns' = columns
        /\ del.step = "none" /\ record = 0 /\ writes = <<>>
        /\ UNCHANGED <<uploads, content, cache, unlinking, record, rows, writes,
                       del, listed, known, cut>>
    BY <1>0, <1>2, NoWrites DEF MetricsSaved, TypeOK, OneOperation, NoRecordYet, columns
  <2>2. ASSUME ~cut PROVE Clean'
    <3>1. RowsWithin(metrics, up.read)'
      BY <1>s, <2>1, <2>2 DEF RowsWithin, RowIndex
    <3> QED  BY <1>s, <2>1, <2>2, <3>1 DEF AtRest, Uploading, Deleting
  <2> QED  BY <2>1, <2>2 DEF CleanInv, RecordKnown
<1>3. CASE UploadFails
  <2>1. /\ up.step \in {"copy", "fields"} /\ up'.step = "none" /\ unlinking'
        /\ del.step = "none" /\ record = 0
        /\ UNCHANGED <<uploads, content, cache, record, metrics, rows, writes,
                       del, listed, known, cut>>
    BY <1>0, <1>3 DEF UploadFails, NoUpload, OneOperation, NoRecordYet
  <2>2. ASSUME ~cut PROVE Clean'
    <3>1. metrics = {} /\ known = {} /\ listed = 0 /\ \A n : RowsWithin({}, n)
      BY <1>s, <2>1, <2>2 DEF RowsWithin
    <3>2. \A n : RowsWithin({}, n)'
      BY <2>1, <3>1, RowsStay
    <3> QED  BY <2>1, <3>1, <3>2 DEF AtRest, Uploading, Deleting
  <2> QED  BY <2>1, <2>2 DEF CleanInv, RecordKnown
<1>4. CASE RowRead
  <2>1. PICK order \in [1 .. Cardinality(columns) -> columns] :
          writes' = writes \o [k \in DOMAIN order |->
                               [kind |-> "row", metric |-> order[k], row |-> up.read]]
    BY <1>4 DEF RowRead
  <2> DEFINE more == [k \in DOMAIN order |->
                        [kind |-> "row", metric |-> order[k], row |-> up.read]]
             n == Cardinality(columns)
  <2>2. /\ up.step = "rows" /\ up'.step = "rows" /\ up.read \in Nat /\ up'.read = up.read + 1
        /\ del.step = "none" /\ record = 0 /\ columns \subseteq Metrics
        /\ up.read < content[uploads].size /\ content[uploads] \in Content
        /\ writes \in Seq(RowWrite \cup {FileWrite}) /\ columns' = columns
        /\ UNCHANGED <<uploads, content, cache, unlinking, record, metrics, rows,
                       del, listed, known, cut>>
    BY <1>0, <1>4
    DEF RowRead, TypeOK, OneOperation, NoRecordYet, ContentKnown, Content, columns
  <2>3. n \in Nat
    <3>1. IsFiniteSet(columns)
      BY <2>2, FS_Subset
    <3> QED  BY <3>1, FS_CardinalityType
  <2>4. more \in [1 .. n -> RowWrite]
    <3>1. up.read \in RowIndex
      BY <2>2 DEF Content, RowIndex
    <3> QED  BY <2>2, <3>1 DEF RowWrite
  <2>5. more \in Seq(RowWrite \cup {FileWrite}) /\ Len(more) = n
    BY <2>3, <2>4
  <2>6. \A k \in 1 .. n : more[k].metric \in columns /\ more[k].row = up.read
    OBVIOUS
  <2>7. writes' = writes \o more
    BY <2>1
  <2> HIDE DEF more, n
  <2>8. /\ Len(writes) \in Nat /\ Len(writes') = Len(writes) + n
        /\ \A i \in 1 .. Len(writes) : writes'[i] = writes[i]
        /\ \A k \in 1 .. n : writes'[Len(writes) + k] = more[k]
    <3>1. writes \in Seq(RowWrite \cup {FileWrite})
      BY <2>2
    <3>2. more \in Seq(RowWrite \cup {FileWrite})
      BY <2>5
    <3>3. /\ Len(writes) \in Nat /\ Len(writes \o more) = Len(writes) + Len(more)
          /\ \A i \in 1 .. Len(writes) : (writes \o more)[i] = writes[i]
          /\ \A k \in 1 .. Len(more) : (writes \o more)[Len(writes) + k] = more[k]
      BY <3>1, <3>2, Appended
    <3>4. Len(more) = n
      BY <2>5
    <3> QED  BY <2>7, <3>3, <3>4
  <2>9. ASSUME ~cut PROVE Clean'
    <3>1. RowsWithin(metrics, up.read)'
      BY <1>s, <2>2, <2>9 DEF RowsWithin, RowIndex
    <3>2. ASSUME NEW i \in 1 .. Len(writes'), writes'[i] # FileWrite
          PROVE  writes'[i].metric \in metrics' /\ writes'[i].row < up'.read
      <4>1. CASE i <= Len(writes)
        <5>1. i \in 1 .. Len(writes) /\ writes'[i] = writes[i]
          BY <2>8, <3>2, <4>1
        <5>2. writes[i].metric \in metrics /\ writes[i].row < up.read
          BY <1>s, <2>2, <2>9, <3>2, <5>1
        <5>3. writes[i].row \in Nat
          BY <2>2, <3>2, <5>1 DEF RowWrite, RowIndex
        <5> QED  BY <2>2, <5>1, <5>2, <5>3
      <4>2. CASE i > Len(writes)
        <5>1. i - Len(writes) \in 1 .. n /\ i = Len(writes) + (i - Len(writes))
          BY <2>3, <2>8, <4>2
        <5>2. writes'[i].metric \in columns /\ writes'[i].row = up.read
          BY <2>6, <2>8, <5>1
        <5>3. metrics = columns
          BY <1>s, <2>2, <2>9
        <5> QED  BY <2>2, <5>2, <5>3
      <4> QED  BY <2>8, <4>1, <4>2
    <3> QED  BY <1>s, <2>2, <2>9, <3>1, <3>2 DEF AtRest, Uploading, Deleting
  <2> QED  BY <2>2, <2>9 DEF CleanInv, RecordKnown
<1>5. CASE EndOfFile
  <2>1. /\ up.step = "rows" /\ up'.step = "record" /\ up'.read = up.read
        /\ del.step = "none" /\ record = 0 /\ columns' = columns
        /\ writes \in Seq(RowWrite \cup {FileWrite}) /\ writes' = Append(writes, FileWrite)
        /\ UNCHANGED <<uploads, content, cache, unlinking, record, metrics, rows,
                       del, listed, known, cut>>
    BY <1>0, <1>5 DEF EndOfFile, TypeOK, OneOperation, NoRecordYet, columns
  <2>2. ASSUME ~cut PROVE Clean'
    <3>1. RowsWithin(metrics, up.read)'
      BY <1>s, <2>1, <2>2, RowsStay
    <3>2. \A i \in 1 .. Len(writes') : writes'[i] # FileWrite =>
            i \in 1 .. Len(writes) /\ writes'[i] = writes[i]
      BY <2>1
    <3> QED  BY <1>s, <2>1, <2>2, <3>1, <3>2 DEF AtRest, Uploading, Deleting
  <2> QED  BY <2>1, <2>2 DEF CleanInv, RecordKnown
<1>6. CASE RowWritten
  <2> DEFINE w == Head(writes)
  <2>1. /\ up.step \in {"rows", "record"} /\ record = 0 /\ w = writes[1]
        /\ Len(writes) \in Nat \ {0} /\ Len(writes') = Len(writes) - 1
        /\ \A i \in 1 .. Len(writes') : writes'[i] = writes[i + 1]
        /\ w \in RowWrite \cup {FileWrite}
    BY <1>6, FirstWrite DEF RowWritten
  <2>2. /\ w # FileWrite /\ w \in RowWrite
        /\ rows' = [rows EXCEPT ![w.metric][w.row] = uploads]
        /\ UNCHANGED <<uploads, content, cache, unlinking, record, metrics, up,
                       del, listed, known, cut>>
        /\ columns' = columns /\ del.step = "none"
    BY <1>0, <1>6, <2>1 DEF RowWritten, OneOperation, columns
  <2>3. ASSUME ~cut PROVE Clean'
    <3>1. w.metric \in metrics /\ w.row < up.read
      BY <1>s, <2>1, <2>2, <2>3
    <3>2. \A m \in Metrics, k \in RowIndex :
            rows'[m][k] # 0 => rows[m][k] # 0 \/ (m = w.metric /\ k = w.row)
      BY <1>0, <2>2 DEF TypeOK, RowWrite
    <3>3. RowsWithin(metrics, up.read)'
      BY <1>s, <2>1, <2>2, <2>3, <3>1, <3>2 DEF RowsWithin
    <3>4. \A i \in 1 .. Len(writes') : i + 1 \in 1 .. Len(writes)
      BY <2>1
    <3> QED  BY <1>s, <2>1, <2>2, <2>3, <3>3, <3>4 DEF AtRest, Uploading, Deleting
  <2> QED  BY <2>1, <2>2, <2>3 DEF CleanInv, RecordKnown
<1>7. CASE FileWritten
  <2>1. /\ up.step \in {"rows", "record"} /\ record = 0 /\ Head(writes) = writes[1]
        /\ Len(writes) \in Nat \ {0} /\ writes[1] = FileWrite
        /\ Len(writes') = Len(writes) - 1 /\ writes' \in Seq(RowWrite \cup {FileWrite})
    BY <1>7, FirstWrite DEF FileWritten
  <2>2. up.step = "record" /\ up.read = content[uploads].size /\ Len(writes) = 1
    <3>1. up.step = "record"
      BY <1>0, <2>1 DEF RecordLast
    <3> QED  BY <1>0, <2>1, <3>1 DEF RecordLast
  <2>3. /\ record' = uploads /\ up'.step = "answer" /\ up'.read = up.read /\ columns' = columns
        /\ del.step = "none" /\ uploads \in Uploads /\ content[uploads] \in Content
        /\ UNCHANGED <<uploads, content, cache, unlinking, metrics, rows,
                       del, listed, known, cut>>
    BY <1>0, <1>7, <2>2 DEF FileWritten, TypeOK, ContentKnown, OneOperation, columns
  <2>4. writes' = <<>>
    BY <2>1, <2>2
  <2>5. ASSUME ~cut PROVE Clean'
    <3>1. RowsWithin(metrics, up.read)'
      BY <1>s, <2>2, <2>3, <2>5, RowsStay
    <3> QED  BY <1>s, <2>2, <2>3, <2>4, <2>5, <3>1 DEF AtRest, Uploading, Deleting
  <2> QED  BY <2>3, <2>5 DEF CleanInv, RecordKnown
<1>8. CASE FileWriteFails
  BY <1>0, <1>8 DEF FileWriteFails, CleanInv, RecordKnown
<1> QED  BY <1>1, <1>2, <1>3, <1>4, <1>5, <1>6, <1>7, <1>8 DEF Upload

\* The record, the metrics and their rows go, and the copy in its own time.
LEMMA DeleteClean ==
  ASSUME FilesInv, CleanInv, Delete
  PROVE  CleanInv'
<1>0. /\ TypeOK /\ OneOperation /\ NoRecordYet /\ RecordKnown
  BY DEF FilesInv, CleanInv
<1> DEFINE Clean == AtRest /\ Uploading /\ Deleting
<1>1. CASE FileDeleted
  <2>1. /\ del.step = "record" /\ del'.step = "keys" /\ record' = 0 /\ up.step = "none"
        /\ UNCHANGED <<uploads, content, cache, unlinking, metrics, rows, writes, up,
                       listed, known, cut>>
    BY <1>0, <1>1 DEF FileDeleted, TypeOK, OneOperation
  <2>2. ASSUME ~cut PROVE Clean'
    <3>1. metrics # {} /\ RowsWithin(metrics, MaxRows) /\ (cache = 0 \/ unlinking)
      BY <2>1, <2>2 DEF CleanInv, Deleting
    <3>2. RowsWithin(metrics, MaxRows)'
      BY <2>1, <3>1, RowsStay
    <3> QED  BY <2>1, <3>1, <3>2 DEF AtRest, Uploading, Deleting
  <2> QED  BY <2>1, <2>2 DEF CleanInv, RecordKnown
<1>2. CASE MetricKeysRead
  <2>1. /\ del.step = "keys" /\ up.step = "none" /\ record = 0
        /\ UNCHANGED <<uploads, content, cache, unlinking, record, metrics, rows, writes,
                       up, listed, known, cut>>
    BY <1>0, <1>2 DEF MetricKeysRead, OneOperation, NoRecordYet
  <2>2. ASSUME ~cut PROVE Clean'
    <3>1. metrics # {} /\ RowsWithin(metrics, MaxRows) /\ (cache = 0 \/ unlinking)
      BY <2>1, <2>2 DEF CleanInv, Deleting
    <3>2. /\ del'.step = "metrics"
          /\ \A m \in Metrics : del'.chain[m] = IF m \in metrics THEN "metric" ELSE "none"
      BY <1>2, <3>1 DEF MetricKeysRead
    <3>3. \A m \in Metrics, k \in RowIndex : rows[m][k] # 0 => m \in metrics
      BY <3>1 DEF RowsWithin
    <3> QED  BY <2>1, <3>1, <3>2, <3>3 DEF AtRest, Uploading, Deleting, RowIndex
  <2> QED  BY <2>1, <2>2 DEF CleanInv, RecordKnown
<1>3. CASE DeleteFails
  BY <1>0, <1>3 DEF DeleteFails, CleanInv, RecordKnown
<1>4. ASSUME NEW m \in Metrics, DeleteMetricFails(m) PROVE CleanInv'
  BY <1>0, <1>4 DEF DeleteMetricFails, Advance, CleanInv, RecordKnown
<1>5. ASSUME NEW m \in Metrics, DeleteMetric(m) PROVE CleanInv'
  <2>1. PICK from \in {"metric", "rows", "model"}, to \in {"rows", "model", "done"} :
          /\ Advance(m, from, to) /\ UNCHANGED cut
          /\ \/ from = "metric" /\ to = "rows" /\ metrics' = metrics \ {m} /\ UNCHANGED rows
             \/ /\ from = "rows" /\ to = "model" /\ UNCHANGED metrics
                /\ rows' = [rows EXCEPT ![m] = [k \in RowIndex |-> 0]]
             \/ from = "model" /\ to = "done" /\ UNCHANGED <<metrics, rows>>
    BY <1>5 DEF DeleteMetric
  <2> DEFINE chain == [del.chain EXCEPT ![m] = to]
  <2>2. /\ del.step = "metrics" /\ del.chain[m] = from /\ del' = After(chain)
        /\ up.step = "none" /\ record = 0
        /\ UNCHANGED <<uploads, content, cache, unlinking, record, writes, up, listed, known>>
    BY <1>0, <2>1 DEF Advance, OneOperation, NoRecordYet
  <2>3. \A i \in Metrics : chain[i] = IF i = m THEN to ELSE del.chain[i]
    BY <1>0 DEF TypeOK
  <2>4. ASSUME ~cut PROVE Clean'
    <3>1. /\ cache = 0 \/ unlinking
          /\ \A i \in Metrics :
               /\ i \in metrics <=> del.chain[i] = "metric"
               /\ del.chain[i] # "failed"
               /\ \A k \in RowIndex : rows[i][k] # 0 => del.chain[i] \in {"metric", "rows"}
      BY <2>2, <2>4 DEF CleanInv, Deleting
    <3>2. \A i \in Metrics, k \in RowIndex :
            rows'[i][k] # 0 => rows[i][k] # 0 /\ (from = "rows" => i # m)
      BY <1>0, <2>1 DEF TypeOK
    <3>3. \A i \in Metrics : /\ i \in metrics' <=> chain[i] = "metric"
                             /\ chain[i] # "failed"
      BY <2>1, <2>2, <2>3, <3>1
    <3>4. \A i \in Metrics, k \in RowIndex : rows'[i][k] # 0 => chain[i] \in {"metric", "rows"}
      BY <2>1, <2>2, <2>3, <3>1, <3>2
    <3> HIDE DEF chain
    <3>5. CASE \E i \in Metrics : chain[i] \in {"metric", "rows", "model"}
      <4>1. del'.step = "metrics" /\ del'.chain = chain
        BY <2>2, <3>5 DEF After
      <4> QED  BY <2>2, <3>1, <3>3, <3>4, <4>1 DEF AtRest, Uploading, Deleting
    <3>6. CASE ~ \E i \in Metrics : chain[i] \in {"metric", "rows", "model"}
      <4>1. del'.step = "answer"
        BY <2>2, <3>3, <3>6 DEF After, Chains, NoDeletion
      <4>2. metrics' = {}
        BY <1>0, <2>1, <3>3, <3>6 DEF TypeOK
      <4>3. RowsWithin({}, 0)'
        BY <3>4, <3>6 DEF RowsWithin, RowIndex
      <4> QED  BY <2>2, <3>1, <4>1, <4>2, <4>3 DEF AtRest, Uploading, Deleting
    <3> QED  BY <3>5, <3>6
  <2> QED  BY <1>0, <2>1, <2>2, <2>4 DEF CleanInv, RecordKnown
<1> QED  BY <1>1, <1>2, <1>3, <1>4, <1>5 DEF Delete

\* The answers reach the renderer, and the copy is deleted.
LEMMA StoresClean ==
  ASSUME FilesInv, CleanInv, Stores \/ Unlinked
  PROVE  CleanInv'
<1>0. /\ TypeOK /\ OneOperation /\ NoRecordYet /\ RecordLast /\ RecordKnown
  BY DEF FilesInv, CleanInv
<1> DEFINE Clean == AtRest /\ Uploading /\ Deleting
<1>1. CASE FileUploaded
  <2>1. /\ up.step = "answer" /\ up'.step = "list" /\ up'.read = up.read /\ listed' = uploads
        /\ del.step = "none" /\ columns' = columns
        /\ UNCHANGED <<uploads, content, cache, unlinking, record, metrics, rows, writes,
                       del, known, cut>>
    BY <1>0, <1>1 DEF FileUploaded, TypeOK, OneOperation, columns
  <2>2. ASSUME ~cut PROVE Clean'
    <3>1. Uploading
      BY <2>2 DEF CleanInv
    <3>2. RowsWithin(metrics, up.read)'
      BY <2>1, <3>1, RowsStay DEF Uploading
    <3>3. writes = <<>>
      BY <1>0, <2>1, NoWrites
    <3> QED  BY <2>1, <3>1, <3>2, <3>3 DEF AtRest, Uploading, Deleting
  <2> QED  BY <1>0, <2>1, <2>2 DEF CleanInv, RecordKnown
<1>2. CASE MetricsListed
  <2>1. /\ up.step = "list" /\ up'.step = "none" /\ known' = known \cup metrics
        /\ del.step = "none"
        /\ UNCHANGED <<uploads, content, cache, unlinking, record, metrics, rows, writes,
                       del, listed, cut>>
    BY <1>0, <1>2 DEF MetricsListed, NoUpload, OneOperation
  <2>2. ASSUME ~cut PROVE Clean'
    <3>1. /\ uploads \in Uploads /\ record = uploads /\ listed = uploads /\ cache = uploads
          /\ known = {} /\ ~unlinking /\ metrics = content[record].columns
          /\ RowsWithin(metrics, content[record].size)
      <4>1. Uploading
        BY <2>2 DEF CleanInv
      <4> QED  BY <2>1, <4>1 DEF Uploading, columns
    <3>2. RowsWithin(metrics, content[record].size)'
      BY <2>1, <3>1, RowsStay
    <3>3. record # 0
      BY <3>1 DEF Uploads
    <3> QED  BY <2>1, <3>1, <3>2, <3>3 DEF AtRest, Uploading, Deleting
  <2> QED  BY <1>0, <2>1, <2>2 DEF CleanInv, RecordKnown
<1>3. CASE FileUnlisted
  <2>1. /\ del.step = "answer" /\ del'.step = "none" /\ record = 0 /\ up.step = "none"
        /\ listed' = 0 /\ known' = {}
        /\ UNCHANGED <<uploads, content, cache, unlinking, record, metrics, rows, writes,
                       up, cut>>
    BY <1>0, <1>3 DEF FileUnlisted, NoDeletion, NoRecordYet, OneOperation
  <2>2. ASSUME ~cut PROVE Clean'
    <3>1. (cache = 0 \/ unlinking) /\ metrics = {} /\ RowsWithin({}, 0)
      BY <2>1, <2>2 DEF CleanInv, Deleting
    <3>2. \A n : RowsWithin({}, n)
      BY <3>1 DEF RowsWithin
    <3>3. \A n : RowsWithin({}, n)'
      BY <2>1, <3>2, RowsStay
    <3> QED  BY <2>1, <3>1, <3>3 DEF AtRest, Uploading, Deleting
  <2> QED  BY <1>0, <2>1, <2>2 DEF CleanInv, RecordKnown
<1>4. CASE Unlinked
  <2>1. /\ unlinking /\ unlinking' = FALSE /\ cache' = 0 /\ columns' = columns
        /\ UNCHANGED <<uploads, content, record, metrics, rows, writes, up,
                       del, listed, known, cut>>
    BY <1>4 DEF Unlinked, columns
  <2>2. ASSUME ~cut PROVE Clean'
    <3>1. AtRest /\ Uploading /\ Deleting
      BY <2>2 DEF CleanInv
    <3>2. \A M, n : RowsWithin(M, n)' <=> RowsWithin(M, n)
      BY <2>1, RowsStay
    <3>3. up.step = "none"
      BY <2>1, <3>1 DEF Uploading
    <3>4. AtRest'
      BY <2>1, <3>1, <3>2 DEF AtRest
    <3>5. Uploading'
      BY <2>1, <3>3 DEF Uploading
    <3>6. Deleting'
      BY <2>1, <3>1, <3>2 DEF Deleting
    <3> QED  BY <3>4, <3>5, <3>6
  <2> QED  BY <1>0, <2>1, <2>2 DEF CleanInv, RecordKnown
<1> QED  BY <1>1, <1>2, <1>3, <1>4 DEF Stores

\* The stores are filled from the database; what a restart cuts short counts.
LEMMA RestartClean ==
  ASSUME FilesInv, CleanInv, Restart
  PROVE  CleanInv'
<1>0. TypeOK /\ OneOperation /\ NoRecordYet /\ RecordKnown
  BY DEF FilesInv, CleanInv
<1>1. /\ up'.step = "none" /\ del'.step = "none" /\ ~unlinking'
      /\ listed' = record /\ known' = metrics
      /\ UNCHANGED <<uploads, content, cache, record, metrics, rows>>
  BY DEF Restart, NoUpload, NoDeletion
<1>2. ASSUME ~cut' PROVE AtRest' /\ Uploading' /\ Deleting'
  <2>1. /\ ~cut /\ ~unlinking
        /\ up.step \in {"none", "dialog", "answer", "list"} /\ del.step \in {"none", "answer"}
    BY <1>2 DEF Restart
  <2>2. AtRest /\ Uploading /\ Deleting
    BY <2>1 DEF CleanInv
  <2>3. /\ metrics = IF record = 0 THEN {} ELSE content[record].columns
        /\ RowsWithin(metrics, content[record].size)
        /\ cache = record
    <3>1. CASE up.step = "none" /\ del.step = "none"
      BY <2>1, <2>2, <3>1 DEF AtRest
    <3>2. CASE del.step = "answer"
      <4>1. record = 0 /\ cache = 0 /\ metrics = {} /\ RowsWithin({}, 0)
        BY <1>0, <2>1, <2>2, <3>2 DEF Deleting, NoRecordYet
      <4> QED  BY <4>1 DEF RowsWithin
    <3>3. CASE up.step = "dialog"
      <4>1. record = 0 /\ cache = 0 /\ metrics = {} /\ RowsWithin({}, up.read)
        BY <2>2, <3>3 DEF Uploading
      <4> QED  BY <4>1 DEF RowsWithin
    <3>4. CASE up.step \in {"answer", "list"}
      <4>1. /\ uploads \in Uploads /\ record = uploads /\ cache = uploads
            /\ metrics = content[uploads].columns /\ RowsWithin(metrics, content[uploads].size)
        BY <2>2, <3>4 DEF Uploading, columns
      <4>2. record # 0
        BY <4>1 DEF Uploads
      <4> QED  BY <4>1, <4>2
    <3> QED  BY <2>1, <3>1, <3>2, <3>3, <3>4
  <2>4. RowsWithin(metrics, content[record].size)'
    BY <1>1, <2>3, RowsStay
  <2> QED  BY <1>1, <2>3, <2>4 DEF AtRest, Uploading, Deleting
<1> QED  BY <1>0, <1>1, <1>2 DEF CleanInv, RecordKnown

\* Only an operation that was cut short or failed leaves anything behind: the
\* copies, metrics and rows of uploadFile, what deleteFile has not reached, and
\* files or metrics that the renderer lists and the database has not.
THEOREM OnlyCutsLeave == ASSUME Patient PROVE Spec => []OnlyCutsLeaveData
<1>1. FilesInv /\ FilesInv' /\ CleanInv /\ [Next]_vars => CleanInv'
  <2> SUFFICES ASSUME FilesInv, FilesInv', CleanInv, [Next]_vars PROVE CleanInv'
    OBVIOUS
  <2>1. CASE UNCHANGED vars
    <3> USE <2>1 DEF vars
    <3>1. RecordKnown' /\ cut' = cut
      BY DEF CleanInv, RecordKnown
    <3>2. AtRest /\ Uploading /\ Deleting => AtRest' /\ Uploading' /\ Deleting'
      BY RowsStay DEF AtRest, Uploading, Deleting, columns
    <3> QED  BY <3>1, <3>2 DEF CleanInv
  <2> QED
    BY <2>1, UserClean, UploadClean, DeleteClean, StoresClean, RestartClean DEF Next
<1>2. CleanInv => OnlyCutsLeaveData
  <2> SUFFICES ASSUME CleanInv, Quiet, ~cut
               PROVE  /\ listed = record /\ known = metrics /\ cache = record
                      /\ metrics = IF record = 0 THEN {} ELSE content[record].columns
                      /\ RowsWithin(metrics, content[record].size)
    BY DEF OnlyCutsLeaveData, RowsWithin
  <2> QED  BY DEF CleanInv, AtRest, Quiet
<1> QED  BY <1>1, <1>2, FilesCorrect, InitClean, PTL DEF Spec
=============================================================================
