------------------------ MODULE CheckpointStoreProofs ------------------------
(***************************************************************************)
(* Proofs about the checkpoint manager on its file system (module          *)
(* CheckpointStore): its three safety properties, and that it implements   *)
(* CheckpointRegister, for any models and any number of operations, deaths *)
(* of a runner and failures of the machine.                                *)
(***************************************************************************)
EXTENDS CheckpointStore, SequenceTheorems, FiniteSetTheorems, TLAPS

-----------------------------------------------------------------------------
(* The inductive invariant.                                                *)

SaveSteps == {"syncStore", "renameStore", "switchLink", "syncEntry", "removeOld", "unlinkOld"}
AttributeSteps == {"replace", "syncAttributes"}

(* What a job says at each step of its operation: a runner that changes an *)
(* entry changes the present one of its model.                             *)
Jobs ==
  \A m \in Models :
    /\ pc[m] \in {"idle", "destroy"} \cup SaveSteps \cup AttributeSteps => job[m].dest = None
    /\ pc[m] = "publish" => job[m].dest \in Models
    /\ pc[m] # "idle" => job[m].entry \in Ids
    /\ pc[m] \in SaveSteps \cup AttributeSteps =>
         job[m].entry = EntryOf(m) /\ job[m].store \in Ids
    /\ pc[m] \in {"removeOld", "unlinkOld"} => job[m].old \in Ids
    /\ pc[m] = "replace" => job[m].new \in Ids

(* The names of entries and stores are those of operations that have       *)
(* started, and an entry that has none is empty.                           *)
Names ==
  /\ \A m \in Models : /\ RangeOf(root[m]) \subseteq 1 .. ops \cup {None}
                       /\ job[m].entry \in 1 .. ops \cup {None}
                       /\ job[m].store \in 1 .. ops \cup {None}
  /\ \A e \in Ids : /\ e > ops => entry[e] = <<EmptyEntry>>
                    /\ \A dir \in RangeOf(entry[e]) :
                         dir.stores \subseteq 1 .. ops /\ dir.link \in 1 .. ops \cup {None}

(* An entry belongs to one model; one that is to be published to none, and *)
(* one that is destroyed neither.                                          *)
Owners ==
  /\ \A m, d \in Models : m # d => RangeOf(root[m]) \cap RangeOf(root[d]) \subseteq {None}
  /\ \A p \in Models :
       /\ pc[p] = "publish" =>
            /\ \A m \in Models : job[p].entry \notin RangeOf(root[m])
            /\ \A q \in Models : q # p => job[q].entry # job[p].entry
       /\ pc[p] = "syncRoot" /\ job[p].dest = None =>
            \A m \in Models : EntryOf(m) # job[p].entry
       /\ pc[p] = "destroy" => \A m \in Models : job[p].entry \notin RangeOf(root[m])

InUse(e) == \E m \in Models : \/ e \in RangeOf(root[m])
                              \/ pc[m] = "publish" /\ job[m].entry = e

(* Whatever has reached the disk, the link is on a store that is there,    *)
(* and all of whose files are.                                             *)
Whole(e) ==
  \A dir \in RangeOf(entry[e]) :
    dir.link # None => dir.link \in dir.stores /\ Torn \notin RangeOf(store[<<e, dir.link>>])
EntriesWhole == \A e \in Ids : InUse(e) => Whole(e)

(* The store of a save: its files are on the disk before it is renamed, it *)
(* is in place before it is linked, and it alone is linked on the disk     *)
(* before the old one is deleted.                                          *)
SaveOrder ==
  \A m \in Models :
    LET e == job[m].entry
    IN /\ pc[m] \in {"syncStore", "renameStore", "switchLink"} =>
            /\ \A dir \in RangeOf(entry[e]) : dir.link # job[m].store
            /\ Last(store[NewStore(m)]) \in Contents
       /\ pc[m] \in {"renameStore", "switchLink"} =>
            RangeOf(store[NewStore(m)]) = {Last(store[NewStore(m)])}
       /\ pc[m] = "switchLink" => job[m].store \in DirOf(e).stores
       /\ pc[m] \in {"syncEntry", "removeOld", "unlinkOld"} \cup AttributeSteps =>
            DirOf(e).link = job[m].store
       /\ pc[m] \in {"removeOld", "unlinkOld"} =>
            \A dir \in RangeOf(entry[e]) : dir.link = job[m].store
       /\ pc[m] \in {"syncEntry", "removeOld", "unlinkOld"} /\ job[m].old # None =>
            job[m].old # job[m].store /\ job[m].old \in DirOf(e).stores

(* What is read of an entry, and what may be read after a failure.         *)
Content(e) ==
  IF DirOf(e).link = None THEN NoCheckpoint
  ELSE IF Exists(e, DirOf(e)) THEN Last(store[<<e, DirOf(e).link>>]) ELSE Torn
Risk(e) ==
  IF e = None THEN {NoModel} ELSE UNION {Surviving(e, dir) : dir \in RangeOf(entry[e])}

LinkSettled(e) == \A dir \in RangeOf(entry[e]) : dir.link = DirOf(e).link
FilesSettled(e) ==
  DirOf(e).link # None =>
    RangeOf(store[<<e, DirOf(e).link>>]) = {Last(store[<<e, DirOf(e).link>>])}

(* Between the steps that sync, all that may be read after a failure is    *)
(* what is read now.                                                       *)
Settled ==
  /\ \A m \in Models \ cut :
       /\ \/ RangeOf(root[m]) = {EntryOf(m)}
          \/ pc[m] = "syncRoot" /\ job[m].dest = None
          \/ \E p \in Models : pc[p] = "syncRoot" /\ job[p].dest = m
       /\ EntryOf(m) # None =>
            /\ LinkSettled(EntryOf(m)) \/ pc[m] = "syncEntry"
            /\ FilesSettled(EntryOf(m)) \/ pc[m] = "syncAttributes"

(* What is to be published reads as what it is a copy of.                  *)
Copies ==
  \A m \in Models : pc[m] = "publish" =>
    /\ LinkSettled(job[m].entry) /\ FilesSettled(job[m].entry)
    /\ job[m].dest = m => entry[job[m].entry] = <<EmptyEntry>>
    /\ job[m].dest # m => /\ EntryOf(m) # None
                          /\ Content(job[m].entry) = Content(EntryOf(m))

(* A save in progress and a change that is not on the disk account for one *)
(* store more than the failures so far.                                    *)
Unlinked(dir) == Cardinality(dir.stores \ {dir.link})
Faults == deaths + failures
Saving(m) == \/ pc[m] \in {"switchLink", "removeOld", "unlinkOld"}
             \/ pc[m] = "syncEntry" /\ job[m].old # None
FewOrphans ==
  /\ \A e \in Ids : InUse(e) => \A dir \in RangeOf(entry[e]) : Unlinked(dir) <= Faults + 1
  /\ \A m \in Models :
       /\ EntryOf(m) # None /\ ~Saving(m) => Unlinked(DirOf(EntryOf(m))) <= Faults
       /\ pc[m] = "publish" => Unlinked(DirOf(job[m].entry)) <= Faults

StoreInv == TypeOK /\ Jobs /\ Names /\ Owners /\ EntriesWhole /\ SaveOrder
            /\ Settled /\ Copies /\ FewOrphans

-----------------------------------------------------------------------------
(* Logs.                                                                   *)

(* What is on the disk and what is seen are of a log.                      *)
LEMMA LogEnds ==
  ASSUME NEW S, NEW log \in Log(S)
  PROVE  /\ Last(log) \in RangeOf(log) /\ Head(log) \in RangeOf(log)
         /\ RangeOf(log) \subseteq S
         /\ Last(log) \in S /\ Head(log) \in S
<1>1. log \in Seq(S) /\ log # <<>> /\ Len(log) \in Nat /\ Len(log) # 0
  BY EmptySeq DEF Log
<1>2. 1 \in DOMAIN log /\ Len(log) \in DOMAIN log
  BY <1>1
<1>3. Head(log) = log[1]
  BY <1>1
<1> QED BY <1>1, <1>2, <1>3 DEF Last, RangeOf

(* One value, on the disk and seen.                                        *)
LEMMA LogOfOne ==
  ASSUME NEW S, NEW x \in S
  PROVE  /\ <<x>> \in Log(S)
         /\ Last(<<x>>) = x
         /\ RangeOf(<<x>>) = {x}
  BY DEF Log, Last, RangeOf

(* A change that is seen, and may reach the disk.                          *)
LEMMA LogAppended ==
  ASSUME NEW S, NEW log \in Log(S), NEW x \in S
  PROVE  /\ Append(log, x) \in Log(S)
         /\ Last(Append(log, x)) = x
         /\ RangeOf(Append(log, x)) = RangeOf(log) \cup {x}
<1>1. log \in Seq(S) /\ Len(log) \in Nat
  BY DEF Log
<1>2. /\ Append(log, x) \in Seq(S) /\ Len(Append(log, x)) = Len(log) + 1
      /\ Append(log, x)[Len(log) + 1] = x
      /\ \A i \in 1 .. Len(log) : Append(log, x)[i] = log[i]
  BY <1>1
<1>3. DOMAIN log = 1 .. Len(log) /\ DOMAIN Append(log, x) = 1 .. Len(log) + 1
  BY <1>1, <1>2
<1>4. 1 .. Len(log) + 1 = (1 .. Len(log)) \cup {Len(log) + 1}
  BY <1>1
<1>5. RangeOf(Append(log, x)) = RangeOf(log) \cup {x}
  BY <1>2, <1>3, <1>4 DEF RangeOf
<1> QED BY <1>1, <1>2, <1>5 DEF Log, Last

(* All changes reach the disk.                                             *)
LEMMA LogSynced ==
  ASSUME NEW S, NEW log \in Log(S)
  PROVE  /\ Synced(log) \in Log(S)
         /\ Last(Synced(log)) = Last(log)
         /\ RangeOf(Synced(log)) = {Last(log)}
  BY LogEnds, LogOfOne DEF Synced

(* The oldest change reaches the disk.                                     *)
LEMMA LogWrittenBack ==
  ASSUME NEW S, NEW log \in Log(S), Len(log) > 1
  PROVE  /\ Tail(log) \in Log(S)
         /\ Last(Tail(log)) = Last(log)
         /\ RangeOf(Tail(log)) \subseteq RangeOf(log)
<1>1. log \in Seq(S) /\ Len(log) \in Nat /\ log # <<>>
  BY DEF Log
<1>2. /\ Tail(log) \in Seq(S) /\ Len(Tail(log)) = Len(log) - 1
      /\ \A i \in 1 .. Len(log) - 1 : Tail(log)[i] = log[i + 1]
  BY <1>1
<1>3. DOMAIN log = 1 .. Len(log) /\ DOMAIN Tail(log) = 1 .. Len(log) - 1
  BY <1>1, <1>2
<1>4. \A i \in 1 .. Len(log) - 1 : i + 1 \in 1 .. Len(log)
  BY <1>1
<1>5. RangeOf(Tail(log)) \subseteq RangeOf(log)
  BY <1>2, <1>3, <1>4 DEF RangeOf
<1>6. Last(Tail(log)) = Last(log)
  <2>1. Len(log) - 1 \in 1 .. Len(log) - 1 /\ (Len(log) - 1) + 1 = Len(log)
    BY <1>1
  <2> QED BY <2>1, <1>2 DEF Last
<1>7. Tail(log) # <<>>
  <2>1. Len(Tail(log)) # 0
    BY <1>1, <1>2
  <2> QED BY <2>1, EmptySeq
<1> QED BY <1>2, <1>5, <1>6, <1>7 DEF Log

(* Only what had reached the disk is left.                                 *)
LEMMA LogCut ==
  ASSUME NEW S, NEW log \in Log(S)
  PROVE  /\ <<Head(log)>> \in Log(S)
         /\ Last(<<Head(log)>>) = Head(log)
         /\ RangeOf(<<Head(log)>>) = {Head(log)}
         /\ RangeOf(<<Head(log)>>) \subseteq RangeOf(log)
  BY LogEnds, LogOfOne

-----------------------------------------------------------------------------
(* The three families of logs.                                             *)

Roots == Ids \cup {None}
Files == Contents \cup {Torn}

(* What the logs of the file system hold has its type.                     *)
LEMMA FileLogs ==
  ASSUME TypeOK
  PROVE  /\ \A m \in Models : /\ root[m] \in Log(Roots)
                              /\ Last(root[m]) \in RangeOf(root[m])
                              /\ Head(root[m]) \in RangeOf(root[m])
                              /\ RangeOf(root[m]) \subseteq Roots
         /\ \A e \in Ids : /\ entry[e] \in Log(Dirs)
                           /\ Last(entry[e]) \in RangeOf(entry[e])
                           /\ Head(entry[e]) \in RangeOf(entry[e])
                           /\ RangeOf(entry[e]) \subseteq Dirs
         /\ \A s \in Ids \X Ids : /\ store[s] \in Log(Files)
                                  /\ Last(store[s]) \in RangeOf(store[s])
                                  /\ Head(store[s]) \in RangeOf(store[s])
                                  /\ RangeOf(store[s]) \subseteq Files
<1>1. ASSUME NEW m \in Models
      PROVE  /\ root[m] \in Log(Roots)
             /\ Last(root[m]) \in RangeOf(root[m])
             /\ Head(root[m]) \in RangeOf(root[m])
             /\ RangeOf(root[m]) \subseteq Roots
  <2>1. root[m] \in Log(Roots)
    BY DEF TypeOK, Roots
  <2> QED BY <2>1, LogEnds
<1>2. ASSUME NEW e \in Ids
      PROVE  /\ entry[e] \in Log(Dirs)
             /\ Last(entry[e]) \in RangeOf(entry[e])
             /\ Head(entry[e]) \in RangeOf(entry[e])
             /\ RangeOf(entry[e]) \subseteq Dirs
  <2>1. entry[e] \in Log(Dirs)
    BY DEF TypeOK
  <2> QED BY <2>1, LogEnds
<1>3. ASSUME NEW s \in Ids \X Ids
      PROVE  /\ store[s] \in Log(Files)
             /\ Last(store[s]) \in RangeOf(store[s])
             /\ Head(store[s]) \in RangeOf(store[s])
             /\ RangeOf(store[s]) \subseteq Files
  <2>1. store[s] \in Log(Files)
    BY DEF TypeOK, Files
  <2> QED BY <2>1, LogEnds
<1> QED BY <1>1, <1>2, <1>3

(* A change of the entry of one model in the storage root.                 *)
LEMMA RootChanged ==
  ASSUME TypeOK, NEW d \in Models, NEW x \in Roots,
         root' = [root EXCEPT ![d] = Append(@, x)]
  PROVE  /\ root' \in [Models -> Log(Roots)]
         /\ Last(root'[d]) = x
         /\ RangeOf(root'[d]) = RangeOf(root[d]) \cup {x}
         /\ \A m \in Models \ {d} : root'[m] = root[m]
<1>1. root \in [Models -> Log(Roots)]
  BY DEF TypeOK, Roots
<1>2. root'[d] = Append(root[d], x) /\ root[d] \in Log(Roots)
  BY <1>1
<1>3. /\ Append(root[d], x) \in Log(Roots)
      /\ Last(Append(root[d], x)) = x
      /\ RangeOf(Append(root[d], x)) = RangeOf(root[d]) \cup {x}
  BY <1>2, LogAppended
<1> QED BY <1>1, <1>2, <1>3

(* A change of one entry.                                                  *)
LEMMA EntryChanged ==
  ASSUME TypeOK, NEW e \in Ids, NEW dir \in Dirs,
         entry' = [entry EXCEPT ![e] = Append(@, dir)]
  PROVE  /\ entry' \in [Ids -> Log(Dirs)]
         /\ Last(entry'[e]) = dir
         /\ RangeOf(entry'[e]) = RangeOf(entry[e]) \cup {dir}
         /\ \A i \in Ids \ {e} : entry'[i] = entry[i]
<1>1. entry \in [Ids -> Log(Dirs)]
  BY DEF TypeOK
<1>2. entry'[e] = Append(entry[e], dir) /\ entry[e] \in Log(Dirs)
  BY <1>1
<1>3. /\ Append(entry[e], dir) \in Log(Dirs)
      /\ Last(Append(entry[e], dir)) = dir
      /\ RangeOf(Append(entry[e], dir)) = RangeOf(entry[e]) \cup {dir}
  BY <1>2, LogAppended
<1> QED BY <1>1, <1>2, <1>3

(* A change of the files of a store.                                       *)
LEMMA FilesLogged ==
  ASSUME TypeOK, NEW p \in Ids \X Ids, NEW files \in Files,
         store' = [store EXCEPT ![p] = Append(@, files)]
  PROVE  /\ store' \in [Ids \X Ids -> Log(Files)]
         /\ Last(store'[p]) = files
         /\ RangeOf(store'[p]) = RangeOf(store[p]) \cup {files}
         /\ \A q \in (Ids \X Ids) \ {p} : store'[q] = store[q]
<1>1. store \in [Ids \X Ids -> Log(Files)]
  BY DEF TypeOK, Files
<1>2. store'[p] = Append(store[p], files) /\ store[p] \in Log(Files)
  BY <1>1
<1>3. /\ Append(store[p], files) \in Log(Files)
      /\ Last(Append(store[p], files)) = files
      /\ RangeOf(Append(store[p], files)) = RangeOf(store[p]) \cup {files}
  BY <1>2, LogAppended
<1> QED BY <1>1, <1>2, <1>3

(* A change of the files of one store.                                     *)
LEMMA StoreChanged ==
  ASSUME TypeOK, NEW e \in Ids, NEW s \in Ids, NEW files \in Files,
         store' = [store EXCEPT ![<<e, s>>] = Append(@, files)]
  PROVE  /\ store' \in [Ids \X Ids -> Log(Files)]
         /\ Last(store'[<<e, s>>]) = files
         /\ RangeOf(store'[<<e, s>>]) = RangeOf(store[<<e, s>>]) \cup {files}
         /\ \A i, j \in Ids : i # e \/ j # s => store'[<<i, j>>] = store[<<i, j>>]
<1>1. store \in [Ids \X Ids -> Log(Files)] /\ <<e, s>> \in Ids \X Ids
  BY DEF TypeOK, Files
<1>2. store'[<<e, s>>] = Append(store[<<e, s>>], files) /\ store[<<e, s>>] \in Log(Files)
  BY <1>1
<1>3. /\ Append(store[<<e, s>>], files) \in Log(Files)
      /\ Last(Append(store[<<e, s>>], files)) = files
      /\ RangeOf(Append(store[<<e, s>>], files)) = RangeOf(store[<<e, s>>]) \cup {files}
  BY <1>2, LogAppended
<1>4. store' \in [Ids \X Ids -> Log(Files)]
  BY <1>1, <1>3
<1>5. ASSUME NEW i \in Ids, NEW j \in Ids, i # e \/ j # s
      PROVE  store'[<<i, j>>] = store[<<i, j>>]
  BY <1>1, <1>5
<1> QED BY <1>2, <1>3, <1>4, <1>5

(* The storage root is synced.                                             *)
LEMMA RootSynced ==
  ASSUME TypeOK, root' = [d \in Models |-> Synced(root[d])]
  PROVE  /\ root' \in [Models -> Log(Roots)]
         /\ \A m \in Models : /\ Last(root'[m]) = Last(root[m])
                              /\ RangeOf(root'[m]) = {Last(root[m])}
<1>1. ASSUME NEW m \in Models
      PROVE  /\ Synced(root[m]) \in Log(Roots)
             /\ Last(Synced(root[m])) = Last(root[m])
             /\ RangeOf(Synced(root[m])) = {Last(root[m])}
  BY FileLogs, LogSynced
<1> QED BY <1>1

(* An entry is synced.                                                     *)
LEMMA EntrySynced ==
  ASSUME TypeOK, NEW e \in Ids, entry' = [entry EXCEPT ![e] = Synced(@)]
  PROVE  /\ entry' \in [Ids -> Log(Dirs)]
         /\ Last(entry'[e]) = Last(entry[e])
         /\ RangeOf(entry'[e]) = {Last(entry[e])}
         /\ \A i \in Ids \ {e} : entry'[i] = entry[i]
<1>1. entry \in [Ids -> Log(Dirs)]
  BY DEF TypeOK
<1>2. /\ Synced(entry[e]) \in Log(Dirs)
      /\ Last(Synced(entry[e])) = Last(entry[e])
      /\ RangeOf(Synced(entry[e])) = {Last(entry[e])}
  BY <1>1, LogSynced
<1> QED BY <1>1, <1>2

(* The files of a store are synced.                                        *)
LEMMA StoreSynced ==
  ASSUME TypeOK, NEW e \in Ids, NEW s \in Ids,
         store' = [store EXCEPT ![<<e, s>>] = Synced(@)]
  PROVE  /\ store' \in [Ids \X Ids -> Log(Files)]
         /\ Last(store'[<<e, s>>]) = Last(store[<<e, s>>])
         /\ RangeOf(store'[<<e, s>>]) = {Last(store[<<e, s>>])}
         /\ \A i, j \in Ids : i # e \/ j # s => store'[<<i, j>>] = store[<<i, j>>]
<1>1. store \in [Ids \X Ids -> Log(Files)] /\ <<e, s>> \in Ids \X Ids
  BY DEF TypeOK, Files
<1>2. store'[<<e, s>>] = Synced(store[<<e, s>>]) /\ store[<<e, s>>] \in Log(Files)
  BY <1>1
<1>3. /\ Synced(store[<<e, s>>]) \in Log(Files)
      /\ Last(Synced(store[<<e, s>>])) = Last(store[<<e, s>>])
      /\ RangeOf(Synced(store[<<e, s>>])) = {Last(store[<<e, s>>])}
  BY <1>2, LogSynced
<1>4. store' \in [Ids \X Ids -> Log(Files)]
  BY <1>1, <1>3
<1>5. ASSUME NEW i \in Ids, NEW j \in Ids, i # e \/ j # s
      PROVE  store'[<<i, j>>] = store[<<i, j>>]
  BY <1>1, <1>5
<1> QED BY <1>2, <1>3, <1>4, <1>5

(* What is seen stays, and less is at risk, when a change reaches the disk. *)
LEMMA WrittenBack ==
  ASSUME TypeOK, WriteBack
  PROVE  /\ root' \in [Models -> Log(Roots)]
         /\ entry' \in [Ids -> Log(Dirs)]
         /\ store' \in [Ids \X Ids -> Log(Files)]
         /\ \A m \in Models : /\ Last(root'[m]) = Last(root[m])
                              /\ RangeOf(root'[m]) \subseteq RangeOf(root[m])
         /\ \A e \in Ids : /\ Last(entry'[e]) = Last(entry[e])
                           /\ RangeOf(entry'[e]) \subseteq RangeOf(entry[e])
         /\ \A s \in Ids \X Ids : /\ Last(store'[s]) = Last(store[s])
                                  /\ RangeOf(store'[s]) \subseteq RangeOf(store[s])
<1>0. /\ root \in [Models -> Log(Roots)] /\ entry \in [Ids -> Log(Dirs)]
      /\ store \in [Ids \X Ids -> Log(Files)]
  BY DEF TypeOK, Roots, Files
<1>1. CASE /\ \E m \in Models : Len(root[m]) > 1 /\ root' = [root EXCEPT ![m] = Tail(@)]
           /\ UNCHANGED <<entry, store>>
  <2>1. PICK m \in Models : Len(root[m]) > 1 /\ root' = [root EXCEPT ![m] = Tail(@)]
    BY <1>1
  <2>2. /\ Tail(root[m]) \in Log(Roots)
        /\ Last(Tail(root[m])) = Last(root[m])
        /\ RangeOf(Tail(root[m])) \subseteq RangeOf(root[m])
    BY <1>0, <2>1, LogWrittenBack
  <2> QED BY <1>0, <1>1, <2>1, <2>2
<1>2. CASE /\ \E e \in Ids : Len(entry[e]) > 1 /\ entry' = [entry EXCEPT ![e] = Tail(@)]
           /\ UNCHANGED <<root, store>>
  <2>1. PICK e \in Ids : Len(entry[e]) > 1 /\ entry' = [entry EXCEPT ![e] = Tail(@)]
    BY <1>2
  <2>2. /\ Tail(entry[e]) \in Log(Dirs)
        /\ Last(Tail(entry[e])) = Last(entry[e])
        /\ RangeOf(Tail(entry[e])) \subseteq RangeOf(entry[e])
    BY <1>0, <2>1, LogWrittenBack
  <2> QED BY <1>0, <1>2, <2>1, <2>2
<1>3. CASE /\ \E s \in Ids \X Ids :
                 Len(store[s]) > 1 /\ store' = [store EXCEPT ![s] = Tail(@)]
           /\ UNCHANGED <<root, entry>>
  <2>1. PICK s \in Ids \X Ids :
               Len(store[s]) > 1 /\ store' = [store EXCEPT ![s] = Tail(@)]
    BY <1>3
  <2>2. /\ Tail(store[s]) \in Log(Files)
        /\ Last(Tail(store[s])) = Last(store[s])
        /\ RangeOf(Tail(store[s])) \subseteq RangeOf(store[s])
    BY <1>0, <2>1, LogWrittenBack
  <2> QED BY <1>0, <1>3, <2>1, <2>2
<1> QED BY <1>1, <1>2, <1>3 DEF WriteBack

(* The machine fails: the head of each log is what is left.                *)
LEMMA Failed ==
  ASSUME TypeOK, MachineFails
  PROVE  /\ root' \in [Models -> Log(Roots)]
         /\ entry' \in [Ids -> Log(Dirs)]
         /\ store' \in [Ids \X Ids -> Log(Files)]
         /\ \A m \in Models : /\ Last(root'[m]) \in RangeOf(root[m])
                              /\ RangeOf(root'[m]) = {Last(root'[m])}
         /\ \A e \in Ids : /\ Last(entry'[e]) \in RangeOf(entry[e])
                           /\ RangeOf(entry'[e]) = {Last(entry'[e])}
         /\ \A s \in Ids \X Ids : /\ Last(store'[s]) \in RangeOf(store[s])
                                  /\ RangeOf(store'[s]) = {Last(store'[s])}
<1>1. ASSUME NEW m \in Models
      PROVE  /\ root'[m] \in Log(Roots) /\ Last(root'[m]) \in RangeOf(root[m])
             /\ RangeOf(root'[m]) = {Last(root'[m])}
  <2>1. root'[m] = <<Head(root[m])>> /\ root[m] \in Log(Roots)
        /\ Head(root[m]) \in RangeOf(root[m])
    BY FileLogs DEF MachineFails
  <2> QED BY <2>1, LogCut
<1>2. ASSUME NEW e \in Ids
      PROVE  /\ entry'[e] \in Log(Dirs) /\ Last(entry'[e]) \in RangeOf(entry[e])
             /\ RangeOf(entry'[e]) = {Last(entry'[e])}
  <2>1. entry'[e] = <<Head(entry[e])>> /\ entry[e] \in Log(Dirs)
        /\ Head(entry[e]) \in RangeOf(entry[e])
    BY FileLogs DEF MachineFails
  <2> QED BY <2>1, LogCut
<1>3. ASSUME NEW s \in Ids \X Ids
      PROVE  /\ store'[s] \in Log(Files) /\ Last(store'[s]) \in RangeOf(store[s])
             /\ RangeOf(store'[s]) = {Last(store'[s])}
  <2>1. store'[s] = <<Head(store[s])>> /\ store[s] \in Log(Files)
        /\ Head(store[s]) \in RangeOf(store[s])
    BY FileLogs DEF MachineFails
  <2> QED BY <2>1, LogCut
<1>4. /\ root' \in [Models -> Log(Roots)] /\ entry' \in [Ids -> Log(Dirs)]
      /\ store' \in [Ids \X Ids -> Log(Files)]
  BY <1>1, <1>2, <1>3 DEF MachineFails
<1> QED BY <1>1, <1>2, <1>3, <1>4

(* A clone is a copy of what is seen of an entry, all of it on the disk.   *)
LEMMA Cloned ==
  ASSUME TypeOK, NEW m \in Models, NEW d \in Models, Clone(m, d)
  PROVE  /\ ops + 1 \in Ids /\ EntryOf(m) \in Ids /\ DirOf(EntryOf(m)) \in Dirs
         /\ entry' \in [Ids -> Log(Dirs)]
         /\ store' \in [Ids \X Ids -> Log(Files)]
         /\ Last(entry'[ops + 1]) = DirOf(EntryOf(m))
         /\ RangeOf(entry'[ops + 1]) = {DirOf(EntryOf(m))}
         /\ \A i \in Ids \ {ops + 1} : entry'[i] = entry[i]
         /\ \A s \in DirOf(EntryOf(m)).stores :
              /\ Last(store'[<<ops + 1, s>>]) = Last(store[<<EntryOf(m), s>>])
              /\ RangeOf(store'[<<ops + 1, s>>]) = {Last(store[<<EntryOf(m), s>>])}
         /\ \A i \in Ids \ {ops + 1}, s \in Ids : store'[<<i, s>>] = store[<<i, s>>]
<1> DEFINE n == ops + 1
           e == EntryOf(m)
           copied == DirOf(EntryOf(m))
<1>1. n \in Ids
  BY StoreAssumption DEF TypeOK, Clone, Start, Ids
<1>2. e \in Ids
  BY FileLogs DEF Clone, EntryOf, Roots
<1>3. copied \in Dirs /\ copied.stores \subseteq Ids
  BY <1>2, FileLogs DEF DirOf, Dirs
<1>4. entry \in [Ids -> Log(Dirs)] /\ store \in [Ids \X Ids -> Log(Files)]
  BY DEF TypeOK, Files
<1>5. /\ <<copied>> \in Log(Dirs) /\ Last(<<copied>>) = copied
      /\ RangeOf(<<copied>>) = {copied}
  BY <1>3, LogOfOne
<1>6. entry' = [entry EXCEPT ![n] = <<copied>>]
  BY DEF Clone
<1>7. store' = [s \in Ids \X Ids |->
                  IF s[1] = n /\ s[2] \in copied.stores
                  THEN Synced(store[<<e, s[2]>>]) ELSE store[s]]
  BY <1>4 DEF Clone
<1>8. ASSUME NEW s \in copied.stores
      PROVE  /\ Synced(store[<<e, s>>]) \in Log(Files)
             /\ Last(Synced(store[<<e, s>>])) = Last(store[<<e, s>>])
             /\ RangeOf(Synced(store[<<e, s>>])) = {Last(store[<<e, s>>])}
  <2>1. <<e, s>> \in Ids \X Ids
    BY <1>2, <1>3
  <2>2. store[<<e, s>>] \in Log(Files)
    BY <2>1, <1>4
  <2> QED BY <2>2, LogSynced
<1> HIDE DEF n, e, copied
<1>9. store' \in [Ids \X Ids -> Log(Files)]
  <2>1. ASSUME NEW i \in Ids, NEW s \in Ids
        PROVE  (IF i = n /\ s \in copied.stores THEN Synced(store[<<e, s>>])
                                               ELSE store[<<i, s>>]) \in Log(Files)
    BY <1>4, <1>8
  <2>2. ASSUME NEW p \in Ids \X Ids
        PROVE  (IF p[1] = n /\ p[2] \in copied.stores THEN Synced(store[<<e, p[2]>>])
                                                      ELSE store[p]) \in Log(Files)
    <3>1. p[1] \in Ids /\ p[2] \in Ids /\ p = <<p[1], p[2]>>
      OBVIOUS
    <3> QED BY <2>1, <3>1
  <2> QED BY <2>2, <1>7
<1>10. ASSUME NEW s \in copied.stores
       PROVE  store'[<<n, s>>] = Synced(store[<<e, s>>])
  BY <1>1, <1>3, <1>7
<1>11. ASSUME NEW i \in Ids \ {n}, NEW s \in Ids
       PROVE  store'[<<i, s>>] = store[<<i, s>>]
  BY <1>7
<1>12. /\ entry' \in [Ids -> Log(Dirs)]
       /\ entry'[n] = <<copied>>
       /\ \A i \in Ids \ {n} : entry'[i] = entry[i]
  BY <1>1, <1>4, <1>5, <1>6
<1> QED BY <1>1, <1>2, <1>3, <1>5, <1>8, <1>9, <1>10, <1>11, <1>12 DEF n, e, copied

(* The deletion of an entry touches no other.                              *)
LEMMA Destroyed ==
  ASSUME TypeOK, NEW m \in Models, job[m].entry \in Ids, Destroy(m)
  PROVE  /\ entry' \in [Ids -> Log(Dirs)]
         /\ store' \in [Ids \X Ids -> Log(Files)]
         /\ RangeOf(entry'[job[m].entry]) = RangeOf(entry[job[m].entry]) \cup {EmptyEntry}
         /\ \A i \in Ids \ {job[m].entry} : entry'[i] = entry[i]
         /\ \A i \in Ids \ {job[m].entry}, s \in Ids : store'[<<i, s>>] = store[<<i, s>>]
<1> DEFINE e == job[m].entry
<1>1. entry \in [Ids -> Log(Dirs)] /\ store \in [Ids \X Ids -> Log(Files)]
  BY DEF TypeOK, Files
<1>2. EmptyEntry \in Dirs
  BY DEF EmptyEntry, Dirs
<1>3. entry' = [entry EXCEPT ![e] = Append(@, EmptyEntry)]
  BY DEF Destroy
<1>4. store' = [s \in Ids \X Ids |->
                  IF s[1] = e /\ s[2] \in DirOf(s[1]).stores
                  THEN Append(store[s], Torn) ELSE store[s]]
  BY <1>1 DEF Destroy
<1>5. ASSUME NEW s \in Ids \X Ids
      PROVE  Append(store[s], Torn) \in Log(Files)
  BY <1>1, LogAppended DEF Files
<1>6. store' \in [Ids \X Ids -> Log(Files)]
  BY <1>1, <1>4, <1>5
<1>7. \A i \in Ids \ {e}, s \in Ids : store'[<<i, s>>] = store[<<i, s>>]
  BY <1>4
<1> QED BY <1>2, <1>3, <1>6, <1>7, EntryChanged

(* The entry that a runner changes is the present one of its model, and in *)
(* use.                                                                    *)
LEMMA OwnEntry ==
  ASSUME TypeOK, Jobs, NEW m \in Models, pc[m] \in SaveSteps \cup AttributeSteps
  PROVE  /\ job[m].entry \in Ids /\ job[m].store \in Ids /\ job[m].entry = EntryOf(m)
         /\ job[m].entry \in RangeOf(root[m]) /\ InUse(job[m].entry)
         /\ DirOf(job[m].entry) \in RangeOf(entry[job[m].entry])
         /\ DirOf(job[m].entry) \in Dirs
<1>1. job[m].entry \in Ids /\ job[m].store \in Ids /\ job[m].entry = EntryOf(m)
  BY DEF Jobs, SaveSteps, AttributeSteps
<1>2. job[m].entry \in RangeOf(root[m])
  BY <1>1, FileLogs DEF EntryOf
<1>3. DirOf(job[m].entry) \in RangeOf(entry[job[m].entry]) /\ DirOf(job[m].entry) \in Dirs
  BY <1>1, FileLogs DEF DirOf
<1> QED BY <1>1, <1>2, <1>3 DEF InUse

(* The store whose attributes are replaced is linked, and whole.           *)
LEMMA LinkedIsWhole ==
  ASSUME TypeOK, Jobs, EntriesWhole, SaveOrder, NEW m \in Models, pc[m] \in AttributeSteps
  PROVE  /\ Last(store[NewStore(m)]) \in Contents
         /\ job[m].store \in DirOf(job[m].entry).stores
         /\ DirOf(job[m].entry).link = job[m].store
<1> DEFINE e == job[m].entry
<1>1. /\ e \in Ids /\ job[m].store \in Ids /\ InUse(e) /\ DirOf(e) \in RangeOf(entry[e])
  BY OwnEntry
<1>2. DirOf(e).link = job[m].store
  BY DEF SaveOrder, AttributeSteps
<1>3. DirOf(e).link \in DirOf(e).stores /\ Torn \notin RangeOf(store[<<e, job[m].store>>])
  BY <1>1, <1>2, StoreAssumption DEF EntriesWhole, Whole, Ids
<1>4. <<e, job[m].store>> \in Ids \X Ids
  BY <1>1
<1>5. Last(store[<<e, job[m].store>>]) \in Contents
  BY <1>3, <1>4, FileLogs DEF Files
<1> QED BY <1>2, <1>3, <1>5 DEF NewStore

(* What an operation starts with.                                          *)
LEMMA Started ==
  ASSUME TypeOK, NEW m \in Models, NEW label, NEW j, Start(m, label, j)
  PROVE  /\ pc[m] = "idle" /\ ops \in Nat /\ ops + 1 \in Ids /\ ops' = ops + 1
         /\ pc' = [pc EXCEPT ![m] = label] /\ job' = [job EXCEPT ![m] = j]
         /\ UNCHANGED <<cut, deaths, failures>>
  BY StoreAssumption DEF TypeOK, Start, Goto, Ids

-----------------------------------------------------------------------------
(* Types.                                                                  *)

(* The initial state is typed.                                             *)
LEMMA InitTypes == Init => TypeOK
<1> SUFFICES ASSUME Init PROVE TypeOK
  OBVIOUS
<1>1. <<None>> \in Log(Roots)
  BY LogOfOne DEF Roots
<1>2. <<EmptyEntry>> \in Log(Dirs)
  <2>1. EmptyEntry \in Dirs
    BY DEF EmptyEntry, Dirs
  <2> QED BY <2>1, LogOfOne
<1>3. <<Torn>> \in Log(Files)
  BY LogOfOne DEF Files
<1>4. /\ root \in [Models -> Log(Roots)] /\ entry \in [Ids -> Log(Dirs)]
      /\ store \in [Ids \X Ids -> Log(Files)]
  BY <1>1, <1>2, <1>3 DEF Init
<1>5. /\ ops \in 0 .. MaxOps /\ deaths \in 0 .. MaxDeaths /\ failures \in 0 .. MaxFailures
  BY StoreAssumption DEF Init
<1> QED BY <1>4, <1>5 DEF Init, TypeOK, NoJob, Roots, Files

Steps == {"idle", "publish", "syncRoot", "destroy", "syncStore", "renameStore", "switchLink",
          "syncEntry", "removeOld", "unlinkOld", "replace", "syncAttributes"}
JobRecords == [dest : Models \cup {None}, entry : Roots, store : Roots, old : Roots, new : Roots]

(* Every step keeps the types.                                             *)
LEMMA StepTypes ==
  ASSUME TypeOK, Jobs, EntriesWhole, SaveOrder, [Next]_vars
  PROVE  TypeOK'
<1> DEFINE Control == /\ pc' \in [Models -> Steps] /\ job' \in [Models -> JobRecords]
                      /\ cut' \subseteq Models
                      /\ ops' \in 0 .. MaxOps /\ deaths' \in 0 .. MaxDeaths
                      /\ failures' \in 0 .. MaxFailures
           Disk == /\ root' \in [Models -> Log(Roots)] /\ entry' \in [Ids -> Log(Dirs)]
                   /\ store' \in [Ids \X Ids -> Log(Files)]
<1>0. /\ pc \in [Models -> Steps] /\ job \in [Models -> JobRecords] /\ cut \subseteq Models
      /\ ops \in 0 .. MaxOps /\ deaths \in 0 .. MaxDeaths /\ failures \in 0 .. MaxFailures
      /\ root \in [Models -> Log(Roots)] /\ entry \in [Ids -> Log(Dirs)]
      /\ store \in [Ids \X Ids -> Log(Files)]
  BY DEF TypeOK, Steps, JobRecords, Roots, Files
<1> SUFFICES Control /\ Disk
  BY DEF TypeOK, Steps, JobRecords, Roots, Files
<1>i. NoJob \in JobRecords
  BY DEF NoJob, JobRecords, Roots
<1>j. \A m \in Models : /\ EntryOf(m) \in Roots
                        /\ EntryOf(m) # None => EntryOf(m) \in Ids /\ DirOf(EntryOf(m)) \in Dirs
  BY FileLogs DEF EntryOf, DirOf, Roots
<1>k. \A m \in Models : job[m].entry \in Ids => DirOf(job[m].entry) \in Dirs
  BY FileLogs DEF DirOf
<1>s. ASSUME NEW m \in Models, NEW label \in Steps, NEW j \in JobRecords, Start(m, label, j)
      PROVE  Control
  <2>1. /\ ops + 1 \in Ids /\ ops' = ops + 1
        /\ pc' = [pc EXCEPT ![m] = label] /\ job' = [job EXCEPT ![m] = j]
        /\ UNCHANGED <<cut, deaths, failures>>
    BY <1>s, Started
  <2>2. ops' \in 0 .. MaxOps
    BY <2>1 DEF Ids
  <2> QED BY <1>0, <2>1, <2>2
<1>1. ASSUME NEW m \in Models, Define(m)
      PROVE  Control /\ Disk
  <2>1. Start(m, "publish", [NoJob EXCEPT !.dest = m, !.entry = ops + 1])
    BY <1>1 DEF Define
  <2>2. [NoJob EXCEPT !.dest = m, !.entry = ops + 1] \in JobRecords
    BY <2>1, Started DEF NoJob, JobRecords, Roots
  <2>3. Control
    BY <1>s, <2>1, <2>2 DEF Steps
  <2> QED BY <1>0, <1>1, <2>3 DEF Define, fileVars
<1>2. ASSUME NEW m \in Models, NEW d \in Models, Clone(m, d)
      PROVE  Control /\ Disk
  <2>1. Disk
    BY <1>0, <1>2, Cloned DEF Clone
  <2>2. Start(m, "publish", [NoJob EXCEPT !.dest = d, !.entry = ops + 1])
    BY <1>2 DEF Clone
  <2>3. [NoJob EXCEPT !.dest = d, !.entry = ops + 1] \in JobRecords
    BY <2>2, Started DEF NoJob, JobRecords, Roots
  <2>4. Control
    BY <1>s, <2>2, <2>3 DEF Steps
  <2> QED BY <2>1, <2>4
<1>3. ASSUME NEW m \in Models, Publish(m)
      PROVE  Control /\ Disk
  <2>1. job[m].entry \in Roots /\ job[m].dest \in Models
    BY <1>0, <1>3 DEF Jobs, Publish, Step, JobRecords
  <2>2. CASE root' = root
    BY <1>0, <1>3, <1>i, <2>2 DEF Publish, Step, Goto, Return, Steps, boundVars
  <2>3. CASE root' = [root EXCEPT ![job[m].dest] = Append(@, job[m].entry)]
    <3>1. root' \in [Models -> Log(Roots)]
      BY <2>1, <2>3, RootChanged
    <3> QED BY <1>0, <1>3, <1>i, <3>1 DEF Publish, Step, Goto, Return, Steps, boundVars
  <2> QED BY <1>3, <2>2, <2>3 DEF Publish
<1>4. ASSUME NEW m \in Models, SyncRoot(m)
      PROVE  Control /\ Disk
  BY <1>0, <1>4, <1>i, RootSynced DEF SyncRoot, Step, Goto, Return, Steps, boundVars
<1>5. ASSUME NEW m \in Models, Remove(m)
      PROVE  Control /\ Disk
  <2>1. root' = [root EXCEPT ![m] = Append(@, None)]
        /\ Start(m, "syncRoot", [NoJob EXCEPT !.entry = EntryOf(m)])
    BY <1>5 DEF Remove
  <2>2. root' \in [Models -> Log(Roots)]
    BY <2>1, RootChanged DEF Roots
  <2>3. [NoJob EXCEPT !.entry = EntryOf(m)] \in JobRecords
    BY <1>j DEF NoJob, JobRecords, Roots
  <2>4. Control
    BY <1>s, <2>1, <2>3 DEF Steps
  <2> QED BY <1>0, <1>5, <2>2, <2>4 DEF Remove
<1>6. ASSUME NEW m \in Models, Destroy(m)
      PROVE  Control /\ Disk
  <2>1. job[m].entry \in Ids
    BY <1>6 DEF Jobs, Destroy, Step
  <2> QED BY <1>0, <1>6, <1>i, <2>1, Destroyed DEF Destroy, Step, Goto, Return, Steps, boundVars
<1>7. ASSUME NEW m \in Models, Save(m)
      PROVE  Control /\ Disk
  <2>1. Start(m, "syncStore", [NoJob EXCEPT !.entry = EntryOf(m), !.store = ops + 1])
    BY <1>7 DEF Save
  <2>2. ops + 1 \in Ids /\ EntryOf(m) \in Ids
    BY <1>7, <1>j, <2>1, Started DEF Save
  <2>3. [model |-> ops + 1, attributes |-> ops + 1] \in Files
    BY <2>2 DEF Files, Contents
  <2>4. store' \in [Ids \X Ids -> Log(Files)]
    BY <1>7, <2>2, <2>3, StoreChanged DEF Save, LogStore
  <2>5. [NoJob EXCEPT !.entry = EntryOf(m), !.store = ops + 1] \in JobRecords
    BY <2>2 DEF NoJob, JobRecords, Roots
  <2>6. Control
    BY <1>s, <2>1, <2>5 DEF Steps
  <2> QED BY <1>0, <1>7, <2>4, <2>6 DEF Save
<1>8. ASSUME NEW m \in Models, SyncStore(m) \/ SyncAttributes(m)
      PROVE  Control /\ Disk
  <2>1. job[m].entry \in Ids /\ job[m].store \in Ids
    BY <1>8 DEF Jobs, SyncStore, SyncAttributes, Step, SaveSteps, AttributeSteps
  <2>2. store' \in [Ids \X Ids -> Log(Files)]
    BY <1>8, <2>1, StoreSynced DEF SyncStore, SyncAttributes, NewStore
  <2> QED BY <1>0, <1>8, <1>i, <2>2
          DEF SyncStore, SyncAttributes, Step, Goto, Return, Steps, boundVars
<1>9. ASSUME NEW m \in Models, RenameStore(m)
      PROVE  Control /\ Disk
  <2>1. job[m].entry \in Ids /\ job[m].store \in Ids
    BY <1>9 DEF Jobs, RenameStore, Step, SaveSteps
  <2>2. [DirOf(job[m].entry) EXCEPT !.stores = @ \cup {job[m].store}] \in Dirs
    BY <1>k, <2>1 DEF Dirs
  <2>3. entry' \in [Ids -> Log(Dirs)]
    BY <1>9, <2>1, <2>2, EntryChanged DEF RenameStore, LogEntry
  <2> QED BY <1>0, <1>9, <2>3 DEF RenameStore, Step, Goto, Steps, boundVars
<1>10. ASSUME NEW m \in Models, SwitchLink(m)
       PROVE  Control /\ Disk
  <2>1. job[m].entry \in Ids /\ job[m].store \in Ids
    BY <1>10 DEF Jobs, SwitchLink, Step, SaveSteps
  <2>2. DirOf(job[m].entry) \in Dirs
        /\ [DirOf(job[m].entry) EXCEPT !.link = job[m].store] \in Dirs
    BY <1>k, <2>1 DEF Dirs
  <2>3. entry' \in [Ids -> Log(Dirs)]
    BY <1>10, <2>1, <2>2, EntryChanged DEF SwitchLink, LogEntry
  <2>4. job' \in [Models -> JobRecords]
    <3>1. \E x \in Roots : job' = [job EXCEPT ![m].old = x]
      BY <1>10, <2>2 DEF SwitchLink, Dirs, Roots
    <3> QED BY <1>0, <3>1 DEF JobRecords
  <2> QED BY <1>0, <1>10, <2>3, <2>4 DEF SwitchLink, Step, Goto, Steps, boundVars
<1>11. ASSUME NEW m \in Models, SyncEntry(m)
       PROVE  Control /\ Disk
  <2>1. job[m].entry \in Ids
    BY <1>11 DEF Jobs, SyncEntry, Step
  <2>2. entry' \in [Ids -> Log(Dirs)]
    BY <1>11, <2>1, EntrySynced DEF SyncEntry
  <2> QED BY <1>0, <1>11, <1>i, <2>2 DEF SyncEntry, Step, Goto, Return, Steps, boundVars
<1>12. ASSUME NEW m \in Models, RemoveOld(m)
       PROVE  Control /\ Disk
  <2>1. job[m].entry \in Ids /\ job[m].old \in Ids
    BY <1>12 DEF Jobs, RemoveOld, Step
  <2>2. store' \in [Ids \X Ids -> Log(Files)]
    BY <1>12, <2>1, StoreChanged DEF RemoveOld, LogStore, Files
  <2> QED BY <1>0, <1>12, <2>2 DEF RemoveOld, Step, Goto, Steps, boundVars
<1>13. ASSUME NEW m \in Models, UnlinkOld(m)
       PROVE  Control /\ Disk
  <2>1. job[m].entry \in Ids
    BY <1>13 DEF Jobs, UnlinkOld, Step
  <2>2. [DirOf(job[m].entry) EXCEPT !.stores = @ \ {job[m].old}] \in Dirs
    BY <1>k, <2>1 DEF Dirs
  <2>3. entry' \in [Ids -> Log(Dirs)]
    BY <1>13, <2>1, <2>2, EntryChanged DEF UnlinkOld, LogEntry
  <2> QED BY <1>0, <1>13, <1>i, <2>3 DEF UnlinkOld, Step, Goto, Return, Steps, boundVars
<1>14. ASSUME NEW m \in Models, UpdateAttributes(m)
       PROVE  Control /\ Disk
  <2> DEFINE e == EntryOf(m)
             j == [NoJob EXCEPT !.entry = e, !.store = DirOf(e).link, !.new = ops + 1]
  <2>1. Start(m, "replace", j) /\ UNCHANGED fileVars /\ e # None
    BY <1>14 DEF UpdateAttributes
  <2>2. e \in Roots /\ DirOf(e).link \in Roots /\ ops + 1 \in Ids
    BY <1>j, <2>1, Started DEF Dirs, Roots
  <2>3. j \in JobRecords
    BY <2>2 DEF NoJob, JobRecords, Roots
  <2> HIDE DEF j
  <2>4. Control
    BY <1>s, <2>1, <2>3 DEF Steps
  <2> QED BY <1>0, <2>1, <2>4 DEF fileVars
<1>15. ASSUME NEW m \in Models, ReplaceAttributes(m)
       PROVE  Control /\ Disk
  <2>1. job[m].entry \in Ids /\ job[m].store \in Ids /\ job[m].new \in Ids
    BY <1>15 DEF Jobs, ReplaceAttributes, Step, AttributeSteps
  <2>2. [Last(store[NewStore(m)]) EXCEPT !.attributes = job[m].new] \in Files
    <3>1. Last(store[NewStore(m)]) \in Contents
      BY <1>15, LinkedIsWhole DEF ReplaceAttributes, Step, AttributeSteps
    <3> QED BY <2>1, <3>1 DEF Contents, Files
  <2>3. store' \in [Ids \X Ids -> Log(Files)]
    BY <1>15, <2>1, <2>2, StoreChanged DEF ReplaceAttributes, LogStore, NewStore
  <2> QED BY <1>0, <1>15, <2>3 DEF ReplaceAttributes, Step, Goto, Steps, boundVars
<1>16. ASSUME NEW m \in Models, Die(m)
       PROVE  Control /\ Disk
  <2>1. deaths' \in 0 .. MaxDeaths
    BY <1>0, <1>16, StoreAssumption DEF Die
  <2>2. cut' \subseteq Models
    BY <1>0, <1>16 DEF Die, JobRecords
  <2> QED BY <1>0, <1>16, <1>i, <2>1, <2>2 DEF Die, fileVars, Goto, Return, Steps
<1>17. CASE WriteBack
  BY <1>0, <1>17, WrittenBack DEF WriteBack, boundVars
<1>18. CASE MachineFails
  <2>1. failures' \in 0 .. MaxFailures
    BY <1>0, <1>18, StoreAssumption DEF MachineFails
  <2> QED BY <1>0, <1>18, <1>i, <2>1, Failed DEF MachineFails, Steps
<1>19. CASE UNCHANGED vars
  BY <1>0, <1>19 DEF vars, fileVars, boundVars
<1> QED BY <1>1, <1>2, <1>3, <1>4, <1>5, <1>6, <1>7, <1>8, <1>9, <1>10, <1>11, <1>12, <1>13,
           <1>14, <1>15, <1>16, <1>17, <1>18, <1>19 DEF Next, Runner

-----------------------------------------------------------------------------
(* What the jobs say.                                                      *)

(* Every step keeps what the jobs say.                                     *)
LEMMA StepJobs ==
  ASSUME TypeOK, Jobs, [Next]_vars
  PROVE  Jobs'
<1>0. pc \in [Models -> Steps] /\ job \in [Models -> JobRecords]
  BY DEF TypeOK, Steps, JobRecords, Roots
<1>n. None \notin Ids /\ None \notin Models
  BY StoreAssumption DEF Ids
<1>j. \A m \in Models : EntryOf(m) # None => EntryOf(m) \in Ids
  BY FileLogs DEF EntryOf, Roots
<1> DEFINE Kept(m) == /\ pc'[m] = pc[m] /\ job'[m] = job[m]
                      /\ pc[m] \in SaveSteps \cup AttributeSteps => Last(root'[m]) = Last(root[m])
           Ok(m) == /\ pc'[m] \in {"idle", "destroy"} \cup SaveSteps \cup AttributeSteps
                         => job'[m].dest = None
                    /\ pc'[m] = "publish" => job'[m].dest \in Models
                    /\ pc'[m] # "idle" => job'[m].entry \in Ids
                    /\ pc'[m] \in SaveSteps \cup AttributeSteps =>
                         job'[m].entry = Last(root'[m]) /\ job'[m].store \in Ids
                    /\ pc'[m] \in {"removeOld", "unlinkOld"} => job'[m].old \in Ids
                    /\ pc'[m] = "replace" => job'[m].new \in Ids
<1>k. ASSUME NEW m \in Models, Kept(m)
      PROVE  Ok(m)
  BY <1>k DEF Jobs, EntryOf
<1> SUFFICES \A m \in Models : Ok(m)
  BY DEF Jobs, EntryOf
<1>s. ASSUME NEW m \in Models, NEW label, NEW j, Start(m, label, j),
             \A p \in Models \ {m} : Last(root'[p]) = Last(root[p])
      PROVE  /\ \A p \in Models \ {m} : Kept(p)
             /\ pc'[m] = label /\ job'[m] = j /\ ops + 1 \in Ids
  BY <1>0, <1>s, Started
<1>t. ASSUME NEW m \in Models, NEW label, Goto(m, label), UNCHANGED <<job, root>>
      PROVE  /\ \A p \in Models \ {m} : Kept(p)
             /\ pc'[m] = label /\ job'[m] = job[m] /\ root'[m] = root[m]
  BY <1>0, <1>t DEF Goto
<1>r. ASSUME NEW m \in Models, Return(m),
             \A p \in Models : Last(root'[p]) = Last(root[p])
      PROVE  \A p \in Models : Ok(p)
  <2>1. \A p \in Models \ {m} : Kept(p)
    BY <1>0, <1>r DEF Return, Goto
  <2>2. pc'[m] = "idle" /\ job'[m] = NoJob
    BY <1>0, <1>r DEF Return, Goto
  <2>3. Ok(m)
    BY <2>2 DEF NoJob, SaveSteps, AttributeSteps
  <2> QED BY <1>k, <2>1, <2>3
<1> HIDE DEF Kept
<1>1. ASSUME NEW m \in Models, Define(m)
      PROVE  \A p \in Models : Ok(p)
  <2>1. Start(m, "publish", [NoJob EXCEPT !.dest = m, !.entry = ops + 1]) /\ root' = root
    BY <1>1 DEF Define, fileVars
  <2>2. Ok(m)
    <3>1. /\ pc'[m] = "publish" /\ ops + 1 \in Ids
          /\ job'[m] = [NoJob EXCEPT !.dest = m, !.entry = ops + 1]
      BY <1>s, <2>1
    <3> QED BY <3>1 DEF NoJob, SaveSteps, AttributeSteps
  <2> QED BY <1>k, <1>s, <2>1, <2>2
<1>2. ASSUME NEW m \in Models, NEW d \in Models, Clone(m, d)
      PROVE  \A p \in Models : Ok(p)
  <2>1. Start(m, "publish", [NoJob EXCEPT !.dest = d, !.entry = ops + 1]) /\ root' = root
    BY <1>2 DEF Clone
  <2>2. Ok(m)
    <3>1. /\ pc'[m] = "publish" /\ ops + 1 \in Ids
          /\ job'[m] = [NoJob EXCEPT !.dest = d, !.entry = ops + 1]
      BY <1>s, <2>1
    <3> QED BY <3>1 DEF NoJob, SaveSteps, AttributeSteps
  <2> QED BY <1>k, <1>s, <2>1, <2>2
<1>3. ASSUME NEW m \in Models, Publish(m)
      PROVE  \A p \in Models : Ok(p)
  <2>1. job[m].entry \in Ids /\ job[m].dest \in Models /\ pc[m] = "publish"
    BY <1>3 DEF Jobs, Publish, Step
  <2>2. CASE root' = root /\ Return(m)
    BY <1>r, <2>2
  <2>3. CASE /\ EntryOf(job[m].dest) = None
             /\ root' = [root EXCEPT ![job[m].dest] = Append(@, job[m].entry)]
             /\ Goto(m, "syncRoot") /\ UNCHANGED job
    <3>1. \A p \in Models \ {job[m].dest} : root'[p] = root[p]
      BY <2>1, <2>3, RootChanged DEF Roots
    <3>2. pc[job[m].dest] \notin SaveSteps \cup AttributeSteps
      BY <1>n, <2>1, <2>3 DEF Jobs, SaveSteps, AttributeSteps
    <3>3. \A p \in Models \ {m} : Kept(p)
      BY <1>0, <2>3, <3>1, <3>2 DEF Goto, Kept
    <3>4. pc'[m] = "syncRoot" /\ job'[m] = job[m]
      BY <1>0, <2>3 DEF Goto
    <3>5. Ok(m)
      BY <2>1, <3>4 DEF SaveSteps, AttributeSteps
    <3> QED BY <1>k, <3>3, <3>5
  <2> QED BY <1>3, <2>2, <2>3 DEF Publish
<1>4. ASSUME NEW m \in Models, SyncRoot(m)
      PROVE  \A p \in Models : Ok(p)
  <2>1. \A p \in Models : Last(root'[p]) = Last(root[p])
    BY <1>4, RootSynced DEF SyncRoot
  <2>2. CASE Return(m)
    BY <1>r, <2>1, <2>2
  <2>3. CASE job[m].dest = None /\ Goto(m, "destroy") /\ UNCHANGED job
    <3>1. \A p \in Models \ {m} : Kept(p)
      BY <1>0, <2>1, <2>3 DEF Goto, Kept
    <3>2. pc'[m] = "destroy" /\ job'[m] = job[m] /\ pc[m] = "syncRoot"
      BY <1>0, <1>4, <2>3 DEF Goto, SyncRoot, Step
    <3>3. Ok(m)
      BY <2>3, <3>2 DEF Jobs, SaveSteps, AttributeSteps
    <3> QED BY <1>k, <3>1, <3>3
  <2> QED BY <1>4, <2>2, <2>3 DEF SyncRoot
<1>5. ASSUME NEW m \in Models, Remove(m)
      PROVE  \A p \in Models : Ok(p)
  <2>1. /\ Start(m, "syncRoot", [NoJob EXCEPT !.entry = EntryOf(m)])
        /\ EntryOf(m) \in Ids
        /\ \A p \in Models \ {m} : Last(root'[p]) = Last(root[p])
    BY <1>5, <1>j, RootChanged DEF Remove, Roots
  <2>2. Ok(m)
    BY <1>s, <2>1 DEF NoJob, SaveSteps, AttributeSteps
  <2> QED BY <1>k, <1>s, <2>1, <2>2
<1>6. ASSUME NEW m \in Models, Destroy(m) \/ UnlinkOld(m) \/ SyncAttributes(m) \/ Die(m)
      PROVE  \A p \in Models : Ok(p)
  BY <1>r, <1>6 DEF Destroy, UnlinkOld, SyncAttributes, Die, fileVars
<1>7. ASSUME NEW m \in Models, Save(m)
      PROVE  \A p \in Models : Ok(p)
  <2>1. /\ Start(m, "syncStore", [NoJob EXCEPT !.entry = EntryOf(m), !.store = ops + 1])
        /\ EntryOf(m) \in Ids /\ root' = root
    BY <1>7, <1>j DEF Save
  <2>2. Ok(m)
    <3>1. /\ pc'[m] = "syncStore" /\ ops + 1 \in Ids
          /\ job'[m] = [NoJob EXCEPT !.entry = EntryOf(m), !.store = ops + 1]
      BY <1>s, <2>1
    <3> QED BY <2>1, <3>1 DEF NoJob, EntryOf, SaveSteps, AttributeSteps
  <2> QED BY <1>k, <1>s, <2>1, <2>2
<1>8. ASSUME NEW m \in Models, SyncStore(m) \/ RenameStore(m) \/ RemoveOld(m) \/ ReplaceAttributes(m)
      PROVE  \A p \in Models : Ok(p)
  <2>1. /\ pc[m] \in {"syncStore", "renameStore", "removeOld", "replace"}
        /\ \E label \in {"renameStore", "switchLink", "unlinkOld", "syncAttributes"} :
             /\ label = "unlinkOld" => pc[m] = "removeOld"
             /\ Goto(m, label)
        /\ UNCHANGED <<job, root>>
    BY <1>8 DEF SyncStore, RenameStore, RemoveOld, ReplaceAttributes, Step
  <2>2. Ok(m)
    BY <1>t, <2>1 DEF Jobs, EntryOf, SaveSteps, AttributeSteps
  <2> QED BY <1>k, <1>t, <2>1, <2>2
<1>9. ASSUME NEW m \in Models, SwitchLink(m)
      PROVE  \A p \in Models : Ok(p)
  <2>1. /\ pc[m] = "switchLink" /\ Goto(m, "syncEntry") /\ root' = root
        /\ \E x : job' = [job EXCEPT ![m].old = x]
    BY <1>9 DEF SwitchLink, Step
  <2>2. \A p \in Models \ {m} : Kept(p)
    BY <1>0, <2>1 DEF Goto, Kept
  <2>3. /\ pc'[m] = "syncEntry" /\ job'[m].dest = job[m].dest
        /\ job'[m].entry = job[m].entry /\ job'[m].store = job[m].store
    BY <1>0, <2>1 DEF Goto, JobRecords
  <2>4. Ok(m)
    BY <2>1, <2>3 DEF Jobs, EntryOf, SaveSteps, AttributeSteps
  <2> QED BY <1>k, <2>2, <2>4
<1>10. ASSUME NEW m \in Models, SyncEntry(m)
       PROVE  \A p \in Models : Ok(p)
  <2>1. CASE Return(m)
    BY <1>r, <1>10, <2>1 DEF SyncEntry
  <2>2. CASE job[m].old # None /\ Goto(m, "removeOld") /\ UNCHANGED job
    <3>1. pc[m] = "syncEntry" /\ root' = root
      BY <1>10 DEF SyncEntry, Step
    <3>2. job[m].old \in Ids
      BY <1>0, <2>2 DEF JobRecords, Roots
    <3>3. Ok(m)
      BY <1>t, <2>2, <3>1, <3>2 DEF Jobs, EntryOf, SaveSteps, AttributeSteps
    <3> QED BY <1>k, <1>t, <2>2, <3>1, <3>3
  <2> QED BY <1>10, <2>1, <2>2 DEF SyncEntry
<1>11. ASSUME NEW m \in Models, UpdateAttributes(m)
       PROVE  \A p \in Models : Ok(p)
  <2> DEFINE e == EntryOf(m)
  <2>1. /\ Start(m, "replace", [NoJob EXCEPT !.entry = e, !.store = DirOf(e).link, !.new = ops + 1])
        /\ e \in Ids /\ root' = root /\ Exists(e, DirOf(e))
    BY <1>11, <1>j DEF UpdateAttributes, fileVars
  <2>2. DirOf(e).link \in Ids
    BY <2>1, FileLogs DEF DirOf, Dirs, Exists
  <2>3. Ok(m)
    <3>1. /\ pc'[m] = "replace" /\ ops + 1 \in Ids
          /\ job'[m] = [NoJob EXCEPT !.entry = e, !.store = DirOf(e).link, !.new = ops + 1]
      BY <1>s, <2>1
    <3> QED BY <2>1, <2>2, <3>1 DEF NoJob, EntryOf, SaveSteps, AttributeSteps
  <2> QED BY <1>k, <1>s, <2>1, <2>3
<1>12. CASE WriteBack
  BY <1>12, <1>k, WrittenBack DEF WriteBack, Kept
<1>13. CASE MachineFails
  BY <1>13 DEF MachineFails, NoJob, SaveSteps, AttributeSteps
<1>14. CASE UNCHANGED vars
  BY <1>14, <1>k DEF vars, fileVars, Kept
<1> QED BY <1>1, <1>2, <1>3, <1>4, <1>5, <1>6, <1>7, <1>8, <1>9, <1>10, <1>11, <1>12, <1>13, <1>14
        DEF Next, Runner

-----------------------------------------------------------------------------
(* What each action does, log by log.                                      *)

Others(m) == \A p \in Models \ {m} : pc'[p] = pc[p] /\ job'[p] = job[p]

Begins(m, label, d, e, s) ==
  /\ pc[m] = "idle" /\ ops \in Nat /\ ops + 1 \in Ids /\ ops' = ops + 1
  /\ pc'[m] = label /\ Others(m) /\ UNCHANGED <<cut, deaths, failures>>
  /\ job'[m].dest = d /\ job'[m].entry = e /\ job'[m].store = s /\ job'[m].old = None

Goes(m, from, label) ==
  /\ pc[m] = from /\ pc'[m] = label /\ job'[m] = job[m]
  /\ Others(m) /\ UNCHANGED <<cut, ops, deaths, failures>>

Ends(m, from) ==
  /\ pc[m] = from /\ pc'[m] = "idle" /\ Others(m) /\ UNCHANGED <<cut, ops, deaths, failures>>
  /\ job'[m].dest = None /\ job'[m].entry = None /\ job'[m].store = None /\ job'[m].old = None

(* A call begins an operation.                                             *)
LEMMA StartBegins ==
  ASSUME TypeOK, NEW m \in Models, NEW label, NEW d, NEW e, NEW s, NEW j,
         j.dest = d, j.entry = e, j.store = s, j.old = None, Start(m, label, j)
  PROVE  Begins(m, label, d, e, s)
<1>1. /\ pc[m] = "idle" /\ ops \in Nat /\ ops + 1 \in Ids /\ ops' = ops + 1
      /\ pc' = [pc EXCEPT ![m] = label] /\ job' = [job EXCEPT ![m] = j]
      /\ UNCHANGED <<cut, deaths, failures>>
  BY Started
<1>2. pc'[m] = label /\ job'[m] = j /\ Others(m)
  BY <1>1 DEF TypeOK, Others
<1> QED BY <1>1, <1>2 DEF Begins

(* A step that goes on to another.                                         *)
LEMMA StepGoes ==
  ASSUME TypeOK, NEW m \in Models, NEW from, NEW label,
         Step(m, from), Goto(m, label), UNCHANGED job
  PROVE  Goes(m, from, label)
  BY DEF TypeOK, Step, Goto, Goes, Others, boundVars

(* A step that returns.                                                    *)
LEMMA StepEnds ==
  ASSUME TypeOK, NEW m \in Models, NEW from, Step(m, from), Return(m)
  PROVE  Ends(m, from)
<1>1. pc' = [pc EXCEPT ![m] = "idle"] /\ job' = [job EXCEPT ![m] = NoJob]
  BY DEF Return, Goto
<1>2. pc'[m] = "idle" /\ job'[m] = NoJob /\ Others(m)
  BY <1>1 DEF TypeOK, Others
<1> QED BY <1>2 DEF Step, NoJob, Ends, boundVars

(* define() up to the rename.                                              *)
LEMMA DefineDoes ==
  ASSUME TypeOK, NEW m \in Models, Define(m)
  PROVE  /\ EntryOf(m) = None
         /\ Begins(m, "publish", m, ops + 1, None)
         /\ UNCHANGED <<root, entry, store>>
<1> DEFINE j == [NoJob EXCEPT !.dest = m, !.entry = ops + 1]
<1>0. j.dest = m /\ j.entry = ops + 1 /\ j.store = None /\ j.old = None
  BY DEF NoJob
<1>1. Start(m, "publish", j)
  BY DEF Define
<1> HIDE DEF j
<1> QED BY <1>0, <1>1, StartBegins DEF Define, fileVars

(* clone() up to the rename (see Cloned).                                  *)
LEMMA CloneDoes ==
  ASSUME TypeOK, NEW m \in Models, NEW d \in Models, Clone(m, d)
  PROVE  /\ EntryOf(m) # None /\ EntryOf(d) = None
         /\ Begins(m, "publish", d, ops + 1, None)
         /\ UNCHANGED root
<1> DEFINE j == [NoJob EXCEPT !.dest = d, !.entry = ops + 1]
<1>0. j.dest = d /\ j.entry = ops + 1 /\ j.store = None /\ j.old = None
  BY DEF NoJob
<1>1. Start(m, "publish", j)
  BY DEF Clone
<1> HIDE DEF j
<1> QED BY <1>0, <1>1, StartBegins DEF Clone

(* The rename into the storage root, or its failure.                       *)
LEMMA PublishDoes ==
  ASSUME TypeOK, Jobs, NEW m \in Models, Publish(m)
  PROVE  /\ job[m].entry \in Ids /\ job[m].dest \in Models
         /\ UNCHANGED <<entry, store>>
         /\ \/ /\ Goes(m, "publish", "syncRoot")
               /\ EntryOf(job[m].dest) = None
               /\ Last(root'[job[m].dest]) = job[m].entry
               /\ RangeOf(root'[job[m].dest]) = RangeOf(root[job[m].dest]) \cup {job[m].entry}
               /\ \A p \in Models \ {job[m].dest} : root'[p] = root[p]
            \/ /\ Ends(m, "publish")
               /\ EntryOf(job[m].dest) # None
               /\ UNCHANGED root
<1>1. job[m].entry \in Ids /\ job[m].dest \in Models /\ Step(m, "publish")
  BY DEF Jobs, Publish, Step
<1>2. CASE /\ EntryOf(job[m].dest) = None
           /\ root' = [root EXCEPT ![job[m].dest] = Append(@, job[m].entry)]
           /\ Goto(m, "syncRoot") /\ UNCHANGED job
  <2>1. Goes(m, "publish", "syncRoot")
    BY <1>1, <1>2, StepGoes
  <2>2. /\ Last(root'[job[m].dest]) = job[m].entry
        /\ RangeOf(root'[job[m].dest]) = RangeOf(root[job[m].dest]) \cup {job[m].entry}
        /\ \A p \in Models \ {job[m].dest} : root'[p] = root[p]
    BY <1>1, <1>2, RootChanged DEF Roots
  <2> QED BY <1>1, <1>2, <2>1, <2>2 DEF Publish
<1>3. CASE EntryOf(job[m].dest) # None /\ Return(m) /\ UNCHANGED root
  BY <1>1, <1>3, StepEnds DEF Publish
<1> QED BY <1>2, <1>3 DEF Publish

(* The fsync of the storage root.                                          *)
LEMMA SyncRootDoes ==
  ASSUME TypeOK, NEW m \in Models, SyncRoot(m)
  PROVE  /\ \/ job[m].dest # None /\ Ends(m, "syncRoot")
            \/ job[m].dest = None /\ Goes(m, "syncRoot", "destroy")
         /\ \A p \in Models : Last(root'[p]) = Last(root[p]) /\ RangeOf(root'[p]) = {Last(root[p])}
         /\ UNCHANGED <<entry, store>>
  BY RootSynced, StepEnds, StepGoes DEF SyncRoot

(* remove() up to the fsync.                                               *)
LEMMA RemoveDoes ==
  ASSUME TypeOK, NEW m \in Models, Remove(m)
  PROVE  /\ EntryOf(m) # None
         /\ Begins(m, "syncRoot", None, EntryOf(m), None)
         /\ Last(root'[m]) = None /\ RangeOf(root'[m]) = RangeOf(root[m]) \cup {None}
         /\ \A p \in Models \ {m} : root'[p] = root[p]
         /\ UNCHANGED <<entry, store>>
<1> DEFINE j == [NoJob EXCEPT !.entry = EntryOf(m)]
<1>0. j.dest = None /\ j.entry = EntryOf(m) /\ j.store = None /\ j.old = None
  BY DEF NoJob
<1>1. Start(m, "syncRoot", j)
  BY DEF Remove
<1> HIDE DEF j
<1>2. Begins(m, "syncRoot", None, EntryOf(m), None)
  BY <1>0, <1>1, StartBegins
<1>3. /\ Last(root'[m]) = None /\ RangeOf(root'[m]) = RangeOf(root[m]) \cup {None}
      /\ \A p \in Models \ {m} : root'[p] = root[p]
  BY RootChanged DEF Remove, Roots
<1> QED BY <1>2, <1>3 DEF Remove

(* The deletion of a removed entry (see Destroyed).                        *)
LEMMA DestroyDoes ==
  ASSUME TypeOK, Jobs, NEW m \in Models, Destroy(m)
  PROVE  job[m].entry \in Ids /\ Ends(m, "destroy") /\ UNCHANGED root
  BY StepEnds DEF Destroy, Jobs, Step

(* save() up to the fsync of the new store.                                *)
LEMMA SaveDoes ==
  ASSUME TypeOK, NEW m \in Models, Save(m)
  PROVE  /\ EntryOf(m) \in Ids
         /\ Begins(m, "syncStore", None, EntryOf(m), ops + 1)
         /\ \E new \in Contents :
              /\ Last(store'[<<EntryOf(m), ops + 1>>]) = new
              /\ RangeOf(store'[<<EntryOf(m), ops + 1>>])
                   = RangeOf(store[<<EntryOf(m), ops + 1>>]) \cup {new}
         /\ \A i, s \in Ids : i # EntryOf(m) \/ s # ops + 1 => store'[<<i, s>>] = store[<<i, s>>]
         /\ UNCHANGED <<root, entry>>
<1> DEFINE new == [model |-> ops + 1, attributes |-> ops + 1]
<1> DEFINE j == [NoJob EXCEPT !.entry = EntryOf(m), !.store = ops + 1]
<1>0. j.dest = None /\ j.entry = EntryOf(m) /\ j.store = ops + 1 /\ j.old = None
  BY DEF NoJob
<1>1. Start(m, "syncStore", j)
  BY DEF Save
<1> HIDE DEF j
<1>2. Begins(m, "syncStore", None, EntryOf(m), ops + 1) /\ ops + 1 \in Ids
  BY <1>0, <1>1, StartBegins DEF Begins
<1>3. EntryOf(m) \in Ids
  BY FileLogs DEF Save, EntryOf, Roots
<1>4. new \in Contents /\ new \in Files
  BY <1>2 DEF Contents, Files
<1>5. store' = [store EXCEPT ![<<EntryOf(m), ops + 1>>] = Append(@, new)]
  BY DEF Save, LogStore
<1> HIDE DEF new
<1> DEFINE e == EntryOf(m)
           n == ops + 1
<1> HIDE DEF e, n
<1>7. e \in Ids /\ n \in Ids /\ store' = [store EXCEPT ![<<e, n>>] = Append(@, new)]
  BY <1>2, <1>3, <1>5 DEF e, n
<1>8. /\ Last(store'[<<e, n>>]) = new
      /\ RangeOf(store'[<<e, n>>]) = RangeOf(store[<<e, n>>]) \cup {new}
      /\ \A i, s \in Ids : i # e \/ s # n => store'[<<i, s>>] = store[<<i, s>>]
  <2> DEFINE p == <<e, n>>
  <2>1. p \in Ids \X Ids /\ store' = [store EXCEPT ![p] = Append(@, new)]
    BY <1>7
  <2>2. \A i, s \in Ids : i # e \/ s # n => <<i, s>> \in (Ids \X Ids) \ {p}
    OBVIOUS
  <2> HIDE DEF p
  <2>3. /\ Last(store'[p]) = new /\ RangeOf(store'[p]) = RangeOf(store[p]) \cup {new}
        /\ \A q \in (Ids \X Ids) \ {p} : store'[q] = store[q]
    BY <1>4, <2>1, FilesLogged
  <2> QED BY <2>2, <2>3 DEF p
<1>6. /\ Last(store'[<<EntryOf(m), ops + 1>>]) = new
      /\ RangeOf(store'[<<EntryOf(m), ops + 1>>])
           = RangeOf(store[<<EntryOf(m), ops + 1>>]) \cup {new}
      /\ \A i, s \in Ids : i # EntryOf(m) \/ s # ops + 1 => store'[<<i, s>>] = store[<<i, s>>]
  BY <1>8 DEF e, n
<1> QED BY <1>2, <1>3, <1>4, <1>6 DEF Save

(* The fsync of the new store.                                             *)
LEMMA SyncStoreDoes ==
  ASSUME TypeOK, Jobs, NEW m \in Models, SyncStore(m)
  PROVE  /\ Goes(m, "syncStore", "renameStore")
         /\ Last(store'[NewStore(m)]) = Last(store[NewStore(m)])
         /\ RangeOf(store'[NewStore(m)]) = {Last(store[NewStore(m)])}
         /\ \A i, s \in Ids : i # job[m].entry \/ s # job[m].store
                                => store'[<<i, s>>] = store[<<i, s>>]
         /\ UNCHANGED <<root, entry>>
<1>1. job[m].entry \in Ids /\ job[m].store \in Ids
  BY DEF Jobs, SyncStore, Step, SaveSteps
<1>2. store' = [store EXCEPT ![<<job[m].entry, job[m].store>>] = Synced(@)]
  BY DEF SyncStore, NewStore
<1>3. Goes(m, "syncStore", "renameStore")
  BY StepGoes DEF SyncStore
<1> QED BY <1>1, <1>2, <1>3, StoreSynced DEF SyncStore, NewStore

(* The rename of the new store into the entry.                             *)
LEMMA RenameStoreDoes ==
  ASSUME TypeOK, Jobs, NEW m \in Models, RenameStore(m)
  PROVE  LET e == job[m].entry
         IN /\ Goes(m, "renameStore", "switchLink")
            /\ \E dir \in Dirs : /\ dir.link = DirOf(e).link
                                 /\ dir.stores = DirOf(e).stores \cup {job[m].store}
                                 /\ Last(entry'[e]) = dir
                                 /\ RangeOf(entry'[e]) = RangeOf(entry[e]) \cup {dir}
            /\ \A i \in Ids \ {e} : entry'[i] = entry[i]
            /\ UNCHANGED <<root, store>>
<1> DEFINE e == job[m].entry
           dir == [DirOf(e) EXCEPT !.stores = @ \cup {job[m].store}]
<1>1. pc[m] \in SaveSteps
  BY DEF RenameStore, Step, SaveSteps
<1>2. e \in Ids /\ job[m].store \in Ids /\ DirOf(e) \in Dirs
  BY <1>1, OwnEntry
<1>3. /\ dir \in Dirs /\ dir.link = DirOf(e).link
      /\ dir.stores = DirOf(e).stores \cup {job[m].store}
  BY <1>2 DEF Dirs
<1>4. entry' = [entry EXCEPT ![e] = Append(@, dir)]
  BY DEF RenameStore, LogEntry
<1>5. Goes(m, "renameStore", "switchLink")
  BY StepGoes DEF RenameStore
<1> HIDE DEF dir
<1>6. /\ Last(entry'[e]) = dir /\ RangeOf(entry'[e]) = RangeOf(entry[e]) \cup {dir}
      /\ \A i \in Ids \ {e} : entry'[i] = entry[i]
  BY <1>2, <1>3, <1>4, EntryChanged
<1> QED BY <1>3, <1>5, <1>6 DEF RenameStore

(* The replacement of the link.                                            *)
LEMMA SwitchLinkDoes ==
  ASSUME TypeOK, Jobs, NEW m \in Models, SwitchLink(m)
  PROVE  LET e == job[m].entry
         IN /\ pc[m] = "switchLink" /\ pc'[m] = "syncEntry" /\ Others(m)
            /\ UNCHANGED <<cut, ops, deaths, failures>>
            /\ job'[m].dest = job[m].dest /\ job'[m].entry = e /\ job'[m].store = job[m].store
            /\ job'[m].old = IF Exists(e, DirOf(e)) THEN DirOf(e).link ELSE None
            /\ \E dir \in Dirs : /\ dir.link = job[m].store
                                 /\ dir.stores = DirOf(e).stores
                                 /\ Last(entry'[e]) = dir
                                 /\ RangeOf(entry'[e]) = RangeOf(entry[e]) \cup {dir}
            /\ \A i \in Ids \ {e} : entry'[i] = entry[i]
            /\ UNCHANGED <<root, store>>
<1> DEFINE e == job[m].entry
           dir == [DirOf(e) EXCEPT !.link = job[m].store]
           old == IF Exists(e, DirOf(e)) THEN DirOf(e).link ELSE None
<1>1. pc[m] \in SaveSteps
  BY DEF SwitchLink, Step, SaveSteps
<1>2. e \in Ids /\ job[m].store \in Ids /\ DirOf(e) \in Dirs
  BY <1>1, OwnEntry
<1>3. dir \in Dirs /\ dir.link = job[m].store /\ dir.stores = DirOf(e).stores
  BY <1>2 DEF Dirs
<1>4. entry' = [entry EXCEPT ![e] = Append(@, dir)] /\ job' = [job EXCEPT ![m].old = old]
  BY DEF SwitchLink, LogEntry
<1> HIDE DEF dir, old
<1>5. /\ Last(entry'[e]) = dir /\ RangeOf(entry'[e]) = RangeOf(entry[e]) \cup {dir}
      /\ \A i \in Ids \ {e} : entry'[i] = entry[i]
  BY <1>2, <1>3, <1>4, EntryChanged
<1>6. /\ job'[m].dest = job[m].dest /\ job'[m].entry = e /\ job'[m].store = job[m].store
      /\ job'[m].old = old /\ pc[m] = "switchLink" /\ pc'[m] = "syncEntry" /\ Others(m)
      /\ UNCHANGED <<cut, ops, deaths, failures>>
  BY <1>4 DEF TypeOK, SwitchLink, Step, Goto, Others, boundVars
<1> QED BY <1>3, <1>5, <1>6 DEF SwitchLink, old

(* The fsync of the entry.                                                 *)
LEMMA SyncEntryDoes ==
  ASSUME TypeOK, Jobs, NEW m \in Models, SyncEntry(m)
  PROVE  LET e == job[m].entry
         IN /\ \/ job[m].old = None /\ Ends(m, "syncEntry")
               \/ job[m].old # None /\ Goes(m, "syncEntry", "removeOld")
            /\ Last(entry'[e]) = DirOf(e) /\ RangeOf(entry'[e]) = {DirOf(e)}
            /\ \A i \in Ids \ {e} : entry'[i] = entry[i]
            /\ UNCHANGED <<root, store>>
<1> DEFINE e == job[m].entry
<1>1. e \in Ids
  BY DEF Jobs, SyncEntry, Step
<1>2. /\ Last(entry'[e]) = Last(entry[e]) /\ RangeOf(entry'[e]) = {Last(entry[e])}
      /\ \A i \in Ids \ {e} : entry'[i] = entry[i]
  BY <1>1, EntrySynced DEF SyncEntry
<1> QED BY <1>2, StepEnds, StepGoes DEF SyncEntry, DirOf

(* The deletion of the files of the old store.                             *)
LEMMA RemoveOldDoes ==
  ASSUME TypeOK, Jobs, NEW m \in Models, RemoveOld(m)
  PROVE  /\ Goes(m, "removeOld", "unlinkOld")
         /\ \A i, s \in Ids : i # job[m].entry \/ s # job[m].old
                                => store'[<<i, s>>] = store[<<i, s>>]
         /\ UNCHANGED <<root, entry>>
<1>1. job[m].entry \in Ids /\ job[m].old \in Ids
  BY DEF Jobs, RemoveOld, Step
<1>2. \A i, s \in Ids : i # job[m].entry \/ s # job[m].old => store'[<<i, s>>] = store[<<i, s>>]
  BY <1>1, StoreChanged DEF RemoveOld, LogStore, Files
<1> QED BY <1>2, StepGoes DEF RemoveOld

(* The deletion of its directory.                                          *)
LEMMA UnlinkOldDoes ==
  ASSUME TypeOK, Jobs, NEW m \in Models, UnlinkOld(m)
  PROVE  LET e == job[m].entry
         IN /\ Ends(m, "unlinkOld")
            /\ \E dir \in Dirs : /\ dir.link = DirOf(e).link
                                 /\ dir.stores = DirOf(e).stores \ {job[m].old}
                                 /\ Last(entry'[e]) = dir
                                 /\ RangeOf(entry'[e]) = RangeOf(entry[e]) \cup {dir}
            /\ \A i \in Ids \ {e} : entry'[i] = entry[i]
            /\ UNCHANGED <<root, store>>
<1> DEFINE e == job[m].entry
           dir == [DirOf(e) EXCEPT !.stores = @ \ {job[m].old}]
<1>1. pc[m] \in SaveSteps
  BY DEF UnlinkOld, Step, SaveSteps
<1>2. e \in Ids /\ DirOf(e) \in Dirs
  BY <1>1, OwnEntry
<1>3. /\ dir \in Dirs /\ dir.link = DirOf(e).link
      /\ dir.stores = DirOf(e).stores \ {job[m].old}
  BY <1>2 DEF Dirs
<1>4. entry' = [entry EXCEPT ![e] = Append(@, dir)]
  BY DEF UnlinkOld, LogEntry
<1>5. Ends(m, "unlinkOld")
  BY StepEnds DEF UnlinkOld
<1> HIDE DEF dir
<1>6. /\ Last(entry'[e]) = dir /\ RangeOf(entry'[e]) = RangeOf(entry[e]) \cup {dir}
      /\ \A i \in Ids \ {e} : entry'[i] = entry[i]
  BY <1>2, <1>3, <1>4, EntryChanged
<1> QED BY <1>3, <1>5, <1>6 DEF UnlinkOld

(* updateCheckpointAttributes() up to the rename of the new file.          *)
LEMMA UpdateAttributesDoes ==
  ASSUME TypeOK, NEW m \in Models, UpdateAttributes(m)
  PROVE  /\ EntryOf(m) \in Ids /\ DirOf(EntryOf(m)).link \in DirOf(EntryOf(m)).stores
         /\ DirOf(EntryOf(m)).link \in Ids
         /\ Begins(m, "replace", None, EntryOf(m), DirOf(EntryOf(m)).link)
         /\ UNCHANGED <<root, entry, store>>
<1> DEFINE j == [NoJob EXCEPT !.entry = EntryOf(m), !.store = DirOf(EntryOf(m)).link,
                              !.new = ops + 1]
<1>0. /\ j.dest = None /\ j.entry = EntryOf(m) /\ j.store = DirOf(EntryOf(m)).link
      /\ j.old = None
  BY DEF NoJob
<1>1. Start(m, "replace", j)
  BY DEF UpdateAttributes
<1> HIDE DEF j
<1>2. EntryOf(m) \in Ids
  BY FileLogs DEF UpdateAttributes, EntryOf, Roots
<1>3. DirOf(EntryOf(m)).link \in DirOf(EntryOf(m)).stores
  BY DEF UpdateAttributes, Exists
<1>4. DirOf(EntryOf(m)).link \in Ids
  BY <1>2, <1>3, FileLogs DEF DirOf, Dirs
<1> QED BY <1>0, <1>1, <1>2, <1>3, <1>4, StartBegins DEF UpdateAttributes, fileVars

(* The rename of the new file of attributes into the store.                *)
LEMMA ReplaceAttributesDoes ==
  ASSUME TypeOK, Jobs, EntriesWhole, SaveOrder, NEW m \in Models, ReplaceAttributes(m)
  PROVE  /\ Goes(m, "replace", "syncAttributes")
         /\ \E new \in Contents :
              /\ new.model = Last(store[NewStore(m)]).model
              /\ Last(store'[NewStore(m)]) = new
              /\ RangeOf(store'[NewStore(m)]) = RangeOf(store[NewStore(m)]) \cup {new}
         /\ \A i, s \in Ids : i # job[m].entry \/ s # job[m].store
                                => store'[<<i, s>>] = store[<<i, s>>]
         /\ UNCHANGED <<root, entry>>
<1> DEFINE e == job[m].entry
           s == job[m].store
           new == [Last(store[NewStore(m)]) EXCEPT !.attributes = job[m].new]
<1>1. e \in Ids /\ s \in Ids /\ job[m].new \in Ids
  BY DEF Jobs, ReplaceAttributes, Step, AttributeSteps
<1>2. Last(store[NewStore(m)]) \in Contents
  BY LinkedIsWhole DEF ReplaceAttributes, Step, AttributeSteps
<1>3. new \in Contents /\ new.model = Last(store[NewStore(m)]).model /\ new \in Files
  BY <1>1, <1>2 DEF Contents, Files
<1>4. store' = [store EXCEPT ![<<e, s>>] = Append(@, new)]
  BY DEF ReplaceAttributes, LogStore, NewStore
<1>5. Goes(m, "replace", "syncAttributes")
  BY StepGoes DEF ReplaceAttributes
<1> HIDE DEF e, s, new
<1>6. /\ Last(store'[<<e, s>>]) = new
      /\ RangeOf(store'[<<e, s>>]) = RangeOf(store[<<e, s>>]) \cup {new}
      /\ \A i, j \in Ids : i # e \/ j # s => store'[<<i, j>>] = store[<<i, j>>]
  <2> DEFINE p == <<e, s>>
  <2>1. p \in Ids \X Ids /\ store' = [store EXCEPT ![p] = Append(@, new)]
    BY <1>1, <1>4 DEF e, s
  <2>2. \A i, j \in Ids : i # e \/ j # s => <<i, j>> \in (Ids \X Ids) \ {p}
    OBVIOUS
  <2> HIDE DEF p
  <2>3. /\ Last(store'[p]) = new /\ RangeOf(store'[p]) = RangeOf(store[p]) \cup {new}
        /\ \A q \in (Ids \X Ids) \ {p} : store'[q] = store[q]
    BY <1>3, <2>1, FilesLogged
  <2> QED BY <2>2, <2>3 DEF p
<1> QED BY <1>3, <1>5, <1>6 DEF ReplaceAttributes, NewStore, e, s

(* The fsync of the store.                                                 *)
LEMMA SyncAttributesDoes ==
  ASSUME TypeOK, Jobs, NEW m \in Models, SyncAttributes(m)
  PROVE  /\ Ends(m, "syncAttributes")
         /\ Last(store'[NewStore(m)]) = Last(store[NewStore(m)])
         /\ RangeOf(store'[NewStore(m)]) = {Last(store[NewStore(m)])}
         /\ \A i, s \in Ids : i # job[m].entry \/ s # job[m].store
                                => store'[<<i, s>>] = store[<<i, s>>]
         /\ UNCHANGED <<root, entry>>
<1>1. job[m].entry \in Ids /\ job[m].store \in Ids
  BY DEF Jobs, SyncAttributes, Step, AttributeSteps
<1>2. store' = [store EXCEPT ![<<job[m].entry, job[m].store>>] = Synced(@)]
  BY DEF SyncAttributes, NewStore
<1>3. Ends(m, "syncAttributes")
  BY StepEnds DEF SyncAttributes
<1> QED BY <1>1, <1>2, <1>3, StoreSynced DEF SyncAttributes, NewStore

(* The death of a runner.                                                  *)
LEMMA DieDoes ==
  ASSUME TypeOK, NEW m \in Models, Die(m)
  PROVE  /\ pc[m] # "idle" /\ pc'[m] = "idle" /\ Others(m)
         /\ deaths \in Nat /\ failures \in Nat /\ deaths' = deaths + 1
         /\ cut' = (cut \cup {m, job[m].dest}) \ {None}
         /\ job'[m].dest = None /\ job'[m].entry = None /\ job'[m].store = None
         /\ job'[m].old = None
         /\ UNCHANGED <<root, entry, store, ops, failures>>
<1>1. pc' = [pc EXCEPT ![m] = "idle"] /\ job' = [job EXCEPT ![m] = NoJob]
  BY DEF Die, Return, Goto
<1>2. pc'[m] = "idle" /\ job'[m] = NoJob /\ Others(m) /\ deaths \in Nat /\ failures \in Nat
  BY <1>1, StoreAssumption DEF TypeOK, Others
<1> QED BY <1>2 DEF Die, NoJob, fileVars

-----------------------------------------------------------------------------
(* The names of entries and stores.                                        *)

(* Every step keeps the names to the operations that have started.         *)
LEMMA StepNames ==
  ASSUME TypeOK, Jobs, Names, EntriesWhole, SaveOrder, [Next]_vars
  PROVE  Names'
<1> DEFINE Named(dir) == dir.stores \subseteq 1 .. ops /\ dir.link \in 1 .. ops \cup {None}
           Named1(dir) == dir.stores \subseteq 1 .. ops' /\ dir.link \in 1 .. ops' \cup {None}
           Roots1 == \A m \in Models : RangeOf(root'[m]) \subseteq 1 .. ops' \cup {None}
           Jobs1 == \A m \in Models : /\ job'[m].entry \in 1 .. ops' \cup {None}
                                      /\ job'[m].store \in 1 .. ops' \cup {None}
           Entry1(e) == /\ e > ops' => entry'[e] = <<EmptyEntry>>
                        /\ \A dir \in RangeOf(entry'[e]) : Named1(dir)
           Entries1 == \A e \in Ids : Entry1(e)
<1> SUFFICES Roots1 /\ Jobs1 /\ Entries1
  BY DEF Names
<1>0. ops \in Nat /\ \A e \in Ids : e \in Nat
  BY StoreAssumption DEF TypeOK, Ids
<1>1. \A m \in Models : /\ RangeOf(root[m]) \subseteq 1 .. ops \cup {None}
                        /\ job[m].entry \in 1 .. ops \cup {None}
                        /\ job[m].store \in 1 .. ops \cup {None}
                        /\ EntryOf(m) # None => EntryOf(m) \in 1 .. ops
  BY FileLogs DEF Names, EntryOf
<1>2. \A e \in Ids : /\ e > ops => entry[e] = <<EmptyEntry>>
                     /\ \A dir \in RangeOf(entry[e]) : Named(dir)
                     /\ Named(DirOf(e))
  BY FileLogs DEF Names, DirOf
<1>b. ASSUME NEW m \in Models, NEW label, NEW d, NEW e \in 1 .. ops + 1 \cup {None},
             NEW s \in 1 .. ops + 1 \cup {None}, Begins(m, label, d, e, s)
      PROVE  /\ Jobs1 /\ ops' = ops + 1 /\ ops + 1 \in Ids
             /\ root' = root => Roots1
             /\ entry' = entry => Entries1
  BY <1>0, <1>1, <1>2, <1>b DEF Begins, Others
<1>g. ASSUME NEW m \in Models, Others(m), UNCHANGED ops,
             \/ job'[m].entry = None /\ job'[m].store = None
             \/ job'[m].entry = job[m].entry /\ job'[m].store = job[m].store
      PROVE  /\ Jobs1
             /\ root' = root => Roots1
             /\ entry' = entry => Entries1
  BY <1>1, <1>2, <1>g DEF Others
<1>e. ASSUME NEW e \in Ids, e \in 1 .. ops, UNCHANGED ops, \A i \in Ids \ {e} : entry'[i] = entry[i],
             \A dir \in RangeOf(entry'[e]) : Named(dir)
      PROVE  Entries1
  BY <1>0, <1>2, <1>e
<1>w. ASSUME NEW m \in Models, pc[m] \in SaveSteps
      PROVE  job[m].entry \in Ids /\ job[m].entry \in 1 .. ops /\ job[m].store \in 1 .. ops
             /\ DirOf(job[m].entry) \in RangeOf(entry[job[m].entry])
  <2>1. job[m].entry \in Ids /\ job[m].store \in Ids
        /\ DirOf(job[m].entry) \in RangeOf(entry[job[m].entry])
    BY <1>w, OwnEntry
  <2> QED BY <1>1, <2>1, StoreAssumption DEF Ids
<1>3. ASSUME NEW m \in Models, Define(m)
      PROVE  Roots1 /\ Jobs1 /\ Entries1
  <2>1. Begins(m, "publish", m, ops + 1, None) /\ UNCHANGED <<root, entry, store>>
    BY <1>3, DefineDoes
  <2>2. ops + 1 \in 1 .. ops + 1
    BY <1>0
  <2> QED BY <1>b, <2>1, <2>2
<1>4. ASSUME NEW m \in Models, NEW d \in Models, Clone(m, d)
      PROVE  Roots1 /\ Jobs1 /\ Entries1
  <2>1. Begins(m, "publish", d, ops + 1, None) /\ UNCHANGED root
    BY <1>4, CloneDoes
  <2>2. ops + 1 \in 1 .. ops + 1
    BY <1>0
  <2>3. Roots1 /\ Jobs1 /\ ops' = ops + 1 /\ ops + 1 \in Ids
    BY <1>b, <2>1, <2>2
  <2>4. /\ EntryOf(m) \in Ids /\ RangeOf(entry'[ops + 1]) = {DirOf(EntryOf(m))}
        /\ \A i \in Ids \ {ops + 1} : entry'[i] = entry[i]
    BY <1>4, Cloned
  <2>5. Entries1
    BY <1>0, <1>2, <2>3, <2>4
  <2> QED BY <2>3, <2>5
<1>5. ASSUME NEW m \in Models, Publish(m)
      PROVE  Roots1 /\ Jobs1 /\ Entries1
  <2>1. /\ job[m].entry \in Ids /\ job[m].dest \in Models /\ UNCHANGED <<entry, store>>
        /\ \/ /\ Goes(m, "publish", "syncRoot")
              /\ RangeOf(root'[job[m].dest]) = RangeOf(root[job[m].dest]) \cup {job[m].entry}
              /\ \A p \in Models \ {job[m].dest} : root'[p] = root[p]
           \/ Ends(m, "publish") /\ UNCHANGED root
    BY <1>5, PublishDoes
  <2>2. Jobs1 /\ Entries1
    BY <1>g, <2>1 DEF Goes, Ends
  <2>3. Roots1
    BY <1>1, <2>1 DEF Goes, Ends
  <2> QED BY <2>2, <2>3
<1>6. ASSUME NEW m \in Models, SyncRoot(m)
      PROVE  Roots1 /\ Jobs1 /\ Entries1
  <2>1. /\ Ends(m, "syncRoot") \/ Goes(m, "syncRoot", "destroy")
        /\ \A p \in Models : RangeOf(root'[p]) = {Last(root[p])}
        /\ UNCHANGED <<entry, store>>
    BY <1>6, SyncRootDoes
  <2>2. Jobs1 /\ Entries1
    BY <1>g, <2>1 DEF Goes, Ends
  <2>3. Roots1
    BY <1>1, <2>1, FileLogs DEF Goes, Ends
  <2> QED BY <2>2, <2>3
<1>7. ASSUME NEW m \in Models, Remove(m)
      PROVE  Roots1 /\ Jobs1 /\ Entries1
  <2>1. /\ EntryOf(m) # None /\ Begins(m, "syncRoot", None, EntryOf(m), None)
        /\ RangeOf(root'[m]) = RangeOf(root[m]) \cup {None}
        /\ \A p \in Models \ {m} : root'[p] = root[p]
        /\ UNCHANGED <<entry, store>>
    BY <1>7, RemoveDoes
  <2>2. EntryOf(m) \in 1 .. ops + 1
    BY <1>0, <1>1, <2>1
  <2>3. Jobs1 /\ Entries1 /\ ops' = ops + 1
    BY <1>b, <2>1, <2>2
  <2>4. Roots1
    BY <1>0, <1>1, <2>1, <2>3
  <2> QED BY <2>3, <2>4
<1>8. ASSUME NEW m \in Models, Destroy(m)
      PROVE  Roots1 /\ Jobs1 /\ Entries1
  <2>1. job[m].entry \in Ids /\ Ends(m, "destroy") /\ UNCHANGED root
    BY <1>8, DestroyDoes
  <2>2. /\ RangeOf(entry'[job[m].entry]) = RangeOf(entry[job[m].entry]) \cup {EmptyEntry}
        /\ \A i \in Ids \ {job[m].entry} : entry'[i] = entry[i]
    BY <1>8, <2>1, Destroyed
  <2>3. Roots1 /\ Jobs1
    BY <1>g, <2>1 DEF Ends
  <2>4. job[m].entry \in 1 .. ops
    BY <1>1, <2>1, StoreAssumption DEF Ids
  <2>5. \A dir \in RangeOf(entry'[job[m].entry]) : Named(dir)
    BY <1>2, <2>1, <2>2 DEF EmptyEntry
  <2>6. Entries1
    BY <1>e, <2>1, <2>2, <2>4, <2>5 DEF Ends
  <2> QED BY <2>3, <2>6
<1>9. ASSUME NEW m \in Models, Save(m)
      PROVE  Roots1 /\ Jobs1 /\ Entries1
  <2>1. /\ EntryOf(m) \in Ids /\ Begins(m, "syncStore", None, EntryOf(m), ops + 1)
        /\ UNCHANGED <<root, entry>>
    BY <1>9, SaveDoes
  <2>2. EntryOf(m) \in 1 .. ops + 1 /\ ops + 1 \in 1 .. ops + 1
    BY <1>0, <1>1, <2>1, StoreAssumption DEF Ids
  <2> QED BY <1>b, <2>1, <2>2
<1>10. ASSUME NEW m \in Models, SyncStore(m) \/ RemoveOld(m) \/ ReplaceAttributes(m) \/ SyncAttributes(m)
       PROVE  Roots1 /\ Jobs1 /\ Entries1
  <2>1. /\ \/ \E from, label : Goes(m, from, label)
           \/ \E from : Ends(m, from)
        /\ UNCHANGED <<root, entry>>
    BY <1>10, SyncStoreDoes, RemoveOldDoes, ReplaceAttributesDoes, SyncAttributesDoes
  <2> QED BY <1>g, <2>1 DEF Goes, Ends
<1>11. ASSUME NEW m \in Models, RenameStore(m)
       PROVE  Roots1 /\ Jobs1 /\ Entries1
  <2>1. Goes(m, "renameStore", "switchLink") /\ UNCHANGED root
    BY <1>11, RenameStoreDoes
  <2>2. PICK dir \in Dirs : /\ dir.link = DirOf(job[m].entry).link
                            /\ dir.stores = DirOf(job[m].entry).stores \cup {job[m].store}
                            /\ RangeOf(entry'[job[m].entry]) = RangeOf(entry[job[m].entry]) \cup {dir}
    BY <1>11, RenameStoreDoes
  <2>3. \A i \in Ids \ {job[m].entry} : entry'[i] = entry[i]
    BY <1>11, RenameStoreDoes
  <2>4. /\ job[m].entry \in Ids /\ job[m].entry \in 1 .. ops /\ job[m].store \in 1 .. ops
    BY <1>w, <2>1 DEF Goes, SaveSteps
  <2>5. \A d \in RangeOf(entry'[job[m].entry]) : Named(d)
    BY <1>2, <2>2, <2>4
  <2>6. Roots1 /\ Jobs1
    BY <1>g, <2>1 DEF Goes
  <2>7. Entries1
    BY <1>e, <2>1, <2>3, <2>4, <2>5 DEF Goes
  <2> QED BY <2>6, <2>7
<1>12. ASSUME NEW m \in Models, SwitchLink(m)
       PROVE  Roots1 /\ Jobs1 /\ Entries1
  <2>1. /\ pc[m] = "switchLink" /\ Others(m) /\ UNCHANGED ops /\ UNCHANGED root
        /\ job'[m].entry = job[m].entry /\ job'[m].store = job[m].store
    BY <1>12, SwitchLinkDoes
  <2>2. PICK dir \in Dirs : /\ dir.link = job[m].store
                            /\ dir.stores = DirOf(job[m].entry).stores
                            /\ RangeOf(entry'[job[m].entry]) = RangeOf(entry[job[m].entry]) \cup {dir}
    BY <1>12, SwitchLinkDoes
  <2>3. \A i \in Ids \ {job[m].entry} : entry'[i] = entry[i]
    BY <1>12, SwitchLinkDoes
  <2>4. /\ job[m].entry \in Ids /\ job[m].entry \in 1 .. ops /\ job[m].store \in 1 .. ops
    BY <1>w, <2>1 DEF SaveSteps
  <2>5. \A d \in RangeOf(entry'[job[m].entry]) : Named(d)
    BY <1>2, <2>2, <2>4
  <2>6. Roots1 /\ Jobs1
    BY <1>g, <2>1
  <2>7. Entries1
    BY <1>e, <2>1, <2>3, <2>4, <2>5
  <2> QED BY <2>6, <2>7
<1>13. ASSUME NEW m \in Models, SyncEntry(m)
       PROVE  Roots1 /\ Jobs1 /\ Entries1
  <2>1. /\ Ends(m, "syncEntry") \/ Goes(m, "syncEntry", "removeOld")
        /\ RangeOf(entry'[job[m].entry]) = {DirOf(job[m].entry)}
        /\ \A i \in Ids \ {job[m].entry} : entry'[i] = entry[i]
        /\ UNCHANGED root
    BY <1>13, SyncEntryDoes
  <2>2. /\ job[m].entry \in Ids /\ job[m].entry \in 1 .. ops
    BY <1>w, <2>1 DEF Goes, Ends, SaveSteps
  <2>3. \A d \in RangeOf(entry'[job[m].entry]) : Named(d)
    BY <1>2, <2>1, <2>2
  <2>4. Roots1 /\ Jobs1
    BY <1>g, <2>1 DEF Goes, Ends
  <2>5. Entries1
    BY <1>e, <2>1, <2>2, <2>3 DEF Goes, Ends
  <2> QED BY <2>4, <2>5
<1>14. ASSUME NEW m \in Models, UnlinkOld(m)
       PROVE  Roots1 /\ Jobs1 /\ Entries1
  <2>1. Ends(m, "unlinkOld") /\ UNCHANGED root
    BY <1>14, UnlinkOldDoes
  <2>2. PICK dir \in Dirs : /\ dir.link = DirOf(job[m].entry).link
                            /\ dir.stores = DirOf(job[m].entry).stores \ {job[m].old}
                            /\ RangeOf(entry'[job[m].entry]) = RangeOf(entry[job[m].entry]) \cup {dir}
    BY <1>14, UnlinkOldDoes
  <2>3. \A i \in Ids \ {job[m].entry} : entry'[i] = entry[i]
    BY <1>14, UnlinkOldDoes
  <2>4. /\ job[m].entry \in Ids /\ job[m].entry \in 1 .. ops
    BY <1>w, <2>1 DEF Ends, SaveSteps
  <2>5. \A d \in RangeOf(entry'[job[m].entry]) : Named(d)
    BY <1>2, <2>2, <2>4
  <2>6. Roots1 /\ Jobs1
    BY <1>g, <2>1 DEF Ends
  <2>7. Entries1
    BY <1>e, <2>1, <2>3, <2>4, <2>5 DEF Ends
  <2> QED BY <2>6, <2>7
<1>15. ASSUME NEW m \in Models, UpdateAttributes(m)
       PROVE  Roots1 /\ Jobs1 /\ Entries1
  <2>1. /\ EntryOf(m) \in Ids
        /\ Begins(m, "replace", None, EntryOf(m), DirOf(EntryOf(m)).link)
        /\ UNCHANGED <<root, entry, store>>
    BY <1>15, UpdateAttributesDoes
  <2>2. EntryOf(m) \in 1 .. ops + 1 /\ DirOf(EntryOf(m)).link \in 1 .. ops + 1 \cup {None}
    BY <1>0, <1>1, <1>2, <2>1, StoreAssumption DEF Ids
  <2> QED BY <1>b, <2>1, <2>2
<1>16. ASSUME NEW m \in Models, Die(m)
       PROVE  Roots1 /\ Jobs1 /\ Entries1
  <2>1. /\ Others(m) /\ UNCHANGED ops /\ UNCHANGED <<root, entry>>
        /\ job'[m].entry = None /\ job'[m].store = None
    BY <1>16, DieDoes
  <2> QED BY <1>g, <2>1
<1>17. CASE WriteBack
  <2>1. UNCHANGED <<job, ops>>
    BY <1>17 DEF WriteBack, boundVars
  <2>2. /\ \A m \in Models : RangeOf(root'[m]) \subseteq RangeOf(root[m])
        /\ \A e \in Ids : RangeOf(entry'[e]) \subseteq RangeOf(entry[e])
    BY <1>17, WrittenBack
  <2>3. \A e \in Ids : entry[e] = <<EmptyEntry>> => entry'[e] = <<EmptyEntry>>
    <3>1. Len(<<EmptyEntry>>) = 1
      OBVIOUS
    <3> QED BY <1>17, <3>1 DEF WriteBack, TypeOK
  <2> QED BY <1>1, <1>2, <2>1, <2>2, <2>3
<1>18. CASE MachineFails
  <2>1. UNCHANGED ops /\ \A m \in Models : job'[m] = NoJob
    BY <1>18 DEF MachineFails
  <2>2. /\ \A m \in Models : RangeOf(root'[m]) \subseteq RangeOf(root[m])
        /\ \A e \in Ids : RangeOf(entry'[e]) \subseteq RangeOf(entry[e])
    BY <1>18, Failed
  <2>3. \A e \in Ids : entry[e] = <<EmptyEntry>> => entry'[e] = <<EmptyEntry>>
    BY <1>18 DEF MachineFails
  <2> QED BY <1>1, <1>2, <2>1, <2>2, <2>3 DEF NoJob
<1>19. CASE UNCHANGED vars
  BY <1>1, <1>2, <1>19 DEF vars, fileVars, boundVars
<1> QED BY <1>3, <1>4, <1>5, <1>6, <1>7, <1>8, <1>9, <1>10, <1>11, <1>12, <1>13,
           <1>14, <1>15, <1>16, <1>17, <1>18, <1>19 DEF Next, Runner

-----------------------------------------------------------------------------
(* The owners of entries.                                                  *)

(* No two models have the same entry.                                      *)
LEMMA OneOwner ==
  ASSUME TypeOK, Owners, NEW m \in Models, NEW p \in Models, EntryOf(m) # None,
         EntryOf(m) \in RangeOf(root[p])
  PROVE  m = p
<1>1. EntryOf(m) \in RangeOf(root[m])
  BY FileLogs DEF EntryOf
<1> QED BY <1>1 DEF Owners

(* Every step keeps an entry with one model.                               *)
LEMMA StepOwners ==
  ASSUME TypeOK, Jobs, Names, Owners, EntriesWhole, SaveOrder, [Next]_vars
  PROVE  Owners'
<1> DEFINE Apart == \A m, d \in Models : m # d => RangeOf(root'[m]) \cap RangeOf(root'[d]) \subseteq {None}
           Unused(p) == /\ \A m \in Models : job'[p].entry \notin RangeOf(root'[m])
                        /\ \A q \in Models : q # p => job'[q].entry # job'[p].entry
           Unseen(p) == \A m \in Models : Last(root'[m]) # job'[p].entry
           Away(p) == \A m \in Models : job'[p].entry \notin RangeOf(root'[m])
           Owned(p) == /\ pc'[p] = "publish" => Unused(p)
                       /\ pc'[p] = "syncRoot" /\ job'[p].dest = None => Unseen(p)
                       /\ pc'[p] = "destroy" => Away(p)
<1> SUFFICES Apart /\ \A p \in Models : Owned(p)
  BY DEF Owners, EntryOf
<1>0. ops \in Nat /\ None \notin Ids /\ None \notin Models
  BY StoreAssumption DEF TypeOK, Ids
<1>1. /\ \A m, d \in Models : m # d => RangeOf(root[m]) \cap RangeOf(root[d]) \subseteq {None}
      /\ \A p \in Models :
           /\ pc[p] = "publish" =>
                /\ \A m \in Models : job[p].entry \notin RangeOf(root[m])
                /\ \A q \in Models : q # p => job[q].entry # job[p].entry
           /\ pc[p] = "syncRoot" /\ job[p].dest = None =>
                \A m \in Models : Last(root[m]) # job[p].entry
           /\ pc[p] = "destroy" => \A m \in Models : job[p].entry \notin RangeOf(root[m])
  BY DEF Owners, EntryOf
<1>2. \A m \in Models : EntryOf(m) = Last(root[m]) /\ Last(root[m]) \in RangeOf(root[m])
  BY FileLogs DEF EntryOf
<1>3. \A p \in Models : pc[p] # "idle" => job[p].entry \in Ids
  BY DEF Jobs
<1>4. /\ \A m \in Models : ops + 1 \notin RangeOf(root[m])
      /\ \A m \in Models : job[m].entry # ops + 1
  <2>1. ops + 1 \notin 1 .. ops
    BY <1>0
  <2>2. ops + 1 # None
    BY <1>0, StoreAssumption
  <2> QED BY <2>1, <2>2 DEF Names
<1>i. ASSUME NEW p \in Models, pc'[p] \notin {"publish", "syncRoot", "destroy"}
      PROVE  Owned(p)
  BY <1>i
<1>u. ASSUME UNCHANGED root
      PROVE  Apart
  BY <1>1, <1>u
<1>g. ASSUME UNCHANGED root, NEW m \in Models, Others(m), pc'[m] \notin {"publish", "syncRoot", "destroy"},
             job'[m].entry \in {None, job[m].entry, EntryOf(m)}
      PROVE  Apart /\ \A p \in Models : Owned(p)
  <2>1. Owned(m)
    BY <1>g
  <2>2. ASSUME NEW p \in Models, p # m
        PROVE  Owned(p)
    <3>1. pc'[p] = pc[p] /\ job'[p] = job[p]
      BY <1>g, <2>2 DEF Others
    <3>2. pc[p] = "publish" => /\ job[p].entry # None /\ job[p].entry # job[m].entry
                               /\ job[p].entry # EntryOf(m)
      BY <1>0, <1>1, <1>2, <1>3, <2>2
    <3>3. pc'[p] = "publish" => Unused(p)
      BY <1>1, <1>g, <3>1, <3>2 DEF Others
    <3> QED BY <1>1, <1>g, <3>1, <3>3
  <2> QED BY <1>u, <1>g, <2>1, <2>2
<1>5. ASSUME NEW m \in Models, NEW d, Begins(m, "publish", d, ops + 1, None), UNCHANGED root
      PROVE  Apart /\ \A p \in Models : Owned(p)
  <2>1. pc'[m] = "publish" /\ job'[m].entry = ops + 1 /\ Others(m)
    BY <1>5 DEF Begins
  <2>2. Owned(m)
    BY <1>4, <1>5, <2>1 DEF Others
  <2>3. ASSUME NEW p \in Models, p # m
        PROVE  Owned(p)
    <3>1. pc'[p] = pc[p] /\ job'[p] = job[p]
      BY <2>1, <2>3 DEF Others
    <3>2. pc'[p] = "publish" => Unused(p)
      BY <1>1, <1>4, <1>5, <2>1, <3>1 DEF Others
    <3> QED BY <1>1, <1>5, <3>1, <3>2
  <2> QED BY <1>u, <1>5, <2>2, <2>3
<1>6. ASSUME NEW m \in Models, Define(m)
      PROVE  Apart /\ \A p \in Models : Owned(p)
  BY <1>5, <1>6, DefineDoes
<1>7. ASSUME NEW m \in Models, NEW d \in Models, Clone(m, d)
      PROVE  Apart /\ \A p \in Models : Owned(p)
  BY <1>5, <1>7, CloneDoes
<1>8. ASSUME NEW m \in Models, Publish(m)
      PROVE  Apart /\ \A p \in Models : Owned(p)
  <2>1. /\ job[m].entry \in Ids /\ job[m].dest \in Models
        /\ \/ /\ Goes(m, "publish", "syncRoot")
              /\ Last(root'[job[m].dest]) = job[m].entry
              /\ RangeOf(root'[job[m].dest]) = RangeOf(root[job[m].dest]) \cup {job[m].entry}
              /\ \A p \in Models \ {job[m].dest} : root'[p] = root[p]
           \/ Ends(m, "publish") /\ UNCHANGED root
    BY <1>8, PublishDoes
  <2>2. CASE Ends(m, "publish") /\ UNCHANGED root
    BY <1>g, <2>2 DEF Ends
  <2>3. CASE /\ Goes(m, "publish", "syncRoot")
             /\ Last(root'[job[m].dest]) = job[m].entry
             /\ RangeOf(root'[job[m].dest]) = RangeOf(root[job[m].dest]) \cup {job[m].entry}
             /\ \A p \in Models \ {job[m].dest} : root'[p] = root[p]
    <3> DEFINE e == job[m].entry
               d == job[m].dest
    <3>1. /\ pc[m] = "publish" /\ pc'[m] = "syncRoot" /\ job'[m] = job[m] /\ Others(m)
      BY <2>3 DEF Goes
    <3>2. \A p \in Models : e \notin RangeOf(root[p])
      BY <1>1, <3>1
    <3>3. \A q \in Models \ {m} : job[q].entry # e
      BY <1>1, <3>1
    <3>4. d \in Models /\ d # None
      BY <1>0, <2>1
    <3> HIDE DEF e, d
    <3>5. /\ Last(root'[d]) = e /\ RangeOf(root'[d]) = RangeOf(root[d]) \cup {e}
          /\ \A p \in Models \ {d} : root'[p] = root[p]
      BY <2>3 DEF e, d
    <3>6. Apart
      <4>1. ASSUME NEW x \in Models, NEW y \in Models, x # y
            PROVE  RangeOf(root'[x]) \cap RangeOf(root'[y]) \subseteq {None}
        BY <1>1, <3>2, <3>4, <3>5, <4>1
      <4> QED BY <4>1
    <3>7. Owned(m)
      BY <3>1, <3>4 DEF d
    <3>8. ASSUME NEW p \in Models, p # m
          PROVE  Owned(p)
      <4>1. pc'[p] = pc[p] /\ job'[p] = job[p] /\ job[p].entry # e
        BY <3>1, <3>3, <3>8 DEF Others
      <4>2. \A q \in Models : job'[q].entry = job[q].entry
        BY <3>1 DEF Others
      <4>3. pc'[p] = "publish" => Unused(p)
        BY <1>1, <3>5, <4>1, <4>2
      <4>4. pc'[p] = "syncRoot" /\ job'[p].dest = None => Unseen(p)
        BY <1>1, <3>5, <4>1
      <4>5. pc'[p] = "destroy" => Away(p)
        BY <1>1, <3>5, <4>1
      <4> QED BY <4>3, <4>4, <4>5
    <3> QED BY <3>6, <3>7, <3>8
  <2> QED BY <2>1, <2>2, <2>3
<1>9. ASSUME NEW m \in Models, SyncRoot(m)
      PROVE  Apart /\ \A p \in Models : Owned(p)
  <2>1. /\ \/ Ends(m, "syncRoot")
           \/ job[m].dest = None /\ Goes(m, "syncRoot", "destroy")
        /\ \A p \in Models : Last(root'[p]) = Last(root[p]) /\ RangeOf(root'[p]) = {Last(root[p])}
    BY <1>9, SyncRootDoes
  <2>2. \A p \in Models : RangeOf(root'[p]) \subseteq RangeOf(root[p])
    BY <1>2, <2>1
  <2>3. Apart
    BY <1>1, <2>2
  <2>4. Owned(m)
    BY <1>1, <2>1 DEF Ends, Goes
  <2>5. \A q \in Models : job'[q].entry \in {None, job[q].entry}
    BY <2>1 DEF Ends, Goes, Others
  <2>6. ASSUME NEW p \in Models, p # m
        PROVE  Owned(p)
    <3>1. pc'[p] = pc[p] /\ job'[p] = job[p]
      BY <2>1, <2>6 DEF Ends, Goes, Others
    <3>2. CASE pc[p] = "publish"
      <4>1. /\ \A i \in Models : job[p].entry \notin RangeOf(root[i])
            /\ \A q \in Models : q # p => job[q].entry # job[p].entry
            /\ job[p].entry # None
        BY <1>0, <1>1, <1>3, <3>2
      <4>2. \A q \in Models : q # p => job'[q].entry # job'[p].entry
        BY <2>5, <3>1, <4>1
      <4>3. \A i \in Models : job'[p].entry \notin RangeOf(root'[i])
        BY <2>2, <3>1, <4>1
      <4> QED BY <3>1, <3>2, <4>2, <4>3
    <3>3. CASE pc[p] # "publish"
      BY <1>1, <2>1, <2>2, <3>1, <3>3
    <3> QED BY <3>2, <3>3
  <2> QED BY <2>3, <2>4, <2>6
<1>10. ASSUME NEW m \in Models, Remove(m)
       PROVE  Apart /\ \A p \in Models : Owned(p)
  <2>1. /\ EntryOf(m) # None /\ Begins(m, "syncRoot", None, EntryOf(m), None)
        /\ Last(root'[m]) = None /\ RangeOf(root'[m]) = RangeOf(root[m]) \cup {None}
        /\ \A p \in Models \ {m} : root'[p] = root[p]
    BY <1>10, RemoveDoes
  <2>2. Apart
    <3>1. ASSUME NEW x \in Models, NEW y \in Models, x # y
          PROVE  RangeOf(root'[x]) \cap RangeOf(root'[y]) \subseteq {None}
      BY <1>1, <2>1, <3>1
    <3> QED BY <3>1
  <2>3. Owned(m)
    <3>1. pc'[m] = "syncRoot" /\ job'[m].entry = EntryOf(m)
      BY <2>1 DEF Begins
    <3>2. \A p \in Models \ {m} : Last(root'[p]) # EntryOf(m)
      BY <1>1, <1>2, <2>1
    <3> QED BY <2>1, <3>1, <3>2
  <2>4. \A q \in Models : job'[q].entry \in {EntryOf(m), job[q].entry}
                          /\ (q # m => job'[q].entry = job[q].entry)
    BY <2>1 DEF Begins, Others
  <2>5. ASSUME NEW p \in Models, p # m
        PROVE  Owned(p)
    <3>1. pc'[p] = pc[p] /\ job'[p] = job[p]
      BY <2>1, <2>5 DEF Begins, Others
    <3>2. pc[p] \in {"publish", "syncRoot", "destroy"} => job[p].entry # None
      BY <1>0, <1>3
    <3>3. pc'[p] = "publish" => Unused(p)
      <4> SUFFICES ASSUME pc[p] = "publish" PROVE Unused(p)
        BY <3>1
      <4>1. job[p].entry # EntryOf(m) /\ job[p].entry # None
        BY <1>1, <1>2, <3>2
      <4>2. ASSUME NEW x \in Models
            PROVE  job'[p].entry \notin RangeOf(root'[x])
        BY <1>1, <2>1, <3>1, <4>1
      <4>3. ASSUME NEW q \in Models, q # p
            PROVE  job'[q].entry # job'[p].entry
        BY <1>1, <2>4, <3>1, <4>1, <4>3
      <4> QED BY <4>2, <4>3
    <3> QED BY <1>1, <2>1, <3>1, <3>2, <3>3
  <2> QED BY <2>2, <2>3, <2>5
<1>11. ASSUME NEW m \in Models,
              \/ Destroy(m) \/ SyncStore(m) \/ RenameStore(m) \/ SyncEntry(m)
              \/ RemoveOld(m) \/ UnlinkOld(m) \/ ReplaceAttributes(m) \/ SyncAttributes(m)
       PROVE  Apart /\ \A p \in Models : Owned(p)
  <2>1. /\ UNCHANGED root
        /\ \/ \E from, label : Goes(m, from, label) /\ label \notin {"publish", "syncRoot", "destroy"}
           \/ \E from : Ends(m, from)
    BY <1>11, DestroyDoes, SyncStoreDoes, RenameStoreDoes, SyncEntryDoes, RemoveOldDoes,
       UnlinkOldDoes, ReplaceAttributesDoes, SyncAttributesDoes
  <2> QED BY <1>g, <2>1 DEF Goes, Ends
<1>12. ASSUME NEW m \in Models, SwitchLink(m)
       PROVE  Apart /\ \A p \in Models : Owned(p)
  BY <1>g, <1>12, SwitchLinkDoes
<1>13. ASSUME NEW m \in Models, Save(m)
       PROVE  Apart /\ \A p \in Models : Owned(p)
  <2>1. Begins(m, "syncStore", None, EntryOf(m), ops + 1) /\ UNCHANGED root
    BY <1>13, SaveDoes
  <2> QED BY <1>g, <2>1 DEF Begins
<1>14. ASSUME NEW m \in Models, UpdateAttributes(m)
       PROVE  Apart /\ \A p \in Models : Owned(p)
  <2>1. Begins(m, "replace", None, EntryOf(m), DirOf(EntryOf(m)).link) /\ UNCHANGED root
    BY <1>14, UpdateAttributesDoes
  <2> QED BY <1>g, <2>1 DEF Begins
<1>15. ASSUME NEW m \in Models, Die(m)
       PROVE  Apart /\ \A p \in Models : Owned(p)
  BY <1>g, <1>15, DieDoes
<1>16. CASE WriteBack
  <2>1. UNCHANGED <<pc, job>>
    BY <1>16 DEF WriteBack
  <2>2. \A m \in Models : /\ Last(root'[m]) = Last(root[m])
                          /\ RangeOf(root'[m]) \subseteq RangeOf(root[m])
    BY <1>16, WrittenBack
  <2>3. Apart
    BY <1>1, <2>2
  <2>4. \A p \in Models : Owned(p)
    BY <1>1, <2>1, <2>2
  <2> QED BY <2>3, <2>4
<1>17. CASE MachineFails
  <2>1. \A p \in Models : pc'[p] = "idle"
    BY <1>17 DEF MachineFails
  <2>2. \A m \in Models : RangeOf(root'[m]) \subseteq RangeOf(root[m])
    BY <1>17, Failed
  <2>3. Apart
    BY <1>1, <2>2
  <2> QED BY <1>i, <2>1, <2>3
<1>18. CASE UNCHANGED vars
  BY <1>1, <1>18 DEF vars, fileVars
<1> QED BY <1>6, <1>7, <1>8, <1>9, <1>10, <1>11, <1>12, <1>13,
           <1>14, <1>15, <1>16, <1>17, <1>18 DEF Next, Runner

-----------------------------------------------------------------------------
(* The link and the store it names.                                        *)

(* An entry comes into use when an operation starts that creates it.       *)
LEMMA StepInUse ==
  ASSUME TypeOK, Jobs, EntriesWhole, SaveOrder, [Next]_vars
  PROVE  \A e \in Ids : InUse(e)' => InUse(e) \/ (e = ops + 1 /\ ops' = ops + 1)
<1> DEFINE InUse1(e) == \E m \in Models : \/ e \in RangeOf(root'[m])
                                          \/ pc'[m] = "publish" /\ job'[m].entry = e
           Goal == \A e \in Ids : InUse1(e) => InUse(e) \/ (e = ops + 1 /\ ops' = ops + 1)
<1> SUFFICES Goal
  BY DEF InUse
<1>0. None \notin Ids
  BY StoreAssumption DEF Ids
<1>1. \A m \in Models : Last(root[m]) \in RangeOf(root[m])
  BY FileLogs
<1>b. ASSUME NEW m \in Models, NEW label, NEW d, NEW e, NEW s, Begins(m, label, d, e, s),
             label # "publish" \/ e = ops + 1,
             \A p \in Models : RangeOf(root'[p]) \subseteq RangeOf(root[p]) \cup {None}
      PROVE  Goal
  BY <1>0, <1>b DEF Begins, Others, InUse
<1>g. ASSUME NEW m \in Models, Others(m), pc'[m] # "publish",
             \A p \in Models : RangeOf(root'[p]) \subseteq RangeOf(root[p])
      PROVE  Goal
  BY <1>g DEF Others, InUse
<1>2. ASSUME NEW m \in Models, Define(m) PROVE Goal
  BY <1>b, <1>2, DefineDoes
<1>3. ASSUME NEW m \in Models, NEW d \in Models, Clone(m, d) PROVE Goal
  BY <1>b, <1>3, CloneDoes
<1>4. ASSUME NEW m \in Models, Publish(m) PROVE Goal
  <2>1. \/ /\ Goes(m, "publish", "syncRoot") /\ job[m].dest \in Models
           /\ RangeOf(root'[job[m].dest]) = RangeOf(root[job[m].dest]) \cup {job[m].entry}
           /\ \A p \in Models \ {job[m].dest} : root'[p] = root[p]
        \/ Ends(m, "publish") /\ UNCHANGED root
    BY <1>4, PublishDoes
  <2> QED BY <1>g, <2>1 DEF Goes, Ends, Others, InUse
<1>5. ASSUME NEW m \in Models, SyncRoot(m) PROVE Goal
  <2>1. /\ Ends(m, "syncRoot") \/ Goes(m, "syncRoot", "destroy")
        /\ \A p \in Models : RangeOf(root'[p]) = {Last(root[p])}
    BY <1>5, SyncRootDoes
  <2> QED BY <1>1, <1>g, <2>1 DEF Goes, Ends
<1>6. ASSUME NEW m \in Models, Remove(m) PROVE Goal
  <2>1. /\ Begins(m, "syncRoot", None, EntryOf(m), None)
        /\ RangeOf(root'[m]) = RangeOf(root[m]) \cup {None}
        /\ \A p \in Models \ {m} : root'[p] = root[p]
    BY <1>6, RemoveDoes
  <2> QED BY <1>b, <2>1
<1>7. ASSUME NEW m \in Models,
             \/ Destroy(m) \/ SyncStore(m) \/ RenameStore(m) \/ SwitchLink(m) \/ SyncEntry(m)
             \/ RemoveOld(m) \/ UnlinkOld(m) \/ ReplaceAttributes(m) \/ SyncAttributes(m)
      PROVE  Goal
  <2>1. Others(m) /\ pc'[m] # "publish" /\ UNCHANGED root
    BY <1>7, DestroyDoes, SyncStoreDoes, RenameStoreDoes, SwitchLinkDoes, SyncEntryDoes,
       RemoveOldDoes, UnlinkOldDoes, ReplaceAttributesDoes, SyncAttributesDoes DEF Goes, Ends
  <2> QED BY <1>g, <2>1
<1>8. ASSUME NEW m \in Models, Save(m) PROVE Goal
  <2>1. Begins(m, "syncStore", None, EntryOf(m), ops + 1) /\ UNCHANGED root
    BY <1>8, SaveDoes
  <2> QED BY <1>b, <2>1
<1>9. ASSUME NEW m \in Models, UpdateAttributes(m) PROVE Goal
  <2>1. Begins(m, "replace", None, EntryOf(m), DirOf(EntryOf(m)).link) /\ UNCHANGED root
    BY <1>9, UpdateAttributesDoes
  <2> QED BY <1>b, <2>1
<1>10. ASSUME NEW m \in Models, Die(m) PROVE Goal
  <2>1. Others(m) /\ pc'[m] = "idle" /\ UNCHANGED root
    BY <1>10, DieDoes
  <2> QED BY <1>g, <2>1
<1>11. CASE WriteBack
  <2>1. UNCHANGED <<pc, job>> /\ \A m \in Models : RangeOf(root'[m]) \subseteq RangeOf(root[m])
    BY <1>11, WrittenBack DEF WriteBack
  <2> QED BY <2>1 DEF InUse
<1>12. CASE MachineFails
  <2>1. /\ \A m \in Models : pc'[m] = "idle"
        /\ \A m \in Models : RangeOf(root'[m]) \subseteq RangeOf(root[m])
    BY <1>12, Failed DEF MachineFails
  <2> QED BY <2>1 DEF InUse
<1>13. CASE UNCHANGED vars
  BY <1>13 DEF vars, fileVars, InUse
<1> QED BY <1>2, <1>3, <1>4, <1>5, <1>6, <1>7, <1>8, <1>9, <1>10, <1>11, <1>12, <1>13
        DEF Next, Runner

(* A runner changes the entry of its own model, or one that is in use no   *)
(* more.                                                                   *)
LEMMA OwnChange ==
  ASSUME TypeOK, Jobs, Owners, NEW m \in Models
  PROVE  /\ pc[m] \in SaveSteps \cup AttributeSteps =>
              \A p \in Models : p # m => job[m].entry \notin RangeOf(root[p])
         /\ pc[m] = "destroy" => ~InUse(job[m].entry)
<1>1. CASE pc[m] \in SaveSteps \cup AttributeSteps
  <2>1. job[m].entry \in Ids /\ job[m].entry = EntryOf(m)
    BY <1>1, OwnEntry
  <2>2. EntryOf(m) # None
    BY <2>1, StoreAssumption DEF Ids
  <2>3. \A p \in Models : p # m => job[m].entry \notin RangeOf(root[p])
    BY <2>1, <2>2, OneOwner
  <2> QED BY <1>1, <2>3 DEF SaveSteps, AttributeSteps
<1>2. CASE pc[m] = "destroy"
  <2>1. \A p \in Models : job[m].entry \notin RangeOf(root[p])
    BY <1>2 DEF Owners
  <2>2. \A p \in Models : pc[p] = "publish" => job[p].entry # job[m].entry
    BY <1>2 DEF Owners
  <2> QED BY <1>2, <2>1, <2>2 DEF InUse, SaveSteps, AttributeSteps
<1> QED BY <1>1, <1>2

(* Every step keeps the links on whole stores.                             *)
LEMMA StepEntriesWhole ==
  ASSUME TypeOK, Jobs, Names, Owners, EntriesWhole, SaveOrder, [Next]_vars
  PROVE  EntriesWhole'
<1> DEFINE Whole1(e) == \A dir \in RangeOf(entry'[e]) :
                          dir.link # None => /\ dir.link \in dir.stores
                                             /\ Torn \notin RangeOf(store'[<<e, dir.link>>])
           Fresh(e) == e = ops + 1 /\ ops' = ops + 1
           Goal == \A e \in Ids : InUse(e) \/ Fresh(e) => Whole1(e)
<1> SUFFICES Goal
  BY StepInUse DEF EntriesWhole, Whole
<1>0. ops \in Nat /\ None \notin Ids
  BY StoreAssumption DEF TypeOK, Ids
<1>1. \A e \in Ids : InUse(e) => \A dir \in RangeOf(entry[e]) :
        dir.link # None => dir.link \in dir.stores /\ Torn \notin RangeOf(store[<<e, dir.link>>])
  BY DEF EntriesWhole, Whole
<1>2. \A e \in Ids : \A dir \in RangeOf(entry[e]) :
        /\ dir.link # None => dir.link \in Ids
        /\ dir.link # ops + 1
  <2>1. ops + 1 \notin 1 .. ops /\ ops + 1 # None
    BY <1>0, StoreAssumption
  <2> QED BY <2>1, FileLogs DEF Dirs, Names
<1>3. \A e \in Ids : e = ops + 1 => RangeOf(entry[e]) = {EmptyEntry}
  <2>1. EmptyEntry \in Dirs
    BY DEF EmptyEntry, Dirs
  <2>2. RangeOf(<<EmptyEntry>>) = {EmptyEntry}
    BY <2>1, LogOfOne
  <2> QED BY <1>0, <2>2 DEF Names
<1>4. EmptyEntry.link = None
  BY DEF EmptyEntry
<1>k. ASSUME NEW e \in Ids, entry'[e] = entry[e], InUse(e) \/ Fresh(e),
             \A s \in Ids : s # ops + 1 => RangeOf(store'[<<e, s>>]) \subseteq RangeOf(store[<<e, s>>])
      PROVE  Whole1(e)
  BY <1>1, <1>2, <1>3, <1>4, <1>k
<1>u. ASSUME UNCHANGED <<entry, store>>
      PROVE  Goal
  BY <1>k, <1>u
<1>w. ASSUME NEW m \in Models, pc[m] \in SaveSteps \cup AttributeSteps
      PROVE  /\ job[m].entry \in Ids /\ job[m].store \in Ids /\ InUse(job[m].entry)
             /\ DirOf(job[m].entry) \in RangeOf(entry[job[m].entry])
             /\ job[m].store # None
  BY <1>0, <1>w, OwnEntry
<1>c. \A m \in Models : LET e == job[m].entry IN
        /\ pc[m] \in {"renameStore", "switchLink"} =>
             RangeOf(store[NewStore(m)]) = {Last(store[NewStore(m)])} /\ Last(store[NewStore(m)]) \in Contents
        /\ pc[m] = "switchLink" => job[m].store \in DirOf(e).stores
        /\ pc[m] \in {"removeOld", "unlinkOld"} =>
             /\ \A dir \in RangeOf(entry[e]) : dir.link = job[m].store
             /\ job[m].old # job[m].store
  <2>1. \A m \in Models : pc[m] \in {"removeOld", "unlinkOld"} => job[m].old # None
    BY <1>0 DEF Jobs
  <2> QED BY <2>1 DEF SaveOrder
<1>e. ASSUME NEW e \in Ids, \A i \in Ids \ {e} : entry'[i] = entry[i], UNCHANGED <<store, ops>>, Whole1(e)
      PROVE  Goal
  BY <1>k, <1>e
<1>s. ASSUME NEW e \in Ids, UNCHANGED <<entry, ops>>, Whole1(e),
             \A i \in Ids \ {e}, s \in Ids : store'[<<i, s>>] = store[<<i, s>>]
      PROVE  Goal
  BY <1>k, <1>s
<1>5. ASSUME NEW m \in Models, Define(m) PROVE Goal
  BY <1>5, <1>u, DefineDoes
<1>6. ASSUME NEW m \in Models, NEW d \in Models, Clone(m, d) PROVE Goal
  <2> DEFINE e == EntryOf(m)
  <2>1. /\ ops + 1 \in Ids /\ e \in Ids /\ DirOf(e) \in Dirs
        /\ RangeOf(entry'[ops + 1]) = {DirOf(e)}
        /\ \A i \in Ids \ {ops + 1} : entry'[i] = entry[i]
        /\ \A s \in DirOf(e).stores :
             RangeOf(store'[<<ops + 1, s>>]) = {Last(store[<<e, s>>])}
        /\ \A i \in Ids \ {ops + 1}, s \in Ids : store'[<<i, s>>] = store[<<i, s>>]
    BY <1>6, Cloned
  <2>2. InUse(e) /\ DirOf(e) \in RangeOf(entry[e])
    BY <2>1, FileLogs DEF InUse, EntryOf, DirOf
  <2>3. ASSUME DirOf(e).link # None
        PROVE  /\ DirOf(e).link \in DirOf(e).stores /\ DirOf(e).link \in Ids
               /\ Torn \notin RangeOf(store[<<e, DirOf(e).link>>])
    BY <1>1, <1>2, <2>1, <2>2, <2>3
  <2>4. ASSUME DirOf(e).link # None
        PROVE  Last(store[<<e, DirOf(e).link>>]) # Torn
    <3>1. <<e, DirOf(e).link>> \in Ids \X Ids
      BY <2>1, <2>3, <2>4
    <3> QED BY <2>3, <2>4, <3>1, FileLogs
  <2>5. Whole1(ops + 1)
    BY <2>1, <2>3, <2>4
  <2> HIDE DEF e
  <2>6. ASSUME NEW i \in Ids, i # ops + 1, InUse(i)
        PROVE  Whole1(i)
    BY <1>k, <2>1, <2>6
  <2> QED BY <2>5, <2>6
<1>7. ASSUME NEW m \in Models, Publish(m) PROVE Goal
  BY <1>7, <1>u, PublishDoes
<1>8. ASSUME NEW m \in Models, SyncRoot(m) PROVE Goal
  BY <1>8, <1>u, SyncRootDoes
<1>9. ASSUME NEW m \in Models, Remove(m) PROVE Goal
  BY <1>9, <1>u, RemoveDoes
<1>10. ASSUME NEW m \in Models, Destroy(m) PROVE Goal
  <2>1. job[m].entry \in Ids /\ Ends(m, "destroy") /\ ~InUse(job[m].entry)
    BY <1>10, DestroyDoes, OwnChange DEF Ends
  <2>2. /\ \A i \in Ids \ {job[m].entry} : entry'[i] = entry[i]
        /\ \A i \in Ids \ {job[m].entry}, s \in Ids : store'[<<i, s>>] = store[<<i, s>>]
    BY <1>10, <2>1, Destroyed
  <2>3. UNCHANGED ops /\ ops # ops + 1
    BY <1>0, <2>1 DEF Ends
  <2> QED BY <1>k, <2>1, <2>2, <2>3
<1>11. ASSUME NEW m \in Models, Save(m) PROVE Goal
  <2>1. /\ \A i, s \in Ids : i # EntryOf(m) \/ s # ops + 1 => store'[<<i, s>>] = store[<<i, s>>]
        /\ UNCHANGED entry
    BY <1>11, SaveDoes
  <2> QED BY <1>k, <2>1
<1>12. ASSUME NEW m \in Models, SyncStore(m) \/ SyncAttributes(m) PROVE Goal
  <2>1. pc[m] \in SaveSteps \cup AttributeSteps /\ UNCHANGED entry
    BY <1>12, SyncStoreDoes, SyncAttributesDoes DEF Goes, Ends, SaveSteps, AttributeSteps
  <2>2. job[m].entry \in Ids /\ job[m].store \in Ids
    BY <1>w, <2>1
  <2>3. /\ RangeOf(store'[<<job[m].entry, job[m].store>>]) = {Last(store[<<job[m].entry, job[m].store>>])}
        /\ \A i, s \in Ids : i # job[m].entry \/ s # job[m].store
                               => store'[<<i, s>>] = store[<<i, s>>]
    BY <1>12, SyncStoreDoes, SyncAttributesDoes DEF NewStore
  <2>4. Last(store[<<job[m].entry, job[m].store>>]) \in RangeOf(store[<<job[m].entry, job[m].store>>])
    <3>1. <<job[m].entry, job[m].store>> \in Ids \X Ids
      BY <2>2
    <3> QED BY <3>1, FileLogs
  <2>5. \A i, s \in Ids : RangeOf(store'[<<i, s>>]) \subseteq RangeOf(store[<<i, s>>])
    BY <2>3, <2>4
  <2> QED BY <1>k, <2>1, <2>5
<1>13. ASSUME NEW m \in Models, RenameStore(m) PROVE Goal
  <2>1. /\ Goes(m, "renameStore", "switchLink") /\ UNCHANGED store
        /\ \A i \in Ids \ {job[m].entry} : entry'[i] = entry[i]
    BY <1>13, RenameStoreDoes
  <2>2. PICK dir \in Dirs : /\ dir.link = DirOf(job[m].entry).link
                            /\ dir.stores = DirOf(job[m].entry).stores \cup {job[m].store}
                            /\ RangeOf(entry'[job[m].entry]) = RangeOf(entry[job[m].entry]) \cup {dir}
    BY <1>13, RenameStoreDoes
  <2>3. /\ job[m].entry \in Ids /\ InUse(job[m].entry)
        /\ DirOf(job[m].entry) \in RangeOf(entry[job[m].entry])
    BY <1>w, <2>1 DEF Goes, SaveSteps
  <2>4. Whole1(job[m].entry)
    BY <1>1, <2>1, <2>2, <2>3
  <2> QED BY <1>e, <2>1, <2>3, <2>4 DEF Goes
<1>14. ASSUME NEW m \in Models, SwitchLink(m) PROVE Goal
  <2>1. /\ pc[m] = "switchLink" /\ UNCHANGED <<store, ops>>
        /\ \A i \in Ids \ {job[m].entry} : entry'[i] = entry[i]
    BY <1>14, SwitchLinkDoes
  <2>2. PICK dir \in Dirs : /\ dir.link = job[m].store
                            /\ dir.stores = DirOf(job[m].entry).stores
                            /\ RangeOf(entry'[job[m].entry]) = RangeOf(entry[job[m].entry]) \cup {dir}
    BY <1>14, SwitchLinkDoes
  <2>3. job[m].entry \in Ids /\ InUse(job[m].entry)
    BY <1>w, <2>1 DEF SaveSteps
  <2>4. /\ job[m].store \in DirOf(job[m].entry).stores
        /\ Torn \notin RangeOf(store[<<job[m].entry, job[m].store>>])
    BY <1>c, <2>1, ReadAssumption DEF NewStore
  <2>5. Whole1(job[m].entry)
    BY <1>1, <2>1, <2>2, <2>3, <2>4
  <2> QED BY <1>e, <2>1, <2>3, <2>5
<1>15. ASSUME NEW m \in Models, SyncEntry(m) PROVE Goal
  <2>1. /\ Ends(m, "syncEntry") \/ Goes(m, "syncEntry", "removeOld")
        /\ RangeOf(entry'[job[m].entry]) = {DirOf(job[m].entry)}
        /\ \A i \in Ids \ {job[m].entry} : entry'[i] = entry[i]
        /\ UNCHANGED store
    BY <1>15, SyncEntryDoes
  <2>2. /\ job[m].entry \in Ids /\ InUse(job[m].entry)
        /\ DirOf(job[m].entry) \in RangeOf(entry[job[m].entry])
    BY <1>w, <2>1 DEF Goes, Ends, SaveSteps
  <2>3. Whole1(job[m].entry)
    BY <1>1, <2>1, <2>2
  <2> QED BY <1>e, <2>1, <2>2, <2>3 DEF Goes, Ends
<1>16. ASSUME NEW m \in Models, RemoveOld(m) PROVE Goal
  <2>1. /\ Goes(m, "removeOld", "unlinkOld") /\ UNCHANGED entry
        /\ \A i, s \in Ids : i # job[m].entry \/ s # job[m].old => store'[<<i, s>>] = store[<<i, s>>]
    BY <1>16, RemoveOldDoes
  <2>2. /\ job[m].entry \in Ids /\ InUse(job[m].entry) /\ job[m].store \in Ids
    BY <1>w, <2>1 DEF Goes, SaveSteps
  <2>3. /\ \A dir \in RangeOf(entry[job[m].entry]) : dir.link = job[m].store
        /\ job[m].old # job[m].store
    BY <1>c, <2>1 DEF Goes
  <2>4. Whole1(job[m].entry)
    BY <1>1, <2>1, <2>2, <2>3
  <2> QED BY <1>s, <2>1, <2>2, <2>4 DEF Goes
<1>17. ASSUME NEW m \in Models, UnlinkOld(m) PROVE Goal
  <2>1. /\ Ends(m, "unlinkOld") /\ UNCHANGED store
        /\ \A i \in Ids \ {job[m].entry} : entry'[i] = entry[i]
    BY <1>17, UnlinkOldDoes
  <2>2. PICK dir \in Dirs : /\ dir.link = DirOf(job[m].entry).link
                            /\ dir.stores = DirOf(job[m].entry).stores \ {job[m].old}
                            /\ RangeOf(entry'[job[m].entry]) = RangeOf(entry[job[m].entry]) \cup {dir}
    BY <1>17, UnlinkOldDoes
  <2>3. /\ job[m].entry \in Ids /\ InUse(job[m].entry)
        /\ DirOf(job[m].entry) \in RangeOf(entry[job[m].entry])
    BY <1>w, <2>1 DEF Ends, SaveSteps
  <2>4. DirOf(job[m].entry).link # job[m].old
    BY <1>c, <2>1, <2>3 DEF Ends
  <2>5. Whole1(job[m].entry)
    BY <1>1, <2>1, <2>2, <2>3, <2>4
  <2> QED BY <1>e, <2>1, <2>3, <2>5 DEF Ends
<1>18. ASSUME NEW m \in Models, UpdateAttributes(m) PROVE Goal
  BY <1>18, <1>u, UpdateAttributesDoes
<1>19. ASSUME NEW m \in Models, ReplaceAttributes(m) PROVE Goal
  <2>1. /\ Goes(m, "replace", "syncAttributes") /\ UNCHANGED entry
        /\ \A i, s \in Ids : i # job[m].entry \/ s # job[m].store
                               => store'[<<i, s>>] = store[<<i, s>>]
    BY <1>19, ReplaceAttributesDoes
  <2>2. PICK new \in Contents :
          RangeOf(store'[<<job[m].entry, job[m].store>>])
            = RangeOf(store[<<job[m].entry, job[m].store>>]) \cup {new}
    BY <1>19, ReplaceAttributesDoes DEF NewStore
  <2>3. /\ job[m].entry \in Ids /\ InUse(job[m].entry) /\ job[m].store \in Ids
    BY <1>w, <2>1 DEF Goes, AttributeSteps
  <2>4. Whole1(job[m].entry)
    BY <1>1, <1>2, <2>1, <2>2, <2>3, ReadAssumption
  <2> QED BY <1>s, <2>1, <2>3, <2>4 DEF Goes
<1>20. ASSUME NEW m \in Models, Die(m) PROVE Goal
  BY <1>20, <1>u, DieDoes
<1>21. CASE WriteBack \/ MachineFails
  <2>1. UNCHANGED ops /\ ops # ops + 1
    BY <1>0, <1>21 DEF WriteBack, MachineFails, boundVars
  <2>2. /\ \A e \in Ids : RangeOf(entry'[e]) \subseteq RangeOf(entry[e])
        /\ \A s \in Ids \X Ids : RangeOf(store'[s]) \subseteq RangeOf(store[s])
    BY <1>21, WrittenBack, Failed
  <2>3. \A i, s \in Ids : RangeOf(store'[<<i, s>>]) \subseteq RangeOf(store[<<i, s>>])
    BY <2>2
  <2> QED BY <1>1, <1>2, <2>1, <2>2, <2>3
<1>22. CASE UNCHANGED vars
  BY <1>22, <1>u DEF vars, fileVars
<1> QED BY <1>5, <1>6, <1>7, <1>8, <1>9, <1>10, <1>11, <1>12, <1>13,
           <1>14, <1>15, <1>16, <1>17, <1>18, <1>19, <1>20, <1>21, <1>22 DEF Next, Runner

-----------------------------------------------------------------------------
(* The order of the steps of a save.                                       *)

(* A runner leaves the entries of the others alone.                        *)
LEMMA OthersLeave ==
  ASSUME TypeOK, Jobs, Names, Owners, EntriesWhole, SaveOrder,
         NEW p \in Models, Runner(p) \/ Die(p),
         NEW e \in Ids, InUse(e), e \notin RangeOf(root[p])
  PROVE  entry'[e] = entry[e] /\ \A s \in Ids : store'[<<e, s>>] = store[<<e, s>>]
<1> DEFINE Goal == entry'[e] = entry[e] /\ \A s \in Ids : store'[<<e, s>>] = store[<<e, s>>]
<1>1. e # ops + 1
  <2>1. ops + 1 \notin 1 .. ops \cup {None}
    BY StoreAssumption DEF TypeOK
  <2> QED BY <2>1 DEF Names, InUse
<1>w. pc[p] \in SaveSteps \cup AttributeSteps => job[p].entry # e
  BY OwnEntry
<1>2. CASE Define(p)
  BY <1>2, DefineDoes
<1>3. ASSUME NEW d \in Models, Clone(p, d) PROVE Goal
  BY <1>1, <1>3, Cloned
<1>4. CASE Publish(p)
  BY <1>4, PublishDoes
<1>5. CASE SyncRoot(p)
  BY <1>5, SyncRootDoes
<1>6. CASE Remove(p)
  BY <1>6, RemoveDoes
<1>7. CASE Destroy(p)
  <2>1. job[p].entry \in Ids /\ job[p].entry # e
    BY <1>7, DestroyDoes, OwnChange DEF Ends
  <2> QED BY <1>7, <2>1, Destroyed
<1>8. CASE Save(p)
  <2>1. EntryOf(p) # e
    BY FileLogs DEF EntryOf
  <2> QED BY <1>8, <2>1, SaveDoes
<1>9. CASE SyncStore(p)
  BY <1>9, <1>w, SyncStoreDoes DEF Goes, SaveSteps
<1>10. CASE RenameStore(p)
  BY <1>10, <1>w, RenameStoreDoes DEF Goes, SaveSteps
<1>11. CASE SwitchLink(p)
  BY <1>11, <1>w, SwitchLinkDoes DEF SaveSteps
<1>12. CASE SyncEntry(p)
  BY <1>12, <1>w, SyncEntryDoes DEF Goes, Ends, SaveSteps
<1>13. CASE RemoveOld(p)
  BY <1>13, <1>w, RemoveOldDoes DEF Goes, SaveSteps
<1>14. CASE UnlinkOld(p)
  BY <1>14, <1>w, UnlinkOldDoes DEF Ends, SaveSteps
<1>15. CASE UpdateAttributes(p)
  BY <1>15, UpdateAttributesDoes
<1>16. CASE ReplaceAttributes(p)
  BY <1>16, <1>w, ReplaceAttributesDoes DEF Goes, AttributeSteps
<1>17. CASE SyncAttributes(p)
  BY <1>17, <1>w, SyncAttributesDoes DEF Ends, AttributeSteps
<1>18. CASE Die(p)
  BY <1>18, DieDoes
<1> QED BY <1>2, <1>3, <1>4, <1>5, <1>6, <1>7, <1>8, <1>9, <1>10, <1>11, <1>12, <1>13, <1>14,
           <1>15, <1>16, <1>17, <1>18 DEF Runner

(* A step of a runner leaves the others where they are.                    *)
LEMMA OthersStay ==
  ASSUME TypeOK, Jobs, EntriesWhole, SaveOrder, NEW p \in Models, Runner(p) \/ Die(p)
  PROVE  Others(p)
<1>1. ASSUME NEW d \in Models, Clone(p, d) PROVE Others(p)
  BY <1>1, CloneDoes DEF Begins
<1>2. CASE Define(p) \/ Remove(p) \/ Save(p) \/ UpdateAttributes(p)
  BY <1>2, DefineDoes, RemoveDoes, SaveDoes, UpdateAttributesDoes DEF Begins
<1>3. CASE Publish(p) \/ SyncRoot(p) \/ SyncEntry(p)
  BY <1>3, PublishDoes, SyncRootDoes, SyncEntryDoes DEF Goes, Ends
<1>4. CASE SyncStore(p) \/ RenameStore(p) \/ RemoveOld(p) \/ ReplaceAttributes(p)
  BY <1>4, SyncStoreDoes, RenameStoreDoes, RemoveOldDoes, ReplaceAttributesDoes DEF Goes
<1>5. CASE Destroy(p) \/ UnlinkOld(p) \/ SyncAttributes(p)
  BY <1>5, DestroyDoes, UnlinkOldDoes, SyncAttributesDoes DEF Ends
<1>6. CASE SwitchLink(p) \/ Die(p)
  BY <1>6, SwitchLinkDoes, DieDoes
<1> QED BY <1>1, <1>2, <1>3, <1>4, <1>5, <1>6 DEF Runner

(* Every step keeps the order of the steps of a save.                      *)
LEMMA StepSaveOrder ==
  ASSUME TypeOK, Jobs, Names, Owners, EntriesWhole, SaveOrder, TypeOK', [Next]_vars
  PROVE  SaveOrder'
<1> DEFINE Linked == {"syncEntry", "removeOld", "unlinkOld"} \cup AttributeSteps
           Ok(m) ==
             LET e == job'[m].entry
                 new == <<job'[m].entry, job'[m].store>>
             IN /\ pc'[m] \in {"syncStore", "renameStore", "switchLink"} =>
                     /\ \A dir \in RangeOf(entry'[e]) : dir.link # job'[m].store
                     /\ Last(store'[new]) \in Contents
                /\ pc'[m] \in {"renameStore", "switchLink"} =>
                     RangeOf(store'[new]) = {Last(store'[new])}
                /\ pc'[m] = "switchLink" => job'[m].store \in Last(entry'[e]).stores
                /\ pc'[m] \in Linked => Last(entry'[e]).link = job'[m].store
                /\ pc'[m] \in {"removeOld", "unlinkOld"} =>
                     \A dir \in RangeOf(entry'[e]) : dir.link = job'[m].store
                /\ pc'[m] \in {"syncEntry", "removeOld", "unlinkOld"} /\ job'[m].old # None =>
                     job'[m].old # job'[m].store /\ job'[m].old \in Last(entry'[e]).stores
           Was(m) ==
             LET e == job[m].entry
                 new == <<job[m].entry, job[m].store>>
             IN /\ pc[m] \in {"syncStore", "renameStore", "switchLink"} =>
                     /\ \A dir \in RangeOf(entry[e]) : dir.link # job[m].store
                     /\ Last(store[new]) \in Contents
                /\ pc[m] \in {"renameStore", "switchLink"} =>
                     RangeOf(store[new]) = {Last(store[new])}
                /\ pc[m] = "switchLink" => job[m].store \in Last(entry[e]).stores
                /\ pc[m] \in Linked => Last(entry[e]).link = job[m].store
                /\ pc[m] \in {"removeOld", "unlinkOld"} =>
                     \A dir \in RangeOf(entry[e]) : dir.link = job[m].store
                /\ pc[m] \in {"syncEntry", "removeOld", "unlinkOld"} /\ job[m].old # None =>
                     job[m].old # job[m].store /\ job[m].old \in Last(entry[e]).stores
           Steady(m) == pc'[m] \notin SaveSteps \cup AttributeSteps
<1> SUFFICES \A m \in Models : Ok(m)
  BY DEF SaveOrder, NewStore, DirOf
<1>0. ops \in Nat /\ None \notin Ids
  BY StoreAssumption DEF TypeOK, Ids
<1>1. \A m \in Models : Was(m)
  BY DEF SaveOrder, NewStore, DirOf
<1>s. ASSUME NEW m \in Models, Steady(m)
      PROVE  Ok(m)
  BY <1>s DEF SaveSteps, AttributeSteps
<1>k. ASSUME NEW m \in Models, pc'[m] = pc[m], job'[m] = job[m],
             pc[m] \in SaveSteps \cup AttributeSteps =>
               /\ RangeOf(entry'[job[m].entry]) \subseteq RangeOf(entry[job[m].entry])
               /\ Last(entry'[job[m].entry]) = Last(entry[job[m].entry])
               /\ \A s \in Ids :
                    /\ RangeOf(store'[<<job[m].entry, s>>]) \subseteq RangeOf(store[<<job[m].entry, s>>])
                    /\ Last(store'[<<job[m].entry, s>>]) = Last(store[<<job[m].entry, s>>])
                    /\ Last(store'[<<job[m].entry, s>>]) \in RangeOf(store'[<<job[m].entry, s>>])
      PROVE  Ok(m)
  <2>1. CASE Steady(m)
    BY <1>s, <2>1
  <2>2. CASE pc[m] \in SaveSteps \cup AttributeSteps
    <3>1. job[m].entry \in Ids /\ job[m].store \in Ids
      BY <2>2, OwnEntry
    <3> QED BY <1>1, <1>k, <2>2, <3>1
  <2> QED BY <1>k, <2>1, <2>2
<1>l. \A i, s \in Ids : /\ Last(store[<<i, s>>]) \in RangeOf(store[<<i, s>>])
                        /\ Last(store'[<<i, s>>]) \in RangeOf(store'[<<i, s>>])
                        /\ Last(store[<<i, s>>]) \in Files
  <2>1. \A p \in Ids \X Ids : /\ Last(store[p]) \in RangeOf(store[p])
                              /\ Last(store[p]) \in Files
    BY FileLogs
  <2>2. \A p \in Ids \X Ids : Last(store'[p]) \in RangeOf(store'[p])
    <3>1. ASSUME NEW p \in Ids \X Ids
          PROVE  Last(store'[p]) \in RangeOf(store'[p])
      <4>1. store'[p] \in Log(Files)
        BY DEF TypeOK, Files
      <4> QED BY <4>1, LogEnds
    <3> QED BY <3>1
  <2> QED BY <2>1, <2>2
<1>o. ASSUME NEW p \in Models, Runner(p) \/ Die(p)
      PROVE  \A m \in Models \ {p} : Ok(m)
  <2>1. ASSUME NEW m \in Models \ {p}
        PROVE  Ok(m)
    <3>1. pc'[m] = pc[m] /\ job'[m] = job[m]
      BY <1>o, OthersStay DEF Others
    <3>2. ASSUME pc[m] \in SaveSteps \cup AttributeSteps
          PROVE  /\ entry'[job[m].entry] = entry[job[m].entry]
                 /\ \A s \in Ids : store'[<<job[m].entry, s>>] = store[<<job[m].entry, s>>]
                 /\ job[m].entry \in Ids
      <4>1. job[m].entry \in Ids /\ InUse(job[m].entry)
        BY <3>2, OwnEntry
      <4>2. job[m].entry \notin RangeOf(root[p])
        BY <3>2, OwnChange
      <4> QED BY <1>o, <4>1, <4>2, OthersLeave
    <3> QED BY <1>k, <1>l, <3>1, <3>2
  <2> QED BY <2>1
<1>w. ASSUME NEW m \in Models, pc[m] \in SaveSteps \cup AttributeSteps
      PROVE  /\ job[m].entry \in Ids /\ job[m].store \in Ids
             /\ DirOf(job[m].entry) \in RangeOf(entry[job[m].entry])
  BY <1>w, OwnEntry
<1>2. ASSUME NEW m \in Models,
             \/ Define(m) \/ Publish(m) \/ SyncRoot(m) \/ Remove(m) \/ Destroy(m)
             \/ \E d \in Models : Clone(m, d)
             \/ UnlinkOld(m) \/ SyncAttributes(m) \/ Die(m)
      PROVE  Ok(m)
  <2>1. Steady(m)
    <3>1. ASSUME NEW d \in Models, Clone(m, d) PROVE Steady(m)
      BY <3>1, CloneDoes DEF Begins, SaveSteps, AttributeSteps
    <3> QED BY <1>2, <3>1, DefineDoes, PublishDoes, SyncRootDoes, RemoveDoes, DestroyDoes,
               UnlinkOldDoes, SyncAttributesDoes, DieDoes
            DEF Begins, Goes, Ends, SaveSteps, AttributeSteps
  <2> QED BY <1>s, <2>1
<1>3. ASSUME NEW m \in Models, Save(m)
      PROVE  Ok(m)
  <2>1. /\ EntryOf(m) \in Ids /\ UNCHANGED entry
        /\ pc'[m] = "syncStore" /\ job'[m].entry = EntryOf(m) /\ job'[m].store = ops + 1
        /\ Last(store'[<<EntryOf(m), ops + 1>>]) \in Contents
    BY <1>3, SaveDoes DEF Begins
  <2>2. \A dir \in RangeOf(entry[EntryOf(m)]) : dir.link # ops + 1
    <3>1. ops + 1 \notin 1 .. ops \cup {None}
      BY <1>0, StoreAssumption
    <3> QED BY <2>1, <3>1 DEF Names
  <2> QED BY <2>1, <2>2 DEF SaveSteps, AttributeSteps
<1>4. ASSUME NEW m \in Models, SyncStore(m)
      PROVE  Ok(m)
  <2>1. /\ pc[m] = "syncStore" /\ pc'[m] = "renameStore" /\ job'[m] = job[m]
        /\ Last(store'[NewStore(m)]) = Last(store[NewStore(m)])
        /\ RangeOf(store'[NewStore(m)]) = {Last(store[NewStore(m)])}
        /\ UNCHANGED entry
    BY <1>4, SyncStoreDoes DEF Goes
  <2> QED BY <1>1, <2>1 DEF NewStore, SaveSteps, AttributeSteps
<1>5. ASSUME NEW m \in Models, RenameStore(m)
      PROVE  Ok(m)
  <2>1. pc[m] = "renameStore" /\ pc'[m] = "switchLink" /\ job'[m] = job[m] /\ UNCHANGED store
    BY <1>5, RenameStoreDoes DEF Goes
  <2>2. PICK dir \in Dirs : /\ dir.link = DirOf(job[m].entry).link
                            /\ dir.stores = DirOf(job[m].entry).stores \cup {job[m].store}
                            /\ Last(entry'[job[m].entry]) = dir
                            /\ RangeOf(entry'[job[m].entry]) = RangeOf(entry[job[m].entry]) \cup {dir}
    BY <1>5, RenameStoreDoes
  <2>3. DirOf(job[m].entry) \in RangeOf(entry[job[m].entry])
    BY <1>w, <2>1 DEF SaveSteps
  <2> QED BY <1>1, <2>1, <2>2, <2>3 DEF SaveSteps, AttributeSteps
<1>6. ASSUME NEW m \in Models, SwitchLink(m)
      PROVE  Ok(m)
  <2> DEFINE e == job[m].entry
  <2>1. /\ pc[m] = "switchLink" /\ pc'[m] = "syncEntry"
        /\ job'[m].entry = e /\ job'[m].store = job[m].store
        /\ job'[m].old = IF Exists(e, DirOf(e)) THEN DirOf(e).link ELSE None
    BY <1>6, SwitchLinkDoes
  <2>2. PICK dir \in Dirs : /\ dir.link = job[m].store
                            /\ dir.stores = DirOf(e).stores
                            /\ Last(entry'[e]) = dir
    BY <1>6, SwitchLinkDoes
  <2>3. DirOf(e) \in RangeOf(entry[e])
    BY <1>w, <2>1 DEF SaveSteps
  <2>4. DirOf(e).link # job[m].store
    BY <1>1, <2>1, <2>3
  <2>5. job'[m].old # None => job'[m].old # job[m].store /\ job'[m].old \in DirOf(e).stores
    BY <2>1, <2>4 DEF Exists
  <2> QED BY <2>1, <2>2, <2>5 DEF AttributeSteps
<1>7. ASSUME NEW m \in Models, SyncEntry(m)
      PROVE  Ok(m)
  <2>1. CASE Ends(m, "syncEntry")
    BY <1>s, <2>1 DEF Ends, SaveSteps, AttributeSteps
  <2>2. CASE Goes(m, "syncEntry", "removeOld")
    <3>1. /\ pc[m] = "syncEntry" /\ pc'[m] = "removeOld" /\ job'[m] = job[m]
          /\ Last(entry'[job[m].entry]) = Last(entry[job[m].entry])
          /\ RangeOf(entry'[job[m].entry]) = {Last(entry[job[m].entry])}
      BY <1>7, <2>2, SyncEntryDoes DEF Goes, DirOf
    <3>2. /\ Last(entry[job[m].entry]).link = job[m].store
          /\ job[m].old # None =>
               job[m].old # job[m].store /\ job[m].old \in Last(entry[job[m].entry]).stores
      BY <1>1, <3>1
    <3> QED BY <3>1, <3>2 DEF AttributeSteps
  <2> QED BY <1>7, <2>1, <2>2, SyncEntryDoes
<1>8. ASSUME NEW m \in Models, RemoveOld(m)
      PROVE  Ok(m)
  <2>1. pc[m] = "removeOld" /\ pc'[m] = "unlinkOld" /\ job'[m] = job[m] /\ UNCHANGED entry
    BY <1>8, RemoveOldDoes DEF Goes
  <2> QED BY <1>1, <2>1 DEF AttributeSteps
<1>9. ASSUME NEW m \in Models, UpdateAttributes(m)
      PROVE  Ok(m)
  <2>1. /\ pc'[m] = "replace" /\ job'[m].entry = EntryOf(m)
        /\ job'[m].store = DirOf(EntryOf(m)).link /\ UNCHANGED entry
    BY <1>9, UpdateAttributesDoes DEF Begins
  <2> QED BY <2>1 DEF DirOf, AttributeSteps
<1>10. ASSUME NEW m \in Models, ReplaceAttributes(m)
       PROVE  Ok(m)
  <2>1. pc[m] = "replace" /\ pc'[m] = "syncAttributes" /\ job'[m] = job[m] /\ UNCHANGED entry
    BY <1>10, ReplaceAttributesDoes DEF Goes
  <2> QED BY <1>1, <2>1 DEF AttributeSteps
<1>11. ASSUME NEW m \in Models, Runner(m) \/ Die(m)
       PROVE  Ok(m)
  BY <1>2, <1>3, <1>4, <1>5, <1>6, <1>7, <1>8, <1>9, <1>10, <1>11 DEF Runner
<1>12. CASE WriteBack
  <2>1. UNCHANGED <<pc, job>>
    BY <1>12 DEF WriteBack
  <2>2. \A i, s \in Ids : /\ RangeOf(store'[<<i, s>>]) \subseteq RangeOf(store[<<i, s>>])
                          /\ Last(store'[<<i, s>>]) = Last(store[<<i, s>>])
    BY <1>12, WrittenBack
  <2>3. \A e \in Ids : /\ RangeOf(entry'[e]) \subseteq RangeOf(entry[e])
                       /\ Last(entry'[e]) = Last(entry[e])
    BY <1>12, WrittenBack
  <2> QED BY <1>k, <1>l, <1>w, <2>1, <2>2, <2>3
<1>13. CASE MachineFails
  BY <1>13, <1>s DEF MachineFails, SaveSteps, AttributeSteps
<1>14. CASE UNCHANGED vars
  BY <1>1, <1>14 DEF vars, fileVars
<1>15. ASSUME NEW p \in Models, Runner(p) \/ Die(p)
       PROVE  \A m \in Models : Ok(m)
  BY <1>o, <1>11, <1>15
<1> QED BY <1>12, <1>13, <1>14, <1>15 DEF Next

-----------------------------------------------------------------------------
(* What is on the disk between the steps that sync.                        *)

Base == TypeOK /\ Jobs /\ Names /\ Owners /\ EntriesWhole /\ SaveOrder

(* The initial state.                                                      *)
LEMMA InitBase == Init => Base
<1> SUFFICES ASSUME Init PROVE Base
  OBVIOUS
<1>1. TypeOK
  BY InitTypes
<1>2. \A m \in Models : root[m] = <<None>> /\ RangeOf(root[m]) = {None} /\ EntryOf(m) = None
                        /\ pc[m] = "idle" /\ job[m] = NoJob
  <2>1. RangeOf(<<None>>) = {None} /\ Last(<<None>>) = None
    BY LogOfOne DEF Roots
  <2> QED BY <2>1 DEF Init, EntryOf
<1>3. \A e \in Ids : entry[e] = <<EmptyEntry>> /\ RangeOf(entry[e]) = {EmptyEntry}
  <2>1. EmptyEntry \in Dirs
    BY DEF EmptyEntry, Dirs
  <2>2. RangeOf(<<EmptyEntry>>) = {EmptyEntry}
    BY <2>1, LogOfOne
  <2> QED BY <2>2 DEF Init
<1>4. Jobs
  BY <1>2 DEF Jobs, NoJob, SaveSteps, AttributeSteps
<1>5. Names
  <2>1. ops = 0
    BY DEF Init
  <2>2. \A m \in Models : job[m].entry = None /\ job[m].store = None
    BY <1>2 DEF NoJob
  <2>3. EmptyEntry.stores = {} /\ EmptyEntry.link = None
    BY DEF EmptyEntry
  <2>4. \A e \in Ids : \A dir \in RangeOf(entry[e]) : dir.stores = {} /\ dir.link = None
    BY <1>3, <2>3
  <2>5. \A m \in Models : RangeOf(root[m]) \subseteq 1 .. ops \cup {None}
    BY <1>2
  <2> QED BY <1>3, <2>2, <2>4, <2>5 DEF Names
<1>6. Owners
  BY <1>2 DEF Owners
<1>7. EntriesWhole
  BY <1>3 DEF EntriesWhole, Whole, EmptyEntry
<1>8. SaveOrder
  BY <1>2 DEF SaveOrder, AttributeSteps
<1> QED BY <1>1, <1>4, <1>5, <1>6, <1>7, <1>8 DEF Base

(* Every step keeps it.                                                    *)
LEMMA StepBase == Base /\ [Next]_vars => Base'
<1> SUFFICES ASSUME Base, [Next]_vars PROVE Base'
  OBVIOUS
<1>1. TypeOK /\ Jobs /\ Names /\ Owners /\ EntriesWhole /\ SaveOrder
  BY DEF Base
<1>2. TypeOK'
  BY <1>1, StepTypes
<1>3. Jobs' /\ Names' /\ Owners' /\ EntriesWhole'
  BY <1>1, StepJobs, StepNames, StepOwners, StepEntriesWhole
<1>4. SaveOrder'
  BY <1>1, <1>2, StepSaveOrder
<1> QED BY <1>2, <1>3, <1>4 DEF Base

(* The logs after a step.                                                  *)
LEMMA LaterLogs ==
  ASSUME TypeOK'
  PROVE  /\ \A m \in Models : Last(root'[m]) \in RangeOf(root'[m])
         /\ \A e \in Ids : Last(entry'[e]) \in RangeOf(entry'[e])
         /\ \A i, s \in Ids : Last(store'[<<i, s>>]) \in RangeOf(store'[<<i, s>>])
<1>1. ASSUME NEW m \in Models PROVE Last(root'[m]) \in RangeOf(root'[m])
  <2>1. root'[m] \in Log(Roots)
    BY DEF TypeOK, Roots
  <2> QED BY <2>1, LogEnds
<1>2. ASSUME NEW e \in Ids PROVE Last(entry'[e]) \in RangeOf(entry'[e])
  <2>1. entry'[e] \in Log(Dirs)
    BY DEF TypeOK
  <2> QED BY <2>1, LogEnds
<1>3. ASSUME NEW i \in Ids, NEW s \in Ids
      PROVE  Last(store'[<<i, s>>]) \in RangeOf(store'[<<i, s>>])
  <2>1. store'[<<i, s>>] \in Log(Files)
    BY DEF TypeOK, Files
  <2> QED BY <2>1, LogEnds
<1> QED BY <1>1, <1>2, <1>3

(* Which step changes what is at the storage root.                         *)
LEMMA RootKept ==
  ASSUME Base, NEW p \in Models,
         \/ Define(p) \/ \E d \in Models : Clone(p, d)
         \/ Destroy(p) \/ Save(p) \/ SyncStore(p) \/ RenameStore(p) \/ SwitchLink(p)
         \/ SyncEntry(p) \/ RemoveOld(p) \/ UnlinkOld(p) \/ UpdateAttributes(p)
         \/ ReplaceAttributes(p) \/ SyncAttributes(p)
  PROVE  UNCHANGED <<root, cut>> /\ Others(p) /\ pc[p] \notin {"publish", "syncRoot"}
<1>0. TypeOK /\ Jobs /\ EntriesWhole /\ SaveOrder
  BY DEF Base
<1>1. ASSUME NEW d \in Models, Clone(p, d)
      PROVE  UNCHANGED <<root, cut>> /\ Others(p) /\ pc[p] = "idle"
  BY <1>0, <1>1, CloneDoes DEF Begins
<1>2. CASE Define(p) \/ Save(p) \/ UpdateAttributes(p)
  BY <1>0, <1>2, DefineDoes, SaveDoes, UpdateAttributesDoes DEF Begins
<1>3. CASE SyncEntry(p)
  BY <1>0, <1>3, SyncEntryDoes DEF Goes, Ends
<1>4. CASE SyncStore(p) \/ RenameStore(p) \/ RemoveOld(p) \/ ReplaceAttributes(p)
  BY <1>0, <1>4, SyncStoreDoes, RenameStoreDoes, RemoveOldDoes, ReplaceAttributesDoes DEF Goes
<1>5. CASE Destroy(p) \/ UnlinkOld(p) \/ SyncAttributes(p)
  BY <1>0, <1>5, DestroyDoes, UnlinkOldDoes, SyncAttributesDoes DEF Ends
<1>6. CASE SwitchLink(p)
  BY <1>0, <1>6, SwitchLinkDoes
<1> QED BY <1>1, <1>2, <1>3, <1>4, <1>5, <1>6

(* The present entries of two models, and what one is to publish.          *)
LEMMA Elsewhere ==
  ASSUME Base, NEW m \in Models, NEW p \in Models, p # m
  PROVE  /\ EntryOf(m) # None => /\ EntryOf(m) \in Ids /\ InUse(EntryOf(m))
                                 /\ EntryOf(m) \notin RangeOf(root[p])
         /\ pc[m] = "publish" => /\ job[m].entry \in Ids /\ InUse(job[m].entry)
                                 /\ job[m].entry \notin RangeOf(root[p])
<1>1. EntryOf(m) # None => /\ EntryOf(m) \in Ids /\ InUse(EntryOf(m))
                           /\ EntryOf(m) \notin RangeOf(root[p])
  BY FileLogs, OneOwner DEF Base, EntryOf, InUse, Roots
<1>2. pc[m] = "publish" => /\ job[m].entry \in Ids /\ InUse(job[m].entry)
                           /\ job[m].entry \notin RangeOf(root[p])
  BY DEF Base, Jobs, Owners, InUse
<1> QED BY <1>1, <1>2

(* Every step keeps what is settled.                                       *)
LEMMA StepSettled ==
  ASSUME Base, Settled, Copies, [Next]_vars
  PROVE  Settled'
<1> DEFINE Rooted(m) == \/ RangeOf(root[m]) = {Last(root[m])}
                        \/ pc[m] = "syncRoot" /\ job[m].dest = None
                        \/ \E p \in Models : pc[p] = "syncRoot" /\ job[p].dest = m
           Links(e) == \A dir \in RangeOf(entry[e]) : dir.link = Last(entry[e]).link
           FilesOf(e) == Last(entry[e]).link # None =>
                           RangeOf(store[<<e, Last(entry[e]).link>>]) = {Last(store[<<e, Last(entry[e]).link>>])}
           Read(m) == Last(root[m]) # None =>
                        /\ Links(Last(root[m])) \/ pc[m] = "syncEntry"
                        /\ FilesOf(Last(root[m])) \/ pc[m] = "syncAttributes"
           Rooted1(m) == \/ RangeOf(root'[m]) = {Last(root'[m])}
                         \/ pc'[m] = "syncRoot" /\ job'[m].dest = None
                         \/ \E p \in Models : pc'[p] = "syncRoot" /\ job'[p].dest = m
           Links1(e) == \A dir \in RangeOf(entry'[e]) : dir.link = Last(entry'[e]).link
           FilesOf1(e) == Last(entry'[e]).link # None =>
                           RangeOf(store'[<<e, Last(entry'[e]).link>>]) = {Last(store'[<<e, Last(entry'[e]).link>>])}
           Read1(m) == Last(root'[m]) # None =>
                         /\ Links1(Last(root'[m])) \/ pc'[m] = "syncEntry"
                         /\ FilesOf1(Last(root'[m])) \/ pc'[m] = "syncAttributes"
           Goal == \A m \in Models \ cut' : Rooted1(m) /\ Read1(m)
<1> SUFFICES Goal
  BY DEF Settled, LinkSettled, FilesSettled, EntryOf, DirOf
<1>0. TypeOK /\ Jobs /\ Names /\ Owners /\ EntriesWhole /\ SaveOrder /\ TypeOK'
  BY StepBase DEF Base
<1>1. \A m \in Models \ cut : Rooted(m) /\ Read(m)
  BY DEF Settled, LinkSettled, FilesSettled, EntryOf, DirOf
<1>n. None \notin Ids /\ None \notin Models
  BY StoreAssumption DEF Ids
<1>p. ASSUME NEW m \in Models \ cut,
             RangeOf(root[m]) = {Last(root[m])} => RangeOf(root'[m]) = {Last(root'[m])},
             \A q \in Models : pc[q] = "syncRoot" /\ (q = m \/ job[q].dest = m)
                               => pc'[q] = pc[q] /\ job'[q] = job[q]
      PROVE  Rooted1(m)
  <2>1. CASE RangeOf(root[m]) = {Last(root[m])}
    BY <1>p, <2>1
  <2>2. CASE pc[m] = "syncRoot" /\ job[m].dest = None
    BY <1>p, <2>2
  <2>3. CASE \E q \in Models : pc[q] = "syncRoot" /\ job[q].dest = m
    BY <1>p, <2>3
  <2>4. Rooted(m)
    BY <1>1
  <2> QED BY <2>1, <2>2, <2>3, <2>4
<1>o. ASSUME NEW p \in Models, Runner(p) \/ Die(p), NEW m \in Models \ cut, m # p,
             Last(root'[m]) = Last(root[m])
      PROVE  Read1(m)
  <2>1. SUFFICES ASSUME Last(root[m]) # None PROVE Read1(m)
    BY <1>o
  <2> DEFINE e == Last(root[m])
  <2>2. e \in Ids /\ InUse(e) /\ e \notin RangeOf(root[p])
    BY <1>o, <2>1, Elsewhere DEF EntryOf
  <2>3. entry'[e] = entry[e] /\ \A s \in Ids : store'[<<e, s>>] = store[<<e, s>>]
    BY <1>0, <1>o, <2>2, OthersLeave
  <2>4. Last(entry[e]).link # None => Last(entry[e]).link \in Ids
    BY <1>0, <2>2, FileLogs DEF Dirs
  <2>5. pc'[m] = pc[m]
    BY <1>0, <1>o, OthersStay DEF Others
  <2>6. Links1(e) \/ pc'[m] = "syncEntry"
    <3>1. Links(e) \/ pc[m] = "syncEntry"
      BY <1>1, <1>o, <2>1
    <3> QED BY <2>3, <2>5, <3>1
  <2>7. FilesOf1(e) \/ pc'[m] = "syncAttributes"
    BY <1>1, <1>o, <2>1, <2>3, <2>4, <2>5
  <2> QED BY <1>o, <2>6, <2>7
<1>r. ASSUME NEW p \in Models, Runner(p), UNCHANGED <<root, cut>>, Others(p),
             pc[p] # "syncRoot", Read1(p) \/ p \in cut
      PROVE  Goal
  <2>1. ASSUME NEW m \in Models \ cut
        PROVE  Rooted1(m)
    BY <1>p, <1>r, <2>1 DEF Others
  <2>2. ASSUME NEW m \in Models \ cut
        PROVE  Read1(m)
    BY <1>o, <1>r
  <2> QED BY <1>r, <2>1, <2>2
<1>w. ASSUME NEW m \in Models, pc[m] \in SaveSteps \cup AttributeSteps
      PROVE  /\ job[m].entry \in Ids /\ job[m].store \in Ids /\ job[m].entry = Last(root[m])
             /\ DirOf(job[m].entry) = Last(entry[job[m].entry])
             /\ Last(entry[job[m].entry]).link # None => Last(entry[job[m].entry]).link \in Ids
             /\ InUse(job[m].entry)
  <2>1. job[m].entry \in Ids /\ job[m].store \in Ids /\ job[m].entry = Last(root[m])
        /\ InUse(job[m].entry)
    BY <1>0, <1>w, OwnEntry DEF EntryOf
  <2> QED BY <1>0, <2>1, FileLogs DEF DirOf, Dirs
<1>q. ASSUME NEW m \in Models, UNCHANGED root, pc[m] \notin {"syncEntry", "syncAttributes"},
             UNCHANGED entry,
             Last(root[m]) # None => \A s \in Ids : s = Last(entry[Last(root[m])]).link =>
               /\ RangeOf(store'[<<Last(root[m]), s>>]) \subseteq RangeOf(store[<<Last(root[m]), s>>])
               /\ Last(store'[<<Last(root[m]), s>>]) = Last(store[<<Last(root[m]), s>>])
      PROVE  Read1(m) \/ m \in cut
  <2> SUFFICES ASSUME m \notin cut, Last(root[m]) # None PROVE Read1(m)
    BY <1>q
  <2> DEFINE e == Last(root[m])
  <2>1. e \in Ids
    BY <1>0, FileLogs DEF Roots
  <2>2. Last(entry[e]).link # None => Last(entry[e]).link \in Ids
    BY <1>0, <2>1, FileLogs DEF Dirs
  <2>3. Links(e) /\ FilesOf(e)
    BY <1>1, <1>q
  <2>4. FilesOf1(e)
    BY <1>0, <1>q, <2>1, <2>2, <2>3, LaterLogs
  <2> QED BY <1>q, <2>3, <2>4
<1>2. ASSUME NEW m \in Models, Define(m) PROVE Goal
  <2>1. UNCHANGED <<root, entry, store>> /\ pc[m] = "idle"
    BY <1>0, <1>2, DefineDoes DEF Begins
  <2>2. Read1(m) \/ m \in cut
    BY <1>q, <2>1
  <2> QED BY <1>2, <1>r, <2>1, <2>2, RootKept DEF Runner
<1>3. ASSUME NEW m \in Models, NEW d \in Models, Clone(m, d) PROVE Goal
  <2>1. /\ UNCHANGED root /\ pc[m] = "idle"
        /\ \A i \in Ids \ {ops + 1} : /\ entry'[i] = entry[i]
                                      /\ \A s \in Ids : store'[<<i, s>>] = store[<<i, s>>]
    BY <1>0, <1>3, CloneDoes, Cloned DEF Begins
  <2>2. Last(root[m]) # None => Last(root[m]) \in Ids \ {ops + 1}
    <3>1. Last(root[m]) \in Roots /\ Last(root[m]) \in 1 .. ops \cup {None}
      BY <1>0, FileLogs DEF Names
    <3>2. ops + 1 \notin 1 .. ops
      BY <1>0 DEF TypeOK
    <3> QED BY <3>1, <3>2 DEF Roots
  <2>3. Read1(m) \/ m \in cut
    <3> SUFFICES ASSUME m \notin cut, Last(root[m]) # None PROVE Read1(m)
      BY <2>1
    <3> DEFINE e == Last(root[m])
    <3>1. Links(e) /\ FilesOf(e)
      BY <1>1, <2>1
    <3>2. Last(entry[e]).link # None => Last(entry[e]).link \in Ids
      BY <1>0, <2>2, FileLogs DEF Dirs
    <3> QED BY <2>1, <2>2, <3>1, <3>2
  <2> QED BY <1>3, <1>r, <2>1, <2>3, RootKept DEF Runner
<1>4. ASSUME NEW p \in Models, Publish(p) PROVE Goal
  <2>1. /\ job[p].entry \in Ids /\ job[p].dest \in Models
        /\ UNCHANGED <<entry, store>>
        /\ \/ /\ Goes(p, "publish", "syncRoot")
              /\ EntryOf(job[p].dest) = None
              /\ Last(root'[job[p].dest]) = job[p].entry
              /\ \A q \in Models \ {job[p].dest} : root'[q] = root[q]
           \/ Ends(p, "publish") /\ UNCHANGED root
    BY <1>0, <1>4, PublishDoes
  <2>2. CASE Ends(p, "publish") /\ UNCHANGED root
    <3>1. Read1(p) \/ p \in cut
      BY <1>q, <2>1, <2>2 DEF Ends
    <3> QED BY <1>4, <1>r, <2>2, <3>1 DEF Ends, Runner
  <2>3. CASE /\ Goes(p, "publish", "syncRoot")
             /\ EntryOf(job[p].dest) = None
             /\ Last(root'[job[p].dest]) = job[p].entry
             /\ \A q \in Models \ {job[p].dest} : root'[q] = root[q]
    <3>1. /\ pc[p] = "publish" /\ pc'[p] = "syncRoot" /\ job'[p] = job[p] /\ Others(p)
          /\ cut' = cut
      BY <2>3 DEF Goes
    <3>2. LinkSettled(job[p].entry) /\ FilesSettled(job[p].entry)
      BY <3>1 DEF Copies
    <3>3. Links(job[p].entry) /\ FilesOf(job[p].entry)
      BY <3>2 DEF LinkSettled, FilesSettled, DirOf
    <3>4. Read1(job[p].dest) /\ Rooted1(job[p].dest)
      BY <2>1, <2>3, <3>1, <3>3
    <3>5. ASSUME NEW m \in Models \ cut, m # job[p].dest
          PROVE  Rooted1(m) /\ Read1(m)
      <4>1. root'[m] = root[m]
        BY <2>3, <3>5
      <4>2. Rooted1(m)
        BY <1>p, <3>1, <3>5, <4>1 DEF Others
      <4>3. pc[m] \in {"syncEntry", "syncAttributes"} => pc'[m] = pc[m]
        BY <3>1 DEF Others
      <4>4. Read1(m)
        BY <1>1, <2>1, <3>5, <4>1, <4>3
      <4> QED BY <4>2, <4>4
    <3> QED BY <3>1, <3>4, <3>5
  <2> QED BY <2>1, <2>2, <2>3
<1>5. ASSUME NEW p \in Models, SyncRoot(p) PROVE Goal
  <2>1. /\ \A q \in Models : Last(root'[q]) = Last(root[q]) /\ RangeOf(root'[q]) = {Last(root[q])}
        /\ UNCHANGED <<entry, store, cut>> /\ Others(p) /\ pc[p] = "syncRoot"
    BY <1>0, <1>5, SyncRootDoes DEF Goes, Ends
  <2>2. ASSUME NEW m \in Models \ cut
        PROVE  Rooted1(m) /\ Read1(m)
    BY <1>1, <2>1 DEF Others
  <2> QED BY <2>1, <2>2
<1>6. ASSUME NEW p \in Models, Remove(p) PROVE Goal
  <2>1. /\ Begins(p, "syncRoot", None, EntryOf(p), None)
        /\ Last(root'[p]) = None /\ \A q \in Models \ {p} : root'[q] = root[q]
        /\ UNCHANGED <<entry, store>>
    BY <1>0, <1>6, RemoveDoes
  <2>2. pc[p] = "idle" /\ pc'[p] = "syncRoot" /\ job'[p].dest = None /\ Others(p) /\ cut' = cut
    BY <2>1 DEF Begins
  <2>3. Rooted1(p) /\ Read1(p)
    BY <2>1, <2>2
  <2>4. ASSUME NEW m \in Models \ cut, m # p
        PROVE  Rooted1(m) /\ Read1(m)
    BY <1>1, <2>1, <2>2, <2>4 DEF Others
  <2> QED BY <2>2, <2>3, <2>4
<1>7. ASSUME NEW m \in Models, Destroy(m) PROVE Goal
  <2>1. job[m].entry \in Ids /\ pc[m] = "destroy" /\ UNCHANGED root /\ ~InUse(job[m].entry)
    BY <1>0, <1>7, DestroyDoes, OwnChange DEF Ends
  <2>2. \A i \in Ids \ {job[m].entry} : /\ entry'[i] = entry[i]
                                        /\ \A s \in Ids : store'[<<i, s>>] = store[<<i, s>>]
    BY <1>0, <1>7, <2>1, Destroyed
  <2>3. Read1(m) \/ m \in cut
    <3> SUFFICES ASSUME m \notin cut, Last(root[m]) # None PROVE Read1(m)
      BY <2>1
    <3> DEFINE e == Last(root[m])
    <3>1. Links(e) /\ FilesOf(e)
      BY <1>1, <2>1
    <3>2. e \in Ids \ {job[m].entry}
      BY <1>0, <2>1, FileLogs DEF InUse, Roots
    <3>3. Last(entry[e]).link # None => Last(entry[e]).link \in Ids
      BY <1>0, <3>2, FileLogs DEF Dirs
    <3> QED BY <2>1, <2>2, <3>1, <3>2, <3>3
  <2> QED BY <1>7, <1>r, <2>1, <2>3, RootKept DEF Runner
<1>8. ASSUME NEW m \in Models, Save(m) PROVE Goal
  <2>1. /\ EntryOf(m) \in Ids /\ pc[m] = "idle" /\ UNCHANGED <<root, entry>>
        /\ \A i, s \in Ids : i # EntryOf(m) \/ s # ops + 1 => store'[<<i, s>>] = store[<<i, s>>]
    BY <1>0, <1>8, SaveDoes DEF Begins
  <2>2. Last(entry[EntryOf(m)]).link # ops + 1
    <3>1. ops + 1 \notin 1 .. ops \cup {None}
      BY <1>0, StoreAssumption DEF TypeOK
    <3> QED BY <1>0, <2>1, <3>1, FileLogs DEF Names
  <2>3. Read1(m) \/ m \in cut
    BY <1>q, <2>1, <2>2 DEF EntryOf
  <2> QED BY <1>8, <1>r, <2>1, <2>3, RootKept DEF Runner
<1>9. ASSUME NEW m \in Models, SyncStore(m) PROVE Goal
  <2>1. /\ pc[m] = "syncStore" /\ UNCHANGED <<root, entry>>
        /\ Last(store'[NewStore(m)]) = Last(store[NewStore(m)])
        /\ RangeOf(store'[NewStore(m)]) = {Last(store[NewStore(m)])}
        /\ \A i, s \in Ids : i # job[m].entry \/ s # job[m].store
                               => store'[<<i, s>>] = store[<<i, s>>]
    BY <1>0, <1>9, SyncStoreDoes DEF Goes
  <2>2. job[m].entry \in Ids /\ job[m].entry = Last(root[m])
    BY <1>w, <2>1 DEF SaveSteps
  <2>3. \A s \in Ids :
          /\ RangeOf(store'[<<job[m].entry, s>>]) \subseteq RangeOf(store[<<job[m].entry, s>>])
          /\ Last(store'[<<job[m].entry, s>>]) = Last(store[<<job[m].entry, s>>])
    <3>1. \A s \in Ids : Last(store[<<job[m].entry, s>>]) \in RangeOf(store[<<job[m].entry, s>>])
      BY <1>0, <2>2, FileLogs
    <3> QED BY <2>1, <2>2, <3>1 DEF NewStore
  <2>4. Read1(m) \/ m \in cut
    BY <1>q, <2>1, <2>2, <2>3
  <2> QED BY <1>9, <1>r, <2>1, <2>4, RootKept DEF Runner
<1>10. ASSUME NEW m \in Models, RenameStore(m) PROVE Goal
  <2>1. pc[m] = "renameStore" /\ UNCHANGED <<root, store>>
    BY <1>0, <1>10, RenameStoreDoes DEF Goes
  <2>2. PICK dir \in Dirs : /\ dir.link = DirOf(job[m].entry).link
                            /\ Last(entry'[job[m].entry]) = dir
                            /\ RangeOf(entry'[job[m].entry]) = RangeOf(entry[job[m].entry]) \cup {dir}
    BY <1>0, <1>10, RenameStoreDoes
  <2>3. job[m].entry = Last(root[m]) /\ DirOf(job[m].entry) = Last(entry[job[m].entry])
        /\ job[m].entry # None
    BY <1>n, <1>w, <2>1 DEF SaveSteps
  <2>4. Read1(m) \/ m \in cut
    BY <1>1, <2>1, <2>2, <2>3
  <2> QED BY <1>10, <1>r, <2>1, <2>4, RootKept DEF Runner
<1>11. ASSUME NEW m \in Models, SwitchLink(m) PROVE Goal
  <2>1. pc[m] = "switchLink" /\ pc'[m] = "syncEntry" /\ UNCHANGED <<root, store>>
    BY <1>0, <1>11, SwitchLinkDoes
  <2>2. PICK dir \in Dirs : dir.link = job[m].store /\ Last(entry'[job[m].entry]) = dir
    BY <1>0, <1>11, SwitchLinkDoes
  <2>3. job[m].entry = Last(root[m])
    BY <1>w, <2>1 DEF SaveSteps
  <2>4. RangeOf(store[<<job[m].entry, job[m].store>>]) = {Last(store[<<job[m].entry, job[m].store>>])}
    BY <1>0, <2>1 DEF SaveOrder, NewStore
  <2>5. Read1(m)
    BY <2>1, <2>2, <2>3, <2>4
  <2> QED BY <1>11, <1>r, <2>1, <2>5, RootKept DEF Runner
<1>12. ASSUME NEW m \in Models, SyncEntry(m) PROVE Goal
  <2>1. /\ pc[m] = "syncEntry" /\ UNCHANGED <<root, store>>
        /\ Last(entry'[job[m].entry]) = DirOf(job[m].entry)
        /\ RangeOf(entry'[job[m].entry]) = {DirOf(job[m].entry)}
    BY <1>0, <1>12, SyncEntryDoes DEF Goes, Ends
  <2>2. job[m].entry = Last(root[m]) /\ DirOf(job[m].entry) = Last(entry[job[m].entry])
        /\ job[m].entry # None
    BY <1>n, <1>w, <2>1 DEF SaveSteps
  <2>3. Read1(m) \/ m \in cut
    BY <1>1, <2>1, <2>2
  <2> QED BY <1>12, <1>r, <2>1, <2>3, RootKept DEF Runner
<1>13. ASSUME NEW m \in Models, RemoveOld(m) PROVE Goal
  <2>1. /\ pc[m] = "removeOld" /\ UNCHANGED <<root, entry>>
        /\ \A i, s \in Ids : i # job[m].entry \/ s # job[m].old => store'[<<i, s>>] = store[<<i, s>>]
    BY <1>0, <1>13, RemoveOldDoes DEF Goes
  <2>2. job[m].entry = Last(root[m]) /\ job[m].entry \in Ids
    BY <1>w, <2>1 DEF SaveSteps
  <2>3. Last(entry[job[m].entry]).link = job[m].store /\ job[m].old # job[m].store
    BY <1>0, <1>n, <2>1 DEF SaveOrder, Jobs, DirOf
  <2>4. Read1(m) \/ m \in cut
    BY <1>q, <2>1, <2>2, <2>3
  <2> QED BY <1>13, <1>r, <2>1, <2>4, RootKept DEF Runner
<1>14. ASSUME NEW m \in Models, UnlinkOld(m) PROVE Goal
  <2>1. pc[m] = "unlinkOld" /\ UNCHANGED <<root, store>>
    BY <1>0, <1>14, UnlinkOldDoes DEF Ends
  <2>2. PICK dir \in Dirs : /\ dir.link = DirOf(job[m].entry).link
                            /\ Last(entry'[job[m].entry]) = dir
                            /\ RangeOf(entry'[job[m].entry]) = RangeOf(entry[job[m].entry]) \cup {dir}
    BY <1>0, <1>14, UnlinkOldDoes
  <2>3. job[m].entry = Last(root[m]) /\ DirOf(job[m].entry) = Last(entry[job[m].entry])
        /\ job[m].entry # None
    BY <1>n, <1>w, <2>1 DEF SaveSteps
  <2>4. Read1(m) \/ m \in cut
    BY <1>1, <2>1, <2>2, <2>3
  <2> QED BY <1>14, <1>r, <2>1, <2>4, RootKept DEF Runner
<1>15. ASSUME NEW m \in Models, UpdateAttributes(m) PROVE Goal
  <2>1. UNCHANGED <<root, entry, store>> /\ pc[m] = "idle"
    BY <1>0, <1>15, UpdateAttributesDoes DEF Begins
  <2>2. Read1(m) \/ m \in cut
    BY <1>q, <2>1
  <2> QED BY <1>15, <1>r, <2>1, <2>2, RootKept DEF Runner
<1>16. ASSUME NEW m \in Models, ReplaceAttributes(m) PROVE Goal
  <2>1. pc[m] = "replace" /\ pc'[m] = "syncAttributes" /\ UNCHANGED <<root, entry>>
    BY <1>0, <1>16, ReplaceAttributesDoes DEF Goes
  <2>2. ASSUME m \notin cut, Last(root[m]) # None
        PROVE  Links1(Last(root[m]))
    <3>1. Links(Last(root[m]))
      BY <1>1, <2>1, <2>2
    <3> QED BY <2>1, <3>1
  <2>3. Read1(m) \/ m \in cut
    <3> HIDE DEF Links1, FilesOf1
    <3> QED BY <2>1, <2>2
  <2> QED BY <1>16, <1>r, <2>1, <2>3, RootKept DEF Runner
<1>17. ASSUME NEW m \in Models, SyncAttributes(m) PROVE Goal
  <2>1. /\ pc[m] = "syncAttributes" /\ UNCHANGED <<root, entry>>
        /\ Last(store'[NewStore(m)]) = Last(store[NewStore(m)])
        /\ RangeOf(store'[NewStore(m)]) = {Last(store[NewStore(m)])}
    BY <1>0, <1>17, SyncAttributesDoes DEF Ends
  <2>2. job[m].entry = Last(root[m]) /\ job[m].entry # None
    BY <1>n, <1>w, <2>1 DEF AttributeSteps
  <2>3. Last(entry[job[m].entry]).link = job[m].store
    BY <1>0, <2>1 DEF SaveOrder, AttributeSteps, DirOf
  <2>4. Read1(m) \/ m \in cut
    BY <1>1, <2>1, <2>2, <2>3 DEF NewStore
  <2> QED BY <1>17, <1>r, <2>1, <2>4, RootKept DEF Runner
<1>18. ASSUME NEW p \in Models, Die(p) PROVE Goal
  <2>1. /\ Others(p) /\ cut' = (cut \cup {p, job[p].dest}) \ {None}
        /\ UNCHANGED <<root, entry, store>>
    BY <1>0, <1>18, DieDoes
  <2>2. ASSUME NEW m \in Models \ cut'
        PROVE  Rooted1(m) /\ Read1(m)
    <3>1. m \notin cut /\ m # p /\ m # job[p].dest
      BY <1>n, <2>1, <2>2
    <3>2. Rooted1(m)
      BY <1>p, <2>1, <3>1 DEF Others
    <3>3. Read1(m)
      BY <1>1, <2>1, <3>1 DEF Others
    <3> QED BY <3>2, <3>3
  <2> QED BY <2>2
<1>19. CASE WriteBack
  <2>1. UNCHANGED <<pc, job, cut>>
    BY <1>19 DEF WriteBack
  <2>2. /\ \A m \in Models : /\ RangeOf(root'[m]) \subseteq RangeOf(root[m])
                             /\ Last(root'[m]) = Last(root[m])
                             /\ Last(root'[m]) \in RangeOf(root'[m])
        /\ \A e \in Ids : /\ RangeOf(entry'[e]) \subseteq RangeOf(entry[e])
                          /\ Last(entry'[e]) = Last(entry[e])
        /\ \A i, s \in Ids : /\ RangeOf(store'[<<i, s>>]) \subseteq RangeOf(store[<<i, s>>])
                             /\ Last(store'[<<i, s>>]) = Last(store[<<i, s>>])
                             /\ Last(store'[<<i, s>>]) \in RangeOf(store'[<<i, s>>])
    BY <1>0, <1>19, WrittenBack, LaterLogs
  <2>3. ASSUME NEW m \in Models \ cut
        PROVE  Rooted1(m) /\ Read1(m)
    <3>1. Rooted1(m)
      <4>1. RangeOf(root[m]) = {Last(root[m])} => RangeOf(root'[m]) = {Last(root'[m])}
        BY <2>2
      <4> QED BY <1>p, <2>1, <4>1
    <3>2. SUFFICES ASSUME Last(root[m]) # None PROVE Read1(m)
      BY <2>2, <3>1
    <3> DEFINE e == Last(root[m])
    <3>3. e \in Ids
      BY <1>0, <3>2, FileLogs DEF Roots
    <3>4. Last(entry[e]).link # None => Last(entry[e]).link \in Ids
      BY <1>0, <3>3, FileLogs DEF Dirs
    <3>5. Links1(e) \/ pc'[m] = "syncEntry"
      <4>1. Links(e) \/ pc[m] = "syncEntry"
        BY <1>1, <3>2
      <4> QED BY <2>1, <2>2, <3>3, <4>1
    <3>6. FilesOf1(e) \/ pc'[m] = "syncAttributes"
      BY <1>1, <2>1, <2>2, <3>2, <3>3, <3>4
    <3> QED BY <2>2, <3>5, <3>6
  <2> QED BY <2>1, <2>3
<1>20. CASE MachineFails
  <2>1. /\ \A m \in Models : RangeOf(root'[m]) = {Last(root'[m])}
        /\ \A e \in Ids : RangeOf(entry'[e]) = {Last(entry'[e])}
        /\ \A s \in Ids \X Ids : RangeOf(store'[s]) = {Last(store'[s])}
    BY <1>0, <1>20, Failed
  <2>2. ASSUME NEW m \in Models, Last(root'[m]) # None
        PROVE  Read1(m)
    <3> DEFINE e == Last(root'[m])
    <3>1. e \in Ids
      BY <1>0, <1>20, <2>2, Failed, FileLogs DEF Roots
    <3>2. Last(entry'[e]).link # None => Last(entry'[e]).link \in Ids
      <4>1. Last(entry'[e]) \in Dirs
        BY <1>0, <1>20, <3>1, Failed, FileLogs
      <4> QED BY <4>1 DEF Dirs
    <3> QED BY <2>1, <3>1, <3>2
  <2> QED BY <2>1, <2>2
<1>21. CASE UNCHANGED vars
  BY <1>1, <1>21 DEF vars, fileVars
<1> QED BY <1>2, <1>3, <1>4, <1>5, <1>6, <1>7, <1>8, <1>9, <1>10, <1>11, <1>12, <1>13, <1>14,
           <1>15, <1>16, <1>17, <1>18, <1>19, <1>20, <1>21 DEF Next, Runner

(* Every step keeps what is to be published as it was copied.              *)
LEMMA StepCopies ==
  ASSUME Base, Copies, [Next]_vars
  PROVE  Copies'
<1> DEFINE Links(e) == \A dir \in RangeOf(entry[e]) : dir.link = Last(entry[e]).link
           FilesOf(e) == Last(entry[e]).link # None =>
                           RangeOf(store[<<e, Last(entry[e]).link>>]) = {Last(store[<<e, Last(entry[e]).link>>])}
           Seen(e) == IF Last(entry[e]).link = None THEN NoCheckpoint
                      ELSE IF Last(entry[e]).link \in Last(entry[e]).stores
                           THEN Last(store[<<e, Last(entry[e]).link>>]) ELSE Torn
           Copy(m) == /\ Links(job[m].entry) /\ FilesOf(job[m].entry)
                      /\ job[m].dest = m => entry[job[m].entry] = <<EmptyEntry>>
                      /\ job[m].dest # m => /\ Last(root[m]) # None
                                            /\ Seen(job[m].entry) = Seen(Last(root[m]))
           Links1(e) == \A dir \in RangeOf(entry'[e]) : dir.link = Last(entry'[e]).link
           FilesOf1(e) == Last(entry'[e]).link # None =>
                           RangeOf(store'[<<e, Last(entry'[e]).link>>]) = {Last(store'[<<e, Last(entry'[e]).link>>])}
           Seen1(e) == IF Last(entry'[e]).link = None THEN NoCheckpoint
                       ELSE IF Last(entry'[e]).link \in Last(entry'[e]).stores
                            THEN Last(store'[<<e, Last(entry'[e]).link>>]) ELSE Torn
           Copy1(m) == /\ Links1(job'[m].entry) /\ FilesOf1(job'[m].entry)
                       /\ job'[m].dest = m => entry'[job'[m].entry] = <<EmptyEntry>>
                       /\ job'[m].dest # m => /\ Last(root'[m]) # None
                                              /\ Seen1(job'[m].entry) = Seen1(Last(root'[m]))
           Goal == \A m \in Models : pc'[m] = "publish" => Copy1(m)
<1> SUFFICES Goal
  BY DEF Copies, LinkSettled, FilesSettled, Content, Exists, EntryOf, DirOf
<1>0. TypeOK /\ Jobs /\ Names /\ Owners /\ EntriesWhole /\ SaveOrder /\ TypeOK'
  BY StepBase DEF Base
<1>1. \A m \in Models : pc[m] = "publish" => Copy(m)
  BY DEF Copies, LinkSettled, FilesSettled, Content, Exists, EntryOf, DirOf
<1>n. None \notin Ids /\ None \notin Models
  BY StoreAssumption DEF Ids
<1>l. \A e \in Ids : Last(entry[e]).link # None => Last(entry[e]).link \in Ids
  BY <1>0, FileLogs DEF Dirs
<1>k. ASSUME NEW m \in Models, pc[m] = "publish", job'[m] = job[m], Last(root'[m]) = Last(root[m]),
             \A e \in Ids : e = job[m].entry \/ e = Last(root[m]) =>
               /\ RangeOf(entry'[e]) \subseteq RangeOf(entry[e]) /\ Last(entry'[e]) = Last(entry[e])
               /\ entry[e] = <<EmptyEntry>> => entry'[e] = entry[e]
               /\ \A s \in Ids : /\ RangeOf(store'[<<e, s>>]) \subseteq RangeOf(store[<<e, s>>])
                                 /\ Last(store'[<<e, s>>]) = Last(store[<<e, s>>])
      PROVE  Copy1(m)
  <2> DEFINE e == job[m].entry
             src == Last(root[m])
  <2>1. e \in Ids /\ Copy(m)
    BY <1>0, <1>1, <1>k DEF Jobs
  <2>2. src # None => src \in Ids
    BY <1>0, FileLogs DEF Roots
  <2>3. Links1(e)
    BY <1>k, <2>1
  <2>4. FilesOf1(e)
    BY <1>0, <1>k, <1>l, <2>1, LaterLogs
  <2>5. Seen1(e) = Seen(e)
    BY <1>k, <1>l, <2>1
  <2>6. src # None => Seen1(src) = Seen(src)
    BY <1>k, <1>l, <2>2
  <2>7. job[m].dest = m => entry'[e] = <<EmptyEntry>>
    BY <1>k, <2>1
  <2>8. job[m].dest # m => src # None /\ Seen1(e) = Seen1(src)
    BY <2>1, <2>5, <2>6
  <2> QED BY <1>k, <2>3, <2>4, <2>7, <2>8
<1>o. ASSUME NEW p \in Models, Runner(p) \/ Die(p), NEW m \in Models, m # p, pc'[m] = "publish"
      PROVE  Copy1(m)
  <2>1. pc[m] = "publish" /\ job'[m] = job[m]
    BY <1>0, <1>o, OthersStay DEF Others
  <2>2. \A e \in Ids : e = job[m].entry \/ e = Last(root[m]) =>
          /\ entry'[e] = entry[e]
          /\ \A s \in Ids : store'[<<e, s>>] = store[<<e, s>>]
    <3>1. ASSUME NEW e \in Ids, e = job[m].entry \/ e = Last(root[m])
          PROVE  entry'[e] = entry[e] /\ \A s \in Ids : store'[<<e, s>>] = store[<<e, s>>]
      <4>1. InUse(e) /\ e \notin RangeOf(root[p])
        BY <1>n, <1>o, <2>1, <3>1, Elsewhere DEF EntryOf
      <4> QED BY <1>0, <1>o, <4>1, OthersLeave
    <3> QED BY <3>1
  <2>3. CASE Last(root'[m]) = Last(root[m])
    BY <1>k, <2>1, <2>2, <2>3
  <2>4. CASE Last(root'[m]) # Last(root[m])
    <3>1. Publish(p) /\ job[p].dest = m /\ Last(root[m]) = None
      <4>1. CASE Publish(p)
        BY <1>0, <2>4, <4>1, PublishDoes DEF EntryOf
      <4>2. CASE SyncRoot(p)
        BY <1>0, <2>4, <4>2, SyncRootDoes
      <4>3. CASE Remove(p)
        BY <1>0, <1>o, <2>4, <4>3, RemoveDoes
      <4>4. CASE Die(p)
        BY <1>0, <2>4, <4>4, DieDoes
      <4> QED BY <1>o, <2>4, <4>1, <4>2, <4>3, <4>4, RootKept DEF Runner
    <3>2. Copy(m) /\ job[m].dest = m
      BY <1>1, <2>1, <3>1
    <3>3. job[m].entry \in Ids
      BY <1>0, <2>1 DEF Jobs
    <3>4. Links1(job[m].entry) /\ entry'[job[m].entry] = <<EmptyEntry>>
      BY <2>2, <3>2, <3>3
    <3>5. FilesOf1(job[m].entry)
      BY <1>l, <2>2, <3>2, <3>3
    <3> QED BY <2>1, <3>2, <3>4, <3>5
  <2> QED BY <2>3, <2>4
<1>2. ASSUME NEW m \in Models, Define(m)
      PROVE  Copy1(m)
  <2>1. /\ ops + 1 \in Ids /\ job'[m].dest = m /\ job'[m].entry = ops + 1 /\ UNCHANGED <<entry, store>>
    BY <1>0, <1>2, DefineDoes DEF Begins
  <2>2. entry[ops + 1] = <<EmptyEntry>>
    BY <1>0, <2>1 DEF Names, TypeOK
  <2>3. Last(<<EmptyEntry>>) = EmptyEntry /\ RangeOf(<<EmptyEntry>>) = {EmptyEntry}
    <3>1. EmptyEntry \in Dirs
      BY DEF EmptyEntry, Dirs
    <3> QED BY <3>1, LogOfOne
  <2>4. EmptyEntry.link = None
    BY DEF EmptyEntry
  <2>5. Links1(ops + 1) /\ FilesOf1(ops + 1)
    BY <2>1, <2>2, <2>3, <2>4
  <2> QED BY <2>1, <2>2, <2>5
<1>3. ASSUME NEW m \in Models, NEW d \in Models, Clone(m, d)
      PROVE  Copy1(m)
  <2> DEFINE src == EntryOf(m)
             new == ops + 1
             copied == DirOf(src)
  <2>1. /\ src # None /\ EntryOf(d) = None /\ UNCHANGED root
        /\ job'[m].dest = d /\ job'[m].entry = new
    BY <1>0, <1>3, CloneDoes DEF Begins
  <2>2. /\ new \in Ids /\ src \in Ids /\ copied \in Dirs
        /\ Last(entry'[new]) = copied /\ RangeOf(entry'[new]) = {copied}
        /\ \A i \in Ids \ {new} : entry'[i] = entry[i]
        /\ \A s \in copied.stores :
             /\ Last(store'[<<new, s>>]) = Last(store[<<src, s>>])
             /\ RangeOf(store'[<<new, s>>]) = {Last(store[<<src, s>>])}
        /\ \A i \in Ids \ {new}, s \in Ids : store'[<<i, s>>] = store[<<i, s>>]
    BY <1>0, <1>3, Cloned
  <2>3. src # new
    <3>1. src \in 1 .. ops \cup {None}
      BY <1>0, FileLogs DEF Names, EntryOf
    <3> QED BY <1>0, <2>1, <3>1 DEF TypeOK
  <2>4. copied.link # None => copied.link \in copied.stores
    <3>1. InUse(src) /\ copied \in RangeOf(entry[src])
      BY <1>0, <2>2, FileLogs DEF InUse, EntryOf, DirOf
    <3> QED BY <1>0, <2>2, <3>1 DEF EntriesWhole, Whole
  <2>5. src = Last(root[m]) /\ copied = Last(entry[src])
    BY DEF EntryOf, DirOf
  <2> HIDE DEF src, new, copied
  <2>6. copied.link # None => copied.link \in Ids
    BY <1>l, <2>2, <2>5
  <2>7. Links1(new) /\ FilesOf1(new)
    BY <2>2, <2>4
  <2>8. Seen1(new) = Seen1(src)
    BY <2>2, <2>3, <2>4, <2>5, <2>6
  <2>9. d # m
    BY <2>1 DEF src
  <2>10. Last(root'[m]) = src
    BY <2>1, <2>5
  <2> QED BY <2>1, <2>7, <2>8, <2>9, <2>10
<1>4. ASSUME NEW m \in Models, Runner(m) \/ Die(m), pc'[m] = "publish"
      PROVE  Copy1(m)
  <2>1. CASE Define(m)
    BY <1>2, <2>1
  <2>2. CASE \E d \in Models : Clone(m, d)
    BY <1>3, <2>2
  <2>3. CASE ~Define(m) /\ ~\E d \in Models : Clone(m, d)
    <3>1. ~(Remove(m) \/ Save(m) \/ UpdateAttributes(m))
      BY <1>0, <1>4, RemoveDoes, SaveDoes, UpdateAttributesDoes DEF Begins
    <3>2. ~(Publish(m) \/ SyncRoot(m) \/ SyncEntry(m))
      BY <1>0, <1>4, PublishDoes, SyncRootDoes, SyncEntryDoes DEF Goes, Ends
    <3>3. ~(SyncStore(m) \/ RenameStore(m) \/ RemoveOld(m) \/ ReplaceAttributes(m))
      BY <1>0, <1>4, SyncStoreDoes, RenameStoreDoes, RemoveOldDoes, ReplaceAttributesDoes DEF Goes
    <3>4. ~(Destroy(m) \/ UnlinkOld(m) \/ SyncAttributes(m))
      BY <1>0, <1>4, DestroyDoes, UnlinkOldDoes, SyncAttributesDoes DEF Ends
    <3>5. ~(SwitchLink(m) \/ Die(m))
      BY <1>0, <1>4, SwitchLinkDoes, DieDoes
    <3> QED BY <1>4, <2>3, <3>1, <3>2, <3>3, <3>4, <3>5 DEF Runner
  <2> QED BY <2>1, <2>2, <2>3
<1>5. CASE WriteBack
  <2>1. UNCHANGED <<pc, job>>
    BY <1>5 DEF WriteBack
  <2>2. \A e \in Ids : entry[e] = <<EmptyEntry>> => entry'[e] = entry[e]
    <3>1. ~(Len(<<EmptyEntry>>) > 1)
      OBVIOUS
    <3>2. \/ UNCHANGED entry
          \/ \E i \in Ids : Len(entry[i]) > 1 /\ entry' = [entry EXCEPT ![i] = Tail(@)]
      BY <1>5 DEF WriteBack
    <3>3. entry \in [Ids -> Log(Dirs)]
      BY <1>0 DEF TypeOK
    <3> HIDE DEF EmptyEntry
    <3> QED BY <3>1, <3>2, <3>3
  <2>3. /\ \A m \in Models : Last(root'[m]) = Last(root[m])
        /\ \A e \in Ids : RangeOf(entry'[e]) \subseteq RangeOf(entry[e]) /\ Last(entry'[e]) = Last(entry[e])
        /\ \A i, s \in Ids : /\ RangeOf(store'[<<i, s>>]) \subseteq RangeOf(store[<<i, s>>])
                             /\ Last(store'[<<i, s>>]) = Last(store[<<i, s>>])
    BY <1>0, <1>5, WrittenBack
  <2> QED BY <1>k, <2>1, <2>2, <2>3
<1>6. CASE MachineFails
  BY <1>6 DEF MachineFails
<1>7. CASE UNCHANGED vars
  BY <1>1, <1>7 DEF vars, fileVars
<1> QED BY <1>o, <1>4, <1>5, <1>6, <1>7 DEF Next

-----------------------------------------------------------------------------
(* The stores that are left behind.                                        *)

(* The stores of an entry can be counted.                                  *)
LEMMA StoresAreFinite ==
  ASSUME NEW S, S \subseteq Ids
  PROVE  IsFiniteSet(S) /\ Cardinality(S) \in Nat
<1>1. IsFiniteSet(Ids)
  BY StoreAssumption, FS_Interval DEF Ids
<1>2. IsFiniteSet(S)
  BY <1>1, FS_Subset
<1> QED BY <1>2, FS_CardinalityType

(* One store more.                                                         *)
LEMMA OneStoreMore ==
  ASSUME NEW S, S \subseteq Ids, NEW T, T \subseteq Ids, NEW x, NEW link,
         T = S \cup {x}
  PROVE  Cardinality(T \ {link}) <= Cardinality(S \ {link}) + 1
<1> DEFINE A == S \ {link}
<1>1. A \subseteq Ids /\ A \cup {x} \subseteq Ids \cup {x}
  OBVIOUS
<1>2. IsFiniteSet(A) /\ Cardinality(A) \in Nat
  BY <1>1, StoresAreFinite
<1>3. IsFiniteSet(A \cup {x}) /\ Cardinality(A \cup {x}) \in Nat
      /\ Cardinality(A \cup {x}) <= Cardinality(A) + 1
  <2>1. IsFiniteSet(A \cup {x}) /\ (Cardinality(A \cup {x}) = Cardinality(A)
                                   \/ Cardinality(A \cup {x}) = Cardinality(A) + 1)
    BY <1>2, FS_AddElement
  <2> QED BY <1>2, <2>1
<1>4. T \ {link} \subseteq A \cup {x}
  OBVIOUS
<1>5. Cardinality(T \ {link}) <= Cardinality(A \cup {x})
  BY <1>3, <1>4, FS_Subset
<1>6. Cardinality(T \ {link}) \in Nat
  <2>1. T \ {link} \subseteq Ids
    OBVIOUS
  <2> QED BY <2>1, StoresAreFinite
<1> QED BY <1>2, <1>3, <1>5, <1>6

(* One store less.                                                         *)
LEMMA OneStoreLess ==
  ASSUME NEW S, S \subseteq Ids, NEW x \in S
  PROVE  Cardinality(S \ {x}) = Cardinality(S) - 1 /\ Cardinality(S) \in Nat
  BY StoresAreFinite, FS_RemoveElement

(* A dir has as many unlinked stores when the link is switched between its *)
(* stores, and one fewer when it had none.                                 *)
LEMMA SwitchedStores ==
  ASSUME NEW S, S \subseteq Ids, NEW x \in S, NEW link, link \in S \/ link = None
  PROVE  /\ link \in S => Cardinality(S \ {x}) = Cardinality(S \ {link})
         /\ link = None => Cardinality(S \ {x}) = Cardinality(S \ {link}) - 1
<1>1. None \notin Ids
  BY StoreAssumption DEF Ids
<1>2. link = None => S \ {link} = S
  BY <1>1
<1> QED BY <1>2, OneStoreLess

(* Every step keeps the stores that are left behind few.                   *)
LEMMA StepFewOrphans ==
  ASSUME Base, FewOrphans, [Next]_vars
  PROVE  FewOrphans'
<1> DEFINE N(dir) == Cardinality(dir.stores \ {dir.link})
           F == deaths + failures
           F1 == deaths' + failures'
           Saving1(m) == \/ pc'[m] \in {"switchLink", "removeOld", "unlinkOld"}
                         \/ pc'[m] = "syncEntry" /\ job'[m].old # None
           Fresh(e) == e = ops + 1 /\ ops' = ops + 1
           Dirs1(e) == \A dir \in RangeOf(entry'[e]) : N(dir) <= F1 + 1
           Few1(m) == /\ Last(root'[m]) # None /\ ~Saving1(m) => N(Last(entry'[Last(root'[m])])) <= F1
                      /\ pc'[m] = "publish" => N(Last(entry'[job'[m].entry])) <= F1
           AllDirs == \A e \in Ids : InUse(e) \/ Fresh(e) => Dirs1(e)
           Goal == AllDirs /\ \A m \in Models : Few1(m)
<1> SUFFICES Goal
  BY StepInUse DEF FewOrphans, Unlinked, Faults, Saving, EntryOf, DirOf, Base
<1>0. TypeOK /\ Jobs /\ Names /\ Owners /\ EntriesWhole /\ SaveOrder
  BY DEF Base
<1>1. /\ \A e \in Ids : InUse(e) => \A dir \in RangeOf(entry[e]) : N(dir) <= F + 1
      /\ \A m \in Models :
           /\ Last(root[m]) # None /\ ~Saving(m) => N(Last(entry[Last(root[m])])) <= F
           /\ pc[m] = "publish" => N(Last(entry[job[m].entry])) <= F
  BY DEF FewOrphans, Unlinked, Faults, EntryOf, DirOf
<1>n. None \notin Ids /\ ops \in Nat /\ F \in Nat /\ ops # ops + 1
  BY <1>0, StoreAssumption DEF Ids, TypeOK
<1>d. ASSUME NEW e \in Ids
      PROVE  /\ Last(entry[e]) \in RangeOf(entry[e])
             /\ \A dir \in RangeOf(entry[e]) : dir \in Dirs /\ dir.stores \subseteq Ids /\ N(dir) \in Nat
  <2>1. Last(entry[e]) \in RangeOf(entry[e]) /\ \A dir \in RangeOf(entry[e]) : dir \in Dirs
    BY <1>0, FileLogs
  <2>2. ASSUME NEW dir \in Dirs
        PROVE  dir.stores \subseteq Ids /\ N(dir) \in Nat
    <3>1. dir.stores \subseteq Ids /\ dir.stores \ {dir.link} \subseteq Ids
      BY DEF Dirs
    <3> QED BY <3>1, StoresAreFinite
  <2> QED BY <2>1, <2>2
<1>f. ASSUME NEW e \in Ids, e = ops + 1
      PROVE  \A dir \in RangeOf(entry[e]) : N(dir) = 0
  <2>1. entry[e] = <<EmptyEntry>>
    BY <1>0, <1>f, <1>n DEF Names
  <2>2. EmptyEntry \in Dirs
    BY DEF EmptyEntry, Dirs
  <2>3. RangeOf(entry[e]) = {EmptyEntry}
    BY <2>1, <2>2, LogOfOne
  <2>4. EmptyEntry.stores \ {EmptyEntry.link} = {}
    BY DEF EmptyEntry
  <2> QED BY <2>3, <2>4, FS_EmptySet
<1>r. \A m \in Models : Last(root[m]) # None => Last(root[m]) \in Ids /\ InUse(Last(root[m]))
  BY <1>0, FileLogs DEF Roots, InUse
<1>j. \A m \in Models : pc[m] = "publish" => job[m].entry \in Ids /\ InUse(job[m].entry)
  BY <1>0 DEF Jobs, InUse
<1> HIDE DEF N, F
<1>u. ASSUME UNCHANGED <<entry, deaths, failures>>
      PROVE  AllDirs /\ F1 = F
  <2>1. F1 = F
    BY <1>u DEF F
  <2> QED BY <1>1, <1>d, <1>f, <1>n, <1>u, <2>1
<1>e. ASSUME NEW e \in Ids, InUse(e), \A i \in Ids \ {e} : entry'[i] = entry[i],
             UNCHANGED <<ops, deaths, failures>>,
             NEW dir \in Dirs, RangeOf(entry'[e]) \subseteq RangeOf(entry[e]) \cup {dir},
             N(dir) <= F + 1
      PROVE  AllDirs /\ F1 = F
  <2>1. F1 = F
    BY <1>e DEF F
  <2> QED BY <1>1, <1>e, <1>n, <2>1
<1>o. ASSUME NEW p \in Models, Runner(p), F1 = F, NEW m \in Models, m # p,
             Last(root'[m]) \in {Last(root[m]), None}
      PROVE  Few1(m)
  <2>1. pc'[m] = pc[m] /\ job'[m] = job[m]
    BY <1>0, <1>o, OthersStay DEF Others
  <2>2. ASSUME NEW e \in Ids, e = Last(root[m]) \/ (pc[m] = "publish" /\ e = job[m].entry)
        PROVE  entry'[e] = entry[e]
    <3>1. InUse(e) /\ e \notin RangeOf(root[p])
      BY <1>n, <1>o, <2>2, Elsewhere DEF EntryOf
    <3> QED BY <1>0, <1>o, <3>1, OthersLeave
  <2>3. Saving1(m) <=> Saving(m)
    BY <2>1 DEF Saving
  <2>4. Last(root'[m]) # None /\ ~Saving1(m) => N(Last(entry'[Last(root'[m])])) <= F1
    BY <1>1, <1>o, <1>r, <2>2, <2>3
  <2>5. pc'[m] = "publish" => N(Last(entry'[job'[m].entry])) <= F1
    BY <1>1, <1>j, <1>o, <2>1, <2>2
  <2> QED BY <2>4, <2>5
<1>g. ASSUME NEW p \in Models, Runner(p), UNCHANGED root, AllDirs, F1 = F, Few1(p)
      PROVE  Goal
  BY <1>o, <1>g
<1>k. ASSUME NEW m \in Models, UNCHANGED <<root, entry>>, F1 = F, ~Saving(m), pc'[m] # "publish"
      PROVE  Few1(m)
  BY <1>1, <1>k
<1>w. ASSUME NEW m \in Models, pc[m] \in SaveSteps
      PROVE  /\ job[m].entry \in Ids /\ job[m].entry = Last(root[m]) /\ InUse(job[m].entry)
             /\ DirOf(job[m].entry) \in RangeOf(entry[job[m].entry])
             /\ DirOf(job[m].entry) = Last(entry[job[m].entry])
             /\ job[m].entry # None /\ job[m].store \in Ids
             /\ DirOf(job[m].entry).stores \subseteq Ids /\ N(DirOf(job[m].entry)) \in Nat
  <2>1. /\ job[m].entry \in Ids /\ job[m].entry = Last(root[m]) /\ InUse(job[m].entry)
        /\ DirOf(job[m].entry) \in RangeOf(entry[job[m].entry]) /\ job[m].store \in Ids
    BY <1>0, <1>w, OwnEntry DEF EntryOf
  <2> QED BY <1>d, <1>n, <2>1 DEF DirOf
<1>2. ASSUME NEW m \in Models, Define(m) PROVE Goal
  <2>1. /\ ops + 1 \in Ids /\ pc[m] = "idle" /\ pc'[m] = "publish" /\ job'[m].entry = ops + 1
        /\ UNCHANGED <<root, entry, deaths, failures>>
    BY <1>0, <1>2, DefineDoes DEF Begins
  <2>2. AllDirs /\ F1 = F
    BY <1>u, <2>1
  <2>3. N(Last(entry[ops + 1])) = 0
    BY <1>d, <1>f, <2>1
  <2>4. Few1(m)
    BY <1>1, <1>n, <2>1, <2>2, <2>3 DEF Saving
  <2> QED BY <1>2, <1>g, <2>1, <2>2, <2>4 DEF Runner
<1>3. ASSUME NEW m \in Models, NEW d \in Models, Clone(m, d) PROVE Goal
  <2> DEFINE e == EntryOf(m)
             copied == DirOf(e)
  <2>1. /\ pc[m] = "idle" /\ pc'[m] = "publish" /\ job'[m].entry = ops + 1
        /\ UNCHANGED <<root, deaths, failures>> /\ e # None
    BY <1>0, <1>3, CloneDoes DEF Begins
  <2>2. /\ ops + 1 \in Ids /\ e \in Ids
        /\ Last(entry'[ops + 1]) = copied /\ RangeOf(entry'[ops + 1]) = {copied}
        /\ \A i \in Ids \ {ops + 1} : entry'[i] = entry[i]
    BY <1>0, <1>3, Cloned
  <2>3. F1 = F
    BY <2>1 DEF F
  <2>4. copied = Last(entry[e]) /\ e = Last(root[m])
    BY DEF EntryOf, DirOf
  <2>5. N(copied) <= F /\ N(copied) \in Nat
    BY <1>1, <1>d, <2>1, <2>2, <2>4 DEF Saving
  <2>6. e # ops + 1
    <3>1. ops + 1 \notin 1 .. ops \cup {None}
      BY <1>n, StoreAssumption
    <3> QED BY <1>0, <2>4, <3>1, FileLogs DEF Names
  <2> HIDE DEF e, copied
  <2>7. AllDirs
    BY <1>1, <1>n, <2>2, <2>3, <2>5
  <2>8. Few1(m)
    BY <2>1, <2>2, <2>3, <2>4, <2>5, <2>6
  <2> QED BY <1>3, <1>g, <2>1, <2>3, <2>7, <2>8 DEF Runner
<1>4. ASSUME NEW p \in Models, Publish(p) PROVE Goal
  <2>1. /\ job[p].entry \in Ids /\ job[p].dest \in Models /\ UNCHANGED entry
        /\ \/ /\ Goes(p, "publish", "syncRoot")
              /\ Last(root'[job[p].dest]) = job[p].entry
              /\ \A q \in Models \ {job[p].dest} : root'[q] = root[q]
           \/ Ends(p, "publish") /\ UNCHANGED root
    BY <1>0, <1>4, PublishDoes
  <2>2. /\ pc[p] = "publish" /\ pc'[p] \in {"idle", "syncRoot"} /\ Others(p)
        /\ UNCHANGED <<deaths, failures>>
    BY <2>1 DEF Goes, Ends
  <2>3. AllDirs /\ F1 = F
    BY <1>u, <2>1, <2>2
  <2>4. ~Saving(p) /\ N(Last(entry[job[p].entry])) <= F
    BY <1>1, <2>2 DEF Saving
  <2>5. ASSUME NEW m \in Models
        PROVE  Few1(m)
    <3>1. /\ pc'[m] = "publish" => pc[m] = "publish" /\ job'[m] = job[m]
          /\ ~Saving1(m) => ~Saving(m)
      BY <2>2, <2>4 DEF Others, Saving
    <3>2. root'[m] = root[m] \/ Last(root'[m]) = job[p].entry
      BY <2>1
    <3> QED BY <1>1, <2>1, <2>3, <2>4, <3>1, <3>2
  <2> QED BY <2>3, <2>5
<1>5. ASSUME NEW p \in Models, SyncRoot(p) PROVE Goal
  <2>1. /\ \A q \in Models : Last(root'[q]) = Last(root[q])
        /\ UNCHANGED entry /\ pc[p] = "syncRoot" /\ pc'[p] \in {"idle", "destroy"}
        /\ UNCHANGED <<deaths, failures>>
    BY <1>0, <1>5, SyncRootDoes DEF Goes, Ends
  <2>2. AllDirs /\ F1 = F
    BY <1>u, <2>1
  <2>3. Few1(p)
    BY <1>1, <2>1, <2>2 DEF Saving
  <2>4. \A m \in Models \ {p} : Few1(m)
    BY <1>5, <1>o, <2>1, <2>2 DEF Runner
  <2> QED BY <2>2, <2>3, <2>4
<1>6. ASSUME NEW p \in Models, Remove(p) PROVE Goal
  <2>1. /\ Last(root'[p]) = None /\ \A q \in Models \ {p} : root'[q] = root[q]
        /\ UNCHANGED entry /\ pc'[p] = "syncRoot" /\ UNCHANGED <<deaths, failures>>
    BY <1>0, <1>6, RemoveDoes DEF Begins
  <2>2. AllDirs /\ F1 = F
    BY <1>u, <2>1
  <2>3. Few1(p)
    BY <2>1
  <2>4. \A m \in Models \ {p} : Few1(m)
    BY <1>6, <1>o, <2>1, <2>2 DEF Runner
  <2> QED BY <2>2, <2>3, <2>4
<1>7. ASSUME NEW m \in Models, Destroy(m) PROVE Goal
  <2>1. /\ job[m].entry \in Ids /\ ~InUse(job[m].entry) /\ UNCHANGED root
        /\ pc[m] = "destroy" /\ pc'[m] = "idle" /\ UNCHANGED <<ops, deaths, failures>>
    BY <1>0, <1>7, DestroyDoes, OwnChange DEF Ends
  <2>2. \A i \in Ids \ {job[m].entry} : entry'[i] = entry[i]
    BY <1>0, <1>7, <2>1, Destroyed
  <2>3. F1 = F
    BY <2>1 DEF F
  <2>4. AllDirs
    BY <1>1, <1>n, <2>1, <2>2, <2>3
  <2>5. Few1(m)
    BY <1>1, <1>r, <2>1, <2>2, <2>3 DEF Saving
  <2> QED BY <1>7, <1>g, <2>1, <2>3, <2>4, <2>5 DEF Runner
<1>8. ASSUME NEW m \in Models, Save(m) \/ UpdateAttributes(m) PROVE Goal
  <2>1. /\ pc[m] = "idle" /\ pc'[m] # "publish" /\ UNCHANGED <<root, entry, deaths, failures>>
    BY <1>0, <1>8, SaveDoes, UpdateAttributesDoes DEF Begins
  <2>2. ~Saving(m)
    BY <2>1 DEF Saving
  <2> QED BY <1>8, <1>g, <1>k, <1>u, <2>1, <2>2 DEF Runner
<1>9. ASSUME NEW m \in Models, SyncStore(m) \/ ReplaceAttributes(m) PROVE Goal
  <2>1. /\ pc[m] \in {"syncStore", "replace"} /\ pc'[m] # "publish"
        /\ UNCHANGED <<root, entry, deaths, failures>>
    BY <1>0, <1>9, SyncStoreDoes, ReplaceAttributesDoes DEF Goes
  <2>2. ~Saving(m)
    BY <2>1 DEF Saving
  <2> QED BY <1>9, <1>g, <1>k, <1>u, <2>1, <2>2 DEF Runner
<1>10. ASSUME NEW m \in Models, SyncAttributes(m) PROVE Goal
  <2>1. /\ pc[m] = "syncAttributes" /\ pc'[m] # "publish"
        /\ UNCHANGED <<root, entry, deaths, failures>>
    BY <1>0, <1>10, SyncAttributesDoes DEF Ends
  <2>2. ~Saving(m)
    BY <2>1 DEF Saving
  <2> QED BY <1>10, <1>g, <1>k, <1>u, <2>1, <2>2 DEF Runner
<1>11. ASSUME NEW m \in Models, RemoveOld(m) PROVE Goal
  <2>1. pc'[m] = "unlinkOld" /\ UNCHANGED <<root, entry, deaths, failures>>
    BY <1>0, <1>11, RemoveOldDoes DEF Goes
  <2>2. AllDirs /\ F1 = F
    BY <1>u, <2>1
  <2> QED BY <1>11, <1>g, <2>1, <2>2 DEF Runner
<1>12. ASSUME NEW m \in Models, RenameStore(m) PROVE Goal
  <2> DEFINE e == job[m].entry
  <2>1. /\ pc[m] = "renameStore" /\ pc'[m] = "switchLink"
        /\ UNCHANGED <<root, ops, deaths, failures>>
        /\ \A i \in Ids \ {e} : entry'[i] = entry[i]
    BY <1>0, <1>12, RenameStoreDoes DEF Goes
  <2>2. PICK dir \in Dirs : /\ dir.link = DirOf(e).link
                            /\ dir.stores = DirOf(e).stores \cup {job[m].store}
                            /\ RangeOf(entry'[e]) = RangeOf(entry[e]) \cup {dir}
    BY <1>0, <1>12, RenameStoreDoes
  <2>3. /\ e \in Ids /\ e = Last(root[m]) /\ InUse(e) /\ DirOf(e) = Last(entry[e]) /\ e # None
        /\ DirOf(e).stores \subseteq Ids /\ N(DirOf(e)) \in Nat
    BY <1>w, <2>1 DEF SaveSteps
  <2>4. N(DirOf(e)) <= F
    BY <1>1, <2>1, <2>3 DEF Saving
  <2>5. N(dir) <= N(DirOf(e)) + 1 /\ N(dir) \in Nat
    <3>1. dir.stores \subseteq Ids /\ dir.stores \ {dir.link} \subseteq Ids
      BY DEF Dirs
    <3> QED BY <2>2, <2>3, <3>1, OneStoreMore, StoresAreFinite DEF N
  <2>6. N(dir) <= F + 1
    BY <1>n, <2>3, <2>4, <2>5
  <2>7. AllDirs /\ F1 = F
    BY <1>e, <2>1, <2>2, <2>3, <2>6
  <2> QED BY <1>12, <1>g, <2>1, <2>7 DEF Runner
<1>13. ASSUME NEW m \in Models, SwitchLink(m) PROVE Goal
  <2> DEFINE e == job[m].entry
             s == job[m].store
  <2>1. /\ pc[m] = "switchLink" /\ pc'[m] = "syncEntry"
        /\ UNCHANGED <<root, ops, deaths, failures>>
        /\ job'[m].old = IF Exists(e, DirOf(e)) THEN DirOf(e).link ELSE None
        /\ \A i \in Ids \ {e} : entry'[i] = entry[i]
    BY <1>0, <1>13, SwitchLinkDoes
  <2>2. PICK dir \in Dirs : /\ dir.link = s
                            /\ dir.stores = DirOf(e).stores
                            /\ Last(entry'[e]) = dir
                            /\ RangeOf(entry'[e]) = RangeOf(entry[e]) \cup {dir}
    BY <1>0, <1>13, SwitchLinkDoes
  <2>3. /\ e \in Ids /\ e = Last(root[m]) /\ InUse(e) /\ DirOf(e) \in RangeOf(entry[e])
        /\ DirOf(e).stores \subseteq Ids /\ N(DirOf(e)) \in Nat
    BY <1>w, <2>1 DEF SaveSteps
  <2>4. N(DirOf(e)) <= F + 1
    BY <1>1, <2>3
  <2>5. s \in DirOf(e).stores
    BY <1>0, <2>1 DEF SaveOrder
  <2>6. DirOf(e).link \in DirOf(e).stores \/ DirOf(e).link = None
    BY <1>0, <2>3 DEF EntriesWhole, Whole
  <2>7. /\ DirOf(e).link \in DirOf(e).stores => N(dir) = N(DirOf(e))
        /\ DirOf(e).link = None => N(dir) = N(DirOf(e)) - 1
    BY <2>2, <2>3, <2>5, <2>6, SwitchedStores DEF N
  <2>8. N(dir) <= F + 1
    BY <1>n, <2>3, <2>4, <2>6, <2>7
  <2>9. AllDirs /\ F1 = F
    BY <1>e, <2>1, <2>2, <2>3, <2>8
  <2>10. Few1(m)
    <3>1. ASSUME ~Saving1(m) PROVE N(dir) <= F
      <4>1. job'[m].old = None
        BY <2>1, <3>1
      <4>2. DirOf(e).link = None
        BY <1>n, <2>1, <2>3, <2>6, <4>1 DEF Exists
      <4> QED BY <1>n, <2>3, <2>4, <2>7, <4>2
    <3> QED BY <2>1, <2>2, <2>3, <2>9, <3>1
  <2> QED BY <1>13, <1>g, <2>1, <2>9, <2>10 DEF Runner
<1>14. ASSUME NEW m \in Models, SyncEntry(m) PROVE Goal
  <2> DEFINE e == job[m].entry
  <2>1. /\ \/ job[m].old = None /\ pc'[m] = "idle"
           \/ job[m].old # None /\ pc'[m] = "removeOld"
        /\ pc[m] = "syncEntry" /\ UNCHANGED <<root, ops, deaths, failures>>
        /\ Last(entry'[e]) = DirOf(e) /\ RangeOf(entry'[e]) = {DirOf(e)}
        /\ \A i \in Ids \ {e} : entry'[i] = entry[i]
    BY <1>0, <1>14, SyncEntryDoes DEF Goes, Ends
  <2>2. /\ e \in Ids /\ e = Last(root[m]) /\ InUse(e) /\ DirOf(e) \in RangeOf(entry[e])
        /\ DirOf(e) = Last(entry[e]) /\ e # None /\ DirOf(e) \in Dirs
    BY <1>d, <1>w, <2>1 DEF SaveSteps
  <2>3. AllDirs /\ F1 = F
    <3>1. N(DirOf(e)) <= F + 1
      BY <1>1, <2>2
    <3> QED BY <1>e, <2>1, <2>2, <3>1
  <2>4. Few1(m)
    BY <1>1, <2>1, <2>2, <2>3 DEF Saving
  <2> QED BY <1>14, <1>g, <2>1, <2>3, <2>4 DEF Runner
<1>15. ASSUME NEW m \in Models, UnlinkOld(m) PROVE Goal
  <2> DEFINE e == job[m].entry
             old == job[m].old
  <2>1. /\ pc[m] = "unlinkOld" /\ pc'[m] = "idle"
        /\ UNCHANGED <<root, ops, deaths, failures>>
        /\ \A i \in Ids \ {e} : entry'[i] = entry[i]
    BY <1>0, <1>15, UnlinkOldDoes DEF Ends
  <2>2. PICK dir \in Dirs : /\ dir.link = DirOf(e).link
                            /\ dir.stores = DirOf(e).stores \ {old}
                            /\ Last(entry'[e]) = dir
                            /\ RangeOf(entry'[e]) = RangeOf(entry[e]) \cup {dir}
    BY <1>0, <1>15, UnlinkOldDoes
  <2>3. /\ e \in Ids /\ e = Last(root[m]) /\ InUse(e) /\ DirOf(e) \in RangeOf(entry[e])
        /\ DirOf(e).stores \subseteq Ids /\ N(DirOf(e)) \in Nat
    BY <1>w, <2>1 DEF SaveSteps
  <2>4. N(DirOf(e)) <= F + 1
    BY <1>1, <2>3
  <2>5. old # DirOf(e).link /\ old \in DirOf(e).stores
    BY <1>0, <1>n, <2>1 DEF SaveOrder, Jobs
  <2>6. N(dir) = N(DirOf(e)) - 1
    <3>1. dir.stores \ {dir.link} = (DirOf(e).stores \ {DirOf(e).link}) \ {old}
      BY <2>2
    <3>2. old \in DirOf(e).stores \ {DirOf(e).link} /\ DirOf(e).stores \ {DirOf(e).link} \subseteq Ids
      BY <2>3, <2>5
    <3> QED BY <3>1, <3>2, OneStoreLess DEF N
  <2>7. N(dir) <= F
    BY <1>n, <2>3, <2>4, <2>6
  <2>8. N(dir) <= F + 1
    BY <1>n, <2>3, <2>4, <2>6
  <2>9. AllDirs /\ F1 = F
    BY <1>e, <2>1, <2>2, <2>3, <2>8
  <2>10. Few1(m)
    BY <2>1, <2>2, <2>3, <2>7, <2>9
  <2> QED BY <1>15, <1>g, <2>1, <2>9, <2>10 DEF Runner
<1>16. ASSUME NEW p \in Models, Die(p) PROVE Goal
  <2>1. /\ pc'[p] = "idle" /\ Others(p) /\ deaths \in Nat /\ failures \in Nat
        /\ deaths' = deaths + 1 /\ failures' = failures
        /\ UNCHANGED <<root, entry, ops>>
    BY <1>0, <1>16, DieDoes
  <2>2. F1 = F + 1
    BY <2>1 DEF F
  <2>3. AllDirs
    BY <1>1, <1>d, <1>n, <2>1, <2>2
  <2>4. ASSUME NEW m \in Models
        PROVE  Few1(m)
    <3>1. pc'[m] = "publish" => pc[m] = "publish" /\ job'[m].entry = job[m].entry
      BY <2>1 DEF Others
    <3>2. ASSUME NEW e \in Ids, InUse(e)
          PROVE  N(Last(entry'[e])) <= F1
      BY <1>1, <1>d, <2>1, <2>2, <3>2
    <3> QED BY <1>j, <1>r, <2>1, <3>1, <3>2
  <2> QED BY <2>3, <2>4
<1>17. CASE WriteBack
  <2>1. UNCHANGED <<pc, job, ops, deaths, failures>>
    BY <1>17 DEF WriteBack, boundVars
  <2>2. /\ \A m \in Models : Last(root'[m]) = Last(root[m])
        /\ \A e \in Ids : /\ RangeOf(entry'[e]) \subseteq RangeOf(entry[e])
                          /\ Last(entry'[e]) = Last(entry[e])
    BY <1>0, <1>17, WrittenBack
  <2>3. F1 = F
    BY <2>1 DEF F
  <2>4. AllDirs
    BY <1>1, <1>n, <2>1, <2>2, <2>3
  <2>5. ASSUME NEW m \in Models
        PROVE  Few1(m)
    <3>1. Saving1(m) <=> Saving(m)
      BY <2>1 DEF Saving
    <3> QED BY <1>1, <1>j, <1>r, <2>1, <2>2, <2>3, <3>1
  <2> QED BY <2>4, <2>5
<1>18. CASE MachineFails
  <2>1. /\ \A m \in Models : pc'[m] = "idle"
        /\ failures' = failures + 1 /\ UNCHANGED <<ops, deaths>>
    BY <1>18 DEF MachineFails
  <2>2. /\ \A m \in Models : Last(root'[m]) \in RangeOf(root[m])
        /\ \A e \in Ids : /\ Last(entry'[e]) \in RangeOf(entry[e])
                          /\ RangeOf(entry'[e]) = {Last(entry'[e])}
    BY <1>0, <1>18, Failed
  <2>3. F1 = F + 1
    BY <1>0, <2>1, StoreAssumption DEF F, TypeOK
  <2>4. ASSUME NEW e \in Ids, InUse(e)
        PROVE  Dirs1(e) /\ N(Last(entry'[e])) <= F1
    BY <1>1, <1>d, <1>n, <2>2, <2>3, <2>4
  <2>5. AllDirs
    BY <1>n, <2>1, <2>4
  <2>6. ASSUME NEW m \in Models, Last(root'[m]) # None
        PROVE  Last(root'[m]) \in Ids /\ InUse(Last(root'[m]))
    BY <1>0, <2>2, <2>6, FileLogs DEF InUse, Roots
  <2> QED BY <2>1, <2>4, <2>5, <2>6
<1>19. CASE UNCHANGED vars
  <2>1. UNCHANGED <<root, entry, pc, job, deaths, failures>>
    BY <1>19 DEF vars, fileVars, boundVars
  <2>2. AllDirs /\ F1 = F
    BY <1>u, <2>1
  <2> QED BY <1>1, <2>1, <2>2 DEF Saving
<1> QED BY <1>2, <1>3, <1>4, <1>5, <1>6, <1>7, <1>8, <1>9, <1>10, <1>11, <1>12, <1>13, <1>14,
           <1>15, <1>16, <1>17, <1>18, <1>19 DEF Next, Runner

(* The initial state satisfies the invariant.                              *)
LEMMA InitStore == Init => StoreInv
<1> SUFFICES ASSUME Init PROVE StoreInv
  OBVIOUS
<1>0. Base
  BY InitBase
<1>1. \A m \in Models : /\ root[m] = <<None>> /\ RangeOf(root[m]) = {None} /\ EntryOf(m) = None
                        /\ pc[m] = "idle"
  <2>1. RangeOf(<<None>>) = {None} /\ Last(<<None>>) = None
    BY LogOfOne DEF Roots
  <2> QED BY <2>1 DEF Init, EntryOf
<1>2. Settled
  BY <1>1 DEF Settled
<1>3. Copies
  BY <1>1 DEF Copies
<1>4. FewOrphans
  <2>1. \A e \in Ids : ~InUse(e)
    <3>1. None \notin Ids
      BY StoreAssumption DEF Ids
    <3> QED BY <1>1, <3>1 DEF InUse
  <2> QED BY <1>1, <2>1 DEF FewOrphans
<1> QED BY <1>0, <1>2, <1>3, <1>4 DEF Base, StoreInv

(* Every step keeps the invariant.                                         *)
LEMMA StepStore == StoreInv /\ [Next]_vars => StoreInv'
<1> SUFFICES ASSUME StoreInv, [Next]_vars PROVE StoreInv'
  OBVIOUS
<1>1. Base /\ Settled /\ Copies /\ FewOrphans
  BY DEF StoreInv, Base
<1>2. Base'
  BY <1>1, StepBase
<1>3. Settled' /\ Copies' /\ FewOrphans'
  BY <1>1, StepSettled, StepCopies, StepFewOrphans
<1> QED BY <1>2, <1>3 DEF StoreInv, Base

(* The invariant, for any models and any number of operations, deaths of a *)
(* runner and failures of the machine.                                     *)
THEOREM StoreInvariant == Spec => []StoreInv
  BY InitStore, StepStore, PTL DEF Spec

(* The logs of the storage root, the entries and the stores, the steps of  *)
(* the runners and their operations keep their types.                      *)
THEOREM StoreKeepsTypes == Spec => []TypeOK
<1>1. StoreInv => TypeOK
  BY DEF StoreInv
<1> QED BY StoreInvariant, <1>1, PTL

-----------------------------------------------------------------------------
(* What the invariant says of a failure of the machine.                    *)

(* What may be read of an entry that is whole.                             *)
LEMMA WholeEntry ==
  ASSUME TypeOK, NEW e \in Ids, Whole(e)
  PROVE  \A dir \in RangeOf(entry[e]) :
           Surviving(e, dir) = IF dir.link = None THEN {NoCheckpoint}
                               ELSE RangeOf(store[<<e, dir.link>>])
  BY DEF Whole, Surviving, Exists

(* A failure of the machine at any moment leaves every link on a whole     *)
(* checkpoint: save() and updateCheckpointAttributes() sync what they      *)
(* write before they move it, and the entry before they delete what it     *)
(* replaces.                                                               *)
THEOREM LinksAreWhole == Spec => []WholeCheckpoints
<1>1. StoreInv => WholeCheckpoints
  <2> SUFFICES ASSUME StoreInv, NEW m \in Models PROVE Torn \notin AtRisk(m)
    BY DEF WholeCheckpoints
  <2>1. TypeOK /\ EntriesWhole /\ RangeOf(root[m]) \subseteq Roots
    BY FileLogs DEF StoreInv
  <2>2. ASSUME NEW e \in RangeOf(root[m]), e # None, NEW dir \in RangeOf(entry[e])
        PROVE  Torn \notin Surviving(e, dir)
    <3>1. e \in Ids /\ Whole(e)
      BY <2>1, <2>2 DEF Roots, EntriesWhole, InUse
    <3> QED BY <2>1, <3>1, WholeEntry, ReadAssumption DEF Whole
  <2> QED BY <2>2, ReadAssumption DEF AtRisk
<1> QED BY StoreInvariant, <1>1, PTL

(* An operation that has returned is on the disk: once no operation has    *)
(* the model in hand and none was cut short by a death, a failure of the   *)
(* machine brings back what is read now, and nothing else.                 *)
THEOREM ReturnedStays == Spec => []ReturnedIsDurable
<1>1. StoreInv => ReturnedIsDurable
  <2> SUFFICES ASSUME StoreInv, NEW m \in Models, Quiet(m), m \notin cut
               PROVE  AtRisk(m) = {Load(m)}
    BY DEF ReturnedIsDurable
  <2>1. TypeOK /\ Jobs /\ EntriesWhole /\ Settled
    BY DEF StoreInv
  <2>2. pc[m] = "idle" /\ \A p \in Models : job[p].dest # m
    BY DEF Quiet
  <2>3. RangeOf(root[m]) = {EntryOf(m)}
    BY <2>1, <2>2 DEF Settled
  <2>4. CASE EntryOf(m) = None
    BY <2>3, <2>4 DEF AtRisk, Load
  <2>5. CASE EntryOf(m) # None
    <3> DEFINE e == EntryOf(m)
    <3>1. e \in Ids /\ e # None /\ Whole(e)
      <4>1. e \in RangeOf(root[m]) /\ e \in Roots
        BY <2>1, FileLogs DEF EntryOf
      <4> QED BY <2>1, <2>5, <4>1 DEF Roots, EntriesWhole, InUse
    <3>2. LinkSettled(e) /\ FilesSettled(e)
      BY <2>1, <2>2, <2>5 DEF Settled
    <3>3. Load(m) = IF DirOf(e).link = None THEN NoCheckpoint
                    ELSE Last(store[<<e, DirOf(e).link>>])
      <4>1. DirOf(e) \in RangeOf(entry[e])
        BY <2>1, <3>1, FileLogs DEF DirOf
      <4> QED BY <3>1, <4>1 DEF Load, Whole, Exists
    <3>4. AtRisk(m) = UNION {Surviving(e, dir) : dir \in RangeOf(entry[e])}
      BY <2>3, <3>1 DEF AtRisk
    <3>5. \A dir \in RangeOf(entry[e]) : Surviving(e, dir) = {Load(m)}
      BY <2>1, <3>1, <3>2, <3>3, WholeEntry DEF LinkSettled, FilesSettled
    <3>6. DirOf(e) \in RangeOf(entry[e])
      BY <2>1, <3>1, FileLogs DEF DirOf
    <3> HIDE DEF e
    <3> QED BY <3>4, <3>5, <3>6
  <2> QED BY <2>4, <2>5
<1> QED BY StoreInvariant, <1>1, PTL

(* A save that returns has deleted the store it replaces: what is left     *)
(* behind is at most one store per death of a runner and failure of the    *)
(* machine.                                                                *)
THEOREM OrphansAreFew == Spec => []OnlyFailuresLeaveStores
<1>1. StoreInv => OnlyFailuresLeaveStores
  BY DEF StoreInv, FewOrphans, OnlyFailuresLeaveStores, Saving, Orphans, Unlinked, Faults
<1> QED BY StoreInvariant, <1>1, PTL

-----------------------------------------------------------------------------
(* The checkpoint manager implements the register: what is read of a       *)
(* model, and what may be read of it after a failure, as functions of the  *)
(* three families of logs, which every step changes as the register does.  *)

LinkValue(files, e, dir) == IF dir.link = None THEN NoCheckpoint ELSE Last(files[<<e, dir.link>>])
LinkRisk(files, e, dir) ==
  IF dir.link = None THEN {NoCheckpoint} ELSE RangeOf(files[<<e, dir.link>>])
EntryRisk(files, e, dirs) == UNION {LinkRisk(files, e, dir) : dir \in RangeOf(dirs)}

ValueOf(names, dirs, files) ==
  IF Last(names) = None THEN NoModel
  ELSE LinkValue(files, Last(names), Last(dirs[Last(names)]))
RiskOf(names, dirs, files) ==
  UNION {IF e = None THEN {NoModel} ELSE EntryRisk(files, e, dirs[e]) : e \in RangeOf(names)}

Reads ==
  \A m \in Models : /\ Load(m) = ValueOf(root[m], entry, store)
                    /\ AtRisk(m) = RiskOf(root[m], entry, store)
                    /\ Load(m) \in AtRisk(m)

(* What is read of an entry that is in use.                                *)
LEMMA ReadEntry ==
  ASSUME Base, NEW e \in Ids, InUse(e)
  PROVE  /\ DirOf(e) \in RangeOf(entry[e])
         /\ \A dir \in RangeOf(entry[e]) :
              /\ Surviving(e, dir) = LinkRisk(store, e, dir)
              /\ dir.link # None => /\ dir.link \in dir.stores /\ dir.link \in Ids
                                    /\ Last(store[<<e, dir.link>>]) \in Contents
                                    /\ Last(store[<<e, dir.link>>]) \in RangeOf(store[<<e, dir.link>>])
         /\ Content(e) = LinkValue(store, e, DirOf(e))
         /\ Content(e) # NoModel
         /\ Content(e) \in LinkRisk(store, e, DirOf(e))
<1>1. TypeOK /\ Whole(e)
  BY DEF Base, EntriesWhole
<1>2. DirOf(e) \in RangeOf(entry[e])
  BY <1>1, FileLogs DEF DirOf
<1>3. ASSUME NEW dir \in RangeOf(entry[e]), dir.link # None
      PROVE  /\ dir.link \in dir.stores /\ dir.link \in Ids
             /\ Last(store[<<e, dir.link>>]) \in Contents
             /\ Last(store[<<e, dir.link>>]) \in RangeOf(store[<<e, dir.link>>])
  <2>1. dir \in Dirs
    BY <1>1, FileLogs
  <2>2. dir.link \in Ids
    BY <1>3, <2>1 DEF Dirs
  <2> DEFINE p == <<e, dir.link>>
  <2>3. p \in Ids \X Ids
    BY <2>2
  <2>4. dir.link \in dir.stores /\ Torn \notin RangeOf(store[p])
    BY <1>1, <1>3 DEF Whole
  <2> HIDE DEF p
  <2>5. Last(store[p]) \in RangeOf(store[p]) /\ RangeOf(store[p]) \subseteq Files
    BY <1>1, <2>3, FileLogs
  <2>6. Last(store[p]) \in Contents
    BY <2>4, <2>5 DEF Files
  <2> QED BY <2>2, <2>4, <2>5, <2>6 DEF p
<1>4. \A dir \in RangeOf(entry[e]) : Surviving(e, dir) = LinkRisk(store, e, dir)
  BY <1>3 DEF Surviving, Exists, LinkRisk
<1>5. Content(e) = LinkValue(store, e, DirOf(e))
  BY <1>2, <1>3 DEF Content, Exists, LinkValue
<1>6. Content(e) # NoModel /\ Content(e) \in LinkRisk(store, e, DirOf(e))
  <2>1. CASE DirOf(e).link = None
    BY <1>5, <2>1, ReadAssumption DEF LinkValue, LinkRisk
  <2>2. CASE DirOf(e).link # None
    BY <1>2, <1>3, <1>5, <2>2, ReadAssumption DEF LinkValue, LinkRisk
  <2> QED BY <2>1, <2>2
<1> QED BY <1>2, <1>3, <1>4, <1>5, <1>6

(* Every entry that a log of the storage root names is in use.             *)
LEMMA NamedIsUsed ==
  ASSUME TypeOK, NEW m \in Models
  PROVE  /\ \A e \in RangeOf(root[m]) : e # None => e \in Ids /\ InUse(e)
         /\ EntryOf(m) \in RangeOf(root[m])
  BY FileLogs DEF InUse, Roots, EntryOf

(* What is read is a function of the logs, and may be read after a failure. *)
LEMMA StoreReads == StoreInv => Reads
<1> SUFFICES ASSUME StoreInv, NEW m \in Models
             PROVE  /\ Load(m) = ValueOf(root[m], entry, store)
                    /\ AtRisk(m) = RiskOf(root[m], entry, store)
                    /\ Load(m) \in AtRisk(m)
  BY DEF Reads
<1>0. Base /\ TypeOK
  BY DEF StoreInv, Base
<1>1. /\ \A e \in RangeOf(root[m]) : e # None => e \in Ids /\ InUse(e)
      /\ EntryOf(m) \in RangeOf(root[m])
  BY <1>0, NamedIsUsed
<1>2. ASSUME NEW e \in RangeOf(root[m]), e # None
      PROVE  UNION {Surviving(e, dir) : dir \in RangeOf(entry[e])} = EntryRisk(store, e, entry[e])
  <2>1. \A dir \in RangeOf(entry[e]) : Surviving(e, dir) = LinkRisk(store, e, dir)
    BY <1>0, <1>1, <1>2, ReadEntry
  <2> QED BY <2>1 DEF EntryRisk
<1>3. AtRisk(m) = RiskOf(root[m], entry, store)
  BY <1>2 DEF AtRisk, RiskOf
<1>4. CASE EntryOf(m) = None
  BY <1>1, <1>3, <1>4 DEF Load, EntryOf, ValueOf, RiskOf
<1>5. CASE EntryOf(m) # None
  <2> DEFINE e == EntryOf(m)
  <2>1. /\ DirOf(e) \in RangeOf(entry[e])
        /\ Content(e) = LinkValue(store, e, DirOf(e))
        /\ Content(e) \in LinkRisk(store, e, DirOf(e))
    BY <1>0, <1>1, <1>5, ReadEntry
  <2>2. Load(m) = Content(e)
    BY <1>5 DEF Load, Content
  <2>3. Load(m) = ValueOf(root[m], entry, store)
    BY <1>5, <2>1, <2>2 DEF ValueOf, EntryOf, DirOf
  <2>4. Load(m) \in EntryRisk(store, e, entry[e])
    BY <2>1, <2>2 DEF EntryRisk
  <2>5. Load(m) \in RiskOf(root[m], entry, store)
    BY <1>1, <1>5, <2>4 DEF RiskOf
  <2> QED BY <1>3, <2>3, <2>5
<1> QED BY <1>3, <1>4, <1>5

(* What a step leaves of a model, or takes away from what is at risk.      *)
Same(m) == /\ ValueOf(root'[m], entry', store') = ValueOf(root[m], entry, store)
           /\ RiskOf(root'[m], entry', store') = RiskOf(root[m], entry, store)
Kept(m) == /\ ValueOf(root'[m], entry', store') = ValueOf(root[m], entry, store)
           /\ RiskOf(root'[m], entry', store') \subseteq RiskOf(root[m], entry, store)

(* Changes that reach the disk, and changes of what no link is on.         *)
Calm ==
  /\ \A m \in Models : /\ Last(root'[m]) = Last(root[m])
                       /\ RangeOf(root'[m]) \subseteq RangeOf(root[m])
  /\ \A e \in Ids : InUse(e) =>
       /\ Last(entry'[e]).link = Last(entry[e]).link
       /\ \A dir \in RangeOf(entry'[e]) : \E old \in RangeOf(entry[e]) : old.link = dir.link
       /\ \A dir \in RangeOf(entry[e]) : dir.link # None =>
            /\ Last(store'[<<e, dir.link>>]) = Last(store[<<e, dir.link>>])
            /\ RangeOf(store'[<<e, dir.link>>]) \subseteq RangeOf(store[<<e, dir.link>>])

(* A calm step settles what is at risk.                                    *)
LEMMA CalmKeeps ==
  ASSUME Base, Calm, NEW m \in Models
  PROVE  Kept(m)
<1>0. TypeOK
  BY DEF Base
<1>1. /\ \A e \in RangeOf(root[m]) : e # None => e \in Ids /\ InUse(e)
      /\ Last(root[m]) \in RangeOf(root[m])
  BY <1>0, NamedIsUsed DEF EntryOf
<1>2. /\ Last(root'[m]) = Last(root[m]) /\ RangeOf(root'[m]) \subseteq RangeOf(root[m])
  BY DEF Calm
<1>3. ASSUME NEW e \in RangeOf(root[m]), e # None
      PROVE  /\ Last(entry[e]) \in RangeOf(entry[e])
             /\ Last(entry'[e]).link = Last(entry[e]).link
             /\ \A dir \in RangeOf(entry'[e]) : \E old \in RangeOf(entry[e]) : old.link = dir.link
             /\ \A dir \in RangeOf(entry[e]) : dir.link # None =>
                  /\ Last(store'[<<e, dir.link>>]) = Last(store[<<e, dir.link>>])
                  /\ RangeOf(store'[<<e, dir.link>>]) \subseteq RangeOf(store[<<e, dir.link>>])
  <2>1. e \in Ids /\ InUse(e)
    BY <1>1, <1>3
  <2>2. Last(entry[e]) \in RangeOf(entry[e])
    BY <1>0, <2>1, FileLogs
  <2> QED BY <2>1, <2>2 DEF Calm
<1>4. ASSUME NEW e \in RangeOf(root[m]), e # None
      PROVE  EntryRisk(store', e, entry'[e]) \subseteq EntryRisk(store, e, entry[e])
  <2> SUFFICES ASSUME NEW dir \in RangeOf(entry'[e]), NEW x \in LinkRisk(store', e, dir)
               PROVE  x \in EntryRisk(store, e, entry[e])
    BY DEF EntryRisk
  <2>1. PICK old \in RangeOf(entry[e]) : old.link = dir.link
    BY <1>3, <1>4
  <2>2. x \in LinkRisk(store, e, old)
    BY <1>3, <1>4, <2>1 DEF LinkRisk
  <2> QED BY <2>2 DEF EntryRisk
<1>5. RiskOf(root'[m], entry', store') \subseteq RiskOf(root[m], entry, store)
  BY <1>2, <1>4 DEF RiskOf
<1>6. ValueOf(root'[m], entry', store') = ValueOf(root[m], entry, store)
  BY <1>1, <1>2, <1>3 DEF ValueOf, LinkValue
<1> QED BY <1>5, <1>6 DEF Kept

(* A runner changes nothing that is read of a model but its own.           *)
LEMMA OthersRead ==
  ASSUME Base, NEW p \in Models, Runner(p) \/ Die(p), NEW m \in Models, m # p,
         root'[m] = root[m]
  PROVE  Same(m)
<1>0. TypeOK /\ Jobs /\ Names /\ Owners /\ EntriesWhole /\ SaveOrder
  BY DEF Base
<1>1. /\ \A e \in RangeOf(root[m]) : e # None => e \in Ids /\ InUse(e)
      /\ Last(root[m]) \in RangeOf(root[m])
  BY <1>0, NamedIsUsed DEF EntryOf
<1>2. ASSUME NEW e \in RangeOf(root[m]), e # None
      PROVE  entry'[e] = entry[e] /\ \A s \in Ids : store'[<<e, s>>] = store[<<e, s>>]
  <2>1. e \in Ids /\ InUse(e)
    BY <1>1, <1>2
  <2>2. e \notin RangeOf(root[p])
    BY <1>0, <1>2 DEF Owners
  <2> QED BY <1>0, <2>1, <2>2, OthersLeave
<1>3. ASSUME NEW e \in RangeOf(root[m]), e # None, NEW dir \in RangeOf(entry[e])
      PROVE  /\ LinkRisk(store', e, dir) = LinkRisk(store, e, dir)
             /\ LinkValue(store', e, dir) = LinkValue(store, e, dir)
  <2>1. dir \in Dirs
    BY <1>0, <1>1, <1>3, FileLogs
  <2>2. dir.link # None => store'[<<e, dir.link>>] = store[<<e, dir.link>>]
    BY <1>2, <1>3, <2>1 DEF Dirs
  <2> QED BY <2>2 DEF LinkRisk, LinkValue
<1>4. ASSUME NEW e \in RangeOf(root[m]), e # None
      PROVE  EntryRisk(store', e, entry'[e]) = EntryRisk(store, e, entry[e])
  BY <1>2, <1>3, <1>4 DEF EntryRisk
<1>5. RiskOf(root'[m], entry', store') = RiskOf(root[m], entry, store)
  BY <1>4 DEF RiskOf
<1>6. ValueOf(root'[m], entry', store') = ValueOf(root[m], entry, store)
  <2>1. Last(root[m]) # None => Last(entry[Last(root[m])]) \in RangeOf(entry[Last(root[m])])
    BY <1>0, <1>1, FileLogs
  <2> QED BY <1>1, <1>2, <1>3, <2>1 DEF ValueOf
<1> QED BY <1>5, <1>6 DEF Same

(* The steps that start an operation, sync what one has changed, or change *)
(* what no link is on, are calm.                                           *)
LEMMA CalmSteps ==
  ASSUME Base, NEW p \in Models,
         \/ Define(p) \/ \E d \in Models : Clone(p, d)
         \/ SyncRoot(p) \/ Destroy(p) \/ Save(p) \/ SyncStore(p) \/ RenameStore(p)
         \/ SyncEntry(p) \/ RemoveOld(p) \/ UnlinkOld(p) \/ UpdateAttributes(p)
         \/ SyncAttributes(p) \/ Die(p)
  PROVE  Calm
<1>0. TypeOK /\ Jobs /\ Names /\ Owners /\ EntriesWhole /\ SaveOrder
  BY DEF Base
<1> DEFINE Dirs1(e) ==
             /\ Last(entry'[e]).link = Last(entry[e]).link
             /\ \A dir \in RangeOf(entry'[e]) : \E old \in RangeOf(entry[e]) : old.link = dir.link
           Files1(e, s) == /\ Last(store'[<<e, s>>]) = Last(store[<<e, s>>])
                           /\ RangeOf(store'[<<e, s>>]) \subseteq RangeOf(store[<<e, s>>])
           Entry1(e) == Dirs1(e) /\ \A dir \in RangeOf(entry[e]) :
                                      dir.link # None => Files1(e, dir.link)
           Roots1 == \A m \in Models : /\ Last(root'[m]) = Last(root[m])
                                       /\ RangeOf(root'[m]) \subseteq RangeOf(root[m])
<1>1. Roots1 /\ (\A e \in Ids : InUse(e) => Entry1(e)) => Calm
  BY DEF Calm
<1>2. UNCHANGED root => Roots1
  OBVIOUS
<1>3. ASSUME NEW e \in Ids, entry'[e] = entry[e]
      PROVE  Dirs1(e)
  BY <1>3
<1>4. ASSUME NEW e \in Ids, InUse(e)
      PROVE  /\ e # ops + 1 /\ Last(entry[e]) \in RangeOf(entry[e])
             /\ \A dir \in RangeOf(entry[e]) : dir.link # None =>
                  /\ dir.link \in Ids /\ dir.link # ops + 1
                  /\ Last(store[<<e, dir.link>>]) \in RangeOf(store[<<e, dir.link>>])
  <2>1. ops + 1 \notin 1 .. ops \cup {None} /\ ops + 1 # None
    BY <1>0, StoreAssumption DEF TypeOK
  <2>2. e # ops + 1
    BY <1>0, <1>4, <2>1 DEF Names, InUse
  <2>3. \A dir \in RangeOf(entry[e]) : dir.link # ops + 1
    BY <1>0, <2>1 DEF Names
  <2> QED BY <1>4, <2>2, <2>3, ReadEntry DEF DirOf
<1>5. ASSUME NEW e \in Ids, InUse(e), entry'[e] = entry[e],
             \A s \in Ids : store'[<<e, s>>] = store[<<e, s>>]
      PROVE  Entry1(e)
  BY <1>3, <1>4, <1>5
<1>6. ASSUME UNCHANGED <<root, entry, store>>
      PROVE  Calm
  BY <1>1, <1>2, <1>5, <1>6
<1> HIDE DEF Roots1
<1>7. CASE Define(p) \/ UpdateAttributes(p) \/ Die(p)
  BY <1>0, <1>6, <1>7, DefineDoes, UpdateAttributesDoes, DieDoes
<1>8. ASSUME NEW d \in Models, Clone(p, d)
      PROVE  Calm
  <2>1. UNCHANGED root
    BY <1>0, <1>8, CloneDoes
  <2>2. /\ \A i \in Ids \ {ops + 1} : entry'[i] = entry[i]
        /\ \A i \in Ids \ {ops + 1}, s \in Ids : store'[<<i, s>>] = store[<<i, s>>]
    BY <1>0, <1>8, Cloned
  <2> QED BY <1>1, <1>2, <1>4, <1>5, <2>1, <2>2
<1>9. CASE SyncRoot(p)
  <2>1. /\ UNCHANGED <<entry, store>>
        /\ \A m \in Models : Last(root'[m]) = Last(root[m]) /\ RangeOf(root'[m]) = {Last(root[m])}
    BY <1>0, <1>9, SyncRootDoes
  <2>2. \A m \in Models : Last(root[m]) \in RangeOf(root[m])
    BY <1>0, FileLogs
  <2>3. Roots1
    BY <2>1, <2>2 DEF Roots1
  <2> QED BY <1>1, <1>5, <2>1, <2>3
<1>10. CASE Destroy(p)
  <2> DEFINE i == job[p].entry
  <2>1. i \in Ids /\ UNCHANGED root /\ pc[p] = "destroy"
    BY <1>0, <1>10, DestroyDoes DEF Ends
  <2>2. ~InUse(i)
    BY <1>0, <2>1, OwnChange
  <2>3. /\ \A e \in Ids \ {i} : entry'[e] = entry[e]
        /\ \A e \in Ids \ {i}, s \in Ids : store'[<<e, s>>] = store[<<e, s>>]
    BY <1>0, <1>10, <2>1, Destroyed
  <2> QED BY <1>1, <1>2, <1>5, <2>1, <2>2, <2>3
<1>11. CASE Save(p)
  <2>1. UNCHANGED <<root, entry>>
    BY <1>0, <1>11, SaveDoes
  <2>2. \A e, s \in Ids : s # ops + 1 => store'[<<e, s>>] = store[<<e, s>>]
    BY <1>0, <1>11, SaveDoes
  <2>3. ASSUME NEW e \in Ids, InUse(e) PROVE Entry1(e)
    BY <1>3, <1>4, <2>1, <2>2, <2>3
  <2> QED BY <1>1, <1>2, <2>1, <2>3
<1>12. CASE SyncStore(p) \/ SyncAttributes(p)
  <2> DEFINE i == job[p].entry
             n == job[p].store
  <2>1. /\ UNCHANGED <<root, entry>>
        /\ Last(store'[<<i, n>>]) = Last(store[<<i, n>>])
        /\ RangeOf(store'[<<i, n>>]) = {Last(store[<<i, n>>])}
        /\ \A e, s \in Ids : e # i \/ s # n => store'[<<e, s>>] = store[<<e, s>>]
    BY <1>0, <1>12, SyncStoreDoes, SyncAttributesDoes DEF NewStore
  <2> HIDE DEF i, n
  <2>2. ASSUME NEW e \in Ids, InUse(e) PROVE Entry1(e)
    <3>1. ASSUME NEW dir \in RangeOf(entry[e]), dir.link # None PROVE Files1(e, dir.link)
      <4>1. /\ dir.link \in Ids
            /\ Last(store[<<e, dir.link>>]) \in RangeOf(store[<<e, dir.link>>])
        BY <1>4, <2>2, <3>1
      <4>2. CASE e = i /\ dir.link = n
        BY <2>1, <4>1, <4>2
      <4>3. CASE e # i \/ dir.link # n
        BY <2>1, <4>1, <4>3
      <4> QED BY <4>2, <4>3
    <3>2. Dirs1(e)
      BY <1>3, <2>1
    <3> QED BY <3>1, <3>2
  <2> QED BY <1>1, <1>2, <2>1, <2>2
<1>13. ASSUME NEW i \in Ids, NEW dir, dir.link = DirOf(i).link, Last(entry'[i]) = dir,
              RangeOf(entry'[i]) \subseteq RangeOf(entry[i]) \cup {dir},
              \A e \in Ids \ {i} : entry'[e] = entry[e], UNCHANGED <<root, store>>
       PROVE  Calm
  <2>1. ASSUME NEW e \in Ids, InUse(e) PROVE Entry1(e)
    <3>1. CASE e # i
      BY <1>5, <1>13, <2>1, <3>1
    <3>2. CASE e = i
      <4>1. Last(entry[e]) \in RangeOf(entry[e]) /\ dir.link = Last(entry[e]).link
        BY <1>4, <1>13, <2>1, <3>2 DEF DirOf
      <4>2. Dirs1(e)
        BY <1>13, <3>2, <4>1
      <4>3. \A d \in RangeOf(entry[e]) : d.link # None => Files1(e, d.link)
        BY <1>13
      <4> QED BY <4>2, <4>3
    <3> QED BY <3>1, <3>2
  <2> QED BY <1>1, <1>2, <1>13, <2>1
<1>14. CASE RenameStore(p)
  <2>1. job[p].entry \in Ids
    BY <1>0, <1>14, OwnEntry DEF RenameStore, Step, SaveSteps
  <2> QED BY <1>0, <1>13, <1>14, <2>1, RenameStoreDoes
<1>15. CASE UnlinkOld(p)
  <2>1. job[p].entry \in Ids
    BY <1>0, <1>15, OwnEntry DEF UnlinkOld, Step, SaveSteps
  <2> QED BY <1>0, <1>13, <1>15, <2>1, UnlinkOldDoes
<1>16. CASE SyncEntry(p)
  <2>1. job[p].entry \in Ids
    BY <1>0, <1>16, OwnEntry DEF SyncEntry, Step, SaveSteps
  <2> QED BY <1>0, <1>13, <1>16, <2>1, SyncEntryDoes
<1>17. CASE RemoveOld(p)
  <2> DEFINE i == job[p].entry
  <2>1. pc[p] = "removeOld"
    BY <1>17 DEF RemoveOld, Step
  <2>2. i \in Ids /\ job[p].old \in Ids
    BY <1>0, <2>1, OwnEntry DEF SaveSteps, Jobs
  <2>3. /\ \A dir \in RangeOf(entry[i]) : dir.link = job[p].store
        /\ job[p].old # job[p].store
    BY <1>0, <2>1, <2>2, StoreAssumption DEF SaveOrder, Ids
  <2>4. /\ UNCHANGED <<root, entry>>
        /\ \A e, s \in Ids : e # i \/ s # job[p].old => store'[<<e, s>>] = store[<<e, s>>]
    BY <1>0, <1>17, RemoveOldDoes
  <2> HIDE DEF i
  <2>5. ASSUME NEW e \in Ids, InUse(e) PROVE Entry1(e)
    <3>1. ASSUME NEW dir \in RangeOf(entry[e]), dir.link # None PROVE Files1(e, dir.link)
      <4>1. dir.link \in Ids
        BY <1>4, <2>5, <3>1
      <4>2. e # i \/ dir.link # job[p].old
        BY <2>3, <3>1
      <4> QED BY <2>4, <4>1, <4>2
    <3>2. Dirs1(e)
      BY <1>3, <2>4
    <3> QED BY <3>1, <3>2
  <2> QED BY <1>1, <1>2, <2>4, <2>5
<1> QED BY <1>7, <1>8, <1>9, <1>10, <1>11, <1>12, <1>14, <1>15, <1>16, <1>17

(* What reaches the disk on its own is calm.                               *)
LEMMA CalmWriteBack ==
  ASSUME Base, WriteBack
  PROVE  Calm
<1>0. TypeOK
  BY DEF Base
<1>1. /\ \A m \in Models : /\ Last(root'[m]) = Last(root[m])
                           /\ RangeOf(root'[m]) \subseteq RangeOf(root[m])
      /\ \A e \in Ids : /\ Last(entry'[e]) = Last(entry[e])
                        /\ RangeOf(entry'[e]) \subseteq RangeOf(entry[e])
      /\ \A s \in Ids \X Ids : /\ Last(store'[s]) = Last(store[s])
                               /\ RangeOf(store'[s]) \subseteq RangeOf(store[s])
  BY <1>0, WrittenBack
<1>2. ASSUME NEW e \in Ids, InUse(e), NEW dir \in RangeOf(entry[e]), dir.link # None
      PROVE  <<e, dir.link>> \in Ids \X Ids
  BY <1>2, ReadEntry
<1> QED BY <1>1, <1>2 DEF Calm

(* One entry of a model has one more content at risk.                      *)
LEMMA RiskGrows ==
  ASSUME NEW p \in Models, NEW x, NEW e \in RangeOf(root[p]), e # None,
         EntryRisk(store', e, entry'[e]) = EntryRisk(store, e, entry[e]) \cup {x},
         \A i \in RangeOf(root[p]) : i # None /\ i # e =>
           EntryRisk(store', i, entry'[i]) = EntryRisk(store, i, entry[i])
  PROVE  RiskOf(root[p], entry', store') = RiskOf(root[p], entry, store) \cup {x}
  BY DEF RiskOf

(* Changes of the present entry of a model: the others are as they were.   *)
LEMMA OtherEntries ==
  ASSUME Base, NEW p \in Models, NEW e \in Ids, NEW i \in Ids, i # e, InUse(i),
         entry'[i] = entry[i], \A s \in Ids : store'[<<i, s>>] = store[<<i, s>>]
  PROVE  EntryRisk(store', i, entry'[i]) = EntryRisk(store, i, entry[i])
<1>1. ASSUME NEW dir \in RangeOf(entry[i])
      PROVE  LinkRisk(store', i, dir) = LinkRisk(store, i, dir)
  <2>1. dir.link # None => dir.link \in Ids
    BY ReadEntry
  <2>2. dir.link # None => store'[<<i, dir.link>>] = store[<<i, dir.link>>]
    BY <2>1
  <2> QED BY <2>2 DEF LinkRisk
<1> QED BY <1>1 DEF EntryRisk

(* The switch of the link replaces the content by the one that was saved.  *)
LEMMA SwitchReplaces ==
  ASSUME Base, NEW p \in Models, SwitchLink(p)
  PROVE  \E new \in Contents :
           /\ EntryOf(p) # None
           /\ ValueOf(root'[p], entry', store') = new
           /\ RiskOf(root'[p], entry', store') = RiskOf(root[p], entry, store) \cup {new}
           /\ \A m \in Models \ {p} : Same(m)
<1>0. TypeOK /\ Jobs /\ Names /\ Owners /\ EntriesWhole /\ SaveOrder
  BY DEF Base
<1> DEFINE e == EntryOf(p)
           s == job[p].store
           new == Last(store[<<e, s>>])
<1>1. pc[p] = "switchLink"
  BY DEF SwitchLink, Step
<1>2. e \in Ids /\ s \in Ids /\ job[p].entry = e /\ e \in RangeOf(root[p])
  BY <1>0, <1>1, OwnEntry DEF SaveSteps
<1>3. e # None /\ s # None
  BY <1>2, StoreAssumption DEF Ids
<1>4. new \in Contents /\ RangeOf(store[<<e, s>>]) = {new}
  BY <1>0, <1>1, <1>2 DEF SaveOrder, NewStore
<1>5. PICK dir \in Dirs : /\ dir.link = s /\ Last(entry'[e]) = dir
                          /\ RangeOf(entry'[e]) = RangeOf(entry[e]) \cup {dir}
  BY <1>0, <1>2, SwitchLinkDoes
<1>6. /\ \A i \in Ids \ {e} : entry'[i] = entry[i]
      /\ UNCHANGED <<root, store>>
  BY <1>0, <1>2, SwitchLinkDoes
<1>7. Last(root'[p]) = e
  BY <1>6 DEF EntryOf
<1>8. \A i \in RangeOf(root[p]) : i # None => i \in Ids /\ InUse(i)
  BY <1>0, NamedIsUsed
<1> HIDE DEF e, s, new
<1>9. ValueOf(root'[p], entry', store') = new
  BY <1>3, <1>5, <1>6, <1>7 DEF ValueOf, LinkValue, new
<1>10. EntryRisk(store', e, entry'[e]) = EntryRisk(store, e, entry[e]) \cup {new}
  <2>1. LinkRisk(store, e, dir) = {new}
    BY <1>3, <1>4, <1>5 DEF LinkRisk
  <2> QED BY <1>5, <1>6, <2>1 DEF EntryRisk
<1>11. \A i \in RangeOf(root[p]) : i # None /\ i # e =>
         EntryRisk(store', i, entry'[i]) = EntryRisk(store, i, entry[i])
  BY <1>6, <1>8
<1>12. RiskOf(root[p], entry', store') = RiskOf(root[p], entry, store) \cup {new}
  BY <1>2, <1>3, <1>10, <1>11, RiskGrows
<1>13. ASSUME NEW m \in Models \ {p} PROVE Same(m)
  BY <1>6, OthersRead DEF Runner
<1> QED BY <1>3, <1>4, <1>6, <1>9, <1>12, <1>13 DEF e

(* The rename of the attributes replaces the content by one of the same    *)
(* model.                                                                  *)
LEMMA AttributesReplace ==
  ASSUME Base, NEW p \in Models, ReplaceAttributes(p)
  PROVE  \E new \in Contents :
           /\ ValueOf(root[p], entry, store) \in Contents
           /\ new.model = ValueOf(root[p], entry, store).model
           /\ ValueOf(root'[p], entry', store') = new
           /\ RiskOf(root'[p], entry', store') = RiskOf(root[p], entry, store) \cup {new}
           /\ \A m \in Models \ {p} : Same(m)
<1>0. TypeOK /\ Jobs /\ Names /\ Owners /\ EntriesWhole /\ SaveOrder
  BY DEF Base
<1> DEFINE e == EntryOf(p)
           s == job[p].store
<1>1. pc[p] = "replace"
  BY DEF ReplaceAttributes, Step
<1>2. e \in Ids /\ s \in Ids /\ job[p].entry = e /\ e \in RangeOf(root[p])
  BY <1>0, <1>1, OwnEntry DEF AttributeSteps
<1>3. e # None /\ s # None
  BY <1>2, StoreAssumption DEF Ids
<1>4. Last(store[<<e, s>>]) \in Contents /\ Last(entry[e]).link = s
      /\ Last(entry[e]) \in RangeOf(entry[e])
  BY <1>0, <1>1, <1>2, LinkedIsWhole, FileLogs DEF NewStore, DirOf, AttributeSteps
<1>5. PICK new \in Contents : /\ new.model = Last(store[<<e, s>>]).model
                              /\ Last(store'[<<e, s>>]) = new
                              /\ RangeOf(store'[<<e, s>>]) = RangeOf(store[<<e, s>>]) \cup {new}
  BY <1>0, <1>2, ReplaceAttributesDoes DEF NewStore
<1>6. /\ \A i, j \in Ids : i # e \/ j # s => store'[<<i, j>>] = store[<<i, j>>]
      /\ UNCHANGED <<root, entry>>
  BY <1>0, <1>2, ReplaceAttributesDoes
<1>7. Last(root[p]) = e
  BY DEF EntryOf
<1>8. \A i \in RangeOf(root[p]) : i # None => i \in Ids /\ InUse(i)
  BY <1>0, NamedIsUsed
<1> HIDE DEF e, s
<1>9. ValueOf(root[p], entry, store) = Last(store[<<e, s>>])
  BY <1>3, <1>4, <1>7 DEF ValueOf, LinkValue
<1>10. ValueOf(root'[p], entry', store') = new
  BY <1>3, <1>4, <1>5, <1>6, <1>7 DEF ValueOf, LinkValue
<1>11. EntryRisk(store', e, entry'[e]) = EntryRisk(store, e, entry[e]) \cup {new}
  <2>1. ASSUME NEW dir \in RangeOf(entry[e])
        PROVE  LinkRisk(store', e, dir) = IF dir.link = s THEN LinkRisk(store, e, dir) \cup {new}
                                                          ELSE LinkRisk(store, e, dir)
    <3>1. dir.link # None => dir.link \in Ids
      BY <1>2, <1>3, <1>8, ReadEntry
    <3> QED BY <1>2, <1>3, <1>5, <1>6, <3>1 DEF LinkRisk
  <2> DEFINE dir == Last(entry[e])
  <2>2. dir \in RangeOf(entry[e]) /\ dir.link = s
    BY <1>4
  <2>3. new \in LinkRisk(store', e, dir)
    BY <2>1, <2>2
  <2>4. new \in EntryRisk(store', e, entry'[e])
    BY <1>6, <2>2, <2>3 DEF EntryRisk
  <2>5. \A x \in EntryRisk(store, e, entry[e]) : x \in EntryRisk(store', e, entry'[e])
    BY <1>6, <2>1 DEF EntryRisk
  <2>6. \A x \in EntryRisk(store', e, entry'[e]) : x = new \/ x \in EntryRisk(store, e, entry[e])
    BY <1>6, <2>1 DEF EntryRisk
  <2> QED BY <2>4, <2>5, <2>6
<1>12. \A i \in RangeOf(root[p]) : i # None /\ i # e =>
         EntryRisk(store', i, entry'[i]) = EntryRisk(store, i, entry[i])
  BY <1>2, <1>6, <1>8, OtherEntries
<1>13. RiskOf(root[p], entry', store') = RiskOf(root[p], entry, store) \cup {new}
  BY <1>2, <1>3, <1>11, <1>12, RiskGrows
<1>14. ASSUME NEW m \in Models \ {p} PROVE Same(m)
  BY <1>6, OthersRead DEF Runner
<1> QED BY <1>4, <1>5, <1>6, <1>9, <1>10, <1>13, <1>14

(* The entry leaves the storage root: the model reads as not defined.      *)
LEMMA RemoveReplaces ==
  ASSUME Base, NEW p \in Models, Remove(p)
  PROVE  /\ EntryOf(p) # None
         /\ ValueOf(root'[p], entry', store') = NoModel
         /\ RiskOf(root'[p], entry', store') = RiskOf(root[p], entry, store) \cup {NoModel}
         /\ \A m \in Models \ {p} : Same(m)
<1>0. TypeOK
  BY DEF Base
<1>1. /\ EntryOf(p) # None
      /\ Last(root'[p]) = None /\ RangeOf(root'[p]) = RangeOf(root[p]) \cup {None}
      /\ UNCHANGED <<entry, store>>
  BY <1>0, RemoveDoes
<1>2. \A m \in Models \ {p} : root'[m] = root[m]
  BY <1>0, RemoveDoes
<1>3. \A m \in Models \ {p} : Same(m)
  BY <1>1, <1>2 DEF Same
<1>4. ValueOf(root'[p], entry', store') = NoModel
  BY <1>1 DEF ValueOf
<1>5. RiskOf(root'[p], entry', store') = RiskOf(root[p], entry, store) \cup {NoModel}
  BY <1>1 DEF RiskOf
<1> QED BY <1>1, <1>3, <1>4, <1>5

(* The rename into the storage root: the model reads as what was copied,   *)
(* or as never saved.                                                      *)
LEMMA PublishReplaces ==
  ASSUME Base, Copies, NEW p \in Models, Publish(p)
  PROVE  \/ \E c : LET d == job[p].dest
                   IN /\ d \in Models /\ EntryOf(d) = None
                      /\ ValueOf(root'[d], entry', store') = c
                      /\ RiskOf(root'[d], entry', store') = RiskOf(root[d], entry, store) \cup {c}
                      /\ \A m \in Models \ {d} : Same(m)
                      /\ \/ d = p /\ c = NoCheckpoint
                         \/ EntryOf(p) # None /\ c = ValueOf(root[p], entry, store)
         \/ Calm
<1>0. TypeOK /\ Jobs
  BY DEF Base
<1> DEFINE d == job[p].dest
           e == job[p].entry
<1>1. pc[p] = "publish" /\ e \in Ids /\ d \in Models /\ UNCHANGED <<entry, store>>
  BY <1>0, PublishDoes DEF Publish, Step
<1>2. CASE UNCHANGED root
  <2>1. \A i \in Ids : InUse(i) => \A dir \in RangeOf(entry[i]) : dir.link # None => dir.link \in Ids
    BY ReadEntry
  <2>2. Calm
    BY <1>1, <1>2 DEF Calm
  <2> QED BY <2>2
<1>3. CASE /\ EntryOf(d) = None
           /\ Last(root'[d]) = e
           /\ RangeOf(root'[d]) = RangeOf(root[d]) \cup {e}
           /\ \A m \in Models \ {d} : root'[m] = root[m]
  <2>1. InUse(e) /\ e # None
    BY <1>1, StoreAssumption DEF InUse, Ids
  <2>2. /\ DirOf(e) \in RangeOf(entry[e])
        /\ Content(e) = LinkValue(store, e, DirOf(e))
    BY <1>1, <2>1, ReadEntry
  <2>3. LinkSettled(e) /\ FilesSettled(e)
    BY <1>1 DEF Copies
  <2>4. \A dir \in RangeOf(entry[e]) : LinkRisk(store, e, dir) = {Content(e)}
    BY <2>2, <2>3 DEF LinkRisk, LinkValue, LinkSettled, FilesSettled
  <2>5. EntryRisk(store, e, entry[e]) = {Content(e)}
    BY <2>2, <2>4 DEF EntryRisk
  <2>6. ValueOf(root'[d], entry', store') = Content(e)
    BY <1>1, <1>3, <2>1, <2>2 DEF ValueOf, DirOf
  <2>7. RiskOf(root'[d], entry', store') = RiskOf(root[d], entry, store) \cup {Content(e)}
    BY <1>1, <1>3, <2>1, <2>5 DEF RiskOf
  <2>8. \A m \in Models \ {d} : Same(m)
    BY <1>1, <1>3 DEF Same
  <2>9. d = p => Content(e) = NoCheckpoint
    <3>1. d = p => DirOf(e) = EmptyEntry
      <4>1. Last(<<EmptyEntry>>) = EmptyEntry
        BY LogOfOne
      <4> QED BY <1>1, <4>1 DEF Copies, DirOf
    <3> QED BY <3>1 DEF Content, EmptyEntry
  <2>10. d # p => EntryOf(p) # None /\ Content(e) = ValueOf(root[p], entry, store)
    <3>1. d # p => EntryOf(p) # None /\ Content(e) = Content(EntryOf(p))
      BY <1>1 DEF Copies
    <3>2. EntryOf(p) # None => EntryOf(p) \in Ids /\ InUse(EntryOf(p))
      BY <1>0, NamedIsUsed
    <3>3. EntryOf(p) # None =>
            Content(EntryOf(p)) = LinkValue(store, EntryOf(p), DirOf(EntryOf(p)))
      BY <3>2, ReadEntry
    <3> QED BY <3>1, <3>3 DEF ValueOf, EntryOf, DirOf
  <2> HIDE DEF d, e
  <2> QED BY <1>1, <1>3, <2>6, <2>7, <2>8, <2>9, <2>10 DEF d
<1> QED BY <1>0, <1>2, <1>3, PublishDoes

(* A failure of the machine brings back something that was at risk.        *)
LEMMA FailureRestores ==
  ASSUME Base, MachineFails, NEW m \in Models
  PROVE  /\ ValueOf(root'[m], entry', store') \in RiskOf(root[m], entry, store)
         /\ RiskOf(root'[m], entry', store') = {ValueOf(root'[m], entry', store')}
<1>0. TypeOK
  BY DEF Base
<1> DEFINE e == Last(root'[m])
           dir == Last(entry'[e])
<1>1. e \in RangeOf(root[m]) /\ RangeOf(root'[m]) = {e}
  BY <1>0, Failed
<1>2. CASE e = None
  BY <1>1, <1>2 DEF ValueOf, RiskOf
<1>3. CASE e # None
  <2>1. e \in Ids /\ InUse(e)
    BY <1>0, <1>1, <1>3, NamedIsUsed
  <2>2. dir \in RangeOf(entry[e]) /\ RangeOf(entry'[e]) = {dir}
    BY <1>0, <2>1, Failed
  <2>3. dir.link # None => <<e, dir.link>> \in Ids \X Ids
    BY <2>1, <2>2, ReadEntry
  <2>4. dir.link # None => /\ Last(store'[<<e, dir.link>>]) \in RangeOf(store[<<e, dir.link>>])
                           /\ RangeOf(store'[<<e, dir.link>>]) = {Last(store'[<<e, dir.link>>])}
    BY <1>0, <2>3, Failed
  <2>5. ValueOf(root'[m], entry', store') = LinkValue(store', e, dir)
    BY <1>3 DEF ValueOf
  <2> HIDE DEF e, dir
  <2>6. /\ LinkValue(store', e, dir) \in LinkRisk(store, e, dir)
        /\ LinkRisk(store', e, dir) = {LinkValue(store', e, dir)}
    BY <2>4 DEF LinkValue, LinkRisk
  <2>7. LinkValue(store', e, dir) \in EntryRisk(store, e, entry[e])
        /\ EntryRisk(store', e, entry'[e]) = {LinkValue(store', e, dir)}
    BY <2>2, <2>6 DEF EntryRisk
  <2> QED BY <1>1, <1>3, <2>5, <2>7 DEF RiskOf
<1> QED BY <1>2, <1>3

(* The steps of the register, model by model.                              *)
LEMMA RegisterReplaces ==
  ASSUME NEW d \in Models, NEW x, Reads, Reads',
         ValueOf(root'[d], entry', store') = x,
         RiskOf(root'[d], entry', store') = RiskOf(root[d], entry, store) \cup {x},
         \A m \in Models \ {d} : Same(m)
  PROVE  Register!Replace(d, x)
<1>1. \A m \in Models : /\ Load(m) = ValueOf(root[m], entry, store)
                        /\ AtRisk(m) = RiskOf(root[m], entry, store)
  BY DEF Reads
<1>2. \A m \in Models : /\ Load(m)' = ValueOf(root'[m], entry', store')
                        /\ AtRisk(m)' = RiskOf(root'[m], entry', store')
  BY DEF Reads
<1>3. \A m \in Models : /\ Load(m)' = IF m = d THEN x ELSE Load(m)
                        /\ AtRisk(m)' = IF m = d THEN AtRisk(m) \cup {x} ELSE AtRisk(m)
  BY <1>1, <1>2 DEF Same
<1>4. /\ [m \in Models |-> Load(m)]' = [m \in Models |-> Load(m)']
      /\ [m \in Models |-> AtRisk(m)]' = [m \in Models |-> AtRisk(m)']
  OBVIOUS
<1>5. [m \in Models |-> Load(m)]' = [[m \in Models |-> Load(m)] EXCEPT ![d] = x]
  BY <1>3, <1>4
<1>6. [m \in Models |-> AtRisk(m)]' = [[m \in Models |-> AtRisk(m)] EXCEPT ![d] = @ \cup {x}]
  BY <1>3, <1>4
<1> QED BY <1>5, <1>6 DEF Register!Replace

(* Calm steps, and those that change nothing, settle.                      *)
LEMMA RegisterSettles ==
  ASSUME Reads, Reads', \A m \in Models : Kept(m)
  PROVE  Register!Settle
<1>1. \A m \in Models : /\ Load(m)' = Load(m)
                        /\ AtRisk(m)' \subseteq AtRisk(m)
                        /\ Load(m) \in AtRisk(m)'
  BY DEF Reads, Kept
<1>2. [m \in Models |-> Load(m)]' = [m \in Models |-> Load(m)]
  BY <1>1
<1>3. ASSUME NEW m \in Models
      PROVE  /\ [i \in Models |-> AtRisk(i)]'[m] \subseteq [i \in Models |-> AtRisk(i)][m]
             /\ [i \in Models |-> Load(i)][m] \in [i \in Models |-> AtRisk(i)]'[m]
  BY <1>1
<1> QED BY <1>2, <1>3 DEF Register!Settle

(* The initial states of the manager are those of the register.            *)
LEMMA RegisterStarts == Init => Register!RegisterInit
<1> SUFFICES ASSUME Init PROVE Register!RegisterInit
  OBVIOUS
<1>1. \A m \in Models : EntryOf(m) = None /\ RangeOf(root[m]) = {None}
  <2>1. RangeOf(<<None>>) = {None} /\ Last(<<None>>) = None
    BY LogOfOne DEF Roots
  <2> QED BY <2>1 DEF Init, EntryOf
<1>2. \A m \in Models : Load(m) = NoModel /\ AtRisk(m) = {NoModel}
  BY <1>1 DEF Load, AtRisk
<1> QED BY <1>2 DEF Register!RegisterInit

(* Every step of the manager is one of the register.                       *)
LEMMA RegisterSteps ==
  ASSUME StoreInv, Reads, Reads', [Next]_vars
  PROVE  Register!RegisterNext
<1>0. Base /\ Copies
  BY DEF StoreInv, Base
<1>1. \A m \in Models : /\ Load(m) = ValueOf(root[m], entry, store)
                        /\ AtRisk(m) = RiskOf(root[m], entry, store)
  BY DEF Reads
<1>2. \A m \in Models : /\ Load(m)' = ValueOf(root'[m], entry', store')
                        /\ AtRisk(m)' = RiskOf(root'[m], entry', store')
  BY DEF Reads
<1>3. ASSUME NEW m \in Models
      PROVE  EntryOf(m) = None <=> Load(m) = NoModel
  <2>1. CASE EntryOf(m) = None
    BY <2>1 DEF Load
  <2>2. CASE EntryOf(m) # None
    <3>1. Content(EntryOf(m)) # NoModel
      BY <1>0, <2>2, NamedIsUsed, ReadEntry DEF Base
    <3> QED BY <2>2, <3>1 DEF Load, Content
  <2> QED BY <2>1, <2>2
<1>4. ASSUME Calm
      PROVE  Register!RegisterNext
  BY <1>0, <1>4, CalmKeeps, RegisterSettles DEF Register!RegisterNext
<1>5. ASSUME NEW p \in Models, SwitchLink(p)
      PROVE  Register!RegisterNext
  <2>1. PICK new \in Contents :
           /\ EntryOf(p) # None
           /\ ValueOf(root'[p], entry', store') = new
           /\ RiskOf(root'[p], entry', store') = RiskOf(root[p], entry, store) \cup {new}
           /\ \A m \in Models \ {p} : Same(m)
    BY <1>0, <1>5, SwitchReplaces
  <2>2. Register!Replace(p, new)
    BY <2>1, RegisterReplaces
  <2>3. [m \in Models |-> Load(m)][p] # NoModel
    BY <1>3, <2>1
  <2>4. Register!Save(p)
    BY <2>2, <2>3 DEF Register!Save
  <2> QED BY <2>4 DEF Register!RegisterNext
<1>6. ASSUME NEW p \in Models, ReplaceAttributes(p)
      PROVE  Register!RegisterNext
  <2>1. PICK new \in Contents :
           /\ ValueOf(root[p], entry, store) \in Contents
           /\ new.model = ValueOf(root[p], entry, store).model
           /\ ValueOf(root'[p], entry', store') = new
           /\ RiskOf(root'[p], entry', store') = RiskOf(root[p], entry, store) \cup {new}
           /\ \A m \in Models \ {p} : Same(m)
    BY <1>0, <1>6, AttributesReplace
  <2>2. Register!Replace(p, new)
    BY <2>1, RegisterReplaces
  <2>3. [m \in Models |-> Load(m)][p] = ValueOf(root[p], entry, store)
    BY <1>1
  <2>4. Register!UpdateAttributes(p)
    BY <2>1, <2>2, <2>3 DEF Register!UpdateAttributes
  <2> QED BY <2>4 DEF Register!RegisterNext
<1>7. ASSUME NEW p \in Models, Remove(p)
      PROVE  Register!RegisterNext
  <2>1. Register!Replace(p, NoModel)
    BY <1>0, <1>7, RemoveReplaces, RegisterReplaces
  <2>2. [m \in Models |-> Load(m)][p] # NoModel
    BY <1>0, <1>3, <1>7, RemoveReplaces
  <2>3. Register!Remove(p)
    BY <2>1, <2>2 DEF Register!Remove
  <2> QED BY <2>3 DEF Register!RegisterNext
<1>8. ASSUME NEW p \in Models, Publish(p)
      PROVE  Register!RegisterNext
  <2> DEFINE d == job[p].dest
  <2>1. ASSUME NEW x, d \in Models, EntryOf(d) = None,
               ValueOf(root'[d], entry', store') = x,
               RiskOf(root'[d], entry', store') = RiskOf(root[d], entry, store) \cup {x},
               \A m \in Models \ {d} : Same(m),
               \/ d = p /\ x = NoCheckpoint
               \/ EntryOf(p) # None /\ x = ValueOf(root[p], entry, store)
        PROVE  Register!RegisterNext
    <3> HIDE DEF d
    <3>1. Register!Replace(d, x)
      BY <2>1, RegisterReplaces
    <3>2. [m \in Models |-> Load(m)][d] = NoModel
      BY <1>3, <2>1
    <3>3. CASE d = p /\ x = NoCheckpoint
      <4>1. Register!Define(p)
        BY <3>1, <3>2, <3>3 DEF Register!Define
      <4> QED BY <4>1 DEF Register!RegisterNext
    <3>4. CASE EntryOf(p) # None /\ x = ValueOf(root[p], entry, store)
      <4>1. /\ [m \in Models |-> Load(m)][p] = x
            /\ [m \in Models |-> Load(m)][p] # NoModel
        BY <1>1, <1>3, <3>4
      <4>2. Register!Clone(p, d)
        BY <3>1, <3>2, <4>1 DEF Register!Clone
      <4> QED BY <2>1, <4>2 DEF Register!RegisterNext
    <3> QED BY <2>1, <3>3, <3>4
  <2> QED BY <1>0, <1>4, <1>8, <2>1, PublishReplaces
<1>9. CASE MachineFails
  <2>1. \A m \in Models : /\ ValueOf(root'[m], entry', store') \in RiskOf(root[m], entry, store)
                          /\ RiskOf(root'[m], entry', store') = {ValueOf(root'[m], entry', store')}
    BY <1>0, <1>9, FailureRestores
  <2>2. \A m \in Models : Load(m)' \in AtRisk(m) /\ AtRisk(m)' = {Load(m)'}
    BY <1>1, <1>2, <2>1
  <2>3. \A m \in Models : [i \in Models |-> Load(i)]'[m] \in [i \in Models |-> AtRisk(i)][m]
    BY <2>2
  <2>4. [i \in Models |-> AtRisk(i)]' = [m \in Models |-> {[i \in Models |-> Load(i)]'[m]}]
    BY <2>2
  <2>5. Register!MachineFails
    BY <2>3, <2>4 DEF Register!MachineFails
  <2> QED BY <2>5 DEF Register!RegisterNext
<1>10. CASE WriteBack
  BY <1>0, <1>4, <1>10, CalmWriteBack
<1>11. CASE UNCHANGED vars
  <2>1. \A m \in Models : Kept(m)
    BY <1>11 DEF Kept, vars, fileVars
  <2> QED BY <2>1, RegisterSettles DEF Register!RegisterNext
<1>12. ASSUME NEW p \in Models, Runner(p) \/ Die(p)
       PROVE  Register!RegisterNext
  <2>1. CASE \/ Define(p) \/ \E d \in Models : Clone(p, d)
             \/ SyncRoot(p) \/ Destroy(p) \/ Save(p) \/ SyncStore(p) \/ RenameStore(p)
             \/ SyncEntry(p) \/ RemoveOld(p) \/ UnlinkOld(p) \/ UpdateAttributes(p)
             \/ SyncAttributes(p) \/ Die(p)
    BY <1>0, <1>4, <2>1, CalmSteps
  <2> QED BY <1>5, <1>6, <1>7, <1>8, <1>12, <2>1 DEF Runner
<1> QED BY <1>9, <1>10, <1>11, <1>12 DEF Next

(* The promise of the class comment, whatever fails and however often:     *)
(* each operation replaces what is read of a model in one step, and a      *)
(* failure of the machine brings back something that was read as a whole   *)
(* and that no later operation had settled.                                *)
THEOREM StoreIsRegister == Spec => ImplementsRegister
<1>1. Init => Register!RegisterInit
  BY RegisterStarts
<1>2. StoreInv => Reads
  BY StoreReads
<1>3. StoreInv /\ Reads /\ Reads' /\ [Next]_vars
        => [Register!RegisterNext]_(Register!registerVars)
  BY RegisterSteps
<1> QED BY <1>1, <1>2, <1>3, StoreInvariant, PTL DEF Spec, ImplementsRegister, Register!RegisterSpec
=============================================================================
