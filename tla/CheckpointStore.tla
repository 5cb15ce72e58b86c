-------------------------- MODULE CheckpointStore --------------------------
(***************************************************************************)
(* ModelCheckpointMgr on its file system: the renames, the switch of the   *)
(* link and the fsync calls of each operation, one at a time.  A runner    *)
(* process may die between any two of them, and the machine may fail.      *)
(*                                                                         *)
(* The file system (external): what was done to one directory, or to the   *)
(* files of one checkpoint store, reaches the disk in order, some time     *)
(* later or when it is synced; different directories are independent.      *)
(* Each has a log: its head is on the disk, its last element is what the   *)
(* processes see, and a failure of the machine leaves the head.            *)
(*                                                                         *)
(* The runner of a model is the only process that changes its entry,       *)
(* except that a clone may create the entry of another model.  Operation n *)
(* creates entry n or store n: their names, and the temporary directories, *)
(* are unique.  What happens in the scratch directory is seen by nobody,   *)
(* so that building a tree there and syncing it is part of the step that   *)
(* needs it, unless the order matters.                                     *)
(***************************************************************************)
EXTENDS Integers, Sequences, FiniteSets

CONSTANTS Models,
          None,          (* no entry, no checkpoint                        *)
          NoModel, NoCheckpoint,
          Torn,          (* missing or incomplete files                    *)
          MaxOps,        (* bound: operations started                      *)
          MaxDeaths,     (* bound: deaths of a runner                      *)
          MaxFailures    (* bound: failures of the machine                 *)

ASSUME StoreAssumption ==
  /\ MaxOps \in Nat /\ MaxDeaths \in Nat /\ MaxFailures \in Nat
  /\ None \notin Nat /\ None \notin Models

Ids == 1 .. MaxOps
Contents == [model : Ids, attributes : Ids]
ASSUME ReadAssumption ==
  /\ NoModel \notin Contents /\ NoCheckpoint \notin Contents /\ Torn \notin Contents
  /\ NoModel # NoCheckpoint /\ NoModel # Torn /\ NoCheckpoint # Torn

EmptyEntry == [link |-> None, stores |-> {}]

VARIABLES
  root,    (* per model, the log of its entry in the storage root          *)
  entry,   (* per entry, the log of its directory: link and stores         *)
  store,   (* per entry and store, the log of the files in the store       *)
  pc,      (* per runner, its next step                                    *)
  job,     (* per runner, the operation it is in                           *)
  cut,     (* models with an operation that a death has cut short          *)
  ops, deaths, failures

fileVars == <<root, entry, store>>
boundVars == <<ops, deaths, failures>>
vars == <<fileVars, pc, job, cut, boundVars>>

NoJob == [dest |-> None, entry |-> None, store |-> None, old |-> None, new |-> None]

RangeOf(log) == {log[i] : i \in DOMAIN log}
Last(log) == log[Len(log)]
Synced(log) == <<Last(log)>>

(* A log is never empty.                                                   *)
Log(S) == Seq(S) \ {<<>>}
Dirs == [link : Ids \cup {None}, stores : SUBSET Ids]

TypeOK ==
  /\ root \in [Models -> Log(Ids \cup {None})]
  /\ entry \in [Ids -> Log(Dirs)]
  /\ store \in [Ids \X Ids -> Log(Contents \cup {Torn})]
  /\ pc \in [Models -> {"idle", "publish", "syncRoot", "destroy", "syncStore",
                        "renameStore", "switchLink", "syncEntry", "removeOld",
                        "unlinkOld", "replace", "syncAttributes"}]
  /\ job \in [Models -> [dest : Models \cup {None}, entry : Ids \cup {None},
                         store : Ids \cup {None}, old : Ids \cup {None},
                         new : Ids \cup {None}]]
  /\ cut \subseteq Models
  /\ ops \in 0 .. MaxOps /\ deaths \in 0 .. MaxDeaths /\ failures \in 0 .. MaxFailures

Init ==
  /\ root = [m \in Models |-> <<None>>]
  /\ entry = [e \in Ids |-> <<EmptyEntry>>]
  /\ store = [s \in Ids \X Ids |-> <<Torn>>]
  /\ pc = [m \in Models |-> "idle"] /\ job = [m \in Models |-> NoJob]
  /\ cut = {}
  /\ ops = 0 /\ deaths = 0 /\ failures = 0

-----------------------------------------------------------------------------
(* What is read.                                                           *)

EntryOf(m) == Last(root[m])
DirOf(e) == Last(entry[e])
Exists(e, dir) == dir.link # None /\ dir.link \in dir.stores

(* load() and loadCheckpointAttributes(): follow the link.                 *)
Load(m) ==
  IF EntryOf(m) = None THEN NoModel
  ELSE LET e == EntryOf(m)
           dir == DirOf(e)
       IN IF dir.link = None THEN NoCheckpoint
          ELSE IF Exists(e, dir) THEN Last(store[<<e, dir.link>>]) ELSE Torn

(* What may be read once the machine has failed.                           *)
Surviving(e, dir) ==
  IF dir.link = None THEN {NoCheckpoint}
  ELSE IF Exists(e, dir) THEN RangeOf(store[<<e, dir.link>>]) ELSE {Torn}

AtRisk(m) ==
  UNION {IF e = None THEN {NoModel}
         ELSE UNION {Surviving(e, dir) : dir \in RangeOf(entry[e])} : e \in RangeOf(root[m])}

-----------------------------------------------------------------------------
Goto(m, label) == pc' = [pc EXCEPT ![m] = label]
Return(m) == Goto(m, "idle") /\ job' = [job EXCEPT ![m] = NoJob]
LogEntry(e, dir) == entry' = [entry EXCEPT ![e] = Append(@, dir)]
LogStore(s, files) == store' = [store EXCEPT ![s] = Append(@, files)]

(* A call, which is operation ops + 1.                                     *)
Start(m, label, j) ==
  /\ pc[m] = "idle" /\ ops < MaxOps
  /\ ops' = ops + 1
  /\ Goto(m, label) /\ job' = [job EXCEPT ![m] = j]
  /\ UNCHANGED <<cut, deaths, failures>>

Step(m, label) ==
  /\ pc[m] = label
  /\ UNCHANGED <<cut, boundVars>>

(* define(): the new entry is built and synced in the scratch directory.   *)
Define(m) ==
  /\ EntryOf(m) = None
  /\ Start(m, "publish", [NoJob EXCEPT !.dest = m, !.entry = ops + 1])
  /\ UNCHANGED fileVars

(* clone(): a copy of the whole entry, its link on the copy of the store.  *)
Clone(m, d) ==
  /\ EntryOf(m) # None /\ EntryOf(d) = None
  /\ Start(m, "publish", [NoJob EXCEPT !.dest = d, !.entry = ops + 1])
  /\ LET copied == DirOf(EntryOf(m))
     IN /\ entry' = [entry EXCEPT ![ops + 1] = <<copied>>]
        /\ store' = [s \in DOMAIN store |->
             IF s[1] = ops + 1 /\ s[2] \in copied.stores
             THEN Synced(store[<<EntryOf(m), s[2]>>]) ELSE store[s]]
  /\ UNCHANGED root

(* Mutant: an entry that appeared since the check is replaced.             *)
PublishOver(m) ==
  /\ Step(m, "publish")
  /\ root' = [root EXCEPT ![job[m].dest] = Append(@, job[m].entry)]
  /\ Goto(m, "syncRoot")
  /\ UNCHANGED <<entry, store, job>>

(* The rename into the storage root, which fails on an existing entry.     *)
Publish(m) ==
  /\ Step(m, "publish")
  /\ LET d == job[m].dest
     IN \/ /\ EntryOf(d) = None
           /\ root' = [root EXCEPT ![d] = Append(@, job[m].entry)]
           /\ Goto(m, "syncRoot")
           /\ UNCHANGED job
        \/ EntryOf(d) # None /\ Return(m) /\ UNCHANGED root
  /\ UNCHANGED <<entry, store>>

SyncRoot(m) ==
  /\ Step(m, "syncRoot")
  /\ root' = [d \in Models |-> Synced(root[d])]
  /\ \/ job[m].dest # None /\ Return(m)
     \/ job[m].dest = None /\ Goto(m, "destroy") /\ UNCHANGED job
  /\ UNCHANGED <<entry, store>>

(* remove(): the entry leaves the storage root, and is deleted after that. *)
Remove(m) ==
  /\ EntryOf(m) # None
  /\ Start(m, "syncRoot", [NoJob EXCEPT !.entry = EntryOf(m)])
  /\ root' = [root EXCEPT ![m] = Append(@, None)]
  /\ UNCHANGED <<entry, store>>

Destroy(m) ==
  /\ Step(m, "destroy")
  /\ entry' = [entry EXCEPT ![job[m].entry] = Append(@, EmptyEntry)]
  /\ store' = [s \in DOMAIN store |->
       IF s[1] = job[m].entry /\ s[2] \in DirOf(s[1]).stores
       THEN Append(store[s], Torn) ELSE store[s]]
  /\ Return(m)
  /\ UNCHANGED root

-----------------------------------------------------------------------------
(* save(): the new store is written to the scratch directory.              *)
Save(m) ==
  /\ EntryOf(m) # None
  /\ Start(m, "syncStore", [NoJob EXCEPT !.entry = EntryOf(m), !.store = ops + 1])
  /\ LogStore(<<EntryOf(m), ops + 1>>, [model |-> ops + 1, attributes |-> ops + 1])
  /\ UNCHANGED <<root, entry>>

NewStore(m) == <<job[m].entry, job[m].store>>

SyncStore(m) ==
  /\ Step(m, "syncStore")
  /\ store' = [store EXCEPT ![NewStore(m)] = Synced(@)]
  /\ Goto(m, "renameStore")
  /\ UNCHANGED <<root, entry, job>>

RenameStore(m) ==
  /\ Step(m, "renameStore")
  /\ LET e == job[m].entry
     IN LogEntry(e, [DirOf(e) EXCEPT !.stores = @ \cup {job[m].store}])
  /\ Goto(m, "switchLink")
  /\ UNCHANGED <<root, store, job>>

(* Mutant: the old store is not remembered.                                *)
SwitchLinkOnly(m) ==
  /\ Step(m, "switchLink")
  /\ LET e == job[m].entry
     IN LogEntry(e, [DirOf(e) EXCEPT !.link = job[m].store])
  /\ Goto(m, "syncEntry")
  /\ UNCHANGED <<root, store, job>>

(* The store that was current is remembered, then the link replaced.       *)
SwitchLink(m) ==
  /\ Step(m, "switchLink")
  /\ LET e == job[m].entry
         dir == DirOf(e)
     IN /\ job' = [job EXCEPT ![m].old = IF Exists(e, dir) THEN dir.link ELSE None]
        /\ LogEntry(e, [dir EXCEPT !.link = job[m].store])
  /\ Goto(m, "syncEntry")
  /\ UNCHANGED <<root, store>>

(* Mutant: the old store is deleted before the entry is synced.            *)
SyncEntryNever(m) ==
  /\ Step(m, "syncEntry")
  /\ \/ job[m].old = None /\ Return(m)
     \/ job[m].old # None /\ Goto(m, "removeOld") /\ UNCHANGED job
  /\ UNCHANGED fileVars

SyncEntry(m) ==
  /\ Step(m, "syncEntry")
  /\ entry' = [entry EXCEPT ![job[m].entry] = Synced(@)]
  /\ \/ job[m].old = None /\ Return(m)
     \/ job[m].old # None /\ Goto(m, "removeOld") /\ UNCHANGED job
  /\ UNCHANGED <<root, store>>

(* rmtree() of the old store: its files first, then its directory.         *)
RemoveOld(m) ==
  /\ Step(m, "removeOld")
  /\ LogStore(<<job[m].entry, job[m].old>>, Torn)
  /\ Goto(m, "unlinkOld")
  /\ UNCHANGED <<root, entry, job>>

UnlinkOld(m) ==
  /\ Step(m, "unlinkOld")
  /\ LET e == job[m].entry
     IN LogEntry(e, [DirOf(e) EXCEPT !.stores = @ \ {job[m].old}])
  /\ Return(m)
  /\ UNCHANGED <<root, store>>

-----------------------------------------------------------------------------
(* updateCheckpointAttributes(): the new file is written and synced in the *)
(* scratch directory, and moved into the store the link names.             *)
UpdateAttributes(m) ==
  /\ EntryOf(m) # None
  /\ LET e == EntryOf(m)
         dir == DirOf(e)
     IN /\ Exists(e, dir)
        /\ Start(m, "replace", [NoJob EXCEPT !.entry = e, !.store = dir.link, !.new = ops + 1])
  /\ UNCHANGED fileVars

ReplaceAttributes(m) ==
  /\ Step(m, "replace")
  /\ LogStore(NewStore(m), [Last(store[NewStore(m)]) EXCEPT !.attributes = job[m].new])
  /\ Goto(m, "syncAttributes")
  /\ UNCHANGED <<root, entry, job>>

(* Mutant: the directory of the store is not synced.                       *)
SyncAttributesNever(m) ==
  /\ Step(m, "syncAttributes")
  /\ Return(m)
  /\ UNCHANGED fileVars

SyncAttributes(m) ==
  /\ Step(m, "syncAttributes")
  /\ store' = [store EXCEPT ![NewStore(m)] = Synced(@)]
  /\ Return(m)
  /\ UNCHANGED <<root, entry>>

-----------------------------------------------------------------------------
(* The environment.                                                        *)

(* A runner dies within an operation and is started again.                 *)
Die(m) ==
  /\ pc[m] # "idle" /\ deaths < MaxDeaths
  /\ deaths' = deaths + 1
  /\ cut' = (cut \cup {m, job[m].dest}) \ {None}
  /\ Return(m)
  /\ UNCHANGED <<fileVars, ops, failures>>

(* The kernel writes the oldest change of a directory to the disk.         *)
WriteBack ==
  /\ \/ /\ \E m \in Models : Len(root[m]) > 1 /\ root' = [root EXCEPT ![m] = Tail(@)]
        /\ UNCHANGED <<entry, store>>
     \/ /\ \E e \in Ids : Len(entry[e]) > 1 /\ entry' = [entry EXCEPT ![e] = Tail(@)]
        /\ UNCHANGED <<root, store>>
     \/ /\ \E s \in Ids \X Ids :
             Len(store[s]) > 1 /\ store' = [store EXCEPT ![s] = Tail(@)]
        /\ UNCHANGED <<root, entry>>
  /\ UNCHANGED <<pc, job, cut, boundVars>>

MachineFails ==
  /\ failures < MaxFailures
  /\ failures' = failures + 1
  /\ root' = [m \in Models |-> <<Head(root[m])>>]
  /\ entry' = [e \in Ids |-> <<Head(entry[e])>>]
  /\ store' = [s \in Ids \X Ids |-> <<Head(store[s])>>]
  /\ pc' = [m \in Models |-> "idle"] /\ job' = [m \in Models |-> NoJob]
  /\ cut' = {}
  /\ UNCHANGED <<ops, deaths>>

Runner(m) ==
  \/ Define(m) \/ Publish(m) \/ SyncRoot(m) \/ Remove(m) \/ Destroy(m)
  \/ \E d \in Models : Clone(m, d)
  \/ Save(m) \/ SyncStore(m) \/ RenameStore(m) \/ SwitchLink(m) \/ SyncEntry(m)
  \/ RemoveOld(m) \/ UnlinkOld(m)
  \/ UpdateAttributes(m) \/ ReplaceAttributes(m) \/ SyncAttributes(m)

Next == (\E m \in Models : Runner(m) \/ Die(m)) \/ WriteBack \/ MachineFails

Spec == Init /\ [][Next]_vars

-----------------------------------------------------------------------------
(* The promise of the class comment: whatever fails, each model reads as   *)
(* the last checkpoint that was completed, or as one that was still        *)
(* current when the last write reached the disk.                           *)
Register == INSTANCE CheckpointRegister
  WITH current <- [m \in Models |-> Load(m)], atRisk <- [m \in Models |-> AtRisk(m)]
ImplementsRegister == Register!RegisterSpec

(* A failure of the machine at any moment leaves every link on a whole     *)
(* checkpoint: the old store is deleted only when the new link is on the   *)
(* disk, and a store is renamed only when its files are.                   *)
WholeCheckpoints == \A m \in Models : Torn \notin AtRisk(m)

(* A model is quiet when no operation has its root entry in hand.          *)
Quiet(m) == pc[m] = "idle" /\ \A p \in Models : job[p].dest # m

(* An operation that has returned is on the disk, unless a death has cut   *)
(* an operation on the same model short.                                   *)
ReturnedIsDurable ==
  \A m \in Models : Quiet(m) /\ m \notin cut => AtRisk(m) = {Load(m)}

(* Old stores are left behind by failures only, one at a time: a save that *)
(* returns has deleted the store it replaces.                              *)
Orphans(e) == DirOf(e).stores \ {DirOf(e).link}
OnlyFailuresLeaveStores ==
  \A m \in Models : pc[m] = "idle" /\ EntryOf(m) # None
                       => Cardinality(Orphans(EntryOf(m))) <= deaths + failures
=============================================================================
