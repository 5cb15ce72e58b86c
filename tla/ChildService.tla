---------------------------- MODULE ChildService ----------------------------
(***************************************************************************)
(* The process service of HTM Studio's main process, as the renderer sees  *)
(* it over IPC: main/ModelService.js behind main/ModelServiceIPC.js.  A     *)
(* command ("create" or "remove") arrives on a FIFO channel; the service    *)
(* keeps one child process per id in _models, forwards what a child reports *)
(* to the renderer while the id is attached, and forgets the id when the    *)
(* child closes or is removed.  main/ParamFinderService.js and its IPC      *)
(* class are the same program with a limit of one child per id.             *)
(***************************************************************************)
EXTENDS Naturals, Sequences, FiniteSets

CONSTANTS
  Ids,             \* model (or metric) ids
  Procs,           \* child processes that may be alive at once
  None,            \* no process, no id
  MaxConcurrency,  \* _maxConcurrency
  PromptClose      \* the child of a removed id has closed before the id is
                   \* created again

ASSUME ServiceAssumption ==
  /\ IsFiniteSet(Ids)
  /\ IsFiniteSet(Procs)
  /\ None \notin Ids \cup Procs
  /\ MaxConcurrency \in Nat
  /\ PromptClose \in BOOLEAN

VARIABLES
  models,    \* _models: the child registered under an id
  owner,     \* the id a live child was spawned for
  killed,    \* the live children that were sent a signal by removeModel
  attached,  \* _attached: the ids whose listeners are in place
  toMain,    \* commands of the renderer, in the order they were sent
  toUi       \* messages to the renderer, in the order they were sent

serviceVars == <<models, owner, killed, attached, toMain, toUi>>

Command == [cmd : {"create", "remove"}, id : Ids]

Entries == {i \in Ids : models[i] # None}
Live    == {p \in Procs : owner[p] # None}
Running == Live \ killed

availableSlots == MaxConcurrency - Cardinality(Entries)

\* A message to the renderer: an error that answers a command carries the
\* command, everything else the name of the event.  ok is false for an error
\* and for a close whose code is not 0.
Message(kind, i, ok) == [kind |-> kind, id |-> i, ok |-> ok]

\* What the listener of _attach does with an event of the service.
Forward(i, kind, ok) ==
  IF i \in attached THEN Append(toUi, Message(kind, i, ok)) ELSE toUi

ServiceInit ==
  /\ models = [i \in Ids |-> None]
  /\ owner = [p \in Procs |-> None]
  /\ killed = {}
  /\ attached = {}
  /\ toMain = <<>>
  /\ toUi = <<>>

-----------------------------------------------------------------------------
Receive(cmd, i) ==
  /\ toMain # <<>>
  /\ Head(toMain) = [cmd |-> cmd, id |-> i]
  /\ toMain' = Tail(toMain)

Reject(cmd, i) ==
  /\ toUi' = Append(toUi, Message(cmd, i, FALSE))
  /\ UNCHANGED <<models, owner, killed>>

\* Mutant: the exception is not sent to the renderer.
RefuseCreateSilently(i) ==
  /\ Receive("create", i)
  /\ availableSlots <= 0 \/ models[i] # None
  /\ attached' = attached \cup {i}
  /\ UNCHANGED <<models, owner, killed, toUi>>

\* createModel throws MaximumConcurrencyError or DuplicateIDError; the id has
\* been attached already.
RefuseCreate(i) ==
  /\ Receive("create", i)
  /\ availableSlots <= 0 \/ models[i] # None
  /\ attached' = attached \cup {i}
  /\ Reject("create", i)

\* Mutant: one child more than allowed.
CreateModelOneMore(i) ==
  /\ Receive("create", i)
  /\ availableSlots >= 0 /\ models[i] = None
  /\ PromptClose => \A p \in killed : owner[p] # i
  /\ attached' = attached \cup {i}
  /\ \E p \in Procs \ Live :
       /\ owner' = [owner EXCEPT ![p] = i]
       /\ models' = [models EXCEPT ![i] = p]
  /\ UNCHANGED <<killed, toUi>>

CreateModel(i) ==
  /\ Receive("create", i)
  /\ availableSlots > 0 /\ models[i] = None
  /\ PromptClose => \A p \in killed : owner[p] # i
  /\ attached' = attached \cup {i}
  /\ \E p \in Procs \ Live :
       /\ owner' = [owner EXCEPT ![p] = i]
       /\ models' = [models EXCEPT ![i] = p]
  /\ UNCHANGED <<killed, toUi>>

\* removeModel throws ModelNotFoundError; the id has been detached already.
RefuseRemove(i) ==
  /\ Receive("remove", i)
  /\ models[i] = None
  /\ attached' = attached \ {i}
  /\ Reject("remove", i)

\* Mutant: the child is not signalled.
RemoveModelOnly(i) ==
  /\ Receive("remove", i)
  /\ models[i] # None
  /\ attached' = attached \ {i}
  /\ models' = [models EXCEPT ![i] = None]
  /\ UNCHANGED <<killed, owner, toUi>>

\* The entry goes and the child is signalled: it is not waited for.
RemoveModel(i) ==
  /\ Receive("remove", i)
  /\ models[i] # None
  /\ attached' = attached \ {i}
  /\ models' = [models EXCEPT ![i] = None]
  /\ killed' = killed \cup {models[i]}
  /\ UNCHANGED <<owner, toUi>>

\* A child writes to stderr: an 'error' event without a command.
ChildComplains(p) ==
  /\ p \in Live
  /\ toUi' = Forward(owner[p], "stderr", FALSE)
  /\ UNCHANGED <<models, owner, killed, attached, toMain>>

\* Mutant: an exit code other than 0 is not reported.
ChildClosesQuietly(p) ==
  /\ p \in Live
  /\ \/ UNCHANGED toUi
     \/ p \notin killed /\ toUi' = Forward(owner[p], "close", TRUE)
  /\ models' = [models EXCEPT ![owner[p]] = None]
  /\ owner' = [owner EXCEPT ![p] = None]
  /\ killed' = killed \ {p}
  /\ UNCHANGED <<attached, toMain>>

\* The 'close' event of a child that ended by itself (with any code) or by
\* the signal (code null, which is not 0): the entry of its id is deleted,
\* whichever child it names.
ChildCloses(p) ==
  /\ p \in Live
  /\ \E ok \in BOOLEAN :
       /\ p \in killed => ~ok
       /\ toUi' = Forward(owner[p], "close", ok)
  /\ models' = [models EXCEPT ![owner[p]] = None]
  /\ owner' = [owner EXCEPT ![p] = None]
  /\ killed' = killed \ {p}
  /\ UNCHANGED <<attached, toMain>>

HandleCommand ==
  \E i \in Ids :
    RefuseCreate(i) \/ CreateModel(i) \/ RefuseRemove(i) \/ RemoveModel(i)

ServiceStep == HandleCommand \/ \E p \in Procs : ChildComplains(p) \/ ChildCloses(p)

\* What the renderer may do to the service: send commands (quitting sends
\* several); what it does with the messages is its own affair.
ClientStep ==
  /\ UNCHANGED <<models, owner, killed, attached>>
  /\ Len(toMain') >= Len(toMain)
  /\ \A k \in 1 .. Len(toMain) : toMain'[k] = toMain[k]
  /\ \A k \in Len(toMain) + 1 .. Len(toMain') : toMain'[k] \in Command

ServiceSpec == ServiceInit /\ [][ServiceStep \/ ClientStep]_serviceVars

-----------------------------------------------------------------------------
\* No more children run (those already signalled aside) than the system
\* allows: availableSlots counts the entries of _models, not the processes.
ConcurrencyLimit == Cardinality(Running) <= MaxConcurrency

\* A running child is the one its id names, so that it is listed by
\* getModels, counted by availableSlots and can be removed: neither a late
\* 'close' nor a refused command takes away the entry of another child.
RunningIsListed == \A p \in Running : models[owner[p]] = p
=============================================================================
