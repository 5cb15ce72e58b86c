------------------------- MODULE StudioModelsProofs -------------------------
(***************************************************************************)
(* The process service of HTM Studio keeps its limit and knows its         *)
(* children, for any number of ids, processes and slots, when the child of *)
(* a removed id has closed before the id is created again.  Whatever the   *)
(* renderer does, the service is used as ChildService describes it, so     *)
(* that what is proved of the service holds of the application.  When, in  *)
(* addition, the user starts nothing on a model while a chain about it     *)
(* runs, the ModelStore tells the truth about the children once everything *)
(* about a model has been handled, and closing the window stops them all.  *)
(***************************************************************************)
EXTENDS StudioModels, FiniteSetTheorems, TLAPS

-----------------------------------------------------------------------------
\* The process service, with any client.

ServiceTypes ==
  /\ models \in [Ids -> Procs \cup {None}]
  /\ owner \in [Procs -> Ids \cup {None}]
  /\ killed \subseteq Live

\* A registered child was spawned for its id and has not been signalled.
EntriesRun ==
  \A i \in Ids : models[i] # None => owner[models[i]] = i /\ models[i] \notin killed

\* The id of a signalled child has no entry: this is what PromptClose keeps,
\* since the 'close' of the child would take a new entry away.
KilledAreForgotten == \A p \in killed : models[owner[p]] = None

EntriesAreLimited == Cardinality(Entries) <= MaxConcurrency

ServiceInv ==
  ServiceTypes /\ EntriesRun /\ KilledAreForgotten /\ RunningIsListed /\ EntriesAreLimited

-----------------------------------------------------------------------------
\* The entries of _models are finitely many.
LEMMA EntriesFinite == IsFiniteSet(Entries) /\ Cardinality(Entries) \in Nat
<1>1. Entries \in SUBSET Ids
  BY DEF Entries
<1>2. IsFiniteSet(Entries)
  BY <1>1, FS_Subset, ServiceAssumption
<1> QED  BY <1>2, FS_CardinalityType

\* Nothing runs before the first command.
LEMMA ServiceInitInv == ServiceInit => ServiceInv
<1> SUFFICES ASSUME ServiceInit PROVE ServiceInv
  OBVIOUS
<1> USE ServiceAssumption DEF ServiceInit
<1>1. ServiceTypes /\ EntriesRun /\ KilledAreForgotten /\ RunningIsListed
  BY DEF ServiceTypes, EntriesRun, KilledAreForgotten, RunningIsListed, Live, Running
<1>2. Entries = {}
  BY DEF Entries
<1>3. EntriesAreLimited
  BY <1>2, FS_EmptySet DEF EntriesAreLimited
<1> QED  BY <1>1, <1>3 DEF ServiceInv

\* createModel: the new child is not one of those that are alive.
LEMMA CreateModelInv ==
  ASSUME PromptClose, ServiceInv, NEW i \in Ids, CreateModel(i)
  PROVE  ServiceInv'
<1> USE ServiceAssumption
<1>1. PICK p \in Procs \ Live : /\ owner' = [owner EXCEPT ![p] = i]
                               /\ models' = [models EXCEPT ![i] = p]
  BY DEF CreateModel
<1>2. killed' = killed /\ models[i] = None /\ availableSlots > 0
      /\ (\A q \in killed : owner[q] # i)
  BY DEF CreateModel
<1>3. ServiceTypes /\ EntriesRun /\ KilledAreForgotten /\ RunningIsListed /\ EntriesAreLimited
  BY DEF ServiceInv
<1>4. owner[p] = None /\ p \in Procs /\ p \notin killed /\ p # None /\ i # None
  BY <1>3 DEF ServiceTypes, Live
<1>5. ServiceTypes'
  BY <1>1, <1>2, <1>3, <1>4 DEF ServiceTypes, Live
<1>6. EntriesRun'
  BY <1>1, <1>2, <1>3, <1>4 DEF ServiceTypes, EntriesRun
<1>7. KilledAreForgotten'
  BY <1>1, <1>2, <1>3, <1>4 DEF ServiceTypes, KilledAreForgotten, Live
<1>8. RunningIsListed'
  BY <1>1, <1>2, <1>3, <1>4 DEF ServiceTypes, RunningIsListed, Running, Live
<1>9. EntriesAreLimited'
  <2>1. Entries' = Entries \cup {i} /\ i \notin Entries
    BY <1>1, <1>2, <1>3, <1>4 DEF Entries, ServiceTypes
  <2>2. Cardinality(Entries') = Cardinality(Entries) + 1
    BY <2>1, EntriesFinite, FS_AddElement
  <2> QED  BY <1>2, <2>2, EntriesFinite DEF EntriesAreLimited, availableSlots
<1> QED  BY <1>5, <1>6, <1>7, <1>8, <1>9 DEF ServiceInv

\* Entries that are only taken away stay within the limit.
LEMMA FewerEntries ==
  ASSUME EntriesAreLimited, Entries' \subseteq Entries
  PROVE  EntriesAreLimited'
<1>1. Cardinality(Entries') <= Cardinality(Entries) /\ IsFiniteSet(Entries')
  BY EntriesFinite, FS_Subset
<1>2. Cardinality(Entries') \in Nat
  BY <1>1, FS_CardinalityType
<1> QED  BY <1>1, <1>2, EntriesFinite, ServiceAssumption DEF EntriesAreLimited

\* removeModel: the child loses its entry and is signalled in one step.
LEMMA RemoveModelInv ==
  ASSUME ServiceInv, NEW i \in Ids, RemoveModel(i)
  PROVE  ServiceInv'
<1> USE ServiceAssumption
<1> DEFINE p == models[i]
<1>1. /\ models' = [models EXCEPT ![i] = None] /\ killed' = killed \cup {p}
      /\ owner' = owner /\ p # None
  BY DEF RemoveModel
<1>2. ServiceTypes /\ EntriesRun /\ KilledAreForgotten /\ RunningIsListed /\ EntriesAreLimited
  BY DEF ServiceInv
<1>3. p \in Procs /\ owner[p] = i /\ i # None
  BY <1>1, <1>2 DEF ServiceTypes, EntriesRun
<1>4. \A j \in Ids : models[j] = p => j = i
  BY <1>1, <1>2, <1>3 DEF EntriesRun
<1> HIDE DEF p
<1>5. ServiceTypes'
  BY <1>1, <1>2, <1>3 DEF ServiceTypes, Live
<1>6. EntriesRun'
  BY <1>1, <1>2, <1>3, <1>4 DEF ServiceTypes, EntriesRun
<1>7. KilledAreForgotten'
  BY <1>1, <1>2, <1>3 DEF ServiceTypes, KilledAreForgotten, Live
<1>8. RunningIsListed'
  BY <1>1, <1>2, <1>3 DEF ServiceTypes, RunningIsListed, Running, Live, p
<1>9. Entries' \subseteq Entries
  BY <1>1, <1>2 DEF Entries, ServiceTypes
<1>10. EntriesAreLimited'
  BY <1>2, <1>9, FewerEntries
<1> QED  BY <1>5, <1>6, <1>7, <1>8, <1>10 DEF ServiceInv

\* The 'close' handler deletes the entry of the id: it is the entry of this
\* child, or there is none.
LEMMA ChildClosesInv ==
  ASSUME ServiceInv, NEW p \in Procs, ChildCloses(p)
  PROVE  ServiceInv'
<1> USE ServiceAssumption
<1> DEFINE i == owner[p]
<1>1. /\ models' = [models EXCEPT ![i] = None] /\ killed' = killed \ {p}
      /\ owner' = [owner EXCEPT ![p] = None]
  BY DEF ChildCloses
<1>2. ServiceTypes /\ EntriesRun /\ KilledAreForgotten /\ RunningIsListed /\ EntriesAreLimited
  BY DEF ServiceInv
<1>3. i \in Ids /\ i # None /\ p # None
  BY <1>2 DEF ServiceTypes, ChildCloses, Live
<1>4. models[i] \in {p, None}
  BY <1>2, <1>3 DEF KilledAreForgotten, RunningIsListed, Running, ChildCloses
<1>5. \A j \in Ids : models[j] = p => j = i
  BY <1>2, <1>3 DEF EntriesRun
<1>a. \A q \in Procs : q # p => owner'[q] = owner[q]
  BY <1>1, <1>2 DEF ServiceTypes
<1>b. owner'[p] = None
  BY <1>1, <1>2 DEF ServiceTypes
<1>c. \A j \in Ids : models'[j] = IF j = i THEN None ELSE models[j]
  BY <1>1, <1>2 DEF ServiceTypes
<1>d. Live' = Live \ {p}
  BY <1>a, <1>b DEF Live
<1>6. ServiceTypes'
  BY <1>1, <1>2, <1>d DEF ServiceTypes
<1> HIDE DEF i
<1>7. EntriesRun'
  <2> SUFFICES ASSUME NEW j \in Ids, models'[j] # None
               PROVE  owner'[models'[j]] = j /\ models'[j] \notin killed'
    BY DEF EntriesRun
  <2>1. j # i /\ models'[j] = models[j] /\ models[j] \in Procs
    BY <1>2, <1>c DEF ServiceTypes
  <2>2. owner[models[j]] = j /\ models[j] \notin killed
    BY <1>2, <2>1 DEF EntriesRun
  <2>3. models[j] # p
    BY <1>5, <2>1
  <2> QED  BY <1>1, <1>a, <2>1, <2>2, <2>3
<1>8. KilledAreForgotten'
  <2> SUFFICES ASSUME NEW q \in killed' PROVE models'[owner'[q]] = None
    BY DEF KilledAreForgotten
  <2>1. q \in killed /\ q # p /\ q \in Procs /\ owner[q] \in Ids
    BY <1>1, <1>2 DEF ServiceTypes, Live
  <2> QED  BY <1>2, <1>a, <1>c, <2>1 DEF KilledAreForgotten
<1>9. RunningIsListed'
  <2> SUFFICES ASSUME NEW q \in Running' PROVE models'[owner'[q]] = q
    BY DEF RunningIsListed
  <2>1. q \in Running /\ q # p /\ q \in Procs /\ owner[q] \in Ids /\ q # None
    BY <1>1, <1>2, <1>d DEF Running, Live, ServiceTypes
  <2>2. models[owner[q]] = q
    BY <1>2, <2>1 DEF RunningIsListed
  <2>3. owner[q] # i
    BY <1>4, <2>1, <2>2
  <2> QED  BY <1>a, <1>c, <2>1, <2>2, <2>3
<1>10. Entries' \subseteq Entries
  BY <1>c DEF Entries
<1>11. EntriesAreLimited'
  BY <1>2, <1>10, FewerEntries
<1> QED  BY <1>6, <1>7, <1>8, <1>9, <1>11 DEF ServiceInv

\* Every other step leaves the processes alone.
LEMMA ProcessesUnchanged ==
  ASSUME ServiceInv, UNCHANGED <<models, owner, killed>>
  PROVE  ServiceInv'
<1>1. Live' = Live /\ Entries' = Entries
  BY DEF Live, Entries
<1>2. Running' = Running
  BY <1>1 DEF Running
<1> QED  BY <1>1, <1>2 DEF ServiceInv, ServiceTypes, EntriesRun, KilledAreForgotten,
                        RunningIsListed, EntriesAreLimited

LEMMA ServiceStepInv ==
  ASSUME PromptClose, ServiceInv, [ServiceStep \/ ClientStep]_serviceVars
  PROVE  ServiceInv'
<1>1. CASE \E i \in Ids : RefuseCreate(i) \/ RefuseRemove(i)
  <2>1. UNCHANGED <<models, owner, killed>>
    BY <1>1 DEF RefuseCreate, RefuseRemove, Reject
  <2> QED  BY <2>1, ProcessesUnchanged
<1>2. CASE \E i \in Ids : CreateModel(i)
  BY <1>2, CreateModelInv
<1>3. CASE \E i \in Ids : RemoveModel(i)
  BY <1>3, RemoveModelInv
<1>4. CASE \E p \in Procs : ChildComplains(p)
  <2>1. UNCHANGED <<models, owner, killed>>
    BY <1>4 DEF ChildComplains
  <2> QED  BY <2>1, ProcessesUnchanged
<1>5. CASE \E p \in Procs : ChildCloses(p)
  BY <1>5, ChildClosesInv
<1>6. CASE ClientStep \/ UNCHANGED serviceVars
  <2>1. UNCHANGED <<models, owner, killed>>
    BY <1>6 DEF ClientStep, serviceVars
  <2> QED  BY <2>1, ProcessesUnchanged
<1> QED  BY <1>1, <1>2, <1>3, <1>4, <1>5, <1>6 DEF ServiceStep, HandleCommand

-----------------------------------------------------------------------------
\* A child that runs is named by an entry of its own.
LEMMA RunningNeedEntries == ServiceInv => ConcurrencyLimit
<1> SUFFICES ASSUME ServiceInv PROVE ConcurrencyLimit
  OBVIOUS
<1> USE ServiceAssumption
<1> DEFINE f == [p \in Running |-> owner[p]]
<1>1. ServiceTypes /\ RunningIsListed /\ EntriesAreLimited
  BY DEF ServiceInv
<1>2. \A p \in Running : p \in Procs /\ owner[p] \in Entries /\ models[owner[p]] = p
  BY <1>1 DEF ServiceTypes, RunningIsListed, Running, Live, Entries
<1>3. f \in [Running -> Entries]
  BY <1>2
<1>4. \A p, q \in Running : f[p] = f[q] => p = q
  BY <1>2
<1>5. f \in Injection(Running, Entries)
  BY <1>3, <1>4 DEF Injection, IsInjective
<1> HIDE DEF f
<1>6. IsFiniteSet(Running) /\ Cardinality(Running) <= Cardinality(Entries)
  BY <1>5, EntriesFinite, FS_Injection
<1>7. Cardinality(Running) \in Nat
  BY <1>6, FS_CardinalityType
<1> QED  BY <1>1, <1>6, <1>7, EntriesFinite DEF EntriesAreLimited, ConcurrencyLimit

\* The inductive invariant of the process service.
THEOREM ServiceInvariant == ASSUME PromptClose PROVE ServiceSpec => []ServiceInv
  BY ServiceInitInv, ServiceStepInv, PTL DEF ServiceSpec

\* ModelService never runs more models at once than availableSlots allows.
THEOREM ServiceIsLimited == ASSUME PromptClose PROVE ServiceSpec => []ConcurrencyLimit
  BY ServiceInvariant, RunningNeedEntries, PTL

\* Every running child is the one ModelService keeps under its id.
THEOREM ServiceKnowsItsChildren == ASSUME PromptClose PROVE ServiceSpec => []RunningIsListed
<1>1. ServiceInv => RunningIsListed
  BY DEF ServiceInv
<1> QED  BY <1>1, ServiceInvariant, PTL

-----------------------------------------------------------------------------
\* The application.

Pending == [call : Calls, id : Ids, step : {"first", "second", "answer"}]

\* What the commands of the renderer are made of.
CommandTypes ==
  /\ toMain \in Seq(Command)
  /\ op \in [Ops -> {Idle} \cup Pending]

processVars == <<models, owner, killed, attached>>

-----------------------------------------------------------------------------
\* A renderer that sends nothing is a client of the service.
LEMMA SendsNothing ==
  ASSUME CommandTypes, UNCHANGED processVars, UNCHANGED toMain
  PROVE  ClientStep /\ toMain' \in Seq(Command)
<1>1. Len(toMain) \in Nat
  BY DEF CommandTypes
<1>2. Len(toMain) + 1 .. Len(toMain) = {}
  BY <1>1
<1> QED  BY <1>1, <1>2 DEF CommandTypes, ClientStep, processVars

\* So is one that sends a command.
LEMMA SendsOne ==
  ASSUME CommandTypes, UNCHANGED processVars, NEW c \in Command,
         toMain' = Append(toMain, c)
  PROVE  ClientStep /\ toMain' \in Seq(Command)
<1>1. toMain \in Seq(Command) /\ Len(toMain) \in Nat
  BY DEF CommandTypes
<1>2. /\ toMain' \in Seq(Command)
      /\ Len(toMain') = Len(toMain) + 1
      /\ \A k \in 1 .. Len(toMain) : toMain'[k] = toMain[k]
      /\ toMain'[Len(toMain) + 1] = c
  BY <1>1
<1>3. \A k \in Len(toMain) + 1 .. Len(toMain') : toMain'[k] \in Command
  BY <1>1, <1>2
<1> QED  BY <1>1, <1>2, <1>3 DEF ClientStep, processVars

\* So is one that sends several.
LEMMA SendsSome ==
  ASSUME CommandTypes, UNCHANGED processVars, NEW more \in Seq(Command),
         toMain' = toMain \o more
  PROVE  ClientStep /\ toMain' \in Seq(Command)
<1>1. /\ toMain \in Seq(Command) /\ Len(toMain) \in Nat /\ Len(more) \in Nat
  BY DEF CommandTypes
<1>2. /\ toMain' \in Seq(Command)
      /\ Len(toMain') = Len(toMain) + Len(more)
      /\ \A k \in 1 .. Len(toMain) : toMain'[k] = toMain[k]
  BY <1>1
<1>3. \A k \in Len(toMain) + 1 .. Len(toMain') : toMain'[k] \in Command
  BY <1>1, <1>2
<1> QED  BY <1>1, <1>2, <1>3 DEF ClientStep, processVars

\* A chain that begins, or makes its next call, has a call under way.
LEMMA CallTypes ==
  ASSUME CommandTypes, NEW o \in Ops, NEW call \in Calls, NEW i \in Ids, Call(o, call, i)
  PROVE  op' \in [Ops -> {Idle} \cup Pending]
  BY DEF CommandTypes, Call, Pending

-----------------------------------------------------------------------------
\* What the user does.
LEMMA UserSends ==
  ASSUME CommandTypes, User
  PROVE  ClientStep /\ CommandTypes'
<1>1. PICK o \in Ops, i \in Ids :
        AddShowModel(o, i) \/ StartModel(o, i) \/ DeleteModel(o, i) \/ DeleteWithFile(o, i)
  BY DEF User
<1>2. \E call \in Calls : Call(o, call, i)
  BY <1>1 DEF AddShowModel, StartModel, DeleteModel, DeleteWithFile, Begin, Calls
<1>3. op' \in [Ops -> {Idle} \cup Pending]
  BY <1>2, CallTypes
<1>4. CASE toMain' = toMain
  <2>1. UNCHANGED processVars
    BY <1>1 DEF AddShowModel, StartModel, DeleteModel, DeleteWithFile, processVars
  <2> QED  BY <1>3, <1>4, <2>1, SendsNothing DEF CommandTypes
<1>5. CASE DeleteWithFile(o, i) /\ model[i].active
  <2>1. UNCHANGED processVars
    BY <1>5 DEF DeleteWithFile, processVars
  <2>2. toMain' = Append(toMain, [cmd |-> "remove", id |-> i])
    BY <1>5 DEF DeleteWithFile, Send
  <2>3. [cmd |-> "remove", id |-> i] \in Command
    BY DEF Command
  <2> QED  BY <1>3, <2>1, <2>2, <2>3, SendsOne DEF CommandTypes
<1> QED  BY <1>1, <1>4, <1>5 DEF AddShowModel, StartModel, DeleteModel, DeleteWithFile

\* The window is closed.
LEMMA QuitSends ==
  ASSUME CommandTypes, Quit
  PROVE  ClientStep /\ CommandTypes'
<1>1. PICK order \in [1 .. Cardinality(ActiveModels) -> ActiveModels] :
        toMain' = toMain \o [k \in DOMAIN order |-> [cmd |-> "remove", id |-> order[k]]]
  BY DEF Quit
<1> DEFINE more == [k \in DOMAIN order |-> [cmd |-> "remove", id |-> order[k]]]
<1>2. IsFiniteSet(ActiveModels)
  <2>1. ActiveModels \in SUBSET Ids
    BY DEF ActiveModels
  <2> QED  BY <2>1, FS_Subset, ServiceAssumption
<1>3. Cardinality(ActiveModels) \in Nat
  BY <1>2, FS_CardinalityType
<1>4. \A k \in DOMAIN order : order[k] \in Ids
  BY DEF ActiveModels
<1>5. more \in [1 .. Cardinality(ActiveModels) -> Command]
  BY <1>4 DEF Command
<1>6. more \in Seq(Command)
  BY <1>3, <1>5
<1>7. UNCHANGED processVars /\ op' = [o \in Ops |-> Idle]
  BY DEF Quit, processVars
<1>8. toMain' = toMain \o more
  BY <1>1
<1> HIDE DEF more
<1>9. ClientStep /\ toMain' \in Seq(Command)
  BY <1>6, <1>7, <1>8, SendsSome
<1> QED  BY <1>7, <1>9 DEF CommandTypes

\* The database goes on with a call or answers it.
LEMMA DatabaseSends ==
  ASSUME CommandTypes, Database \/ TakeCall
  PROVE  ClientStep /\ CommandTypes'
<1>1. UNCHANGED processVars /\ UNCHANGED toMain
  BY DEF Database, DbStep, DbFails, TakeCall, processVars
<1>2. ClientStep /\ toMain' \in Seq(Command)
  BY <1>1, SendsNothing
<1>3. CASE UNCHANGED op
  BY <1>2, <1>3 DEF CommandTypes
<1>4. CASE \E o \in Ops : DbStep(o) \/ DbFails(o)
  <2>1. PICK o \in Ops : DbStep(o) \/ DbFails(o)
    BY <1>4
  <2>2. op[o] # Idle
    <3>1. op[o].step \in {"first", "second"}
      BY <2>1 DEF DbStep, DbFails, Step
    <3> QED  BY <3>1 DEF Idle
  <2>3. op[o] \in Pending
    BY <2>2 DEF CommandTypes
  <2>4. Advance(o) \/ \E ok \in BOOLEAN : Answer(o, ok)
    BY <2>1, Zenon DEF DbStep, DbFails
  <2>5. PICK s \in {"second", "answer"} : op' = [op EXCEPT ![o].step = s]
    BY <2>4 DEF Advance, Answer
  <2>6. [op[o] EXCEPT !.step = s] \in Pending
    BY <2>3, <2>5 DEF Pending
  <2>7. op' \in [Ops -> {Idle} \cup Pending]
    BY <2>5, <2>6 DEF CommandTypes
  <2> QED  BY <1>2, <2>7 DEF CommandTypes
<1> QED  BY <1>3, <1>4 DEF Database, TakeCall

\* A chain goes on with the answer of the database.
LEMMA AnswerSends ==
  ASSUME CommandTypes, NEW o \in Ops, HandleAnswer(o)
  PROVE  ClientStep /\ CommandTypes'
<1> DEFINE i == op[o].id
<1>1. UNCHANGED processVars
  BY DEF HandleAnswer, Handle, processVars
<1>2. op[o] # Idle => i \in Ids
  BY DEF CommandTypes, Pending
<1>3. CASE Done(o) /\ UNCHANGED toMain
  <2>1. op' \in [Ops -> {Idle} \cup Pending]
    BY <1>3 DEF Done, CommandTypes
  <2> QED  BY <1>1, <1>3, <2>1, SendsNothing DEF CommandTypes
<1>4. CASE op[o].call \in Calls /\ Call(o, "updateModel", i) /\ UNCHANGED toMain
  <2>1. i \in Ids
    BY <1>2, <1>4 DEF Idle, Calls
  <2>2. op' \in [Ops -> {Idle} \cup Pending]
    BY <1>4, <2>1, CallTypes DEF Calls
  <2> QED  BY <1>1, <1>4, <2>2, SendsNothing DEF CommandTypes
<1>5. CASE op[o].call \in Calls /\ Done(o) /\ \E cmd \in {"create", "remove"} : Send(cmd, i)
  <2>1. i \in Ids
    BY <1>2, <1>5 DEF Idle, Calls
  <2>2. op' \in [Ops -> {Idle} \cup Pending]
    BY <1>5 DEF Done, CommandTypes
  <2>3. PICK cmd \in {"create", "remove"} : toMain' = Append(toMain, [cmd |-> cmd, id |-> i])
    BY <1>5 DEF Send
  <2>4. [cmd |-> cmd, id |-> i] \in Command
    BY <2>1, <2>3 DEF Command
  <2> QED  BY <1>1, <2>2, <2>3, <2>4, SendsOne DEF CommandTypes
<1>6. CASE Handle("database", FALSE)
  BY <1>3, <1>6 DEF HandleAnswer, Handle
<1>7. op[o].call \in Calls
  <2>1. op[o] # Idle
    BY DEF HandleAnswer, Idle
  <2> QED  BY <2>1 DEF CommandTypes, Pending
<1>8. CASE Handle("database", TRUE)
  BY <1>3, <1>4, <1>5, <1>7, <1>8 DEF HandleAnswer, Handle, Calls
<1> QED  BY <1>6, <1>8 DEF HandleAnswer

\* Messages of the service send nothing.
LEMMA MessageSends ==
  ASSUME CommandTypes, HandleServiceMessage
  PROVE  ClientStep /\ CommandTypes'
<1>1. UNCHANGED processVars /\ UNCHANGED <<toMain, op>>
  BY DEF HandleServiceMessage, Handle, processVars
<1> QED  BY <1>1, SendsNothing DEF CommandTypes

\* The service takes commands and makes none.
LEMMA ServiceTakes ==
  ASSUME CommandTypes, Service
  PROVE  ServiceStep /\ CommandTypes'
<1>1. ServiceStep /\ UNCHANGED op
  BY DEF Service, ServiceStep
<1>2. \/ toMain # <<>> /\ toMain' = Tail(toMain)
      \/ UNCHANGED toMain
  BY DEF Service, HandleCommand, RefuseCreate, CreateModel, RefuseRemove, RemoveModel,
         Receive, ChildCloses, ChildComplains
<1>3. toMain' \in Seq(Command)
  BY <1>2 DEF CommandTypes
<1> QED  BY <1>1, <1>3 DEF CommandTypes

\* Every step of the application is a step of the service, or one of a client
\* of the service.
LEMMA StepIsServiceStep ==
  ASSUME CommandTypes, [Next]_vars
  PROVE  [ServiceStep \/ ClientStep]_serviceVars /\ CommandTypes'
<1>1. CASE Next
  BY <1>1, UserSends, QuitSends, DatabaseSends, AnswerSends, MessageSends, ServiceTakes
     DEF Next, Renderer
<1>2. CASE UNCHANGED vars
  BY <1>2 DEF vars, serviceVars, CommandTypes
<1> QED  BY <1>1, <1>2

\* HTM Studio starts with a service that has had no command.
LEMMA InitIsServiceInit == Init => ServiceInit /\ CommandTypes
  BY DEF Init, ServiceInit, CommandTypes

-----------------------------------------------------------------------------
ModelRecord == [known : BOOLEAN, active : BOOLEAN, ran : BOOLEAN, failed : BOOLEAN]

\* What is left of TypeOK: the processes, the messages, and the renderer.
ProcessTypes ==
  /\ models \in [Ids -> Procs \cup {None}]
  /\ owner \in [Procs -> Ids \cup {None}]
  /\ killed \subseteq Live
  /\ attached \subseteq Ids
  /\ \A i \in Ids : models[i] # None => owner[models[i]] = i
StoreTypes ==
  /\ record \in [Ids -> {"none", "new", "ran"}]
  /\ model \in [Ids -> ModelRecord]
  /\ blocked \in Ops \cup {None}
  /\ quit \in BOOLEAN
MessageTypes == toUi \in Seq(UiMessage)

StudioTypes == CommandTypes /\ ProcessTypes /\ StoreTypes /\ MessageTypes

\* A ModelStore handler changes one model to a model.
LEMMA SetTypes ==
  ASSUME StoreTypes, NEW i \in Ids, NEW rec \in ModelRecord,
         model' = model \/ Set(i, rec) \/ model' = [model EXCEPT ![i] = rec]
  PROVE  model' \in [Ids -> ModelRecord]
BY DEF StoreTypes, Set

LEMMA RecordTypes ==
  ASSUME StoreTypes, NEW i \in Ids
  PROVE  /\ StartedIn(i) \in ModelRecord /\ StoppedIn(i) \in ModelRecord
         /\ FailedIn(i) \in ModelRecord
         /\ NotKnown \in ModelRecord /\ Added \in ModelRecord
<1>1. model[i] \in ModelRecord
  BY DEF StoreTypes
<1>2. NotKnown \in ModelRecord
  BY DEF NotKnown, ModelRecord
<1> QED
  BY <1>1, <1>2 DEF StartedIn, StoppedIn, FailedIn, Added, ModelRecord

\* What the user and the database change in the stores.
LEMMA UserTypes ==
  ASSUME StudioTypes, User \/ Quit \/ TakeCall
  PROVE  ProcessTypes' /\ StoreTypes' /\ MessageTypes'
<1> USE DEF StudioTypes
<1>1. CASE User
  <2>1. PICK o \in Ops, i \in Ids :
          AddShowModel(o, i) \/ StartModel(o, i) \/ DeleteModel(o, i) \/ DeleteWithFile(o, i)
    BY <1>1 DEF User
  <2>2. UNCHANGED processVars /\ UNCHANGED <<toUi, record, quit>> /\ blocked' = o
    BY <2>1 DEF AddShowModel, StartModel, DeleteModel, DeleteWithFile, Begin, Call, processVars
  <2>3. model' = model \/ Set(i, StoppedIn(i))
    BY <2>1 DEF AddShowModel, StartModel, DeleteModel, DeleteWithFile
  <2>4. model' \in [Ids -> ModelRecord]
    BY <2>3, SetTypes, RecordTypes
  <2> QED  BY <2>2, <2>4 DEF ProcessTypes, StoreTypes, MessageTypes, processVars, Live
<1>2. CASE Quit
  <2>1. /\ UNCHANGED processVars /\ UNCHANGED <<record, blocked>>
        /\ toUi' = <<>> /\ quit' = TRUE /\ model' = [i \in Ids |-> NotKnown]
    BY <1>2 DEF Quit, processVars
  <2>2. model' \in [Ids -> ModelRecord]
    BY <2>1, RecordTypes
  <2> QED  BY <2>1, <2>2 DEF ProcessTypes, StoreTypes, MessageTypes, processVars, Live
<1>3. CASE TakeCall
  <2>1. /\ UNCHANGED processVars /\ UNCHANGED <<toUi, record, model, quit>> /\ blocked' = None
    BY <1>3 DEF TakeCall, processVars
  <2> QED  BY <2>1 DEF ProcessTypes, StoreTypes, MessageTypes, processVars, Live
<1> QED  BY <1>1, <1>2, <1>3

LEMMA DatabaseTypes ==
  ASSUME StudioTypes, Database
  PROVE  ProcessTypes' /\ StoreTypes' /\ MessageTypes'
<1> USE DEF StudioTypes
<1>1. PICK o \in Ops : DbStep(o) \/ DbFails(o)
  BY DEF Database
<1>2. UNCHANGED processVars /\ UNCHANGED <<model, blocked, quit>>
  BY <1>1 DEF DbStep, DbFails, processVars
<1>3. \/ record' = record
      \/ op[o] # Idle /\ \E r \in {"none", "new", "ran"} : Write(o, r)
  <2>1. CASE DbFails(o)
    BY <2>1 DEF DbFails
  <2>2. CASE DbStep(o)
    <3>1. /\ op[o].step # "none"
          /\ record' = record \/ Write(o, "new") \/ Write(o, "ran") \/ Write(o, "none")
      BY <2>2 DEF DbStep, Step
    <3>2. op[o] # Idle
      BY <3>1 DEF Idle
    <3> QED  BY <3>1, <3>2
  <2> QED  BY <1>1, <2>1, <2>2
<1>4. op[o] # Idle => op[o].id \in Ids
  BY DEF CommandTypes, Pending
<1>5. record' \in [Ids -> {"none", "new", "ran"}]
  BY <1>3, <1>4 DEF StoreTypes, Write
<1>6. toUi' \in Seq(UiMessage)
  <2>1. \A ok \in BOOLEAN : Message("database", o, ok) \in UiMessage
    BY DEF Message, UiMessage
  <2>2. toUi' = toUi \/ \E ok \in BOOLEAN : toUi' = Append(toUi, Message("database", o, ok))
    BY <1>1 DEF DbStep, DbFails, Answer, Advance
  <2> QED  BY <2>1, <2>2 DEF MessageTypes
<1> QED  BY <1>2, <1>5, <1>6 DEF ProcessTypes, StoreTypes, MessageTypes, processVars, Live

\* What a message or an answer changes in the renderer.
LEMMA RendererTypes ==
  ASSUME StudioTypes, Renderer
  PROVE  ProcessTypes' /\ StoreTypes' /\ MessageTypes'
<1> USE DEF StudioTypes
<1>1. PICK kind \in {"create", "remove", "stderr", "close", "database"}, ok \in BOOLEAN :
        Handle(kind, ok)
  BY DEF Renderer, HandleServiceMessage, HandleAnswer
<1>2. /\ UNCHANGED processVars /\ UNCHANGED <<record, quit>> /\ toUi' = Tail(toUi)
      /\ toUi # <<>> /\ toUi \in Seq(UiMessage)
  BY <1>1 DEF Handle, processVars, MessageTypes
<1>3. toUi' \in Seq(UiMessage) /\ Head(toUi) \in UiMessage
  BY <1>2
<1>4. CASE HandleServiceMessage
  <2>1. blocked' = blocked
    BY <1>4 DEF HandleServiceMessage
  <2>2. Head(toUi).kind # "database" => Head(toUi).id \in Ids
    BY <1>3 DEF UiMessage
  <2>3. CASE model' = model
    BY <1>2, <1>3, <2>1, <2>3 DEF ProcessTypes, StoreTypes, MessageTypes, processVars, Live
  <2>4. CASE model' # model
    <3>1. /\ Head(toUi).kind \in {"close", "create", "remove"}
          /\ \/ Set(Head(toUi).id, StoppedIn(Head(toUi).id))
             \/ Set(Head(toUi).id, FailedIn(Head(toUi).id))
      BY <1>4, <2>4 DEF HandleServiceMessage, Handle
    <3>2. model' \in [Ids -> ModelRecord]
      BY <2>2, <3>1, SetTypes, RecordTypes
    <3> QED  BY <1>2, <1>3, <2>1, <3>2 DEF ProcessTypes, StoreTypes, MessageTypes, processVars, Live
  <2> QED  BY <2>3, <2>4
<1>5. ASSUME NEW o \in Ops, HandleAnswer(o)
      PROVE  ProcessTypes' /\ StoreTypes' /\ MessageTypes'
  <2>1. op[o] # Idle
    BY <1>5 DEF HandleAnswer, Idle
  <2>2. op[o].id \in Ids /\ op[o].call \in Calls
    BY <2>1 DEF CommandTypes, Pending
  <2>3. blocked' \in {blocked, o}
    BY <1>5, <2>2 DEF HandleAnswer, Done, Call, Calls
  <2>4. \/ model' = model
        \/ Set(op[o].id, StartedIn(op[o].id)) \/ Set(op[o].id, FailedIn(op[o].id))
        \/ model' = [model EXCEPT ![op[o].id] = Added]
        \/ model' = [model EXCEPT ![op[o].id] = NotKnown]
    BY <1>5, <2>2 DEF HandleAnswer, Calls
  <2>5. model' \in [Ids -> ModelRecord]
    BY <2>2, <2>4, SetTypes, RecordTypes
  <2> QED  BY <1>2, <1>3, <2>3, <2>5 DEF ProcessTypes, StoreTypes, MessageTypes, processVars, Live
<1> QED  BY <1>4, <1>5 DEF Renderer

\* What a command, a child that complains, and one that closes change in the
\* service.
LEMMA ServiceKeepsTypes ==
  ASSUME StudioTypes, Service
  PROVE  ProcessTypes' /\ StoreTypes' /\ MessageTypes'
<1> USE ServiceAssumption DEF StudioTypes
<1>1. UNCHANGED <<record, model, blocked, quit>>
  BY DEF Service
<1>2. StoreTypes'
  BY <1>1 DEF StoreTypes
<1>3. \A kind \in {"create", "remove", "stderr", "close"}, i \in Ids, ok \in BOOLEAN :
        Append(toUi, Message(kind, i, ok)) \in Seq(UiMessage)
  <2> SUFFICES ASSUME NEW kind \in {"create", "remove", "stderr", "close"},
                      NEW i \in Ids, NEW ok \in BOOLEAN
               PROVE  Append(toUi, Message(kind, i, ok)) \in Seq(UiMessage)
    OBVIOUS
  <2>1. Message(kind, i, ok) \in UiMessage
    BY DEF Message, UiMessage
  <2> QED  BY <2>1 DEF MessageTypes
<1>4. CASE HandleCommand
  <2>1. PICK i \in Ids : RefuseCreate(i) \/ CreateModel(i) \/ RefuseRemove(i) \/ RemoveModel(i)
    BY <1>4 DEF HandleCommand
  <2>2. attached' \subseteq Ids
    BY <2>1 DEF RefuseCreate, CreateModel, RefuseRemove, RemoveModel, ProcessTypes
  <2>3. MessageTypes'
    BY <1>3, <2>1 DEF RefuseCreate, CreateModel, RefuseRemove, RemoveModel, Reject, MessageTypes
  <2>4. ASSUME RefuseCreate(i) \/ RefuseRemove(i) PROVE ProcessTypes'
    <3>1. UNCHANGED <<models, owner, killed>>
      BY <2>4 DEF RefuseCreate, RefuseRemove, Reject
    <3> QED  BY <2>2, <3>1 DEF ProcessTypes, Live
  <2>5. ASSUME CreateModel(i) PROVE ProcessTypes'
    <3>1. PICK p \in Procs \ Live :
            owner' = [owner EXCEPT ![p] = i] /\ models' = [models EXCEPT ![i] = p]
      BY <2>5 DEF CreateModel
    <3>2. killed' = killed
      BY <2>5 DEF CreateModel
    <3>3. Live \subseteq Live' /\ owner[p] = None
      BY <3>1 DEF Live, ProcessTypes
    <3>4. owner' \in [Procs -> Ids \cup {None}] /\ models' \in [Ids -> Procs \cup {None}]
      BY <3>1 DEF ProcessTypes
    <3>5. \A j \in Ids : models'[j] # None => owner'[models'[j]] = j
      BY <3>1, <3>3 DEF ProcessTypes
    <3> QED  BY <2>2, <3>2, <3>3, <3>4, <3>5 DEF ProcessTypes
  <2>6. ASSUME RemoveModel(i) PROVE ProcessTypes'
    <3>1. /\ models' = [models EXCEPT ![i] = None] /\ killed' = killed \cup {models[i]}
          /\ owner' = owner /\ models[i] # None
      BY <2>6 DEF RemoveModel
    <3>2. models[i] \in Live /\ Live' = Live
      BY <3>1 DEF ProcessTypes, Live
    <3>3. models' \in [Ids -> Procs \cup {None}]
          /\ \A j \in Ids : models'[j] # None => models'[j] = models[j]
      BY <3>1 DEF ProcessTypes
    <3> QED  BY <2>2, <3>1, <3>2, <3>3 DEF ProcessTypes
  <2> QED  BY <1>2, <2>1, <2>3, <2>4, <2>5, <2>6
<1>5. ASSUME NEW p \in Procs, ChildCloses(p) \/ ChildComplains(p)
      PROVE  ProcessTypes' /\ MessageTypes'
  <2>1. p \in Live /\ owner[p] \in Ids /\ attached' = attached
    BY <1>5 DEF ChildCloses, ChildComplains, Live, ProcessTypes
  <2>2. MessageTypes'
    <3>1. PICK kind \in {"stderr", "close"}, ok \in BOOLEAN : toUi' = Forward(owner[p], kind, ok)
      BY <1>5 DEF ChildCloses, ChildComplains
    <3> QED  BY <1>3, <2>1, <3>1 DEF Forward, MessageTypes
  <2>3. ASSUME ChildComplains(p) PROVE ProcessTypes'
    <3>1. UNCHANGED <<models, owner, killed>>
      BY <2>3 DEF ChildComplains
    <3> QED  BY <2>1, <3>1 DEF ProcessTypes, Live
  <2>4. ASSUME ChildCloses(p) PROVE ProcessTypes'
    <3>1. /\ models' = [models EXCEPT ![owner[p]] = None] /\ owner' = [owner EXCEPT ![p] = None]
          /\ killed' = killed \ {p}
      BY <2>4 DEF ChildCloses
    <3>2. Live' = Live \ {p}
      BY <3>1 DEF Live, ProcessTypes
    <3>3. models' \in [Ids -> Procs \cup {None}] /\ owner' \in [Procs -> Ids \cup {None}]
      BY <3>1 DEF ProcessTypes
    <3>4. \A j \in Ids : models'[j] # None => owner'[models'[j]] = j
      <4> SUFFICES ASSUME NEW j \in Ids, models'[j] # None PROVE owner'[models'[j]] = j
        OBVIOUS
      <4>1. j # owner[p] /\ models'[j] = models[j]
        BY <2>1, <3>1 DEF ProcessTypes
      <4>2. owner[models[j]] = j /\ models[j] \in Procs
        BY <4>1 DEF ProcessTypes
      <4>3. models[j] # p
        BY <4>1, <4>2
      <4> QED  BY <3>1, <4>1, <4>2, <4>3 DEF ProcessTypes
    <3> QED  BY <2>1, <3>1, <3>2, <3>3, <3>4 DEF ProcessTypes
  <2> QED  BY <1>5, <2>2, <2>3, <2>4
<1> QED  BY <1>2, <1>4, <1>5 DEF Service

LEMMA StepTypes ==
  ASSUME StudioTypes, [Next]_vars
  PROVE  StudioTypes'
<1>1. CommandTypes'
  BY StepIsServiceStep DEF StudioTypes
<1>2. CASE UNCHANGED vars
  BY <1>1, <1>2 DEF vars, StudioTypes, ProcessTypes, StoreTypes, MessageTypes, Live
<1>3. CASE Next
  BY <1>1, <1>3, UserTypes, DatabaseTypes, RendererTypes, ServiceKeepsTypes DEF Next, StudioTypes
<1> QED  BY <1>2, <1>3

-----------------------------------------------------------------------------
\* Starting, deleting, deleting with the file and closing the window, with the
\* answers of the database and the messages of the service in any order, use
\* ModelService only as ChildService says a client does.
THEOREM StudioImplementsService == Spec => ImplementsService
<1>1. Spec => []CommandTypes
  BY InitIsServiceInit, StepIsServiceStep, PTL DEF Spec
<1>2. Spec => ServiceSpec
  BY <1>1, InitIsServiceInit, StepIsServiceStep, PTL DEF Spec, ServiceSpec
<1> QED  BY <1>2 DEF ImplementsService

\* HTM Studio never runs more models at once than its service allows.
THEOREM StudioIsLimited == ASSUME PromptClose PROVE Spec => []ConcurrencyLimit
  BY StudioImplementsService, ServiceIsLimited, PTL DEF ImplementsService

\* A model that runs can always be removed: the service has it under its id.
THEOREM StudioKnowsItsModels == ASSUME PromptClose PROVE Spec => []RunningIsListed
  BY StudioImplementsService, ServiceKnowsItsChildren, PTL DEF ImplementsService

\* The application starts with types as they should be.
LEMMA InitStudioTypes == Init => StudioTypes
<1> SUFFICES ASSUME Init PROVE StudioTypes
  OBVIOUS
<1>1. CommandTypes
  BY InitIsServiceInit
<1>2. ProcessTypes /\ MessageTypes
  BY DEF Init, ServiceInit, ProcessTypes, MessageTypes, Live
<1>3. StoreTypes
  BY DEF Init, StoreTypes, ModelRecord, NotKnown, Added
<1> QED  BY <1>1, <1>2, <1>3 DEF StudioTypes

\* The model keeps its types, of _models and ModelStore among others; a child
\* that was signalled and listed as such has not yet closed.
THEOREM StudioKeepsTypes == Spec => []TypeOK
<1>1. Init => StudioTypes
  BY InitStudioTypes
<1>2. StudioTypes => TypeOK
  BY DEF StudioTypes, CommandTypes, ProcessTypes, StoreTypes, MessageTypes, TypeOK,
         Pending, ModelRecord
<1> QED  BY <1>1, <1>2, StepTypes, PTL DEF Spec

-----------------------------------------------------------------------------
\* What the store shows of a model, and where its child is.

CreateOf(i) == [cmd |-> "create", id |-> i]
RemoveOf(i) == [cmd |-> "remove", id |-> i]

\* Of commands c: none is about the model; one removes it; whatever is created
\* is removed by a later one; the only one about it creates it.
Untouched(c, i) == \A k \in 1 .. Len(c) : c[k].id # i
Removes(c, i)   == \E k \in 1 .. Len(c) : c[k] = RemoveOf(i)
Covered(c, i)   == \A k \in 1 .. Len(c) : c[k] = CreateOf(i) =>
                     \E j \in 1 .. Len(c) : j > k /\ c[j] = RemoveOf(i)
OnlyCreates(c, i) ==
  /\ \E k \in 1 .. Len(c) : c[k] = CreateOf(i)
  /\ \A k, l \in 1 .. Len(c) : c[k].id = i /\ c[l].id = i => k = l

\* The messages that make the store show a model as inactive.
IsNews(m, i) == m.kind \in {"create", "remove", "close"} /\ m.id = i
Silent(m, i) == \A k \in 1 .. Len(m) : ~IsNews(m[k], i)

\* The answers of the database to a chain: there is one; there is no other; the
\* news of the model come before it.
IsAnswer(m, o)     == m.kind = "database" /\ m.id = o
Answered(m, o)     == \E k \in 1 .. Len(m) : IsAnswer(m[k], o)
Single(m, o)       == \A k, j \in 1 .. Len(m) :
                        IsAnswer(m[k], o) /\ IsAnswer(m[j], o) => j = k
NewsFirst(m, o, i) == \A k, j \in 1 .. Len(m) :
                        IsAnswer(m[k], o) /\ IsNews(m[j], i) => j < k

\* The child of the model is gone, or will be when the commands are handled.
Leaving(i) == Covered(toMain, i) /\ (models[i] # None => Removes(toMain, i))

\* So are its listeners.
Gone(i) == Leaving(i) /\ (i \in attached => Removes(toMain, i))

\* Nothing of an earlier child is left in the service, or on its way to it.
Clear(i) == Untouched(toMain, i) /\ models[i] = None /\ i \notin attached

\* The child of the model has still to be created.
Awaited(i) ==
  OnlyCreates(toMain, i) /\ models[i] = None /\ i \notin attached /\ Silent(toUi, i)

Shown(i) ==
  Untouched(toMain, i) /\ models[i] # None /\ i \in attached /\ Silent(toUi, i)

Ended(i) == Untouched(toMain, i) /\ models[i] = None /\ ~Silent(toUi, i)

\* An active model is about to get its child, has it, or is about to be told
\* that there is none; an inactive one has none, or it is being removed; one
\* that never ran starts from nothing.
StoreFollows(i) ==
  /\ ~model[i].known => model[i] = NotKnown /\ Gone(i)
  /\ model[i].known /\ ~model[i].ran => Clear(i) /\ Silent(toUi, i)
  /\ model[i].active => model[i].ran /\ (Awaited(i) \/ Shown(i) \/ Ended(i))
  /\ ~model[i].active => Leaving(i)

\* What holds while a chain is under way: when it adds a model, the news of an
\* earlier child come before its answer.
ChainFollows(o) ==
  LET i == op[o].id IN
  /\ op[o] # Idle => ~model[i].active
  /\ op[o].call = "putModel" =>
       /\ ~model[i].known
       /\ blocked # o => Clear(i)
       /\ NewsFirst(toUi, o, i)
  /\ op[o].call \in {"updateMetric", "updateModel"} => model[i].known /\ ~model[i].ran
  /\ blocked = o => op[o].step = "first"

OneChainEach ==
  \A o, other \in Ops : op[o] # Idle /\ op[other].id = op[o].id => o = other

\* An answer on its way is the only one to its chain, which waits for it.
AnswersAwaited ==
  \A o \in Ops : Single(toUi, o) /\ (Answered(toUi, o) => op[o].step = "answer")

Open ==
  /\ \A i \in Ids : StoreFollows(i)
  /\ \A o \in Ops : ChainFollows(o)
  /\ OneChainEach
  /\ AnswersAwaited

TruthInv == (~quit => Open) /\ \A i \in Ids : quit => Leaving(i)

-----------------------------------------------------------------------------
\* A command is sent.
LEMMA CommandSent ==
  ASSUME NEW c \in Seq(Command), NEW x \in Command, NEW i \in Ids
  PROVE  LET d == Append(c, x) IN
         /\ x.id # i => /\ Untouched(c, i) => Untouched(d, i)
                        /\ Covered(c, i) => Covered(d, i)
                        /\ OnlyCreates(c, i) => OnlyCreates(d, i)
         /\ Removes(c, i) => Removes(d, i)
         /\ x = RemoveOf(i) => Covered(d, i) /\ Removes(d, i)
         /\ x = CreateOf(i) /\ Untouched(c, i) => OnlyCreates(d, i)
<1> DEFINE d == Append(c, x)
<1>1. /\ Len(c) \in Nat /\ Len(d) = Len(c) + 1 /\ d[Len(c) + 1] = x
      /\ \A k \in 1 .. Len(c) : d[k] = c[k]
  OBVIOUS
<1> HIDE DEF d
<1>2. CreateOf(i).id = i /\ RemoveOf(i).id = i /\ CreateOf(i) # RemoveOf(i)
  <2>1. CreateOf(i).cmd # RemoveOf(i).cmd
    BY DEF CreateOf, RemoveOf
  <2> QED  BY <2>1 DEF CreateOf, RemoveOf
<1>3. ASSUME x.id # i, Untouched(c, i) PROVE Untouched(d, i)
  BY <1>1, <1>3 DEF Untouched
<1>4. ASSUME x.id # i, Covered(c, i) PROVE Covered(d, i)
  <2> SUFFICES ASSUME NEW k \in 1 .. Len(d), d[k] = CreateOf(i)
               PROVE  \E j \in 1 .. Len(d) : j > k /\ d[j] = RemoveOf(i)
    BY DEF Covered
  <2>1. k \in 1 .. Len(c) /\ c[k] = CreateOf(i)
    BY <1>1, <1>2, <1>4
  <2>2. PICK j \in 1 .. Len(c) : j > k /\ c[j] = RemoveOf(i)
    BY <1>4, <2>1 DEF Covered
  <2> QED  BY <1>1, <2>2
<1>5. ASSUME x.id # i, OnlyCreates(c, i) PROVE OnlyCreates(d, i)
  <2>1. \E k \in 1 .. Len(d) : d[k] = CreateOf(i)
    BY <1>1, <1>5 DEF OnlyCreates
  <2>2. ASSUME NEW k \in 1 .. Len(d), d[k].id = i PROVE k \in 1 .. Len(c) /\ c[k].id = i
    BY <1>1, <1>5, <2>2
  <2> QED  BY <1>5, <2>1, <2>2 DEF OnlyCreates
<1>6. ASSUME Removes(c, i) PROVE Removes(d, i)
  BY <1>1, <1>6 DEF Removes
<1>7. ASSUME x = RemoveOf(i) PROVE Covered(d, i) /\ Removes(d, i)
  <2>1. Len(d) \in 1 .. Len(d) /\ d[Len(d)] = RemoveOf(i)
    BY <1>1, <1>7
  <2>2. \A k \in 1 .. Len(d) : d[k] = CreateOf(i) => Len(d) > k
    BY <1>1, <1>2, <2>1
  <2> QED  BY <2>1, <2>2 DEF Covered, Removes
<1>8. ASSUME x = CreateOf(i), Untouched(c, i) PROVE OnlyCreates(d, i)
  <2>1. Len(d) \in 1 .. Len(d) /\ d[Len(d)] = CreateOf(i)
    BY <1>1, <1>8
  <2>2. \A k \in 1 .. Len(d) : d[k].id = i => k = Len(d)
    BY <1>1, <1>8 DEF Untouched
  <2> QED  BY <2>1, <2>2 DEF OnlyCreates
<1> QED  BY <1>3, <1>4, <1>5, <1>6, <1>7, <1>8 DEF d

\* A command is taken.
LEMMA CommandTaken ==
  ASSUME NEW c \in Seq(Command), c # <<>>, NEW i \in Ids
  PROVE  LET d == Tail(c) IN
         /\ Untouched(c, i) => Untouched(d, i) /\ Head(c).id # i
         /\ Covered(c, i) => Covered(d, i)
         /\ Covered(c, i) /\ Head(c) = CreateOf(i) => Removes(d, i)
         /\ Removes(c, i) /\ Head(c) # RemoveOf(i) => Removes(d, i)
         /\ OnlyCreates(c, i) /\ Head(c).id # i => OnlyCreates(d, i)
         /\ OnlyCreates(c, i) /\ Head(c).id = i =>
              Head(c) = CreateOf(i) /\ Untouched(d, i)
<1> DEFINE d == Tail(c)
<1>1. /\ Len(c) \in Nat \ {0} /\ Len(d) = Len(c) - 1 /\ Head(c) = c[1]
      /\ \A k \in 1 .. Len(d) : d[k] = c[k + 1]
  OBVIOUS
<1>2. \A k \in 1 .. Len(c) : k # 1 => k - 1 \in 1 .. Len(d) /\ d[k - 1] = c[k]
  BY <1>1
<1>3. \A k \in 1 .. Len(d) : k + 1 \in 1 .. Len(c) /\ d[k] = c[k + 1]
  BY <1>1
<1> HIDE DEF d
<1>4. ASSUME Untouched(c, i) PROVE Untouched(d, i) /\ Head(c).id # i
  <2>1. 1 \in 1 .. Len(c)
    BY <1>1
  <2> QED  BY <1>1, <1>3, <1>4, <2>1 DEF Untouched
<1>5. ASSUME Covered(c, i) PROVE Covered(d, i)
  <2> SUFFICES ASSUME NEW k \in 1 .. Len(d), d[k] = CreateOf(i)
               PROVE  \E j \in 1 .. Len(d) : j > k /\ d[j] = RemoveOf(i)
    BY DEF Covered
  <2>1. PICK j \in 1 .. Len(c) : j > k + 1 /\ c[j] = RemoveOf(i)
    BY <1>3, <1>5 DEF Covered
  <2>2. j - 1 \in 1 .. Len(d) /\ d[j - 1] = RemoveOf(i) /\ j - 1 > k
    BY <1>2, <2>1
  <2> QED  BY <2>2
<1>6. ASSUME Covered(c, i), Head(c) = CreateOf(i) PROVE Removes(d, i)
  <2>1. 1 \in 1 .. Len(c) /\ c[1] = CreateOf(i)
    BY <1>1, <1>6
  <2>2. PICK j \in 1 .. Len(c) : j > 1 /\ c[j] = RemoveOf(i)
    BY <1>6, <2>1 DEF Covered
  <2> QED  BY <1>2, <2>2 DEF Removes
<1>7. ASSUME Removes(c, i), Head(c) # RemoveOf(i) PROVE Removes(d, i)
  BY <1>1, <1>2, <1>7 DEF Removes
<1>8. ASSUME OnlyCreates(c, i), Head(c).id # i PROVE OnlyCreates(d, i)
  <2>1. PICK k \in 1 .. Len(c) : c[k] = CreateOf(i)
    BY <1>8 DEF OnlyCreates
  <2>2. k # 1
    BY <1>1, <1>8, <2>1 DEF CreateOf
  <2>3. \E l \in 1 .. Len(d) : d[l] = CreateOf(i)
    BY <1>2, <2>1, <2>2
  <2>4. ASSUME NEW l \in 1 .. Len(d), NEW m \in 1 .. Len(d), d[l].id = i, d[m].id = i
        PROVE  l = m
    <3>1. l + 1 = m + 1
      BY <1>3, <1>8, <2>4 DEF OnlyCreates
    <3> QED  BY <3>1
  <2> QED  BY <2>3, <2>4 DEF OnlyCreates
<1>9. ASSUME OnlyCreates(c, i), Head(c).id = i
      PROVE  Head(c) = CreateOf(i) /\ Untouched(d, i)
  <2>1. PICK k \in 1 .. Len(c) : c[k] = CreateOf(i)
    BY <1>9 DEF OnlyCreates
  <2>2. 1 \in 1 .. Len(c) /\ c[1].id = i /\ c[k].id = i
    BY <1>1, <1>9, <2>1 DEF CreateOf
  <2>3. \A l \in 1 .. Len(c) : c[l].id = i => l = 1
    BY <1>9, <2>2 DEF OnlyCreates
  <2>4. Untouched(d, i)
    <3> SUFFICES ASSUME NEW l \in 1 .. Len(d), d[l].id = i PROVE FALSE
      BY DEF Untouched
    <3>1. l + 1 = 1
      BY <1>3, <2>3
    <3> QED  BY <3>1
  <2> QED  BY <1>1, <2>1, <2>2, <2>3, <2>4
<1> QED  BY <1>4, <1>5, <1>6, <1>7, <1>8, <1>9 DEF d

\* The commands of a quitting renderer are removals.
LEMMA RemovalsSent ==
  ASSUME NEW c \in Seq(Command), NEW more \in Seq(Command), NEW i \in Ids,
         \A k \in 1 .. Len(more) : more[k].cmd = "remove"
  PROVE  LET d == c \o more IN
         /\ Covered(c, i) => Covered(d, i)
         /\ Removes(c, i) => Removes(d, i)
         /\ Removes(more, i) => Covered(d, i) /\ Removes(d, i)
<1> DEFINE d == c \o more
<1>1. /\ Len(c) \in Nat /\ Len(more) \in Nat /\ Len(d) = Len(c) + Len(more)
      /\ \A k \in 1 .. Len(c) : d[k] = c[k]
      /\ \A k \in 1 .. Len(more) : d[Len(c) + k] = more[k]
  OBVIOUS
<1> HIDE DEF d
<1>2. \A k \in 1 .. Len(more) : more[k] # CreateOf(i)
  BY DEF CreateOf
<1>3. ASSUME NEW k \in 1 .. Len(d), d[k] = CreateOf(i)
      PROVE  k \in 1 .. Len(c) /\ c[k] = CreateOf(i)
  <2>1. CASE k \in 1 .. Len(c)
    BY <1>1, <1>3, <2>1
  <2>2. CASE k > Len(c)
    <3>1. k - Len(c) \in 1 .. Len(more) /\ d[Len(c) + (k - Len(c))] = d[k]
      BY <1>1, <2>2
    <3> QED  BY <1>1, <1>2, <1>3, <3>1
  <2> QED  BY <1>1, <2>1, <2>2
<1>4. ASSUME Covered(c, i) PROVE Covered(d, i)
  <2> SUFFICES ASSUME NEW k \in 1 .. Len(d), d[k] = CreateOf(i)
               PROVE  \E j \in 1 .. Len(d) : j > k /\ d[j] = RemoveOf(i)
    BY DEF Covered
  <2>1. PICK j \in 1 .. Len(c) : j > k /\ c[j] = RemoveOf(i)
    BY <1>3, <1>4 DEF Covered
  <2> QED  BY <1>1, <2>1
<1>5. ASSUME Removes(c, i) PROVE Removes(d, i)
  BY <1>1, <1>5 DEF Removes
<1>6. ASSUME Removes(more, i) PROVE Covered(d, i) /\ Removes(d, i)
  <2>1. PICK j \in 1 .. Len(more) : more[j] = RemoveOf(i)
    BY <1>6 DEF Removes
  <2>2. Len(c) + j \in 1 .. Len(d) /\ d[Len(c) + j] = RemoveOf(i) /\ Len(c) + j > Len(c)
    BY <1>1, <2>1
  <2>3. \A k \in 1 .. Len(d) : d[k] = CreateOf(i) => Len(c) + j > k
    BY <1>1, <1>3
  <2> QED  BY <2>2, <2>3 DEF Covered, Removes
<1> QED  BY <1>4, <1>5, <1>6 DEF d

\* A message is sent, and one is taken.
LEMMA MessageSent ==
  ASSUME NEW S, NEW m \in Seq(S), NEW x \in S, NEW i, NEW o
  PROVE  LET n == Append(m, x) IN
         /\ Silent(n, i) <=> Silent(m, i) /\ ~IsNews(x, i)
         /\ Answered(n, o) <=> Answered(m, o) \/ IsAnswer(x, o)
         /\ Single(m, o) /\ (~IsAnswer(x, o) \/ ~Answered(m, o)) => Single(n, o)
         /\ NewsFirst(m, o, i) /\ ~IsNews(x, i) => NewsFirst(n, o, i)
<1> DEFINE n == Append(m, x)
<1>1. /\ Len(m) \in Nat /\ Len(n) = Len(m) + 1 /\ n[Len(m) + 1] = x
      /\ \A k \in 1 .. Len(m) : k \in 1 .. Len(n) /\ n[k] = m[k]
      /\ \A k \in 1 .. Len(n) : k \in 1 .. Len(m) \/ k = Len(m) + 1
      /\ Len(m) + 1 \in 1 .. Len(n)
  OBVIOUS
<1> HIDE DEF n
<1>2. Silent(n, i) <=> Silent(m, i) /\ ~IsNews(x, i)
  BY <1>1 DEF Silent
<1>3. Answered(n, o) <=> Answered(m, o) \/ IsAnswer(x, o)
  BY <1>1 DEF Answered
<1>4. Single(m, o) /\ (~IsAnswer(x, o) \/ ~Answered(m, o)) => Single(n, o)
  BY <1>1 DEF Single, Answered
<1>5. ASSUME NewsFirst(m, o, i), ~IsNews(x, i),
             NEW k \in 1 .. Len(n), NEW j \in 1 .. Len(n), IsAnswer(n[k], o), IsNews(n[j], i)
      PROVE  j < k
  <2>1. j \in 1 .. Len(m) /\ IsNews(m[j], i)
    BY <1>1, <1>5
  <2> QED  BY <1>1, <1>5, <2>1 DEF NewsFirst
<1>6. NewsFirst(m, o, i) /\ ~IsNews(x, i) => NewsFirst(n, o, i)
  BY <1>5 DEF NewsFirst
<1> QED  BY <1>2, <1>3, <1>4, <1>6 DEF n

LEMMA MessageTaken ==
  ASSUME NEW S, NEW m \in Seq(S), m # <<>>, NEW i, NEW o
  PROVE  LET n == Tail(m) IN
         /\ Silent(m, i) <=> Silent(n, i) /\ ~IsNews(Head(m), i)
         /\ Answered(n, o) => Answered(m, o)
         /\ Single(m, o) => Single(n, o) /\ (IsAnswer(Head(m), o) => ~Answered(n, o))
         /\ NewsFirst(m, o, i) =>
              NewsFirst(n, o, i) /\ (IsAnswer(Head(m), o) => Silent(m, i))
<1> DEFINE n == Tail(m)
<1>1. /\ Len(m) \in Nat \ {0} /\ Len(n) = Len(m) - 1 /\ Head(m) = m[1]
      /\ \A k \in 1 .. Len(n) : n[k] = m[k + 1]
  OBVIOUS
<1>2. \A k \in 1 .. Len(m) : k # 1 => k - 1 \in 1 .. Len(n) /\ n[k - 1] = m[k]
  BY <1>1
<1>3. \A k \in 1 .. Len(n) : k + 1 \in 1 .. Len(m) /\ n[k] = m[k + 1] /\ k + 1 # 1
  BY <1>1
<1>4. 1 \in 1 .. Len(m)
  BY <1>1
<1> HIDE DEF n
<1>5. Silent(m, i) <=> Silent(n, i) /\ ~IsNews(Head(m), i)
  BY <1>1, <1>2, <1>3, <1>4 DEF Silent
<1>6. Answered(n, o) => Answered(m, o)
  BY <1>3 DEF Answered
<1>7. ASSUME Single(m, o), NEW k \in 1 .. Len(n), NEW j \in 1 .. Len(n),
             IsAnswer(n[k], o), IsAnswer(n[j], o)
      PROVE  j = k
  <2>1. k + 1 = j + 1
    BY <1>3, <1>7 DEF Single
  <2> QED  BY <2>1
<1>8. Single(m, o) /\ IsAnswer(Head(m), o) => ~Answered(n, o)
  BY <1>1, <1>3, <1>4 DEF Single, Answered
<1>9. ASSUME NewsFirst(m, o, i), NEW k \in 1 .. Len(n), NEW j \in 1 .. Len(n),
             IsAnswer(n[k], o), IsNews(n[j], i)
      PROVE  j < k
  <2>1. j + 1 < k + 1
    BY <1>3, <1>9 DEF NewsFirst
  <2> QED  BY <2>1
<1>10. ASSUME NewsFirst(m, o, i), IsAnswer(Head(m), o) PROVE Silent(m, i)
  <2>1. \A j \in 1 .. Len(m) : IsNews(m[j], i) => j < 1
    BY <1>1, <1>4, <1>10 DEF NewsFirst
  <2> QED  BY <2>1 DEF Silent
<1>11. (Single(m, o) => Single(n, o)) /\ (NewsFirst(m, o, i) => NewsFirst(n, o, i))
  BY <1>7, <1>9 DEF Single, NewsFirst
<1> QED  BY <1>5, <1>6, <1>8, <1>10, <1>11 DEF n

-----------------------------------------------------------------------------
\* What becomes of a model while the service is at work.
Goes(i) ==
  /\ Leaving(i) => Leaving(i)'
  /\ Gone(i) => Gone(i)'
  /\ Clear(i) => Clear(i)'
  /\ Clear(i) /\ Silent(toUi, i) => Silent(toUi, i)'
  /\ Awaited(i) => (Awaited(i) \/ Shown(i) \/ Ended(i))'
  /\ Shown(i) => (Shown(i) \/ Ended(i))'
  /\ Ended(i) => Ended(i)'

\* A step about another model.
LEMMA GoesElsewhere ==
  ASSUME NEW i \in Ids, CommandTypes,
         models'[i] = models[i], i \in attached' <=> i \in attached,
         Silent(toUi, i)' <=> Silent(toUi, i),
         \/ toMain' = toMain
         \/ toMain # <<>> /\ toMain' = Tail(toMain) /\ Head(toMain).id # i
  PROVE  Goes(i)
<1>1. toMain \in Seq(Command) /\ RemoveOf(i).id = i
  BY DEF CommandTypes, RemoveOf
<1>2. /\ Untouched(toMain, i) => Untouched(toMain, i)'
      /\ Covered(toMain, i) => Covered(toMain, i)'
      /\ Removes(toMain, i) => Removes(toMain, i)'
      /\ OnlyCreates(toMain, i) => OnlyCreates(toMain, i)'
  <2>1. CASE toMain' = toMain
    BY <2>1 DEF Untouched, Covered, Removes, OnlyCreates
  <2>2. CASE toMain # <<>> /\ toMain' = Tail(toMain) /\ Head(toMain).id # i
    <3>1. Head(toMain) # RemoveOf(i)
      BY <1>1, <2>2
    <3>2. /\ Untouched(toMain, i) => Untouched(Tail(toMain), i)
          /\ Covered(toMain, i) => Covered(Tail(toMain), i)
          /\ Removes(toMain, i) => Removes(Tail(toMain), i)
          /\ OnlyCreates(toMain, i) => OnlyCreates(Tail(toMain), i)
      BY <1>1, <2>2, <3>1, CommandTaken
    <3> QED  BY <2>2, <3>2 DEF Untouched, Covered, Removes, OnlyCreates
  <2> QED  BY <2>1, <2>2
<1> QED  BY <1>2 DEF Goes, Leaving, Gone, Clear, Awaited, Shown, Ended

\* A command about the model.
LEMMA GoesByCommand ==
  ASSUME StudioTypes, NEW i \in Ids,
         RefuseCreate(i) \/ CreateModel(i) \/ RefuseRemove(i) \/ RemoveModel(i)
  PROVE  Goes(i)
<1> USE ServiceAssumption
<1>t. /\ toMain \in Seq(Command) /\ toUi \in Seq(UiMessage)
      /\ models \in [Ids -> Procs \cup {None}] /\ attached \subseteq Ids
  BY DEF StudioTypes, CommandTypes, MessageTypes, ProcessTypes
<1>h. /\ toMain # <<>> /\ toMain' = Tail(toMain)
      /\ Head(toMain) \in {CreateOf(i), RemoveOf(i)}
  BY DEF RefuseCreate, CreateModel, RefuseRemove, RemoveModel, Receive, CreateOf, RemoveOf
<1>i. CreateOf(i).id = i /\ RemoveOf(i).id = i /\ CreateOf(i) # RemoveOf(i)
  <2>1. CreateOf(i).cmd # RemoveOf(i).cmd
    BY DEF CreateOf, RemoveOf
  <2> QED  BY <2>1 DEF CreateOf, RemoveOf
<1>q. /\ Untouched(toMain, i) => Head(toMain).id # i
      /\ Covered(toMain, i) => Covered(Tail(toMain), i)
      /\ Covered(toMain, i) /\ Head(toMain) = CreateOf(i) => Removes(Tail(toMain), i)
      /\ OnlyCreates(toMain, i) /\ Head(toMain).id = i =>
           Head(toMain) = CreateOf(i) /\ Untouched(Tail(toMain), i)
  BY <1>t, <1>h, CommandTaken
<1>1. ~Untouched(toMain, i)
  BY <1>h, <1>i, <1>q
<1>2. ~Clear(i) /\ ~Shown(i) /\ ~Ended(i)
  BY <1>1 DEF Clear, Shown, Ended
<1>3. Covered(toMain, i) => Covered(toMain', i)
  BY <1>h, <1>q
<1>4. Leaving(i) => Covered(toMain, i)
  BY DEF Leaving
<1>5. CASE RefuseCreate(i) \/ CreateModel(i)
  <2>1. Head(toMain) = CreateOf(i)
    BY <1>5 DEF RefuseCreate, CreateModel, Receive, CreateOf
  <2>2. Covered(toMain, i) => Removes(toMain', i)
    BY <1>h, <1>q, <2>1
  <2>3. (Leaving(i) => Leaving(i)') /\ (Gone(i) => Gone(i)')
    BY <1>3, <1>4, <2>2 DEF Leaving, Gone, Covered, Removes
  <2>4. OnlyCreates(toMain, i) => Untouched(toMain', i)
    BY <1>h, <1>q, <1>i, <2>1
  <2>5. ASSUME Awaited(i) PROVE (Shown(i) \/ Ended(i))'
    <3>1. Untouched(toMain', i) /\ models[i] = None /\ Silent(toUi, i)
      BY <2>4, <2>5 DEF Awaited
    <3>2. CASE RefuseCreate(i)
      <4>1. models' = models /\ toUi' = Append(toUi, Message("create", i, FALSE))
        BY <3>2 DEF RefuseCreate, Reject
      <4>2. Message("create", i, FALSE) \in UiMessage /\ IsNews(Message("create", i, FALSE), i)
        BY DEF Message, UiMessage, IsNews
      <4>3. ~Silent(toUi', i)
        BY <1>t, <4>1, <4>2, MessageSent
      <4> QED  BY <3>1, <4>1, <4>3 DEF Ended, Untouched, Silent
    <3>3. CASE CreateModel(i)
      <4>1. models'[i] # None /\ i \in attached' /\ toUi' = toUi
        BY <1>t, <3>3 DEF CreateModel
      <4> QED  BY <3>1, <4>1 DEF Shown, Untouched, Silent
    <3> QED  BY <1>5, <3>2, <3>3
  <2> QED  BY <1>2, <2>3, <2>5 DEF Goes
<1>6. CASE RefuseRemove(i) \/ RemoveModel(i)
  <2>1. models'[i] = None /\ i \notin attached' /\ Head(toMain) = RemoveOf(i)
    BY <1>t, <1>6 DEF RefuseRemove, RemoveModel, Reject, Receive, RemoveOf
  <2>2. ~OnlyCreates(toMain, i)
    BY <1>q, <1>i, <2>1
  <2>3. ~Awaited(i)
    BY <2>2 DEF Awaited
  <2>4. (Leaving(i) => Leaving(i)') /\ (Gone(i) => Gone(i)')
    BY <1>3, <1>4, <2>1 DEF Leaving, Gone, Covered, Removes
  <2> QED  BY <1>2, <2>3, <2>4 DEF Goes
<1> QED  BY <1>5, <1>6

\* The child of the model closes: the renderer is told while it listens.
LEMMA GoesByClose ==
  ASSUME StudioTypes, NEW p \in Procs, NEW i \in Ids, owner[p] = i, ChildCloses(p)
  PROVE  Goes(i)
<1>t. toUi \in Seq(UiMessage) /\ models \in [Ids -> Procs \cup {None}]
  BY DEF StudioTypes, MessageTypes, ProcessTypes
<1>1. PICK ok \in BOOLEAN : toUi' = Forward(i, "close", ok)
  BY DEF ChildCloses
<1>2. models' = [models EXCEPT ![i] = None] /\ attached' = attached /\ toMain' = toMain
  BY DEF ChildCloses
<1>3. models'[i] = None
  BY <1>t, <1>2
<1>4. CASE i \in attached
  <2>1. Message("close", i, ok) \in UiMessage /\ IsNews(Message("close", i, ok), i)
    BY <1>t DEF Message, UiMessage, IsNews
  <2>2. toUi' = Append(toUi, Message("close", i, ok))
    BY <1>1, <1>4 DEF Forward
  <2>3. ~Silent(toUi', i)
    BY <1>t, <2>1, <2>2, MessageSent
  <2>4. /\ Leaving(i) => Leaving(i)'
        /\ Gone(i) => Gone(i)'
        /\ Shown(i) => Ended(i)'
        /\ Ended(i) => Ended(i)'
    BY <1>2, <1>3, <2>3 DEF Leaving, Gone, Shown, Ended, Covered, Removes, Untouched, Silent
  <2> QED  BY <1>4, <2>4 DEF Goes, Clear, Awaited
<1>5. CASE i \notin attached
  <2>1. toUi' = toUi
    BY <1>1, <1>5 DEF Forward
  <2> QED
    BY <1>2, <1>3, <1>5, <2>1
    DEF Goes, Leaving, Gone, Clear, Awaited, Shown, Ended, Covered, Removes, Untouched,
        OnlyCreates, Silent
<1> QED  BY <1>4, <1>5

\* Of a message of the service, the model it is not about takes no notice.
LEMMA OthersSilent ==
  ASSUME MessageTypes, NEW i \in Ids, NEW j, NEW kind, NEW ok,
         Message(kind, j, ok) \in UiMessage, j # i \/ kind = "stderr",
         toUi' = toUi \/ toUi' = Append(toUi, Message(kind, j, ok))
  PROVE  Silent(toUi, i)' <=> Silent(toUi, i)
<1>1. ~IsNews(Message(kind, j, ok), i)
  BY DEF IsNews, Message
<1>2. toUi \in Seq(UiMessage)
  BY DEF MessageTypes
<1>3. Silent(Append(toUi, Message(kind, j, ok)), i)
        <=> Silent(toUi, i) /\ ~IsNews(Message(kind, j, ok), i)
  BY <1>2, MessageSent
<1> QED  BY <1>1, <1>3 DEF Silent

\* Every step of the service.
LEMMA GoesByService ==
  ASSUME StudioTypes, Service, NEW i \in Ids
  PROVE  Goes(i)
<1> USE ServiceAssumption
<1>t. CommandTypes /\ MessageTypes /\ models \in [Ids -> Procs \cup {None}]
  BY DEF StudioTypes, ProcessTypes
<1>1. CASE HandleCommand
  <2>1. PICK j \in Ids : RefuseCreate(j) \/ CreateModel(j) \/ RefuseRemove(j) \/ RemoveModel(j)
    BY <1>1 DEF HandleCommand
  <2>2. CASE j # i
    <3>1. toMain # <<>> /\ toMain' = Tail(toMain) /\ Head(toMain).id # i
      BY <2>1, <2>2 DEF RefuseCreate, CreateModel, RefuseRemove, RemoveModel, Receive
    <3>2. models'[i] = models[i] /\ (i \in attached' <=> i \in attached)
      BY <1>t, <2>1, <2>2 DEF RefuseCreate, CreateModel, RefuseRemove, RemoveModel, Reject
    <3>3. \E kind \in {"create", "remove"} :
            toUi' = toUi \/ toUi' = Append(toUi, Message(kind, j, FALSE))
      BY <2>1 DEF RefuseCreate, CreateModel, RefuseRemove, RemoveModel, Reject
    <3>4. \A kind \in {"create", "remove"} : Message(kind, j, FALSE) \in UiMessage
      BY DEF Message, UiMessage
    <3>5. Silent(toUi, i)' <=> Silent(toUi, i)
      BY <1>t, <2>2, <3>3, <3>4, OthersSilent
    <3> QED  BY <1>t, <3>1, <3>2, <3>5, GoesElsewhere
  <2> QED  BY <2>1, <2>2, GoesByCommand
<1>2. ASSUME NEW p \in Procs, ChildCloses(p) \/ ChildComplains(p)
      PROVE  Goes(i)
  <2>1. owner[p] \in Ids
    BY <1>2 DEF ChildCloses, ChildComplains, Live, StudioTypes, ProcessTypes
  <2>2. CASE ChildComplains(p) \/ owner[p] # i
    <3>1. /\ models'[i] = models[i] /\ attached' = attached /\ toMain' = toMain
      BY <1>t, <1>2, <2>2 DEF ChildCloses, ChildComplains
    <3>2. PICK kind \in {"stderr", "close"}, ok \in BOOLEAN :
            toUi' = Forward(owner[p], kind, ok) /\ (kind = "stderr" \/ owner[p] # i)
      BY <1>2, <2>2 DEF ChildCloses, ChildComplains
    <3>3. Message(kind, owner[p], ok) \in UiMessage
      BY <2>1 DEF Message, UiMessage
    <3>4. toUi' = toUi \/ toUi' = Append(toUi, Message(kind, owner[p], ok))
      BY <3>2 DEF Forward
    <3>5. Silent(toUi, i)' <=> Silent(toUi, i)
      BY <1>t, <3>2, <3>3, <3>4, OthersSilent
    <3> QED  BY <1>t, <3>1, <3>5, GoesElsewhere
  <2>3. CASE ChildCloses(p) /\ owner[p] = i
    BY <2>3, GoesByClose
  <2> QED  BY <1>2, <2>2, <2>3
<1> QED  BY <1>1, <1>2 DEF Service

\* What the service tells the renderer answers no call, and is never about a
\* model of which nothing is left.
LEMMA ServiceTells ==
  ASSUME StudioTypes, Service
  PROVE  \/ toUi' = toUi
         \/ \E x \in UiMessage :
              /\ toUi' = Append(toUi, x)
              /\ \A o : ~IsAnswer(x, o)
              /\ \A i \in Ids : Clear(i) => ~IsNews(x, i)
<1>1. CASE HandleCommand
  <2>1. PICK j \in Ids : RefuseCreate(j) \/ CreateModel(j) \/ RefuseRemove(j) \/ RemoveModel(j)
    BY <1>1 DEF HandleCommand
  <2>2. CASE toUi' # toUi
    <3>1. PICK kind \in {"create", "remove"} : toUi' = Append(toUi, Message(kind, j, FALSE))
      BY <2>1, <2>2 DEF RefuseCreate, CreateModel, RefuseRemove, RemoveModel, Reject
    <3>2. /\ Message(kind, j, FALSE) \in UiMessage
          /\ \A o : ~IsAnswer(Message(kind, j, FALSE), o)
      BY DEF Message, UiMessage, IsAnswer
    <3>3. toMain # <<>> /\ toMain \in Seq(Command) /\ Head(toMain).id = j
      BY <2>1 DEF RefuseCreate, CreateModel, RefuseRemove, RemoveModel, Receive,
                  StudioTypes, CommandTypes
    <3>4. ASSUME NEW i \in Ids, Clear(i) PROVE ~IsNews(Message(kind, j, FALSE), i)
      <4>1. Head(toMain).id # i
        BY <3>3, <3>4, CommandTaken DEF Clear
      <4> QED  BY <3>3, <4>1 DEF IsNews, Message
    <3> QED  BY <3>1, <3>2, <3>4
  <2> QED  BY <2>2
<1>2. ASSUME NEW p \in Procs, ChildCloses(p) \/ ChildComplains(p), toUi' # toUi
      PROVE  \E x \in UiMessage :
               /\ toUi' = Append(toUi, x)
               /\ \A o : ~IsAnswer(x, o)
               /\ \A i \in Ids : Clear(i) => ~IsNews(x, i)
  <2>1. PICK kind \in {"stderr", "close"}, ok \in BOOLEAN :
          toUi' = Forward(owner[p], kind, ok)
    BY <1>2 DEF ChildCloses, ChildComplains
  <2>2. owner[p] \in attached /\ toUi' = Append(toUi, Message(kind, owner[p], ok))
    BY <1>2, <2>1 DEF Forward
  <2>3. owner[p] \in Ids
    BY <2>2 DEF StudioTypes, ProcessTypes
  <2>4. /\ Message(kind, owner[p], ok) \in UiMessage
        /\ \A o : ~IsAnswer(Message(kind, owner[p], ok), o)
    BY <2>3 DEF Message, UiMessage, IsAnswer
  <2>5. \A i \in Ids : Clear(i) => ~IsNews(Message(kind, owner[p], ok), i)
    BY <2>2 DEF Clear, IsNews, Message
  <2> QED  BY <2>2, <2>4, <2>5
<1> QED  BY <1>1, <1>2 DEF Service

LEMMA ServiceTruth ==
  ASSUME StudioTypes, TruthInv, Service
  PROVE  TruthInv'
<1>1. UNCHANGED <<model, op, blocked, quit>>
  BY DEF Service
<1>2. \A i \in Ids : Goes(i)
  BY GoesByService
<1>3. ASSUME quit, NEW i \in Ids PROVE Leaving(i)'
  BY <1>2, <1>3 DEF TruthInv, Goes
<1>4. ASSUME ~quit PROVE Open'
  <2>1. Open
    BY <1>4 DEF TruthInv
  <2>2. ASSUME NEW i \in Ids PROVE StoreFollows(i)'
    <3>1. StoreFollows(i) /\ Goes(i)
      BY <1>2, <2>1 DEF Open
    <3> QED  BY <1>1, <3>1 DEF StoreFollows, Goes
  <2>3. toUi \in Seq(UiMessage) /\ op \in [Ops -> {Idle} \cup Pending]
    BY DEF StudioTypes, MessageTypes, CommandTypes
  <2>4. AnswersAwaited'
    <3> SUFFICES ASSUME NEW o \in Ops
                 PROVE  Single(toUi', o) /\ (Answered(toUi', o) => op'[o].step = "answer")
      BY DEF AnswersAwaited, Single, Answered
    <3>1. Single(toUi, o) /\ (Answered(toUi, o) => op[o].step = "answer")
      BY <2>1 DEF Open, AnswersAwaited
    <3>2. Single(toUi', o) /\ (Answered(toUi', o) <=> Answered(toUi, o))
      <4>1. CASE toUi' = toUi
        BY <3>1, <4>1
      <4>2. CASE toUi' # toUi
        <5>1. PICK x \in UiMessage : toUi' = Append(toUi, x) /\ ~IsAnswer(x, o)
          BY <4>2, ServiceTells
        <5> QED  BY <2>3, <3>1, <5>1, MessageSent
      <4> QED  BY <4>1, <4>2
    <3> QED  BY <1>1, <3>1, <3>2
  <2>5. ASSUME NEW o \in Ops PROVE ChainFollows(o)'
    <3> DEFINE i == op[o].id
    <3>1. ChainFollows(o) /\ AnswersAwaited
      BY <2>1 DEF Open
    <3>2. ASSUME op[o].call = "putModel"
          PROVE  (blocked # o => Clear(i)') /\ NewsFirst(toUi', o, i)
      <4>1. op[o] \in Pending
        BY <2>3, <3>2 DEF Idle
      <4>2. i \in Ids
        BY <4>1 DEF Pending
      <4>3. NewsFirst(toUi, o, i) /\ (blocked # o => Clear(i))
        BY <3>1, <3>2 DEF ChainFollows
      <4>4. CASE blocked # o
        <5>1. Clear(i) /\ Clear(i)'
          <6> HIDE DEF i
          <6> QED  BY <1>1, <1>2, <4>2, <4>3, <4>4 DEF Goes, i
        <5>2. NewsFirst(toUi', o, i)
          BY <2>3, <4>2, <4>3, <5>1, ServiceTells, MessageSent
        <5> QED  BY <5>1, <5>2
      <4>5. CASE blocked = o
        <5>1. ~Answered(toUi, o)
          BY <3>1, <4>5 DEF ChainFollows, AnswersAwaited
        <5>2. ~Answered(toUi', o)
          BY <2>3, <5>1, ServiceTells, MessageSent
        <5> QED  BY <4>5, <5>2 DEF Answered, NewsFirst
      <4> QED  BY <4>4, <4>5
    <3> QED  BY <1>1, <3>1, <3>2 DEF ChainFollows, NewsFirst
  <2>6. OneChainEach'
    BY <1>1, <2>1 DEF Open, OneChainEach
  <2> QED  BY <2>2, <2>4, <2>5, <2>6 DEF Open
<1> QED  BY <1>1, <1>3, <1>4 DEF TruthInv

-----------------------------------------------------------------------------
\* Nothing about the model changes in the service, and no news of it come or go.
LEMMA FollowsStays ==
  ASSUME NEW i \in Ids, StoreFollows(i), UNCHANGED <<models, attached, toMain>>,
         Silent(toUi', i) <=> Silent(toUi, i), model'[i] = model[i]
  PROVE  StoreFollows(i)'
BY DEF StoreFollows, Gone, Leaving, Clear, Awaited, Shown, Ended, Untouched, Removes,
       Covered, OnlyCreates, Silent

\* A command about another model is sent.
LEMMA FollowsSent ==
  ASSUME CommandTypes, NEW i \in Ids, NEW x \in Command, x.id # i,
         UNCHANGED <<models, attached>>, toMain' = Append(toMain, x)
  PROVE  /\ Clear(i) => Clear(i)'
         /\ Leaving(i) => Leaving(i)'
         /\ StoreFollows(i) /\ (Silent(toUi', i) <=> Silent(toUi, i))
              /\ model'[i] = model[i] => StoreFollows(i)'
<1>1. /\ Untouched(toMain, i) => Untouched(toMain', i)
      /\ Covered(toMain, i) => Covered(toMain', i)
      /\ OnlyCreates(toMain, i) => OnlyCreates(toMain', i)
      /\ Removes(toMain, i) => Removes(toMain', i)
  BY CommandSent DEF CommandTypes
<1>2. /\ Clear(i) => Clear(i)'
      /\ Leaving(i) => Leaving(i)'
      /\ Gone(i) => Gone(i)'
  BY <1>1 DEF Clear, Leaving, Gone, Untouched, Covered, Removes
<1>3. ASSUME Silent(toUi', i) <=> Silent(toUi, i)
      PROVE  /\ Awaited(i) => Awaited(i)'
             /\ Shown(i) => Shown(i)'
             /\ Ended(i) => Ended(i)'
             /\ Silent(toUi, i) => Silent(toUi, i)'
  BY <1>1, <1>3 DEF Awaited, Shown, Ended, Untouched, OnlyCreates, Silent
<1> QED  BY <1>2, <1>3 DEF StoreFollows

\* The command is one to remove the model.
LEMMA RemovalLeaves ==
  ASSUME CommandTypes, NEW i \in Ids, UNCHANGED <<models, attached>>,
         toMain' = Append(toMain, RemoveOf(i))
  PROVE  Leaving(i)' /\ Gone(i)'
<1>1. RemoveOf(i) \in Command
  BY DEF RemoveOf, Command
<1>2. Covered(toMain', i) /\ Removes(toMain', i)
  BY <1>1, CommandSent DEF CommandTypes
<1> QED  BY <1>2 DEF Leaving, Gone, Covered, Removes

\* A chain whose model nobody touches.
LEMMA ChainStays ==
  ASSUME CommandTypes, NEW o \in Ops, ChainFollows(o), op'[o] = op[o],
         blocked' = o <=> blocked = o,
         op[o] # Idle =>
           /\ model'[op[o].id].known = model[op[o].id].known
           /\ model'[op[o].id].ran = model[op[o].id].ran
           /\ model'[op[o].id].active => model[op[o].id].active
           /\ Clear(op[o].id) => Untouched(toMain', op[o].id) /\ models'[op[o].id] = None
                                 /\ op[o].id \notin attached'
           /\ NewsFirst(toUi, o, op[o].id) => NewsFirst(toUi', o, op[o].id)
  PROVE  ChainFollows(o)'
<1>1. CASE op[o] = Idle
  BY <1>1 DEF ChainFollows, Idle
<1>2. CASE op[o] # Idle
  BY <1>2 DEF ChainFollows, Clear, NewsFirst, Untouched
<1> QED  BY <1>1, <1>2

\* The types a proof about the renderer needs.
LEMMA ChainTypes ==
  ASSUME StudioTypes
  PROVE  /\ toUi \in Seq(UiMessage) /\ toMain \in Seq(Command)
         /\ model \in [Ids -> ModelRecord]
         /\ \A o \in Ops : op[o] # Idle =>
              op[o].id \in Ids /\ op[o].call \in Calls /\ op[o].step # "none"
                /\ op[o].call # "none"
         /\ op \in [Ops -> {Idle} \cup Pending]
  BY DEF StudioTypes, MessageTypes, CommandTypes, StoreTypes, Pending, Calls

\* A chain begins about a model no chain is about.
LEMMA BeginTruth ==
  ASSUME OneChain, StudioTypes, Open, NEW o \in Ops, NEW i \in Ids, NEW call \in Calls,
         Begin(o, call, i), ~model'[i].active,
         call = "putModel" => ~model'[i].known,
         call \in {"updateMetric", "updateModel"} => model'[i].known /\ ~model'[i].ran,
         UNCHANGED <<models, attached, toUi>>,
         \A j \in Ids \ {i} : model'[j] = model[j] /\ (Clear(j) => Untouched(toMain', j)),
         \A j \in Ids : StoreFollows(j)'
  PROVE  Open'
<1> USE StudioAssumption
<1>t. /\ op \in [Ops -> {Idle} \cup Pending]
      /\ \A other \in Ops : op[other] # Idle => op[other].id \in Ids
  BY ChainTypes
<1>1. /\ op[o] = Idle /\ (\A other \in Ops : op[other].id # i) /\ blocked = None
      /\ op' = [op EXCEPT ![o] = [call |-> call, id |-> i, step |-> "first"]] /\ blocked' = o
  BY DEF Begin, Call, Ui
<1>2. /\ op'[o] = [call |-> call, id |-> i, step |-> "first"]
      /\ \A other \in Ops \ {o} : op'[other] = op[other]
  BY <1>t, <1>1
<1>3. ~Answered(toUi, o)
  BY <1>1 DEF Open, AnswersAwaited, Idle
<1>4. AnswersAwaited'
  <2> SUFFICES ASSUME NEW other \in Ops
               PROVE  Single(toUi, other) /\ (Answered(toUi, other) => op'[other].step = "answer")
    BY DEF AnswersAwaited, Single, Answered
  <2>1. Single(toUi, other) /\ (Answered(toUi, other) => op[other].step = "answer")
    BY DEF Open, AnswersAwaited
  <2> QED  BY <1>2, <1>3, <2>1
<1>5. OneChainEach'
  <2> SUFFICES ASSUME NEW a \in Ops, NEW b \in Ops, op'[a] # Idle, op'[b].id = op'[a].id
               PROVE  a = b
    BY DEF OneChainEach
  <2>1. CASE a = o \/ b = o
    BY <1>1, <1>2, <2>1
  <2>2. CASE a # o /\ b # o
    BY <1>2, <2>2 DEF Open, OneChainEach
  <2> QED  BY <2>1, <2>2
<1>6. ASSUME NEW other \in Ops PROVE ChainFollows(other)'
  <2>1. CASE other = o
    <3>1. NewsFirst(toUi', o, i)
      BY <1>3 DEF Answered, NewsFirst
    <3> QED  BY <1>1, <1>2, <2>1, <3>1 DEF ChainFollows, NewsFirst, Idle
  <2>2. CASE other # o
    <3>1. ChainFollows(other) /\ op'[other] = op[other] /\ (op[other] # Idle => op[other].id \in Ids \ {i})
      BY <1>t, <1>1, <1>2, <2>2 DEF Open
    <3>2. blocked' = other <=> blocked = other
      BY <1>1, <2>2
    <3> QED  BY <3>1, <3>2, ChainStays DEF StudioTypes, Clear
  <2> QED  BY <2>1, <2>2
<1> QED  BY <1>4, <1>5, <1>6 DEF Open

\* What the user starts.
LEMMA UserTruth ==
  ASSUME OneChain, StudioTypes, TruthInv, User
  PROVE  TruthInv'
<1> USE StudioAssumption
<1>1. PICK o \in Ops, i \in Ids :
        AddShowModel(o, i) \/ StartModel(o, i) \/ DeleteModel(o, i) \/ DeleteWithFile(o, i)
  BY DEF User
<1>2. ~quit /\ quit' = quit /\ UNCHANGED <<models, attached, toUi>>
  BY <1>1 DEF AddShowModel, StartModel, DeleteModel, DeleteWithFile, Begin, Ui
<1>3. Open /\ \A j \in Ids : StoreFollows(j)
  BY <1>2 DEF TruthInv, Open
<1>t. model \in [Ids -> ModelRecord] /\ CommandTypes
  BY ChainTypes DEF StudioTypes
<1>4. model[i].active => model[i].known /\ model[i].ran
  BY <1>3 DEF StoreFollows, NotKnown
<1>5. CASE UNCHANGED <<model, toMain>>
  <2>1. ~model[i].active
    BY <1>1, <1>4, <1>5, <1>t DEF AddShowModel, StartModel, DeleteModel, DeleteWithFile, Set,
                          StoppedIn, ModelRecord
  <2>2. \E call \in Calls :
          /\ Begin(o, call, i)
          /\ call = "putModel" => ~model[i].known
          /\ call \in {"updateMetric", "updateModel"} => model[i].known /\ ~model[i].ran
    BY <1>1 DEF AddShowModel, StartModel, DeleteModel, DeleteWithFile, Calls
  <2>3. \A j \in Ids : StoreFollows(j)'
    BY <1>2, <1>3, <1>5, FollowsStays
  <2>4. \A j \in Ids \ {i} : model'[j] = model[j] /\ (Clear(j) => Untouched(toMain', j))
    BY <1>5 DEF Clear
  <2>5. Open'
    BY <1>2, <1>3, <1>5, <2>1, <2>2, <2>3, <2>4, BeginTruth
  <2> QED  BY <1>2, <2>5 DEF TruthInv
<1>6. CASE DeleteWithFile(o, i) /\ model[i].active
  <2>1. /\ Begin(o, "deleteModel", i) /\ toMain' = Append(toMain, RemoveOf(i))
        /\ Set(i, StoppedIn(i)) /\ model[i].known
    BY <1>6 DEF DeleteWithFile, Send, RemoveOf
  <2>2. RemoveOf(i) \in Command /\ RemoveOf(i).id = i
    BY DEF RemoveOf, Command
  <2>3. model' = [model EXCEPT ![i] = StoppedIn(i)]
    BY <1>t, <2>1 DEF Set
  <2>4. /\ \A j \in Ids \ {i} : model'[j] = model[j]
        /\ ~model'[i].active /\ model'[i].known /\ model'[i].ran
    BY <1>4, <1>6, <1>t, <2>3 DEF StoppedIn, ModelRecord
  <2>5. Leaving(i)'
    BY <1>2, <1>t, <2>1, RemovalLeaves
  <2>6. \A j \in Ids : StoreFollows(j)'
    <3>1. StoreFollows(i)'
      BY <2>4, <2>5 DEF StoreFollows
    <3>2. ASSUME NEW j \in Ids \ {i} PROVE StoreFollows(j)'
      BY <1>2, <1>3, <1>t, <2>1, <2>2, <2>4, FollowsSent
    <3> QED  BY <3>1, <3>2
  <2>7. \A j \in Ids \ {i} : Clear(j) => Untouched(toMain', j)
    BY <1>2, <1>t, <2>1, <2>2, FollowsSent DEF Clear, Untouched
  <2>8. Open'
    BY <1>2, <1>3, <2>1, <2>4, <2>6, <2>7, BeginTruth DEF Calls
  <2> QED  BY <1>2, <2>8 DEF TruthInv
<1> QED  BY <1>1, <1>5, <1>6 DEF AddShowModel, StartModel, DeleteModel, DeleteWithFile

\* The main process takes a call once it has handled the commands before it: of
\* a model that is added nothing is left.
LEMMA CallTruth ==
  ASSUME StudioTypes, TruthInv, TakeCall
  PROVE  TruthInv'
<1> USE StudioAssumption
<1>1. /\ toMain = <<>> /\ blocked # None /\ blocked' = None
      /\ UNCHANGED <<models, attached, toMain, toUi, model, op, quit>>
  BY DEF TakeCall
<1>2. \A i \in Ids : Leaving(i) => Leaving(i)'
  BY <1>1 DEF Leaving, Covered, Removes
<1>3. ASSUME ~quit PROVE Open'
  <2>1. Open
    BY <1>3 DEF TruthInv
  <2>2. \A i \in Ids : StoreFollows(i)'
    BY <1>1, <2>1, FollowsStays DEF Open
  <2>3. OneChainEach' /\ AnswersAwaited'
    BY <1>1, <2>1 DEF Open, OneChainEach, AnswersAwaited, Single, Answered
  <2>4. ASSUME NEW o \in Ops PROVE ChainFollows(o)'
    <3> DEFINE i == op[o].id
    <3>1. ChainFollows(o)
      BY <2>1 DEF Open
    <3>2. ASSUME op[o].call = "putModel" PROVE Untouched(toMain, i) /\ models[i] = None /\ i \notin attached
      <4>1. i \in Ids /\ ~model[i].known
        BY <3>1, <3>2, ChainTypes DEF ChainFollows, Idle
      <4>2. Gone(i)
        BY <2>1, <4>1 DEF Open, StoreFollows
      <4>3. Len(toMain) = 0
        BY <1>1
      <4>4. Untouched(toMain, i) /\ ~Removes(toMain, i)
        BY <4>3 DEF Untouched, Removes
      <4> QED  BY <4>2, <4>4 DEF Gone, Leaving
    <3> QED  BY <1>1, <3>1, <3>2 DEF ChainFollows, Clear, Untouched, NewsFirst
  <2> QED  BY <2>2, <2>3, <2>4 DEF Open
<1> QED  BY <1>1, <1>2, <1>3 DEF TruthInv

\* The database answers the chain that waits for it.
LEMMA DatabaseTruth ==
  ASSUME StudioTypes, TruthInv, Database
  PROVE  TruthInv'
<1> USE StudioAssumption
<1>1. PICK o \in Ops : DbStep(o) \/ DbFails(o)
  BY DEF Database
<1>2. /\ UNCHANGED <<models, attached, toMain, model, blocked, quit>>
      /\ blocked # o /\ op[o].step \in {"first", "second"}
  BY <1>1 DEF DbStep, DbFails, Step
<1>3. \/ op' = [op EXCEPT ![o].step = "second"] /\ toUi' = toUi
      \/ /\ op' = [op EXCEPT ![o].step = "answer"]
         /\ \E ok \in BOOLEAN : toUi' = Append(toUi, Message("database", o, ok))
  BY <1>1 DEF DbStep, DbFails, Advance, Answer
<1>t. toUi \in Seq(UiMessage) /\ op \in [Ops -> {Idle} \cup Pending]
  BY ChainTypes
<1>4. /\ \A other \in Ops \ {o} : op'[other] = op[other]
      /\ op[o] # Idle /\ op[o] \in Pending
  BY <1>2, <1>3, <1>t DEF Idle
<1>5. /\ op'[o].id = op[o].id /\ op'[o].call = op[o].call
      /\ op'[o].step \in {"second", "answer"} /\ op'[o] # Idle
      /\ toUi' # toUi => op'[o].step = "answer"
  BY <1>2, <1>3, <1>4, <1>t DEF Idle, Pending
<1>6. \/ toUi' = toUi
      \/ \E x \in UiMessage :
           /\ toUi' = Append(toUi, x)
           /\ \A other \in Ops : IsAnswer(x, other) => other = o
           /\ \A i \in Ids : ~IsNews(x, i)
  <2>1. \A ok \in BOOLEAN :
          /\ Message("database", o, ok) \in UiMessage
          /\ \A other \in Ops : IsAnswer(Message("database", o, ok), other) => other = o
          /\ \A i \in Ids : ~IsNews(Message("database", o, ok), i)
    BY DEF Message, UiMessage, IsAnswer, IsNews
  <2> QED  BY <1>3, <2>1
<1>7. \A i \in Ids : Leaving(i) => Leaving(i)'
  BY <1>2 DEF Leaving, Covered, Removes
<1>8. ASSUME ~quit PROVE Open'
  <2>1. Open
    BY <1>8 DEF TruthInv
  <2>2. ASSUME NEW i \in Ids PROVE StoreFollows(i)'
    <3>1. Silent(toUi', i) <=> Silent(toUi, i)
      <4>1. CASE toUi' # toUi
        <5>1. PICK x \in UiMessage : toUi' = Append(toUi, x) /\ ~IsNews(x, i)
          BY <1>6, <4>1
        <5>2. Silent(Append(toUi, x), i) <=> Silent(toUi, i) /\ ~IsNews(x, i)
          BY <1>t, MessageSent
        <5> QED  BY <5>1, <5>2
      <4> QED  BY <4>1
    <3> QED  BY <1>2, <2>1, <3>1, FollowsStays DEF Open
  <2>3. OneChainEach'
    <3> SUFFICES ASSUME NEW a \in Ops, NEW b \in Ops, op'[a] # Idle, op'[b].id = op'[a].id
                 PROVE  a = b
      BY DEF OneChainEach
    <3>1. op[a] # Idle /\ op[b].id = op[a].id
      BY <1>4, <1>5
    <3> QED  BY <2>1, <3>1 DEF Open, OneChainEach
  <2>4. ASSUME NEW other \in Ops
        PROVE  Single(toUi', other) /\ (Answered(toUi', other) => op'[other].step = "answer")
    <3>1. Single(toUi, other) /\ (Answered(toUi, other) => op[other].step = "answer")
      BY <2>1 DEF Open, AnswersAwaited
    <3>2. CASE toUi' = toUi
      BY <1>2, <1>4, <3>1, <3>2
    <3>3. CASE toUi' # toUi
      <4>1. PICK x \in UiMessage : toUi' = Append(toUi, x) /\ (IsAnswer(x, other) => other = o)
        BY <1>6, <3>3
      <4>2. other = o => ~Answered(toUi, other)
        BY <1>2, <3>1
      <4>3. Single(toUi', other) /\ (Answered(toUi', other) <=> Answered(toUi, other) \/ IsAnswer(x, other))
        BY <1>t, <3>1, <4>1, <4>2, MessageSent
      <4> QED  BY <1>4, <1>5, <3>1, <3>3, <4>1, <4>2, <4>3
    <3> QED  BY <3>2, <3>3
  <2>5. AnswersAwaited'
    BY <2>4 DEF AnswersAwaited, Single, Answered
  <2>6. ASSUME NEW other \in Ops, NEW i \in Ids, NewsFirst(toUi, other, i)
        PROVE  NewsFirst(toUi', other, i)
    <3>1. CASE toUi' # toUi
      <4>1. PICK x \in UiMessage : toUi' = Append(toUi, x) /\ ~IsNews(x, i)
        BY <1>6, <3>1
      <4> QED  BY <1>t, <2>6, <4>1, MessageSent
    <3> QED  BY <2>6, <3>1
  <2>7. ASSUME NEW other \in Ops PROVE ChainFollows(other)'
    <3>1. ChainFollows(other) /\ (op[other] # Idle => op[other].id \in Ids)
      BY <2>1, ChainTypes DEF Open
    <3>2. CASE other # o
      BY <1>2, <1>4, <2>6, <3>1, <3>2, ChainStays DEF StudioTypes, Clear
    <3>3. CASE other = o
      BY <1>2, <1>4, <1>5, <2>6, <3>1, <3>3 DEF ChainFollows, Clear, Untouched, NewsFirst
    <3> QED  BY <3>2, <3>3
  <2> QED  BY <2>2, <2>3, <2>5, <2>7 DEF Open
<1> QED  BY <1>2, <1>7, <1>8 DEF TruthInv

-----------------------------------------------------------------------------
\* A message that only the model it is about takes notice of is handled.
LEMMA MessageTruth ==
  ASSUME StudioTypes, TruthInv, HandleServiceMessage
  PROVE  TruthInv'
<1> DEFINE h == Head(toUi).id
<1>t. toUi \in Seq(UiMessage) /\ model \in [Ids -> ModelRecord]
  BY ChainTypes
<1>1. PICK kind \in {"close", "create", "remove", "stderr"}, ok \in BOOLEAN : Handle(kind, ok)
  BY DEF HandleServiceMessage
<1>2. /\ ~quit /\ toUi # <<>> /\ toUi' = Tail(toUi) /\ Head(toUi).kind = kind
      /\ UNCHANGED <<models, attached, toMain, op, blocked, quit>>
  BY <1>1 DEF Handle, Ui, HandleServiceMessage
<1>3. Open
  BY <1>2 DEF TruthInv
<1>4. /\ Head(toUi) \in UiMessage
      /\ \A o : ~IsAnswer(Head(toUi), o)
  BY <1>t, <1>2 DEF IsAnswer
<1>5. h \in Ids
  BY <1>2, <1>4 DEF UiMessage
<1>6. \/ model' = model /\ kind = "stderr"
      \/ IsNews(Head(toUi), h) /\ (Set(h, StoppedIn(h)) \/ Set(h, FailedIn(h)))
  BY <1>2 DEF HandleServiceMessage, Handle, IsNews
<1>7. /\ \A j \in Ids : j # h => model'[j] = model[j]
      /\ ~model[h].known => model'[h] = model[h]
      /\ model'[h].known = model[h].known /\ model'[h].ran = model[h].ran
      /\ model'[h].active => model[h].active
      /\ model'[h] = model[h] \/ ~model'[h].active
  <2>1. model[h] \in ModelRecord
    BY <1>t, <1>5
  <2>2. \A rec \in {StoppedIn(h), FailedIn(h)} :
          rec.known = model[h].known /\ rec.ran = model[h].ran /\ ~rec.active
    BY <2>1 DEF StoppedIn, FailedIn, ModelRecord
  <2>3. model' = model \/ \E rec \in {StoppedIn(h), FailedIn(h)} : Set(h, rec)
    BY <1>6
  <2>4. \/ model' = model
        \/ \E rec \in {StoppedIn(h), FailedIn(h)} :
             model' = [model EXCEPT ![h] = IF model[h].known THEN rec ELSE model[h]]
    BY <2>3 DEF Set
  <2> HIDE DEF h
  <2> QED  BY <1>t, <1>5, <2>2, <2>4
<1>8. \A j \in Ids : j # h \/ kind = "stderr" => (Silent(toUi', j) <=> Silent(toUi, j))
  <2>1. \A j \in Ids : j # h \/ kind = "stderr" => ~IsNews(Head(toUi), j)
    BY <1>2 DEF IsNews
  <2> QED  BY <1>t, <1>2, <2>1, MessageTaken
<1>9. \A j \in Ids : Silent(toUi, j) => ~IsNews(Head(toUi), j)
  BY <1>t, <1>2, MessageTaken
<1> HIDE DEF h
<1>10. ASSUME NEW i \in Ids PROVE StoreFollows(i)'
  <2>1. StoreFollows(i)
    BY <1>3 DEF Open
  <2>2. CASE i # h \/ kind = "stderr"
    <3>1. model'[i] = model[i]
      BY <1>2, <1>6, <1>7, <2>2 DEF IsNews
    <3> QED  BY <1>2, <1>8, <2>1, <2>2, <3>1, FollowsStays
  <2>3. CASE i = h /\ kind # "stderr"
    <3>1. IsNews(Head(toUi), i) /\ ~Silent(toUi, i)
      BY <1>6, <1>9, <2>3
    <3>2. model[i].known => ~model'[i].active /\ model[i].ran
      <4>1. model[i].known => ~model'[i].active
        BY <1>t, <1>5, <1>6, <2>3 DEF Set, StoppedIn, FailedIn, ModelRecord
      <4> QED  BY <2>1, <3>1, <4>1 DEF StoreFollows
    <3>3. Leaving(i)
      <4>1. CASE model[i].active
        <5>1. Untouched(toMain, i) /\ models[i] = None
          BY <2>1, <3>1, <4>1 DEF StoreFollows, Awaited, Shown, Ended
        <5>2. Covered(toMain, i)
          BY <5>1 DEF Untouched, Covered, CreateOf
        <5> QED  BY <5>1, <5>2 DEF Leaving
      <4>2. CASE ~model[i].active
        BY <2>1, <4>2 DEF StoreFollows
      <4> QED  BY <4>1, <4>2
    <3>4. Leaving(i)' /\ (Gone(i) => Gone(i)')
      BY <1>2, <3>3 DEF Leaving, Gone, Covered, Removes
    <3>5. CASE model[i].known
      BY <1>7, <2>3, <3>2, <3>4, <3>5 DEF StoreFollows
    <3>6. CASE ~model[i].known
      <4>1. model[i] = NotKnown /\ Gone(i) /\ model'[i] = model[i]
        BY <1>7, <2>1, <2>3, <3>6 DEF StoreFollows
      <4> QED  BY <3>4, <4>1 DEF StoreFollows, NotKnown
    <3> QED  BY <3>5, <3>6
  <2> QED  BY <2>2, <2>3
<1>11. OneChainEach'
  BY <1>2, <1>3 DEF Open, OneChainEach
<1>12. AnswersAwaited'
  <2> SUFFICES ASSUME NEW o \in Ops
               PROVE  Single(toUi', o) /\ (Answered(toUi', o) => op'[o].step = "answer")
    BY DEF AnswersAwaited, Single, Answered
  <2>1. Single(toUi, o) /\ (Answered(toUi, o) => op[o].step = "answer")
    BY <1>3 DEF Open, AnswersAwaited
  <2> QED  BY <1>t, <1>2, <2>1, MessageTaken
<1>13. ASSUME NEW o \in Ops PROVE ChainFollows(o)'
  <2>1. ChainFollows(o) /\ (op[o] # Idle => op[o].id \in Ids)
    BY <1>3, ChainTypes DEF Open
  <2>2. op[o] # Idle =>
          /\ model'[op[o].id].known = model[op[o].id].known
          /\ model'[op[o].id].ran = model[op[o].id].ran
          /\ model'[op[o].id].active => model[op[o].id].active
          /\ NewsFirst(toUi, o, op[o].id) => NewsFirst(toUi', o, op[o].id)
    BY <1>t, <1>2, <1>7, <2>1, MessageTaken
  <2> QED  BY <1>2, <2>1, <2>2, ChainStays DEF StudioTypes, Clear
<1>14. Open'
  BY <1>10, <1>11, <1>12, <1>13 DEF Open
<1> QED  BY <1>2, <1>14 DEF TruthInv

\* An answer of the database ends a call: what every chain does with it.
LEMMA AnswerTaken ==
  ASSUME StudioTypes, Open, NEW o \in Ops, HandleAnswer(o)
  PROVE  /\ ~quit /\ quit' = quit /\ blocked = None
         /\ UNCHANGED <<models, attached>>
         /\ op[o] # Idle /\ op[o].id \in Ids
         /\ \A j \in Ids : Silent(toUi', j) <=> Silent(toUi, j)
         /\ \A other \in Ops, j \in Ids :
              NewsFirst(toUi, other, j) =>
                NewsFirst(toUi', other, j) /\ (other = o => Silent(toUi, j))
         /\ \A other \in Ops :
              Single(toUi', other) /\ (Answered(toUi', other) => other # o /\ op[other].step = "answer")
<1>t. toUi \in Seq(UiMessage) /\ (op[o] # Idle => op[o].id \in Ids)
  BY ChainTypes
<1>1. PICK ok \in BOOLEAN : Handle("database", ok) /\ Head(toUi).id = o
  BY DEF HandleAnswer
<1>2. /\ ~quit /\ quit' = quit /\ blocked = None /\ toUi # <<>> /\ toUi' = Tail(toUi)
      /\ UNCHANGED <<models, attached>>
      /\ IsAnswer(Head(toUi), o) /\ \A j \in Ids : ~IsNews(Head(toUi), j)
  BY <1>1 DEF Handle, Ui, IsAnswer, IsNews
<1>3. op[o] # Idle
  BY DEF HandleAnswer, Idle
<1>4. \A j \in Ids : Silent(toUi', j) <=> Silent(toUi, j)
  BY <1>t, <1>2, MessageTaken
<1>5. ASSUME NEW other \in Ops, NEW j \in Ids, NewsFirst(toUi, other, j)
      PROVE  NewsFirst(toUi', other, j) /\ (other = o => Silent(toUi, j))
  BY <1>t, <1>2, <1>5, MessageTaken
<1>6. ASSUME NEW other \in Ops
      PROVE  Single(toUi', other) /\ (Answered(toUi', other) => other # o /\ op[other].step = "answer")
  <2>1. Single(toUi, other) /\ (Answered(toUi, other) => op[other].step = "answer")
    BY DEF Open, AnswersAwaited
  <2> QED  BY <1>t, <1>2, <2>1, MessageTaken
<1> QED  BY <1>t, <1>2, <1>3, <1>4, <1>5, <1>6

\* The chain of an answer is over, or makes its next call; the other chains are
\* about other models.
LEMMA AnswerChains ==
  ASSUME StudioTypes, Open, NEW o \in Ops, HandleAnswer(o),
         op'[o] = Idle \/ (/\ op'[o].id = op[o].id /\ op'[o].call \notin {"putModel", "none"}
                           /\ op'[o].step = "first" /\ ChainFollows(o)'),
         \A other \in Ops \ {o} : op'[other] = op[other],
         blocked' = None \/ (blocked' = o /\ op'[o] # Idle),
         \A j \in Ids \ {op[o].id} :
           model'[j] = model[j] /\ (Clear(j) => Untouched(toMain', j)),
         \A j \in Ids : StoreFollows(j)'
  PROVE  Open'
<1> USE StudioAssumption
<1>1. /\ blocked = None /\ UNCHANGED <<models, attached>> /\ op[o] # Idle
      /\ \A other \in Ops, j \in Ids : NewsFirst(toUi, other, j) => NewsFirst(toUi', other, j)
      /\ \A other \in Ops :
           Single(toUi', other) /\ (Answered(toUi', other) => other # o /\ op[other].step = "answer")
  BY AnswerTaken
<1>2. AnswersAwaited'
  BY <1>1 DEF AnswersAwaited, Single, Answered
<1>3. OneChainEach'
  <2> SUFFICES ASSUME NEW a \in Ops, NEW b \in Ops, op'[a] # Idle, op'[b].id = op'[a].id
               PROVE  a = b
    BY DEF OneChainEach
  <2>1. op[a] # Idle
    BY <1>1
  <2>2. op[a].id = op'[a].id
    BY <2>1
  <2>3. op'[a].id # None
    BY <2>1, <2>2, ServiceAssumption, ChainTypes
  <2>4. op[b].id = op'[b].id
    BY <2>3 DEF Idle
  <2> QED  BY <2>1, <2>2, <2>4 DEF Open, OneChainEach
<1>4. ASSUME NEW other \in Ops PROVE ChainFollows(other)'
  <2>1. CASE other = o
    <3>1. CASE op'[o] = Idle
      BY <2>1, <3>1 DEF ChainFollows, Idle
    <3> QED  BY <2>1, <3>1
  <2>2. CASE other # o
    <3>1. ChainFollows(other) /\ op'[other] = op[other] /\ (op[other] # Idle => op[other].id \in Ids)
      BY <2>2, ChainTypes DEF Open
    <3>2. op[other] # Idle => op[other].id # op[o].id
      BY <2>2 DEF Open, OneChainEach
    <3>3. blocked' = other <=> blocked = other
      BY <1>1, <2>2
    <3> QED  BY <1>1, <2>2, <3>1, <3>2, <3>3, ChainStays DEF StudioTypes, Clear
  <2> QED  BY <2>1, <2>2
<1> QED  BY <1>2, <1>3, <1>4 DEF Open

\* The chain goes on with the answer of the database.
LEMMA AnswerTruth ==
  ASSUME StudioTypes, TruthInv, NEW o \in Ops, NEW i \in Ids, i = op[o].id, HandleAnswer(o)
  PROVE  TruthInv'
<1> USE StudioAssumption
<1>t. /\ model \in [Ids -> ModelRecord] /\ op \in [Ops -> {Idle} \cup Pending] /\ CommandTypes
      /\ op[o].call \in Calls
  BY ChainTypes DEF StudioTypes, HandleAnswer, Idle
<1>1. /\ ~quit /\ quit' = quit /\ blocked = None /\ UNCHANGED <<models, attached>> /\ op[o] # Idle
      /\ \A j \in Ids : Silent(toUi', j) <=> Silent(toUi, j)
      /\ NewsFirst(toUi, o, i) => Silent(toUi, i)
  <2>1. Open
    BY DEF TruthInv, HandleAnswer, Handle, Ui
  <2> QED  BY <2>1, AnswerTaken
<1>2. Open
  BY <1>1 DEF TruthInv
<1>3. StoreFollows(i) /\ ChainFollows(o) /\ ~model[i].active /\ Leaving(i)
  BY <1>1, <1>2 DEF Open, ChainFollows, StoreFollows
<1>i. model[i] \in ModelRecord
  BY <1>t
<1>4. CASE Handle("database", FALSE)
  <2>1. /\ op' = [op EXCEPT ![o] = Idle] /\ blocked' = blocked /\ toMain' = toMain
        /\ model' = model \/ Set(i, FailedIn(i))
    BY <1>4 DEF HandleAnswer, Done, Handle
  <2>2. op'[o] = Idle /\ \A other \in Ops \ {o} : op'[other] = op[other]
    BY <1>t, <2>1
  <2>3. /\ \A j \in Ids \ {i} : model'[j] = model[j]
        /\ \/ model'[i] = model[i]
           \/ /\ model[i].known
              /\ model'[i].known /\ model'[i].ran = model[i].ran /\ ~model'[i].active
    <3>1. FailedIn(i).known = model[i].known /\ FailedIn(i).ran = model[i].ran /\ ~FailedIn(i).active
      BY <1>i DEF FailedIn, ModelRecord
    <3>2. \/ model' = model
          \/ model' = [model EXCEPT ![i] = IF model[i].known THEN FailedIn(i) ELSE model[i]]
      BY <2>1 DEF Set
    <3> QED  BY <1>t, <3>1, <3>2
  <2>4. ASSUME NEW j \in Ids PROVE StoreFollows(j)'
    <3>1. CASE model'[j] = model[j]
      BY <1>1, <1>2, <2>1, <3>1, FollowsStays DEF Open
    <3>2. CASE model'[j] # model[j]
      <4>1. j = i /\ model[i].known /\ model'[i].known /\ model'[i].ran = model[i].ran /\ ~model'[i].active
        BY <2>3, <3>2
      <4>2. Leaving(i)' /\ (Clear(i) => Clear(i)') /\ (Silent(toUi, i) => Silent(toUi, i)')
        BY <1>1, <1>3, <2>1 DEF Leaving, Clear, Covered, Removes, Untouched, Silent
      <4> QED  BY <1>3, <4>1, <4>2 DEF StoreFollows
    <3> QED  BY <3>1, <3>2
  <2>5. Open'
    BY <1>1, <1>2, <2>1, <2>2, <2>3, <2>4, AnswerChains DEF Clear
  <2> QED  BY <1>1, <2>5 DEF TruthInv
<1>5. CASE Handle("database", TRUE) /\ op[o].call = "putModel"
  <2>1. /\ model' = [model EXCEPT ![i] = Added] /\ toMain' = toMain
        /\ op' = [op EXCEPT ![o] = Idle] /\ blocked' = blocked
    BY <1>5 DEF HandleAnswer, Handle, Done
  <2>2. op'[o] = Idle /\ \A other \in Ops \ {o} : op'[other] = op[other]
    BY <1>t, <2>1
  <2>3. /\ \A j \in Ids \ {i} : model'[j] = model[j]
        /\ model'[i] = Added /\ Added.known /\ ~Added.ran /\ ~Added.active
    BY <1>t, <2>1 DEF Added, NotKnown
  <2>4. Clear(i) /\ Silent(toUi, i)
    BY <1>1, <1>3, <1>5 DEF ChainFollows
  <2>5. StoreFollows(i)'
    <3>1. Clear(i)' /\ Silent(toUi, i)' /\ Leaving(i)'
      BY <1>1, <1>3, <2>1, <2>4 DEF Leaving, Clear, Covered, Removes, Untouched, Silent
    <3> QED  BY <2>3, <3>1 DEF StoreFollows
  <2>6. \A j \in Ids \ {i} : StoreFollows(j)'
    BY <1>1, <1>2, <2>1, <2>3, FollowsStays DEF Open
  <2>7. Open'
    BY <1>1, <1>2, <2>1, <2>2, <2>3, <2>5, <2>6, AnswerChains DEF Clear
  <2> QED  BY <1>1, <2>7 DEF TruthInv
<1>6. CASE Handle("database", TRUE) /\ op[o].call = "updateMetric"
  <2>1. /\ UNCHANGED <<model, toMain>> /\ blocked' = o
        /\ op' = [op EXCEPT ![o] = [call |-> "updateModel", id |-> i, step |-> "first"]]
    BY <1>6 DEF HandleAnswer, Handle, Call
  <2>2. /\ op'[o] = [call |-> "updateModel", id |-> i, step |-> "first"]
        /\ \A other \in Ops \ {o} : op'[other] = op[other]
    BY <1>t, <2>1
  <2>3. ChainFollows(o)' /\ op'[o] # Idle
    BY <1>3, <1>6, <2>1, <2>2 DEF ChainFollows, Idle
  <2>4. \A j \in Ids : StoreFollows(j)'
    BY <1>1, <1>2, <2>1, FollowsStays DEF Open
  <2>5. Open'
    BY <1>1, <1>2, <2>1, <2>2, <2>3, <2>4, AnswerChains DEF Clear
  <2> QED  BY <1>1, <2>5 DEF TruthInv
<1>7. CASE Handle("database", TRUE) /\ op[o].call \in {"updateModel", "deleteModel"}
  <2>1. op' = [op EXCEPT ![o] = Idle] /\ blocked' = blocked
    BY <1>7 DEF HandleAnswer, Handle, Done
  <2>2. op'[o] = Idle /\ \A other \in Ops \ {o} : op'[other] = op[other]
    BY <1>t, <2>1
  <2>3. CreateOf(i) \in Command /\ CreateOf(i).id = i /\ RemoveOf(i) \in Command /\ RemoveOf(i).id = i
    BY DEF CreateOf, RemoveOf, Command
  <2>4. /\ \/ op[o].call = "updateModel" /\ toMain' = Append(toMain, CreateOf(i)) /\ Set(i, StartedIn(i))
           \/ /\ op[o].call = "deleteModel" /\ toMain' = Append(toMain, RemoveOf(i))
              /\ model' = [model EXCEPT ![i] = NotKnown]
    BY <1>7 DEF HandleAnswer, Handle, Send, CreateOf, RemoveOf
  <2>5. \A j \in Ids \ {i} : model'[j] = model[j]
    BY <1>t, <2>4 DEF Set
  <2>6. PICK x \in Command : x.id = i /\ toMain' = Append(toMain, x)
    BY <2>3, <2>4
  <2>7. \A j \in Ids \ {i} : StoreFollows(j)' /\ (Clear(j) => Untouched(toMain', j))
    <3> SUFFICES ASSUME NEW j \in Ids \ {i}
                 PROVE  StoreFollows(j)' /\ (Clear(j) => Untouched(toMain', j))
      OBVIOUS
    <3>1. x.id # j
      BY <2>6
    <3>2. Clear(j) => Clear(j)'
      BY <1>1, <1>t, <2>6, <3>1, FollowsSent
    <3>3. StoreFollows(j)'
      BY <1>1, <1>2, <1>t, <2>5, <2>6, <3>1, FollowsSent DEF Open
    <3> QED  BY <3>2, <3>3 DEF Clear, Untouched
  <2>8. StoreFollows(i)'
    <3>1. CASE op[o].call = "deleteModel"
      <4>1. Leaving(i)' /\ Gone(i)'
        BY <1>1, <1>t, <2>4, <3>1, RemovalLeaves
      <4>2. model'[i] = NotKnown
        BY <1>t, <2>4, <3>1
      <4> QED  BY <4>1, <4>2 DEF StoreFollows, NotKnown
    <3>2. CASE op[o].call = "updateModel"
      <4>1. Clear(i) /\ Silent(toUi, i) /\ model[i].known
        BY <1>3, <3>2 DEF ChainFollows, StoreFollows
      <4>2. model'[i] = StartedIn(i)
        BY <1>t, <2>4, <3>2, <4>1 DEF Set
      <4>3. model'[i].known /\ model'[i].active /\ model'[i].ran
        BY <1>i, <4>1, <4>2 DEF StartedIn, ModelRecord
      <4>4. OnlyCreates(toMain', i)
        <5>1. toMain' = Append(toMain, CreateOf(i))
          BY <2>4, <3>2
        <5>2. toMain \in Seq(Command) /\ Untouched(toMain, i)
          BY <1>t, <4>1 DEF Clear, CommandTypes
        <5> QED  BY <2>3, <5>1, <5>2, CommandSent
      <4>5. Awaited(i)'
        BY <1>1, <4>1, <4>4 DEF Awaited, Clear, OnlyCreates, Silent
      <4> QED  BY <4>3, <4>5 DEF StoreFollows
    <3> QED  BY <1>7, <3>1, <3>2
  <2>9. Open'
    BY <1>1, <1>2, <2>1, <2>2, <2>5, <2>7, <2>8, AnswerChains
  <2> QED  BY <1>1, <2>9 DEF TruthInv
<1>8. Handle("database", TRUE) \/ Handle("database", FALSE)
  BY DEF HandleAnswer
<1> QED  BY <1>t, <1>4, <1>5, <1>6, <1>7, <1>8 DEF Calls

\* Closing the window removes every active model, after the commands already
\* sent.
LEMMA QuitTruth ==
  ASSUME StudioTypes, TruthInv, Quit
  PROVE  TruthInv'
<1>t. toMain \in Seq(Command)
  BY ChainTypes
<1>1. PICK order \in [1 .. Cardinality(ActiveModels) -> ActiveModels] :
        /\ ActiveModels = {order[k] : k \in DOMAIN order}
        /\ toMain' = toMain \o [k \in DOMAIN order |-> [cmd |-> "remove", id |-> order[k]]]
  BY DEF Quit
<1> DEFINE more == [k \in DOMAIN order |-> [cmd |-> "remove", id |-> order[k]]]
<1>2. ~quit /\ quit' = TRUE /\ models' = models
  BY DEF Quit, Ui
<1>3. Cardinality(ActiveModels) \in Nat
  <2>1. IsFiniteSet(ActiveModels)
    <3>1. ActiveModels \in SUBSET Ids
      BY DEF ActiveModels
    <3> QED  BY <3>1, FS_Subset, ServiceAssumption
  <2> QED  BY <2>1, FS_CardinalityType
<1>4. \A k \in DOMAIN order : order[k] \in Ids
  BY DEF ActiveModels
<1>5. more \in [1 .. Cardinality(ActiveModels) -> Command]
  BY <1>4 DEF Command
<1>6. more \in Seq(Command) /\ Len(more) = Cardinality(ActiveModels)
  BY <1>3, <1>5
<1>7. \A k \in 1 .. Len(more) : more[k].cmd = "remove" /\ more[k] = RemoveOf(order[k])
  BY <1>6 DEF RemoveOf
<1>8. \A i \in ActiveModels : \E k \in 1 .. Len(more) : order[k] = i
  BY <1>1, <1>6
<1>9. toMain' = toMain \o more
  BY <1>1
<1> HIDE DEF more
<1>10. ASSUME NEW i \in Ids PROVE Leaving(i)'
  <2>1. StoreFollows(i)
    BY <1>2 DEF TruthInv, Open
  <2>2. /\ Covered(toMain, i) => Covered(toMain', i)
        /\ Removes(toMain, i) => Removes(toMain', i)
        /\ Removes(more, i) => Covered(toMain', i) /\ Removes(toMain', i)
    BY <1>t, <1>6, <1>7, <1>9, RemovalsSent
  <2>3. CASE model[i].active
    <3>1. Removes(more, i)
      <4>1. PICK k \in 1 .. Len(more) : order[k] = i
        BY <1>8, <2>3 DEF ActiveModels
      <4> QED  BY <1>7, <4>1 DEF Removes
    <3> QED  BY <2>2, <3>1 DEF Leaving, Covered, Removes
  <2>4. CASE ~model[i].active
    <3>1. Leaving(i)
      BY <2>1, <2>4 DEF StoreFollows
    <3> QED  BY <1>2, <2>2, <3>1 DEF Leaving, Covered, Removes
  <2> QED  BY <2>3, <2>4
<1> QED  BY <1>2, <1>10 DEF TruthInv

\* At the start no model runs, and none is shown to.
LEMMA TruthInit == Init => TruthInv
<1> SUFFICES ASSUME Init PROVE TruthInv
  OBVIOUS
<1> USE ServiceAssumption, StudioAssumption
<1>1. /\ models = [i \in Ids |-> None] /\ attached = {} /\ toMain = <<>> /\ toUi = <<>>
      /\ op = [o \in Ops |-> Idle] /\ blocked = None /\ ~quit
      /\ model = [i \in Ids |-> IF record[i] = "none" THEN NotKnown
                                ELSE [Added EXCEPT !.ran = record[i] = "ran"]]
  BY DEF Init, ServiceInit
<1>2. Len(toMain) = 0 /\ Len(toUi) = 0
  BY <1>1
<1>3. ASSUME NEW i \in Ids PROVE StoreFollows(i)
  <2>1. Clear(i) /\ Silent(toUi, i) /\ Leaving(i) /\ Gone(i)
    BY <1>1, <1>2 DEF Clear, Silent, Leaving, Gone, Untouched, Covered
  <2>2. model[i] = NotKnown \/ (model[i].known /\ ~model[i].active)
    BY <1>1 DEF Added, NotKnown
  <2> QED  BY <2>1, <2>2 DEF StoreFollows, NotKnown
<1>4. \A o \in Ops : ChainFollows(o)
  BY <1>1 DEF ChainFollows, Idle
<1>5. OneChainEach /\ AnswersAwaited
  BY <1>1, <1>2 DEF OneChainEach, AnswersAwaited, Single, Answered
<1> QED  BY <1>1, <1>3, <1>4, <1>5 DEF TruthInv, Open

LEMMA StepTruth ==
  ASSUME OneChain, StudioTypes, TruthInv, [Next]_vars
  PROVE  TruthInv'
<1>1. CASE UNCHANGED vars
  <2>1. \A i \in Ids : StoreFollows(i) => StoreFollows(i)'
    BY <1>1, FollowsStays DEF vars
  <2>2. \A i \in Ids : Leaving(i) => Leaving(i)'
    BY <1>1 DEF vars, Leaving, Covered, Removes
  <2>3. Open => OneChainEach' /\ AnswersAwaited'
    BY <1>1 DEF vars, Open, OneChainEach, AnswersAwaited, Single, Answered
  <2>4. \A o \in Ops : ChainFollows(o) => ChainFollows(o)'
    BY <1>1 DEF vars, ChainFollows, Clear, Untouched, NewsFirst
  <2>5. quit' = quit
    BY <1>1 DEF vars
  <2> QED  BY <2>1, <2>2, <2>3, <2>4, <2>5 DEF TruthInv, Open
<1>2. CASE HandleServiceMessage \/ \E o \in Ops : HandleAnswer(o)
  <2>1. ASSUME NEW o \in Ops, HandleAnswer(o) PROVE op[o].id \in Ids
    BY <2>1, ChainTypes DEF HandleAnswer, Idle
  <2> QED  BY <1>2, <2>1, MessageTruth, AnswerTruth
<1> QED
  BY <1>1, <1>2, UserTruth, QuitTruth, CallTruth, DatabaseTruth, ServiceTruth DEF Next, Renderer

-----------------------------------------------------------------------------
\* What is proved of the application: types, the service, and the two stores.
StudioInv == StudioTypes /\ ServiceInv /\ TruthInv

\* The store of HTM Studio follows its models, however the answers of the
\* database, the messages of the service and the children that end interleave.
THEOREM StudioInvariant == ASSUME PromptClose, OneChain PROVE Spec => []StudioInv
<1>1. Spec => []StudioTypes
  BY InitStudioTypes, StepTypes, PTL DEF Spec
<1>2. Spec => []ServiceInv
  BY StudioImplementsService, ServiceInvariant, PTL DEF ImplementsService
<1>3. Spec => []TruthInv
  BY <1>1, TruthInit, StepTruth, PTL DEF Spec
<1> QED  BY <1>1, <1>2, <1>3, PTL DEF StudioInv

\* Once everything about a model has been handled, ModelStore shows it active
\* exactly when ModelService runs a child for it.
THEOREM StoreIsTrue == ASSUME PromptClose, OneChain PROVE Spec => []StoreShowsTheTruth
<1>1. ASSUME StudioInv PROVE StoreShowsTheTruth
  <2> SUFFICES ASSUME NEW i \in Ids, ~quit, Settled(i)
               PROVE  model[i].active <=> \E p \in Running : owner[p] = i
    BY DEF StoreShowsTheTruth
  <2> USE ServiceAssumption
  <2>1. ServiceTypes /\ EntriesRun /\ RunningIsListed /\ StoreFollows(i)
    BY <1>1 DEF StudioInv, ServiceInv, TruthInv, Open
  <2>2. toMain \in Seq(Command) /\ toUi \in Seq(UiMessage)
    BY <1>1, ChainTypes DEF StudioInv
  <2>3. Untouched(toMain, i) /\ Silent(toUi, i)
    BY <2>2 DEF Settled, Untouched, Silent, IsNews
  <2>4. ~Removes(toMain, i) /\ ~OnlyCreates(toMain, i)
    BY <2>3 DEF Untouched, Removes, OnlyCreates, CreateOf, RemoveOf
  <2>5. model[i].active <=> models[i] # None
    BY <2>1, <2>3, <2>4 DEF StoreFollows, Leaving, Awaited, Shown, Ended
  <2>6. models[i] # None => models[i] \in Running /\ owner[models[i]] = i
    BY <2>1 DEF ServiceTypes, EntriesRun, Running, Live
  <2>7. \A p \in Running : owner[p] = i => models[i] = p /\ p # None
    BY <2>1 DEF RunningIsListed, Running, Live
  <2> QED  BY <2>5, <2>6, <2>7
<1> QED  BY <1>1, StudioInvariant, PTL

\* Closing the window leaves no model running behind it once the main process
\* has handled what it was sent.
THEOREM QuitIsClean == ASSUME PromptClose, OneChain PROVE Spec => []QuitStopsModels
<1>1. ASSUME StudioInv PROVE QuitStopsModels
  <2> SUFFICES ASSUME quit, toMain = <<>>, NEW p \in Running PROVE FALSE
    BY DEF QuitStopsModels
  <2> USE ServiceAssumption
  <2>1. ServiceTypes /\ RunningIsListed /\ \A i \in Ids : Leaving(i)
    BY <1>1 DEF StudioInv, ServiceInv, TruthInv
  <2>2. owner[p] \in Ids /\ models[owner[p]] = p /\ p # None
    BY <2>1 DEF ServiceTypes, RunningIsListed, Running, Live
  <2>3. Len(toMain) = 0
    OBVIOUS
  <2>4. ~Removes(toMain, owner[p])
    BY <2>3 DEF Removes
  <2> QED  BY <2>1, <2>2, <2>4 DEF Leaving
<1> QED  BY <1>1, StudioInvariant, PTL
=============================================================================
