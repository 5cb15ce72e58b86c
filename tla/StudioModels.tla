---------------------------- MODULE StudioModels ----------------------------
(***************************************************************************)
(* The life of the models of HTM Studio: the renderer's actions and its    *)
(* ModelStore on one side, the process service of the main process on the  *)
(* other, and the database both use.  A call of the renderer to the         *)
(* database goes through Electron's remote module: the renderer stands      *)
(* still until the main process, which serves its channel in order, has     *)
(* taken the call; the answer comes back as a message.                      *)
(***************************************************************************)
EXTENDS ChildService

CONSTANTS
  Ops,       \* promise chains of actions that may be under way at once
  MaxMsgs,   \* bound: a child complains only while fewer messages are queued
  OneChain   \* the user starts nothing on a model while a chain about it runs

ASSUME StudioAssumption == None \notin Ops /\ OneChain \in BOOLEAN

VARIABLES
  record,   \* the Model records of the database
  model,    \* ModelStore._models
  op,       \* the database call each chain waits for, and how far it is
  blocked,  \* the chain whose call the renderer stands still for
  quit      \* the window has been closed

vars == <<models, owner, killed, attached, toMain, toUi,
          record, model, op, blocked, quit>>

NotKnown == [known |-> FALSE, active |-> FALSE, ran |-> FALSE, failed |-> FALSE]
Added    == [NotKnown EXCEPT !.known = TRUE]

Idle == [call |-> "none", id |-> None, step |-> "none"]

UiMessage ==
  [kind : {"create", "remove", "stderr", "close"}, id : Ids, ok : BOOLEAN]
    \cup [kind : {"database"}, id : Ops, ok : BOOLEAN]

Calls == {"putModel", "updateMetric", "updateModel", "deleteModel"}

TypeOK ==
  /\ models \in [Ids -> Procs \cup {None}]
  /\ owner \in [Procs -> Ids \cup {None}]
  /\ killed \subseteq Live
  /\ attached \subseteq Ids
  /\ toMain \in Seq(Command)
  /\ toUi \in Seq(UiMessage)
  /\ record \in [Ids -> {"none", "new", "ran"}]
  /\ model \in [Ids -> [known : BOOLEAN, active : BOOLEAN,
                         ran : BOOLEAN, failed : BOOLEAN]]
  /\ op \in [Ops -> {Idle} \cup
       [call : Calls, id : Ids, step : {"first", "second", "answer"}]]
  /\ blocked \in Ops \cup {None}
  /\ quit \in BOOLEAN

\* The store is filled from the records of earlier sessions; none is active.
Init ==
  /\ ServiceInit
  /\ record \in [Ids -> {"none", "new", "ran"}]
  /\ model = [i \in Ids |-> IF record[i] = "none" THEN NotKnown
                            ELSE [Added EXCEPT !.ran = record[i] = "ran"]]
  /\ op = [o \in Ops |-> Idle]
  /\ blocked = None
  /\ quit = FALSE

-----------------------------------------------------------------------------
\* ModelStore handlers; all but ADD_MODEL leave an unknown model alone.

Set(i, rec) == model' = [model EXCEPT ![i] = IF @.known THEN rec ELSE @]

StartedIn(i) == [model[i] EXCEPT !.active = TRUE, !.ran = TRUE, !.failed = FALSE]
StoppedIn(i) == [model[i] EXCEPT !.active = FALSE, !.failed = FALSE]
FailedIn(i)  == [model[i] EXCEPT !.active = FALSE, !.failed = TRUE]

-----------------------------------------------------------------------------
\* The user.

Ui == ~quit /\ blocked = None

Call(o, call, i) ==
  /\ op' = [op EXCEPT ![o] = [call |-> call, id |-> i, step |-> "first"]]
  /\ blocked' = o

Begin(o, call, i) ==
  /\ Ui
  /\ op[o] = Idle
  /\ OneChain => \A other \in Ops : op[other].id # i
  /\ Call(o, call, i)

\* The metric's box is checked and its model is not in the store.
AddShowModel(o, i) ==
  /\ ~model[i].known
  /\ Begin(o, "putModel", i)
  /\ UNCHANGED <<models, owner, killed, attached, toMain, toUi, record, model, quit>>

\* "Analyze" in the dialog that the button of a model that never ran opens.
StartModel(o, i) ==
  /\ model[i].known /\ ~model[i].ran
  /\ Begin(o, "updateMetric", i)
  /\ UNCHANGED <<models, owner, killed, attached, toMain, toUi, record, model, quit>>

\* "Delete" on a model that ran and is not active.
DeleteModel(o, i) ==
  /\ model[i].known /\ model[i].ran /\ ~model[i].active
  /\ Begin(o, "deleteModel", i)
  /\ UNCHANGED <<models, owner, killed, attached, toMain, toUi, record, model, quit>>

Send(cmd, i) == toMain' = Append(toMain, [cmd |-> cmd, id |-> i])

\* Deleting the file of a model stops the model when it is active, and then
\* deletes it.
DeleteWithFile(o, i) ==
  /\ model[i].known
  /\ Begin(o, "deleteModel", i)
  /\ IF model[i].active
     THEN Send("remove", i) /\ Set(i, StoppedIn(i))
     ELSE UNCHANGED <<toMain, model>>
  /\ UNCHANGED <<models, owner, killed, attached, toUi, record, quit>>

\* Closing the window removes every active model; the page is gone, with its
\* store, its pending callbacks and the messages it would have got.
ActiveModels == {i \in Ids : model[i].active}

\* Mutant: closing the window stops nothing.
QuitOnly ==
  /\ Ui
  /\ quit' = TRUE
  /\ op' = [o \in Ops |-> Idle]
  /\ model' = [i \in Ids |-> NotKnown]
  /\ toUi' = <<>>
  /\ UNCHANGED <<models, owner, killed, attached, toMain, record, blocked>>

\* Mutant: closing the window drops the commands that were not yet handled.
QuitDropsCommands ==
  /\ Ui
  /\ quit' = TRUE
  /\ \E order \in [1 .. Cardinality(ActiveModels) -> ActiveModels] :
       /\ ActiveModels = {order[k] : k \in DOMAIN order}
       /\ toMain' = [k \in DOMAIN order |-> [cmd |-> "remove", id |-> order[k]]]
  /\ op' = [o \in Ops |-> Idle]
  /\ model' = [i \in Ids |-> NotKnown]
  /\ toUi' = <<>>
  /\ UNCHANGED <<models, owner, killed, attached, record, blocked>>

Quit ==
  /\ Ui
  /\ quit' = TRUE
  /\ \E order \in [1 .. Cardinality(ActiveModels) -> ActiveModels] :
       /\ ActiveModels = {order[k] : k \in DOMAIN order}
       /\ toMain' = toMain \o [k \in DOMAIN order |->
                                [cmd |-> "remove", id |-> order[k]]]
  /\ op' = [o \in Ops |-> Idle]
  /\ model' = [i \in Ids |-> NotKnown]
  /\ toUi' = <<>>
  /\ UNCHANGED <<models, owner, killed, attached, record, blocked>>

-----------------------------------------------------------------------------
\* The database, in the main process.

\* The main process takes the call the renderer stands still for.
TakeCall ==
  /\ blocked # None
  /\ toMain = <<>>
  /\ blocked' = None
  /\ UNCHANGED <<models, owner, killed, attached, toMain, toUi, record, model, op, quit>>

Step(o, call, step) == blocked # o /\ op[o].call = call /\ op[o].step = step

Advance(o) ==
  /\ op' = [op EXCEPT ![o].step = "second"]
  /\ UNCHANGED toUi

Answer(o, ok) ==
  /\ op' = [op EXCEPT ![o].step = "answer"]
  /\ toUi' = Append(toUi, Message("database", o, ok))

Write(o, r) == record' = [record EXCEPT ![op[o].id] = r]

\* updateModel reads the record, and writes it back with ran set; deleteModel
\* deletes the record, and then the data of the model.
DbStep(o) ==
  /\ \/ Step(o, "putModel", "first") /\ Write(o, "new") /\ Answer(o, TRUE)
     \/ Step(o, "updateMetric", "first") /\ UNCHANGED record /\ Answer(o, TRUE)
     \/ /\ Step(o, "updateModel", "first") /\ UNCHANGED record
        /\ IF record[op[o].id] = "none" THEN Answer(o, FALSE) ELSE Advance(o)
     \/ Step(o, "updateModel", "second") /\ Write(o, "ran") /\ Answer(o, TRUE)
     \/ Step(o, "deleteModel", "first") /\ Write(o, "none") /\ Advance(o)
     \/ Step(o, "deleteModel", "second") /\ UNCHANGED record /\ Answer(o, TRUE)
  /\ UNCHANGED <<models, owner, killed, attached, toMain, model, blocked, quit>>

\* Any step of a call may fail, and ends it.
DbFails(o) ==
  /\ blocked # o /\ op[o].step \in {"first", "second"}
  /\ Answer(o, FALSE)
  /\ UNCHANGED <<models, owner, killed, attached, toMain, record, model, blocked, quit>>

-----------------------------------------------------------------------------
\* The renderer handles the messages of the main process in order.

Handle(kind, ok) ==
  /\ Ui
  /\ toUi # <<>>
  /\ Head(toUi).kind = kind /\ Head(toUi).ok = ok
  /\ toUi' = Tail(toUi)
  /\ UNCHANGED <<models, owner, killed, attached, record, quit>>

\* ModelError finds the model of a failed command and of a close, not that of
\* an error without a command.
HandleServiceMessage ==
  /\ \/ Handle("close", TRUE) /\ Set(Head(toUi).id, StoppedIn(Head(toUi).id))
     \/ /\ \E kind \in {"close", "create", "remove"} : Handle(kind, FALSE)
        /\ Set(Head(toUi).id, FailedIn(Head(toUi).id))
     \/ Handle("stderr", FALSE) /\ UNCHANGED model
  /\ UNCHANGED <<toMain, op, blocked>>

Done(o) == op' = [op EXCEPT ![o] = Idle] /\ UNCHANGED blocked

\* The chain of the action goes on with the answer.
HandleAnswer(o) ==
  LET i == op[o].id IN
  /\ op[o].step = "answer"
  /\ \/ /\ Handle("database", TRUE) /\ Head(toUi).id = o
        /\ CASE op[o].call = "putModel" ->
                  /\ model' = [model EXCEPT ![i] = Added]
                  /\ Done(o) /\ UNCHANGED toMain
             [] op[o].call = "updateMetric" ->
                  Call(o, "updateModel", i) /\ UNCHANGED <<model, toMain>>
             [] op[o].call = "updateModel" ->
                  Send("create", i) /\ Set(i, StartedIn(i)) /\ Done(o)
             [] op[o].call = "deleteModel" ->
                  /\ model' = [model EXCEPT ![i] = NotKnown]
                  /\ Send("remove", i) /\ Done(o)
     \/ /\ Handle("database", FALSE) /\ Head(toUi).id = o
        /\ IF op[o].call = "deleteModel" THEN Set(i, FailedIn(i)) ELSE UNCHANGED model
        /\ Done(o) /\ UNCHANGED toMain

-----------------------------------------------------------------------------
Service ==
  /\ \/ HandleCommand
     \/ \E p \in Procs : ChildCloses(p) \/ (Len(toUi) < MaxMsgs /\ ChildComplains(p))
  /\ UNCHANGED <<record, model, op, blocked, quit>>

User == \E o \in Ops, i \in Ids :
  AddShowModel(o, i) \/ StartModel(o, i) \/ DeleteModel(o, i) \/ DeleteWithFile(o, i)

Database == \E o \in Ops : DbStep(o) \/ DbFails(o)

Renderer == HandleServiceMessage \/ \E o \in Ops : HandleAnswer(o)

Next == User \/ Quit \/ TakeCall \/ Database \/ Renderer \/ Service

Spec == Init /\ [][Next]_vars

\* Both event loops turn, the database answers, and a child reaches the end
\* of its input; nothing makes the user act.
Fairness ==
  /\ WF_vars(TakeCall) /\ WF_vars(Renderer) /\ WF_vars(Database)
  /\ WF_vars(HandleCommand /\ UNCHANGED <<record, model, op, blocked, quit>>)
  /\ \A p \in Procs :
       WF_vars(ChildCloses(p) /\ UNCHANGED <<record, model, op, blocked, quit>>)

FairSpec == Spec /\ Fairness

-----------------------------------------------------------------------------
\* No chain and no message about the model is under way.
Settled(i) ==
  /\ \A o \in Ops : op[o].id # i
  /\ \A k \in DOMAIN toMain : toMain[k].id # i
  /\ \A k \in DOMAIN toUi : toUi[k].id # i

\* Once everything about a model has been handled, the store shows it active
\* exactly when its child runs.
StoreShowsTheTruth ==
  \A i \in Ids : ~quit /\ Settled(i) =>
    (model[i].active <=> \E p \in Running : owner[p] = i)

\* Closing the window leaves no model running behind it.
QuitStopsModels == quit /\ toMain = <<>> => Running = {}

\* An active model becomes inactive: the end of its child is told.
EndIsShown == \A i \in Ids : model[i].active ~> ~model[i].active

ImplementsService == ServiceSpec
=============================================================================
