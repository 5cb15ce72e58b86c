--------------------------- MODULE SwapController ---------------------------
(***************************************************************************)
(* The Model Scheduler: the SwapController's event loop and its            *)
(* notification-reader thread (htmengine/model_swapper/swap_controller.py) *)
(* over the slot agents of SlotAgent, the model input queues and the       *)
(* notification queue of the message bus (model_swapper_interface.py), and *)
(* the ModelRunner processes as far as they consume those queues.          *)
(*                                                                         *)
(* Each handler of the event loop is one action: nothing else writes the   *)
(* controller's state, and what a handler posts to agents or to itself is  *)
(* only ever appended to queues.                                           *)
(***************************************************************************)
EXTENDS SlotAgent

CONSTANTS NoSlot,         (* stands for "not in _runningModelsMap"         *)
          TargetRequests, (* _targetMaxRequestsPerCheckpoint               *)
          MaxReady,       (* bound: messages of one model input queue      *)
          MaxNotifs,      (* bound: length of the notification queue       *)
          MaxEventQ       (* bound: the reader waits at this length        *)

ASSUME ControllerAssumption ==
  /\ Slots # {} /\ IsFiniteSet(Slots)
  /\ NoSlot \notin Slots
  /\ TargetRequests \in Nat \ {0}
  /\ MaxReady \in Nat /\ MaxNotifs \in Nat /\ MaxEventQ \in Nat

VARIABLES
  (* the event loop *)
  waiting,      (* _waitingModelsFIFO                                      *)
  running,      (* _runningModelsMap: the slot of a running model          *)
  activity,     (* pairs <<a, b>> of running models: a's activity          *)
                (* timestamp is before b's                                 *)
  freeSlots,    (* _freeSlots; its order does not matter, slots are alike  *)
  pendingPreempt,  (* _pendingPreemptSlotsSet                              *)
  stopPending,     (* _eventLoopStopPending                                *)
  stopRemaining,   (* requestedStopOfRemainingModels                       *)
  ctlPC,           (* where the event loop is                              *)
  toClose,         (* agents whose close() is still to be called           *)
  (* the notification reader *)
  stopReader,   (* _stopNotificationReader                                 *)
  readerPC,     (* where the reader thread is                              *)
  unscanned,    (* models whose input queue is still to be looked at       *)
  found,        (* models found with input, still to be notified           *)
  (* the message bus and the processes that use it *)
  notifQ,       (* the scheduler notification queue                        *)
  notifExists,  (* whether that queue has been created                     *)
  ready,        (* messages of a model input queue ready for delivery      *)
  unacked,      (* messages delivered to the model's runner, not acked     *)
  toNotify,     (* submitters between their two publications               *)
  runnerDone    (* ModelRunner._done of the slot's process                 *)

ctlVars == <<waiting, running, activity, freeSlots, pendingPreempt,
             stopPending, stopRemaining, ctlPC, toClose>>
readerVars == <<stopReader, readerPC, unscanned, found>>
busVars == <<notifQ, notifExists, ready, unacked, toNotify>>
vars == <<agentVars, ctlVars, readerVars, busVars, runnerDone>>

RunningModels == {m \in Models : running[m] # NoSlot}
NewInput(m) == [type |-> "NewInput", model |-> m]
StopLoop == [type |-> "StopLoop", model |-> NoModel]

TypeOK ==
  /\ AgentTypeOK
  /\ waiting \in Seq(Models)
  /\ running \in [Models -> Slots \cup {NoSlot}]
  /\ activity \in SUBSET (Models \X Models)
  /\ freeSlots \in SUBSET Slots
  /\ pendingPreempt \in SUBSET Slots
  /\ stopPending \in BOOLEAN
  /\ stopRemaining \in BOOLEAN
  /\ ctlPC \in {"top", "get", "closing", "exited"}
  /\ toClose \in SUBSET Slots
  /\ stopReader \in BOOLEAN
  /\ readerPC \in {"init", "scan", "notify", "consume", "ended"}
  /\ unscanned \in SUBSET Models
  /\ found \in SUBSET Models
  /\ notifQ \in Seq(Models)
  /\ notifExists \in BOOLEAN
  /\ ready \in [Models -> Nat]
  /\ unacked \in [Models -> Nat]
  /\ toNotify \in SUBSET Models
  /\ runnerDone \in [Slots -> BOOLEAN]

(* A scheduler process starts on whatever the bus holds: input left by an  *)
(* earlier process, and a notification queue that may not exist yet.       *)
Init ==
  /\ AgentInit
  /\ waiting = <<>>
  /\ running = [m \in Models |-> NoSlot]
  /\ activity = {}
  /\ freeSlots = Slots
  /\ pendingPreempt = {}
  /\ stopPending = FALSE
  /\ stopRemaining = FALSE
  /\ ctlPC = "get"
  /\ toClose = {}
  /\ stopReader = FALSE
  /\ readerPC = "init"
  /\ unscanned = Models
  /\ found = {}
  /\ notifQ = <<>>
  /\ notifExists \in BOOLEAN
  /\ ready \in [Models -> 0 .. MaxReady]
  /\ unacked = [m \in Models |-> 0]
  /\ toNotify = {}
  /\ runnerDone = [s \in Slots |-> FALSE]

-----------------------------------------------------------------------------
(* Those who submit input: first the model's input queue, persistently,    *)
(* then a notification, dropped when its queue does not exist.             *)

Submit(m) ==
  /\ m \notin toNotify
  /\ ready[m] + unacked[m] < MaxReady
  /\ ready' = [ready EXCEPT ![m] = @ + 1]
  /\ toNotify' = toNotify \cup {m}
  /\ UNCHANGED <<agentVars, ctlVars, readerVars, notifQ, notifExists, unacked,
                 runnerDone>>

(* At the bound, a notification like one already queued is not repeated.   *)
Notify(m) ==
  /\ m \in toNotify
  /\ \/ notifExists /\ Len(notifQ) < MaxNotifs /\ notifQ' = Append(notifQ, m)
     \/ notifExists /\ Len(notifQ) >= MaxNotifs /\ m \in RangeOf(notifQ)
           /\ UNCHANGED notifQ
     \/ ~notifExists /\ UNCHANGED notifQ
  /\ toNotify' = toNotify \ {m}
  /\ UNCHANGED <<agentVars, ctlVars, readerVars, notifExists, ready, unacked,
                 runnerDone>>

-----------------------------------------------------------------------------
(* ModelRunner.run as far as the scheduler sees it: it takes the ready     *)
(* messages of its model, up to TargetRequests for one checkpoint, acks    *)
(* them after the checkpoint, and looks at its stdin only then; it is done *)
(* when the queue has no ready message, or when its stdin was closed.      *)

RunnerModel(s) == modelState[s].model

Consuming(s) == proc[s] = "running" /\ ~runnerDone[s]

RunnerTake(s) ==
  LET m == RunnerModel(s) IN
  /\ Consuming(s)
  /\ ready[m] > 0
  /\ unacked[m] < TargetRequests
  /\ ready' = [ready EXCEPT ![m] = @ - 1]
  /\ unacked' = [unacked EXCEPT ![m] = @ + 1]
  /\ UNCHANGED <<agentVars, ctlVars, readerVars, notifQ, notifExists, toNotify,
                 runnerDone>>

RunnerCheckpoint(s) ==
  LET m == RunnerModel(s) IN
  /\ Consuming(s)
  /\ unacked[m] >= TargetRequests
  /\ unacked' = [unacked EXCEPT ![m] = 0]
  /\ runnerDone' = [runnerDone EXCEPT ![s] = ~stdinOpen[s]]
  /\ UNCHANGED <<agentVars, ctlVars, readerVars, notifQ, notifExists, ready,
                 toNotify>>

RunnerDrained(s) ==
  LET m == RunnerModel(s) IN
  /\ Consuming(s)
  /\ ready[m] = 0
  /\ unacked[m] < TargetRequests
  /\ runnerDone' = [runnerDone EXCEPT ![s] = TRUE]
  /\ UNCHANGED <<agentVars, ctlVars, readerVars, busVars>>

(* The last checkpoint and ack of a runner that is done, and its exit.     *)
RunnerExit(s) ==
  /\ runnerDone[s]
  /\ ProcessEnds(s)
  /\ runnerDone' = [runnerDone EXCEPT ![s] = FALSE]
  /\ unacked' = [unacked EXCEPT ![RunnerModel(s)] = 0]
  /\ UNCHANGED <<ctlVars, readerVars, notifQ, notifExists, ready, toNotify>>

RunnerStep(s) ==
  RunnerTake(s) \/ RunnerCheckpoint(s) \/ RunnerDrained(s) \/ RunnerExit(s)

-----------------------------------------------------------------------------
(* The notification reader's thread.                                       *)

ReaderInit ==
  /\ readerPC = "init"
  /\ notifExists' = TRUE
  /\ readerPC' = "scan"
  /\ UNCHANGED <<agentVars, ctlVars, stopReader, unscanned, found, notifQ,
                 ready, unacked, toNotify, runnerDone>>

(* getModelsWithInputPending: one queue at a time, then all notifications. *)
ReaderScan(m) ==
  /\ readerPC = "scan"
  /\ m \in unscanned
  /\ unscanned' = unscanned \ {m}
  /\ found' = IF ready[m] > 0 THEN found \cup {m} ELSE found
  /\ readerPC' = IF unscanned = {m} THEN "notify" ELSE "scan"
  /\ UNCHANGED <<agentVars, ctlVars, stopReader, busVars, runnerDone>>

ReaderNotifyFound(m) ==
  /\ readerPC = "notify"
  /\ m \in found
  /\ found' = found \ {m}
  /\ eventQ' = Append(eventQ, NewInput(m))
  /\ UNCHANGED <<slotModel, agentQ, agentPC, modelState, closing, proc,
                 stdinOpen, ctlVars, stopReader, readerPC, unscanned, busVars,
                 runnerDone>>

ReaderScanDone ==
  /\ readerPC = "notify"
  /\ found = {}
  /\ readerPC' = "consume"
  /\ UNCHANGED <<agentVars, ctlVars, stopReader, unscanned, found, busVars,
                 runnerDone>>

(* One notification, under _notificationMutex: pass it on, or leave when   *)
(* the stop flag is set (the message then stays in its queue).             *)
ReaderForward ==
  /\ readerPC = "consume"
  /\ notifQ # <<>>
  /\ ~stopReader
  /\ Len(eventQ) < MaxEventQ
  /\ eventQ' = Append(eventQ, NewInput(Head(notifQ)))
  /\ notifQ' = Tail(notifQ)
  /\ UNCHANGED <<slotModel, agentQ, agentPC, modelState, closing, proc,
                 stdinOpen, ctlVars, readerVars, notifExists, ready, unacked,
                 toNotify, runnerDone>>

ReaderLeave ==
  /\ readerPC = "consume"
  /\ notifQ # <<>>
  /\ stopReader
  /\ readerPC' = "ended"
  /\ UNCHANGED <<agentVars, ctlVars, stopReader, unscanned, found, busVars,
                 runnerDone>>

ReaderStep ==
  \/ ReaderInit
  \/ \E m \in Models : ReaderScan(m) \/ ReaderNotifyFound(m)
  \/ ReaderScanDone
  \/ ReaderForward
  \/ ReaderLeave

(* The service's main thread, on a signal: set the flag under the mutex,   *)
(* then enqueue the stop request.                                          *)
RequestStop ==
  /\ ~stopReader
  /\ stopReader' = TRUE
  /\ eventQ' = Append(eventQ, StopLoop)
  /\ UNCHANGED <<slotModel, agentQ, agentPC, modelState, closing, proc,
                 stdinOpen, ctlVars, readerPC, unscanned, found, busVars,
                 runnerDone>>

-----------------------------------------------------------------------------
(* The event loop.                                                         *)

(* updateTimestamp, and a new _RunningModelInfo: m is now the most recent  *)
(* of the running models R.                                                *)
Touched(m, R) ==
  {p \in activity : m \notin {p[1], p[2]}} \cup ((R \ {m}) \X {m})

Forgotten(m) == {p \in activity : m \notin {p[1], p[2]}}

(* Mutant: off by one, the last waiting model preempts nothing.            *)
RequestPreemptionLate(w, r, a, p, q) ==
  IF Len(w) <= Cardinality(p) + 1 \/ Cardinality(p) >= Cardinality(Slots)
  THEN pendingPreempt' = p /\ agentQ' = q
  ELSE \E m \in Models :
         /\ r[m] \in Slots \ p
         /\ \A n \in Models : r[n] \in Slots \ p => <<n, m>> \notin a
         /\ pendingPreempt' = p \cup {r[m]}
         /\ agentQ' = Post(q, r[m], Command("STOP"))

(* _requestPreemptionOfRunningSlotIfNeededAndPossible on the state the     *)
(* handler has built so far: waiting models w, running map r, activity     *)
(* order a, pending slots p and agent queues q.  It stops the least        *)
(* recently active of the running models whose slot is not yet pending.    *)
RequestPreemption(w, r, a, p, q) ==
  IF Len(w) <= Cardinality(p) \/ Cardinality(p) >= Cardinality(Slots)
  THEN pendingPreempt' = p /\ agentQ' = q
  ELSE \E m \in Models :
         /\ r[m] \in Slots \ p
         /\ \A n \in Models : r[n] \in Slots \ p => <<n, m>> \notin a
         /\ pendingPreempt' = p \cup {r[m]}
         /\ agentQ' = Post(q, r[m], Command("STOP"))

TakeEvent == eventQ' = Tail(eventQ)

(* The loop looks at the stop flag before it gets the next event.          *)
LoopAgain == ctlPC' = IF stopPending THEN "top" ELSE "get"

Getting(t) == ctlPC = "get" /\ eventQ # <<>> /\ Head(eventQ).type = t

(* Mutant: the event loop is left at once, through a return.               *)
HandleStopLoopReturns ==
  /\ Getting("StopLoop")
  /\ TakeEvent
  /\ stopPending' = TRUE
  /\ ctlPC' = "exited"
  /\ UNCHANGED <<slotModel, agentQ, agentPC, modelState, closing, proc,
                 stdinOpen, waiting, running, activity, freeSlots,
                 pendingPreempt, stopRemaining, toClose, readerVars, busVars,
                 runnerDone>>

HandleStopLoop ==
  /\ Getting("StopLoop")
  /\ TakeEvent
  /\ stopPending' = TRUE
  /\ ctlPC' = "top"
  /\ UNCHANGED <<slotModel, agentQ, agentPC, modelState, closing, proc,
                 stdinOpen, waiting, running, activity, freeSlots,
                 pendingPreempt, stopRemaining, toClose, readerVars, busVars,
                 runnerDone>>

(* _handleNewInputNotifyEvent: the model is running already (its activity  *)
(* timestamp is new), or waiting already, or gets a free slot, or has to   *)
(* wait, perhaps at the cost of a running model.                           *)
TouchRunning(m) ==
  /\ running[m] # NoSlot
  /\ activity' = Touched(m, RunningModels)
  /\ UNCHANGED <<waiting, running, freeSlots, pendingPreempt, slotModel, agentQ>>

StillWaiting(m) ==
  /\ running[m] = NoSlot
  /\ m \in RangeOf(waiting)
  /\ UNCHANGED <<waiting, running, activity, freeSlots, pendingPreempt,
                 slotModel, agentQ>>

(* Mutant: a free slot is taken even for a model that runs in another.     *)
AssignFreeSlotAnyway(m) ==
  /\ m \notin RangeOf(waiting)
  /\ \E s \in freeSlots :
       /\ freeSlots' = freeSlots \ {s}
       /\ slotModel' = [slotModel EXCEPT ![s] = m]
       /\ agentQ' = Post(agentQ, s, Start(m))
       /\ running' = [running EXCEPT ![m] = s]
  /\ activity' = Touched(m, RunningModels)
  /\ UNCHANGED <<waiting, pendingPreempt>>

AssignFreeSlot(m) ==
  /\ running[m] = NoSlot
  /\ m \notin RangeOf(waiting)
  /\ \E s \in freeSlots :
       /\ freeSlots' = freeSlots \ {s}
       /\ slotModel' = [slotModel EXCEPT ![s] = m]
       /\ agentQ' = Post(agentQ, s, Start(m))
       /\ running' = [running EXCEPT ![m] = s]
  /\ activity' = Touched(m, RunningModels)
  /\ UNCHANGED <<waiting, pendingPreempt>>

WaitForSlot(m) ==
  /\ running[m] = NoSlot
  /\ m \notin RangeOf(waiting)
  /\ freeSlots = {}
  /\ waiting' = Append(waiting, m)
  /\ RequestPreemption(waiting', running, activity, pendingPreempt, agentQ)
  /\ UNCHANGED <<running, activity, freeSlots, slotModel>>

HandleNewInput ==
  LET m == Head(eventQ).model IN
  /\ Getting("NewInput")
  /\ TakeEvent
  /\ LoopAgain
  /\ TouchRunning(m) \/ StillWaiting(m) \/ AssignFreeSlot(m) \/ WaitForSlot(m)
  /\ UNCHANGED <<agentPC, modelState, closing, proc, stdinOpen, stopPending,
                 stopRemaining, toClose, readerVars, busVars, runnerDone>>

(* Mutant: input that came while the runner exited is not looked for.      *)
RecheckInputNever(m) == eventQ' = Tail(eventQ)

(* _handleModelDoneNotifyEvent: slot s of model m is released, the model   *)
(* is put up for scheduling again if its queue has a ready message, and    *)
(* the first waiting model takes the slot over (the only free one then).   *)
RecheckInput(m) ==
  eventQ' = IF ready[m] > 0 THEN Append(Tail(eventQ), NewInput(m))
                            ELSE Tail(eventQ)

(* Mutant: the freed slot stays in the set of slots pending preemption.    *)
FreeSlotStillPending(m, s) ==
  /\ waiting = <<>>
  /\ running' = [running EXCEPT ![m] = NoSlot]
  /\ activity' = Forgotten(m)
  /\ freeSlots' = freeSlots \cup {s}
  /\ slotModel' = [slotModel EXCEPT ![s] = NoModel]
  /\ agentQ' = Post(agentQ, s, Command("RELEASE"))
  /\ UNCHANGED <<waiting, pendingPreempt>>

FreeSlot(m, s) ==
  /\ waiting = <<>>
  /\ running' = [running EXCEPT ![m] = NoSlot]
  /\ activity' = Forgotten(m)
  /\ freeSlots' = freeSlots \cup {s}
  /\ pendingPreempt' = pendingPreempt \ {s}
  /\ slotModel' = [slotModel EXCEPT ![s] = NoModel]
  /\ agentQ' = Post(agentQ, s, Command("RELEASE"))
  /\ UNCHANGED waiting

HandOver(m, s) ==
  LET w == Head(waiting)
      released == Post(agentQ, s, Command("RELEASE"))
  IN
  /\ waiting # <<>>
  /\ waiting' = Tail(waiting)
  /\ running' = [running EXCEPT ![m] = NoSlot, ![w] = s]
  /\ activity' = Forgotten(m) \cup ((RunningModels \ {m}) \X {w})
  /\ slotModel' = [slotModel EXCEPT ![s] = w]
  /\ RequestPreemption(waiting', running', activity',
                       pendingPreempt \ {s}, Post(released, s, Start(w)))
  /\ UNCHANGED freeSlots

HandleDone ==
  LET m == Head(eventQ).model
      s == running[m]
  IN
  /\ Getting("Done")
  /\ RecheckInput(m)
  /\ LoopAgain
  /\ FreeSlot(m, s) \/ HandOver(m, s)
  /\ UNCHANGED <<agentPC, modelState, closing, proc, stdinOpen, stopPending,
                 stopRemaining, toClose, readerVars, busVars, runnerDone>>

(* The top of the loop once a stop is pending.                             *)
LoopTop ==
  /\ ctlPC = "top"
  /\ \/ /\ RunningModels = {} /\ waiting = <<>>
        /\ ctlPC' = "closing"
        /\ toClose' = Slots
        /\ UNCHANGED <<agentQ, pendingPreempt, stopRemaining>>
     \/ /\ RunningModels # {} /\ waiting = <<>> /\ ~stopRemaining
        /\ LET S == {running[m] : m \in RunningModels} \ pendingPreempt IN
           /\ agentQ' = [s \in Slots |-> IF s \in S
                           THEN Append(agentQ[s], Command("STOP"))
                           ELSE agentQ[s]]
           /\ pendingPreempt' = pendingPreempt \cup S
        /\ stopRemaining' = TRUE
        /\ ctlPC' = "get"
        /\ UNCHANGED toClose
     \/ /\ waiting # <<>> \/ (RunningModels # {} /\ stopRemaining)
        /\ ctlPC' = "get"
        /\ UNCHANGED <<agentQ, pendingPreempt, stopRemaining, toClose>>
  /\ UNCHANGED <<slotModel, agentPC, modelState, closing, proc, stdinOpen,
                 eventQ, waiting, running, activity, freeSlots, stopPending,
                 readerVars, busVars, runnerDone>>

(* close() of one agent after the other, each joined before the next.      *)
CloseAgent(s) ==
  /\ ctlPC = "closing"
  /\ s \in toClose
  /\ \A t \in Slots \ toClose : agentPC[t] = "closed"
  /\ toClose' = toClose \ {s}
  /\ agentQ' = Post(agentQ, s, Command("CLOSE"))
  /\ UNCHANGED <<slotModel, agentPC, modelState, closing, proc, stdinOpen,
                 eventQ, waiting, running, activity, freeSlots, pendingPreempt,
                 stopPending, stopRemaining, ctlPC, readerVars, busVars,
                 runnerDone>>

LeaveLoop ==
  /\ ctlPC = "closing"
  /\ toClose = {}
  /\ \A t \in Slots : agentPC[t] = "closed"
  /\ ctlPC' = "exited"
  /\ UNCHANGED <<agentVars, waiting, running, activity, freeSlots,
                 pendingPreempt, stopPending, stopRemaining, toClose,
                 readerVars, busVars, runnerDone>>

ControllerStep ==
  \/ HandleStopLoop
  \/ HandleNewInput
  \/ HandleDone
  \/ LoopTop
  \/ \E s \in Slots : CloseAgent(s)
  \/ LeaveLoop

-----------------------------------------------------------------------------
AgentAction(s) ==
  /\ AgentStep(s) \/ MonitorExit(s)
  /\ UNCHANGED <<ctlVars, readerVars, busVars, runnerDone>>

Next ==
  \/ \E m \in Models : Submit(m) \/ Notify(m)
  \/ ReaderStep
  \/ RequestStop
  \/ ControllerStep
  \/ \E s \in Slots : AgentAction(s) \/ RunnerStep(s)

Spec == Init /\ [][Next]_vars

(* The threads and processes keep running; what the environment submits    *)
(* and when it asks for a stop is its own affair, but whoever submitted    *)
(* input goes on to publish the notification.  Fairness is strong where a  *)
(* bound on a queue (MaxNotifs, MaxEventQ) can disable, now and then, what *)
(* nothing holds up in the program: its queues are unbounded.              *)
Fairness ==
  /\ WF_vars(ControllerStep)
  /\ SF_vars(ReaderStep)
  /\ \A m \in Models : SF_vars(Notify(m))
  /\ \A s \in Slots : /\ WF_vars(AgentAction(s))
                      /\ WF_vars(RunnerStep(s))

FairSpec == Spec /\ Fairness

-----------------------------------------------------------------------------
(* Properties *)

(* SwapController's assertions on its slots: a slot is either free or the  *)
(* slot of exactly one running model, the agents agree, and only a         *)
(* running slot is pending preemption.                                     *)
SlotAccounting ==
  /\ \A m, n \in RunningModels : running[m] = running[n] => m = n
  /\ freeSlots = Slots \ {running[m] : m \in RunningModels}
  /\ \A s \in Slots : IF s \in freeSlots
                      THEN slotModel[s] = NoModel
                      ELSE slotModel[s] # NoModel /\ running[slotModel[s]] = s
  /\ pendingPreempt \cap freeSlots = {}

(* "No models should be waiting if we have a free slot": the FIFO holds    *)
(* each model once, none of them running, and only while all slots are     *)
(* taken.                                                                  *)
WaitingDiscipline ==
  /\ waiting # <<>> => freeSlots = {}
  /\ \A i \in DOMAIN waiting : running[waiting[i]] = NoSlot
  /\ \A i, j \in DOMAIN waiting : waiting[i] = waiting[j] => i = j

(* Whatever else happens, a model with a ready message has something on    *)
(* its way that makes the controller look at its queue again: a submitter  *)
(* or the start-up scan, a notification, an event, a place in the waiting  *)
(* FIFO, or a runner whose end the controller still has to handle.         *)
OnItsWay(m) ==
  \/ m \in toNotify
  \/ m \in unscanned \cup found
  \/ m \in RangeOf(notifQ)
  \/ NewInput(m) \in RangeOf(eventQ)
  \/ m \in RangeOf(waiting)
  \/ running[m] # NoSlot

NoLostWakeup == \A m \in Models : ready[m] > 0 => OnItsWay(m)

(* When run() has returned no ModelRunner is left running.                 *)
ExitIsClean ==
  ctlPC = "exited" => \A s \in Slots : proc[s] \in {"none", "reaped"}

(* Input is not left lying: whatever the other models get in the meantime, *)
(* a ready message ends up with a runner, unless the service is stopped.   *)
InputIsServed ==
  \A m \in Models : ready[m] > 0 ~> (unacked[m] > 0 \/ stopReader)

(* requestStopTS: "This will cause the instance's run() method to return   *)
(* eventually."                                                            *)
StopReturns == stopReader ~> ctlPC = "exited"

(* It does once nobody submits any more.                                   *)
StopReturnsWhenQuiet ==
  (<>[][\A m \in Models : ~Submit(m)]_vars) => StopReturns

(* "no further model input notifications will be added to main event queue *)
(* once self._stopNotificationReader is set", other than by the event loop *)
(* itself when a model is done with input left.                            *)
NewInputs(q) == Cardinality({i \in DOMAIN q : q[i].type = "NewInput"})

ReaderQuietAfterStop ==
  [][stopReader /\ ctlPC' = ctlPC => NewInputs(eventQ') <= NewInputs(eventQ)]_vars

(* What the agents promise of their processes, see RunnerPool.             *)
Pool == INSTANCE RunnerPool WITH
          backlog <- [m \in Models |-> ready[m] + unacked[m]],
          host <- [s \in Slots |-> IF proc[s] = "running"
                                    THEN modelState[s].model ELSE NoModel]

ImplementsRunnerPool == Pool!Spec

=============================================================================
