----------------------------- MODULE SlotAgent -----------------------------
(***************************************************************************)
(* The slot agents of the Model Scheduler                                  *)
(* (htmengine/model_swapper/slot_agent.py).                                *)
(*                                                                         *)
(* A SlotAgent owns one execution slot.  Its client (the SwapController)   *)
(* posts commands to the agent's queue; the agent's own thread takes them  *)
(* one at a time, starts and stops a ModelRunner process, and tells the    *)
(* client that the process ended by a callback, which posts to the         *)
(* client's event queue.  A monitor thread per process waits for its end.  *)
(*                                                                         *)
(* This module has the state and the steps of the agents, their monitor    *)
(* threads and the life of the processes.  The client's calls are the      *)
(* operators Post and the modules that EXTEND this one.                    *)
(***************************************************************************)
EXTENDS Integers, Sequences, FiniteSets

CONSTANTS Models,   (* the model IDs                                       *)
          Slots,    (* the slot indexes                                    *)
          NoModel   (* stands for None where a model ID is expected        *)

ASSUME ModelAssumption == NoModel \notin Models

VARIABLES
  slotModel,   (* SlotAgent._modelID: what the client's side believes      *)
  agentQ,      (* SlotAgent._eventQ                                        *)
  agentPC,     (* where the agent's thread is                              *)
  modelState,  (* the event loop's local modelState                        *)
  closing,     (* the agent is stopping its process on behalf of close()   *)
  proc,        (* the slot's ModelRunner process                           *)
  stdinOpen,   (* the agent's end of the process' stdin                    *)
  eventQ       (* the client's event queue                                 *)

agentVars == <<slotModel, agentQ, agentPC, modelState, closing, proc,
               stdinOpen, eventQ>>

MaybeModel == Models \cup {NoModel}

(* Commands of the client, and the monitor thread's notice.                *)
AgentEvent == [type : {"START"}, model : Models] \cup
              [type : {"STOP", "EXITED", "RELEASE", "CLOSE"}, model : {NoModel}]
Start(m) == [type |-> "START", model |-> m]
Command(c) == [type |-> c, model |-> NoModel]

(* What SwapController's queue carries; a slot agent only posts Done.      *)
ClientEvent == [type : {"NewInput", "Done"}, model : Models] \cup
               [type : {"StopLoop"}, model : {NoModel}]
Done(m) == [type |-> "Done", model |-> m]

NoState == [model |-> NoModel, stopRequested |-> FALSE,
            stopPending |-> FALSE, exited |-> FALSE]
ModelState == [model : MaybeModel, stopRequested : BOOLEAN,
               stopPending : BOOLEAN, exited : BOOLEAN]

(* "reaped": the monitor thread has seen the exit and has ended.           *)
ProcState == {"none", "running", "exited", "reaped"}

AgentTypeOK ==
  /\ slotModel \in [Slots -> MaybeModel]
  /\ agentQ \in [Slots -> Seq(AgentEvent)]
  /\ agentPC \in [Slots -> {"loop", "joining", "closed"}]
  /\ modelState \in [Slots -> ModelState]
  /\ closing \in [Slots -> BOOLEAN]
  /\ proc \in [Slots -> ProcState]
  /\ stdinOpen \in [Slots -> BOOLEAN]
  /\ eventQ \in Seq(ClientEvent)

AgentInit ==
  /\ slotModel = [s \in Slots |-> NoModel]
  /\ agentQ = [s \in Slots |-> <<>>]
  /\ agentPC = [s \in Slots |-> "loop"]
  /\ modelState = [s \in Slots |-> NoState]
  /\ closing = [s \in Slots |-> FALSE]
  /\ proc = [s \in Slots |-> "none"]
  /\ stdinOpen = [s \in Slots |-> FALSE]
  /\ eventQ = <<>>

-----------------------------------------------------------------------------
(* The events that wait in a queue.                                        *)
RangeOf(q) == {q[i] : i \in DOMAIN q}

(* The client's side: queue q with event e posted to slot s.               *)
Post(q, s, e) == [q EXCEPT ![s] = Append(@, e)]

(* Whether the head of slot s' queue is an event of type t that the        *)
(* agent's thread can take now.                                            *)
Taking(s, t) ==
  /\ agentPC[s] = "loop"
  /\ agentQ[s] # <<>>
  /\ Head(agentQ[s]).type = t

Take(s) == agentQ' = [agentQ EXCEPT ![s] = Tail(@)]

(* The beginning of the inner stopModel(): it closes the process' stdin    *)
(* and then waits for the monitor thread.                                  *)
BeginStop(s, requested, forClose) ==
  /\ modelState' = [modelState EXCEPT ![s].stopRequested = requested,
                                      ![s].stopPending = TRUE]
  /\ stdinOpen' = [stdinOpen EXCEPT ![s] = FALSE]
  /\ closing' = [closing EXCEPT ![s] = forClose]
  /\ agentPC' = [agentPC EXCEPT ![s] = "joining"]

AgentStart(s) ==
  /\ Taking(s, "START")
  /\ Take(s)
  /\ modelState' = [modelState EXCEPT ![s] =
                      [NoState EXCEPT !.model = Head(agentQ[s]).model]]
  /\ proc' = [proc EXCEPT ![s] = "running"]
  /\ stdinOpen' = [stdinOpen EXCEPT ![s] = TRUE]
  /\ UNCHANGED <<slotModel, agentPC, closing, eventQ>>

(* A stop request; when the process has already ended and its end is being *)
(* handled, the request is only recorded.                                  *)
AgentStop(s) ==
  /\ Taking(s, "STOP")
  /\ Take(s)
  /\ \/ /\ ~modelState[s].stopPending
        /\ BeginStop(s, TRUE, FALSE)
     \/ /\ modelState[s].stopPending
        /\ modelState' = [modelState EXCEPT ![s].stopRequested = TRUE]
        /\ UNCHANGED <<stdinOpen, closing, agentPC>>
  /\ UNCHANGED <<slotModel, proc, eventQ>>

(* Mutant: the notice of a process already being stopped stops it again.   *)
AgentExitedTwice(s) ==
  /\ Taking(s, "EXITED")
  /\ Take(s)
  /\ BeginStop(s, modelState[s].stopRequested, FALSE)
  /\ UNCHANGED <<slotModel, proc, eventQ>>

(* Mutant: the notice of a process nobody stopped is ignored.              *)
AgentExitedIgnored(s) ==
  /\ Taking(s, "EXITED")
  /\ Take(s)
  /\ UNCHANGED <<slotModel, agentPC, modelState, closing, proc, stdinOpen,
                 eventQ>>

(* The monitor's notice; it comes for every process, stopped or not.       *)
AgentExited(s) ==
  /\ Taking(s, "EXITED")
  /\ Take(s)
  /\ \/ /\ ~modelState[s].stopPending
        /\ BeginStop(s, modelState[s].stopRequested, FALSE)
     \/ /\ modelState[s].stopPending
        /\ UNCHANGED <<modelState, stdinOpen, closing, agentPC>>
  /\ UNCHANGED <<slotModel, proc, eventQ>>

(* Mutant: the state of the released model is not reset.                   *)
AgentReleaseKeepsState(s) ==
  /\ Taking(s, "RELEASE")
  /\ Take(s)
  /\ proc' = [proc EXCEPT ![s] = "none"]
  /\ UNCHANGED <<slotModel, agentPC, modelState, closing, stdinOpen, eventQ>>

AgentRelease(s) ==
  /\ Taking(s, "RELEASE")
  /\ Take(s)
  /\ modelState' = [modelState EXCEPT ![s] = NoState]
  /\ proc' = [proc EXCEPT ![s] = "none"]
  /\ UNCHANGED <<slotModel, agentPC, closing, stdinOpen, eventQ>>

(* Mutant: the agent closes without stopping its process.                  *)
AgentCloseNoStop(s) ==
  /\ Taking(s, "CLOSE")
  /\ Take(s)
  /\ agentPC' = [agentPC EXCEPT ![s] = "closed"]
  /\ UNCHANGED <<slotModel, modelState, closing, proc, stdinOpen, eventQ>>

(* Mutant: the agent waits for a process even when it has none.            *)
AgentCloseAlwaysStops(s) ==
  /\ Taking(s, "CLOSE")
  /\ Take(s)
  /\ BeginStop(s, modelState[s].stopRequested, TRUE)
  /\ UNCHANGED <<slotModel, proc, eventQ>>

AgentClose(s) ==
  /\ Taking(s, "CLOSE")
  /\ Take(s)
  /\ \/ /\ modelState[s].model # NoModel
        /\ ~modelState[s].stopPending
        /\ BeginStop(s, modelState[s].stopRequested, TRUE)
     \/ /\ modelState[s].model = NoModel \/ modelState[s].stopPending
        /\ agentPC' = [agentPC EXCEPT ![s] = "closed"]
        /\ UNCHANGED <<modelState, stdinOpen, closing>>
  /\ UNCHANGED <<slotModel, proc, eventQ>>

(* stopGracefully() returns once the monitor thread has ended; the exit    *)
(* status is known and the client is called back, except under close().    *)
AgentJoined(s) ==
  /\ agentPC[s] = "joining"
  /\ proc[s] = "reaped"
  /\ modelState' = [modelState EXCEPT ![s].exited = TRUE]
  /\ \/ /\ ~closing[s]
        /\ eventQ' = Append(eventQ, Done(modelState[s].model))
        /\ agentPC' = [agentPC EXCEPT ![s] = "loop"]
     \/ /\ closing[s]
        /\ agentPC' = [agentPC EXCEPT ![s] = "closed"]
        /\ UNCHANGED eventQ
  /\ UNCHANGED <<slotModel, agentQ, closing, proc, stdinOpen>>

(* The monitor thread: the process is gone, tell the agent.                *)
MonitorExit(s) ==
  /\ proc[s] = "exited"
  /\ proc' = [proc EXCEPT ![s] = "reaped"]
  /\ agentQ' = Post(agentQ, s, Command("EXITED"))
  /\ UNCHANGED <<slotModel, agentPC, modelState, closing, stdinOpen, eventQ>>

AgentStep(s) ==
  \/ AgentStart(s)
  \/ AgentStop(s)
  \/ AgentExited(s)
  \/ AgentRelease(s)
  \/ AgentClose(s)
  \/ AgentJoined(s)

(* The process of slot s ends, whatever the reason.                        *)
ProcessEnds(s) ==
  /\ proc[s] = "running"
  /\ proc' = [proc EXCEPT ![s] = "exited"]
  /\ UNCHANGED <<slotModel, agentQ, agentPC, modelState, closing, stdinOpen,
                 eventQ>>

-----------------------------------------------------------------------------
(* The assertions of SlotAgent._runEventLoop, each at the state where its  *)
(* event is about to be handled, and the None dereference that a STOP or   *)
(* an EXITED event without a model would be.                               *)
AgentAssertions ==
  \A s \in Slots :
    /\ Taking(s, "START") => modelState[s] = NoState
    /\ Taking(s, "STOP") => /\ modelState[s].model # NoModel
                            /\ ~modelState[s].stopRequested
    /\ Taking(s, "EXITED") => modelState[s].model # NoModel
    /\ Taking(s, "RELEASE") => modelState[s].stopPending /\ modelState[s].exited

(* An agent whose thread has ended leaves no process behind.               *)
ClosedAgentHasNoProcess ==
  \A s \in Slots : agentPC[s] = "closed" => proc[s] \in {"none", "reaped"}
=============================================================================
