--------------------------- MODULE SlotAgentClient ---------------------------
(***************************************************************************)
(* Slot agents under any client that keeps to the protocol of their        *)
(* interface (slot_agent.py): start a model on a slot that has none, stop  *)
(* it at most once, release the slot after its callback, close the agent   *)
(* at any time.  SwapController is one such client, and a tame one: it     *)
(* closes an agent only when no model is left.                             *)
(*                                                                         *)
(* A ModelRunner process ends when it likes: it has no more input, it      *)
(* crashed, or it saw its stdin closed.  An agent that has waited long     *)
(* enough for a process it stopped kills it.                               *)
(***************************************************************************)
EXTENDS SlotAgent

VARIABLES stopSent,  (* the client has called stopModel() for this model    *)
          closed     (* the client has called close()                       *)

clientVars == <<stopSent, closed>>
protocolVars == <<agentVars, clientVars>>

ProtocolTypes ==
  /\ AgentTypeOK
  /\ stopSent \in [Slots -> BOOLEAN]
  /\ closed \in [Slots -> BOOLEAN]

ProtocolInit ==
  /\ AgentInit
  /\ stopSent = [s \in Slots |-> FALSE]
  /\ closed = [s \in Slots |-> FALSE]

StartModel(s, m) ==
  /\ ~closed[s]
  /\ slotModel[s] = NoModel
  /\ \A t \in Slots : slotModel[t] # m
  /\ slotModel' = [slotModel EXCEPT ![s] = m]
  /\ agentQ' = Post(agentQ, s, Start(m))
  /\ stopSent' = [stopSent EXCEPT ![s] = FALSE]
  /\ UNCHANGED <<agentPC, modelState, closing, proc, stdinOpen, eventQ, closed>>

StopModel(s) ==
  /\ ~closed[s]
  /\ slotModel[s] # NoModel
  /\ ~stopSent[s]
  /\ agentQ' = Post(agentQ, s, Command("STOP"))
  /\ stopSent' = [stopSent EXCEPT ![s] = TRUE]
  /\ UNCHANGED <<slotModel, agentPC, modelState, closing, proc, stdinOpen,
                 eventQ, closed>>

(* The client handles a callback's event: it releases the slot, which only *)
(* makes sense while the agent is open.                                    *)
ReleaseSlot(s) ==
  /\ eventQ # <<>>
  /\ Head(eventQ) = Done(slotModel[s])
  /\ eventQ' = Tail(eventQ)
  /\ \/ /\ ~closed[s]
        /\ slotModel' = [slotModel EXCEPT ![s] = NoModel]
        /\ agentQ' = Post(agentQ, s, Command("RELEASE"))
     \/ /\ closed[s]
        /\ UNCHANGED <<slotModel, agentQ>>
  /\ UNCHANGED <<agentPC, modelState, closing, proc, stdinOpen, clientVars>>

CloseSlot(s) ==
  /\ ~closed[s]
  /\ closed' = [closed EXCEPT ![s] = TRUE]
  /\ agentQ' = Post(agentQ, s, Command("CLOSE"))
  /\ UNCHANGED <<slotModel, agentPC, modelState, closing, proc, stdinOpen,
                 eventQ, stopSent>>

ClientStep(s) ==
  \/ \E m \in Models : StartModel(s, m)
  \/ StopModel(s)
  \/ ReleaseSlot(s)
  \/ CloseSlot(s)

(* stopGracefully(): the agent has waited long enough.                     *)
AgentKill(s) ==
  /\ agentPC[s] = "joining"
  /\ ProcessEnds(s)

AgentMoves(s) ==
  /\ AgentStep(s) \/ AgentKill(s) \/ MonitorExit(s) \/ ProcessEnds(s)
  /\ UNCHANGED clientVars

ProtocolNext == \E s \in Slots : ClientStep(s) \/ AgentMoves(s)

(* The agent's thread runs, its wait has a timeout, and the monitor thread *)
(* sees the end of a process; a process need not end by itself, nor the    *)
(* client call anything but releaseSlot() after a callback.                *)
ProtocolFairness ==
  \A s \in Slots :
    /\ WF_protocolVars(AgentStep(s) /\ UNCHANGED clientVars)
    /\ WF_protocolVars(AgentKill(s) /\ UNCHANGED clientVars)
    /\ WF_protocolVars(MonitorExit(s) /\ UNCHANGED clientVars)
    /\ WF_protocolVars(ReleaseSlot(s))

ProtocolSpec == ProtocolInit /\ [][ProtocolNext]_protocolVars /\ ProtocolFairness

-----------------------------------------------------------------------------
(* Every callback event is that of the slot's present model and comes      *)
(* once: neither the monitor's notice nor a stop that crosses it makes a   *)
(* second one, and none is left over from the model before.                *)
OneCallbackPerModel ==
  /\ \A i \in DOMAIN eventQ : \E s \in Slots : eventQ[i] = Done(slotModel[s])
  /\ \A i, j \in DOMAIN eventQ : eventQ[i] = eventQ[j] => i = j

(* A stop that is asked for is followed by the callback, and the slot is   *)
(* free again; so is a process that ended by itself.  Only close() ends    *)
(* the wait otherwise.                                                     *)
StopIsAnswered ==
  \A s \in Slots :
    (slotModel[s] # NoModel /\ stopSent[s]) \/ proc[s] = "exited"
      ~> slotModel[s] = NoModel \/ closed[s]

(* close() returns, whatever was going on.                                 *)
CloseReturns == \A s \in Slots : closed[s] ~> agentPC[s] = "closed"

(* close(): "Abort ModelRunner, if any, without invoking the user-supplied *)
(* modelFinishedCallback".                                                 *)
CloseCallsBackNobody ==
  [][\A s \in Slots : closed[s] /\ Done(slotModel[s]) \in RangeOf(eventQ')
       => Done(slotModel[s]) \in RangeOf(eventQ)]_protocolVars
=============================================================================
