---------------------------- MODULE SwapInvariant ----------------------------
(***************************************************************************)
(* The inductive invariant of the Model Scheduler.  Its heart is the state *)
(* of one slot (SlotInvariant), with the event loop as the client.         *)
(***************************************************************************)
EXTENDS SwapController, SlotInvariant

SlotsConsistent ==
  \A s \in Slots : SlotInv(agentQ[s], modelState[s], proc[s], agentPC[s],
                           closing[s], slotModel[s], s \in pendingPreempt)

ClosingDown ==
  /\ ctlPC \in {"closing", "exited"} => RunningModels = {} /\ waiting = <<>>
  /\ \A s \in Slots :
       Holds(agentQ[s], "CLOSE") \/ agentPC[s] = "closed" =>
         ctlPC \in {"closing", "exited"} /\ s \notin toClose
  /\ \A s \in Slots :
       agentPC[s] = "closed" => agentQ[s] = <<>> /\ modelState[s] = NoState
  /\ ctlPC = "exited" => \A s \in Slots : agentPC[s] = "closed"
  /\ \A s \in Slots : ~closing[s]

ReaderConsistent ==
  /\ ~notifExists => readerPC = "init"
  /\ readerPC = "init" => unscanned = Models

IInv ==
  /\ TypeOK
  /\ SlotAccounting
  /\ WaitingDiscipline
  /\ SlotsConsistent
  /\ DoneEvents
  /\ ClosingDown
  /\ ReaderConsistent
  /\ NoLostWakeup
=============================================================================
