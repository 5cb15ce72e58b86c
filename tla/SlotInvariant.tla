----------------------------- MODULE SlotInvariant -----------------------------
(***************************************************************************)
(* What holds of one slot whoever uses it: what the client believes, what  *)
(* is on its way in the agent's queue, and what the agent and the process  *)
(* do.  The inductive invariants of the Model Scheduler and of the agents  *)
(* under any client are built from it.                                     *)
(***************************************************************************)
EXTENDS SlotAgent

(* Whether queue q holds an event of type t.                               *)
Holds(q, t) == \E i \in DOMAIN q : q[i].type = t

(* A STOP in q that will meet the agent's present model, and one that will *)
(* meet the model of the START before it.                                  *)
StopNow(q) ==
  \E i \in DOMAIN q :
    q[i].type = "STOP" /\ \A k \in DOMAIN q : k < i => q[k].type # "START"
StopNext(q) ==
  \E i, k \in DOMAIN q : q[i].type = "STOP" /\ k < i /\ q[k].type = "START"

(* The order of an agent's queue: STOP and EXITED of the present model,    *)
(* its RELEASE, the next model's START and STOP; and CLOSE at the end,     *)
(* behind which only the monitor thread posts.                             *)
Ordered(q) ==
  \A i, j \in DOMAIN q : i < j =>
    /\ q[j].type = "EXITED" => q[i].type \in {"STOP", "CLOSE"}
    /\ q[j].type = "RELEASE" => q[i].type \in {"STOP", "EXITED"}
    /\ q[j].type = "START" => q[i].type \in {"STOP", "EXITED", "RELEASE"}
    /\ q[j].type = "STOP" /\ q[i].type \in {"STOP", "RELEASE"} =>
         \E k \in DOMAIN q : i < k /\ k < j /\ q[k].type = "START"
    /\ q[i].type = "CLOSE" => q[j].type = "EXITED"

(* Where the agent is (pc), whether it is stopping on behalf of close()    *)
(* (cl), what it knows of the model (st), and what its process does (pr).  *)
AgentView(st, pr, pc, cl) ==
  /\ pr = "none" <=> st = NoState
  /\ st = NoState <=> st.model = NoModel
  /\ st.exited => pr = "reaped" /\ st.stopPending
  /\ pc = "joining" <=> st.stopPending /\ ~st.exited
  /\ cl => pc # "loop"
  /\ pc = "closed" => st = NoState \/ st.exited

(* The agent's queue against the agent's state.                            *)
QueueView(q, st, pr) ==
  /\ Ordered(q)
  /\ Holds(q, "EXITED") => pr = "reaped"
  /\ Holds(q, "RELEASE") => st.exited
  /\ Holds(q, "START") /\ st # NoState => Holds(q, "RELEASE")
  /\ StopNow(q) => st # NoState /\ ~st.stopRequested

(* What the client believes (sm) against what the agent does or is about   *)
(* to do.  A slot that is not asked to stop (pending) has no STOP on its   *)
(* way.                                                                    *)
ClientView(q, st, sm, pending) ==
  /\ \A i \in DOMAIN q : q[i].type = "START" => q[i].model = sm
  /\ ~Holds(q, "START") =>
       sm = IF Holds(q, "RELEASE") THEN NoModel ELSE st.model
  /\ sm # NoModel /\ ~pending =>
       IF Holds(q, "START") THEN ~StopNext(q)
                            ELSE ~StopNow(q) /\ ~st.stopRequested

SlotInv(q, st, pr, pc, cl, sm, pending) ==
  AgentView(st, pr, pc, cl) /\ QueueView(q, st, pr) /\ ClientView(q, st, sm, pending)

(* A Done event is that of the one slot that has finished and not been     *)
(* released.                                                               *)
Finished(s, m) ==
  /\ modelState[s].model = m
  /\ modelState[s].exited
  /\ ~Holds(agentQ[s], "RELEASE")

DoneEvents ==
  /\ \A i \in DOMAIN eventQ : eventQ[i].type = "Done" =>
        \E s \in Slots : Finished(s, eventQ[i].model)
  /\ \A i, j \in DOMAIN eventQ :
        eventQ[i].type = "Done" /\ eventQ[j] = eventQ[i] => i = j
=============================================================================
