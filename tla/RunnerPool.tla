----------------------------- MODULE RunnerPool -----------------------------
(***************************************************************************)
(* What the Model Scheduler promises of the ModelRunner processes: a model *)
(* has at most one process at any time, a slot hosts at most one process,  *)
(* and only a process that hosts a model takes messages off its backlog.   *)
(***************************************************************************)
EXTENDS Integers

CONSTANTS Models, Slots, NoModel

VARIABLES backlog,   (* messages of each model not yet acknowledged        *)
          host       (* the model of each slot's live process              *)

Init ==
  /\ backlog \in [Models -> Nat]
  /\ host = [s \in Slots |-> NoModel]

Arrive(m) ==
  /\ backlog' = [backlog EXCEPT ![m] = @ + 1]
  /\ UNCHANGED host

Launch(s, m) ==
  /\ host[s] = NoModel
  /\ \A t \in Slots : host[t] # m
  /\ host' = [host EXCEPT ![s] = m]
  /\ UNCHANGED backlog

(* Acknowledge some of the backlog.                                        *)
Absorb(s) ==
  /\ host[s] # NoModel
  /\ \E k \in 1 .. backlog[host[s]] :
       backlog' = [backlog EXCEPT ![host[s]] = @ - k]
  /\ UNCHANGED host

(* Acknowledge what is left to acknowledge, and end.                       *)
Retire(s) ==
  /\ host[s] # NoModel
  /\ \E k \in 0 .. backlog[host[s]] :
       backlog' = [backlog EXCEPT ![host[s]] = @ - k]
  /\ host' = [host EXCEPT ![s] = NoModel]

Next ==
  \/ \E m \in Models : Arrive(m)
  \/ \E s \in Slots : Absorb(s) \/ Retire(s)
  \/ \E s \in Slots, m \in Models : Launch(s, m)

Spec == Init /\ [][Next]_<<backlog, host>>
=============================================================================
