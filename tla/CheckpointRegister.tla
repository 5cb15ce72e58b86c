------------------------- MODULE CheckpointRegister -------------------------
(***************************************************************************)
(* What the checkpoint manager promises of an archive of models: every     *)
(* operation replaces what is read of a model in one step, and a failure   *)
(* of the machine brings back something that was read as a whole and that  *)
(* no later operation had settled: the new checkpoint or the old one,      *)
(* never a part of either.                                                 *)
(***************************************************************************)
CONSTANTS Models,
          Contents,     (* a saved model with its attributes               *)
          NoModel,      (* what is read of a model that is not defined     *)
          NoCheckpoint  (* ... and of one that was never saved             *)

VARIABLES current,      (* what is read of a model                         *)
          atRisk        (* what may be read after a failure of the machine *)

registerVars == <<current, atRisk>>

RegisterInit ==
  /\ current = [m \in Models |-> NoModel]
  /\ atRisk = [m \in Models |-> {NoModel}]

Replace(m, content) ==
  /\ current' = [current EXCEPT ![m] = content]
  /\ atRisk' = [atRisk EXCEPT ![m] = @ \cup {content}]

Define(m) == current[m] = NoModel /\ Replace(m, NoCheckpoint)

Save(m) == current[m] # NoModel /\ \E content \in Contents : Replace(m, content)

UpdateAttributes(m) ==
  /\ current[m] \in Contents
  /\ \E content \in Contents :
       content.model = current[m].model /\ Replace(m, content)

Clone(m, d) == /\ current[m] # NoModel /\ current[d] = NoModel
               /\ Replace(d, current[m])

Remove(m) == current[m] # NoModel /\ Replace(m, NoModel)

(* Writes reach the disk.                                                  *)
Settle ==
  /\ UNCHANGED current
  /\ \A m \in Models : atRisk'[m] \subseteq atRisk[m] /\ current[m] \in atRisk'[m]

MachineFails ==
  /\ \A m \in Models : current'[m] \in atRisk[m]
  /\ atRisk' = [m \in Models |-> {current'[m]}]

RegisterNext ==
  \/ \E m \in Models : Define(m) \/ Save(m) \/ UpdateAttributes(m) \/ Remove(m)
  \/ \E m, d \in Models : Clone(m, d)
  \/ Settle \/ MachineFails

RegisterSpec == RegisterInit /\ [][RegisterNext]_registerVars
=============================================================================
