------------------------ MODULE SwapControllerProofs ------------------------
(***************************************************************************)
(* The slot agents and the Model Scheduler keep their invariants, for any  *)
(* numbers of slots and models.                                            *)
(*                                                                         *)
(* First the lemmas about one slot: what taking the head of its queue,     *)
(* appending to it and the steps of the agent do to its part of the        *)
(* invariant (SlotInvariant).  Then the agents with any client that keeps  *)
(* to the protocol of their interface (SlotAgentClient): they keep their   *)
(* assertions and call the client back once for each model.  Then the      *)
(* scheduler: the lemmas follow the conjuncts of IInv, and each has one    *)
(* step per action that can disturb its conjunct; its theorems are at the  *)
(* end.                                                                    *)
(***************************************************************************)
EXTENDS SwapInvariant, SlotAgentClient, TLAPS

-----------------------------------------------------------------------------
(* One slot.                                                               *)

(* The head and the tail of a non-empty sequence, index by index.          *)
LEMMA TailFacts ==
  ASSUME NEW S, NEW q \in Seq(S), q # <<>>
  PROVE  /\ Head(q) \in S
         /\ Head(q) = q[1]
         /\ 1 \in DOMAIN q
         /\ Tail(q) \in Seq(S)
         /\ \A i \in DOMAIN Tail(q) :
              i \in Nat \ {0} /\ i + 1 \in DOMAIN q /\ Tail(q)[i] = q[i + 1]
         /\ \A i \in DOMAIN q :
              i \in Nat \ {0} /\ (i # 1 => i - 1 \in DOMAIN Tail(q) /\ Tail(q)[i - 1] = q[i])
  OBVIOUS

(* Append, index by index.                                                 *)
LEMMA AppendFacts ==
  ASSUME NEW S, NEW q \in Seq(S), NEW e \in S
  PROVE  /\ Append(q, e) \in Seq(S)
         /\ Append(q, e) # <<>>
         /\ Len(q) + 1 \in DOMAIN Append(q, e)
         /\ Append(q, e)[Len(q) + 1] = e
         /\ Len(q) \in Nat
         /\ \A i \in DOMAIN q : i \in Nat /\ i > 0 /\ i <= Len(q)
                                /\ i \in DOMAIN Append(q, e) /\ Append(q, e)[i] = q[i]
         /\ \A i \in DOMAIN Append(q, e) : i \in DOMAIN q \/ i = Len(q) + 1
  OBVIOUS

(* An event at the head is held, and so is what the tail holds.            *)
LEMMA HoldsTail ==
  ASSUME NEW q \in Seq(AgentEvent), q # <<>>, NEW t
  PROVE  Holds(q, t) <=> Head(q).type = t \/ Holds(Tail(q), t)
<1>1. Holds(q, t) => Head(q).type = t \/ Holds(Tail(q), t)
  <2> SUFFICES ASSUME NEW i \in DOMAIN q, q[i].type = t, i # 1
               PROVE  Holds(Tail(q), t)
    BY TailFacts DEF Holds
  <2>1. i - 1 \in DOMAIN Tail(q) /\ Tail(q)[i - 1] = q[i]
    BY TailFacts
  <2> QED  BY <2>1 DEF Holds
<1>2. Head(q).type = t => Holds(q, t)
  BY TailFacts DEF Holds
<1>3. Holds(Tail(q), t) => Holds(q, t)
  <2> SUFFICES ASSUME NEW i \in DOMAIN Tail(q), Tail(q)[i].type = t
               PROVE  Holds(q, t)
    BY DEF Holds
  <2> QED  BY TailFacts DEF Holds
<1> QED  BY <1>1, <1>2, <1>3

(* Appending an event adds what it is to what is held.                     *)
LEMMA HoldsAppend ==
  ASSUME NEW q \in Seq(AgentEvent), NEW e \in AgentEvent, NEW t
  PROVE  Holds(Append(q, e), t) <=> Holds(q, t) \/ e.type = t
<1> DEFINE r == Append(q, e)
<1>1. Holds(r, t) => Holds(q, t) \/ e.type = t
  <2> SUFFICES ASSUME NEW i \in DOMAIN r, r[i].type = t, e.type # t
               PROVE  Holds(q, t)
    BY DEF Holds
  <2> QED  BY AppendFacts DEF Holds
<1>2. e.type = t => Holds(r, t)
  BY AppendFacts DEF Holds
<1>3. Holds(q, t) => Holds(r, t)
  <2> SUFFICES ASSUME NEW i \in DOMAIN q, q[i].type = t
               PROVE  Holds(r, t)
    BY DEF Holds
  <2> QED  BY AppendFacts DEF Holds
<1> QED  BY <1>1, <1>2, <1>3

-----------------------------------------------------------------------------
(* Taking the head.                                                        *)

(* The order survives: it is about pairs of positions.                     *)
LEMMA OrderedTail ==
  ASSUME NEW q \in Seq(AgentEvent), q # <<>>, Ordered(q)
  PROVE  Ordered(Tail(q))
<1> DEFINE r == Tail(q)
<1> SUFFICES ASSUME NEW i \in DOMAIN r, NEW j \in DOMAIN r, i < j
             PROVE  /\ r[j].type = "EXITED" => r[i].type \in {"STOP", "CLOSE"}
                    /\ r[j].type = "RELEASE" => r[i].type \in {"STOP", "EXITED"}
                    /\ r[j].type = "START" => r[i].type \in {"STOP", "EXITED", "RELEASE"}
                    /\ r[j].type = "STOP" /\ r[i].type \in {"STOP", "RELEASE"} =>
                         \E k \in DOMAIN r : i < k /\ k < j /\ r[k].type = "START"
                    /\ r[i].type = "CLOSE" => r[j].type = "EXITED"
  BY DEF Ordered
<1>1. /\ i \in Nat /\ j \in Nat
      /\ i + 1 \in DOMAIN q /\ r[i] = q[i + 1]
      /\ j + 1 \in DOMAIN q /\ r[j] = q[j + 1]
      /\ i + 1 < j + 1
  BY TailFacts
<1>2. ASSUME r[j].type = "STOP", r[i].type \in {"STOP", "RELEASE"}
      PROVE  \E k \in DOMAIN r : i < k /\ k < j /\ r[k].type = "START"
  <2>1. PICK k \in DOMAIN q : i + 1 < k /\ k < j + 1 /\ q[k].type = "START"
    BY <1>1, <1>2 DEF Ordered
  <2>2. k \in Nat /\ k - 1 \in DOMAIN r /\ r[k - 1] = q[k]
    BY <2>1, <1>1, TailFacts
  <2>3. i < k - 1 /\ k - 1 < j
    BY <2>1, <2>2, <1>1
  <2>4. r[k - 1].type = "START"
    BY <2>1, <2>2
  <2> QED  BY <2>2, <2>3, <2>4
<1> QED  BY <1>1, <1>2 DEF Ordered

(* A STOP for the present model is at the head or in the tail, and one for *)
(* the next model becomes one for the present model when START is taken.   *)
LEMMA StopsTail ==
  ASSUME NEW q \in Seq(AgentEvent), q # <<>>, Ordered(q)
  PROVE  /\ StopNext(Tail(q)) => StopNext(q)
         /\ Head(q).type = "START" /\ StopNow(Tail(q)) => StopNext(q)
         /\ Head(q).type # "START" /\ StopNow(Tail(q)) => StopNow(q)
         /\ Head(q).type \in {"STOP", "RELEASE"} => ~StopNow(Tail(q))
         /\ Head(q).type = "STOP" => StopNow(q)
<1> DEFINE r == Tail(q)
<1>0. /\ 1 \in DOMAIN q /\ Head(q) = q[1]
      /\ \A i \in DOMAIN q : i \in Nat /\ i >= 1
  BY TailFacts
<1>1. ASSUME NEW i \in DOMAIN r, NEW k \in DOMAIN r,
             r[i].type = "STOP", k < i, r[k].type = "START"
      PROVE  StopNext(q)
  <2>1. /\ i + 1 \in DOMAIN q /\ q[i + 1] = r[i] /\ i \in Nat
        /\ k + 1 \in DOMAIN q /\ q[k + 1] = r[k] /\ k \in Nat
    BY TailFacts
  <2> QED  BY <1>1, <2>1 DEF StopNext
<1>2. ASSUME NEW i \in DOMAIN r, r[i].type = "STOP",
             \A k \in DOMAIN r : k < i => r[k].type # "START"
      PROVE  /\ Head(q).type = "START" => StopNext(q)
             /\ Head(q).type # "START" => StopNow(q)
             /\ Head(q).type \notin {"STOP", "RELEASE"}
  <2>1. i + 1 \in DOMAIN q /\ q[i + 1] = r[i] /\ i \in Nat /\ 1 < i + 1
    BY TailFacts
  <2>2. ASSUME NEW k \in DOMAIN q, 1 < k, k < i + 1  PROVE q[k].type # "START"
    <3>1. k - 1 \in DOMAIN r /\ r[k - 1] = q[k] /\ k \in Nat
      BY <2>2, TailFacts
    <3> QED  BY <3>1, <2>1, <2>2, <1>2
  <2>3. Head(q).type = "START" => StopNext(q)
    BY <1>0, <1>2, <2>1 DEF StopNext
  <2>4. Head(q).type # "START" => StopNow(q)
    <3> SUFFICES ASSUME q[1].type # "START"
                 PROVE  \A k \in DOMAIN q : k < i + 1 => q[k].type # "START"
      BY <1>0, <1>2, <2>1 DEF StopNow
    <3> QED  BY <1>0, <2>2
  <2>5. Head(q).type \notin {"STOP", "RELEASE"}
    BY <1>0, <1>2, <2>1, <2>2 DEF Ordered
  <2> QED  BY <2>3, <2>4, <2>5
<1>3. StopNext(r) => StopNext(q)
  BY <1>1 DEF StopNext
<1>4. StopNow(r) => /\ Head(q).type = "START" => StopNext(q)
                    /\ Head(q).type # "START" => StopNow(q)
                    /\ Head(q).type \notin {"STOP", "RELEASE"}
  BY <1>2 DEF StopNow
<1>5. Head(q).type = "STOP" => StopNow(q)
  BY <1>0 DEF StopNow
<1> QED  BY <1>3, <1>4, <1>5

-----------------------------------------------------------------------------
(* Appending an event.                                                     *)

(* Which stops an appended event adds.                                     *)
LEMMA StopsAppend ==
  ASSUME NEW q \in Seq(AgentEvent), NEW e \in AgentEvent
  PROVE  /\ StopNow(Append(q, e)) =>
               StopNow(q) \/ (e.type = "STOP" /\ ~Holds(q, "START"))
         /\ StopNext(Append(q, e)) =>
               StopNext(q) \/ (e.type = "STOP" /\ Holds(q, "START"))
<1> DEFINE r == Append(q, e)
<1>1. ASSUME NEW i \in DOMAIN r, r[i].type = "STOP",
             \A k \in DOMAIN r : k < i => r[k].type # "START"
      PROVE  StopNow(q) \/ (e.type = "STOP" /\ ~Holds(q, "START"))
  <2>1. CASE i \in DOMAIN q
    BY <1>1, <2>1, AppendFacts DEF StopNow
  <2>2. CASE i = Len(q) + 1
    <3>1. \A k \in DOMAIN q : q[k].type # "START"
      BY <1>1, <2>2, AppendFacts
    <3> QED  BY <3>1, <1>1, <2>2, AppendFacts DEF Holds
  <2> QED  BY <2>1, <2>2, AppendFacts
<1>2. ASSUME NEW i \in DOMAIN r, NEW k \in DOMAIN r,
             r[i].type = "STOP", k < i, r[k].type = "START"
      PROVE  StopNext(q) \/ (e.type = "STOP" /\ Holds(q, "START"))
  <2>1. CASE i \in DOMAIN q
    <3>1. k \in DOMAIN q
      BY <2>1, <1>2, AppendFacts
    <3> QED  BY <1>2, <2>1, <3>1, AppendFacts DEF StopNext
  <2>2. CASE i = Len(q) + 1
    <3>1. k \in DOMAIN q
      BY <2>2, <1>2, AppendFacts
    <3> QED  BY <3>1, <1>2, <2>2, AppendFacts DEF Holds
  <2> QED  BY <2>1, <2>2, AppendFacts
<1> QED  BY <1>1, <1>2 DEF StopNow, StopNext

(* When appending an event keeps the queue in order.                       *)
LEMMA OrderedAppend ==
  ASSUME NEW q \in Seq(AgentEvent), NEW e \in AgentEvent, Ordered(q),
         e.type # "EXITED" => ~Holds(q, "CLOSE"),
         e.type \in {"EXITED", "RELEASE", "START"} => ~Holds(q, "START"),
         e.type \in {"EXITED", "RELEASE"} => ~Holds(q, "RELEASE"),
         e.type = "EXITED" => ~Holds(q, "EXITED"),
         e.type = "STOP" =>
           IF Holds(q, "START") THEN ~StopNext(q)
                                ELSE ~StopNow(q) /\ ~Holds(q, "RELEASE")
  PROVE  Ordered(Append(q, e))
<1> DEFINE r == Append(q, e)
<1> SUFFICES ASSUME NEW i \in DOMAIN r, NEW j \in DOMAIN r, i < j
             PROVE  /\ r[j].type = "EXITED" => r[i].type \in {"STOP", "CLOSE"}
                    /\ r[j].type = "RELEASE" => r[i].type \in {"STOP", "EXITED"}
                    /\ r[j].type = "START" => r[i].type \in {"STOP", "EXITED", "RELEASE"}
                    /\ r[j].type = "STOP" /\ r[i].type \in {"STOP", "RELEASE"} =>
                         \E k \in DOMAIN r : i < k /\ k < j /\ r[k].type = "START"
                    /\ r[i].type = "CLOSE" => r[j].type = "EXITED"
  BY DEF Ordered
<1>1. i \in DOMAIN q /\ r[i] = q[i] /\ i \in Nat /\ i <= Len(q) /\ Len(q) \in Nat
  BY AppendFacts
<1>2. q[i].type \in {"START", "STOP", "EXITED", "RELEASE", "CLOSE"}
  <2>1. q[i] \in AgentEvent
    BY <1>1
  <2> QED  BY <2>1 DEF AgentEvent
<1>3. q[i].type = "CLOSE" => e.type = "EXITED"
  BY <1>1 DEF Holds
<1>4. CASE j \in DOMAIN q
  <2>1. r[j] = q[j]
    BY <1>4, AppendFacts
  <2>2. ASSUME q[j].type = "STOP", q[i].type \in {"STOP", "RELEASE"}
        PROVE  \E k \in DOMAIN r : i < k /\ k < j /\ r[k].type = "START"
    <3>1. PICK k \in DOMAIN q : i < k /\ k < j /\ q[k].type = "START"
      BY <1>1, <1>4, <2>2 DEF Ordered
    <3> QED  BY <3>1, AppendFacts
  <2> QED  BY <1>1, <1>3, <1>4, <2>1, <2>2 DEF Ordered
<1>5. CASE j = Len(q) + 1
  <2>1. r[j] = e
    BY <1>5, AppendFacts
  <2>2. ASSUME e.type = "STOP", q[i].type \in {"STOP", "RELEASE"}
        PROVE  \E k \in DOMAIN r : i < k /\ k < j /\ r[k].type = "START"
    <3>1. Holds(q, "START")
      <4> SUFFICES ASSUME ~Holds(q, "START") PROVE FALSE
        OBVIOUS
      <4>1. q[i].type = "STOP"
        BY <1>1, <2>2 DEF Holds
      <4> QED  BY <1>1, <2>2, <4>1 DEF Holds, StopNow
    <3>2. PICK k \in DOMAIN q : q[k].type = "START"
      BY <3>1 DEF Holds
    <3>3. k \in Nat /\ k <= Len(q) /\ k \in DOMAIN r /\ r[k] = q[k]
      BY <3>2, AppendFacts
    <3>4. i < k
      <4>1. k # i
        BY <2>2, <3>2
      <4>2. q[i].type = "STOP" => ~(k < i)
        BY <3>1, <3>2, <2>2, <1>1 DEF StopNext
      <4>3. q[i].type = "RELEASE" => ~(k < i)
        BY <3>2, <1>1 DEF Ordered
      <4> QED  BY <4>1, <4>2, <4>3, <2>2, <1>1, <3>3
    <3> QED  BY <3>2, <3>3, <3>4, <1>5, <1>1
  <2> QED  BY <1>1, <1>2, <1>3, <2>1, <2>2 DEF Holds
<1> QED  BY <1>4, <1>5, AppendFacts

-----------------------------------------------------------------------------
(* The steps that concern one slot keep its part of the invariant.         *)

SlotType(q, st, pr, pc, cl, sm) ==
  /\ q \in Seq(AgentEvent)
  /\ st \in ModelState
  /\ pr \in ProcState
  /\ pc \in {"loop", "joining", "closed"}
  /\ cl \in BOOLEAN
  /\ sm \in MaybeModel

(* A START for a slot with no model.                                       *)
LEMMA PostStart ==
  ASSUME NEW q, NEW st, NEW pr, NEW pc, NEW cl, NEW pend \in BOOLEAN,
         NEW m \in Models,
         SlotType(q, st, pr, pc, cl, NoModel),
         SlotInv(q, st, pr, pc, cl, NoModel, pend),
         ~Holds(q, "CLOSE")
  PROVE  SlotInv(Append(q, Start(m)), st, pr, pc, cl, m, FALSE)
<1> DEFINE e == Start(m)
           r == Append(q, e)
<1>1. e \in AgentEvent /\ e.type = "START" /\ e.model = m /\ q \in Seq(AgentEvent)
  BY DEF Start, AgentEvent, SlotType
<1>2. ~Holds(q, "START")
  <2> SUFFICES ASSUME NEW i \in DOMAIN q, q[i].type = "START" PROVE FALSE
    BY DEF Holds
  <2>1. q[i] \in AgentEvent
    BY <1>1
  <2>2. q[i].model \in Models
    BY <2>1 DEF AgentEvent
  <2> QED  BY <2>2, ModelAssumption DEF SlotInv, ClientView
<1>3. \A t : Holds(r, t) <=> Holds(q, t) \/ t = "START"
  BY <1>1, HoldsAppend
<1>4. Ordered(r)
  BY <1>1, <1>2, OrderedAppend DEF SlotInv, QueueView
<1>5. StopNow(r) => StopNow(q)
  BY <1>1, StopsAppend
<1>6. ~StopNext(r)
  <2>1. StopNext(r) => StopNext(q)
    BY <1>1, StopsAppend
  <2> QED  BY <2>1, <1>2 DEF StopNext, Holds
<1>7. \A i \in DOMAIN r : r[i].type = "START" => r[i].model = m
  BY <1>1, <1>2, AppendFacts DEF Holds
<1>8. AgentView(st, pr, pc, cl)
  BY DEF SlotInv
<1>9. QueueView(r, st, pr)
  BY <1>2, <1>3, <1>4, <1>5 DEF SlotInv, QueueView, ClientView, AgentView
<1>10. ClientView(r, st, m, FALSE)
  BY <1>3, <1>6, <1>7 DEF ClientView
<1> QED  BY <1>8, <1>9, <1>10 DEF SlotInv

(* A STOP for a slot whose model is not pending preemption.                *)
LEMMA PostStop ==
  ASSUME NEW q, NEW st, NEW pr, NEW pc, NEW cl, NEW sm \in Models,
         SlotType(q, st, pr, pc, cl, sm),
         SlotInv(q, st, pr, pc, cl, sm, FALSE),
         ~Holds(q, "CLOSE")
  PROVE  SlotInv(Append(q, Command("STOP")), st, pr, pc, cl, sm, TRUE)
<1> DEFINE e == Command("STOP")
           r == Append(q, e)
<1>1. e \in AgentEvent /\ e.type = "STOP" /\ q \in Seq(AgentEvent)
  BY DEF Command, AgentEvent, SlotType
<1>2. sm # NoModel
  BY ModelAssumption
<1>3. \A t : Holds(r, t) <=> Holds(q, t) \/ t = "STOP"
  BY <1>1, HoldsAppend
<1>4. IF Holds(q, "START") THEN ~StopNext(q)
                           ELSE ~StopNow(q) /\ ~st.stopRequested
  BY <1>2 DEF SlotInv, ClientView
<1>5. ~Holds(q, "START") => ~Holds(q, "RELEASE") /\ sm = st.model
  BY <1>2 DEF SlotInv, ClientView
<1>6. Ordered(r)
  BY <1>1, <1>4, <1>5, OrderedAppend DEF SlotInv, QueueView
<1>7. StopNow(r) => StopNow(q) \/ ~Holds(q, "START")
  BY <1>1, StopsAppend
<1>8. StopNow(r) => st # NoState /\ ~st.stopRequested
  <2>1. ~Holds(q, "START") => st # NoState /\ ~st.stopRequested
    BY <1>2, <1>4, <1>5 DEF SlotInv, AgentView
  <2> QED  BY <1>7, <2>1 DEF SlotInv, QueueView
<1>9. \A i \in DOMAIN r : r[i].type = "START" => r[i].model = sm
  <2> SUFFICES ASSUME NEW i \in DOMAIN r, r[i].type = "START"
               PROVE  r[i].model = sm
    OBVIOUS
  <2>1. i \in DOMAIN q /\ r[i] = q[i]
    BY <1>1, AppendFacts
  <2> QED  BY <2>1 DEF SlotInv, ClientView
<1>10. AgentView(st, pr, pc, cl)
  BY DEF SlotInv
<1>11. QueueView(r, st, pr)
  BY <1>3, <1>6, <1>8 DEF SlotInv, QueueView
<1>12. ClientView(r, st, sm, TRUE)
  BY <1>3, <1>9 DEF SlotInv, ClientView
<1> QED  BY <1>10, <1>11, <1>12 DEF SlotInv

(* The RELEASE of a slot whose model has finished.                         *)
LEMMA PostRelease ==
  ASSUME NEW q, NEW st, NEW pr, NEW pc, NEW cl, NEW sm, NEW pend \in BOOLEAN,
         SlotType(q, st, pr, pc, cl, sm),
         SlotInv(q, st, pr, pc, cl, sm, pend),
         st # NoState, st.exited,
         ~Holds(q, "RELEASE"), ~Holds(q, "CLOSE")
  PROVE  SlotInv(Append(q, Command("RELEASE")), st, pr, pc, cl, NoModel, FALSE)
<1> DEFINE e == Command("RELEASE")
           r == Append(q, e)
<1>1. e \in AgentEvent /\ e.type = "RELEASE" /\ q \in Seq(AgentEvent)
  BY DEF Command, AgentEvent, SlotType
<1>2. ~Holds(q, "START")
  BY DEF SlotInv, QueueView
<1>3. \A t : Holds(r, t) <=> Holds(q, t) \/ t = "RELEASE"
  BY <1>1, HoldsAppend
<1>4. Ordered(r)
  BY <1>1, <1>2, OrderedAppend DEF SlotInv, QueueView
<1>5. StopNow(r) => StopNow(q)
  BY <1>1, StopsAppend
<1>6. AgentView(st, pr, pc, cl)
  BY DEF SlotInv
<1>7. QueueView(r, st, pr)
  BY <1>2, <1>3, <1>4, <1>5 DEF SlotInv, QueueView
<1>8. \A i \in DOMAIN r : r[i].type # "START"
  BY <1>2, <1>3 DEF Holds
<1>9. ClientView(r, st, NoModel, FALSE)
  BY <1>2, <1>3, <1>8 DEF ClientView
<1> QED  BY <1>6, <1>7, <1>9 DEF SlotInv

(* CLOSE, whatever the slot is doing.                                      *)
LEMMA PostClose ==
  ASSUME NEW q, NEW st, NEW pr, NEW pc, NEW cl, NEW sm, NEW pend \in BOOLEAN,
         SlotType(q, st, pr, pc, cl, sm),
         SlotInv(q, st, pr, pc, cl, sm, pend),
         ~Holds(q, "CLOSE")
  PROVE  SlotInv(Append(q, Command("CLOSE")), st, pr, pc, cl, sm, pend)
<1> DEFINE e == Command("CLOSE")
           r == Append(q, e)
<1>1. e \in AgentEvent /\ e.type = "CLOSE" /\ q \in Seq(AgentEvent)
  BY DEF Command, AgentEvent, SlotType
<1>2. \A t : Holds(r, t) <=> Holds(q, t) \/ t = "CLOSE"
  BY <1>1, HoldsAppend
<1>3. Ordered(r)
  BY <1>1, OrderedAppend DEF SlotInv, QueueView
<1>4. StopNow(r) => StopNow(q)
  BY <1>1, StopsAppend
<1>5. \A i \in DOMAIN r : r[i].type = "START" => r[i].model = sm
  <2> SUFFICES ASSUME NEW i \in DOMAIN r, r[i].type = "START"
               PROVE  r[i].model = sm
    OBVIOUS
  <2>1. i \in DOMAIN q /\ r[i] = q[i]
    BY <1>1, AppendFacts
  <2> QED  BY <2>1 DEF SlotInv, ClientView
<1>6. StopNext(r) => StopNext(q)
  BY <1>1, StopsAppend
<1>7. QueueView(r, st, pr)
  BY <1>2, <1>3, <1>4 DEF SlotInv, QueueView
<1>8. ClientView(r, st, sm, pend)
  BY <1>2, <1>4, <1>5, <1>6 DEF SlotInv, ClientView
<1> QED  BY <1>7, <1>8 DEF SlotInv

(* The monitor thread's notice.                                            *)
LEMMA PostExited ==
  ASSUME NEW q, NEW st, NEW pc, NEW cl, NEW sm, NEW pend \in BOOLEAN,
         SlotType(q, st, "exited", pc, cl, sm),
         SlotInv(q, st, "exited", pc, cl, sm, pend)
  PROVE  SlotInv(Append(q, Command("EXITED")), st, "reaped", pc, cl, sm, pend)
<1> DEFINE e == Command("EXITED")
           r == Append(q, e)
<1>1. e \in AgentEvent /\ e.type = "EXITED" /\ q \in Seq(AgentEvent)
  BY DEF Command, AgentEvent, SlotType
<1>2. st # NoState /\ ~st.exited
  BY DEF SlotInv, AgentView
<1>3. ~Holds(q, "EXITED") /\ ~Holds(q, "RELEASE") /\ ~Holds(q, "START")
  BY <1>2 DEF SlotInv, QueueView
<1>4. \A t : Holds(r, t) <=> Holds(q, t) \/ t = "EXITED"
  BY <1>1, HoldsAppend
<1>5. Ordered(r)
  BY <1>1, <1>3, OrderedAppend DEF SlotInv, QueueView
<1>6. StopNow(r) => StopNow(q)
  BY <1>1, StopsAppend
<1>7. AgentView(st, "reaped", pc, cl)
  BY <1>2 DEF SlotInv, AgentView
<1>8. QueueView(r, st, "reaped")
  BY <1>3, <1>4, <1>5, <1>6 DEF SlotInv, QueueView
<1>9. \A i \in DOMAIN r : r[i].type # "START"
  BY <1>3, <1>4 DEF Holds
<1>10. ClientView(r, st, sm, pend)
  BY <1>3, <1>4, <1>6, <1>9 DEF SlotInv, ClientView
<1> QED  BY <1>7, <1>8, <1>10 DEF SlotInv

-----------------------------------------------------------------------------
(* The agent takes the head of its queue.                                  *)

(* What any taking leaves true.                                            *)
LEMMA TakeAny ==
  ASSUME NEW q \in Seq(AgentEvent), q # <<>>, Ordered(q), NEW sm,
         \A i \in DOMAIN q : q[i].type = "START" => q[i].model = sm
  PROVE  /\ Tail(q) \in Seq(AgentEvent)
         /\ Ordered(Tail(q))
         /\ \A t : Holds(q, t) <=> Head(q).type = t \/ Holds(Tail(q), t)
         /\ \A i \in DOMAIN Tail(q) : Tail(q)[i].type = "START" => Tail(q)[i].model = sm
         /\ Head(q).type = "START" => Head(q).model = sm
         /\ Head(q).type \in {"EXITED", "RELEASE", "START"} => ~Holds(Tail(q), Head(q).type)
         /\ Head(q).type \in {"RELEASE", "START"} => ~Holds(Tail(q), "EXITED")
         /\ Head(q).type = "START" => ~Holds(Tail(q), "RELEASE")
<1> DEFINE r == Tail(q)
<1>1. ASSUME NEW i \in DOMAIN r
      PROVE  /\ r[i].type = "START" => r[i].model = sm
             /\ r[i].type = "EXITED" => Head(q).type \in {"STOP", "CLOSE"}
             /\ r[i].type = "RELEASE" => Head(q).type \in {"STOP", "EXITED"}
             /\ r[i].type = "START" => Head(q).type \in {"STOP", "EXITED", "RELEASE"}
  <2>1. i + 1 \in DOMAIN q /\ r[i] = q[i + 1] /\ 1 \in DOMAIN q /\ Head(q) = q[1]
        /\ i \in Nat /\ i > 0
    BY TailFacts
  <2> QED  BY <2>1 DEF Ordered
<1>3. r \in Seq(AgentEvent) /\ Ordered(r)
  BY TailFacts, OrderedTail
<1>4. \A t : Holds(q, t) <=> Head(q).type = t \/ Holds(r, t)
  BY HoldsTail
<1>5. Head(q).type = "START" => Head(q).model = sm
  BY TailFacts
<1>6. /\ \A i \in DOMAIN r : r[i].type = "START" => r[i].model = sm
      /\ Head(q).type \in {"EXITED", "RELEASE", "START"} => ~Holds(r, Head(q).type)
      /\ Head(q).type \in {"RELEASE", "START"} => ~Holds(r, "EXITED")
      /\ Head(q).type = "START" => ~Holds(r, "RELEASE")
  BY <1>1 DEF Holds
<1> QED  BY <1>3, <1>4, <1>5, <1>6

(* Behind CLOSE there is at most the monitor thread's notice.              *)
LEMMA BehindClose ==
  ASSUME NEW q \in Seq(AgentEvent), q # <<>>, Ordered(q), Head(q).type = "CLOSE"
  PROVE  \A i \in DOMAIN Tail(q) : Tail(q)[i].type = "EXITED"
<1> DEFINE r == Tail(q)
<1> SUFFICES ASSUME NEW i \in DOMAIN r PROVE r[i].type = "EXITED"
  OBVIOUS
<1>1. /\ i + 1 \in DOMAIN q /\ r[i] = q[i + 1] /\ i \in Nat /\ i > 0
      /\ 1 \in DOMAIN q /\ Head(q) = q[1]
  BY TailFacts
<1>2. 1 < i + 1 /\ q[1].type = "CLOSE"
  BY <1>1
<1> QED  BY <1>1, <1>2 DEF Ordered

(* What the agent's loop asserts of the event it takes.                    *)
LEMMA HeadAsserted ==
  ASSUME NEW q \in Seq(AgentEvent), q # <<>>, NEW st, NEW pr, NEW pc, NEW cl,
         AgentView(st, pr, pc, cl), QueueView(q, st, pr)
  PROVE  /\ Head(q).type = "START" => st = NoState
         /\ Head(q).type = "STOP" => st.model # NoModel /\ ~st.stopRequested
         /\ Head(q).type = "EXITED" => st.model # NoModel
         /\ Head(q).type = "RELEASE" => st.stopPending /\ st.exited
<1>1. 1 \in DOMAIN q /\ Head(q) = q[1] /\ \A i \in DOMAIN q : i # 1 => 1 < i
  OBVIOUS
<1>2. \A y : q[1].type = y => Holds(q, y)
  BY <1>1 DEF Holds
<1>3. Head(q).type = "START" => st = NoState
  <2> SUFFICES ASSUME q[1].type = "START", Holds(q, "RELEASE") PROVE FALSE
    BY <1>1, <1>2 DEF QueueView
  <2>1. PICK j \in DOMAIN q : q[j].type = "RELEASE"
    BY DEF Holds
  <2>2. 1 < j
    BY <1>1, <2>1
  <2> QED  BY <1>1, <2>1, <2>2 DEF QueueView, Ordered
<1>4. Head(q).type = "STOP" => st.model # NoModel /\ ~st.stopRequested
  <2> SUFFICES ASSUME q[1].type = "STOP" PROVE StopNow(q)
    BY <1>1 DEF QueueView, AgentView
  <2>1. \A k \in DOMAIN q : ~(k < 1)
    OBVIOUS
  <2> QED  BY <1>1, <2>1 DEF StopNow
<1>5. Head(q).type = "EXITED" => st.model # NoModel
  BY <1>1, <1>2 DEF QueueView, AgentView
<1>6. Head(q).type = "RELEASE" => st.stopPending /\ st.exited
  BY <1>1, <1>2 DEF QueueView, AgentView
<1> QED  BY <1>3, <1>4, <1>5, <1>6

(* START: a fresh state, and a process.                                    *)
LEMMA TakeStart ==
  ASSUME NEW q, NEW st, NEW pr, NEW cl, NEW sm, NEW pend \in BOOLEAN,
         SlotType(q, st, pr, "loop", cl, sm),
         SlotInv(q, st, pr, "loop", cl, sm, pend),
         q # <<>>, Head(q).type = "START",
         NEW new \in ModelState, new.model = Head(q).model,
         ~new.stopRequested, ~new.stopPending, ~new.exited
  PROVE  /\ st = NoState
         /\ SlotInv(Tail(q), new, "running", "loop", cl, sm, pend)
<1> DEFINE r == Tail(q)
<1>0. q \in Seq(AgentEvent) /\ Ordered(q)
      /\ \A i \in DOMAIN q : q[i].type = "START" => q[i].model = sm
  BY DEF SlotType, SlotInv, QueueView, ClientView
<1>1. /\ Ordered(r)
      /\ Head(q).model = sm
      /\ ~Holds(r, "START") /\ ~Holds(r, "EXITED") /\ ~Holds(r, "RELEASE")
      /\ ~Holds(q, "RELEASE") /\ Holds(q, "START")
      /\ \A i \in DOMAIN r : r[i].type = "START" => r[i].model = sm
  BY <1>0, TakeAny
<1>2. sm \in Models /\ sm # NoModel
  <2>1. Head(q) \in AgentEvent
    BY <1>0, TailFacts
  <2> QED  BY <2>1, <1>1, ModelAssumption DEF AgentEvent
<1>3. StopNow(r) => StopNext(q)
  BY <1>0, StopsTail
<1>4. /\ new.model = sm /\ ~new.stopRequested /\ ~new.stopPending /\ ~new.exited
      /\ new # NoState
  BY <1>1, <1>2 DEF NoState
<1>5. st = NoState
  BY <1>1 DEF SlotInv, QueueView
<1>6. AgentView(new, "running", "loop", cl)
  BY <1>2, <1>4 DEF SlotInv, AgentView
<1>7. QueueView(r, new, "running")
  BY <1>1, <1>4 DEF QueueView
<1>8. ClientView(r, new, sm, pend)
  BY <1>1, <1>2, <1>3, <1>4 DEF SlotInv, ClientView
<1> QED  BY <1>5, <1>6, <1>7, <1>8 DEF SlotInv

(* STOP: it meets a model that has not been asked to stop yet.             *)
LEMMA TakeStop ==
  ASSUME NEW q, NEW st, NEW pr, NEW cl, NEW sm, NEW pend \in BOOLEAN,
         SlotType(q, st, pr, "loop", cl, sm),
         SlotInv(q, st, pr, "loop", cl, sm, pend),
         q # <<>>, Head(q).type = "STOP",
         NEW new \in ModelState, NEW pc,
         new.model = st.model, new.stopRequested, new.stopPending,
         new.exited = st.exited,
         pc = IF st.stopPending THEN "loop" ELSE "joining"
  PROVE  /\ st.model # NoModel
         /\ ~st.stopRequested
         /\ SlotInv(Tail(q), new, pr, pc, cl, sm, pend)
<1> DEFINE r == Tail(q)
<1>0. q \in Seq(AgentEvent) /\ Ordered(q) /\ st \in ModelState
      /\ \A i \in DOMAIN q : q[i].type = "START" => q[i].model = sm
  BY DEF SlotType, SlotInv, QueueView, ClientView
<1>1. /\ Ordered(r)
      /\ \A t : Holds(q, t) <=> t = "STOP" \/ Holds(r, t)
      /\ \A i \in DOMAIN r : r[i].type = "START" => r[i].model = sm
  BY <1>0, TakeAny
<1>2. StopNow(q) /\ ~StopNow(r) /\ (StopNext(r) => StopNext(q))
  BY <1>0, StopsTail
<1>3. st # NoState /\ ~st.stopRequested /\ st.model # NoModel
  BY <1>2 DEF SlotInv, QueueView, AgentView
<1>4. new # NoState
  BY <1>3 DEF NoState
<1>5. AgentView(new, pr, pc, cl)
  BY <1>0, <1>3, <1>4 DEF SlotInv, AgentView, ModelState
<1>6. QueueView(r, new, pr)
  BY <1>1, <1>2, <1>3, <1>4 DEF SlotInv, QueueView
<1>7. ClientView(r, new, sm, pend)
  BY <1>1, <1>2 DEF SlotInv, ClientView
<1> QED  BY <1>3, <1>5, <1>6, <1>7 DEF SlotInv

(* EXITED: the end of the model's process, the stop of which may be        *)
(* under way.                                                              *)
LEMMA TakeExited ==
  ASSUME NEW q, NEW st, NEW pr, NEW cl, NEW sm, NEW pend \in BOOLEAN,
         SlotType(q, st, pr, "loop", cl, sm),
         SlotInv(q, st, pr, "loop", cl, sm, pend),
         q # <<>>, Head(q).type = "EXITED",
         NEW new \in ModelState, NEW pc,
         new.model = st.model, new.stopRequested = st.stopRequested,
         new.stopPending, new.exited = st.exited,
         pc = IF st.stopPending THEN "loop" ELSE "joining"
  PROVE  /\ st.model # NoModel
         /\ SlotInv(Tail(q), new, pr, pc, cl, sm, pend)
<1> DEFINE r == Tail(q)
<1>0. q \in Seq(AgentEvent) /\ Ordered(q) /\ st \in ModelState
      /\ \A i \in DOMAIN q : q[i].type = "START" => q[i].model = sm
  BY DEF SlotType, SlotInv, QueueView, ClientView
<1>1. /\ Ordered(r)
      /\ \A t : Holds(q, t) <=> t = "EXITED" \/ Holds(r, t)
      /\ \A i \in DOMAIN r : r[i].type = "START" => r[i].model = sm
  BY <1>0, TakeAny
<1>2. (StopNow(r) => StopNow(q)) /\ (StopNext(r) => StopNext(q))
  BY <1>0, StopsTail
<1>3. pr = "reaped" /\ st # NoState /\ st.model # NoModel
  BY <1>1 DEF SlotInv, QueueView, AgentView
<1>4. new # NoState
  BY <1>3 DEF NoState
<1>5. AgentView(new, pr, pc, cl)
  BY <1>0, <1>3, <1>4 DEF SlotInv, AgentView, ModelState
<1>6. QueueView(r, new, pr)
  BY <1>1, <1>2, <1>3, <1>4 DEF SlotInv, QueueView
<1>7. ClientView(r, new, sm, pend)
  BY <1>1, <1>2 DEF SlotInv, ClientView
<1> QED  BY <1>3, <1>5, <1>6, <1>7 DEF SlotInv

(* RELEASE: back to the state without a model.                             *)
LEMMA TakeRelease ==
  ASSUME NEW q, NEW st, NEW pr, NEW cl, NEW sm, NEW pend \in BOOLEAN,
         SlotType(q, st, pr, "loop", cl, sm),
         SlotInv(q, st, pr, "loop", cl, sm, pend),
         q # <<>>, Head(q).type = "RELEASE"
  PROVE  /\ st.stopPending /\ st.exited
         /\ SlotInv(Tail(q), NoState, "none", "loop", cl, sm, pend)
<1> DEFINE r == Tail(q)
<1>0. q \in Seq(AgentEvent) /\ Ordered(q) /\ st \in ModelState
      /\ \A i \in DOMAIN q : q[i].type = "START" => q[i].model = sm
  BY DEF SlotType, SlotInv, QueueView, ClientView
<1>1. /\ Ordered(r)
      /\ \A t : Holds(q, t) <=> t = "RELEASE" \/ Holds(r, t)
      /\ ~Holds(r, "RELEASE") /\ ~Holds(r, "EXITED")
      /\ \A i \in DOMAIN r : r[i].type = "START" => r[i].model = sm
  BY <1>0, TakeAny
<1>2. ~StopNow(r) /\ (StopNext(r) => StopNext(q))
  BY <1>0, StopsTail
<1>3. st.exited /\ st.stopPending
  BY <1>1 DEF SlotInv, QueueView, AgentView
<1>4. AgentView(NoState, "none", "loop", cl)
  BY DEF SlotInv, AgentView, NoState
<1>5. QueueView(r, NoState, "none")
  BY <1>1, <1>2 DEF QueueView
<1>6. NoState.model = NoModel /\ ~NoState.stopRequested
  BY DEF NoState
<1>7. ClientView(r, NoState, sm, pend)
  BY <1>1, <1>2, <1>6 DEF SlotInv, ClientView
<1> QED  BY <1>3, <1>4, <1>5, <1>7 DEF SlotInv

(* CLOSE: the agent's thread ends, at once or after it has stopped the     *)
(* process.                                                                *)
LEMMA TakeClose ==
  ASSUME NEW q, NEW st, NEW pr, NEW cl, NEW sm, NEW pend \in BOOLEAN,
         SlotType(q, st, pr, "loop", cl, sm),
         SlotInv(q, st, pr, "loop", cl, sm, pend),
         q # <<>>, Head(q).type = "CLOSE",
         NEW new \in ModelState, NEW pc, NEW ncl,
         IF st.model # NoModel /\ ~st.stopPending
         THEN /\ pc = "joining" /\ ncl
              /\ new.model = st.model /\ new.exited = st.exited
              /\ new.stopRequested = st.stopRequested /\ new.stopPending
         ELSE pc = "closed" /\ ~ncl /\ new = st
  PROVE  SlotInv(Tail(q), new, pr, pc, ncl, sm, pend)
<1> DEFINE r == Tail(q)
<1>0. q \in Seq(AgentEvent) /\ Ordered(q) /\ st \in ModelState
      /\ \A i \in DOMAIN q : q[i].type = "START" => q[i].model = sm
  BY DEF SlotType, SlotInv, QueueView, ClientView
<1>1. /\ Ordered(r)
      /\ \A t : Holds(q, t) <=> t = "CLOSE" \/ Holds(r, t)
      /\ \A i \in DOMAIN r : r[i].type = "START" => r[i].model = sm
  BY <1>0, TakeAny
<1>2. (StopNow(r) => StopNow(q)) /\ (StopNext(r) => StopNext(q))
  BY <1>0, StopsTail
<1>3. /\ AgentView(st, pr, "loop", cl) /\ QueueView(q, st, pr)
      /\ ClientView(q, st, sm, pend)
  BY DEF SlotInv
<1>4. AgentView(new, pr, pc, ncl)
  <2>1. CASE st.model # NoModel /\ ~st.stopPending
    <3>1. st # NoState /\ ~st.exited
      BY <1>0, <1>3, <2>1 DEF AgentView
    <3>2. new # NoState
      BY <2>1 DEF NoState
    <3> QED  BY <1>3, <2>1, <3>1, <3>2 DEF AgentView
  <2>2. CASE ~(st.model # NoModel /\ ~st.stopPending)
    BY <1>3, <2>2 DEF AgentView
  <2> QED  BY <2>1, <2>2
<1>5. new = st \/ (new # NoState /\ st # NoState)
  BY <1>3 DEF AgentView, NoState
<1>6. /\ new.exited = st.exited /\ new.stopRequested = st.stopRequested
      /\ new.model = st.model
  OBVIOUS
<1>7. QueueView(r, new, pr)
  BY <1>1, <1>2, <1>3, <1>5, <1>6 DEF QueueView
<1>8. ClientView(r, new, sm, pend)
  BY <1>1, <1>2, <1>3, <1>6 DEF ClientView
<1> QED  BY <1>4, <1>7, <1>8 DEF SlotInv

-----------------------------------------------------------------------------
(* What the process and its monitor do.                                    *)

(* The agent has seen the end of the process; under close() its thread     *)
(* ends.                                                                   *)
LEMMA Joined ==
  ASSUME NEW q, NEW st, NEW cl, NEW sm, NEW pend \in BOOLEAN,
         SlotType(q, st, "reaped", "joining", cl, sm),
         SlotInv(q, st, "reaped", "joining", cl, sm, pend),
         NEW new \in ModelState, NEW pc,
         new.model = st.model, new.stopRequested = st.stopRequested,
         new.stopPending = st.stopPending, new.exited,
         pc = IF cl THEN "closed" ELSE "loop"
  PROVE  SlotInv(q, new, "reaped", pc, cl, sm, pend)
<1>1. st \in ModelState /\ st.stopPending /\ ~st.exited /\ st # NoState /\ st.model # NoModel
  BY DEF SlotInv, AgentView, SlotType
<1>2. new # NoState
  BY <1>1 DEF NoState
<1>3. AgentView(new, "reaped", pc, cl)
  BY <1>1, <1>2 DEF SlotInv, AgentView
<1>4. QueueView(q, new, "reaped")
  BY <1>1, <1>2 DEF SlotInv, QueueView
<1>5. ClientView(q, new, sm, pend)
  BY DEF SlotInv, ClientView
<1> QED  BY <1>3, <1>4, <1>5 DEF SlotInv

(* The process ends.                                                       *)
LEMMA Ended ==
  ASSUME NEW q, NEW st, NEW pc, NEW cl, NEW sm, NEW pend \in BOOLEAN,
         SlotInv(q, st, "running", pc, cl, sm, pend)
  PROVE  SlotInv(q, st, "exited", pc, cl, sm, pend)
  BY DEF SlotInv, AgentView, QueueView, ClientView

-----------------------------------------------------------------------------
(* The updates of the agents' state, field by field.                       *)

(* What BeginStop makes of the state and the place of the agent.           *)
LEMMA BegunState ==
  ASSUME modelState \in [Slots -> ModelState],
         NEW s \in Slots, NEW b \in BOOLEAN, NEW c \in BOOLEAN, BeginStop(s, b, c)
  PROVE  /\ modelState' \in [Slots -> ModelState]
         /\ modelState'[s].model = modelState[s].model
         /\ modelState'[s].exited = modelState[s].exited
         /\ modelState'[s].stopRequested = b /\ modelState'[s].stopPending = TRUE
         /\ \A t \in Slots : t # s => modelState'[t] = modelState[t]
<1>1. /\ modelState'[s].model = modelState[s].model
      /\ modelState'[s].exited = modelState[s].exited
      /\ modelState'[s].stopRequested = b /\ modelState'[s].stopPending = TRUE
      /\ \A t \in Slots : t # s => modelState'[t] = modelState[t]
  BY DEF BeginStop, ModelState
<1>2. modelState'[s] = [modelState[s] EXCEPT !.stopRequested = b, !.stopPending = TRUE]
  BY DEF BeginStop
<1>3. modelState'[s] \in ModelState
  BY <1>2 DEF ModelState
<1>4. modelState' = [t \in Slots |-> modelState'[t]]
  BY DEF BeginStop
<1>5. modelState' \in [Slots -> ModelState]
  BY <1>1, <1>3, <1>4
<1> QED  BY <1>1, <1>5

(* A stop request that only is recorded.                                   *)
LEMMA RequestedState ==
  ASSUME modelState \in [Slots -> ModelState], NEW s \in Slots,
         modelState' = [modelState EXCEPT ![s].stopRequested = TRUE]
  PROVE  /\ modelState' \in [Slots -> ModelState]
         /\ modelState'[s].model = modelState[s].model /\ modelState'[s].exited = modelState[s].exited
         /\ modelState'[s].stopRequested = TRUE /\ modelState'[s].stopPending = modelState[s].stopPending
         /\ \A t \in Slots : t # s => modelState'[t] = modelState[t]
<1>1. /\ modelState'[s].model = modelState[s].model /\ modelState'[s].exited = modelState[s].exited
      /\ modelState'[s].stopRequested = TRUE /\ modelState'[s].stopPending = modelState[s].stopPending
      /\ \A t \in Slots : t # s => modelState'[t] = modelState[t]
  BY DEF ModelState
<1>2. modelState'[s] = [modelState[s] EXCEPT !.stopRequested = TRUE]
  OBVIOUS
<1>3. modelState'[s] \in ModelState
  BY <1>2 DEF ModelState
<1>4. modelState' = [t \in Slots |-> modelState'[t]]
  OBVIOUS
<1>5. modelState' \in [Slots -> ModelState]
  BY <1>1, <1>3, <1>4
<1> QED  BY <1>1, <1>5

(* The exit status is known.                                               *)
LEMMA ExitedState ==
  ASSUME modelState \in [Slots -> ModelState], NEW s \in Slots,
         modelState' = [modelState EXCEPT ![s].exited = TRUE]
  PROVE  /\ modelState' \in [Slots -> ModelState]
         /\ modelState'[s].model = modelState[s].model /\ modelState'[s].exited = TRUE
         /\ modelState'[s].stopRequested = modelState[s].stopRequested
         /\ modelState'[s].stopPending = modelState[s].stopPending
         /\ \A t \in Slots : t # s => modelState'[t] = modelState[t]
<1>1. /\ modelState'[s].model = modelState[s].model /\ modelState'[s].exited = TRUE
      /\ modelState'[s].stopRequested = modelState[s].stopRequested
      /\ modelState'[s].stopPending = modelState[s].stopPending
      /\ \A t \in Slots : t # s => modelState'[t] = modelState[t]
  BY DEF ModelState
<1>2. modelState'[s] = [modelState[s] EXCEPT !.exited = TRUE]
  OBVIOUS
<1>3. modelState'[s] \in ModelState
  BY <1>2 DEF ModelState
<1>4. modelState' = [t \in Slots |-> modelState'[t]]
  OBVIOUS
<1>5. modelState' \in [Slots -> ModelState]
  BY <1>1, <1>3, <1>4
<1> QED  BY <1>1, <1>5

(* Posting to a slot's queue keeps the queues queues.                      *)
LEMMA PostType ==
  ASSUME NEW q \in [Slots -> Seq(AgentEvent)], NEW s \in Slots, NEW e \in AgentEvent
  PROVE  /\ Post(q, s, e) \in [Slots -> Seq(AgentEvent)]
         /\ Post(q, s, e)[s] = Append(q[s], e)
         /\ \A t \in Slots : t # s => Post(q, s, e)[t] = q[t]
  BY DEF Post

(* What is posted to agents and to their client.                           *)
LEMMA AgentEventTypes ==
  /\ \A m \in Models : /\ Start(m) \in AgentEvent /\ Start(m).type = "START"
                       /\ Done(m) \in ClientEvent /\ Done(m).type = "Done"
                       /\ Done(m).model = m
  /\ \A c \in {"STOP", "EXITED", "RELEASE", "CLOSE"} : Command(c) \in AgentEvent
  BY DEF Start, Done, Command, AgentEvent, ClientEvent

-----------------------------------------------------------------------------
(* The steps of an agent, its monitor thread and its process.              *)

(* They concern one slot, and never what the client believes of it.        *)
LEMMA AgentFrame ==
  ASSUME AgentTypeOK, NEW s \in Slots,
         AgentStep(s) \/ MonitorExit(s) \/ ProcessEnds(s)
  PROVE  /\ slotModel' = slotModel
         /\ \A t \in Slots : t # s =>
              /\ agentQ'[t] = agentQ[t] /\ modelState'[t] = modelState[t]
              /\ proc'[t] = proc[t] /\ agentPC'[t] = agentPC[t]
              /\ closing'[t] = closing[t]
  BY DEF AgentTypeOK, AgentStep, AgentStart, AgentStop, AgentExited, AgentRelease,
         AgentClose, AgentJoined, MonitorExit, ProcessEnds, BeginStop, Take, Post

(* They keep the types; only a model's agent calls back.                   *)
LEMMA AgentTypes ==
  ASSUME AgentTypeOK, NEW s \in Slots,
         AgentStep(s) \/ MonitorExit(s) \/ ProcessEnds(s),
         AgentJoined(s) => modelState[s].model # NoModel
  PROVE  AgentTypeOK'
<1>0. /\ NoState \in ModelState
      /\ modelState \in [Slots -> ModelState] /\ modelState[s] \in ModelState
      /\ modelState[s].stopRequested \in BOOLEAN
  BY DEF NoState, ModelState, MaybeModel, AgentTypeOK
<1>1. ASSUME NEW t, Taking(s, t)
      PROVE  /\ [agentQ EXCEPT ![s] = Tail(@)] \in [Slots -> Seq(AgentEvent)]
             /\ Head(agentQ[s]) \in AgentEvent
  BY <1>1, TailFacts DEF Taking, AgentTypeOK
<1>2. CASE AgentStart(s)
  <2>1. Head(agentQ[s]).model \in Models
    BY <1>1, <1>2 DEF AgentStart, Taking, AgentEvent
  <2>2. [NoState EXCEPT !.model = Head(agentQ[s]).model] \in ModelState
    BY <2>1 DEF NoState, ModelState, MaybeModel
  <2> QED  BY <1>0, <1>1, <1>2, <2>2 DEF AgentStart, Take, AgentTypeOK, ProcState
<1>3. ASSUME NEW b \in BOOLEAN, NEW c \in BOOLEAN, BeginStop(s, b, c)
      PROVE  /\ modelState' \in [Slots -> ModelState]
             /\ stdinOpen' \in [Slots -> BOOLEAN]
             /\ closing' \in [Slots -> BOOLEAN]
             /\ agentPC' \in [Slots -> {"loop", "joining", "closed"}]
  <2>1. modelState' \in [Slots -> ModelState]
    BY <1>0, <1>3, BegunState
  <2> QED  BY <1>0, <1>3, <2>1 DEF BeginStop, AgentTypeOK
<1>4. CASE AgentStop(s)
  BY <1>0, <1>1, <1>3, <1>4, RequestedState DEF AgentStop, Take, AgentTypeOK
<1>5. CASE AgentExited(s)
  BY <1>0, <1>1, <1>3, <1>5 DEF AgentExited, Take, AgentTypeOK
<1>6. CASE AgentRelease(s)
  BY <1>0, <1>1, <1>6 DEF AgentRelease, Take, AgentTypeOK, ProcState
<1>7. CASE AgentClose(s)
  BY <1>0, <1>1, <1>3, <1>7 DEF AgentClose, Take, AgentTypeOK
<1>8. CASE AgentJoined(s)
  <2>1. modelState[s].model \in Models
    BY <1>0, <1>8 DEF ModelState, MaybeModel
  <2>2. modelState' \in [Slots -> ModelState]
    BY <1>0, <1>8, ExitedState DEF AgentJoined
  <2>3. eventQ' \in Seq(ClientEvent)
    <3>1. Done(modelState[s].model) \in ClientEvent /\ eventQ \in Seq(ClientEvent)
      BY <2>1, AgentEventTypes DEF AgentTypeOK
    <3>2. eventQ' = eventQ \/ eventQ' = Append(eventQ, Done(modelState[s].model))
      BY <1>8 DEF AgentJoined
    <3> QED  BY <3>1, <3>2
  <2>4. agentPC' \in [Slots -> {"loop", "joining", "closed"}]
    BY <1>8 DEF AgentJoined, AgentTypeOK
  <2> QED  BY <1>8, <2>2, <2>3, <2>4 DEF AgentJoined, AgentTypeOK
<1>9. CASE MonitorExit(s)
  BY <1>9, AgentEventTypes, PostType DEF MonitorExit, AgentTypeOK, ProcState
<1>10. CASE ProcessEnds(s)
  BY <1>10 DEF ProcessEnds, AgentTypeOK, ProcState
<1> QED
  BY <1>2, <1>4, <1>5, <1>6, <1>7, <1>8, <1>9, <1>10 DEF AgentStep

(* They keep the slot's part of the invariant, whatever the client does.   *)
LEMMA AgentSlot ==
  ASSUME AgentTypeOK, NEW s \in Slots, NEW pend \in BOOLEAN,
         SlotInv(agentQ[s], modelState[s], proc[s], agentPC[s], closing[s],
                 slotModel[s], pend),
         AgentStep(s) \/ MonitorExit(s) \/ ProcessEnds(s)
  PROVE  SlotInv(agentQ'[s], modelState'[s], proc'[s], agentPC'[s], closing'[s],
                 slotModel[s], pend)
<1> DEFINE q == agentQ[s]
           st == modelState[s]
           pr == proc[s]
           cl == closing[s]
           sm == slotModel[s]
<1>t. /\ modelState \in [Slots -> ModelState] /\ agentQ \in [Slots -> Seq(AgentEvent)]
      /\ agentPC \in [Slots -> {"loop", "joining", "closed"}]
      /\ proc \in [Slots -> ProcState] /\ closing \in [Slots -> BOOLEAN]
      /\ slotModel \in [Slots -> MaybeModel]
  BY DEF AgentTypeOK
<1>0. /\ SlotType(q, st, pr, agentPC[s], cl, sm)
      /\ SlotInv(q, st, pr, agentPC[s], cl, sm, pend)
      /\ agentPC[s] = "loop" => ~cl
  BY <1>t DEF SlotType, SlotInv, AgentView
<1>b. st \in ModelState /\ st.stopRequested \in BOOLEAN /\ st.stopPending \in BOOLEAN
  BY <1>t DEF ModelState
<1>1. CASE AgentStart(s)
  <2> DEFINE new == [NoState EXCEPT !.model = Head(q).model]
  <2>1. /\ agentPC[s] = "loop" /\ q # <<>> /\ Head(q).type = "START"
        /\ agentQ' = [agentQ EXCEPT ![s] = Tail(q)]
        /\ modelState' = [modelState EXCEPT ![s] = new]
        /\ proc' = [proc EXCEPT ![s] = "running"]
        /\ UNCHANGED <<slotModel, agentPC, closing>>
    BY <1>1 DEF AgentStart, Taking, Take
  <2>2. SlotInv(Tail(q), new, "running", "loop", cl, sm, pend)
    <3>0. new \in ModelState
      <4>1. Head(q) \in AgentEvent
        BY <1>t, <2>1, TailFacts
      <4>2. Head(q).model \in MaybeModel
        BY <4>1 DEF AgentEvent, MaybeModel
      <4> QED  BY <4>2 DEF NoState, ModelState
    <3>1. /\ new.model = Head(q).model
          /\ ~new.stopRequested /\ ~new.stopPending /\ ~new.exited
      BY DEF NoState
    <3>2. /\ SlotType(q, st, pr, "loop", cl, sm)
          /\ SlotInv(q, st, pr, "loop", cl, sm, pend)
          /\ q # <<>> /\ Head(q).type = "START"
      BY <1>0, <2>1
    <3> HIDE DEF new, q, st, pr, cl, sm
    <3> QED  BY <3>0, <3>1, <3>2, TakeStart
  <2> HIDE DEF new
  <2> QED  BY <1>t, <2>1, <2>2
<1>2. CASE AgentStop(s) \/ AgentExited(s)
  <2>1. /\ agentPC[s] = "loop" /\ q # <<>> /\ Head(q).type \in {"STOP", "EXITED"}
        /\ agentQ' = [agentQ EXCEPT ![s] = Tail(q)]
        /\ UNCHANGED <<slotModel, proc>>
    BY <1>2 DEF AgentStop, AgentExited, Taking, Take
  <2>2. /\ modelState' \in [Slots -> ModelState]
        /\ modelState'[s].model = st.model /\ modelState'[s].exited = st.exited
        /\ modelState'[s].stopPending
        /\ IF Head(q).type = "STOP" THEN modelState'[s].stopRequested
                                    ELSE modelState'[s].stopRequested = st.stopRequested
    <3>1. CASE AgentStop(s)
      <4>1. Head(q).type = "STOP"
        BY <3>1 DEF AgentStop, Taking
      <4>2. CASE BeginStop(s, TRUE, FALSE)
        BY <1>t, <1>b, <4>1, <4>2, BegunState
      <4>3. CASE st.stopPending /\ modelState' = [modelState EXCEPT ![s].stopRequested = TRUE]
        <5>1. /\ modelState' \in [Slots -> ModelState]
              /\ modelState'[s].model = st.model /\ modelState'[s].exited = st.exited
              /\ modelState'[s].stopRequested = TRUE
              /\ modelState'[s].stopPending = st.stopPending
          BY <1>t, <4>3, RequestedState
        <5> QED  BY <4>1, <4>3, <5>1
      <4> QED  BY <3>1, <4>2, <4>3 DEF AgentStop
    <3>2. CASE AgentExited(s)
      <4>1. Head(q).type = "EXITED"
        BY <3>2 DEF AgentExited, Taking
      <4>2. CASE BeginStop(s, st.stopRequested, FALSE)
        BY <1>t, <1>b, <4>1, <4>2, BegunState
      <4>3. CASE st.stopPending /\ modelState' = modelState
        BY <1>t, <4>1, <4>3
      <4> QED  BY <3>2, <4>2, <4>3 DEF AgentExited
    <3> QED  BY <1>2, <3>1, <3>2
  <2>3. /\ agentPC'[s] = IF st.stopPending THEN "loop" ELSE "joining"
        /\ closing'[s] = cl
    BY <1>t, <1>0, <1>2, <2>1 DEF AgentStop, AgentExited, BeginStop
  <2>4. modelState'[s] \in ModelState
    BY <2>2
  <2>5. SlotInv(Tail(q), modelState'[s], pr, agentPC'[s], cl, sm, pend)
    <3> DEFINE new == modelState'[s]
               pc == agentPC'[s]
    <3>1. /\ SlotType(q, st, pr, "loop", cl, sm)
          /\ SlotInv(q, st, pr, "loop", cl, sm, pend)
      BY <1>0, <2>1
    <3>2. /\ new \in ModelState /\ q # <<>>
          /\ new.model = st.model /\ new.stopPending /\ new.exited = st.exited
          /\ pc = IF st.stopPending THEN "loop" ELSE "joining"
      BY <2>1, <2>2, <2>3, <2>4
    <3>3. /\ Head(q).type \in {"STOP", "EXITED"}
          /\ Head(q).type = "STOP" => new.stopRequested
          /\ Head(q).type = "EXITED" => new.stopRequested = st.stopRequested
      BY <2>1, <2>2
    <3> HIDE DEF new, pc, q, st, pr, cl, sm
    <3>4. SlotInv(Tail(q), new, pr, pc, cl, sm, pend)
      <4>1. CASE Head(q).type = "STOP"
        BY <3>1, <3>2, <3>3, <4>1, TakeStop
      <4>2. CASE Head(q).type = "EXITED"
        <5>1. new.stopRequested = st.stopRequested
          BY <3>3, <4>2
        <5> QED  BY <3>1, <3>2, <4>2, <5>1, TakeExited
      <4> QED  BY <3>3, <4>1, <4>2
    <3> QED  BY <3>4 DEF new, pc, q, pr, cl, sm
  <2>6. agentQ'[s] = Tail(q) /\ proc'[s] = pr
    BY <1>t, <2>1
  <2> QED  BY <2>3, <2>5, <2>6
<1>3. CASE AgentRelease(s)
  <2>1. /\ agentPC[s] = "loop" /\ q # <<>> /\ Head(q).type = "RELEASE"
        /\ agentQ' = [agentQ EXCEPT ![s] = Tail(q)]
        /\ modelState' = [modelState EXCEPT ![s] = NoState]
        /\ proc' = [proc EXCEPT ![s] = "none"]
        /\ UNCHANGED <<slotModel, agentPC, closing>>
    BY <1>3 DEF AgentRelease, Taking, Take
  <2>2. SlotInv(Tail(q), NoState, "none", "loop", cl, sm, pend)
    BY <1>0, <2>1, TakeRelease
  <2> QED  BY <1>t, <2>1, <2>2
<1>4. CASE AgentClose(s)
  <2>1. /\ agentPC[s] = "loop" /\ q # <<>> /\ Head(q).type = "CLOSE"
        /\ agentQ' = [agentQ EXCEPT ![s] = Tail(q)]
        /\ UNCHANGED <<slotModel, proc>>
    BY <1>4 DEF AgentClose, Taking, Take
  <2>2. IF st.model # NoModel /\ ~st.stopPending
        THEN BeginStop(s, st.stopRequested, TRUE)
        ELSE /\ agentPC' = [agentPC EXCEPT ![s] = "closed"]
             /\ UNCHANGED <<modelState, closing>>
    BY <1>4 DEF AgentClose
  <2>3. /\ modelState'[s] \in ModelState
        /\ IF st.model # NoModel /\ ~st.stopPending
           THEN /\ agentPC'[s] = "joining" /\ closing'[s]
                /\ modelState'[s].model = st.model /\ modelState'[s].exited = st.exited
                /\ modelState'[s].stopRequested = st.stopRequested
                /\ modelState'[s].stopPending
           ELSE agentPC'[s] = "closed" /\ ~closing'[s] /\ modelState'[s] = st
    <3>1. CASE st.model # NoModel /\ ~st.stopPending
      <4>1. BeginStop(s, st.stopRequested, TRUE)
        BY <2>2, <3>1
      <4>2. agentPC'[s] = "joining" /\ closing'[s]
        BY <1>t, <4>1 DEF BeginStop
      <4>3. /\ modelState' \in [Slots -> ModelState]
            /\ modelState'[s].model = st.model /\ modelState'[s].exited = st.exited
            /\ modelState'[s].stopRequested = st.stopRequested
            /\ modelState'[s].stopPending
        BY <1>t, <1>b, <4>1, BegunState
      <4> QED  BY <3>1, <4>2, <4>3
    <3>2. CASE ~(st.model # NoModel /\ ~st.stopPending)
      BY <1>t, <1>0, <1>b, <2>1, <2>2, <3>2
    <3> QED  BY <3>1, <3>2
  <2>4. SlotInv(Tail(q), modelState'[s], pr, agentPC'[s], closing'[s], sm, pend)
    <3> DEFINE new == modelState'[s]
               pc == agentPC'[s]
               ncl == closing'[s]
    <3>1. /\ SlotType(q, st, pr, "loop", cl, sm)
          /\ SlotInv(q, st, pr, "loop", cl, sm, pend)
          /\ q # <<>> /\ Head(q).type = "CLOSE"
      BY <1>0, <2>1
    <3>2. /\ new \in ModelState
          /\ IF st.model # NoModel /\ ~st.stopPending
             THEN /\ pc = "joining" /\ ncl
                  /\ new.model = st.model /\ new.exited = st.exited
                  /\ new.stopRequested = st.stopRequested /\ new.stopPending
             ELSE pc = "closed" /\ ~ncl /\ new = st
      BY <2>3
    <3> HIDE DEF new, pc, ncl, q, st, pr, cl, sm
    <3>3. SlotInv(Tail(q), new, pr, pc, ncl, sm, pend)
      BY <3>1, <3>2, TakeClose
    <3> QED  BY <3>3 DEF new, pc, ncl, q, pr, sm
  <2>5. agentQ'[s] = Tail(q) /\ proc'[s] = pr
    BY <1>t, <2>1
  <2> QED  BY <2>4, <2>5
<1>5. CASE AgentJoined(s)
  <2>1. /\ agentPC[s] = "joining" /\ proc[s] = "reaped"
        /\ modelState' = [modelState EXCEPT ![s].exited = TRUE]
        /\ UNCHANGED <<slotModel, agentQ, closing, proc>>
    BY <1>5 DEF AgentJoined
  <2>2. agentPC'[s] = IF cl THEN "closed" ELSE "loop"
    BY <1>t, <1>5 DEF AgentJoined
  <2>3. /\ modelState'[s] \in ModelState
        /\ modelState'[s].model = st.model /\ modelState'[s].exited
        /\ modelState'[s].stopRequested = st.stopRequested
        /\ modelState'[s].stopPending = st.stopPending
    BY <1>t, <2>1, ExitedState
  <2>4. SlotInv(q, modelState'[s], "reaped", agentPC'[s], cl, sm, pend)
    <3> DEFINE new == modelState'[s]
               pc == agentPC'[s]
    <3>1. /\ SlotType(q, st, "reaped", "joining", cl, sm)
          /\ SlotInv(q, st, "reaped", "joining", cl, sm, pend)
      BY <1>0, <2>1
    <3>2. /\ new \in ModelState
          /\ new.model = st.model /\ new.exited
          /\ new.stopRequested = st.stopRequested /\ new.stopPending = st.stopPending
          /\ pc = IF cl THEN "closed" ELSE "loop"
      BY <2>2, <2>3
    <3> HIDE DEF new, pc, q, st, cl, sm
    <3>3. SlotInv(q, new, "reaped", pc, cl, sm, pend)
      BY <3>1, <3>2, Joined
    <3> QED  BY <3>3 DEF new, pc
  <2> QED  BY <2>1, <2>4
<1>6. CASE MonitorExit(s)
  <2>1. /\ pr = "exited"
        /\ proc' = [proc EXCEPT ![s] = "reaped"]
        /\ agentQ'[s] = Append(q, Command("EXITED"))
        /\ UNCHANGED <<slotModel, agentPC, modelState, closing>>
    BY <1>t, <1>6 DEF MonitorExit, Post
  <2>2. SlotInv(Append(q, Command("EXITED")), st, "reaped", agentPC[s], cl, sm, pend)
    <3>1. /\ SlotType(q, st, "exited", agentPC[s], cl, sm)
          /\ SlotInv(q, st, "exited", agentPC[s], cl, sm, pend)
      BY <1>0, <2>1
    <3> QED  BY <3>1, PostExited
  <2> QED  BY <1>t, <2>1, <2>2
<1>7. CASE ProcessEnds(s)
  <2>1. /\ pr = "running" /\ proc' = [proc EXCEPT ![s] = "exited"]
        /\ UNCHANGED <<slotModel, agentQ, agentPC, modelState, closing>>
    BY <1>7 DEF ProcessEnds
  <2>2. SlotInv(q, st, "exited", agentPC[s], cl, sm, pend)
    BY <1>0, <2>1, Ended
  <2> QED  BY <1>t, <2>1, <2>2
<1> QED  BY <1>1, <1>2, <1>3, <1>4, <1>5, <1>6, <1>7 DEF AgentStep

-----------------------------------------------------------------------------
(* Events at the head or in the tail of a queue, and at its end.           *)
LEMMA RangeTail ==
  ASSUME NEW S, NEW q \in Seq(S), q # <<>>
  PROVE  RangeOf(q) = {Head(q)} \cup RangeOf(Tail(q))
<1>1. RangeOf(q) \subseteq {Head(q)} \cup RangeOf(Tail(q))
  <2> SUFFICES ASSUME NEW i \in DOMAIN q, q[i] # Head(q)
               PROVE  q[i] \in RangeOf(Tail(q))
    BY DEF RangeOf
  <2>1. i - 1 \in DOMAIN Tail(q) /\ Tail(q)[i - 1] = q[i]
    BY TailFacts
  <2> QED  BY <2>1 DEF RangeOf
<1>2. {Head(q)} \cup RangeOf(Tail(q)) \subseteq RangeOf(q)
  BY TailFacts DEF RangeOf
<1> QED  BY <1>1, <1>2

(* An appended event is the only new one.                                  *)
LEMMA RangeAppend ==
  ASSUME NEW S, NEW q \in Seq(S), NEW e \in S
  PROVE  RangeOf(Append(q, e)) = RangeOf(q) \cup {e}
<1>1. RangeOf(Append(q, e)) \subseteq RangeOf(q) \cup {e}
  BY AppendFacts DEF RangeOf
<1>2. RangeOf(q) \subseteq RangeOf(Append(q, e))
  BY AppendFacts DEF RangeOf
<1>3. e \in RangeOf(Append(q, e))
  BY AppendFacts DEF RangeOf
<1> QED  BY <1>1, <1>2, <1>3

(* What the queues of the agents hold after a step.                        *)
LEMMA PostHolds ==
  ASSUME NEW q \in [Slots -> Seq(AgentEvent)], NEW s \in Slots, NEW e \in AgentEvent
  PROVE  \A t \in Slots : \A y :
           Holds(Post(q, s, e)[t], y) <=> Holds(q[t], y) \/ (t = s /\ e.type = y)
<1> SUFFICES ASSUME NEW t \in Slots, NEW y
             PROVE  Holds(Post(q, s, e)[t], y) <=> Holds(q[t], y) \/ (t = s /\ e.type = y)
  OBVIOUS
<1>1. CASE t = s
  <2> DEFINE qs == q[s]
  <2>1. Post(q, s, e)[s] = Append(qs, e) /\ qs \in Seq(AgentEvent)
    BY PostType
  <2> HIDE DEF qs
  <2>2. Holds(Append(qs, e), y) <=> Holds(qs, y) \/ e.type = y
    BY <2>1, HoldsAppend
  <2> QED  BY <1>1, <2>1, <2>2 DEF qs
<1>2. CASE t # s
  <2>1. Post(q, s, e)[t] = q[t]
    BY <1>2, PostType
  <2> QED  BY <1>2, <2>1
<1> QED  BY <1>1, <1>2

(* The events of a queue, each Done event once.                            *)
UniqueDone(q) ==
  \A i, j \in DOMAIN q : q[i].type = "Done" /\ q[j] = q[i] => i = j

(* Taking the head of a queue never makes an event occur twice.            *)
LEMMA UniqueTail ==
  ASSUME NEW q \in Seq(ClientEvent), q # <<>>, UniqueDone(q)
  PROVE  /\ UniqueDone(Tail(q))
         /\ Head(q).type = "Done" => Head(q) \notin RangeOf(Tail(q))
<1>1. UniqueDone(Tail(q))
  <2> SUFFICES ASSUME NEW i \in DOMAIN Tail(q), NEW j \in DOMAIN Tail(q),
                      Tail(q)[i].type = "Done", Tail(q)[j] = Tail(q)[i]
               PROVE  i = j
    BY DEF UniqueDone
  <2>1. /\ i \in Nat /\ j \in Nat /\ i + 1 \in DOMAIN q /\ j + 1 \in DOMAIN q
        /\ Tail(q)[i] = q[i + 1] /\ Tail(q)[j] = q[j + 1]
    BY TailFacts
  <2>2. i + 1 = j + 1
    BY <2>1 DEF UniqueDone
  <2> QED  BY <2>1, <2>2
<1>2. ASSUME Head(q).type = "Done", NEW i \in DOMAIN Tail(q), Tail(q)[i] = Head(q)
      PROVE  FALSE
  <2>1. /\ i \in Nat \ {0} /\ i + 1 \in DOMAIN q /\ Tail(q)[i] = q[i + 1]
        /\ 1 \in DOMAIN q /\ Head(q) = q[1]
    BY TailFacts
  <2>2. i + 1 = 1
    BY <1>2, <2>1 DEF UniqueDone
  <2> QED  BY <2>1, <2>2
<1> QED  BY <1>1, <1>2 DEF RangeOf

(* An event that a queue does not hold can be appended to it.              *)
LEMMA UniqueAppend ==
  ASSUME NEW q \in Seq(ClientEvent), NEW e \in ClientEvent, UniqueDone(q),
         e.type = "Done" => e \notin RangeOf(q)
  PROVE  UniqueDone(Append(q, e))
<1> DEFINE r == Append(q, e)
<1>1. /\ Len(q) + 1 \in DOMAIN r /\ r[Len(q) + 1] = e
      /\ \A i \in DOMAIN q : i \in DOMAIN r /\ r[i] = q[i]
      /\ \A i \in DOMAIN r : i \in DOMAIN q \/ i = Len(q) + 1
  BY AppendFacts
<1>2. e.type = "Done" => \A i \in DOMAIN q : q[i] # e
  BY DEF RangeOf
<1> HIDE DEF r
<1>3. UniqueDone(r)
  BY <1>1, <1>2 DEF UniqueDone
<1> QED  BY <1>3 DEF r

-----------------------------------------------------------------------------
(* Done events, agent by agent.                                            *)

(* A slot that has finished stays so under the agents' steps.              *)
LEMMA AgentKeepsFinished ==
  ASSUME AgentTypeOK, NEW s \in Slots, NEW m \in Models, Finished(s, m),
         QueueView(agentQ[s], modelState[s], proc[s]),
         NEW t \in Slots, AgentStep(t) \/ MonitorExit(t) \/ ProcessEnds(t)
  PROVE  Finished(s, m)'
<1>0. /\ modelState[s].model = m /\ modelState[s].exited /\ ~Holds(agentQ[s], "RELEASE")
      /\ modelState[s] # NoState
      /\ modelState \in [Slots -> ModelState] /\ agentQ \in [Slots -> Seq(AgentEvent)]
  BY ModelAssumption DEF Finished, NoState, AgentTypeOK
<1>1. ASSUME modelState'[s].model = modelState[s].model,
             modelState'[s].exited = modelState[s].exited \/ modelState'[s].exited,
             Holds(agentQ'[s], "RELEASE") => Holds(agentQ[s], "RELEASE")
      PROVE  Finished(s, m)'
  BY <1>0, <1>1 DEF Finished
<1>2. CASE t # s
  <2>1. modelState'[s] = modelState[s] /\ agentQ'[s] = agentQ[s]
    BY <1>2, AgentFrame
  <2> QED  BY <1>1, <2>1
<1>3. CASE t = s
  <2>1. ASSUME NEW y, Taking(s, y), Take(s)
        PROVE  /\ y # "RELEASE"
               /\ Holds(agentQ'[s], "RELEASE") => Holds(agentQ[s], "RELEASE")
    <3>1. /\ agentQ[s] # <<>> /\ Head(agentQ[s]).type = y /\ agentQ'[s] = Tail(agentQ[s])
          /\ agentQ[s] \in Seq(AgentEvent)
      BY <1>0, <2>1 DEF Taking, Take
    <3> DEFINE q == agentQ[s]
    <3>2. \A z : Holds(q, z) <=> Head(q).type = z \/ Holds(Tail(q), z)
      <4>1. q # <<>> /\ q \in Seq(AgentEvent)
        BY <3>1
      <4> HIDE DEF q
      <4> QED  BY <4>1, HoldsTail
    <3> QED  BY <1>0, <3>1, <3>2
  <2>2. ~AgentStart(s)
    <3> SUFFICES ASSUME AgentStart(s) PROVE FALSE
      OBVIOUS
    <3> DEFINE q == agentQ[s]
               st == modelState[s]
    <3>1. q # <<>> /\ q \in Seq(AgentEvent) /\ Head(q).type = "START"
      BY <1>0 DEF AgentStart, Taking
    <3>2. QueueView(q, st, proc[s]) /\ ~Holds(q, "RELEASE") /\ st # NoState
      BY <1>0
    <3> HIDE DEF q, st
    <3> QED  BY <3>1, <3>2, HoldsTail DEF QueueView
  <2>3. ASSUME NEW b \in BOOLEAN, NEW c \in BOOLEAN, BeginStop(s, b, c)
        PROVE  /\ modelState'[s].model = modelState[s].model
               /\ modelState'[s].exited = modelState[s].exited
    BY <1>0, <2>3, BegunState
  <2>4. modelState[s].stopRequested \in BOOLEAN
    BY <1>0 DEF ModelState
  <2>5. CASE AgentStop(s)
    BY <1>0, <1>1, <2>1, <2>3, <2>5, RequestedState DEF AgentStop
  <2>6. CASE AgentExited(s)
    BY <1>0, <1>1, <2>1, <2>3, <2>4, <2>6 DEF AgentExited
  <2>7. CASE AgentRelease(s)
    BY <2>1, <2>7 DEF AgentRelease
  <2>8. CASE AgentClose(s)
    BY <1>0, <1>1, <2>1, <2>3, <2>4, <2>8 DEF AgentClose
  <2>9. CASE AgentJoined(s)
    BY <1>0, <1>1, <2>9, ExitedState DEF AgentJoined
  <2>10. CASE MonitorExit(s)
    <3> DEFINE e == Command("EXITED")
    <3>1. e \in AgentEvent /\ e.type = "EXITED" /\ agentQ' = Post(agentQ, s, e)
          /\ modelState' = modelState
      BY <2>10, AgentEventTypes DEF MonitorExit, Command
    <3> HIDE DEF e
    <3>2. \A y : Holds(agentQ'[s], y) <=> Holds(agentQ[s], y) \/ (s = s /\ e.type = y)
      BY <1>0, <3>1, PostHolds
    <3> QED  BY <1>1, <3>1, <3>2
  <2>11. CASE ProcessEnds(s)
    BY <1>1, <2>11 DEF ProcessEnds
  <2> QED  BY <1>3, <2>2, <2>5, <2>6, <2>7, <2>8, <2>9, <2>10, <2>11 DEF AgentStep
<1> QED  BY <1>2, <1>3

(* The model of a slot that has finished is the one its client believes    *)
(* in.                                                                     *)
LEMMA FinishedModel ==
  ASSUME NEW s \in Slots, NEW m \in Models, Finished(s, m),
         QueueView(agentQ[s], modelState[s], proc[s]),
         NEW pend, ClientView(agentQ[s], modelState[s], slotModel[s], pend)
  PROVE  slotModel[s] = m
<1>1. modelState[s] # NoState
  BY ModelAssumption DEF Finished, NoState
<1>2. ~Holds(agentQ[s], "START")
  BY <1>1 DEF QueueView, Finished
<1> QED  BY <1>2 DEF ClientView, Finished

(* The agent whose wait is over has its client's model, and has not        *)
(* finished before.                                                        *)
LEMMA JoinedModel ==
  ASSUME AgentTypeOK, NEW s \in Slots, NEW pend \in BOOLEAN, AgentJoined(s),
         SlotInv(agentQ[s], modelState[s], proc[s], agentPC[s], closing[s],
                 slotModel[s], pend)
  PROVE  /\ slotModel[s] \in Models /\ slotModel[s] = modelState[s].model
         /\ ~modelState[s].exited
         /\ Finished(s, slotModel[s])'
<1> DEFINE st == modelState[s]
           q == agentQ[s]
<1>0. /\ AgentView(st, proc[s], agentPC[s], closing[s]) /\ QueueView(q, st, proc[s])
      /\ ClientView(q, st, slotModel[s], pend)
      /\ agentPC[s] = "joining" /\ agentQ' = agentQ /\ slotModel' = slotModel
      /\ st \in ModelState /\ modelState \in [Slots -> ModelState]
      /\ modelState' = [modelState EXCEPT ![s].exited = TRUE]
  BY DEF SlotInv, AgentJoined, AgentTypeOK
<1>1. ~st.exited /\ st # NoState /\ st.model # NoModel
  BY <1>0 DEF AgentView, NoState
<1>2. ~Holds(q, "RELEASE") /\ ~Holds(q, "START")
  BY <1>0, <1>1 DEF QueueView
<1>3. slotModel[s] = st.model /\ st.model \in Models
  BY <1>0, <1>1, <1>2 DEF ClientView, ModelState, MaybeModel
<1>4. Finished(s, slotModel[s])'
  <2>1. modelState'[s].model = st.model /\ modelState'[s].exited
    BY <1>0, ExitedState
  <2> QED  BY <1>0, <1>2, <1>3, <2>1 DEF Finished
<1> QED  BY <1>1, <1>3, <1>4

-----------------------------------------------------------------------------
(* The agents under any client.                                            *)

(* The client has closed an agent that has CLOSE on its way, is stopping   *)
(* its process because of it, or has ended; the agent that has taken CLOSE *)
(* has nothing but the monitor thread's notice left.                       *)
ClosedView(q, pc, cl, shut) ==
  /\ shut <=> Holds(q, "CLOSE") \/ cl \/ pc = "closed"
  /\ cl \/ pc = "closed" => \A i \in DOMAIN q : q[i].type = "EXITED"

OwnSlot(s) == SlotInv(agentQ[s], modelState[s], proc[s], agentPC[s], closing[s],
                      slotModel[s], stopSent[s])
OwnClose(s) == ClosedView(agentQ[s], agentPC[s], closing[s], closed[s])

OneSlotEach ==
  \A s, t \in Slots : slotModel[s] # NoModel /\ slotModel[t] = slotModel[s] => t = s

OnlyDone == \A i \in DOMAIN eventQ : eventQ[i].type = "Done"

(* The inductive invariant.                                                *)
ProtocolInv ==
  /\ ProtocolTypes
  /\ \A s \in Slots : OwnSlot(s)
  /\ \A s \in Slots : OwnClose(s)
  /\ OneSlotEach
  /\ DoneEvents
  /\ OnlyDone

(* The types and the parts of one slot's invariant, for the lemmas above.  *)
LEMMA OwnFacts ==
  ASSUME ProtocolInv, NEW s \in Slots
  PROVE  /\ AgentTypeOK /\ stopSent[s] \in BOOLEAN /\ closed[s] \in BOOLEAN
         /\ SlotType(agentQ[s], modelState[s], proc[s], agentPC[s], closing[s],
                     slotModel[s])
         /\ SlotInv(agentQ[s], modelState[s], proc[s], agentPC[s], closing[s],
                    slotModel[s], stopSent[s])
         /\ AgentView(modelState[s], proc[s], agentPC[s], closing[s])
         /\ QueueView(agentQ[s], modelState[s], proc[s])
         /\ ClientView(agentQ[s], modelState[s], slotModel[s], stopSent[s])
         /\ ClosedView(agentQ[s], agentPC[s], closing[s], closed[s])
  BY DEF ProtocolInv, ProtocolTypes, AgentTypeOK, SlotType, OwnSlot, OwnClose, SlotInv

(* A callback's event is that of one slot that has finished its model.     *)
LEMMA OwnDone ==
  ASSUME ProtocolInv, NEW i \in DOMAIN eventQ
  PROVE  \E s \in Slots : /\ slotModel[s] \in Models
                          /\ Finished(s, slotModel[s])
                          /\ eventQ[i] = Done(slotModel[s])
<1>1. eventQ \in Seq(ClientEvent) /\ eventQ[i].type = "Done"
  BY DEF ProtocolInv, ProtocolTypes, AgentTypeOK, OnlyDone
<1>2. eventQ[i] \in ClientEvent
  BY <1>1
<1>3. PICK m \in Models : eventQ[i] = Done(m) /\ eventQ[i].model = m
  BY <1>1, <1>2 DEF ClientEvent, Done
<1>4. PICK s \in Slots : Finished(s, m)
  BY <1>1, <1>3 DEF ProtocolInv, DoneEvents
<1>5. slotModel[s] = m
  BY <1>4, OwnFacts, FinishedModel
<1> QED  BY <1>3, <1>4, <1>5

(* Before the client's first call every agent is idle and nothing is queued. *)
LEMMA ProtocolInitial == ProtocolInit => ProtocolInv
<1> SUFFICES ASSUME ProtocolInit PROVE ProtocolInv
  OBVIOUS
<1> USE DEF ProtocolInit, AgentInit
<1>1. ProtocolTypes
  <2>1. NoState \in ModelState
    BY DEF NoState, ModelState, MaybeModel
  <2> QED  BY <2>1 DEF ProtocolTypes, AgentTypeOK, MaybeModel, ProcState
<1>2. ASSUME NEW s \in Slots PROVE OwnSlot(s) /\ OwnClose(s)
  <2>1. /\ agentQ[s] = <<>> /\ modelState[s] = NoState /\ proc[s] = "none"
        /\ agentPC[s] = "loop" /\ ~closing[s] /\ slotModel[s] = NoModel
        /\ ~closed[s]
    OBVIOUS
  <2>2. NoState.model = NoModel /\ ~NoState.stopPending /\ ~NoState.exited
    BY DEF NoState
  <2>3. /\ \A t : ~Holds(agentQ[s], t)
        /\ ~StopNow(agentQ[s]) /\ ~StopNext(agentQ[s]) /\ Ordered(agentQ[s])
    BY <2>1 DEF Holds, StopNow, StopNext, Ordered
  <2>4. AgentView(modelState[s], proc[s], agentPC[s], closing[s])
    BY <2>1, <2>2 DEF AgentView
  <2>5. QueueView(agentQ[s], modelState[s], proc[s])
    BY <2>3 DEF QueueView
  <2>6. ClientView(agentQ[s], modelState[s], slotModel[s], stopSent[s])
    BY <2>1, <2>2, <2>3 DEF ClientView
  <2>7. OwnClose(s)
    BY <2>1, <2>3 DEF OwnClose, ClosedView
  <2> QED  BY <2>4, <2>5, <2>6, <2>7 DEF OwnSlot, SlotInv
<1>3. OneSlotEach /\ DoneEvents /\ OnlyDone
  BY DEF OneSlotEach, DoneEvents, OnlyDone
<1> QED  BY <1>1, <1>2, <1>3 DEF ProtocolInv

-----------------------------------------------------------------------------
(* The client's calls.                                                     *)

(* The client's calls and its handling of a callback keep the types.       *)
LEMMA ClientTypes ==
  ASSUME ProtocolInv, NEW s \in Slots, ClientStep(s)
  PROVE  ProtocolTypes'
<1>0. /\ ProtocolTypes /\ AgentTypeOK
      /\ agentQ \in [Slots -> Seq(AgentEvent)] /\ eventQ \in Seq(ClientEvent)
  BY DEF ProtocolInv, ProtocolTypes, AgentTypeOK
<1>1. ASSUME NEW m \in Models, StartModel(s, m) PROVE ProtocolTypes'
  <2>1. agentQ' \in [Slots -> Seq(AgentEvent)]
    BY <1>0, <1>1, AgentEventTypes, PostType DEF StartModel
  <2> QED  BY <1>0, <1>1, <2>1 DEF StartModel, ProtocolTypes, AgentTypeOK, MaybeModel
<1>2. CASE StopModel(s)
  <2>1. agentQ' \in [Slots -> Seq(AgentEvent)]
    BY <1>0, <1>2, AgentEventTypes, PostType DEF StopModel
  <2> QED  BY <1>0, <1>2, <2>1 DEF StopModel, ProtocolTypes, AgentTypeOK
<1>3. CASE ReleaseSlot(s)
  <2>1. agentQ' \in [Slots -> Seq(AgentEvent)]
    BY <1>0, <1>3, AgentEventTypes, PostType DEF ReleaseSlot
  <2>2. eventQ' \in Seq(ClientEvent)
    BY <1>0, <1>3, TailFacts DEF ReleaseSlot
  <2>3. slotModel' \in [Slots -> MaybeModel]
    BY <1>0, <1>3 DEF ReleaseSlot, AgentTypeOK, MaybeModel
  <2> QED  BY <1>0, <1>3, <2>1, <2>2, <2>3 DEF ReleaseSlot, ProtocolTypes, AgentTypeOK,
                                               clientVars
<1>4. CASE CloseSlot(s)
  <2>1. agentQ' \in [Slots -> Seq(AgentEvent)]
    BY <1>0, <1>4, AgentEventTypes, PostType DEF CloseSlot
  <2> QED  BY <1>0, <1>4, <2>1 DEF CloseSlot, ProtocolTypes, AgentTypeOK
<1> QED  BY <1>1, <1>2, <1>3, <1>4 DEF ClientStep

(* A call concerns one slot.                                               *)
LEMMA ClientFrame ==
  ASSUME ProtocolInv, NEW s \in Slots, ClientStep(s)
  PROVE  /\ UNCHANGED <<agentPC, modelState, closing, proc>>
         /\ \A t \in Slots : t # s =>
              /\ agentQ'[t] = agentQ[t] /\ slotModel'[t] = slotModel[t]
              /\ stopSent'[t] = stopSent[t] /\ closed'[t] = closed[t]
<1>1. ProtocolTypes /\ AgentTypeOK
  BY DEF ProtocolInv, ProtocolTypes
<1> QED  BY <1>1 DEF ClientStep, StartModel, StopModel, ReleaseSlot, CloseSlot, Post,
                     ProtocolTypes, AgentTypeOK, clientVars

(* The slot whose callback's event is handled has finished, and no other   *)
(* event is about its model.                                               *)
LEMMA HeadDone ==
  ASSUME ProtocolInv, NEW s \in Slots, eventQ # <<>>, Head(eventQ) = Done(slotModel[s])
  PROVE  /\ slotModel[s] \in Models /\ Finished(s, slotModel[s])
         /\ 1 \in DOMAIN eventQ /\ Head(eventQ) = eventQ[1]
<1>1. 1 \in DOMAIN eventQ /\ Head(eventQ) = eventQ[1]
  BY TailFacts DEF ProtocolInv, ProtocolTypes, AgentTypeOK
<1>2. PICK t \in Slots : /\ slotModel[t] \in Models /\ Finished(t, slotModel[t])
                         /\ eventQ[1] = Done(slotModel[t])
  BY <1>1, OwnDone
<1>3. slotModel[t] = slotModel[s]
  BY <1>1, <1>2 DEF Done
<1>4. t = s
  BY <1>2, <1>3, ModelAssumption DEF ProtocolInv, OneSlotEach
<1> QED  BY <1>1, <1>2, <1>4

(* A legal call keeps the slot's part of the invariant.                    *)
LEMMA ClientSlot ==
  ASSUME ProtocolInv, NEW s \in Slots, ClientStep(s)
  PROVE  OwnSlot(s)'
<1> DEFINE q == agentQ[s]
           st == modelState[s]
           pr == proc[s]
           pc == agentPC[s]
           cl == closing[s]
           sm == slotModel[s]
           pend == stopSent[s]
<1>0. /\ SlotType(q, st, pr, pc, cl, sm) /\ SlotInv(q, st, pr, pc, cl, sm, pend)
      /\ pend \in BOOLEAN /\ ClosedView(q, pc, cl, closed[s])
      /\ agentQ \in [Slots -> Seq(AgentEvent)] /\ slotModel \in [Slots -> MaybeModel]
      /\ stopSent \in [Slots -> BOOLEAN]
  BY OwnFacts DEF ProtocolInv, ProtocolTypes, AgentTypeOK
<1>1. ~closed[s] => ~Holds(q, "CLOSE")
  BY <1>0 DEF ClosedView
<1>2. UNCHANGED <<agentPC, modelState, closing, proc>>
  BY ClientFrame
<1>3. ASSUME SlotInv(agentQ'[s], st, pr, pc, cl, slotModel'[s], stopSent'[s])
      PROVE  OwnSlot(s)'
  BY <1>2, <1>3 DEF OwnSlot
<1>4. ASSUME NEW m \in Models, StartModel(s, m) PROVE OwnSlot(s)'
  <2>1. /\ ~closed[s] /\ sm = NoModel /\ slotModel'[s] = m
        /\ agentQ'[s] = Append(q, Start(m)) /\ stopSent'[s] = FALSE
    BY <1>0, <1>4 DEF StartModel, Post
  <2>2. SlotInv(Append(q, Start(m)), st, pr, pc, cl, m, FALSE)
    <3>1. /\ SlotType(q, st, pr, pc, cl, NoModel)
          /\ SlotInv(q, st, pr, pc, cl, NoModel, pend) /\ ~Holds(q, "CLOSE")
          /\ pend \in BOOLEAN
      BY <1>0, <1>1, <2>1
    <3> HIDE DEF q, st, pr, pc, cl, sm, pend
    <3> QED  BY <3>1, PostStart
  <2> QED  BY <1>3, <2>1, <2>2
<1>5. CASE StopModel(s)
  <2>1. /\ ~closed[s] /\ sm \in Models /\ ~pend /\ slotModel'[s] = sm
        /\ agentQ'[s] = Append(q, Command("STOP")) /\ stopSent'[s] = TRUE
    BY <1>0, <1>5 DEF StopModel, Post, MaybeModel
  <2>2. SlotInv(Append(q, Command("STOP")), st, pr, pc, cl, sm, TRUE)
    <3>1. pend = FALSE
      BY <1>0, <2>1
    <3>2. /\ SlotType(q, st, pr, pc, cl, sm) /\ sm \in Models
          /\ SlotInv(q, st, pr, pc, cl, sm, FALSE) /\ ~Holds(q, "CLOSE")
      BY <1>0, <1>1, <2>1, <3>1
    <3> HIDE DEF q, st, pr, pc, cl, sm, pend
    <3> QED  BY <3>2, PostStop
  <2> QED  BY <1>3, <2>1, <2>2
<1>6. CASE ReleaseSlot(s)
  <2>1. CASE closed[s]
    <3>1. agentQ' = agentQ /\ slotModel' = slotModel /\ stopSent' = stopSent
      BY <1>6, <2>1 DEF ReleaseSlot, clientVars
    <3> QED  BY <1>0, <1>3, <3>1
  <2>2. CASE ~closed[s]
    <3>1. /\ agentQ'[s] = Append(q, Command("RELEASE")) /\ slotModel'[s] = NoModel
          /\ stopSent'[s] = pend
      BY <1>0, <1>6, <2>2 DEF ReleaseSlot, Post, clientVars
    <3>2. sm \in Models /\ st.model = sm /\ st.exited /\ ~Holds(q, "RELEASE")
      BY <1>6, HeadDone DEF ReleaseSlot, Finished
    <3>3. st # NoState
      BY <3>2, ModelAssumption DEF NoState
    <3>4. SlotInv(Append(q, Command("RELEASE")), st, pr, pc, cl, NoModel, FALSE)
      <4>1. ~Holds(q, "CLOSE")
        BY <1>1, <2>2
      <4> HIDE DEF q, st, pr, pc, cl, sm, pend
      <4> QED  BY <1>0, <3>2, <3>3, <4>1, PostRelease
    <3>5. SlotInv(Append(q, Command("RELEASE")), st, pr, pc, cl, NoModel, pend)
      <4> HIDE DEF q, st, pr, pc, cl, sm, pend
      <4> QED  BY <3>4 DEF SlotInv, ClientView
    <3> QED  BY <1>3, <3>1, <3>5
  <2> QED  BY <2>1, <2>2
<1>7. CASE CloseSlot(s)
  <2>1. /\ ~closed[s] /\ agentQ'[s] = Append(q, Command("CLOSE"))
        /\ slotModel' = slotModel /\ stopSent' = stopSent
    BY <1>0, <1>7 DEF CloseSlot, Post
  <2>2. SlotInv(Append(q, Command("CLOSE")), st, pr, pc, cl, sm, pend)
    <3>1. ~Holds(q, "CLOSE")
      BY <1>1, <2>1
    <3> HIDE DEF q, st, pr, pc, cl, sm, pend
    <3> QED  BY <1>0, <3>1, PostClose
  <2> QED  BY <1>3, <2>1, <2>2
<1> QED  BY <1>4, <1>5, <1>6, <1>7 DEF ClientStep

(* Only close() posts a CLOSE.                                             *)
LEMMA ClientClose ==
  ASSUME ProtocolInv, NEW s \in Slots, ClientStep(s)
  PROVE  OwnClose(s)'
<1> DEFINE q == agentQ[s]
<1>0. /\ ClosedView(q, agentPC[s], closing[s], closed[s])
      /\ agentQ \in [Slots -> Seq(AgentEvent)] /\ q \in Seq(AgentEvent)
      /\ closed \in [Slots -> BOOLEAN]
  BY OwnFacts DEF ProtocolInv, ProtocolTypes, AgentTypeOK
<1>1. UNCHANGED <<agentPC, closing>>
  BY ClientFrame
<1>2. CASE agentQ'[s] = q /\ closed' = closed
  BY <1>0, <1>1, <1>2 DEF OwnClose
<1>3. ASSUME NEW e \in AgentEvent, ~closed[s], agentQ'[s] = Append(q, e),
             closed'[s] <=> e.type = "CLOSE"
      PROVE  OwnClose(s)'
  <2>1. ~Holds(q, "CLOSE") /\ ~closing[s] /\ agentPC[s] # "closed"
    BY <1>0, <1>3 DEF ClosedView
  <2>2. Holds(agentQ'[s], "CLOSE") <=> e.type = "CLOSE"
    <3> HIDE DEF q
    <3> QED  BY <1>0, <1>3, <2>1, HoldsAppend
  <2> QED  BY <1>1, <1>3, <2>1, <2>2 DEF OwnClose, ClosedView
<1>4. \A c \in {"STOP", "RELEASE", "CLOSE"} : Command(c).type = c
  BY DEF Command
<1>5. ASSUME NEW m \in Models, StartModel(s, m) PROVE OwnClose(s)'
  <2>1. ~closed[s] /\ agentQ'[s] = Append(q, Start(m)) /\ closed' = closed
    BY <1>0, <1>5 DEF StartModel, Post
  <2> QED  BY <1>3, <2>1, AgentEventTypes
<1>6. CASE StopModel(s)
  <2>1. ~closed[s] /\ agentQ'[s] = Append(q, Command("STOP")) /\ closed' = closed
    BY <1>0, <1>6 DEF StopModel, Post
  <2> QED  BY <1>3, <1>4, <2>1, AgentEventTypes
<1>7. CASE ReleaseSlot(s)
  <2>1. closed' = closed
    BY <1>7 DEF ReleaseSlot, clientVars
  <2>2. \/ agentQ'[s] = q
        \/ ~closed[s] /\ agentQ'[s] = Append(q, Command("RELEASE"))
    BY <1>0, <1>7 DEF ReleaseSlot, Post
  <2> QED  BY <1>2, <1>3, <1>4, <2>1, <2>2, AgentEventTypes
<1>8. CASE CloseSlot(s)
  <2>1. ~closed[s] /\ agentQ'[s] = Append(q, Command("CLOSE")) /\ closed'[s]
    BY <1>0, <1>8 DEF CloseSlot, Post
  <2> QED  BY <1>3, <1>4, <2>1, AgentEventTypes
<1> QED  BY <1>5, <1>6, <1>7, <1>8 DEF ClientStep

(* A model is started in one slot.                                         *)
LEMMA ClientModels ==
  ASSUME ProtocolInv, NEW s \in Slots, ClientStep(s)
  PROVE  OneSlotEach'
<1>0. slotModel \in [Slots -> MaybeModel] /\ OneSlotEach
  BY DEF ProtocolInv, ProtocolTypes, AgentTypeOK
<1>1. ASSUME NEW m \in Models, StartModel(s, m) PROVE OneSlotEach'
  <2>1. /\ slotModel' = [slotModel EXCEPT ![s] = m]
        /\ \A t \in Slots : slotModel[t] # m
    BY <1>1 DEF StartModel
  <2> QED  BY <1>0, <2>1 DEF OneSlotEach
<1>2. CASE ReleaseSlot(s)
  <2>1. slotModel' = slotModel \/ slotModel' = [slotModel EXCEPT ![s] = NoModel]
    BY <1>2 DEF ReleaseSlot
  <2> QED  BY <1>0, <2>1 DEF OneSlotEach
<1>3. CASE StopModel(s) \/ CloseSlot(s)
  BY <1>0, <1>3 DEF StopModel, CloseSlot, OneSlotEach
<1> QED  BY <1>1, <1>2, <1>3 DEF ClientStep

(* The events' part of the invariant, event by event.                      *)
LEMMA DoneNow ==
  ASSUME ProtocolInv
  PROVE  /\ eventQ \in Seq(ClientEvent) /\ UniqueDone(eventQ)
         /\ \A e \in RangeOf(eventQ) :
              /\ e.type = "Done"
              /\ \E t \in Slots : \E m \in Models : /\ e = Done(m) /\ e.model = m
                                                 /\ slotModel[t] = m /\ Finished(t, m)
<1>1. eventQ \in Seq(ClientEvent) /\ UniqueDone(eventQ)
  BY DEF ProtocolInv, ProtocolTypes, AgentTypeOK, DoneEvents, UniqueDone
<1>2. ASSUME NEW i \in DOMAIN eventQ
      PROVE  /\ eventQ[i].type = "Done"
             /\ \E t \in Slots : \E m \in Models : /\ eventQ[i] = Done(m) /\ eventQ[i].model = m
                                                /\ slotModel[t] = m /\ Finished(t, m)
  <2>1. PICK t \in Slots : /\ slotModel[t] \in Models /\ Finished(t, slotModel[t])
                           /\ eventQ[i] = Done(slotModel[t])
    BY OwnDone
  <2>2. eventQ[i].type = "Done" /\ eventQ[i].model = slotModel[t]
    BY <2>1, AgentEventTypes
  <2> QED  BY <2>1, <2>2
<1> QED  BY <1>1, <1>2 DEF RangeOf

(* The events' part of the invariant after a step, event by event.         *)
LEMMA DoneNext ==
  ASSUME UniqueDone(eventQ'),
         \A e \in RangeOf(eventQ') : /\ e.type = "Done"
                                     /\ \E t \in Slots : Finished(t, e.model)'
  PROVE  DoneEvents' /\ OnlyDone'
  BY DEF DoneEvents, OnlyDone, UniqueDone, RangeOf

(* Handling a callback's event takes it off the queue; the slots of the    *)
(* other events stay finished.                                             *)
LEMMA ClientDone ==
  ASSUME ProtocolInv, NEW s \in Slots, ClientStep(s)
  PROVE  DoneEvents' /\ OnlyDone'
<1>0. agentQ \in [Slots -> Seq(AgentEvent)]
  BY DEF ProtocolInv, ProtocolTypes, AgentTypeOK
<1>1. modelState' = modelState
  BY ClientFrame
<1>2. CASE ~ReleaseSlot(s)
  <2>1. PICK e \in AgentEvent : /\ e.type # "RELEASE" /\ agentQ' = Post(agentQ, s, e)
                                /\ eventQ' = eventQ
    BY <1>2, AgentEventTypes DEF ClientStep, StartModel, StopModel, CloseSlot, Command
  <2>2. \A t \in Slots : Holds(agentQ'[t], "RELEASE") <=> Holds(agentQ[t], "RELEASE")
    BY <1>0, <2>1, PostHolds
  <2>3. \A t \in Slots : \A m \in Models : Finished(t, m) => Finished(t, m)'
    BY <1>1, <2>2 DEF Finished
  <2> QED  BY <2>1, <2>3, DoneNow, DoneNext
<1>3. CASE ReleaseSlot(s)
  <2> DEFINE r == Tail(eventQ)
             d == Head(eventQ)
  <2>1. eventQ # <<>> /\ d = Done(slotModel[s]) /\ eventQ' = r
    BY <1>3 DEF ReleaseSlot
  <2>2. slotModel[s] \in Models /\ d.type = "Done"
    BY <2>1, HeadDone, AgentEventTypes
  <2>3. UniqueDone(r) /\ d \notin RangeOf(r) /\ RangeOf(r) \subseteq RangeOf(eventQ)
    BY <2>1, <2>2, DoneNow, UniqueTail, RangeTail
  <2>4. ASSUME NEW e \in RangeOf(r)
        PROVE  e.type = "Done" /\ \E t \in Slots : Finished(t, e.model)'
    <3>1. e.type = "Done"
      BY <2>3, DoneNow
    <3>2. PICK t \in Slots, m \in Models : /\ e = Done(m) /\ e.model = m
                                           /\ slotModel[t] = m /\ Finished(t, m)
      BY <2>3, DoneNow
    <3>3. t # s
      BY <2>1, <2>3, <3>2
    <3>4. agentQ'[t] = agentQ[t]
      BY <3>3, ClientFrame
    <3>5. Finished(t, m)'
      BY <1>1, <3>2, <3>4 DEF Finished
    <3> QED  BY <3>1, <3>2, <3>5
  <2> QED  BY <2>1, <2>3, <2>4, DoneNext
<1> QED  BY <1>2, <1>3

-----------------------------------------------------------------------------
(* The steps of the agents, the monitor threads and the processes.         *)

(* An agent closes only because its client has called close().             *)
LEMMA AgentOwnClose ==
  ASSUME ProtocolInv, NEW s \in Slots, UNCHANGED clientVars,
         AgentStep(s) \/ MonitorExit(s) \/ ProcessEnds(s)
  PROVE  OwnClose(s)'
<1> DEFINE q == agentQ[s]
<1>0. /\ ClosedView(q, agentPC[s], closing[s], closed[s])
      /\ AgentView(modelState[s], proc[s], agentPC[s], closing[s])
      /\ Ordered(q) /\ q \in Seq(AgentEvent)
      /\ agentQ \in [Slots -> Seq(AgentEvent)]
      /\ agentPC \in [Slots -> {"loop", "joining", "closed"}]
      /\ closing \in [Slots -> BOOLEAN] /\ closed' = closed
  BY OwnFacts DEF ProtocolInv, ProtocolTypes, AgentTypeOK, QueueView, clientVars
<1>1. ASSUME NEW y, Taking(s, y), Take(s)
      PROVE  /\ agentPC[s] = "loop" /\ ~closing[s]
             /\ q # <<>> /\ Head(q).type = y /\ agentQ'[s] = Tail(q)
             /\ \A z : Holds(q, z) <=> y = z \/ Holds(agentQ'[s], z)
  <2>1. /\ agentPC[s] = "loop" /\ ~closing[s]
        /\ q # <<>> /\ Head(q).type = y /\ agentQ'[s] = Tail(q)
    BY <1>0, <1>1 DEF Taking, Take, AgentView
  <2>2. \A z : Holds(q, z) <=> y = z \/ Holds(Tail(q), z)
    <3> HIDE DEF q
    <3> QED  BY <1>0, <2>1, HoldsTail
  <2> QED  BY <2>1, <2>2
<1>2. CASE AgentStart(s) \/ AgentStop(s) \/ AgentExited(s) \/ AgentRelease(s)
  <2>1. \E y \in {"START", "STOP", "EXITED", "RELEASE"} : Taking(s, y) /\ Take(s)
    BY <1>2 DEF AgentStart, AgentStop, AgentExited, AgentRelease
  <2>2. /\ agentPC[s] = "loop" /\ ~closing[s]
        /\ Holds(q, "CLOSE") <=> Holds(agentQ'[s], "CLOSE")
    BY <1>1, <2>1
  <2>3. agentPC'[s] # "closed" /\ ~closing'[s]
    BY <1>0, <1>2, <2>2 DEF AgentStart, AgentStop, AgentExited, AgentRelease, BeginStop
  <2> QED  BY <1>0, <2>2, <2>3 DEF OwnClose, ClosedView
<1>3. CASE AgentClose(s)
  <2>1. Taking(s, "CLOSE") /\ Take(s)
    BY <1>3 DEF AgentClose
  <2>2. closed[s]
    BY <1>0, <1>1, <2>1 DEF ClosedView
  <2>3. agentPC'[s] = "closed" \/ closing'[s]
    BY <1>0, <1>3 DEF AgentClose, BeginStop
  <2>4. \A i \in DOMAIN agentQ'[s] : agentQ'[s][i].type = "EXITED"
    <3>1. q # <<>> /\ Head(q).type = "CLOSE" /\ agentQ'[s] = Tail(q)
      BY <1>1, <2>1
    <3> HIDE DEF q
    <3>2. \A i \in DOMAIN Tail(q) : Tail(q)[i].type = "EXITED"
      BY <1>0, <3>1, BehindClose
    <3> QED  BY <3>1, <3>2
  <2> QED  BY <1>0, <2>2, <2>3, <2>4 DEF OwnClose, ClosedView
<1>4. CASE AgentJoined(s)
  <2>1. /\ agentQ' = agentQ /\ closing' = closing /\ agentPC[s] = "joining"
        /\ agentPC'[s] = IF closing[s] THEN "closed" ELSE "loop"
    BY <1>0, <1>4 DEF AgentJoined
  <2> QED  BY <1>0, <2>1 DEF OwnClose, ClosedView
<1>5. CASE MonitorExit(s)
  <2> DEFINE e == Command("EXITED")
  <2>1. /\ e \in AgentEvent /\ e.type = "EXITED" /\ agentQ'[s] = Append(q, e)
        /\ UNCHANGED <<agentPC, closing>>
    BY <1>0, <1>5, AgentEventTypes DEF MonitorExit, Post, Command
  <2> HIDE DEF e
  <2>2. Holds(agentQ'[s], "CLOSE") <=> Holds(q, "CLOSE")
    <3> HIDE DEF q
    <3> QED  BY <1>0, <2>1, HoldsAppend
  <2>3. ASSUME \A i \in DOMAIN q : q[i].type = "EXITED"
        PROVE  \A i \in DOMAIN agentQ'[s] : agentQ'[s][i].type = "EXITED"
    <3> HIDE DEF q
    <3> QED  BY <1>0, <2>1, <2>3, AppendFacts
  <2> QED  BY <1>0, <2>1, <2>2, <2>3 DEF OwnClose, ClosedView
<1>6. CASE ProcessEnds(s)
  BY <1>0, <1>6 DEF ProcessEnds, OwnClose, ClosedView
<1> QED  BY <1>2, <1>3, <1>4, <1>5, <1>6 DEF AgentStep

(* The one event an agent adds is that of a model that had none.           *)
LEMMA AgentDone ==
  ASSUME ProtocolInv, NEW s \in Slots,
         AgentStep(s) \/ MonitorExit(s) \/ ProcessEnds(s)
  PROVE  DoneEvents' /\ OnlyDone'
<1>0. AgentTypeOK
  BY DEF ProtocolInv, ProtocolTypes
<1>1. ASSUME NEW e \in RangeOf(eventQ)
      PROVE  e.type = "Done" /\ \E t \in Slots : Finished(t, e.model)'
  <2>1. PICK t \in Slots, m \in Models : /\ e.type = "Done" /\ e.model = m
                                         /\ Finished(t, m)
    BY DoneNow
  <2>2. QueueView(agentQ[t], modelState[t], proc[t])
    BY OwnFacts
  <2>3. Finished(t, m)'
    BY <1>0, <2>1, <2>2, AgentKeepsFinished
  <2> QED  BY <2>1, <2>3
<1>2. CASE eventQ' = eventQ
  BY <1>1, <1>2, DoneNow, DoneNext
<1>3. CASE AgentJoined(s) /\ eventQ' # eventQ
  <2>1. /\ slotModel[s] \in Models /\ slotModel[s] = modelState[s].model
        /\ ~modelState[s].exited /\ Finished(s, slotModel[s])' /\ slotModel' = slotModel
    BY <1>0, <1>3, OwnFacts, JoinedModel DEF AgentJoined
  <2>2. PICK m \in Models : m = slotModel[s]
    BY <2>1
  <2>3. Finished(s, m)'
    BY <2>1, <2>2 DEF Finished
  <2>4. Done(m) \in ClientEvent /\ Done(m).type = "Done" /\ Done(m).model = m
    BY AgentEventTypes
  <2>5. eventQ' = Append(eventQ, Done(m))
    BY <1>3, <2>1, <2>2 DEF AgentJoined
  <2>6. Done(m) \notin RangeOf(eventQ)
    <3> SUFFICES ASSUME Done(m) \in RangeOf(eventQ) PROVE FALSE
      OBVIOUS
    <3>1. PICK t \in Slots : slotModel[t] = m /\ Finished(t, m)
      BY <2>4, DoneNow
    <3>2. t = s
      BY <2>2, <3>1, ModelAssumption DEF ProtocolInv, OneSlotEach
    <3> QED  BY <2>1, <3>1, <3>2 DEF Finished
  <2>7. UniqueDone(eventQ') /\ RangeOf(eventQ') = RangeOf(eventQ) \cup {Done(m)}
    BY <2>4, <2>5, <2>6, DoneNow, UniqueAppend, RangeAppend
  <2> QED  BY <1>1, <2>3, <2>4, <2>7, DoneNext
<1>4. CASE ~AgentJoined(s)
  BY <1>2, <1>4 DEF AgentStep, AgentStart, AgentStop, AgentExited, AgentRelease,
                    AgentClose, MonitorExit, ProcessEnds
<1> QED  BY <1>2, <1>3, <1>4

(* Every step of the client, an agent or a process keeps the invariant.    *)
LEMMA ProtocolStep == ProtocolInv /\ [ProtocolNext]_protocolVars => ProtocolInv'
<1> SUFFICES ASSUME ProtocolInv, [ProtocolNext]_protocolVars PROVE ProtocolInv'
  OBVIOUS
<1>1. CASE UNCHANGED protocolVars
  BY <1>1 DEF protocolVars, agentVars, clientVars, ProtocolInv, ProtocolTypes,
              AgentTypeOK, OwnSlot, OwnClose, OneSlotEach, DoneEvents, Finished, OnlyDone
<1>2. ASSUME NEW s \in Slots, ClientStep(s) PROVE ProtocolInv'
  <2>1. UNCHANGED <<agentPC, modelState, closing, proc>>
        /\ \A t \in Slots : t # s =>
              /\ agentQ'[t] = agentQ[t] /\ slotModel'[t] = slotModel[t]
              /\ stopSent'[t] = stopSent[t] /\ closed'[t] = closed[t]
    BY <1>2, ClientFrame
  <2>2. ASSUME NEW t \in Slots PROVE OwnSlot(t)' /\ OwnClose(t)'
    <3>1. CASE t = s
      BY <1>2, <3>1, ClientSlot, ClientClose
    <3>2. CASE t # s
      BY <2>1, <3>2 DEF ProtocolInv, OwnSlot, OwnClose
    <3> QED  BY <3>1, <3>2
  <2> QED  BY <1>2, <2>2, ClientTypes, ClientModels, ClientDone DEF ProtocolInv
<1>3. ASSUME NEW s \in Slots, AgentMoves(s) PROVE ProtocolInv'
  <2>0. AgentTypeOK /\ ProtocolTypes
    BY DEF ProtocolInv, ProtocolTypes
  <2>1. /\ AgentStep(s) \/ MonitorExit(s) \/ ProcessEnds(s)
        /\ UNCHANGED clientVars /\ stopSent' = stopSent /\ closed' = closed
    BY <1>3 DEF AgentMoves, AgentKill, clientVars
  <2>2. /\ slotModel' = slotModel
        /\ \A t \in Slots : t # s =>
             /\ agentQ'[t] = agentQ[t] /\ modelState'[t] = modelState[t]
             /\ proc'[t] = proc[t] /\ agentPC'[t] = agentPC[t]
             /\ closing'[t] = closing[t]
    BY <2>0, <2>1, AgentFrame
  <2>3. ASSUME NEW t \in Slots PROVE OwnSlot(t)' /\ OwnClose(t)'
    <3>1. CASE t = s
      <4>1. SlotInv(agentQ'[s], modelState'[s], proc'[s], agentPC'[s], closing'[s],
                    slotModel[s], stopSent[s])
        BY <2>0, <2>1, OwnFacts, AgentSlot
      <4>2. OwnSlot(s)'
        BY <2>1, <2>2, <4>1 DEF OwnSlot
      <4> QED  BY <2>1, <3>1, <4>2, AgentOwnClose
    <3>2. CASE t # s
      BY <2>1, <2>2, <3>2 DEF ProtocolInv, OwnSlot, OwnClose
    <3> QED  BY <3>1, <3>2
  <2>4. ProtocolTypes'
    <3>1. AgentJoined(s) => modelState[s].model # NoModel
      BY OwnFacts DEF AgentView, AgentJoined, NoState
    <3>2. AgentTypeOK'
      BY <2>0, <2>1, <3>1, AgentTypes
    <3> QED  BY <2>0, <2>1, <3>2 DEF ProtocolTypes
  <2>5. OneSlotEach'
    BY <2>2 DEF ProtocolInv, OneSlotEach
  <2> QED  BY <2>1, <2>3, <2>4, <2>5, AgentDone DEF ProtocolInv
<1> QED  BY <1>1, <1>2, <1>3 DEF ProtocolNext

-----------------------------------------------------------------------------
(* The inductive invariant: every slot is what its client believes it to   *)
(* be, and every callback's event has its one finished slot.               *)
THEOREM ProtocolInvariant == ProtocolSpec => []ProtocolInv
  BY ProtocolInitial, ProtocolStep, PTL DEF ProtocolSpec

(* No assertion of SlotAgent._runEventLoop fails, whichever way stops,     *)
(* ends of processes, releases and a close cross.                          *)
THEOREM AgentsKeepAssertions == ProtocolSpec => []AgentAssertions
<1>1. ProtocolInv => AgentAssertions
  <2> SUFFICES ASSUME ProtocolInv, NEW s \in Slots,
                      agentPC[s] = "loop", agentQ[s] # <<>>
               PROVE  LET t == Head(agentQ[s]).type IN
                      /\ t = "START" => modelState[s] = NoState
                      /\ t = "STOP" => /\ modelState[s].model # NoModel
                                       /\ ~modelState[s].stopRequested
                      /\ t = "EXITED" => modelState[s].model # NoModel
                      /\ t = "RELEASE" => modelState[s].stopPending /\ modelState[s].exited
    BY DEF AgentAssertions, Taking
  <2>1. /\ AgentView(modelState[s], proc[s], agentPC[s], closing[s])
        /\ QueueView(agentQ[s], modelState[s], proc[s])
        /\ agentQ[s] \in Seq(AgentEvent)
    BY OwnFacts DEF AgentTypeOK
  <2> QED  BY <2>1, HeadAsserted
<1> QED  BY <1>1, ProtocolInvariant, PTL

(* An agent whose thread has ended, at the close of a slot that was idle,  *)
(* running, being stopped or finished, leaves no process behind.           *)
THEOREM ClosedAgentsAreClean == ProtocolSpec => []ClosedAgentHasNoProcess
<1>1. ProtocolInv => ClosedAgentHasNoProcess
  BY OwnFacts DEF ClosedAgentHasNoProcess, AgentView
<1> QED  BY <1>1, ProtocolInvariant, PTL

(* A model's end is called back once, and for the model that the slot has. *)
THEOREM ModelsCallBackOnce == ProtocolSpec => []OneCallbackPerModel
<1>1. ProtocolInv => OneCallbackPerModel
  <2> SUFFICES ASSUME ProtocolInv PROVE OneCallbackPerModel
    OBVIOUS
  <2>1. \A i \in DOMAIN eventQ : \E s \in Slots : eventQ[i] = Done(slotModel[s])
    BY OwnDone
  <2>2. \A i, j \in DOMAIN eventQ : eventQ[i] = eventQ[j] => i = j
    BY DEF ProtocolInv, DoneEvents, OnlyDone
  <2> QED  BY <2>1, <2>2 DEF OneCallbackPerModel
<1> QED  BY <1>1, ProtocolInvariant, PTL

-----------------------------------------------------------------------------
(* The scheduler.                                                          *)

LEMMA InitInvariant == Init => IInv
<1> SUFFICES ASSUME Init PROVE IInv
  OBVIOUS
<1> USE DEF Init, AgentInit
<1>1. TypeOK
  <2>1. NoState \in ModelState
    BY DEF NoState, ModelState, MaybeModel
  <2>2. AgentTypeOK
    BY <2>1 DEF AgentTypeOK, MaybeModel, ProcState
  <2>3. ready \in [Models -> Nat]
    BY ControllerAssumption
  <2>4. activity \in SUBSET (Models \X Models)
    OBVIOUS
  <2>5. /\ waiting \in Seq(Models) /\ notifQ \in Seq(Models)
        /\ running \in [Models -> Slots \cup {NoSlot}]
        /\ unacked \in [Models -> Nat] /\ runnerDone \in [Slots -> BOOLEAN]
    OBVIOUS
  <2> QED  BY <2>2, <2>3, <2>4, <2>5 DEF TypeOK
<1>2. RunningModels = {}
  BY DEF RunningModels
<1>3. SlotAccounting
  BY <1>2 DEF SlotAccounting
<1>4. WaitingDiscipline
  BY DEF WaitingDiscipline
<1>5. SlotsConsistent
  <2> SUFFICES ASSUME NEW s \in Slots
               PROVE  SlotInv(agentQ[s], modelState[s], proc[s], agentPC[s],
                              closing[s], slotModel[s], s \in pendingPreempt)
    BY DEF SlotsConsistent
  <2>1. /\ agentQ[s] = <<>> /\ modelState[s] = NoState /\ proc[s] = "none"
        /\ agentPC[s] = "loop" /\ ~closing[s] /\ slotModel[s] = NoModel
    OBVIOUS
  <2>2. NoState.model = NoModel /\ ~NoState.stopPending /\ ~NoState.exited
    BY DEF NoState
  <2>3. /\ \A t : ~Holds(agentQ[s], t)
        /\ ~StopNow(agentQ[s]) /\ ~StopNext(agentQ[s]) /\ Ordered(agentQ[s])
    BY <2>1 DEF Holds, StopNow, StopNext, Ordered
  <2>4. AgentView(modelState[s], proc[s], agentPC[s], closing[s])
    BY <2>1, <2>2 DEF AgentView
  <2>5. QueueView(agentQ[s], modelState[s], proc[s])
    BY <2>3 DEF QueueView
  <2>6. ClientView(agentQ[s], modelState[s], slotModel[s], s \in pendingPreempt)
    BY <2>1, <2>2, <2>3 DEF ClientView
  <2> QED  BY <2>4, <2>5, <2>6 DEF SlotInv
<1>6. DoneEvents
  BY DEF DoneEvents
<1>7. ClosingDown
  BY DEF ClosingDown, Holds
<1>8. ReaderConsistent
  BY DEF ReaderConsistent
<1>9. NoLostWakeup
  BY DEF NoLostWakeup, OnItsWay
<1> QED  BY <1>1, <1>3, <1>4, <1>5, <1>6, <1>7, <1>8, <1>9 DEF IInv

(* A model in the running map and its slot belong to each other.           *)
LEMMA SlotOfRunning ==
  ASSUME IInv, NEW m \in Models, running[m] # NoSlot
  PROVE  /\ running[m] \in Slots
         /\ running[m] \notin freeSlots
         /\ slotModel[running[m]] = m
         /\ ~Holds(agentQ[running[m]], "CLOSE")
         /\ agentPC[running[m]] # "closed"
         /\ ctlPC \notin {"closing", "exited"}
<1>1. running[m] \in Slots /\ m \in RunningModels
  BY DEF IInv, TypeOK, RunningModels
<1>2. running[m] \notin freeSlots
  BY <1>1 DEF IInv, SlotAccounting
<1>3. /\ slotModel[running[m]] # NoModel
      /\ running[slotModel[running[m]]] = running[m]
  BY <1>1, <1>2 DEF IInv, SlotAccounting
<1>4. slotModel[running[m]] \in Models
  BY <1>1, <1>3 DEF IInv, TypeOK, AgentTypeOK, MaybeModel
<1>5. slotModel[running[m]] = m
  BY <1>1, <1>3, <1>4 DEF IInv, SlotAccounting, RunningModels
<1>6. ctlPC \notin {"closing", "exited"}
  BY <1>1 DEF IInv, ClosingDown
<1>7. ~Holds(agentQ[running[m]], "CLOSE") /\ agentPC[running[m]] # "closed"
  BY <1>1, <1>6 DEF IInv, ClosingDown
<1> QED  BY <1>1, <1>2, <1>5, <1>6, <1>7

(* The types of the state of one slot, for the lemmas about slots.         *)
LEMMA SlotTypes ==
  ASSUME IInv, NEW s \in Slots
  PROVE  /\ SlotType(agentQ[s], modelState[s], proc[s], agentPC[s], closing[s],
                     slotModel[s])
         /\ SlotInv(agentQ[s], modelState[s], proc[s], agentPC[s], closing[s],
                    slotModel[s], s \in pendingPreempt)
  BY DEF IInv, TypeOK, AgentTypeOK, SlotType, SlotsConsistent

(* A Done event is about a running model that has finished in its slot.    *)
LEMMA DoneEvent ==
  ASSUME IInv, NEW i \in DOMAIN eventQ, eventQ[i].type = "Done"
  PROVE  /\ eventQ[i].model \in Models
         /\ running[eventQ[i].model] \in Slots
         /\ Finished(running[eventQ[i].model], eventQ[i].model)
<1> DEFINE m == eventQ[i].model
<1>1. m \in Models
  <2>1. eventQ \in Seq(ClientEvent)
    BY DEF IInv, TypeOK, AgentTypeOK
  <2>2. eventQ[i] \in ClientEvent
    BY <2>1
  <2> QED  BY <2>2 DEF ClientEvent
<1>2. PICK s \in Slots : Finished(s, m)
  BY DEF IInv, DoneEvents
<1>3. slotModel[s] = m
  <2>1. modelState[s] # NoState
    BY <1>1, <1>2, ModelAssumption DEF Finished, NoState
  <2>2. ~Holds(agentQ[s], "START")
    BY <1>2, <2>1, SlotTypes DEF SlotInv, QueueView, Finished
  <2> QED  BY <1>2, <2>2, SlotTypes DEF SlotInv, ClientView, Finished
<1>4. running[m] = s
  BY <1>1, <1>3, ModelAssumption DEF IInv, SlotAccounting
<1> QED  BY <1>1, <1>2, <1>4

-----------------------------------------------------------------------------
(* What the head of the event queue can be.                                *)
LEMMA EventFacts ==
  ASSUME IInv, eventQ # <<>>
  PROVE  /\ Tail(eventQ) \in Seq(ClientEvent)
         /\ Head(eventQ) \in ClientEvent
         /\ Head(eventQ).type \in {"NewInput", "Done"} => Head(eventQ).model \in Models
         /\ Head(eventQ) = eventQ[1] /\ 1 \in DOMAIN eventQ
         /\ eventQ \in Seq(ClientEvent)
<1>1. eventQ \in Seq(ClientEvent)
  BY DEF IInv, TypeOK, AgentTypeOK
<1>2. /\ Tail(eventQ) \in Seq(ClientEvent) /\ Head(eventQ) \in ClientEvent
      /\ Head(eventQ) = eventQ[1] /\ 1 \in DOMAIN eventQ
  BY <1>1, TailFacts
<1> QED  BY <1>1, <1>2 DEF ClientEvent

(* RequestPreemption does nothing, or stops one running model.             *)
LEMMA PreemptionCases ==
  ASSUME NEW w, NEW r, NEW a, NEW p, NEW q, RequestPreemption(w, r, a, p, q)
  PROVE  \/ pendingPreempt' = p /\ agentQ' = q
         \/ \E m \in Models : /\ r[m] \in Slots \ p
                              /\ pendingPreempt' = p \cup {r[m]}
                              /\ agentQ' = Post(q, r[m], Command("STOP"))
  BY DEF RequestPreemption

(* The events posted to agents and to the event loop are events.           *)
LEMMA EventTypes ==
  /\ \A m \in Models : /\ Start(m) \in AgentEvent /\ Start(m).type = "START"
                       /\ Done(m) \in ClientEvent /\ Done(m).type = "Done"
                       /\ Done(m).model = m
                       /\ NewInput(m) \in ClientEvent /\ NewInput(m).type = "NewInput"
                       /\ NewInput(m).model = m
  /\ StopLoop \in ClientEvent /\ StopLoop.type = "StopLoop"
  /\ \A c \in {"STOP", "EXITED", "RELEASE", "CLOSE"} : Command(c) \in AgentEvent
  BY DEF Start, Done, NewInput, StopLoop, Command, AgentEvent, ClientEvent

(* The type of what RequestPreemption leaves.                              *)
LEMMA PreemptionType ==
  ASSUME NEW w, NEW r, NEW a, NEW p \in SUBSET Slots,
         NEW q \in [Slots -> Seq(AgentEvent)], RequestPreemption(w, r, a, p, q)
  PROVE  pendingPreempt' \in SUBSET Slots /\ agentQ' \in [Slots -> Seq(AgentEvent)]
<1>1. CASE pendingPreempt' = p /\ agentQ' = q
  BY <1>1
<1>2. CASE \E m \in Models : /\ r[m] \in Slots \ p
                             /\ pendingPreempt' = p \cup {r[m]}
                             /\ agentQ' = Post(q, r[m], Command("STOP"))
  BY <1>2, EventTypes, PostType
<1> QED  BY <1>1, <1>2, PreemptionCases

(* The agents' steps keep the types.                                       *)
LEMMA TypeAgent ==
  ASSUME IInv, NEW s \in Slots, AgentAction(s)
  PROVE  TypeOK'
<1>1. TypeOK /\ AgentTypeOK
  BY DEF IInv, TypeOK
<1>2. UNCHANGED <<waiting, running, activity, freeSlots, pendingPreempt, stopPending,
                  stopRemaining, ctlPC, toClose, stopReader, readerPC, unscanned,
                  found, notifQ, notifExists, ready, unacked, toNotify, runnerDone>>
  BY DEF AgentAction, ctlVars, readerVars, busVars
<1>3. AgentStep(s) \/ MonitorExit(s)
  BY DEF AgentAction
<1>4. AgentJoined(s) => modelState[s].model # NoModel
  BY SlotTypes DEF SlotInv, AgentView, AgentJoined, NoState
<1>5. AgentTypeOK'
  BY <1>1, <1>3, <1>4, AgentTypes
<1> QED  BY <1>1, <1>2, <1>5 DEF TypeOK

(* So do the handlers of the event loop,                                   *)
LEMMA TypeController ==
  ASSUME IInv, ControllerStep
  PROVE  TypeOK'
<1> USE DEF agentVars, ctlVars, readerVars, busVars
<1>0. /\ TypeOK /\ AgentTypeOK
      /\ running \in [Models -> Slots \cup {NoSlot}]
      /\ agentQ \in [Slots -> Seq(AgentEvent)]
      /\ slotModel \in [Slots -> MaybeModel]
      /\ waiting \in Seq(Models)
      /\ freeSlots \in SUBSET Slots /\ pendingPreempt \in SUBSET Slots
      /\ activity \in SUBSET (Models \X Models)
      /\ \A m \in Models : m \in MaybeModel
      /\ NoModel \in MaybeModel
  BY DEF IInv, TypeOK, AgentTypeOK, MaybeModel
<1>1. CASE HandleStopLoop
  BY <1>0, <1>1, EventFacts DEF HandleStopLoop, Getting, TakeEvent, TypeOK, AgentTypeOK
<1>2. CASE HandleNewInput
  <2> DEFINE m == Head(eventQ).model
  <2>1. m \in Models /\ Tail(eventQ) \in Seq(ClientEvent)
    BY <1>2, EventFacts DEF HandleNewInput, Getting
  <2>2. /\ eventQ' \in Seq(ClientEvent) /\ ctlPC' \in {"top", "get", "closing", "exited"}
        /\ UNCHANGED <<agentPC, modelState, closing, proc, stdinOpen, stopPending,
                       stopRemaining, toClose, readerVars, busVars, runnerDone>>
    BY <1>2, <2>1 DEF HandleNewInput, TakeEvent, LoopAgain
  <2>3. /\ waiting' \in Seq(Models)
        /\ running' \in [Models -> Slots \cup {NoSlot}]
        /\ freeSlots' \in SUBSET Slots
        /\ slotModel' \in [Slots -> MaybeModel]
    <3>1. \/ UNCHANGED <<waiting, running, freeSlots, slotModel>>
          \/ \E s \in freeSlots : /\ freeSlots' = freeSlots \ {s}
                                 /\ slotModel' = [slotModel EXCEPT ![s] = m]
                                 /\ running' = [running EXCEPT ![m] = s]
                                 /\ UNCHANGED waiting
          \/ /\ waiting' = Append(waiting, m)
             /\ UNCHANGED <<running, freeSlots, slotModel>>
      BY <1>2 DEF HandleNewInput, TouchRunning, StillWaiting, AssignFreeSlot,
                  WaitForSlot
    <3>2. Append(waiting, m) \in Seq(Models)
      BY <1>0, <2>1, AppendFacts
    <3> QED  BY <1>0, <2>1, <3>1, <3>2
  <2>4. activity' \in SUBSET (Models \X Models)
    <3>1. Touched(m, RunningModels) \in SUBSET (Models \X Models)
      BY <1>0, <2>1 DEF Touched, RunningModels
    <3> QED  BY <1>0, <1>2, <3>1 DEF HandleNewInput, TouchRunning, StillWaiting,
                                     AssignFreeSlot, WaitForSlot
  <2>5. /\ agentQ' \in [Slots -> Seq(AgentEvent)]
        /\ pendingPreempt' \in SUBSET Slots
    <3>1. CASE UNCHANGED <<agentQ, pendingPreempt>>
      BY <1>0, <3>1
    <3>2. CASE \E s \in freeSlots : agentQ' = Post(agentQ, s, Start(m))
               /\ UNCHANGED pendingPreempt
      <4>1. PICK s \in Slots : agentQ' = Post(agentQ, s, Start(m)) /\ UNCHANGED pendingPreempt
        BY <1>0, <3>2
      <4>2. Start(m) \in AgentEvent
        BY <2>1, EventTypes
      <4> QED  BY <1>0, <4>1, <4>2, PostType
    <3>3. CASE RequestPreemption(waiting', running, activity, pendingPreempt, agentQ)
      BY <1>0, <3>3, PreemptionType
    <3> QED  BY <1>2, <3>1, <3>2, <3>3 DEF HandleNewInput, TouchRunning,
                                           StillWaiting, AssignFreeSlot, WaitForSlot
  <2> QED  BY <1>0, <2>2, <2>3, <2>4, <2>5 DEF TypeOK, AgentTypeOK
<1>3. CASE HandleDone
  <2> DEFINE m == Head(eventQ).model
             s == running[m]
             w == Head(waiting)
             released == Post(agentQ, s, Command("RELEASE"))
  <2>1. m \in Models /\ s \in Slots /\ Tail(eventQ) \in Seq(ClientEvent)
    BY <1>3, EventFacts, DoneEvent DEF HandleDone, RecheckInput, FreeSlot, HandOver,
                                       Getting
  <2>2. /\ eventQ' \in Seq(ClientEvent) /\ ctlPC' \in {"top", "get", "closing", "exited"}
        /\ UNCHANGED <<agentPC, modelState, closing, proc, stdinOpen, stopPending,
                       stopRemaining, toClose, readerVars, busVars, runnerDone>>
    <3>1. NewInput(m) \in ClientEvent
      BY <2>1, EventTypes
    <3> QED  BY <1>3, <2>1, <3>1 DEF HandleDone, RecheckInput, FreeSlot, HandOver,
                                     LoopAgain
  <2>3. released \in [Slots -> Seq(AgentEvent)]
    BY <1>0, <2>1, PostType, EventTypes
  <2>4. CASE waiting = <<>>
    <3>1. Forgotten(m) \in SUBSET (Models \X Models)
      BY <1>0 DEF Forgotten
    <3>2. agentQ' \in [Slots -> Seq(AgentEvent)]
      BY <1>3, <2>3, <2>4 DEF HandleDone, RecheckInput, FreeSlot, HandOver
    <3>3. /\ running' = [running EXCEPT ![m] = NoSlot]
          /\ slotModel' = [slotModel EXCEPT ![s] = NoModel]
          /\ waiting' = waiting
          /\ freeSlots' = freeSlots \cup {s} /\ pendingPreempt' = pendingPreempt \ {s}
          /\ activity' = Forgotten(m)
      BY <1>3, <2>4 DEF HandleDone, RecheckInput, FreeSlot, HandOver
    <3>4. /\ running' \in [Models -> Slots \cup {NoSlot}]
          /\ slotModel' \in [Slots -> MaybeModel]
          /\ freeSlots' \in SUBSET Slots /\ pendingPreempt' \in SUBSET Slots
      BY <1>0, <2>1, <3>3
    <3> QED  BY <1>0, <2>2, <3>1, <3>2, <3>3, <3>4 DEF TypeOK, AgentTypeOK
  <2>5. CASE waiting # <<>>
    <3>1. w \in Models /\ Tail(waiting) \in Seq(Models)
      BY <1>0, <2>5, TailFacts
    <3>2. Forgotten(m) \cup ((RunningModels \ {m}) \X {w}) \in SUBSET (Models \X Models)
      BY <1>0, <3>1 DEF Forgotten, RunningModels
    <3>3. Post(released, s, Start(w)) \in [Slots -> Seq(AgentEvent)]
      BY <2>1, <2>3, <3>1, PostType, EventTypes
    <3>4. /\ RequestPreemption(waiting', running', activity', pendingPreempt \ {s},
                               Post(released, s, Start(w)))
          /\ waiting' = Tail(waiting)
          /\ running' = [running EXCEPT ![m] = NoSlot, ![w] = s]
          /\ activity' = Forgotten(m) \cup ((RunningModels \ {m}) \X {w})
          /\ slotModel' = [slotModel EXCEPT ![s] = w]
          /\ freeSlots' = freeSlots
      BY <1>3, <2>5 DEF HandleDone, RecheckInput, FreeSlot, HandOver
    <3>5. pendingPreempt \ {s} \in SUBSET Slots
      BY <1>0
    <3>6. /\ agentQ' \in [Slots -> Seq(AgentEvent)]
          /\ pendingPreempt' \in SUBSET Slots
      BY <3>3, <3>4, <3>5, PreemptionType
    <3>7. /\ running' \in [Models -> Slots \cup {NoSlot}]
          /\ slotModel' \in [Slots -> MaybeModel]
      BY <1>0, <2>1, <3>1, <3>4
    <3> QED  BY <1>0, <2>2, <3>1, <3>2, <3>4, <3>6, <3>7 DEF TypeOK, AgentTypeOK
  <2> QED  BY <2>4, <2>5
<1>4. CASE LoopTop
  <2>1. Command("STOP") \in AgentEvent
    BY EventTypes
  <2>2. /\ agentQ' \in [Slots -> Seq(AgentEvent)]
        /\ pendingPreempt' \in SUBSET Slots
        /\ stopRemaining' \in BOOLEAN
        /\ ctlPC' \in {"top", "get", "closing", "exited"}
        /\ toClose' \in SUBSET Slots
    <3>1. CASE RunningModels # {} /\ waiting = <<>> /\ ~stopRemaining
      <4> DEFINE S == {running[m] : m \in RunningModels} \ pendingPreempt
      <4>1. S \in SUBSET Slots
        BY <1>0 DEF RunningModels
      <4>2. /\ agentQ' = [s \in Slots |-> IF s \in S
                            THEN Append(agentQ[s], Command("STOP")) ELSE agentQ[s]]
            /\ pendingPreempt' = pendingPreempt \cup S
            /\ stopRemaining' = TRUE /\ ctlPC' = "get" /\ toClose' = toClose
        BY <1>4, <3>1 DEF LoopTop
      <4>3. agentQ' \in [Slots -> Seq(AgentEvent)]
        BY <1>0, <2>1, <4>2
      <4> QED  BY <1>0, <4>1, <4>2, <4>3 DEF TypeOK
    <3>2. CASE ~(RunningModels # {} /\ waiting = <<>> /\ ~stopRemaining)
      BY <1>0, <1>4, <3>2 DEF LoopTop, TypeOK
    <3> QED  BY <3>1, <3>2
  <2> QED  BY <1>0, <1>4, <2>2 DEF LoopTop, TypeOK, AgentTypeOK
<1>5. ASSUME NEW s \in Slots, CloseAgent(s)  PROVE TypeOK'
  <2>1. agentQ' \in [Slots -> Seq(AgentEvent)]
    BY <1>0, <1>5, PostType, EventTypes DEF CloseAgent
  <2> QED  BY <1>0, <1>5, <2>1 DEF CloseAgent, TypeOK, AgentTypeOK
<1>6. CASE LeaveLoop
  BY <1>0, <1>6 DEF LeaveLoop, TypeOK, AgentTypeOK
<1> QED  BY <1>1, <1>2, <1>3, <1>4, <1>5, <1>6 DEF ControllerStep

(* the notification reader and the other threads,                          *)
LEMMA TypeReader ==
  ASSUME IInv, ReaderStep \/ RequestStop
  PROVE  TypeOK'
<1> USE DEF agentVars, ctlVars, readerVars, busVars
<1>0. TypeOK /\ AgentTypeOK /\ eventQ \in Seq(ClientEvent) /\ notifQ \in Seq(Models)
  BY DEF IInv, TypeOK, AgentTypeOK
<1>1. CASE ReaderInit
  BY <1>0, <1>1 DEF ReaderInit, TypeOK, AgentTypeOK
<1>2. ASSUME NEW m \in Models, ReaderScan(m)  PROVE TypeOK'
  BY <1>0, <1>2 DEF ReaderScan, TypeOK, AgentTypeOK
<1>3. ASSUME NEW m \in Models, ReaderNotifyFound(m)  PROVE TypeOK'
  <2>1. eventQ' \in Seq(ClientEvent)
    BY <1>0, <1>3, EventTypes, AppendFacts DEF ReaderNotifyFound
  <2> QED  BY <1>0, <1>3, <2>1 DEF ReaderNotifyFound, TypeOK, AgentTypeOK
<1>4. CASE ReaderScanDone
  BY <1>0, <1>4 DEF ReaderScanDone, TypeOK, AgentTypeOK
<1>5. CASE ReaderForward
  <2>1. Head(notifQ) \in Models /\ Tail(notifQ) \in Seq(Models)
    BY <1>0, <1>5, TailFacts DEF ReaderForward
  <2>2. eventQ' \in Seq(ClientEvent)
    BY <1>0, <1>5, <2>1, EventTypes, AppendFacts DEF ReaderForward
  <2> QED  BY <1>0, <1>5, <2>1, <2>2 DEF ReaderForward, TypeOK, AgentTypeOK
<1>6. CASE ReaderLeave
  BY <1>0, <1>6 DEF ReaderLeave, TypeOK, AgentTypeOK
<1>7. CASE RequestStop
  <2>1. eventQ' \in Seq(ClientEvent)
    BY <1>0, <1>7, EventTypes, AppendFacts DEF RequestStop
  <2> QED  BY <1>0, <1>7, <2>1 DEF RequestStop, TypeOK, AgentTypeOK
<1> QED  BY <1>1, <1>2, <1>3, <1>4, <1>5, <1>6, <1>7 DEF ReaderStep

(* and the users of the message bus.                                       *)
LEMMA TypeBus ==
  ASSUME IInv, \/ \E m \in Models : Submit(m) \/ Notify(m)
               \/ \E s \in Slots : RunnerStep(s)
  PROVE  TypeOK'
<1> USE DEF agentVars, ctlVars, readerVars, busVars
<1>0. /\ TypeOK /\ AgentTypeOK /\ notifQ \in Seq(Models)
      /\ ready \in [Models -> Nat] /\ unacked \in [Models -> Nat]
  BY DEF IInv, TypeOK
<1>1. ASSUME NEW m \in Models, Submit(m)  PROVE TypeOK'
  BY <1>0, <1>1 DEF Submit, TypeOK, AgentTypeOK
<1>2. ASSUME NEW m \in Models, Notify(m)  PROVE TypeOK'
  <2>1. notifQ' = notifQ \/ notifQ' = Append(notifQ, m)
    BY <1>2 DEF Notify
  <2>2. notifQ' \in Seq(Models)
    <3>1. Append(notifQ, m) \in Seq(Models)
      BY <1>0
    <3> QED  BY <1>0, <2>1, <3>1
  <2> QED  BY <1>0, <1>2, <2>2 DEF Notify, TypeOK, AgentTypeOK
<1>3. ASSUME NEW s \in Slots, RunnerTake(s)  PROVE TypeOK'
  <2> DEFINE m == RunnerModel(s)
  <2>1. ready' \in [Models -> Nat] /\ unacked' \in [Models -> Nat]
    <3>1. CASE m \in Models
      BY <1>0, <1>3, <3>1 DEF RunnerTake
    <3>2. CASE m \notin Models
      BY <1>0, <1>3, <3>2 DEF RunnerTake
    <3> QED  BY <3>1, <3>2
  <2> QED  BY <1>0, <1>3, <2>1 DEF RunnerTake, TypeOK, AgentTypeOK
<1>4. ASSUME NEW s \in Slots, RunnerCheckpoint(s)  PROVE TypeOK'
  <2>1. unacked' \in [Models -> Nat]
    BY <1>0, <1>4 DEF RunnerCheckpoint
  <2> QED  BY <1>0, <1>4, <2>1 DEF RunnerCheckpoint, TypeOK, AgentTypeOK
<1>5. ASSUME NEW s \in Slots, RunnerDrained(s)  PROVE TypeOK'
  BY <1>0, <1>5 DEF RunnerDrained, TypeOK, AgentTypeOK
<1>6. ASSUME NEW s \in Slots, RunnerExit(s)  PROVE TypeOK'
  <2>1. unacked' \in [Models -> Nat]
    BY <1>0, <1>6 DEF RunnerExit
  <2>2. proc' \in [Slots -> ProcState]
    BY <1>0, <1>6 DEF RunnerExit, ProcessEnds, AgentTypeOK, ProcState
  <2> QED  BY <1>0, <1>6, <2>1, <2>2 DEF RunnerExit, ProcessEnds, TypeOK, AgentTypeOK
<1> QED  BY <1>1, <1>2, <1>3, <1>4, <1>5, <1>6 DEF RunnerStep

-----------------------------------------------------------------------------
(* The steps of an agent, its monitor thread and its process keep the      *)
(* slots consistent.                                                       *)
LEMMA SlotsAgent ==
  ASSUME IInv, NEW s \in Slots,
         AgentStep(s) \/ MonitorExit(s) \/ ProcessEnds(s),
         UNCHANGED pendingPreempt
  PROVE  SlotsConsistent'
<1>0. AgentTypeOK
  BY DEF IInv, TypeOK
<1>1. /\ slotModel' = slotModel
      /\ \A t \in Slots : t # s =>
           /\ agentQ'[t] = agentQ[t] /\ modelState'[t] = modelState[t]
           /\ proc'[t] = proc[t] /\ agentPC'[t] = agentPC[t]
           /\ closing'[t] = closing[t]
  BY <1>0, AgentFrame
<1>2. PICK pend \in BOOLEAN : pend <=> s \in pendingPreempt
  OBVIOUS
<1>3. SlotInv(agentQ'[s], modelState'[s], proc'[s], agentPC'[s], closing'[s],
              slotModel[s], pend)
  <2>1. SlotInv(agentQ[s], modelState[s], proc[s], agentPC[s], closing[s],
                slotModel[s], pend)
    BY <1>2 DEF IInv, SlotsConsistent, SlotInv, ClientView
  <2> QED  BY <1>0, <2>1, AgentSlot
<1> SUFFICES ASSUME NEW t \in Slots
             PROVE  SlotInv(agentQ'[t], modelState'[t], proc'[t], agentPC'[t],
                            closing'[t], slotModel'[t], t \in pendingPreempt')
  BY DEF SlotsConsistent
<1>4. CASE t # s
  BY <1>1, <1>4 DEF IInv, SlotsConsistent
<1>5. CASE t = s
  BY <1>1, <1>2, <1>3, <1>5 DEF SlotInv, ClientView
<1> QED  BY <1>4, <1>5

-----------------------------------------------------------------------------
(* The event loop's side: what it posts, on top of queues q, believed      *)
(* models sm and pending slots p that are consistent with the agents.      *)
Consistent(q, sm, p) ==
  /\ q \in [Slots -> Seq(AgentEvent)]
  /\ sm \in [Slots -> MaybeModel]
  /\ p \in SUBSET Slots
  /\ \A t \in Slots : SlotInv(q[t], modelState[t], proc[t], agentPC[t],
                              closing[t], sm[t], t \in p)

LEMMA ConsistentNow ==
  ASSUME IInv
  PROVE  Consistent(agentQ, slotModel, pendingPreempt)
  BY DEF IInv, TypeOK, AgentTypeOK, SlotsConsistent, Consistent

LEMMA ConsistentNext ==
  ASSUME Consistent(agentQ', slotModel', pendingPreempt'),
         UNCHANGED <<modelState, proc, agentPC, closing>>
  PROVE  SlotsConsistent'
  BY DEF Consistent, SlotsConsistent

(* A slot of consistent queues, with a constant for its pending flag.      *)
LEMMA OfConsistent ==
  ASSUME IInv, NEW q, NEW sm, NEW p, Consistent(q, sm, p), NEW s \in Slots
  PROVE  \E pend \in BOOLEAN :
           /\ pend <=> s \in p
           /\ SlotType(q[s], modelState[s], proc[s], agentPC[s], closing[s], sm[s])
           /\ SlotInv(q[s], modelState[s], proc[s], agentPC[s], closing[s], sm[s], pend)
<1>1. PICK pend \in BOOLEAN : pend <=> s \in p
  OBVIOUS
<1>2. SlotInv(q[s], modelState[s], proc[s], agentPC[s], closing[s], sm[s], pend)
  BY <1>1 DEF Consistent, SlotInv, ClientView
<1>3. SlotType(q[s], modelState[s], proc[s], agentPC[s], closing[s], sm[s])
  BY DEF IInv, TypeOK, AgentTypeOK, Consistent, SlotType
<1> QED  BY <1>1, <1>2, <1>3

LEMMA PostStartAll ==
  ASSUME IInv, NEW q, NEW sm, NEW p, Consistent(q, sm, p), NEW s \in Slots,
         NEW m \in Models, sm[s] = NoModel, s \notin p, ~Holds(q[s], "CLOSE")
  PROVE  Consistent(Post(q, s, Start(m)), [sm EXCEPT ![s] = m], p)
<1> DEFINE q2 == Post(q, s, Start(m))
           sm2 == [sm EXCEPT ![s] = m]
<1>1. /\ q2 \in [Slots -> Seq(AgentEvent)]
      /\ q2[s] = Append(q[s], Start(m))
      /\ \A t \in Slots : t # s => q2[t] = q[t]
  BY EventTypes, PostType DEF Consistent
<1>2. /\ sm2 \in [Slots -> MaybeModel] /\ sm2[s] = m
      /\ \A t \in Slots : t # s => sm2[t] = sm[t]
  BY DEF Consistent, MaybeModel
<1>3. SlotInv(Append(q[s], Start(m)), modelState[s], proc[s], agentPC[s], closing[s],
              m, FALSE)
  <2> DEFINE qs == q[s]
             st == modelState[s]
             cl == closing[s]
  <2>1. PICK pend \in BOOLEAN :
          /\ SlotType(qs, st, proc[s], agentPC[s], cl, NoModel)
          /\ SlotInv(qs, st, proc[s], agentPC[s], cl, NoModel, pend)
    BY OfConsistent
  <2>2. ~Holds(qs, "CLOSE")
    OBVIOUS
  <2> HIDE DEF qs, st, cl
  <2>3. SlotInv(Append(qs, Start(m)), st, proc[s], agentPC[s], cl, m, FALSE)
    BY <2>1, <2>2, PostStart
  <2> QED  BY <2>3 DEF qs, st, cl
<1>4. p \in SUBSET Slots
  BY DEF Consistent
<1>5. PICK pend \in BOOLEAN :
        /\ pend <=> s \in p
        /\ SlotInv(q2[s], modelState[s], proc[s], agentPC[s], closing[s], sm2[s], pend)
  BY <1>1, <1>2, <1>3
<1> HIDE DEF q2, sm2
<1>6. Consistent(q2, sm2, p)
  <2> SUFFICES ASSUME NEW t \in Slots
               PROVE  SlotInv(q2[t], modelState[t], proc[t], agentPC[t], closing[t],
                              sm2[t], t \in p)
    BY <1>1, <1>2, <1>4, <1>5 DEF Consistent
  <2>1. CASE t # s
    BY <1>1, <1>2, <1>4, <1>5, <2>1 DEF Consistent, SlotInv, ClientView
  <2>2. CASE t = s
    BY <1>5, <2>2 DEF SlotInv, ClientView
  <2> QED  BY <2>1, <2>2
<1> QED  BY <1>6 DEF q2, sm2

LEMMA PostStopAll ==
  ASSUME IInv, NEW q, NEW sm, NEW p, Consistent(q, sm, p), NEW s \in Slots,
         sm[s] \in Models, s \notin p, ~Holds(q[s], "CLOSE")
  PROVE  Consistent(Post(q, s, Command("STOP")), sm, p \cup {s})
<1> DEFINE q2 == Post(q, s, Command("STOP"))
           p2 == p \cup {s}
<1>1. /\ q2 \in [Slots -> Seq(AgentEvent)]
      /\ q2[s] = Append(q[s], Command("STOP"))
      /\ \A t \in Slots : t # s => q2[t] = q[t]
  BY EventTypes, PostType DEF Consistent
<1>2. SlotInv(Append(q[s], Command("STOP")), modelState[s], proc[s], agentPC[s],
              closing[s], sm[s], TRUE)
  <2> DEFINE qs == q[s]
             st == modelState[s]
             cl == closing[s]
             ms == sm[s]
  <2>1. PICK pend \in BOOLEAN :
          /\ pend <=> s \in p
          /\ SlotType(qs, st, proc[s], agentPC[s], cl, ms)
          /\ SlotInv(qs, st, proc[s], agentPC[s], cl, ms, pend)
    BY OfConsistent
  <2>2. ~Holds(qs, "CLOSE") /\ ms \in Models
    OBVIOUS
  <2> HIDE DEF qs, st, cl, ms
  <2>3. SlotInv(qs, st, proc[s], agentPC[s], cl, ms, FALSE)
    BY <2>1
  <2>4. SlotInv(Append(qs, Command("STOP")), st, proc[s], agentPC[s], cl, ms, TRUE)
    BY <2>1, <2>2, <2>3, PostStop
  <2> QED  BY <2>4 DEF qs, st, cl, ms
<1>3. /\ p2 \in SUBSET Slots /\ sm \in [Slots -> MaybeModel] /\ s \in p2
      /\ \A t \in Slots : t # s => (t \in p2 <=> t \in p)
  BY DEF Consistent
<1>4. PICK pend \in BOOLEAN :
        /\ pend <=> s \in p2
        /\ SlotInv(q2[s], modelState[s], proc[s], agentPC[s], closing[s], sm[s], pend)
  BY <1>1, <1>2
<1> HIDE DEF q2, p2
<1>5. Consistent(q2, sm, p2)
  <2> SUFFICES ASSUME NEW t \in Slots
               PROVE  SlotInv(q2[t], modelState[t], proc[t], agentPC[t], closing[t],
                              sm[t], t \in p2)
    BY <1>1, <1>3, <1>4 DEF Consistent
  <2>1. CASE t # s
    BY <1>1, <1>3, <1>4, <2>1 DEF Consistent, SlotInv, ClientView
  <2>2. CASE t = s
    BY <1>4, <2>2 DEF SlotInv, ClientView
  <2> QED  BY <2>1, <2>2
<1> QED  BY <1>5 DEF q2, p2

LEMMA PostReleaseAll ==
  ASSUME IInv, NEW q, NEW sm, NEW p, Consistent(q, sm, p), NEW s \in Slots,
         modelState[s] # NoState, modelState[s].exited,
         ~Holds(q[s], "RELEASE"), ~Holds(q[s], "CLOSE")
  PROVE  Consistent(Post(q, s, Command("RELEASE")), [sm EXCEPT ![s] = NoModel], p \ {s})
<1> DEFINE q2 == Post(q, s, Command("RELEASE"))
           sm2 == [sm EXCEPT ![s] = NoModel]
           p2 == p \ {s}
<1>1. /\ q2 \in [Slots -> Seq(AgentEvent)]
      /\ q2[s] = Append(q[s], Command("RELEASE"))
      /\ \A t \in Slots : t # s => q2[t] = q[t]
  <2>1. Command("RELEASE") \in AgentEvent
    BY EventTypes
  <2> QED  BY <2>1, PostType DEF Consistent
<1>2. /\ sm2 \in [Slots -> MaybeModel] /\ sm2[s] = NoModel
      /\ \A t \in Slots : t # s => sm2[t] = sm[t]
  BY DEF Consistent, MaybeModel
<1>3. SlotInv(Append(q[s], Command("RELEASE")), modelState[s], proc[s], agentPC[s],
              closing[s], NoModel, FALSE)
  <2> DEFINE qs == q[s]
             st == modelState[s]
             cl == closing[s]
             ms == sm[s]
  <2>1. PICK pend \in BOOLEAN :
          /\ SlotType(qs, st, proc[s], agentPC[s], cl, ms)
          /\ SlotInv(qs, st, proc[s], agentPC[s], cl, ms, pend)
    BY OfConsistent
  <2>2. ~Holds(qs, "CLOSE") /\ ~Holds(qs, "RELEASE") /\ st # NoState /\ st.exited
    OBVIOUS
  <2> HIDE DEF qs, st, cl, ms
  <2>3. SlotInv(Append(qs, Command("RELEASE")), st, proc[s], agentPC[s], cl, NoModel, FALSE)
    BY <2>1, <2>2, PostRelease
  <2> QED  BY <2>3 DEF qs, st, cl
<1>4. /\ p2 \in SUBSET Slots /\ s \notin p2
      /\ \A t \in Slots : t # s => (t \in p2 <=> t \in p)
  BY DEF Consistent
<1>5. PICK pend \in BOOLEAN :
        /\ pend <=> s \in p2
        /\ SlotInv(q2[s], modelState[s], proc[s], agentPC[s], closing[s], sm2[s], pend)
  BY <1>1, <1>2, <1>3
<1> HIDE DEF q2, sm2, p2
<1>6. Consistent(q2, sm2, p2)
  <2> SUFFICES ASSUME NEW t \in Slots
               PROVE  SlotInv(q2[t], modelState[t], proc[t], agentPC[t], closing[t],
                              sm2[t], t \in p2)
    BY <1>1, <1>2, <1>4, <1>5 DEF Consistent
  <2>1. CASE t # s
    BY <1>1, <1>2, <1>4, <1>5, <2>1 DEF Consistent, SlotInv, ClientView
  <2>2. CASE t = s
    BY <1>5, <2>2 DEF SlotInv, ClientView
  <2> QED  BY <2>1, <2>2
<1> QED  BY <1>6 DEF q2, sm2, p2

LEMMA PreemptionAll ==
  ASSUME IInv, NEW w, NEW r, NEW a, NEW q, NEW sm, NEW p, Consistent(q, sm, p),
         RequestPreemption(w, r, a, p, q),
         \A m \in Models : r[m] \in Slots => sm[r[m]] \in Models /\ ~Holds(q[r[m]], "CLOSE")
  PROVE  Consistent(agentQ', sm, pendingPreempt')
<1>1. CASE pendingPreempt' = p /\ agentQ' = q
  BY <1>1
<1>2. ASSUME NEW m \in Models, r[m] \in Slots \ p, pendingPreempt' = p \cup {r[m]},
             agentQ' = Post(q, r[m], Command("STOP"))
      PROVE  Consistent(agentQ', sm, pendingPreempt')
  <2> DEFINE s == r[m]
  <2>1. s \in Slots /\ s \notin p /\ sm[s] \in Models /\ ~Holds(q[s], "CLOSE")
    BY <1>2
  <2> HIDE DEF s
  <2>2. Consistent(Post(q, s, Command("STOP")), sm, p \cup {s})
    BY <2>1, PostStopAll
  <2> QED  BY <1>2, <2>2 DEF s
<1> QED  BY <1>1, <1>2, PreemptionCases

(* Before the agents are closed no agent has a CLOSE on its way.           *)
LEMMA NoClose ==
  ASSUME IInv, ctlPC \in {"top", "get"}, NEW s \in Slots
  PROVE  ~Holds(agentQ[s], "CLOSE") /\ agentPC[s] # "closed"
  BY DEF IInv, ClosingDown

LEMMA SlotsNewInput ==
  ASSUME IInv, HandleNewInput
  PROVE  SlotsConsistent'
<1> DEFINE m == Head(eventQ).model
<1>1. /\ m \in Models /\ ctlPC = "get"
      /\ UNCHANGED <<modelState, proc, agentPC, closing>>
  BY EventFacts DEF HandleNewInput, Getting
<1>2. CASE UNCHANGED <<pendingPreempt, slotModel, agentQ>>
  BY <1>1, <1>2, ConsistentNow, ConsistentNext
<1>3. ASSUME NEW s \in freeSlots, slotModel' = [slotModel EXCEPT ![s] = m],
             agentQ' = Post(agentQ, s, Start(m)), UNCHANGED pendingPreempt
      PROVE  SlotsConsistent'
  <2>1. s \in Slots /\ slotModel[s] = NoModel /\ s \notin pendingPreempt
    BY DEF IInv, SlotAccounting, TypeOK
  <2>2. ~Holds(agentQ[s], "CLOSE")
    BY <1>1, <2>1, NoClose
  <2> HIDE DEF m
  <2>3. Consistent(agentQ', slotModel', pendingPreempt')
    BY <1>1, <1>3, <2>1, <2>2, ConsistentNow, PostStartAll
  <2> QED  BY <1>1, <2>3, ConsistentNext
<1>4. CASE /\ RequestPreemption(waiting', running, activity, pendingPreempt, agentQ)
           /\ UNCHANGED slotModel
  <2>1. ASSUME NEW n \in Models, running[n] \in Slots
        PROVE  slotModel[running[n]] \in Models /\ ~Holds(agentQ[running[n]], "CLOSE")
    BY <2>1, SlotOfRunning, ControllerAssumption
  <2>2. Consistent(agentQ', slotModel', pendingPreempt')
    BY <1>4, <2>1, ConsistentNow, PreemptionAll
  <2> QED  BY <1>1, <2>2, ConsistentNext
<1> QED  BY <1>2, <1>3, <1>4 DEF HandleNewInput, TouchRunning, StillWaiting,
                                 AssignFreeSlot, WaitForSlot

LEMMA SlotsDone ==
  ASSUME IInv, HandleDone
  PROVE  SlotsConsistent'
<1> DEFINE m == Head(eventQ).model
           s == running[m]
           w == Head(waiting)
           q1 == Post(agentQ, s, Command("RELEASE"))
           sm1 == [slotModel EXCEPT ![s] = NoModel]
           p1 == pendingPreempt \ {s}
           q2 == Post(q1, s, Start(w))
<1>1. /\ m \in Models /\ s \in Slots /\ Finished(s, m) /\ ctlPC = "get"
      /\ UNCHANGED <<modelState, proc, agentPC, closing>>
  BY EventFacts, DoneEvent DEF HandleDone, RecheckInput, FreeSlot, HandOver, Getting
<1>2. Consistent(q1, sm1, p1)
  <2>1. /\ modelState[s] # NoState /\ modelState[s].exited
        /\ ~Holds(agentQ[s], "RELEASE") /\ ~Holds(agentQ[s], "CLOSE")
    BY <1>1, NoClose, ModelAssumption DEF Finished, NoState
  <2> HIDE DEF s
  <2> QED  BY <1>1, <2>1, ConsistentNow, PostReleaseAll
<1>3. CASE waiting = <<>>
  <2>1. /\ slotModel' = sm1 /\ agentQ' = q1 /\ pendingPreempt' = p1
    BY <1>3 DEF HandleDone, RecheckInput, FreeSlot, HandOver
  <2> QED  BY <1>1, <1>2, <2>1, ConsistentNext
<1>4. CASE waiting # <<>>
  <2>1. /\ running' = [running EXCEPT ![m] = NoSlot, ![w] = s]
        /\ slotModel' = [slotModel EXCEPT ![s] = w]
        /\ RequestPreemption(waiting', running', activity', p1, q2)
    BY <1>4 DEF HandleDone, RecheckInput, FreeSlot, HandOver
  <2>2. w \in Models /\ running[w] = NoSlot /\ w # m
    <3>1. waiting \in Seq(Models)
      BY DEF IInv, TypeOK
    <3>2. w \in Models /\ 1 \in DOMAIN waiting /\ w = waiting[1]
      BY <1>4, <3>1, TailFacts
    <3>3. running[w] = NoSlot
      BY <3>2 DEF IInv, WaitingDiscipline
    <3> QED  BY <1>1, <3>2, <3>3, ControllerAssumption
  <2>3. /\ q1 \in [Slots -> Seq(AgentEvent)] /\ q1[s] = Append(agentQ[s], Command("RELEASE"))
        /\ \A t \in Slots : t # s => q1[t] = agentQ[t]
    <3>1. Command("RELEASE") \in AgentEvent /\ agentQ \in [Slots -> Seq(AgentEvent)]
      BY EventTypes DEF IInv, TypeOK, AgentTypeOK
    <3> HIDE DEF s
    <3> QED  BY <1>1, <3>1, PostType
  <2>4. /\ q2 \in [Slots -> Seq(AgentEvent)] /\ q2[s] = Append(q1[s], Start(w))
        /\ \A t \in Slots : t # s => q2[t] = q1[t]
    <3>1. Start(w) \in AgentEvent
      BY <2>2, EventTypes
    <3> HIDE DEF s, q1, w
    <3> QED  BY <1>1, <2>3, <3>1, PostType
  <2>5. \A t \in Slots : ~Holds(q1[t], "CLOSE") /\ ~Holds(q2[t], "CLOSE")
    <3>1. /\ Command("RELEASE") \in AgentEvent /\ Command("RELEASE").type # "CLOSE"
          /\ Start(w) \in AgentEvent /\ Start(w).type # "CLOSE"
      BY <2>2, EventTypes DEF Command
    <3>2. \A t \in Slots : agentQ[t] \in Seq(AgentEvent) /\ ~Holds(agentQ[t], "CLOSE")
      BY <1>1, NoClose DEF IInv, TypeOK, AgentTypeOK
    <3> HIDE DEF s, q1, q2, w
    <3>3. ~Holds(q1[s], "CLOSE") /\ q1[s] \in Seq(AgentEvent)
      BY <1>1, <2>3, <3>1, <3>2, HoldsAppend
    <3>4. ~Holds(q2[s], "CLOSE")
      BY <2>4, <3>1, <3>3, HoldsAppend
    <3> QED  BY <2>3, <2>4, <3>2, <3>3, <3>4
  <2>6. Consistent(q2, slotModel', p1)
    <3>1. sm1[s] = NoModel /\ s \notin p1 /\ slotModel' = [sm1 EXCEPT ![s] = w]
      <4>1. slotModel \in [Slots -> MaybeModel]
        BY DEF IInv, TypeOK, AgentTypeOK
      <4> QED  BY <1>1, <2>1, <4>1
    <3>2. ~Holds(q1[s], "CLOSE")
      BY <1>1, <2>5
    <3> HIDE DEF s, q1, sm1, p1, w
    <3> QED  BY <1>1, <1>2, <2>2, <3>1, <3>2, PostStartAll DEF q2
  <2>7. ASSUME NEW n \in Models, running'[n] \in Slots
        PROVE  slotModel'[running'[n]] \in Models /\ ~Holds(q2[running'[n]], "CLOSE")
    <3>1. slotModel \in [Slots -> MaybeModel] /\ running \in [Models -> Slots \cup {NoSlot}]
      BY DEF IInv, TypeOK, AgentTypeOK
    <3>2. CASE n = w
      BY <1>1, <2>1, <2>2, <2>5, <3>1, <3>2
    <3>3. CASE n # w /\ n = m
      BY <1>1, <2>1, <2>2, <2>7, <3>1, <3>3, ControllerAssumption
    <3>4. CASE n # w /\ n # m
      <4>1. running'[n] = running[n] /\ running[n] # NoSlot /\ running[n] \in Slots
        BY <2>1, <2>7, <3>1, <3>4, ControllerAssumption
      <4>2. slotModel[running[n]] = n
        BY <4>1, SlotOfRunning
      <4>3. slotModel'[running[n]] \in Models
        BY <1>1, <2>1, <2>2, <3>1, <4>1, <4>2
      <4> QED  BY <2>5, <4>1, <4>3
    <3> QED  BY <3>2, <3>3, <3>4
  <2>8. Consistent(agentQ', slotModel', pendingPreempt')
    <3> HIDE DEF q2, p1
    <3> QED  BY <2>1, <2>6, <2>7, PreemptionAll
  <2> QED  BY <1>1, <2>8, ConsistentNext
<1> QED  BY <1>3, <1>4

(* The stop of all remaining models: one STOP per running slot that has    *)
(* none on its way.                                                        *)
LEMMA SlotsTop ==
  ASSUME IInv, LoopTop
  PROVE  SlotsConsistent'
<1>1. ctlPC = "top" /\ UNCHANGED <<slotModel, modelState, proc, agentPC, closing>>
  BY DEF LoopTop
<1>2. CASE UNCHANGED <<agentQ, pendingPreempt>>
  BY <1>1, <1>2, ConsistentNow, ConsistentNext
<1>3. CASE RunningModels # {} /\ waiting = <<>> /\ ~stopRemaining
  <2> DEFINE S == {running[m] : m \in RunningModels} \ pendingPreempt
  <2>1. /\ agentQ' = [s \in Slots |-> IF s \in S THEN Append(agentQ[s], Command("STOP"))
                                      ELSE agentQ[s]]
        /\ pendingPreempt' = pendingPreempt \cup S
    BY <1>3 DEF LoopTop
  <2>2. ASSUME NEW s \in Slots, s \in S
        PROVE  slotModel[s] \in Models /\ s \notin pendingPreempt
    <3>1. PICK m \in Models : running[m] = s /\ running[m] # NoSlot
      BY <2>2 DEF RunningModels
    <3> QED  BY <2>2, <3>1, SlotOfRunning
  <2>3. agentQ' \in [Slots -> Seq(AgentEvent)] /\ pendingPreempt' \in SUBSET Slots
    <3>1. TypeOK'
      BY TypeController DEF ControllerStep
    <3> QED  BY <3>1 DEF TypeOK, AgentTypeOK
  <2> HIDE DEF S
  <2>4. ASSUME NEW s \in Slots
        PROVE  SlotInv(agentQ'[s], modelState[s], proc[s], agentPC[s], closing[s],
                       slotModel[s], s \in pendingPreempt')
    <3>1. CASE s \notin S
      <4>1. agentQ'[s] = agentQ[s] /\ (s \in pendingPreempt' <=> s \in pendingPreempt)
        BY <2>1, <3>1
      <4> QED  BY <4>1 DEF IInv, SlotsConsistent, SlotInv, ClientView
    <3>2. CASE s \in S
      <4>1. Consistent(Post(agentQ, s, Command("STOP")), slotModel, pendingPreempt \cup {s})
        BY <1>1, <2>2, <3>2, ConsistentNow, PostStopAll, NoClose
      <4>2. /\ agentQ'[s] = Append(agentQ[s], Command("STOP")) /\ s \in pendingPreempt'
            /\ Post(agentQ, s, Command("STOP"))[s] = Append(agentQ[s], Command("STOP"))
        <5>1. agentQ \in [Slots -> Seq(AgentEvent)]
          BY DEF IInv, TypeOK, AgentTypeOK
        <5> QED  BY <2>1, <3>2, <5>1 DEF Post
      <4> QED  BY <4>1, <4>2 DEF Consistent, SlotInv, ClientView
    <3> QED  BY <3>1, <3>2
  <2> QED  BY <1>1, <2>4 DEF SlotsConsistent
<1> QED  BY <1>2, <1>3 DEF LoopTop

LEMMA SlotsClose ==
  ASSUME IInv, NEW s \in Slots, CloseAgent(s)
  PROVE  SlotsConsistent'
<1> DEFINE q == agentQ[s]
           st == modelState[s]
           cl == closing[s]
<1>1. /\ agentQ' = Post(agentQ, s, Command("CLOSE")) /\ ctlPC = "closing" /\ s \in toClose
      /\ UNCHANGED <<slotModel, pendingPreempt, modelState, proc, agentPC, closing>>
  BY DEF CloseAgent
<1>2. ~Holds(q, "CLOSE") /\ slotModel[s] = NoModel
  BY <1>1 DEF IInv, ClosingDown, SlotAccounting
<1>3. /\ agentQ'[s] = Append(q, Command("CLOSE"))
      /\ \A t \in Slots : t # s => agentQ'[t] = agentQ[t]
  <2>1. agentQ \in [Slots -> Seq(AgentEvent)]
    BY DEF IInv, TypeOK, AgentTypeOK
  <2> QED  BY <1>1, <2>1 DEF Post
<1>4. PICK pend \in BOOLEAN :
        /\ pend <=> s \in pendingPreempt
        /\ SlotType(q, st, proc[s], agentPC[s], cl, slotModel[s])
        /\ SlotInv(q, st, proc[s], agentPC[s], cl, slotModel[s], pend)
  BY ConsistentNow, OfConsistent
<1>5. SlotInv(Append(q, Command("CLOSE")), st, proc[s], agentPC[s], cl, NoModel, pend)
  <2> HIDE DEF q, st, cl
  <2> QED  BY <1>2, <1>4, PostClose
<1>6. ASSUME NEW t \in Slots
      PROVE  SlotInv(agentQ'[t], modelState[t], proc[t], agentPC[t], closing[t],
                     slotModel[t], t \in pendingPreempt)
  <2>1. CASE t # s
    BY <1>3, <2>1 DEF IInv, SlotsConsistent
  <2>2. CASE t = s
    BY <1>2, <1>3, <1>4, <1>5, <2>2 DEF SlotInv, ClientView
  <2> QED  BY <2>1, <2>2
<1> QED  BY <1>1, <1>6 DEF SlotsConsistent

(* All steps.                                                              *)
LEMMA TypeStep == IInv /\ [Next]_vars => TypeOK'
<1> SUFFICES ASSUME IInv, [Next]_vars PROVE TypeOK'
  OBVIOUS
<1>1. CASE UNCHANGED vars
  BY <1>1 DEF vars, agentVars, ctlVars, readerVars, busVars, IInv, TypeOK, AgentTypeOK
<1>2. CASE Next
  BY <1>2, TypeAgent, TypeController, TypeReader, TypeBus DEF Next
<1> QED  BY <1>1, <1>2

LEMMA SlotsStep == IInv /\ [Next]_vars => SlotsConsistent'
<1> SUFFICES ASSUME IInv, [Next]_vars PROVE SlotsConsistent'
  OBVIOUS
<1> USE DEF agentVars, ctlVars, readerVars, busVars
<1>1. ASSUME UNCHANGED <<slotModel, agentQ, agentPC, modelState, closing, proc,
                         pendingPreempt>>
      PROVE  SlotsConsistent'
  BY <1>1, ConsistentNow, ConsistentNext
<1>2. CASE UNCHANGED vars
  BY <1>1, <1>2 DEF vars
<1>3. ASSUME NEW m \in Models, Submit(m) \/ Notify(m)  PROVE SlotsConsistent'
  BY <1>1, <1>3 DEF Submit, Notify
<1>4. CASE ReaderStep
  BY <1>1, <1>4 DEF ReaderStep, ReaderInit, ReaderScan, ReaderNotifyFound,
                    ReaderScanDone, ReaderForward, ReaderLeave
<1>5. CASE RequestStop
  BY <1>1, <1>5 DEF RequestStop
<1>6. CASE ControllerStep
  <2>1. CASE HandleStopLoop
    BY <1>1, <2>1 DEF HandleStopLoop
  <2>2. CASE LeaveLoop
    BY <1>1, <2>2 DEF LeaveLoop
  <2> QED  BY <1>6, <2>1, <2>2, SlotsNewInput, SlotsDone, SlotsTop, SlotsClose
           DEF ControllerStep
<1>7. ASSUME NEW s \in Slots, AgentAction(s)  PROVE SlotsConsistent'
  BY <1>7, SlotsAgent DEF AgentAction
<1>8. ASSUME NEW s \in Slots, RunnerStep(s)  PROVE SlotsConsistent'
  <2>1. CASE RunnerTake(s) \/ RunnerCheckpoint(s) \/ RunnerDrained(s)
    BY <1>1, <2>1 DEF RunnerTake, RunnerCheckpoint, RunnerDrained
  <2>2. CASE RunnerExit(s)
    BY <2>2, SlotsAgent DEF RunnerExit
  <2> QED  BY <1>8, <2>1, <2>2 DEF RunnerStep
<1> QED  BY <1>2, <1>3, <1>4, <1>5, <1>6, <1>7, <1>8 DEF Next

-----------------------------------------------------------------------------
(* What the other steps leave of the event loop's state.                   *)
LEMMA LoopFrame ==
  ASSUME [Next]_vars
  PROVE  \/ ControllerStep
         \/ UNCHANGED <<waiting, running, freeSlots, slotModel, pendingPreempt,
                        ctlPC, toClose>>
<1> USE DEF agentVars, ctlVars, readerVars, busVars
<1>1. CASE UNCHANGED vars
  BY <1>1 DEF vars
<1>2. ASSUME NEW m \in Models, Submit(m) \/ Notify(m)
      PROVE  UNCHANGED <<waiting, running, freeSlots, slotModel, pendingPreempt,
                         ctlPC, toClose>>
  BY <1>2 DEF Submit, Notify
<1>3. CASE ReaderStep \/ RequestStop
  BY <1>3 DEF ReaderStep, ReaderInit, ReaderScan, ReaderNotifyFound, ReaderScanDone,
              ReaderForward, ReaderLeave, RequestStop
<1>4. ASSUME NEW s \in Slots, AgentAction(s)
      PROVE  UNCHANGED <<waiting, running, freeSlots, slotModel, pendingPreempt,
                         ctlPC, toClose>>
  <2>1. UNCHANGED slotModel
    BY <1>4 DEF AgentAction, AgentStep, AgentStart, AgentStop, AgentExited,
                AgentRelease, AgentClose, AgentJoined, MonitorExit
  <2> QED  BY <1>4, <2>1 DEF AgentAction
<1>5. ASSUME NEW s \in Slots, RunnerStep(s)
      PROVE  UNCHANGED <<waiting, running, freeSlots, slotModel, pendingPreempt,
                         ctlPC, toClose>>
  BY <1>5 DEF RunnerStep, RunnerTake, RunnerCheckpoint, RunnerDrained, RunnerExit,
              ProcessEnds
<1> QED  BY <1>1, <1>2, <1>3, <1>4, <1>5 DEF Next

-----------------------------------------------------------------------------
(* The accounting of slots.                                                *)
LEMMA AccountingNewInput ==
  ASSUME IInv, HandleNewInput
  PROVE  SlotAccounting'
<1> DEFINE m == Head(eventQ).model
<1>0. /\ SlotAccounting /\ m \in Models
      /\ running \in [Models -> Slots \cup {NoSlot}] /\ slotModel \in [Slots -> MaybeModel]
      /\ NoSlot \notin Slots /\ NoModel \notin Models
  BY EventFacts, ControllerAssumption, ModelAssumption
     DEF HandleNewInput, Getting, IInv, TypeOK, AgentTypeOK
<1>1. CASE UNCHANGED <<running, freeSlots, slotModel, pendingPreempt>>
  BY <1>0, <1>1 DEF SlotAccounting, RunningModels
<1>2. ASSUME NEW s \in freeSlots, running[m] = NoSlot,
             freeSlots' = freeSlots \ {s},
             slotModel' = [slotModel EXCEPT ![s] = m],
             running' = [running EXCEPT ![m] = s], UNCHANGED pendingPreempt
      PROVE  SlotAccounting'
  <2> HIDE DEF m
  <2>1. /\ s \in Slots
        /\ running'[m] = s /\ \A n \in Models : n # m => running'[n] = running[n]
        /\ slotModel'[s] = m /\ \A t \in Slots : t # s => slotModel'[t] = slotModel[t]
        /\ \A n \in Models : running[n] # s
    BY <1>0, <1>2 DEF SlotAccounting, RunningModels
  <2>2. \A n, k \in RunningModels' : running'[n] = running'[k] => n = k
    BY <1>0, <2>1 DEF SlotAccounting, RunningModels
  <2>3. freeSlots' = Slots \ {running'[n] : n \in RunningModels'}
    BY <1>0, <1>2, <2>1 DEF SlotAccounting, RunningModels
  <2>4. \A t \in Slots : IF t \in freeSlots' THEN slotModel'[t] = NoModel
                         ELSE slotModel'[t] # NoModel /\ running'[slotModel'[t]] = t
    <3> SUFFICES ASSUME NEW t \in Slots, t # s
                 PROVE  IF t \in freeSlots' THEN slotModel'[t] = NoModel
                        ELSE slotModel'[t] # NoModel /\ running'[slotModel'[t]] = t
      BY <1>0, <1>2, <2>1
    <3>1. t \in freeSlots' <=> t \in freeSlots
      BY <1>2
    <3>2. CASE t \in freeSlots
      BY <1>0, <2>1, <3>1, <3>2 DEF SlotAccounting
    <3>3. CASE t \notin freeSlots
      <4>1. slotModel[t] # NoModel /\ running[slotModel[t]] = t /\ slotModel[t] \in Models
        BY <1>0, <3>3 DEF SlotAccounting, MaybeModel
      <4>2. slotModel[t] # m
        BY <1>0, <1>2, <4>1
      <4> QED  BY <2>1, <3>1, <3>3, <4>1, <4>2
    <3> QED  BY <3>2, <3>3
  <2>5. pendingPreempt' \cap freeSlots' = {}
    BY <1>0, <1>2 DEF SlotAccounting
  <2> QED  BY <2>2, <2>3, <2>4, <2>5 DEF SlotAccounting
<1>3. CASE /\ RequestPreemption(waiting', running, activity, pendingPreempt, agentQ)
           /\ UNCHANGED <<running, freeSlots, slotModel>>
  <2>1. pendingPreempt' \cap freeSlots = {}
    <3>1. \A k \in Models : running[k] \in Slots => running[k] \notin freeSlots
      BY <1>0 DEF SlotAccounting, RunningModels
    <3> QED  BY <1>0, <1>3, <3>1, PreemptionCases DEF SlotAccounting
  <2> QED  BY <1>0, <1>3, <2>1 DEF SlotAccounting, RunningModels
<1> QED  BY <1>1, <1>2, <1>3 DEF HandleNewInput, TouchRunning, StillWaiting,
                                 AssignFreeSlot, WaitForSlot

(* The first waiting model is not running, and waits once.                 *)
LEMMA FirstWaiting ==
  ASSUME IInv, waiting # <<>>
  PROVE  /\ Head(waiting) \in Models
         /\ running[Head(waiting)] = NoSlot
         /\ Tail(waiting) \in Seq(Models)
         /\ \A i \in DOMAIN Tail(waiting) : /\ i + 1 \in DOMAIN waiting
                                            /\ Tail(waiting)[i] = waiting[i + 1]
                                            /\ Tail(waiting)[i] # Head(waiting)
<1>1. waiting \in Seq(Models)
  BY DEF IInv, TypeOK
<1>2. /\ Head(waiting) \in Models /\ 1 \in DOMAIN waiting /\ Head(waiting) = waiting[1]
      /\ Tail(waiting) \in Seq(Models)
      /\ \A i \in DOMAIN Tail(waiting) : /\ i \in Nat \ {0} /\ i + 1 \in DOMAIN waiting
                                         /\ Tail(waiting)[i] = waiting[i + 1]
  BY <1>1, TailFacts
<1>3. ASSUME NEW i \in DOMAIN Tail(waiting)
      PROVE  Tail(waiting)[i] # Head(waiting)
  <2>1. i + 1 # 1 /\ i + 1 \in DOMAIN waiting /\ Tail(waiting)[i] = waiting[i + 1]
    BY <1>2, <1>3
  <2>2. waiting[i + 1] # waiting[1]
    BY <1>2, <2>1 DEF IInv, WaitingDiscipline
  <2> QED  BY <1>2, <2>1, <2>2
<1> QED  BY <1>2, <1>3 DEF IInv, WaitingDiscipline

LEMMA AccountingDone ==
  ASSUME IInv, HandleDone
  PROVE  SlotAccounting'
<1> DEFINE m == Head(eventQ).model
           s == running[m]
           w == Head(waiting)
<1>0. /\ SlotAccounting /\ m \in Models /\ s \in Slots
      /\ running \in [Models -> Slots \cup {NoSlot}] /\ slotModel \in [Slots -> MaybeModel]
      /\ NoSlot \notin Slots /\ NoModel \notin Models
  BY EventFacts, DoneEvent, ControllerAssumption, ModelAssumption
     DEF HandleDone, RecheckInput, FreeSlot, HandOver, Getting, IInv, TypeOK,
         AgentTypeOK
<1>1. slotModel[s] = m /\ s \notin freeSlots /\ \A n \in Models : running[n] = s => n = m
  BY <1>0, SlotOfRunning DEF SlotAccounting, RunningModels
<1>2. CASE waiting = <<>>
  <2>1. /\ running' = [running EXCEPT ![m] = NoSlot]
        /\ freeSlots' = freeSlots \cup {s} /\ pendingPreempt' = pendingPreempt \ {s}
        /\ slotModel' = [slotModel EXCEPT ![s] = NoModel]
    BY <1>2 DEF HandleDone, RecheckInput, FreeSlot, HandOver
  <2> HIDE DEF m, s
  <2>2. /\ running'[m] = NoSlot /\ \A n \in Models : n # m => running'[n] = running[n]
        /\ slotModel'[s] = NoModel /\ \A t \in Slots : t # s => slotModel'[t] = slotModel[t]
    BY <1>0, <2>1
  <2>3. \A n, k \in RunningModels' : running'[n] = running'[k] => n = k
    BY <1>0, <2>2 DEF SlotAccounting, RunningModels
  <2>4. freeSlots' = Slots \ {running'[n] : n \in RunningModels'}
    <3>1. RunningModels' = RunningModels \ {m}
      BY <1>0, <2>2 DEF RunningModels
    <3>2. {running'[n] : n \in RunningModels'} = {running[n] : n \in RunningModels} \ {s}
      BY <1>0, <1>1, <2>2, <3>1 DEF RunningModels, s
    <3> QED  BY <1>0, <2>1, <3>2 DEF SlotAccounting
  <2>5. \A t \in Slots : IF t \in freeSlots' THEN slotModel'[t] = NoModel
                         ELSE slotModel'[t] # NoModel /\ running'[slotModel'[t]] = t
    <3> SUFFICES ASSUME NEW t \in Slots, t # s
                 PROVE  IF t \in freeSlots' THEN slotModel'[t] = NoModel
                        ELSE slotModel'[t] # NoModel /\ running'[slotModel'[t]] = t
      BY <1>0, <2>1, <2>2
    <3>1. CASE t \in freeSlots
      BY <1>0, <2>1, <2>2, <3>1 DEF SlotAccounting
    <3>2. CASE t \notin freeSlots
      <4>1. slotModel[t] # NoModel /\ running[slotModel[t]] = t /\ slotModel[t] \in Models
        BY <1>0, <3>2 DEF SlotAccounting, MaybeModel
      <4>2. slotModel[t] # m
        BY <4>1 DEF s
      <4> QED  BY <2>1, <2>2, <3>2, <4>1, <4>2
    <3> QED  BY <3>1, <3>2
  <2>6. pendingPreempt' \cap freeSlots' = {}
    BY <1>0, <2>1 DEF SlotAccounting
  <2> QED  BY <2>3, <2>4, <2>5, <2>6 DEF SlotAccounting
<1>3. CASE waiting # <<>>
  <2>1. /\ running' = [running EXCEPT ![m] = NoSlot, ![w] = s]
        /\ freeSlots' = freeSlots
        /\ slotModel' = [slotModel EXCEPT ![s] = w]
        /\ \/ pendingPreempt' = pendingPreempt \ {s}
           \/ \E k \in Models : /\ running'[k] \in Slots
                                /\ pendingPreempt' = (pendingPreempt \ {s}) \cup {running'[k]}
    BY <1>3, PreemptionCases DEF HandleDone, RecheckInput, FreeSlot, HandOver
  <2>2. w \in Models /\ running[w] = NoSlot /\ w # m
    BY <1>0, <1>3, FirstWaiting
  <2> HIDE DEF m, s, w
  <2>3. /\ running'[m] = NoSlot /\ running'[w] = s
        /\ \A n \in Models : n # m /\ n # w => running'[n] = running[n]
        /\ slotModel'[s] = w /\ \A t \in Slots : t # s => slotModel'[t] = slotModel[t]
    BY <1>0, <2>1, <2>2
  <2>4. \A n, k \in RunningModels' : running'[n] = running'[k] => n = k
    BY <1>0, <1>1, <2>2, <2>3 DEF SlotAccounting, RunningModels
  <2>5. freeSlots' = Slots \ {running'[n] : n \in RunningModels'}
    <3>1. \A n \in Models : running[n] # NoSlot /\ running[n] # s =>
            n \in RunningModels' /\ running'[n] = running[n]
      BY <2>2, <2>3 DEF RunningModels, s
    <3>2. w \in RunningModels'
      BY <1>0, <2>2, <2>3 DEF RunningModels
    <3>3. {running[n] : n \in RunningModels} \subseteq {running'[n] : n \in RunningModels'}
      BY <2>3, <3>1, <3>2 DEF RunningModels
    <3>4. {running'[n] : n \in RunningModels'} \subseteq {running[n] : n \in RunningModels}
      <4> SUFFICES ASSUME NEW n \in Models, running'[n] # NoSlot
                   PROVE  \E k \in RunningModels : running[k] = running'[n]
        BY DEF RunningModels
      <4>1. CASE n = w
        <5>1. running'[n] = s
          BY <2>3, <4>1
        <5> QED  BY <1>0, <5>1 DEF RunningModels, s
      <4>2. CASE n # w
        <5>1. n # m
          BY <2>3
        <5>2. running'[n] = running[n]
          BY <2>3, <4>2, <5>1
        <5> QED  BY <5>2 DEF RunningModels
      <4> QED  BY <4>1, <4>2
    <3> QED  BY <1>0, <2>1, <3>3, <3>4 DEF SlotAccounting
  <2>6. \A t \in Slots : IF t \in freeSlots' THEN slotModel'[t] = NoModel
                         ELSE slotModel'[t] # NoModel /\ running'[slotModel'[t]] = t
    <3> SUFFICES ASSUME NEW t \in Slots, t # s
                 PROVE  IF t \in freeSlots' THEN slotModel'[t] = NoModel
                        ELSE slotModel'[t] # NoModel /\ running'[slotModel'[t]] = t
      <4>1. s \notin freeSlots' /\ slotModel'[s] = w /\ w # NoModel
        BY <1>0, <1>1, <2>1, <2>2, <2>3, ModelAssumption
      <4> HIDE DEF s
      <4>2. running'[slotModel'[s]] = s
        BY <2>3, <4>1
      <4> QED  BY <4>1, <4>2
    <3>1. CASE t \in freeSlots
      BY <1>0, <2>1, <2>3, <3>1 DEF SlotAccounting
    <3>2. CASE t \notin freeSlots
      <4>1. slotModel[t] # NoModel /\ running[slotModel[t]] = t /\ slotModel[t] \in Models
        BY <1>0, <3>2 DEF SlotAccounting, MaybeModel
      <4>2. slotModel[t] # m
        BY <4>1 DEF s
      <4>3. slotModel[t] # w
        BY <1>0, <2>2, <4>1
      <4> QED  BY <2>1, <2>3, <3>2, <4>1, <4>2, <4>3
    <3> QED  BY <3>1, <3>2
  <2>7. pendingPreempt' \cap freeSlots' = {}
    <3>1. \A k \in Models : running'[k] \in Slots => running'[k] \notin freeSlots'
      BY <1>0, <2>5 DEF RunningModels
    <3> QED  BY <1>0, <2>1, <3>1 DEF SlotAccounting
  <2> QED  BY <2>4, <2>5, <2>6, <2>7 DEF SlotAccounting
<1> QED  BY <1>2, <1>3

LEMMA AccountingStep == IInv /\ [Next]_vars => SlotAccounting'
<1> SUFFICES ASSUME IInv, [Next]_vars PROVE SlotAccounting'
  OBVIOUS
<1>1. CASE UNCHANGED <<running, freeSlots, slotModel, pendingPreempt>>
  BY <1>1 DEF IInv, SlotAccounting, RunningModels
<1>2. CASE ControllerStep
  <2>1. CASE HandleStopLoop \/ LeaveLoop \/ \E s \in Slots : CloseAgent(s)
    BY <1>1, <2>1 DEF HandleStopLoop, LeaveLoop, CloseAgent, agentVars
  <2>2. CASE LoopTop
    <3>1. /\ UNCHANGED <<running, freeSlots, slotModel>>
          /\ \/ pendingPreempt' = pendingPreempt
             \/ pendingPreempt' = pendingPreempt \cup
                  ({running[m] : m \in RunningModels} \ pendingPreempt)
      BY <2>2 DEF LoopTop
    <3> QED  BY <3>1 DEF IInv, SlotAccounting, RunningModels
  <2> QED  BY <1>2, <2>1, <2>2, AccountingNewInput, AccountingDone DEF ControllerStep
<1> QED  BY <1>1, <1>2, LoopFrame

-----------------------------------------------------------------------------
(* The waiting models.                                                     *)
LEMMA WaitingStep == IInv /\ [Next]_vars => WaitingDiscipline'
<1> SUFFICES ASSUME IInv, [Next]_vars PROVE WaitingDiscipline'
  OBVIOUS
<1>0. /\ WaitingDiscipline /\ waiting \in Seq(Models)
      /\ running \in [Models -> Slots \cup {NoSlot}]
  BY DEF IInv, TypeOK
<1>1. CASE UNCHANGED <<waiting, running, freeSlots>>
  BY <1>0, <1>1 DEF WaitingDiscipline
<1>2. CASE HandleNewInput
  <2> DEFINE m == Head(eventQ).model
  <2>1. m \in Models
    BY <1>2, EventFacts DEF HandleNewInput, Getting
  <2>2. ASSUME NEW s \in freeSlots, running' = [running EXCEPT ![m] = s],
               UNCHANGED waiting
        PROVE  WaitingDiscipline'
    BY <1>0, <2>2 DEF WaitingDiscipline
  <2>3. CASE /\ running[m] = NoSlot /\ m \notin RangeOf(waiting) /\ freeSlots = {}
             /\ waiting' = Append(waiting, m) /\ UNCHANGED <<running, freeSlots>>
    <3> DEFINE q == Append(waiting, m)
    <3> HIDE DEF m
    <3>1. /\ Len(waiting) + 1 \in DOMAIN q /\ q[Len(waiting) + 1] = m
          /\ \A i \in DOMAIN q : \/ i \in DOMAIN waiting /\ q[i] = waiting[i]
                                 \/ i = Len(waiting) + 1
      BY <1>0, <2>1, AppendFacts
    <3>2. \A i \in DOMAIN waiting : waiting[i] # m
      BY <2>3 DEF RangeOf
    <3> HIDE DEF q
    <3>3. \A i \in DOMAIN q : running[q[i]] = NoSlot
      BY <1>0, <2>3, <3>1 DEF WaitingDiscipline
    <3>4. \A i, j \in DOMAIN q : q[i] = q[j] => i = j
      BY <1>0, <3>1, <3>2 DEF WaitingDiscipline
    <3> QED  BY <2>3, <3>3, <3>4 DEF WaitingDiscipline, q
  <2>4. CASE UNCHANGED <<waiting, running, freeSlots>>
    BY <1>1, <2>4
  <2> QED  BY <1>2, <2>2, <2>3, <2>4 DEF HandleNewInput, TouchRunning, StillWaiting,
                                         AssignFreeSlot, WaitForSlot
<1>3. CASE HandleDone
  <2> DEFINE m == Head(eventQ).model
             w == Head(waiting)
  <2>1. CASE waiting = <<>>
    <3>1. waiting' = <<>>
      BY <1>3, <2>1 DEF HandleDone, RecheckInput, FreeSlot, HandOver
    <3> QED  BY <3>1 DEF WaitingDiscipline
  <2>2. CASE waiting # <<>>
    <3>1. /\ waiting' = Tail(waiting) /\ freeSlots' = freeSlots
          /\ running' = [running EXCEPT ![m] = NoSlot, ![w] = running[m]]
      BY <1>3, <2>2 DEF HandleDone, RecheckInput, FreeSlot, HandOver
    <3>2. freeSlots' = {}
      BY <1>0, <2>2, <3>1 DEF WaitingDiscipline
    <3>3. ASSUME NEW i \in DOMAIN waiting'
          PROVE  /\ i + 1 \in DOMAIN waiting /\ i \in Nat
                 /\ waiting'[i] = waiting[i + 1]
                 /\ running'[waiting'[i]] = NoSlot
      <4>1. /\ i + 1 \in DOMAIN waiting /\ waiting'[i] = waiting[i + 1]
            /\ waiting'[i] # w /\ waiting'[i] \in Models
        BY <2>2, <3>1, <3>3, FirstWaiting
      <4>2. i \in Nat
        BY <1>0, <2>2, <3>1, <3>3, TailFacts
      <4>3. running[waiting'[i]] = NoSlot
        BY <1>0, <4>1 DEF WaitingDiscipline
      <4> QED  BY <1>0, <3>1, <4>1, <4>2, <4>3
    <3>4. \A i, j \in DOMAIN waiting' : waiting'[i] = waiting'[j] => i = j
      <4> SUFFICES ASSUME NEW i \in DOMAIN waiting', NEW j \in DOMAIN waiting',
                          waiting'[i] = waiting'[j]
                   PROVE  i = j
        OBVIOUS
      <4>1. i + 1 = j + 1
        BY <1>0, <3>3 DEF WaitingDiscipline
      <4> QED  BY <3>3, <4>1
    <3> QED  BY <3>2, <3>3, <3>4 DEF WaitingDiscipline
  <2> QED  BY <2>1, <2>2
<1>4. CASE HandleStopLoop \/ LoopTop \/ LeaveLoop \/ \E s \in Slots : CloseAgent(s)
  BY <1>1, <1>4 DEF HandleStopLoop, LoopTop, LeaveLoop, CloseAgent
<1> QED  BY <1>1, <1>2, <1>3, <1>4, LoopFrame DEF ControllerStep

-----------------------------------------------------------------------------
LEMMA PreemptionHolds ==
  ASSUME NEW w, NEW r, NEW a, NEW p, NEW q \in [Slots -> Seq(AgentEvent)],
         RequestPreemption(w, r, a, p, q)
  PROVE  \A t \in Slots : \A y : y # "STOP" =>
           (Holds(agentQ'[t], y) <=> Holds(q[t], y))
<1>1. CASE agentQ' = q
  BY <1>1
<1>2. ASSUME NEW m \in Models, r[m] \in Slots, agentQ' = Post(q, r[m], Command("STOP"))
      PROVE  \A t \in Slots : \A y : y # "STOP" =>
               (Holds(agentQ'[t], y) <=> Holds(q[t], y))
  <2> DEFINE e == Command("STOP")
             s == r[m]
  <2>1. e \in AgentEvent /\ e.type = "STOP" /\ s \in Slots
    BY <1>2, EventTypes DEF Command
  <2>2. agentQ' = Post(q, s, e)
    BY <1>2
  <2> HIDE DEF e, s
  <2>3. ASSUME NEW t \in Slots, NEW y, y # "STOP"
        PROVE  Holds(Post(q, s, e)[t], y) <=> Holds(q[t], y)
    <3>1. Holds(Post(q, s, e)[t], y) <=> Holds(q[t], y) \/ (t = s /\ e.type = y)
      BY <2>1, PostHolds
    <3> QED  BY <2>1, <2>3, <3>1
  <2> QED  BY <2>2, <2>3
<1> QED  BY <1>1, <1>2, PreemptionCases

(* The event loop posts a RELEASE only when it handles a Done event, to    *)
(* the slot of its model, and a CLOSE only when it closes the agents.      *)
LEMMA ControllerHolds ==
  ASSUME IInv, ControllerStep, NEW t \in Slots
  PROVE  /\ Holds(agentQ'[t], "RELEASE") =>
              \/ Holds(agentQ[t], "RELEASE")
              \/ HandleDone /\ t = running[Head(eventQ).model]
         /\ Holds(agentQ'[t], "CLOSE") => Holds(agentQ[t], "CLOSE") \/ CloseAgent(t)
<1>0. agentQ \in [Slots -> Seq(AgentEvent)]
  BY DEF IInv, TypeOK, AgentTypeOK
<1>t. /\ Command("STOP") \in AgentEvent /\ Command("STOP").type = "STOP"
      /\ Command("RELEASE") \in AgentEvent /\ Command("RELEASE").type = "RELEASE"
      /\ Command("CLOSE") \in AgentEvent /\ Command("CLOSE").type = "CLOSE"
      /\ \A m \in Models : Start(m) \in AgentEvent /\ Start(m).type = "START"
  BY EventTypes DEF Command
<1>1. CASE HandleStopLoop \/ LeaveLoop
  BY <1>1 DEF HandleStopLoop, LeaveLoop, agentVars
<1>2. CASE HandleNewInput
  <2> DEFINE m == Head(eventQ).model
  <2>1. m \in Models
    BY <1>2, EventFacts DEF HandleNewInput, Getting
  <2> HIDE DEF m
  <2>2. ASSUME NEW s \in freeSlots, agentQ' = Post(agentQ, s, Start(m))
        PROVE  \A y \in {"RELEASE", "CLOSE"} : Holds(agentQ'[t], y) <=> Holds(agentQ[t], y)
    <3>1. s \in Slots
      BY DEF IInv, TypeOK
    <3> DEFINE e == Start(m)
    <3>2. e \in AgentEvent /\ e.type = "START"
      BY <1>t, <2>1
    <3>3. agentQ' = Post(agentQ, s, e)
      BY <2>2
    <3> HIDE DEF e
    <3>4. \A y : Holds(Post(agentQ, s, e)[t], y) <=>
                   Holds(agentQ[t], y) \/ (t = s /\ e.type = y)
      BY <1>0, <3>1, <3>2, PostHolds
    <3> QED  BY <3>2, <3>3, <3>4
  <2>3. CASE RequestPreemption(waiting', running, activity, pendingPreempt, agentQ)
    BY <1>0, <2>3, PreemptionHolds
  <2> QED  BY <1>2, <2>2, <2>3 DEF HandleNewInput, TouchRunning, StillWaiting,
                                   AssignFreeSlot, WaitForSlot, m
<1>3. CASE HandleDone
  <2> DEFINE m == Head(eventQ).model
             s == running[m]
             w == Head(waiting)
             q1 == Post(agentQ, s, Command("RELEASE"))
             q2 == Post(q1, s, Start(w))
  <2>1. s \in Slots
    BY <1>3, EventFacts, DoneEvent DEF HandleDone, RecheckInput, FreeSlot, HandOver,
                                       Getting
  <2>2. \/ agentQ' = q1
        \/ /\ waiting # <<>>
           /\ RequestPreemption(waiting', running', activity', pendingPreempt \ {s}, q2)
    BY <1>3 DEF HandleDone, RecheckInput, FreeSlot, HandOver
  <2>3. q1 \in [Slots -> Seq(AgentEvent)]
    <3> HIDE DEF s
    <3> QED  BY <1>0, <1>t, <2>1, PostType
  <2>4. /\ Holds(q1[t], "RELEASE") => Holds(agentQ[t], "RELEASE") \/ t = s
        /\ Holds(q1[t], "CLOSE") => Holds(agentQ[t], "CLOSE")
    <3> DEFINE e == Command("RELEASE")
    <3>1. e \in AgentEvent /\ e.type = "RELEASE"
      BY <1>t
    <3> HIDE DEF s, e
    <3>2. \A y : Holds(Post(agentQ, s, e)[t], y) <=>
                   Holds(agentQ[t], y) \/ (t = s /\ e.type = y)
      BY <1>0, <2>1, <3>1, PostHolds
    <3> QED  BY <3>1, <3>2 DEF e
  <2>5. CASE waiting # <<>>
    <3>1. w \in Models
      BY <2>5, FirstWaiting
    <3> HIDE DEF s, q1, w
    <3>2. /\ q2 \in [Slots -> Seq(AgentEvent)]
          /\ Holds(q2[t], "RELEASE") <=> Holds(q1[t], "RELEASE")
          /\ Holds(q2[t], "CLOSE") <=> Holds(q1[t], "CLOSE")
      <4> DEFINE e == Start(w)
      <4>1. e \in AgentEvent /\ e.type = "START"
        BY <1>t, <3>1
      <4>2. q2 = Post(q1, s, e)
        OBVIOUS
      <4> HIDE DEF e, q2
      <4>3. Post(q1, s, e) \in [Slots -> Seq(AgentEvent)]
        BY <2>1, <2>3, <4>1, PostType
      <4>4. \A y : Holds(Post(q1, s, e)[t], y) <=>
                     Holds(q1[t], y) \/ (t = s /\ e.type = y)
        BY <2>1, <2>3, <4>1, PostHolds
      <4> QED  BY <4>1, <4>2, <4>3, <4>4
    <3> HIDE DEF q2
    <3>3. CASE RequestPreemption(waiting', running', activity', pendingPreempt \ {s}, q2)
      <4>1. /\ Holds(agentQ'[t], "RELEASE") <=> Holds(q2[t], "RELEASE")
            /\ Holds(agentQ'[t], "CLOSE") <=> Holds(q2[t], "CLOSE")
        BY <3>2, <3>3, PreemptionHolds
      <4> QED  BY <1>3, <2>4, <3>2, <4>1 DEF s
    <3> QED  BY <1>3, <2>2, <2>4, <3>3 DEF s
  <2> QED  BY <1>3, <2>2, <2>4, <2>5
<1>4. CASE LoopTop
  <2>1. \/ agentQ'[t] = agentQ[t]
        \/ agentQ'[t] = Append(agentQ[t], Command("STOP"))
    BY <1>0, <1>4 DEF LoopTop
  <2> DEFINE qt == agentQ[t]
  <2>2. qt \in Seq(AgentEvent)
    BY <1>0
  <2> HIDE DEF qt
  <2>3. \A y \in {"RELEASE", "CLOSE"} :
          Holds(Append(qt, Command("STOP")), y) <=> Holds(qt, y)
    BY <1>t, <2>2, HoldsAppend
  <2> QED  BY <2>1, <2>3 DEF qt
<1>5. ASSUME NEW s \in Slots, CloseAgent(s)
      PROVE  /\ Holds(agentQ'[t], "RELEASE") => Holds(agentQ[t], "RELEASE")
             /\ Holds(agentQ'[t], "CLOSE") => Holds(agentQ[t], "CLOSE") \/ s = t
  <2> DEFINE e == Command("CLOSE")
  <2>1. e \in AgentEvent /\ e.type = "CLOSE" /\ agentQ' = Post(agentQ, s, e)
    BY <1>t, <1>5 DEF CloseAgent
  <2> HIDE DEF e
  <2>2. \A y : Holds(agentQ'[t], y) <=> Holds(agentQ[t], y) \/ (t = s /\ e.type = y)
    BY <1>0, <2>1, PostHolds
  <2> QED  BY <2>1, <2>2
<1> QED  BY <1>1, <1>2, <1>3, <1>4, <1>5 DEF ControllerStep

-----------------------------------------------------------------------------
(* Done events.  A slot stays finished until its model's Done is handled.  *)
LEMMA FinishedStep ==
  ASSUME IInv, [Next]_vars, NEW s \in Slots, NEW m \in Models, Finished(s, m)
  PROVE  Finished(s, m)' \/ (HandleDone /\ m = Head(eventQ).model)
<1> USE DEF agentVars, ctlVars, readerVars, busVars
<1>0. /\ modelState[s].model = m /\ modelState[s].exited /\ ~Holds(agentQ[s], "RELEASE")
      /\ modelState[s] # NoState
      /\ modelState \in [Slots -> ModelState] /\ agentQ \in [Slots -> Seq(AgentEvent)]
  BY ModelAssumption DEF Finished, NoState, IInv, TypeOK, AgentTypeOK
<1>1. ASSUME modelState'[s].model = modelState[s].model,
             modelState'[s].exited = modelState[s].exited,
             Holds(agentQ'[s], "RELEASE") => Holds(agentQ[s], "RELEASE")
      PROVE  Finished(s, m)'
  BY <1>0, <1>1 DEF Finished
<1>2. CASE UNCHANGED <<modelState, agentQ>>
  BY <1>1, <1>2
<1>3. CASE UNCHANGED vars
  BY <1>2, <1>3 DEF vars
<1>4. ASSUME NEW n \in Models, Submit(n) \/ Notify(n)  PROVE UNCHANGED <<modelState, agentQ>>
  BY <1>4 DEF Submit, Notify
<1>5. CASE ReaderStep \/ RequestStop
  BY <1>2, <1>5 DEF ReaderStep, ReaderInit, ReaderScan, ReaderNotifyFound,
                    ReaderScanDone, ReaderForward, ReaderLeave, RequestStop
<1>6. CASE ControllerStep
  <2>1. modelState' = modelState
    BY <1>6 DEF ControllerStep, HandleStopLoop, HandleNewInput, TouchRunning,
                StillWaiting, AssignFreeSlot, WaitForSlot, HandleDone, RecheckInput,
                FreeSlot, HandOver, LoopTop,
                CloseAgent, LeaveLoop
  <2>2. CASE Holds(agentQ'[s], "RELEASE") => Holds(agentQ[s], "RELEASE")
    BY <1>1, <2>1, <2>2
  <2>3. CASE HandleDone /\ s = running[Head(eventQ).model]
    <3>1. Finished(s, Head(eventQ).model)
      BY <2>3, EventFacts, DoneEvent DEF HandleDone, RecheckInput, FreeSlot,
                                         HandOver, Getting
    <3> QED  BY <1>0, <2>3, <3>1 DEF Finished
  <2> QED  BY <1>6, <2>2, <2>3, ControllerHolds
<1>7. ASSUME NEW t \in Slots, AgentAction(t)  PROVE Finished(s, m)'
  <2>1. AgentTypeOK /\ QueueView(agentQ[s], modelState[s], proc[s])
    BY DEF IInv, TypeOK, SlotsConsistent, SlotInv
  <2> QED  BY <1>7, <2>1, AgentKeepsFinished DEF AgentAction
<1>8. ASSUME NEW t \in Slots, RunnerStep(t)  PROVE UNCHANGED <<modelState, agentQ>>
  BY <1>8 DEF RunnerStep, RunnerTake, RunnerCheckpoint, RunnerDrained, RunnerExit,
              ProcessEnds
<1> QED  BY <1>2, <1>3, <1>4, <1>5, <1>6, <1>7, <1>8 DEF Next

(* How a step changes the event queue.                                     *)
LEMMA EventCases ==
  ASSUME IInv, [Next]_vars
  PROVE  \/ eventQ' = eventQ /\ ~HandleDone
         \/ /\ ~HandleDone
            /\ \E e \in ClientEvent : e.type # "Done" /\ eventQ' = Append(eventQ, e)
         \/ /\ ~HandleDone
            /\ \E s \in Slots : /\ AgentJoined(s)
                                /\ eventQ' = Append(eventQ, Done(modelState[s].model))
         \/ /\ ~HandleDone /\ eventQ # <<>> /\ Head(eventQ).type # "Done"
            /\ eventQ' = Tail(eventQ)
         \/ HandleDone
<1> USE DEF agentVars, ctlVars, readerVars, busVars
<1> SUFFICES ASSUME ~HandleDone
             PROVE  \/ eventQ' = eventQ
                    \/ \E e \in ClientEvent : e.type # "Done" /\ eventQ' = Append(eventQ, e)
                    \/ \E s \in Slots : /\ AgentJoined(s)
                                        /\ eventQ' = Append(eventQ, Done(modelState[s].model))
                    \/ /\ eventQ # <<>> /\ Head(eventQ).type # "Done"
                       /\ eventQ' = Tail(eventQ)
  OBVIOUS
<1>1. CASE UNCHANGED vars
  BY <1>1 DEF vars
<1>2. ASSUME NEW n \in Models, Submit(n) \/ Notify(n)  PROVE eventQ' = eventQ
  BY <1>2 DEF Submit, Notify
<1>3. CASE ReaderStep \/ RequestStop
  <2>1. notifQ \in Seq(Models)
    BY DEF IInv, TypeOK
  <2>2. notifQ # <<>> => Head(notifQ) \in Models
    BY <2>1, TailFacts
  <2>3. \/ eventQ' = eventQ
        \/ eventQ' = Append(eventQ, StopLoop)
        \/ \E m \in Models : eventQ' = Append(eventQ, NewInput(m))
    BY <1>3, <2>2 DEF ReaderStep, ReaderInit, ReaderScan, ReaderNotifyFound,
                      ReaderScanDone, ReaderForward, ReaderLeave, RequestStop
  <2>4. /\ StopLoop \in ClientEvent /\ StopLoop.type # "Done"
        /\ \A m \in Models : NewInput(m) \in ClientEvent /\ NewInput(m).type # "Done"
    BY EventTypes
  <2> QED  BY <2>3, <2>4
<1>4. CASE ControllerStep
  BY <1>4 DEF ControllerStep, HandleStopLoop, HandleNewInput, TouchRunning,
              StillWaiting, AssignFreeSlot, WaitForSlot, LoopTop, CloseAgent,
              LeaveLoop, Getting, TakeEvent
<1>5. ASSUME NEW s \in Slots, AgentAction(s)
      PROVE  \/ eventQ' = eventQ
             \/ /\ AgentJoined(s)
                /\ eventQ' = Append(eventQ, Done(modelState[s].model))
  BY <1>5 DEF AgentAction, AgentStep, AgentStart, AgentStop, AgentExited, AgentRelease,
              AgentClose, AgentJoined, MonitorExit
<1>6. ASSUME NEW s \in Slots, RunnerStep(s)  PROVE eventQ' = eventQ
  BY <1>6 DEF RunnerStep, RunnerTake, RunnerCheckpoint, RunnerDrained, RunnerExit,
              ProcessEnds
<1> QED  BY <1>1, <1>2, <1>3, <1>4, <1>5, <1>6 DEF Next

LEMMA DoneStep == IInv /\ [Next]_vars => DoneEvents'
<1> SUFFICES ASSUME IInv, [Next]_vars PROVE DoneEvents'
  OBVIOUS
<1>0. /\ eventQ \in Seq(ClientEvent) /\ UniqueDone(eventQ)
      /\ \A e \in RangeOf(eventQ) : e \in ClientEvent
  <2>1. eventQ \in Seq(ClientEvent)
    BY DEF IInv, TypeOK, AgentTypeOK
  <2> QED  BY <2>1 DEF IInv, DoneEvents, UniqueDone, RangeOf
<1>1. ASSUME UniqueDone(eventQ'),
             \A e \in RangeOf(eventQ') : e.type = "Done" => \E s \in Slots : Finished(s, e.model)'
      PROVE  DoneEvents'
  BY <1>1 DEF DoneEvents, UniqueDone, RangeOf
<1>2. ASSUME NEW e \in RangeOf(eventQ), e.type = "Done",
             ~(HandleDone /\ e.model = Head(eventQ).model)
      PROVE  \E s \in Slots : Finished(s, e.model)'
  <2>1. PICK s \in Slots : Finished(s, e.model)
    BY <1>2 DEF IInv, DoneEvents, RangeOf
  <2>2. e.model \in Models
    BY <1>0, <1>2 DEF ClientEvent
  <2> QED  BY <1>2, <2>1, <2>2, FinishedStep
<1>3. CASE eventQ' = eventQ /\ ~HandleDone
  BY <1>0, <1>1, <1>2, <1>3
<1>4. ASSUME ~HandleDone, NEW e \in ClientEvent, e.type # "Done", eventQ' = Append(eventQ, e)
      PROVE  DoneEvents'
  <2>1. UniqueDone(eventQ') /\ RangeOf(eventQ') = RangeOf(eventQ) \cup {e}
    BY <1>0, <1>4, UniqueAppend, RangeAppend
  <2> QED  BY <1>1, <1>2, <1>4, <2>1
<1>5. ASSUME ~HandleDone, NEW s \in Slots, AgentJoined(s),
             eventQ' = Append(eventQ, Done(modelState[s].model))
      PROVE  DoneEvents'
  <2>1. AgentTypeOK
    BY DEF IInv, TypeOK
  <2>2. PICK pend \in BOOLEAN :
          SlotInv(agentQ[s], modelState[s], proc[s], agentPC[s], closing[s],
                  slotModel[s], pend)
    BY ConsistentNow, OfConsistent
  <2>3. /\ slotModel[s] \in Models /\ slotModel[s] = modelState[s].model
        /\ ~modelState[s].exited /\ Finished(s, slotModel[s])' /\ slotModel' = slotModel
    BY <1>5, <2>1, <2>2, JoinedModel DEF AgentJoined
  <2>4. PICK m \in Models : m = slotModel[s]
    BY <2>3
  <2>5. running[m] = s
    BY <2>4, ModelAssumption DEF IInv, SlotAccounting
  <2>6. Done(m) \in ClientEvent /\ Done(m).type = "Done" /\ Done(m).model = m
    BY <2>4, EventTypes
  <2>7. Done(m) \notin RangeOf(eventQ)
    <3>1. SUFFICES ASSUME NEW i \in DOMAIN eventQ, eventQ[i] = Done(m) PROVE FALSE
      BY DEF RangeOf
    <3>2. Finished(running[m], m)
      BY <2>6, <3>1, DoneEvent
    <3> QED  BY <2>3, <2>5, <3>2 DEF Finished
  <2>8. Finished(s, m)'
    BY <2>3, <2>4 DEF Finished
  <2>9. UniqueDone(eventQ') /\ RangeOf(eventQ') = RangeOf(eventQ) \cup {Done(m)}
    <3>1. eventQ' = Append(eventQ, Done(m))
      BY <1>5, <2>3, <2>4
    <3> QED  BY <1>0, <2>6, <2>7, <3>1, UniqueAppend, RangeAppend
  <2> QED  BY <1>1, <1>2, <1>5, <2>6, <2>8, <2>9
<1>6. CASE /\ ~HandleDone /\ eventQ # <<>> /\ Head(eventQ).type # "Done"
           /\ eventQ' = Tail(eventQ)
  <2>1. UniqueDone(eventQ') /\ RangeOf(eventQ) = {Head(eventQ)} \cup RangeOf(eventQ')
    BY <1>0, <1>6, UniqueTail, RangeTail
  <2> QED  BY <1>1, <1>2, <1>6, <2>1
<1>7. CASE HandleDone
  <2> DEFINE r == Tail(eventQ)
             m == Head(eventQ).model
  <2>1. /\ eventQ # <<>> /\ Head(eventQ).type = "Done" /\ m \in Models
        /\ r \in Seq(ClientEvent) /\ Head(eventQ) \in ClientEvent
        /\ eventQ' = r \/ eventQ' = Append(r, NewInput(m))
    BY <1>7, EventFacts DEF HandleDone, RecheckInput, FreeSlot, HandOver, Getting
  <2>2. /\ UniqueDone(r) /\ RangeOf(eventQ) = {Head(eventQ)} \cup RangeOf(r)
        /\ Head(eventQ) \notin RangeOf(r)
    BY <1>0, <2>1, UniqueTail, RangeTail
  <2>3. ASSUME NEW e \in RangeOf(r), e.type = "Done"
        PROVE  \E s \in Slots : Finished(s, e.model)'
    <3>1. e # Head(eventQ) /\ e \in ClientEvent /\ e \in RangeOf(eventQ)
      BY <1>0, <2>2, <2>3
    <3>2. e.model # m
      BY <2>1, <2>3, <3>1 DEF ClientEvent
    <3> QED  BY <1>2, <2>3, <3>1, <3>2
  <2>4. NewInput(m) \in ClientEvent /\ NewInput(m).type # "Done"
    BY <2>1, EventTypes
  <2> HIDE DEF r, m
  <2>5. UniqueDone(eventQ') /\ RangeOf(eventQ') \subseteq RangeOf(r) \cup {NewInput(m)}
    <3>1. CASE eventQ' = r
      BY <2>2, <3>1
    <3>2. CASE eventQ' = Append(r, NewInput(m))
      <4>1. UniqueDone(Append(r, NewInput(m)))
        BY <2>1, <2>2, <2>4, UniqueAppend
      <4>2. RangeOf(Append(r, NewInput(m))) = RangeOf(r) \cup {NewInput(m)}
        BY <2>1, <2>4, RangeAppend
      <4> QED  BY <3>2, <4>1, <4>2
    <3> QED  BY <2>1, <3>1, <3>2
  <2> QED  BY <1>1, <2>3, <2>4, <2>5
<1> QED  BY <1>3, <1>4, <1>5, <1>6, <1>7, EventCases

-----------------------------------------------------------------------------
(* The way down: nothing reaches an agent that is closing or closed.       *)

(* An agent that is closed without a model has nothing left.               *)
LEMMA IdleClose ==
  ASSUME NEW q \in Seq(AgentEvent), q # <<>>, Head(q).type = "CLOSE",
         NEW st, NEW pr, NEW pc, NEW cl, NEW pend,
         SlotInv(q, st, pr, pc, cl, NoModel, pend)
  PROVE  st = NoState /\ Tail(q) = <<>>
<1> DEFINE r == Tail(q)
<1>1. AgentView(st, pr, pc, cl) /\ QueueView(q, st, pr) /\ ClientView(q, st, NoModel, pend)
  BY DEF SlotInv
<1>2. r \in Seq(AgentEvent) /\ \A i \in DOMAIN r : r[i].type = "EXITED"
  BY <1>1, TailFacts, BehindClose DEF QueueView
<1>3. \A y : Holds(q, y) <=> y = "CLOSE" \/ Holds(r, y)
  BY HoldsTail
<1>4. ~Holds(r, "START") /\ ~Holds(r, "RELEASE")
  BY <1>2 DEF Holds
<1>5. st = NoState /\ pr = "none"
  BY <1>1, <1>3, <1>4 DEF ClientView, AgentView
<1>6. ~Holds(r, "EXITED")
  BY <1>1, <1>3, <1>5 DEF QueueView
<1>7. r = <<>>
  BY <1>2, <1>6 DEF Holds
<1> QED  BY <1>5, <1>7

(* One agent's step, or its monitor thread's.                              *)
LEMMA ClosingAgent ==
  ASSUME IInv, NEW s \in Slots, AgentAction(s)
  PROVE  ClosingDown'
<1> USE DEF ctlVars
<1>0. /\ agentQ \in [Slots -> Seq(AgentEvent)] /\ modelState \in [Slots -> ModelState]
      /\ agentPC \in [Slots -> {"loop", "joining", "closed"}] /\ ClosingDown
      /\ closing \in [Slots -> BOOLEAN]
  BY DEF IInv, TypeOK, AgentTypeOK
<1>1. UNCHANGED <<waiting, running, ctlPC, toClose>>
  BY DEF AgentAction
<1>2. \A t \in Slots : t # s => /\ agentQ'[t] = agentQ[t] /\ agentPC'[t] = agentPC[t]
                                /\ modelState'[t] = modelState[t]
                                /\ closing'[t] = closing[t]
  <2>1. AgentTypeOK
    BY DEF IInv, TypeOK
  <2> QED  BY <2>1, AgentFrame DEF AgentAction
<1>3. ASSUME NEW y, Taking(s, y), Take(s)
      PROVE  /\ Holds(agentQ[s], y)
             /\ Holds(agentQ'[s], "CLOSE") => Holds(agentQ[s], "CLOSE")
  <2> DEFINE q == agentQ[s]
  <2>1. q # <<>> /\ q \in Seq(AgentEvent) /\ Head(q).type = y /\ agentQ'[s] = Tail(q)
    BY <1>0, <1>3 DEF Taking, Take
  <2> HIDE DEF q
  <2>2. \A z : Holds(q, z) <=> Head(q).type = z \/ Holds(Tail(q), z)
    BY <2>1, HoldsTail
  <2> QED  BY <2>1, <2>2 DEF q
<1>4. CASE AgentClose(s)
  <2>1. Holds(agentQ[s], "CLOSE") /\ (Holds(agentQ'[s], "CLOSE") => Holds(agentQ[s], "CLOSE"))
    BY <1>3, <1>4 DEF AgentClose
  <2>2. /\ ctlPC \in {"closing", "exited"} /\ s \notin toClose /\ slotModel[s] = NoModel
        /\ agentPC[s] # "closed"
    <3>1. ctlPC \in {"closing", "exited"} /\ s \notin toClose
      BY <2>1 DEF IInv, ClosingDown
    <3> QED  BY <1>4, <3>1 DEF IInv, ClosingDown, SlotAccounting, AgentClose, Taking
  <2>3. modelState[s] = NoState /\ agentQ'[s] = <<>>
    <3> DEFINE q == agentQ[s]
               st == modelState[s]
    <3>1. PICK pend \in BOOLEAN :
            SlotInv(q, st, proc[s], agentPC[s], closing[s], slotModel[s], pend)
      BY ConsistentNow, OfConsistent
    <3>2. /\ q # <<>> /\ Head(q).type = "CLOSE" /\ q \in Seq(AgentEvent)
          /\ agentQ'[s] = Tail(q)
      BY <1>0, <1>4 DEF AgentClose, Taking, Take
    <3> HIDE DEF q, st
    <3>3. st = NoState /\ Tail(q) = <<>>
      BY <2>2, <3>1, <3>2, IdleClose
    <3> QED  BY <3>2, <3>3 DEF st
  <2>4. modelState'[s] = NoState /\ closing' = closing
    BY <1>4, <2>3 DEF AgentClose, NoState
  <2> QED  BY <1>0, <1>1, <1>2, <2>1, <2>2, <2>3, <2>4 DEF ClosingDown, RunningModels
<1>5. ASSUME ~AgentClose(s)
      PROVE  /\ agentPC'[s] = "closed" <=> agentPC[s] = "closed"
             /\ Holds(agentQ'[s], "CLOSE") => Holds(agentQ[s], "CLOSE")
             /\ agentPC[s] # "closed" /\ ~closing'[s]
  <2>1. ~closing[s]
    BY <1>0 DEF ClosingDown
  <2>2. CASE AgentStart(s) \/ AgentStop(s) \/ AgentExited(s) \/ AgentRelease(s)
    <3>1. /\ Take(s) /\ \E y \in {"START", "STOP", "EXITED", "RELEASE"} : Taking(s, y)
          /\ agentPC[s] = "loop" /\ agentPC'[s] # "closed" /\ ~closing'[s]
      BY <1>0, <2>1, <2>2 DEF AgentStart, AgentStop, AgentExited, AgentRelease, BeginStop,
                        Taking
    <3> QED  BY <1>3, <3>1
  <2>3. CASE AgentJoined(s)
    <3>1. /\ agentQ' = agentQ /\ agentPC[s] = "joining" /\ agentPC'[s] = "loop"
          /\ closing' = closing
      BY <1>0, <2>1, <2>3 DEF AgentJoined
    <3> QED  BY <2>1, <3>1
  <2>4. CASE MonitorExit(s)
    <3>1. modelState[s] # NoState
      BY <2>4 DEF IInv, SlotsConsistent, SlotInv, AgentView, MonitorExit
    <3>2. agentPC' = agentPC /\ agentPC[s] # "closed"
      BY <2>4, <3>1 DEF IInv, ClosingDown, MonitorExit
    <3> DEFINE e == Command("EXITED")
    <3>3. e \in AgentEvent /\ e.type = "EXITED" /\ agentQ' = Post(agentQ, s, e)
      BY <2>4, EventTypes DEF MonitorExit, Command
    <3> HIDE DEF e
    <3>4. \A t \in Slots : \A y :
            Holds(Post(agentQ, s, e)[t], y) <=> Holds(agentQ[t], y) \/ (t = s /\ e.type = y)
      BY <1>0, <3>3, PostHolds
    <3>5. Holds(agentQ'[s], "CLOSE") <=> Holds(agentQ[s], "CLOSE") \/ e.type = "CLOSE"
      BY <3>3, <3>4
    <3>6. e.type # "CLOSE"
      BY <3>3
    <3>7. agentPC'[s] = agentPC[s] /\ ~closing'[s]
      BY <2>1, <2>4, <3>2 DEF MonitorExit
    <3> QED  BY <3>2, <3>5, <3>6, <3>7
  <2> QED  BY <1>5, <2>2, <2>3, <2>4 DEF AgentAction, AgentStep
<1>6. CASE ~AgentClose(s)
  <2>1. /\ agentPC'[s] # "closed" /\ agentPC[s] # "closed" /\ ~closing'[s]
        /\ Holds(agentQ'[s], "CLOSE") => Holds(agentQ[s], "CLOSE")
    BY <1>5, <1>6
  <2>2. ctlPC # "exited"
    BY <1>0, <2>1 DEF ClosingDown
  <2> QED  BY <1>0, <1>1, <1>2, <2>1, <2>2 DEF ClosingDown, RunningModels
<1> QED  BY <1>4, <1>6

LEMMA ClosingStep == IInv /\ [Next]_vars => ClosingDown'
<1> SUFFICES ASSUME IInv, [Next]_vars PROVE ClosingDown'
  OBVIOUS
<1> USE DEF agentVars, ctlVars, readerVars, busVars
<1>0. ClosingDown /\ agentQ \in [Slots -> Seq(AgentEvent)] /\ toClose \in SUBSET Slots
  BY DEF IInv, TypeOK, AgentTypeOK
<1>1. ASSUME UNCHANGED <<waiting, running, ctlPC, toClose, agentQ, agentPC, modelState,
                         closing>>
      PROVE  ClosingDown'
  BY <1>0, <1>1 DEF ClosingDown, RunningModels
<1>2. CASE UNCHANGED vars
  BY <1>1, <1>2 DEF vars
<1>3. ASSUME NEW m \in Models, Submit(m) \/ Notify(m)  PROVE ClosingDown'
  BY <1>1, <1>3 DEF Submit, Notify
<1>4. CASE ReaderStep \/ RequestStop
  BY <1>1, <1>4 DEF ReaderStep, ReaderInit, ReaderScan, ReaderNotifyFound,
                    ReaderScanDone, ReaderForward, ReaderLeave, RequestStop
<1>5. CASE ControllerStep
  <2>0. agentPC' = agentPC /\ modelState' = modelState /\ closing' = closing
    BY <1>5 DEF ControllerStep, HandleStopLoop, HandleNewInput, TouchRunning,
                StillWaiting, AssignFreeSlot, WaitForSlot, HandleDone, RecheckInput,
                FreeSlot, HandOver, LoopTop,
                CloseAgent, LeaveLoop
  <2>1. ASSUME ctlPC \in {"top", "get"}
        PROVE  \A s \in Slots : /\ agentPC'[s] # "closed"
                                /\ ~Holds(agentQ'[s], "CLOSE")
    BY <1>5, <2>0, <2>1, NoClose, ControllerHolds DEF CloseAgent
  <2>2. CASE HandleStopLoop \/ HandleNewInput \/ HandleDone
    <3>1. ctlPC = "get" /\ ctlPC' \in {"top", "get"}
      BY <2>2 DEF HandleStopLoop, HandleNewInput, TouchRunning, StillWaiting,
                  AssignFreeSlot, WaitForSlot, HandleDone, RecheckInput, FreeSlot,
                  HandOver, Getting, LoopAgain
    <3> QED  BY <1>0, <2>0, <2>1, <3>1 DEF ClosingDown
  <2>3. CASE LoopTop
    <3>1. /\ ctlPC = "top" /\ waiting' = waiting /\ running' = running
          /\ \/ ctlPC' = "get"
             \/ ctlPC' = "closing" /\ RunningModels = {} /\ waiting = <<>>
      BY <2>3 DEF LoopTop
    <3> QED  BY <1>0, <2>0, <2>1, <3>1 DEF ClosingDown, RunningModels
  <2>4. ASSUME NEW s \in Slots, CloseAgent(s)  PROVE ClosingDown'
    <3>1. /\ ctlPC = "closing" /\ s \in toClose /\ toClose' = toClose \ {s}
          /\ UNCHANGED <<waiting, running, ctlPC>>
          /\ \A t \in Slots : t # s => agentQ'[t] = agentQ[t]
      BY <1>0, <2>4 DEF CloseAgent, Post
    <3>2. agentPC[s] # "closed"
      BY <1>0, <3>1 DEF ClosingDown
    <3> QED  BY <1>0, <2>0, <3>1, <3>2 DEF ClosingDown, RunningModels
  <2>5. CASE LeaveLoop
    BY <1>0, <2>5 DEF LeaveLoop, ClosingDown, RunningModels
  <2> QED  BY <1>5, <2>2, <2>3, <2>4, <2>5 DEF ControllerStep
<1>6. ASSUME NEW s \in Slots, RunnerStep(s)  PROVE ClosingDown'
  BY <1>1, <1>6 DEF RunnerStep, RunnerTake, RunnerCheckpoint, RunnerDrained, RunnerExit,
                    ProcessEnds
<1> QED  BY <1>2, <1>3, <1>4, <1>5, <1>6, ClosingAgent DEF Next

-----------------------------------------------------------------------------
(* Nothing is lost: every ready message has something on its way.          *)

(* The queue exists once the reader has created it, and the reader has     *)
(* looked at no input queue before that.                                   *)
LEMMA ReaderConsistentStep == IInv /\ [Next]_vars => ReaderConsistent'
<1> SUFFICES ASSUME IInv, [Next]_vars PROVE ReaderConsistent'
  OBVIOUS
<1> USE DEF readerVars, busVars
<1>0. ReaderConsistent
  BY DEF IInv
<1>1. ASSUME UNCHANGED <<notifExists, readerPC, unscanned>>  PROVE ReaderConsistent'
  BY <1>0, <1>1 DEF ReaderConsistent
<1>2. CASE UNCHANGED vars
  BY <1>1, <1>2 DEF vars
<1>3. ASSUME NEW m \in Models, Submit(m) \/ Notify(m)  PROVE ReaderConsistent'
  BY <1>1, <1>3 DEF Submit, Notify
<1>4. CASE ReaderStep
  BY <1>0, <1>4 DEF ReaderStep, ReaderInit, ReaderScan, ReaderNotifyFound,
                    ReaderScanDone, ReaderForward, ReaderLeave, ReaderConsistent
<1>5. CASE RequestStop
  BY <1>1, <1>5 DEF RequestStop
<1>6. CASE ControllerStep
  BY <1>1, <1>6 DEF ControllerStep, HandleStopLoop, HandleNewInput, TouchRunning,
                    StillWaiting, AssignFreeSlot, WaitForSlot, HandleDone,
                    RecheckInput, FreeSlot, HandOver,
                    LoopTop, CloseAgent, LeaveLoop
<1>7. ASSUME NEW s \in Slots, AgentAction(s)  PROVE ReaderConsistent'
  BY <1>1, <1>7 DEF AgentAction
<1>8. ASSUME NEW s \in Slots, RunnerStep(s)  PROVE ReaderConsistent'
  BY <1>1, <1>8 DEF RunnerStep, RunnerTake, RunnerCheckpoint, RunnerDrained, RunnerExit
<1> QED  BY <1>2, <1>3, <1>4, <1>5, <1>6, <1>7, <1>8 DEF Next

(* What neither adds messages nor takes anything away keeps NoLostWakeup.  *)
LEMMA WakeupFrame ==
  ASSUME IInv, \A m \in Models : ready'[m] > 0 => ready[m] > 0,
         UNCHANGED <<toNotify, unscanned, found, notifQ, waiting, running>>,
         RangeOf(eventQ) \subseteq RangeOf(eventQ')
  PROVE  NoLostWakeup'
  BY DEF IInv, NoLostWakeup, OnItsWay, NewInput

(* Submitters.                                                             *)
LEMMA WakeupSubmit ==
  ASSUME IInv, NEW m \in Models, Submit(m) \/ Notify(m)
  PROVE  NoLostWakeup'
<1> USE DEF agentVars, ctlVars, readerVars
<1>0. /\ NoLostWakeup /\ ReaderConsistent /\ notifQ \in Seq(Models)
      /\ ready \in [Models -> Nat]
  BY DEF IInv, TypeOK
<1>1. CASE Submit(m)
  <2>1. \A k \in Models : k # m => ready'[k] = ready[k]
    BY <1>0, <1>1 DEF Submit
  <2>2. m \in toNotify' /\ toNotify \subseteq toNotify'
    BY <1>1 DEF Submit
  <2>3. UNCHANGED <<unscanned, found, notifQ, eventQ, waiting, running>>
    BY <1>1 DEF Submit
  <2> QED  BY <1>0, <2>1, <2>2, <2>3 DEF NoLostWakeup, OnItsWay, NewInput
<1>2. CASE Notify(m)
  <2>1. /\ UNCHANGED <<ready, unscanned, found, eventQ, waiting, running>>
        /\ toNotify' = toNotify \ {m}
    BY <1>2 DEF Notify
  <2>2. RangeOf(notifQ) \subseteq RangeOf(notifQ')
    <3>1. notifQ' = notifQ \/ notifQ' = Append(notifQ, m)
      BY <1>2 DEF Notify
    <3>2. RangeOf(Append(notifQ, m)) = RangeOf(notifQ) \cup {m}
      BY <1>0, RangeAppend
    <3> QED  BY <3>1, <3>2
  <2>3. m \in unscanned \/ m \in RangeOf(notifQ')
    <3>1. CASE notifQ' = Append(notifQ, m)
      BY <1>0, <3>1, RangeAppend
    <3>2. CASE m \in RangeOf(notifQ) /\ notifQ' = notifQ
      BY <3>2
    <3>3. CASE ~notifExists
      BY <1>0, <3>3 DEF ReaderConsistent
    <3> QED  BY <1>2, <3>1, <3>2, <3>3 DEF Notify
  <2> QED  BY <1>0, <2>1, <2>2, <2>3 DEF NoLostWakeup, OnItsWay, NewInput
<1> QED  BY <1>1, <1>2

(* The notification reader.                                                *)
LEMMA WakeupReader ==
  ASSUME IInv, ReaderStep
  PROVE  NoLostWakeup'
<1> USE DEF agentVars, ctlVars, busVars
<1>0. /\ NoLostWakeup /\ notifQ \in Seq(Models) /\ eventQ \in Seq(ClientEvent)
      /\ \A m \in Models : NewInput(m) \in ClientEvent
  BY EventTypes DEF IInv, TypeOK, AgentTypeOK
<1>1. CASE ReaderInit
  BY <1>1, WakeupFrame DEF ReaderInit
<1>2. ASSUME NEW m \in Models, ReaderScan(m)  PROVE NoLostWakeup'
  <2>1. UNCHANGED <<ready, toNotify, notifQ, eventQ, waiting, running>>
    BY <1>2 DEF ReaderScan
  <2>2. ASSUME NEW k \in Models, ready[k] > 0, k \in unscanned \cup found
        PROVE  k \in unscanned' \cup found'
    BY <1>2, <2>2 DEF ReaderScan
  <2> QED  BY <1>0, <2>1, <2>2 DEF NoLostWakeup, OnItsWay, NewInput
<1>3. ASSUME NEW m \in Models, ReaderNotifyFound(m)  PROVE NoLostWakeup'
  <2>1. /\ UNCHANGED <<ready, toNotify, unscanned, notifQ, waiting, running>>
        /\ found' = found \ {m} /\ eventQ' = Append(eventQ, NewInput(m))
    BY <1>3 DEF ReaderNotifyFound
  <2>2. RangeOf(eventQ') = RangeOf(eventQ) \cup {NewInput(m)}
    BY <1>0, <2>1, RangeAppend
  <2> QED  BY <1>0, <2>1, <2>2 DEF NoLostWakeup, OnItsWay, NewInput
<1>4. CASE ReaderScanDone
  BY <1>4, WakeupFrame DEF ReaderScanDone
<1>5. CASE ReaderForward
  <2> DEFINE m == Head(notifQ)
  <2>1. /\ UNCHANGED <<ready, toNotify, unscanned, found, waiting, running>>
        /\ notifQ # <<>> /\ notifQ' = Tail(notifQ)
        /\ eventQ' = Append(eventQ, NewInput(m))
    BY <1>5 DEF ReaderForward, readerVars
  <2>2. m \in Models /\ RangeOf(notifQ) = {m} \cup RangeOf(notifQ')
    BY <1>0, <2>1, RangeTail, TailFacts
  <2> HIDE DEF m
  <2>3. RangeOf(eventQ') = RangeOf(eventQ) \cup {NewInput(m)}
    BY <1>0, <2>1, <2>2, RangeAppend
  <2> QED  BY <1>0, <2>1, <2>2, <2>3 DEF NoLostWakeup, OnItsWay, NewInput
<1>6. CASE ReaderLeave
  BY <1>6, WakeupFrame DEF ReaderLeave
<1> QED  BY <1>1, <1>2, <1>3, <1>4, <1>5, <1>6 DEF ReaderStep

(* The agents and the runners: a callback is only an event more, and a     *)
(* runner only takes messages.                                             *)
LEMMA WakeupOthers ==
  ASSUME IInv, NEW s \in Slots, AgentAction(s) \/ RunnerStep(s)
  PROVE  NoLostWakeup'
<1> USE DEF ctlVars, readerVars, busVars
<1>0. /\ eventQ \in Seq(ClientEvent) /\ ready \in [Models -> Nat]
  BY DEF IInv, TypeOK, AgentTypeOK
<1>1. CASE AgentAction(s)
  <2>1. eventQ' = eventQ \/ \E e : eventQ' = Append(eventQ, e)
    BY <1>1 DEF AgentAction, AgentStep, AgentStart, AgentStop, AgentExited,
                AgentRelease, AgentClose, AgentJoined, MonitorExit
  <2>2. RangeOf(eventQ) \subseteq RangeOf(eventQ')
    <3> SUFFICES ASSUME NEW e, eventQ' = Append(eventQ, e)
                 PROVE  RangeOf(eventQ) \subseteq RangeOf(eventQ')
      BY <2>1
    <3>1. \A i \in DOMAIN eventQ : i \in DOMAIN eventQ' /\ eventQ'[i] = eventQ[i]
      BY <1>0
    <3> QED  BY <3>1 DEF RangeOf
  <2>3. UNCHANGED <<ready, toNotify, unscanned, found, notifQ, waiting, running>>
    BY <1>1 DEF AgentAction
  <2> QED  BY <2>2, <2>3, WakeupFrame
<1>2. CASE RunnerStep(s)
  <2>1. UNCHANGED <<toNotify, unscanned, found, notifQ, waiting, running, eventQ>>
    BY <1>2 DEF RunnerStep, RunnerTake, RunnerCheckpoint, RunnerDrained, RunnerExit,
                ProcessEnds, agentVars
  <2>2. ASSUME NEW m \in Models, ready'[m] > 0  PROVE ready[m] > 0
    <3>1. CASE ready' = ready
      BY <2>2, <3>1
    <3>2. CASE ready' = [ready EXCEPT ![RunnerModel(s)] = @ - 1] /\ ready[RunnerModel(s)] > 0
      BY <1>0, <2>2, <3>2
    <3> QED  BY <1>2, <3>1, <3>2 DEF RunnerStep, RunnerTake, RunnerCheckpoint,
                                     RunnerDrained, RunnerExit
  <2> QED  BY <2>1, <2>2, WakeupFrame
<1> QED  BY <1>1, <1>2

(* The event loop: a NewInput event that is taken leaves its model running *)
(* or waiting, and a Done event with input left is followed by a NewInput  *)
(* event, which is what makes the runner's last look at its queue safe.    *)
LEMMA WakeupController ==
  ASSUME IInv, ControllerStep
  PROVE  NoLostWakeup'
<1> USE DEF agentVars, readerVars, busVars
<1>0. /\ NoLostWakeup /\ waiting \in Seq(Models) /\ eventQ \in Seq(ClientEvent)
      /\ running \in [Models -> Slots \cup {NoSlot}] /\ NoSlot \notin Slots
      /\ \A m \in Models : /\ NewInput(m) \in ClientEvent /\ NewInput(m).type = "NewInput"
                           /\ NewInput(m).model = m
  BY EventTypes, ControllerAssumption DEF IInv, TypeOK, AgentTypeOK
<1>1. ASSUME eventQ # <<>>
      PROVE  /\ RangeOf(eventQ) = {Head(eventQ)} \cup RangeOf(Tail(eventQ))
             /\ Tail(eventQ) \in Seq(ClientEvent)
  BY <1>0, <1>1, RangeTail, TailFacts
<1>2. CASE HandleStopLoop
  <2>1. /\ UNCHANGED <<ready, toNotify, unscanned, found, notifQ, waiting, running>>
        /\ eventQ # <<>> /\ Head(eventQ).type = "StopLoop" /\ eventQ' = Tail(eventQ)
    BY <1>2 DEF HandleStopLoop, Getting, TakeEvent
  <2>2. ASSUME NEW k \in Models, NewInput(k) \in RangeOf(eventQ)
        PROVE  NewInput(k) \in RangeOf(eventQ')
    BY <1>0, <1>1, <2>1, <2>2
  <2> QED  BY <1>0, <2>1, <2>2 DEF NoLostWakeup, OnItsWay, NewInput
<1>3. CASE HandleNewInput
  <2>1. PICK m \in Models : m = Head(eventQ).model
    BY <1>3, EventFacts DEF HandleNewInput, Getting
  <2>2. /\ UNCHANGED <<ready, toNotify, unscanned, found, notifQ>>
        /\ eventQ # <<>> /\ eventQ' = Tail(eventQ)
    BY <1>3 DEF HandleNewInput, Getting, TakeEvent
  <2>3. /\ running'[m] # NoSlot \/ m \in RangeOf(waiting')
        /\ \A k \in Models : running[k] # NoSlot => running'[k] # NoSlot
        /\ RangeOf(waiting) \subseteq RangeOf(waiting')
    <3>1. \/ running[m] # NoSlot /\ waiting' = waiting /\ running' = running
          \/ m \in RangeOf(waiting) /\ waiting' = waiting /\ running' = running
          \/ \E s \in freeSlots : running' = [running EXCEPT ![m] = s] /\ waiting' = waiting
          \/ waiting' = Append(waiting, m) /\ running' = running
      BY <1>3, <2>1 DEF HandleNewInput, TouchRunning, StillWaiting, AssignFreeSlot,
                        WaitForSlot
    <3>2. RangeOf(Append(waiting, m)) = RangeOf(waiting) \cup {m}
      BY <1>0, RangeAppend
    <3>3. freeSlots \subseteq Slots
      BY DEF IInv, TypeOK
    <3> QED  BY <1>0, <3>1, <3>2, <3>3
  <2>4. ASSUME NEW k \in Models, k # m, NewInput(k) \in RangeOf(eventQ)
        PROVE  NewInput(k) \in RangeOf(eventQ')
    BY <1>0, <1>1, <2>1, <2>2, <2>4
  <2> QED  BY <1>0, <2>2, <2>3, <2>4 DEF NoLostWakeup, OnItsWay, NewInput
<1>4. CASE HandleDone
  <2>1. PICK m \in Models : m = Head(eventQ).model
    BY <1>4, EventFacts DEF HandleDone, RecheckInput, FreeSlot, HandOver, Getting
  <2>2. PICK s \in Slots : s = running[m]
    BY <1>4, <2>1, EventFacts, DoneEvent DEF HandleDone, RecheckInput, FreeSlot,
                                             HandOver, Getting
  <2>3. /\ UNCHANGED <<ready, toNotify, unscanned, found, notifQ>>
        /\ eventQ # <<>> /\ Head(eventQ).type = "Done"
        /\ eventQ' = IF ready[m] > 0 THEN Append(Tail(eventQ), NewInput(m))
                                     ELSE Tail(eventQ)
    BY <1>4, <2>1 DEF HandleDone, RecheckInput, FreeSlot, HandOver, Getting
  <2>8. RangeOf(Append(Tail(eventQ), NewInput(m))) = RangeOf(Tail(eventQ)) \cup {NewInput(m)}
    <3> DEFINE r == Tail(eventQ)
               e == NewInput(m)
    <3>1. r \in Seq(ClientEvent) /\ e \in ClientEvent
      BY <1>0, <1>1, <2>3
    <3> HIDE DEF r, e
    <3>2. RangeOf(Append(r, e)) = RangeOf(r) \cup {e}
      BY <3>1, RangeAppend
    <3> QED  BY <3>2 DEF r, e
  <2>4. ready[m] > 0 => NewInput(m) \in RangeOf(eventQ')
    BY <2>3, <2>8
  <2>5. ASSUME NEW k \in Models, NewInput(k) \in RangeOf(eventQ)
        PROVE  NewInput(k) \in RangeOf(eventQ')
    <3>1. NewInput(k) \in RangeOf(Tail(eventQ))
      BY <1>0, <1>1, <2>3, <2>5
    <3> QED  BY <2>3, <2>8, <3>1
  <2>6. ASSUME NEW k \in Models, k # m, running[k] # NoSlot \/ k \in RangeOf(waiting)
        PROVE  running'[k] # NoSlot \/ k \in RangeOf(waiting')
    <3>1. CASE waiting = <<>>
      <4>1. running' = [running EXCEPT ![m] = NoSlot] /\ waiting' = waiting
        BY <1>4, <2>1, <3>1 DEF HandleDone, RecheckInput, FreeSlot, HandOver
      <4> QED  BY <1>0, <2>6, <4>1
    <3>2. CASE waiting # <<>>
      <4>1. PICK w \in Models : w = Head(waiting)
        BY <1>0, <3>2, TailFacts
      <4>2. /\ running' = [running EXCEPT ![m] = NoSlot, ![w] = s]
            /\ waiting' = Tail(waiting)
        BY <1>4, <2>1, <2>2, <3>2, <4>1 DEF HandleDone, RecheckInput, FreeSlot, HandOver
      <4>3. RangeOf(waiting) = {w} \cup RangeOf(waiting')
        BY <1>0, <3>2, <4>1, <4>2, RangeTail
      <4>4. CASE k = w
        BY <1>0, <4>2, <4>4
      <4>5. CASE k # w
        <5>1. running'[k] = running[k]
          BY <1>0, <2>6, <4>2, <4>5
        <5> QED  BY <2>6, <4>3, <4>5, <5>1
      <4> QED  BY <4>4, <4>5
    <3> QED  BY <3>1, <3>2
  <2>7. ASSUME NEW k \in Models, ready'[k] > 0  PROVE OnItsWay(k)'
    <3>1. CASE k = m
      BY <2>3, <2>4, <2>7, <3>1 DEF OnItsWay, NewInput
    <3>2. CASE k # m
      <4>1. OnItsWay(k)
        BY <1>0, <2>3, <2>7 DEF NoLostWakeup
      <4>2. CASE running[k] # NoSlot \/ k \in RangeOf(waiting)
        BY <2>6, <3>2, <4>2 DEF OnItsWay
      <4>3. CASE NewInput(k) \in RangeOf(eventQ)
        BY <2>5, <4>3 DEF OnItsWay, NewInput
      <4>4. CASE k \in toNotify \/ k \in unscanned \cup found \/ k \in RangeOf(notifQ)
        BY <2>3, <4>4 DEF OnItsWay
      <4> QED  BY <4>1, <4>2, <4>3, <4>4 DEF OnItsWay
    <3> QED  BY <3>1, <3>2
  <2> QED  BY <2>7 DEF NoLostWakeup
<1>5. CASE LoopTop
  BY <1>5, WakeupFrame DEF LoopTop
<1>6. ASSUME NEW s \in Slots, CloseAgent(s)  PROVE NoLostWakeup'
  BY <1>6, WakeupFrame DEF CloseAgent
<1>7. CASE LeaveLoop
  BY <1>7, WakeupFrame DEF LeaveLoop
<1> QED  BY <1>2, <1>3, <1>4, <1>5, <1>6, <1>7 DEF ControllerStep

LEMMA WakeupStep == IInv /\ [Next]_vars => NoLostWakeup'
<1> SUFFICES ASSUME IInv, [Next]_vars PROVE NoLostWakeup'
  OBVIOUS
<1>1. CASE UNCHANGED vars
  BY <1>1, WakeupFrame DEF vars, agentVars, ctlVars, readerVars, busVars
<1>2. CASE RequestStop
  <2>1. eventQ \in Seq(ClientEvent) /\ StopLoop \in ClientEvent
    BY EventTypes DEF IInv, TypeOK, AgentTypeOK
  <2>2. RangeOf(eventQ) \subseteq RangeOf(eventQ')
    BY <1>2, <2>1, RangeAppend DEF RequestStop
  <2>3. UNCHANGED <<ready, toNotify, unscanned, found, notifQ, waiting, running>>
    BY <1>2 DEF RequestStop, busVars, ctlVars
  <2> QED  BY <2>2, <2>3, WakeupFrame
<1> QED  BY <1>1, <1>2, WakeupSubmit, WakeupReader, WakeupOthers, WakeupController
   DEF Next

-----------------------------------------------------------------------------
(* The theorems.                                                           *)

(* The conjunction of the safety properties is preserved by every step of  *)
(* the scheduler, its agents, the runners and the submitters.              *)
LEMMA InvariantStep == IInv /\ [Next]_vars => IInv'
  BY TypeStep, AccountingStep, WaitingStep, SlotsStep, DoneStep, ClosingStep,
     ReaderConsistentStep, WakeupStep DEF IInv

(* The inductive invariant holds in every state of a scheduler with any    *)
(* number of models and slots, whatever backlog it starts on.              *)
THEOREM Invariant == Spec => []IInv
  BY InitInvariant, InvariantStep, PTL DEF Spec

(* Every variable keeps its type.                                          *)
THEOREM TypeCorrect == Spec => []TypeOK
<1>1. IInv => TypeOK
  BY DEF IInv
<1> QED  BY <1>1, Invariant, PTL

(* The event loop's bookkeeping of slots agrees with the agents': each     *)
(* slot is free or the slot of exactly one running model (the assertions   *)
(* of _assignModelToFreeSlot and _handleModelDoneNotifyEvent).             *)
THEOREM SlotsAccounted == Spec => []SlotAccounting
<1>1. IInv => SlotAccounting
  BY DEF IInv
<1> QED  BY <1>1, Invariant, PTL

(* A model waits once, is not running while it waits, and nothing waits    *)
(* while a slot is free.                                                   *)
THEOREM WaitingIsDisciplined == Spec => []WaitingDiscipline
<1>1. IInv => WaitingDiscipline
  BY DEF IInv
<1> QED  BY <1>1, Invariant, PTL

(* A model with a ready message always has something on its way that makes *)
(* the event loop look at it again, through preemption, exits of runners   *)
(* that saw an empty queue, and shutdown.                                  *)
THEOREM NothingIsLost == Spec => []NoLostWakeup
<1>1. IInv => NoLostWakeup
  BY DEF IInv
<1> QED  BY <1>1, Invariant, PTL

(* The client keeps the protocol the agents assert: no START on a slot     *)
(* that has a model, one STOP per model and never after its RELEASE, no    *)
(* RELEASE before the callback.                                            *)
LEMMA InvariantAssertions == IInv => AgentAssertions
<1> SUFFICES ASSUME IInv, NEW s \in Slots,
                    agentPC[s] = "loop", agentQ[s] # <<>>
             PROVE  LET t == Head(agentQ[s]).type IN
                    /\ t = "START" => modelState[s] = NoState
                    /\ t = "STOP" => /\ modelState[s].model # NoModel
                                     /\ ~modelState[s].stopRequested
                    /\ t = "EXITED" => modelState[s].model # NoModel
                    /\ t = "RELEASE" => modelState[s].stopPending /\ modelState[s].exited
  BY DEF AgentAssertions, Taking
<1>1. /\ AgentView(modelState[s], proc[s], agentPC[s], closing[s])
      /\ QueueView(agentQ[s], modelState[s], proc[s])
      /\ agentQ[s] \in Seq(AgentEvent)
  BY DEF IInv, SlotsConsistent, SlotInv, TypeOK, AgentTypeOK
<1> QED  BY <1>1, HeadAsserted

(* No assertion of SlotAgent._runEventLoop fails under the Model           *)
(* Scheduler.                                                              *)
THEOREM AgentsAreUsedAsAsserted == Spec => []AgentAssertions
  BY InvariantAssertions, Invariant, PTL

(* When run() has returned, every agent is closed and no ModelRunner       *)
(* process is left running.                                                *)
THEOREM CleanExit == Spec => []ExitIsClean
<1>1. IInv => ExitIsClean
  <2> SUFFICES ASSUME IInv, ctlPC = "exited", NEW s \in Slots
               PROVE  proc[s] \in {"none", "reaped"}
    BY DEF ExitIsClean
  <2>1. modelState[s] = NoState
    BY DEF IInv, ClosingDown
  <2>2. AgentView(modelState[s], proc[s], agentPC[s], closing[s])
    BY DEF IInv, SlotsConsistent, SlotInv
  <2> QED  BY <2>1, <2>2 DEF AgentView
<1> QED  BY <1>1, Invariant, PTL

-----------------------------------------------------------------------------
(* The agents and their processes keep what RunnerPool promises.           *)

Backlog == [m \in Models |-> ready[m] + unacked[m]]
Host == [s \in Slots |-> IF proc[s] = "running" THEN modelState[s].model ELSE NoModel]

(* The model of a live process is the one its slot has been given.         *)
LEMMA HostIsSlotModel ==
  ASSUME IInv, NEW s \in Slots, proc[s] = "running"
  PROVE  /\ modelState[s].model \in Models
         /\ slotModel[s] = modelState[s].model
<1> DEFINE q == agentQ[s]
           st == modelState[s]
<1>1. /\ AgentView(st, proc[s], agentPC[s], closing[s])
      /\ QueueView(q, st, proc[s])
      /\ ClientView(q, st, slotModel[s], s \in pendingPreempt)
  BY DEF IInv, SlotsConsistent, SlotInv
<1>2. st # NoState /\ st.model # NoModel /\ ~st.exited
  BY <1>1 DEF AgentView
<1>3. ~Holds(q, "RELEASE") /\ ~Holds(q, "START")
  BY <1>1, <1>2 DEF QueueView
<1>4. st.model \in MaybeModel
  BY DEF IInv, TypeOK, AgentTypeOK, ModelState
<1> QED  BY <1>1, <1>2, <1>3, <1>4 DEF ClientView, MaybeModel

(* A process starts for a model that has none, in a slot that has none.    *)
LEMMA StartLaunches ==
  ASSUME IInv, NEW s \in Slots, AgentStart(s), UNCHANGED <<ready, unacked>>
  PROVE  \E m \in Models :
           /\ Host[s] = NoModel /\ \A t \in Slots : Host[t] # m
           /\ Host' = [Host EXCEPT ![s] = m] /\ Backlog' = Backlog
<1> DEFINE q == agentQ[s]
           m == Head(q).model
<1>t. /\ modelState \in [Slots -> ModelState] /\ proc \in [Slots -> ProcState]
      /\ q \in Seq(AgentEvent)
  BY DEF IInv, TypeOK, AgentTypeOK
<1>1. /\ agentPC[s] = "loop" /\ q # <<>> /\ Head(q).type = "START"
      /\ modelState' = [modelState EXCEPT ![s] = [NoState EXCEPT !.model = m]]
      /\ proc' = [proc EXCEPT ![s] = "running"]
  BY DEF AgentStart, Taking
<1>2. Head(q) = q[1] /\ 1 \in DOMAIN q /\ Head(q) \in AgentEvent
  BY <1>t, <1>1
<1>3. m \in Models
  BY <1>1, <1>2 DEF AgentEvent
<1>4. slotModel[s] = m
  <2>1. ClientView(q, modelState[s], slotModel[s], s \in pendingPreempt)
    BY DEF IInv, SlotsConsistent, SlotInv
  <2> QED  BY <1>1, <1>2, <2>1 DEF ClientView
<1>5. modelState[s] = NoState /\ proc[s] = "none"
  <2>1. modelState[s] = NoState
    BY <1>1, InvariantAssertions DEF AgentAssertions, Taking
  <2>2. AgentView(modelState[s], proc[s], agentPC[s], closing[s])
    BY DEF IInv, SlotsConsistent, SlotInv
  <2> QED  BY <2>1, <2>2 DEF AgentView
<1> HIDE DEF m
<1>6. ASSUME NEW t \in Slots PROVE Host[t] # m
  <2>1. CASE proc[t] = "running"
    <3>1. slotModel[t] = modelState[t].model
      BY <2>1, HostIsSlotModel
    <3>2. slotModel[t] = m => t = s
      <4>1. \A u \in Slots : slotModel[u] # NoModel => running[slotModel[u]] = u
        BY DEF IInv, SlotAccounting
      <4> QED  BY <1>3, <1>4, <4>1, ModelAssumption
    <3> QED  BY <1>5, <2>1, <3>1, <3>2 DEF Host
  <2>2. CASE proc[t] # "running"
    BY <1>3, <2>2, ModelAssumption DEF Host
  <2> QED  BY <2>1, <2>2
<1>7. Host' = [Host EXCEPT ![s] = m]
  <2>1. proc'[s] = "running" /\ modelState'[s].model = m
    BY <1>t, <1>1 DEF NoState
  <2>2. \A t \in Slots : t # s => proc'[t] = proc[t] /\ modelState'[t] = modelState[t]
    BY <1>t, <1>1
  <2> QED  BY <2>1, <2>2 DEF Host
<1>8. Host[s] = NoModel
  BY <1>5 DEF Host
<1> QED  BY <1>3, <1>6, <1>7, <1>8 DEF Backlog

(* What else an agent and its monitor do concerns no live process.         *)
LEMMA AgentKeepsHosts ==
  ASSUME IInv, NEW s \in Slots, AgentStep(s) \/ MonitorExit(s), ~AgentStart(s)
  PROVE  Host' = Host
<1>t. /\ modelState \in [Slots -> ModelState] /\ proc \in [Slots -> ProcState]
  BY DEF IInv, TypeOK, AgentTypeOK
<1>1. \A t \in Slots : t # s => proc'[t] = proc[t] /\ modelState'[t] = modelState[t]
  BY <1>t DEF AgentStep, AgentStop, AgentExited, AgentRelease, AgentClose, AgentJoined,
              MonitorExit, BeginStop
<1>2. \/ proc'[s] = proc[s] /\ modelState'[s].model = modelState[s].model
      \/ proc[s] # "running" /\ proc'[s] # "running"
  <2>1. CASE AgentStop(s) \/ AgentExited(s) \/ AgentClose(s) \/ AgentJoined(s)
    <3>1. proc' = proc
      BY <2>1 DEF AgentStop, AgentExited, AgentClose, AgentJoined
    <3>2. modelState'[s].model = modelState[s].model
      BY <1>t, <2>1 DEF AgentStop, AgentExited, AgentClose, AgentJoined, BeginStop, ModelState
    <3> QED  BY <3>1, <3>2
  <2>2. CASE AgentRelease(s)
    <3>1. modelState[s].exited
      BY <2>2, InvariantAssertions DEF AgentAssertions, AgentRelease
    <3>2. proc[s] = "reaped"
      BY <3>1 DEF IInv, SlotsConsistent, SlotInv, AgentView
    <3> QED  BY <1>t, <2>2, <3>2 DEF AgentRelease
  <2>3. CASE MonitorExit(s)
    BY <1>t, <2>3 DEF MonitorExit
  <2> QED  BY <2>1, <2>2, <2>3 DEF AgentStep
<1> QED  BY <1>1, <1>2 DEF Host

(* A runner takes messages, acknowledges them, and at last ends.           *)
LEMMA RunnerInPool ==
  ASSUME IInv, NEW s \in Slots, RunnerStep(s)
  PROVE  \/ UNCHANGED <<Backlog, Host>>
         \/ /\ Host[s] # NoModel
            /\ \E k \in 1 .. Backlog[Host[s]] :
                 Backlog' = [Backlog EXCEPT ![Host[s]] = @ - k]
            /\ Host' = Host
         \/ /\ Host[s] # NoModel
            /\ \E k \in 0 .. Backlog[Host[s]] :
                 Backlog' = [Backlog EXCEPT ![Host[s]] = @ - k]
            /\ Host' = [Host EXCEPT ![s] = NoModel]
<1> DEFINE m == modelState[s].model
<1>t. /\ ready \in [Models -> Nat] /\ unacked \in [Models -> Nat]
      /\ proc \in [Slots -> ProcState]
  BY DEF IInv, TypeOK, AgentTypeOK
<1>1. proc[s] = "running" /\ modelState' = modelState
  BY DEF RunnerStep, RunnerTake, RunnerCheckpoint, RunnerDrained, RunnerExit, ProcessEnds,
         Consuming, agentVars
<1>2. m \in Models /\ m # NoModel
  BY <1>1, HostIsSlotModel, ModelAssumption
<1>3. Host[s] = m
  BY <1>1 DEF Host
<1> HIDE DEF m
<1>4. CASE RunnerTake(s)
  <2>1. /\ ready[m] > 0 /\ ready' = [ready EXCEPT ![m] = @ - 1]
        /\ unacked' = [unacked EXCEPT ![m] = @ + 1] /\ proc' = proc
    BY <1>4 DEF RunnerTake, RunnerModel, m, agentVars
  <2>2. \A n \in Models : ready'[n] + unacked'[n] = ready[n] + unacked[n]
    BY <1>t, <1>2, <2>1
  <2> QED  BY <1>1, <2>1, <2>2 DEF Backlog, Host
<1>5. CASE RunnerDrained(s)
  BY <1>1, <1>5 DEF RunnerDrained, agentVars, busVars, Backlog, Host
<1>6. ASSUME unacked' = [unacked EXCEPT ![m] = 0], ready' = ready
      PROVE  /\ unacked[m] \in 0 .. Backlog[m]
             /\ Backlog' = [Backlog EXCEPT ![m] = @ - unacked[m]]
  <2>1. Backlog[m] = ready[m] + unacked[m] /\ ready[m] \in Nat /\ unacked[m] \in Nat
    BY <1>t, <1>2 DEF Backlog
  <2>2. \A n \in Models : ready'[n] + unacked'[n]
                            = IF n = m THEN Backlog[m] - unacked[m] ELSE Backlog[n]
    BY <1>t, <1>2, <1>6, <2>1 DEF Backlog
  <2>3. Backlog' = [n \in Models |-> IF n = m THEN Backlog[m] - unacked[m] ELSE Backlog[n]]
    BY <2>2 DEF Backlog
  <2>4. unacked[m] \in 0 .. Backlog[m]
    BY <2>1
  <2>5. [Backlog EXCEPT ![m] = @ - unacked[m]]
          = [n \in Models |-> IF n = m THEN Backlog[m] - unacked[m] ELSE Backlog[n]]
    BY DEF Backlog
  <2> QED  BY <2>3, <2>4, <2>5
<1>7. CASE RunnerCheckpoint(s)
  <2>1. /\ unacked[m] >= TargetRequests /\ proc' = proc
        /\ unacked' = [unacked EXCEPT ![m] = 0] /\ ready' = ready
    BY <1>7 DEF RunnerCheckpoint, RunnerModel, m, agentVars
  <2>2. unacked[m] \in 1 .. Backlog[m]
    BY <1>t, <1>2, <1>6, <2>1, ControllerAssumption
  <2> QED  BY <1>1, <1>2, <1>3, <1>6, <2>1, <2>2 DEF Host
<1>8. CASE RunnerExit(s)
  <2>1. /\ unacked' = [unacked EXCEPT ![m] = 0] /\ ready' = ready
        /\ proc' = [proc EXCEPT ![s] = "exited"]
    BY <1>8 DEF RunnerExit, RunnerModel, ProcessEnds, m
  <2>2. Host' = [Host EXCEPT ![s] = NoModel]
    BY <1>t, <1>1, <2>1 DEF Host
  <2> QED  BY <1>2, <1>3, <1>6, <2>1, <2>2
<1> QED  BY <1>4, <1>5, <1>7, <1>8 DEF RunnerStep

(* Every step of the scheduler is one of the pool, or concerns it not.     *)
LEMMA StepOfPool == IInv /\ [Next]_vars => [Pool!Next]_<<Backlog, Host>>
<1> SUFFICES ASSUME IInv, [Next]_vars, ~UNCHANGED <<Backlog, Host>> PROVE Pool!Next
  OBVIOUS
<1> USE DEF Pool!Next
<1>1. CASE UNCHANGED <<ready, unacked, proc, modelState>>
  BY <1>1 DEF Backlog, Host
<1>2. ASSUME NEW m \in Models, Submit(m) \/ Notify(m) PROVE Pool!Next
  <2>1. CASE Notify(m)
    BY <1>1, <2>1 DEF Notify, agentVars
  <2>2. CASE Submit(m)
    <3>1. ready' = [ready EXCEPT ![m] = @ + 1] /\ UNCHANGED <<unacked, proc, modelState>>
      BY <2>2 DEF Submit, agentVars
    <3>2. ready \in [Models -> Nat] /\ unacked \in [Models -> Nat]
      BY DEF IInv, TypeOK
    <3>3. Backlog' = [Backlog EXCEPT ![m] = @ + 1]
      <4>1. \A n \in Models : ready'[n] + unacked'[n]
              = IF n = m THEN ready[m] + unacked[m] + 1 ELSE ready[n] + unacked[n]
        BY <3>1, <3>2
      <4> QED  BY <4>1 DEF Backlog
    <3>4. Host' = Host
      BY <3>1 DEF Host
    <3>5. Pool!Arrive(m)
      BY <3>3, <3>4 DEF Pool!Arrive, Backlog, Host
    <3> QED  BY <3>5
  <2> QED  BY <1>2, <2>1, <2>2
<1>3. CASE ReaderStep \/ RequestStop \/ ControllerStep \/ UNCHANGED vars
  <2>1. UNCHANGED <<ready, unacked, proc, modelState>>
    BY <1>3 DEF ReaderStep, ReaderInit, ReaderScan, ReaderNotifyFound, ReaderScanDone,
                ReaderForward, ReaderLeave, RequestStop, ControllerStep, HandleStopLoop,
                HandleNewInput, HandleDone, LoopTop, CloseAgent, LeaveLoop, vars, agentVars,
                busVars
  <2> QED  BY <1>1, <2>1
<1>4. ASSUME NEW s \in Slots, AgentAction(s) PROVE Pool!Next
  <2>1. UNCHANGED <<ready, unacked>> /\ (AgentStep(s) \/ MonitorExit(s))
    BY <1>4 DEF AgentAction, busVars
  <2>2. CASE AgentStart(s)
    <3>1. PICK m \in Models :
            /\ Host[s] = NoModel /\ \A t \in Slots : Host[t] # m
            /\ Host' = [Host EXCEPT ![s] = m] /\ Backlog' = Backlog
      BY <2>1, <2>2, StartLaunches
    <3>2. Pool!Launch(s, m)
      BY <3>1 DEF Pool!Launch, Backlog, Host
    <3> QED  BY <3>2
  <2>3. CASE ~AgentStart(s)
    <3>1. Host' = Host
      BY <2>1, <2>3, AgentKeepsHosts
    <3> QED  BY <2>1, <3>1 DEF Backlog
  <2> QED  BY <2>2, <2>3
<1>5. ASSUME NEW s \in Slots, RunnerStep(s) PROVE Pool!Next
  <2>1. \/ /\ Host[s] # NoModel
           /\ \E k \in 1 .. Backlog[Host[s]] :
                Backlog' = [Backlog EXCEPT ![Host[s]] = @ - k]
           /\ Host' = Host
        \/ /\ Host[s] # NoModel
           /\ \E k \in 0 .. Backlog[Host[s]] :
                Backlog' = [Backlog EXCEPT ![Host[s]] = @ - k]
           /\ Host' = [Host EXCEPT ![s] = NoModel]
    BY <1>5, RunnerInPool
  <2>2. Pool!Absorb(s) \/ Pool!Retire(s)
    BY <2>1 DEF Pool!Absorb, Pool!Retire, Backlog, Host
  <2> QED  BY <2>2
<1> QED  BY <1>2, <1>3, <1>4, <1>5 DEF Next

(* The Model Scheduler gives a model at most one process at any time, a    *)
(* slot at most one process, and only a process that hosts a model takes   *)
(* messages off its backlog.                                               *)
THEOREM SchedulerIsRunnerPool == Spec => ImplementsRunnerPool
<1>1. Init => Pool!Init
  <2> SUFFICES ASSUME Init PROVE Pool!Init
    OBVIOUS
  <2>1. Backlog \in [Models -> Nat]
    BY ControllerAssumption DEF Init, Backlog
  <2>2. Host = [s \in Slots |-> NoModel]
    BY DEF Init, AgentInit, Host
  <2> QED  BY <2>1, <2>2 DEF Pool!Init, Backlog, Host
<1>2. Spec => Pool!Spec
  BY <1>1, StepOfPool, Invariant, PTL DEF Spec, Pool!Spec, Backlog, Host
<1> QED  BY <1>2 DEF ImplementsRunnerPool
=============================================================================
