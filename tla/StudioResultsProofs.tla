------------------------ MODULE StudioResultsProofs ------------------------
(***************************************************************************)
(* The chart of HTM Studio shows the rows of the model's latest run, from   *)
(* the first on and without gaps, and all of them once nothing is on its    *)
(* way: for any numbers of rows, runs, timers and shows, when a model is    *)
(* shown again only before its data came and the database completes writes  *)
(* in their order (BackToBack, OrderedWrites).                              *)
(***************************************************************************)
EXTENDS StudioResults, SequenceTheorems, FiniteSetTheorems, TLAPS

InFlight == Range(reads) \cup Range(toUi)
Loads(q) == Cardinality({k \in DOMAIN q : q[k].kind = "load"})

\* Rows of the latest run that were written, and how many of them are still
\* there: none once they were deleted, or before the model is started.
Written == emitted - Len(puts)
Gone    == model \in {"none", "added"} \/ Event("deleted") \in Range(toUi)
Held    == IF Gone THEN 0 ELSE Written

\* Only answers carry data.
PlainEvents == \A m \in Range(toUi) : m.kind \notin {"load", "fetch"} => m = Event(m.kind)

\* Each ShowModel that waits for its data has one load on its way.
LoadsCounted ==
  /\ loading \in Nat /\ showing \in Nat
  /\ loading = Loads(reads) + Loads(toUi)

\* The rows of the latest run are written one after the other.
PutsFollow ==
  /\ Len(puts) <= emitted
  /\ emitted # 0 => run # 0
  /\ \A k \in 1 .. Len(puts) : puts[k] = [row |-> Written + k - 1, run |-> run]

RowsFollow == \A k \in RowIndex : rows[k] = IF k < Held THEN run ELSE 0

CloseFirst(q) ==
  \A j, k \in 1 .. Len(q) : j < k /\ q[j].kind = "deleted" => q[k].kind # "close"

\* A child belongs to an active model; its close comes before the model can be
\* deleted and started again.
ChildActive ==
  /\ child => model = "active" /\ run # 0 /\ NoDeletion /\ Event("close") \notin Range(toUi)
  /\ Gone => puts = <<>>
  /\ Event("close") \in Range(toUi) => model \in {"active", "ran"}
  /\ CloseFirst(toUi)

\* Nothing is shown or loaded while a deletion is under way, and the batch of
\* keys covers every row.
DeletionAlone ==
  /\ ~NoDeletion => loading = 0 /\ showing = 0
  /\ deletion.step = "none" => deletion = NotDeleting
  /\ deletion.step = "keys" =>
       puts = <<>> /\ \A k \in RowIndex : rows[k] # 0 => k \in deletion.keys

\* Rows of the latest run, from an index on.
Matches(data, offset) == \A n \in 1 .. Len(data) : data[n] = [row |-> offset + n - 1, run |-> run]

\* Nothing on its way to the view leaves a gap or is of an earlier run.
Fits(m) ==
  /\ Matches(m.data, m.offset)
  /\ m.offset + Len(m.data) <= Written
  /\ m.kind = "load" => m.offset = 0
  /\ m.kind = "fetch" => view # None /\ m.offset <= Len(view)
  /\ model \in {"none", "added"} => m.data = <<>>

AnswersFit == \A m \in InFlight : m.kind \in {"load", "fetch"} => Fits(m)

ViewFits ==
  view # None =>
    /\ Matches(view, 0)
    /\ Len(view) <= Written
    /\ pending = "none"
    /\ model \in {"none", "added"} => view = <<>>

TimerSet ==
  /\ timer => timers > 0
  /\ view = None => ~timer

\* What a view lacks is on its way, or about to be asked for.
CatchesUp ==
  view # None /\ NoDeletion =>
    \/ Len(view) = Held
    \/ Event("notify") \in Range(toUi)
    \/ timer
    \/ loading > 0
    \/ \E m \in InFlight : m.kind = "fetch" /\ m.offset + Len(m.data) = Held

\* A pending entry has its load on its way, and that load misses no row of
\* which no notification is to come.
PendingLoads ==
  /\ pending # "none" => loading > 0
  /\ pending = "waiting" =>
       \/ Event("notify") \in Range(toUi)
       \/ \E m \in InFlight : m.kind = "load" /\ Len(m.data) = Held

ResultsInv ==
  /\ TypeOK /\ PlainEvents /\ LoadsCounted
  /\ PutsFollow /\ RowsFollow /\ ChildActive /\ DeletionAlone
  /\ AnswersFit /\ ViewFits /\ TimerSet /\ CatchesUp /\ PendingLoads

-----------------------------------------------------------------------------
(* Numbers in their order.                                                 *)

Below(S, k) == {j \in S : j <= k}

(* Nth enumerates a finite set of numbers in their order.                  *)
LEMMA NthFacts ==
  ASSUME NEW S \in SUBSET Int, IsFiniteSet(S)
  PROVE  /\ Cardinality(S) \in Nat
         /\ \A n \in 1 .. Cardinality(S) : Nth(S, n) \in S
         /\ \A k \in S : \E n \in 1 .. Cardinality(S) : Nth(S, n) = k
         /\ \A m, n \in 1 .. Cardinality(S) : m < n => Nth(S, m) < Nth(S, n)
<1> DEFINE C == Cardinality(S)
           rank == [k \in S |-> Cardinality(Below(S, k))]
<1>1. C \in Nat
  BY FS_CardinalityType
<1>2. \A k \in S : IsFiniteSet(Below(S, k)) /\ Cardinality(Below(S, k)) \in 1 .. C
  <2> TAKE k \in S
  <2>1. Below(S, k) \in SUBSET S /\ k \in Below(S, k)
    BY DEF Below
  <2>2. /\ IsFiniteSet(Below(S, k)) /\ Cardinality(Below(S, k)) \in Nat
        /\ Cardinality(Below(S, k)) <= C
    BY <2>1, FS_Subset, FS_CardinalityType
  <2>3. Cardinality(Below(S, k)) # 0
    BY <2>1, <2>2, FS_EmptySet
  <2> QED  BY <2>2, <2>3, <1>1
<1>3. ASSUME NEW j \in S, NEW k \in S, j < k
      PROVE  rank[j] < rank[k]
  <2>0. j \in Int /\ k \in Int /\ \A i \in S : i \in Int
    OBVIOUS
  <2>1. Below(S, j) \in SUBSET Below(S, k)
    <3>1. \A i \in S : i <= j => i <= k
      BY <1>3, <2>0
    <3> QED  BY <3>1 DEF Below
  <2>4. k \notin Below(S, j) /\ k \in Below(S, k)
    BY <1>3, <2>0 DEF Below
  <2>2. /\ Cardinality(Below(S, j)) <= Cardinality(Below(S, k))
        /\ Cardinality(Below(S, j)) # Cardinality(Below(S, k))
    BY <2>1, <2>4, <1>2, FS_Subset
  <2>3. Cardinality(Below(S, j)) \in Int /\ Cardinality(Below(S, k)) \in Int
    BY <1>2, <1>1
  <2> QED  BY <2>2, <2>3
<1>4. rank \in [S -> 1 .. C]
  BY <1>2
<1>5. \A j, k \in S : rank[j] = rank[k] => j = k
  <2> SUFFICES ASSUME NEW j \in S, NEW k \in S, rank[j] = rank[k], j # k PROVE FALSE
    OBVIOUS
  <2>1. j < k \/ k < j
    OBVIOUS
  <2>2. rank[j] < rank[k] \/ rank[k] < rank[j]
    BY <2>1, <1>3
  <2> QED  BY <2>2, <1>4, <1>1
<1>6. rank \in Injection(S, 1 .. C)
  BY <1>4, <1>5 DEF Injection, IsInjective
<1>7. IsFiniteSet(1 .. C) /\ Cardinality(1 .. C) = C
  BY <1>1, FS_Interval
<1>8. rank \in Surjection(S, 1 .. C)
  BY <1>6, <1>7, FS_Injection
<1>9. \A n \in 1 .. C : \E k \in S : rank[k] = n
  BY <1>8 DEF Surjection
<1>10. \A n \in 1 .. C : Nth(S, n) \in S /\ rank[Nth(S, n)] = n
  <2> TAKE n \in 1 .. C
  <2>1. \E k \in S : Cardinality({j \in S : j <= k}) = n
    BY <1>9 DEF Below
  <2>2. Nth(S, n) \in S /\ Cardinality({j \in S : j <= Nth(S, n)}) = n
    BY <2>1 DEF Nth
  <2> QED  BY <2>2 DEF Below
<1>11. \A k \in S : \E n \in 1 .. C : Nth(S, n) = k
  BY <1>4, <1>5, <1>10
<1>12. ASSUME NEW m \in 1 .. C, NEW n \in 1 .. C, m < n
       PROVE  Nth(S, m) < Nth(S, n)
  <2>1. Nth(S, m) \in S /\ Nth(S, n) \in S /\ rank[Nth(S, m)] = m /\ rank[Nth(S, n)] = n
    BY <1>10
  <2>2. ~ (Nth(S, n) < Nth(S, m))
    <3>1. Nth(S, n) < Nth(S, m) => n < m
      BY <2>1, <1>3
    <3> QED  BY <3>1, <1>12
  <2>3. Nth(S, n) # Nth(S, m)
    BY <2>1, <1>12
  <2>4. Nth(S, m) \in Int /\ Nth(S, n) \in Int
    BY <2>1
  <2> QED  BY <2>2, <2>3, <2>4
<1> QED  BY <1>1, <1>10, <1>11, <1>12

(* Of an interval it is the n-th number from the first.                    *)
LEMMA NthOfInterval ==
  ASSUME NEW a \in Nat, NEW b \in Nat, NEW n \in 1 .. b - a
  PROVE  Nth(a .. b - 1, n) = a + n - 1
<1> DEFINE S == a .. b - 1
<1>1. \A k \in S : Cardinality({j \in S : j <= k}) = k - a + 1
  <2> TAKE k \in S
  <2>1. {j \in S : j <= k} = a .. k
    OBVIOUS
  <2>2. Cardinality(a .. k) = k - a + 1
    BY FS_Interval
  <2> QED  BY <2>1, <2>2
<1>2. a + n - 1 \in S /\ (a + n - 1) - a + 1 = n
  OBVIOUS
<1>3. \E k \in S : Cardinality({j \in S : j <= k}) = n
  BY <1>1, <1>2
<1>4. Nth(S, n) \in S /\ Cardinality({j \in S : j <= Nth(S, n)}) = n
  BY <1>3 DEF Nth
<1>5. Nth(S, n) - a + 1 = n
  BY <1>1, <1>4
<1> QED  BY <1>4, <1>5

-----------------------------------------------------------------------------
(* Queues of messages: what they hold, and how many loads.                 *)

LEMMA RangeFacts ==
  ASSUME NEW S, NEW q \in Seq(S)
  PROVE  /\ Range(q) \in SUBSET S
         /\ \A m : m \in Range(q) <=> \E k \in 1 .. Len(q) : m = q[k]
         /\ q = <<>> => Range(q) = {}
  BY DEF Range

LEMMA RangeOfAppend ==
  ASSUME NEW S, NEW q \in Seq(S), NEW e \in S
  PROVE  Range(Append(q, e)) = Range(q) \cup {e}
<1>1. /\ Append(q, e) \in Seq(S) /\ Len(Append(q, e)) = Len(q) + 1 /\ Len(q) \in Nat
      /\ \A i \in 1 .. Len(q) : Append(q, e)[i] = q[i]
      /\ Append(q, e)[Len(q) + 1] = e
  BY AppendProperties
<1>2. 1 .. Len(q) + 1 = 1 .. Len(q) \cup {Len(q) + 1}
  BY <1>1
<1>3. \A m : m \in Range(Append(q, e)) <=> \E k \in 1 .. Len(q) + 1 : m = Append(q, e)[k]
  <2> DEFINE r == Append(q, e)
  <2>1. r \in Seq(S) /\ Len(r) = Len(q) + 1
    BY <1>1
  <2> HIDE DEF r
  <2>2. \A m : m \in Range(r) <=> \E k \in 1 .. Len(r) : m = r[k]
    BY <2>1, RangeFacts
  <2> QED  BY <2>1, <2>2 DEF r
<1>4. \A m : m \in Range(q) <=> \E k \in 1 .. Len(q) : m = q[k]
  BY RangeFacts
<1>5. ASSUME NEW m PROVE m \in Range(Append(q, e)) <=> m \in Range(q) \cup {e}
  <2>1. ASSUME m \in Range(Append(q, e)) PROVE m \in Range(q) \cup {e}
    <3>1. PICK k \in 1 .. Len(q) + 1 : m = Append(q, e)[k]
      BY <2>1, <1>3
    <3> QED  BY <3>1, <1>1, <1>2, <1>4
  <2>2. ASSUME m \in Range(q) \cup {e} PROVE m \in Range(Append(q, e))
    <3>1. CASE m = e
      <4>1. Len(q) + 1 \in 1 .. Len(q) + 1
        BY <1>1
      <4> QED  BY <3>1, <4>1, <1>1, <1>3
    <3>2. CASE m \in Range(q)
      <4>1. PICK k \in 1 .. Len(q) : m = q[k]
        BY <3>2, <1>4
      <4> QED  BY <4>1, <1>1, <1>2, <1>3
    <3> QED  BY <2>2, <3>1, <3>2
  <2> QED  BY <2>1, <2>2
<1> QED  BY <1>5

(* Removing a message, index by index.                                     *)
LEMMA RemoveFacts ==
  ASSUME NEW S, NEW q \in Seq(S), NEW k \in 1 .. Len(q)
  PROVE  /\ RemoveAt(q, k) \in Seq(S)
         /\ Len(RemoveAt(q, k)) = Len(q) - 1
         /\ \A j \in 1 .. Len(q) - 1 : RemoveAt(q, k)[j] = IF j < k THEN q[j] ELSE q[j + 1]
<1>1. Len(q) \in Nat
  OBVIOUS
<1>2. /\ SubSeq(q, 1, k - 1) \in Seq(S) /\ Len(SubSeq(q, 1, k - 1)) = k - 1
      /\ \A i \in 1 .. k - 1 : SubSeq(q, 1, k - 1)[i] = q[i]
  BY <1>1
<1>3. /\ SubSeq(q, k + 1, Len(q)) \in Seq(S) /\ Len(SubSeq(q, k + 1, Len(q))) = Len(q) - k
      /\ \A i \in 1 .. Len(q) - k : SubSeq(q, k + 1, Len(q))[i] = q[k + i]
  BY <1>1
<1>4. \A j \in 1 .. Len(q) - 1 : ~ (j < k) => j - (k - 1) \in 1 .. Len(q) - k /\ k + (j - (k - 1)) = j + 1
  BY <1>1
<1> DEFINE front == SubSeq(q, 1, k - 1)
           back  == SubSeq(q, k + 1, Len(q))
<1> HIDE DEF front, back
<1>5. /\ front \o back \in Seq(S) /\ Len(front \o back) = Len(front) + Len(back)
      /\ \A i \in 1 .. Len(front) + Len(back) :
           (front \o back)[i] = IF i <= Len(front) THEN front[i] ELSE back[i - Len(front)]
  BY <1>2, <1>3, ConcatProperties DEF front, back
<1>6. Len(front) + Len(back) = Len(q) - 1 /\ Len(front) = k - 1
  <2>1. Len(front) = k - 1
    BY <1>2 DEF front
  <2>2. Len(back) = Len(q) - k
    BY <1>3 DEF back
  <2>3. (k - 1) + (Len(q) - k) = Len(q) - 1
    BY <1>1
  <2> QED  BY <2>1, <2>2, <2>3
<1>7. ASSUME NEW j \in 1 .. Len(q) - 1
      PROVE  (front \o back)[j] = IF j < k THEN q[j] ELSE q[j + 1]
  <2>1. CASE j < k
    <3>1. j \in 1 .. k - 1 /\ j <= k - 1
      BY <2>1
    <3>2. front[j] = q[j]
      BY <3>1, <1>2 DEF front
    <3> QED  BY <2>1, <3>1, <3>2, <1>5, <1>6
  <2>2. CASE ~ (j < k)
    <3>1. ~ (j <= k - 1)
      BY <2>2
    <3>2. back[j - (k - 1)] = q[j + 1]
      BY <2>2, <1>3, <1>4 DEF back
    <3> QED  BY <2>2, <3>1, <3>2, <1>5, <1>6
  <2> QED  BY <2>1, <2>2
<1>8. RemoveAt(q, k) = front \o back
  BY DEF RemoveAt, front, back
<1> QED
  BY <1>5, <1>6, <1>7, <1>8

(* Of what a queue holds, only the removed message can be missing.         *)
LEMMA RangeOfRemove ==
  ASSUME NEW S, NEW q \in Seq(S), NEW k \in 1 .. Len(q)
  PROVE  /\ q[k] \in Range(q)
         /\ Range(RemoveAt(q, k)) \subseteq Range(q)
         /\ Range(q) \subseteq Range(RemoveAt(q, k)) \cup {q[k]}
<1> DEFINE r == RemoveAt(q, k)
<1>1. /\ r \in Seq(S) /\ Len(r) = Len(q) - 1 /\ Len(q) \in Nat
      /\ \A j \in 1 .. Len(q) - 1 : r[j] = IF j < k THEN q[j] ELSE q[j + 1]
  BY RemoveFacts
<1> HIDE DEF r
<1>2. q[k] \in Range(q)
  BY RangeFacts
<1>3. ASSUME NEW m \in Range(r) PROVE m \in Range(q)
  <2>1. PICK j \in 1 .. Len(r) : m = r[j]
    BY <1>1, RangeFacts
  <2>2. m = q[j] \/ m = q[j + 1]
    BY <2>1, <1>1
  <2>3. j \in 1 .. Len(q) /\ j + 1 \in 1 .. Len(q)
    BY <1>1
  <2> QED  BY <2>2, <2>3, RangeFacts
<1>4. ASSUME NEW m \in Range(q), m # q[k] PROVE m \in Range(r)
  <2>1. PICK j \in 1 .. Len(q) : m = q[j]
    BY RangeFacts
  <2>2. CASE j < k
    <3>1. j \in 1 .. Len(r) /\ r[j] = m
      BY <1>1, <2>1, <2>2
    <3> QED  BY <1>1, <3>1, RangeFacts
  <2>3. CASE j > k
    <3>1. j - 1 \in 1 .. Len(r) /\ ~(j - 1 < k) /\ (j - 1) + 1 = j
      BY <1>1, <2>3
    <3>2. r[j - 1] = m
      BY <1>1, <2>1, <3>1
    <3> QED  BY <1>1, <3>1, <3>2, RangeFacts
  <2> QED  BY <2>1, <2>2, <2>3, <1>4
<1> QED  BY <1>2, <1>3, <1>4 DEF r

(* The message at the head is that at the first place.                     *)
LEMMA TailRemoves ==
  ASSUME NEW S, NEW q \in Seq(S), q # <<>>
  PROVE  1 \in 1 .. Len(q) /\ Head(q) = q[1] /\ Tail(q) = RemoveAt(q, 1)
<1>1. Len(q) \in Nat /\ Len(q) > 0 /\ Head(q) = q[1]
  BY EmptySeq
<1>2. /\ RemoveAt(q, 1) \in Seq(S) /\ Len(RemoveAt(q, 1)) = Len(q) - 1
      /\ \A j \in 1 .. Len(q) - 1 : RemoveAt(q, 1)[j] = q[j + 1]
  BY <1>1, RemoveFacts
<1>3. /\ Tail(q) \in Seq(S) /\ Len(Tail(q)) = Len(q) - 1
      /\ \A j \in 1 .. Len(q) - 1 : Tail(q)[j] = q[j + 1]
  BY HeadTailProperties
<1>4. Tail(q) = RemoveAt(q, 1)
  BY <1>1, <1>2, <1>3, SeqEqual
<1> QED  BY <1>1, <1>4

(* How many loads a queue holds: counting is about positions.              *)
LoadsAt(q) == {k \in DOMAIN q : q[k].kind = "load"}

LEMMA LoadsFacts ==
  ASSUME NEW S, NEW q \in Seq(S)
  PROVE  /\ IsFiniteSet(LoadsAt(q)) /\ Loads(q) = Cardinality(LoadsAt(q)) /\ Loads(q) \in Nat
         /\ Loads(q) = 0 <=> \A m \in Range(q) : m.kind # "load"
<1>1. DOMAIN q = 1 .. Len(q) /\ Len(q) \in Nat
  OBVIOUS
<1>2. IsFiniteSet(1 .. Len(q)) /\ LoadsAt(q) \in SUBSET (1 .. Len(q))
  BY <1>1, FS_Interval DEF LoadsAt
<1>3. IsFiniteSet(LoadsAt(q)) /\ Cardinality(LoadsAt(q)) \in Nat
  BY <1>2, FS_Subset, FS_CardinalityType
<1>4. Loads(q) = Cardinality(LoadsAt(q))
  BY DEF Loads, LoadsAt
<1>5. Cardinality(LoadsAt(q)) = 0 <=> LoadsAt(q) = {}
  BY <1>3, FS_EmptySet
<1>6. LoadsAt(q) = {} <=> \A m \in Range(q) : m.kind # "load"
  BY DEF LoadsAt, Range
<1> QED  BY <1>3, <1>4, <1>5, <1>6

LEMMA LoadsOfAppend ==
  ASSUME NEW S, NEW q \in Seq(S), NEW e \in S
  PROVE  Loads(Append(q, e)) = IF e.kind = "load" THEN Loads(q) + 1 ELSE Loads(q)
<1> DEFINE n == Len(q) + 1
<1>1. /\ Append(q, e) \in Seq(S) /\ Len(Append(q, e)) = n /\ Len(q) \in Nat
      /\ \A i \in 1 .. Len(q) : Append(q, e)[i] = q[i]
      /\ Append(q, e)[n] = e
  BY AppendProperties
<1>2. 1 .. n = 1 .. Len(q) \cup {n} /\ n \notin 1 .. Len(q)
  BY <1>1
<1>3. DOMAIN q = 1 .. Len(q) /\ DOMAIN Append(q, e) = 1 .. n
  BY <1>1
<1> HIDE DEF n
<1>4. LoadsAt(Append(q, e)) = IF e.kind = "load" THEN LoadsAt(q) \cup {n} ELSE LoadsAt(q)
  BY <1>1, <1>2, <1>3 DEF LoadsAt
<1>5. n \notin LoadsAt(q)
  BY <1>2, <1>3 DEF LoadsAt
<1>6. /\ IsFiniteSet(LoadsAt(q)) /\ Loads(q) = Cardinality(LoadsAt(q))
      /\ Loads(Append(q, e)) = Cardinality(LoadsAt(Append(q, e)))
  BY <1>1, LoadsFacts
<1>7. Cardinality(LoadsAt(q) \cup {n}) = Cardinality(LoadsAt(q)) + 1
  BY <1>5, <1>6, FS_AddElement
<1> QED  BY <1>4, <1>6, <1>7

LEMMA LoadsOfRemove ==
  ASSUME NEW S, NEW q \in Seq(S), NEW k \in 1 .. Len(q)
  PROVE  Loads(RemoveAt(q, k)) = IF q[k].kind = "load" THEN Loads(q) - 1 ELSE Loads(q)
<1> DEFINE r == RemoveAt(q, k)
           shift == [j \in LoadsAt(r) |-> IF j < k THEN j ELSE j + 1]
           others == LoadsAt(q) \ {k}
<1>1. /\ r \in Seq(S) /\ Len(r) = Len(q) - 1 /\ Len(q) \in Nat
      /\ \A j \in 1 .. Len(q) - 1 : r[j] = IF j < k THEN q[j] ELSE q[j + 1]
  BY RemoveFacts
<1>2. DOMAIN q = 1 .. Len(q) /\ DOMAIN r = 1 .. Len(q) - 1
  BY <1>1
<1> HIDE DEF r
<1>3. \A j \in LoadsAt(r) : j \in 1 .. Len(q) - 1 /\ r[j].kind = "load"
  BY <1>2 DEF LoadsAt
<1>4. ASSUME NEW j \in LoadsAt(r) PROVE shift[j] \in others
  <2>1. j \in 1 .. Len(q) - 1 /\ r[j].kind = "load"
    BY <1>3
  <2>2. CASE j < k
    <3>1. shift[j] = j /\ j \in 1 .. Len(q) /\ j # k /\ q[j].kind = "load"
      BY <2>1, <2>2, <1>1
    <3> QED  BY <3>1, <1>2 DEF LoadsAt
  <2>3. CASE ~ (j < k)
    <3>1. shift[j] = j + 1 /\ j + 1 \in 1 .. Len(q) /\ j + 1 # k /\ q[j + 1].kind = "load"
      BY <2>1, <2>3, <1>1
    <3> QED  BY <3>1, <1>2 DEF LoadsAt
  <2> QED  BY <2>2, <2>3
<1>5. ASSUME NEW i \in LoadsAt(r), NEW j \in LoadsAt(r), shift[i] = shift[j] PROVE i = j
  <2>1. i \in Int /\ j \in Int
    BY <1>3
  <2>2. shift[i] = (IF i < k THEN i ELSE i + 1) /\ shift[j] = (IF j < k THEN j ELSE j + 1)
    OBVIOUS
  <2> QED  BY <2>1, <2>2, <1>5
<1>6. ASSUME NEW i \in others PROVE \E j \in LoadsAt(r) : shift[j] = i
  <2>1. i \in 1 .. Len(q) /\ i # k /\ q[i].kind = "load"
    BY <1>2 DEF LoadsAt
  <2>2. CASE i < k
    <3>1. i \in 1 .. Len(q) - 1 /\ r[i] = q[i]
      BY <2>1, <2>2, <1>1
    <3>2. i \in LoadsAt(r)
      BY <3>1, <2>1, <1>2 DEF LoadsAt
    <3> QED  BY <3>2, <2>2
  <2>3. CASE ~ (i < k)
    <3>1. i - 1 \in 1 .. Len(q) - 1 /\ ~ (i - 1 < k) /\ (i - 1) + 1 = i
      BY <2>1, <2>3, <1>1
    <3>2. r[i - 1] = q[i]
      BY <3>1, <1>1
    <3>3. i - 1 \in LoadsAt(r)
      BY <3>1, <3>2, <2>1, <1>2 DEF LoadsAt
    <3> QED  BY <3>3, <3>1
  <2> QED  BY <2>2, <2>3
<1>7. shift \in Bijection(LoadsAt(r), others)
  BY <1>4, <1>5, <1>6 DEF Bijection, Injection, Surjection, IsInjective
<1>8. /\ IsFiniteSet(LoadsAt(q)) /\ Loads(q) = Cardinality(LoadsAt(q))
      /\ IsFiniteSet(LoadsAt(r)) /\ Loads(r) = Cardinality(LoadsAt(r))
  BY <1>1, LoadsFacts
<1>9. Cardinality(others) = Cardinality(LoadsAt(r))
  BY <1>7, <1>8, FS_Bijection DEF ExistsBijection
<1>10. Cardinality(others) = IF k \in LoadsAt(q) THEN Loads(q) - 1 ELSE Loads(q)
  BY <1>8, FS_RemoveElement
<1>11. k \in LoadsAt(q) <=> q[k].kind = "load"
  BY <1>2 DEF LoadsAt
<1> QED  BY <1>8, <1>9, <1>10, <1>11 DEF r

(* Dropping the answers to an entry that goes.                             *)
Kept(q) == {k \in DOMAIN q : q[k].kind # "fetch"}

LEMMA AliveFacts ==
  ASSUME NEW S, NEW q \in Seq(S)
  PROVE  /\ Alive(q) \in Seq(S)
         /\ Len(Alive(q)) = Cardinality(Kept(q)) /\ Cardinality(Kept(q)) \in Nat
         /\ \A n \in 1 .. Len(Alive(q)) :
              /\ Nth(Kept(q), n) \in 1 .. Len(q) /\ Alive(q)[n] = q[Nth(Kept(q), n)]
              /\ Alive(q)[n].kind # "fetch"
         /\ \A m, n \in 1 .. Len(Alive(q)) : m < n => Nth(Kept(q), m) < Nth(Kept(q), n)
         /\ \A k \in 1 .. Len(q) :
              q[k].kind # "fetch" => \E n \in 1 .. Len(Alive(q)) : Nth(Kept(q), n) = k
<1> DEFINE c == Cardinality(Kept(q))
<1>1. DOMAIN q = 1 .. Len(q) /\ Len(q) \in Nat
  OBVIOUS
<1>2. IsFiniteSet(1 .. Len(q)) /\ Kept(q) \in SUBSET (1 .. Len(q)) /\ Kept(q) \in SUBSET Int
  BY <1>1, FS_Interval DEF Kept
<1>3. IsFiniteSet(Kept(q))
  BY <1>2, FS_Subset
<1>4. /\ c \in Nat
      /\ \A n \in 1 .. c : Nth(Kept(q), n) \in Kept(q)
      /\ \A k \in Kept(q) : \E n \in 1 .. c : Nth(Kept(q), n) = k
      /\ \A m, n \in 1 .. c : m < n => Nth(Kept(q), m) < Nth(Kept(q), n)
  BY <1>2, <1>3, NthFacts
<1>5. Alive(q) = [n \in 1 .. c |-> q[Nth(Kept(q), n)]]
  BY DEF Alive, Kept
<1> HIDE DEF c
<1>6. \A n \in 1 .. c : /\ Nth(Kept(q), n) \in 1 .. Len(q) /\ q[Nth(Kept(q), n)] \in S
                        /\ q[Nth(Kept(q), n)].kind # "fetch"
  BY <1>1, <1>4 DEF Kept
<1>7. Alive(q) \in Seq(S) /\ Len(Alive(q)) = c
  <2>1. Alive(q) \in [1 .. c -> S]
    BY <1>5, <1>6
  <2> QED  BY <2>1, <1>4
<1>8. \A n \in 1 .. c : Alive(q)[n] = q[Nth(Kept(q), n)]
  BY <1>5
<1>9. \A k \in 1 .. Len(q) : q[k].kind # "fetch" => k \in Kept(q)
  BY <1>1 DEF Kept
<1> QED  BY <1>4, <1>6, <1>7, <1>8, <1>9 DEF c

(* What is left are the other messages, and every load.                    *)
LEMMA AliveHolds ==
  ASSUME NEW S, NEW q \in Seq(S)
  PROVE  /\ \A m : m \in Range(Alive(q)) <=> m \in Range(q) /\ m.kind # "fetch"
         /\ Loads(Alive(q)) = Loads(q)
<1> DEFINE a == Alive(q)
           place == [n \in LoadsAt(a) |-> Nth(Kept(q), n)]
<1>1. /\ a \in Seq(S) /\ DOMAIN a = 1 .. Len(a) /\ DOMAIN q = 1 .. Len(q) /\ Len(a) \in Nat
      /\ \A n \in 1 .. Len(a) : /\ Nth(Kept(q), n) \in 1 .. Len(q) /\ a[n] = q[Nth(Kept(q), n)]
                                /\ a[n].kind # "fetch"
      /\ \A m, n \in 1 .. Len(a) : m < n => Nth(Kept(q), m) < Nth(Kept(q), n)
      /\ \A k \in 1 .. Len(q) :
           q[k].kind # "fetch" => \E n \in 1 .. Len(a) : Nth(Kept(q), n) = k
  BY AliveFacts
<1> HIDE DEF a
<1>2. ASSUME NEW m PROVE m \in Range(a) <=> m \in Range(q) /\ m.kind # "fetch"
  BY <1>1 DEF Range
<1>3. ASSUME NEW n \in LoadsAt(a) PROVE place[n] \in LoadsAt(q)
  BY <1>1 DEF LoadsAt
<1>4. ASSUME NEW m \in LoadsAt(a), NEW n \in LoadsAt(a), place[m] = place[n] PROVE m = n
  <2>1. m \in 1 .. Len(a) /\ n \in 1 .. Len(a)
    BY <1>1 DEF LoadsAt
  <2>2. m < n \/ n < m \/ m = n
    BY <2>1
  <2>3. Nth(Kept(q), m) = Nth(Kept(q), n) /\ Nth(Kept(q), m) \in Int /\ Nth(Kept(q), n) \in Int
    BY <1>4, <1>1, <2>1
  <2>4. ~ (Nth(Kept(q), m) < Nth(Kept(q), n)) /\ ~ (Nth(Kept(q), n) < Nth(Kept(q), m))
    BY <2>3
  <2> QED  BY <2>1, <2>2, <2>4, <1>1
<1>5. ASSUME NEW k \in LoadsAt(q) PROVE \E n \in LoadsAt(a) : place[n] = k
  <2>1. k \in 1 .. Len(q) /\ q[k].kind = "load"
    BY <1>1 DEF LoadsAt
  <2>2. PICK n \in 1 .. Len(a) : Nth(Kept(q), n) = k
    BY <2>1, <1>1
  <2>3. n \in LoadsAt(a)
    BY <2>1, <2>2, <1>1 DEF LoadsAt
  <2> QED  BY <2>2, <2>3
<1>6. place \in Bijection(LoadsAt(a), LoadsAt(q))
  BY <1>3, <1>4, <1>5 DEF Bijection, Injection, Surjection, IsInjective
<1>7. /\ IsFiniteSet(LoadsAt(a)) /\ Loads(a) = Cardinality(LoadsAt(a))
      /\ Loads(q) = Cardinality(LoadsAt(q))
  BY <1>1, LoadsFacts
<1>8. Cardinality(LoadsAt(q)) = Cardinality(LoadsAt(a))
  BY <1>6, <1>7, FS_Bijection DEF ExistsBijection
<1> QED  BY <1>2, <1>7, <1>8 DEF a

(* The head stays where it is unless it is dropped.                        *)
LEMMA AliveHead ==
  ASSUME NEW S, NEW q \in Seq(S), q # <<>>, Head(q).kind # "fetch"
  PROVE  Alive(q) # <<>> /\ Head(Alive(q)) = Head(q)
<1> DEFINE a == Alive(q)
<1>0. Head(q) = q[1] /\ 1 \in 1 .. Len(q) /\ Len(q) \in Nat
  BY EmptySeq
<1>1. /\ a \in Seq(S) /\ Len(a) \in Nat
      /\ \A n \in 1 .. Len(a) : Nth(Kept(q), n) \in 1 .. Len(q) /\ a[n] = q[Nth(Kept(q), n)]
      /\ \A m, n \in 1 .. Len(a) : m < n => Nth(Kept(q), m) < Nth(Kept(q), n)
      /\ \A k \in 1 .. Len(q) :
           q[k].kind # "fetch" => \E n \in 1 .. Len(a) : Nth(Kept(q), n) = k
  BY AliveFacts
<1> HIDE DEF a
<1>2. PICK n \in 1 .. Len(a) : Nth(Kept(q), n) = 1
  BY <1>0, <1>1
<1>3. 1 \in 1 .. Len(a)
  BY <1>1
<1>4. n = 1
  <2>1. ~ (1 < n)
    BY <1>1, <1>2, <1>3
  <2> QED  BY <2>1
<1>5. a # <<>> /\ Head(a) = a[1]
  BY <1>1, <1>3
<1> QED  BY <1>0, <1>1, <1>2, <1>3, <1>4, <1>5 DEF a

(* A close stays before the answer to a deletion.                          *)
LEMMA CloseFirstStays ==
  ASSUME NEW S, NEW q \in Seq(S), CloseFirst(q)
  PROVE  /\ CloseFirst(Alive(q))
         /\ q # <<>> => CloseFirst(Tail(q))
         /\ \A e \in S : (e.kind = "close" => \A m \in Range(q) : m.kind # "deleted")
                           => CloseFirst(Append(q, e))
<1>1. CloseFirst(Alive(q))
  <2> SUFFICES ASSUME NEW j \in 1 .. Len(Alive(q)), NEW k \in 1 .. Len(Alive(q)), j < k,
                      Alive(q)[j].kind = "deleted"
               PROVE  Alive(q)[k].kind # "close"
    BY DEF CloseFirst
  <2>1. /\ Nth(Kept(q), j) \in 1 .. Len(q) /\ Nth(Kept(q), k) \in 1 .. Len(q)
        /\ Alive(q)[j] = q[Nth(Kept(q), j)] /\ Alive(q)[k] = q[Nth(Kept(q), k)]
        /\ Nth(Kept(q), j) < Nth(Kept(q), k)
    BY AliveFacts
  <2> QED  BY <2>1 DEF CloseFirst
<1>2. ASSUME q # <<>> PROVE CloseFirst(Tail(q))
  <2>1. /\ Tail(q) \in Seq(S) /\ Len(Tail(q)) = Len(q) - 1 /\ Len(q) \in Nat
        /\ \A i \in 1 .. Len(Tail(q)) : Tail(q)[i] = q[i + 1]
    BY <1>2, HeadTailProperties
  <2>2. \A i \in 1 .. Len(Tail(q)) : i + 1 \in 1 .. Len(q)
    BY <2>1
  <2>3. \A i, j \in 1 .. Len(Tail(q)) : i < j => i + 1 < j + 1
    BY <2>1
  <2> QED  BY <2>1, <2>2, <2>3 DEF CloseFirst
<1>3. ASSUME NEW e \in S, e.kind = "close" => \A m \in Range(q) : m.kind # "deleted"
      PROVE  CloseFirst(Append(q, e))
  <2>1. /\ Append(q, e) \in Seq(S) /\ Len(Append(q, e)) = Len(q) + 1 /\ Len(q) \in Nat
        /\ \A i \in 1 .. Len(q) : Append(q, e)[i] = q[i]
        /\ Append(q, e)[Len(q) + 1] = e
    BY AppendProperties
  <2> SUFFICES ASSUME NEW j \in 1 .. Len(q) + 1, NEW k \in 1 .. Len(q) + 1, j < k,
                      Append(q, e)[j].kind = "deleted"
               PROVE  Append(q, e)[k].kind # "close"
    BY <2>1 DEF CloseFirst
  <2>2. j \in 1 .. Len(q)
    BY <2>1
  <2>3. q[j].kind = "deleted" /\ q[j] \in Range(q)
    BY <2>1, <2>2, RangeFacts
  <2>4. CASE k \in 1 .. Len(q)
    BY <2>1, <2>2, <2>3, <2>4 DEF CloseFirst
  <2>5. CASE k = Len(q) + 1
    BY <2>1, <2>3, <2>5, <1>3
  <2> QED  BY <2>1, <2>4, <2>5
<1> QED  BY <1>1, <1>2, <1>3

-----------------------------------------------------------------------------
(* What is read from the database and what is made of it.                  *)

ReadMessage == Answer({"load", "fetch"})
UiMessage   == Answer({"load", "fetch", "notify", "close", "deleted"})

LEMMA Bounds ==
  /\ MaxRows \in Nat /\ MaxRows > 0 /\ MaxRuns \in Nat /\ MaxRuns > 0
  /\ MaxTimers \in Nat /\ MaxShows \in Nat
<1> DEFINE all == {MaxRows, MaxRuns, MaxTimers, MaxShows}
<1>1. all \subseteq Nat \ {0}
  BY ResultsAssumption
<1>2. MaxRows \in all /\ MaxRuns \in all /\ MaxTimers \in all /\ MaxShows \in all
  OBVIOUS
<1> HIDE DEF all
<1>3. \A n \in all : n \in Nat /\ n > 0
  BY <1>1
<1> QED  BY <1>2, <1>3

LEMMA MessageTypes ==
  /\ ReadMessage \subseteq UiMessage
  /\ \A kind \in {"notify", "close", "deleted"} :
       Event(kind) \in UiMessage /\ Event(kind).kind = kind
  /\ \A m \in UiMessage : m.offset \in 0 .. 2 * MaxRows /\ m.data \in Seq(Row)
  /\ \A m \in ReadMessage : m.kind \in {"load", "fetch"}
<1>1. MaxRows \in Nat
  BY Bounds
<1>2. 0 \in 0 .. 2 * MaxRows
  BY <1>1
<1>3. <<>> \in Seq(Row)
  OBVIOUS
<1>4. \A kind : Event(kind) = [kind |-> kind, offset |-> 0, data |-> <<>>]
  BY DEF Event
<1>5. \A kind \in {"notify", "close", "deleted"} :
        Event(kind) \in UiMessage /\ Event(kind).kind = kind
  BY <1>2, <1>3, <1>4 DEF UiMessage, Answer
<1>6. ReadMessage \subseteq UiMessage
  BY DEF ReadMessage, UiMessage, Answer
<1>7. \A m \in UiMessage : m.offset \in 0 .. 2 * MaxRows /\ m.data \in Seq(Row)
  BY DEF UiMessage, Answer
<1>8. \A m \in ReadMessage : m.kind \in {"load", "fetch"}
  BY DEF ReadMessage, Answer
<1> QED  BY <1>5, <1>6, <1>7, <1>8

(* The counters of rows.                                                   *)
LEMMA Counts ==
  ASSUME TypeOK, PutsFollow
  PROVE  /\ Len(puts) \in Nat /\ Written \in 0 .. MaxRows /\ Held \in 0 .. Written
         /\ Held # 0 => run \in 1 .. MaxRuns
<1>1. Len(puts) \in Nat /\ emitted \in 0 .. MaxRows /\ Len(puts) <= emitted
  BY DEF TypeOK, PutsFollow
<1>2. Written \in 0 .. MaxRows /\ Written <= emitted
  BY <1>1, Bounds DEF Written
<1>3. Held = 0 \/ Held = Written
  BY DEF Held
<1>4. emitted # 0 => run \in 1 .. MaxRuns
  <2>1. run \in 0 .. MaxRuns /\ (emitted # 0 => run # 0)
    BY DEF TypeOK, PutsFollow
  <2> QED  BY <2>1, Bounds
<1>5. Held # 0 => emitted # 0
  BY <1>1, <1>2, <1>3
<1> QED  BY <1>1, <1>2, <1>3, <1>4, <1>5

(* getModelData answers with the rows of the latest run from the offset on. *)
LEMMA StoredFacts ==
  ASSUME TypeOK, PutsFollow, RowsFollow, NEW offset \in Nat
  PROVE  /\ Stored(offset) \in Seq(Row)
         /\ Len(Stored(offset)) = IF offset < Held THEN Held - offset ELSE 0
         /\ Matches(Stored(offset), offset)
<1> DEFINE seen == {k \in RowIndex : rows[k] # 0 /\ k >= offset}
           n == IF offset < Held THEN Held - offset ELSE 0
<1>1. Held \in Nat /\ Held <= MaxRows /\ (Held # 0 => run \in 1 .. MaxRuns)
  BY Counts, Bounds
<1>2. \A k \in RowIndex : rows[k] = IF k < Held THEN run ELSE 0
  BY DEF RowsFollow
<1>3. RowIndex = 0 .. MaxRows - 1 /\ MaxRows \in Nat
  BY Bounds DEF RowIndex
<1>4. \A k \in RowIndex : rows[k] # 0 <=> k < Held
  BY <1>1, <1>2, <1>3
<1>5. seen = offset .. Held - 1
  BY <1>1, <1>3, <1>4
<1>6. Cardinality(offset .. Held - 1) = n
  <2>1. Cardinality(offset .. Held - 1) = IF offset > Held - 1 THEN 0 ELSE (Held - 1) - offset + 1
    BY <1>1, FS_Interval
  <2> QED  BY <1>1, <2>1
<1> HIDE DEF n
<1>7. Stored(offset) = [i \in 1 .. n |-> [row |-> Nth(offset .. Held - 1, i),
                                          run |-> rows[Nth(offset .. Held - 1, i)]]]
  BY <1>5, <1>6 DEF Stored
<1>8. n \in Nat /\ (n # 0 => n = Held - offset)
  BY <1>1 DEF n
<1>9. ASSUME NEW i \in 1 .. n
      PROVE  Stored(offset)[i] = [row |-> offset + i - 1, run |-> run] /\ Stored(offset)[i] \in Row
  <2>1. i \in 1 .. Held - offset
    BY <1>8
  <2>2. Nth(offset .. Held - 1, i) = offset + i - 1
    BY <2>1, <1>1, NthOfInterval
  <2>3. offset + i - 1 \in RowIndex /\ offset + i - 1 < Held
    BY <2>1, <1>1, <1>3
  <2>4. rows[offset + i - 1] = run /\ run \in 1 .. MaxRuns
    BY <2>3, <1>1, <1>2, <1>3
  <2> QED  BY <1>7, <2>2, <2>3, <2>4 DEF Row
<1>10. Stored(offset) \in [1 .. n -> Row]
  BY <1>7, <1>9
<1>11. Stored(offset) \in Seq(Row) /\ Len(Stored(offset)) = n
  BY <1>8, <1>10
<1> QED  BY <1>9, <1>11 DEF Matches, n

(* So does the fetch of an entry, from what the entry holds on.            *)
LEMMA ReadFacts ==
  ASSUME TypeOK, PutsFollow, RowsFollow, NEW kind \in {"load", "fetch"},
         NEW offset \in 0 .. Written
  PROVE  /\ GetModelData(kind, offset) \in ReadMessage
         /\ GetModelData(kind, offset).kind = kind /\ GetModelData(kind, offset).offset = offset
         /\ Matches(GetModelData(kind, offset).data, offset)
         /\ offset + Len(GetModelData(kind, offset).data) \in offset .. Written
         /\ offset <= Held => offset + Len(GetModelData(kind, offset).data) = Held
         /\ Held = 0 => GetModelData(kind, offset).data = <<>>
<1>1. Written \in 0 .. MaxRows /\ Held \in 0 .. Written /\ MaxRows \in Nat
  BY Counts, Bounds
<1>2. /\ Stored(offset) \in Seq(Row)
      /\ Len(Stored(offset)) = IF offset < Held THEN Held - offset ELSE 0
      /\ Matches(Stored(offset), offset)
  BY <1>1, StoredFacts
<1>3. offset \in 0 .. 2 * MaxRows
  BY <1>1
<1>4. GetModelData(kind, offset) = [kind |-> kind, offset |-> offset, data |-> Stored(offset)]
  BY DEF GetModelData
<1>5. /\ offset + Len(Stored(offset)) \in offset .. Written
      /\ offset <= Held => offset + Len(Stored(offset)) = Held
      /\ Held = 0 => Len(Stored(offset)) = 0
  BY <1>1, <1>2
<1>6. Len(Stored(offset)) = 0 => Stored(offset) = <<>>
  BY <1>2, EmptySeq
<1> QED  BY <1>2, <1>3, <1>4, <1>5, <1>6 DEF ReadMessage, Answer

(* An answer that begins within the view leaves no gap.                    *)
LEMMA SpliceFacts ==
  ASSUME NEW data \in Seq(Row), NEW records \in Seq(Row), NEW offset \in 0 .. Len(data),
         Matches(data, 0), Matches(records, offset)
  PROVE  /\ Splice(data, offset, records) \in Seq(Row)
         /\ Matches(Splice(data, offset, records), 0)
         /\ Len(Splice(data, offset, records)) =
              IF Len(data) < offset + Len(records) THEN offset + Len(records) ELSE Len(data)
<1> DEFINE front == SubSeq(data, 1, offset)
           rest  == SubSeq(data, offset + Len(records) + 1, Len(data))
           both  == front \o records
           all   == both \o rest
           from  == offset + Len(records)
<1>1. Len(data) \in Nat /\ Len(records) \in Nat /\ from \in Nat /\ offset <= from
  OBVIOUS
<1>2. /\ front \in Seq(Row) /\ Len(front) = offset
      /\ \A i \in 1 .. offset : front[i] = data[i]
  BY <1>1
<1>3. /\ rest \in Seq(Row) /\ Len(rest) = (IF from < Len(data) THEN Len(data) - from ELSE 0)
      /\ \A i \in 1 .. Len(data) - from : rest[i] = data[from + i]
  BY <1>1
<1> HIDE DEF front, rest
<1>4. /\ both \in Seq(Row) /\ Len(both) = from
      /\ \A i \in 1 .. from : both[i] = IF i <= offset THEN front[i] ELSE records[i - offset]
  BY <1>2, ConcatProperties
<1> HIDE DEF both, from
<1>5. /\ all \in Seq(Row) /\ Len(all) = from + Len(rest)
      /\ \A i \in 1 .. from + Len(rest) : all[i] = IF i <= from THEN both[i] ELSE rest[i - from]
  <2>1. /\ all \in Seq(Row) /\ Len(all) = Len(both) + Len(rest)
        /\ \A i \in 1 .. Len(both) + Len(rest) :
             all[i] = IF i <= Len(both) THEN both[i] ELSE rest[i - Len(both)]
    BY <1>3, <1>4, ConcatProperties
  <2> QED  BY <2>1, <1>4
<1>6. Splice(data, offset, records) = all
  BY DEF Splice, all, both, front, rest
<1> HIDE DEF all
<1>7. ASSUME NEW i \in 1 .. Len(all) PROVE all[i] = [row |-> i - 1, run |-> run]
  <2>0. \A k \in 1 .. Len(data) : data[k] = [row |-> k - 1, run |-> run]
    BY DEF Matches
  <2>00. \A k \in 1 .. Len(records) : records[k] = [row |-> offset + k - 1, run |-> run]
    BY DEF Matches
  <2>01. i \in Nat /\ i >= 1 /\ i <= from + Len(rest) /\ Len(rest) \in Nat
    BY <1>1, <1>3, <1>5
  <2>1. CASE i <= offset
    <3>1. i \in 1 .. offset /\ i \in 1 .. from /\ i \in 1 .. Len(data) /\ i <= from
      BY <2>1, <2>01, <1>1
    <3>2. all[i] = data[i]
      BY <2>1, <3>1, <2>01, <1>2, <1>4, <1>5
    <3> QED  BY <3>1, <3>2, <2>0
  <2>2. CASE ~ (i <= offset) /\ i <= from
    <3>1. i \in 1 .. from /\ i - offset \in 1 .. Len(records) /\ offset + (i - offset) - 1 = i - 1
      BY <2>2, <2>01, <1>1 DEF from
    <3>2. all[i] = records[i - offset]
      BY <2>2, <3>1, <2>01, <1>4, <1>5
    <3> QED  BY <3>1, <3>2, <2>00
  <2>3. CASE ~ (i <= from)
    <3>0. from < Len(data) /\ Len(rest) = Len(data) - from
      BY <2>3, <2>01, <1>1, <1>3
    <3>1. /\ i - from \in 1 .. Len(data) - from /\ from + (i - from) = i
          /\ i \in 1 .. Len(data)
      BY <2>3, <2>01, <1>1, <3>0
    <3>2. all[i] = data[i]
      BY <2>3, <3>1, <2>01, <1>3, <1>5
    <3> QED  BY <3>1, <3>2, <2>0
  <2> QED  BY <2>1, <2>2, <2>3
<1>8. Len(all) = IF Len(data) < from THEN from ELSE Len(data)
  BY <1>1, <1>3, <1>5
<1>9. \A i \in 1 .. Len(all) : all[i] = [row |-> 0 + i - 1, run |-> run]
  <2>1. \A i \in 1 .. Len(all) : 0 + i - 1 = i - 1
    BY <1>8, <1>1
  <2> QED  BY <1>7, <2>1
<1> QED  BY <1>5, <1>6, <1>8, <1>9 DEF Matches, from

-----------------------------------------------------------------------------
(* The steps.  What most of them have in common comes first.               *)

DeletedComes == Event("deleted") \in Range(toUi)
NotifyComes  == Event("notify") \in Range(toUi)
CloseComes   == Event("close") \in Range(toUi)
IsAnswer(m)  == m.kind \in {"load", "fetch"}
Fresh        == model \in {"none", "added"}

LEMMA Queues ==
  ASSUME TypeOK
  PROVE  /\ reads \in Seq(ReadMessage) /\ reads \in Seq(UiMessage) /\ toUi \in Seq(UiMessage)
         /\ Range(reads) \subseteq ReadMessage /\ Range(toUi) \subseteq UiMessage
         /\ Loads(reads) \in Nat /\ Loads(toUi) \in Nat
<1>1. reads \in Seq(ReadMessage) /\ toUi \in Seq(UiMessage)
  BY DEF TypeOK, ReadMessage, UiMessage
<1>2. reads \in Seq(UiMessage)
  BY <1>1, MessageTypes, SeqMonotonic
<1>3. Range(reads) \subseteq ReadMessage /\ Range(toUi) \subseteq UiMessage
  BY <1>1, RangeFacts
<1>4. Loads(reads) \in Nat /\ Loads(toUi) \in Nat
  BY <1>1, LoadsFacts
<1> QED  BY <1>1, <1>2, <1>3, <1>4

LEMMA HeadTaken ==
  ASSUME TypeOK, toUi # <<>>
  PROVE  /\ Tail(toUi) \in Seq(UiMessage) /\ Head(toUi) \in UiMessage
         /\ Head(toUi) \in Range(toUi)
         /\ Range(Tail(toUi)) \subseteq Range(toUi)
         /\ Range(toUi) \subseteq Range(Tail(toUi)) \cup {Head(toUi)}
         /\ Loads(Tail(toUi)) = IF Head(toUi).kind = "load" THEN Loads(toUi) - 1 ELSE Loads(toUi)
<1>1. toUi \in Seq(UiMessage)
  BY Queues
<1>2. 1 \in 1 .. Len(toUi) /\ Head(toUi) = toUi[1] /\ Tail(toUi) = RemoveAt(toUi, 1)
  BY <1>1, TailRemoves
<1>3. RemoveAt(toUi, 1) \in Seq(UiMessage)
  BY <1>1, <1>2, RemoveFacts
<1>4. toUi[1] \in UiMessage
  BY <1>1, <1>2, ElementOfSeq
<1>5. /\ toUi[1] \in Range(toUi)
      /\ Range(RemoveAt(toUi, 1)) \subseteq Range(toUi)
      /\ Range(toUi) \subseteq Range(RemoveAt(toUi, 1)) \cup {toUi[1]}
  BY <1>1, <1>2, RangeOfRemove
<1>6. Loads(RemoveAt(toUi, 1)) = IF toUi[1].kind = "load" THEN Loads(toUi) - 1 ELSE Loads(toUi)
  BY <1>1, <1>2, LoadsOfRemove
<1> QED  BY <1>2, <1>3, <1>4, <1>5, <1>6

(* Whether a deletion is under way.                                        *)
LEMMA DeletionFacts ==
  /\ NoDeletion <=> deletion = NotDeleting /\ ~ DeletedComes
  /\ Gone <=> Fresh \/ DeletedComes
  /\ NotDeleting.step = "none"
  BY DEF NoDeletion, DeletedComes, Gone, Fresh, NotDeleting

(* Steps that leave the main process and the run alone.                    *)
LEMMA MainStays ==
  ASSUME TypeOK, TypeOK', PutsFollow, RowsFollow, ChildActive, DeletionAlone,
         UNCHANGED mainVars,
         Fresh' <=> Fresh, child => model' = model,
         DeletedComes' <=> DeletedComes, CloseComes' => CloseComes, CloseFirst(toUi)',
         ~ NoDeletion => loading' = 0 /\ showing' = 0
  PROVE  /\ PutsFollow' /\ RowsFollow' /\ ChildActive' /\ DeletionAlone'
         /\ Written' = Written /\ Held' = Held /\ (NoDeletion' <=> NoDeletion)
<1>1. UNCHANGED <<run, child, emitted, puts, rows, deletion>>
  BY DEF mainVars
<1>2. Written' = Written
  BY <1>1 DEF Written
<1>3. Gone' <=> Gone
  BY DEF Gone, Fresh, DeletedComes
<1>4. Held' = Held
  BY <1>2, <1>3 DEF Held
<1>5. NoDeletion' <=> NoDeletion
  BY <1>1 DEF NoDeletion, DeletedComes
<1>6. PutsFollow'
  BY <1>1, <1>2 DEF PutsFollow
<1>7. RowsFollow'
  BY <1>1, <1>4 DEF RowsFollow
<1>8. ChildActive'
  <2>1. Event("close") \in Range(toUi)' => model' \in {"active", "ran"}
    <3>1. Event("close") \in Range(toUi)' => ~ Fresh
      BY DEF CloseComes, ChildActive, Fresh
    <3> QED  BY <3>1 DEF Fresh, TypeOK
  <2> QED
    BY <1>1, <1>3, <1>5, <2>1 DEF ChildActive, CloseComes
<1>9. DeletionAlone'
  BY <1>1, <1>5 DEF DeletionAlone
<1> QED  BY <1>2, <1>4, <1>5, <1>6, <1>7, <1>8, <1>9

(* An answer that fits goes on fitting.                                    *)
LEMMA FitsStays ==
  ASSUME NEW m, Fits(m), Len(m.data) \in Nat, m.offset \in Nat,
         Written \in Nat, Written' \in Nat, Written' >= Written,
         run' = run, Fresh' => Fresh,
         m.kind = "fetch" => /\ view' # None
                             /\ Len(view) \in Nat /\ Len(view') \in Nat /\ Len(view') >= Len(view)
  PROVE  Fits(m)'
<1>1. Matches(m.data, m.offset)'
  BY DEF Fits, Matches
<1>2. m.offset + Len(m.data) <= Written'
  BY DEF Fits
<1>3. m.kind = "fetch" => view' # None /\ m.offset <= Len(view')
  BY DEF Fits
<1> QED  BY <1>1, <1>2, <1>3 DEF Fits, Fresh

(* Steps that leave the entries alone: no answer comes or goes, and what is *)
(* written is notified.                                                    *)
LEMMA DataStays ==
  ASSUME TypeOK, PutsFollow, AnswersFit, ViewFits, TimerSet, CatchesUp, PendingLoads,
         Written' \in Nat, Written' >= Written, run' = run, Fresh' => Fresh,
         UNCHANGED <<view, pending, timer, timers, loading>>,
         \A m \in UiMessage : IsAnswer(m) => (m \in InFlight' <=> m \in InFlight),
         InFlight' \subseteq UiMessage,
         \/ NotifyComes'
         \/ Held' = Held /\ (NotifyComes => NotifyComes')
         \/ ~ NoDeletion' /\ pending = "none",
         NoDeletion' => NoDeletion
  PROVE  AnswersFit' /\ ViewFits' /\ TimerSet' /\ CatchesUp' /\ PendingLoads'
<1>1. Written \in Nat /\ InFlight \subseteq UiMessage
  BY Counts, Queues, MessageTypes DEF InFlight
<1>2. \A m \in UiMessage : m.offset \in Nat /\ Len(m.data) \in Nat
  <2> TAKE m \in UiMessage
  <2>1. m.offset \in 0 .. 2 * MaxRows /\ m.data \in Seq(Row)
    BY MessageTypes
  <2> QED  BY <2>1, LenProperties
<1>3. AnswersFit'
  <2> SUFFICES ASSUME NEW m \in InFlight', IsAnswer(m) PROVE Fits(m)'
    BY DEF AnswersFit, IsAnswer
  <2>1. m \in UiMessage /\ m \in InFlight
    OBVIOUS
  <2>2. Fits(m)
    BY <2>1 DEF AnswersFit, IsAnswer
  <2>3. m.kind = "fetch" => view # None /\ Len(view) \in Nat
    BY <2>2, LenProperties DEF Fits, TypeOK
  <2>4. m.kind = "fetch" =>
          view' # None /\ Len(view) \in Nat /\ Len(view') \in Nat /\ Len(view') >= Len(view)
    BY <2>3
  <2> QED  BY <1>1, <1>2, <2>1, <2>2, <2>4, FitsStays
<1>4. ViewFits'
  <2> SUFFICES ASSUME view # None PROVE ViewFits'
    BY DEF ViewFits
  <2>1. /\ Matches(view, 0) /\ Len(view) <= Written /\ pending = "none"
        /\ Fresh => view = <<>>
    BY DEF ViewFits, Fresh
  <2>2. Len(view) \in Nat
    BY LenProperties DEF TypeOK
  <2>3. Matches(view, 0)'
    BY <2>1 DEF Matches
  <2>4. Len(view') <= Written'
    BY <2>1, <2>2, <1>1
  <2> QED  BY <2>1, <2>3, <2>4 DEF ViewFits, Fresh
<1>5. TimerSet'
  BY DEF TimerSet
<1>6. CatchesUp'
  <2> SUFFICES ASSUME view # None, NoDeletion', Held' = Held, NotifyComes => NotifyComes'
               PROVE  CatchesUp'
    BY DEF CatchesUp, NotifyComes
  <2>1. \/ Len(view) = Held \/ NotifyComes \/ timer \/ loading > 0
        \/ \E m \in InFlight : m.kind = "fetch" /\ m.offset + Len(m.data) = Held
    BY DEF CatchesUp, NotifyComes
  <2>2. ASSUME NEW m \in InFlight, m.kind = "fetch" PROVE m \in InFlight'
    BY <1>1, <2>2 DEF IsAnswer
  <2> QED  BY <2>1, <2>2 DEF CatchesUp, NotifyComes
<1>7. PendingLoads'
  <2>1. pending' # "none" => loading' > 0
    BY DEF PendingLoads
  <2> SUFFICES ASSUME pending = "waiting", Held' = Held, NotifyComes => NotifyComes'
               PROVE  PendingLoads'
    BY <2>1 DEF PendingLoads, NotifyComes
  <2>2. NotifyComes \/ \E m \in InFlight : m.kind = "load" /\ Len(m.data) = Held
    BY DEF PendingLoads, NotifyComes
  <2>3. ASSUME NEW m \in InFlight, m.kind = "load" PROVE m \in InFlight'
    BY <1>1, <2>3 DEF IsAnswer
  <2> QED  BY <2>1, <2>2, <2>3 DEF PendingLoads, NotifyComes
<1> QED  BY <1>3, <1>4, <1>5, <1>6, <1>7

(* Steps in which the entry goes, with its fetches.                        *)
LEMMA ViewGoes ==
  ASSUME TypeOK, PutsFollow, AnswersFit, PendingLoads,
         Written' = Written, run' = run, Fresh' => Fresh,
         view' = None, timer' = FALSE, UNCHANGED <<pending, loading>>,
         \A m \in InFlight' : m \in InFlight /\ m.kind # "fetch",
         \A m \in InFlight : m.kind = "load" => m \in InFlight',
         pending = "none" \/ (Held' = Held /\ (NotifyComes => NotifyComes'))
  PROVE  AnswersFit' /\ ViewFits' /\ TimerSet' /\ CatchesUp' /\ PendingLoads'
<1>1. Written \in Nat /\ InFlight \subseteq UiMessage
  BY Counts, Queues, MessageTypes DEF InFlight
<1>2. \A m \in UiMessage : m.offset \in Nat /\ Len(m.data) \in Nat
  <2> TAKE m \in UiMessage
  <2>1. m.offset \in 0 .. 2 * MaxRows /\ m.data \in Seq(Row)
    BY MessageTypes
  <2> QED  BY <2>1, LenProperties
<1>3. AnswersFit'
  <2> SUFFICES ASSUME NEW m \in InFlight', IsAnswer(m) PROVE Fits(m)'
    BY DEF AnswersFit, IsAnswer
  <2>1. m \in UiMessage /\ m \in InFlight /\ m.kind # "fetch"
    BY <1>1
  <2>2. Fits(m)
    BY <2>1 DEF AnswersFit, IsAnswer
  <2> QED  BY <1>1, <1>2, <2>1, <2>2, FitsStays
<1>4. ViewFits' /\ TimerSet' /\ CatchesUp'
  BY DEF ViewFits, TimerSet, CatchesUp
<1>5. PendingLoads'
  <2>1. CASE pending = "none"
    BY <2>1 DEF PendingLoads
  <2>2. CASE Held' = Held /\ (NotifyComes => NotifyComes')
    BY <2>2 DEF PendingLoads, NotifyComes
  <2> QED  BY <2>1, <2>2
<1> QED  BY <1>3, <1>4, <1>5

(* What a fetch asks for: the rows that follow what the entry holds.       *)
LEMMA FetchFacts ==
  ASSUME TypeOK, PutsFollow, RowsFollow, NEW data \in Seq(Row), Len(data) <= Written,
         Fresh => data = <<>>
  PROVE  /\ Fetch(data) \in ReadMessage /\ Fetch(data).kind = "fetch"
         /\ Fetch(data).offset = Len(data)
         /\ Matches(Fetch(data).data, Fetch(data).offset)
         /\ Fetch(data).offset + Len(Fetch(data).data) <= Written
         /\ NoDeletion => Fetch(data).offset + Len(Fetch(data).data) = Held
         /\ Fresh => Fetch(data).data = <<>>
<1>1. Written \in 0 .. MaxRows /\ Held \in 0 .. Written /\ MaxRows \in Nat
  BY Counts, Bounds
<1>2. Len(data) \in 0 .. Written
  BY <1>1, LenProperties
<1>3. Fetch(data) = GetModelData("fetch", Len(data))
  BY DEF Fetch
<1>4. NoDeletion => Len(data) <= Held
  <2>1. CASE Gone
    <3>1. NoDeletion => Fresh
      BY <2>1, DeletionFacts
    <3> QED  BY <3>1, <1>1, EmptySeq
  <2>2. CASE ~ Gone
    BY <2>2 DEF Held
  <2> QED  BY <2>1, <2>2
<1>5. Fresh => Held = 0
  BY DeletionFacts DEF Held
<1>6. /\ GetModelData("fetch", Len(data)) \in ReadMessage
      /\ GetModelData("fetch", Len(data)).kind = "fetch"
      /\ GetModelData("fetch", Len(data)).offset = Len(data)
      /\ Matches(GetModelData("fetch", Len(data)).data, Len(data))
      /\ Len(data) + Len(GetModelData("fetch", Len(data)).data) \in Len(data) .. Written
      /\ Len(data) <= Held => Len(data) + Len(GetModelData("fetch", Len(data)).data) = Held
      /\ Held = 0 => GetModelData("fetch", Len(data)).data = <<>>
  BY <1>2, ReadFacts
<1>7. Len(data) + Len(GetModelData("fetch", Len(data)).data) <= Written
  BY <1>1, <1>2, <1>6
<1> QED  BY <1>3, <1>4, <1>5, <1>6, <1>7

(* _fetchNewResultsSoon: a fetch is scheduled, or on its way.              *)
LEMMA FetchSoonDoes ==
  ASSUME NEW data, NEW scheduled \in BOOLEAN, NEW others, FetchSoon(data, scheduled, others),
         timers \in 0 .. MaxTimers, scheduled => timers > 0
  PROVE  /\ timer' \in BOOLEAN /\ timers' \in 0 .. MaxTimers
         /\ timer' => timers' > 0
         /\ \/ timer' = TRUE /\ reads' = others
            \/ timer' = FALSE /\ reads' = Append(others, Fetch(data))
<1>1. MaxTimers \in Nat
  BY Bounds
<1>2. CASE scheduled /\ timer' = TRUE /\ reads' = others /\ UNCHANGED timers
  BY <1>2
<1>3. CASE /\ ~ scheduled /\ timers < MaxTimers
           /\ timer' = TRUE /\ timers' = timers + 1 /\ reads' = others
  BY <1>1, <1>3
<1>4. CASE /\ ~ scheduled /\ timer' = FALSE /\ reads' = Append(others, Fetch(data))
           /\ UNCHANGED timers
  BY <1>4
<1> QED  BY <1>2, <1>3, <1>4 DEF FetchSoon

-----------------------------------------------------------------------------
(* The main process.                                                       *)

LEMMA ModelDataInv ==
  ASSUME ResultsInv, ModelData
  PROVE  ResultsInv'
<1> USE DEF ResultsInv
<1>1. /\ child /\ emitted < MaxRows
      /\ puts' = Append(puts, [row |-> emitted, run |-> run])
      /\ emitted' = emitted + 1
      /\ UNCHANGED <<run, child, rows, deletion, reads, toUi, loading, showing>>
      /\ UNCHANGED <<model, visible>> /\ UNCHANGED <<pending, view, timer, timers>>
  BY DEF ModelData, storeVars, dataVars
<1>2. /\ run # 0 /\ model = "active" /\ NoDeletion /\ ~ Gone
      /\ emitted \in 0 .. MaxRows /\ run \in 0 .. MaxRuns /\ puts \in Seq(Row)
      /\ Len(puts) <= emitted
  BY <1>1, DeletionFacts DEF ChildActive, TypeOK, Fresh, PutsFollow
<1>3. [row |-> emitted, run |-> run] \in Row
  <2>1. emitted \in 0 .. MaxRows - 1 /\ run \in 1 .. MaxRuns
    BY <1>1, <1>2, Bounds
  <2> QED  BY <2>1 DEF Row, RowIndex
<1>4. /\ puts' \in Seq(Row) /\ Len(puts') = Len(puts) + 1 /\ Len(puts) \in Nat
      /\ \A i \in 1 .. Len(puts) : puts'[i] = puts[i]
      /\ puts'[Len(puts) + 1] = [row |-> emitted, run |-> run]
  BY <1>1, <1>2, <1>3, AppendProperties
<1>5. Written' = Written /\ Written = emitted - Len(puts)
  BY <1>1, <1>2, <1>4, Bounds DEF Written
<1>6. TypeOK'
  <2>1. emitted' \in 0 .. MaxRows
    BY <1>1, <1>2, Bounds
  <2> QED  BY <1>1, <1>4, <2>1 DEF TypeOK
<1>7. Held' = Held /\ (Gone' <=> Gone) /\ (NoDeletion' <=> NoDeletion)
  BY <1>1, <1>5 DEF Held, Gone, NoDeletion
<1>8. PutsFollow'
  <2>1. Len(puts') <= emitted'
    BY <1>1, <1>2, <1>4, Bounds
  <2>2. ASSUME NEW k \in 1 .. Len(puts')
        PROVE  puts'[k] = [row |-> Written + k - 1, run |-> run]
    <3>1. CASE k \in 1 .. Len(puts)
      BY <3>1, <1>4 DEF PutsFollow
    <3>2. CASE k = Len(puts) + 1
      <4>1. Written + k - 1 = emitted
        BY <3>2, <1>2, <1>4, <1>5, Bounds
      <4> QED  BY <3>2, <4>1, <1>4
    <3> QED  BY <3>1, <3>2, <1>4
  <2> QED  BY <2>1, <2>2, <1>1, <1>2, <1>5 DEF PutsFollow
<1>9. PlainEvents' /\ LoadsCounted' /\ RowsFollow'
  BY <1>1, <1>7 DEF PlainEvents, LoadsCounted, Loads, RowsFollow
<1>10. ChildActive'
  BY <1>1, <1>2, <1>7 DEF ChildActive
<1>11. DeletionAlone'
  BY <1>1, <1>2, <1>7, DeletionFacts DEF DeletionAlone
<1>12. AnswersFit' /\ ViewFits' /\ TimerSet' /\ CatchesUp' /\ PendingLoads'
  <2>1. Written' \in Nat /\ Written' >= Written
    BY <1>5, Counts
  <2>2. InFlight' = InFlight /\ InFlight' \subseteq UiMessage
    BY <1>1, Queues, MessageTypes DEF InFlight
  <2> QED  BY <1>1, <1>7, <2>1, <2>2, DataStays DEF NotifyComes, Fresh
<1> QED  BY <1>6, <1>8, <1>9, <1>10, <1>11, <1>12

LEMMA ChildClosesInv ==
  ASSUME ResultsInv, ChildCloses
  PROVE  ResultsInv'
<1> USE DEF ResultsInv
<1>1. /\ child /\ child' = FALSE /\ toUi' = Append(toUi, Event("close"))
      /\ UNCHANGED <<run, emitted, puts, rows, deletion, reads, loading, showing>>
      /\ UNCHANGED <<model, visible>> /\ UNCHANGED <<pending, view, timer, timers>>
  BY DEF ChildCloses, storeVars, dataVars
<1>2. model = "active" /\ NoDeletion /\ ~ DeletedComes /\ ~ Fresh
  BY <1>1, DeletionFacts DEF ChildActive, Fresh
<1>3. Event("close") \in UiMessage /\ Event("close").kind = "close"
  BY MessageTypes
<1>4. /\ toUi' \in Seq(UiMessage) /\ Range(toUi') = Range(toUi) \cup {Event("close")}
      /\ Loads(toUi') = Loads(toUi)
  BY <1>1, <1>3, Queues, AppendProperties, RangeOfAppend, LoadsOfAppend
<1>5. TypeOK'
  BY <1>1, <1>4 DEF TypeOK, UiMessage
<1>6. DeletedComes' <=> DeletedComes
  BY <1>4 DEF DeletedComes, Event
<1>7. Written' = Written /\ (Gone' <=> Gone) /\ Held' = Held /\ (NoDeletion' <=> NoDeletion)
  BY <1>1, <1>6 DEF Written, Gone, Held, NoDeletion, DeletedComes
<1>8. PlainEvents' /\ LoadsCounted'
  BY <1>1, <1>3, <1>4 DEF PlainEvents, LoadsCounted
<1>9. PutsFollow' /\ RowsFollow'
  BY <1>1, <1>7 DEF PutsFollow, RowsFollow
<1>10. ChildActive'
  <2>1. \A m \in Range(toUi) : m.kind # "deleted"
    BY <1>2 DEF PlainEvents, DeletedComes
  <2>2. CloseFirst(toUi')
    BY <1>1, <1>3, <2>1, Queues, CloseFirstStays DEF ChildActive
  <2> QED  BY <1>1, <1>2, <1>7, <2>2 DEF ChildActive
<1>11. DeletionAlone'
  BY <1>1, <1>7 DEF DeletionAlone
<1>12. AnswersFit' /\ ViewFits' /\ TimerSet' /\ CatchesUp' /\ PendingLoads'
  <2>1. Written' \in Nat /\ Written' >= Written
    BY <1>7, Counts
  <2>2. InFlight' = InFlight \cup {Event("close")} /\ InFlight' \subseteq UiMessage
    BY <1>1, <1>3, <1>4, Queues, MessageTypes DEF InFlight
  <2>3. \A m \in UiMessage : IsAnswer(m) => (m \in InFlight' <=> m \in InFlight)
    BY <2>2, <1>3 DEF IsAnswer
  <2>4. NotifyComes => NotifyComes'
    BY <1>4 DEF NotifyComes
  <2> QED  BY <1>1, <1>7, <2>1, <2>2, <2>3, <2>4, DataStays DEF Fresh
<1> QED  BY <1>5, <1>8, <1>9, <1>10, <1>11, <1>12

(* Writes complete in order: the next row is written, and notified.        *)
LEMMA PutCompletesInv ==
  ASSUME OrderedWrites, ResultsInv, PutCompletes
  PROVE  ResultsInv'
<1> USE DEF ResultsInv
<1>1. /\ 1 \in DOMAIN puts
      /\ rows' = [rows EXCEPT ![puts[1].row] = puts[1].run]
      /\ puts' = RemoveAt(puts, 1)
      /\ toUi' = Append(toUi, Event("notify"))
      /\ UNCHANGED <<run, child, emitted, deletion, reads, loading, showing>>
      /\ UNCHANGED <<model, visible>> /\ UNCHANGED <<pending, view, timer, timers>>
  BY DEF PutCompletes, storeVars, dataVars
<1>2. /\ puts \in Seq(Row) /\ 1 \in 1 .. Len(puts) /\ Len(puts) \in Nat /\ Len(puts) # 0
      /\ rows \in [RowIndex -> 0 .. MaxRuns] /\ emitted \in 0 .. MaxRows /\ Len(puts) <= emitted
  BY <1>1, Counts DEF TypeOK, PutsFollow
<1>3. ~ Gone /\ Held = Written /\ run \in 1 .. MaxRuns
  <2>1. ~ Gone
    BY <1>2 DEF ChildActive
  <2>2. run \in 0 .. MaxRuns /\ run # 0
    BY <1>2 DEF TypeOK, PutsFollow
  <2> QED  BY <2>1, <2>2, Bounds DEF Held
<1>4. /\ puts' \in Seq(Row) /\ Len(puts') = Len(puts) - 1
      /\ \A j \in 1 .. Len(puts) - 1 : puts'[j] = puts[j + 1]
  <2>1. \A j \in 1 .. Len(puts) - 1 : ~ (j < 1)
    BY <1>2
  <2> QED  BY <1>1, <1>2, <2>1, RemoveFacts
<1>5. Written' = Written + 1 /\ Written' \in 0 .. MaxRows /\ Written = emitted - Len(puts) /\ Written \in Nat
  <2>1. Written = emitted - Len(puts) /\ Written' = emitted - Len(puts')
    BY <1>1 DEF Written
  <2>2. Len(puts') = Len(puts) - 1 /\ Len(puts) \in Nat /\ Len(puts) # 0
    BY <1>2, <1>4
  <2>3. emitted \in 0 .. MaxRows /\ Len(puts) <= emitted /\ MaxRows \in Nat
    BY <1>2, Bounds
  <2> HIDE DEF Written
  <2> QED  BY <2>1, <2>2, <2>3
<1>6. puts[1] = [row |-> Written, run |-> run]
  <2>1. Written + 1 - 1 = Written
    BY <1>5
  <2> QED  BY <1>2, <2>1 DEF PutsFollow
<1>7. Event("notify") \in UiMessage /\ Event("notify").kind = "notify"
  BY MessageTypes
<1>8. /\ toUi' \in Seq(UiMessage) /\ Range(toUi') = Range(toUi) \cup {Event("notify")}
      /\ Loads(toUi') = Loads(toUi)
  BY <1>1, <1>7, Queues, AppendProperties, RangeOfAppend, LoadsOfAppend
<1>9. /\ DeletedComes' <=> DeletedComes
      /\ CloseComes' <=> CloseComes
      /\ NotifyComes'
  BY <1>8 DEF DeletedComes, CloseComes, NotifyComes, Event
<1>10. (Gone' <=> Gone) /\ Held' = Written' /\ (NoDeletion' <=> NoDeletion)
  BY <1>1, <1>3, <1>9 DEF Gone, Held, NoDeletion, DeletedComes
<1>11. Written \in RowIndex /\ rows' = [rows EXCEPT ![Written] = run]
  BY <1>1, <1>5, <1>6, Bounds DEF RowIndex
<1>12. TypeOK'
  <2>1. rows' \in [RowIndex -> 0 .. MaxRuns]
    BY <1>2, <1>3, <1>11
  <2> QED  BY <1>1, <1>4, <1>8, <2>1 DEF TypeOK, UiMessage
<1>13. PlainEvents' /\ LoadsCounted'
  BY <1>1, <1>7, <1>8 DEF PlainEvents, LoadsCounted
<1>14. PutsFollow'
  <2>1. Len(puts') <= emitted
    BY <1>2, <1>4
  <2>2. ASSUME NEW k \in 1 .. Len(puts') PROVE puts'[k] = [row |-> Written' + k - 1, run |-> run]
    <3>1. k \in 1 .. Len(puts) - 1 /\ k + 1 \in 1 .. Len(puts)
      BY <1>2, <1>4
    <3>2. Written' + k - 1 = Written + (k + 1) - 1
      BY <1>5, <3>1
    <3>3. puts[k + 1] = [row |-> Written + (k + 1) - 1, run |-> run]
      BY <3>1 DEF PutsFollow
    <3> QED  BY <3>1, <3>2, <3>3, <1>4
  <2> QED  BY <1>1, <2>1, <2>2 DEF PutsFollow
<1>15. RowsFollow'
  <2> SUFFICES ASSUME NEW k \in RowIndex
               PROVE  rows'[k] = IF k < Written + 1 THEN run ELSE 0
    BY <1>1, <1>5, <1>10 DEF RowsFollow
  <2>1. rows[k] = IF k < Written THEN run ELSE 0
    BY <1>3 DEF RowsFollow
  <2>2. k \in Int /\ rows'[k] = IF k = Written THEN run ELSE rows[k]
    BY <1>2, <1>11, Bounds DEF RowIndex
  <2> QED  BY <2>1, <2>2, <1>5
<1>16. ChildActive'
  <2>1. CloseFirst(toUi')
    BY <1>1, <1>7, Queues, CloseFirstStays DEF ChildActive
  <2> QED  BY <1>1, <1>3, <1>9, <1>10, <2>1 DEF ChildActive, CloseComes
<1>17. DeletionAlone'
  <2>1. deletion.step # "keys"
    BY <1>2, EmptySeq DEF DeletionAlone
  <2> QED  BY <1>1, <1>10, <2>1 DEF DeletionAlone
<1>18. AnswersFit' /\ ViewFits' /\ TimerSet' /\ CatchesUp' /\ PendingLoads'
  <2>1. Written' \in Nat /\ Written' >= Written
    BY <1>5
  <2>2. InFlight' = InFlight \cup {Event("notify")} /\ InFlight' \subseteq UiMessage
    BY <1>1, <1>7, <1>8, Queues, MessageTypes DEF InFlight
  <2>3. \A m \in UiMessage : IsAnswer(m) => (m \in InFlight' <=> m \in InFlight)
    BY <2>2, <1>7 DEF IsAnswer
  <2> QED  BY <1>1, <1>9, <1>10, <2>1, <2>2, <2>3, DataStays DEF Fresh
<1> QED  BY <1>12, <1>13, <1>14, <1>15, <1>16, <1>17, <1>18

(* The keys are read once the writes have completed, and the batch deletes *)
(* all of them.                                                            *)
LEMMA DeleteStepInv ==
  ASSUME OrderedWrites, ResultsInv, DeleteStep
  PROVE  ResultsInv'
<1> USE DEF ResultsInv
<1>1. /\ UNCHANGED <<run, child, emitted, puts, reads, loading, showing>>
      /\ UNCHANGED <<model, visible>> /\ UNCHANGED <<pending, view, timer, timers>>
      /\ deletion.step # "none"
  BY DEF DeleteStep, storeVars, dataVars
<1>2. ~ NoDeletion /\ loading = 0 /\ showing = 0 /\ pending = "none" /\ ~ child
  <2>1. ~ NoDeletion
    BY <1>1, DeletionFacts
  <2>2. loading = 0 /\ showing = 0
    BY <2>1 DEF DeletionAlone
  <2> QED  BY <2>1, <2>2 DEF PendingLoads, ChildActive
<1>3. Written' = Written /\ Written \in 0 .. MaxRows /\ (Fresh' <=> Fresh)
  BY <1>1, Counts DEF Written, Fresh
<1>4. PutsFollow'
  BY <1>1, <1>3 DEF PutsFollow
<1>5. rows \in [RowIndex -> 0 .. MaxRuns] /\ 0 \in 0 .. MaxRuns
  BY Bounds DEF TypeOK
<1>6. CASE /\ deletion.step = "record" /\ puts = <<>>
           /\ deletion' = [step |-> "keys", keys |-> {k \in RowIndex : rows[k] # 0}]
           /\ UNCHANGED <<rows, toUi>>
  <2>1. TypeOK'
    <3>1. deletion' \in [step : {"none", "record", "keys"}, keys : SUBSET RowIndex]
      BY <1>6
    <3> QED  BY <1>1, <1>6, <3>1 DEF TypeOK
  <2>2. Held' = Held /\ (Gone' <=> Gone)
    BY <1>1, <1>3, <1>6 DEF Held, Gone
  <2>3. deletion'.step = "keys" /\ ~ NoDeletion'
    BY <1>6 DEF NoDeletion, NotDeleting
  <2>4. PlainEvents' /\ LoadsCounted' /\ RowsFollow'
    BY <1>1, <1>6, <2>2 DEF PlainEvents, LoadsCounted, Loads, RowsFollow
  <2>5. ChildActive'
    BY <1>1, <1>2, <1>6, <2>2 DEF ChildActive
  <2>6. DeletionAlone'
    BY <1>1, <1>2, <1>6, <2>3 DEF DeletionAlone
  <2>7. AnswersFit' /\ ViewFits' /\ TimerSet' /\ CatchesUp' /\ PendingLoads'
    <3>1. Written' \in Nat /\ Written' >= Written
      BY <1>3
    <3>2. InFlight' = InFlight /\ InFlight' \subseteq UiMessage
      BY <1>1, <1>6, Queues, MessageTypes DEF InFlight
    <3> QED  BY <1>1, <1>2, <1>3, <2>3, <3>1, <3>2, DataStays
  <2> QED  BY <1>4, <2>1, <2>4, <2>5, <2>6, <2>7
<1>7. CASE /\ deletion.step = "keys"
           /\ rows' = [k \in RowIndex |-> IF k \in deletion.keys THEN 0 ELSE rows[k]]
           /\ deletion' = NotDeleting /\ toUi' = Append(toUi, Event("deleted"))
  <2>1. \A k \in RowIndex : rows'[k] = 0
    BY <1>7 DEF DeletionAlone
  <2>2. Event("deleted") \in UiMessage /\ Event("deleted").kind = "deleted"
    BY MessageTypes
  <2>3. /\ toUi' \in Seq(UiMessage) /\ Range(toUi') = Range(toUi) \cup {Event("deleted")}
        /\ Loads(toUi') = Loads(toUi)
    BY <1>7, <2>2, Queues, AppendProperties, RangeOfAppend, LoadsOfAppend
  <2>4. DeletedComes' /\ (CloseComes' <=> CloseComes)
    BY <2>3 DEF DeletedComes, CloseComes, Event
  <2>5. Gone' /\ Held' = 0 /\ ~ NoDeletion' /\ puts = <<>>
    BY <1>7, <2>4 DEF Gone, Held, NoDeletion, DeletedComes, DeletionAlone
  <2>6. TypeOK'
    <3>1. rows' \in [RowIndex -> 0 .. MaxRuns]
      BY <1>5, <1>7
    <3>2. deletion' \in [step : {"none", "record", "keys"}, keys : SUBSET RowIndex]
      BY <1>7 DEF NotDeleting
    <3> QED  BY <1>1, <2>3, <3>1, <3>2 DEF TypeOK, UiMessage
  <2>7. PlainEvents' /\ LoadsCounted'
    BY <1>1, <2>2, <2>3 DEF PlainEvents, LoadsCounted
  <2>8. RowsFollow'
    <3>1. \A k \in RowIndex : ~ (k < 0)
      BY Bounds DEF RowIndex
    <3> QED  BY <2>1, <2>5, <3>1 DEF RowsFollow
  <2>9. ChildActive'
    <3>1. CloseFirst(toUi')
      BY <1>7, <2>2, Queues, CloseFirstStays DEF ChildActive
    <3> QED  BY <1>1, <1>2, <2>4, <2>5, <3>1 DEF ChildActive, CloseComes
  <2>10. DeletionAlone'
    BY <1>1, <1>2, <1>7, <2>5, DeletionFacts DEF DeletionAlone
  <2>11. AnswersFit' /\ ViewFits' /\ TimerSet' /\ CatchesUp' /\ PendingLoads'
    <3>1. Written' \in Nat /\ Written' >= Written
      BY <1>3
    <3>2. InFlight' = InFlight \cup {Event("deleted")} /\ InFlight' \subseteq UiMessage
      BY <1>1, <2>2, <2>3, Queues, MessageTypes DEF InFlight
    <3>3. \A m \in UiMessage : IsAnswer(m) => (m \in InFlight' <=> m \in InFlight)
      BY <3>2, <2>2 DEF IsAnswer
    <3> QED  BY <1>1, <1>2, <1>3, <2>5, <3>1, <3>2, <3>3, DataStays
  <2> QED  BY <1>4, <2>6, <2>7, <2>8, <2>9, <2>10, <2>11
<1> QED  BY <1>6, <1>7 DEF DeleteStep

LEMMA ReadAnsweredInv ==
  ASSUME ResultsInv, ReadAnswered
  PROVE  ResultsInv'
<1> USE DEF ResultsInv
<1>1. PICK k \in DOMAIN reads :
        /\ reads' = RemoveAt(reads, k) /\ toUi' = Append(toUi, reads[k])
        /\ UNCHANGED <<loading, showing>> /\ UNCHANGED mainVars
        /\ UNCHANGED <<model, visible>> /\ UNCHANGED <<pending, view, timer, timers>>
  BY DEF ReadAnswered, storeVars, dataVars
<1>2. k \in 1 .. Len(reads) /\ reads[k] \in ReadMessage /\ reads[k] \in UiMessage
  BY Queues, MessageTypes
<1>3. /\ reads' \in Seq(ReadMessage) /\ reads[k] \in Range(reads)
      /\ Range(reads') \subseteq Range(reads) /\ Range(reads) \subseteq Range(reads') \cup {reads[k]}
      /\ Loads(reads') = IF reads[k].kind = "load" THEN Loads(reads) - 1 ELSE Loads(reads)
  BY <1>1, <1>2, Queues, RemoveFacts, RangeOfRemove, LoadsOfRemove
<1>4. /\ toUi' \in Seq(UiMessage) /\ Range(toUi') = Range(toUi) \cup {reads[k]}
      /\ Loads(toUi') = IF reads[k].kind = "load" THEN Loads(toUi) + 1 ELSE Loads(toUi)
  BY <1>1, <1>2, Queues, AppendProperties, RangeOfAppend, LoadsOfAppend
<1>5. InFlight' = InFlight
  BY <1>3, <1>4 DEF InFlight
<1>6. reads[k].kind \in {"load", "fetch"}
  BY <1>2, MessageTypes
<1>7. /\ DeletedComes' <=> DeletedComes
      /\ CloseComes' <=> CloseComes
      /\ NotifyComes' <=> NotifyComes
  BY <1>4, <1>6 DEF DeletedComes, CloseComes, NotifyComes, Event
<1>8. TypeOK'
  BY <1>1, <1>3, <1>4 DEF TypeOK, ReadMessage, UiMessage, mainVars
<1>9. PlainEvents'
  BY <1>4, <1>6 DEF PlainEvents
<1>10. LoadsCounted'
  BY <1>1, <1>3, <1>4, Queues DEF LoadsCounted
<1>11. CloseFirst(toUi)'
  <2>1. reads[k].kind # "close"
    BY <1>6
  <2> QED  BY <1>1, <1>2, <2>1, Queues, CloseFirstStays DEF ChildActive
<1>12. /\ PutsFollow' /\ RowsFollow' /\ ChildActive' /\ DeletionAlone'
       /\ Written' = Written /\ Held' = Held /\ (NoDeletion' <=> NoDeletion)
  <2>1. ~ NoDeletion => loading' = 0 /\ showing' = 0
    BY <1>1 DEF DeletionAlone
  <2> QED  BY <1>1, <1>7, <1>8, <1>11, <2>1, MainStays DEF Fresh
<1>13. AnswersFit' /\ ViewFits' /\ TimerSet' /\ CatchesUp' /\ PendingLoads'
  <2>1. Written' \in Nat /\ Written' >= Written /\ run' = run
    BY <1>1, <1>12, Counts DEF mainVars
  <2>2. InFlight' \subseteq UiMessage
    BY <1>5, Queues, MessageTypes DEF InFlight
  <2> QED  BY <1>1, <1>5, <1>7, <1>12, <2>1, <2>2, DataStays DEF Fresh
<1> QED  BY <1>8, <1>9, <1>10, <1>12, <1>13

-----------------------------------------------------------------------------
(* The user.                                                               *)

(* A model is shown when no view of it is held: its load asks for all rows. *)
LEMMA ShowDoes ==
  ASSUME BackToBack, ResultsInv, Show, UNCHANGED <<toUi, view, timer, timers, showing>>,
         UNCHANGED mainVars, UNCHANGED visible, Fresh' <=> Fresh, child => model' = model,
         model' \in {"none", "added", "active", "ran"}
  PROVE  ResultsInv'
<1> USE DEF ResultsInv
<1> DEFINE load == GetModelData("load", 0)
<1>1. /\ loading + showing < MaxShows /\ view = None /\ NoDeletion
      /\ pending' = "waiting" /\ reads' = Append(reads, load) /\ loading' = loading + 1
  BY DEF Show
<1>2. Written \in 0 .. MaxRows /\ Held \in 0 .. Written /\ MaxRows \in Nat
  BY Counts, Bounds
<1>3. /\ load \in ReadMessage /\ load.kind = "load" /\ load.offset = 0
      /\ Matches(load.data, 0) /\ Len(load.data) = Held /\ (Held = 0 => load.data = <<>>)
  <2>1. 0 \in 0 .. Written /\ 0 <= Held
    BY <1>2
  <2>2. /\ load \in ReadMessage /\ load.kind = "load" /\ load.offset = 0
        /\ Matches(load.data, 0) /\ 0 + Len(load.data) = Held /\ (Held = 0 => load.data = <<>>)
    BY <2>1, ReadFacts
  <2>3. Len(load.data) \in Nat
    BY <2>2, MessageTypes, LenProperties
  <2> QED  BY <2>2, <2>3
<1> HIDE DEF load
<1>4. load \in UiMessage
  BY <1>3, MessageTypes
<1>5. /\ reads' \in Seq(ReadMessage) /\ Range(reads') = Range(reads) \cup {load}
      /\ Loads(reads') = Loads(reads) + 1
  BY <1>1, <1>3, Queues, AppendProperties, RangeOfAppend, LoadsOfAppend
<1>6. InFlight' = InFlight \cup {load}
  BY <1>5 DEF InFlight
<1>7. TypeOK'
  <2>1. loading' + showing' \in 0 .. MaxShows
    BY <1>1, Bounds DEF TypeOK, LoadsCounted
  <2> QED  BY <1>1, <1>5, <2>1 DEF TypeOK, ReadMessage, mainVars
<1>8. PlainEvents' /\ LoadsCounted'
  BY <1>1, <1>5, Queues DEF PlainEvents, LoadsCounted
<1>9. /\ PutsFollow' /\ RowsFollow' /\ ChildActive' /\ DeletionAlone'
      /\ Written' = Written /\ Held' = Held /\ (NoDeletion' <=> NoDeletion)
  <2>1. CloseFirst(toUi)'
    BY DEF ChildActive
  <2>2. (DeletedComes' <=> DeletedComes) /\ (CloseComes' => CloseComes)
    BY DEF DeletedComes, CloseComes
  <2> QED  BY <1>1, <1>7, <2>1, <2>2, MainStays
<1>10. AnswersFit'
  <2> SUFFICES ASSUME NEW m \in InFlight', IsAnswer(m) PROVE Fits(m)'
    BY DEF AnswersFit, IsAnswer
  <2>1. CASE m = load
    <3>1. Matches(m.data, m.offset)'
      BY <2>1, <1>3 DEF Matches, mainVars
    <3>2. m.offset + Len(m.data) <= Written'
      BY <2>1, <1>2, <1>3, <1>9
    <3>3. Fresh => Held = 0
      BY DeletionFacts DEF Held
    <3> QED  BY <2>1, <1>3, <3>1, <3>2, <3>3 DEF Fits, Fresh
  <2>2. CASE m \in InFlight
    <3>1. m \in UiMessage /\ Fits(m)
      BY <2>2, Queues, MessageTypes DEF InFlight, AnswersFit, IsAnswer
    <3>2. m.offset \in 0 .. 2 * MaxRows /\ Len(m.data) \in Nat
      BY <3>1, MessageTypes, LenProperties
    <3>3. m.kind # "fetch"
      BY <1>1, <3>1 DEF Fits
    <3> QED  BY <1>2, <1>9, <3>1, <3>2, <3>3, FitsStays DEF mainVars
  <2> QED  BY <2>1, <2>2, <1>6
<1>11. ViewFits' /\ TimerSet' /\ CatchesUp'
  BY <1>1 DEF ViewFits, TimerSet, CatchesUp
<1>12. PendingLoads'
  <2>1. load \in InFlight' /\ load.kind = "load" /\ Len(load.data) = Held'
    BY <1>3, <1>6, <1>9
  <2>2. loading' > 0
    BY <1>1 DEF LoadsCounted
  <2> QED  BY <2>1, <2>2 DEF PendingLoads
<1> QED  BY <1>7, <1>8, <1>9, <1>10, <1>11, <1>12

LEMMA ShowModelInv ==
  ASSUME BackToBack, ResultsInv, ShowModel \/ AddShowModel
  PROVE  ResultsInv'
<1>1. CASE ShowModel
  BY <1>1, ShowDoes DEF ShowModel, storeVars, Fresh, ResultsInv, TypeOK
<1>2. CASE AddShowModel
  <2>1. model = "none" /\ model' = "added" /\ ~ child
    BY <1>2 DEF AddShowModel, ResultsInv, ChildActive
  <2> QED  BY <1>2, <2>1, ShowDoes DEF AddShowModel, Fresh
<1> QED  BY <1>1, <1>2

(* What is left in the queues when the entry goes.                         *)
LEMMA DropDoes ==
  ASSUME TypeOK, PlainEvents, CloseFirst(toUi), reads' = Alive(reads), toUi' = Alive(toUi)
  PROVE  /\ reads' \in Seq(ReadMessage) /\ toUi' \in Seq(UiMessage)
         /\ Loads(reads') = Loads(reads) /\ Loads(toUi') = Loads(toUi)
         /\ \A m : m \in InFlight' <=> m \in InFlight /\ m.kind # "fetch"
         /\ (DeletedComes' <=> DeletedComes) /\ (CloseComes' <=> CloseComes)
         /\ (NotifyComes' <=> NotifyComes) /\ PlainEvents' /\ CloseFirst(toUi')
<1>1. /\ reads' \in Seq(ReadMessage) /\ toUi' \in Seq(UiMessage)
      /\ Loads(reads') = Loads(reads) /\ Loads(toUi') = Loads(toUi)
  BY Queues, AliveFacts, AliveHolds
<1>2. \A m : m \in Range(reads') <=> m \in Range(reads) /\ m.kind # "fetch"
  BY Queues, AliveHolds
<1>3. \A m : m \in Range(toUi') <=> m \in Range(toUi) /\ m.kind # "fetch"
  BY Queues, AliveHolds
<1>4. \A m : m \in InFlight' <=> m \in InFlight /\ m.kind # "fetch"
  BY <1>2, <1>3 DEF InFlight
<1>5. /\ DeletedComes' <=> DeletedComes
      /\ CloseComes' <=> CloseComes
      /\ NotifyComes' <=> NotifyComes
  BY <1>3, MessageTypes DEF DeletedComes, CloseComes, NotifyComes
<1>6. PlainEvents'
  BY <1>3 DEF PlainEvents
<1>7. CloseFirst(toUi')
  BY Queues, CloseFirstStays
<1> QED  BY <1>1, <1>4, <1>5, <1>6, <1>7

LEMMA HideModelInv ==
  ASSUME ResultsInv, HideModel
  PROVE  ResultsInv'
<1> USE DEF ResultsInv
<1>1. /\ visible' = FALSE /\ view' = None /\ timer' = FALSE
      /\ reads' = Alive(reads) /\ toUi' = Alive(toUi)
      /\ UNCHANGED <<pending, timers, model, loading, showing>> /\ UNCHANGED mainVars
  BY DEF HideModel, DropView
<1>2. /\ reads' \in Seq(ReadMessage) /\ toUi' \in Seq(UiMessage)
      /\ Loads(reads') = Loads(reads) /\ Loads(toUi') = Loads(toUi)
      /\ \A m : m \in InFlight' <=> m \in InFlight /\ m.kind # "fetch"
      /\ (DeletedComes' <=> DeletedComes) /\ (CloseComes' <=> CloseComes)
      /\ (NotifyComes' <=> NotifyComes) /\ PlainEvents' /\ CloseFirst(toUi')
  BY <1>1, DropDoes DEF ChildActive
<1>3. TypeOK'
  BY <1>1, <1>2 DEF TypeOK, ReadMessage, UiMessage, mainVars
<1>4. LoadsCounted'
  BY <1>1, <1>2 DEF LoadsCounted
<1>5. /\ PutsFollow' /\ RowsFollow' /\ ChildActive' /\ DeletionAlone'
      /\ Written' = Written /\ Held' = Held /\ (NoDeletion' <=> NoDeletion)
  <2>1. ~ NoDeletion => loading' = 0 /\ showing' = 0
    BY <1>1 DEF DeletionAlone
  <2> QED  BY <1>1, <1>2, <1>3, <2>1, MainStays DEF Fresh
<1>6. AnswersFit' /\ ViewFits' /\ TimerSet' /\ CatchesUp' /\ PendingLoads'
  BY <1>1, <1>2, <1>5, ViewGoes DEF Fresh, mainVars
<1> QED  BY <1>2, <1>3, <1>4, <1>5, <1>6

-----------------------------------------------------------------------------
(* The messages of the main process.                                       *)

(* A message is taken from the head of the queue.                          *)
LEMMA HeadGoes ==
  ASSUME TypeOK, PlainEvents, CloseFirst(toUi), toUi # <<>>, toUi' = Tail(toUi)
  PROVE  /\ toUi' \in Seq(UiMessage) /\ Range(toUi') \subseteq Range(toUi)
         /\ Loads(toUi') = IF Head(toUi).kind = "load" THEN Loads(toUi) - 1 ELSE Loads(toUi)
         /\ \A m \in Range(toUi) : m \in Range(toUi') \/ m = Head(toUi)
         /\ Head(toUi).kind # "deleted" => (DeletedComes' <=> DeletedComes)
         /\ Head(toUi).kind # "notify" => (NotifyComes' <=> NotifyComes)
         /\ CloseComes' => CloseComes
         /\ PlainEvents' /\ CloseFirst(toUi')
<1>1. /\ toUi' \in Seq(UiMessage) /\ Range(toUi') \subseteq Range(toUi)
      /\ Range(toUi) \subseteq Range(toUi') \cup {Head(toUi)}
      /\ Loads(toUi') = IF Head(toUi).kind = "load" THEN Loads(toUi) - 1 ELSE Loads(toUi)
  BY HeadTaken
<1>2. /\ Head(toUi).kind # "deleted" => (DeletedComes' <=> DeletedComes)
      /\ Head(toUi).kind # "notify" => (NotifyComes' <=> NotifyComes)
      /\ CloseComes' => CloseComes
  BY <1>1, MessageTypes DEF DeletedComes, NotifyComes, CloseComes
<1>3. PlainEvents'
  BY <1>1 DEF PlainEvents
<1>4. CloseFirst(toUi')
  BY Queues, CloseFirstStays
<1> QED  BY <1>1, <1>2, <1>3, <1>4

(* Answers go on fitting while the view only grows.                        *)
LEMMA AnswersStay ==
  ASSUME TypeOK, PutsFollow, AnswersFit, Written' = Written, run' = run, Fresh' => Fresh,
         view # None => /\ view' # None
                        /\ Len(view) \in Nat /\ Len(view') \in Nat /\ Len(view') >= Len(view),
         \A m \in InFlight' : IsAnswer(m) => m \in InFlight \/ Fits(m)'
  PROVE  AnswersFit'
<1>1. Written \in Nat /\ InFlight \subseteq UiMessage
  BY Counts, Queues, MessageTypes DEF InFlight
<1> SUFFICES ASSUME NEW m \in InFlight, IsAnswer(m) PROVE Fits(m)'
  BY DEF AnswersFit, IsAnswer
<1>2. Fits(m)
  BY DEF AnswersFit, IsAnswer
<1>3. m.offset \in Nat /\ Len(m.data) \in Nat
  <2>1. m.offset \in 0 .. 2 * MaxRows /\ m.data \in Seq(Row)
    BY <1>1, MessageTypes
  <2> QED  BY <2>1, LenProperties
<1>4. m.kind = "fetch" => view # None
  BY <1>2 DEF Fits
<1> QED  BY <1>1, <1>2, <1>3, <1>4, FitsStays

(* A fetch of what the view lacks fits.                                    *)
LEMMA FetchFits ==
  ASSUME TypeOK, PutsFollow, RowsFollow, NEW data \in Seq(Row), Len(data) <= Written,
         Fresh => data = <<>>,
         view' = data, Written' = Written, run' = run, Fresh' => Fresh,
         NEW m, m = Fetch(data)
  PROVE  Fits(m)'
<1>1. /\ m.kind = "fetch" /\ m.offset = Len(data) /\ Matches(m.data, m.offset)
      /\ m.offset + Len(m.data) <= Written /\ (Fresh => m.data = <<>>)
  BY FetchFacts
<1>2. data # None /\ Len(data) \in Nat
  BY NoneAssumption, LenProperties
<1> QED  BY <1>1, <1>2 DEF Fits, Matches, Fresh

LEMMA NotifyInv ==
  ASSUME ResultsInv, NotifyNewModelResults
  PROVE  ResultsInv'
<1> USE DEF ResultsInv
<1>1. /\ toUi # <<>> /\ Head(toUi).kind = "notify" /\ toUi' = Tail(toUi)
      /\ UNCHANGED <<loading, showing, view>> /\ UNCHANGED mainVars
      /\ UNCHANGED <<model, visible>>
  BY DEF NotifyNewModelResults, Handle, storeVars
<1>2. /\ toUi' \in Seq(UiMessage) /\ Range(toUi') \subseteq Range(toUi)
      /\ Loads(toUi') = Loads(toUi)
      /\ \A m \in Range(toUi) : m \in Range(toUi') \/ m = Head(toUi)
      /\ (DeletedComes' <=> DeletedComes) /\ (CloseComes' => CloseComes)
      /\ PlainEvents' /\ CloseFirst(toUi')
  BY <1>1, HeadGoes DEF ChildActive
<1>3. view # None => view \in Seq(Row) /\ Len(view) \in Nat /\ Len(view) <= Written /\ pending = "none"
  BY LenProperties DEF TypeOK, ViewFits
<1>4. /\ timer \in BOOLEAN /\ timers \in 0 .. MaxTimers /\ (timer => timers > 0)
      /\ Written \in 0 .. MaxRows /\ reads \in Seq(ReadMessage)
  BY Counts, Queues DEF TypeOK, TimerSet
<1> DEFINE fetch == Fetch(view)
<1>5. view # None => /\ fetch \in ReadMessage /\ fetch.kind = "fetch"
                     /\ NoDeletion => fetch.offset + Len(fetch.data) = Held
  BY <1>3, FetchFacts DEF ViewFits, Fresh
<1>6. /\ timer' \in BOOLEAN /\ timers' \in 0 .. MaxTimers /\ (timer' => timers' > 0)
      /\ reads' = reads \/ (view # None /\ reads' = Append(reads, fetch))
      /\ view # None => timer' \/ reads' = Append(reads, fetch)
      /\ view = None => ~ timer'
      /\ pending' = IF view # None \/ pending = "none" THEN "none" ELSE "fetch"
  <2>1. CASE view # None
    <3>1. FetchSoon(view, timer, reads) /\ pending' = pending
      BY <1>1, <2>1 DEF NotifyNewModelResults
    <3>2. /\ timer' \in BOOLEAN /\ timers' \in 0 .. MaxTimers /\ (timer' => timers' > 0)
          /\ \/ timer' = TRUE /\ reads' = reads
             \/ timer' = FALSE /\ reads' = Append(reads, fetch)
      BY <1>4, <3>1, FetchSoonDoes
    <3> QED  BY <2>1, <3>1, <3>2, <1>3
  <2>2. CASE view = None
    BY <1>4, <2>2 DEF NotifyNewModelResults, TimerSet
  <2> QED  BY <2>1, <2>2
<1> HIDE DEF fetch
<1>7. /\ reads' \in Seq(ReadMessage) /\ Loads(reads') = Loads(reads)
      /\ Range(reads') = Range(reads) \/ (view # None /\ Range(reads') = Range(reads) \cup {fetch})
      /\ view # None => timer' \/ fetch \in Range(reads')
  <2>1. CASE reads' = reads
    BY <2>1, <1>4, <1>6, <1>5, RangeOfAppend
  <2>2. CASE view # None /\ reads' = Append(reads, fetch)
    <3>1. fetch \in ReadMessage /\ fetch.kind # "load"
      BY <2>2, <1>5
    <3> QED  BY <2>2, <3>1, <1>4, AppendProperties, RangeOfAppend, LoadsOfAppend
  <2> QED  BY <2>1, <2>2, <1>6
<1>8. TypeOK'
  <2>1. view' = None \/ view' \in Seq(Row)
    BY <1>1 DEF TypeOK
  <2> QED  BY <1>1, <1>2, <1>6, <1>7, <2>1 DEF TypeOK, ReadMessage, UiMessage, mainVars
<1>9. LoadsCounted'
  BY <1>1, <1>2, <1>7 DEF LoadsCounted
<1>10. /\ PutsFollow' /\ RowsFollow' /\ ChildActive' /\ DeletionAlone'
       /\ Written' = Written /\ Held' = Held /\ (NoDeletion' <=> NoDeletion)
  <2>1. ~ NoDeletion => loading' = 0 /\ showing' = 0
    BY <1>1 DEF DeletionAlone
  <2> QED  BY <1>1, <1>2, <1>8, <2>1, MainStays DEF Fresh
<1>11. AnswersFit'
  <2>1. ASSUME NEW m \in InFlight' PROVE m \in InFlight \/ Fits(m)'
    <3>1. m \in InFlight \/ (view # None /\ m = fetch)
      BY <1>2, <1>7 DEF InFlight
    <3>2. CASE view # None /\ m = fetch
      <4>1. view \in Seq(Row) /\ Len(view) <= Written /\ (Fresh => view = <<>>)
        BY <3>2, <1>3 DEF ViewFits, Fresh
      <4> QED  BY <3>2, <4>1, <1>1, <1>10, FetchFits DEF fetch, Fresh, mainVars
    <3> QED  BY <3>1, <3>2
  <2> QED  BY <2>1, <1>1, <1>3, <1>10, AnswersStay DEF Fresh, mainVars
<1>12. ViewFits' /\ TimerSet'
  BY <1>1, <1>3, <1>6, <1>10 DEF ViewFits, Matches, TimerSet, mainVars
<1>13. CatchesUp'
  <2> SUFFICES ASSUME view # None, NoDeletion PROVE CatchesUp'
    BY <1>1, <1>10 DEF CatchesUp
  <2>1. fetch \in Range(reads') => fetch \in InFlight'
    BY DEF InFlight
  <2> QED  BY <2>1, <1>5, <1>7, <1>10 DEF CatchesUp
<1>14. PendingLoads'
  BY <1>1, <1>6 DEF PendingLoads
<1> QED  BY <1>2, <1>8, <1>9, <1>10, <1>11, <1>12, <1>13, <1>14

LEMMA CloseModelInv ==
  ASSUME ResultsInv, CloseModel
  PROVE  ResultsInv'
<1> USE DEF ResultsInv
<1>1. /\ toUi # <<>> /\ Head(toUi).kind = "close" /\ toUi' = Tail(toUi)
      /\ model' = IF model = "active" THEN "ran" ELSE model
      /\ UNCHANGED <<reads, visible, loading, showing>> /\ UNCHANGED mainVars
      /\ UNCHANGED <<pending, view, timer, timers>>
  BY DEF CloseModel, Handle, dataVars
<1>2. /\ toUi' \in Seq(UiMessage) /\ Range(toUi') \subseteq Range(toUi)
      /\ Loads(toUi') = Loads(toUi)
      /\ \A m \in Range(toUi) : m \in Range(toUi') \/ m = Head(toUi)
      /\ (DeletedComes' <=> DeletedComes) /\ (NotifyComes' <=> NotifyComes)
      /\ (CloseComes' => CloseComes) /\ PlainEvents' /\ CloseFirst(toUi')
  BY <1>1, HeadGoes DEF ChildActive
<1>3. CloseComes
  BY <1>1, HeadTaken DEF CloseComes, PlainEvents
<1>4. model \in {"active", "ran"} /\ ~ child
  BY <1>3 DEF CloseComes, ChildActive
<1>5. Fresh' <=> Fresh
  BY <1>1, <1>4 DEF Fresh
<1>6. TypeOK'
  BY <1>1, <1>2, <1>4 DEF TypeOK, UiMessage, mainVars
<1>7. LoadsCounted'
  BY <1>1, <1>2 DEF LoadsCounted
<1>8. /\ PutsFollow' /\ RowsFollow' /\ ChildActive' /\ DeletionAlone'
      /\ Written' = Written /\ Held' = Held /\ (NoDeletion' <=> NoDeletion)
  <2>1. ~ NoDeletion => loading' = 0 /\ showing' = 0
    BY <1>1 DEF DeletionAlone
  <2> QED  BY <1>1, <1>2, <1>4, <1>5, <1>6, <2>1, MainStays
<1>9. AnswersFit' /\ ViewFits' /\ TimerSet' /\ CatchesUp' /\ PendingLoads'
  <2>1. Written' \in Nat /\ Written' >= Written /\ run' = run
    BY <1>1, <1>8, Counts DEF mainVars
  <2>2. InFlight' \subseteq UiMessage
    BY <1>1, <1>2, Queues, MessageTypes DEF InFlight
  <2>3. \A m \in UiMessage : IsAnswer(m) => (m \in InFlight' <=> m \in InFlight)
    BY <1>1, <1>2 DEF InFlight, IsAnswer
  <2> QED  BY <1>1, <1>2, <1>5, <1>8, <2>1, <2>2, <2>3, DataStays
<1> QED  BY <1>2, <1>6, <1>7, <1>8, <1>9

(* The rows of an answer take their places in the view.                    *)
LEMMA FetchAnsweredInv ==
  ASSUME ResultsInv, FetchAnswered
  PROVE  ResultsInv'
<1> USE DEF ResultsInv
<1> DEFINE m == Head(toUi)
<1>1. /\ toUi # <<>> /\ m.kind = "fetch" /\ toUi' = Tail(toUi)
      /\ view' = Splice(view, m.offset, m.data)
      /\ UNCHANGED <<reads, pending, timer, timers, loading, showing>>
      /\ UNCHANGED mainVars /\ UNCHANGED <<model, visible>>
  BY DEF FetchAnswered, Handle, storeVars
<1>2. /\ toUi' \in Seq(UiMessage) /\ Range(toUi') \subseteq Range(toUi)
      /\ Loads(toUi') = Loads(toUi)
      /\ \A e \in Range(toUi) : e \in Range(toUi') \/ e = m
      /\ (DeletedComes' <=> DeletedComes) /\ (NotifyComes' <=> NotifyComes)
      /\ (CloseComes' => CloseComes) /\ PlainEvents' /\ CloseFirst(toUi')
  BY <1>1, HeadGoes DEF ChildActive
<1>3. m \in InFlight /\ m \in UiMessage /\ Fits(m)
  <2>1. m \in UiMessage /\ m \in Range(toUi)
    BY <1>1, HeadTaken
  <2>2. m \in InFlight
    BY <2>1 DEF InFlight
  <2> QED  BY <2>1, <2>2, <1>1 DEF AnswersFit
<1>4. m.offset \in Nat /\ m.data \in Seq(Row) /\ Len(m.data) \in Nat
  <2>1. m.offset \in 0 .. 2 * MaxRows /\ m.data \in Seq(Row)
    BY <1>3, MessageTypes
  <2> QED  BY <2>1, LenProperties
<1>5. /\ Matches(m.data, m.offset) /\ m.offset + Len(m.data) <= Written
      /\ view # None /\ m.offset <= Len(view) /\ (Fresh => m.data = <<>>)
  BY <1>1, <1>3 DEF Fits, Fresh
<1> HIDE DEF m
<1>6. /\ view \in Seq(Row) /\ Len(view) \in Nat /\ Len(view) <= Written /\ pending = "none"
      /\ Matches(view, 0) /\ (Fresh => view = <<>>)
  BY <1>5, LenProperties DEF TypeOK, ViewFits, Fresh
<1>7. /\ view' \in Seq(Row) /\ Matches(view', 0)
      /\ Len(view') = IF Len(view) < m.offset + Len(m.data)
                      THEN m.offset + Len(m.data) ELSE Len(view)
  <2>1. m.offset \in 0 .. Len(view)
    BY <1>4, <1>5, <1>6
  <2> QED  BY <2>1, <1>1, <1>4, <1>5, <1>6, SpliceFacts
<1>8. view' # None /\ Len(view') \in Nat /\ Len(view') >= Len(view) /\ Len(view') <= Written
  <2>1. view' # None
    BY <1>7, NoneAssumption
  <2> QED  BY <2>1, <1>4, <1>5, <1>6, <1>7, Counts
<1>9. TypeOK'
  BY <1>1, <1>2, <1>7 DEF TypeOK, UiMessage, mainVars
<1>10. LoadsCounted'
  BY <1>1, <1>2 DEF LoadsCounted
<1>11. /\ PutsFollow' /\ RowsFollow' /\ ChildActive' /\ DeletionAlone'
       /\ Written' = Written /\ Held' = Held /\ (NoDeletion' <=> NoDeletion)
  <2>1. ~ NoDeletion => loading' = 0 /\ showing' = 0
    BY <1>1 DEF DeletionAlone
  <2> QED  BY <1>1, <1>2, <1>9, <2>1, MainStays DEF Fresh
<1>12. AnswersFit'
  <2>1. InFlight' \subseteq InFlight
    BY <1>1, <1>2 DEF InFlight
  <2> QED  BY <2>1, <1>1, <1>6, <1>8, <1>11, AnswersStay DEF Fresh, mainVars
<1>13. ViewFits'
  <2>1. Matches(view, 0)'
    BY <1>1, <1>7 DEF Matches, mainVars
  <2>2. Fresh => Len(view') = 0
    <3>1. Fresh => Len(view) = 0 /\ Len(m.data) = 0
      BY <1>5, <1>6, EmptySeq
    <3> QED  BY <3>1, <1>4, <1>5, <1>6, <1>7
  <2>3. Fresh => view' = <<>>
    BY <2>2, <1>7, EmptySeq
  <2> QED  BY <2>1, <2>3, <1>1, <1>6, <1>8, <1>11 DEF ViewFits, Fresh
<1>14. TimerSet'
  BY <1>1, <1>8 DEF TimerSet
<1>15. CatchesUp'
  <2> SUFFICES ASSUME NoDeletion PROVE CatchesUp'
    BY <1>11 DEF CatchesUp
  <2>1. Len(view) <= Held /\ m.offset + Len(m.data) <= Held /\ Held \in Nat
    <3>1. CASE Gone
      <4>1. Fresh
        BY <3>1, DeletionFacts
      <4>2. Len(view) = 0 /\ Len(m.data) = 0
        BY <4>1, <1>5, <1>6, EmptySeq
      <4> QED  BY <3>1, <4>2, <1>4, <1>5, <1>6 DEF Held
    <3>2. CASE ~ Gone
      BY <3>2, <1>5, <1>6, Counts DEF Held
    <3> QED  BY <3>1, <3>2
  <2>2. CASE \/ NotifyComes \/ timer \/ loading > 0
             \/ \E e \in InFlight' : e.kind = "fetch" /\ e.offset + Len(e.data) = Held
    BY <2>2, <1>1, <1>2, <1>11 DEF CatchesUp, NotifyComes
  <2>3. CASE Len(view) = Held \/ m.offset + Len(m.data) = Held
    <3>1. Len(view') = Held
      BY <2>1, <2>3, <1>4, <1>6, <1>7
    <3> QED  BY <3>1, <1>11 DEF CatchesUp
  <2>4. \A e \in InFlight : e \in InFlight' \/ e = m
    BY <1>1, <1>2 DEF InFlight
  <2> QED  BY <2>2, <2>3, <2>4, <1>5 DEF CatchesUp, NotifyComes
<1>16. PendingLoads'
  BY <1>1, <1>6 DEF PendingLoads
<1> QED  BY <1>2, <1>9, <1>10, <1>11, <1>12, <1>13, <1>14, <1>15, <1>16

-----------------------------------------------------------------------------
(* The renderer's own steps.                                               *)

LEMMA ShownInv ==
  ASSUME ResultsInv, Shown
  PROVE  ResultsInv'
<1> USE DEF ResultsInv
<1>1. /\ showing > 0 /\ showing' = showing - 1 /\ visible' = (visible \/ model # "none")
      /\ UNCHANGED <<reads, toUi, model, loading>> /\ UNCHANGED mainVars
      /\ UNCHANGED <<pending, view, timer, timers>>
  BY DEF Shown, dataVars
<1>2. loading \in Nat /\ showing \in Nat /\ loading + showing \in 0 .. MaxShows
  BY DEF LoadsCounted, TypeOK
<1>3. showing' \in Nat /\ loading' + showing' \in 0 .. MaxShows
  BY <1>1, <1>2, Bounds
<1>4. TypeOK'
  BY <1>1, <1>3 DEF TypeOK, mainVars
<1>5. PlainEvents' /\ LoadsCounted'
  BY <1>1, <1>3 DEF PlainEvents, LoadsCounted, Loads
<1>6. /\ PutsFollow' /\ RowsFollow' /\ ChildActive' /\ DeletionAlone'
      /\ Written' = Written /\ Held' = Held /\ (NoDeletion' <=> NoDeletion)
  <2>1. NoDeletion
    BY <1>1 DEF DeletionAlone
  <2>2. CloseFirst(toUi)' /\ (DeletedComes' <=> DeletedComes) /\ (CloseComes' => CloseComes)
    BY <1>1 DEF ChildActive, CloseFirst, DeletedComes, CloseComes
  <2> QED  BY <1>1, <1>4, <2>1, <2>2, MainStays DEF Fresh
<1>7. AnswersFit' /\ ViewFits' /\ TimerSet' /\ CatchesUp' /\ PendingLoads'
  <2>1. Written' \in Nat /\ Written' >= Written /\ run' = run
    BY <1>1, <1>6, Counts DEF mainVars
  <2>2. InFlight' = InFlight /\ InFlight' \subseteq UiMessage
    BY <1>1, Queues, MessageTypes DEF InFlight
  <2> QED  BY <1>1, <1>6, <2>1, <2>2, DataStays DEF Fresh, NotifyComes
<1> QED  BY <1>4, <1>5, <1>6, <1>7

(* A scheduled fetch is made for the entry that is held now, if any.       *)
LEMMA FetchNewResultsInv ==
  ASSUME ResultsInv, FetchNewResults
  PROVE  ResultsInv'
<1> USE DEF ResultsInv
<1>1. /\ timers > 0 /\ timers' = timers - 1
      /\ UNCHANGED <<toUi, pending, view, loading, showing>>
      /\ UNCHANGED mainVars /\ UNCHANGED <<model, visible>>
  BY DEF FetchNewResults, storeVars
<1>2. timers' \in 0 .. MaxTimers
  <2>1. timers \in 0 .. MaxTimers
    BY DEF TypeOK
  <2> QED  BY <1>1, <2>1, Bounds
<1>3. view # None => view \in Seq(Row) /\ Len(view) \in Nat /\ Len(view) <= Written /\ pending = "none"
  BY LenProperties DEF TypeOK, ViewFits
<1> DEFINE fetch == Fetch(view)
<1>4. view # None => /\ fetch \in ReadMessage /\ fetch.kind = "fetch"
                     /\ NoDeletion => fetch.offset + Len(fetch.data) = Held
  BY <1>3, FetchFacts DEF ViewFits, Fresh
<1>5. /\ timer' = FALSE
      /\ IF view = None THEN reads' = reads ELSE reads' = Append(reads, fetch)
  BY DEF FetchNewResults, TimerSet, TypeOK
<1> HIDE DEF fetch
<1>6. /\ reads' \in Seq(ReadMessage) /\ Loads(reads') = Loads(reads)
      /\ Range(reads') = IF view = None THEN Range(reads) ELSE Range(reads) \cup {fetch}
  <2>1. CASE view = None
    BY <2>1, <1>5, Queues
  <2>2. CASE view # None
    <3>1. fetch \in ReadMessage /\ fetch.kind # "load"
      BY <2>2, <1>4
    <3>2. reads' = Append(reads, fetch) /\ reads \in Seq(ReadMessage)
      BY <2>2, <1>5, Queues
    <3> QED  BY <2>2, <3>1, <3>2, AppendProperties, RangeOfAppend, LoadsOfAppend
  <2> QED  BY <2>1, <2>2
<1>7. TypeOK'
  <2>1. view' = None \/ view' \in Seq(Row)
    BY <1>1 DEF TypeOK
  <2> QED  BY <1>1, <1>2, <1>5, <1>6, <2>1 DEF TypeOK, ReadMessage, mainVars
<1>8. PlainEvents' /\ LoadsCounted'
  BY <1>1, <1>6 DEF PlainEvents, LoadsCounted, Loads
<1>9. /\ PutsFollow' /\ RowsFollow' /\ ChildActive' /\ DeletionAlone'
      /\ Written' = Written /\ Held' = Held /\ (NoDeletion' <=> NoDeletion)
  <2>1. ~ NoDeletion => loading' = 0 /\ showing' = 0
    BY <1>1 DEF DeletionAlone
  <2>2. CloseFirst(toUi)' /\ (DeletedComes' <=> DeletedComes) /\ (CloseComes' => CloseComes)
    BY <1>1 DEF ChildActive, CloseFirst, DeletedComes, CloseComes
  <2> QED  BY <1>1, <1>7, <2>1, <2>2, MainStays DEF Fresh
<1>10. AnswersFit'
  <2>1. ASSUME NEW m \in InFlight' PROVE m \in InFlight \/ Fits(m)'
    <3>1. m \in InFlight \/ (view # None /\ m = fetch)
      BY <1>1, <1>6 DEF InFlight
    <3>2. CASE view # None /\ m = fetch
      <4>1. view \in Seq(Row) /\ Len(view) <= Written /\ (Fresh => view = <<>>)
        BY <3>2, <1>3 DEF ViewFits, Fresh
      <4> QED  BY <3>2, <4>1, <1>1, <1>9, FetchFits DEF fetch, Fresh, mainVars
    <3> QED  BY <3>1, <3>2
  <2> QED  BY <2>1, <1>1, <1>3, <1>9, AnswersStay DEF Fresh, mainVars
<1>11. ViewFits' /\ TimerSet'
  BY <1>1, <1>3, <1>5, <1>9 DEF ViewFits, Matches, TimerSet, mainVars
<1>12. CatchesUp'
  <2> SUFFICES ASSUME view # None, NoDeletion PROVE CatchesUp'
    BY <1>1, <1>9 DEF CatchesUp
  <2>1. fetch \in InFlight'
    BY <1>6 DEF InFlight
  <2> QED  BY <2>1, <1>4, <1>9 DEF CatchesUp
<1>13. PendingLoads'
  <2>1. \A m \in InFlight : m \in InFlight'
    BY <1>1, <1>6 DEF InFlight
  <2> QED  BY <2>1, <1>1, <1>9 DEF PendingLoads
<1> QED  BY <1>7, <1>8, <1>9, <1>10, <1>11, <1>12, <1>13

-----------------------------------------------------------------------------
(* The life of the model.                                                  *)

(* A model that is started has no rows yet, and what is on its way to its  *)
(* view or held there is empty.                                            *)
LEMMA StartModelInv ==
  ASSUME ResultsInv, StartModel
  PROVE  ResultsInv'
<1> USE DEF ResultsInv
<1>1. /\ model = "added" /\ NoDeletion /\ run < MaxRuns /\ model' = "active"
      /\ run' = run + 1 /\ child' = TRUE /\ emitted' = 0
      /\ UNCHANGED <<puts, rows, deletion, reads, toUi, visible, loading, showing>>
      /\ UNCHANGED <<pending, view, timer, timers>>
  BY DEF StartModel, dataVars
<1>2. Fresh /\ Gone /\ puts = <<>> /\ Len(puts) = 0 /\ Held = 0 /\ ~ CloseComes
  <2>1. Fresh /\ Gone
    BY <1>1 DEF Fresh, Gone
  <2>2. puts = <<>> /\ ~ CloseComes
    BY <2>1, <1>1 DEF ChildActive, CloseComes
  <2> QED  BY <2>1, <2>2 DEF Held
<1>3. Written' = 0 /\ Held' = 0
  <2>1. Written' = 0
    <3>1. Written' = emitted' - Len(puts')
      BY DEF Written
    <3>2. emitted' = 0 /\ Len(puts') = 0
      BY <1>1, <1>2
    <3> QED  BY <3>1, <3>2
  <2> QED  BY <2>1 DEF Held
<1>4. run' \in 0 .. MaxRuns /\ run' # 0
  <2>1. run \in 0 .. MaxRuns
    BY DEF TypeOK
  <2> QED  BY <2>1, <1>1, Bounds
<1>5. TypeOK'
  <2>1. 0 \in 0 .. MaxRows
    BY Bounds
  <2> QED  BY <1>1, <1>4, <2>1 DEF TypeOK
<1>6. PlainEvents' /\ LoadsCounted'
  BY <1>1 DEF PlainEvents, LoadsCounted, Loads
<1>7. PutsFollow'
  BY <1>1, <1>2 DEF PutsFollow
<1>8. RowsFollow'
  <2>1. \A k \in RowIndex : ~ (k < 0)
    BY Bounds DEF RowIndex
  <2> QED  BY <2>1, <1>1, <1>2, <1>3 DEF RowsFollow
<1>9. NoDeletion' /\ (NotifyComes' <=> NotifyComes)
  BY <1>1 DEF NoDeletion, NotifyComes
<1>10. ChildActive' /\ DeletionAlone'
  <2>1. ChildActive'
    BY <1>1, <1>2, <1>4, <1>9 DEF ChildActive, CloseComes, CloseFirst
  <2>2. DeletionAlone'
    BY <1>1, <1>9 DEF DeletionAlone, NoDeletion, NotDeleting
  <2> QED  BY <2>1, <2>2
<1>11. view # None => view = <<>> /\ Len(view) = 0 /\ pending = "none"
  BY <1>2 DEF ViewFits, Fresh
<1>12. InFlight' = InFlight /\ InFlight \subseteq UiMessage
  BY <1>1, Queues, MessageTypes DEF InFlight
<1>13. AnswersFit'
  <2> SUFFICES ASSUME NEW m \in InFlight, IsAnswer(m) PROVE Fits(m)'
    BY <1>12 DEF AnswersFit, IsAnswer
  <2>1. Fits(m) /\ m.data = <<>> /\ Len(m.data) = 0
    BY <1>2 DEF AnswersFit, IsAnswer, Fits, Fresh
  <2>2. m.offset = 0
    <3>1. m.offset \in 0 .. 2 * MaxRows
      BY <1>12, MessageTypes
    <3>2. CASE m.kind = "load"
      BY <2>1, <3>2 DEF Fits
    <3>3. CASE m.kind = "fetch"
      <4>1. m.offset <= Len(view) /\ Len(view) = 0
        BY <2>1, <3>3, <1>11 DEF Fits
      <4> QED  BY <3>1, <4>1, Bounds
    <3> QED  BY <3>2, <3>3 DEF IsAnswer
  <2>3. m.kind = "fetch" => view' # None /\ m.offset <= Len(view')
    BY <2>1, <1>1 DEF Fits
  <2> QED  BY <2>1, <2>2, <2>3, <1>1, <1>3 DEF Fits, Matches
<1>14. ViewFits' /\ TimerSet' /\ CatchesUp'
  BY <1>1, <1>3, <1>11 DEF ViewFits, Matches, TimerSet, CatchesUp
<1>15. PendingLoads'
  BY <1>1, <1>2, <1>3, <1>12 DEF PendingLoads
<1> QED  BY <1>5, <1>6, <1>7, <1>8, <1>10, <1>13, <1>14, <1>15

(* A deletion begins while nothing is shown or loaded.                     *)
LEMMA DeleteModelInv ==
  ASSUME BackToBack, ResultsInv, DeleteModel
  PROVE  ResultsInv'
<1> USE DEF ResultsInv
<1>1. /\ model # "none" /\ NoDeletion /\ loading + showing = 0
      /\ deletion' = [step |-> "record", keys |-> {}]
      /\ UNCHANGED <<run, emitted, puts, rows, loading, showing>>
  BY DEF DeleteModel
<1>2. loading = 0 /\ showing = 0 /\ pending = "none"
  <2>1. loading = 0 /\ showing = 0
    BY <1>1 DEF LoadsCounted
  <2> QED  BY <2>1 DEF PendingLoads
<1>3. ~ NoDeletion' /\ deletion'.step = "record"
  BY <1>1 DEF NoDeletion, NotDeleting
<1>4. /\ child' = FALSE /\ visible' \in BOOLEAN
      /\ model' = model \/ (model = "active" /\ model' = "ran")
  <2>1. CASE model = "ran" /\ UNCHANGED <<child, model, visible>>
    BY <2>1 DEF ChildActive, TypeOK
  <2>2. CASE /\ child' = FALSE /\ visible' = FALSE
             /\ model' = IF model = "active" THEN "ran" ELSE model
    BY <2>2
  <2> QED  BY <2>1, <2>2 DEF DeleteModel
<1>5. \/ UNCHANGED <<reads, toUi, pending, view, timer, timers>>
      \/ /\ view' = None /\ timer' = FALSE /\ UNCHANGED <<pending, timers>>
         /\ reads' = Alive(reads) /\ toUi' = Alive(toUi)
  BY DEF DeleteModel, DropView, dataVars
<1>6. /\ reads' \in Seq(ReadMessage) /\ toUi' \in Seq(UiMessage)
      /\ Loads(reads') = Loads(reads) /\ Loads(toUi') = Loads(toUi)
      /\ (DeletedComes' <=> DeletedComes) /\ (CloseComes' <=> CloseComes)
      /\ PlainEvents' /\ CloseFirst(toUi')
      /\ UNCHANGED <<pending, timers>> /\ timer' \in BOOLEAN
      /\ view' = None \/ view' \in Seq(Row)
  <2>1. CASE UNCHANGED <<reads, toUi, pending, view, timer, timers>>
    BY <2>1, Queues DEF TypeOK, DeletedComes, CloseComes, PlainEvents, ChildActive
  <2>2. CASE /\ view' = None /\ timer' = FALSE /\ UNCHANGED <<pending, timers>>
             /\ reads' = Alive(reads) /\ toUi' = Alive(toUi)
    BY <2>2, DropDoes DEF ChildActive
  <2> QED  BY <2>1, <2>2, <1>5
<1>7. (Fresh' <=> Fresh) /\ (Gone' <=> Gone) /\ Written' = Written /\ Held' = Held
  <2>1. Fresh' <=> Fresh
    BY <1>4 DEF Fresh
  <2>2. Gone' <=> Gone
    BY <2>1, <1>6 DEF Gone, Fresh, DeletedComes
  <2>3. Written' = Written
    BY <1>1 DEF Written
  <2> QED  BY <2>1, <2>2, <2>3 DEF Held
<1>8. TypeOK'
  <2>1. deletion' \in [step : {"none", "record", "keys"}, keys : SUBSET RowIndex]
    BY <1>1
  <2>2. model' \in {"none", "added", "active", "ran"}
    BY <1>4 DEF TypeOK
  <2> QED  BY <1>1, <1>4, <1>6, <2>1, <2>2 DEF TypeOK, ReadMessage, UiMessage
<1>9. LoadsCounted' /\ PutsFollow' /\ RowsFollow'
  BY <1>1, <1>6, <1>7 DEF LoadsCounted, PutsFollow, RowsFollow
<1>10. ChildActive'
  BY <1>1, <1>4, <1>6, <1>7 DEF ChildActive, CloseComes
<1>11. DeletionAlone'
  BY <1>1, <1>2, <1>3 DEF DeletionAlone
<1>12. AnswersFit' /\ ViewFits' /\ TimerSet' /\ CatchesUp' /\ PendingLoads'
  <2>1. CASE UNCHANGED <<reads, toUi, pending, view, timer, timers>>
    <3>1. InFlight' = InFlight /\ InFlight' \subseteq UiMessage
      BY <2>1, Queues, MessageTypes DEF InFlight
    <3>2. Written' \in Nat /\ Written' >= Written
      BY <1>7, Counts
    <3> QED  BY <1>1, <1>2, <1>3, <1>7, <2>1, <3>1, <3>2, DataStays
  <2>2. CASE /\ view' = None /\ timer' = FALSE /\ UNCHANGED <<pending, timers>>
             /\ reads' = Alive(reads) /\ toUi' = Alive(toUi)
    <3>1. \A m : m \in InFlight' <=> m \in InFlight /\ m.kind # "fetch"
      BY <2>2, DropDoes DEF ChildActive
    <3> QED  BY <1>1, <1>2, <1>7, <2>2, <3>1, ViewGoes
  <2> QED  BY <2>1, <2>2, <1>5
<1> QED  BY <1>6, <1>8, <1>9, <1>10, <1>11, <1>12

(* The same with the answers to the entry dropped.                         *)
LEMMA AliveTaken ==
  ASSUME TypeOK, PlainEvents, CloseFirst(toUi), toUi # <<>>, Head(toUi).kind # "fetch",
         toUi' = Tail(Alive(toUi))
  PROVE  /\ toUi' \in Seq(UiMessage)
         /\ \A m \in Range(toUi') : m \in Range(toUi) /\ m.kind # "fetch"
         /\ \A m \in Range(toUi) : m.kind = "fetch" \/ m \in Range(toUi') \/ m = Head(toUi)
         /\ Loads(toUi') = IF Head(toUi).kind = "load" THEN Loads(toUi) - 1 ELSE Loads(toUi)
         /\ Head(toUi).kind # "deleted" => (DeletedComes' <=> DeletedComes)
         /\ Head(toUi).kind # "notify" => (NotifyComes' <=> NotifyComes)
         /\ CloseComes' => CloseComes /\ Head(toUi).kind # "deleted"
         /\ PlainEvents' /\ CloseFirst(toUi')
<1> DEFINE q == Alive(toUi)
<1>1. /\ q \in Seq(UiMessage) /\ q # <<>> /\ Head(q) = Head(toUi) /\ Loads(q) = Loads(toUi)
      /\ \A m : m \in Range(q) <=> m \in Range(toUi) /\ m.kind # "fetch"
      /\ CloseFirst(q) /\ CloseFirst(Tail(q))
  <2>1. /\ q \in Seq(UiMessage) /\ q # <<>> /\ Head(q) = Head(toUi) /\ Loads(q) = Loads(toUi)
        /\ \A m : m \in Range(q) <=> m \in Range(toUi) /\ m.kind # "fetch"
    BY Queues, AliveFacts, AliveHolds, AliveHead
  <2>2. CloseFirst(q)
    BY Queues, CloseFirstStays
  <2> HIDE DEF q
  <2> QED  BY <2>1, <2>2, CloseFirstStays
<1> HIDE DEF q
<1>2. toUi' = Tail(q)
  BY DEF q
<1>3. 1 \in 1 .. Len(q) /\ Head(q) = q[1] /\ Tail(q) = RemoveAt(q, 1)
  BY <1>1, TailRemoves
<1>4. /\ toUi' \in Seq(UiMessage)
      /\ Range(toUi') \subseteq Range(q) /\ Range(q) \subseteq Range(toUi') \cup {q[1]}
      /\ Loads(toUi') = IF q[1].kind = "load" THEN Loads(q) - 1 ELSE Loads(q)
  <2>1. /\ RemoveAt(q, 1) \in Seq(UiMessage)
        /\ Range(RemoveAt(q, 1)) \subseteq Range(q)
        /\ Range(q) \subseteq Range(RemoveAt(q, 1)) \cup {q[1]}
        /\ Loads(RemoveAt(q, 1)) = IF q[1].kind = "load" THEN Loads(q) - 1 ELSE Loads(q)
    BY <1>1, <1>3, RemoveFacts, RangeOfRemove, LoadsOfRemove
  <2> QED  BY <2>1, <1>2, <1>3
<1>5. /\ \A m \in Range(toUi') : m \in Range(toUi) /\ m.kind # "fetch"
      /\ \A m \in Range(toUi) : m.kind = "fetch" \/ m \in Range(toUi') \/ m = Head(toUi)
      /\ Loads(toUi') = IF Head(toUi).kind = "load" THEN Loads(toUi) - 1 ELSE Loads(toUi)
  BY <1>1, <1>3, <1>4
<1>6. /\ Head(toUi).kind # "deleted" => (DeletedComes' <=> DeletedComes)
      /\ Head(toUi).kind # "notify" => (NotifyComes' <=> NotifyComes)
      /\ CloseComes' => CloseComes
  BY <1>5, MessageTypes DEF DeletedComes, NotifyComes, CloseComes
<1>7. ASSUME CloseComes', q[1].kind = "deleted" PROVE FALSE
  <2>1. Tail(q) \in Seq(UiMessage) /\ Event("close") \in Range(Tail(q))
    BY <1>2, <1>4, <1>7 DEF CloseComes
  <2>2. PICK k \in 1 .. Len(Tail(q)) : Event("close") = Tail(q)[k]
    BY <2>1, RangeFacts
  <2>3. /\ Len(Tail(q)) = Len(q) - 1 /\ Len(q) \in Nat
        /\ \A i \in 1 .. Len(Tail(q)) : Tail(q)[i] = q[i + 1]
    BY <1>1, HeadTailProperties
  <2>4. k + 1 \in 1 .. Len(q) /\ 1 < k + 1 /\ q[k + 1].kind = "close"
    <3>2. q[k + 1].kind = "close"
      BY <2>2, <2>3, MessageTypes
    <3>3. k + 1 \in 1 .. Len(q) /\ 1 < k + 1
      BY <2>3
    <3> QED  BY <3>2, <3>3
  <2> QED  BY <1>1, <1>3, <1>7, <2>4 DEF CloseFirst
<1>8. PlainEvents' /\ CloseFirst(toUi')
  BY <1>1, <1>2, <1>5 DEF PlainEvents
<1> QED  BY <1>1, <1>3, <1>4, <1>5, <1>6, <1>7, <1>8

(* The answer to a deletion finds no close, no load and no row.            *)
LEMMA DeletedInv ==
  ASSUME ResultsInv, Deleted
  PROVE  ResultsInv'
<1> USE DEF ResultsInv
<1>1. /\ toUi # <<>> /\ Head(toUi).kind = "deleted"
      /\ model' = "none" /\ visible' = FALSE /\ view' = None /\ timer' = FALSE
      /\ reads' = Alive(reads) /\ toUi' = Tail(Alive(toUi))
      /\ UNCHANGED <<pending, timers, loading, showing>>
      /\ UNCHANGED <<run, child, emitted, puts, rows, deletion>>
  BY DEF Deleted, Handle, mainVars
<1>2. DeletedComes
  BY <1>1, HeadTaken DEF DeletedComes, PlainEvents
<1>3. /\ ~ NoDeletion /\ Gone /\ puts = <<>> /\ ~ child /\ Held = 0
      /\ loading = 0 /\ showing = 0 /\ pending = "none"
  <2>1. ~ NoDeletion /\ Gone
    BY <1>2, DeletionFacts
  <2>2. puts = <<>> /\ ~ child /\ loading = 0 /\ showing = 0
    BY <2>1 DEF ChildActive, DeletionAlone
  <2> QED  BY <2>1, <2>2 DEF Held, PendingLoads
<1>4. /\ toUi' \in Seq(UiMessage)
      /\ \A m \in Range(toUi') : m \in Range(toUi) /\ m.kind # "fetch"
      /\ Loads(toUi') = Loads(toUi)
      /\ ~ CloseComes' /\ PlainEvents' /\ CloseFirst(toUi')
  BY <1>1, AliveTaken DEF ChildActive
<1>5. /\ reads' \in Seq(ReadMessage) /\ Loads(reads') = Loads(reads)
      /\ \A m \in Range(reads') : m \in Range(reads) /\ m.kind # "fetch"
  BY <1>1, Queues, AliveFacts, AliveHolds
<1>6. TypeOK'
  BY <1>1, <1>4, <1>5 DEF TypeOK, ReadMessage, UiMessage
<1>7. LoadsCounted'
  BY <1>1, <1>4, <1>5 DEF LoadsCounted
<1>8. Gone' /\ Held' = 0
  BY <1>1 DEF Gone, Held
<1>9. PutsFollow'
  BY <1>1 DEF PutsFollow, Written
<1>10. RowsFollow'
  BY <1>1, <1>3, <1>8 DEF RowsFollow
<1>11. ChildActive'
  BY <1>1, <1>3, <1>4 DEF ChildActive, CloseComes
<1>12. DeletionAlone'
  BY <1>1, <1>3 DEF DeletionAlone
<1>13. AnswersFit'
  <2>1. Loads(reads) = 0 /\ Loads(toUi) = 0
    BY <1>3, Queues DEF LoadsCounted
  <2>2. \A m \in Range(reads) \cup Range(toUi) : m.kind # "load"
    BY <2>1, Queues, LoadsFacts
  <2> QED  BY <2>2, <1>4, <1>5 DEF AnswersFit, InFlight
<1>14. ViewFits' /\ TimerSet' /\ CatchesUp' /\ PendingLoads'
  BY <1>1, <1>3 DEF ViewFits, TimerSet, CatchesUp, PendingLoads
<1> QED  BY <1>4, <1>6, <1>7, <1>9, <1>10, <1>11, <1>12, <1>13, <1>14

(* The data of a load becomes the view of a pending entry.                 *)
LEMMA LoadInv ==
  ASSUME ResultsInv, LoadModelData
  PROVE  ResultsInv'
<1> USE DEF ResultsInv
<1> DEFINE m == Head(toUi)
           data == IF pending # "none" THEN m.data ELSE view
           fetch == Fetch(data)
<1>1. /\ toUi # <<>> /\ m.kind = "load"
      /\ loading' = loading - 1 /\ showing' = showing + 1
      /\ UNCHANGED mainVars /\ UNCHANGED <<model, visible>>
  BY DEF LoadModelData, Handle, storeVars
<1>2. m \in InFlight /\ m \in UiMessage /\ m \in Range(toUi) /\ Fits(m)
  <2>1. m \in UiMessage /\ m \in Range(toUi)
    BY <1>1, HeadTaken
  <2>2. m \in InFlight
    BY <2>1 DEF InFlight
  <2> QED  BY <2>1, <2>2, <1>1 DEF AnswersFit
<1>3. /\ m.offset = 0 /\ m.data \in Seq(Row) /\ Len(m.data) \in Nat /\ m.data # None
      /\ Matches(m.data, 0) /\ Len(m.data) <= Written /\ (Fresh => m.data = <<>>)
  <2>1. m.data \in Seq(Row)
    BY <1>2, MessageTypes
  <2>2. m.offset = 0 /\ Matches(m.data, m.offset) /\ m.offset + Len(m.data) <= Written
    BY <1>1, <1>2 DEF Fits
  <2>3. Len(m.data) \in Nat /\ m.data # None
    BY <2>1, LenProperties, NoneAssumption
  <2> QED  BY <1>2, <2>1, <2>2, <2>3 DEF Fits, Fresh
<1>4. loading > 0 /\ loading \in Nat /\ showing \in Nat /\ NoDeletion
  <2>1. Loads(toUi) # 0
    BY <1>1, <1>2, Queues, LoadsFacts
  <2>2. loading > 0 /\ loading \in Nat /\ showing \in Nat
    BY <2>1, Queues DEF LoadsCounted
  <2> QED  BY <2>2 DEF DeletionAlone
<1> HIDE DEF m
<1>5. view # None =>
        /\ view \in Seq(Row) /\ Len(view) \in Nat /\ pending = "none"
        /\ Matches(view, 0) /\ Len(view) <= Written /\ (Fresh => view = <<>>)
  BY LenProperties DEF TypeOK, ViewFits, Fresh
<1>6. /\ timer \in BOOLEAN /\ timers \in 0 .. MaxTimers /\ (timer => timers > 0)
      /\ view = None => ~ timer
  BY DEF TypeOK, TimerSet
<1> HIDE DEF data, fetch
<1>7. /\ toUi' \in Seq(UiMessage) /\ Loads(toUi') = Loads(toUi) - 1
      /\ \A e \in Range(toUi') : e \in Range(toUi)
      /\ \A e \in Range(toUi) : e \in Range(toUi') \/ e = m \/ (e.kind = "fetch" /\ pending # "none")
      /\ (DeletedComes' <=> DeletedComes) /\ (NotifyComes' <=> NotifyComes)
      /\ (CloseComes' => CloseComes) /\ PlainEvents' /\ CloseFirst(toUi')
  <2>1. CASE pending # "none"
    <3>1. toUi' = Tail(Alive(toUi))
      BY <2>1 DEF LoadModelData
    <3> QED  BY <1>1, <2>1, <3>1, AliveTaken DEF ChildActive, m
  <2>2. CASE pending = "none"
    <3>1. toUi' = Tail(toUi)
      BY <2>2 DEF LoadModelData
    <3> QED  BY <1>1, <3>1, HeadGoes DEF ChildActive, m
  <2> QED  BY <2>1, <2>2
<1> DEFINE others == IF pending # "none" THEN Alive(reads) ELSE reads
<1>8. /\ others \in Seq(ReadMessage) /\ Loads(others) = Loads(reads)
      /\ \A e \in Range(others) : e \in Range(reads)
      /\ \A e \in Range(reads) : e \in Range(others) \/ (e.kind = "fetch" /\ pending # "none")
  BY Queues, AliveFacts, AliveHolds
<1> HIDE DEF others
<1>9. /\ pending' = "none" /\ timer' \in BOOLEAN /\ timers' \in 0 .. MaxTimers
      /\ timer' => timers' > 0
      /\ \/ view' = None /\ view = None /\ ~ timer' /\ reads' = others
         \/ /\ view' = data /\ data \in Seq(Row) /\ data # None /\ Len(data) \in Nat
            /\ Matches(data, 0) /\ Len(data) <= Written /\ (Fresh => data = <<>>)
            /\ view # None => data = view
            /\ \/ reads' = others /\ (timer' \/ pending = "waiting")
               \/ reads' = Append(others, fetch)
  <2>1. CASE pending = "fetch"
    <3>1. pending' = "none" /\ view' = data /\ FetchSoon(data, FALSE, others)
      BY <2>1 DEF LoadModelData, data, others, m
    <3>2. /\ timer' \in BOOLEAN /\ timers' \in 0 .. MaxTimers /\ (timer' => timers' > 0)
          /\ \/ timer' = TRUE /\ reads' = others
             \/ timer' = FALSE /\ reads' = Append(others, fetch)
      BY <1>6, <3>1, FetchSoonDoes DEF fetch
    <3> QED  BY <2>1, <3>1, <3>2, <1>3, <1>5 DEF data
  <2>2. CASE pending = "waiting"
    <3>1. /\ pending' = "none" /\ view' = data /\ timer' = FALSE /\ reads' = others
          /\ timers' = timers
      BY <2>2 DEF LoadModelData, data, others, m
    <3> QED  BY <2>2, <3>1, <1>3, <1>5, <1>6 DEF data
  <2>3. CASE pending = "none" /\ view # None
    <3>1. pending' = "none" /\ view' = data /\ FetchSoon(data, timer, others)
      BY <2>3 DEF LoadModelData, data, others
    <3>2. /\ timer' \in BOOLEAN /\ timers' \in 0 .. MaxTimers /\ (timer' => timers' > 0)
          /\ \/ timer' = TRUE /\ reads' = others
             \/ timer' = FALSE /\ reads' = Append(others, fetch)
      BY <1>6, <3>1, FetchSoonDoes DEF fetch
    <3> QED  BY <2>3, <3>1, <3>2, <1>5 DEF data
  <2>4. CASE pending = "none" /\ view = None
    BY <2>4, <1>6 DEF LoadModelData, dataVars, others
  <2> QED  BY <2>1, <2>2, <2>3, <2>4 DEF TypeOK
<1>10. view' # None => /\ fetch \in ReadMessage /\ fetch.kind = "fetch"
                       /\ fetch.offset + Len(fetch.data) = Held
  <2> SUFFICES ASSUME view' # None
               PROVE  /\ fetch \in ReadMessage /\ fetch.kind = "fetch"
                      /\ fetch.offset + Len(fetch.data) = Held
    OBVIOUS
  <2>1. data \in Seq(Row) /\ Len(data) <= Written /\ (Fresh => data = <<>>)
    BY <1>9
  <2> QED  BY <2>1, <1>4, FetchFacts DEF fetch
<1>11. /\ reads' \in Seq(ReadMessage) /\ Loads(reads') = Loads(reads)
       /\ \A e \in Range(others) : e \in Range(reads')
       /\ \A e \in Range(reads') : e \in Range(others) \/ (view' # None /\ e = fetch)
       /\ view' # None => timer' \/ pending = "waiting" \/ fetch \in Range(reads')
  <2>1. CASE reads' = others
    BY <2>1, <1>8, <1>9, RangeOfAppend, <1>10
  <2>2. CASE view' # None /\ reads' = Append(others, fetch)
    <3>1. fetch \in ReadMessage /\ fetch.kind # "load"
      BY <2>2, <1>10
    <3>2. /\ Append(others, fetch) \in Seq(ReadMessage)
          /\ Range(Append(others, fetch)) = Range(others) \cup {fetch}
          /\ Loads(Append(others, fetch)) = Loads(others)
      BY <3>1, <1>8, AppendProperties, RangeOfAppend, LoadsOfAppend
    <3> QED  BY <2>2, <3>2, <1>8
  <2> QED  BY <2>1, <2>2, <1>9
<1>12. TypeOK'
  <2>1. loading' + showing' \in 0 .. MaxShows
    <3>1. loading + showing \in 0 .. MaxShows
      BY DEF TypeOK
    <3>2. (loading - 1) + (showing + 1) = loading + showing
      BY <1>4
    <3> QED  BY <3>1, <3>2, <1>1
  <2>2. view' = None \/ view' \in Seq(Row)
    BY <1>9
  <2> QED  BY <1>1, <1>7, <1>9, <1>11, <2>1, <2>2 DEF TypeOK, ReadMessage, UiMessage, mainVars
<1>13. LoadsCounted'
  <2>1. loading = Loads(reads) + Loads(toUi) /\ Loads(reads) \in Nat /\ Loads(toUi) \in Nat
    BY Queues DEF LoadsCounted
  <2>2. loading - 1 \in Nat /\ showing + 1 \in Nat /\ loading - 1 = Loads(reads) + (Loads(toUi) - 1)
    BY <2>1, <1>4
  <2> QED  BY <2>2, <1>1, <1>7, <1>11 DEF LoadsCounted
<1>14. /\ PutsFollow' /\ RowsFollow' /\ ChildActive' /\ DeletionAlone'
       /\ Written' = Written /\ Held' = Held /\ (NoDeletion' <=> NoDeletion)
  BY <1>1, <1>4, <1>7, <1>12, MainStays DEF Fresh
<1>15. AnswersFit'
  <2>1. ASSUME NEW e \in InFlight' PROVE e \in InFlight \/ Fits(e)'
    <3>1. e \in InFlight \/ (view' # None /\ e = fetch)
      BY <1>7, <1>8, <1>11 DEF InFlight
    <3>2. CASE view' # None /\ e = fetch
      <4>1. /\ view' = data /\ data \in Seq(Row) /\ Len(data) <= Written
            /\ (Fresh => data = <<>>)
        BY <3>2, <1>9
      <4> QED  BY <3>2, <4>1, <1>1, <1>14, FetchFits DEF fetch, Fresh, mainVars
    <3> QED  BY <3>1, <3>2
  <2>2. view # None => view' = view
    BY <1>9
  <2>3. view # None => /\ view' # None /\ Len(view) \in Nat /\ Len(view') \in Nat
                       /\ Len(view') >= Len(view)
    BY <2>2, <1>5
  <2> QED  BY <2>1, <2>3, <1>1, <1>14, AnswersStay DEF Fresh, mainVars
<1>16. ViewFits' /\ TimerSet'
  <2>1. ViewFits'
    BY <1>1, <1>9, <1>14 DEF ViewFits, Matches, Fresh, mainVars
  <2>2. TimerSet'
    BY <1>9 DEF TimerSet
  <2> QED  BY <2>1, <2>2
<1>17. CatchesUp'
  <2> SUFFICES ASSUME view' # None PROVE CatchesUp'
    BY DEF CatchesUp
  <2>1. CASE timer'
    BY <2>1 DEF CatchesUp
  <2>2. CASE fetch \in Range(reads')
    <3>1. fetch \in InFlight'
      BY <2>2 DEF InFlight
    <3> QED  BY <3>1, <1>10, <1>14 DEF CatchesUp
  <2>3. CASE pending = "waiting"
    <3>1. view' = m.data
      BY <2>3, <1>9 DEF data
    <3>2. CASE NotifyComes
      BY <3>2, <1>7 DEF CatchesUp, NotifyComes
    <3>3. CASE \E e \in InFlight : e.kind = "load" /\ Len(e.data) = Held
      <4>1. PICK e \in InFlight : e.kind = "load" /\ Len(e.data) = Held
        BY <3>3
      <4>2. CASE e = m
        BY <3>1, <4>1, <4>2, <1>14 DEF CatchesUp
      <4>3. CASE e # m
        <5>1. e \in Range(reads') \/ e \in Range(toUi')
          BY <4>1, <4>3, <1>7, <1>8, <1>11 DEF InFlight
        <5>2. Loads(reads') # 0 \/ Loads(toUi') # 0
          BY <5>1, <4>1, <1>7, <1>11, LoadsFacts
        <5>3. Loads(reads') \in Nat /\ Loads(toUi') \in Nat
          BY <1>7, <1>11, LoadsFacts
        <5>4. loading' > 0
          BY <5>2, <5>3, <1>13 DEF LoadsCounted
        <5> QED  BY <5>4 DEF CatchesUp
      <4> QED  BY <4>2, <4>3
    <3> QED  BY <2>3, <3>2, <3>3 DEF PendingLoads, NotifyComes
  <2> QED  BY <2>1, <2>2, <2>3, <1>11
<1>18. PendingLoads'
  BY <1>9 DEF PendingLoads
<1> QED
  BY <1>7, <1>12, <1>13, <1>14, <1>15, <1>16, <1>17, <1>18

-----------------------------------------------------------------------------
LEMMA InitInv == Init => ResultsInv
<1> SUFFICES ASSUME Init PROVE ResultsInv
  OBVIOUS
<1> USE DEF Init
<1>1. /\ 0 \in 0 .. MaxRuns /\ 0 \in 0 .. MaxRows /\ 0 \in 0 .. MaxTimers
      /\ 0 + 0 \in 0 .. MaxShows /\ \A k \in RowIndex : ~ (k < 0)
  BY Bounds DEF RowIndex
<1>2. TypeOK
  <2>1. rows \in [RowIndex -> 0 .. MaxRuns]
    BY <1>1
  <2>2. deletion \in [step : {"none", "record", "keys"}, keys : SUBSET RowIndex]
    BY DEF NotDeleting
  <2>3. /\ puts \in Seq(Row) /\ reads \in Seq(Answer({"load", "fetch"}))
        /\ toUi \in Seq(Answer({"load", "fetch", "notify", "close", "deleted"}))
    OBVIOUS
  <2>4. loading + showing \in 0 .. MaxShows
    BY <1>1
  <2> HIDE DEF Init
  <2>5. /\ run \in 0 .. MaxRuns /\ child \in BOOLEAN /\ emitted \in 0 .. MaxRows
        /\ model \in {"none", "added", "active", "ran"} /\ visible \in BOOLEAN
        /\ pending \in {"none", "waiting", "fetch"} /\ view = None
        /\ timer \in BOOLEAN /\ timers \in 0 .. MaxTimers
    BY <1>1 DEF Init
  <2> QED  BY <2>1, <2>2, <2>3, <2>4, <2>5 DEF TypeOK
<1>3. Range(reads) = {} /\ Range(toUi) = {} /\ InFlight = {} /\ NoDeletion
  <2>1. Range(reads) = {} /\ Range(toUi) = {}
    BY <1>2, Queues, RangeFacts
  <2> QED  BY <2>1 DEF InFlight, NoDeletion
<1>4. PlainEvents /\ LoadsCounted
  <2>1. Loads(reads) = 0 /\ Loads(toUi) = 0
    BY <1>2, <1>3, Queues, LoadsFacts
  <2> QED  BY <2>1, <1>3 DEF PlainEvents, LoadsCounted
<1>5. Gone /\ Held = 0 /\ Len(puts) = 0
  BY DEF Gone, Held
<1>6. PutsFollow /\ RowsFollow
  BY <1>1, <1>5 DEF PutsFollow, RowsFollow
<1>7. ChildActive /\ DeletionAlone
  BY <1>3 DEF ChildActive, DeletionAlone, CloseFirst, NotDeleting
<1>8. AnswersFit /\ ViewFits /\ TimerSet /\ CatchesUp /\ PendingLoads
  BY <1>3 DEF AnswersFit, ViewFits, TimerSet, CatchesUp, PendingLoads
<1> QED  BY <1>2, <1>4, <1>6, <1>7, <1>8 DEF ResultsInv

LEMMA StepInv ==
  ASSUME BackToBack, OrderedWrites
  PROVE  ResultsInv /\ [Next]_vars => ResultsInv'
<1> SUFFICES ASSUME ResultsInv, [Next]_vars PROVE ResultsInv'
  OBVIOUS
<1>1. CASE Main
  BY <1>1, ModelDataInv, ChildClosesInv, PutCompletesInv, DeleteStepInv, ReadAnsweredInv
     DEF Main
<1>2. CASE User
  BY <1>2, ShowModelInv, HideModelInv, StartModelInv, DeleteModelInv DEF User
<1>3. CASE Messages
  BY <1>3, NotifyInv, LoadInv, FetchAnsweredInv, CloseModelInv, DeletedInv DEF Messages
<1>4. CASE UNCHANGED vars
  <2> USE <1>4 DEF vars, ResultsInv
  <2>1. TypeOK' /\ PlainEvents' /\ LoadsCounted'
    BY DEF TypeOK, PlainEvents, LoadsCounted, Loads
  <2>2. /\ Written' = Written /\ (Gone' <=> Gone) /\ Held' = Held
        /\ (NoDeletion' <=> NoDeletion) /\ InFlight' = InFlight
    BY DEF Written, Gone, Held, NoDeletion, InFlight
  <2>3. PutsFollow' /\ RowsFollow' /\ ChildActive' /\ DeletionAlone'
    BY <2>2 DEF PutsFollow, RowsFollow, ChildActive, CloseFirst, DeletionAlone
  <2>4. AnswersFit' /\ ViewFits' /\ TimerSet' /\ CatchesUp' /\ PendingLoads'
    BY <2>2 DEF AnswersFit, Fits, ViewFits, Matches, TimerSet, CatchesUp, PendingLoads
  <2> QED  BY <2>1, <2>3, <2>4
<1> QED  BY <1>1, <1>2, <1>3, <1>4, ShownInv, FetchNewResultsInv DEF Next

(* The inductive invariant holds throughout: the database has the rows of  *)
(* the latest run from the first on, whatever is on its way to the view    *)
(* continues what the view holds, and what the view lacks is on its way.   *)
THEOREM ResultsInvariant == ASSUME BackToBack, OrderedWrites PROVE Spec => []ResultsInv
<1>1. ResultsInv /\ [Next]_vars => ResultsInv'
  BY StepInv
<1> QED  BY <1>1, InitInv, PTL DEF Spec

(* The model keeps its types: the counters of DatabaseService and of       *)
(* ModelDataStore stay within their bounds, and a view is None or rows.    *)
THEOREM ResultsTypes == ASSUME BackToBack, OrderedWrites PROVE Spec => []TypeOK
<1>1. ResultsInv => TypeOK
  BY DEF ResultsInv
<1> QED  BY <1>1, ResultsInvariant, PTL

(* The chart shows the rows of the latest run, from the first on and       *)
(* without gaps: _fetchNewResults asks for what follows the rows the entry *)
(* holds, splice puts an answer in its place, and neither a late answer    *)
(* nor deleteModel leaves rows of an earlier run behind.                   *)
THEOREM ChartIsOfTheRun == ASSUME BackToBack, OrderedWrites PROVE Spec => []ChartShowsTheRun
<1>1. ResultsInv => ChartShowsTheRun
  <2> SUFFICES ASSUME ResultsInv, view # None, NEW n \in DOMAIN view
               PROVE  view[n] = [row |-> n - 1, run |-> run]
    BY DEF ChartShowsTheRun
  <2>1. view \in Seq(Row) /\ Matches(view, 0)
    BY DEF ResultsInv, TypeOK, ViewFits
  <2>2. n \in 1 .. Len(view) /\ 0 + n - 1 = n - 1
    BY <2>1
  <2> QED  BY <2>1, <2>2 DEF Matches
<1> QED  BY <1>1, ResultsInvariant, PTL

(* A chart that nothing is on its way to shows all rows of the database: a *)
(* notification that finds a load under way sets shouldFetch, one that     *)
(* finds a fetch scheduled is made good by that fetch.                     *)
THEOREM QuietIsComplete == ASSUME BackToBack, OrderedWrites PROVE Spec => []QuietMeansComplete
<1>1. ResultsInv => QuietMeansComplete
  <2> SUFFICES ASSUME ResultsInv, view # None, reads = <<>>, toUi = <<>>, timers = 0,
                      deletion = NotDeleting
               PROVE  view = Stored(0)
    BY DEF QuietMeansComplete
  <2> USE DEF ResultsInv
  <2>1. Range(reads) = {} /\ Range(toUi) = {} /\ InFlight = {} /\ NoDeletion
    <3>1. Range(reads) = {} /\ Range(toUi) = {}
      BY Queues, RangeFacts
    <3> QED  BY <3>1 DEF InFlight, NoDeletion
  <2>2. loading = 0
    <3>1. Loads(reads) = 0 /\ Loads(toUi) = 0
      BY <2>1, Queues, LoadsFacts
    <3> QED  BY <3>1 DEF LoadsCounted
  <2>3. ~ timer
    BY DEF TimerSet
  <2>4. Len(view) = Held
    BY <2>1, <2>2, <2>3 DEF CatchesUp
  <2>5. view \in Seq(Row) /\ Matches(view, 0)
    BY DEF TypeOK, ViewFits
  <2>6. Held \in Nat
    BY Counts
  <2>7. /\ Stored(0) \in Seq(Row) /\ Matches(Stored(0), 0)
        /\ Len(Stored(0)) = IF 0 < Held THEN Held - 0 ELSE 0
    BY StoredFacts
  <2>8. Len(view) = Len(Stored(0))
    BY <2>4, <2>6, <2>7
  <2>9. \A n \in 1 .. Len(view) : view[n] = Stored(0)[n]
    BY <2>5, <2>7, <2>8 DEF Matches
  <2> QED  BY <2>5, <2>7, <2>8, <2>9, SeqEqual
<1> QED  BY <1>1, ResultsInvariant, PTL
=============================================================================
