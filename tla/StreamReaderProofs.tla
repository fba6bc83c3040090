------------------------- MODULE StreamReaderProofs -------------------------
(***************************************************************************)
(* Proofs about StreamReader, for any number of tasks that share the       *)
(* object, any counts and any number of entries, binds and reads.          *)
(***************************************************************************)
EXTENDS StreamReader, FiniteSetTheorems, WellFoundedInduction, TLAPS

\* An entry that is trimmed is no longer missed by anybody.
TrimmedIsAccounted ==
    start # Newest => \A e \in Entry : start < e /\ e <= low => e \in Accounted

\* The checkpoint leaves nothing out.
CheckpointIsAccounted ==
    Claim => /\ checkpoint # Newest
             /\ \A e \in Entry : start < e /\ e <= checkpoint => e \in Accounted

\* A batch can be stored as the checkpoint: it leaves nothing out.
BatchesReach ==
    Claim => \A t \in Task : \A b \in batch[t] : \A e \in Entry :
                start < e /\ e <= b => e \in Accounted \cup batch[t]

IInv == /\ TypeOK /\ TrimmedIsAccounted
        /\ CheckpointIsAccounted /\ BatchesReach /\ WaitersHaveAll

-----------------------------------------------------------------------------
\* A finite set of integers has a greatest element: the sets of elements above an
\* element are ordered by inclusion, which is well-founded.
LEMMA GreatestElement ==
    ASSUME NEW T \in SUBSET Int, IsFiniteSet(T), T # {}
    PROVE  \E m \in T : \A f \in T : f <= m
<1> DEFINE Above(e) == {f \in T : e < f}
           Family   == {Above(e) : e \in T}
           Order    == StrictSubsetOrdering(T)
<1>1. Family \subseteq FiniteSubsetsOf(T) /\ Family # {}
  <2>1. \A e \in T : Above(e) \in SUBSET T /\ IsFiniteSet(Above(e))
    BY FS_Subset
  <2> QED BY <2>1 DEF FiniteSubsetsOf
<1>2. \E B \in Family : \A C \in Family : <<C, B>> \notin Order
  <2>1. IsWellFoundedOn(Order, FiniteSubsetsOf(T))
    BY FS_StrictSubsetOrderingWellFounded
  <2> HIDE DEF Order, Family
  <2> QED BY <1>1, <2>1, WFMin
<1>3. PICK m \in T : \A e \in T : <<Above(e), Above(m)>> \notin Order
  BY <1>2
<1>4. ASSUME NEW f \in T, m < f PROVE FALSE
  <2>1. Above(f) \subseteq Above(m) /\ Above(f) # Above(m)
    <3>1. f \in Above(m) /\ f \notin Above(f)
      BY <1>4
    <3>2. \A e \in Above(f) : e \in Above(m)
      BY <1>4
    <3> QED BY <3>1, <3>2
  <2>2. Above(f) \in SUBSET T /\ Above(m) \in SUBSET T
    OBVIOUS
  <2>3. <<Above(f), Above(m)>> \in Order
    BY <2>1, <2>2 DEF StrictSubsetOrdering
  <2> QED BY <1>3, <2>3
<1> QED BY <1>4

\* data[0][1][-1][0] is the largest id of the batch.
LEMMA StoredIsLast ==
    ASSUME NEW n \in Nat, NEW S \in SUBSET (1 .. n), S # {}
    PROVE  Stored(S) \in S /\ \A f \in S : f <= Stored(S)
<1>1. IsFiniteSet(1 .. n)
  BY FS_Interval
<1>2. IsFiniteSet(S)
  BY <1>1, FS_Subset, Zenon
<1>3. S \in SUBSET Int
  OBVIOUS
<1>4. \E m \in S : \A f \in S : f <= m
  BY <1>2, <1>3, GreatestElement
<1> QED BY <1>4 DEF Stored

\* What XREAD returns is there, and has no gap.
LEMMA FoundIsNext ==
    ASSUME TypeOK, NEW cp \in {Newest} \cup 0 .. last, NEW n \in Counts
    PROVE  /\ Found(cp, n) \in SUBSET (1 .. last)
           /\ \A b \in Found(cp, n) : low < b /\ cp < b
           /\ \A b \in Found(cp, n), e \in Entry :
                  low < e /\ cp < e /\ e <= b /\ cp # Newest => e \in Found(cp, n)
           /\ Found(cp, n) = {} /\ cp # Newest =>
                  \A e \in Entry : cp < e /\ e <= last => e <= low
<1>1. n \in Nat /\ n >= 1 /\ last \in Nat /\ low \in 0 .. last /\ MaxEntries \in Nat
  BY CountsAssumption, BoundAssumption DEF TypeOK
<1>2. cp \in Int /\ Newest = -1
  BY <1>1 DEF Newest
<1>3. Found(cp, n) \in SUBSET (1 .. last) /\ \A b \in Found(cp, n) : low < b /\ cp < b
  BY <1>1, <1>2 DEF Found, After, Entry
<1>4. \A b \in Found(cp, n), e \in Entry :
         low < e /\ cp < e /\ e <= b /\ cp # Newest => e \in Found(cp, n)
  BY <1>1, <1>2 DEF Found, After, Entry
<1>5. ASSUME Found(cp, n) = {}, cp # Newest, NEW e \in Entry, cp < e, e <= last
      PROVE  e <= low
  <2> DEFINE from == IF cp > low THEN cp ELSE low
  <2>1. from \in Nat /\ Found(cp, n) = {f \in Entry : from < f /\ f <= last /\ f <= from + n}
    BY <1>1, <1>2, <1>5 DEF Found, After
  <2> HIDE DEF from
  <2>2. from = cp \/ from = low
    BY DEF from
  <2>3. ASSUME e > low PROVE FALSE
    <3>1. e \in Nat /\ from < e /\ from + 1 \in 1 .. MaxEntries /\ from + 1 <= last
      BY <1>1, <1>2, <1>5, <2>1, <2>2, <2>3 DEF Entry, TypeOK
    <3>2. from < from + 1 /\ from + 1 <= from + n
      BY <1>1, <2>1
    <3>3. from + 1 \in Found(cp, n)
      BY <2>1, <3>1, <3>2 DEF Entry
    <3> QED BY <1>5, <3>3
  <2> QED BY <1>1, <1>5, <2>3 DEF Entry
<1> QED BY <1>3, <1>4, <1>5

\* Nothing is added in the beginning.
LEMMA InitIInv == Init => IInv
<1> SUFFICES ASSUME Init PROVE IInv
  OBVIOUS
<1>1. TypeOK
  <2>1. last \in 0 .. MaxEntries /\ low \in 0 .. last /\ count \in Counts
        /\ binds \in 0 .. MaxBinds /\ given \in 0 .. MaxGiven
    BY CountsAssumption, BoundAssumption DEF Init
  <2>2. /\ pc \in [Task -> {"idle", "blocked", "decode"}]
        /\ batch \in [Task -> SUBSET (1 .. last)]
        /\ \A t \in Task : pc[t] = "decode" <=> batch[t] # {}
    BY DEF Init
  <2> QED BY <2>1, <2>2 DEF Init, TypeOK
<1>2. ~Claim /\ start = Newest
  BY DEF Init, Claim
<1> QED BY <1>1, <1>2 DEF IInv, TrimmedIsAccounted, CheckpointIsAccounted, BatchesReach,
           WaitersHaveAll

-----------------------------------------------------------------------------
(* One lemma per action.                                                   *)

\* A new object starts with nobody reading.
LEMMA BindStep ==
    ASSUME IInv, NEW cp \in {checkpoint, Newest, 0, last}, NEW n \in {count} \cup Counts,
           NEW flag \in {"unset", "true", "false"}, Bind(cp, n, flag)
    PROVE  IInv'
<1> USE DEF IInv, Bind, store
<1>1. last \in Nat /\ low \in 0 .. last /\ MaxEntries \in Nat /\ last <= MaxEntries
  BY BoundAssumption DEF TypeOK
<1>2. cp \in {Newest} \cup 0 .. last /\ n \in Counts
  BY <1>1 DEF TypeOK
<1>3. TypeOK'
  <2>1. binds' \in 0 .. MaxBinds
    BY BoundAssumption DEF TypeOK
  <2>2. gone' \in SUBSET (1 .. last)
    BY <1>1 DEF Entry
  <2>3. save' \in BOOLEAN
    BY DEF Saves, TypeOK
  <2> QED BY <1>2, <2>1, <2>2, <2>3 DEF TypeOK
<1>4. batch' = batch /\ \A t \in Task : batch[t] = {}
  BY DEF TypeOK
<1>5. TrimmedIsAccounted'
  BY <1>1, <1>2 DEF TrimmedIsAccounted, Accounted, Entry
<1>6. CheckpointIsAccounted'
  BY <1>1, <1>2 DEF CheckpointIsAccounted, Claim, Entry, Newest
<1>7. BatchesReach' /\ WaitersHaveAll'
  BY <1>4 DEF BatchesReach, WaitersHaveAll
<1> QED BY <1>3, <1>5, <1>6, <1>7

\* A read begins.
LEMMA StartStep ==
    ASSUME IInv, NEW t \in Task, NEW cp \in {checkpoint} \cup Given,
           NEW n \in {count} \cup Counts, Starts(t, cp, n),
           alone' \in BOOLEAN, given' \in 0 .. MaxGiven
    PROVE  IInv'
<1> USE DEF IInv, store, object
<1>1. last \in Nat /\ low \in 0 .. last /\ MaxEntries \in Nat /\ last <= MaxEntries
  BY BoundAssumption DEF TypeOK
<1>2. cp \in {Newest} \cup 0 .. last /\ n \in Counts
  <2>1. 0 \in 0 .. last /\ Given \subseteq {0}
    BY <1>1, GivenAssumption
  <2> QED BY <2>1 DEF TypeOK
<1>3. /\ Found(cp, n) \in SUBSET (1 .. last)
      /\ \A b \in Found(cp, n) : low < b /\ cp < b
      /\ \A b \in Found(cp, n), e \in Entry :
             low < e /\ cp < e /\ e <= b /\ cp # Newest => e \in Found(cp, n)
      /\ Found(cp, n) = {} /\ cp # Newest =>
             \A e \in Entry : cp < e /\ e <= last => e <= low
  BY <1>2, FoundIsNext
<1>4. /\ UNCHANGED <<exists, last, low, checkpoint, count, save, binds, start, delivered, gone>>
      /\ pc[t] = "idle" /\ batch[t] = {}
      /\ \/ /\ Found(cp, n) # {}
            /\ pc'    = [pc EXCEPT ![t] = "decode"]
            /\ batch' = [batch EXCEPT ![t] = Found(cp, n)]
         \/ /\ Found(cp, n) = {}
            /\ pc'    = [pc EXCEPT ![t] = "blocked"]
            /\ batch' = batch
  BY DEF Starts, ReadNow, ReadBlocks, TypeOK
<1>5. /\ \A u \in Task : u # t => pc'[u] = pc[u] /\ batch'[u] = batch[u]
      /\ batch'[t] = Found(cp, n)
      /\ pc'[t] = "blocked" => Found(cp, n) = {}
      /\ pc' \in [Task -> {"idle", "blocked", "decode"}]
      /\ batch' \in [Task -> SUBSET (1 .. last)]
      /\ pc'[t] = "decode" <=> batch'[t] # {}
  <2>1. pc \in [Task -> {"idle", "blocked", "decode"}] /\ batch \in [Task -> SUBSET (1 .. last)]
    BY DEF TypeOK
  <2>2. CASE Found(cp, n) # {}
    BY <1>3, <1>4, <2>1, <2>2
  <2>3. CASE Found(cp, n) = {}
    BY <1>4, <2>1, <2>3
  <2> QED BY <2>2, <2>3
<1>6. TypeOK'
  BY <1>4, <1>5 DEF TypeOK
<1>7. Accounted \subseteq Accounted'
  BY <1>4, <1>5 DEF Accounted, InHand, Entry
<1>8. TrimmedIsAccounted' /\ CheckpointIsAccounted'
  BY <1>4, <1>7 DEF TrimmedIsAccounted, CheckpointIsAccounted, Claim, Entry
<1>9. ASSUME Claim, NEW e \in Entry, start < e, e <= cp \/ e <= low PROVE e \in Accounted
  <2>1. start \in 0 .. last /\ cp # Newest => cp = checkpoint \/ cp = 0
    BY <1>9, GivenAssumption DEF TypeOK, Claim
  <2>2. start \in Nat
    BY <1>1, <1>9 DEF TypeOK, Claim
  <2>3. CASE e <= low
    BY <1>9, <2>3 DEF TrimmedIsAccounted, Claim
  <2>4. CASE e <= cp
    BY <1>1, <1>2, <1>9, <2>1, <2>2, <2>4 DEF CheckpointIsAccounted, Entry, Newest
  <2> QED BY <1>9, <2>3, <2>4
<1>10. Claim => cp # Newest
  BY GivenAssumption DEF CheckpointIsAccounted, Newest
<1>11. BatchesReach'
  <2> SUFFICES ASSUME Claim, NEW u \in Task, NEW b \in batch'[u], NEW e \in Entry,
                      start < e, e <= b
               PROVE  e \in Accounted \cup batch'[u]
    BY <1>4, <1>7 DEF BatchesReach, Claim, Entry
  <2>1. CASE u # t
    BY <1>5, <2>1 DEF BatchesReach
  <2>2. CASE u = t
    <3>1. e \in Found(cp, n) \/ e <= cp \/ e <= low
      BY <1>1, <1>2, <1>3, <1>5, <1>10, <2>2 DEF Entry, Newest
    <3>2. batch'[u] = Found(cp, n)
      BY <1>5, <2>2
    <3> QED BY <1>9, <3>1, <3>2
  <2> QED BY <2>1, <2>2
<1>12. WaitersHaveAll'
  <2> SUFFICES ASSUME Claim, NEW u \in Task, pc'[u] = "blocked", NEW e \in Entry,
                      start < e, e <= last
               PROVE  e \in Accounted
    BY <1>4, <1>7 DEF WaitersHaveAll, Claim, Entry
  <2>1. CASE u # t
    BY <1>5, <2>1 DEF WaitersHaveAll
  <2>2. CASE u = t
    <3>1. e <= cp \/ e <= low
      BY <1>1, <1>2, <1>3, <1>5, <1>10, <2>2 DEF Entry, Newest
    <3> QED BY <1>9, <3>1
  <2> QED BY <2>1, <2>2
<1> QED BY <1>6, <1>8, <1>11, <1>12

\* The data is returned and the checkpoint stored.
LEMMA DeliverStep ==
    ASSUME IInv, NEW t \in Task, Deliver(t)
    PROVE  IInv'
<1> USE DEF IInv, Deliver, store, history
<1>1. last \in Nat /\ low \in 0 .. last /\ MaxEntries \in Nat /\ last <= MaxEntries
  BY BoundAssumption DEF TypeOK
<1>2. batch[t] # {} /\ batch[t] \in SUBSET (1 .. last)
  BY DEF TypeOK
<1>3. Stored(batch[t]) \in batch[t] /\ \A f \in batch[t] : f <= Stored(batch[t])
  BY <1>1, <1>2, StoredIsLast
<1>4. /\ \A u \in Task : u # t => pc'[u] = pc[u] /\ batch'[u] = batch[u]
      /\ pc'[t] = "idle" /\ batch'[t] = {}
      /\ pc' \in [Task -> {"idle", "blocked", "decode"}]
      /\ batch' \in [Task -> SUBSET (1 .. last)]
  BY DEF TypeOK
<1>5. TypeOK'
  <2>1. checkpoint' \in {Newest} \cup 0 .. last
    BY <1>1, <1>2, <1>3 DEF TypeOK
  <2>2. delivered' \in SUBSET (1 .. last)
    BY <1>2 DEF TypeOK
  <2> QED BY <1>4, <2>1, <2>2 DEF TypeOK
<1>6. Accounted \cup batch[t] \subseteq Accounted'
  BY <1>1, <1>2, <1>4 DEF Accounted, InHand, Entry
<1>7. TrimmedIsAccounted'
  BY <1>6 DEF TrimmedIsAccounted, Entry
<1>8. CheckpointIsAccounted'
  <2> SUFFICES ASSUME Claim PROVE checkpoint' # Newest /\ \A e \in Entry :
                 start < e /\ e <= checkpoint' => e \in Accounted'
    BY DEF CheckpointIsAccounted, Claim, Entry
  <2>1. checkpoint' = Stored(batch[t])
    BY DEF Claim
  <2>2. checkpoint' # Newest
    BY <1>2, <1>3, <2>1 DEF Newest
  <2> QED BY <1>3, <1>6, <2>1, <2>2 DEF BatchesReach
<1>9. BatchesReach'
  <2> SUFFICES ASSUME Claim, NEW u \in Task, NEW b \in batch'[u], NEW e \in Entry,
                      start < e, e <= b
               PROVE  e \in Accounted' \cup batch'[u]
    BY DEF BatchesReach, Claim, Entry
  <2>1. u # t /\ batch'[u] = batch[u]
    BY <1>4
  <2> QED BY <1>6, <2>1 DEF BatchesReach
<1>10. WaitersHaveAll'
  <2> SUFFICES ASSUME Claim, NEW u \in Task, pc'[u] = "blocked", NEW e \in Entry,
                      start < e, e <= last
               PROVE  e \in Accounted'
    BY DEF WaitersHaveAll, Claim, Entry
  <2>1. pc[u] = "blocked"
    BY <1>4
  <2> QED BY <1>6, <2>1 DEF WaitersHaveAll
<1> QED BY <1>5, <1>7, <1>8, <1>9, <1>10

\* A cancelled task drops its batch; what it held and is trimmed is gone.
LEMMA CancelStep ==
    ASSUME IInv, NEW t \in Task, Cancel(t)
    PROVE  IInv'
<1> USE DEF IInv, Cancel, store, object, history
<1>1. last \in Nat /\ low \in 0 .. last /\ MaxEntries \in Nat /\ last <= MaxEntries
  BY BoundAssumption DEF TypeOK
<1>2. /\ \A u \in Task : u # t => pc'[u] = pc[u] /\ batch'[u] = batch[u]
      /\ pc'[t] = "idle" /\ batch'[t] = {}
      /\ pc' \in [Task -> {"idle", "blocked", "decode"}]
      /\ batch' \in [Task -> SUBSET (1 .. last)]
      /\ batch[t] \in SUBSET (1 .. last)
  BY DEF TypeOK
<1>3. TypeOK'
  BY <1>2 DEF TypeOK
<1>4. Accounted \subseteq Accounted'
  BY <1>2 DEF Accounted, InHand, Entry
<1>5. TrimmedIsAccounted' /\ CheckpointIsAccounted'
  BY <1>4 DEF TrimmedIsAccounted, CheckpointIsAccounted, Claim, Entry
<1>6. BatchesReach'
  <2> SUFFICES ASSUME Claim, NEW u \in Task, NEW b \in batch'[u], NEW e \in Entry,
                      start < e, e <= b
               PROVE  e \in Accounted' \cup batch'[u]
    BY DEF BatchesReach, Claim, Entry
  <2>1. u # t /\ batch'[u] = batch[u]
    BY <1>2
  <2> QED BY <1>4, <2>1 DEF BatchesReach
<1>7. WaitersHaveAll'
  <2> SUFFICES ASSUME Claim, NEW u \in Task, pc'[u] = "blocked", NEW e \in Entry,
                      start < e, e <= last
               PROVE  e \in Accounted'
    BY DEF WaitersHaveAll, Claim, Entry
  <2>1. pc[u] = "blocked"
    BY <1>2
  <2> QED BY <1>4, <2>1 DEF WaitersHaveAll
<1> QED BY <1>3, <1>5, <1>6, <1>7

\* A new entry wakes the tasks that wait, unless it is trimmed at once.
LEMMA AddStep ==
    ASSUME IInv, Add
    PROVE  IInv'
<1> USE DEF IInv, object, history
<1>1. last \in Nat /\ low \in 0 .. last /\ MaxEntries \in Nat /\ last < MaxEntries
      /\ last' = last + 1 /\ exists' = exists
      /\ UNCHANGED <<checkpoint, count, save, binds, start, delivered, given, alone>>
  BY BoundAssumption DEF TypeOK, Add
<1>2. PICK l \in low .. last + 1 :
        /\ low'  = l
        /\ gone' = gone \cup Lost(l) \cup (IF l = last + 1 THEN {last + 1} ELSE {})
        /\ LET served == {t \in Task : pc[t] = "blocked" /\ l < last + 1} IN
             /\ pc'    = [t \in Task |-> IF t \in served THEN "decode" ELSE pc[t]]
             /\ batch' = [t \in Task |-> IF t \in served THEN {last + 1} ELSE batch[t]]
  BY DEF Add
<1> DEFINE Served(t) == /\ pc[t] = "blocked" /\ batch[t] = {} /\ l < last + 1
                        /\ pc'[t] = "decode" /\ batch'[t] = {last + 1}
           Passed(t) == /\ pc'[t] = pc[t] /\ batch'[t] = batch[t]
                        /\ pc[t] = "blocked" => l = last + 1
<1>3. /\ \A t \in Task : Served(t) \/ Passed(t)
      /\ pc' \in [Task -> {"idle", "blocked", "decode"}]
      /\ batch' \in [Task -> SUBSET (1 .. last')]
  <2>1. batch \in [Task -> SUBSET (1 .. last)] /\ pc \in [Task -> {"idle", "blocked", "decode"}]
    BY DEF TypeOK
  <2>2. 1 .. last \subseteq 1 .. last' /\ {last + 1} \in SUBSET (1 .. last')
    BY <1>1
  <2>3. \A t \in Task : pc[t] = "blocked" => batch[t] = {} /\ l <= last + 1
    BY <1>1, <1>2 DEF TypeOK
  <2>4. \A t \in Task : Served(t) \/ Passed(t)
    <3> SUFFICES ASSUME NEW t \in Task PROVE Served(t) \/ Passed(t)
      OBVIOUS
    <3>1. l \in Int /\ (l < last + 1 \/ l = last + 1)
      BY <1>1, <1>2
    <3>2. CASE pc[t] = "blocked" /\ l < last + 1
      BY <1>2, <2>3, <3>2
    <3>3. CASE ~(pc[t] = "blocked" /\ l < last + 1)
      BY <1>2, <3>1, <3>3
    <3> QED BY <3>2, <3>3
  <2>5. pc' \in [Task -> {"idle", "blocked", "decode"}]
    BY <1>2, <2>1
  <2>6. batch' \in [Task -> SUBSET (1 .. last')]
    BY <1>2, <2>1, <2>2
  <2> QED BY <2>4, <2>5, <2>6
<1>4. Lost(l) \in SUBSET (1 .. last')
  <2>1. TRUE
    OBVIOUS
  <2>2. \A e \in Lost(l) : e \in 1 .. last'
    BY <1>1, <1>2 DEF Lost, Entry
  <2> QED BY <2>2
<1>5. TypeOK'
  <2>1. last' \in 0 .. MaxEntries /\ low' \in 0 .. last'
    BY <1>1, <1>2
  <2>2. 1 .. last \subseteq 1 .. last' /\ 0 .. last \subseteq 0 .. last'
    BY <1>1
  <2>3. delivered' \in SUBSET (1 .. last')
    BY <1>1, <2>2 DEF TypeOK
  <2>4. gone' \in SUBSET (1 .. last')
    <3>1. gone \in SUBSET (1 .. last) /\ {last + 1} \in SUBSET (1 .. last')
      BY <1>1 DEF TypeOK
    <3> QED BY <1>2, <1>4, <2>2, <3>1
  <2>5. checkpoint' \in {Newest} \cup 0 .. last' /\ start' \in {Newest} \cup 0 .. last'
    BY <1>1, <2>2 DEF TypeOK
  <2>6. \A t \in Task : pc'[t] = "decode" <=> batch'[t] # {}
    BY <1>3 DEF TypeOK
  <2> QED BY <1>1, <1>3, <2>1, <2>3, <2>4, <2>5, <2>6 DEF TypeOK
<1>6. InHand \subseteq InHand' /\ gone \subseteq gone' /\ low <= low'
  BY <1>1, <1>2, <1>3 DEF InHand
<1>7. Accounted \subseteq Accounted'
  <2> SUFFICES ASSUME NEW e \in Accounted PROVE e \in Accounted'
    OBVIOUS
  <2>1. e <= low => e <= low'
    BY <1>1, <1>2 DEF Accounted, Entry
  <2> QED BY <1>1, <1>6, <2>1 DEF Accounted, Entry
<1>8. \A e \in Entry : e <= low' => e \in Accounted' \/ e <= low
  <2> SUFFICES ASSUME NEW e \in Entry, e <= low', ~(e <= low) PROVE e \in Accounted'
    OBVIOUS
  <2>1. e \in delivered \cup InHand \cup Lost(l)
    BY <1>1, <1>2 DEF Lost, Entry
  <2> QED BY <1>1, <1>2, <1>6, <2>1 DEF Accounted, Entry
<1>9. TrimmedIsAccounted'
  BY <1>1, <1>7, <1>8 DEF TrimmedIsAccounted, Entry
<1>10. CheckpointIsAccounted'
  BY <1>1, <1>7 DEF CheckpointIsAccounted, Claim, Entry
<1>11. \A t \in Task : Claim /\ pc[t] = "blocked" =>
          \A e \in Entry : start < e /\ e <= last' => e \in Accounted' \/ e = last + 1
  BY <1>1, <1>7 DEF WaitersHaveAll, Entry
<1>12. BatchesReach'
  <2> SUFFICES ASSUME Claim, NEW u \in Task, NEW b \in batch'[u], NEW e \in Entry,
                      start < e, e <= b
               PROVE  e \in Accounted' \cup batch'[u]
    BY <1>1 DEF BatchesReach, Claim, Entry
  <2>1. CASE batch'[u] = batch[u]
    BY <1>7, <2>1 DEF BatchesReach
  <2>2. CASE batch'[u] = {last + 1} /\ pc[u] = "blocked"
    BY <1>1, <1>11, <2>2
  <2> QED BY <1>3, <2>1, <2>2
<1>13. WaitersHaveAll'
  <2> SUFFICES ASSUME Claim, NEW u \in Task, pc'[u] = "blocked", NEW e \in Entry,
                      start < e, e <= last'
               PROVE  e \in Accounted'
    BY <1>1 DEF WaitersHaveAll, Claim, Entry
  <2>1. pc[u] = "blocked" /\ l = last + 1
    BY <1>3
  <2>2. last + 1 \in Accounted'
    BY <1>1, <1>2, <2>1 DEF Accounted, Entry
  <2> QED BY <1>11, <2>1, <2>2
<1> QED BY <1>5, <1>9, <1>10, <1>12, <1>13

\* The key goes away with its entries.
LEMMA RemoveStep ==
    ASSUME IInv, Remove
    PROVE  IInv'
<1> USE DEF IInv, Remove, object, history
<1>1. last \in Nat /\ low \in 0 .. last /\ MaxEntries \in Nat /\ last <= MaxEntries
  BY BoundAssumption DEF TypeOK
<1>2. TypeOK'
  <2>1. \A e \in Lost(last) : e \in 1 .. last
    BY <1>1 DEF Lost, Entry
  <2>2. gone' \in SUBSET (1 .. last)
    BY <2>1 DEF TypeOK
  <2>3. low' \in 0 .. last'
    BY <1>1
  <2>4. exists' \in BOOLEAN
    OBVIOUS
  <2> QED BY <2>2, <2>3, <2>4 DEF TypeOK
<1>3. InHand' = InHand
  BY DEF InHand
<1>4. Accounted \subseteq Accounted'
  BY <1>1, <1>3 DEF Accounted, Entry
<1>5. \A e \in Entry : e <= low' => e \in Accounted' \/ e <= low
  BY <1>1, <1>3 DEF Accounted, Entry, Lost
<1>6. TrimmedIsAccounted'
  BY <1>4, <1>5 DEF TrimmedIsAccounted, Entry
<1>7. CheckpointIsAccounted' /\ BatchesReach' /\ WaitersHaveAll'
  BY <1>4 DEF CheckpointIsAccounted, BatchesReach, WaitersHaveAll, Claim, Entry
<1> QED BY <1>2, <1>6, <1>7

\* The key is back, or nothing happens.
LEMMA QuietStep ==
    ASSUME IInv, Create \/ UNCHANGED vars
    PROVE  IInv'
<1>1. /\ exists' \in BOOLEAN
      /\ UNCHANGED <<last, low, object, pc, batch, start, delivered, history, gone>>
  BY DEF Create, vars, store, IInv, TypeOK
<1>2. TypeOK'
  BY <1>1 DEF IInv, TypeOK, object, history
<1>3. Accounted' = Accounted /\ Claim' = Claim
  BY <1>1 DEF Accounted, InHand, Entry, Claim, object
<1> QED BY <1>1, <1>2, <1>3 DEF IInv, TrimmedIsAccounted, CheckpointIsAccounted, BatchesReach,
           WaitersHaveAll, Entry, object

\* Every step preserves the invariant.
LEMMA NextIInv == IInv /\ [Next]_vars => IInv'
<1> SUFFICES ASSUME IInv, [Next]_vars PROVE IInv'
  OBVIOUS
<1>1. ASSUME NEW t \in Task, Read(t) PROVE IInv'
  BY <1>1, StartStep DEF Read, IInv, TypeOK
<1>2. ASSUME NEW t \in Task, ReadFrom(t) PROVE IInv'
  <2>1. alone' \in BOOLEAN /\ given \in 0 .. MaxGiven /\ given < MaxGiven /\ given' = given + 1
    BY <1>2 DEF ReadFrom, IInv, TypeOK
  <2>2. given' \in 0 .. MaxGiven
    BY <2>1, BoundAssumption
  <2> QED BY <1>2, <2>1, <2>2, StartStep DEF ReadFrom
<1>3. ASSUME NEW t \in Task, Deliver(t) \/ Cancel(t) PROVE IInv'
  BY <1>3, DeliverStep, CancelStep
<1>4. CASE Add \/ Remove
  BY <1>4, AddStep, RemoveStep
<1>5. CASE Create \/ UNCHANGED vars
  BY <1>5, QuietStep
<1>6. ASSUME NEW cp \in {checkpoint, Newest, 0, last}, NEW n \in {count} \cup Counts,
             NEW flag \in {"unset", "true", "false"}, Bind(cp, n, flag)
      PROVE  IInv'
  BY <1>6, BindStep
<1> QED BY <1>1, <1>2, <1>3, <1>4, <1>5, <1>6 DEF Next

-----------------------------------------------------------------------------
(* One reader at a time: exactly once and in order.                        *)

\* What is trimmed and was not returned by now cannot be returned any more.
Passed == \A e \in Entry : Position < e /\ e <= low => e \in gone \cup InHand

\* The same after the batch that t has in hand.
PassedBy(t) == \A e \in Entry : Stored(batch[t]) < e /\ e <= low => e \in gone

\* An object with one reader at a time stands where it has returned everything, and
\* a batch in hand continues from there.
InOrder ==
    alone => /\ \A t, u \in Task : pc[t] # "idle" /\ pc[u] # "idle" => t = u
             /\ save => /\ checkpoint = Position
                        /\ Position # Newest => Passed
                        /\ \A t \in Task : batch[t] # {} => Follows(t) /\ PassedBy(t)
                        /\ \A t \in Task : pc[t] = "blocked" /\ Position # Newest =>
                              \A e \in Entry : Position < e /\ e <= last => e \in gone

\* Where the object stands is not beyond the stream.
LEMMA PositionInRange == TypeOK => Position \in {Newest} \cup 0 .. last
<1> SUFFICES ASSUME TypeOK, delivered # {} PROVE Stored(delivered) \in 0 .. last
  BY DEF Position, TypeOK
<1>1. last \in Nat /\ delivered \in SUBSET (1 .. last)
  BY BoundAssumption DEF TypeOK
<1>2. Stored(delivered) \in delivered
  BY <1>1, StoredIsLast
<1>3. Stored(delivered) \in 1 .. last
  BY <1>1, <1>2
<1> QED BY <1>1, <1>3

\* A task that starts a read is the only one, and reads on from Position.
LEMMA ReadOrder ==
    ASSUME TypeOK, InOrder, NEW t \in Task, Read(t)
    PROVE  InOrder'
<1> SUFFICES ASSUME alone' PROVE InOrder'
  BY DEF InOrder
<1>1. alone /\ \A u \in Task : pc[u] = "idle" /\ batch[u] = {}
  BY DEF Read, TypeOK
<1>2. PICK n \in {count} \cup Counts : Starts(t, checkpoint, n)
  BY DEF Read
<1> DEFINE F == Found(checkpoint, n)
<1>3. n \in Counts /\ checkpoint \in {Newest} \cup 0 .. last
  BY DEF TypeOK
<1>4. /\ F \in SUBSET (1 .. last)
      /\ \A b \in F : low < b /\ checkpoint < b
      /\ \A b \in F, e \in Entry :
             low < e /\ checkpoint < e /\ e <= b /\ checkpoint # Newest => e \in F
      /\ F = {} /\ checkpoint # Newest =>
             \A e \in Entry : checkpoint < e /\ e <= last => e <= low
  BY <1>3, FoundIsNext
<1> HIDE DEF F
<1>5. /\ UNCHANGED <<low, last, checkpoint, save, start, delivered, gone>>
      /\ \/ F # {} /\ pc' = [pc EXCEPT ![t] = "decode"] /\ batch' = [batch EXCEPT ![t] = F]
         \/ F = {} /\ pc' = [pc EXCEPT ![t] = "blocked"] /\ batch' = batch
  BY <1>2 DEF Starts, ReadNow, ReadBlocks, store, object, F
<1>6. pc \in [Task -> {"idle", "blocked", "decode"}] /\ batch \in [Task -> SUBSET (1 .. last)]
  BY DEF TypeOK
<1>7. /\ \A u \in Task : u # t => pc'[u] = "idle" /\ batch'[u] = {}
      /\ batch'[t] = F
      /\ pc'[t] = "blocked" => F = {}
  <2>1. CASE F # {}
    BY <1>1, <1>5, <1>6, <2>1
  <2>2. CASE F = {}
    BY <1>1, <1>5, <1>6, <2>2
  <2> QED BY <2>1, <2>2
<1>8. \A u, v \in Task : pc'[u] # "idle" /\ pc'[v] # "idle" => u = v
  BY <1>7
<1>9. Position' = Position
  BY <1>5 DEF Position
<1> SUFFICES ASSUME save
             PROVE  /\ checkpoint' = Position'
                    /\ Position' # Newest => Passed'
                    /\ \A u \in Task : batch'[u] # {} => Follows(u)' /\ PassedBy(u)'
                    /\ \A u \in Task : pc'[u] = "blocked" /\ Position' # Newest =>
                           \A e \in Entry : Position' < e /\ e <= last' => e \in gone'
  BY <1>5, <1>8 DEF InOrder, Entry
<1>10. checkpoint = Position /\ (Position # Newest => Passed) /\ InHand = {}
  BY <1>1 DEF InOrder, InHand
<1>11. last \in Nat /\ low \in 0 .. last /\ MaxEntries \in Nat /\ Newest = -1
  BY BoundAssumption DEF TypeOK, Newest
<1>12. Position # Newest => \A e \in Entry : Position < e /\ e <= low => e \in gone
  BY <1>10 DEF Passed
<1>13. Position' # Newest => Passed'
  BY <1>5, <1>9, <1>12 DEF Passed, Entry
<1>14. ASSUME F # {} PROVE Follows(t)' /\ PassedBy(t)'
  <2>1. Stored(F) \in F /\ \A f \in F : f <= Stored(F)
    BY <1>4, <1>11, <1>14, StoredIsLast
  <2>2. \A b \in F : b > Position
    BY <1>3, <1>4, <1>10, <1>11
  <2>3. ASSUME Position # Newest, NEW e \in Entry, Position < e, e <= Stored(F)
        PROVE  e \in F \cup gone
    <3>1. CASE e <= low
      BY <1>12, <2>3, <3>1
    <3>2. CASE low < e
      BY <1>4, <1>10, <2>1, <2>3, <3>2
    <3> QED BY <1>11, <3>1, <3>2 DEF Entry
  <2>4. Follows(t)'
    BY <1>5, <1>7, <1>9, <2>2, <2>3 DEF Follows, Entry
  <2>5. \A e \in Entry : ~(Stored(F) < e /\ e <= low)
    <3>1. low < Stored(F)
      BY <1>4, <2>1, Zenon
    <3>2. F \in SUBSET (1 .. last)
      BY <1>4
    <3>3. Stored(F) \in 1 .. last
      BY <2>1, <3>2
    <3> QED BY <1>11, <3>1, <3>3 DEF Entry
  <2> QED BY <1>5, <1>7, <2>4, <2>5 DEF PassedBy, Entry
<1>15. ASSUME F = {}, Position # Newest, NEW e \in Entry, Position < e, e <= last
       PROVE  e \in gone
  BY <1>4, <1>10, <1>12, <1>15
<1> QED BY <1>5, <1>7, <1>9, <1>10, <1>13, <1>14, <1>15

\* The batch is returned: Position moves to its end.
LEMMA DeliverOrder ==
    ASSUME TypeOK, InOrder, NEW t \in Task, Deliver(t)
    PROVE  InOrder'
<1> SUFFICES ASSUME alone' PROVE InOrder'
  BY DEF InOrder
<1> USE DEF Deliver, store, history
<1>1. alone /\ pc[t] = "decode" /\ batch[t] # {}
  BY DEF TypeOK
<1>2. \A u \in Task : u # t => pc[u] = "idle" /\ batch[u] = {}
  BY <1>1 DEF InOrder, TypeOK
<1>3. \A u \in Task : pc'[u] = "idle" /\ batch'[u] = {}
  BY <1>1, <1>2 DEF TypeOK
<1> SUFFICES ASSUME save
             PROVE  checkpoint' = Position' /\ (Position' # Newest => Passed')
  BY <1>3 DEF InOrder
<1>4. last \in Nat /\ batch[t] \in SUBSET (1 .. last) /\ delivered \in SUBSET (1 .. last)
  BY BoundAssumption DEF TypeOK
<1>5. Stored(batch[t]) \in batch[t] /\ \A f \in batch[t] : f <= Stored(batch[t])
  BY <1>1, <1>4, StoredIsLast
<1>6. Follows(t) /\ PassedBy(t)
  BY <1>1 DEF InOrder
<1>7. Stored(delivered') = Stored(batch[t])
  <2>1. \A f \in delivered : f < Stored(batch[t])
    <3>1. CASE delivered # {}
      <4>1. \A f \in delivered : f <= Stored(delivered)
        BY <1>4, <3>1, StoredIsLast
      <4>2. Stored(batch[t]) > Stored(delivered)
        BY <1>5, <1>6, <3>1 DEF Follows, Position
      <4>3. Stored(delivered) \in 1 .. last /\ Stored(batch[t]) \in 1 .. last
        BY <1>4, <1>5, <3>1, StoredIsLast
      <4> QED BY <1>4, <4>1, <4>2, <4>3
    <3> QED BY <3>1
  <2>2. delivered' \in SUBSET (1 .. last) /\ delivered' # {}
    BY <1>1, <1>4
  <2>3. Stored(delivered') \in delivered' /\ \A f \in delivered' : f <= Stored(delivered')
    BY <1>4, <2>2, StoredIsLast
  <2>4. Stored(batch[t]) \in Int /\ Stored(delivered') \in Int
    BY <1>4, <1>5, <2>2, <2>3
  <2>5. Stored(batch[t]) <= Stored(delivered')
    <3>1. Stored(batch[t]) \in delivered'
      BY <1>5
    <3> QED BY <2>3, <3>1
  <2>6. Stored(delivered') <= Stored(batch[t])
    <3>1. Stored(delivered') \in delivered \/ Stored(delivered') \in batch[t]
      BY <2>3
    <3> QED BY <1>5, <2>1, <2>4, <3>1
  <2> QED BY <2>4, <2>5, <2>6
<1>8. Position' = Stored(batch[t])
  BY <1>1, <1>7 DEF Position
<1> QED BY <1>6, <1>8 DEF Passed, PassedBy, Entry

\* A cancelled read changes nothing but what is recorded as gone.
LEMMA CancelOrder ==
    ASSUME TypeOK, InOrder, NEW t \in Task, Cancel(t)
    PROVE  InOrder'
<1> SUFFICES ASSUME alone' PROVE InOrder'
  BY DEF InOrder
<1> USE DEF Cancel, store, object, history
<1>1. alone /\ \A u \in Task : u # t => pc[u] = "idle" /\ batch[u] = {}
  BY DEF InOrder, TypeOK
<1>2. \A u \in Task : pc'[u] = "idle" /\ batch'[u] = {}
  BY <1>1 DEF TypeOK
<1>3. Position' = Position
  BY DEF Position
<1>4. \A e \in InHand : e <= low => e \in gone'
  BY <1>1 DEF InHand
<1>5. save /\ Position # Newest => Passed'
  BY <1>1, <1>3, <1>4 DEF InOrder, Passed, Entry
<1> QED BY <1>1, <1>2, <1>3, <1>5 DEF InOrder

\* A new entry comes after everything; what it trims was returned or is recorded.
LEMMA AddOrder ==
    ASSUME TypeOK, InOrder, Add
    PROVE  InOrder'
<1> SUFFICES ASSUME alone' PROVE InOrder'
  BY DEF InOrder
<1> USE DEF object, history
<1>1. /\ last \in Nat /\ low \in 0 .. last /\ MaxEntries \in Nat /\ last < MaxEntries
      /\ last' = last + 1
      /\ UNCHANGED <<checkpoint, count, save, binds, start, delivered, given, alone>>
  BY BoundAssumption DEF TypeOK, Add
<1>2. PICK l \in low .. last + 1 :
        /\ low'  = l
        /\ gone' = gone \cup Lost(l) \cup (IF l = last + 1 THEN {last + 1} ELSE {})
        /\ LET served == {t \in Task : pc[t] = "blocked" /\ l < last + 1} IN
             /\ pc'    = [t \in Task |-> IF t \in served THEN "decode" ELSE pc[t]]
             /\ batch' = [t \in Task |-> IF t \in served THEN {last + 1} ELSE batch[t]]
  BY DEF Add
<1>3. l \in Int /\ (l < last + 1 \/ l = last + 1)
  BY <1>1, <1>2
<1>4. \A t \in Task : pc[t] = "blocked" => batch[t] = {}
  BY DEF TypeOK
<1>5. ASSUME NEW t \in Task, pc[t] = "blocked", l < last + 1
      PROVE  pc'[t] = "decode" /\ batch'[t] = {last + 1}
  BY <1>2, <1>5
<1>6. ASSUME NEW t \in Task, ~(pc[t] = "blocked" /\ l < last + 1)
      PROVE  pc'[t] = pc[t] /\ batch'[t] = batch[t]
  BY <1>2, <1>6
<1>7. \A t, u \in Task : pc'[t] # "idle" /\ pc'[u] # "idle" => t = u
  BY <1>1, <1>5, <1>6 DEF InOrder
<1>8. Position' = Position /\ Position \in {Newest} \cup 0 .. last
  BY <1>1, PositionInRange DEF Position
<1> SUFFICES ASSUME save
             PROVE  /\ checkpoint' = Position'
                    /\ Position' # Newest => Passed'
                    /\ \A u \in Task : batch'[u] # {} => Follows(u)' /\ PassedBy(u)'
                    /\ \A u \in Task : pc'[u] = "blocked" /\ Position' # Newest =>
                           \A e \in Entry : Position' < e /\ e <= last' => e \in gone'
  BY <1>1, <1>7 DEF InOrder, Entry
<1>9. InHand \subseteq InHand' /\ gone \subseteq gone'
  <2>1. \A t \in Task : batch[t] \subseteq batch'[t]
    BY <1>4, <1>5, <1>6
  <2> QED BY <1>2, <2>1 DEF InHand
<1>10. \A e \in Entry : e <= low' /\ ~(e <= low) =>
          e \in gone' \/ e \in delivered \/ e \in InHand
  BY <1>1, <1>2 DEF Lost, Entry
<1>11. \A e \in delivered : Position # Newest /\ e <= Position
  <2> SUFFICES ASSUME delivered # {} PROVE \A e \in delivered : Position # Newest /\ e <= Position
    OBVIOUS
  <2>1. delivered \in SUBSET (1 .. last)
    BY DEF TypeOK
  <2>2. Stored(delivered) \in delivered /\ \A e \in delivered : e <= Stored(delivered)
    BY <1>1, <2>1, StoredIsLast
  <2> QED BY <2>1, <2>2 DEF Position, Newest
<1>12. Position' # Newest => Passed'
  <2> SUFFICES ASSUME Position # Newest, NEW e \in Entry, Position < e, e <= low'
               PROVE  e \in gone' \cup InHand'
    BY <1>8 DEF Passed, Entry
  <2>1. CASE e <= low
    BY <1>1, <1>9, <2>1 DEF InOrder, Passed
  <2>2. CASE ~(e <= low)
    <3>1. e \notin delivered
      BY <1>1, <1>8, <1>11 DEF Entry
    <3> QED BY <1>9, <1>10, <2>2, <3>1
  <2> QED BY <2>1, <2>2
<1>13. ASSUME NEW u \in Task, batch'[u] = batch[u], batch[u] # {}
       PROVE  Follows(u)' /\ PassedBy(u)'
  <2>1. Follows(u) /\ PassedBy(u)
    BY <1>1, <1>13 DEF InOrder
  <2>2. Follows(u)'
    BY <1>8, <1>9, <1>13, <2>1 DEF Follows, Entry
  <2>3. batch[u] \in SUBSET (1 .. last)
    BY DEF TypeOK
  <2>4. Stored(batch[u]) \in batch[u] /\ \A f \in batch[u] : f <= Stored(batch[u])
    BY <1>1, <1>13, <2>3, StoredIsLast
  <2>5. InHand = batch[u]
    <3>1. pc[u] # "idle"
      BY <1>13 DEF TypeOK
    <3>2. \A v \in Task : v # u => batch[v] = {}
      BY <1>1, <3>1 DEF InOrder, TypeOK
    <3> QED BY <3>2 DEF InHand
  <2>6. ASSUME NEW e \in Entry, Stored(batch[u]) < e, e <= low' PROVE e \in gone'
    <3>1. e \notin InHand /\ e \notin delivered
      <4>1. Position < Stored(batch[u])
        BY <2>1, <2>4 DEF Follows
      <4>2. Position \in Int /\ Stored(batch[u]) \in Int /\ e \in Int
        BY <1>8, <2>3, <2>4 DEF Newest, Entry
      <4>3. Position < e
        BY <2>6, <4>1, <4>2
      <4>4. \A f \in delivered : f \in Int
        BY DEF TypeOK
      <4> QED BY <1>11, <2>4, <2>5, <2>6, <4>2, <4>3, <4>4
    <3>2. e <= low => e \in gone
      BY <2>1, <2>6 DEF PassedBy
    <3> QED BY <1>9, <1>10, <2>6, <3>1, <3>2
  <2> QED BY <1>13, <2>2, <2>6 DEF PassedBy, Entry
<1>14. ASSUME NEW u \in Task, pc[u] = "blocked", l < last + 1
       PROVE  Follows(u)' /\ PassedBy(u)'
  <2>1. batch'[u] = {last + 1}
    BY <1>5, <1>14
  <2>2. Stored(batch'[u]) = last + 1
    BY <1>1, <2>1 DEF Stored
  <2>3. Position < last + 1
    BY <1>1, <1>8 DEF Newest
  <2>4. \A e \in Entry : Position # Newest /\ Position < e /\ e <= last + 1 =>
           e \in gone \/ e = last + 1
    BY <1>1, <1>14 DEF InOrder, Entry
  <2>5. Follows(u)'
    BY <1>8, <1>9, <2>1, <2>2, <2>3, <2>4 DEF Follows, Entry
  <2>6. \A e \in Entry : ~(last + 1 < e /\ e <= low')
    BY <1>1, <1>2, <1>14 DEF Entry
  <2> QED BY <2>2, <2>5, <2>6 DEF PassedBy, Entry
<1>15. \A u \in Task : batch'[u] # {} => Follows(u)' /\ PassedBy(u)'
  BY <1>6, <1>13, <1>14
<1>16. ASSUME NEW u \in Task, pc'[u] = "blocked", Position # Newest,
              NEW e \in Entry, Position < e, e <= last + 1
       PROVE  e \in gone'
  <2>1. pc[u] = "blocked" /\ l = last + 1
    BY <1>3, <1>5, <1>6, <1>16
  <2>2. e <= last => e \in gone
    BY <1>1, <1>16, <2>1 DEF InOrder
  <2>3. last + 1 \in gone'
    BY <1>2, <2>1
  <2> QED BY <1>1, <1>9, <1>16, <2>2, <2>3 DEF Entry
<1> QED BY <1>1, <1>8, <1>12, <1>15, <1>16 DEF InOrder, Entry

\* The key goes away: what nobody has is recorded.
LEMMA RemoveOrder ==
    ASSUME TypeOK, InOrder, Remove
    PROVE  InOrder'
<1> SUFFICES ASSUME alone' PROVE InOrder'
  BY DEF InOrder
<1> USE DEF Remove, object, history
<1>1. alone /\ last \in Nat /\ low \in 0 .. last /\ MaxEntries \in Nat /\ last <= MaxEntries
  BY BoundAssumption DEF TypeOK
<1>2. Position' = Position /\ InHand' = InHand /\ gone \subseteq gone'
  BY DEF Position, InHand
<1>3. Position \in {Newest} \cup 0 .. last
  BY PositionInRange
<1>4. \A e \in Entry : e <= low' /\ ~(e <= low) =>
         e \in gone' \/ e \in delivered \/ e \in InHand
  BY <1>1 DEF Lost, Entry
<1>5. \A e \in delivered : e <= Position /\ e \in Int
  <2> SUFFICES ASSUME delivered # {} PROVE \A e \in delivered : e <= Position /\ e \in Int
    OBVIOUS
  <2>1. delivered \in SUBSET (1 .. last)
    BY DEF TypeOK
  <2>2. \A e \in delivered : e <= Stored(delivered)
    BY <1>1, <2>1, StoredIsLast
  <2> QED BY <2>1, <2>2 DEF Position
<1> SUFFICES ASSUME save
             PROVE  /\ Position' # Newest => Passed'
                    /\ \A u \in Task : batch[u] # {} => Follows(u)' /\ PassedBy(u)'
  BY <1>1, <1>2 DEF InOrder, Entry
<1>6. Position' # Newest => Passed'
  <2> SUFFICES ASSUME Position # Newest, NEW e \in Entry, Position < e, e <= low'
               PROVE  e \in gone' \cup InHand
    BY <1>2 DEF Passed, Entry
  <2>1. e \notin delivered
    BY <1>3, <1>5 DEF Newest, Entry
  <2>2. CASE e <= low
    BY <1>1, <1>2, <2>2 DEF InOrder, Passed
  <2>3. CASE ~(e <= low)
    BY <1>4, <2>1, <2>3
  <2> QED BY <2>2, <2>3
<1>7. ASSUME NEW u \in Task, batch[u] # {} PROVE Follows(u)' /\ PassedBy(u)'
  <2>1. Follows(u) /\ PassedBy(u)
    BY <1>1, <1>7 DEF InOrder
  <2>2. Follows(u)'
    BY <1>2, <2>1 DEF Follows, Entry
  <2>3. batch[u] \in SUBSET (1 .. last)
    BY DEF TypeOK
  <2>4. Stored(batch[u]) \in batch[u] /\ \A f \in batch[u] : f <= Stored(batch[u])
    BY <1>1, <1>7, <2>3, StoredIsLast
  <2>5. InHand = batch[u]
    <3>1. pc[u] # "idle"
      BY <1>7 DEF TypeOK
    <3>2. \A v \in Task : v # u => batch[v] = {}
      BY <1>1, <3>1 DEF InOrder, TypeOK
    <3> QED BY <3>2 DEF InHand
  <2>6. ASSUME NEW e \in Entry, Stored(batch[u]) < e, e <= low' PROVE e \in gone'
    <3>1. Position < Stored(batch[u])
      BY <2>1, <2>4 DEF Follows
    <3>2. Position \in Int /\ Stored(batch[u]) \in Int /\ e \in Int
      BY <1>3, <2>3, <2>4 DEF Newest, Entry
    <3>3. Position < e
      BY <2>6, <3>1, <3>2
    <3>4. e \notin delivered
      BY <1>5, <3>2, <3>3
    <3>5. e \notin InHand
      BY <2>4, <2>5, <2>6, <3>2
    <3>6. e <= low => e \in gone
      BY <2>1, <2>6 DEF PassedBy
    <3> QED BY <1>2, <1>4, <2>6, <3>4, <3>5, <3>6
  <2> QED BY <2>2, <2>6 DEF PassedBy, Entry
<1> QED BY <1>6, <1>7

\* A new object stands where it was bound, and records what is trimmed after that.
LEMMA BindOrder ==
    ASSUME TypeOK, NEW cp \in {checkpoint, Newest, 0, last}, NEW n \in {count} \cup Counts,
           NEW flag \in {"unset", "true", "false"}, Bind(cp, n, flag)
    PROVE  InOrder'
<1> USE DEF Bind, store
<1>1. \A t \in Task : pc'[t] = "idle" /\ batch'[t] = {}
  BY DEF TypeOK
<1>2. Position' = cp /\ checkpoint' = cp
  BY DEF Position
<1>3. Position' # Newest => Passed'
  BY <1>2 DEF Passed, Entry
<1> QED BY <1>1, <1>2, <1>3 DEF InOrder

\* Order is kept by every step.
LEMMA NextInOrder == TypeOK /\ InOrder /\ [Next]_vars => InOrder'
<1> SUFFICES ASSUME TypeOK, InOrder, [Next]_vars PROVE InOrder'
  OBVIOUS
<1>1. ASSUME NEW t \in Task, Read(t) \/ Deliver(t) \/ Cancel(t) PROVE InOrder'
  BY <1>1, ReadOrder, DeliverOrder, CancelOrder
<1>2. ASSUME NEW t \in Task, ReadFrom(t) PROVE InOrder'
  BY <1>2 DEF ReadFrom, InOrder
<1>3. CASE Add \/ Remove
  BY <1>3, AddOrder, RemoveOrder
<1>4. CASE Create \/ UNCHANGED vars
  <2>1. UNCHANGED <<last, low, object, pc, batch, start, delivered, history, gone>>
    BY <1>4 DEF Create, vars, store
  <2>2. Position' = Position /\ InHand' = InHand /\ Passed' = Passed
    BY <2>1 DEF Position, InHand, Passed, Entry
  <2>3. \A t \in Task : Follows(t)' = Follows(t) /\ PassedBy(t)' = PassedBy(t)
    BY <2>1, <2>2 DEF Follows, PassedBy, Entry
  <2> QED BY <2>1, <2>2, <2>3 DEF InOrder, object, history, Entry
<1>5. ASSUME NEW cp \in {checkpoint, Newest, 0, last}, NEW n \in {count} \cup Counts,
             NEW flag \in {"unset", "true", "false"}, Bind(cp, n, flag)
      PROVE  InOrder'
  BY <1>5, BindOrder
<1> QED BY <1>1, <1>2, <1>3, <1>4, <1>5 DEF Next

-----------------------------------------------------------------------------
(* Ground that is not lost.                                                *)

\* What a read from the checkpoint of the object returns lies beyond it.
LEMMA StartsKeepGround ==
    ASSUME TypeOK, NEW t \in Task, NEW n \in Counts, Starts(t, checkpoint, n),
           NEW k \in Entry, Reached(k)
    PROVE  Reached(k)'
<1>1. checkpoint \in {Newest} \cup 0 .. last /\ last \in Nat
  BY BoundAssumption DEF TypeOK
<1>2. /\ Found(checkpoint, n) \in SUBSET (1 .. last)
      /\ \A b \in Found(checkpoint, n) : checkpoint < b
  BY <1>1, FoundIsNext
<1>3. checkpoint' = checkpoint /\ checkpoint >= k /\ k \in Int
  BY DEF Starts, ReadNow, ReadBlocks, object, Reached, Entry
<1>4. /\ \A u \in Task : u # t => batch'[u] = batch[u]
      /\ batch'[t] = batch[t] \/ batch'[t] = Found(checkpoint, n)
  BY DEF Starts, ReadNow, ReadBlocks, TypeOK
<1>5. \A b \in Found(checkpoint, n) : b >= k
  BY <1>1, <1>2, <1>3 DEF Newest
<1> QED BY <1>3, <1>4, <1>5 DEF Reached

\* A batch that is stored has reached what every batch had reached.
LEMMA DeliverKeepsGround ==
    ASSUME TypeOK, NEW t \in Task, Deliver(t), NEW k \in Entry, Reached(k)
    PROVE  Reached(k)'
<1>1. batch[t] # {} /\ batch[t] \in SUBSET (1 .. last) /\ last \in Nat
  BY BoundAssumption DEF Deliver, TypeOK
<1>2. Stored(batch[t]) \in batch[t] /\ \A f \in batch[t] : f <= Stored(batch[t])
  BY <1>1, StoredIsLast
<1>3. PICK b \in batch[t] : b >= k
  BY <1>1 DEF Reached
<1>4. Stored(batch[t]) >= k
  BY <1>1, <1>2, <1>3 DEF Entry
<1>5. checkpoint' >= k
  BY <1>4 DEF Deliver, Reached
<1>6. \A u \in Task : batch'[u] = {} \/ batch'[u] = batch[u]
  BY DEF Deliver, TypeOK
<1> QED BY <1>5, <1>6 DEF Reached

\* A task that was blocked gets an entry that nobody has reached.
LEMMA AddKeepsGround ==
    ASSUME TypeOK, Add, NEW k \in Entry, Reached(k)
    PROVE  Reached(k)'
<1>1. checkpoint \in {Newest} \cup 0 .. last /\ last \in Nat /\ k \in Int /\ checkpoint >= k
  BY BoundAssumption DEF TypeOK, Reached, Entry
<1>2. \A u \in Task : batch'[u] = batch[u] \/ batch'[u] = {last + 1}
  BY DEF Add, TypeOK
<1>3. last + 1 >= k
  BY <1>1 DEF Newest
<1>4. checkpoint' = checkpoint
  BY DEF Add, object
<1> QED BY <1>1, <1>2, <1>3, <1>4 DEF Reached

\* Only bind, or a checkpoint that is given, loses ground.
LEMMA StepKeepsGround ==
    ASSUME TypeOK, [Next]_vars, NEW k \in Entry, Reached(k), UNCHANGED <<binds, given>>
    PROVE  Reached(k)'
<1>1. CASE UNCHANGED vars
  BY <1>1 DEF vars, object, Reached
<1>2. ASSUME NEW t \in Task, Read(t) PROVE Reached(k)'
  <2>1. PICK n \in {count} \cup Counts : Starts(t, checkpoint, n)
    BY <1>2 DEF Read
  <2>2. n \in Counts
    BY <2>1 DEF TypeOK
  <2> QED BY <2>1, <2>2, StartsKeepGround
<1>3. ASSUME NEW t \in Task, ReadFrom(t) PROVE FALSE
  <2>1. given' = given + 1 /\ given \in Int
    BY <1>3 DEF ReadFrom, TypeOK
  <2> QED BY <2>1
<1>4. ASSUME NEW t \in Task, Cancel(t) PROVE Reached(k)'
  <2>1. checkpoint' = checkpoint /\ \A u \in Task : batch'[u] = {} \/ batch'[u] = batch[u]
    BY <1>4 DEF Cancel, TypeOK, object
  <2> QED BY <2>1 DEF Reached
<1>5. CASE Remove \/ Create
  BY <1>5 DEF Remove, Create, object, Reached
<1>6. ASSUME NEW cp, NEW n, NEW flag, Bind(cp, n, flag) PROVE FALSE
  <2>1. binds' = binds + 1 /\ binds \in Int
    BY <1>6 DEF Bind, TypeOK
  <2> QED BY <2>1
<1> QED BY <1>1, <1>2, <1>3, <1>4, <1>5, <1>6, DeliverKeepsGround, AddKeepsGround DEF Next

-----------------------------------------------------------------------------
(* The theorems.                                                           *)

\* The strengthening is an invariant of the program (ReadStream.bind and read with
\* XADD, trimming and deletion of the key around them).
THEOREM Invariance == Spec => []IInv
<1>1. Init => IInv
  BY InitIInv
<1>2. IInv /\ [Next]_vars => IInv'
  BY NextIInv
<1>3. QED BY <1>1, <1>2, PTL DEF Spec

\* No checkpoint and no batch of a ReadStream is ever ahead of the stream.
THEOREM TypeCorrect == Spec => []TypeOK
<1>1. IInv => TypeOK
  BY DEF IInv
<1>2. QED BY <1>1, Invariance, PTL

\* However many tasks share a saving ReadStream, its checkpoint has passed only
\* what was returned, is being decoded, or was trimmed before anybody had it.
THEOREM CheckpointSkipsNothing == Spec => []NothingSkipped
<1>1. IInv => NothingSkipped
  BY DEF IInv, CheckpointIsAccounted, Claim, NothingSkipped, Accounted
<1>2. QED BY <1>1, Invariance, PTL

\* Nobody sleeps through an entry: a task blocked in read(block=0) of a saving
\* ReadStream has nothing to fetch, whatever the others did since it was suspended.
THEOREM NoLostWakeup == Spec => []WaitersHaveAll
<1>1. IInv => WaitersHaveAll
  BY DEF IInv
<1>2. QED BY <1>1, Invariance, PTL

\* Racing reads of one ReadStream, which store their checkpoints in any order, never
\* lose ground that they all have reached (read, with save_checkpoint or without).
THEOREM GroundIsKept == Spec => KeepsGround
<1> DEFINE A == \A k \in Entry : Reached(k) /\ UNCHANGED <<binds, given>> => Reached(k)'
<1>1. TypeOK /\ [Next]_vars => [A]_vars
  BY StepKeepsGround
<1> HIDE DEF A
<1>2. Spec => [][A]_vars
  BY <1>1, TypeCorrect, PTL DEF Spec
<1> QED BY <1>2 DEF KeepsGround, A

\* A saving ReadStream that one task at a time reads, from its checkpoint, returns
\* every entry exactly once and in order, up to what is trimmed first (read and
\* __anext__ with save_checkpoint).
THEOREM ExactlyOnceInOrder == Spec => SavedReadsFollow
<1> DEFINE A == \A t \in Task : Deliver(t) /\ save /\ alone => Follows(t)
<1>1. Init => InOrder
  BY DEF Init, InOrder
<1>2. TypeOK /\ InOrder /\ [Next]_vars => InOrder'
  BY NextInOrder
<1>3. TypeOK /\ InOrder => A
  BY DEF Deliver, TypeOK, InOrder
<1>4. TypeOK /\ InOrder => [A]_vars
  BY <1>3
<1> HIDE DEF A
<1>5. Spec => [][A]_vars
  BY <1>1, <1>2, <1>4, TypeCorrect, PTL DEF Spec
<1> QED BY <1>5 DEF SavedReadsFollow, A

=============================================================================
