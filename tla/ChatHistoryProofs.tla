------------------------- MODULE ChatHistoryProofs -------------------------
(***************************************************************************)
(* Proofs about ChatHistory, for any number of tasks, any limit and any    *)
(* number of entries.                                                      *)
(***************************************************************************)
EXTENDS ChatHistory, FiniteSetTheorems, WellFoundedInduction, TLAPS

\* What a pending DELETE removes is old, and stays old: newer entries are only
\* added to what was ever committed.
VictimsAreOld ==
    \A c \in Client : \A e \in victims[c] : Cardinality(Newer(ever, e)) >= Limit

\* A new row and the deletion of the session exclude each other.
InsertHoldsSession ==
    \A c, d \in Client : pc[c] = "insert" => there /\ pc[d] # "remove"

\* What a DELETE leaves is within the limit, until another entry is committed.
LeftIsFew ==
    \A c \in Client \ overtaken :
        /\ pc[c] = "deleting" => Cardinality(entries \ victims[c]) <= Limit
        /\ pc[c] = "again"    => Cardinality(entries) <= Limit

\* An excess is seen by a task that gets all entries, not just some.
ExcessIsSeen ==
    ~DeleteFails /\ ~debt /\ Cardinality(entries \ Doomed) > Limit
        => \E c \in Client : pc[c] = "delete" \/ (pc[c] = "get" /\ asked[c] = All)

IInv == /\ TypeOK /\ NewestAreKept /\ VictimsAreOld
        /\ GoneWithSession /\ InsertHoldsSession
        /\ LeftIsFew /\ ExcessIsSeen

-----------------------------------------------------------------------------
\* More entries are newer in a larger set.
LEMMA NewerGrows ==
    ASSUME NEW n \in Nat, NEW T \in SUBSET (1 .. n), NEW S \in SUBSET T, NEW e
    PROVE  /\ Cardinality(Newer(S, e)) \in Nat
           /\ Cardinality(Newer(T, e)) \in Nat
           /\ Cardinality(Newer(S, e)) <= Cardinality(Newer(T, e))
<1>1. IsFiniteSet(1 .. n)
  BY FS_Interval
<1>2. IsFiniteSet(Newer(T, e))
  <2>1. Newer(T, e) \in SUBSET (1 .. n)
    BY DEF Newer
  <2> QED BY <1>1, <2>1, FS_Subset
<1>3. Newer(S, e) \in SUBSET Newer(T, e)
  BY DEF Newer
<1>4. IsFiniteSet(Newer(S, e)) /\ Cardinality(Newer(S, e)) <= Cardinality(Newer(T, e))
  BY <1>2, <1>3, FS_Subset
<1> QED BY <1>2, <1>4, FS_CardinalityType

\* A finite set of integers has a least element: the sets of elements below an
\* element are ordered by inclusion, which is well-founded.
LEMMA LeastElement ==
    ASSUME NEW T \in SUBSET Int, IsFiniteSet(T), T # {}
    PROVE  \E m \in T : \A f \in T : m <= f
<1> DEFINE Below(e) == {f \in T : f < e}
           Family   == {Below(e) : e \in T}
           Order    == StrictSubsetOrdering(T)
<1>1. Family \subseteq FiniteSubsetsOf(T) /\ Family # {}
  <2>1. \A e \in T : Below(e) \in SUBSET T /\ IsFiniteSet(Below(e))
    BY FS_Subset
  <2> QED BY <2>1 DEF FiniteSubsetsOf
<1>2. \E B \in Family : \A C \in Family : <<C, B>> \notin Order
  <2>1. IsWellFoundedOn(Order, FiniteSubsetsOf(T))
    BY FS_StrictSubsetOrderingWellFounded
  <2> HIDE DEF Order, Family
  <2> QED BY <1>1, <2>1, WFMin
<1>3. PICK m \in T : \A e \in T : <<Below(e), Below(m)>> \notin Order
  BY <1>2
<1>4. ASSUME NEW f \in T, f < m PROVE FALSE
  <2>1. Below(f) \subseteq Below(m) /\ Below(f) # Below(m)
    <3>1. f \in Below(m) /\ f \notin Below(f)
      BY <1>4
    <3>2. \A e \in Below(f) : e \in Below(m)
      BY <1>4
    <3> QED BY <3>1, <3>2
  <2>2. Below(f) \in SUBSET T /\ Below(m) \in SUBSET T
    OBVIOUS
  <2> HIDE DEF Below
  <2>3. <<Below(f), Below(m)>> \in Order
    BY <2>1, <2>2 DEF StrictSubsetOrdering
  <2> QED BY <1>3, <2>3
<1> QED BY <1>4

\* At most Limit entries have fewer than Limit newer ones.
LEMMA FewAreNew ==
    ASSUME NEW n \in Nat, NEW S \in SUBSET (1 .. n),
           NEW T, T = {e \in S : ~(Cardinality(Newer(S, e)) >= Limit)}
    PROVE  IsFiniteSet(T) /\ Cardinality(T) \in Nat /\ Cardinality(T) <= Limit
<1>0. S \in SUBSET (1 .. n) /\ T \in SUBSET S /\ 1 .. n \subseteq Int
  OBVIOUS
<1>1. IsFiniteSet(S)
  <2>1. IsFiniteSet(1 .. n)
    BY FS_Interval
  <2> QED BY <1>0, <2>1, FS_Subset
<1>2. IsFiniteSet(T) /\ Cardinality(T) \in Nat
  <2>1. T \in SUBSET S
    OBVIOUS
  <2> QED BY <1>1, <2>1, FS_Subset, FS_CardinalityType
<1>3. SUFFICES ASSUME Cardinality(T) > Limit PROVE FALSE
  BY <1>2, LimitAssumption
<1>4. T # {}
  BY <1>2, <1>3, LimitAssumption, FS_EmptySet
<1>5. T \in SUBSET Int
  BY <1>0, Zenon
<1>6. PICK m \in T : \A f \in T : m <= f
  BY <1>2, <1>4, <1>5, LeastElement
<1>7. T \ {m} \in SUBSET Newer(S, m)
  BY <1>5, <1>6 DEF Newer
<1>8. IsFiniteSet(Newer(S, m)) /\ Cardinality(Newer(S, m)) \in Nat
  <2>1. Newer(S, m) \in SUBSET S
    BY DEF Newer
  <2> QED BY <1>1, <2>1, FS_Subset, FS_CardinalityType
<1>9. Cardinality(T \ {m}) = Cardinality(T) - 1
  BY <1>2, <1>6, FS_RemoveElement
<1>10. Cardinality(T \ {m}) <= Cardinality(Newer(S, m))
  BY <1>7, <1>8, FS_Subset
<1>11. Cardinality(Newer(S, m)) >= Limit
  BY <1>2, <1>3, <1>8, <1>9, <1>10, LimitAssumption
<1> QED BY <1>6, <1>11

\* The history is empty in the beginning.
LEMMA InitIInv == Init => IInv
<1> SUFFICES ASSUME Init PROVE IInv
  OBVIOUS
<1> USE DEF Init
<1>1. TypeOK
  <2>1. /\ kind \in Kinds /\ clock \in 0 .. MaxEntries
        /\ ever \in SUBSET (1 .. clock) /\ entries \in SUBSET ever
        /\ asked \in [Client -> Asked \cup {All}]
        /\ victims \in [Client -> SUBSET ever]
    BY BoundAssumption
  <2>2. /\ pc \in [Client -> Labels]
        /\ stamp \in [Client -> 0 .. clock]
        /\ \A c \in Client : pc[c] = "insert" <=> stamp[c] # 0
        /\ \A c \in Client : victims[c] # {} => pc[c] = "deleting"
    BY DEF Labels
  <2>3. there \in BOOLEAN /\ debt \in BOOLEAN /\ overtaken = {}
    OBVIOUS
  <2> QED BY <2>1, <2>2, <2>3 DEF TypeOK
<1>2. NewestAreKept /\ VictimsAreOld /\ GoneWithSession
  BY DEF NewestAreKept, VictimsAreOld, GoneWithSession
<1>3. InsertHoldsSession /\ LeftIsFew
  BY DEF InsertHoldsSession, LeftIsFew
<1>4. ExcessIsSeen
  <2>1. Cardinality(entries \ Doomed) = 0
    BY FS_EmptySet
  <2> QED BY <2>1, LimitAssumption DEF ExcessIsSeen
<1> QED BY <1>1, <1>2, <1>3, <1>4 DEF IInv

\* Types and the uniqueness of created_at are preserved by every step.
LEMMA TypeStep == TypeOK /\ [Next]_vars => TypeOK'
<1> SUFFICES ASSUME TypeOK, [Next]_vars PROVE TypeOK'
  OBVIOUS
<1> USE DEF TypeOK, table, local, Goto, Labels
<1>1. ASSUME UNCHANGED kind, NEW c \in Client, Insert(c) PROVE TypeOK'
  BY <1>1, BoundAssumption DEF Insert, Stamp
<1>2. ASSUME UNCHANGED kind, NEW c \in Client, Commit(c) PROVE TypeOK'
  <2> USE <1>2 DEF Commit
  <2>1. stamp[c] \in 1 .. clock /\ clock \in Nat
    BY BoundAssumption
  <2>2. /\ kind' \in Kinds /\ clock' \in 0 .. MaxEntries
        /\ ever' \in SUBSET (1 .. clock') /\ entries' \in SUBSET ever'
        /\ asked' \in [Client -> Asked \cup {All}]
        /\ victims' \in [Client -> SUBSET ever']
    BY <2>1
  <2>3. pc' \in [Client -> Labels] /\ debt' \in BOOLEAN
    BY Zenon
  <2>4. /\ stamp' \in [Client -> 0 .. clock']
        /\ \A d \in Client : pc'[d] = "insert" <=> stamp'[d] # 0
        /\ \A d \in Client : stamp'[d] \notin ever'
        /\ \A d, e \in Client : d # e /\ stamp'[d] # 0 => stamp'[d] # stamp'[e]
        /\ \A d \in Client : victims'[d] # {} => pc'[d] = "deleting"
    BY <2>1
  <2> QED BY <2>2, <2>3, <2>4
<1>3. ASSUME UNCHANGED kind, NEW c \in Client, Get(c) \/ DeleteError(c) \/ Again(c) PROVE TypeOK'
  BY <1>3 DEF Get, DeleteError, Again
<1>4. ASSUME UNCHANGED kind, NEW c \in Client, Delete(c) PROVE TypeOK'
  BY <1>4 DEF Delete, Old
<1>5. ASSUME UNCHANGED kind, NEW c \in Client, DeleteCommit(c) PROVE TypeOK'
  BY <1>5 DEF DeleteCommit
<1>6. ASSUME UNCHANGED kind, NEW c \in Client, Fail(c) PROVE TypeOK'
  BY <1>6 DEF Fail
<1>7. ASSUME UNCHANGED kind, NEW c \in Client, NEW n \in Asked \cup {All}, Ask(c, n) PROVE TypeOK'
  BY <1>7 DEF Ask
<1>8. ASSUME UNCHANGED kind, NEW c \in Client, Find(c) \/ Remove(c) PROVE TypeOK'
  BY <1>8 DEF Find, Remove
<1>9. ASSUME UNCHANGED kind, NEW c \in Client, RemoveCommit(c) PROVE TypeOK'
  BY <1>9 DEF RemoveCommit
<1>10. CASE UNCHANGED vars
  BY <1>10 DEF vars
<1> QED BY <1>1, <1>2, <1>3, <1>4, <1>5, <1>6, <1>7, <1>8, <1>9, <1>10 DEF Next

\* Only Commit adds to what was ever committed; a DELETE only takes old victims.
LEMMA OldIsOld ==
    ASSUME TypeOK, NEW e \in Old
    PROVE  Cardinality(Newer(ever, e)) >= Limit
<1>1. entries \in SUBSET ever /\ clock \in Nat /\ ever \in SUBSET (1 .. clock) /\ Limit \in Nat
  BY BoundAssumption, LimitAssumption DEF TypeOK
<1>2. /\ Cardinality(Newer(entries, e)) \in Nat
      /\ Cardinality(Newer(ever, e)) \in Nat
      /\ Cardinality(Newer(entries, e)) <= Cardinality(Newer(ever, e))
  BY <1>1, NewerGrows
<1>3. Cardinality(Newer(entries, e)) >= Limit
  BY DEF Old
<1> QED BY <1>1, <1>2, <1>3

\* Only the commit of a DELETE, and the deletion of the session, take entries away.
LEMMA KeptStep ==
    TypeOK /\ NewestAreKept /\ VictimsAreOld /\ [Next]_vars => NewestAreKept' /\ VictimsAreOld'
<1> SUFFICES ASSUME TypeOK, NewestAreKept, VictimsAreOld, [Next]_vars
             PROVE  NewestAreKept' /\ VictimsAreOld'
  OBVIOUS
<1>0. /\ TypeOK'
      /\ clock' \in Nat /\ ever' \in SUBSET (1 .. clock') /\ Limit \in Nat
  <2>1. TypeOK'
    BY TypeStep
  <2> QED BY <2>1, BoundAssumption, LimitAssumption DEF TypeOK
<1>1. ever \subseteq ever'
  BY DEF Next, vars, table, Find, Insert, Commit, Get, DeleteError, Delete, DeleteCommit,
         Again, Remove, RemoveCommit, Fail, Ask
<1>2. \A e : Cardinality(Newer(ever, e)) >= Limit => Cardinality(Newer(ever', e)) >= Limit
  <2>1. ASSUME NEW e, Cardinality(Newer(ever, e)) >= Limit
        PROVE  Cardinality(Newer(ever', e)) >= Limit
    <3>1. /\ Cardinality(Newer(ever, e)) \in Nat
          /\ Cardinality(Newer(ever', e)) \in Nat
          /\ Cardinality(Newer(ever, e)) <= Cardinality(Newer(ever', e))
      BY <1>0, <1>1, NewerGrows
    <3> QED BY <1>0, <2>1, <3>1
  <2> QED BY <2>1
<1>3. ASSUME NEW c \in Client, Commit(c) PROVE NewestAreKept' /\ VictimsAreOld'
  <2> USE <1>0, <1>2, <1>3 DEF Commit, TypeOK
  <2>1. NewestAreKept'
    BY DEF NewestAreKept
  <2>2. VictimsAreOld'
    BY DEF VictimsAreOld
  <2> QED BY <2>1, <2>2
<1>5. ASSUME NEW c \in Client, Delete(c) PROVE NewestAreKept' /\ VictimsAreOld'
  <2> USE <1>0, <1>5 DEF Delete, TypeOK, table
  <2>1. NewestAreKept'
    BY DEF NewestAreKept, Newer
  <2>2. VictimsAreOld'
    BY OldIsOld DEF VictimsAreOld, Newer
  <2> QED BY <2>1, <2>2
<1>6. ASSUME NEW c \in Client, DeleteCommit(c) PROVE NewestAreKept' /\ VictimsAreOld'
  <2> USE <1>0, <1>6 DEF DeleteCommit, TypeOK
  <2>1. NewestAreKept'
    BY DEF NewestAreKept, VictimsAreOld, Newer
  <2>2. VictimsAreOld'
    BY DEF VictimsAreOld, Newer
  <2> QED BY <2>1, <2>2
<1>7. ASSUME NEW c \in Client,
             \/ Find(c) \/ Insert(c) \/ Get(c) \/ DeleteError(c) \/ Again(c) \/ Remove(c) \/ Fail(c)
             \/ \E n \in Asked \cup {All} : Ask(c, n)
      PROVE  NewestAreKept' /\ VictimsAreOld'
  <2>1. /\ there' = there /\ ever' = ever /\ entries' = entries
        /\ \A d \in Client : victims'[d] \subseteq victims[d]
    BY <1>0, <1>7 DEF Find, Insert, Get, DeleteError, Again, Remove, Fail, Ask, table, local, TypeOK
  <2> QED BY <1>0, <2>1 DEF NewestAreKept, VictimsAreOld, Newer
<1>8. ASSUME NEW c \in Client, RemoveCommit(c) PROVE NewestAreKept' /\ VictimsAreOld'
  BY <1>8 DEF RemoveCommit, local, NewestAreKept, VictimsAreOld, Newer
<1>9. CASE UNCHANGED vars
  BY <1>0, <1>9 DEF NewestAreKept, VictimsAreOld, Newer, vars, table, local
<1> QED BY <1>3, <1>5, <1>6, <1>7, <1>8, <1>9 DEF Next

\* The locks of the database keep creation and deletion of the session apart.
LEMMA SessionStep ==
    TypeOK /\ GoneWithSession /\ InsertHoldsSession /\ [Next]_vars
        => GoneWithSession' /\ InsertHoldsSession'
<1> SUFFICES ASSUME TypeOK, GoneWithSession, InsertHoldsSession, [Next]_vars
             PROVE  GoneWithSession' /\ InsertHoldsSession'
  OBVIOUS
<1> USE DEF TypeOK, GoneWithSession, InsertHoldsSession, Goto, table, local
<1>1. ASSUME NEW c \in Client, Find(c) \/ Get(c) \/ DeleteError(c) \/ Delete(c) \/ Again(c) \/ Fail(c)
      PROVE  GoneWithSession' /\ InsertHoldsSession'
  <2>1. there' = there /\ entries' = entries
    BY <1>1 DEF Find, Get, DeleteError, Delete, Again, Fail
  <2>2. \A d \in Client : pc'[d] = pc[d] \/ pc'[d] \in {"idle", "found", "delete", "deleting"}
    BY <1>1 DEF Find, Get, DeleteError, Delete, Again, Fail
  <2> QED BY <2>1, <2>2
<1>2. ASSUME NEW c \in Client, Insert(c) PROVE GoneWithSession' /\ InsertHoldsSession'
  BY <1>2 DEF Insert, Refers, Blocked
<1>3. ASSUME NEW c \in Client, Commit(c) PROVE GoneWithSession' /\ InsertHoldsSession'
  BY <1>3 DEF Commit
<1>4. ASSUME NEW c \in Client, DeleteCommit(c) PROVE GoneWithSession' /\ InsertHoldsSession'
  BY <1>4 DEF DeleteCommit
<1>5. ASSUME NEW c \in Client, Remove(c) PROVE GoneWithSession' /\ InsertHoldsSession'
  BY <1>5 DEF Remove, Blocked
<1>6. ASSUME NEW c \in Client, RemoveCommit(c) PROVE GoneWithSession' /\ InsertHoldsSession'
  BY <1>6 DEF RemoveCommit
<1>7. ASSUME NEW c \in Client, NEW n \in Asked \cup {All}, Ask(c, n)
      PROVE  GoneWithSession' /\ InsertHoldsSession'
  BY <1>7 DEF Ask
<1>8. CASE UNCHANGED vars
  BY <1>8 DEF vars
<1> QED BY <1>1, <1>2, <1>3, <1>4, <1>5, <1>6, <1>7, <1>8 DEF Next

\* Sets of entries are finite, and a smaller one has no more elements.
LEMMA FewerEntries ==
    ASSUME TypeOK, NEW S \in SUBSET entries, NEW T \in SUBSET S
    PROVE  /\ Cardinality(S) \in Nat /\ Cardinality(T) \in Nat
           /\ Cardinality(T) <= Cardinality(S)
<1>1. clock \in Nat /\ S \in SUBSET (1 .. clock)
  BY BoundAssumption DEF TypeOK
<1>2. IsFiniteSet(1 .. clock)
  BY <1>1, FS_Interval
<1>3. IsFiniteSet(S)
  BY <1>1, <1>2, FS_Subset
<1> QED BY <1>3, FS_Subset, FS_CardinalityType

\* A DELETE leaves at most Limit of the entries it sees.
LEMMA OldLeavesFew == TypeOK => Cardinality(entries \ Old) <= Limit
<1> SUFFICES ASSUME TypeOK PROVE Cardinality(entries \ Old) <= Limit
  OBVIOUS
<1>1. clock \in Nat /\ entries \in SUBSET (1 .. clock)
  BY BoundAssumption DEF TypeOK
<1>2. entries \ Old = {e \in entries : ~(Cardinality(Newer(entries, e)) >= Limit)}
  BY DEF Old
<1> QED BY <1>1, <1>2, FewAreNew

\* A commit between the DELETE and the confirmation is the only thing that can
\* make the confirmation fail.
LEMMA LeftStep == TypeOK /\ LeftIsFew /\ [Next]_vars => LeftIsFew'
<1> SUFFICES ASSUME TypeOK, LeftIsFew, [Next]_vars PROVE LeftIsFew'
  OBVIOUS
<1>0. Limit \in Nat
  BY LimitAssumption
<1>1. ASSUME NEW c \in Client, Commit(c) PROVE LeftIsFew'
  <2>1. ASSUME NEW d \in Client \ overtaken'
        PROVE  pc'[d] \notin {"deleting", "again"}
    BY <1>1, <2>1 DEF Commit, Goto, TypeOK
  <2> QED BY <2>1 DEF LeftIsFew
<1>2. ASSUME NEW c \in Client, Delete(c) PROVE LeftIsFew'
  <2>1. /\ entries' = entries /\ overtaken' = overtaken \ {c}
        /\ pc'[c] = "deleting" /\ victims'[c] = Old
        /\ \A d \in Client \ {c} : pc'[d] = pc[d] /\ victims'[d] = victims[d]
    BY <1>2 DEF Delete, Goto, TypeOK, table
  <2> QED BY <2>1, OldLeavesFew DEF LeftIsFew
<1>3. ASSUME NEW c \in Client, DeleteCommit(c) PROVE LeftIsFew'
  <2>1. /\ entries' = entries \ victims[c] /\ overtaken' = overtaken
        /\ pc[c] = "deleting" /\ pc'[c] = "again"
        /\ \A d \in Client \ {c} : pc'[d] = pc[d] /\ victims'[d] = victims[d]
    BY <1>3 DEF DeleteCommit, Goto, TypeOK
  <2>2. ASSUME NEW d \in Client \ overtaken
        PROVE  /\ pc'[d] = "deleting" => Cardinality(entries' \ victims'[d]) <= Limit
               /\ pc'[d] = "again" => Cardinality(entries') <= Limit
    <3>1. CASE d = c
      BY <2>1, <2>2, <3>1 DEF LeftIsFew
    <3>2. CASE d # c
      <4>1. /\ Cardinality(entries') <= Cardinality(entries)
            /\ Cardinality(entries') \in Nat /\ Cardinality(entries) \in Nat
        BY <2>1, FewerEntries
      <4>2. /\ Cardinality(entries' \ victims[d]) <= Cardinality(entries \ victims[d])
            /\ Cardinality(entries' \ victims[d]) \in Nat /\ Cardinality(entries \ victims[d]) \in Nat
        BY <2>1, FewerEntries
      <4>3. /\ pc[d] = "deleting" => Cardinality(entries \ victims[d]) <= Limit
            /\ pc[d] = "again" => Cardinality(entries) <= Limit
        BY <2>2 DEF LeftIsFew
      <4> QED BY <1>0, <2>1, <3>2, <4>1, <4>2, <4>3
    <3> QED BY <3>1, <3>2
  <2> QED BY <2>1, <2>2 DEF LeftIsFew
<1>4. ASSUME NEW c \in Client, RemoveCommit(c) PROVE LeftIsFew'
  <2>1. entries' = {} /\ Cardinality({}) = 0
    BY <1>4, FS_EmptySet DEF RemoveCommit
  <2>2. \A d : Cardinality(entries' \ victims'[d]) = 0
    BY <2>1
  <2> QED BY <1>0, <2>1, <2>2 DEF LeftIsFew
<1>5. ASSUME NEW c \in Client,
             \/ Find(c) \/ Insert(c) \/ Get(c) \/ DeleteError(c) \/ Again(c) \/ Remove(c) \/ Fail(c)
             \/ \E n \in Asked \cup {All} : Ask(c, n)
      PROVE  LeftIsFew'
  <2>1. /\ entries' = entries
        /\ pc'[c] \notin {"deleting", "again"}
        /\ overtaken \ {c} \subseteq overtaken'
        /\ \A d \in Client \ {c} : pc'[d] = pc[d] /\ victims'[d] = victims[d]
    BY <1>5 DEF Find, Insert, Get, DeleteError, Again, Remove, Fail, Ask, Goto, table, local, TypeOK
  <2> QED BY <2>1 DEF LeftIsFew
<1>6. CASE UNCHANGED vars
  BY <1>6 DEF LeftIsFew, vars, table, local
<1> QED BY <1>1, <1>2, <1>3, <1>4, <1>5, <1>6 DEF Next

\* Only a commit makes an excess, and its task gets all entries next.
LEMMA ExcessStep == TypeOK /\ ExcessIsSeen /\ [Next]_vars => ExcessIsSeen'
<1> SUFFICES ASSUME TypeOK, ExcessIsSeen, [Next]_vars, ~DeleteFails', ~debt',
                    Cardinality((entries \ Doomed)') > Limit
             PROVE  \E c \in Client : pc'[c] = "delete" \/ (pc'[c] = "get" /\ asked'[c] = All)
  BY DEF ExcessIsSeen
<1> DEFINE Sees(c) == pc[c] = "delete" \/ (pc[c] = "get" /\ asked[c] = All)
<1>0. Limit \in Nat /\ (kind' = kind => ~DeleteFails)
  BY LimitAssumption DEF DeleteFails
<1>1. ASSUME UNCHANGED kind, NEW c \in Client, Commit(c) PROVE \E d \in Client : Sees(d)'
  BY <1>1 DEF Commit, Goto, TypeOK
<1>2. ASSUME UNCHANGED kind, NEW c \in Client, Fail(c) PROVE FALSE
  BY <1>2 DEF Fail
<1>3. ASSUME UNCHANGED kind, NEW c \in Client, Delete(c) PROVE FALSE
  <2>1. entries' = entries /\ victims'[c] = Old
    BY <1>3 DEF Delete, TypeOK, table
  <2>2. (entries \ Doomed)' \in SUBSET (entries \ Old)
    BY <2>1 DEF Doomed
  <2>3. /\ Cardinality((entries \ Doomed)') <= Cardinality(entries \ Old)
        /\ Cardinality((entries \ Doomed)') \in Nat /\ Cardinality(entries \ Old) \in Nat
    BY <2>2, FewerEntries
  <2> QED BY <1>0, <2>3, OldLeavesFew
<1>4. ASSUME UNCHANGED kind, NEW c \in Client, RemoveCommit(c) PROVE FALSE
  <2>1. (entries \ Doomed)' = {}
    BY <1>4 DEF RemoveCommit
  <2> QED BY <1>0, <2>1, FS_EmptySet
<1>5. ASSUME UNCHANGED kind, debt' = debt, (entries \ Doomed)' \in SUBSET (entries \ Doomed)
      PROVE  \E d \in Client : Sees(d)
  <2>1. /\ Cardinality((entries \ Doomed)') <= Cardinality(entries \ Doomed)
        /\ Cardinality((entries \ Doomed)') \in Nat /\ Cardinality(entries \ Doomed) \in Nat
    BY <1>5, FewerEntries
  <2> QED BY <1>0, <1>5, <2>1 DEF ExcessIsSeen
<1>6. ASSUME UNCHANGED kind, NEW c \in Client, DeleteCommit(c) PROVE \E d \in Client : Sees(d)'
  <2>1. \A e \in (entries \ Doomed)' : e \in entries \ Doomed
    BY <1>6 DEF DeleteCommit, Doomed, TypeOK
  <2>2. PICK d \in Client : Sees(d)
    BY <1>5, <1>6, <2>1 DEF DeleteCommit
  <2>3. d # c /\ Sees(d)'
    BY <1>6, <2>2 DEF DeleteCommit, Goto, TypeOK
  <2> QED BY <2>3
<1>7. ASSUME UNCHANGED kind, NEW c \in Client, Get(c) PROVE \E d \in Client : Sees(d)'
  <2>1. UNCHANGED <<entries, victims, debt, asked>>
    BY <1>7 DEF Get, table, local
  <2>2. UNCHANGED (entries \ Doomed)
    BY <2>1 DEF Doomed
  <2>3. PICK d \in Client : Sees(d)
    BY <1>5, <1>7, <2>1, <2>2
  <2>4. CASE d = c
    <3>1. /\ Cardinality(entries \ Doomed) <= Cardinality(entries)
          /\ Cardinality(entries \ Doomed) \in Nat /\ Cardinality(entries) \in Nat
      BY FewerEntries
    <3>2. Cardinality(entries) > Limit
      BY <1>0, <2>2, <3>1
    <3>3. asked[c] = All
      BY <1>7, <2>3, <2>4 DEF Get
    <3>4. TooMany(c)
      BY <3>2, <3>3 DEF TooMany, Got
    <3> QED BY <1>7, <3>4 DEF Get, Goto, TypeOK
  <2>5. CASE d # c
    BY <1>7, <2>1, <2>3, <2>5 DEF Get, Goto, TypeOK
  <2> QED BY <2>4, <2>5
<1>8. ASSUME UNCHANGED kind, NEW c \in Client,
             \/ Find(c) \/ Insert(c) \/ DeleteError(c) \/ Again(c) \/ Remove(c)
             \/ \E n \in Asked \cup {All} : Ask(c, n)
      PROVE  \E d \in Client : Sees(d)'
  <2>1. /\ UNCHANGED <<entries, victims, debt>>
        /\ pc[c] \notin {"get", "delete"}
        /\ \A d \in Client \ {c} : pc'[d] = pc[d] /\ asked'[d] = asked[d]
    BY <1>0, <1>8 DEF Find, Insert, DeleteError, Again, Remove, Ask, Goto, table, local, TypeOK
  <2>2. UNCHANGED (entries \ Doomed)
    BY <2>1 DEF Doomed
  <2>3. PICK d \in Client : Sees(d)
    BY <1>5, <1>8, <2>1, <2>2
  <2> QED BY <2>1, <2>3
<1>9. CASE UNCHANGED vars
  <2>1. UNCHANGED <<kind, entries, victims, debt, pc, asked>>
    BY <1>9 DEF vars, table, local
  <2>2. UNCHANGED (entries \ Doomed)
    BY <2>1 DEF Doomed
  <2>3. PICK d \in Client : Sees(d)
    BY <1>5, <2>1, <2>2
  <2> QED BY <2>1, <2>3
<1> QED BY <1>1, <1>2, <1>3, <1>4, <1>6, <1>7, <1>8, <1>9 DEF Next

\* Every step preserves the invariant.
LEMMA NextIInv == IInv /\ [Next]_vars => IInv'
BY TypeStep, KeptStep, SessionStep, LeftStep, ExcessStep DEF IInv

-----------------------------------------------------------------------------
\* The inductive invariant holds in every reachable state.
THEOREM Invariance == Spec => []IInv
<1>1. Init => IInv
  BY InitIInv
<1>2. IInv /\ [Next]_vars => IInv'
  BY NextIInv
<1> QED BY <1>1, <1>2, PTL DEF Spec

\* Types and ranges of the history; created_at is unique.
THEOREM TypeCorrect == Spec => []TypeOK
<1>1. IInv => TypeOK
  BY DEF IInv
<1> QED BY <1>1, Invariance, PTL

\* However creations and deletions overlap, the Limit newest entries stay.
THEOREM NewestSafe == Spec => []NewestAreKept
<1>1. IInv => NewestAreKept
  BY DEF IInv
<1> QED BY <1>1, Invariance, PTL

\* Nothing outlives its session, although it was looked up earlier.
THEOREM NothingOutlives == Spec => []GoneWithSession
<1>1. IInv => GoneWithSession
  BY DEF IInv
<1> QED BY <1>1, Invariance, PTL

\* The confirmation fails only if another entry was committed meanwhile.
THEOREM ConfirmationHolds == Spec => []ConfirmFailsIfOvertaken
<1>1. IInv => ConfirmFailsIfOvertaken
  <2> SUFFICES ASSUME IInv, NEW c \in Client, pc[c] = "again", TooMany(c), c \notin overtaken
               PROVE  FALSE
    BY DEF ConfirmFailsIfOvertaken
  <2>1. TypeOK /\ Cardinality(entries) <= Limit
    BY DEF IInv, LeftIsFew
  <2>2. Cardinality(entries) \in Nat /\ Limit \in Nat
    BY <2>1, FewerEntries, LimitAssumption
  <2>3. asked[c] = All \/ asked[c] \in Nat
    BY <2>1, AskedAssumption DEF TypeOK
  <2>4. Got(c) \in Int /\ Got(c) <= Cardinality(entries) /\ Got(c) > Limit
    BY <2>2, <2>3 DEF TooMany, Got, All
  <2> QED BY <2>1, <2>2, <2>3, <2>4
<1> QED BY <1>1, Invariance, PTL

\* An excess never lacks a task that will delete it, unless a request failed.
THEOREM ExcessNoticed == Spec => []ExcessIsHandled
<1>1. IInv => ExcessIsHandled
  BY DEF IInv, ExcessIsSeen, ExcessIsHandled
<1> QED BY <1>1, Invariance, PTL

-----------------------------------------------------------------------------
(* The history implements what its readers are promised.                   *)

\* The empty history of a session that is there.
LEMMA RecentInit == Init => Recent!Init
BY DEF Init, Recent!Init

\* A new entry is committed while its session is there, under a created_at that no
\* earlier entry had.
LEMMA CommitEnters ==
    ASSUME IInv, NEW c \in Client, Commit(c)
    PROVE  \E e \in Entry : Recent!Enter(e)
<1>1. stamp[c] \in Entry /\ stamp[c] \notin ever
  <2>1. /\ stamp[c] \in 0 .. clock /\ stamp[c] # 0 /\ clock \in 0 .. MaxEntries
        /\ stamp[c] \notin ever
    BY DEF Commit, IInv, TypeOK
  <2> QED BY <2>1, BoundAssumption DEF Entry
<1>2. there
  BY DEF Commit, IInv, InsertHoldsSession
<1>3. Recent!Enter(stamp[c])
  BY <1>1, <1>2 DEF Commit, Recent!Enter
<1> QED BY <1>1, <1>3

\* What a DELETE removes when it commits is old by then, whatever was committed
\* since its snapshot; in a session that is gone it finds nothing to remove.
LEMMA DeleteDrops ==
    ASSUME IInv, NEW c \in Client, DeleteCommit(c)
    PROVE  (\E E \in SUBSET entries : Recent!Drop(E)) \/ UNCHANGED Recent!vars
<1> DEFINE Gone == victims[c] \cap entries
<1>1. entries' = entries \ Gone /\ UNCHANGED <<there, ever>>
  BY DEF DeleteCommit
<1>2. CASE there
  <2>1. \A e \in Gone : Cardinality(Newer(ever, e)) >= Limit
    BY DEF IInv, VictimsAreOld
  <2>2. \A e \in Gone : Recent!Cardinality(Recent!NewerThan(e)) >= Limit
    <3>1. \A e : Recent!NewerThan(e) = Newer(ever, e)
      BY DEF Newer, Recent!NewerThan
    <3>2. \A S : Recent!Cardinality(S) = Cardinality(S)
      BY DEF Recent!Cardinality, Cardinality
    <3> QED BY <2>1, <3>1, <3>2
  <2> HIDE DEF Gone
  <2>3. Recent!Drop(Gone)
    BY <1>1, <1>2, <2>2 DEF Recent!Drop
  <2>4. Gone \in SUBSET entries
    BY DEF Gone
  <2> QED BY <2>3, <2>4
<1>3. CASE ~there
  <2>1. entries = {}
    BY <1>3 DEF IInv, GoneWithSession
  <2> QED BY <1>1, <2>1 DEF Recent!vars
<1> QED BY <1>2, <1>3

\* The deletion of the session closes the history.
LEMMA RemoveCloses ==
    ASSUME IInv, NEW c \in Client, RemoveCommit(c)
    PROVE  Recent!Close \/ UNCHANGED Recent!vars
<1>1. CASE there
  BY <1>1 DEF RemoveCommit, Recent!Close
<1>2. CASE ~there
  <2>1. entries = {} /\ there = FALSE
    BY <1>2 DEF IInv, TypeOK, GoneWithSession
  <2> QED BY <2>1 DEF RemoveCommit, Recent!vars
<1> QED BY <1>1, <1>2

\* Every step is one of the history, or leaves it alone.
LEMMA RecentStep == IInv /\ [Next]_vars => [Recent!Next]_(Recent!vars)
<1> SUFFICES ASSUME IInv, [Next]_vars PROVE [Recent!Next]_(Recent!vars)
  OBVIOUS
<1>1. ASSUME NEW c \in Client, Commit(c) PROVE Recent!Next
  BY <1>1, CommitEnters DEF Recent!Next
<1>2. ASSUME NEW c \in Client, DeleteCommit(c) PROVE [Recent!Next]_(Recent!vars)
  BY <1>2, DeleteDrops DEF Recent!Next
<1>3. ASSUME NEW c \in Client, RemoveCommit(c) PROVE [Recent!Next]_(Recent!vars)
  BY <1>3, RemoveCloses DEF Recent!Next
<1>4. ASSUME NEW c \in Client,
             \/ Find(c) \/ Insert(c) \/ Get(c) \/ DeleteError(c) \/ Delete(c) \/ Again(c)
             \/ Remove(c) \/ Fail(c)
             \/ \E n \in Asked \cup {All} : Ask(c, n)
      PROVE  UNCHANGED Recent!vars
  BY <1>4 DEF Find, Insert, Get, DeleteError, Delete, Again, Remove, Fail, Ask, table,
              Recent!vars
<1>5. CASE UNCHANGED vars
  BY <1>5 DEF vars, table, Recent!vars
<1> QED BY <1>1, <1>2, <1>3, <1>4, <1>5 DEF Next

\* The requests of the chat service and the transactions that serve them implement
\* the history of RecentEntries, for any number of tasks and any limit.
THEOREM HistoryRefines == Spec => ImplementsRecent
<1>1. Init => Recent!Init
  BY RecentInit
<1>2. IInv /\ [Next]_vars => [Recent!Next]_(Recent!vars)
  BY RecentStep
<1> QED BY <1>1, <1>2, Invariance, PTL DEF Spec, ImplementsRecent, Recent!Spec

=============================================================================
