------------------------ MODULE SessionStreamsProofs ------------------------
(***************************************************************************)
(* Proofs about SessionStreams, for every set of tasks, every lifetime,    *)
(* every stream length and every max_retry.                                *)
(*                                                                         *)
(* IInv is inductive.  A transaction of init_stream_keys is right because  *)
(* what its two EXISTS answered is still true at a clean EXEC (CleanWatch),*)
(* and it keeps the pair together because a clean view of a pair in sync   *)
(* is either empty or complete (PairInSync).  The write role is exclusive  *)
(* because a task's place in get_streams says which locks it owns          *)
(* (LocksMatchProgress).                                                   *)
(***************************************************************************)
EXTENDS SessionStreams, TLAPS

USE ModeAssumption, BoundsAssumption, RaiseAssumption, OwnerAssumption

-----------------------------------------------------------------------------
(* Steps that end a call, or lead to the release of its locks, keep the types. *)

\* A step to another place in get_streams that keeps the keys, the locks and the
\* roles, and whose other variables are well typed, keeps the types.
LEMMA MoveType ==
  ASSUME TypeOK, NEW c \in Client, NEW label \in Labels, Move(c, label),
         UNCHANGED <<lock, mode>>,
         seen'    \in [Client -> SUBSET Streams],
         ttl'     \in [Client -> -2 .. MaxTtl],
         trial'   \in [Client -> 0 .. MaxRetry],
         opened'  \in [Client -> 0 .. 4],
         outcome' \in [Client -> Outcomes]
  PROVE  TypeOK'
<1>1. UNCHANGED <<life, len>> /\ pc' = [pc EXCEPT ![c] = label]
  BY DEF Move, Goto
<1>2. dirty' \in [Client -> BOOLEAN]
  BY DEF Move, Signal
<1>3. QED
  BY <1>1, <1>2 DEF TypeOK

\* The end of a call with an error or "none" keeps the types.
LEMMA EndType ==
  ASSUME TypeOK, NEW c \in Client, NEW label \in Labels, NEW result \in Outcomes,
         End(c, label, result), UNCHANGED <<lock, mode>>,
         trial' \in [Client -> 0 .. MaxRetry]
  PROVE  TypeOK'
<1>1. /\ seen'    \in [Client -> SUBSET Streams]
      /\ ttl'     \in [Client -> -2 .. MaxTtl]
      /\ opened'  \in [Client -> 0 .. 4]
      /\ outcome' \in [Client -> Outcomes]
  BY DEF End, TypeOK
<1>2. QED
  BY <1>1, MoveType DEF End

-----------------------------------------------------------------------------
(* The inductive invariant: initially, and one lemma per kind of step.     *)

\* The initial states satisfy the inductive invariant.
LEMMA InitIInv == Init => IInv
  BY DEF Init, IInv, TypeOK, PairInSync, LocksMatchProgress, CleanWatch, Bookkeeping,
         HoldsFirst, HoldsSecond, Writes, Creates, Streams, Keys, Lives, Absent,
         Persistent, Labels, Outcomes, Watching, Initialising, Exists

\* A new call of get_streams preserves the inductive invariant.
LEMMA CallInv == ASSUME IInv, NEW c \in Client, NEW m \in Mode, Call(c, m) PROVE IInv'
<1> USE DEF IInv, Call, Streams, Keys, Move, Goto
<1>1. TypeOK'
  BY DEF TypeOK, Signal, Watching, Lives, Labels, Outcomes
<1>2. PairInSync'
  BY DEF PairInSync
<1>3. LocksMatchProgress'
  BY DEF LocksMatchProgress, TypeOK, HoldsFirst, HoldsSecond, Writes
<1>4. CleanWatch'
  BY DEF CleanWatch, TypeOK, Signal, Watching, Exists
<1>5. Bookkeeping'
  BY DEF Bookkeeping, TypeOK, Exists, Absent, Writes, Creates, Initialising, Watching
<1>6. QED
  BY <1>1, <1>2, <1>3, <1>4, <1>5

\* WATCH preserves the inductive invariant.
LEMMA WatchInv == ASSUME IInv, NEW c \in Client, Watch(c) PROVE IInv'
<1> USE DEF IInv, Watch, Streams, Keys, Move, Goto
<1>1. TypeOK'
  BY DEF TypeOK, Signal, Watching, Lives, Labels, Outcomes
<1>2. PairInSync'
  BY DEF PairInSync
<1>3. LocksMatchProgress'
  BY DEF LocksMatchProgress, TypeOK, HoldsFirst, HoldsSecond, Writes
<1>4. CleanWatch'
  BY DEF CleanWatch, TypeOK, Signal, Watching, Exists
<1>5. Bookkeeping'
  BY DEF Bookkeeping, TypeOK, Exists, Absent, Writes, Creates, Initialising, Watching
<1>6. QED
  BY <1>1, <1>2, <1>3, <1>4, <1>5

\* The first EXISTS preserves the inductive invariant.
LEMMA Exists0Inv == ASSUME IInv, NEW c \in Client, Exists0(c) PROVE IInv'
<1> USE DEF IInv, Exists0, Streams, Keys, Move, Goto
<1>1. TypeOK'
  BY DEF TypeOK, Signal, Watching, Lives, Labels, Outcomes
<1>2. PairInSync'
  BY DEF PairInSync
<1>3. LocksMatchProgress'
  BY DEF LocksMatchProgress, TypeOK, HoldsFirst, HoldsSecond, Writes
<1>4. CleanWatch'
  BY DEF CleanWatch, TypeOK, Signal, Watching, Exists
<1>5. Bookkeeping'
  BY DEF Bookkeeping, TypeOK, Exists, Absent, Writes, Creates, Initialising, Watching
<1>6. QED
  BY <1>1, <1>2, <1>3, <1>4, <1>5

\* The second EXISTS, whatever is decided from it, preserves the inductive invariant.
LEMMA Exists1Inv == ASSUME IInv, NEW c \in Client, Exists1(c) PROVE IInv'
<1> USE DEF IInv, Exists1, Streams, Keys
<1>1. TypeOK'
  <2>1. CASE End(c, "idle", "PairError")
    BY <2>1, EndType DEF Labels, Outcomes, TypeOK
  <2>2. CASE ~End(c, "idle", "PairError")
    <3>1. /\ Move(c, "exec") \/ Move(c, "ttl")
          /\ UNCHANGED <<lock, mode, ttl, trial, opened, outcome>>
      BY <2>2
    <3>2. seen' \in [Client -> SUBSET Streams]
      BY <2>2 DEF TypeOK
    <3>3. QED
      BY <3>1, <3>2, MoveType DEF TypeOK, Labels
  <2>3. QED
    BY <2>1, <2>2
<1>2. PairInSync'
  BY DEF End, Move, Goto, PairInSync
<1>3. LocksMatchProgress'
  BY DEF End, Move, Goto, LocksMatchProgress, TypeOK, HoldsFirst, HoldsSecond, Writes
<1>4. CleanWatch'
  BY DEF End, Move, Goto, CleanWatch, TypeOK, Signal, Watching, Exists
<1>5. Bookkeeping'
  BY DEF End, Move, Goto, Bookkeeping, TypeOK, Exists, Absent, Writes, Creates,
         Initialising, Watching
<1>6. QED
  BY <1>1, <1>2, <1>3, <1>4, <1>5

\* Reading the TTL of the user key preserves the inductive invariant.
LEMMA ReadTtlInv == ASSUME IInv, NEW c \in Client, ReadTtl(c) PROVE IInv'
<1> USE DEF IInv, ReadTtl, Streams, Keys, Move, Goto
<1>1. TypeOK'
  BY DEF TypeOK, Signal, Watching, Lives, Labels, Outcomes, Ttl, SecondsLeft,
         Absent, Persistent
<1>2. PairInSync'
  BY DEF PairInSync
<1>3. LocksMatchProgress'
  BY DEF LocksMatchProgress, TypeOK, HoldsFirst, HoldsSecond, Writes
<1>4. CleanWatch'
  BY DEF CleanWatch, TypeOK, Signal, Watching, Exists
<1>5. Bookkeeping'
  BY DEF Bookkeeping, TypeOK, Exists, Absent, Writes, Creates, Initialising, Watching
<1>6. QED
  BY <1>1, <1>2, <1>3, <1>4, <1>5

\* A successful EXEC preserves the inductive invariant.
LEMMA ExecCommitInv == ASSUME IInv, NEW c \in Client, ExecCommit(c) PROVE IInv'
<1> USE DEF IInv, ExecCommit, Streams, Keys, Goto, Missing, Clean, AfterInit, Writes
<1>1. TypeOK'
  BY DEF TypeOK, Signal, Watching, Lives, Labels, Outcomes, Lifespan, Cascaded,
         Relived, Absent,
         Persistent, Exists
<1>2. PairInSync'
  BY DEF PairInSync, TypeOK, CleanWatch, Exists, Cascaded, Relived, Lifespan
<1>3. LocksMatchProgress'
  BY DEF LocksMatchProgress, TypeOK, HoldsFirst, HoldsSecond, Writes
<1>4. CleanWatch'
  BY DEF CleanWatch, TypeOK, Signal, Watching, Exists, PairInSync
<1>5. Bookkeeping'
  BY DEF Bookkeeping, TypeOK, Exists, Absent, Writes, Creates, Initialising, Watching
<1>6. QED
  BY <1>1, <1>2, <1>3, <1>4, <1>5

\* A failed EXEC, retried or not, preserves the inductive invariant.
LEMMA ExecAbortInv == ASSUME IInv, NEW c \in Client, ExecAbort(c) PROVE IInv'
<1> USE DEF IInv, ExecAbort, Streams, Keys, Clean, TriesAgain
<1>1. TypeOK'
  <2>1. trial' \in [Client -> 0 .. MaxRetry]
    BY DEF TypeOK, Bookkeeping, Initialising, Watching
  <2>2. CASE TriesAgain(c)
    BY <2>1, <2>2, MoveType DEF TypeOK, Labels
  <2>3. CASE ~TriesAgain(c)
    BY <2>1, <2>3, EndType DEF Labels, Outcomes
  <2>4. QED
    BY <2>2, <2>3
<1>2. PairInSync'
  BY DEF End, Move, Goto, PairInSync
<1>3. LocksMatchProgress'
  BY DEF End, Move, Goto, LocksMatchProgress, TypeOK, HoldsFirst, HoldsSecond, Writes
<1>4. CleanWatch'
  BY DEF End, Move, Goto, CleanWatch, TypeOK, Signal, Watching, Exists
<1>5. Bookkeeping'
  BY DEF End, Move, Goto, Bookkeeping, TypeOK, Exists, Absent, Writes, Creates,
         Initialising, Watching
<1>6. QED
  BY <1>1, <1>2, <1>3, <1>4, <1>5

\* Taking the lock of cs2as preserves the inductive invariant.
LEMMA FirstLockInv == ASSUME IInv, NEW c \in Client, FirstLock(c) PROVE IInv'
<1> USE DEF IInv, FirstLock, Streams, Keys, Move, Goto, locals
<1>1. TypeOK'
  BY DEF TypeOK, Signal, Watching, Lives, Labels, Outcomes
<1>2. PairInSync'
  BY DEF PairInSync
<1>3. LocksMatchProgress'
  BY DEF LocksMatchProgress, TypeOK, HoldsFirst, HoldsSecond, Writes
<1>4. CleanWatch'
  BY DEF CleanWatch, TypeOK, Signal, Watching, Exists
<1>5. Bookkeeping'
  BY DEF Bookkeeping, TypeOK, Exists, Absent, Writes, Creates, Initialising, Watching
<1>6. QED
  BY <1>1, <1>2, <1>3, <1>4, <1>5

\* Taking the lock of as2cs preserves the inductive invariant.
LEMMA SecondLockInv == ASSUME IInv, NEW c \in Client, SecondLock(c) PROVE IInv'
<1> USE DEF IInv, SecondLock, Streams, Keys, Move, Goto, locals
<1>1. TypeOK'
  BY DEF TypeOK, Signal, Watching, Lives, Labels, Outcomes
<1>2. PairInSync'
  BY DEF PairInSync
<1>3. LocksMatchProgress'
  BY DEF LocksMatchProgress, TypeOK, HoldsFirst, HoldsSecond, Writes, Bookkeeping
<1>4. CleanWatch'
  BY DEF CleanWatch, TypeOK, Signal, Watching, Exists
<1>5. Bookkeeping'
  BY DEF Bookkeeping, TypeOK, Exists, Absent, Writes, Creates, Initialising, Watching
<1>6. QED
  BY <1>1, <1>2, <1>3, <1>4, <1>5

\* Giving up on a lock preserves the inductive invariant.
LEMMA LockTimeoutInv == ASSUME IInv, NEW c \in Client, LockTimeout(c) PROVE IInv'
<1> USE DEF IInv, LockTimeout, Streams, Keys
<1>1. TypeOK'
  BY EndType DEF TypeOK, Labels, Outcomes
<1>2. PairInSync'
  BY DEF End, Move, Goto, PairInSync
<1>3. LocksMatchProgress'
  BY DEF End, Move, Goto, LocksMatchProgress, TypeOK, HoldsFirst, HoldsSecond, Writes,
         Bookkeeping
<1>4. CleanWatch'
  BY DEF End, Move, Goto, CleanWatch, TypeOK, Signal, Watching, Exists
<1>5. Bookkeeping'
  BY DEF End, Move, Goto, Bookkeeping, TypeOK, Exists, Absent, Writes, Creates,
         Initialising, Watching
<1>6. QED
  BY <1>1, <1>2, <1>3, <1>4, <1>5

\* Stream._create, whether its assertion holds or not, preserves the inductive invariant.
LEMMA OpenInv == ASSUME IInv, NEW c \in Client, Open(c) PROVE IInv'
<1> USE DEF IInv, Open, Streams, Keys, Exit, Writes
<1>1. TypeOK'
  <2>1. CASE Exists(NextOpen(c))
    <3>1. opened' \in [Client -> 0 .. 4]
      BY <2>1 DEF TypeOK, Bookkeeping, Creates
    <3>2. QED
      BY <2>1, <3>1, MoveType DEF TypeOK, Labels
  <2>2. CASE ~Exists(NextOpen(c))
    BY <2>2, EndType DEF TypeOK, Labels, Outcomes
  <2>3. QED
    BY <2>1, <2>2
<1>2. PairInSync'
  BY DEF End, Move, Goto, PairInSync
<1>3. LocksMatchProgress'
  BY DEF End, Move, Goto, LocksMatchProgress, TypeOK, HoldsFirst, HoldsSecond, Writes
<1>4. CleanWatch'
  BY DEF End, Move, Goto, CleanWatch, TypeOK, Signal, Watching, Exists
<1>5. Bookkeeping'
  BY DEF End, Move, Goto, Bookkeeping, TypeOK, Exists, Absent, Writes, Creates,
         Initialising, Watching
<1>6. QED
  BY <1>1, <1>2, <1>3, <1>4, <1>5

\* WriteStream.write preserves the inductive invariant.
LEMMA WriteInv == ASSUME IInv, NEW c \in Client, NEW s \in Streams, Write(c, s) PROVE IInv'
<1> USE DEF IInv, Write, Streams, Keys, locals
<1>1. TypeOK'
  BY DEF TypeOK, Signal, Watching, Lives, Labels, Outcomes
<1>2. PairInSync'
  BY DEF PairInSync
<1>3. LocksMatchProgress'
  BY DEF LocksMatchProgress, TypeOK, HoldsFirst, HoldsSecond, Writes
<1>4. CleanWatch'
  BY DEF CleanWatch, TypeOK, Signal, Watching, Exists
<1>5. Bookkeeping'
  BY DEF Bookkeeping, TypeOK, Exists, Absent, Writes, Creates, Initialising, Watching
<1>6. QED
  BY <1>1, <1>2, <1>3, <1>4, <1>5

\* A write to a stream that is gone preserves the inductive invariant.
LEMMA WriteFailInv ==
  ASSUME IInv, NEW c \in Client, NEW s \in Streams, WriteFail(c, s)
  PROVE  IInv'
<1> USE DEF IInv, WriteFail, Streams, Keys, Move, Goto, End, Writes
<1>1. TypeOK'
  BY DEF TypeOK, Signal, Watching, Lives, Labels, Outcomes
<1>2. PairInSync'
  BY DEF PairInSync
<1>3. LocksMatchProgress'
  BY DEF LocksMatchProgress, TypeOK, HoldsFirst, HoldsSecond, Writes
<1>4. CleanWatch'
  BY DEF CleanWatch, TypeOK, Signal, Watching, Exists
<1>5. Bookkeeping'
  BY DEF Bookkeeping, TypeOK, Exists, Absent, Writes, Creates, Initialising, Watching
<1>6. QED
  BY <1>1, <1>2, <1>3, <1>4, <1>5

\* Leaving the body preserves the inductive invariant.
LEMMA LeaveInv == ASSUME IInv, NEW c \in Client, Leave(c) PROVE IInv'
<1> USE DEF IInv, Leave, Streams, Keys, Move, Goto, End, Exit, Writes
<1>1. TypeOK'
  BY DEF TypeOK, Signal, Watching, Lives, Labels, Outcomes
<1>2. PairInSync'
  BY DEF PairInSync
<1>3. LocksMatchProgress'
  BY DEF LocksMatchProgress, TypeOK, HoldsFirst, HoldsSecond, Writes
<1>4. CleanWatch'
  BY DEF CleanWatch, TypeOK, Signal, Watching, Exists
<1>5. Bookkeeping'
  BY DEF Bookkeeping, TypeOK, Exists, Absent, Writes, Creates, Initialising, Watching
<1>6. QED
  BY <1>1, <1>2, <1>3, <1>4, <1>5

\* Releasing the lock of as2cs preserves the inductive invariant.
LEMMA SecondUnlockInv == ASSUME IInv, NEW c \in Client, SecondUnlock(c) PROVE IInv'
<1> USE DEF IInv, SecondUnlock, Streams, Keys, Move, Goto, locals
<1>1. TypeOK'
  BY DEF TypeOK, Signal, Watching, Lives, Labels, Outcomes
<1>2. PairInSync'
  BY DEF PairInSync
<1>3. LocksMatchProgress'
  BY DEF LocksMatchProgress, TypeOK, HoldsFirst, HoldsSecond, Writes
<1>4. CleanWatch'
  BY DEF CleanWatch, TypeOK, Signal, Watching, Exists
<1>5. Bookkeeping'
  BY DEF Bookkeeping, TypeOK, Exists, Absent, Writes, Creates, Initialising, Watching
<1>6. QED
  BY <1>1, <1>2, <1>3, <1>4, <1>5

\* Releasing the lock of cs2as preserves the inductive invariant.
LEMMA FirstUnlockInv == ASSUME IInv, NEW c \in Client, FirstUnlock(c) PROVE IInv'
<1> USE DEF IInv, FirstUnlock, Streams, Keys, Move, Goto, locals
<1>1. TypeOK'
  BY DEF TypeOK, Signal, Watching, Lives, Labels, Outcomes
<1>2. PairInSync'
  BY DEF PairInSync
<1>3. LocksMatchProgress'
  BY DEF LocksMatchProgress, TypeOK, HoldsFirst, HoldsSecond, Writes
<1>4. CleanWatch'
  BY DEF CleanWatch, TypeOK, Signal, Watching, Exists
<1>5. Bookkeeping'
  BY DEF Bookkeeping, TypeOK, Exists, Absent, Writes, Creates, Initialising, Watching
<1>6. QED
  BY <1>1, <1>2, <1>3, <1>4, <1>5

\* The death of a task preserves the inductive invariant.
LEMMA CrashInv == ASSUME IInv, NEW c \in Client, Crash(c) PROVE IInv'
<1> USE DEF IInv, Crash, Streams, Keys, Move, Goto, End
<1>1. TypeOK'
  BY DEF TypeOK, Signal, Watching, Lives, Labels, Outcomes
<1>2. PairInSync'
  BY DEF PairInSync
<1>3. LocksMatchProgress'
  BY DEF LocksMatchProgress, TypeOK, HoldsFirst, HoldsSecond, Writes
<1>4. CleanWatch'
  BY DEF CleanWatch, TypeOK, Signal, Watching, Exists
<1>5. Bookkeeping'
  BY DEF Bookkeeping, TypeOK, Exists, Absent, Writes, Creates, Initialising, Watching
<1>6. QED
  BY <1>1, <1>2, <1>3, <1>4, <1>5

\* Saving the user preserves the inductive invariant.
LEMMA UserSaveInv == ASSUME IInv, UserSave PROVE IInv'
<1> USE DEF IInv, UserSave, Streams, Keys, locals
<1>1. TypeOK'
  BY DEF TypeOK, Signal, Watching, Lives, Labels, Outcomes, Persistent
<1>2. PairInSync'
  BY DEF PairInSync
<1>3. LocksMatchProgress'
  BY DEF LocksMatchProgress, TypeOK, HoldsFirst, HoldsSecond, Writes
<1>4. CleanWatch'
  BY DEF CleanWatch, TypeOK, Signal, Watching, Exists, Absent, Persistent
<1>5. Bookkeeping'
  BY DEF Bookkeeping, TypeOK, Exists, Absent, Writes, Creates, Initialising, Watching
<1>6. QED
  BY <1>1, <1>2, <1>3, <1>4, <1>5

\* Expiring or persisting the user, with or without the sessions, preserves the
\* inductive invariant.
LEMMA UserExpireInv ==
  ASSUME IInv, NEW seconds \in -1 .. MaxTtl, NEW loaded \in BOOLEAN,
         UserExpire(seconds, loaded)
  PROVE  IInv'
<1> USE DEF IInv, UserExpire, Streams, Keys, locals, SubKeys
<1>1. TypeOK'
  BY DEF TypeOK, Signal, Watching, Lives, Labels, Outcomes, Lifespan, Cascaded,
         Relived, Exists,
         Absent, Persistent
<1>2. PairInSync'
  BY DEF PairInSync, Lifespan, Cascaded, Relived, Exists, Absent, Persistent, TypeOK
<1>3. LocksMatchProgress'
  BY DEF LocksMatchProgress, TypeOK, HoldsFirst, HoldsSecond, Writes
<1>4. CleanWatch'
  BY DEF CleanWatch, TypeOK, Signal, Watching, Exists, Lifespan, Cascaded, Relived,
         Absent, Persistent
<1>5. Bookkeeping'
  BY DEF Bookkeeping, TypeOK, Exists, Absent, Cascaded, Relived, Lifespan, Persistent,
         Lives, Writes, Creates, Initialising, Watching
<1>6. QED
  BY <1>1, <1>2, <1>3, <1>4, <1>5

\* Deleting the user preserves the inductive invariant.
LEMMA UserDeleteInv == ASSUME IInv, NEW loaded \in BOOLEAN, UserDelete(loaded) PROVE IInv'
<1> USE DEF IInv, UserDelete, Streams, Keys, locals, SubKeys
<1>1. TypeOK'
  BY DEF TypeOK, Signal, Watching, Lives, Labels, Outcomes, Absent
<1>2. PairInSync'
  BY DEF PairInSync, Absent, TypeOK
<1>3. LocksMatchProgress'
  BY DEF LocksMatchProgress, TypeOK, HoldsFirst, HoldsSecond, Writes
<1>4. CleanWatch'
  BY DEF CleanWatch, TypeOK, Signal, Watching, Exists, Absent
<1>5. Bookkeeping'
  BY DEF Bookkeeping, TypeOK, Exists, Absent, Writes, Creates, Initialising, Watching
<1>6. QED
  BY <1>1, <1>2, <1>3, <1>4, <1>5

\* Time, and the keys it removes, preserve the inductive invariant.
LEMMA TickInv == ASSUME IInv, Tick PROVE IInv'
<1> USE DEF IInv, Tick, Aged, Streams, Keys, locals
<1>1. TypeOK'
  BY DEF TypeOK, Signal, Watching, Lives, Labels, Outcomes, Absent
<1>2. PairInSync'
  BY DEF PairInSync, Absent, TypeOK
<1>3. LocksMatchProgress'
  BY DEF LocksMatchProgress, TypeOK, HoldsFirst, HoldsSecond, Writes
<1>4. CleanWatch'
  BY DEF CleanWatch, TypeOK, Signal, Watching, Exists, Absent, Lives
<1>5. Bookkeeping'
  BY DEF Bookkeeping, TypeOK, Exists, Absent, Writes, Creates, Initialising, Watching
<1>6. QED
  BY <1>1, <1>2, <1>3, <1>4, <1>5

\* A step that changes nothing preserves the inductive invariant.
LEMMA StutterInv == ASSUME IInv, UNCHANGED vars PROVE IInv'
  BY DEF IInv, vars, locals, TypeOK, PairInSync, LocksMatchProgress, CleanWatch,
         Bookkeeping, HoldsFirst, HoldsSecond, Writes, Creates, Exists

\* Every step preserves the inductive invariant.
LEMMA NextIInv == IInv /\ [Next]_vars => IInv'
<1> SUFFICES ASSUME IInv, [Next]_vars PROVE IInv'
  OBVIOUS
<1>1. ASSUME NEW c \in Client, InitKeys(c) PROVE IInv'
  BY <1>1, WatchInv, Exists0Inv, Exists1Inv, ReadTtlInv, ExecCommitInv, ExecAbortInv
     DEF InitKeys
<1>2. ASSUME NEW c \in Client, TakeLocks(c) PROVE IInv'
  BY <1>2, FirstLockInv, SecondLockInv, LockTimeoutInv DEF TakeLocks
<1>3. ASSUME NEW c \in Client, UseStreams(c) PROVE IInv'
  BY <1>3, OpenInv, WriteInv, WriteFailInv DEF UseStreams
<1>4. ASSUME NEW c \in Client, Release(c) PROVE IInv'
  BY <1>4, LeaveInv, SecondUnlockInv, FirstUnlockInv DEF Release
<1>5. ASSUME NEW c \in Client, NEW m \in Mode, Call(c, m) PROVE IInv'
  BY <1>5, CallInv
<1>6. ASSUME NEW c \in Client, Crash(c) PROVE IInv'
  BY <1>6, CrashInv
<1>7. CASE Owner
  BY <1>7, UserSaveInv, UserExpireInv, UserDeleteInv DEF Owner
<1>8. CASE Tick
  BY <1>8, TickInv
<1>9. CASE UNCHANGED vars
  BY <1>9, StutterInv
<1>10. QED
  BY <1>1, <1>2, <1>3, <1>4, <1>5, <1>6, <1>7, <1>8, <1>9 DEF Next, Step

-----------------------------------------------------------------------------
\* Every behaviour of the specification satisfies the inductive invariant.
THEOREM Invariance == Spec => []IInv
<1>1. Init => IInv
  BY InitIInv
<1>2. IInv /\ [Next]_vars => IInv'
  BY NextIInv
<1>3. QED
  BY <1>1, <1>2, PTL DEF Spec

\* The state is well typed and trial_time stays within max_retry.
THEOREM TypeCorrect == Spec => []TypeOK
<1>1. IInv => TypeOK
  BY DEF IInv
<1>2. QED
  BY <1>1, Invariance, PTL

\* The two stream keys exist together and expire together (init_stream_keys,
\* UserData.expire and delete).
THEOREM PairStaysInSync == Spec => []PairInSync
<1>1. IInv => PairInSync
  BY DEF IInv
<1>2. QED
  BY <1>1, Invariance, PTL

\* Every return, exception and crash of get_streams leaves exactly the locks that its
\* progress accounts for: those of the tasks inside, and those of the dead.
THEOREM LocksAreAccounted == Spec => []LocksMatchProgress
<1>1. IInv => LocksMatchProgress
  BY DEF IInv
<1>2. QED
  BY <1>1, Invariance, PTL

\* As long as nothing touched the watched keys, what a task has read of them
\* (EXISTS, EXISTS, TTL of init_stream_keys) is what they are.
THEOREM WatchProtects == Spec => []CleanWatch
<1>1. IInv => CleanWatch
  BY DEF IInv
<1>2. QED
  BY <1>1, Invariance, PTL

\* At most one task is inside get_streams with write streams.
THEOREM WriteRoleIsExclusive == Spec => []OneWriter
<1>1. IInv => OneWriter
  BY DEF IInv, OneWriter, LocksMatchProgress, HoldsSecond
<1>2. QED
  BY <1>1, Invariance, PTL

\* Only the lock of a dead task can block a task that already has the first lock.
THEOREM NoLiveBlocker == Spec => []NoHoldAndWait
<1>1. IInv => NoHoldAndWait
  <2> SUFFICES ASSUME IInv, NEW c \in Client, pc[c] = "lock2",
                      lock["as2cs"] \notin {Free, Dead}
               PROVE  FALSE
    BY DEF NoHoldAndWait
  <2>1. PICK d \in Client : lock["as2cs"] = d
    BY DEF IInv, TypeOK, Streams
  <2>2. HoldsSecond(d) /\ lock["cs2as"] = d
    BY <2>1 DEF IInv, LocksMatchProgress, HoldsFirst
  <2>3. lock["cs2as"] = c
    BY DEF IInv, LocksMatchProgress, HoldsFirst
  <2>4. QED
    BY <2>2, <2>3 DEF HoldsSecond
<1>2. QED
  BY <1>1, Invariance, PTL

-----------------------------------------------------------------------------
(* Action properties.                                                      *)

\* A step that takes a task out of the transaction towards its streams is the
\* commit of that task.
LEMMA OnlyCommitLeaves ==
  ASSUME IInv, Next, NEW c \in Client, pc[c] = "exec", pc'[c] \in {"lock1", "open"}
  PROVE  ExecCommit(c)
<1> USE DEF IInv, TypeOK, Move, Goto
<1>1. ASSUME NEW d \in Client, InitKeys(d) PROVE ExecCommit(c)
  BY <1>1 DEF InitKeys, Watch, Exists0, Exists1, ReadTtl, ExecAbort, ExecCommit, End
<1>2. ASSUME NEW d \in Client, TakeLocks(d) PROVE FALSE
  BY <1>2 DEF TakeLocks, FirstLock, SecondLock, LockTimeout, End
<1>3. ASSUME NEW d \in Client, UseStreams(d) PROVE FALSE
  BY <1>3 DEF UseStreams, Open, Write, WriteFail, End
<1>4. ASSUME NEW d \in Client, Release(d) PROVE FALSE
  BY <1>4 DEF Release, Leave, SecondUnlock, FirstUnlock, End
<1>5. ASSUME NEW d \in Client, Crash(d) \/ \E m \in Mode : Call(d, m) PROVE FALSE
  BY <1>5 DEF Crash, Call, End
<1>6. CASE Owner \/ Tick
  BY <1>6 DEF Owner, UserSave, UserExpire, UserDelete, Tick
<1>7. QED
  BY <1>1, <1>2, <1>3, <1>4, <1>5, <1>6 DEF Next, Step

\* init_stream_keys returns only when both streams exist.
THEOREM InitReturnsBoth == Spec => InitMakesBoth
<1> DEFINE A == \A c \in Client : pc[c] = "exec" /\ pc'[c] \in {"lock1", "open"}
                                    => \A s \in Streams : life'[s] # Absent
<1>1. ASSUME IInv, [Next]_vars PROVE [A]_vars
  <2> SUFFICES ASSUME Next, NEW c \in Client, pc[c] = "exec",
                      pc'[c] \in {"lock1", "open"}, NEW s \in Streams
               PROVE  life'[s] # Absent
    BY <1>1
  <2>1. ExecCommit(c)
    BY <1>1, OnlyCommitLeaves
  <2>2. seen[c] = {t \in Streams : Exists(t)}
    BY <1>1, <2>1 DEF ExecCommit, Clean, IInv, CleanWatch
  <2>3. s \in Missing(c) \/ life[s] # Absent
    BY <2>2 DEF Missing, Exists
  <2>4. QED
    BY <1>1, <2>1, <2>3 DEF ExecCommit, Keys, Streams, Lifespan, Absent, Persistent,
                            IInv, TypeOK
<1>2. QED
  BY <1>1, Invariance, PTL DEF Spec, InitMakesBoth

\* No task's creation of the streams, and nothing else but a write by the owner of
\* both locks, changes the entries of a stream that is there before and after.
THEOREM EntriesAreSafe == Spec => ChangedOnlyUnderLock
<1> DEFINE A == \A s \in Streams : Exists(s) /\ life'[s] # Absent /\ len'[s] # len[s]
                  => \E c \in Client : Write(c, s) /\ \A t \in Streams : lock[t] = c
<1>1. ASSUME IInv, [Next]_vars PROVE [A]_vars
  <2> SUFFICES ASSUME Next, NEW s \in Streams, Exists(s), life'[s] # Absent,
                      len'[s] # len[s]
               PROVE  \E c \in Client : Write(c, s) /\ \A t \in Streams : lock[t] = c
    BY <1>1
  <2>1. ASSUME NEW c \in Client, InitKeys(c) PROVE FALSE
    <3>1. ExecCommit(c)
      BY <2>1 DEF InitKeys, Watch, Exists0, Exists1, ReadTtl, ExecAbort, Move, End
    <3>2. s \notin Missing(c)
      BY <1>1, <3>1 DEF ExecCommit, Clean, IInv, CleanWatch, Missing
    <3>3. QED
      BY <3>1, <3>2 DEF ExecCommit
  <2>2. ASSUME NEW c \in Client, TakeLocks(c) PROVE FALSE
    BY <2>2 DEF TakeLocks, FirstLock, SecondLock, LockTimeout, Move, End
  <2>3. ASSUME NEW c \in Client, UseStreams(c)
        PROVE  Write(c, s) /\ \A t \in Streams : lock[t] = c
    <3>1. PICK t \in Streams : Write(c, t)
      BY <2>3 DEF UseStreams, Open, WriteFail, Move, End
    <3>2. t = s
      BY <1>1, <3>1 DEF Write, IInv, TypeOK
    <3>3. HoldsFirst(c) /\ HoldsSecond(c)
      BY <3>1 DEF Write, HoldsFirst, HoldsSecond
    <3>4. QED
      BY <1>1, <3>1, <3>2, <3>3 DEF IInv, LocksMatchProgress, Streams
  <2>4. ASSUME NEW c \in Client, Release(c) PROVE FALSE
    BY <2>4 DEF Release, Leave, SecondUnlock, FirstUnlock, Move, End
  <2>5. ASSUME NEW c \in Client, Crash(c) \/ \E m \in Mode : Call(c, m) PROVE FALSE
    BY <2>5 DEF Crash, Call, Move, End
  <2>6. ASSUME Owner PROVE FALSE
    BY <2>6 DEF Owner, UserSave, UserExpire, UserDelete, Keys
  <2>7. ASSUME Tick PROVE FALSE
    BY <1>1, <2>7 DEF Tick, Aged, IInv, TypeOK, Keys, Absent
  <2>8. QED
    BY <2>1, <2>2, <2>3, <2>4, <2>5, <2>6, <2>7 DEF Next, Step
<1>2. QED
  BY <1>1, Invariance, PTL DEF Spec, ChangedOnlyUnderLock

-----------------------------------------------------------------------------
(* SessionStreams implements StreamPair.                                   *)

\* Steps that touch neither the keys of the streams nor the second lock.
LEMMA PairStutter ==
  ASSUME UNCHANGED <<life, len>>, lock'["as2cs"] = lock["as2cs"]
  PROVE  UNCHANGED Pair!vars
  BY DEF Pair!vars, Exists

\* No streams and no writer: an initial state of the abstract pair.
LEMMA PairInit == Init => Pair!Init
  BY DEF Init, Pair!Init, Pair!Empty, Exists, Streams, Keys, Absent

\* Every step is a step of the abstract pair or changes nothing it shows.
LEMMA PairStep == ASSUME IInv, IInv', [Next]_vars PROVE [Pair!Next]_Pair!vars
<1> USE DEF IInv, TypeOK
<1>1. ASSUME NEW c \in Client, InitKeys(c), ~ExecCommit(c) PROVE UNCHANGED Pair!vars
  BY <1>1, PairStutter
     DEF InitKeys, Watch, Exists0, Exists1, ReadTtl, ExecAbort, Move, End
<1>2. ASSUME NEW c \in Client, ExecCommit(c) PROVE [Pair!Next]_Pair!vars
  <2>1. CASE Missing(c) = {}
    <3>1. life' = life /\ len' = len
      BY <1>2, <2>1 DEF ExecCommit
    <3>2. QED
      BY <1>2, <3>1, PairStutter DEF ExecCommit
  <2>2. CASE Missing(c) # {}
    <3>1. Missing(c) = Streams /\ ~Exists("cs2as")
      BY <1>2, <2>2 DEF ExecCommit, Clean, CleanWatch, PairInSync, Missing, Streams, Exists
    <3>2. life'["cs2as"] # Absent
      BY <1>2, <3>1 DEF ExecCommit, Keys, Streams, Lifespan, Absent, Persistent
    <3>3. Pair!Create
      BY <1>2, <3>1, <3>2 DEF ExecCommit, Pair!Create, Pair!Empty, Exists
    <3>4. QED
      BY <3>3 DEF Pair!Next
  <2>3. QED
    BY <2>1, <2>2
<1>3. ASSUME NEW c \in Client, TakeLocks(c) PROVE [Pair!Next]_Pair!vars
  <2>1. CASE FirstLock(c) \/ LockTimeout(c)
    BY <2>1, PairStutter DEF FirstLock, LockTimeout, Move, End, Streams
  <2>2. CASE SecondLock(c)
    <3>1. Pair!Acquire(c)
      BY <2>2 DEF SecondLock, Pair!Acquire, Move, Streams, Exists
    <3>2. QED
      BY <3>1 DEF Pair!Next
  <2>3. QED
    BY <1>3, <2>1, <2>2 DEF TakeLocks
<1>4. ASSUME NEW c \in Client, UseStreams(c) PROVE [Pair!Next]_Pair!vars
  <2>1. CASE Open(c) \/ \E s \in Streams : WriteFail(c, s)
    BY <2>1, PairStutter DEF Open, WriteFail, Move, End
  <2>2. ASSUME NEW s \in Streams, Write(c, s) PROVE [Pair!Next]_Pair!vars
    <3>1. lock["as2cs"] = c
      BY <2>2 DEF Write, LocksMatchProgress, HoldsSecond
    <3>2. Exists("cs2as")
      BY <2>2 DEF Write, PairInSync, Exists, Streams
    <3>3. Pair!Append(c, s)
      BY <2>2, <3>1, <3>2 DEF Write, Pair!Append, Exists
    <3>4. QED
      BY <3>3 DEF Pair!Next
  <2>3. QED
    BY <1>4, <2>1, <2>2 DEF UseStreams
<1>5. ASSUME NEW c \in Client, Release(c) PROVE [Pair!Next]_Pair!vars
  <2>1. CASE Leave(c) \/ FirstUnlock(c)
    BY <2>1, PairStutter DEF Leave, FirstUnlock, Move, End, Streams
  <2>2. CASE SecondUnlock(c)
    <3>1. lock["as2cs"] = c
      BY <2>2 DEF SecondUnlock, LocksMatchProgress, HoldsSecond
    <3>2. Pair!Release(c)
      BY <2>2, <3>1 DEF SecondUnlock, Pair!Release, Move, Streams, Exists
    <3>3. QED
      BY <3>2 DEF Pair!Next
  <2>3. QED
    BY <1>5, <2>1, <2>2 DEF Release
<1>6. ASSUME NEW c \in Client, NEW m \in Mode, Call(c, m) PROVE UNCHANGED Pair!vars
  BY <1>6, PairStutter DEF Call, Move
<1>7. ASSUME NEW c \in Client, Crash(c) PROVE [Pair!Next]_Pair!vars
  <2>1. CASE lock["as2cs"] = c
    <3>1. Pair!Abandon(c)
      BY <1>7, <2>1 DEF Crash, Pair!Abandon, End, Move, Streams, Exists
    <3>2. QED
      BY <3>1 DEF Pair!Next
  <2>2. CASE lock["as2cs"] # c
    BY <1>7, <2>2, PairStutter DEF Crash, End, Move, Streams
  <2>3. QED
    BY <2>1, <2>2
\* The streams are gone, if the key of one of them is.
<1>8. ASSUME life'["cs2as"] = Absent, UNCHANGED lock PROVE [Pair!Next]_Pair!vars
  <2>1. len' = Pair!Empty
    BY <1>8 DEF Pair!Empty, Bookkeeping, PairInSync, Exists, Streams
  <2>2. CASE Exists("cs2as")
    <3>1. Pair!Discard
      BY <1>8, <2>1, <2>2 DEF Pair!Discard, Exists
    <3>2. QED
      BY <3>1 DEF Pair!Next
  <2>3. CASE ~Exists("cs2as")
    <3>1. len = Pair!Empty
      BY <2>3 DEF Pair!Empty, Bookkeeping, PairInSync, Exists, Streams
    <3>2. QED
      BY <1>8, <2>1, <2>3, <3>1 DEF Pair!vars, Exists
  <2>4. QED
    BY <2>2, <2>3
<1>9. ASSUME life'["cs2as"] # Absent, Owner \/ Tick PROVE UNCHANGED Pair!vars
  <2>1. ASSUME UserSave PROVE UNCHANGED Pair!vars
    BY <2>1 DEF UserSave, Pair!vars, Exists, Keys, Streams
  <2>2. ASSUME NEW loaded \in BOOLEAN, NEW seconds \in -1 .. MaxTtl,
               UserExpire(seconds, loaded)
        PROVE  UNCHANGED Pair!vars
    BY <1>9, <2>2 DEF UserExpire, Pair!vars, Exists, Cascaded, Relived, Keys, Streams
  <2>3. ASSUME NEW loaded \in BOOLEAN, UserDelete(loaded) PROVE UNCHANGED Pair!vars
    <3>1. ~loaded
      BY <1>9, <2>3 DEF UserDelete, SubKeys, Keys, Streams
    <3>2. QED
      BY <2>3, <3>1 DEF UserDelete, SubKeys, Pair!vars, Exists, Keys, Streams
  <2>4. ASSUME Tick PROVE UNCHANGED Pair!vars
    <3>1. life["cs2as"] # 1 /\ life["cs2as"] # Absent
      BY <1>9, <2>4 DEF Tick, Aged, Absent, Keys, Streams
    <3>2. QED
      BY <1>9, <2>4, <3>1 DEF Tick, Aged, Pair!vars, PairInSync, Exists, Keys, Streams
  <2>5. QED
    BY <1>9, <2>1, <2>2, <2>3, <2>4 DEF Owner
<1>10. CASE Owner \/ Tick
  BY <1>8, <1>9, <1>10 DEF Owner, UserSave, UserExpire, UserDelete, Tick
<1>11. CASE UNCHANGED vars
  BY <1>11, PairStutter DEF vars
<1>12. QED
  BY <1>1, <1>2, <1>3, <1>4, <1>5, <1>6, <1>7, <1>10, <1>11 DEF Next, Step

\* The whole of get_streams, init_stream_keys and write, with the owner's commands,
\* the deadlines and the crashes, implements a pair of streams with one writer.
THEOREM Refinement == Spec => ImplementsPair
<1>1. Init => Pair!Init
  BY PairInit
<1>2. IInv /\ IInv' /\ [Next]_vars => [Pair!Next]_Pair!vars
  BY PairStep
<1>3. QED
  BY <1>1, <1>2, Invariance, PTL DEF Spec, ImplementsPair, Pair!Spec

-----------------------------------------------------------------------------
(* Liveness.  That the fair actions are enabled wherever a call stands is the *)
(* invariant NeedsNobody: a hypothesis here, because no prover reasons about  *)
(* ENABLED, and checked by TLC.                                               *)

\* Where one step can take a call of get_streams: back only to a new trial.
Path(c) ==
    /\ pc[c] = "watch"   => pc'[c] \in {"watch", "exists0", "idle"} /\ trial'[c] = trial[c]
    /\ pc[c] = "exists0" => pc'[c] \in {"exists0", "exists1", "idle"} /\ trial'[c] = trial[c]
    /\ pc[c] = "exists1" => pc'[c] \in {"exists1", "ttl", "exec", "idle"} /\ trial'[c] = trial[c]
    /\ pc[c] = "ttl"     => pc'[c] \in {"ttl", "exec", "idle"} /\ trial'[c] = trial[c]
    /\ pc[c] = "exec"    => \/ pc'[c] = "exec" /\ trial'[c] = trial[c]
                            \/ pc'[c] = "watch" /\ trial'[c] = trial[c] + 1
                            \/ pc'[c] \in {"lock1", "open", "idle"}
    /\ pc[c] = "lock1"   => pc'[c] \in {"lock1", "lock2", "idle"}
    /\ pc[c] = "lock2"   => pc'[c] \in {"lock2", "open", "unlock1", "idle"}
    /\ pc[c] = "open"    => \/ pc'[c] = "open" /\ opened'[c] \in {opened[c], opened[c] + 1}
                            \/ pc'[c] \in {"body", "unlock2", "idle"}
    /\ pc[c] = "body"    => pc'[c] \in {"body", "unlock2", "idle"}
    /\ pc[c] = "unlock2" => pc'[c] \in {"unlock2", "unlock1", "idle"}
    /\ pc[c] = "unlock1" => pc'[c] \in {"unlock1", "idle"}

\* Every step takes every call along this path, or leaves it where it is.
LEMMA StepsFollowPath == ASSUME IInv, [Next]_vars, NEW c \in Client PROVE Path(c)
<1> USE DEF IInv
<1>1. /\ pc \in [Client -> Labels]
      /\ trial \in [Client -> 0 .. MaxRetry] /\ opened \in [Client -> 0 .. 4]
  BY DEF TypeOK
<1>2. ASSUME UNCHANGED <<pc, trial, opened>> PROVE Path(c)
  BY <1>1, <1>2 DEF Path
<1>3. CASE UNCHANGED vars \/ Owner \/ Tick
  BY <1>2, <1>3 DEF vars, locals, Owner, UserSave, UserDelete, UserExpire, Tick
<1>4. ASSUME NEW d \in Client, InitKeys(d) PROVE Path(c)
  <2>1. CASE Watch(d) \/ Exists0(d) \/ ReadTtl(d)
    BY <1>1, <2>1 DEF Path, Watch, Exists0, ReadTtl, Move, Goto
  <2>2. CASE Exists1(d)
    BY <1>1, <2>2 DEF Path, Exists1, End, Move, Goto
  <2>3. CASE ExecCommit(d)
    BY <1>1, <2>3 DEF Path, ExecCommit, AfterInit, Goto
  <2>4. CASE ExecAbort(d)
    BY <1>1, <2>4 DEF Path, ExecAbort, End, Move, Goto
  <2> QED BY <1>4, <2>1, <2>2, <2>3, <2>4 DEF InitKeys
<1>5. ASSUME NEW d \in Client, TakeLocks(d) PROVE Path(c)
  BY <1>1, <1>5 DEF Path, TakeLocks, FirstLock, SecondLock, LockTimeout, End, Move, Goto, locals
<1>6. ASSUME NEW d \in Client, UseStreams(d) PROVE Path(c)
  <2>1. CASE Open(d)
    BY <1>1, <2>1 DEF Path, Open, Exit, End, Move, Goto
  <2>2. CASE \E s \in Streams : Write(d, s) \/ WriteFail(d, s)
    BY <1>1, <2>2 DEF Path, Write, WriteFail, End, Move, Goto, locals
  <2> QED BY <1>6, <2>1, <2>2 DEF UseStreams
<1>7. ASSUME NEW d \in Client, Release(d) PROVE Path(c)
  BY <1>1, <1>7 DEF Path, Release, Leave, Exit, SecondUnlock, FirstUnlock, End, Move, Goto, locals
<1>8. ASSUME NEW d \in Client, Crash(d) \/ \E m \in Mode : Call(d, m) PROVE Path(c)
  BY <1>1, <1>8 DEF Path, Crash, Call, End, Move, Goto
<1> QED BY <1>3, <1>4, <1>5, <1>6, <1>7, <1>8 DEF Next, Step

\* Every turn of a task takes its call on, and only Open stays at its label.
LEMMA TurnsGoOn ==
    ASSUME IInv, NEW c \in Client, InitKeys(c) \/ TakeLocks(c) \/ Open(c)
    PROVE  pc'[c] # pc[c] \/ (pc[c] = "open" /\ opened'[c] = opened[c] + 1)
<1> USE DEF IInv
<1>1. /\ pc \in [Client -> Labels] /\ opened \in [Client -> 0 .. 4]
  BY DEF TypeOK
<1>2. CASE InitKeys(c)
  BY <1>1, <1>2 DEF InitKeys, Watch, Exists0, Exists1, ReadTtl, ExecCommit, ExecAbort,
                    AfterInit, End, Move, Goto
<1>3. CASE TakeLocks(c)
  BY <1>1, <1>3 DEF TakeLocks, FirstLock, SecondLock, LockTimeout, End, Move, Goto
<1>4. CASE Open(c)
  BY <1>1, <1>4 DEF Open, Exit, End, Move, Goto
<1> QED BY <1>2, <1>3, <1>4

LEMMA ReleasesGoOn == ASSUME IInv, NEW c \in Client, Release(c) PROVE pc'[c] # pc[c]
  BY DEF IInv, TypeOK, Release, Leave, Exit, SecondUnlock, FirstUnlock, End, Move, Goto

\* Fairness, for one task.
LEMMA FairnessOf == ASSUME NEW c \in Client PROVE Fairness => FairTask(c)
  BY DEF Fairness

-----------------------------------------------------------------------------
(* One lemma per stretch of a call.                                        *)

\* WATCH is answered.
LEMMA AfterWatch ==
    ASSUME NEW c \in Client, NEW n \in Nat
    PROVE  FairSpec /\ []NeedsNobody =>
              ((pc[c] = "watch" /\ trial[c] = n)
                 ~> ((pc[c] = "exists0" /\ trial[c] = n) \/ pc[c] = "idle"))
<1>1. IInv /\ (pc[c] = "watch" /\ trial[c] = n) /\ [Next]_vars
         => ((pc[c] = "watch" /\ trial[c] = n))' \/ (((pc[c] = "exists0" /\ trial[c] = n) \/ pc[c] = "idle"))'
  BY StepsFollowPath DEF Path
<1>2. IInv /\ (pc[c] = "watch" /\ trial[c] = n) /\ <<InitKeys(c) \/ TakeLocks(c) \/ Open(c)>>_vars
         => (((pc[c] = "exists0" /\ trial[c] = n) \/ pc[c] = "idle"))'
  <2> SUFFICES ASSUME IInv, (pc[c] = "watch" /\ trial[c] = n), InitKeys(c) \/ TakeLocks(c) \/ Open(c)
               PROVE  (((pc[c] = "exists0" /\ trial[c] = n) \/ pc[c] = "idle"))'
    OBVIOUS
  <2>1. Path(c)
    BY StepsFollowPath DEF Next, Step, UseStreams
  <2>2. pc'[c] # pc[c] \/ (pc[c] = "open" /\ opened'[c] = opened[c] + 1)
    BY TurnsGoOn
  <2> QED BY <2>1, <2>2 DEF Path
<1>3. NeedsNobody /\ (pc[c] = "watch" /\ trial[c] = n)
         => ENABLED <<InitKeys(c) \/ TakeLocks(c) \/ Open(c)>>_vars
  BY DEF NeedsNobody, Initialising, Watching
<1>4. Fairness => WF_vars(InitKeys(c) \/ TakeLocks(c) \/ Open(c))
  BY FairnessOf, PTL DEF FairTask
<1>5. QED BY <1>1, <1>2, <1>3, <1>4, Invariance, PTL DEF FairSpec, Spec

\* The first EXISTS is answered.
LEMMA AfterExists0 ==
    ASSUME NEW c \in Client, NEW n \in Nat
    PROVE  FairSpec /\ []NeedsNobody =>
              ((pc[c] = "exists0" /\ trial[c] = n)
                 ~> ((pc[c] = "exists1" /\ trial[c] = n) \/ pc[c] = "idle"))
<1>1. IInv /\ (pc[c] = "exists0" /\ trial[c] = n) /\ [Next]_vars
         => ((pc[c] = "exists0" /\ trial[c] = n))' \/ (((pc[c] = "exists1" /\ trial[c] = n) \/ pc[c] = "idle"))'
  BY StepsFollowPath DEF Path
<1>2. IInv /\ (pc[c] = "exists0" /\ trial[c] = n) /\ <<InitKeys(c) \/ TakeLocks(c) \/ Open(c)>>_vars
         => (((pc[c] = "exists1" /\ trial[c] = n) \/ pc[c] = "idle"))'
  <2> SUFFICES ASSUME IInv, (pc[c] = "exists0" /\ trial[c] = n), InitKeys(c) \/ TakeLocks(c) \/ Open(c)
               PROVE  (((pc[c] = "exists1" /\ trial[c] = n) \/ pc[c] = "idle"))'
    OBVIOUS
  <2>1. Path(c)
    BY StepsFollowPath DEF Next, Step, UseStreams
  <2>2. pc'[c] # pc[c] \/ (pc[c] = "open" /\ opened'[c] = opened[c] + 1)
    BY TurnsGoOn
  <2> QED BY <2>1, <2>2 DEF Path
<1>3. NeedsNobody /\ (pc[c] = "exists0" /\ trial[c] = n)
         => ENABLED <<InitKeys(c) \/ TakeLocks(c) \/ Open(c)>>_vars
  BY DEF NeedsNobody, Initialising, Watching
<1>4. Fairness => WF_vars(InitKeys(c) \/ TakeLocks(c) \/ Open(c))
  BY FairnessOf, PTL DEF FairTask
<1>5. QED BY <1>1, <1>2, <1>3, <1>4, Invariance, PTL DEF FairSpec, Spec

\* The second EXISTS is answered.
LEMMA AfterExists1 ==
    ASSUME NEW c \in Client, NEW n \in Nat
    PROVE  FairSpec /\ []NeedsNobody =>
              ((pc[c] = "exists1" /\ trial[c] = n)
                 ~> ((pc[c] = "ttl" /\ trial[c] = n) \/ (pc[c] = "exec" /\ trial[c] = n) \/ pc[c] = "idle"))
<1>1. IInv /\ (pc[c] = "exists1" /\ trial[c] = n) /\ [Next]_vars
         => ((pc[c] = "exists1" /\ trial[c] = n))' \/ (((pc[c] = "ttl" /\ trial[c] = n) \/ (pc[c] = "exec" /\ trial[c] = n) \/ pc[c] = "idle"))'
  BY StepsFollowPath DEF Path
<1>2. IInv /\ (pc[c] = "exists1" /\ trial[c] = n) /\ <<InitKeys(c) \/ TakeLocks(c) \/ Open(c)>>_vars
         => (((pc[c] = "ttl" /\ trial[c] = n) \/ (pc[c] = "exec" /\ trial[c] = n) \/ pc[c] = "idle"))'
  <2> SUFFICES ASSUME IInv, (pc[c] = "exists1" /\ trial[c] = n), InitKeys(c) \/ TakeLocks(c) \/ Open(c)
               PROVE  (((pc[c] = "ttl" /\ trial[c] = n) \/ (pc[c] = "exec" /\ trial[c] = n) \/ pc[c] = "idle"))'
    OBVIOUS
  <2>1. Path(c)
    BY StepsFollowPath DEF Next, Step, UseStreams
  <2>2. pc'[c] # pc[c] \/ (pc[c] = "open" /\ opened'[c] = opened[c] + 1)
    BY TurnsGoOn
  <2> QED BY <2>1, <2>2 DEF Path
<1>3. NeedsNobody /\ (pc[c] = "exists1" /\ trial[c] = n)
         => ENABLED <<InitKeys(c) \/ TakeLocks(c) \/ Open(c)>>_vars
  BY DEF NeedsNobody, Initialising, Watching
<1>4. Fairness => WF_vars(InitKeys(c) \/ TakeLocks(c) \/ Open(c))
  BY FairnessOf, PTL DEF FairTask
<1>5. QED BY <1>1, <1>2, <1>3, <1>4, Invariance, PTL DEF FairSpec, Spec

\* TTL is answered.
LEMMA AfterTtl ==
    ASSUME NEW c \in Client, NEW n \in Nat
    PROVE  FairSpec /\ []NeedsNobody =>
              ((pc[c] = "ttl" /\ trial[c] = n)
                 ~> ((pc[c] = "exec" /\ trial[c] = n) \/ pc[c] = "idle"))
<1>1. IInv /\ (pc[c] = "ttl" /\ trial[c] = n) /\ [Next]_vars
         => ((pc[c] = "ttl" /\ trial[c] = n))' \/ (((pc[c] = "exec" /\ trial[c] = n) \/ pc[c] = "idle"))'
  BY StepsFollowPath DEF Path
<1>2. IInv /\ (pc[c] = "ttl" /\ trial[c] = n) /\ <<InitKeys(c) \/ TakeLocks(c) \/ Open(c)>>_vars
         => (((pc[c] = "exec" /\ trial[c] = n) \/ pc[c] = "idle"))'
  <2> SUFFICES ASSUME IInv, (pc[c] = "ttl" /\ trial[c] = n), InitKeys(c) \/ TakeLocks(c) \/ Open(c)
               PROVE  (((pc[c] = "exec" /\ trial[c] = n) \/ pc[c] = "idle"))'
    OBVIOUS
  <2>1. Path(c)
    BY StepsFollowPath DEF Next, Step, UseStreams
  <2>2. pc'[c] # pc[c] \/ (pc[c] = "open" /\ opened'[c] = opened[c] + 1)
    BY TurnsGoOn
  <2> QED BY <2>1, <2>2 DEF Path
<1>3. NeedsNobody /\ (pc[c] = "ttl" /\ trial[c] = n)
         => ENABLED <<InitKeys(c) \/ TakeLocks(c) \/ Open(c)>>_vars
  BY DEF NeedsNobody, Initialising, Watching
<1>4. Fairness => WF_vars(InitKeys(c) \/ TakeLocks(c) \/ Open(c))
  BY FairnessOf, PTL DEF FairTask
<1>5. QED BY <1>1, <1>2, <1>3, <1>4, Invariance, PTL DEF FairSpec, Spec

\* EXEC is answered; a new trial counts.
LEMMA AfterExec ==
    ASSUME NEW c \in Client, NEW n \in Nat
    PROVE  FairSpec /\ []NeedsNobody =>
              ((pc[c] = "exec" /\ trial[c] = n)
                 ~> ((pc[c] = "watch" /\ trial[c] = n + 1) \/ pc[c] = "lock1" \/ pc[c] = "open" \/ pc[c] = "idle"))
<1>1. IInv /\ (pc[c] = "exec" /\ trial[c] = n) /\ [Next]_vars
         => ((pc[c] = "exec" /\ trial[c] = n))' \/ (((pc[c] = "watch" /\ trial[c] = n + 1) \/ pc[c] = "lock1" \/ pc[c] = "open" \/ pc[c] = "idle"))'
  BY StepsFollowPath DEF Path
<1>2. IInv /\ (pc[c] = "exec" /\ trial[c] = n) /\ <<InitKeys(c) \/ TakeLocks(c) \/ Open(c)>>_vars
         => (((pc[c] = "watch" /\ trial[c] = n + 1) \/ pc[c] = "lock1" \/ pc[c] = "open" \/ pc[c] = "idle"))'
  <2> SUFFICES ASSUME IInv, (pc[c] = "exec" /\ trial[c] = n), InitKeys(c) \/ TakeLocks(c) \/ Open(c)
               PROVE  (((pc[c] = "watch" /\ trial[c] = n + 1) \/ pc[c] = "lock1" \/ pc[c] = "open" \/ pc[c] = "idle"))'
    OBVIOUS
  <2>1. Path(c)
    BY StepsFollowPath DEF Next, Step, UseStreams
  <2>2. pc'[c] # pc[c] \/ (pc[c] = "open" /\ opened'[c] = opened[c] + 1)
    BY TurnsGoOn
  <2> QED BY <2>1, <2>2 DEF Path
<1>3. NeedsNobody /\ (pc[c] = "exec" /\ trial[c] = n)
         => ENABLED <<InitKeys(c) \/ TakeLocks(c) \/ Open(c)>>_vars
  BY DEF NeedsNobody, Initialising, Watching
<1>4. Fairness => WF_vars(InitKeys(c) \/ TakeLocks(c) \/ Open(c))
  BY FairnessOf, PTL DEF FairTask
<1>5. QED BY <1>1, <1>2, <1>3, <1>4, Invariance, PTL DEF FairSpec, Spec

\* The first lock is taken or given up.
LEMMA AfterFirstLock ==
    ASSUME NEW c \in Client
    PROVE  FairSpec /\ []NeedsNobody =>
              (pc[c] = "lock1"
                 ~> (pc[c] = "lock2" \/ pc[c] = "idle"))
<1>1. IInv /\ pc[c] = "lock1" /\ [Next]_vars
         => (pc[c] = "lock1")' \/ ((pc[c] = "lock2" \/ pc[c] = "idle"))'
  BY StepsFollowPath DEF Path
<1>2. IInv /\ pc[c] = "lock1" /\ <<InitKeys(c) \/ TakeLocks(c) \/ Open(c)>>_vars
         => ((pc[c] = "lock2" \/ pc[c] = "idle"))'
  <2> SUFFICES ASSUME IInv, pc[c] = "lock1", InitKeys(c) \/ TakeLocks(c) \/ Open(c)
               PROVE  ((pc[c] = "lock2" \/ pc[c] = "idle"))'
    OBVIOUS
  <2>1. Path(c)
    BY StepsFollowPath DEF Next, Step, UseStreams
  <2>2. pc'[c] # pc[c] \/ (pc[c] = "open" /\ opened'[c] = opened[c] + 1)
    BY TurnsGoOn
  <2> QED BY <2>1, <2>2 DEF Path
<1>3. NeedsNobody /\ pc[c] = "lock1"
         => ENABLED <<InitKeys(c) \/ TakeLocks(c) \/ Open(c)>>_vars
  BY DEF NeedsNobody, Initialising, Watching
<1>4. Fairness => WF_vars(InitKeys(c) \/ TakeLocks(c) \/ Open(c))
  BY FairnessOf, PTL DEF FairTask
<1>5. QED BY <1>1, <1>2, <1>3, <1>4, Invariance, PTL DEF FairSpec, Spec

\* The second lock is taken or given up.
LEMMA AfterSecondLock ==
    ASSUME NEW c \in Client
    PROVE  FairSpec /\ []NeedsNobody =>
              (pc[c] = "lock2"
                 ~> (pc[c] = "open" \/ pc[c] = "unlock1" \/ pc[c] = "idle"))
<1>1. IInv /\ pc[c] = "lock2" /\ [Next]_vars
         => (pc[c] = "lock2")' \/ ((pc[c] = "open" \/ pc[c] = "unlock1" \/ pc[c] = "idle"))'
  BY StepsFollowPath DEF Path
<1>2. IInv /\ pc[c] = "lock2" /\ <<InitKeys(c) \/ TakeLocks(c) \/ Open(c)>>_vars
         => ((pc[c] = "open" \/ pc[c] = "unlock1" \/ pc[c] = "idle"))'
  <2> SUFFICES ASSUME IInv, pc[c] = "lock2", InitKeys(c) \/ TakeLocks(c) \/ Open(c)
               PROVE  ((pc[c] = "open" \/ pc[c] = "unlock1" \/ pc[c] = "idle"))'
    OBVIOUS
  <2>1. Path(c)
    BY StepsFollowPath DEF Next, Step, UseStreams
  <2>2. pc'[c] # pc[c] \/ (pc[c] = "open" /\ opened'[c] = opened[c] + 1)
    BY TurnsGoOn
  <2> QED BY <2>1, <2>2 DEF Path
<1>3. NeedsNobody /\ pc[c] = "lock2"
         => ENABLED <<InitKeys(c) \/ TakeLocks(c) \/ Open(c)>>_vars
  BY DEF NeedsNobody, Initialising, Watching
<1>4. Fairness => WF_vars(InitKeys(c) \/ TakeLocks(c) \/ Open(c))
  BY FairnessOf, PTL DEF FairTask
<1>5. QED BY <1>1, <1>2, <1>3, <1>4, Invariance, PTL DEF FairSpec, Spec

\* A stream is created, or is missing.
LEMMA AfterOpen ==
    ASSUME NEW c \in Client, NEW n \in Nat
    PROVE  FairSpec /\ []NeedsNobody =>
              ((pc[c] = "open" /\ opened[c] = n)
                 ~> ((pc[c] = "open" /\ opened[c] = n + 1) \/ pc[c] = "body" \/ pc[c] = "unlock2" \/ pc[c] = "idle"))
<1>1. IInv /\ (pc[c] = "open" /\ opened[c] = n) /\ [Next]_vars
         => ((pc[c] = "open" /\ opened[c] = n))' \/ (((pc[c] = "open" /\ opened[c] = n + 1) \/ pc[c] = "body" \/ pc[c] = "unlock2" \/ pc[c] = "idle"))'
  BY StepsFollowPath DEF Path
<1>2. IInv /\ (pc[c] = "open" /\ opened[c] = n) /\ <<InitKeys(c) \/ TakeLocks(c) \/ Open(c)>>_vars
         => (((pc[c] = "open" /\ opened[c] = n + 1) \/ pc[c] = "body" \/ pc[c] = "unlock2" \/ pc[c] = "idle"))'
  <2> SUFFICES ASSUME IInv, (pc[c] = "open" /\ opened[c] = n), InitKeys(c) \/ TakeLocks(c) \/ Open(c)
               PROVE  (((pc[c] = "open" /\ opened[c] = n + 1) \/ pc[c] = "body" \/ pc[c] = "unlock2" \/ pc[c] = "idle"))'
    OBVIOUS
  <2>1. Path(c)
    BY StepsFollowPath DEF Next, Step, UseStreams
  <2>2. pc'[c] # pc[c] \/ (pc[c] = "open" /\ opened'[c] = opened[c] + 1)
    BY TurnsGoOn
  <2> QED BY <2>1, <2>2 DEF Path
<1>3. NeedsNobody /\ (pc[c] = "open" /\ opened[c] = n)
         => ENABLED <<InitKeys(c) \/ TakeLocks(c) \/ Open(c)>>_vars
  BY DEF NeedsNobody, Initialising, Watching
<1>4. Fairness => WF_vars(InitKeys(c) \/ TakeLocks(c) \/ Open(c))
  BY FairnessOf, PTL DEF FairTask
<1>5. QED BY <1>1, <1>2, <1>3, <1>4, Invariance, PTL DEF FairSpec, Spec

\* The caller leaves its body.
LEMMA AfterBody ==
    ASSUME NEW c \in Client
    PROVE  FairSpec /\ []NeedsNobody =>
              (pc[c] = "body"
                 ~> (pc[c] = "unlock2" \/ pc[c] = "idle"))
<1>1. IInv /\ pc[c] = "body" /\ [Next]_vars
         => (pc[c] = "body")' \/ ((pc[c] = "unlock2" \/ pc[c] = "idle"))'
  BY StepsFollowPath DEF Path
<1>2. IInv /\ pc[c] = "body" /\ <<Release(c)>>_vars
         => ((pc[c] = "unlock2" \/ pc[c] = "idle"))'
  <2> SUFFICES ASSUME IInv, pc[c] = "body", Release(c)
               PROVE  ((pc[c] = "unlock2" \/ pc[c] = "idle"))'
    OBVIOUS
  <2>1. Path(c)
    BY StepsFollowPath DEF Next, Step, UseStreams
  <2>2. pc'[c] # pc[c]
    BY ReleasesGoOn
  <2> QED BY <2>1, <2>2 DEF Path
<1>3. NeedsNobody /\ pc[c] = "body"
         => ENABLED <<Release(c)>>_vars
  BY DEF NeedsNobody, Initialising, Watching
<1>4. Fairness => WF_vars(Release(c))
  BY FairnessOf, PTL DEF FairTask
<1>5. QED BY <1>1, <1>2, <1>3, <1>4, Invariance, PTL DEF FairSpec, Spec

\* The second lock is released.
LEMMA AfterSecondUnlock ==
    ASSUME NEW c \in Client
    PROVE  FairSpec /\ []NeedsNobody =>
              (pc[c] = "unlock2"
                 ~> (pc[c] = "unlock1" \/ pc[c] = "idle"))
<1>1. IInv /\ pc[c] = "unlock2" /\ [Next]_vars
         => (pc[c] = "unlock2")' \/ ((pc[c] = "unlock1" \/ pc[c] = "idle"))'
  BY StepsFollowPath DEF Path
<1>2. IInv /\ pc[c] = "unlock2" /\ <<Release(c)>>_vars
         => ((pc[c] = "unlock1" \/ pc[c] = "idle"))'
  <2> SUFFICES ASSUME IInv, pc[c] = "unlock2", Release(c)
               PROVE  ((pc[c] = "unlock1" \/ pc[c] = "idle"))'
    OBVIOUS
  <2>1. Path(c)
    BY StepsFollowPath DEF Next, Step, UseStreams
  <2>2. pc'[c] # pc[c]
    BY ReleasesGoOn
  <2> QED BY <2>1, <2>2 DEF Path
<1>3. NeedsNobody /\ pc[c] = "unlock2"
         => ENABLED <<Release(c)>>_vars
  BY DEF NeedsNobody, Initialising, Watching
<1>4. Fairness => WF_vars(Release(c))
  BY FairnessOf, PTL DEF FairTask
<1>5. QED BY <1>1, <1>2, <1>3, <1>4, Invariance, PTL DEF FairSpec, Spec

\* The first lock is released.
LEMMA AfterFirstUnlock ==
    ASSUME NEW c \in Client
    PROVE  FairSpec /\ []NeedsNobody =>
              (pc[c] = "unlock1"
                 ~> pc[c] = "idle")
<1>1. IInv /\ pc[c] = "unlock1" /\ [Next]_vars
         => (pc[c] = "unlock1")' \/ (pc[c] = "idle")'
  BY StepsFollowPath DEF Path
<1>2. IInv /\ pc[c] = "unlock1" /\ <<Release(c)>>_vars
         => (pc[c] = "idle")'
  <2> SUFFICES ASSUME IInv, pc[c] = "unlock1", Release(c)
               PROVE  (pc[c] = "idle")'
    OBVIOUS
  <2>1. Path(c)
    BY StepsFollowPath DEF Next, Step, UseStreams
  <2>2. pc'[c] # pc[c]
    BY ReleasesGoOn
  <2> QED BY <2>1, <2>2 DEF Path
<1>3. NeedsNobody /\ pc[c] = "unlock1"
         => ENABLED <<Release(c)>>_vars
  BY DEF NeedsNobody, Initialising, Watching
<1>4. Fairness => WF_vars(Release(c))
  BY FairnessOf, PTL DEF FairTask
<1>5. QED BY <1>1, <1>2, <1>3, <1>4, Invariance, PTL DEF FairSpec, Spec

-----------------------------------------------------------------------------
(* The stretches put together.                                             *)

\* Once the caller is left, or an error is raised, the locks are released.
LEMMA ReleaseEnds ==
    ASSUME NEW c \in Client
    PROVE  FairSpec /\ []NeedsNobody =>
              (pc[c] = "body" \/ pc[c] = "unlock2" \/ pc[c] = "unlock1" ~> pc[c] = "idle")
  BY AfterBody, AfterSecondUnlock, AfterFirstUnlock, PTL

\* The creation of the streams, four at most, comes to an end.
LEMMA OpenEnds ==
    ASSUME NEW c \in Client
    PROVE  FairSpec /\ []NeedsNobody => (pc[c] = "open" ~> pc[c] = "idle")
<1>1. IInv /\ pc[c] = "open" => \/ pc[c] = "open" /\ opened[c] = 0
                                \/ pc[c] = "open" /\ opened[c] = 1
                                \/ pc[c] = "open" /\ opened[c] = 2
                                \/ pc[c] = "open" /\ opened[c] = 3
  BY DEF IInv, TypeOK, Bookkeeping, Creates
<1>2. IInv => ~(pc[c] = "open" /\ opened[c] = 4)
  BY DEF IInv, Bookkeeping, Creates
<1> DEFINE Opened(n)   == pc[c] = "open" /\ opened[c] = n
           Advances(n) == Opened(n) ~> Opened(n + 1) \/ pc[c] = "idle"
<1>3. ASSUME NEW n \in Nat PROVE FairSpec /\ []NeedsNobody => Advances(n)
  BY AfterOpen, ReleaseEnds, PTL
<1> HIDE DEF Opened, Advances
<1>4. FairSpec /\ []NeedsNobody => Advances(0) /\ Advances(1) /\ Advances(2) /\ Advances(3)
  BY <1>3
<1>5. /\ Opened(0 + 1) => Opened(1)
      /\ Opened(1 + 1) => Opened(2)
      /\ Opened(2 + 1) => Opened(3)
      /\ IInv => ~Opened(3 + 1)
      /\ IInv /\ pc[c] = "open" => Opened(0) \/ Opened(1) \/ Opened(2) \/ Opened(3)
  BY <1>1, <1>2 DEF Opened
<1>6. QED
  BY <1>4, <1>5, Invariance, PTL DEF FairSpec, Spec, Advances

\* Waiting for the locks comes to an end.
LEMMA LocksEnd ==
    ASSUME NEW c \in Client
    PROVE  FairSpec /\ []NeedsNobody =>
              (pc[c] = "lock1" \/ pc[c] = "lock2" ~> pc[c] = "idle")
  BY AfterFirstLock, AfterSecondLock, OpenEnds, ReleaseEnds, PTL

\* One trial of the transaction of init_stream_keys, from its WATCH on, comes to an
\* end: the call is over, or the next trial begins.
LEMMA TrialEnds ==
    ASSUME NEW c \in Client, NEW n \in Nat
    PROVE  FairSpec /\ []NeedsNobody =>
              (pc[c] = "watch" /\ trial[c] = n
                 ~> pc[c] = "idle" \/ (pc[c] = "watch" /\ trial[c] = n + 1))
  BY AfterWatch, AfterExists0, AfterExists1, AfterTtl, AfterExec, LocksEnd, OpenEnds, PTL

\* With a max_retry of at most 3, which is what every caller of get_streams gets, a
\* call comes to an end, whatever other tasks, owners, crashes and deadlines do.
THEOREM CallsEnd ==
    ASSUME MaxRetry <= 3
    PROVE  FairSpec /\ []NeedsNobody => CallEnds
<1>1. ASSUME NEW c \in Client
      PROVE  FairSpec /\ []NeedsNobody => (pc[c] = "watch" ~> pc[c] = "idle")
  <2> DEFINE Trial(n)    == pc[c] = "watch" /\ trial[c] = n
             Advances(n) == Trial(n) ~> pc[c] = "idle" \/ Trial(n + 1)
  <2>1. ASSUME NEW n \in Nat PROVE FairSpec /\ []NeedsNobody => Advances(n)
    BY TrialEnds, PTL
  <2>2. IInv /\ pc[c] = "watch" => Trial(0) \/ Trial(1) \/ Trial(2)
    BY DEF IInv, TypeOK, Bookkeeping, Initialising
  <2>3. (Trial(0 + 1) => Trial(1)) /\ (Trial(1 + 1) => Trial(2)) /\ (IInv => ~Trial(2 + 1))
    BY DEF IInv, TypeOK, Bookkeeping, Initialising
  <2> HIDE DEF Trial, Advances
  <2>4. FairSpec /\ []NeedsNobody => Advances(0) /\ Advances(1) /\ Advances(2)
    BY <2>1
  <2>5. QED
    BY <2>2, <2>3, <2>4, Invariance, PTL DEF FairSpec, Spec, Advances
<1>2. QED BY <1>1 DEF CallEnds

=============================================================================
