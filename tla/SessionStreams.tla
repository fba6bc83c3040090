--------------------------- MODULE SessionStreams ---------------------------
(***************************************************************************)
(* The pair of Redis streams of one chat session (chatbone/broker.py) and  *)
(* the tasks that use it: ChatSessionData.get_streams, the optimistic      *)
(* transaction of init_stream_keys, expire_sync, the pair of write locks,  *)
(* WriteStream.write, and UserData.save / expire / delete on the user key  *)
(* the streams must live and die with.                                     *)
(*                                                                         *)
(* Redis executes one command, or one MULTI/EXEC block, at a time, so an   *)
(* action is one round trip to the server together with the Python code up *)
(* to the next await.  Time advances in half seconds (see RedisLife): a    *)
(* key with less than half a second left answers TTL 0, which the code     *)
(* treats like a persistent key.                                           *)
(***************************************************************************)
EXTENDS Integers, RedisLife

CONSTANTS
    Client,           \* tasks (of any process) that call get_streams
    Mode,             \* the roles asked for: subset of {"all", "write", "read"}
    MaxTtl,           \* bound: the longest EXPIRE, in seconds
    MaxLen,           \* bound: the longest stream
    MaxRetry,         \* max_retry of init_stream_keys (3 in the code)
    RaiseOnSingleKey, \* raise_if_only_one_key_exists of init_stream_keys
    Free,             \* "this lock key does not exist"
    Dead              \* "this lock key holds the token of a crashed task"

ASSUME ModeAssumption   == Mode \subseteq {"all", "write", "read"}
ASSUME BoundsAssumption == MaxTtl \in Nat /\ MaxLen \in Nat /\ MaxRetry \in Nat \ {0}
ASSUME RaiseAssumption  == RaiseOnSingleKey \in BOOLEAN
ASSUME OwnerAssumption  == Free \notin Client /\ Dead \notin Client /\ Free # Dead

VARIABLES
    life,     \* per key: Absent, Persistent, or the half seconds left
    len,      \* per stream key: number of entries
    lock,     \* per stream key: the owner of "<key>:<LOCK>"
    pc,       \* per task: where it is in get_streams
    mode,     \* per task: the role it asked for
    seen,     \* per task: the stream keys its two EXISTS found
    ttl,      \* per task: the answer of TTL on the user key
    dirty,    \* per task: a WATCHed key was modified since WATCH
    trial,    \* per task: trial_time of init_stream_keys
    opened,   \* per task: number of Stream._create calls that returned
    outcome   \* per task: the error its last call of get_streams ended with

locals == <<mode, seen, ttl, trial, opened, outcome>>
vars   == <<life, len, lock, pc, dirty, locals>>

-----------------------------------------------------------------------------
(* Redis keys, their lifetimes, and the commands used on them.             *)

Streams == {"cs2as", "as2cs"}
Keys    == Streams \cup {"user"}

Lives    == -1 .. 2 * MaxTtl
Labels   == {"idle", "watch", "exists0", "exists1", "ttl", "exec", "lock1", "lock2",
             "open", "body", "unlock2", "unlock1"}
Outcomes == {"none", "LockError", "PairError", "RetryError", "AssertionError", "KeyError"}

Exists(k) == life[k] # Absent

Ttl(k) == SecondsLeft(life[k])

\* What expire_cascade leaves of key k.
Cascaded(k, seconds) == Relived(life[k], seconds)

\* Variant of Watching: WATCH is sent after the two EXISTS.
WatchingLate == {"ttl", "exec"}

\* A task watches both stream keys from the answer of WATCH to that of EXEC.
Watching == {"exists0", "exists1", "ttl", "exec"}

\* A modified key makes the EXEC of every connection that watches it fail.
Signal(K) ==
    dirty' = [c \in Client |-> /\ pc'[c] \in Watching
                               /\ dirty[c] \/ K \cap Streams # {}]

-----------------------------------------------------------------------------
\* A session is bound to a saved user; whether the streams exist is another
\* matter.  (A session whose user is gone meanwhile can still be used.)
Init ==
    /\ life    = [k \in Keys |-> IF k = "user" THEN Persistent ELSE Absent]
    /\ len     = [s \in Streams |-> 0]
    /\ lock    = [s \in Streams |-> Free]
    /\ pc      = [c \in Client |-> "idle"]
    /\ mode    = [c \in Client |-> "read"]
    /\ seen    = [c \in Client |-> {}]
    /\ ttl     = [c \in Client |-> -2]
    /\ dirty   = [c \in Client |-> FALSE]
    /\ trial   = [c \in Client |-> 0]
    /\ opened  = [c \in Client |-> 0]
    /\ outcome = [c \in Client |-> "none"]

Goto(c, label) == pc' = [pc EXCEPT ![c] = label]

\* A step of a task that modifies no key.
Move(c, label) == Goto(c, label) /\ Signal({}) /\ UNCHANGED <<life, len>>

\* get_streams ends (or starts to release its locks) with an error or "none".
End(c, label, result) ==
    /\ Move(c, label)
    /\ outcome' = [outcome EXCEPT ![c] = result]
    /\ seen'    = [seen EXCEPT ![c] = {}]
    /\ ttl'     = [ttl EXCEPT ![c] = -2]
    /\ opened'  = [opened EXCEPT ![c] = 0]

-----------------------------------------------------------------------------
(* init_stream_keys.                                                       *)

Call(c, m) ==
    /\ pc[c] = "idle"
    /\ Move(c, "watch")
    /\ mode'    = [mode EXCEPT ![c] = m]
    /\ trial'   = [trial EXCEPT ![c] = 0]
    /\ outcome' = [outcome EXCEPT ![c] = "none"]
    /\ UNCHANGED <<lock, seen, ttl, opened>>

\* WATCH of both keys; from here on a modification dooms the EXEC.
Watch(c) ==
    /\ pc[c] = "watch"
    /\ Move(c, "exists0")
    /\ seen' = [seen EXCEPT ![c] = {}]
    /\ ttl'  = [ttl EXCEPT ![c] = -2]
    /\ UNCHANGED <<lock, mode, trial, opened, outcome>>

\* First EXISTS, of the cs2as key.
Exists0(c) ==
    /\ pc[c] = "exists0"
    /\ Move(c, "exists1")
    /\ seen' = [seen EXCEPT ![c] = {s \in {"cs2as"} : Exists(s)}]
    /\ UNCHANGED <<lock, mode, ttl, trial, opened, outcome>>

\* Second EXISTS, a command of its own, and the decision taken from the two.
Exists1(c) ==
    LET found == seen[c] \cup {s \in {"as2cs"} : Exists(s)} IN
    /\ pc[c] = "exists1"
    /\ IF RaiseOnSingleKey /\ found \notin {{}, Streams}
          THEN End(c, "idle", "PairError")
          ELSE /\ Move(c, IF found = Streams THEN "exec" ELSE "ttl")
               /\ seen' = [seen EXCEPT ![c] = found]
               /\ UNCHANGED <<ttl, opened, outcome>>
    /\ UNCHANGED <<lock, mode, trial>>

\* expire_sync reads the TTL of the user key outside the transaction.
ReadTtl(c) ==
    /\ pc[c] = "ttl"
    /\ Move(c, "exec")
    /\ ttl' = [ttl EXCEPT ![c] = Ttl("user")]
    /\ UNCHANGED <<lock, mode, seen, trial, opened, outcome>>

\* Variant of Missing: only the first key is created.
MissingFirst(c) == {"cs2as"} \ seen[c]

\* The keys whose creation is queued between MULTI and EXEC.
Missing(c) == Streams \ seen[c]

\* Variant of AfterInit: the default role (read and write) takes no lock.
AfterInitWriteOnly(c) == IF mode[c] = "write" THEN "lock1" ELSE "open"

\* get_streams takes locks when a write role is asked for.
Writes(c)    == mode[c] # "read"
AfterInit(c) == IF Writes(c) THEN "lock1" ELSE "open"

\* Variant of Clean: MULTI and EXEC without WATCH.
CleanAlways(c) == TRUE

\* Variant of Clean: no EXEC when both keys were found.
CleanOrBoth(c) == ~dirty[c] \/ seen[c] = Streams

\* EXEC succeeds, also with nothing queued, only if no watched key was modified.
Clean(c) == ~dirty[c]

\* EXEC of the queued XADD MAXLEN ~ 0 (which empties an existing stream) and
\* of the EXPIRE or PERSIST of the new keys and of the user key.
ExecCommit(c) ==
    /\ pc[c] = "exec"
    /\ Clean(c)
    /\ Goto(c, AfterInit(c))
    /\ life' = [k \in Keys |->
                  CASE k \in Missing(c)                 -> Lifespan(ttl[c])
                    [] k = "user" /\ Missing(c) # {}    -> Cascaded(k, ttl[c])
                    [] OTHER                            -> life[k]]
    /\ len'  = [s \in Streams |-> IF s \in Missing(c) THEN 0 ELSE len[s]]
    /\ Signal(Missing(c))
    /\ seen' = [seen EXCEPT ![c] = {}]
    /\ ttl'  = [ttl EXCEPT ![c] = -2]
    /\ UNCHANGED <<lock, mode, trial, opened, outcome>>

\* Variant of TriesAgain: <= in place of <.
TriesOnceMore(c) == trial[c] < MaxRetry

\* trial_time < max_retry, once trial_time is incremented.
TriesAgain(c) == trial[c] + 1 < MaxRetry

\* EXEC answers nil: WatchError, and a new trial unless max_retry is reached.
ExecAbort(c) ==
    /\ pc[c] = "exec"
    /\ ~Clean(c)
    /\ trial' = [trial EXCEPT ![c] = @ + 1]
    /\ IF TriesAgain(c)
          THEN Move(c, "watch") /\ UNCHANGED <<seen, ttl, opened, outcome>>
          ELSE End(c, "idle", "RetryError")
    /\ UNCHANGED <<lock, mode>>

-----------------------------------------------------------------------------
(* get_streams: the two locks, the streams, the caller's body, the exit.   *)

\* The lock of cs2as, then the lock of as2cs.
FirstLock(c) ==
    /\ pc[c] = "lock1"
    /\ lock["cs2as"] = Free
    /\ lock' = [lock EXCEPT !["cs2as"] = c]
    /\ Move(c, "lock2")
    /\ UNCHANGED locals

SecondLock(c) ==
    /\ pc[c] = "lock2"
    /\ lock["as2cs"] = Free
    /\ lock' = [lock EXCEPT !["as2cs"] = c]
    /\ Move(c, "open")
    /\ UNCHANGED locals

\* Variant of LockTimeout: no blocking_timeout.
WaitForEver(c) == FALSE /\ UNCHANGED vars

\* blocking_timeout is over and the last attempt found the lock taken.  (With
\* raise_on_write_streams_acquire_fail=False the generator ends without a yield
\* and the caller gets the RuntimeError of contextlib in place of LockError.)
LockTimeout(c) ==
    /\ \/ pc[c] = "lock1" /\ lock["cs2as"] # Free /\ End(c, "idle", "LockError")
       \/ pc[c] = "lock2" /\ lock["as2cs"] # Free /\ End(c, "unlock1", "LockError")
    /\ UNCHANGED <<lock, mode, trial>>

\* Variant of Exit: leaving does not release.
ExitKeepingLocks(c) == "idle"

\* Where an exception or the normal exit of the body leads.
Exit(c) == IF Writes(c) THEN "unlock2" ELSE "idle"

\* _create runs per role on as2cs then on cs2as and asserts that the key exists.
Creates(c)  == IF mode[c] = "all" THEN 4 ELSE 2
NextOpen(c) == IF opened[c] \in {0, 2} THEN "as2cs" ELSE "cs2as"

Open(c) ==
    /\ pc[c] = "open"
    /\ IF Exists(NextOpen(c))
          THEN /\ opened' = [opened EXCEPT ![c] = @ + 1]
               /\ Move(c, IF opened[c] + 1 = Creates(c) THEN "body" ELSE "open")
               /\ UNCHANGED <<seen, ttl, outcome>>
          ELSE End(c, Exit(c), "AssertionError")
    /\ UNCHANGED <<lock, mode, trial>>

\* WriteStream.write: XADD NOMKSTREAM, with an optional approximate MAXLEN that
\* may leave any number of the newest entries.
Write(c, s) ==
    /\ pc[c] = "body"
    /\ Writes(c)
    /\ Exists(s)
    /\ \E n \in 0 .. len[s] + 1 : n <= MaxLen /\ len' = [len EXCEPT ![s] = n]
    /\ UNCHANGED pc
    /\ Signal({s})
    /\ UNCHANGED <<life, lock, locals>>

\* XADD NOMKSTREAM answers nil: KeyError leaves the body.
WriteFail(c, s) ==
    /\ pc[c] = "body"
    /\ Writes(c)
    /\ ~Exists(s)
    /\ End(c, "unlock2", "KeyError")
    /\ UNCHANGED <<lock, mode, trial>>

Leave(c) ==
    /\ pc[c] = "body"
    /\ End(c, Exit(c), "none")
    /\ UNCHANGED <<lock, mode, trial>>

\* Variant of SecondUnlock: released in the order of acquisition.
UnlockSwapped(c) ==
    /\ pc[c] = "unlock2"
    /\ lock' = [lock EXCEPT !["cs2as"] = Free]
    /\ Move(c, "unlock1")
    /\ UNCHANGED locals

\* AsyncExitStack releases in the reverse order: as2cs, then cs2as.
SecondUnlock(c) ==
    /\ pc[c] = "unlock2"
    /\ lock' = [lock EXCEPT !["as2cs"] = Free]
    /\ Move(c, "unlock1")
    /\ UNCHANGED locals

FirstUnlock(c) ==
    /\ pc[c] = "unlock1"
    /\ lock' = [lock EXCEPT !["cs2as"] = Free]
    /\ Move(c, "idle")
    /\ UNCHANGED locals

\* The process dies: its connections (and WATCHes) are gone, its lock tokens,
\* taken with timeout=None, stay in Redis.
Crash(c) ==
    /\ pc[c] # "idle"
    /\ lock' = [s \in Streams |-> IF lock[s] = c THEN Dead ELSE lock[s]]
    /\ End(c, "idle", "none")
    /\ UNCHANGED <<mode, trial>>

-----------------------------------------------------------------------------
(* UserData: the owner of the user key, and time.                          *)

\* save: JSON.SET NX; an existing document is left as it is.
UserSave ==
    /\ ~Exists("user")
    /\ life' = [life EXCEPT !["user"] = Persistent]
    /\ UNCHANGED pc
    /\ Signal({"user"})
    /\ UNCHANGED <<len, lock, locals>>

\* The keys an expire or a delete reaches: those of the chat sessions that the
\* object at hand has loaded (chat sessions are loaded lazily).
SubKeys(loaded) == {"user"} \cup (IF loaded THEN Streams ELSE {})

UserExpire(seconds, loaded) ==
    /\ life' = [k \in Keys |-> IF k \in SubKeys(loaded) THEN Cascaded(k, seconds)
                                                        ELSE life[k]]
    /\ UNCHANGED pc
    /\ Signal({k \in SubKeys(loaded) : Exists(k) /\ (seconds > 0 \/ life[k] # Persistent)})
    /\ UNCHANGED <<len, lock, locals>>

UserDelete(loaded) ==
    /\ life' = [k \in Keys |-> IF k \in SubKeys(loaded) THEN Absent ELSE life[k]]
    /\ len'  = [s \in Streams |-> IF s \in SubKeys(loaded) THEN 0 ELSE len[s]]
    /\ UNCHANGED pc
    /\ Signal({k \in SubKeys(loaded) : Exists(k)})
    /\ UNCHANGED <<lock, locals>>

\* Half a second passes; a key that has none left is gone.
Tick ==
    /\ \E k \in Keys : life[k] > 0
    /\ life' = [k \in Keys |-> Aged(life[k])]
    /\ len'  = [s \in Streams |-> IF life[s] = 1 THEN 0 ELSE len[s]]
    /\ UNCHANGED pc
    /\ Signal({k \in Keys : life[k] = 1})
    /\ UNCHANGED <<lock, locals>>

-----------------------------------------------------------------------------
InitKeys(c) == Watch(c) \/ Exists0(c) \/ Exists1(c) \/ ReadTtl(c)
                 \/ ExecCommit(c) \/ ExecAbort(c)

TakeLocks(c) == FirstLock(c) \/ SecondLock(c) \/ LockTimeout(c)

UseStreams(c) == Open(c) \/ \E s \in Streams : Write(c, s) \/ WriteFail(c, s)

Release(c) == Leave(c) \/ SecondUnlock(c) \/ FirstUnlock(c)

Step(c) == InitKeys(c) \/ TakeLocks(c) \/ UseStreams(c) \/ Release(c)

Owner == \/ UserSave
         \/ \E loaded \in BOOLEAN :
              \/ UserDelete(loaded)
              \/ \E seconds \in -1 .. MaxTtl : UserExpire(seconds, loaded)

Next == \/ \E c \in Client : Step(c) \/ Crash(c) \/ \E m \in Mode : Call(c, m)
        \/ Owner
        \/ Tick

Spec == Init /\ [][Next]_vars

\* A task that is not suspended on the caller is run again by the event loop and
\* gets its answers from Redis; a caller does leave the body of its "async with".
\* Nothing makes a task call get_streams, crash, or write.
FairTask(c) == /\ WF_vars(InitKeys(c) \/ TakeLocks(c) \/ Open(c))
               /\ WF_vars(Release(c))

Fairness == \A c \in Client : FairTask(c)

FairSpec == Spec /\ Fairness

-----------------------------------------------------------------------------
(* Properties.                                                             *)

\* Types and ranges of the state; trial_time never exceeds max_retry.
TypeOK ==
    /\ life    \in [Keys -> Lives]
    /\ len     \in [Streams -> Nat]
    /\ lock    \in [Streams -> Client \cup {Free, Dead}]
    /\ pc      \in [Client -> Labels]
    /\ mode    \in [Client -> {"all", "write", "read"}]
    /\ seen    \in [Client -> SUBSET Streams]
    /\ ttl     \in [Client -> -2 .. MaxTtl]
    /\ dirty   \in [Client -> BOOLEAN]
    /\ trial   \in [Client -> 0 .. MaxRetry]
    /\ opened  \in [Client -> 0 .. 4]
    /\ outcome \in [Client -> Outcomes]

\* The stream keys of a session come and go together and have the same time to
\* live, whatever creations, expirations, deletions and deadlines interleave:
\* what init_stream_keys takes for granted when it looks at them one by one.
PairInSync == life["cs2as"] = life["as2cs"]

\* Where a task stands decides which of the two write locks it owns, on every
\* path through get_streams: no error path keeps a lock it took, none releases
\* a lock it does not own.
HoldsSecond(c) == pc[c] = "unlock2" \/ (pc[c] \in {"open", "body"} /\ Writes(c))
HoldsFirst(c)  == pc[c] \in {"lock2", "unlock1"} \/ HoldsSecond(c)

LocksMatchProgress ==
    \A c \in Client : /\ (lock["cs2as"] = c) <=> HoldsFirst(c)
                      /\ (lock["as2cs"] = c) <=> HoldsSecond(c)

\* At most one task is inside get_streams with write streams (the 'write' role
\* of the docstring), from the creation of its streams to the end of its body.
OneWriter ==
    \A c, d \in Client : /\ pc[c] \in {"open", "body"} /\ Writes(c)
                         /\ pc[d] \in {"open", "body"} /\ Writes(d)
                         => c = d

\* The task that owns the first lock never waits for a live owner of the second
\* (the order of release makes it so): no blocking_timeout is spent there unless
\* a task died with the lock.
NoHoldAndWait ==
    \A c \in Client : pc[c] = "lock2" => lock["as2cs"] \in {Free, Dead}

\* A pending transaction whose WATCH is still clean knows the keys as they are.
CleanWatch ==
    \A c \in Client : ~dirty[c] =>
        /\ pc[c] = "exists1"         => seen[c] = {s \in {"cs2as"} : Exists(s)}
        /\ pc[c] \in {"ttl", "exec"} => seen[c] = {s \in Streams : Exists(s)}

\* Bookkeeping the other invariants rest on: a stream that does not exist has no
\* entries, only tasks with a write role get to the locks, and the two counters
\* stay below their limits.
Initialising == {"watch"} \cup Watching

Bookkeeping ==
    /\ \A s \in Streams : ~Exists(s) => len[s] = 0
    /\ \A c \in Client :
         /\ pc[c] \in {"lock1", "lock2", "unlock2", "unlock1"} => Writes(c)
         /\ pc[c] \in Initialising                           => trial[c] < MaxRetry
         /\ pc[c] \notin {"open", "body"}                     => opened[c] = 0
         /\ pc[c] = "open"                                   => opened[c] < Creates(c)

\* The inductive invariant: types, the pair, who owns which lock, what a clean
\* transaction knows, and the bookkeeping.
IInv == TypeOK /\ PairInSync /\ LocksMatchProgress /\ CleanWatch /\ Bookkeeping

\* init_stream_keys returns only at an instant at which both streams exist.
InitMakesBoth ==
    [][\A c \in Client : pc[c] = "exec" /\ pc'[c] \in {"lock1", "open"}
                           => \A s \in Streams : life'[s] # Absent]_vars

\* Entries of a stream that survives a step change only in a write by the task
\* that owns both locks.  In particular the XADD MAXLEN 0 that creates a stream
\* never empties one that a faster task has created and written to.
ChangedOnlyUnderLock ==
    [][\A s \in Streams : Exists(s) /\ life'[s] # Absent /\ len'[s] # len[s]
         => \E c \in Client : Write(c, s) /\ \A t \in Streams : lock[t] = c]_vars

\* Nowhere does get_streams depend on another task to go on: the locks have a time
\* limit, every answer of Redis has its continuation, and a release never waits.
NeedsNobody ==
    \A c \in Client :
        /\ pc[c] \in Initialising \cup {"lock1", "lock2", "open"} =>
              ENABLED <<InitKeys(c) \/ TakeLocks(c) \/ Open(c)>>_vars
        /\ pc[c] \in {"body", "unlock2", "unlock1"} => ENABLED <<Release(c)>>_vars

\* A call of get_streams comes to an end, whatever the other tasks, the crashes
\* and the deadlines do, provided callers leave their bodies: retries and
\* waiting for locks are bounded.
CallEnds == \A c \in Client : pc[c] = "watch" ~> pc[c] = "idle"

\* The pair and its writer, as the detailed state shows them: the lock taken
\* second and released first is the write role.
Pair == INSTANCE StreamPair WITH
            Stream <- Streams,
            exists <- Exists("cs2as"),
            writer <- lock["as2cs"]

\* get_streams, init_stream_keys, write and the owner's commands implement the
\* abstract pair of streams with one writer.
ImplementsPair == Pair!Spec

-----------------------------------------------------------------------------
(* What comments of the code say and the code does not do.                 *)

\* "Create and expire a stream key if it does not exist" (init_stream_keys), and
\* "Expire all Models sync with this object's main rkey lifetime" (expire_sync):
\* new streams have the time to live of the user key, are not left alone without
\* it, and do not make it permanent.
NewStreamsFollowUser ==
    [][\A c \in Client : ExecCommit(c) /\ Missing(c) # {}
          => /\ life'["cs2as"] = life'["user"]
             /\ life["user"] > 0 => life'["user"] # Persistent]_vars

=============================================================================
