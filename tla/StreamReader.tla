---------------------------- MODULE StreamReader ----------------------------
(***************************************************************************)
(* One ReadStream object (chatbone/broker.py) and the Redis stream it      *)
(* reads: bind, read and "async for", with the writer, its trimming, and   *)
(* the deletion and re-creation of the key around it.                      *)
(*                                                                         *)
(* Entries are numbered in the order of their ids, whatever becomes of     *)
(* them: the stream holds the entries low+1 .. last.  Several tasks may    *)
(* share the object: read takes the checkpoint before it awaits Redis and  *)
(* stores it after the decoding, which awaits a thread for every entry.    *)
(***************************************************************************)
EXTENDS Integers

CONSTANTS
    Task,         \* the tasks that call read on the object
    Counts,       \* the values of count: how many entries one read may return
    Given,        \* the checkpoints that callers pass to read itself
    MaxEntries,   \* bound: entries added to the stream
    MaxBinds,     \* bound: calls of bind
    MaxGiven      \* bound: reads with a given checkpoint

ASSUME CountsAssumption == Counts \subseteq Nat \ {0} /\ 1 \in Counts
ASSUME GivenAssumption  == Given \subseteq {0}
ASSUME BoundAssumption  == MaxEntries \in Nat /\ MaxBinds \in Nat /\ MaxGiven \in Nat

VARIABLES
    exists,       \* the stream key exists
    last,         \* id of the newest entry ever added
    low,          \* entries up to this id are trimmed or deleted
    checkpoint,   \* _checkpoint_id: an id, or Newest
    count,        \* _count
    save,         \* _save_checkpoint
    binds,        \* calls of bind so far
    pc,           \* per task: "idle", "blocked" in XREAD, or "decode"
    batch,        \* per task: ids that XREAD returned, being decoded
    start,        \* the checkpoint of the last bind
    delivered,    \* ids that read has returned since the last bind
    given,        \* reads with a given checkpoint so far
    alone,        \* since the last bind one task read at a time, and gave no checkpoint
    gone          \* ids that were trimmed before the object could return them

store  == <<exists, last, low>>
object == <<checkpoint, count, save, binds>>
history == <<given, alone>>
vars   == <<store, object, pc, batch, start, delivered, history, gone>>

-----------------------------------------------------------------------------
Newest  == -1                  \* the checkpoint "$"
Entry   == 1 .. MaxEntries
InHand  == UNION {batch[t] : t \in Task}

Init ==
    /\ exists     = TRUE
    /\ last       = 0
    /\ low        = 0
    /\ checkpoint = Newest
    /\ count      = 1
    /\ save       = FALSE
    /\ binds      = 0
    /\ pc         = [t \in Task |-> "idle"]
    /\ batch      = [t \in Task |-> {}]
    /\ start      = Newest
    /\ delivered  = {}
    /\ given      = 0
    /\ alone      = TRUE
    /\ gone       = {}

\* XREAD takes "$" for the newest id at the time it is executed.
After(id) == IF id # Newest THEN id ELSE IF exists THEN last ELSE 0

\* The entries XREAD finds: the first n of those after id that are still there.
Found(id, n) ==
    LET from == IF After(id) > low THEN After(id) ELSE low
    IN  {e \in Entry : from < e /\ e <= last /\ e <= from + n}

\* Variants of Stored: the first id of the batch; the id after the batch.
StoredFirst(ids) == CHOOSE e \in ids : \A f \in ids : e <= f
StoredNext(ids)  == 1 + CHOOSE e \in ids : \A f \in ids : f <= e

\* data[0][1][-1][0]: the id of the last entry of the batch.
Stored(ids) == CHOOSE e \in ids : \A f \in ids : f <= e

-----------------------------------------------------------------------------
(* The object.                                                             *)

\* What is false is as good as not given: "save_checkpoint or self._save_checkpoint".
Saves(flag) == flag = "true" \/ save

\* bind makes a new object, which from here on is the one in use; what is not
\* given is taken from the present one.
Bind(cp, n, flag) ==
    /\ binds < MaxBinds
    /\ \A t \in Task : pc[t] = "idle"
    /\ binds'      = binds + 1
    /\ checkpoint' = cp
    /\ count'      = n
    /\ save'       = Saves(flag)
    /\ start'      = cp
    /\ delivered'  = {}
    /\ gone'       = {e \in Entry : cp # Newest /\ cp < e /\ e <= low}
    /\ alone'      = TRUE
    /\ UNCHANGED <<store, pc, batch, given>>

\* XREAD finds entries.  (A read without block that finds none returns [] and
\* changes nothing.)
ReadNow(t, cp, n) ==
    /\ pc[t] = "idle"
    /\ Found(cp, n) # {}
    /\ pc'    = [pc EXCEPT ![t] = "decode"]
    /\ batch' = [batch EXCEPT ![t] = Found(cp, n)]
    /\ UNCHANGED <<store, object, start, delivered, gone>>

\* __anext__ is read(block=0): without entries the connection waits for one.
ReadBlocks(t, cp, n) ==
    /\ pc[t] = "idle"
    /\ Found(cp, n) = {}
    /\ pc' = [pc EXCEPT ![t] = "blocked"]
    /\ UNCHANGED <<store, object, batch, start, delivered, gone>>

\* The batch is decoded: the checkpoint is stored, if it is to be saved, and the
\* data returned.
Deliver(t) ==
    /\ pc[t] = "decode"
    /\ pc'         = [pc EXCEPT ![t] = "idle"]
    /\ batch'      = [batch EXCEPT ![t] = {}]
    /\ delivered'  = delivered \cup batch[t]
    /\ checkpoint' = IF save THEN Stored(batch[t]) ELSE checkpoint
    /\ UNCHANGED <<store, count, save, binds, start, history, gone>>

\* The task is cancelled while it waits or decodes; nothing is stored.
Cancel(t) ==
    /\ pc[t] # "idle"
    /\ pc'    = [pc EXCEPT ![t] = "idle"]
    /\ batch' = [batch EXCEPT ![t] = {}]
    /\ UNCHANGED <<store, object, start, delivered, history>>
    /\ gone'  = gone \cup {e \in batch[t] : e <= low}

-----------------------------------------------------------------------------
(* The stream.                                                             *)

\* Trimming up to id l loses what no read has in hand or has returned.
Lost(l) == {e \in Entry : e <= l /\ e > low} \ (delivered \cup InHand)

\* XADD NOMKSTREAM with an optional MAXLEN, which may leave any number of the
\* newest entries.  Tasks blocked on the key get the new entry in the same step.
Add ==
    /\ exists
    /\ last < MaxEntries
    /\ last' = last + 1
    /\ \E l \in low .. last + 1 :
         /\ low'  = l
         /\ gone' = gone \cup Lost(l) \cup (IF l = last + 1 THEN {last + 1} ELSE {})
         /\ LET served == {t \in Task : pc[t] = "blocked" /\ l < last + 1} IN
              /\ pc'    = [t \in Task |-> IF t \in served THEN "decode" ELSE pc[t]]
              /\ batch' = [t \in Task |-> IF t \in served THEN {last + 1} ELSE batch[t]]
    /\ UNCHANGED <<exists, object, start, delivered, history>>

\* The key is deleted or expires; a blocked XREAD stays blocked.
Remove ==
    /\ exists
    /\ exists' = FALSE
    /\ low'    = last
    /\ gone'   = gone \cup Lost(last)
    /\ UNCHANGED <<last, object, pc, batch, start, delivered, history>>

\* init_stream_keys: the key is back, empty, with ids that continue.
Create ==
    /\ ~exists
    /\ exists' = TRUE
    /\ UNCHANGED <<last, low, object, pc, batch, start, delivered, history, gone>>

-----------------------------------------------------------------------------
Starts(t, cp, n) == ReadNow(t, cp, n) \/ ReadBlocks(t, cp, n)

\* A read that goes on from the checkpoint of the object, like "async for".
Read(t) ==
    /\ \E n \in {count} \cup Counts : Starts(t, checkpoint, n)
    /\ alone' = (alone /\ \A u \in Task : pc[u] = "idle")
    /\ UNCHANGED given

\* A read from a checkpoint that the caller gives.
ReadFrom(t) ==
    /\ given < MaxGiven
    /\ given' = given + 1
    /\ \E cp \in Given, n \in {count} \cup Counts : Starts(t, cp, n)
    /\ alone' = FALSE

Next ==
    \/ \E t \in Task : Read(t) \/ ReadFrom(t) \/ Deliver(t) \/ Cancel(t)
    \/ Add \/ Remove \/ Create
    \/ \E cp \in {checkpoint, Newest, 0, last}, n \in {count} \cup Counts,
          flag \in {"unset", "true", "false"} : Bind(cp, n, flag)

Spec == Init /\ [][Next]_vars

\* "async for": a task reads again and again, decoding threads end, and a task is
\* not cancelled in every single read.
Fairness == \A t \in Task : WF_vars(Read(t)) /\ SF_vars(Deliver(t))

FairSpec == Spec /\ Fairness

-----------------------------------------------------------------------------
(* Properties.                                                             *)

\* Types and ranges: no checkpoint, and no batch, is ahead of the stream.
TypeOK ==
    /\ exists     \in BOOLEAN
    /\ last       \in 0 .. MaxEntries
    /\ low        \in 0 .. last
    /\ checkpoint \in {Newest} \cup 0 .. last
    /\ count      \in Counts
    /\ save       \in BOOLEAN
    /\ binds      \in 0 .. MaxBinds
    /\ pc         \in [Task -> {"idle", "blocked", "decode"}]
    /\ batch      \in [Task -> SUBSET (1 .. last)]
    /\ \A t \in Task : pc[t] = "decode" <=> batch[t] # {}
    /\ start      \in {Newest} \cup 0 .. last
    /\ delivered  \in SUBSET (1 .. last)
    /\ given      \in 0 .. MaxGiven
    /\ alone      \in BOOLEAN
    /\ gone       \in SUBSET (1 .. last)

\* An object bound to a checkpoint, and saving, skips nothing, also when several
\* tasks read it at the same time: whatever lies between where it was bound and
\* its checkpoint has been returned, is being decoded, or was trimmed before it
\* could be returned.
NothingSkipped ==
    save /\ start # Newest =>
        \A e \in Entry :
            start < e /\ e <= checkpoint => e \in delivered \cup InHand \cup gone

\* What nobody can miss any more: an entry in hand counts only once it is trimmed,
\* because then a cancellation records it.
Accounted == {e \in Entry : e \in delivered \cup gone \/ (e <= low /\ e \in InHand)}

\* The claims about an object that saves its checkpoint and was given one.
Claim == save /\ start # Newest

\* No wake-up is lost: a task is suspended in XREAD BLOCK only while there is nothing
\* that the object has not returned or lost, although the checkpoint it waits after
\* is of an earlier moment, and other tasks and the writer have gone on since.
WaitersHaveAll ==
    Claim => \A t \in Task : pc[t] = "blocked" =>
                \A e \in Entry : start < e /\ e <= last => e \in Accounted

\* The batch that t is about to return continues after what the object has
\* returned before, without repetition and without a gap.
Position == IF delivered = {} THEN start ELSE Stored(delivered)

Follows(t) ==
    /\ \A e \in batch[t] : e > Position
    /\ Position # Newest =>
         \A e \in Entry : Position < e /\ e <= Stored(batch[t]) => e \in batch[t] \cup gone

\* Exactly once and in order, for an object with save_checkpoint that is read by
\* one task at a time, whatever the writer trims, deletes or creates again.
SavedReadsFollow == [][\A t \in Task : Deliver(t) /\ save /\ alone => Follows(t)]_vars

\* The object, and every batch that may still be stored, has reached entry k.
Reached(k) ==
    /\ checkpoint >= k
    /\ \A t \in Task : batch[t] # {} => \E b \in batch[t] : b >= k

\* Tasks that share the object can move its checkpoint back, but never behind a point
\* that it and all batches in hand have reached, unless somebody binds it anew or
\* gives a checkpoint: this is why the object does not go in circles for ever.
KeepsGround ==
    [][\A k \in Entry :
          Reached(k) /\ UNCHANGED <<binds, given>> => Reached(k)']_vars

\* Every entry added after the checkpoint of a saving object is returned in the
\* end, unless it is trimmed first, also when tasks that share the object move
\* the checkpoint back.
EveryEntryArrives ==
    \A e \in Entry :
        save /\ binds = MaxBinds /\ start # Newest /\ start < e /\ e <= last
            ~> e \in delivered \cup gone

=============================================================================
