------------------------------ MODULE MboxQueue ------------------------------
(***************************************************************************)
(* The message ring of one kernel mailbox (mailbox_framework/kernel/       *)
(* mbox_kern.c): mbox_enqueue and mbox_dequeue as the write, read, ioctl   *)
(* and poll handlers call them, with the spinlock, the wait queue, and the *)
(* memory the entries overlay.  What a call returns is kept as the reason  *)
(* it ended, not as the number the handlers make of it.                    *)
(*                                                                         *)
(* Memory.  mbox_get_entry strides by sizeof(struct mbox_msg_entry), the   *)
(* 20-byte header alone, so entry s starts at cell s of an array of        *)
(* 20-byte cells and its payload lies in cells s+1, s+2, ...               *)
(* A payload is measured in cells; one that fills a cell partly is counted *)
(* as overwriting it whole, and a header read from an overwritten cell has *)
(* arbitrary fields.                                                       *)
(***************************************************************************)
EXTENDS Integers

CONSTANTS Depth,        \* queue->depth, number of slots
          MsgCells,     \* queue->msg_size, in cells
          Channels,     \* channel numbers that are sent on
          Masks,        \* channel masks readers use, as sets of channels
          Timeouts,     \* timeout_ms classes: subset of Timeout
          Readers, Writers,
          MaxSent,      \* bound on total_sent
          MaxDropped    \* bound on messages_dropped

Timeout == {"none", "finite", "infinite"}     \* timeout_ms = 0, > 0, < 0

ASSUME ConstantsOK ==
    /\ Depth \in Nat \ {0}
    /\ MsgCells \in Nat
    /\ Channels \subseteq Nat
    /\ Masks \subseteq SUBSET Channels
    /\ Channels \in Masks
    /\ Timeouts \subseteq Timeout
    /\ MaxSent \in Nat
    /\ MaxDropped \in Nat

VARIABLES
    mem,                \* contents of the cells that follow the queue header
    head, tail, count,  \* queue->head, tail, count
    totalSent, totalRecv, dropped,  \* total_sent, total_recv, messages_dropped
    flushed,            \* ghost: sum of the counts FLUSH has thrown away
    fdMask,             \* fd->channel_mask of each reader's descriptor
    rpc, call, res,     \* each reader: where it is, its arguments, its result
    wpc                 \* each writer: where it is

ringVars   == <<mem, head, tail, count, totalSent, totalRecv, flushed>>
readerVars == <<fdMask, rpc, call, res>>
vars == <<ringVars, dropped, readerVars, wpc>>

MBOX_ERR_NOBUFS == -5

-----------------------------------------------------------------------------
(* The ring. *)

Addr == 0 .. Depth - 1 + MsgCells
Cell == [kind : {"zero", "header", "payload"}, id : Nat, chan : Nat, len : Nat]

ZeroCell          == [kind |-> "zero", id |-> 0, chan |-> 0, len |-> 0]
Header(id, c, n)  == [kind |-> "header", id |-> id, chan |-> c, len |-> n]
Payload(id, k)    == [kind |-> "payload", id |-> id, chan |-> 0, len |-> k]

Slot(i) == i % Depth
Live    == tail .. head - 1

\* The payload copy stops one cell short.
Stored_ShortCopy(s, id, c, n) ==
    [a \in Addr |-> IF a = s THEN Header(id, c, n)
                    ELSE IF a \in s + 1 .. s + n - 1 THEN Payload(id, a - s)
                    ELSE mem[a]]

\* The cells after entry s has been filled with message id on channel c with n cells.
Stored(s, id, c, n) ==
    [a \in Addr |-> IF a = s THEN Header(id, c, n)
                    ELSE IF a \in s + 1 .. s + n THEN Payload(id, a - s)
                    ELSE mem[a]]

\* Whether the header in cell a can, or can fail to, select a mask.  An
\* overwritten header can do either.
MayMatch(a, mask) == mem[a].kind = "payload" \/ mem[a].chan \in mask
MayMiss(a, mask)  == mem[a].kind = "payload" \/ mem[a].chan \notin mask

\* The scan does not stop at head.
Scanned_PastHead == tail .. tail + Depth - 1

\* The entries a scan visits, from tail, at most Depth of them, short of head.
Scanned == {i \in Live : i - tail < Depth}

\* The tail after the entry at index i was taken; moved by one slot only, the
\* entries between it and i, and i itself, would be met again.
TailAfter_One(i) == tail + 1
TailAfter(i) == i + 1

\* No reset of total_sent exists, so the message enqueued at index i has this id.
IdOf(i) == totalSent - head + i + 1

Intact(i) == LET a == Slot(i)
             IN  /\ mem[a].kind = "header"
                 /\ mem[a].id = IdOf(i)
                 /\ \A k \in 1 .. mem[a].len : mem[a + k] = Payload(IdOf(i), k)

-----------------------------------------------------------------------------
\* A result: what ended the call, the id the entry showed and, as a ghost, whether
\* entry and payload were as the sender left them.
Cause  == {"none", "message", "empty", "deadline", "chunk", "signal"}
NoCall == [mask |-> {}, tmo |-> "none", expired |-> FALSE]
NoRead == [cause |-> "none", id |-> 0, intact |-> TRUE]

Init == /\ mem = [a \in Addr |-> ZeroCell]
        /\ head = 0 /\ tail = 0 /\ count = 0
        /\ totalSent = 0 /\ totalRecv = 0 /\ dropped = 0 /\ flushed = 0
        /\ fdMask = [r \in Readers |-> Channels]
        /\ rpc = [r \in Readers |-> "idle"]
        /\ call = [r \in Readers |-> NoCall]
        /\ res = [r \in Readers |-> NoRead]
        /\ wpc = [w \in Writers |-> "idle"]

-----------------------------------------------------------------------------
(* mbox_write and mbox_enqueue.  Everything between spin_lock_irqsave and  *)
(* spin_unlock_irqrestore is one action; the wake-up that follows the      *)
(* unlock is another.                                                      *)

\* The full test one message late.
QueueFull_Late == count > Depth
QueueFull == count >= Depth

TooBig(w, n) ==
    /\ wpc[w] = "idle"
    /\ n > MsgCells
    /\ wpc' = [wpc EXCEPT ![w] = "ret"]
    /\ UNCHANGED <<ringVars, dropped, readerVars>>

\* The sign test the wrong way round.
AfterUnlock_Negative(ret) == IF ret < 0 THEN "wake" ELSE "ret"

\* The wake-up follows any result ret >= 0.
AfterUnlock(ret) == IF ret >= 0 THEN "wake" ELSE "ret"

Refuse(w, n, urgent) ==
    /\ wpc[w] = "idle"
    /\ n <= MsgCells
    /\ QueueFull
    /\ urgent => dropped < MaxDropped
    /\ dropped' = IF urgent THEN dropped + 1 ELSE dropped
    /\ wpc' = [wpc EXCEPT ![w] = AfterUnlock(-MBOX_ERR_NOBUFS)]
    /\ UNCHANGED <<ringVars, readerVars>>

Enqueue(w, c, n) ==
    /\ wpc[w] = "idle"
    /\ n <= MsgCells
    /\ ~QueueFull
    /\ totalSent < MaxSent
    /\ mem' = Stored(Slot(head), totalSent + 1, c, n)
    /\ head' = head + 1
    /\ count' = count + 1
    /\ totalSent' = totalSent + 1
    /\ wpc' = [wpc EXCEPT ![w] = AfterUnlock(totalSent + 1)]
    /\ UNCHANGED <<tail, totalRecv, dropped, flushed, readerVars>>

\* wake_up_interruptible: every sleeper will evaluate its condition again.
Wake(w) ==
    /\ wpc[w] = "wake"
    /\ wpc' = [wpc EXCEPT ![w] = "ret"]
    /\ rpc' = [r \in Readers |-> IF rpc[r] = "asleep" THEN "wait" ELSE rpc[r]]
    /\ UNCHANGED <<ringVars, dropped, fdMask, call, res>>

ReturnWrite(w) ==
    /\ wpc[w] = "ret"
    /\ wpc' = [wpc EXCEPT ![w] = "idle"]
    /\ UNCHANGED <<ringVars, dropped, readerVars>>

-----------------------------------------------------------------------------
(* mbox_read, the RECV ioctl and mbox_dequeue. *)

StartRead(r, args) ==
    /\ rpc[r] = "idle"
    /\ rpc' = [rpc EXCEPT ![r] = "scan"]
    /\ call' = [call EXCEPT ![r] = args]
    /\ UNCHANGED <<ringVars, dropped, fdMask, res, wpc>>

\* A read shorter than a receive request: the descriptor's mask, no waiting.
ReadSimple(r) ==
    StartRead(r, [mask |-> fdMask[r], tmo |-> "none", expired |-> FALSE])

\* A read that starts with a receive request, or the RECV ioctl.
ReadFull(r, m, t) ==
    StartRead(r, [mask |-> m, tmo |-> t, expired |-> FALSE])

\* mbox_dequeue returns without a message.
Finish(r, cause) ==
    /\ rpc' = [rpc EXCEPT ![r] = "ret"]
    /\ res' = [res EXCEPT ![r] = [cause |-> cause, id |-> 0, intact |-> TRUE]]
    /\ UNCHANGED <<ringVars, dropped, fdMask, call, wpc>>

\* The locked scan finds its first match at index i, one of Scanned.
Deliver(r, i) ==
    /\ rpc[r] = "scan"
    /\ MayMatch(Slot(i), call[r].mask)
    /\ \A j \in tail .. i - 1 : MayMiss(Slot(j), call[r].mask)
    /\ tail' = TailAfter(i)
    /\ count' = count - 1
    /\ totalRecv' = totalRecv + 1
    /\ rpc' = [rpc EXCEPT ![r] = "ret"]
    /\ res' = [res EXCEPT ![r] = [cause |-> "message", id |-> mem[Slot(i)].id,
                                  intact |-> Intact(i)]]
    /\ UNCHANGED <<mem, head, totalSent, flushed, dropped, fdMask, call, wpc>>

\* A finite timeout is over; the mutated form never notices.
TimedOut_Never(r) == FALSE
TimedOut(r) == call[r].tmo = "finite" /\ call[r].expired

\* The locked scan finds nothing; after the unlock the caller gives up or waits.
NoMatch(r) ==
    /\ rpc[r] = "scan"
    /\ \A j \in Scanned : MayMiss(Slot(j), call[r].mask)
    /\ \/ /\ call[r].tmo = "none"
          /\ Finish(r, "empty")
       \/ /\ TimedOut(r)
          /\ Finish(r, "deadline")
       \/ /\ call[r].tmo # "none" /\ ~TimedOut(r)
          /\ rpc' = [rpc EXCEPT ![r] = "wait"]
          /\ UNCHANGED <<ringVars, dropped, fdMask, call, res, wpc>>

\* wait_event_interruptible_timeout evaluates count # 0, without the lock.
Recheck(r) ==
    /\ rpc[r] = "wait"
    /\ rpc' = [rpc EXCEPT ![r] = IF count = 0 THEN "asleep" ELSE "scan"]
    /\ UNCHANGED <<ringVars, dropped, fdMask, call, res, wpc>>

\* The chunk of at most 100 ms is over.  With count still zero the wait
\* returns 0, which also ends the do-while loop.  A negative timeout_ms waits for
\* a chunk taken from an uninitialized variable, so it may expire as well.
ChunkExpires(r) ==
    /\ rpc[r] = "asleep"
    /\ \/ /\ count = 0
          /\ Finish(r, "chunk")
       \/ /\ count # 0
          /\ rpc' = [rpc EXCEPT ![r] = "scan"]
          /\ UNCHANGED <<ringVars, dropped, fdMask, call, res, wpc>>

\* A signal ends the sleep (with count positive the wait succeeds all the same).
Interrupted(r) ==
    /\ rpc[r] = "asleep"
    /\ count = 0
    /\ Finish(r, "signal")

\* Real time passes timeout_ms of a call with a finite timeout.
DeadlinePasses(r) ==
    /\ rpc[r] \in {"scan", "wait", "asleep"}
    /\ call[r].tmo = "finite" /\ ~call[r].expired
    /\ call' = [call EXCEPT ![r].expired = TRUE]
    /\ UNCHANGED <<ringVars, dropped, fdMask, rpc, res, wpc>>

ReturnRead(r) ==
    /\ rpc[r] = "ret"
    /\ rpc' = [rpc EXCEPT ![r] = "idle"]
    /\ call' = [call EXCEPT ![r] = NoCall]
    /\ res' = [res EXCEPT ![r] = NoRead]
    /\ UNCHANGED <<ringVars, dropped, fdMask, wpc>>

-----------------------------------------------------------------------------
(* The other ioctls that change state. *)

\* FLUSH that forgets the count.
Flush_KeepsCount ==
    /\ head' = 0 /\ tail' = 0
    /\ flushed' = flushed + count
    /\ UNCHANGED <<mem, count, totalSent, totalRecv, dropped, readerVars, wpc>>

Flush ==
    /\ head' = 0 /\ tail' = 0 /\ count' = 0
    /\ flushed' = flushed + count
    /\ UNCHANGED <<mem, totalSent, totalRecv, dropped, readerVars, wpc>>

SetFlags(r, m) ==
    /\ rpc[r] = "idle"
    /\ fdMask' = [fdMask EXCEPT ![r] = m]
    /\ UNCHANGED <<ringVars, dropped, rpc, call, res, wpc>>

\* mbox_poll: what a poller is told.
PollIn  == count > 0
PollOut == count < Depth

-----------------------------------------------------------------------------
Scan(r) == NoMatch(r) \/ \E i \in Scanned : Deliver(r, i)

ReaderNext(r) ==
    \/ ReadSimple(r)
    \/ \E m \in Masks, t \in Timeouts : ReadFull(r, m, t)
    \/ \E m \in Masks : SetFlags(r, m)
    \/ Scan(r) \/ Recheck(r) \/ ChunkExpires(r) \/ Interrupted(r)
    \/ DeadlinePasses(r) \/ ReturnRead(r)

WriterNext(w) ==
    \/ \E n \in 0 .. MsgCells + 1 :
          \/ TooBig(w, n)
          \/ \E urgent \in BOOLEAN : Refuse(w, n, urgent)
          \/ \E c \in Channels : Enqueue(w, c, n)
    \/ Wake(w) \/ ReturnWrite(w)

Next == \/ \E r \in Readers : ReaderNext(r)
        \/ \E w \in Writers : WriterNext(w)
        \/ Flush

Spec == Init /\ [][Next]_vars

\* A running thread keeps running, time passes, and a sleep of a finite chunk
\* ends; calls, signals and flushes are the environment's choice.
ReaderFairness(r) ==
    /\ WF_vars(Scan(r)) /\ WF_vars(Recheck(r)) /\ WF_vars(ReturnRead(r))
    /\ WF_vars(DeadlinePasses(r))
    /\ WF_vars(call[r].tmo = "finite" /\ ChunkExpires(r))
WriterFairness(w) == WF_vars(Wake(w)) /\ WF_vars(ReturnWrite(w))

FairSpec == /\ Spec
            /\ \A r \in Readers : ReaderFairness(r)
            /\ \A w \in Writers : WriterFairness(w)

-----------------------------------------------------------------------------
(* Properties. *)

\* Every variable stays within its type; in particular count, an unsigned
\* counter in the code, never goes below zero.
TypeOK ==
    /\ mem \in [Addr -> Cell]
    /\ head \in Nat /\ tail \in Nat /\ count \in Nat
    /\ totalSent \in Nat /\ totalRecv \in Nat /\ dropped \in Nat /\ flushed \in Nat
    /\ fdMask \in [Readers -> SUBSET Channels]
    /\ rpc \in [Readers -> {"idle", "scan", "wait", "asleep", "ret"}]
    /\ call \in [Readers -> [mask : SUBSET Channels, tmo : Timeout, expired : BOOLEAN]]
    /\ res \in [Readers -> [cause : Cause, id : Nat, intact : BOOLEAN]]
    /\ wpc \in [Writers -> {"idle", "wake", "ret"}]

\* The two ways the code measures the queue agree in one direction: the
\* entries between tail and head never exceed count, nor count the depth.  So
\* decrementing count on a match never wraps it, and a writer the full test
\* admits never lands on a slot that is still unread.  By the documents
\* a full queue is where it does (docs/03_shared_memory.md:112-122: the next message
\* overwrites the oldest unread one); mbox_enqueue refuses that message instead.
RingAccounting == tail <= head /\ head - tail <= count /\ count <= Depth

\* No stored message leaves the counters: what was sent is what was received,
\* what FLUSH threw away, and what count still claims to hold.  This is the
\* accounting of the code, where a full mailbox refuses a send, URGENT or not, and
\* drops nothing that is stored.  mbox_kern.c:183,186, docs/02_kernel_module.md:
\* 144-148, docs/03_shared_memory.md:112-122 and docs/04_api_reference.md:89 say
\* that the oldest message is dropped or overwritten instead; of such a message
\* neither a receive nor FLUSH would give account.  A message that a receive of
\* another channel skipped stays in count, so a mailbox that has become full for
\* good in this way satisfies the equation.
Conservation == totalSent = totalRecv + flushed + count

\* The unlocked test of count before a reader sleeps and the wake-up after a
\* writer's unlock cannot cross: while count is positive, a sleeping reader has
\* a wake-up coming.
NoLostWakeup ==
    \A r \in Readers : rpc[r] = "asleep" /\ count > 0
                          => \E w \in Writers : wpc[w] = "wake"

\* Entries overlap in memory, but the one written last is never damaged: a
\* mailbox that is emptied before each send delivers what was sent.
NewestIntact == head > tail => Intact(head - 1)

\* A receive with a finite timeout returns, even while the queue holds only
\* messages of other channels and its wait condition is true without pause.
FiniteReadReturns ==
    \A r \in Readers : (rpc[r] = "scan" /\ call[r].tmo = "finite") ~> rpc[r] = "ret"

\* A receive in progress whose mask selects a stored message does not stay
\* asleep on it: it returns, or the message is taken by someone else.
MatchIsServed ==
    LET Waiting(r) == /\ rpc[r] \in {"scan", "wait", "asleep"}
                      /\ \E i \in Live : mem[Slot(i)].chan \in call[r].mask
    IN  \A r \in Readers : Waiting(r) ~> ~Waiting(r)

\* The mailbox without payloads implements the shared FIFO of MboxChannelQueue.
Abs == INSTANCE MboxChannelQueue
         WITH buf  <- [i \in 1 .. head - tail |->
                         LET h == mem[Slot(tail + i - 1)]
                         IN  [id |-> h.id, chan |-> h.chan]],
              sent <- totalSent,
              got  <- [r \in Readers |-> res[r].id],
              Capacity <- Depth
ImplementsChannelQueue == Abs!Spec
=============================================================================
