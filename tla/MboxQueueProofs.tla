--------------------------- MODULE MboxQueueProofs ---------------------------
(***************************************************************************)
(* Proofs, for every depth, payload limit, set of processes and bound, of  *)
(* the invariants that the runs of MCMboxQueue check on small instances.   *)
(***************************************************************************)
EXTENDS MboxQueue, SequenceTheorems, TLAPS

\* A slot is one of the Depth entries.
LEMMA SlotRange == ASSUME NEW i \in Nat PROVE Slot(i) \in 0 .. Depth - 1
  BY ConstantsOK, SMT DEF Slot

\* Filling an entry leaves cells in every place.
LEMMA StoredType ==
    ASSUME mem \in [Addr -> Cell], NEW s \in Nat, NEW id \in Nat,
           NEW c \in Nat, NEW n \in Nat
    PROVE  Stored(s, id, c, n) \in [Addr -> Cell]
<1>1. Addr \subseteq Int
  BY ConstantsOK, SMT DEF Addr
<1>2. Header(id, c, n) \in Cell
  BY DEF Header, Cell
<1>3. ASSUME NEW a \in Addr, a \in s + 1 .. s + n
      PROVE  Payload(id, a - s) \in Cell
  <2>1. a - s \in Nat
    BY <1>1, <1>3, SMT
  <2> QED BY <2>1 DEF Payload, Cell
<1> QED BY <1>2, <1>3 DEF Stored

-----------------------------------------------------------------------------
(* Types and accounting are inductive together: count stays a natural      *)
(* number because an entry found between tail and head means count > 0,    *)
(* and the ring never holds more than Depth entries because the full test  *)
(* looks at count, which is at least the number of entries.                *)

RingInv == TypeOK /\ RingAccounting

\* An index that a scan visits is live.
LEMMA ScannedLive == Scanned \subseteq Live
  BY DEF Scanned

LEMMA InitRing == Init => RingInv
<1> SUFFICES ASSUME Init PROVE RingInv
  OBVIOUS
<1>1. ZeroCell \in Cell
  BY DEF ZeroCell, Cell
<1>2. NoCall \in [mask : SUBSET Channels, tmo : Timeout, expired : BOOLEAN]
  BY DEF NoCall, Timeout
<1>3. NoRead \in [cause : Cause, id : Nat, intact : BOOLEAN]
  BY DEF NoRead, Cause
<1>4. TypeOK
  BY <1>1, <1>2, <1>3 DEF Init, TypeOK
<1>5. RingAccounting
  BY ConstantsOK DEF Init, RingAccounting
<1> QED BY <1>4, <1>5 DEF RingInv

\* A write that is too big touches only the writer.
LEMMA TooBigRing ==
    ASSUME RingInv, NEW w \in Writers, NEW n \in 0 .. MsgCells + 1, TooBig(w, n)
    PROVE  RingInv'
  BY SMT DEF RingInv, TypeOK, RingAccounting, TooBig, ringVars, readerVars

LEMMA RefuseRing ==
    ASSUME RingInv, NEW w \in Writers, NEW n \in 0 .. MsgCells + 1,
           NEW urgent \in BOOLEAN, Refuse(w, n, urgent)
    PROVE  RingInv'
<1>1. AfterUnlock(-MBOX_ERR_NOBUFS) = "wake"
  BY DEF AfterUnlock, MBOX_ERR_NOBUFS
<1>2. dropped' \in Nat
  BY SMT DEF RingInv, TypeOK, Refuse
<1> QED
  BY <1>1, <1>2, SMT
  DEF RingInv, TypeOK, RingAccounting, Refuse, ringVars, readerVars

LEMMA EnqueueRing ==
    ASSUME RingInv, NEW w \in Writers, NEW c \in Channels,
           NEW n \in 0 .. MsgCells + 1, Enqueue(w, c, n)
    PROVE  RingInv'
<1> USE DEF RingInv
<1>1. mem' \in [Addr -> Cell]
  <2>1. Slot(head) \in Nat
    BY SlotRange, SMT, ConstantsOK DEF TypeOK
  <2>2. totalSent + 1 \in Nat /\ c \in Nat /\ n \in Nat
    BY SMT, ConstantsOK DEF TypeOK
  <2> QED BY <2>1, <2>2, StoredType DEF Enqueue, TypeOK
<1>2. AfterUnlock(totalSent + 1) = "wake"
  BY SMT DEF AfterUnlock, TypeOK
<1>3. wpc' \in [Writers -> {"idle", "wake", "ret"}]
  BY <1>2 DEF Enqueue, TypeOK
<1>4. /\ head' \in Nat /\ tail' \in Nat /\ count' \in Nat /\ totalSent' \in Nat
      /\ UNCHANGED <<totalRecv, dropped, flushed, readerVars>>
  BY SMT DEF Enqueue, TypeOK
<1>5. TypeOK'
  BY <1>1, <1>3, <1>4 DEF TypeOK, readerVars
<1>6. RingAccounting'
  BY SMT, ConstantsOK DEF Enqueue, QueueFull, TypeOK, RingAccounting
<1> QED BY <1>5, <1>6

LEMMA WakeRing ==
    ASSUME RingInv, NEW w \in Writers, Wake(w)
    PROVE  RingInv'
  BY SMT DEF RingInv, TypeOK, RingAccounting, Wake, ringVars

LEMMA ReturnWriteRing ==
    ASSUME RingInv, NEW w \in Writers, ReturnWrite(w)
    PROVE  RingInv'
  BY SMT DEF RingInv, TypeOK, RingAccounting, ReturnWrite, ringVars, readerVars

\* A call that ends without a message leaves the ring alone.
LEMMA FinishRing ==
    ASSUME RingInv, NEW r \in Readers, NEW cause \in Cause, Finish(r, cause)
    PROVE  RingInv'
<1>1. res' \in [Readers -> [cause : Cause, id : Nat, intact : BOOLEAN]]
  BY DEF Finish, RingInv, TypeOK
<1>2. rpc' \in [Readers -> {"idle", "scan", "wait", "asleep", "ret"}]
  BY DEF Finish, RingInv, TypeOK
<1> QED
  BY <1>1, <1>2 DEF Finish, RingInv, TypeOK, RingAccounting, ringVars

\* Moving a reader to another place of the wait loop leaves the ring alone.
LEMMA MoveRing ==
    ASSUME RingInv, NEW r \in Readers, NEW pc \in {"scan", "wait", "asleep"},
           rpc' = [rpc EXCEPT ![r] = pc],
           UNCHANGED <<ringVars, dropped, fdMask, call, res, wpc>>
    PROVE  RingInv'
  BY DEF RingInv, TypeOK, RingAccounting, ringVars

LEMMA StartReadRing ==
    ASSUME RingInv, NEW r \in Readers,
           NEW args \in [mask : SUBSET Channels, tmo : Timeout, expired : BOOLEAN],
           StartRead(r, args)
    PROVE  RingInv'
  BY DEF StartRead, RingInv, TypeOK, RingAccounting, ringVars

LEMMA DeliverRing ==
    ASSUME RingInv, NEW r \in Readers, NEW i \in Scanned, Deliver(r, i)
    PROVE  RingInv'
<1> USE DEF RingInv
<1>1. /\ i \in Nat /\ tail <= i /\ i < head
  BY ScannedLive, SMT DEF Live, TypeOK
<1>2. Slot(i) \in Addr
  BY <1>1, SlotRange, SMT, ConstantsOK DEF Addr
<1>3. mem[Slot(i)].id \in Nat
  BY <1>2 DEF TypeOK, Cell
<1>4. Intact(i) \in BOOLEAN
  BY DEF Intact
<1>5. res' \in [Readers -> [cause : Cause, id : Nat, intact : BOOLEAN]]
  <2>1. [cause |-> "message", id |-> mem[Slot(i)].id, intact |-> Intact(i)]
          \in [cause : Cause, id : Nat, intact : BOOLEAN]
    BY <1>3, <1>4 DEF Cause
  <2> QED BY <2>1 DEF Deliver, TypeOK
<1>6. rpc' \in [Readers -> {"idle", "scan", "wait", "asleep", "ret"}]
  BY DEF Deliver, TypeOK
<1>7. /\ count > 0
      /\ tail' \in Nat /\ count' \in Nat /\ totalRecv' \in Nat
      /\ RingAccounting'
  BY <1>1, SMT, ConstantsOK DEF Deliver, TailAfter, TypeOK, RingAccounting
<1> QED BY <1>5, <1>6, <1>7 DEF Deliver, TypeOK

LEMMA ReaderRing == ASSUME RingInv, NEW r \in Readers, ReaderNext(r) PROVE RingInv'
<1>1. CASE ReadSimple(r)
  BY <1>1, StartReadRing DEF ReadSimple, RingInv, TypeOK, Timeout
<1>2. ASSUME NEW m \in Masks, NEW t \in Timeouts, ReadFull(r, m, t) PROVE RingInv'
  BY <1>2, StartReadRing, ConstantsOK DEF ReadFull
<1>3. ASSUME NEW m \in Masks, SetFlags(r, m) PROVE RingInv'
  BY <1>3, ConstantsOK
  DEF SetFlags, RingInv, TypeOK, RingAccounting, ringVars
<1>4. CASE NoMatch(r)
  <2>1. "empty" \in Cause /\ "deadline" \in Cause
    BY DEF Cause
  <2> QED BY <1>4, <2>1, FinishRing, MoveRing DEF NoMatch
<1>5. ASSUME NEW i \in Scanned, Deliver(r, i)
      PROVE  RingInv'
  BY <1>5, DeliverRing
<1>6. CASE Recheck(r)
  BY <1>6, MoveRing DEF Recheck
<1>7. CASE ChunkExpires(r)
  BY <1>7, FinishRing, MoveRing DEF ChunkExpires, Cause
<1>8. CASE Interrupted(r)
  BY <1>8, FinishRing DEF Interrupted, Cause
<1>9. CASE DeadlinePasses(r)
  BY <1>9 DEF DeadlinePasses, RingInv, TypeOK, RingAccounting, ringVars
<1>10. CASE ReturnRead(r)
  BY <1>10 DEF ReturnRead, RingInv, TypeOK, RingAccounting, ringVars,
               NoCall, NoRead, Timeout, Cause
<1> QED
  BY <1>1, <1>2, <1>3, <1>4, <1>5, <1>6, <1>7, <1>8, <1>9, <1>10 DEF ReaderNext, Scan

LEMMA WriterRing == ASSUME RingInv, NEW w \in Writers, WriterNext(w) PROVE RingInv'
  BY TooBigRing, RefuseRing, EnqueueRing, WakeRing, ReturnWriteRing DEF WriterNext

LEMMA FlushRing == RingInv /\ Flush => RingInv'
  BY SMT, ConstantsOK
  DEF Flush, RingInv, TypeOK, RingAccounting, readerVars

LEMMA NextRing == RingInv /\ [Next]_vars => RingInv'
<1>1. RingInv /\ UNCHANGED vars => RingInv'
  BY DEF RingInv, TypeOK, RingAccounting, vars, ringVars, readerVars
<1> QED BY <1>1, ReaderRing, WriterRing, FlushRing DEF Next

\* Every variable keeps its type; count, unsigned in the code, never wraps.
THEOREM TypeCorrect == Spec => []TypeOK
<1>1. RingInv => TypeOK
  BY DEF RingInv
<1> QED BY <1>1, InitRing, NextRing, PTL DEF Spec

\* The ring never holds more entries than count says, nor count more than Depth:
\* a writer that passes the full test cannot overwrite an unread entry's header.
THEOREM RingAccounted == Spec => []RingAccounting
<1>1. RingInv => RingAccounting
  BY DEF RingInv
<1> QED BY <1>1, InitRing, NextRing, PTL DEF Spec

-----------------------------------------------------------------------------
(* Conservation is inductive given the types: each action moves the same   *)
(* amount on both sides.                                                   *)

LEMMA NextConservation == RingInv /\ Conservation /\ [Next]_vars => Conservation'
<1> SUFFICES ASSUME RingInv, Conservation, [Next]_vars PROVE Conservation'
  OBVIOUS
<1> USE DEF RingInv, TypeOK, Conservation
<1>1. CASE UNCHANGED vars
  BY <1>1 DEF vars, ringVars
<1>2. ASSUME NEW r \in Readers, NEW i \in Scanned, Deliver(r, i)
      PROVE  Conservation'
  BY <1>2, SMT DEF Deliver
<1>3. ASSUME NEW r \in Readers, ReaderNext(r), UNCHANGED ringVars PROVE Conservation'
  BY <1>3 DEF ringVars
<1>4. ASSUME NEW r \in Readers, ReaderNext(r) PROVE Conservation'
  BY <1>2, <1>3, <1>4
  DEF ReaderNext, Scan, ReadSimple, ReadFull, StartRead, SetFlags, NoMatch, Finish,
      Recheck, ChunkExpires, Interrupted, DeadlinePasses, ReturnRead
<1>5. ASSUME NEW w \in Writers, WriterNext(w) PROVE Conservation'
  <2>1. ASSUME NEW c \in Channels, NEW n \in 0 .. MsgCells + 1, Enqueue(w, c, n)
        PROVE  Conservation'
    BY <2>1, SMT DEF Enqueue
  <2> QED
    BY <1>5, <2>1 DEF WriterNext, TooBig, Refuse, Wake, ReturnWrite, ringVars
<1>6. CASE Flush
  BY <1>6, SMT DEF Flush
<1> QED BY <1>1, <1>4, <1>5, <1>6 DEF Next

\* Whatever was sent is received, flushed, or still counted; a message skipped
\* by a receive of another channel stays in count for good.
THEOREM Conserved == Spec => []Conservation
<1>1. Init => Conservation
  BY SMT DEF Init, Conservation
<1> QED BY <1>1, InitRing, NextRing, NextConservation, PTL DEF Spec

-----------------------------------------------------------------------------
(* No wake-up is lost.  A reader falls asleep only when it sees count = 0,  *)
(* and the writer that makes count positive still has its wake-up to do.   *)

LEMMA NextWakeup == RingInv /\ NoLostWakeup /\ [Next]_vars => NoLostWakeup'
<1> SUFFICES ASSUME RingInv, NoLostWakeup, [Next]_vars PROVE NoLostWakeup'
  OBVIOUS
<1> USE DEF RingInv, TypeOK, NoLostWakeup
<1>1. CASE UNCHANGED vars
  BY <1>1 DEF vars, ringVars, readerVars
<1>2. ASSUME NEW r \in Readers, ReaderNext(r) PROVE NoLostWakeup'
  <2>1. UNCHANGED wpc
    BY <1>2
    DEF ReaderNext, Scan, Deliver, ReadSimple, ReadFull, StartRead, SetFlags, NoMatch,
        Finish, Recheck, ChunkExpires, Interrupted, DeadlinePasses, ReturnRead
  <2>2. count' > 0 => count > 0
    <3>1. ASSUME NEW i \in Scanned, Deliver(r, i)
          PROVE  count' > 0 => count > 0
      BY <3>1, SMT DEF Deliver
    <3> QED
      BY <1>2, <3>1
      DEF ReaderNext, Scan, ReadSimple, ReadFull, StartRead, SetFlags, NoMatch,
          Finish, Recheck, ChunkExpires, Interrupted, DeadlinePasses, ReturnRead, ringVars
  <2>3. \A s \in Readers : rpc'[s] = "asleep" /\ count' > 0 => rpc[s] = "asleep"
    BY <1>2, SMT
    DEF ReaderNext, Scan, Deliver, ReadSimple, ReadFull, StartRead, SetFlags, NoMatch,
        Finish, Recheck, ChunkExpires, Interrupted, DeadlinePasses, ReturnRead, ringVars
  <2> QED BY <2>1, <2>2, <2>3
<1>3. ASSUME NEW w \in Writers, WriterNext(w) PROVE NoLostWakeup'
  <2>1. ASSUME NEW n \in 0 .. MsgCells + 1, TooBig(w, n) PROVE NoLostWakeup'
    BY <2>1, SMT DEF TooBig, ringVars, readerVars
  <2>2. ASSUME NEW n \in 0 .. MsgCells + 1, NEW urgent \in BOOLEAN, Refuse(w, n, urgent)
        PROVE  NoLostWakeup'
    BY <2>2, SMT DEF Refuse, ringVars, readerVars, AfterUnlock, MBOX_ERR_NOBUFS
  <2>3. ASSUME NEW c \in Channels, NEW n \in 0 .. MsgCells + 1, Enqueue(w, c, n)
        PROVE  NoLostWakeup'
    BY <2>3, SMT DEF Enqueue, readerVars, AfterUnlock
  <2>4. CASE Wake(w)
    BY <2>4 DEF Wake
  <2>5. CASE ReturnWrite(w)
    BY <2>5, SMT DEF ReturnWrite, ringVars, readerVars
  <2> QED BY <1>3, <2>1, <2>2, <2>3, <2>4, <2>5 DEF WriterNext
<1>4. CASE Flush
  BY <1>4, SMT DEF Flush
<1> QED BY <1>1, <1>2, <1>3, <1>4 DEF Next

\* A reader never sleeps on a positive count with no wake-up on its way.
THEOREM WakeupNotLost == Spec => []NoLostWakeup
<1>1. Init => NoLostWakeup
  BY DEF Init, NoLostWakeup
<1> QED BY <1>1, InitRing, NextRing, NextWakeup, PTL DEF Spec

-----------------------------------------------------------------------------
(* The newest entry.  Nothing is written to the memory between a store and *)
(* the next one, so the last entry stored is as its sender left it.        *)

LEMMA NextNewest == RingInv /\ NewestIntact /\ [Next]_vars => NewestIntact'
<1> SUFFICES ASSUME RingInv, NewestIntact, [Next]_vars PROVE NewestIntact'
  OBVIOUS
<1>1. ASSUME UNCHANGED <<mem, head, totalSent>>, tail' \in Nat, tail <= tail'
      PROVE  NewestIntact'
  BY <1>1, SMT DEF NewestIntact, Intact, IdOf, RingInv, TypeOK
<1>2. CASE UNCHANGED vars
  BY <1>1, <1>2 DEF vars, ringVars, RingInv, TypeOK
<1>3. ASSUME NEW r \in Readers, ReaderNext(r) PROVE NewestIntact'
  <2>1. ASSUME NEW i \in Scanned, Deliver(r, i)
        PROVE  NewestIntact'
    BY <2>1, <1>1, ScannedLive, SMT DEF Deliver, TailAfter, Live, RingInv, TypeOK
  <2>2. UNCHANGED ringVars => NewestIntact'
    BY <1>1 DEF ringVars, RingInv, TypeOK
  <2> QED
    BY <1>3, <2>1, <2>2
    DEF ReaderNext, Scan, ReadSimple, ReadFull, StartRead, SetFlags, NoMatch,
        Finish, Recheck, ChunkExpires, Interrupted, DeadlinePasses, ReturnRead
<1>4. ASSUME NEW w \in Writers, WriterNext(w) PROVE NewestIntact'
  <2>1. ASSUME NEW c \in Channels, NEW n \in 0 .. MsgCells + 1, Enqueue(w, c, n)
        PROVE  NewestIntact'
    <3> DEFINE s == Slot(head)
    <3>1. /\ head \in Nat /\ totalSent \in Nat /\ n \in Nat /\ n <= MsgCells
          /\ head' = head + 1 /\ totalSent' = totalSent + 1
          /\ mem' = Stored(s, totalSent + 1, c, n)
      BY <2>1, SMT, ConstantsOK DEF Enqueue, RingInv, TypeOK
    <3>2. s \in 0 .. Depth - 1
      BY <3>1, SlotRange
    <3>3. Slot(head' - 1) = s /\ IdOf(head - 1)' = totalSent + 1 /\ head' - 1 = head
      BY <3>1, SMT DEF IdOf
    <3>4. s \in Addr /\ \A k \in 1 .. n : s + k \in Addr
      BY <3>1, <3>2, SMT, ConstantsOK DEF Addr
    <3>5. mem'[s] = Header(totalSent + 1, c, n)
      BY <3>1, <3>4 DEF Stored
    <3>6. \A k \in 1 .. n : mem'[s + k] = Payload(totalSent + 1, k)
      <4> SUFFICES ASSUME NEW k \in 1 .. n
                   PROVE  mem'[s + k] = Payload(totalSent + 1, k)
        OBVIOUS
      <4>1. s + k # s /\ s + k \in s + 1 .. s + n /\ (s + k) - s = k
        BY <3>1, <3>2, SMT
      <4> QED BY <3>1, <3>4, <4>1 DEF Stored
    <3>7. mem'[s].kind = "header" /\ mem'[s].id = totalSent + 1 /\ mem'[s].len = n
      BY <3>5 DEF Header
    <3>8. Intact(head - 1)'
      BY <3>3, <3>6, <3>7 DEF Intact
    <3> QED BY <3>8 DEF NewestIntact
  <2>2. UNCHANGED ringVars => NewestIntact'
    BY <1>1 DEF ringVars, RingInv, TypeOK
  <2> QED BY <1>4, <2>1, <2>2 DEF WriterNext, TooBig, Refuse, Wake, ReturnWrite
<1>5. CASE Flush
  BY <1>5, SMT DEF Flush, NewestIntact
<1> QED BY <1>2, <1>3, <1>4, <1>5 DEF Next

\* Although entries overlay each other, the message sent last can be received
\* exactly as it was sent, until the next send.
THEOREM NewestUndamaged == Spec => []NewestIntact
<1>1. Init => NewestIntact
  BY SMT DEF Init, NewestIntact
<1> QED BY <1>1, InitRing, NextRing, NextNewest, PTL DEF Spec

-----------------------------------------------------------------------------
(* Without payloads nothing overwrites a stored entry, and the mailbox     *)
(* implements the FIFO of MboxChannelQueue: an index between tail and head *)
(* is a position of the FIFO.  Two live indices never share a slot, because *)
(* they are less than Depth apart.                                         *)

LEMMA SlotsDiffer ==
    ASSUME NEW i \in Nat, NEW j \in Nat, i < j, j - i < Depth
    PROVE  Slot(i) # Slot(j)
<1> DEFINE p == i \div Depth
           q == j \div Depth
<1>1. Depth \in Nat /\ Depth > 0
  BY ConstantsOK
<1>2. p \in Int /\ q \in Int /\ i = Depth * p + Slot(i) /\ j = Depth * q + Slot(j)
  BY <1>1, SMT DEF Slot
<1> HIDE DEF p, q
<1> SUFFICES ASSUME Slot(i) = Slot(j) PROVE FALSE
  OBVIOUS
<1>3. Slot(i) \in Int
  BY SlotRange
<1>4. Depth * q - Depth * p = j - i
  <2>1. Depth * p \in Int /\ Depth * q \in Int
    BY <1>1, <1>2
  <2> HIDE DEF Slot
  <2> QED BY <1>2, <1>3, <2>1
<1>5. Depth * (q - p) = j - i
  BY <1>1, <1>2, <1>4
<1>6. CASE q - p <= 0
  <2>1. Depth * (q - p) <= 0
    BY <1>1, <1>2, <1>6
  <2> QED BY <1>5, <2>1
<1>7. CASE q - p >= 1
  <2>1. Depth * (q - p) >= Depth
    BY <1>1, <1>2, <1>7
  <2> QED BY <1>1, <1>5, <2>1
<1> QED BY <1>2, <1>6, <1>7

\* What the refinement mapping gives.
MessageAt(i) == [id |-> mem[Slot(i)].id, chan |-> mem[Slot(i)].chan]
Buf == [k \in 1 .. head - tail |-> MessageAt(tail + k - 1)]
Got == [r \in Readers |-> res[r].id]

\* A live entry is a header, and a reader holds a message only on its way out.
FifoInv == /\ \A i \in Live : mem[Slot(i)].kind = "header"
           /\ \A r \in Readers : rpc[r] # "ret" => res[r].id = 0

LEMMA BufIsSeq ==
    ASSUME TypeOK, RingAccounting
    PROVE  /\ Buf \in Seq([id : Nat, chan : Nat]) /\ Len(Buf) = head - tail
           /\ \A k \in 1 .. head - tail : Buf[k] = MessageAt(tail + k - 1)
<1>1. head \in Nat /\ tail \in Nat /\ tail <= head /\ head - tail \in Nat
  BY DEF TypeOK, RingAccounting
<1>2. ASSUME NEW k \in 1 .. head - tail
      PROVE  MessageAt(tail + k - 1) \in [id : Nat, chan : Nat]
  <2>1. tail + k - 1 \in Nat
    BY <1>1
  <2>2. Slot(tail + k - 1) \in Addr
    BY <2>1, SlotRange, SMT, ConstantsOK DEF Addr
  <2>3. mem[Slot(tail + k - 1)] \in Cell
    BY <2>2 DEF TypeOK
  <2> QED BY <2>3 DEF MessageAt, Cell
<1>3. Buf \in [1 .. head - tail -> [id : Nat, chan : Nat]]
  BY <1>2 DEF Buf
<1> QED BY <1>1, <1>3 DEF Buf

\* A step that leaves the ring and the results alone is a stutter of the FIFO.
LEMMA SameFifo ==
    ASSUME UNCHANGED <<mem, head, tail, totalSent>>,
           \A r \in Readers : res'[r].id = res[r].id
    PROVE  UNCHANGED Abs!vars
<1>1. Buf' = Buf
  BY DEF Buf, MessageAt
<1>2. Got' = Got
  BY DEF Got
<1> QED BY <1>1, <1>2 DEF Abs!vars, Buf, Got, MessageAt

LEMMA EnqueueFifo ==
    ASSUME MsgCells = 0, RingInv, FifoInv, NEW w \in Writers, NEW c \in Channels,
           NEW n \in 0 .. MsgCells + 1, Enqueue(w, c, n)
    PROVE  FifoInv' /\ Abs!Send(c)
<1>1. /\ head \in Nat /\ tail \in Nat /\ count \in Nat /\ totalSent \in Nat /\ Depth \in Nat
      /\ tail <= head /\ head - tail < Depth /\ n = 0 /\ c \in Nat
  BY ConstantsOK DEF RingInv, TypeOK, RingAccounting, Enqueue, QueueFull
<1>2. /\ mem' = Stored(Slot(head), totalSent + 1, c, n)
      /\ head' = head + 1 /\ tail' = tail /\ totalSent' = totalSent + 1
      /\ rpc' = rpc /\ res' = res
  BY DEF Enqueue, readerVars
<1>3. \A i \in tail .. head : Slot(i) \in Addr /\ Slot(i) \in 0 .. Depth - 1
  BY <1>1, SlotRange, SMT, ConstantsOK DEF Addr
<1>4. Slot(head) + 1 .. Slot(head) + n = {}
  <2>1. Slot(head) \in Int
    BY <1>1, <1>3
  <2> QED BY <1>1, <2>1
<1>5. mem'[Slot(head)] = Header(totalSent + 1, c, n)
  <2>1. Slot(head) \in Addr
    BY <1>1, <1>3
  <2> QED BY <1>2, <2>1 DEF Stored
<1>6. ASSUME NEW i \in Live PROVE mem'[Slot(i)] = mem[Slot(i)]
  <2>1. i \in Nat /\ i < head /\ head - i < Depth /\ i \in tail .. head
    BY <1>1 DEF Live
  <2>2. Slot(i) # Slot(head) /\ Slot(i) \in Addr
    BY <1>1, <1>3, <2>1, SlotsDiffer
  <2> QED BY <1>2, <1>4, <2>2 DEF Stored
<1>7. FifoInv'
  <2>1. ASSUME NEW i \in Live' PROVE mem'[Slot(i)].kind = "header"
    <3>1. i \in Live \/ i = head
      BY <1>1, <1>2 DEF Live
    <3>2. CASE i \in Live
      BY <1>6, <3>2 DEF FifoInv
    <3>3. CASE i = head
      BY <1>5, <3>3 DEF Header
    <3> QED BY <3>1, <3>2, <3>3
  <2>2. \A r \in Readers : rpc'[r] # "ret" => res'[r].id = 0
    BY <1>2 DEF FifoInv
  <2>3. (\A i \in Live : mem[Slot(i)].kind = "header")'
    BY <2>1 DEF Slot
  <2> QED BY <2>2, <2>3 DEF FifoInv
<1>8. Buf' = Append(Buf, [id |-> totalSent', chan |-> c])
  <2> DEFINE e == [id |-> totalSent + 1, chan |-> c]
             L == head - tail
             N(i) == [id |-> mem'[Slot(i)].id, chan |-> mem'[Slot(i)].chan]
             S == [id : Nat, chan : Nat]
  <2>1. L \in Nat /\ head' - tail' = L + 1 /\ tail + (L + 1) - 1 = head /\ e \in S
    BY <1>1, <1>2
  <2>2. Buf \in Seq(S) /\ Len(Buf) = L /\ \A k \in 1 .. L : Buf[k] = MessageAt(tail + k - 1)
    BY BufIsSeq DEF RingInv
  <2>3. Buf' = [k \in 1 .. head' - tail' |-> N(tail' + k - 1)]
    BY DEF Buf, MessageAt, Slot
  <2>4. \A k \in 1 .. L : N(tail + k - 1) = Buf[k]
    <3>1. ASSUME NEW k \in 1 .. L PROVE N(tail + k - 1) = MessageAt(tail + k - 1)
      <4>1. tail + k - 1 \in Live
        BY <1>1 DEF Live
      <4> QED BY <1>6, <4>1 DEF MessageAt
    <3> QED BY <2>2, <3>1
  <2>5. N(head) = e
    BY <1>5 DEF Header
  <2> HIDE DEF e, L, N, S
  <2>6. Buf' = [k \in 1 .. L + 1 |-> N(tail + k - 1)]
    BY <1>2, <2>1, <2>3
  <2>7. Append(Buf, e) = [k \in 1 .. L + 1 |-> IF k = L + 1 THEN e ELSE Buf[k]]
    <3>1. /\ Append(Buf, e) \in Seq(S) /\ Len(Append(Buf, e)) = L + 1
          /\ \A k \in 1 .. L : Append(Buf, e)[k] = Buf[k]
          /\ Append(Buf, e)[L + 1] = e
      BY <2>1, <2>2, AppendProperties
    <3>2. Append(Buf, e) = [k \in 1 .. L + 1 |-> Append(Buf, e)[k]]
      BY <3>1, LenProperties
    <3>3. \A k \in 1 .. L + 1 : k # L + 1 => k \in 1 .. L
      BY <2>1
    <3> QED BY <3>1, <3>2, <3>3
  <2>8. ASSUME NEW k \in 1 .. L + 1
        PROVE  N(tail + k - 1) = IF k = L + 1 THEN e ELSE Buf[k]
    <3>1. CASE k = L + 1
      BY <2>1, <2>5, <3>1
    <3>2. CASE k # L + 1
      <4>1. k \in 1 .. L
        BY <2>1, <3>2
      <4> QED BY <2>4, <3>2, <4>1
    <3> QED BY <3>1, <3>2
  <2>9. Buf' = Append(Buf, e)
    BY <2>6, <2>7, <2>8
  <2> QED BY <1>2, <2>9 DEF e
<1>9. Len(Buf) < Depth
  BY <1>1, BufIsSeq DEF RingInv
<1>10. Got' = Got
  BY <1>2 DEF Got
<1> QED BY <1>2, <1>7, <1>8, <1>9, <1>10 DEF Abs!Send, Buf, Got, MessageAt

LEMMA DeliverFifo ==
    ASSUME RingInv, FifoInv, NEW r \in Readers, NEW i \in Scanned, Deliver(r, i)
    PROVE  FifoInv' /\ Abs!Receive(r, call[r].mask)
<1> DEFINE L == head - tail
           d == i + 1 - tail
           N(j) == [id |-> mem[Slot(j)].id, chan |-> mem[Slot(j)].chan]
<1>1. /\ head \in Nat /\ tail \in Nat /\ i \in Nat /\ i \in Live /\ tail <= i /\ i < head
      /\ L \in Nat /\ d \in 1 .. L /\ tail + d - 1 = i
  BY ScannedLive, SMT DEF RingInv, TypeOK, Live
<1>2. /\ mem' = mem /\ head' = head /\ tail' = i + 1 /\ totalSent' = totalSent
      /\ rpc' = [rpc EXCEPT ![r] = "ret"] /\ rpc[r] = "scan"
      /\ res' = [res EXCEPT ![r] = [cause |-> "message", id |-> mem[Slot(i)].id,
                                    intact |-> Intact(i)]]
  BY DEF Deliver, TailAfter
<1>3. Buf \in Seq([id : Nat, chan : Nat]) /\ Len(Buf) = L /\ \A k \in 1 .. L : Buf[k] = N(tail + k - 1)
  BY BufIsSeq DEF RingInv, MessageAt
<1>4. res \in [Readers -> [cause : Cause, id : Nat, intact : BOOLEAN]]
      /\ rpc \in [Readers -> {"idle", "scan", "wait", "asleep", "ret"}]
  BY DEF RingInv, TypeOK
<1>5. FifoInv'
  <2>1. Live' \subseteq Live
    BY <1>1, <1>2, SMT DEF Live
  <2>2. (\A j \in Live : mem[Slot(j)].kind = "header")'
    BY <1>2, <2>1 DEF FifoInv, Slot
  <2>3. \A s \in Readers : rpc'[s] # "ret" => res'[s].id = 0
    BY <1>2, <1>4 DEF FifoInv
  <2> QED BY <2>2, <2>3 DEF FifoInv
<1>6. Got[r] = 0 /\ Got' = [Got EXCEPT ![r] = N(i).id]
  <2>1. Got[r] = 0
    BY <1>2 DEF FifoInv, Got
  <2>2. Got' = [Got EXCEPT ![r] = N(i).id]
    BY <1>2, <1>4 DEF Got
  <2> QED BY <2>1, <2>2
<1>7. \A j \in Live : mem[Slot(j)].kind # "payload"
  BY DEF FifoInv
<1>8. Buf[d] = N(i) /\ Buf[d].chan \in call[r].mask
  <2>1. Buf[d] = N(i)
    BY <1>1, <1>3
  <2>2. mem[Slot(i)].chan \in call[r].mask
    BY <1>1, <1>7 DEF Deliver, MayMatch
  <2> QED BY <2>1, <2>2
<1>9. ASSUME NEW j \in 1 .. d - 1 PROVE Buf[j].chan \notin call[r].mask
  <2>1. tail + j - 1 \in tail .. i - 1 /\ tail + j - 1 \in Live /\ j \in 1 .. L
    BY <1>1 DEF Live
  <2>2. mem[Slot(tail + j - 1)].chan \notin call[r].mask
    BY <1>7, <2>1 DEF Deliver, MayMiss
  <2>3. Buf[j] = N(tail + j - 1)
    BY <1>3, <2>1
  <2> QED BY <2>2, <2>3
<1>10. Buf' = SubSeq(Buf, d + 1, Len(Buf))
  <2>1. Buf' = [k \in 1 .. head' - tail' |-> N(tail' + k - 1)]
    BY <1>2 DEF Buf, MessageAt, Slot
  <2>2. head' - tail' = L - d
    BY <1>1, <1>2
  <2> HIDE DEF N, L, d
  <2>3. /\ SubSeq(Buf, d + 1, L) = [k \in 1 .. L - d |-> Buf[k + d]]
    <3>1. \A k \in 1 .. L : d + 1 <= L => d + 1 \in 1 .. L
      BY <1>1
    <3>2. SubSeq(Buf, d + 1, L) = [k \in 1 .. (L - (d + 1) + 1) |-> Buf[k + (d + 1) - 1]]
      BY <1>1, <1>3
    <3>3. L - (d + 1) + 1 = L - d /\ \A k \in 1 .. L - d : k + (d + 1) - 1 = k + d
      BY <1>1
    <3> QED BY <3>2, <3>3
  <2>4. ASSUME NEW k \in 1 .. L - d PROVE N(tail' + k - 1) = Buf[k + d]
    <3>1. k + d \in 1 .. L /\ tail + (k + d) - 1 = tail' + k - 1
      <4>1. tail' = tail + d
        BY <1>1, <1>2
      <4> QED BY <1>1, <4>1
    <3> QED BY <1>3, <3>1
  <2> QED BY <1>3, <2>1, <2>2, <2>3, <2>4
<1> HIDE DEF L, d
<1>11. d \in 1 .. Len(Buf)
  BY <1>1, <1>3
<1> DEFINE Takes(mask) == \E k \in 1 .. Len(Buf) :
                               /\ Got[r] = 0
                               /\ Buf[k].chan \in mask
                               /\ \A j \in 1 .. k - 1 : Buf[j].chan \notin mask
                               /\ Got' = [Got EXCEPT ![r] = Buf[k].id]
                               /\ Buf' = SubSeq(Buf, k + 1, Len(Buf))
                               /\ UNCHANGED totalSent
<1>12. Takes(call[r].mask)
  BY <1>2, <1>6, <1>8, <1>9, <1>10, <1>11
<1>13. Takes(call[r].mask) <=> Abs!Receive(r, call[r].mask)
  BY DEF Abs!Receive, Buf, Got, MessageAt
<1> QED BY <1>5, <1>12, <1>13


LEMMA FinishFifo ==
    ASSUME RingInv, FifoInv, NEW r \in Readers, rpc[r] # "ret", NEW cause,
           Finish(r, cause)
    PROVE  FifoInv' /\ UNCHANGED Abs!vars
<1>1. /\ res' = [res EXCEPT ![r] = [cause |-> cause, id |-> 0, intact |-> TRUE]]
      /\ rpc' = [rpc EXCEPT ![r] = "ret"] /\ UNCHANGED <<mem, head, tail, totalSent>>
  BY DEF Finish, ringVars
<1>2. DOMAIN res = Readers /\ DOMAIN rpc = Readers
  BY DEF RingInv, TypeOK
<1>3. \A s \in Readers : res'[s].id = res[s].id /\ (rpc'[s] # "ret" => rpc[s] # "ret")
  BY <1>1, <1>2 DEF FifoInv
<1>4. FifoInv'
  BY <1>1, <1>3 DEF FifoInv, Live, Slot
<1> QED BY <1>1, <1>3, <1>4, SameFifo

\* A reader that moves on in its call, or starts one, is not seen.
LEMMA MoveFifo ==
    ASSUME RingInv, FifoInv, UNCHANGED <<ringVars, res>>,
           \A s \in Readers : rpc'[s] # "ret" => rpc[s] # "ret"
    PROVE  FifoInv' /\ UNCHANGED Abs!vars
<1>1. UNCHANGED <<mem, head, tail, totalSent>>
  BY DEF ringVars
<1>2. FifoInv'
  BY <1>1 DEF FifoInv, Live, Slot
<1> QED BY <1>1, <1>2, SameFifo

LEMMA ReturnFifo ==
    ASSUME RingInv, FifoInv, NEW r \in Readers, ReturnRead(r)
    PROVE  FifoInv' /\ [Abs!Next]_(Abs!vars)
<1>1. /\ res' = [res EXCEPT ![r] = NoRead] /\ rpc' = [rpc EXCEPT ![r] = "idle"]
      /\ UNCHANGED <<mem, head, tail, totalSent>>
  BY DEF ReturnRead, ringVars
<1>2. DOMAIN res = Readers /\ DOMAIN rpc = Readers /\ NoRead.id = 0
  BY DEF RingInv, TypeOK, NoRead
<1>3. FifoInv'
  <2>1. \A s \in Readers : rpc'[s] # "ret" => res'[s].id = 0
    BY <1>1, <1>2 DEF FifoInv
  <2> QED BY <1>1, <2>1 DEF FifoInv, Live, Slot
<1>4. CASE res[r].id = 0
  <2>1. \A s \in Readers : res'[s].id = res[s].id
    BY <1>1, <1>2, <1>4
  <2> QED BY <1>1, <1>3, <2>1, SameFifo
<1>5. CASE res[r].id # 0
  <2>1. Got[r] # 0 /\ Got' = [Got EXCEPT ![r] = 0]
    BY <1>1, <1>2, <1>5 DEF Got
  <2>2. Buf' = Buf
    BY <1>1 DEF Buf, MessageAt, Slot
  <2>3. Abs!Return(r)
    BY <1>1, <2>1, <2>2 DEF Abs!Return, Buf, Got, MessageAt
  <2> QED BY <1>3, <2>3 DEF Abs!Next
<1> QED BY <1>4, <1>5

LEMMA ReaderFifo ==
    ASSUME RingInv, FifoInv, NEW r \in Readers, ReaderNext(r)
    PROVE  FifoInv' /\ [Abs!Next]_(Abs!vars)
<1>0. DOMAIN rpc = Readers
  BY DEF RingInv, TypeOK
<1>1. ASSUME NEW args, StartRead(r, args) PROVE FifoInv' /\ UNCHANGED Abs!vars
  BY <1>0, <1>1, MoveFifo DEF StartRead
<1>2. ASSUME NEW m \in Masks, SetFlags(r, m) PROVE FifoInv' /\ UNCHANGED Abs!vars
  BY <1>2, MoveFifo DEF SetFlags
<1>3. CASE NoMatch(r)
  <2>1. rpc[r] # "ret"
    BY <1>3 DEF NoMatch
  <2>2. ASSUME rpc' = [rpc EXCEPT ![r] = "wait"],
               UNCHANGED <<ringVars, dropped, fdMask, call, res, wpc>>
        PROVE  FifoInv' /\ UNCHANGED Abs!vars
    BY <1>0, <2>1, <2>2, MoveFifo
  <2> QED BY <1>3, <2>1, <2>2, FinishFifo DEF NoMatch
<1>4. ASSUME NEW i \in Scanned, Deliver(r, i)
      PROVE  FifoInv' /\ Abs!Next
  <2>1. call[r].mask \in SUBSET Channels
    BY DEF RingInv, TypeOK
  <2>2. FifoInv' /\ Abs!Receive(r, call[r].mask)
    BY <1>4, DeliverFifo
  <2>3. \E mask \in SUBSET Channels : Abs!Receive(r, mask)
    BY <2>1, <2>2, Zenon DEF Abs!Receive
  <2> QED BY <2>2, <2>3 DEF Abs!Next
<1>5. CASE Recheck(r)
  BY <1>0, <1>5, MoveFifo DEF Recheck
<1>6. CASE ChunkExpires(r)
  <2>1. rpc[r] # "ret"
    BY <1>6 DEF ChunkExpires
  <2>2. ASSUME rpc' = [rpc EXCEPT ![r] = "scan"],
               UNCHANGED <<ringVars, dropped, fdMask, call, res, wpc>>
        PROVE  FifoInv' /\ UNCHANGED Abs!vars
    BY <1>0, <2>1, <2>2, MoveFifo
  <2> QED BY <1>6, <2>1, <2>2, FinishFifo DEF ChunkExpires
<1>7. CASE Interrupted(r)
  <2>1. rpc[r] # "ret"
    BY <1>7 DEF Interrupted
  <2> QED BY <1>7, <2>1, FinishFifo DEF Interrupted
<1>8. CASE DeadlinePasses(r)
  BY <1>0, <1>8, MoveFifo DEF DeadlinePasses
<1>9. CASE ReturnRead(r)
  BY <1>9, ReturnFifo
<1> QED
  BY <1>1, <1>2, <1>3, <1>4, <1>5, <1>6, <1>7, <1>8, <1>9
  DEF ReaderNext, Scan, ReadSimple, ReadFull

LEMMA WriterFifo ==
    ASSUME MsgCells = 0, RingInv, FifoInv, NEW w \in Writers, WriterNext(w)
    PROVE  FifoInv' /\ [Abs!Next]_(Abs!vars)
<1>1. ASSUME NEW n \in 0 .. MsgCells + 1, TooBig(w, n) PROVE FifoInv' /\ UNCHANGED Abs!vars
  BY <1>1, MoveFifo DEF TooBig, readerVars
<1>2. ASSUME NEW n \in 0 .. MsgCells + 1, NEW urgent \in BOOLEAN, Refuse(w, n, urgent)
      PROVE  FifoInv' /\ UNCHANGED Abs!vars
  BY <1>2, MoveFifo DEF Refuse, readerVars
<1>3. ASSUME NEW c \in Channels, NEW n \in 0 .. MsgCells + 1, Enqueue(w, c, n)
      PROVE  FifoInv' /\ Abs!Next
  BY <1>3, EnqueueFifo DEF Abs!Next
<1>4. CASE Wake(w)
  <2>1. rpc' = [r \in Readers |-> IF rpc[r] = "asleep" THEN "wait" ELSE rpc[r]]
        /\ UNCHANGED <<ringVars, res>>
    BY <1>4 DEF Wake
  <2>2. \A s \in Readers : rpc'[s] # "ret" => rpc[s] # "ret"
    BY <2>1
  <2> QED BY <2>1, <2>2, MoveFifo
<1>5. CASE ReturnWrite(w)
  BY <1>5, MoveFifo DEF ReturnWrite, readerVars
<1> QED BY <1>1, <1>2, <1>3, <1>4, <1>5 DEF WriterNext

LEMMA FlushFifo ==
    ASSUME RingInv, FifoInv, Flush
    PROVE  FifoInv' /\ Abs!Next
<1>1. head' = 0 /\ tail' = 0 /\ res' = res /\ rpc' = rpc /\ totalSent' = totalSent
  BY DEF Flush, readerVars
<1>2. Live' = {} /\ Buf' = <<>>
  BY <1>1 DEF Live, Buf
<1>3. FifoInv'
  BY <1>1, <1>2 DEF FifoInv
<1>4. Got' = Got
  BY <1>1 DEF Got
<1>5. Abs!Flush
  BY <1>1, <1>2, <1>4 DEF Abs!Flush, Buf, Got, MessageAt
<1> QED BY <1>3, <1>5 DEF Abs!Next

LEMMA NextFifo ==
    ASSUME MsgCells = 0
    PROVE  RingInv /\ FifoInv /\ [Next]_vars => FifoInv' /\ [Abs!Next]_(Abs!vars)
<1> SUFFICES ASSUME RingInv, FifoInv, [Next]_vars PROVE FifoInv' /\ [Abs!Next]_(Abs!vars)
  OBVIOUS
<1>1. CASE UNCHANGED vars
  BY <1>1, MoveFifo DEF vars, readerVars
<1>2. ASSUME NEW r \in Readers, ReaderNext(r) PROVE FifoInv' /\ [Abs!Next]_(Abs!vars)
  BY <1>2, ReaderFifo
<1>3. ASSUME NEW w \in Writers, WriterNext(w) PROVE FifoInv' /\ [Abs!Next]_(Abs!vars)
  BY <1>3, WriterFifo
<1>4. CASE Flush
  BY <1>4, FlushFifo
<1> QED BY <1>1, <1>2, <1>3, <1>4 DEF Next

\* A mailbox whose messages carry no payload is a bounded FIFO shared by its readers:
\* each takes the oldest message its mask selects, whatever waits, wake-ups, timeouts and
\* signals lie between (mbox_enqueue, mbox_dequeue and FLUSH).  With payloads this is
\* false: the entries overlay each other.
THEOREM MailboxIsAFifo == ASSUME MsgCells = 0 PROVE Spec => ImplementsChannelQueue
<1>1. Init => FifoInv /\ Abs!Init
  <2> SUFFICES ASSUME Init PROVE FifoInv /\ Abs!Init
    OBVIOUS
  <2>1. Live = {} /\ Buf = <<>>
    BY DEF Init, Live, Buf
  <2>2. Got = [r \in Readers |-> 0] /\ \A r \in Readers : res[r].id = 0
    BY DEF Init, Got, NoRead
  <2> QED BY <2>1, <2>2 DEF Init, FifoInv, Abs!Init, Buf, Got, MessageAt
<1>2. RingInv /\ FifoInv /\ [Next]_vars => FifoInv' /\ [Abs!Next]_(Abs!vars)
  BY NextFifo
<1> QED BY <1>1, <1>2, InitRing, NextRing, PTL DEF Spec, ImplementsChannelQueue, Abs!Spec

=============================================================================
