-------------------------- MODULE MboxChannelQueue --------------------------
(***************************************************************************)
(* What the kernel mailbox promises its users when nothing overwrites a    *)
(* stored entry: one bounded FIFO of (id, channel) messages shared by all  *)
(* readers.  A reader takes the oldest message its mask selects; the older *)
(* ones it skipped leave the queue with it.  A full queue takes no message:*)
(* the overwriting of the oldest one that mbox_kern.c:183 and the documents*)
(* describe for URGENT messages is no part of what the code does, and so   *)
(* no part of the promise.                                                 *)
(***************************************************************************)
EXTENDS Integers, Sequences

CONSTANTS Channels,     \* channel numbers in use
          Readers,      \* processes that receive
          Capacity      \* most messages stored at a time

VARIABLES buf,          \* the stored messages, oldest first
          sent,         \* number of messages ever stored
          got           \* id each reader is about to return, 0 when none

vars == <<buf, sent, got>>

Init == buf = <<>> /\ sent = 0 /\ got = [r \in Readers |-> 0]

Send(c) == /\ Len(buf) < Capacity
           /\ sent' = sent + 1
           /\ buf' = Append(buf, [id |-> sent', chan |-> c])
           /\ UNCHANGED got

Receive(r, mask) ==
    \E k \in 1 .. Len(buf) :
        /\ got[r] = 0
        /\ buf[k].chan \in mask
        /\ \A j \in 1 .. k - 1 : buf[j].chan \notin mask
        /\ got' = [got EXCEPT ![r] = buf[k].id]
        /\ buf' = SubSeq(buf, k + 1, Len(buf))
        /\ UNCHANGED sent

Return(r) == got[r] # 0 /\ got' = [got EXCEPT ![r] = 0] /\ UNCHANGED <<buf, sent>>

Flush == buf' = <<>> /\ UNCHANGED <<sent, got>>

Next == \/ \E c \in Channels : Send(c)
        \/ \E r \in Readers : Return(r) \/ \E mask \in SUBSET Channels : Receive(r, mask)
        \/ Flush

Spec == Init /\ [][Next]_vars
=============================================================================
