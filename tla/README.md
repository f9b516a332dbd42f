# Formal models of c-data-structures

TLA+ models of the programs in this repository, model-checked with TLC and, where
a result should hold for every size, proved with TLAPS.  `PROJECT.json` ties every
definition to its source lines and lists runs, mutations, findings, hazards and
theorems; this file explains them.  Paths below are relative to `src/`.

## 1. The system

The repository collects independent parts; they share no state except where an
arrow says so.

| Part | State it keeps | Operations | What makes it hard |
|---|---|---|---|
| Mailbox kernel ring, `mailbox_framework/kernel/mbox_kern.c` | `head`, `tail`, `count`, totals, the entries in shared memory, a wait queue, a channel mask per descriptor | write, read, ioctl RECV / FLUSH / SETFLAGS / STATS, poll | several readers and writers, a spinlock, wake-ups outside it, timeouts, entries that overlap |
| Mailbox instances, same file | list of instances, cdevs, reference counts | open, release, create, destroy, init, exit | life cycle against open files |
| Mailbox user library, `mailbox_framework/lib/mbox_lib.c` -> kernel ring | handle, mapped memory | send, recv, peek, flush, stats | one call is several system calls |
| Circular queue, `queue/` | buffer, `front`, `rear`, `length`, `capacity` | enqueue (with growth), dequeue, peek | wrap-around and growth together |
| Doubly linked list, `doubly_linked_list/` | nodes on the heap, `head`, `tail`, `length` | insert_at, remove_at, get_at, append, prepend, clear | two directions, ends, failed allocations |
| Stack, `stack/` | array, `top`, `capacity` | push (with growth), pop, peek | growth that fails |
| Singly linked list, `linked_list/` | nodes, `head`, `length` | insert_at, remove_at, get_at, clear | positions and ends, failed allocations |
| Hash table, `hash_table/` | buckets, chained entries, `size` | insert (overwrites), search, remove, destroy | collisions, an overwrite that fails half way |
| Binary search tree, `binary_tree/` | nodes, `root` | insert, search, remove, size, destroy | removal of a node with two children |
| PCIe endpoint driver, `pcie_ep_driver/xilinx_pcie_ep.c` | resources per device, minor bitmap, CTRL register, spinlock, open files | probe, remove, shutdown, interrupt handler, open, ioctl, mmap | interrupts at any moment, unwinding, removal under open files, running DMA |
| TPS6594 driver and SafeRTOS port, `tps6594_driver/src/` | registers of the chip, the driver's record of them | register modify, regulators, watchdog, power states, init / deinit, boot sequence | a bus without a lock, transfers that fail, writes that are retried, calls of up to thirty transfers |
| virtio block driver | - | - | a listing with intended defects; does not compile |
| QNX message passing, `qnx-apps/qnxIPC/` | a channel, statistics, a semaphore | send / receive / reply, pulses, quit | blocking sends, pulses in the loop of the messages, failing kernel calls |
| Other QNX examples, `qnx-apps/` | - | - | templates; see section 6 |

What makes each correct:

- **Mailbox ring**: counters and indices describe one queue; a message sent is received, flushed or
  still counted; a reader never sleeps on a message; a finite receive returns; receives on a channel
  see that channel's messages in order; a message arrives as it was sent.
- **Queue and lists**: every element comes out once, in order or by position; links agree in both
  directions; every node allocated is in the list.
- **PCIe driver**: whatever an interrupt handler touches exists; every failing path gives back exactly
  what was taken; register updates are not lost; removal ends; no DMA into freed memory.
- **Hash table and tree**: at most one value for each key, whatever collides; the search order holds at every node;
  each node is freed once and none is left.
- **PMIC driver**: what the driver remembers is what the chip does; a retry does not repeat an effect; success of a long
  call means what it says; every call returns.
- **QNX message passing**: every blocking send is answered, unless the reply fails; a reply goes to nobody else; the statistics are those of the echoes;
  the semaphore's unit is neither lost nor doubled, but by a wait that failed unnoticed.

## 2. Modules

| Module | Role |
|---|---|
| `MboxQueue` | the mailbox ring as the kernel module runs it |
| `MboxChannelQueue` | what a mailbox without payloads promises: one shared FIFO with channel masks |
| `MboxQueueClaims` | statements of the mailbox documentation the code contradicts |
| `MboxQueueProofs` | theorems about `MboxQueue`, its refinement of `MboxChannelQueue` among them |
| `CircularQueue`, `CircularQueueProofs` | the queue, and theorems about it |
| `IndexedList` | a sequence addressed by position: the promise of both linked lists and, used at one end, of the stack |
| `KeyedMap` | a dictionary: the promise of the hash table and of the tree |
| `DoublyLinkedList`, `SinglyLinkedList` | the lists on an explicit heap, implementing `IndexedList` |
| `DoublyLinkedListProofs`, `SinglyLinkedListProofs` | theorems about the lists |
| `Stack` | the stack, implementing `IndexedList` |
| `HashTable`, `BinaryTree` | the table and the tree on an explicit heap, implementing `KeyedMap` |
| `ContainerProofs` | theorems about the stack and the hash table, as `MCContainers` instantiates them |
| `PcieEndpoint`, `PcieEndpointProofs` | the life of PCIe devices, their handler, their files and the CTRL register, and theorems about it |
| `Pmic`, `PmicProofs` | the TPS6594 driver over a failing bus, transfer by transfer, with the boot sequence, and theorems about it |
| `QnxIpc`, `QnxIpcProofs` | the message passing program in its five modes, and theorems about it |
| `MC...` | small instances for TLC; `MCContainers` puts the six containers together |

### MboxQueue and the code

One action is one stretch of code that nothing else can interleave with: the body
between `spin_lock_irqsave` and `spin_unlock_irqrestore`, an unlocked test, or a
wake-up.  A writer is `idle`, then `wake` (unlocked, wake-up not yet sent) or `ret`;
a reader is `idle`, `scan` (about to lock and scan), `wait` (about to test `count`
without the lock), `asleep`, or `ret`.  A reader's result stays in `res` until the call returns: why it
ended (`cause`) and, for a message, its id and whether it was intact.

| Code | Actions |
|---|---|
| `mbox_write` + `mbox_enqueue` | `TooBig`, `Refuse` (full), `Enqueue`, `Wake`, `ReturnWrite` |
| `mbox_read`, ioctl RECV | `ReadSimple`, `ReadFull`, `ReturnRead` |
| `mbox_dequeue` | `Deliver`, `NoMatch`, `Recheck`, `ChunkExpires`, `Interrupted`, `DeadlinePasses` |
| ioctl FLUSH, SETFLAGS | `Flush`, `SetFlags` |
| `mbox_poll` | `PollIn`, `PollOut` (no state) |

Memory: `mbox_get_entry` strides by the 20-byte header alone, so entry *s* is cell *s* of
an array of 20-byte cells and a payload covers the cells after it, the next entries
included.  The model keeps that overlay: `mem` holds header and payload cells, an entry's
header read out of a payload cell has arbitrary fields (it may match a mask or not), and the ghost `intact` records whether a delivered message is the one sent.

Abstractions: payloads are whole cells (one that fills a cell partly is taken to overwrite it whole);
`out_size` of a receive request is zero when the call starts; a write shorter than a request, which the
code stores on channel 0, is an `Enqueue` on channel 0; totals stay far below 2^32.  STATS and `mbox_mmap` change no state.

Left out are the numbers the calls return (section 4 says how they differ from the documents).  One of them matters
inside: the header defines `MBOX_ERR_NOBUFS` as `-5` and `mbox_enqueue` returns `-MBOX_ERR_NOBUFS`, so `+5`, which passes the
test `ret >= 0` that decides whether a wake-up follows.  `AfterUnlock` keeps it: a refused send wakes the readers too.

### CircularQueue

`data` holds element numbers (1, 2, ... in the order of the enqueues) or `Garbage`; the
ghosts `fifo` and `cut` record what the queue should hold and which elements a growth left behind.
`grow` runs only when `length = capacity`, and then `front = rear`, so the test `front <= rear` picks
the branch for an unwrapped buffer: it copies `length` elements from `front` on, past the end of the old
buffer when `front > 0`.  Reading past the end is undefined; the model puts `Garbage` there.

### The containers on a heap

In the two lists, the table and the tree the heap is a function from addresses to cells, `Freed` or a record; malloc picks
any free address or fails, and a block that belongs to one node (its data, its key and value) is part of the node's cell: what the
code takes and gives back half way through a failing insertion cancels out.  Branches of the C functions that assign different
pointers have a definition each (`Insert...` and `Remove...` of the doubly linked list, `RemoveNode` and `RemoveSuccessor` of the tree).  `ll_destroy`, `dll_destroy`,
`ht_destroy` and `btree_destroy` free what their walks meet, from the heap as it is, so that a node they miss stays allocated.

`out` is the call that has just returned: its name, its code, the position or key it was given and what it gave back.
The refinements map it along with the contents, so that a call must not only change the list or dictionary as promised but also
answer as promised.

- *Table*: an overwrite frees the old value before it asks for the new one.  If that fails the entry stays with a null pointer,
  `KeyedMap` calls that value `Lost`, and searching for it succeeds with nothing.  The hash function is a constant.
- *Tree*: `compare` orders by a number, and a datum has more to it than that number: a second insertion of a key succeeds and
  drops the new datum.  A removal copies the successor's datum into the node and then searches for the successor's key below the right
  pointer, where it now occurs once more.
- *Stack*: `realloc` fails beyond `MaxCapacity`, or at any time; slots above `top` keep what was popped.

`MCContainers` instantiates all of them next to `CircularQueue`; a behaviour chooses one at its start (`using`), as the stages of
`test.c` do.

### PcieEndpoint

`held[d]` is what device *d* has acquired; `act[d]` and `at[d]` are the statement the PCI core's
thread is at: a position in `ProbeSteps` or in `Teardown`.  The labels `err_cdev` ... `err_free` are the
tail of `remove`, so a failing statement jumps to a position of `Teardown` (`Label`).  Finding a minor and
reserving it are two steps, as in the code.  `free_irq` is two steps as well: the handler is unlinked, then a
running one is waited for.  An ioctl that changes CTRL takes the lock and reads, writes, and for RESET writes a second
time, with a step for each; the ones that leave CTRL alone take and drop the lock.  DMA_START, CONFIG and DMA_ALLOC call
`copy_from_user` between, with the lock held and interrupts off (`xilinx_pcie_ep.c:254,265,279`); the copy has a step of its own
(`IoctlCopies`), under no fairness, since user space can hold it up.  `shutdown` takes the lock
with interrupts on, so a handler may arrive on the same CPU (`"over"`): it spins, and the shutdown cannot go on.

Left out: `mmap` (maps registers into a process; the driver keeps no state of it), module init and exit, BAR1,
`INT_ENABLE` and `INT_STATUS` (the interrupt line is shared, so the handler may be called at any time anyhow, and the
handler only logs), DMA addresses.  The source tests the value of `dma_free_coherent`, which the kernel declares
`void`; the model takes the call to free the buffer.  After `remove` has freed `ep`, a file that is still open is
`Dangling`; what the code does with it is undefined and not followed.

### Pmic

No call of the driver takes a lock, so what can come between two steps of a call is decided by its transfers.  A call is therefore a
script (`Script`): a sequence of transfers, each with the register, what is written, whether it opens a call of the API and so tests
`initialized` (`call`), whether its failure ends the call (`must`) and what the driver notes in its record afterwards (`learn`).  The tasks run the scripts:

| Code | Actions |
|---|---|
| entry of an API function | `Enter`, `Test` |
| `tps6594_i2c_read` (tried once) | `ReadOK`, `ReadFails` |
| `tps6594_i2c_write` (three times) | `WriteOK`, `WriteFails`: an unacknowledged write may have reached the chip or not |
| assignments to `tps6594_dev_t` after a transfer | `Noticed` |
| return | `Return` |

`tps6594_reg_modify` is a read and a write, and another task's transfers may come between them.  A register of flags is the set of its one
bits; a voltage register is a number of eight bits.  What a rail delivers (`Delivered`) is read off the registers as the header
describes them: 5 mV steps for a buck, 50 mV for an LDO, 25 mV for LDO4 while its STEPDOWN bit is set.  Status registers show any of the values `Shows` gives them.

What the model keeps as the code has it, though it looks unintended: a voltage code is cut to eight bits, so 3300 mV on a buck becomes
740 mV (`tps6594.c:321`); `PWR_STATUS` is stored as the driver's own numbering of the states, which runs differently (`:439`);
`exit_sleep` notes ACTIVE but leaves `PWR_CTRL` on standby (`:489`); the sleep bits of LDO3 and LDO4 fall out of the byte (`:508`); a
status read that fails in the boot sequence leaves the verdict to an uninitialized variable (`tps6594_safertos.c:515`).

Of the SafeRTOS port only the boot sequence is modelled.  `tps6594_safertos_init` passes a null bus context
(`:307`), which `tps6594_init` refuses, so it fails on every call, and interrupt handler, queue and tasks never run.  Since it fails before it sets
`g_pmic_dev` (`:316`), the port's bus wrapper `board_i2c_write_read` (`:85-103`) would follow a null pointer on the first transfer; it is not
modelled either.  `Pmic` has the bus of some platform below the driver, and `init` called with a context, as `tps6594_init` asks for.  The port does
not even compile as it stands: `:321` uses `TPS6594_ERR_NOMEM`, which no header declares.

### QnxIpc

`mode` is the argument the program is started with, `main` the thread of `main` (in modes client and both also the client), `server` the server
thread, `worker` the threads of the semaphore demo.  The kernel is external: a send blocks its thread until the reply (`main = "blocked"`), a
pulse waits in the channel.  Of the kernel's calls those that set a channel, its thread, a connection or the timer up may fail, `MsgSend` before its message is
delivered, `MsgReply` and `sem_wait` (`Fault`, up to `MaxFaults` of them in all), and `MsgReceive` without any bound.  A `MsgReply` that fails
leaves its client blocked for good (`chan = "lost"`), for nobody looks at the result (`qnxIPC.c:141`); a worker whose `sem_wait` fails goes on without the unit
(`:372`) and gives one back all the same.  Not modelled: a send that fails after its message was delivered, and failures of `sem_init`, `sem_post`
and the mutexes, whose results nobody looks at.

| Code | Actions |
|---|---|
| `start_server`, `client_connect`, `client_disconnect` | `StartServer`, `StartFails`, `Connect`, `ConnectFails`, `Disconnect` |
| `client_main` with `client_send_msg` | `Send`, `SendFails`, `Resume`; `Continue` is the loop around them |
| `server_thread` with `handle_message` | `Receive`, `ReceiveFails`, `Retry`, `Handle`, `Reply`, `ReplyFails` |
| `run_semaphore_demo`, `sem_worker` | `Spawn`, `Join`, `SemWait`, `SemWaitFails`, `Lock`, `Unlock`, `SemPost` |
| `timer_pulse_thread` | `StartTimer`, `StartTimerFails`, `TimerFires`, `ReceivePulse` |

The pulse a disconnect sends is received by the same `MsgReceive` as the messages; its first bytes are its type and subtype, zero, so the
server takes it for an unknown message, replies to nobody and leaves.  `SIGEV_PULSE_INIT` takes the priority before the code, so the
timer's pulses have code 1 while the loop counts those with code 10: `count` stays zero, the loop never ends, and its clean-up has no
action in the model.  The unchecked `pthread_create` of the workers is taken to succeed.

## 3. Runs

| Run | Instance | What it shows |
|---|---|---|
| `mbox_ring` | depth 2, payload 1 cell, 2 channels, 1 reader, 2 writers, 3 messages, all timeouts; symmetric | `TypeOK`, `RingAccounting`, `Conservation`, `NewestIntact` |
| `mbox_live` | depth 2, no payload, 1 blocking reader, 2 writers, 3 messages, fair | `NoLostWakeup`, `FiniteReadReturns`, `MatchIsServed`, `ImplementsChannelQueue` |
| `mbox_claim_channels` | `tail++` | violated: `OtherChannelsKept` |
| `mbox_claim_payload` | entries apart in memory | violated: `DeliveredIntact` |
| `containers` | queue: capacity 2, up to 9 elements, two growths; lists, table and tree: 4 nodes, 2 values, 4 keys, 2 buckets; stack: capacity 1 to 4; symmetric in the nodes | the queue's `TypeOK`, `RingConsistent`, `OnlyCutDamaged`; lists: `PointersOK`, `WalksAgree`, `NothingLeaks`, `ImplementsList`, `ChainOwnsHeap`, `ChainImplementsList`; stack: `StackImplementsList`; table: `ChainsOwnHeap`, `TableImplementsMap`; tree: `InorderAscends`, `TreeOwnsHeap`, `TreeImplementsMap` |
| `queue_claim_fifo` | the queue alone | violated: `TakenIsOldest` |
| `pcie_life` | 2 devices, 1 minor, 1 file, fair | `TypeOK`, `HandlerIsSafe`, `NothingLeftBehind`, `CtrlIsFresh`, `TeardownEnds` |
| `pcie_claim_dma` | same | violated: `DmaStoppedFirst` |
| `pmic_claim_lownoise` | `set_config` with the configuration of `examples/main.c`, no failure | violated: `LowNoiseAgrees` |
| `pmic` | eight applications of one or two tasks, 3 failing transfers, fair | `TypeOK`, `CacheAgrees`, `PetTogglesOnce`, `OffAfterDeinit`, `ConfiguredWhenOK`, `CallsReturn` |
| `pmic_claim_boot` | the boot sequence alone | violated: `BuckTwoLast` |
| `qnx` | the code's own 5 messages, 3 workers, 5 rounds; 2 failing calls besides `MsgReceive`, fair | `StatsAreTheEchoes`, `BlockedIffInFlight`, `OneUnit`, `DemoEnds` |

Bounds, and why they are enough.

- *Mailbox*: with depth 2 the ring fills and wraps with 3 messages; a payload of one cell already
  reaches into the next entry and, from the last slot, past the ring.  Two channels and masks `{0,1}` and `{1}` give a receive
  that must skip an entry.  Two writers are needed for two wake-ups in flight and for a send between another's unlock and
  wake-up.  `MaxSent` and `MaxDropped` only stop counters that nothing else bounds.
- *Queue*: 9 elements force growth from 2 to 4 to 8, each from every position of `front`.
- *Containers on a heap*: 4 nodes give a list with two inner nodes, positions in both halves `dll_get_at` walks and both parities of the
  length; a tree with a node that has two children and a successor that is not its right child (2, 1, 4, 3); and, with a
  hash that is the same for two keys and puts a third into their bucket, a chain of three keys.  Exchanging two
  addresses is sound as a symmetry: the modules only compare addresses for equality, and no property of this run is a liveness property.
- *Stack*: capacities 1, 2 and 4 are two growths and one that finds no memory.
- *PMIC*: the eight applications pair the calls whose registers or fields meet: voltage scaling against voltage scaling, watchdog
  control against its petting, sleep against wake-up, masks against clearing, enabling against disabling a rail, configuration against deinit.  The configuration is that of `examples/main.c`, mode bits and low-noise LDO4 included.  Three failures
  exhaust the three tries of a write, or break three different transfers.
- *QNX*: two failures can break two echoes, an echo and the quit, a reply, two waits of the workers, or the set-up, and `MsgReceive` may fail at any time besides; the numbers of rounds and workers are the code's.
- *PCIe*: two devices compete for the one minor, so each of "found", "none left" and "both found the same" occurs; one file
  suffices against handler, shutdown and removal, since a second file would only wait for the same lock.

Deadlock is checked in every run but `qnx`, whose program ends, and whose modes server and timer stop with it.

### Fairness

`mbox_live`: threads that are runnable run (weak fairness of `Scan`, `Recheck`, `ReturnRead`, `Wake`, `ReturnWrite`), real time
passes (`DeadlinePasses`), and a sleep of at most 100 ms ends (`ChunkExpires`, finite timeouts only: the slice of a wait without
limit is read from an uninitialized variable and may be arbitrarily long).  Nothing makes a caller call, a signal come or a
flush happen.  `MatchIsServed` counts a reader as served also when another reader takes the message or a
flush removes it: the code promises no more.

`pcie_life`: the thread that tears a device down keeps running (weak), as do ioctls in progress (weak) but for their `copy_from_user`, and the handler gets
the lock if it is free again and again (strong): kernel spinlocks queue their waiters.  Shutdown has no
fairness: a handler on its CPU can stop it for ever, and no property claims otherwise.  Of a copy from user space nothing is assumed, because the code
guarantees nothing: it may sleep, or wait for a page that user space provides, with the lock held and interrupts off, and meanwhile `free_irq` waits for a handler
that spins.  `TeardownEnds` therefore says that a teardown ends *if* every copy does (`CopiesEnd`).

`pmic`: a task that is inside a call goes on (weak): the bus answers or the transfer times out.  Nothing makes a task call.

`qnx`: each thread that can go on does (weak): the kernel schedules the threads of the process.  A blocked client is served only because the server
runs, and a waiting worker only because the holder of the unit does.  No failure is fair, and none is excluded but one: `DemoEnds` supposes that
`MsgReceive` does not fail for ever from some time on, since the server's loop would then turn for ever without a message.  A client whose reply was lost stays
blocked, and `DemoEnds` names that as the other outcome.

## 4. Findings

Each violated run is a statement of a document, or the plain purpose of a structure, against what the code does.

1. `mbox_claim_channels`: a receive on one channel throws away older messages of the others, which stay in `count`.
   Since `count` never comes down for them, enough of these leave the mailbox full for writers, readable for `poll`, and empty.
2. `mbox_claim_payload`: the next send overwrites the payload of the previous message.
3. `queue_claim_fifo`: a queue that grows after dequeues returns garbage.
4. `pcie_claim_dma`: the DMA buffer is freed while the engine may run.
5. `pmic_claim_boot`: "configure all regulators (disabled)" writes their enable bits, so all rails are on, BUCK2 second, before the
   boot sequence begins to order them.
6. `pmic_claim_lownoise`: `set_config` gives LDO4 a code of 50 mV steps and then sets the bit that makes its steps 25 mV
   (`tps6594.c:321,782`; `include/tps6594.h:171,204`, `doc/02_register_map.md:110,160-162`, `doc/03_api_reference.md:118`).  The 1800 mV of
   `examples/main.c:56-57` are then 1200 mV, and the driver remembers 1800.

Disagreements that no run states, but that a reader of the properties should know:

- *A full mailbox.*  `mbox_kern.c:183,186`, `docs/02_kernel_module.md:144-148`, `docs/03_shared_memory.md:112-122` and
  `docs/04_api_reference.md:89` say that a send to a full mailbox (an URGENT one, but for `docs/03`) drops or overwrites the oldest unread message.  The code refuses the
  send, URGENT or not, and drops nothing (`:182-190`).  `Conservation`, `RingAccounting` and `MboxChannelQueue` describe the code, so the model has no such
  overwriting, and `Conservation` would not survive it.  Nor does `Conservation` notice the mailbox that is full for good (finding 1): the skipped
  messages are in `count`.
- *Error codes of the mailbox.*  `mbox.h:222-226` defines the codes as negative numbers and the kernel negates them again, so that the handlers return
  positive ones; a refused `write` returns its byte count, because `msg_id` is unsigned (`mbox_kern.c:556`), and a wait whose slice expires gives 0 (`:324`).
  `docs/04_api_reference.md:94,146` promise negative codes of the library's calls, which negate the constants as well (`mbox_lib.c:202,222`).
- *Copies under the lock.*  `pcie_ep_driver/docs/06_character_device.md:210` puts `copy_from_user` outside the lock (and `:198` `copy_to_user` of STATUS, where the code agrees);
  `xilinx_pcie_ep.c:254,265,279` call it inside.
- *Sleep and wake-up registers.*  `doc/02_register_map.md:137` puts the bucks at bits 5:1 of SLEEP_CONF and `:146` WAKE_EDGE at bits 4:3; the code uses bits 4:0
  and 5:4 (`tps6594.c:510,520`).  So BUCK1's bit is SLEEP_EN and LDO1's is RET_EN, and LDO3's and LDO4's fall out of the byte: `ConfiguredWhenOK` states the bits as
  the code gives them, and says which are shared.
- `messages_dropped` counts only refused *urgent* messages
  (`mbox_kern.c:184`) where `docs/02_kernel_module.md:76` speaks of all; `poll` reports a readable mailbox that holds nothing (`:622`);
  a receive without limit ends after one slice (`:312`), and so does a finite one (`:324`).

## 5. Proofs

| Module | Theorem | Statement |
|---|---|---|
| `MboxQueueProofs` | `TypeCorrect`, `RingAccounted`, `Conserved` | `Spec => []TypeOK`, `[]RingAccounting`, `[]Conservation` |
| | `WakeupNotLost` | `Spec => []NoLostWakeup` |
| | `NewestUndamaged` | `Spec => []NewestIntact` |
| | `MailboxIsAFifo` | `Spec => ImplementsChannelQueue`, if `MsgCells = 0` |
| `CircularQueueProofs` | `QueueTypeCorrect`, `QueueConsistent`, `QueueDamageConfined` | `Spec => []TypeOK`, `[]RingConsistent`, `[]OnlyCutDamaged` |
| | `QueueTakesOldestUnlessCut` | `Spec => [](out.wanted \notin cut => TakenIsOldest)` |
| `DoublyLinkedListProofs` | `PointersStayOK`, `BothWaysAgree`, `EveryNodeOwned` | `DList!Spec => []PointersOK`, `[]WalksAgree`, `[]NothingLeaks` |
| | `ListIsASequence` | `DList!Spec => ImplementsList` |
| `SinglyLinkedListProofs` | `EveryNodeInChain` | `SList!Spec => []ChainOwnsHeap` |
| | `ChainIsASequence` | `SList!Spec => ChainImplementsList` |
| `ContainerProofs` | `StackIsASequence` | `Pile!Spec => StackImplementsList` |
| | `EveryEntryInOneChain` | `Table!Spec => []ChainsOwnHeap` |
| | `TableIsADictionary` | `Table!Spec => TableImplementsMap` |
| | `TreeStaysSorted`, `EveryNodeInTree` | `Tree!Spec => []InorderAscends`, `[]TreeOwnsHeap` |
| | `TreeIsADictionary` | `Tree!Spec => TreeImplementsMap` |
| all three container modules | `ListKeepsItsPromise`, `ChainKeepsItsPromise`, `ContainersKeepTheirPromise` | `UseSpec =>` each of the above |
| `PcieEndpointProofs` | `TypesKept`, `NothingEverLeft` | `Spec => []TypeOK`, `[]NothingLeftBehind` |
| | `HandlerAlwaysSafe`, `CtrlAlwaysFresh` | `Spec => []HandlerIsSafe`, `[]CtrlIsFresh` |
| `PmicProofs` | `RegistersKeepWidth` | `Spec => []TypeOK` |
| | `CacheFollowsChip` | `Spec => []CacheAgrees` |
| | `OnePetIsOneToggle` | `Spec => []PetTogglesOnce`, if `OnePetter` |
| | `DeinitTurnsOff`, `SuccessIsConfigured` | `Spec => []OffAfterDeinit`, `[]ConfiguredWhenOK` |
| `QnxIpcProofs` | `BlockedWhileInFlight`, `StatsCountTheEchoes`, `UnitConserved` | `Spec => []BlockedIffInFlight`, `[]StatsAreTheEchoes`, `[]OneUnit` |

### What they assume

The modules' named assumptions, which TLC evaluates in every run: `ConstantsOK` (depth and capacity are positive, masks are sets
of channels, markers differ from data, and so on) and `ApplicationsOK` of `Pmic` (the applications call the API with arguments of the types
in `tps6594.h`).  Where a theorem needs more it says so in its `ASSUME`:

- `HeapOK`, `TableOK`, `TreeOK`: the heap has finitely many addresses, the null pointer is none of them, and a free cell is distinguishable from an
  allocated one.  In C these hold by themselves; in the model they say that model values were not confused.  `TableOK` adds that the table
  has a bucket and the hash function a value for every key, `TreeOK` that keys are numbers, and `MapOK`, in the refinements of
  `KeyedMap`, that the mark for "no value" is no value.
- `StackOK`: the argument of `stack_create` is a number.
- `MsgCells = 0` in `MailboxIsAFifo`: with payloads the statement is false (finding 2), since the entries lie 20 bytes apart whatever their payload.
- `OnePetter` in `OnePetIsOneToggle`: in no application do two tasks pet the watchdog.  Without it the statement is false: two pets whose reads and
  writes alternate toggle the bit once and both report success.  As the code is, nothing else happens: the port has one watchdog task, which never runs.  Were
`tps6594_safertos_init` repaired, the application of `doc/05_examples.md:15-33`, whose main loop pets the watchdog too, would have two petters and be outside the
theorem.

### How

- *Mailbox ring*: neither `TypeOK` nor `RingAccounting` is inductive alone.  `count - 1` stays natural only because a match lies in
  `tail .. head - 1` and `head - tail <= count`; `head - tail <= count` survives a receive that skips entries only because `tail`
  moves by at least the one that `count` moves.  The conjunction is inductive (`RingInv`), and the
  other invariants are proved on top of it.  *Wake-ups*: a step that makes `count` positive leaves its writer at `wake`; a step that puts a reader to
  sleep has just seen `count = 0`; `Wake` empties the set of sleepers.  *Refinement*: `FifoInv` adds that the cells of live entries are headers, which
  holds because different live indices have different slots (`SlotsDiffer`, from `head - tail <= Depth`); then the entries from `tail` to
  `head` are the sequence of the promise, an enqueue appends to it, and a delivery takes a match and what lies before it off the front.
- *Queue*: `rear = (front + length) mod capacity` together with the bounds of the indices is inductive through wraps and growths;
  damage is confined because a growth copies the unwrapped part faithfully, and a take is wrong only where finding 3 says.
- *Linked lists*: `Listed` says that some sequence of addresses `w` has the `Shape` of the list: `head` (and `tail`) are its ends, each node's pointers
  are its neighbours, no address occurs twice, and the allocated cells are those of `w`.  The properties speak of the code's walks, which are
  recursive functions; that such a walk meets `w` is proved by taking the least index at which it would not
  (`LeastIndex`).  Each of the four insertions and three removals of the doubly linked list is first shown to thread a node into `w`, or out
  of it, in the same way (`Threaded`, `Unthreaded`), and the new shape and the refinement follow from that alone.
- *Stack*: the slots below `top` are values and the array is as long as `capacity` says (`StackInv`); growth keeps both.
- *Hash table*: `Chains(c, l)` is the shape: `c[b]` are the `l[b]` entries of bucket `b` in their order, they are those whose key hashes
  there, each is in its chain once.  With `OneEntryPerKey`, a search finds an entry if and only if there is one with that key, and the
  dictionary of the promise is read off the entries.  An insertion puts an entry in front of one chain (`Fronted`); a removal turns every pointer to
  the entry, in a bucket or in another entry, past it (`Detached`), of which there is exactly one (`OnePointerTo`).
- *Binary tree*: `Subtrees(S)` is the shape: `S[n]` is the set of nodes of the subtree at `n`, which is `n` and what is below its two pointers, with
  smaller keys on the left and larger ones on the right, and the allocated nodes are the subtree of the root (`Below`, `Sorted`).  Each step gives
  the new `S` from the old one: an insertion adds the new node to every subtree its parent is in (`Hung`), which keeps the order
  because the search passed every node above that parent on the side of the key (`LastBeforeIs`); a removal takes one node out of every subtree
  (`Without`, `SplicedTree`).  With two children, the node's key becomes that of the least node on its right (`FindMinIs`), which for that moment has
  the key too; the second search starts below the node and so finds the successor, not the copy, and the order holds
  again when the successor is gone.  A search meets its key within as many steps as the subtree has nodes (`SearchAlong`), and a traversal
  meets each node once, in-order in the order of the keys (`SubtreeVisited`), by the depth of the recursion.
- *PCIe endpoint*: `Life(d)` says, for every place the PCI core's thread can be, whether `ep`, the registers, the interrupt and the
  cdev are held and whether a handler may run; the tables of `probe`, `remove` and the labels enter through a few lemmas about
  indices, so that each step only compares numbers.  `LockInv` adds that an ioctl in progress holds the lock of a device whose
  `ep` exists, and that CTRL is what it last read or wrote; it needs `Life`, because `spin_lock_init` in a new probe would
  otherwise take the lock from a file.  For `NothingLeftBehind`, `Ledger(d)` says which of its resources a device holds at each statement of
  `probe` and of the teardown, label by label, and `MinorOwned` that every reserved minor is one that some device holds.
- *PMIC*: `Sound` says that every call is at a transfer of the script it runs and that registers and record have their types; every script is
  `Sane`, transfer by transfer, for every argument (`ScriptSane`), so the proofs about steps do not look into scripts again.  `CacheAgrees`, which speaks of every rail but a bypassed LDO and LDO4 in low-noise mode (finding 6), needs `Fresh` (a task about to note a
  voltage which it was the last to write finds it in the register) and `Agreed` (where nobody is about to note and nothing is in doubt, record and register agree).
  `PetInv` follows a pet through its tries.  `DeinitInv` and `ConfigInv` say what a call that runs alone has done before each transfer, for `set_config` the voltage and every mode bit of the rails done so far and then every bit
of SLEEP_CONF; that others are in no
  call meanwhile is `AloneInv`.
- *QNX*: `Talk` ties the client's place, the message in flight, the server's hands and the count of echoes together; it is inductive with
  `BlockedIffInFlight`.  `OneUnit` is a statement about the cardinality of the set of holders, so each step adds or removes one worker; a `sem_wait` that fails adds a worker and a fault.

### Only model-checked

Everything under fairness (`FiniteReadReturns`, `MatchIsServed`, `TeardownEnds`, `CallsReturn`, `DemoEnds`): liveness and `ENABLED` are out of the proof system's
reach.  Every safety property and every refinement of the passing runs has a theorem.  An induction principle over data cannot be
applied by the installed provers either; where a proof needs one it takes a least counterexample, which exists because the order of the
naturals is well-founded.  What a proof needs of a recursive definition of the models (a walk along pointers) is derived that way from the definition itself.

## 6. The plan, and what is not modelled

What is left for proofs are facts beyond the properties of the runs, such as what the PMIC guarantees to two tasks that pet at once, where
`OnePetter` does not hold.

Not modelled, and why:

- *Mailbox instances*: `mbox_create` is called from nowhere (the CREATE ioctl answers `-ENOSYS`), and its `dev_info` passes a structure where a
  pointer is due; open and release only count.  The ring is modelled as `mbox_create` would leave it.
- *Mailbox library*: thin wrappers; a handle is a pointer cut to an `int` (`mbox_lib.c:168`), and `mbox_recv` takes a message shorter than
  its request structure for an error after the message has left the ring.
- *32-bit wrap of `head` and `tail`*: the slots jump there unless `depth` divides 2^32; `MboxQueue` counts far below it.
- *STATS* reads seven fields without the lock; no document promises a consistent snapshot.
- *SafeRTOS tasks and bus wrapper*: never created, and never usable, see `Pmic`.
- *The numbers mailbox calls return*: no property is about them; see section 4.
- *virtio block driver*, *QNX shared memory* (`counter` is used outside the block that declares it, `shmem_demo.c:294`) and the *resource manager
  skeleton* (`chd` is undeclared) do not compile, so there is no behaviour to be faithful to.
- *QNX interrupt example*: a template; its pulses have code 0 where both receivers ask for 10, so nothing happens to an interrupt.
- *PCIe access test*, *hello*, the example applications and `test.c` call and print; documentation and build files.
