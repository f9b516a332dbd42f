---------------------------- MODULE PcieEndpoint ----------------------------
(***************************************************************************)
(* The life of the devices a PCIe endpoint driver binds                    *)
(* (pcie_ep_driver/xilinx_pcie_ep.c): probe with its unwinding labels,     *)
(* remove, shutdown, the interrupt handler, and the open files whose       *)
(* ioctls read and write the CTRL register back under ep->lock.            *)
(*                                                                         *)
(* A device's resources are the members of held[d]; "master" stands for    *)
(* bus mastering.  The PCI core runs probe, remove and shutdown of one     *)
(* device one at a time, those of different devices side by side.  An      *)
(* access to a freed ep or an unmapped BAR is undefined: the thread that   *)
(* would make it goes no further.  Left out: BAR1, which shares the fate   *)
(* of BAR0 but is optional; the interrupt enables and status, which decide *)
(* nothing since the line is shared; the registers nobody reads back.  The *)
(* DMA buffer counts as held when both allocations failed too: probe goes  *)
(* on without it, and only its release asks.                               *)
(***************************************************************************)
EXTENDS Naturals, Sequences

CONSTANTS Dev,          \* PCI functions of this driver
          File,         \* struct file instances that can be open
          MaxDevices,   \* module parameter max_devices
          NoDev, Dangling   \* a file that is closed; one whose ep is freed

ASSUME DevicesOK ==
    /\ MaxDevices \in Nat \ {0}
    /\ NoDev \notin Dev /\ Dangling \notin Dev /\ NoDev # Dangling
    /\ Dev \cap File = {} /\ {"free", "shutdown"} \cap File = {}

VARIABLES
    act, at,    \* each device: what the PCI core has it do, and how far that is
    held,       \* the resources it holds
    minor,      \* the minor number probe found for it
    bits,       \* dev_minor, the bitmap of reserved minors
    ctrl,       \* the START and RESET bits of its CTRL register
    lock,       \* ep->lock: "free", "shutdown" or the file that holds it
    tmp,        \* tmp of its xilinx_ep_shutdown
    handler,    \* its interrupt handler
    file,       \* filp->private_data of each file
    op          \* each file's ioctl in progress

devVars  == <<act, at, held, minor, bits>>
fileVars == <<file, op>>
vars == <<devVars, ctrl, lock, tmp, handler, fileVars>>

Resource == {"ep", "enabled", "regions", "master", "bar0", "dma", "irq",
             "minor", "cdev", "node"}
CtrlBit  == {"START", "RESET"}
Command  == {"start", "stop", "reset", "other"}
NoOp     == [at |-> "none", cmd |-> "other", seen |-> {}]

\* The statements of probe that acquire something, can fail, or do both.  The mutated
\* order requests the interrupt before the registers are mapped.
ProbeSteps_IrqFirst == <<"ep", "enabled", "regions", "irq", "bar0", "mask", "dma",
                         "find", "minor", "cdev", "node">>
ProbeSteps == <<"ep", "enabled", "regions", "bar0", "mask", "dma", "irq",
                "find", "minor", "cdev", "node">>

\* remove from top to bottom; err_cdev and the labels below it are its tail.
\* free_irq is two steps: the handler is unlinked, and a running one waited for.
Teardown ==
    <<"node", "cdev", "minor", "irq", "sync", "dma", "bar0", "regions", "enabled", "ep">>

\* Where in Teardown a failing step of probe jumps to: err_cdev for "node", err_bit
\* for "cdev" and so on.  The mutated table has cdev_add miss err_bit.
Label_BitKept == [node |-> 2, cdev |-> 4, find |-> 4, irq |-> 6, mask |-> 7, bar0 |-> 8,
                  regions |-> 9, enabled |-> 10, ep |-> 11]
Label == [node |-> 2, cdev |-> 3, find |-> 4, irq |-> 6, mask |-> 7, bar0 |-> 8,
          regions |-> 9, enabled |-> 10, ep |-> 11]

\* What a step of probe adds to, and one of Teardown takes from, what is held.
Gain(s) == CASE s = "regions" -> {"regions", "master"}
             [] s \in {"mask", "find"} -> {}
             [] OTHER -> {s}
Loss(s) == CASE s = "enabled" -> {"enabled", "master"}
             [] s = "sync" -> {}
             [] OTHER -> {s}

Step(d) == ProbeSteps[at[d]]

Init == /\ act = [d \in Dev |-> "absent"] /\ at = [d \in Dev |-> 1]
        /\ held = [d \in Dev |-> {}] /\ minor = [d \in Dev |-> 0] /\ bits = {}
        /\ ctrl = [d \in Dev |-> {}]
        /\ lock = [d \in Dev |-> "free"] /\ tmp = [d \in Dev |-> {}]
        /\ handler = [d \in Dev |-> "idle"]
        /\ file = [f \in File |-> NoDev] /\ op = [f \in File |-> NoOp]

-----------------------------------------------------------------------------
(* probe *)

\* find_first_zero_bit: MaxDevices when there is none.
FirstZero == CHOOSE n \in 0 .. MaxDevices :
                /\ n \notin bits
                /\ \A k \in 0 .. n - 1 : k \in bits

\* The range test after it, and the mutated form without it.
MinorFound_Always == TRUE
MinorFound == FirstZero < MaxDevices

Probe(d) ==
    /\ act[d] = "absent"
    /\ act' = [act EXCEPT ![d] = "probe"]
    /\ at' = [at EXCEPT ![d] = 1]
    /\ UNCHANGED <<held, minor, bits, ctrl, lock, tmp, handler, fileVars>>

\* Probe goes on to the next statement, or is done.
Advance(d) ==
    IF at[d] = Len(ProbeSteps)
      THEN act' = [act EXCEPT ![d] = "bound"] /\ at' = [at EXCEPT ![d] = 1]
      ELSE at' = [at EXCEPT ![d] = @ + 1] /\ UNCHANGED act

\* device_create refuses a name that exists already.
NameTaken(d) == \E e \in Dev : "node" \in held[e] /\ minor[e] = minor[d]

\* A statement of probe succeeds.  Finding a minor and reserving it are two.
Acquire(d) ==
    /\ act[d] = "probe"
    /\ Step(d) = "find" => MinorFound
    /\ Step(d) = "node" => ~NameTaken(d)
    /\ Advance(d)
    /\ held' = [held EXCEPT ![d] = @ \cup Gain(Step(d))]
    /\ minor' = IF Step(d) = "find" THEN [minor EXCEPT ![d] = FirstZero] ELSE minor
    /\ bits' = IF Step(d) = "minor" THEN bits \cup {minor[d]} ELSE bits
    /\ lock' = IF Step(d) = "ep" THEN [lock EXCEPT ![d] = "free"] ELSE lock
    /\ UNCHANGED <<ctrl, tmp, handler, fileVars>>

\* A statement of probe fails and jumps to its label.
Fail(d) ==
    /\ act[d] = "probe"
    /\ Step(d) \in DOMAIN Label
    /\ Step(d) = "find" => ~MinorFound
    /\ act' = [act EXCEPT ![d] = IF Step(d) = "ep" THEN "absent" ELSE "teardown"]
    /\ at' = [at EXCEPT ![d] = Label[Step(d)]]
    /\ UNCHANGED <<held, minor, bits, ctrl, lock, tmp, handler, fileVars>>

-----------------------------------------------------------------------------
(* remove, which is also what a failed probe ends with, and shutdown *)

Remove(d) ==
    /\ act[d] = "bound"
    /\ act' = [act EXCEPT ![d] = "teardown"]
    /\ at' = [at EXCEPT ![d] = 1]
    /\ UNCHANGED <<held, minor, bits, ctrl, lock, tmp, handler, fileVars>>

\* Freeing ep leaves its open files dangling.
Release(d) ==
    LET s == Teardown[at[d]]
        last == at[d] = Len(Teardown)
        Orphan == {f \in File : last /\ file[f] = d}
    IN  /\ act[d] = "teardown"
        /\ s = "sync" => handler[d] = "idle"
        /\ held' = [held EXCEPT ![d] = @ \ Loss(s)]
        /\ bits' = IF s = "minor" THEN bits \ {minor[d]} ELSE bits
        /\ minor' = IF last THEN [minor EXCEPT ![d] = 0] ELSE minor
        /\ act' = IF last THEN [act EXCEPT ![d] = "absent"] ELSE act
        /\ at' = [at EXCEPT ![d] = IF last THEN 1 ELSE @ + 1]
        /\ file' = [f \in File |-> IF f \in Orphan THEN Dangling ELSE file[f]]
        /\ op' = [f \in File |-> IF f \in Orphan THEN NoOp ELSE op[f]]
        /\ UNCHANGED <<ctrl, lock, tmp, handler>>

\* spin_lock leaves interrupts enabled on the CPU that shuts the device down.
Shutdown(d) ==
    /\ act[d] = "bound" /\ lock[d] = "free"
    /\ act' = [act EXCEPT ![d] = "shutdown"]
    /\ at' = [at EXCEPT ![d] = 1]
    /\ lock' = [lock EXCEPT ![d] = "shutdown"]
    /\ tmp' = [tmp EXCEPT ![d] = ctrl[d]]
    /\ UNCHANGED <<held, minor, bits, ctrl, handler, fileVars>>

\* Stop the engine, with the lock; not while a handler spins on this very CPU.
ShutdownStops(d) ==
    /\ act[d] = "shutdown" /\ at[d] = 1
    /\ handler[d] # "over"
    /\ ctrl' = [ctrl EXCEPT ![d] = tmp[d] \ {"START"}]
    /\ lock' = [lock EXCEPT ![d] = "free"]
    /\ tmp' = [tmp EXCEPT ![d] = {}]
    /\ at' = [at EXCEPT ![d] = 2]
    /\ UNCHANGED <<act, held, minor, bits, handler, fileVars>>

\* synchronize_irq
ShutdownEnds(d) ==
    /\ act[d] = "shutdown" /\ at[d] = 2
    /\ handler[d] = "idle"
    /\ act' = [act EXCEPT ![d] = "off"]
    /\ UNCHANGED <<at, held, minor, bits, ctrl, lock, tmp, handler, fileVars>>

-----------------------------------------------------------------------------
(* The interrupt handler.  The line is shared, so it is entered whenever it *)
(* is registered; under the lock it clears INT_STATUS and writes the log.   *)

\* "over": on the CPU of a shutdown that holds the lock.
HandlerEnters(d) ==
    /\ "irq" \in held[d] /\ handler[d] = "idle"
    /\ \E h \in {"spin", "over"} :
          /\ h = "over" => lock[d] = "shutdown"
          /\ handler' = [handler EXCEPT ![d] = h]
    /\ UNCHANGED <<devVars, ctrl, lock, tmp, fileVars>>

HandlerRuns(d) ==
    /\ handler[d] # "idle" /\ lock[d] = "free"
    /\ handler' = [handler EXCEPT ![d] = "idle"]
    /\ UNCHANGED <<devVars, ctrl, lock, tmp, fileVars>>

-----------------------------------------------------------------------------
(* Files.  refcount, which open and release count, is read by nobody.       *)

Open(f, d) ==
    /\ file[f] = NoDev /\ "cdev" \in held[d]
    /\ file' = [file EXCEPT ![f] = d]
    /\ UNCHANGED <<devVars, ctrl, lock, tmp, handler, op>>

Close(f) ==
    /\ file[f] # NoDev /\ op[f] = NoOp
    /\ file' = [file EXCEPT ![f] = NoDev]
    /\ UNCHANGED <<devVars, ctrl, lock, tmp, handler, op>>

\* What an ioctl writes to CTRL when it read seen.
NewCtrl(cmd, seen) ==
    CASE cmd = "start" -> seen \cup {"START"}        \* START, DMA_START
      [] cmd = "stop"  -> seen \ {"START"}           \* STOP, DMA_STOP
      [] cmd = "reset" -> seen \cup {"RESET"}

\* spin_lock_irqsave, and the mutated form that does not wait.
MayLock_Always(d) == TRUE
MayLock(d) == lock[d] = "free"

\* START and DMA_START set the same bit; DMA_START copies its argument from user space
\* first, and so do CONFIG and DMA_ALLOC, which leave CTRL alone.
Copying == {"start", "other"}

\* The lock is taken and, by the commands that change it, CTRL is read.
Ioctl(f, cmd) ==
    LET d == file[f]
    IN  /\ d \in Dev /\ op[f] = NoOp
        /\ MayLock(d)
        /\ lock' = [lock EXCEPT ![d] = f]
        /\ \/ /\ cmd # "other" => "bar0" \in held[d]
              /\ op' = [op EXCEPT ![f] = [at |-> "write", cmd |-> cmd, seen |-> ctrl[d]]]
           \/ /\ cmd \in Copying
              /\ op' = [op EXCEPT ![f] = [at |-> "copy", cmd |-> cmd, seen |-> {}]]
        /\ UNCHANGED <<devVars, ctrl, tmp, handler, file>>

\* copy_from_user with the lock held and interrupts off: it returns when user space
\* lets it, or faults.  DMA_START reads CTRL after it.
IoctlCopies(f) ==
    LET d == file[f]
    IN  /\ op[f].at = "copy"
        /\ \E cmd \in {op[f].cmd, "other"} :
              /\ cmd # "other" => "bar0" \in held[d]
              /\ op' = [op EXCEPT ![f] = [at |-> "write", cmd |-> cmd, seen |-> ctrl[d]]]
        /\ UNCHANGED <<devVars, ctrl, lock, tmp, handler, file>>

\* The commands that leave CTRL alone, unknown ones, and pointers that fault, leave the
\* switch early, and some unlock on their own; mutated, such a path keeps the lock.
EarlyUnlock_Forgotten(d) == lock
EarlyUnlock(d) == [lock EXCEPT ![d] = "free"]

IoctlLeaves(f) ==
    /\ op[f].at = "write" /\ op[f].cmd = "other"
    /\ lock' = EarlyUnlock(file[f])
    /\ op' = [op EXCEPT ![f] = NoOp]
    /\ UNCHANGED <<devVars, ctrl, tmp, handler, file>>

\* CTRL is written; RESET keeps the lock for a second write, the others unlock.
IoctlWrites(f) ==
    LET d == file[f]
        reset == op[f].cmd = "reset"
    IN  /\ op[f].at = "write" /\ op[f].cmd # "other"
        /\ "bar0" \in held[d]
        /\ ctrl' = [ctrl EXCEPT ![d] = NewCtrl(op[f].cmd, op[f].seen)]
        /\ lock' = IF reset THEN lock ELSE [lock EXCEPT ![d] = "free"]
        /\ op' = [op EXCEPT ![f] = IF reset THEN [@ EXCEPT !.at = "clear"] ELSE NoOp]
        /\ UNCHANGED <<devVars, tmp, handler, file>>

IoctlClears(f) ==
    LET d == file[f]
    IN  /\ op[f].at = "clear"
        /\ "bar0" \in held[d]
        /\ ctrl' = [ctrl EXCEPT ![d] = op[f].seen \ {"RESET"}]
        /\ lock' = [lock EXCEPT ![d] = "free"]
        /\ op' = [op EXCEPT ![f] = NoOp]
        /\ UNCHANGED <<devVars, tmp, handler, file>>

-----------------------------------------------------------------------------
DevNext(d) ==
    \/ Probe(d) \/ Acquire(d) \/ Fail(d)
    \/ Remove(d) \/ Release(d)
    \/ Shutdown(d) \/ ShutdownStops(d) \/ ShutdownEnds(d)
    \/ HandlerEnters(d) \/ HandlerRuns(d)

FileNext(f) ==
    \/ \E d \in Dev : Open(f, d)
    \/ \E cmd \in Command : Ioctl(f, cmd)
    \/ Close(f) \/ IoctlCopies(f) \/ IoctlLeaves(f) \/ IoctlWrites(f) \/ IoctlClears(f)

Next == (\E d \in Dev : DevNext(d)) \/ (\E f \in File : FileNext(f))

Spec == Init /\ [][Next]_vars

\* Threads that run keep running, and a queued spinlock serves its waiters in turn, so
\* a handler that waits for the lock again and again gets it.  Nothing is assumed of
\* copy_from_user, which user space can hold up.
FairSpec == /\ Spec
            /\ \A d \in Dev : WF_vars(Release(d)) /\ SF_vars(HandlerRuns(d))
            /\ \A f \in File : WF_vars(IoctlLeaves(f) \/ IoctlWrites(f) \/ IoctlClears(f))

-----------------------------------------------------------------------------
(* Properties. *)

\* Every variable stays within its type; in particular no minor above the module
\* parameter is ever reserved.
TypeOK ==
    /\ act \in [Dev -> {"absent", "probe", "bound", "teardown", "shutdown", "off"}]
    /\ at \in [Dev -> 1 .. Len(ProbeSteps)]
    /\ held \in [Dev -> SUBSET Resource]
    /\ minor \in [Dev -> 0 .. MaxDevices] /\ bits \subseteq 0 .. MaxDevices - 1
    /\ ctrl \in [Dev -> SUBSET CtrlBit]
    /\ lock \in [Dev -> {"free", "shutdown"} \cup File]
    /\ tmp \in [Dev -> SUBSET CtrlBit]
    /\ handler \in [Dev -> {"idle", "spin", "over"}]
    /\ file \in [File -> Dev \cup {NoDev, Dangling}]
    /\ op \in [File -> [at : {"none", "copy", "write", "clear"}, cmd : Command,
                        seen : SUBSET CtrlBit]]

\* An interrupt can come at any moment between request_irq and the end of free_irq, on
\* every path of probe, unwinding and remove; the handler then finds ep and
\* the mapped registers.
HandlerIsSafe ==
    \A d \in Dev : "irq" \in held[d] \/ handler[d] # "idle" => {"ep", "bar0"} \subseteq held[d]

\* Whichever statement of probe fails, and after every removal, the device holds
\* nothing, and each reserved minor belongs to a device that will release it.
NothingLeftBehind ==
    /\ \A d \in Dev : act[d] = "absent" => held[d] = {}
    /\ \A m \in bits : \E d \in Dev : minor[d] = m /\ "minor" \in held[d]

\* Nobody writes a stale CTRL back: what an ioctl or shutdown read is still
\* there when it writes, whatever other files, the handler and the PCI core do meanwhile.
CtrlIsFresh ==
    /\ \A f \in File : file[f] \in Dev =>
          /\ op[f].at = "write" => ctrl[file[f]] = op[f].seen
          /\ op[f].at = "clear" => ctrl[file[f]] = op[f].seen \cup {"RESET"}
    /\ \A d \in Dev : act[d] = "shutdown" /\ at[d] = 1 => ctrl[d] = tmp[d]

\* No ioctl is held up in copy_from_user for ever.
CopiesEnd == \A f \in File : []<>(op[f].at # "copy")

\* remove, and the unwinding of a failed probe, return if every copy from user space
\* does: free_irq waits for a handler that may wait for the lock of an ioctl in
\* progress, and CONFIG, DMA_ALLOC and DMA_START copy with the lock held.
TeardownEnds ==
    CopiesEnd => \A d \in Dev : act[d] = "teardown" ~> act[d] = "absent"

\* No DMA runs while its buffer is released (docs/09_hotplug.md:279).
DmaStoppedFirst ==
    [][\A d \in Dev : "dma" \in held[d] \ held'[d] => "START" \notin ctrl[d]]_vars
=============================================================================
