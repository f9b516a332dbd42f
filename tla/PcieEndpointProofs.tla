------------------------- MODULE PcieEndpointProofs -------------------------
(***************************************************************************)
(* Theorems about PcieEndpoint, for any number of devices, files and       *)
(* minors.                                                                 *)
(***************************************************************************)
EXTENDS PcieEndpoint, WellFoundedInduction, TLAPS

-----------------------------------------------------------------------------
(* The tables of probe and remove. *)

\* Where the statements that matter to the handler stand in probe.
LEMMA ProbeTable ==
    ASSUME NEW i \in 1 .. 11
    PROVE  /\ Len(ProbeSteps) = 11
           /\ ProbeSteps[i] = "ep" <=> i = 1
           /\ ProbeSteps[i] = "bar0" <=> i = 4
           /\ ProbeSteps[i] = "irq" <=> i = 7
           /\ ProbeSteps[i] \in {"mask", "find"} \cup Resource
<1>1. i \in {1, 2, 3, 4, 5, 6, 7, 8, 9, 10, 11}
  OBVIOUS
<1> QED BY <1>1 DEF ProbeSteps, Resource

\* And in remove.
LEMMA TeardownTable ==
    ASSUME NEW i \in 1 .. 10
    PROVE  /\ Len(Teardown) = 10
           /\ Teardown[i] = "irq" <=> i = 4
           /\ Teardown[i] = "sync" <=> i = 5
           /\ Teardown[i] = "bar0" <=> i = 7
           /\ Teardown[i] = "ep" <=> i = 10
<1>1. i \in {1, 2, 3, 4, 5, 6, 7, 8, 9, 10}
  OBVIOUS
<1> QED BY <1>1 DEF Teardown

\* A label lies between the statement that fails and what was acquired before it.
LEMMA LabelTable ==
    ASSUME NEW i \in 1 .. 11, ProbeSteps[i] \in DOMAIN Label
    PROVE  /\ Label[ProbeSteps[i]] \in 2 .. 11
           /\ i # 1 => Label[ProbeSteps[i]] <= 10
           /\ i <= 7 => Label[ProbeSteps[i]] >= 6
           /\ i > 7 => Label[ProbeSteps[i]] <= 4
<1>1. i \in {1, 2, 3, 4, 5, 6, 7, 8, 9, 10, 11}
  OBVIOUS
<1> QED BY <1>1 DEF ProbeSteps, Label

\* The other statement the files depend on.
LEMMA CdevTable ==
    /\ \A i \in 1 .. 11 : /\ ProbeSteps[i] = "cdev" <=> i = 10
                          /\ ProbeSteps[i] = "node" <=> i = 11
    /\ \A i \in 1 .. 10 : Teardown[i] = "cdev" <=> i = 2
    /\ \A i \in 1 .. 10 : ProbeSteps[i] \in DOMAIN Label => Label[ProbeSteps[i]] >= 3
    /\ Label[ProbeSteps[11]] = 2
<1>1. ASSUME NEW i \in 1 .. 11
      PROVE  /\ ProbeSteps[i] = "cdev" <=> i = 10
             /\ ProbeSteps[i] = "node" <=> i = 11
             /\ i <= 10 /\ ProbeSteps[i] \in DOMAIN Label => Label[ProbeSteps[i]] >= 3
  <2>1. i \in {1, 2, 3, 4, 5, 6, 7, 8, 9, 10, 11}
    OBVIOUS
  <2> QED BY <2>1 DEF ProbeSteps, Label
<1>2. ASSUME NEW i \in 1 .. 10
      PROVE  Teardown[i] = "cdev" <=> i = 2
  <2>1. i \in {1, 2, 3, 4, 5, 6, 7, 8, 9, 10}
    OBVIOUS
  <2> QED BY <2>1 DEF Teardown
<1>3. Label[ProbeSteps[11]] = 2
  BY DEF ProbeSteps, Label
<1> QED BY <1>1, <1>2, <1>3

-----------------------------------------------------------------------------
(* What a device holds wherever its thread is. *)

Types ==
    /\ act \in [Dev -> {"absent", "probe", "bound", "teardown", "shutdown", "off"}]
    /\ at \in [Dev -> 1 .. 11]
    /\ held \in [Dev -> SUBSET Resource]
    /\ ctrl \in [Dev -> SUBSET CtrlBit]
    /\ lock \in [Dev -> {"free", "shutdown"} \cup File]
    /\ tmp \in [Dev -> SUBSET CtrlBit]
    /\ handler \in [Dev -> {"idle", "spin", "over"}]
    /\ file \in [File -> Dev \cup {NoDev, Dangling}]
    /\ op \in [File -> [at : {"none", "copy", "write", "clear"}, cmd : Command,
                        seen : SUBSET CtrlBit]]

Quiet(d) == "irq" \notin held[d] /\ handler[d] = "idle"
Mapped(d) == "ep" \in held[d] /\ "bar0" \in held[d]

\* ep is held from kzalloc to kfree, the registers from err_unmap's point on, the
\* interrupt in between, and the cdev within that.
Life(d) ==
    /\ act[d] = "absent" => Quiet(d) /\ "ep" \notin held[d] /\ "cdev" \notin held[d]
    /\ act[d] = "probe" => /\ at[d] = 1 => "ep" \notin held[d]
                           /\ at[d] > 1 => "ep" \in held[d]
                           /\ at[d] > 4 => "bar0" \in held[d]
                           /\ at[d] <= 7 => Quiet(d)
                           /\ at[d] <= 10 => "cdev" \notin held[d]
    /\ act[d] \in {"bound", "shutdown", "off"} => Mapped(d)
    /\ act[d] = "teardown" => /\ at[d] <= 10 /\ "ep" \in held[d]
                              /\ at[d] <= 5 => Mapped(d)
                              /\ at[d] >= 5 => "irq" \notin held[d]
                              /\ at[d] >= 6 => handler[d] = "idle"
                              /\ at[d] >= 3 => "cdev" \notin held[d]

LifeInv == Types /\ \A d \in Dev : Life(d)

LEMMA InitLife == Init => LifeInv
  BY DEF Init, LifeInv, Types, Life, Quiet, NoOp, Command

LEMMA AcquireLife ==
    ASSUME LifeInv, NEW d \in Dev, Acquire(d)
    PROVE  LifeInv'
<1> USE DEF LifeInv
<1> DEFINE s == ProbeSteps[at[d]]
<1>1. /\ at[d] \in 1 .. 11 /\ act[d] = "probe" /\ Life(d)
      /\ UNCHANGED <<ctrl, tmp, handler, file, op>>
  BY DEF Acquire, Types, fileVars
<1>2. /\ s = "ep" <=> at[d] = 1
      /\ s = "bar0" <=> at[d] = 4
      /\ s = "irq" <=> at[d] = 7
      /\ s = "cdev" <=> at[d] = 10
      /\ s \in {"mask", "find"} \cup Resource
      /\ Len(ProbeSteps) = 11
  BY <1>1, ProbeTable, CdevTable
<1>3. /\ Gain(s) \subseteq Resource
      /\ \A r \in {"ep", "bar0", "irq", "cdev"} : r \in Gain(s) <=> r = s
  BY <1>2 DEF Gain, Resource
<1>4. held' = [held EXCEPT ![d] = held[d] \cup Gain(s)]
  BY DEF Acquire, Step
<1>5. \/ /\ at[d] = 11
         /\ act' = [act EXCEPT ![d] = "bound"] /\ at' = [at EXCEPT ![d] = 1]
      \/ /\ at[d] # 11
         /\ at' = [at EXCEPT ![d] = at[d] + 1] /\ act' = act
  BY <1>1, <1>2 DEF Acquire, Advance
<1>6. lock' \in [Dev -> {"free", "shutdown"} \cup File]
  BY DEF Acquire, Types
<1>7. Types'
  <2>1. held' \in [Dev -> SUBSET Resource]
    BY <1>3, <1>4 DEF Types
  <2>2. /\ act' \in [Dev -> {"absent", "probe", "bound", "teardown", "shutdown", "off"}]
        /\ at' \in [Dev -> 1 .. 11]
    BY <1>1, <1>5 DEF Types
  <2> QED BY <2>1, <2>2, <1>1, <1>6 DEF Types
<1>8. held'[d] = held[d] \cup Gain(s) /\ handler'[d] = handler[d]
  BY <1>1, <1>4 DEF Types
<1>9. Life(d)'
  <2>1. CASE at[d] = 11
    <3>1. act'[d] = "bound"
      BY <2>1, <1>5 DEF Types
    <3>2. Mapped(d)'
      BY <2>1, <1>1, <1>8 DEF Life, Mapped
    <3> QED BY <3>1, <3>2 DEF Life
  <2>2. CASE at[d] # 11
    <3>1. act'[d] = "probe" /\ at'[d] = at[d] + 1
      BY <2>2, <1>1, <1>5 DEF Types
    <3> QED BY <2>2, <3>1, <1>1, <1>2, <1>3, <1>8 DEF Life, Quiet, Mapped
  <2> QED BY <2>1, <2>2
<1>10. ASSUME NEW e \in Dev, e # d PROVE Life(e)'
  BY <1>10, <1>1, <1>4, <1>5 DEF Types, Life, Quiet, Mapped
<1> QED BY <1>7, <1>9, <1>10

LEMMA FailLife ==
    ASSUME LifeInv, NEW d \in Dev, Fail(d)
    PROVE  LifeInv'
<1> USE DEF LifeInv
<1> DEFINE s == ProbeSteps[at[d]]
<1>1. /\ at[d] \in 1 .. 11 /\ act[d] = "probe" /\ Life(d) /\ s \in DOMAIN Label
      /\ UNCHANGED <<held, ctrl, lock, tmp, handler, file, op>>
  BY DEF Fail, Types, fileVars, Step
<1>2. /\ s = "ep" <=> at[d] = 1
      /\ Label[s] \in 2 .. 11
      /\ at[d] # 1 => Label[s] <= 10
      /\ at[d] <= 7 => Label[s] >= 6
      /\ at[d] > 7 => Label[s] <= 4
      /\ at[d] <= 10 => Label[s] >= 3
      /\ at[d] = 11 => Label[s] = 2
  BY <1>1, ProbeTable, CdevTable, LabelTable
<1>3. /\ act' = [act EXCEPT ![d] = IF s = "ep" THEN "absent" ELSE "teardown"]
      /\ at' = [at EXCEPT ![d] = Label[s]]
  BY DEF Fail, Step
<1>4. Types'
  BY <1>1, <1>2, <1>3 DEF Types
<1>5. Life(d)'
  <2>1. /\ act'[d] = IF at[d] = 1 THEN "absent" ELSE "teardown"
        /\ at'[d] = Label[s]
    BY <1>1, <1>2, <1>3 DEF Types
  <2>2. held'[d] = held[d] /\ handler'[d] = handler[d]
    BY <1>1
  <2>3. CASE at[d] = 1
    BY <2>1, <2>2, <2>3, <1>1 DEF Life, Quiet
  <2>4. CASE at[d] # 1
    <3>1. at'[d] \in 2 .. 10 /\ (at'[d] < 3 <=> at[d] = 11)
      BY <2>1, <2>4, <1>1, <1>2
    <3>2. "ep" \in held[d] /\ (at[d] > 7 => Mapped(d))
      BY <2>4, <1>1 DEF Life, Mapped
    <3>3. at[d] <= 7 => Quiet(d) /\ at'[d] >= 6
      BY <2>1, <2>4, <1>1, <1>2 DEF Life
    <3>4. at[d] > 7 => at'[d] <= 4
      BY <2>1, <1>2
    <3>5. at[d] <= 10 => "cdev" \notin held[d]
      BY <1>1 DEF Life
    <3>6. act'[d] = "teardown" /\ at[d] \in 2 .. 11
      BY <2>1, <2>4, <1>1
    <3> QED BY <3>1, <3>2, <3>3, <3>4, <3>5, <3>6, <2>2 DEF Life, Quiet, Mapped
  <2> QED BY <2>3, <2>4
<1>6. ASSUME NEW e \in Dev, e # d PROVE Life(e)'
  BY <1>6, <1>1, <1>3 DEF Types, Life, Quiet, Mapped
<1> QED BY <1>4, <1>5, <1>6

LEMMA ReleaseLife ==
    ASSUME LifeInv, NEW d \in Dev, Release(d)
    PROVE  LifeInv'
<1> USE DEF LifeInv
<1> DEFINE s == Teardown[at[d]]
<1>1. /\ at[d] \in 1 .. 10 /\ act[d] = "teardown" /\ Life(d)
      /\ UNCHANGED <<ctrl, lock, tmp, handler>>
      /\ s = "sync" => handler[d] = "idle"
  BY DEF Release, Types, Life
<1>2. /\ s = "irq" <=> at[d] = 4
      /\ s = "sync" <=> at[d] = 5
      /\ s = "bar0" <=> at[d] = 7
      /\ s = "ep" <=> at[d] = 10
      /\ s = "cdev" <=> at[d] = 2
      /\ Len(Teardown) = 10
  BY <1>1, TeardownTable, CdevTable
<1>3. \A r \in {"ep", "bar0", "irq", "cdev"} : r \in Loss(s) <=> r = s
  BY <1>2 DEF Loss
<1>4. /\ held' = [held EXCEPT ![d] = held[d] \ Loss(s)]
      /\ act' = IF at[d] = 10 THEN [act EXCEPT ![d] = "absent"] ELSE act
      /\ at' = [at EXCEPT ![d] = IF at[d] = 10 THEN 1 ELSE at[d] + 1]
  BY <1>2 DEF Release
<1>5. /\ file' \in [File -> Dev \cup {NoDev, Dangling}]
      /\ op' \in [File -> [at : {"none", "copy", "write", "clear"}, cmd : Command,
                           seen : SUBSET CtrlBit]]
  BY DEF Release, Types, NoOp, Command
<1>6. Types'
  BY <1>1, <1>4, <1>5 DEF Types
<1>7. Life(d)'
  <2>1. /\ act'[d] = IF at[d] = 10 THEN "absent" ELSE "teardown"
        /\ at'[d] = IF at[d] = 10 THEN 1 ELSE at[d] + 1
        /\ held'[d] = held[d] \ Loss(s) /\ handler'[d] = handler[d]
    BY <1>1, <1>4 DEF Types
  <2> QED BY <2>1, <1>1, <1>2, <1>3 DEF Life, Quiet, Mapped
<1>8. ASSUME NEW e \in Dev, e # d PROVE Life(e)'
  BY <1>8, <1>1, <1>4 DEF Types, Life, Quiet, Mapped
<1> QED BY <1>6, <1>7, <1>8

-----------------------------------------------------------------------------
(* The steps that leave act, at and held alone. *)

\* A device's phase survives when its handler leaves, or enters with the interrupt held.
LEMMA SamePhase ==
    ASSUME LifeInv, Types', UNCHANGED <<act, at, held>>,
           \A d \in Dev : handler'[d] \in {handler[d], "idle"} \/ "irq" \in held[d]
    PROVE  LifeInv'
<1>1. ASSUME NEW d \in Dev PROVE Life(d)'
  <2>1. /\ Life(d) /\ at[d] \in 1 .. 11
        /\ handler'[d] \in {handler[d], "idle"} \/ "irq" \in held[d]
    BY DEF LifeInv, Types
  <2> QED BY <2>1 DEF Life, Quiet, Mapped
<1> QED BY <1>1 DEF LifeInv

LEMMA HandlerLife ==
    ASSUME LifeInv, NEW d \in Dev, HandlerEnters(d) \/ HandlerRuns(d)
    PROVE  LifeInv'
<1>1. UNCHANGED <<act, at, held, ctrl, lock, tmp, file, op>>
  BY DEF HandlerEnters, HandlerRuns, devVars, fileVars
<1>2. PICK h \in {"idle", "spin", "over"} :
         /\ handler' = [handler EXCEPT ![d] = h]
         /\ h = "idle" \/ "irq" \in held[d]
  BY DEF HandlerEnters, HandlerRuns
<1>3. Types'
  BY <1>1, <1>2 DEF LifeInv, Types
<1>4. \A e \in Dev : handler'[e] \in {handler[e], "idle"} \/ "irq" \in held[e]
  BY <1>2 DEF LifeInv, Types
<1> QED BY <1>1, <1>3, <1>4, SamePhase

\* What an ioctl writes is a value of the register.
LEMMA NewCtrlType ==
    ASSUME NEW cmd \in Command, cmd # "other", NEW seen \in SUBSET CtrlBit
    PROVE  NewCtrl(cmd, seen) \in SUBSET CtrlBit
  BY DEF Command, CtrlBit, NewCtrl

\* What an open file can be in the middle of.
LEMMA FileTypes ==
    ASSUME Types, NEW f \in File, FileNext(f),
           file[f] \notin Dev => op[f].at = "none"
    PROVE  Types'
<1> USE DEF Types
<1> DEFINE d == file[f]
<1>1. CASE \E e \in Dev : Open(f, e)
  BY <1>1 DEF Open, devVars
<1>2. CASE \E cmd \in Command : Ioctl(f, cmd)
  <2>1. PICK cmd \in Command : Ioctl(f, cmd)
    BY <1>2
  <2>2. /\ d \in Dev /\ lock' = [lock EXCEPT ![d] = f]
        /\ UNCHANGED <<act, at, held, ctrl, tmp, handler, file>>
    BY <2>1 DEF Ioctl, devVars
  <2>3. PICK place \in {"copy", "write"}, seen \in {ctrl[d], {}} :
           op' = [op EXCEPT ![f] = [at |-> place, cmd |-> cmd, seen |-> seen]]
    BY <2>1 DEF Ioctl
  <2>4. seen \in SUBSET CtrlBit
    BY <2>2, <2>3
  <2> QED BY <2>2, <2>3, <2>4
<1>3. CASE Close(f)
  BY <1>3 DEF Close, devVars
<1>4. NoOp \in [at : {"none", "copy", "write", "clear"}, cmd : Command, seen : SUBSET CtrlBit]
  BY DEF NoOp, Command
<1>5. CASE IoctlLeaves(f)
  BY <1>4, <1>5 DEF IoctlLeaves, EarlyUnlock, devVars
<1>6. CASE IoctlWrites(f)
  <2>1. d \in Dev /\ op[f].cmd # "other"
    BY <1>6 DEF IoctlWrites
  <2>2. NewCtrl(op[f].cmd, op[f].seen) \in SUBSET CtrlBit
    BY <2>1, NewCtrlType
  <2>3. ctrl' \in [Dev -> SUBSET CtrlBit]
    BY <1>6, <2>1, <2>2 DEF IoctlWrites
  <2>4. op' \in [File -> [at : {"none", "copy", "write", "clear"}, cmd : Command,
                          seen : SUBSET CtrlBit]]
    BY <1>4, <1>6 DEF IoctlWrites
  <2>5. lock' \in [Dev -> {"free", "shutdown"} \cup File]
    BY <1>6, <2>1 DEF IoctlWrites
  <2> QED BY <1>6, <2>3, <2>4, <2>5 DEF IoctlWrites, devVars
<1>7. CASE IoctlClears(f)
  <2>1. d \in Dev
    BY <1>7 DEF IoctlClears
  <2> QED BY <1>4, <1>7, <2>1 DEF IoctlClears, devVars
<1>8. CASE IoctlCopies(f)
  <2>1. d \in Dev /\ op[f].cmd \in Command
    BY <1>8 DEF IoctlCopies
  <2>2. PICK cmd \in Command :
           op' = [op EXCEPT ![f] = [at |-> "write", cmd |-> cmd, seen |-> ctrl[d]]]
    BY <1>8, <2>1 DEF IoctlCopies, Command
  <2> QED BY <1>8, <2>1, <2>2 DEF IoctlCopies, devVars
<1> QED BY <1>1, <1>2, <1>3, <1>5, <1>6, <1>7, <1>8 DEF FileNext

\* Files change no device.
LEMMA FileFrame ==
    ASSUME NEW f \in File, FileNext(f)
    PROVE  UNCHANGED <<act, at, held, tmp, handler>>
  BY DEF FileNext, Open, Ioctl, Close, IoctlCopies, IoctlLeaves, IoctlWrites, IoctlClears, devVars

-----------------------------------------------------------------------------
(* The steps of the PCI core. *)

LEMMA CoreLife ==
    ASSUME LifeInv, NEW d \in Dev,
           Probe(d) \/ Remove(d) \/ Shutdown(d) \/ ShutdownStops(d) \/ ShutdownEnds(d)
    PROVE  LifeInv'
<1> USE DEF LifeInv
<1>1. UNCHANGED <<held, handler, file, op>> /\ Life(d)
  BY DEF Probe, Remove, Shutdown, ShutdownStops, ShutdownEnds, fileVars
<1>2. \A e \in Dev : e # d => act'[e] = act[e] /\ at'[e] = at[e]
  BY DEF Probe, Remove, Shutdown, ShutdownStops, ShutdownEnds, Types
<1>3. Types'
  <2>1. CASE Probe(d)
    BY <1>1, <2>1 DEF Probe, Types
  <2>2. CASE Remove(d)
    BY <1>1, <2>2 DEF Remove, Types
  <2>3. CASE Shutdown(d)
    BY <1>1, <2>3 DEF Shutdown, Types
  <2>4. CASE ShutdownStops(d)
    BY <1>1, <2>4 DEF ShutdownStops, Types
  <2>5. CASE ShutdownEnds(d)
    BY <1>1, <2>5 DEF ShutdownEnds, Types
  <2> QED BY <2>1, <2>2, <2>3, <2>4, <2>5
<1>4. Life(d)'
  <2>1. CASE Probe(d)
    <3>1. act[d] = "absent" /\ act'[d] = "probe" /\ at'[d] = 1
      BY <2>1 DEF Probe, Types
    <3> QED BY <3>1, <1>1 DEF Life, Quiet, Mapped
  <2>2. CASE Remove(d)
    <3>1. act[d] = "bound" /\ act'[d] = "teardown" /\ at'[d] = 1
      BY <2>2 DEF Remove, Types
    <3> QED BY <3>1, <1>1 DEF Life, Quiet, Mapped
  <2>3. CASE Shutdown(d) \/ ShutdownStops(d) \/ ShutdownEnds(d)
    <3>1. act[d] \in {"bound", "shutdown"} /\ act'[d] \in {"shutdown", "off"}
      BY <2>3 DEF Shutdown, ShutdownStops, ShutdownEnds, Types
    <3> QED BY <3>1, <1>1 DEF Life, Quiet, Mapped
  <2> QED BY <2>1, <2>2, <2>3
<1>5. ASSUME NEW e \in Dev, e # d PROVE Life(e)'
  BY <1>1, <1>2, <1>5 DEF Life, Quiet, Mapped
<1> QED BY <1>3, <1>4, <1>5

-----------------------------------------------------------------------------
(* What the files and shutdown hold, which needs the phases above. *)

\* An ioctl in progress holds the lock of a device whose ep is there, and CTRL is
\* as it left it.
FileInv(f) ==
    /\ file[f] \in Dev => "ep" \in held[file[f]]
    /\ file[f] \notin Dev => op[f].at = "none"
    /\ file[f] \in Dev /\ op[f].at # "none" => lock[file[f]] = f
    /\ file[f] \in Dev /\ op[f].at = "write" => ctrl[file[f]] = op[f].seen
    /\ file[f] \in Dev /\ op[f].at = "clear" =>
          ctrl[file[f]] = op[f].seen \cup {"RESET"} /\ op[f].cmd = "reset"

ShutdownInv(d) ==
    act[d] = "shutdown" /\ at[d] = 1 => lock[d] = "shutdown" /\ ctrl[d] = tmp[d]

LockInv == /\ \A f \in File : FileInv(f)
           /\ \A d \in Dev : ShutdownInv(d)

DevInv == LifeInv /\ LockInv

LEMMA InitDev == Init => DevInv
<1>1. Init => LockInv
  BY DevicesOK DEF Init, LockInv, FileInv, ShutdownInv, NoOp
<1> QED BY <1>1, InitLife DEF DevInv

\* A lock whose holder is in the middle of something is not free.
LEMMA LockedOut ==
    ASSUME NEW f \in File
    PROVE  f # "free" /\ f # "shutdown"
  BY DevicesOK

\* Where the cdev is, ep is.
LEMMA CdevHasEp ==
    ASSUME LifeInv, NEW d \in Dev, "cdev" \in held[d]
    PROVE  "ep" \in held[d]
<1>1. Life(d) /\ at[d] \in 1 .. 11
      /\ act[d] \in {"absent", "probe", "bound", "teardown", "shutdown", "off"}
  BY DEF LifeInv, Types
<1> QED BY <1>1 DEF Life, Mapped

LEMMA CoreLock ==
    ASSUME DevInv, NEW d \in Dev,
           Probe(d) \/ Remove(d) \/ ShutdownEnds(d) \/ Fail(d)
    PROVE  LockInv'
<1> USE DEF DevInv, LockInv
<1>1. UNCHANGED <<held, ctrl, lock, tmp, file, op>>
  BY DEF Probe, Remove, ShutdownEnds, Fail, fileVars
<1>2. ASSUME NEW f \in File PROVE FileInv(f)'
  BY <1>1 DEF FileInv
<1>3. ASSUME NEW e \in Dev PROVE ShutdownInv(e)'
  <2>1. act'[e] = "shutdown" /\ at'[e] = 1 => act[e] = "shutdown" /\ at[e] = 1
    BY DEF Probe, Remove, ShutdownEnds, Fail, LifeInv, Types
  <2> QED BY <1>1, <2>1 DEF ShutdownInv
<1> QED BY <1>2, <1>3

LEMMA AcquireLock ==
    ASSUME DevInv, NEW d \in Dev, Acquire(d)
    PROVE  LockInv'
<1> USE DEF DevInv, LockInv
<1>1. /\ act[d] = "probe" /\ at[d] \in 1 .. 11 /\ Life(d)
      /\ UNCHANGED <<ctrl, tmp, file, op>>
      /\ held' = [held EXCEPT ![d] = held[d] \cup Gain(Step(d))]
  BY DEF Acquire, fileVars, LifeInv, Types
<1>2. \A e \in Dev : held[e] \subseteq held'[e]
  BY <1>1 DEF LifeInv, Types
<1>3. \A e \in Dev : lock'[e] = lock[e] \/ (e = d /\ "ep" \notin held[d])
  <2>1. Step(d) = "ep" => at[d] = 1
    BY <1>1, ProbeTable DEF Step
  <2>2. Step(d) = "ep" => "ep" \notin held[d]
    BY <2>1, <1>1 DEF Life
  <2> QED BY <2>2 DEF Acquire, LifeInv, Types
<1>4. ASSUME NEW f \in File PROVE FileInv(f)'
  BY <1>1, <1>2, <1>3 DEF FileInv
<1>5. ASSUME NEW e \in Dev PROVE ShutdownInv(e)'
  <2>1. /\ act'[e] = "shutdown" => act[e] = "shutdown" /\ e # d
        /\ e # d => at'[e] = at[e]
    BY <1>1 DEF Acquire, Advance, LifeInv, Types
  <2> QED BY <1>1, <1>3, <2>1 DEF ShutdownInv
<1> QED BY <1>4, <1>5

LEMMA ReleaseLock ==
    ASSUME DevInv, NEW d \in Dev, Release(d)
    PROVE  LockInv'
<1> USE DEF DevInv, LockInv
<1> DEFINE s == Teardown[at[d]]
<1>1. /\ act[d] = "teardown" /\ at[d] \in 1 .. 10
      /\ UNCHANGED <<ctrl, lock, tmp>>
      /\ held' = [held EXCEPT ![d] = held[d] \ Loss(s)]
  BY DEF Release, LifeInv, Types, Life
<1>2. "ep" \in Loss(s) <=> at[d] = 10
  BY <1>1, TeardownTable DEF Loss
<1>3. ASSUME NEW f \in File PROVE FileInv(f)'
  <2>1. CASE at[d] = 10 /\ file[f] = d
    <3>1. file'[f] = Dangling /\ op'[f] = NoOp
      BY <1>1, <2>1, TeardownTable DEF Release
    <3> QED BY <3>1, DevicesOK DEF FileInv, NoOp
  <2>2. CASE ~(at[d] = 10 /\ file[f] = d)
    <3>1. file'[f] = file[f] /\ op'[f] = op[f]
      BY <1>1, <2>2, TeardownTable DEF Release
    <3>2. file[f] \in Dev => ("ep" \in held'[file[f]] <=> "ep" \in held[file[f]])
      BY <1>1, <1>2, <2>2 DEF LifeInv, Types
    <3> QED BY <1>1, <3>1, <3>2 DEF FileInv
  <2> QED BY <2>1, <2>2
<1>4. ASSUME NEW e \in Dev PROVE ShutdownInv(e)'
  <2>1. /\ act'[e] = "shutdown" => act[e] = "shutdown" /\ e # d
        /\ e # d => at'[e] = at[e]
    BY <1>1 DEF Release, LifeInv, Types
  <2> QED BY <1>1, <2>1 DEF ShutdownInv
<1> QED BY <1>3, <1>4

LEMMA ShutdownLock ==
    ASSUME DevInv, NEW d \in Dev, Shutdown(d) \/ ShutdownStops(d)
    PROVE  LockInv'
<1> USE DEF DevInv, LockInv
<1>1. /\ UNCHANGED <<held, file, op>>
      /\ lock[d] \in {"free", "shutdown"}
      /\ \A e \in Dev : e # d => /\ ctrl'[e] = ctrl[e] /\ lock'[e] = lock[e]
                                 /\ tmp'[e] = tmp[e] /\ act'[e] = act[e] /\ at'[e] = at[e]
  BY DEF Shutdown, ShutdownStops, fileVars, LifeInv, Types, ShutdownInv
<1>2. ASSUME NEW f \in File PROVE FileInv(f)'
  <2>1. file[f] = d => op[f].at = "none"
    BY <1>1, LockedOut DEF FileInv
  <2>2. CASE file[f] = d
    BY <1>1, <2>1, <2>2 DEF FileInv
  <2>3. CASE file[f] # d
    BY <1>1, <2>3 DEF FileInv
  <2> QED BY <2>2, <2>3
<1>3. ASSUME NEW e \in Dev PROVE ShutdownInv(e)'
  <2>1. CASE e # d
    BY <1>1, <2>1 DEF ShutdownInv
  <2>2. CASE e = d /\ Shutdown(d)
    BY <2>2 DEF Shutdown, ShutdownInv, LifeInv, Types
  <2>3. CASE e = d /\ ShutdownStops(d)
    BY <2>3 DEF ShutdownStops, ShutdownInv, LifeInv, Types
  <2> QED BY <2>1, <2>2, <2>3
<1> QED BY <1>2, <1>3

LEMMA HandlerLock ==
    ASSUME DevInv, NEW d \in Dev, HandlerEnters(d) \/ HandlerRuns(d)
    PROVE  LockInv'
<1> USE DEF DevInv, LockInv
<1>1. UNCHANGED <<act, at, held, ctrl, lock, tmp, file, op>>
  BY DEF HandlerEnters, HandlerRuns, devVars, fileVars
<1> QED BY <1>1 DEF FileInv, ShutdownInv

\* Only the holder of the lock, or whoever finds it free, changes CTRL or the lock.
LEMMA FileLock ==
    ASSUME DevInv, NEW f \in File, FileNext(f)
    PROVE  LockInv'
<1> USE DEF DevInv, LockInv
<1>1. UNCHANGED <<act, at, held, tmp, handler>>
  BY FileFrame
<1>2. FileInv(f)
  OBVIOUS
<1>3. \A g \in File : g # f => file'[g] = file[g] /\ op'[g] = op[g]
  BY DEF FileNext, Open, Ioctl, Close, IoctlCopies, IoctlLeaves, IoctlWrites, IoctlClears,
         LifeInv, Types
<1>4. \A e \in Dev : \/ lock'[e] = lock[e] /\ ctrl'[e] = ctrl[e]
                     \/ lock[e] \in {"free", f}
  <2>1. CASE (\E e \in Dev : Open(f, e)) \/ Close(f)
    BY <2>1 DEF Open, Close, devVars
  <2>2. CASE \E cmd \in Command : Ioctl(f, cmd)
    BY <2>2 DEF Ioctl, MayLock, LifeInv, Types
  <2>3. CASE IoctlLeaves(f) \/ IoctlWrites(f) \/ IoctlClears(f)
    <3>1. file[f] \in Dev /\ lock[file[f]] = f
      BY <2>3, <1>2 DEF IoctlLeaves, IoctlWrites, IoctlClears, FileInv
    <3>2. \A e \in Dev : e # file[f] => lock'[e] = lock[e] /\ ctrl'[e] = ctrl[e]
      BY <2>3, <3>1 DEF IoctlLeaves, IoctlWrites, IoctlClears, EarlyUnlock, LifeInv, Types
    <3> QED BY <3>1, <3>2
  <2>4. CASE IoctlCopies(f)
    BY <2>4 DEF IoctlCopies
  <2> QED BY <2>1, <2>2, <2>3, <2>4 DEF FileNext
<1>5. ASSUME NEW g \in File, g # f PROVE FileInv(g)'
  <2>1. FileInv(g) /\ g # "free"
    BY LockedOut
  <2>2. file[g] \in Dev /\ op[g].at # "none" =>
           lock'[file[g]] = lock[file[g]] /\ ctrl'[file[g]] = ctrl[file[g]]
    BY <1>4, <1>5, <2>1 DEF FileInv
  <2> QED BY <1>1, <1>3, <1>5, <2>1, <2>2 DEF FileInv
<1>6. FileInv(f)'
  <2>1. CASE \E e \in Dev : Open(f, e)
    <3>1. PICK e \in Dev : Open(f, e)
      BY <2>1
    <3>2. "ep" \in held[e] /\ file[f] = NoDev
      BY <3>1, CdevHasEp DEF Open
    <3>3. file'[f] = e /\ op' = op /\ op[f].at = "none"
      BY <3>1, <3>2, <1>2, DevicesOK DEF Open, FileInv, LifeInv, Types
    <3> QED BY <1>1, <3>2, <3>3 DEF FileInv
  <2>2. CASE \E cmd \in Command : Ioctl(f, cmd)
    <3>1. /\ file' = file /\ file[f] \in Dev /\ ctrl' = ctrl
          /\ lock'[file[f]] = f
          /\ \/ op'[f].at = "write" /\ op'[f].seen = ctrl[file[f]]
             \/ op'[f].at = "copy"
      BY <2>2 DEF Ioctl, devVars, LifeInv, Types
    <3> QED BY <1>1, <1>2, <3>1 DEF FileInv
  <2>3. CASE Close(f)
    <3>1. file'[f] = NoDev /\ op' = op /\ op[f] = NoOp
      BY <2>3 DEF Close, LifeInv, Types
    <3> QED BY <3>1, DevicesOK DEF FileInv, NoOp
  <2>4. CASE IoctlLeaves(f) \/ IoctlClears(f)
    <3>1. file' = file /\ op'[f] = NoOp
      BY <2>4 DEF IoctlLeaves, IoctlClears, LifeInv, Types
    <3> QED BY <1>1, <1>2, <3>1 DEF FileInv, NoOp
  <2>5. CASE IoctlWrites(f) /\ op[f].cmd # "reset"
    <3>1. file' = file /\ op'[f] = NoOp
      BY <2>5 DEF IoctlWrites, LifeInv, Types
    <3> QED BY <1>1, <1>2, <3>1 DEF FileInv, NoOp
  <2>6. CASE IoctlWrites(f) /\ op[f].cmd = "reset"
    <3>1. /\ file' = file /\ file[f] \in Dev /\ lock' = lock /\ lock[file[f]] = f
          /\ op'[f].at = "clear" /\ op'[f].cmd = "reset" /\ op'[f].seen = op[f].seen
      BY <2>6, <1>2 DEF IoctlWrites, FileInv, LifeInv, Types
    <3>2. ctrl'[file[f]] = op[f].seen \cup {"RESET"}
      BY <2>6, <3>1 DEF IoctlWrites, NewCtrl, LifeInv, Types
    <3> QED BY <1>1, <1>2, <3>1, <3>2 DEF FileInv
  <2>7. CASE IoctlCopies(f)
    <3>1. /\ file' = file /\ ctrl' = ctrl /\ lock' = lock
          /\ op[f].at # "none"
          /\ op'[f].at = "write" /\ op'[f].seen = ctrl[file[f]]
      BY <2>7 DEF IoctlCopies, LifeInv, Types
    <3> QED BY <1>1, <1>2, <3>1 DEF FileInv
  <2> QED BY <2>1, <2>2, <2>3, <2>4, <2>5, <2>6, <2>7 DEF FileNext
<1>7. ASSUME NEW e \in Dev PROVE ShutdownInv(e)'
  <2>1. ShutdownInv(e) /\ f # "shutdown"
    BY LockedOut
  <2> QED BY <1>1, <1>4, <2>1 DEF ShutdownInv
<1> QED BY <1>5, <1>6, <1>7

-----------------------------------------------------------------------------
LEMMA NextDev == DevInv /\ [Next]_vars => DevInv'
<1> SUFFICES ASSUME DevInv, [Next]_vars PROVE DevInv'
  OBVIOUS
<1> USE DEF DevInv
<1>1. CASE UNCHANGED vars
  BY <1>1 DEF vars, devVars, fileVars, LifeInv, Types, Life, Quiet, Mapped,
              LockInv, FileInv, ShutdownInv
<1>2. CASE \E d \in Dev : DevNext(d)
  <2>1. PICK d \in Dev : DevNext(d)
    BY <1>2
  <2>2. CASE Acquire(d)
    BY <2>2, AcquireLife, AcquireLock
  <2>3. CASE Fail(d)
    BY <2>3, FailLife, CoreLock
  <2>4. CASE Release(d)
    BY <2>4, ReleaseLife, ReleaseLock
  <2>5. CASE Probe(d) \/ Remove(d) \/ ShutdownEnds(d)
    BY <2>5, CoreLife, CoreLock
  <2>6. CASE Shutdown(d) \/ ShutdownStops(d)
    BY <2>6, CoreLife, ShutdownLock
  <2>7. CASE HandlerEnters(d) \/ HandlerRuns(d)
    BY <2>7, HandlerLife, HandlerLock
  <2> QED BY <2>1, <2>2, <2>3, <2>4, <2>5, <2>6, <2>7 DEF DevNext
<1>3. CASE \E f \in File : FileNext(f)
  <2>1. PICK f \in File : FileNext(f)
    BY <1>3
  <2>2. Types'
    BY <2>1, FileTypes DEF LifeInv, LockInv, FileInv
  <2>3. UNCHANGED <<act, at, held, handler>>
    BY <2>1, FileFrame
  <2>4. LifeInv'
    BY <2>2, <2>3, SamePhase
  <2> QED BY <2>1, <2>4, FileLock
<1> QED BY <1>1, <1>2, <1>3 DEF Next

LEMMA DevInvariant == Spec => []DevInv
  BY InitDev, NextDev, PTL DEF Spec

-----------------------------------------------------------------------------
(* What a device may hold, and the minors. *)

\* While it is probed a device holds at most what the statements before this one
\* acquired, and while it is torn down what the ones from here on release.
Ledger(d) ==
    /\ act[d] = "absent" => held[d] = {}
    /\ act[d] = "probe" => \A r \in held[d] : \E k \in 1 .. at[d] - 1 : r \in Gain(ProbeSteps[k])
    /\ act[d] = "teardown" => \A r \in held[d] : \E k \in at[d] .. 10 : r \in Loss(Teardown[k])

MinorOwned == \A m \in bits : \E d \in Dev : minor[d] = m /\ "minor" \in held[d]

\* A minor that is about to be reserved passed the range test.
MinorTypes ==
    /\ minor \in [Dev -> 0 .. MaxDevices]
    /\ bits \subseteq 0 .. MaxDevices - 1
    /\ \A d \in Dev : act[d] = "probe" /\ at[d] = 9 => minor[d] < MaxDevices

LedgerInv == MinorTypes /\ (\A d \in Dev : Ledger(d)) /\ MinorOwned

\* Which statement of probe acquires what, and which of remove releases it.
LEMMA GainTable ==
    ASSUME NEW i \in 1 .. 11, NEW r
    PROVE  r \in Gain(ProbeSteps[i]) <=>
             \/ i = 1 /\ r = "ep"
             \/ i = 2 /\ r = "enabled"
             \/ i = 3 /\ r \in {"regions", "master"}
             \/ i = 4 /\ r = "bar0"
             \/ i = 6 /\ r = "dma"
             \/ i = 7 /\ r = "irq"
             \/ i = 9 /\ r = "minor"
             \/ i = 10 /\ r = "cdev"
             \/ i = 11 /\ r = "node"
<1>1. i \in {1, 2, 3, 4, 5, 6, 7, 8, 9, 10, 11}
  OBVIOUS
<1> QED BY <1>1 DEF ProbeSteps, Gain

LEMMA LossTable ==
    ASSUME NEW i \in 1 .. 10, NEW r
    PROVE  r \in Loss(Teardown[i]) <=>
             \/ i = 1 /\ r = "node"
             \/ i = 2 /\ r = "cdev"
             \/ i = 3 /\ r = "minor"
             \/ i = 4 /\ r = "irq"
             \/ i = 6 /\ r = "dma"
             \/ i = 7 /\ r = "bar0"
             \/ i = 8 /\ r = "regions"
             \/ i = 9 /\ r \in {"enabled", "master"}
             \/ i = 10 /\ r = "ep"
<1>1. i \in {1, 2, 3, 4, 5, 6, 7, 8, 9, 10}
  OBVIOUS
<1> QED BY <1>1 DEF Teardown, Loss

\* The labels of the failing statements.
LEMMA LabelList ==
    ASSUME NEW i \in 1 .. 11, ProbeSteps[i] \in DOMAIN Label
    PROVE  \/ i = 1 /\ Label[ProbeSteps[i]] = 11
           \/ i = 2 /\ Label[ProbeSteps[i]] = 10
           \/ i = 3 /\ Label[ProbeSteps[i]] = 9
           \/ i = 4 /\ Label[ProbeSteps[i]] = 8
           \/ i = 5 /\ Label[ProbeSteps[i]] = 7
           \/ i = 7 /\ Label[ProbeSteps[i]] = 6
           \/ i = 8 /\ Label[ProbeSteps[i]] = 4
           \/ i = 10 /\ Label[ProbeSteps[i]] = 3
           \/ i = 11 /\ Label[ProbeSteps[i]] = 2
<1>1. i \in {1, 2, 3, 4, 5, 6, 7, 8, 9, 10, 11}
  OBVIOUS
<1> QED BY <1>1 DEF ProbeSteps, Label

\* The statement of remove that releases what statement k of probe acquired.
Undoes(n, k) == \/ k = 1 /\ n = 10
                \/ k \in {2, 3} /\ n = 9
                \/ k = 3 /\ n = 8
                \/ k = 4 /\ n = 7
                \/ k = 6 /\ n = 6
                \/ k = 7 /\ n = 4
                \/ k = 9 /\ n = 3
                \/ k = 10 /\ n = 2
                \/ k = 11 /\ n = 1

LEMMA Released ==
    ASSUME NEW k \in 1 .. 11, NEW r \in Gain(ProbeSteps[k])
    PROVE  \E n \in 1 .. 10 : r \in Loss(Teardown[n]) /\ Undoes(n, k)
<1>1. \/ k = 1 /\ r = "ep"
      \/ k = 2 /\ r = "enabled"
      \/ k = 3 /\ r = "regions"
      \/ k = 3 /\ r = "master"
      \/ k = 4 /\ r = "bar0"
      \/ k = 6 /\ r = "dma"
      \/ k = 7 /\ r = "irq"
      \/ k = 9 /\ r = "minor"
      \/ k = 10 /\ r = "cdev"
      \/ k = 11 /\ r = "node"
  BY GainTable
<1>2. /\ "node" \in Loss(Teardown[1]) /\ "cdev" \in Loss(Teardown[2])
      /\ "minor" \in Loss(Teardown[3]) /\ "irq" \in Loss(Teardown[4])
      /\ "dma" \in Loss(Teardown[6]) /\ "bar0" \in Loss(Teardown[7])
      /\ "regions" \in Loss(Teardown[8]) /\ {"enabled", "master"} \subseteq Loss(Teardown[9])
      /\ "ep" \in Loss(Teardown[10])
  BY DEF Loss, Teardown
<1>3. CASE k = 1 /\ r = "ep"
  BY <1>2, <1>3 DEF Undoes
<1>4. CASE k = 2 /\ r = "enabled"
  BY <1>2, <1>4 DEF Undoes
<1>5. CASE k = 3 /\ r = "regions"
  BY <1>2, <1>5 DEF Undoes
<1>6. CASE k = 3 /\ r = "master"
  BY <1>2, <1>6 DEF Undoes
<1>7. CASE k = 4 /\ r = "bar0"
  BY <1>2, <1>7 DEF Undoes
<1>8. CASE k = 6 /\ r = "dma"
  BY <1>2, <1>8 DEF Undoes
<1>9. CASE k = 7 /\ r = "irq"
  BY <1>2, <1>9 DEF Undoes
<1>10. CASE k = 9 /\ r = "minor"
  BY <1>2, <1>10 DEF Undoes
<1>11. CASE k = 10 /\ r = "cdev"
  BY <1>2, <1>11 DEF Undoes
<1>12. CASE k = 11 /\ r = "node"
  BY <1>2, <1>12 DEF Undoes
<1> QED BY <1>1, <1>3, <1>4, <1>5, <1>6, <1>7, <1>8, <1>9, <1>10, <1>11, <1>12

\* Every label of probe unwinds all that was acquired before the jump to it.
LEMMA LabelUnwinds ==
    ASSUME NEW i \in 1 .. 11, ProbeSteps[i] \in DOMAIN Label,
           NEW k \in 1 .. i - 1, NEW r \in Gain(ProbeSteps[k])
    PROVE  \E n \in Label[ProbeSteps[i]] .. 10 : r \in Loss(Teardown[n])
<1>1. PICK n \in 1 .. 10 : r \in Loss(Teardown[n]) /\ Undoes(n, k)
  BY Released
<1>2. Label[ProbeSteps[i]] \in 2 .. 11 /\ n >= Label[ProbeSteps[i]]
  BY <1>1, LabelList DEF Undoes
<1> QED BY <1>1, <1>2

LEMMA LeastNatural ==
    ASSUME NEW T \in SUBSET Nat, T # {}
    PROVE  \E n \in T : \A k \in T : n <= k
<1> DEFINE R == {p \in Nat \X Nat : p[1] < p[2]}
<1>1. IsWellFoundedOn(R, Nat)
  BY NatLessThanWellFounded DEF OpToRel
<1> HIDE DEF R
<1>2. PICK n \in T : \A k \in T : <<k, n>> \notin R
  BY <1>1, WFMin
<1>3. \A k \in T : ~(k < n)
  BY <1>2 DEF R
<1> QED BY <1>3

\* The bitmap has a first zero, MaxDevices at the latest.
LEMMA FirstZeroExists ==
    ASSUME bits \subseteq 0 .. MaxDevices - 1
    PROVE  FirstZero \in 0 .. MaxDevices /\ FirstZero \notin bits
<1> DEFINE Clear == (0 .. MaxDevices) \ bits
<1>1. Clear \in SUBSET Nat /\ MaxDevices \in Clear
  BY DevicesOK
<1>2. PICK n \in Clear : \A k \in Clear : n <= k
  <2> HIDE DEF Clear
  <2> QED BY <1>1, LeastNatural
<1>3. \A k \in 0 .. n - 1 : k \in bits
  BY <1>2, DevicesOK
<1>4. \E m \in 0 .. MaxDevices : m \notin bits /\ \A k \in 0 .. m - 1 : k \in bits
  BY <1>2, <1>3
<1> QED BY <1>4 DEF FirstZero

\* Where a minor is found, reserved and released.
LEMMA StepsOfMinor ==
    /\ \A i \in 1 .. 11 : /\ ProbeSteps[i] = "find" <=> i = 8
                          /\ ProbeSteps[i] = "minor" <=> i = 9
    /\ \A i \in 1 .. 10 : Teardown[i] = "minor" <=> i = 3
<1>1. ASSUME NEW i \in 1 .. 11
      PROVE  (ProbeSteps[i] = "find" <=> i = 8) /\ (ProbeSteps[i] = "minor" <=> i = 9)
  <2>1. i \in {1, 2, 3, 4, 5, 6, 7, 8, 9, 10, 11}
    OBVIOUS
  <2> QED BY <2>1 DEF ProbeSteps
<1>2. ASSUME NEW i \in 1 .. 10
      PROVE  Teardown[i] = "minor" <=> i = 3
  <2>1. i \in {1, 2, 3, 4, 5, 6, 7, 8, 9, 10}
    OBVIOUS
  <2> QED BY <2>1 DEF Teardown
<1> QED BY <1>1, <1>2

LEMMA InitLedger == Init => LedgerInv
  BY DevicesOK DEF Init, LedgerInv, MinorTypes, Ledger, MinorOwned

\* Only the steps of a device itself change what it holds and where it is.
LEMMA AcquireLedger ==
    ASSUME LifeInv, LedgerInv, NEW d \in Dev, Acquire(d)
    PROVE  LedgerInv'
<1> USE DEF LifeInv, LedgerInv
<1> DEFINE s == ProbeSteps[at[d]]
<1>1. /\ at[d] \in 1 .. 11 /\ act[d] = "probe" /\ Ledger(d)
      /\ s = Step(d)
      /\ held' = [held EXCEPT ![d] = held[d] \cup Gain(s)]
      /\ Len(ProbeSteps) = 11
  BY ProbeTable DEF Acquire, Types, Step
<1>2. \/ /\ at[d] = 11
         /\ act' = [act EXCEPT ![d] = "bound"] /\ at' = [at EXCEPT ![d] = 1]
      \/ /\ at[d] # 11
         /\ at' = [at EXCEPT ![d] = at[d] + 1] /\ act' = act
  BY <1>1 DEF Acquire, Advance
<1>3. /\ s = "find" <=> at[d] = 8
      /\ s = "minor" <=> at[d] = 9
  BY <1>1, StepsOfMinor
<1>4. \A e \in Dev : e # d => act'[e] = act[e] /\ at'[e] = at[e] /\ held'[e] = held[e]
  BY <1>1, <1>2 DEF Types
<1>5. held'[d] = held[d] \cup Gain(s)
  BY <1>1 DEF Types
<1>6. Ledger(d)'
  <2>1. CASE at[d] = 11
    BY <2>1, <1>2 DEF Types, Ledger
  <2>2. CASE at[d] # 11
    <3>1. act'[d] = "probe" /\ at'[d] = at[d] + 1
      BY <2>2, <1>1, <1>2 DEF Types
    <3>2. ASSUME NEW r \in held'[d]
          PROVE  \E k \in 1 .. at'[d] - 1 : r \in Gain(ProbeSteps[k])
      <4>1. CASE r \in held[d]
        BY <4>1, <3>1, <1>1 DEF Ledger
      <4>2. CASE r \in Gain(s)
        BY <4>2, <3>1, <1>1
      <4> QED BY <4>1, <4>2, <1>5
    <3> QED BY <3>1, <3>2 DEF Ledger
  <2> QED BY <2>1, <2>2
<1>7. ASSUME NEW e \in Dev, e # d PROVE Ledger(e)'
  BY <1>4, <1>7 DEF Ledger
<1>8. CASE at[d] = 8
  <2>1. MinorFound /\ minor' = [minor EXCEPT ![d] = FirstZero] /\ bits' = bits
    BY <1>1, <1>3, <1>8 DEF Acquire
  <2>2. FirstZero \in 0 .. MaxDevices - 1
    BY <2>1, FirstZeroExists, DevicesOK DEF MinorFound, MinorTypes
  <2>3. MinorTypes'
    BY <2>1, <2>2, <1>2, <1>4, DevicesOK DEF MinorTypes, Types
  <2>4. "minor" \notin held[d]
    <3>1. \A k \in 1 .. 7 : "minor" \notin Gain(ProbeSteps[k])
      BY GainTable
    <3> QED BY <3>1, <1>1, <1>8 DEF Ledger
  <2>5. MinorOwned'
    BY <2>1, <2>4, <1>4, <1>5 DEF MinorOwned, MinorTypes
  <2> QED BY <2>3, <2>5, <1>6, <1>7
<1>9. CASE at[d] = 9
  <2>1. minor' = minor /\ bits' = bits \cup {minor[d]}
    BY <1>1, <1>3, <1>9 DEF Acquire
  <2>2. minor[d] \in 0 .. MaxDevices - 1
    BY <1>1, <1>9, DevicesOK DEF MinorTypes
  <2>3. MinorTypes'
    BY <2>1, <2>2, <1>2, <1>4, <1>9 DEF MinorTypes, Types
  <2>4. "minor" \in held'[d]
    BY <1>5, <1>1, <1>9, GainTable
  <2>5. MinorOwned'
    BY <2>1, <2>4, <1>4, <1>5 DEF MinorOwned
  <2> QED BY <2>3, <2>5, <1>6, <1>7
<1>10. CASE at[d] \notin {8, 9}
  <2>1. minor' = minor /\ bits' = bits
    BY <1>1, <1>3, <1>10 DEF Acquire
  <2>2. MinorTypes'
    <3>1. act'[d] = "probe" => at'[d] # 9
      BY <1>1, <1>2, <1>10 DEF Types
    <3> QED BY <2>1, <3>1, <1>4 DEF MinorTypes
  <2>3. MinorOwned'
    BY <2>1, <1>4, <1>5 DEF MinorOwned
  <2> QED BY <2>2, <2>3, <1>6, <1>7
<1> QED BY <1>8, <1>9, <1>10

LEMMA FailLedger ==
    ASSUME LifeInv, LedgerInv, NEW d \in Dev, Fail(d)
    PROVE  LedgerInv'
<1> USE DEF LifeInv, LedgerInv
<1> DEFINE s == ProbeSteps[at[d]]
<1>1. /\ at[d] \in 1 .. 11 /\ act[d] = "probe" /\ Ledger(d) /\ s \in DOMAIN Label
      /\ UNCHANGED <<held, minor, bits>>
      /\ s = "ep" <=> at[d] = 1
  BY ProbeTable DEF Fail, Types, fileVars, Step
<1>2. \A e \in Dev : e # d => act'[e] = act[e] /\ at'[e] = at[e]
  BY DEF Fail, Types
<1>3. act'[d] = (IF at[d] = 1 THEN "absent" ELSE "teardown") /\ at'[d] = Label[s]
  BY <1>1 DEF Fail, Types, Step
<1>4. Ledger(d)'
  <2>1. CASE at[d] = 1
    <3>1. held[d] = {}
      BY <2>1, <1>1 DEF Ledger
    <3> QED BY <2>1, <3>1, <1>1, <1>3 DEF Ledger
  <2>2. CASE at[d] # 1
    <3>1. \A r \in held[d] : \E k \in 1 .. at[d] - 1 : r \in Gain(ProbeSteps[k])
      BY <1>1 DEF Ledger
    <3>2. \A r \in held[d] : \E n \in Label[s] .. 10 : r \in Loss(Teardown[n])
      BY <3>1, <1>1, LabelUnwinds
    <3> QED BY <2>2, <3>2, <1>1, <1>3 DEF Ledger
  <2> QED BY <2>1, <2>2
<1>5. ASSUME NEW e \in Dev, e # d PROVE Ledger(e)'
  BY <1>5, <1>1, <1>2 DEF Ledger
<1>6. MinorTypes' /\ MinorOwned'
  BY <1>1, <1>2, <1>3 DEF MinorTypes, MinorOwned
<1> QED BY <1>4, <1>5, <1>6

LEMMA ReleaseLedger ==
    ASSUME LifeInv, LedgerInv, NEW d \in Dev, Release(d)
    PROVE  LedgerInv'
<1> USE DEF LifeInv, LedgerInv
<1> DEFINE s == Teardown[at[d]]
<1>1. /\ at[d] \in 1 .. 10 /\ act[d] = "teardown" /\ Ledger(d)
      /\ Len(Teardown) = 10
      /\ s = "minor" <=> at[d] = 3
  BY TeardownTable, StepsOfMinor DEF Release, Types, Life
<1>2. /\ held' = [held EXCEPT ![d] = held[d] \ Loss(s)]
      /\ act' = IF at[d] = 10 THEN [act EXCEPT ![d] = "absent"] ELSE act
      /\ at' = [at EXCEPT ![d] = IF at[d] = 10 THEN 1 ELSE at[d] + 1]
      /\ bits' = IF at[d] = 3 THEN bits \ {minor[d]} ELSE bits
      /\ minor' = IF at[d] = 10 THEN [minor EXCEPT ![d] = 0] ELSE minor
  BY <1>1 DEF Release
<1>3. \A e \in Dev : e # d => act'[e] = act[e] /\ at'[e] = at[e] /\ held'[e] = held[e]
                             /\ minor'[e] = minor[e]
  BY <1>2 DEF Types, MinorTypes
<1>4. /\ act'[d] = IF at[d] = 10 THEN "absent" ELSE "teardown"
      /\ at'[d] = IF at[d] = 10 THEN 1 ELSE at[d] + 1
      /\ held'[d] = held[d] \ Loss(s)
  BY <1>1, <1>2 DEF Types
<1>5. Ledger(d)'
  <2>1. \A r \in held'[d] : \E k \in at[d] + 1 .. 10 : r \in Loss(Teardown[k])
    <3> TAKE r \in held'[d]
    <3>1. PICK k \in at[d] .. 10 : r \in Loss(Teardown[k])
      BY <1>1, <1>4 DEF Ledger
    <3>2. k # at[d]
      BY <3>1, <1>4
    <3> QED BY <3>1, <3>2, <1>1
  <2> QED BY <2>1, <1>1, <1>4 DEF Ledger
<1>6. ASSUME NEW e \in Dev, e # d PROVE Ledger(e)'
  BY <1>6, <1>3 DEF Ledger
<1>7. MinorTypes'
  <2>1. 0 \in 0 .. MaxDevices
    BY DevicesOK
  <2>2. minor' \in [Dev -> 0 .. MaxDevices]
    BY <1>2, <2>1 DEF MinorTypes
  <2>3. bits' \subseteq 0 .. MaxDevices - 1
    BY <1>2 DEF MinorTypes
  <2>4. act'[d] # "probe"
    BY <1>4
  <2> QED BY <2>2, <2>3, <2>4, <1>3 DEF MinorTypes
<1>8. MinorOwned'
  <2> SUFFICES ASSUME NEW m \in bits'
               PROVE  \E e \in Dev : minor'[e] = m /\ "minor" \in held'[e]
    BY DEF MinorOwned
  <2>1. PICK e \in Dev : minor[e] = m /\ "minor" \in held[e]
    BY <1>2 DEF MinorOwned
  <2>2. CASE e # d
    BY <2>1, <2>2, <1>3
  <2>3. CASE e = d
    <3>1. PICK k \in at[d] .. 10 : "minor" \in Loss(Teardown[k])
      BY <2>1, <2>3, <1>1 DEF Ledger
    <3>2. k = 3 /\ at[d] <= 3
      BY <3>1, <1>1, LossTable
    <3>3. at[d] # 3
      BY <2>1, <2>3, <1>2
    <3>4. "minor" \notin Loss(s)
      BY <3>3, <1>1, LossTable
    <3> QED BY <2>1, <2>3, <3>2, <3>4, <1>2, <1>4
  <2> QED BY <2>2, <2>3
<1> QED BY <1>5, <1>6, <1>7, <1>8

\* The other steps of the PCI core, the handler and the files.
LEMMA OtherLedger ==
    ASSUME LifeInv, LedgerInv, UNCHANGED <<held, minor, bits>>,
           \A d \in Dev : \/ act'[d] = act[d] /\ at'[d] = at[d]
                          \/ act[d] = "absent" /\ act'[d] = "probe" /\ at'[d] = 1
                          \/ act'[d] = "teardown" /\ at'[d] = 1
                          \/ act'[d] \in {"shutdown", "off"}
    PROVE  LedgerInv'
<1> USE DEF LifeInv, LedgerInv
<1>1. ASSUME NEW d \in Dev PROVE Ledger(d)'
  <2>1. CASE act'[d] = act[d] /\ at'[d] = at[d]
    BY <2>1 DEF Ledger
  <2>2. CASE act[d] = "absent" /\ act'[d] = "probe" /\ at'[d] = 1
    BY <2>2 DEF Ledger
  <2>3. CASE act'[d] = "teardown" /\ at'[d] = 1
    <3>1. ASSUME NEW r \in held[d] PROVE \E k \in 1 .. 10 : r \in Loss(Teardown[k])
      <4>1. r \in Resource
        BY DEF Types
      <4> QED BY <4>1, LossTable DEF Resource
    <3> QED BY <2>3, <3>1 DEF Ledger
  <2>4. CASE act'[d] \in {"shutdown", "off"}
    BY <2>4 DEF Ledger
  <2> QED BY <2>1, <2>2, <2>3, <2>4
<1>2. MinorTypes' /\ MinorOwned'
  BY DEF MinorTypes, MinorOwned
<1> QED BY <1>1, <1>2

LEMMA NextLedger == DevInv /\ LedgerInv /\ [Next]_vars => LedgerInv'
<1> SUFFICES ASSUME DevInv, LedgerInv, [Next]_vars PROVE LedgerInv'
  OBVIOUS
<1> USE DEF DevInv
<1>1. CASE UNCHANGED vars
  BY <1>1, OtherLedger DEF vars, devVars
<1>2. CASE \E d \in Dev : DevNext(d)
  <2>1. PICK d \in Dev : DevNext(d)
    BY <1>2
  <2>2. CASE Acquire(d) \/ Fail(d) \/ Release(d)
    BY <2>2, AcquireLedger, FailLedger, ReleaseLedger
  <2>3. CASE Probe(d)
    <3>1. UNCHANGED <<held, minor, bits>> /\ act[d] = "absent"
          /\ act' = [act EXCEPT ![d] = "probe"] /\ at' = [at EXCEPT ![d] = 1]
      BY <2>3 DEF Probe
    <3> QED BY <3>1, OtherLedger DEF LifeInv, Types
  <2>4. CASE Remove(d)
    <3>1. UNCHANGED <<held, minor, bits>>
          /\ act' = [act EXCEPT ![d] = "teardown"] /\ at' = [at EXCEPT ![d] = 1]
      BY <2>4 DEF Remove
    <3> QED BY <3>1, OtherLedger DEF LifeInv, Types
  <2>5. CASE Shutdown(d) \/ ShutdownStops(d) \/ ShutdownEnds(d)
    <3>1. /\ UNCHANGED <<held, minor, bits>>
          /\ act'[d] \in {"shutdown", "off"}
          /\ \A e \in Dev : e # d => act'[e] = act[e] /\ at'[e] = at[e]
      BY <2>5 DEF Shutdown, ShutdownStops, ShutdownEnds, LifeInv, Types
    <3> QED BY <3>1, OtherLedger
  <2>6. CASE HandlerEnters(d) \/ HandlerRuns(d)
    BY <2>6, OtherLedger DEF HandlerEnters, HandlerRuns, devVars
  <2> QED BY <2>1, <2>2, <2>3, <2>4, <2>5, <2>6 DEF DevNext
<1>3. CASE \E f \in File : FileNext(f)
  <2>1. UNCHANGED <<act, at, held, minor, bits>>
    BY <1>3 DEF FileNext, Open, Ioctl, Close, IoctlCopies, IoctlLeaves, IoctlWrites, IoctlClears, devVars
  <2> QED BY <2>1, OtherLedger
<1> QED BY <1>1, <1>2, <1>3 DEF Next

LEMMA LedgerInvariant == Spec => []LedgerInv
  BY InitLedger, NextLedger, DevInvariant, PTL DEF Spec

-----------------------------------------------------------------------------
\* However many devices are probed, unwound, removed and shut down side by side, and
\* wherever the interrupt comes: while xilinx_ep_irq_handler is registered or still
\* running, ep and the mapped BAR it uses are there.
THEOREM HandlerAlwaysSafe == Spec => []HandlerIsSafe
<1>1. DevInv => HandlerIsSafe
  <2> SUFFICES ASSUME LifeInv, NEW d \in Dev, "irq" \in held[d] \/ handler[d] # "idle"
               PROVE  Mapped(d)
    BY DEF DevInv, HandlerIsSafe, Mapped
  <2>1. /\ Life(d) /\ at[d] \in 1 .. 11
        /\ act[d] \in {"absent", "probe", "bound", "teardown", "shutdown", "off"}
    BY DEF LifeInv, Types
  <2> QED BY <2>1 DEF Life, Quiet, Mapped
<1> QED BY <1>1, DevInvariant, PTL

\* However many files run ioctls on however many devices: neither ep_ioctl nor
\* xilinx_ep_shutdown writes back a CTRL value that has changed since it was read.
THEOREM CtrlAlwaysFresh == Spec => []CtrlIsFresh
<1>1. DevInv => CtrlIsFresh
  BY DEF DevInv, LockInv, FileInv, ShutdownInv, CtrlIsFresh
<1> QED BY <1>1, DevInvariant, PTL
\* Wherever probes fail, whatever removals and shutdowns run beside them: every variable
\* keeps its type; in particular xilinx_ep_probe reserves no minor above max_devices.
THEOREM TypesKept == Spec => []TypeOK
<1>1. DevInv /\ LedgerInv => TypeOK
  <2>1. Len(ProbeSteps) = 11
    BY DEF ProbeSteps
  <2> QED BY <2>1 DEF DevInv, LifeInv, Types, LedgerInv, MinorTypes, TypeOK
<1> QED BY <1>1, DevInvariant, LedgerInvariant, PTL

\* Whichever statement of xilinx_ep_probe fails, its label unwinds all that was acquired,
\* and remove releases the rest: an absent device holds nothing, and a reserved
\* minor always has an owner that will release it.
THEOREM NothingEverLeft == Spec => []NothingLeftBehind
<1>1. LedgerInv => NothingLeftBehind
  BY DEF LedgerInv, Ledger, MinorOwned, NothingLeftBehind
<1> QED BY <1>1, LedgerInvariant, PTL
=============================================================================
