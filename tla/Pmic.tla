-------------------------------- MODULE Pmic --------------------------------
(***************************************************************************)
(* tps6594_driver/src/tps6594.c, and boot_sequence of the SafeRTOS port:   *)
(* the driver's calls as tasks of the application make them, against a     *)
(* chip on an I2C bus whose transfers fail.  No call takes a lock, so the  *)
(* steps of a task are the transfers on the bus, the test of initialized   *)
(* before them and the update of the driver's record after them; what      *)
(* other tasks do falls between any two.                                   *)
(*                                                                         *)
(* A call is a script of transfers.  A register holds a number, or the set *)
(* of its one bits where the code works on bits.  device_id, revid and     *)
(* voltage_ok, which no code reads, are left out.                          *)
(***************************************************************************)
EXTENDS Integers, Sequences

CONSTANTS Tasks,        \* tasks that call the driver
          Duties,       \* applications: functions from tasks to their calls
          Shows,        \* [status register -> values the chip can show there]
          MaxFaults     \* bound on the number of transfers that fail

VARIABLES regs,         \* the chip: contents of its control registers
          dev,          \* tps6594_dev_t: initialized, current_state, voltage_mv
          run,          \* each task: the call it is in, and where in it
          duty,         \* the calls each task makes, one of Duties
          faults,       \* number of transfers that have failed
          writer,       \* ghost: the task that last wrote each rail's voltage
          doubt         \* ghost: rails whose last voltage write failed, or was
                        \* overtaken by another task's before it was noted

vars == <<regs, dev, run, duty, faults, writer, doubt>>

-----------------------------------------------------------------------------
(* Error codes, power states, rails and registers. *)

TPS6594_ERR_OK      == 0
TPS6594_ERR_INVAL   == -1
TPS6594_ERR_NOCOMM  == -2
TPS6594_ERR_NOMATCH == -4
TPS6594_ERR_FAULT   == -5

STATE_ACTIVE  == 0
STATE_STANDBY == 1
STATE_UNKNOWN == 6

TPS6594_I2C_RETRY_MAX == 3

Buck == 0 .. 4              \* BUCK1 .. BUCK5
Rail == 0 .. 8              \* and LDO1 .. LDO4
LDO4 == 8

VoltReg(r) == IF r \in Buck THEN 16 + 4 * r ELSE 40 + 4 * (r - 5)
ConfReg(r) == VoltReg(r) + 1

DEVICE_ID     == 0
INT_STS       == 1
INT_MSK       == 2
PWR_STATUS    == 4
PWR_CTRL      == 5
FAULT_STS     == 7
PG_STATUS     == 67
WDOG_CONF     == 96
WDOG_RESPONSE == 97
ESM_CONF      == 112
ESM_STATUS    == 113
NVM_LOCK      == 146
SLEEP_CONF    == 160
WAKE_CONF     == 161

NumberRegs == {VoltReg(r) : r \in Rail} \cup {PWR_CTRL, WDOG_RESPONSE}
BitRegs == {ConfReg(r) : r \in Rail}
           \cup {INT_MSK, WDOG_CONF, ESM_CONF, NVM_LOCK, SLEEP_CONF, WAKE_CONF}

EN       == 7               \* enable bit of BUCK_CONF, LDO_CONF, ESM_CONF, ...
SLEEP_EN == 0
RET_EN   == 6
RST      == 1
BYPASS   == 6               \* of LDO_CONF
STEPDOWN == 5               \* of LDO4_CONF: low noise

MinMv(r)  == IF r \in Buck THEN 300 ELSE 600
MaxMv(r)  == IF r \in Buck THEN 3340 ELSE 3300
StepMv(r) == IF r \in Buck THEN 5 ELSE 50

\* Rounded up instead of down; not narrowed.
Code_RoundUp(r, mv) == ((mv - MinMv(r) + StepMv(r) - 1) \div StepMv(r)) % 256
Code_Wide(r, mv) == (mv - MinMv(r)) \div StepMv(r)

\* reg_val is a uint8_t.
Code(r, mv) == ((mv - MinMv(r)) \div StepMv(r)) % 256

\* What the header says of the chip: LDO4 in low-noise mode steps by 25 mV.  The
\* driver codes with 50 mV whatever the mode.
LowNoise(r) == r = LDO4 /\ STEPDOWN \in regs[ConfReg(r)]
Bypassed(r) == r \notin Buck /\ BYPASS \in regs[ConfReg(r)]
ChipStep(r) == IF LowNoise(r) THEN 25 ELSE StepMv(r)

\* The voltage a rail that is on delivers, by the header.
Delivered(r) == MinMv(r) + regs[VoltReg(r)] * ChipStep(r)

-----------------------------------------------------------------------------
(* Transfers.  call: the transfer opens a call of the API, which tests     *)
(* initialized first; must: a failure ends the script; learn: what the     *)
(* driver notes in its record afterwards.                                  *)

Nothing == [what |-> "nothing"]
Transfer(kind, a, v) == [kind |-> kind, reg |-> a, val |-> v,
                         call |-> FALSE, must |-> TRUE, learn |-> Nothing]

Get(a)       == Transfer("get", a, {})
Put(a, v)    == Transfer("put", a, v)
Set(a, b)    == Transfer("set", a, b)       \* read, then write with bits b set,
Clear(a, b)  == Transfer("clear", a, b)     \* clear,
Flip(a, b)   == Transfer("flip", a, b)      \* toggled,
Same(a)      == Transfer("same", a, {})     \* or as it was
Note         == Transfer("note", 0, {})     \* no transfer, only learning
Refusal      == Transfer("refusal", 0, {})  \* an argument out of range

Call(x)        == [x EXCEPT !.call = TRUE]
Ignored(x)     == [x EXCEPT !.must = FALSE]
Learn(x, what) == [x EXCEPT !.learn = what]
IgnoredAll(s)  == [i \in DOMAIN s |-> Ignored(s[i])]

Reads(x) == x.kind \in {"get", "set", "clear", "flip", "same", "identify", "verify"}

\* The value tps6594_reg_modify and its like write back.
Written(x, cur) == CASE x.kind = "put"   -> x.val
                     [] x.kind = "set"   -> cur \cup x.val
                     [] x.kind = "clear" -> cur \ x.val
                     [] x.kind = "flip"  -> (cur \ x.val) \cup (x.val \ cur)
                     [] x.kind = "same"  -> cur

-----------------------------------------------------------------------------
(* The calls. *)

InitDev == <<Learn(Note, [what |-> "reset"])>>

Probe == <<Transfer("identify", DEVICE_ID, {{2, 5}, {4, 5}}), Get(INT_STS),
           Learn(Get(PWR_STATUS), [what |-> "ready"])>>

Enable(r)  == <<Call(Set(ConfReg(r), {EN}))>>
Disable(r) == <<Call(Clear(ConfReg(r), {EN}))>>

SetVoltage(r, mv) ==
    <<IF mv \in MinMv(r) .. MaxMv(r)
      THEN Call(Learn(Put(VoltReg(r), Code(r, mv)), [what |-> "mv", rail |-> r, mv |-> mv]))
      ELSE Call(Refusal)>>

GetVoltage(r) == <<Call(Get(VoltReg(r)))>>
GetStatus     == <<Call(Get(PG_STATUS))>>

\* The switch: any other state is refused.
SetPowerState(s) ==
    <<IF s \in 0 .. 3
      THEN Call(Learn(Put(PWR_CTRL, s), [what |-> "state", state |-> s]))
      ELSE Call(Refusal)>>
GetPowerState    == <<Call(Learn(Get(PWR_STATUS), [what |-> "status"]))>>

EnterSleep == <<Call(Set(SLEEP_CONF, {SLEEP_EN}))>> \o SetPowerState(STATE_STANDBY)
ExitSleep  == <<Call(Learn(Clear(SLEEP_CONF, {SLEEP_EN}),
                           [what |-> "state", state |-> STATE_ACTIVE]))>>

\* ldo_mask moves up by six: LDO1 and LDO2 land on bits 6 and 7, the others
\* outside the byte.
SleepBits(s) == (IF s.enabled THEN {SLEEP_EN} ELSE {})
                \cup (IF s.retention THEN {RET_EN} ELSE {})
                \cup (s.bucks \cap 0 .. 4)
                \cup {k + 6 : k \in s.ldos \cap 0 .. 1}

ConfigureSleep(s) == <<Call(Put(SLEEP_CONF, SleepBits(s))), Put(WAKE_CONF, s.wake)>>
\* There is no pin 7.
EnableWake(bits)  == <<Call(IF 0 .. 2 \subseteq bits THEN Refusal ELSE Put(WAKE_CONF, bits \cup {EN}))>>

\* The upper seven bits of the timeout, which is cut to 32 s.
WatchdogEnable(ms) ==
    <<Call(Put(WDOG_RESPONSE, ((IF ms > 32000 THEN 32000 ELSE ms) \div 256) % 128))>>
WatchdogDisable == <<Call(Put(WDOG_RESPONSE, 0))>>
WatchdogPet     == <<Call(Flip(WDOG_CONF, {RST}))>>

\* Modes up to 2.
EsmEnable(mode) == <<Call(IF mode \in {{}, {0}, {1}} THEN Put(ESM_CONF, mode \cup {EN}) ELSE Refusal)>>
EsmDisable      == <<Call(Put(ESM_CONF, {}))>>
EsmReset        == <<Call(Same(ESM_STATUS))>>

EnableInterrupts(mask)  == <<Call(Set(INT_MSK, mask))>>
DisableInterrupts(mask) == <<Call(Clear(INT_MSK, mask))>>
ClearInterrupts(mask)   == <<Call(Put(INT_STS, mask))>>
GetPendingInterrupts    == <<Call(Get(INT_STS))>>

NvmLock(lock) == <<Put(NVM_LOCK, IF lock THEN {EN} ELSE {})>>
NvmCrcCheck   == <<Call(Get(FAULT_STS))>>

\* Every error is ignored, and the driver forgets the chip whatever happened.
\* The loop that stops one regulator early:
Deinit_OneShort ==
    IgnoredAll(WatchdogDisable \o [i \in 1 .. 8 |-> Disable(i - 1)[1]])
    \o <<Learn(Note, [what |-> "gone"])>>
Deinit ==
    IgnoredAll(WatchdogDisable \o [i \in 1 .. 9 |-> Disable(i - 1)[1]])
    \o <<Learn(Note, [what |-> "gone"])>>

ConfBits(cfg, r) == cfg.mode[r] \cup (IF cfg.enable[r] THEN {EN} ELSE {})

\* The errors of the voltage and configuration writes forgotten.
RailConfig_NoCheck(cfg) ==
    [n \in 1 .. 18 |->
       LET r == (n - 1) \div 2
       IN  Ignored(IF n % 2 = 1 THEN SetVoltage(r, cfg.mv[r])[1]
                                ELSE Put(ConfReg(r), ConfBits(cfg, r)))]
RailConfig(cfg) ==
    [n \in 1 .. 18 |->
       LET r == (n - 1) \div 2
       IN  IF n % 2 = 1 THEN SetVoltage(r, cfg.mv[r])[1]
                        ELSE Put(ConfReg(r), ConfBits(cfg, r))]

StartGuards(cfg) ==
    IgnoredAll((IF cfg.watchdog THEN WatchdogEnable(cfg.timeout) ELSE WatchdogDisable)
               \o (IF cfg.esm # {} THEN EsmEnable(cfg.esm) ELSE <<>>))

\* Watchdog and ESM errors are not reported.
SetConfig(cfg) == RailConfig(cfg) \o ConfigureSleep(cfg.sleep) \o StartGuards(cfg)

BootOrder == <<0, 2, 3, 4, 1, 5, 6, 7, 8>>

\* tps6594_boot_sequence: a rail is judged by a bit of PG_STATUS.
GoodBit(r) == IF r \in Buck THEN r ELSE r - 3
BootSequence(cfg) ==
    SetConfig(cfg)
    \o IgnoredAll([i \in 1 .. 9 |-> Enable(BootOrder[i])[1]])
    \o [i \in 1 .. 9 |-> Call(Transfer("verify", PG_STATUS, {GoodBit(i - 1)}))]
    \o IgnoredAll(WatchdogEnable(cfg.timeout)
                  \o (IF cfg.esm # {} THEN EsmEnable(cfg.esm) ELSE <<>>))

Script(op) ==
    CASE op.name = "init"               -> InitDev
      [] op.name = "probe"              -> Probe
      [] op.name = "deinit"             -> Deinit
      [] op.name = "set_config"         -> SetConfig(op.arg)
      [] op.name = "boot_sequence"      -> BootSequence(op.arg)
      [] op.name = "enable"             -> Enable(op.arg)
      [] op.name = "disable"            -> Disable(op.arg)
      [] op.name = "set_voltage"        -> SetVoltage(op.rail, op.arg)
      [] op.name = "get_voltage"        -> GetVoltage(op.rail)
      [] op.name = "get_status"         -> GetStatus
      [] op.name = "set_power_state"    -> SetPowerState(op.arg)
      [] op.name = "get_power_state"    -> GetPowerState
      [] op.name = "enter_sleep"        -> EnterSleep
      [] op.name = "exit_sleep"         -> ExitSleep
      [] op.name = "configure_sleep"    -> ConfigureSleep(op.arg)
      [] op.name = "enable_wake"        -> EnableWake(op.arg)
      [] op.name = "watchdog_enable"    -> WatchdogEnable(op.arg)
      [] op.name = "watchdog_disable"   -> WatchdogDisable
      [] op.name = "watchdog_pet"       -> WatchdogPet
      [] op.name = "esm_enable"         -> EsmEnable(op.arg)
      [] op.name = "esm_disable"        -> EsmDisable
      [] op.name = "esm_reset"          -> EsmReset
      [] op.name = "enable_interrupts"  -> EnableInterrupts(op.arg)
      [] op.name = "disable_interrupts" -> DisableInterrupts(op.arg)
      [] op.name = "clear_interrupts"   -> ClearInterrupts(op.arg)
      [] op.name = "get_pending"        -> GetPendingInterrupts
      [] op.name = "nvm_lock"           -> NvmLock(op.arg)
      [] op.name = "nvm_crc_check"      -> NvmCrcCheck

-----------------------------------------------------------------------------
(* The calls an application can make: arguments within the types of tps6594.h, *)
(* the regulator within its enumeration.                                       *)

Byte == SUBSET (0 .. 7)                 \* a uint8_t by its bits
Half == 0 .. 65535                      \* a uint16_t
WakeBits == SUBSET {0, 1, 2, 4, 5}      \* pin and edge

SleepConfig == [enabled : BOOLEAN, retention : BOOLEAN, bucks : Byte, ldos : Byte,
                wake : WakeBits]

\* A buck's phase, frequency and forced PWM; bypass and low noise of an LDO.
Modes == {m \in [Rail -> SUBSET (0 .. 6)] :
            /\ \A r \in Rail \ Buck : m[r] \subseteq {BYPASS, STEPDOWN}
            /\ \A r \in Rail \ (Buck \cup {LDO4}) : STEPDOWN \notin m[r]}
Config == [mv : [Rail -> Half], enable : [Rail -> BOOLEAN], mode : Modes,
           sleep : SleepConfig, watchdog : BOOLEAN, timeout : Half, esm : Byte]

Ops == [name : {"init", "probe", "deinit", "get_status", "get_power_state", "enter_sleep",
                "exit_sleep", "watchdog_disable", "watchdog_pet", "esm_disable",
                "esm_reset", "get_pending", "nvm_crc_check"}]
       \cup [name : {"set_config", "boot_sequence"}, arg : Config]
       \cup [name : {"enable", "disable"}, arg : Rail]
       \cup [name : {"set_voltage"}, rail : Rail, arg : Half]
       \cup [name : {"get_voltage"}, rail : Rail]
       \cup [name : {"set_power_state"}, arg : 0 .. 6]
       \cup [name : {"configure_sleep"}, arg : SleepConfig]
       \cup [name : {"enable_wake"}, arg : WakeBits]
       \cup [name : {"watchdog_enable"}, arg : Half]
       \cup [name : {"esm_enable", "enable_interrupts", "disable_interrupts",
                      "clear_interrupts"}, arg : Byte]
       \cup [name : {"nvm_lock"}, arg : BOOLEAN]

\* The calls of some application.
Made == UNION {d[t] : d \in Duties, t \in Tasks}

ASSUME ApplicationsOK ==
    /\ Made \subseteq Ops
    /\ MaxFaults \in Nat
    /\ "nobody" \notin Tasks

-----------------------------------------------------------------------------
(* Running a call. *)

Scripts == [op \in Made |-> Script(op)]

\* The ghosts of a call: whether the driver was initialized when it began, whether
\* no other task has been in a call, whether a transfer failed, and WDOG_CONF at
\* its start.
NoOp == [name |-> "none"]
Idle == [op |-> NoOp, at |-> 0, step |-> "idle", cur |-> {}, tries |-> 0, ret |-> 0,
         ready |-> FALSE, alone |-> FALSE, failed |-> FALSE, before |-> {}]

Now(t) == Scripts[run[t].op][run[t].at]      \* the transfer task t is at

AfterTest(x) == CASE x.kind = "note"  -> "learn"
                  [] Reads(x)         -> "read"
                  [] OTHER            -> "write"

FirstStep(x) == IF x.call THEN "test" ELSE AfterTest(x)

Ended(c, code) == [c EXCEPT !.step = "ret", !.ret = code]

\* On to the next transfer, or to the end.
Advanced(c) ==
    IF c.at = Len(Scripts[c.op]) THEN Ended(c, TPS6594_ERR_OK)
    ELSE [c EXCEPT !.at = @ + 1, !.tries = 0, !.cur = {},
                   !.step = FirstStep(Scripts[c.op][c.at + 1])]

Failed(c, code) ==
    IF Scripts[c.op][c.at].must THEN Ended(c, code) ELSE Advanced(c)

\* After a transfer that went well there may be something to note.
Succeeded(c) ==
    LET x == Scripts[c.op][c.at]
    IN  IF x.learn # Nothing \/ x.kind \in {"identify", "verify"}
        THEN [c EXCEPT !.step = "learn"] ELSE Advanced(c)

AllIdle(ts) == \A u \in ts : run[u].step = "idle"

Init == /\ regs = [a \in NumberRegs \cup BitRegs |-> IF a \in NumberRegs THEN 0 ELSE {}]
        /\ dev = [initialized |-> FALSE, state |-> STATE_UNKNOWN, mv |-> [r \in Rail |-> 0]]
        /\ run = [t \in Tasks |-> Idle]
        /\ duty \in Duties
        /\ faults = 0
        /\ writer = [r \in Rail |-> "nobody"]
        /\ doubt = {}

Enter(t, op) ==
    /\ run[t].step = "idle"
    /\ run' = [u \in Tasks |->
                 IF u # t THEN [run[u] EXCEPT !.alone = FALSE]
                 ELSE [Idle EXCEPT !.op = op, !.at = 1, !.step = FirstStep(Scripts[op][1]),
                                   !.ready = dev.initialized, !.alone = AllIdle(Tasks \ {t}),
                                   !.before = regs[WDOG_CONF]]]
    /\ UNCHANGED <<regs, dev, duty, faults, writer, doubt>>

\* A verdict nobody wrote: get_status failed and ok is what the stack held.
Guessed(c) == {Advanced(c), Ended(c, TPS6594_ERR_FAULT)}

\* What a transfer that cannot be made, or that failed, leads to.
Refused(c, code) ==
    IF Scripts[c.op][c.at].kind = "verify" THEN Guessed(c) ELSE {Failed(c, code)}

\* The entry tests of a call.
Test(t) ==
    /\ run[t].step = "test"
    /\ \E c \in IF dev.initialized /\ Now(t).kind # "refusal"
               THEN {[run[t] EXCEPT !.step = AfterTest(Now(t))]}
               ELSE Refused(run[t], TPS6594_ERR_INVAL) :
          run' = [run EXCEPT ![t] = c]
    /\ UNCHANGED <<regs, dev, duty, faults, writer, doubt>>

\* The bits a read can return; of a voltage code, the caller's business, none.
Shown(a) == CASE a \in NumberRegs -> {{}}
              [] a \in BitRegs    -> {regs[a]}
              [] OTHER            -> Shows[a]

\* The number in the low four bits, TPS6594_PWR_STATE_MASK.
Nibble(bits) == LET B(k) == IF k \in bits THEN 2 ^ k ELSE 0
                IN  B(0) + B(1) + B(2) + B(3)

ReadOK(t) ==
    /\ run[t].step = "read"
    /\ \E v \in Shown(Now(t).reg) :
          run' = [run EXCEPT ![t] =
                    IF Now(t).kind \in {"get", "identify", "verify"}
                    THEN Succeeded([@ EXCEPT !.cur = v])
                    ELSE [@ EXCEPT !.cur = v, !.step = "write"]]
    /\ UNCHANGED <<regs, dev, duty, faults, writer, doubt>>

\* A read is tried once.
ReadFails(t) ==
    /\ run[t].step = "read"
    /\ faults < MaxFaults
    /\ faults' = faults + 1
    /\ \E c \in Refused([run[t] EXCEPT !.failed = TRUE], TPS6594_ERR_NOCOMM) :
          run' = [run EXCEPT ![t] = c]
    /\ UNCHANGED <<regs, dev, duty, writer, doubt>>

\* The value reaches the chip.  Writing a status register clears bits that the
\* chip sets again when it likes.
Lands(t) ==
    LET a == Now(t).reg
    IN  /\ regs' = IF a \in DOMAIN regs
                   THEN [regs EXCEPT ![a] = Written(Now(t), run[t].cur)] ELSE regs
        /\ writer' = [r \in Rail |-> IF a = VoltReg(r) THEN t ELSE writer[r]]

WriteOK(t) ==
    /\ run[t].step = "write"
    /\ Lands(t)
    /\ run' = [run EXCEPT ![t] = Succeeded(@)]
    /\ UNCHANGED <<dev, duty, faults, doubt>>

\* A modification that fails is begun again from the read.
Retried_Reread(c, x) ==
    IF c.tries + 1 = TPS6594_I2C_RETRY_MAX THEN Failed(c, TPS6594_ERR_NOCOMM)
    ELSE [c EXCEPT !.tries = @ + 1, !.step = IF Reads(x) THEN "read" ELSE "write"]

\* The same value is sent again, three times in all.
Retried(c, x) ==
    IF c.tries + 1 = TPS6594_I2C_RETRY_MAX THEN Failed(c, TPS6594_ERR_NOCOMM)
    ELSE [c EXCEPT !.tries = @ + 1]

\* No acknowledgement: the write may have reached the chip or not.
WriteFails(t) ==
    /\ run[t].step = "write"
    /\ faults < MaxFaults
    /\ faults' = faults + 1
    /\ Lands(t) \/ UNCHANGED <<regs, writer>>
    /\ doubt' = doubt \cup {r \in Rail : Now(t).reg = VoltReg(r)}
    /\ run' = [run EXCEPT ![t] = Retried([@ EXCEPT !.failed = TRUE], Now(t))]
    /\ UNCHANGED <<dev, duty>>

\* The record after x.  PWR_STATUS is stored as if it were the driver's own
\* numbering of the states.
Noted(x, cur) ==
    CASE x.learn.what = "reset"  -> [initialized |-> FALSE, state |-> STATE_UNKNOWN,
                                     mv |-> [r \in Rail |-> 0]]
      [] x.learn.what = "ready"  -> [dev EXCEPT !.initialized = TRUE, !.state = Nibble(cur)]
      [] x.learn.what = "gone"   -> [dev EXCEPT !.initialized = FALSE]
      [] x.learn.what = "mv"     -> [dev EXCEPT !.mv[x.learn.rail] = x.learn.mv]
      [] x.learn.what = "state"  -> [dev EXCEPT !.state = x.learn.state]
      [] x.learn.what = "status" -> [dev EXCEPT !.state = Nibble(cur)]
      [] OTHER                   -> dev

\* Power is awaited for as long as it takes.
PowerBad_Polled(c) == [c EXCEPT !.step = "read"]
PowerBad(c) == Ended(c, TPS6594_ERR_FAULT)

Noticed(t) ==
    LET x == Now(t)
    IN  /\ run[t].step = "learn"
        /\ dev' = Noted(x, run[t].cur)
        /\ doubt' = IF x.learn.what # "mv" THEN doubt
                    ELSE IF writer[x.learn.rail] = t THEN doubt \ {x.learn.rail}
                    ELSE doubt \cup {x.learn.rail}
        /\ run' = [run EXCEPT ![t] =
                     CASE x.kind = "identify" /\ @.cur \notin x.val
                              -> Ended(@, TPS6594_ERR_NOMATCH)
                       [] x.kind = "verify" /\ ~(x.val \subseteq @.cur)
                              -> PowerBad(@)
                       [] OTHER -> Advanced(@)]
        /\ UNCHANGED <<regs, duty, faults, writer>>

Return(t) ==
    /\ run[t].step = "ret"
    /\ run' = [run EXCEPT ![t] = Idle]
    /\ UNCHANGED <<regs, dev, duty, faults, writer, doubt>>

Proceed(t) ==
    \/ Test(t) \/ ReadOK(t) \/ ReadFails(t)
    \/ WriteOK(t) \/ WriteFails(t) \/ Noticed(t) \/ Return(t)

Next == \E t \in Tasks : Proceed(t) \/ \E op \in duty[t] : Enter(t, op)

Spec == Init /\ [][Next]_vars

\* The bus answers, or its time limit does, and a task in a call is scheduled.
FairSpec == Spec /\ \A t \in Tasks : WF_vars(Proceed(t))

-----------------------------------------------------------------------------
(* Properties. *)

\* Every register and every field of the driver's record keeps its width.
TypeOK ==
    /\ \A a \in NumberRegs : regs[a] \in 0 .. 255
    /\ \A a \in BitRegs : regs[a] \subseteq 0 .. 7
    /\ dev.initialized \in BOOLEAN /\ dev.state \in 0 .. 15
    /\ dev.mv \in [Rail -> 0 .. 3340]
    /\ \A t \in Tasks : run[t].step \in {"idle", "test", "read", "write", "learn", "ret"}
    /\ faults \in 0 .. MaxFaults
    /\ doubt \subseteq Rail

\* Nothing is being noted of rail r's voltage, nor was its last write in doubt.
Settled(r) ==
    /\ dev.mv[r] # 0
    /\ r \notin doubt
    /\ ~\E t \in Tasks : run[t].step = "learn" /\ Now(t).reg = VoltReg(r)

\* The voltage the driver remembers and the one the chip delivers: whatever tasks
\* set, with retries and writes that land unacknowledged, they differ by the
\* rounding to a step and by the bits of the code that do not fit the register,
\* except while a write is being noted, after one that failed, and after two tasks
\* set one rail at the same time.  Of an LDO that is bypassed, and of LDO4 in
\* low-noise mode, it says nothing: of the latter it is false (LowNoiseAgrees).
CacheAgrees ==
    \A r \in Rail :
        Settled(r) /\ ~Bypassed(r) /\ ~LowNoise(r)
        => LET lost == 256 * StepMv(r) * ((dev.mv[r] - MinMv(r)) \div (256 * StepMv(r)))
           IN  dev.mv[r] - Delivered(r) - lost \in 0 .. StepMv(r) - 1

\* What the header and the documents say: LDO4 in low-noise mode steps by 25 mV,
\* so the voltage the driver remembers is delivered to within one such step.
LowNoiseAgrees ==
    LowNoise(LDO4) /\ Settled(LDO4) => dev.mv[LDO4] - Delivered(LDO4) \in 0 .. 24

\* A pet that reports success has turned the reset bit round once, however many
\* of its writes went unacknowledged: the retry repeats a value, not a toggle.
PetTogglesOnce ==
    \A t \in Tasks :
        run[t].op.name = "watchdog_pet" /\ run[t].step = "ret" /\ run[t].ret = TPS6594_ERR_OK
        => (RST \in regs[WDOG_CONF]) # (RST \in run[t].before)

\* deinit reports success whatever happens; run by itself over a bus that answers
\* it leaves every rail off and the watchdog disabled.
OffAfterDeinit ==
    \A t \in Tasks :
        (/\ run[t].op.name = "deinit" /\ run[t].step = "ret"
         /\ run[t].ready /\ run[t].alone /\ ~run[t].failed)
        => /\ \A r \in Rail : EN \notin regs[ConfReg(r)]
           /\ regs[WDOG_RESPONSE] = 0

\* set_config stops at the first error, and success means that the voltage, the
\* mode bits and the enable bit of each rail, the wake-up and the sleep behaviour
\* are as configured; of the watchdog and the ESM it says nothing.  In SLEEP_CONF
\* BUCK1 shares its bit with the enable bit, LDO1 with the retention, and LDO3 and
\* LDO4 have none.
ConfiguredWhenOK ==
    \A t \in Tasks :
        (/\ run[t].op.name = "set_config" /\ run[t].step = "ret"
         /\ run[t].ret = TPS6594_ERR_OK /\ run[t].alone)
        => LET cfg == run[t].op.arg
               s   == cfg.sleep
           IN  /\ \A r \in Rail : /\ dev.mv[r] = cfg.mv[r]
                                  /\ regs[VoltReg(r)] = Code(r, cfg.mv[r])
                                  /\ regs[ConfReg(r)] \ {EN} = cfg.mode[r]
                                  /\ (EN \in regs[ConfReg(r)]) = cfg.enable[r]
               /\ regs[WAKE_CONF] = s.wake
               /\ (SLEEP_EN \in regs[SLEEP_CONF]) = (s.enabled \/ 0 \in s.bucks)
               /\ (RET_EN \in regs[SLEEP_CONF]) = (s.retention \/ 0 \in s.ldos)
               /\ \A k \in 1 .. 4 : (k \in regs[SLEEP_CONF]) = (k \in s.bucks)
               /\ (7 \in regs[SLEEP_CONF]) = (1 \in s.ldos)
               /\ 5 \notin regs[SLEEP_CONF]

\* Retries are bounded and no call waits for another task: every call returns.
CallsReturn == \A t \in Tasks : run[t].step # "idle" ~> run[t].step = "idle"

\* What the API reference and the comment in boot_sequence say: the rails are
\* configured while they are off, and BUCK2 comes on after the other four.
BuckTwoLast == EN \in regs[ConfReg(1)] => \A r \in Buck : EN \in regs[ConfReg(r)]
=============================================================================
