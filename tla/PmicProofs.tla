----------------------------- MODULE PmicProofs -----------------------------
(***************************************************************************)
(* Theorems about Pmic, for any number of tasks, any applications and any  *)
(* number of failing transfers.                                            *)
(***************************************************************************)
EXTENDS Pmic, SequenceTheorems, TLAPS

-----------------------------------------------------------------------------
(* The registers. *)

Volts == {VoltReg(r) : r \in Rail}

\* Each rail has registers of its own, none of them any of the others.
LEMMA RailRegs ==
    ASSUME NEW r \in Rail
    PROVE  /\ VoltReg(r) \in 16 .. 52 /\ VoltReg(r) % 4 = 0
           /\ ConfReg(r) = VoltReg(r) + 1
           /\ \A s \in Rail : VoltReg(s) = VoltReg(r) => s = r
           /\ \A s \in Rail : ConfReg(s) # VoltReg(r)
           /\ VoltReg(r) \in NumberRegs /\ ConfReg(r) \in BitRegs
  BY DEF Rail, Buck, VoltReg, ConfReg, NumberRegs, BitRegs

LEMMA OtherRegs ==
    /\ NumberRegs = Volts \cup {5, 97}
    /\ {2, 96, 112, 146, 160, 161} \subseteq BitRegs
    /\ \A a \in {0, 1, 4, 7, 67, 113} : a \notin NumberRegs \cup BitRegs
    /\ \A a \in Volts : a \in 16 .. 52
    /\ \A a \in NumberRegs : a \notin BitRegs
    /\ \A a \in Volts : a \notin BitRegs
  BY RailRegs DEF NumberRegs, BitRegs, Volts, PWR_CTRL, WDOG_RESPONSE, INT_MSK, WDOG_CONF, ESM_CONF,
     NVM_LOCK, SLEEP_CONF, WAKE_CONF, VoltReg, ConfReg, Rail, Buck

\* A voltage within the range of its rail is at most 3340 mV, its code a byte.
LEMMA CodeType ==
    ASSUME NEW r \in Rail, NEW mv \in MinMv(r) .. MaxMv(r)
    PROVE  mv \in 1 .. 3340 /\ Code(r, mv) \in 0 .. 255
<1>1. CASE r \in Buck
  <2>1. MinMv(r) = 300 /\ MaxMv(r) = 3340 /\ StepMv(r) = 5
    BY <1>1 DEF MinMv, MaxMv, StepMv
  <2>2. mv \in 300 .. 3340 /\ (mv - 300) \div 5 \in Nat
    BY <2>1
  <2> QED BY <2>1, <2>2 DEF Code
<1>2. CASE r \notin Buck
  <2>1. MinMv(r) = 600 /\ MaxMv(r) = 3300 /\ StepMv(r) = 50
    BY <1>2 DEF MinMv, MaxMv, StepMv
  <2>2. mv \in 600 .. 3300 /\ (mv - 600) \div 50 \in Nat
    BY <2>1
  <2> QED BY <2>1, <2>2 DEF Code
<1> QED BY <1>1, <1>2

LEMMA NibbleType == \A bits : Nibble(bits) \in 0 .. 15
  BY DEF Nibble

-----------------------------------------------------------------------------
(* Sequences and transfers. *)

IsSeq(s) == Len(s) \in Nat /\ s = [i \in 1 .. Len(s) |-> s[i]]

LEMMA SeqIsSeq ==
    ASSUME NEW S, NEW q \in Seq(S)
    PROVE  IsSeq(q)
  BY DEF IsSeq

\* A concatenation, element by element.
LEMMA Spliced ==
    ASSUME NEW S, NEW s \in Seq(S), NEW t \in Seq(S)
    PROVE  /\ s \o t \in Seq(S) /\ Len(s \o t) = Len(s) + Len(t)
           /\ \A i \in 1 .. Len(s) : (s \o t)[i] = s[i]
           /\ \A i \in Len(s) + 1 .. Len(s) + Len(t) : (s \o t)[i] = t[i - Len(s)]
<1>1. ASSUME NEW i \in 1 .. Len(s) + Len(t)
      PROVE  (s \o t)[i] = IF i <= Len(s) THEN s[i] ELSE t[i - Len(s)]
  OBVIOUS
<1> QED BY <1>1

LEMMA Joined ==
    ASSUME NEW s, NEW t, IsSeq(s), IsSeq(t)
    PROVE  /\ IsSeq(s \o t)
           /\ Len(s \o t) = Len(s) + Len(t)
           /\ \A i \in 1 .. Len(s) : (s \o t)[i] = s[i]
           /\ \A i \in Len(s) + 1 .. Len(s) + Len(t) : (s \o t)[i] = t[i - Len(s)]
<1> DEFINE S == {s[i] : i \in 1 .. Len(s)} \cup {t[i] : i \in 1 .. Len(t)}
<1>1. s \in Seq(S) /\ t \in Seq(S)
  BY DEF IsSeq
<1> HIDE DEF S
<1>2. /\ s \o t \in Seq(S) /\ Len(s \o t) = Len(s) + Len(t)
      /\ \A i \in 1 .. Len(s) : (s \o t)[i] = s[i]
      /\ \A i \in Len(s) + 1 .. Len(s) + Len(t) : (s \o t)[i] = t[i - Len(s)]
  BY <1>1, Spliced
<1>3. IsSeq(s \o t)
  BY <1>2, SeqIsSeq
<1> QED BY <1>2, <1>3

LEMMA Single == \A x : IsSeq(<<x>>) /\ Len(<<x>>) = 1 /\ <<x>>[1] = x
  BY DEF IsSeq

LEMMA Listed ==
    ASSUME NEW n \in Nat, NEW s, s = [i \in 1 .. n |-> s[i]]
    PROVE  IsSeq(s) /\ Len(s) = n
<1>1. s \in Seq({s[i] : i \in 1 .. n})
  OBVIOUS
<1> QED BY <1>1 DEF IsSeq

Fields == {"kind", "reg", "val", "call", "must", "learn"}
Alike(x, y) == /\ DOMAIN x = Fields
               /\ x.kind = y.kind /\ x.reg = y.reg /\ x.val = y.val /\ x.learn = y.learn

LEMMA TransferFields ==
    ASSUME NEW k, NEW a, NEW v
    PROVE  /\ DOMAIN Transfer(k, a, v) = Fields
           /\ Transfer(k, a, v).kind = k /\ Transfer(k, a, v).reg = a
           /\ Transfer(k, a, v).val = v /\ Transfer(k, a, v).learn = Nothing
           /\ Transfer(k, a, v).must /\ ~Transfer(k, a, v).call
  BY DEF Transfer, Fields

LEMMA CallFields ==
    ASSUME NEW x, DOMAIN x = Fields
    PROVE  Alike(Call(x), x) /\ Call(x).call /\ Call(x).must = x.must
  BY DEF Call, Alike, Fields

LEMMA IgnoredFields ==
    ASSUME NEW x, DOMAIN x = Fields
    PROVE  Alike(Ignored(x), x) /\ ~Ignored(x).must /\ Ignored(x).call = x.call
  BY DEF Ignored, Alike, Fields

LEMMA LearnFields ==
    ASSUME NEW x, DOMAIN x = Fields, NEW what
    PROVE  /\ DOMAIN Learn(x, what) = Fields
           /\ Learn(x, what).kind = x.kind /\ Learn(x, what).reg = x.reg
           /\ Learn(x, what).val = x.val /\ Learn(x, what).learn = what
           /\ Learn(x, what).must = x.must /\ Learn(x, what).call = x.call
  BY DEF Learn, Fields

-----------------------------------------------------------------------------
(* What the transfers of a script can be. *)

\* A voltage written, to be noted.
Volt(x) == \E r \in Rail : \E mv \in MinMv(r) .. MaxMv(r) :
              /\ x.kind = "put" /\ x.reg = VoltReg(r) /\ x.val = Code(r, mv)
              /\ x.learn = [what |-> "mv", rail |-> r, mv |-> mv]

Plain(x) == /\ x.learn.what \in {"nothing", "reset", "ready", "gone", "status", "state"}
            /\ x.learn.what = "state" => x.learn.state \in 0 .. 15

\* Another number, or bits, written.
Number(x) == /\ x.kind = "put" /\ x.reg \in {PWR_CTRL, WDOG_RESPONSE}
             /\ x.val \in 0 .. 255 /\ Plain(x)
Bits(x) == /\ x.kind \in {"put", "set", "clear", "flip"} /\ x.reg \in BitRegs \ {WDOG_CONF}
           /\ x.val \in SUBSET (0 .. 7) /\ Plain(x)
Pet(x) == /\ x.kind = "flip" /\ x.reg = WDOG_CONF /\ x.val = {RST} /\ x.learn = Nothing

\* A read nothing is learnt from, and whatever leaves the control registers alone.
Look(x) == x.kind = "get" /\ x.learn = Nothing
Aside(x) == x.reg \notin NumberRegs \cup BitRegs /\ Plain(x)

Sane(name, x) == /\ DOMAIN x = Fields
                 /\ \/ Volt(x) \/ Number(x) \/ Bits(x) \/ Look(x) \/ Aside(x)
                    \/ name = "watchdog_pet" /\ Pet(x)

SaneScript(name, s) == IsSeq(s) /\ \A i \in 1 .. Len(s) : Sane(name, s[i])

\* Sanity is a matter of what is transferred, not of how its errors are taken.
LEMMA AlikeSane ==
    ASSUME NEW name, NEW x, NEW y, Sane(name, y), Alike(x, y)
    PROVE  Sane(name, x)
  BY DEF Alike, Sane, Volt, Number, Bits, Pet, Look, Aside, Plain

LEMMA SingleSane ==
    ASSUME NEW name, NEW x, Sane(name, x)
    PROVE  SaneScript(name, <<x>>) /\ Len(<<x>>) = 1 /\ <<x>>[1] = x
  BY Single DEF SaneScript

LEMMA JoinedSane ==
    ASSUME NEW name, NEW s, NEW t, SaneScript(name, s), SaneScript(name, t)
    PROVE  SaneScript(name, s \o t)
<1>1. /\ IsSeq(s \o t)
      /\ Len(s \o t) = Len(s) + Len(t)
      /\ \A i \in 1 .. Len(s) : (s \o t)[i] = s[i]
      /\ \A i \in Len(s) + 1 .. Len(s) + Len(t) : (s \o t)[i] = t[i - Len(s)]
  BY Joined DEF SaneScript
<1>2. Len(s) \in Nat /\ Len(t) \in Nat
  BY DEF SaneScript, IsSeq
<1>3. ASSUME NEW i \in 1 .. Len(s) + Len(t) PROVE Sane(name, (s \o t)[i])
  <2>1. CASE i <= Len(s)
    BY <1>1, <1>2, <2>1 DEF SaneScript
  <2>2. CASE ~(i <= Len(s))
    <3>1. i - Len(s) \in 1 .. Len(t)
      BY <1>2, <2>2
    <3> QED BY <1>1, <1>2, <2>2, <3>1 DEF SaneScript
  <2> QED BY <2>1, <2>2
<1> QED BY <1>1, <1>2, <1>3 DEF SaneScript

LEMMA JoinedLen ==
    ASSUME NEW name, NEW s, NEW t, SaneScript(name, s), SaneScript(name, t)
    PROVE  Len(s \o t) = Len(s) + Len(t)
  BY Joined DEF SaneScript

\* A concatenation whose definition the provers need not see.
Cat(s, t) == s \o t
Splice(s, t, q) == /\ Len(q) = Len(s) + Len(t)
                   /\ \A i \in 1 .. Len(s) : q[i] = s[i]
                   /\ \A i \in 1 .. Len(t) : q[Len(s) + i] = t[i]

LEMMA Chained ==
    ASSUME NEW name, NEW s, NEW t, SaneScript(name, s), SaneScript(name, t)
    PROVE  SaneScript(name, Cat(s, t)) /\ Splice(s, t, Cat(s, t))
<1>1. SaneScript(name, s \o t)
  BY JoinedSane
<1>2. Len(s \o t) = Len(s) + Len(t)
  BY JoinedLen
<1>3. /\ \A i \in 1 .. Len(s) : (s \o t)[i] = s[i]
      /\ \A i \in Len(s) + 1 .. Len(s) + Len(t) : (s \o t)[i] = t[i - Len(s)]
  BY Joined DEF SaneScript
<1>4. Len(s) \in Nat /\ Len(t) \in Nat
  BY DEF SaneScript, IsSeq
<1>5. ASSUME NEW i \in 1 .. Len(t) PROVE (s \o t)[Len(s) + i] = t[i]
  <2>1. Len(s) + i \in Len(s) + 1 .. Len(s) + Len(t) /\ Len(s) + i - Len(s) = i
    BY <1>4
  <2> QED BY <2>1, <1>3
<1> QED BY <1>1, <1>2, <1>3, <1>5 DEF Cat, Splice

LEMMA IgnoredSane ==
    ASSUME NEW name, NEW s, SaneScript(name, s)
    PROVE  /\ SaneScript(name, IgnoredAll(s)) /\ Len(IgnoredAll(s)) = Len(s)
           /\ \A i \in 1 .. Len(s) : IgnoredAll(s)[i] = Ignored(s[i])
<1>1. Len(s) \in Nat /\ DOMAIN s = 1 .. Len(s)
  BY DEF SaneScript, IsSeq
<1>2. IgnoredAll(s) = [i \in 1 .. Len(s) |-> Ignored(s[i])]
  BY <1>1 DEF IgnoredAll
<1>3. \A i \in 1 .. Len(s) : IgnoredAll(s)[i] = Ignored(s[i])
  BY <1>2
<1>4. IgnoredAll(s) = [i \in 1 .. Len(s) |-> IgnoredAll(s)[i]]
  BY <1>2
<1>5. IsSeq(IgnoredAll(s)) /\ Len(IgnoredAll(s)) = Len(s)
  BY <1>1, <1>4, Listed
<1>6. ASSUME NEW i \in 1 .. Len(s) PROVE Sane(name, IgnoredAll(s)[i])
  <2>1. Sane(name, s[i]) /\ DOMAIN s[i] = Fields
    BY DEF SaneScript, Sane
  <2> QED BY <1>3, <2>1, IgnoredFields, AlikeSane
<1> QED BY <1>3, <1>5, <1>6 DEF SaneScript

LEMMA ListedSane ==
    ASSUME NEW name, NEW n \in Nat, NEW s, s = [i \in 1 .. n |-> s[i]],
           \A i \in 1 .. n : Sane(name, s[i])
    PROVE  SaneScript(name, s) /\ Len(s) = n
  BY Listed DEF SaneScript

LEMMA EmptySane == \A name : SaneScript(name, <<>>) /\ Len(<<>>) = 0
  BY Listed DEF SaneScript, IsSeq

-----------------------------------------------------------------------------
(* The transfers the scripts are made of. *)

\* A transfer that opens a call is as sane as it was, also when its errors are ignored.
LEMMA WrappedSane ==
    ASSUME NEW name, NEW x, Sane(name, x)
    PROVE  Sane(name, Call(x)) /\ Sane(name, Ignored(x))
<1>1. DOMAIN x = Fields
  BY DEF Sane
<1> QED BY <1>1, CallFields, IgnoredFields, AlikeSane

LEMMA BitsSane ==
    ASSUME NEW name, NEW a \in BitRegs \ {WDOG_CONF}, NEW v \in SUBSET (0 .. 7)
    PROVE  /\ Sane(name, Put(a, v)) /\ Sane(name, Set(a, v)) /\ Sane(name, Clear(a, v))
           /\ Sane(name, Learn(Clear(a, v), [what |-> "state", state |-> 0]))
<1>1. ASSUME NEW k \in {"put", "set", "clear"}, NEW l,
             l = Nothing \/ l = [what |-> "state", state |-> 0],
             NEW x, DOMAIN x = Fields, x.kind = k, x.reg = a, x.val = v, x.learn = l
      PROVE  Sane(name, x)
  <2>1. Plain(x)
    BY <1>1 DEF Plain, Nothing
  <2> QED BY <1>1, <2>1 DEF Sane, Bits
<1>2. Sane(name, Put(a, v)) /\ Sane(name, Set(a, v)) /\ Sane(name, Clear(a, v))
  BY <1>1, TransferFields DEF Put, Set, Clear
<1>3. Sane(name, Learn(Clear(a, v), [what |-> "state", state |-> 0]))
  BY <1>1, TransferFields, LearnFields DEF Clear
<1> QED BY <1>2, <1>3

LEMMA NumberSane ==
    ASSUME NEW name, NEW v \in 0 .. 255
    PROVE  /\ Sane(name, Put(WDOG_RESPONSE, v))
           /\ v <= 15 => Sane(name, Learn(Put(PWR_CTRL, v), [what |-> "state", state |-> v]))
<1> DEFINE x == Put(WDOG_RESPONSE, v)
           y == Put(PWR_CTRL, v)
           z == Learn(y, [what |-> "state", state |-> v])
<1>1. /\ DOMAIN x = Fields /\ x.kind = "put" /\ x.reg = WDOG_RESPONSE /\ x.val = v
      /\ x.learn = Nothing
  BY TransferFields DEF Put
<1>2. DOMAIN y = Fields /\ y.kind = "put" /\ y.reg = PWR_CTRL /\ y.val = v
  BY TransferFields DEF Put
<1>3. /\ DOMAIN z = Fields /\ z.kind = "put" /\ z.reg = PWR_CTRL /\ z.val = v
      /\ z.learn = [what |-> "state", state |-> v]
  BY <1>2, LearnFields, Zenon
<1> HIDE DEF x, z
<1>4. Sane(name, x)
  BY <1>1 DEF Sane, Number, Plain, Nothing
<1>5. v <= 15 => Sane(name, z)
  BY <1>3 DEF Sane, Number, Plain
<1> QED BY <1>4, <1>5 DEF x, z

LEMMA LookSane == \A name, a : Sane(name, Get(a))
  BY TransferFields DEF Sane, Look, Get

\* Whatever is transferred, the status registers and no register at all are aside.
LEMMA AsideSane ==
    ASSUME NEW name, NEW a \in {0, 1, 4, 7, 67, 113}, NEW k, NEW v
    PROVE  /\ Sane(name, Transfer(k, a, v))
           /\ \A w \in {"reset", "ready", "gone", "status"} :
                 Sane(name, Learn(Transfer(k, a, v), [what |-> w]))
<1> USE OtherRegs DEF Sane, Aside, Plain
<1>1. Sane(name, Transfer(k, a, v))
  BY TransferFields DEF Nothing
<1>2. ASSUME NEW w \in {"reset", "ready", "gone", "status"}
      PROVE  Sane(name, Learn(Transfer(k, a, v), [what |-> w]))
  BY TransferFields, LearnFields
<1> QED BY <1>1, <1>2

LEMMA VoltSane ==
    ASSUME NEW name, NEW r \in Rail, NEW mv \in MinMv(r) .. MaxMv(r)
    PROVE  Sane(name, Learn(Put(VoltReg(r), Code(r, mv)), [what |-> "mv", rail |-> r, mv |-> mv]))
  BY TransferFields, LearnFields DEF Sane, Volt, Put

\* Where the single transfers of a call end up.
LEMMA OneCall ==
    ASSUME NEW name, NEW x, Sane(name, x)
    PROVE  SaneScript(name, <<Call(x)>>) /\ Len(<<Call(x)>>) = 1 /\ <<Call(x)>>[1] = Call(x)
  BY WrappedSane, SingleSane

-----------------------------------------------------------------------------
(* The scripts of the calls. *)

LEMMA NoteSane ==
    ASSUME NEW name, NEW w \in {"reset", "gone"}
    PROVE  Sane(name, Learn(Note, [what |-> w])) /\ Sane(name, Refusal)
  BY AsideSane DEF Note, Refusal

LEMMA RailSane ==
    ASSUME NEW name, NEW r \in Rail
    PROVE  /\ SaneScript(name, Enable(r)) /\ Len(Enable(r)) = 1
           /\ SaneScript(name, Disable(r)) /\ Len(Disable(r)) = 1
           /\ SaneScript(name, GetVoltage(r)) /\ Len(GetVoltage(r)) = 1
<1>1. ConfReg(r) \in BitRegs \ {WDOG_CONF} /\ {EN} \in SUBSET (0 .. 7)
  BY RailRegs DEF WDOG_CONF, EN
<1> QED BY <1>1, BitsSane, LookSane, OneCall DEF Enable, Disable, GetVoltage

LEMMA SetVoltageSane ==
    ASSUME NEW name, NEW r \in Rail, NEW mv
    PROVE  SaneScript(name, SetVoltage(r, mv)) /\ Len(SetVoltage(r, mv)) = 1
<1>1. CASE mv \in MinMv(r) .. MaxMv(r)
  BY <1>1, VoltSane, OneCall DEF SetVoltage
<1>2. CASE mv \notin MinMv(r) .. MaxMv(r)
  BY <1>2, NoteSane, OneCall DEF SetVoltage
<1> QED BY <1>1, <1>2

LEMMA PowerSane ==
    ASSUME NEW name, NEW st
    PROVE  /\ SaneScript(name, SetPowerState(st)) /\ Len(SetPowerState(st)) = 1
           /\ SaneScript(name, EnterSleep) /\ Len(EnterSleep) = 2
           /\ SaneScript(name, ExitSleep) /\ Len(ExitSleep) = 1
<1>1. \A q : SaneScript(name, SetPowerState(q)) /\ Len(SetPowerState(q)) = 1
  <2> TAKE q
  <2>1. CASE q \in 0 .. 3
    BY <2>1, NumberSane, OneCall DEF SetPowerState
  <2>2. CASE q \notin 0 .. 3
    BY <2>2, NoteSane, OneCall DEF SetPowerState
  <2> QED BY <2>1, <2>2
<1>2. SLEEP_CONF \in BitRegs \ {WDOG_CONF} /\ {SLEEP_EN} \in SUBSET (0 .. 7)
  BY OtherRegs DEF SLEEP_CONF, WDOG_CONF, SLEEP_EN
<1>3. SaneScript(name, <<Call(Set(SLEEP_CONF, {SLEEP_EN}))>>)
      /\ Len(<<Call(Set(SLEEP_CONF, {SLEEP_EN}))>>) = 1
  BY <1>2, BitsSane, OneCall
<1>4. SaneScript(name, EnterSleep) /\ Len(EnterSleep) = 2
  <2>1. SaneScript(name, SetPowerState(STATE_STANDBY)) /\ Len(SetPowerState(STATE_STANDBY)) = 1
    BY <1>1
  <2> DEFINE first == <<Call(Set(SLEEP_CONF, {SLEEP_EN}))>>
             second == SetPowerState(STATE_STANDBY)
  <2>2. EnterSleep = first \o second
    BY DEF EnterSleep
  <2>3. SaneScript(name, first) /\ Len(first) = 1
    BY <1>3
  <2> HIDE DEF first, second
  <2>4. SaneScript(name, second) /\ Len(second) = 1
    BY <2>1 DEF second
  <2>5. SaneScript(name, first \o second)
    BY <2>4, <2>3, JoinedSane
  <2>6. Len(first \o second) = Len(first) + Len(second)
    BY <2>4, <2>3, JoinedLen
  <2> QED BY <2>2, <2>3, <2>4, <2>5, <2>6
<1>5. SaneScript(name, ExitSleep) /\ Len(ExitSleep) = 1
  BY <1>2, BitsSane, OneCall DEF ExitSleep, STATE_ACTIVE
<1> QED BY <1>1, <1>4, <1>5

LEMMA PairSane ==
    ASSUME NEW name, NEW x, NEW y, Sane(name, x), Sane(name, y)
    PROVE  SaneScript(name, <<x, y>>) /\ Len(<<x, y>>) = 2
<1> DEFINE s == <<x, y>>
<1>1. s = [i \in 1 .. 2 |-> s[i]] /\ \A i \in 1 .. 2 : Sane(name, s[i])
  OBVIOUS
<1> HIDE DEF s
<1>2. SaneScript(name, s) /\ Len(s) = 2
  BY <1>1, ListedSane
<1> QED BY <1>2 DEF s

LEMMA SleepSane ==
    ASSUME NEW name, NEW c \in SleepConfig
    PROVE  SaneScript(name, ConfigureSleep(c)) /\ Len(ConfigureSleep(c)) = 2
<1>1. /\ SLEEP_CONF \in BitRegs \ {WDOG_CONF} /\ WAKE_CONF \in BitRegs \ {WDOG_CONF}
  BY OtherRegs DEF SLEEP_CONF, WAKE_CONF, WDOG_CONF
<1>2. c.wake \in SUBSET (0 .. 7)
  BY DEF SleepConfig, WakeBits
<1>3. SleepBits(c) \in SUBSET (0 .. 7)
  BY DEF SleepBits, SLEEP_EN, RET_EN
<1> QED BY <1>1, <1>2, <1>3, BitsSane, WrappedSane, PairSane DEF ConfigureSleep

LEMMA WakeSane ==
    ASSUME NEW name, NEW bits \in WakeBits
    PROVE  SaneScript(name, EnableWake(bits)) /\ Len(EnableWake(bits)) = 1
<1>1. WAKE_CONF \in BitRegs \ {WDOG_CONF}
  BY OtherRegs DEF WAKE_CONF, WDOG_CONF
<1>2. bits \cup {EN} \in SUBSET (0 .. 7)
  BY DEF WakeBits, EN
<1>3. Sane(name, Refusal) /\ Sane(name, Put(WAKE_CONF, bits \cup {EN}))
  BY <1>1, <1>2, BitsSane, NoteSane
<1>4. Sane(name, IF 0 .. 2 \subseteq bits THEN Refusal ELSE Put(WAKE_CONF, bits \cup {EN}))
  BY <1>3
<1> QED BY <1>4, OneCall DEF EnableWake

LEMMA WatchdogSane ==
    ASSUME NEW name
    PROVE  /\ \A ms \in Half : /\ SaneScript(name, WatchdogEnable(ms))
                              /\ Len(WatchdogEnable(ms)) = 1
           /\ SaneScript(name, WatchdogDisable) /\ Len(WatchdogDisable) = 1
<1>1. ASSUME NEW ms \in Half
      PROVE  SaneScript(name, WatchdogEnable(ms)) /\ Len(WatchdogEnable(ms)) = 1
  <2> DEFINE v == ((IF ms > 32000 THEN 32000 ELSE ms) \div 256) % 128
  <2>1. v \in 0 .. 255
    BY DEF Half
  <2> HIDE DEF v
  <2>2. Sane(name, Put(WDOG_RESPONSE, v))
    BY <2>1, NumberSane
  <2> QED BY <2>2, OneCall DEF WatchdogEnable, v
<1>2. SaneScript(name, WatchdogDisable) /\ Len(WatchdogDisable) = 1
  BY NumberSane, OneCall DEF WatchdogDisable
<1> QED BY <1>1, <1>2

LEMMA EsmSane ==
    ASSUME NEW name, NEW mode
    PROVE  /\ SaneScript(name, EsmEnable(mode)) /\ Len(EsmEnable(mode)) = 1
           /\ SaneScript(name, EsmDisable) /\ Len(EsmDisable) = 1
           /\ SaneScript(name, EsmReset) /\ Len(EsmReset) = 1
<1>1. ESM_CONF \in BitRegs \ {WDOG_CONF}
  BY OtherRegs DEF ESM_CONF, WDOG_CONF
<1>2. SaneScript(name, EsmEnable(mode)) /\ Len(EsmEnable(mode)) = 1
  <2>1. CASE mode \in {{}, {0}, {1}}
    <3>1. mode \cup {EN} \in SUBSET (0 .. 7)
      BY <2>1 DEF EN
    <3> QED BY <1>1, <2>1, <3>1, BitsSane, OneCall DEF EsmEnable
  <2>2. CASE mode \notin {{}, {0}, {1}}
    BY <2>2, NoteSane, OneCall DEF EsmEnable
  <2> QED BY <2>1, <2>2
<1>3. SaneScript(name, EsmDisable) /\ Len(EsmDisable) = 1
  BY <1>1, BitsSane, OneCall DEF EsmDisable
<1>4. SaneScript(name, EsmReset) /\ Len(EsmReset) = 1
  BY AsideSane, OneCall DEF EsmReset, Same, ESM_STATUS
<1> QED BY <1>2, <1>3, <1>4

LEMMA InterruptSane ==
    ASSUME NEW name, NEW mask \in Byte
    PROVE  /\ SaneScript(name, EnableInterrupts(mask)) /\ Len(EnableInterrupts(mask)) = 1
           /\ SaneScript(name, DisableInterrupts(mask)) /\ Len(DisableInterrupts(mask)) = 1
           /\ SaneScript(name, ClearInterrupts(mask)) /\ Len(ClearInterrupts(mask)) = 1
<1>1. INT_MSK \in BitRegs \ {WDOG_CONF}
  BY OtherRegs DEF INT_MSK, WDOG_CONF
<1>2. mask \in SUBSET (0 .. 7)
  BY DEF Byte
<1>3. Sane(name, Put(INT_STS, mask))
  BY AsideSane DEF Put, INT_STS
<1> QED BY <1>1, <1>2, <1>3, BitsSane, OneCall DEF EnableInterrupts, DisableInterrupts, ClearInterrupts

LEMMA LookingSane ==
    ASSUME NEW name
    PROVE  /\ SaneScript(name, GetStatus) /\ Len(GetStatus) = 1
           /\ SaneScript(name, GetPowerState) /\ Len(GetPowerState) = 1
           /\ SaneScript(name, GetPendingInterrupts) /\ Len(GetPendingInterrupts) = 1
           /\ SaneScript(name, NvmCrcCheck) /\ Len(NvmCrcCheck) = 1
<1>1. Sane(name, Learn(Get(PWR_STATUS), [what |-> "status"]))
  BY AsideSane DEF Get, PWR_STATUS
<1>2. SaneScript(name, GetPowerState) /\ Len(GetPowerState) = 1
  BY <1>1, OneCall DEF GetPowerState
<1> QED BY <1>2, LookSane, OneCall DEF GetStatus, GetPendingInterrupts, NvmCrcCheck

LEMMA NvmSane ==
    ASSUME NEW name, NEW on
    PROVE  SaneScript(name, NvmLock(on)) /\ Len(NvmLock(on)) = 1
<1>1. NVM_LOCK \in BitRegs \ {WDOG_CONF}
  BY OtherRegs DEF NVM_LOCK, WDOG_CONF
<1>2. (IF on THEN {EN} ELSE {}) \in SUBSET (0 .. 7)
  BY DEF EN
<1> QED BY <1>1, <1>2, BitsSane, SingleSane DEF NvmLock

LEMMA BringSane ==
    ASSUME NEW name
    PROVE  /\ SaneScript(name, InitDev) /\ Len(InitDev) = 1
           /\ SaneScript(name, Probe) /\ Len(Probe) = 3
<1>1. SaneScript(name, InitDev) /\ Len(InitDev) = 1
  BY NoteSane, SingleSane DEF InitDev
<1>2. /\ Sane(name, Transfer("identify", DEVICE_ID, {{2, 5}, {4, 5}}))
      /\ Sane(name, Get(INT_STS)) /\ Sane(name, Learn(Get(PWR_STATUS), [what |-> "ready"]))
  BY AsideSane DEF Get, PWR_STATUS, INT_STS, DEVICE_ID
<1>3. /\ Probe = [i \in 1 .. 3 |-> Probe[i]]
      /\ Probe[1] = Transfer("identify", DEVICE_ID, {{2, 5}, {4, 5}})
      /\ Probe[2] = Get(INT_STS)
      /\ Probe[3] = Learn(Get(PWR_STATUS), [what |-> "ready"])
  BY DEF Probe
<1>4. \A i \in 1 .. 3 : Sane(name, Probe[i])
  <2> TAKE i \in 1 .. 3
  <2>1. i = 1 \/ i = 2 \/ i = 3
    OBVIOUS
  <2> QED BY <2>1, <1>2, <1>3
<1>5. SaneScript(name, Probe) /\ Len(Probe) = 3
  BY <1>3, <1>4, 3 \in Nat, ListedSane, Zenon
<1> QED BY <1>1, <1>5

\* Element by element: the watchdog off, nine rails off, and the chip forgotten.
LEMMA DeinitScript ==
    ASSUME NEW name
    PROVE  /\ SaneScript(name, Deinit) /\ Len(Deinit) = 11
           /\ Deinit[1] = Ignored(Call(Put(WDOG_RESPONSE, 0)))
           /\ \A r \in Rail : Deinit[r + 2] = Ignored(Call(Clear(ConfReg(r), {EN})))
           /\ Deinit[11] = Learn(Note, [what |-> "gone"])
<1> DEFINE off == [i \in 1 .. 9 |-> Disable(i - 1)[1]]
           quiet == Cat(WatchdogDisable, off)
           hushed == IgnoredAll(quiet)
           last == <<Learn(Note, [what |-> "gone"])>>
<1>1. ASSUME NEW r \in Rail
      PROVE  off[r + 1] = Call(Clear(ConfReg(r), {EN})) /\ Sane(name, off[r + 1])
  <2>1. r + 1 \in 1 .. 9 /\ r + 1 - 1 = r
    BY DEF Rail
  <2>2. \A i \in 1 .. 9 : off[i] = Disable(i - 1)[1]
    OBVIOUS
  <2>4. off[r + 1] = Disable(r)[1]
    <3>1. ASSUME NEW i \in 1 .. 9, i = r + 1 PROVE off[i] = Disable(r)[1]
      <4>1. i - 1 = r
        BY <3>1 DEF Rail
      <4> QED BY <2>2, <4>1
    <3> HIDE DEF off
    <3> QED BY <2>1, <3>1
  <2>5. off[r + 1] = Call(Clear(ConfReg(r), {EN}))
    BY <2>4 DEF Disable
  <2>3. ConfReg(r) \in BitRegs \ {WDOG_CONF} /\ {EN} \in SUBSET (0 .. 7)
    BY RailRegs DEF WDOG_CONF, EN
  <2> HIDE DEF off
  <2> QED BY <2>5, <2>3, BitsSane, WrappedSane
<1>2. \A i \in 1 .. 9 : i - 1 \in Rail /\ i = (i - 1) + 1
  BY DEF Rail
<1>3. off = [i \in 1 .. 9 |-> off[i]]
  OBVIOUS
<1>4. WatchdogDisable = <<Call(Put(WDOG_RESPONSE, 0))>>
  BY DEF WatchdogDisable
<1>5. Deinit = Cat(hushed, last)
  BY DEF Deinit, Cat
<1>6. SaneScript(name, last) /\ Len(last) = 1 /\ last[1] = Learn(Note, [what |-> "gone"])
  BY NoteSane, SingleSane
<1> HIDE DEF off, last, quiet, hushed
<1>7. SaneScript(name, off) /\ Len(off) = 9
  <2>1. \A i \in 1 .. 9 : Sane(name, off[i])
    BY <1>1, <1>2
  <2> QED BY <2>1, <1>3, 9 \in Nat, ListedSane, Zenon
<1>8. /\ SaneScript(name, WatchdogDisable) /\ Len(WatchdogDisable) = 1
      /\ WatchdogDisable[1] = Call(Put(WDOG_RESPONSE, 0))
  BY <1>4, WatchdogSane
<1>9. /\ SaneScript(name, quiet) /\ Len(quiet) = 1 + 9
      /\ \A i \in 1 .. 1 : quiet[i] = WatchdogDisable[i]
      /\ \A i \in 1 .. 9 : quiet[1 + i] = off[i]
  <2>1. SaneScript(name, Cat(WatchdogDisable, off)) /\ Splice(WatchdogDisable, off, Cat(WatchdogDisable, off))
    BY <1>7, <1>8, Chained
  <2> QED BY <1>7, <1>8, <2>1 DEF quiet, Splice
<1>10. /\ SaneScript(name, hushed) /\ Len(hushed) = 10
       /\ \A i \in 1 .. 10 : hushed[i] = Ignored(quiet[i])
  <2>1. /\ SaneScript(name, IgnoredAll(quiet)) /\ Len(IgnoredAll(quiet)) = Len(quiet)
        /\ \A i \in 1 .. Len(quiet) : IgnoredAll(quiet)[i] = Ignored(quiet[i])
    BY <1>9, IgnoredSane, Zenon
  <2> QED BY <1>9, <2>1 DEF hushed
<1>11. /\ SaneScript(name, Deinit) /\ Len(Deinit) = 10 + 1
       /\ \A i \in 1 .. 10 : Deinit[i] = hushed[i]
       /\ \A i \in 1 .. 1 : Deinit[10 + i] = last[i]
  <2>1. SaneScript(name, Cat(hushed, last)) /\ Splice(hushed, last, Cat(hushed, last))
    <3>1. SaneScript(name, hushed) /\ SaneScript(name, last)
      BY <1>6, <1>10
    <3> QED BY <3>1, Chained
  <2> QED BY <1>5, <1>6, <1>10, <2>1 DEF Splice
<1>12. Deinit[1] = Ignored(Call(Put(WDOG_RESPONSE, 0)))
  BY <1>8, <1>9, <1>10, <1>11
<1>13. ASSUME NEW r \in Rail PROVE Deinit[r + 2] = Ignored(Call(Clear(ConfReg(r), {EN})))
  <2>1. r + 2 \in 1 .. 10 /\ r + 1 \in 1 .. 9 /\ r + 2 = 1 + (r + 1)
    BY DEF Rail
  <2>2. Deinit[r + 2] = Ignored(quiet[r + 2])
    BY <2>1, <1>10, <1>11
  <2>3. quiet[r + 2] = off[r + 1]
    BY <2>1, <1>9
  <2> QED BY <2>2, <2>3, <1>1
<1> QED BY <1>6, <1>11, <1>12, <1>13

\* The voltage and the configuration of rail r are transfers 2r + 1 and 2r + 2.
LEMMA RailScript ==
    ASSUME NEW name, NEW cfg \in Config
    PROVE  /\ SaneScript(name, RailConfig(cfg)) /\ Len(RailConfig(cfg)) = 18
           /\ \A r \in Rail :
                 /\ RailConfig(cfg)[2 * r + 1] = SetVoltage(r, cfg.mv[r])[1]
                 /\ RailConfig(cfg)[2 * r + 2] = Put(ConfReg(r), ConfBits(cfg, r))
<1>1. ASSUME NEW r \in Rail
      PROVE  /\ 2 * r + 1 \in 1 .. 18 /\ (2 * r + 1 - 1) \div 2 = r /\ (2 * r + 1) % 2 = 1
             /\ 2 * r + 2 \in 1 .. 18 /\ (2 * r + 2 - 1) \div 2 = r /\ (2 * r + 2) % 2 # 1
  BY DEF Rail
<1>2. ASSUME NEW r \in Rail
      PROVE  /\ RailConfig(cfg)[2 * r + 1] = SetVoltage(r, cfg.mv[r])[1]
             /\ RailConfig(cfg)[2 * r + 2] = Put(ConfReg(r), ConfBits(cfg, r))
  BY <1>1 DEF RailConfig
<1>3. ASSUME NEW i \in 1 .. 18
      PROVE  \E r \in Rail : i = 2 * r + 1 \/ i = 2 * r + 2
  <2>1. (i - 1) \div 2 \in 0 .. 8
    OBVIOUS
  <2>2. i = 2 * ((i - 1) \div 2) + 1 \/ i = 2 * ((i - 1) \div 2) + 2
    OBVIOUS
  <2> QED BY <2>1, <2>2 DEF Rail
<1>4. ASSUME NEW r \in Rail
      PROVE  Sane(name, SetVoltage(r, cfg.mv[r])[1]) /\ Sane(name, Put(ConfReg(r), ConfBits(cfg, r)))
  <2>1. SaneScript(name, SetVoltage(r, cfg.mv[r])) /\ Len(SetVoltage(r, cfg.mv[r])) = 1
    BY SetVoltageSane
  <2>2. ConfReg(r) \in BitRegs \ {WDOG_CONF}
    BY RailRegs DEF WDOG_CONF
  <2>3. ConfBits(cfg, r) \in SUBSET (0 .. 7)
    BY DEF ConfBits, Config, Modes, EN
  <2>4. Sane(name, Put(ConfReg(r), ConfBits(cfg, r)))
    BY <2>2, <2>3, BitsSane
  <2> QED BY <2>1, <2>4 DEF SaneScript
<1>5. \A i \in 1 .. 18 : Sane(name, RailConfig(cfg)[i])
  BY <1>2, <1>3, <1>4
<1>6. RailConfig(cfg) = [i \in 1 .. 18 |-> RailConfig(cfg)[i]]
  BY DEF RailConfig
<1>7. SaneScript(name, RailConfig(cfg)) /\ Len(RailConfig(cfg)) = 18
  BY <1>5, <1>6, 18 \in Nat, ListedSane, Zenon
<1> QED BY <1>2, <1>7

\* A transfer that leaves the rails, the sleep behaviour and the record alone.
Guard(x) == x.reg \in {0, WDOG_RESPONSE, ESM_CONF} /\ x.learn = Nothing

LEMMA AlikeGuard ==
    ASSUME NEW x, NEW y, Guard(y), Alike(x, y)
    PROVE  Guard(x)
  BY DEF Alike, Guard

LEMMA GuardWrites ==
    ASSUME NEW name
    PROVE  /\ \A ms : /\ WatchdogEnable(ms)[1].reg = WDOG_RESPONSE
                      /\ Guard(WatchdogEnable(ms)[1])
           /\ Guard(WatchdogDisable[1])
           /\ \A mode : Guard(EsmEnable(mode)[1])
<1>1. \A v : Guard(Put(WDOG_RESPONSE, v)) /\ Guard(Put(ESM_CONF, v)) /\ Guard(Refusal)
             /\ Put(WDOG_RESPONSE, v).reg = WDOG_RESPONSE
  BY TransferFields DEF Guard, Put, Refusal
<1>2. \A v : DOMAIN Put(WDOG_RESPONSE, v) = Fields /\ DOMAIN Put(ESM_CONF, v) = Fields
             /\ DOMAIN Refusal = Fields
  BY TransferFields DEF Put, Refusal
<1>3. \A x : DOMAIN x = Fields /\ Guard(x) => Guard(Call(x)) /\ Call(x).reg = x.reg
  BY CallFields, AlikeGuard DEF Alike
<1>4. ASSUME NEW ms
      PROVE  WatchdogEnable(ms)[1].reg = WDOG_RESPONSE /\ Guard(WatchdogEnable(ms)[1])
  BY <1>1, <1>2, <1>3 DEF WatchdogEnable
<1>5. Guard(WatchdogDisable[1])
  BY <1>1, <1>2, <1>3 DEF WatchdogDisable
<1>6. ASSUME NEW mode PROVE Guard(EsmEnable(mode)[1])
  <2>1. CASE mode \in {{}, {0}, {1}}
    BY <2>1, <1>1, <1>2, <1>3 DEF EsmEnable
  <2>2. CASE mode \notin {{}, {0}, {1}}
    BY <2>2, <1>1, <1>2, <1>3 DEF EsmEnable
  <2> QED BY <2>1, <2>2
<1> QED BY <1>4, <1>5, <1>6

\* What set_config does about the watchdog and the ESM: a transfer or two.
LEMMA GuardScript ==
    ASSUME NEW name, NEW first, NEW mode,
           SaneScript(name, first), Len(first) = 1, Guard(first[1])
    PROVE  LET s == IgnoredAll(first \o (IF mode # {} THEN EsmEnable(mode) ELSE <<>>))
           IN  /\ SaneScript(name, s) /\ Len(s) \in {1, 2}
               /\ \A i \in 1 .. Len(s) : Guard(s[i])
<1> DEFINE rest == IF mode # {} THEN EsmEnable(mode) ELSE <<>>
           both == Cat(first, rest)
<1>1. SaneScript(name, rest) /\ Len(rest) \in {0, 1} /\ \A i \in 1 .. Len(rest) : Guard(rest[i])
  <2>1. CASE mode # {}
    <3>1. rest = EsmEnable(mode)
      BY <2>1
    <3> HIDE DEF rest
    <3>2. SaneScript(name, rest) /\ Len(rest) = 1
      BY <3>1, EsmSane
    <3>3. Guard(rest[1])
      BY <3>1, GuardWrites
    <3> QED BY <3>2, <3>3
  <2>2. CASE mode = {}
    <3>1. rest = <<>>
      BY <2>2
    <3> HIDE DEF rest
    <3> QED BY <3>1, EmptySane
  <2> QED BY <2>1, <2>2
<1>2. IgnoredAll(first \o (IF mode # {} THEN EsmEnable(mode) ELSE <<>>)) = IgnoredAll(both)
  BY DEF Cat
<1> HIDE DEF rest
<1>3. SaneScript(name, Cat(first, rest)) /\ Splice(first, rest, Cat(first, rest))
  <2>1. SaneScript(name, first) /\ SaneScript(name, rest)
    BY <1>1
  <2> QED BY <2>1, Chained
<1>4. /\ SaneScript(name, both) /\ Len(both) \in {1, 2}
      /\ \A i \in 1 .. Len(both) : Guard(both[i])
  <2>1. CASE Len(rest) = 0
    BY <1>3, <2>1 DEF Splice
  <2>2. CASE Len(rest) = 1
    <3>1. Len(both) = 2 /\ both[1] = first[1] /\ both[2] = rest[1]
      BY <1>3, <2>2 DEF Splice
    <3>2. Guard(rest[1])
      BY <1>1, <2>2
    <3> QED BY <1>3, <3>1, <3>2
  <2> QED BY <1>1, <2>1, <2>2
<1> HIDE DEF both
<1> DEFINE s == IgnoredAll(both)
<1>5. /\ SaneScript(name, s) /\ Len(s) = Len(both)
      /\ \A i \in 1 .. Len(both) : s[i] = Ignored(both[i])
  BY <1>4, IgnoredSane, Zenon
<1>6. ASSUME NEW i \in 1 .. Len(both) PROVE Guard(s[i])
  <2> HIDE DEF s
  <2>1. DOMAIN both[i] = Fields
    BY <1>4 DEF SaneScript, Sane
  <2> QED BY <2>1, <1>4, <1>5, IgnoredFields, AlikeGuard
<1>7. SaneScript(name, s) /\ Len(s) \in {1, 2} /\ \A i \in 1 .. Len(s) : Guard(s[i])
  <2> HIDE DEF s
  <2> QED BY <1>4, <1>5, <1>6
<1> QED BY <1>2, <1>7

\* The transfers of set_config: the rails, the sleep behaviour, the guards.
LEMMA SetConfigScript ==
    ASSUME NEW name, NEW cfg \in Config
    PROVE  /\ SaneScript(name, SetConfig(cfg)) /\ Len(SetConfig(cfg)) \in {21, 22}
           /\ \A r \in Rail :
                 /\ SetConfig(cfg)[2 * r + 1] = SetVoltage(r, cfg.mv[r])[1]
                 /\ SetConfig(cfg)[2 * r + 2] = Put(ConfReg(r), ConfBits(cfg, r))
           /\ SetConfig(cfg)[19] = Call(Put(SLEEP_CONF, SleepBits(cfg.sleep)))
           /\ SetConfig(cfg)[20] = Put(WAKE_CONF, cfg.sleep.wake)
           /\ \A i \in 21 .. Len(SetConfig(cfg)) : Guard(SetConfig(cfg)[i])
<1> DEFINE rails == RailConfig(cfg)
           sleep == ConfigureSleep(cfg.sleep)
           guards == StartGuards(cfg)
           front == Cat(rails, sleep)
           whole == Cat(front, guards)
<1>1. /\ SaneScript(name, rails) /\ Len(rails) = 18
      /\ \A r \in Rail : /\ rails[2 * r + 1] = SetVoltage(r, cfg.mv[r])[1]
                         /\ rails[2 * r + 2] = Put(ConfReg(r), ConfBits(cfg, r))
  BY RailScript
<1>2. /\ SaneScript(name, sleep) /\ Len(sleep) = 2
      /\ sleep[1] = Call(Put(SLEEP_CONF, SleepBits(cfg.sleep)))
      /\ sleep[2] = Put(WAKE_CONF, cfg.sleep.wake)
  <2>1. cfg.sleep \in SleepConfig
    BY DEF Config
  <2> QED BY <2>1, SleepSane DEF ConfigureSleep
<1>3. /\ SaneScript(name, guards) /\ Len(guards) \in {1, 2}
      /\ \A i \in 1 .. Len(guards) : Guard(guards[i])
  <2> DEFINE first == IF cfg.watchdog THEN WatchdogEnable(cfg.timeout) ELSE WatchdogDisable
             made == IgnoredAll(first \o (IF cfg.esm # {} THEN EsmEnable(cfg.esm) ELSE <<>>))
  <2>1. guards = made
    BY DEF StartGuards
  <2>2. cfg.timeout \in Half
    BY DEF Config
  <2>3. SaneScript(name, first) /\ Len(first) = 1 /\ Guard(first[1])
    <3>1. CASE cfg.watchdog
      BY <3>1, <2>2, WatchdogSane, GuardWrites
    <3>2. CASE ~cfg.watchdog
      BY <3>2, WatchdogSane, GuardWrites
    <3> QED BY <3>1, <3>2
  <2> HIDE DEF first
  <2>4. SaneScript(name, made) /\ Len(made) \in {1, 2} /\ \A i \in 1 .. Len(made) : Guard(made[i])
    BY <2>3, GuardScript
  <2> HIDE DEF made, guards
  <2> QED BY <2>1, <2>4
<1>4. SetConfig(cfg) = whole
  BY DEF SetConfig, Cat
<1> HIDE DEF rails, sleep, guards
<1>5. /\ SaneScript(name, front) /\ Len(front) = 20
      /\ \A i \in 1 .. 18 : front[i] = rails[i]
      /\ front[19] = sleep[1] /\ front[20] = sleep[2]
  <2>1. SaneScript(name, Cat(rails, sleep)) /\ Splice(rails, sleep, Cat(rails, sleep))
    <3>1. SaneScript(name, rails) /\ SaneScript(name, sleep)
      BY <1>1, <1>2
    <3> QED BY <3>1, Chained
  <2> QED BY <1>1, <1>2, <2>1 DEF Splice
<1> HIDE DEF front
<1>6. /\ SaneScript(name, whole) /\ Len(whole) = 20 + Len(guards)
      /\ \A i \in 1 .. 20 : whole[i] = front[i]
      /\ \A i \in 1 .. Len(guards) : whole[20 + i] = guards[i]
  <2>1. SaneScript(name, Cat(front, guards)) /\ Splice(front, guards, Cat(front, guards))
    <3>1. SaneScript(name, front) /\ SaneScript(name, guards)
      BY <1>3, <1>5
    <3> QED BY <3>1, Chained
  <2> QED BY <1>5, <2>1 DEF Splice
<1> HIDE DEF whole
<1>7. ASSUME NEW r \in Rail
      PROVE  /\ whole[2 * r + 1] = SetVoltage(r, cfg.mv[r])[1]
             /\ whole[2 * r + 2] = Put(ConfReg(r), ConfBits(cfg, r))
  <2>1. 2 * r + 1 \in 1 .. 18 /\ 2 * r + 2 \in 1 .. 18
    BY DEF Rail
  <2>2. \A i \in 1 .. 18 : whole[i] = rails[i]
    BY <1>5, <1>6
  <2> QED BY <2>1, <2>2, <1>1
<1>8. ASSUME NEW i \in 21 .. Len(whole) PROVE Guard(whole[i])
  <2>1. i - 20 \in 1 .. Len(guards) /\ 20 + (i - 20) = i
    BY <1>3, <1>6
  <2> QED BY <2>1, <1>3, <1>6
<1>9. SaneScript(name, whole) /\ Len(whole) \in {21, 22}
  <2>1. SaneScript(name, whole) /\ Len(whole) = 20 + Len(guards)
    BY <1>6
  <2>2. Len(guards) = 1 \/ Len(guards) = 2
    BY <1>3
  <2>3. \A n : n = 1 \/ n = 2 => 20 + n = 21 \/ 20 + n = 22
    OBVIOUS
  <2>4. Len(whole) = 21 \/ Len(whole) = 22
    BY <2>1, <2>2, <2>3, Zenon
  <2> QED BY <2>1, <2>4
<1>10. /\ whole[19] = Call(Put(SLEEP_CONF, SleepBits(cfg.sleep)))
       /\ whole[20] = Put(WAKE_CONF, cfg.sleep.wake)
  BY <1>2, <1>5, <1>6
<1> QED BY <1>4, <1>7, <1>8, <1>9, <1>10

LEMMA BootSane ==
    ASSUME NEW name, NEW cfg \in Config
    PROVE  SaneScript(name, BootSequence(cfg)) /\ Len(BootSequence(cfg)) \in Nat \ {0}
<1> DEFINE first == WatchdogEnable(cfg.timeout)
           ons == [i \in 1 .. 9 |-> Enable(BootOrder[i])[1]]
           looks == [i \in 1 .. 9 |-> Call(Transfer("verify", PG_STATUS, {GoodBit(i - 1)}))]
           guards == IgnoredAll(first \o (IF cfg.esm # {} THEN EsmEnable(cfg.esm) ELSE <<>>))
           setup == SetConfig(cfg)
           turned == IgnoredAll(ons)
           half == Cat(setup, turned)
           most == Cat(half, looks)
           whole == Cat(most, guards)
<1>1. BootSequence(cfg) = whole
  BY DEF BootSequence, Cat
<1>2. SaneScript(name, setup) /\ Len(setup) \in {21, 22}
  BY SetConfigScript
<1>3. SaneScript(name, ons) /\ Len(ons) = 9
  <2>1. \A i \in 1 .. 9 : BootOrder[i] \in Rail
    BY DEF BootOrder, Rail
  <2>2. ASSUME NEW i \in 1 .. 9 PROVE Sane(name, Enable(BootOrder[i])[1])
    <3>1. \A r \in Rail : SaneScript(name, Enable(r)) /\ Len(Enable(r)) = 1
      BY RailSane
    <3>2. \A r \in Rail : Sane(name, Enable(r)[1])
      BY <3>1 DEF SaneScript
    <3> QED BY <2>1, <3>2
  <2>3. ons = [i \in 1 .. 9 |-> ons[i]] /\ \A i \in 1 .. 9 : ons[i] = Enable(BootOrder[i])[1]
    OBVIOUS
  <2> HIDE DEF ons
  <2>4. \A i \in 1 .. 9 : Sane(name, ons[i])
    BY <2>2, <2>3
  <2> QED BY <2>3, <2>4, 9 \in Nat, ListedSane, Zenon
<1>4. SaneScript(name, looks) /\ Len(looks) = 9
  <2>1. ASSUME NEW v PROVE Sane(name, Call(Transfer("verify", PG_STATUS, v)))
    BY AsideSane, WrappedSane DEF PG_STATUS
  <2>2. /\ looks = [i \in 1 .. 9 |-> looks[i]]
        /\ \A i \in 1 .. 9 : looks[i] = Call(Transfer("verify", PG_STATUS, {GoodBit(i - 1)}))
    OBVIOUS
  <2> HIDE DEF looks
  <2>3. \A i \in 1 .. 9 : Sane(name, looks[i])
    BY <2>1, <2>2
  <2> QED BY <2>2, <2>3, 9 \in Nat, ListedSane, Zenon
<1>5. SaneScript(name, guards) /\ Len(guards) \in {1, 2}
  <2>1. cfg.timeout \in Half
    BY DEF Config
  <2>2. SaneScript(name, first) /\ Len(first) = 1 /\ Guard(first[1])
    BY <2>1, WatchdogSane, GuardWrites
  <2> HIDE DEF first
  <2> QED BY <2>2, GuardScript
<1> HIDE DEF first, ons, looks, guards, setup
<1>6. SaneScript(name, turned) /\ Len(turned) = 9
  BY <1>3, IgnoredSane
<1> HIDE DEF turned
<1>7. SaneScript(name, half) /\ Splice(setup, turned, half)
  BY <1>2, <1>6, Chained
<1> HIDE DEF half
<1>8. SaneScript(name, most) /\ Splice(half, looks, most)
  BY <1>4, <1>7, Chained
<1> HIDE DEF most
<1>9. SaneScript(name, whole) /\ Splice(most, guards, whole)
  BY <1>5, <1>8, Chained
<1> HIDE DEF whole
<1>10. Len(whole) = Len(most) + Len(guards) /\ Len(most) \in Nat /\ Len(guards) \in Nat \ {0}
  BY <1>5, <1>8, <1>9 DEF Splice, SaneScript, IsSeq
<1> QED BY <1>1, <1>9, <1>10

-----------------------------------------------------------------------------
(* Every script is sane. *)

\* Whatever an application calls, the transfers of the call are sane.
LEMMA ScriptSane ==
    ASSUME NEW op \in Ops
    PROVE  SaneScript(op.name, Script(op)) /\ Len(Script(op)) \in Nat \ {0}
<1> DEFINE Fine(s) == SaneScript(op.name, s) /\ Len(s) \in Nat \ {0}
<1>1. CASE op \in [name : {"set_config", "boot_sequence"}, arg : Config]
  <2>1. op.arg \in Config
    BY <1>1
  <2>2. SaneScript(op.name, SetConfig(op.arg)) /\ Len(SetConfig(op.arg)) \in {21, 22}
    BY <2>1, SetConfigScript
  <2>3. Fine(BootSequence(op.arg))
    BY <2>1, BootSane
  <2>7. \A n : n \in {21, 22} => n \in Nat \ {0}
    OBVIOUS
  <2>5. Fine(SetConfig(op.arg))
    BY <2>2, <2>7, Zenon
  <2>4. Script(op) = SetConfig(op.arg) \/ Script(op) = BootSequence(op.arg)
    BY <1>1 DEF Script
  <2> HIDE DEF Fine
  <2>6. Fine(Script(op))
    BY <2>3, <2>4, <2>5
  <2> QED BY <2>6 DEF Fine
<1>2. CASE op \in [name : {"enable", "disable"}, arg : Rail]
  BY <1>2, RailSane DEF Script
<1>3. CASE op \in [name : {"set_voltage"}, rail : Rail, arg : Half]
  <2>1. op.rail \in Rail /\ Script(op) = SetVoltage(op.rail, op.arg)
    BY <1>3 DEF Script
  <2>2. /\ SaneScript(op.name, SetVoltage(op.rail, op.arg))
        /\ Len(SetVoltage(op.rail, op.arg)) = 1
    BY <2>1, SetVoltageSane
  <2> QED BY <2>1, <2>2
<1>4. CASE op \in [name : {"get_voltage"}, rail : Rail]
  BY <1>4, RailSane DEF Script
<1>5. CASE op \in [name : {"set_power_state"}, arg : 0 .. 6]
  BY <1>5, PowerSane DEF Script
<1>6. CASE op \in [name : {"configure_sleep"}, arg : SleepConfig]
  BY <1>6, SleepSane DEF Script
<1>7. CASE op \in [name : {"enable_wake"}, arg : WakeBits]
  BY <1>7, WakeSane DEF Script
<1>8. CASE op \in [name : {"watchdog_enable"}, arg : Half]
  <2>1. op.arg \in Half /\ Script(op) = WatchdogEnable(op.arg)
    BY <1>8 DEF Script
  <2>2. SaneScript(op.name, WatchdogEnable(op.arg)) /\ Len(WatchdogEnable(op.arg)) = 1
    BY <2>1, WatchdogSane
  <2> QED BY <2>1, <2>2
<1>9. CASE op \in [name : {"esm_enable", "enable_interrupts", "disable_interrupts",
                           "clear_interrupts"}, arg : Byte]
  <2>1. Fine(EsmEnable(op.arg))
    BY EsmSane
  <2>2. /\ Fine(EnableInterrupts(op.arg)) /\ Fine(DisableInterrupts(op.arg))
        /\ Fine(ClearInterrupts(op.arg))
    BY <1>9, InterruptSane
  <2> HIDE DEF Fine
  <2>3. Fine(Script(op))
    BY <1>9, <2>1, <2>2 DEF Script
  <2> QED BY <2>3 DEF Fine
<1>10. CASE op \in [name : {"nvm_lock"}, arg : BOOLEAN]
  BY <1>10, NvmSane DEF Script
<1>11. CASE op \in [name : {"init", "probe", "deinit", "get_status", "get_power_state",
                            "enter_sleep", "exit_sleep", "watchdog_disable", "watchdog_pet",
                            "esm_disable", "esm_reset", "get_pending", "nvm_crc_check"}]
  <2>1. op.name = "watchdog_pet" => Fine(WatchdogPet)
    <3>1. Pet(Flip(WDOG_CONF, {RST})) /\ DOMAIN Flip(WDOG_CONF, {RST}) = Fields
      BY TransferFields DEF Flip, Pet
    <3>2. op.name = "watchdog_pet" => Sane(op.name, Flip(WDOG_CONF, {RST}))
      BY <3>1 DEF Sane
    <3> QED BY <3>2, OneCall DEF WatchdogPet
  <2>2. /\ Fine(InitDev) /\ Fine(Probe) /\ Fine(Deinit) /\ Fine(GetStatus)
        /\ Fine(GetPowerState) /\ Fine(EnterSleep) /\ Fine(ExitSleep) /\ Fine(WatchdogDisable)
        /\ Fine(EsmDisable) /\ Fine(EsmReset) /\ Fine(GetPendingInterrupts) /\ Fine(NvmCrcCheck)
    <3>1. Fine(InitDev) /\ Fine(Probe)
      BY BringSane
    <3>2. Fine(Deinit)
      BY DeinitScript
    <3>3. /\ Fine(GetStatus) /\ Fine(GetPowerState) /\ Fine(GetPendingInterrupts)
          /\ Fine(NvmCrcCheck)
      BY LookingSane
    <3>4. Fine(EnterSleep) /\ Fine(ExitSleep)
      BY PowerSane
    <3>5. Fine(WatchdogDisable) /\ Fine(EsmDisable) /\ Fine(EsmReset)
      BY WatchdogSane, EsmSane
    <3> QED BY <3>1, <3>2, <3>3, <3>4, <3>5
  <2> HIDE DEF Fine
  <2>3. Fine(Script(op))
    BY <1>11, <2>1, <2>2 DEF Script
  <2> QED BY <2>3 DEF Fine
<1> QED BY <1>1, <1>2, <1>3, <1>4, <1>5, <1>6, <1>7, <1>8, <1>9, <1>10, <1>11 DEF Ops

-----------------------------------------------------------------------------
(* The invariant behind the types. *)

CallNames == {"op", "at", "step", "cur", "tries", "ret", "ready", "alone", "failed", "before"}
Millivolts == 0 .. 3340
DevNames == {"initialized", "state", "mv"}
Steps == {"idle", "test", "read", "write", "learn", "ret"}

\* A call is at a transfer of its script.
Placed(c) == c.op \in Made /\ c.at \in 1 .. Len(Scripts[c.op])

\* What is written back was read, from a register; what is learnt from is no mere look.
Holding(c, x) ==
    /\ c.step = "write" => /\ x.kind \notin {"get", "identify", "verify"}
                           /\ x.kind \in {"set", "clear", "flip"} /\ x.reg \in BitRegs
                              => c.cur \in SUBSET (0 .. 7)
    /\ c.step = "learn" => ~Look(x)

CallOK(c) == /\ DOMAIN c = CallNames /\ c.step \in Steps
             /\ c.step # "idle" => Placed(c) /\ Holding(c, Scripts[c.op][c.at])

Running == DOMAIN run = Tasks /\ \A t \in Tasks : CallOK(run[t])
OnDuty == /\ duty \in Duties
          /\ \A t \in Tasks : run[t].step # "idle" => run[t].op \in duty[t]
Chip == /\ DOMAIN regs = NumberRegs \cup BitRegs
        /\ \A a \in NumberRegs : regs[a] \in 0 .. 255
        /\ \A a \in BitRegs : regs[a] \in SUBSET (0 .. 7)
Record == /\ DOMAIN dev = DevNames
          /\ dev.initialized \in BOOLEAN /\ dev.state \in 0 .. 15
          /\ dev.mv \in [Rail -> Millivolts]
Ghosts == /\ faults \in 0 .. MaxFaults /\ doubt \in SUBSET Rail
          /\ DOMAIN writer = Rail

Sound == Running /\ OnDuty /\ Chip /\ Record /\ Ghosts

\* The transfers of the calls that are made.
LEMMA MadeSane ==
    ASSUME NEW op \in Made
    PROVE  /\ SaneScript(op.name, Scripts[op]) /\ Len(Scripts[op]) \in Nat \ {0}
           /\ \A i \in 1 .. Len(Scripts[op]) : Sane(op.name, Scripts[op][i])
<1>1. op \in Ops /\ Scripts[op] = Script(op)
  BY ApplicationsOK DEF Scripts
<1> QED BY <1>1, ScriptSane DEF SaneScript

LEMMA StepNames ==
    ASSUME NEW x
    PROVE  /\ FirstStep(x) \in Steps \ {"idle", "ret"} /\ AfterTest(x) \in Steps \ {"idle", "ret", "test"}
           /\ FirstStep(x) = "write" \/ AfterTest(x) = "write"
              => x.kind \notin {"note", "get", "identify", "verify", "set", "clear", "flip", "same"}
           /\ FirstStep(x) = "learn" \/ AfterTest(x) = "learn" => x.kind = "note"
           /\ FirstStep(x) = "read" \/ AfterTest(x) = "read" => Reads(x)
  BY DEF FirstStep, AfterTest, Steps, Reads

\* A call that comes to a transfer.
LEMMA Arrived ==
    ASSUME NEW c, DOMAIN c = CallNames, Placed(c),
           c.step \in {FirstStep(Scripts[c.op][c.at]), AfterTest(Scripts[c.op][c.at])}
    PROVE  CallOK(c) /\ c.step \notin {"idle", "ret"}
  BY StepNames DEF CallOK, Holding, Look, Steps

LEMMA EndedOK ==
    ASSUME NEW c, DOMAIN c = CallNames, Placed(c), NEW code
    PROVE  /\ CallOK(Ended(c, code)) /\ Ended(c, code).op = c.op /\ Ended(c, code).at = c.at
           /\ Ended(c, code).step = "ret" /\ Ended(c, code).ret = code
           /\ Ended(c, code).before = c.before /\ Ended(c, code).alone = c.alone
           /\ Ended(c, code).failed = c.failed /\ Ended(c, code).ready = c.ready
  BY DEF Ended, CallNames, CallOK, Steps, Placed, Holding

\* The next transfer, or the end of the call.
LEMMA AdvancedOK ==
    ASSUME NEW c, DOMAIN c = CallNames, Placed(c)
    PROVE  /\ CallOK(Advanced(c)) /\ Advanced(c).op = c.op /\ Advanced(c).step # "idle"
           /\ Advanced(c).before = c.before /\ Advanced(c).alone = c.alone
           /\ Advanced(c).failed = c.failed /\ Advanced(c).ready = c.ready
           /\ c.at = Len(Scripts[c.op])
              => /\ Advanced(c).step = "ret" /\ Advanced(c).at = c.at
                 /\ Advanced(c).ret = TPS6594_ERR_OK
           /\ c.at # Len(Scripts[c.op])
              => /\ c.at + 1 \in 1 .. Len(Scripts[c.op]) /\ Advanced(c).at = c.at + 1
                 /\ Advanced(c).step = FirstStep(Scripts[c.op][c.at + 1])
                 /\ Advanced(c).step # "ret"
<1>1. CASE c.at = Len(Scripts[c.op])
  BY <1>1, EndedOK DEF Advanced
<1>2. CASE c.at # Len(Scripts[c.op])
  <2> DEFINE d == [c EXCEPT !.at = @ + 1, !.tries = 0, !.cur = {},
                            !.step = FirstStep(Scripts[c.op][c.at + 1])]
  <2>1. Advanced(c) = d
    BY <1>2 DEF Advanced
  <2>2. /\ DOMAIN d = CallNames /\ d.op = c.op /\ d.at = c.at + 1
        /\ d.step = FirstStep(Scripts[c.op][c.at + 1])
        /\ d.before = c.before /\ d.alone = c.alone /\ d.failed = c.failed /\ d.ready = c.ready
    BY DEF CallNames
  <2>3. c.at + 1 \in 1 .. Len(Scripts[c.op])
    BY <1>2, MadeSane DEF Placed
  <2> HIDE DEF d
  <2>4. Placed(d)
    BY <2>2, <2>3 DEF Placed
  <2>5. CallOK(d) /\ d.step \notin {"idle", "ret"}
    BY <2>2, <2>4, Arrived
  <2> QED BY <1>2, <2>1, <2>2, <2>3, <2>5
<1> QED BY <1>1, <1>2

SameCall(c, d) == /\ d.op = c.op /\ d.before = c.before /\ d.alone = c.alone
                  /\ d.failed = c.failed /\ d.ready = c.ready

\* On to the next transfer, to the end, or to what there is to note.
LEMMA SucceededOK ==
    ASSUME NEW c, DOMAIN c = CallNames, Placed(c), NEW x, x = Scripts[c.op][c.at]
    PROVE  /\ CallOK(Succeeded(c)) /\ SameCall(c, Succeeded(c)) /\ Succeeded(c).step # "idle"
           /\ (x.learn # Nothing \/ x.kind \in {"identify", "verify"})
              => Succeeded(c) = [c EXCEPT !.step = "learn"]
           /\ ~(x.learn # Nothing \/ x.kind \in {"identify", "verify"})
              => Succeeded(c) = Advanced(c)
<1>1. CASE x.learn # Nothing \/ x.kind \in {"identify", "verify"}
  <2> DEFINE d == [c EXCEPT !.step = "learn"]
  <2>1. Succeeded(c) = d
    BY <1>1 DEF Succeeded
  <2>2. /\ DOMAIN d = CallNames /\ d.op = c.op /\ d.at = c.at /\ d.step = "learn"
        /\ SameCall(c, d)
    BY DEF CallNames, SameCall
  <2> HIDE DEF d
  <2>3. CallOK(d)
    BY <1>1, <2>2 DEF CallOK, Placed, Holding, Look, Steps
  <2>4. Succeeded(c) = [c EXCEPT !.step = "learn"]
    BY <2>1 DEF d
  <2> QED BY <1>1, <2>1, <2>2, <2>3, <2>4
<1>2. CASE ~(x.learn # Nothing \/ x.kind \in {"identify", "verify"})
  <2>1. Succeeded(c) = Advanced(c)
    BY <1>2 DEF Succeeded
  <2> QED BY <1>2, <2>1, AdvancedOK DEF SameCall
<1> QED BY <1>1, <1>2

\* A transfer that cannot be made: the end of the call, unless its errors are ignored or
\* a verdict is guessed.
LEMMA FailedOK ==
    ASSUME NEW c, DOMAIN c = CallNames, Placed(c), NEW code \in {-1, -2}
    PROVE  /\ CallOK(Failed(c, code)) /\ SameCall(c, Failed(c, code))
           /\ Failed(c, code).step # "idle"
           /\ Scripts[c.op][c.at].must => Failed(c, code) = Ended(c, code)
           /\ ~Scripts[c.op][c.at].must => Failed(c, code) = Advanced(c)
<1>1. CallOK(Ended(c, code)) /\ SameCall(c, Ended(c, code)) /\ Ended(c, code).step # "idle"
  BY EndedOK DEF SameCall
<1>2. CallOK(Advanced(c)) /\ SameCall(c, Advanced(c)) /\ Advanced(c).step # "idle"
  BY AdvancedOK DEF SameCall
<1> QED BY <1>1, <1>2 DEF Failed

LEMMA RefusedOK ==
    ASSUME NEW c, DOMAIN c = CallNames, Placed(c), NEW code \in {-1, -2},
           NEW d \in Refused(c, code), NEW x, x = Scripts[c.op][c.at]
    PROVE  /\ CallOK(d) /\ SameCall(c, d) /\ d.step # "idle"
           /\ \/ d.step = "ret" /\ d.ret # TPS6594_ERR_OK
              \/ d = Advanced(c) /\ (~x.must \/ x.kind = "verify")
<1>1. CASE x.kind = "verify"
  <2>1. d = Advanced(c) \/ d = Ended(c, TPS6594_ERR_FAULT)
    BY <1>1 DEF Refused, Guessed
  <2>2. CASE d = Advanced(c)
    BY <1>1, <2>2, AdvancedOK DEF SameCall
  <2>3. CASE d = Ended(c, TPS6594_ERR_FAULT)
    BY <2>3, EndedOK DEF SameCall, TPS6594_ERR_FAULT, TPS6594_ERR_OK
  <2> QED BY <2>1, <2>2, <2>3
<1>2. CASE x.kind # "verify"
  <2>1. d = Failed(c, code)
    BY <1>2 DEF Refused
  <2>2. CASE x.must
    BY <2>1, <2>2, FailedOK, EndedOK DEF TPS6594_ERR_OK
  <2>3. CASE ~x.must
    BY <2>1, <2>3, FailedOK
  <2> QED BY <2>2, <2>3
<1> QED BY <1>1, <1>2

\* The same value again, or the end.
LEMMA RetriedOK ==
    ASSUME NEW c, CallOK(c), c.step = "write", NEW x, x = Scripts[c.op][c.at]
    PROVE  /\ CallOK(Retried(c, x)) /\ SameCall(c, Retried(c, x)) /\ Retried(c, x).step # "idle"
           /\ \/ /\ Retried(c, x).step = "write" /\ Retried(c, x).at = c.at
                 /\ Retried(c, x).cur = c.cur
              \/ Retried(c, x).step = "ret" /\ Retried(c, x).ret # TPS6594_ERR_OK /\ x.must
              \/ Retried(c, x) = Advanced(c) /\ ~x.must
<1>0. DOMAIN c = CallNames /\ Placed(c)
  BY DEF CallOK
<1>1. CASE c.tries + 1 = TPS6594_I2C_RETRY_MAX
  <2>1. Retried(c, x) = Failed(c, TPS6594_ERR_NOCOMM)
    BY <1>1 DEF Retried
  <2>2. TPS6594_ERR_NOCOMM \in {-1, -2} /\ TPS6594_ERR_NOCOMM # TPS6594_ERR_OK
    BY DEF TPS6594_ERR_NOCOMM, TPS6594_ERR_OK
  <2>3. CASE x.must
    BY <1>0, <2>1, <2>2, <2>3, FailedOK, EndedOK
  <2>4. CASE ~x.must
    BY <1>0, <2>1, <2>2, <2>4, FailedOK
  <2> QED BY <2>3, <2>4
<1>2. CASE c.tries + 1 # TPS6594_I2C_RETRY_MAX
  <2> DEFINE d == [c EXCEPT !.tries = @ + 1]
  <2>1. Retried(c, x) = d
    BY <1>2 DEF Retried
  <2>2. /\ DOMAIN d = CallNames /\ d.op = c.op /\ d.at = c.at /\ d.step = "write"
        /\ d.cur = c.cur /\ SameCall(c, d)
    BY <1>0 DEF CallNames, SameCall
  <2> HIDE DEF d
  <2>3. CallOK(d)
    BY <1>0, <2>2 DEF CallOK, Placed, Holding, Steps
  <2> QED BY <2>1, <2>2, <2>3
<1> QED BY <1>1, <1>2

\* A task that comes to another state of the call it is in, or leaves it.
LEMMA Turned ==
    ASSUME NEW t \in Tasks, Running, OnDuty, NEW d, CallOK(d),
           d.step # "idle" => d.op = run[t].op /\ run[t].step # "idle",
           run' = [run EXCEPT ![t] = d], duty' = duty
    PROVE  /\ Running' /\ OnDuty' /\ run'[t] = d
           /\ \A u \in Tasks \ {t} : run'[u] = run[u]
<1>1. DOMAIN run' = Tasks /\ run'[t] = d /\ \A u \in Tasks \ {t} : run'[u] = run[u]
  BY DEF Running
<1>2. \A u \in Tasks : CallOK(run'[u])
  BY <1>1 DEF Running
<1>3. ASSUME NEW u \in Tasks, run'[u].step # "idle" PROVE run'[u].op \in duty'[u]
  BY <1>1, <1>3 DEF OnDuty
<1>4. Running'
  BY <1>1, <1>2 DEF Running
<1>5. OnDuty'
  BY <1>3 DEF OnDuty
<1> QED BY <1>1, <1>4, <1>5

LEMMA IdleOK == CallOK(Idle) /\ Idle.step = "idle"
  BY DEF CallOK, Idle, CallNames, Steps

\* Where a task in a call is.
LEMMA NowSane ==
    ASSUME NEW t \in Tasks, Running, run[t].step # "idle"
    PROVE  /\ DOMAIN run[t] = CallNames /\ Placed(run[t]) /\ Holding(run[t], Now(t))
           /\ Now(t) = Scripts[run[t].op][run[t].at]
           /\ Sane(run[t].op.name, Now(t))
<1>1. CallOK(run[t])
  BY DEF Running
<1>2. Placed(run[t]) /\ DOMAIN run[t] = CallNames /\ Holding(run[t], Now(t))
  BY <1>1 DEF CallOK, Now
<1> QED BY <1>2, MadeSane DEF Placed, Now

\* The value written is one of the register, and nothing else changes.
LEMMA Landed ==
    ASSUME NEW t \in Tasks, Running, Chip, run[t].step = "write", Lands(t)
    PROVE  /\ Chip' /\ DOMAIN regs' = DOMAIN regs
           /\ Now(t).reg \in DOMAIN regs => regs'[Now(t).reg] = Written(Now(t), run[t].cur)
           /\ \A a \in DOMAIN regs : a # Now(t).reg => regs'[a] = regs[a]
           /\ DOMAIN writer' = Rail
           /\ \A r \in Rail : writer'[r] = IF Now(t).reg = VoltReg(r) THEN t ELSE writer[r]
<1> DEFINE x == Now(t)
<1>1. Sane(run[t].op.name, x) /\ Holding(run[t], x)
  BY NowSane
<1>2. x.reg \in DOMAIN regs => regs' = [regs EXCEPT ![x.reg] = Written(x, run[t].cur)]
  BY DEF Lands
<1>3. x.reg \notin DOMAIN regs => regs' = regs
  BY DEF Lands
<1>4. writer' = [r \in Rail |-> IF x.reg = VoltReg(r) THEN t ELSE writer[r]]
  BY DEF Lands
<1> HIDE DEF x
<1>5. x.reg \in NumberRegs => Written(x, run[t].cur) \in 0 .. 255
  <2>1. Volt(x) => x.kind = "put" /\ x.val \in 0 .. 255
    BY CodeType DEF Volt
  <2>2. Number(x) => x.kind = "put" /\ x.val \in 0 .. 255
    BY DEF Number
  <2>3. ~Look(x)
    BY <1>1 DEF Look, Holding
  <2>4. x.reg \in NumberRegs => ~Bits(x) /\ ~Aside(x) /\ ~Pet(x)
    BY OtherRegs DEF Bits, Aside, Pet, WDOG_CONF
  <2> QED BY <1>1, <2>1, <2>2, <2>3, <2>4 DEF Sane, Written
<1>6. x.reg \in BitRegs => Written(x, run[t].cur) \in SUBSET (0 .. 7)
  <2>1. Bits(x) \/ Pet(x) => /\ x.kind \in {"put", "set", "clear", "flip"}
                             /\ x.val \in SUBSET (0 .. 7)
    BY DEF Bits, Pet, RST
  <2>2. x.reg \in BitRegs => x.reg \notin NumberRegs
    BY OtherRegs
  <2>3. x.reg \in BitRegs => ~Volt(x)
    BY RailRegs, <2>2 DEF Volt
  <2>4. x.reg \in BitRegs => ~Number(x) /\ ~Aside(x)
    BY OtherRegs, <2>2 DEF Number, Aside, PWR_CTRL, WDOG_RESPONSE
  <2>5. ~Look(x)
    BY <1>1 DEF Look, Holding
  <2>6. x.reg \in BitRegs => Bits(x) \/ Pet(x)
    BY <1>1, <2>3, <2>4, <2>5 DEF Sane
  <2>7. x.reg \in BitRegs /\ x.kind \in {"set", "clear", "flip"} => run[t].cur \in SUBSET (0 .. 7)
    BY <1>1 DEF Holding
  <2> QED BY <2>1, <2>6, <2>7 DEF Written
<1>7. /\ DOMAIN regs' = DOMAIN regs
      /\ x.reg \in DOMAIN regs => regs'[x.reg] = Written(x, run[t].cur)
      /\ \A a \in DOMAIN regs : a # x.reg => regs'[a] = regs[a]
  BY <1>2, <1>3
<1>8. Chip'
  BY <1>5, <1>6, <1>7 DEF Chip
<1>9. DOMAIN writer' = Rail /\ \A r \in Rail : writer'[r] = IF x.reg = VoltReg(r) THEN t ELSE writer[r]
  BY <1>4
<1> QED BY <1>7, <1>8, <1>9 DEF x

LEMMA DevFields ==
    ASSUME NEW d, DOMAIN d = DevNames, NEW v, NEW w
    PROVE  /\ LET e == [d EXCEPT !.initialized = v, !.state = w]
              IN  DOMAIN e = DevNames /\ e.initialized = v /\ e.state = w /\ e.mv = d.mv
           /\ LET e == [d EXCEPT !.state = w]
              IN  DOMAIN e = DevNames /\ e.initialized = d.initialized /\ e.state = w /\ e.mv = d.mv
           /\ LET e == [d EXCEPT !.initialized = v]
              IN  DOMAIN e = DevNames /\ e.initialized = v /\ e.state = d.state /\ e.mv = d.mv
  BY DEF DevNames

LEMMA FunctionKept ==
    ASSUME NEW R, NEW S, NEW f \in [R -> S], NEW r \in R, NEW v \in S
    PROVE  [f EXCEPT ![r] = v] \in [R -> S]
  OBVIOUS

LEMMA SaneLearns ==
    ASSUME NEW name, NEW x, Sane(name, x)
    PROVE  /\ Volt(x) \/ Plain(x)
           /\ x.learn.what = "mv" => Volt(x) /\ x.learn.rail \in Rail
<1>1. Volt(x) \/ Plain(x)
  BY DEF Sane, Number, Bits, Look, Aside, Pet, Plain, Nothing
<1>2. Plain(x) => x.learn.what # "mv"
  BY DEF Plain
<1>3. Volt(x) => x.learn.rail \in Rail
  BY DEF Volt
<1> QED BY <1>1, <1>2, <1>3

\* What is noted fits the record.
LEMMA NotedOK ==
    ASSUME NEW name, NEW x, Sane(name, x), Record, NEW cur
    PROVE  /\ DOMAIN Noted(x, cur) = DevNames
           /\ Noted(x, cur).initialized \in BOOLEAN /\ Noted(x, cur).state \in 0 .. 15
           /\ Noted(x, cur).mv \in [Rail -> Millivolts]
<1>1. Volt(x) \/ Plain(x)
  BY SaneLearns
<1>2. CASE Volt(x)
  <2>0. PICK r \in Rail : \E v \in MinMv(r) .. MaxMv(r) :
           x.learn = [what |-> "mv", rail |-> r, mv |-> v]
    BY <1>2 DEF Volt
  <2>1. PICK mv \in MinMv(r) .. MaxMv(r) : x.learn = [what |-> "mv", rail |-> r, mv |-> mv]
    BY <2>0
  <2>2. Noted(x, cur) = [dev EXCEPT !.mv[r] = mv]
    BY <2>1 DEF Noted
  <2>3. mv \in 1 .. 3340
    <3>1. r \in Rail /\ mv \in MinMv(r) .. MaxMv(r)
      BY <2>0, <2>1
    <3> QED BY <3>1, CodeType
  <2>4. mv \in Millivolts
    BY <2>3 DEF Millivolts
  <2>5. /\ DOMAIN Noted(x, cur) = DevNames
        /\ Noted(x, cur).initialized = dev.initialized /\ Noted(x, cur).state = dev.state
        /\ Noted(x, cur).mv = [dev.mv EXCEPT ![r] = mv]
    BY <2>2 DEF Record, DevNames
  <2>6. dev.mv \in [Rail -> Millivolts]
    BY DEF Record
  <2>7. [dev.mv EXCEPT ![r] = mv] \in [Rail -> Millivolts]
    BY <2>0, <2>4, <2>6, FunctionKept
  <2>8. Noted(x, cur).mv \in [Rail -> Millivolts]
    BY <2>5, <2>7, Zenon
  <2> QED BY <2>5, <2>8 DEF Record
<1>3. CASE Plain(x)
  <2>1. CASE x.learn.what = "reset"
    <3>1. Noted(x, cur) = [initialized |-> FALSE, state |-> STATE_UNKNOWN,
                           mv |-> [r \in Rail |-> 0]]
      BY <2>1 DEF Noted
    <3>2. [r \in Rail |-> 0] \in [Rail -> Millivolts]
      BY DEF Millivolts
    <3> QED BY <3>1, <3>2 DEF STATE_UNKNOWN, DevNames
  <2>2. CASE x.learn.what = "ready" \/ x.learn.what = "status"
    <3>1. Noted(x, cur) = [dev EXCEPT !.initialized = TRUE, !.state = Nibble(cur)]
          \/ Noted(x, cur) = [dev EXCEPT !.state = Nibble(cur)]
      BY <2>2 DEF Noted
    <3>2. DOMAIN dev = DevNames /\ dev.initialized \in BOOLEAN
      BY DEF Record
    <3>3. /\ DOMAIN Noted(x, cur) = DevNames /\ Noted(x, cur).initialized \in BOOLEAN
          /\ Noted(x, cur).mv = dev.mv /\ Noted(x, cur).state = Nibble(cur)
      <4>1. CASE Noted(x, cur) = [dev EXCEPT !.initialized = TRUE, !.state = Nibble(cur)]
        BY <4>1, <3>2, DevFields
      <4>2. CASE Noted(x, cur) = [dev EXCEPT !.state = Nibble(cur)]
        BY <4>2, <3>2, DevFields
      <4> QED BY <3>1, <4>1, <4>2
    <3>4. Nibble(cur) \in 0 .. 15
      BY NibbleType, Zenon
    <3> QED BY <3>3, <3>4 DEF Record
  <2>3. CASE x.learn.what = "gone"
    <3>1. Noted(x, cur) = [dev EXCEPT !.initialized = FALSE]
      BY <2>3 DEF Noted
    <3> QED BY <3>1 DEF Record
  <2>4. CASE x.learn.what = "state"
    <3>1. Noted(x, cur) = [dev EXCEPT !.state = x.learn.state]
      BY <2>4 DEF Noted
    <3>2. x.learn.state \in 0 .. 15
      BY <1>3, <2>4 DEF Plain
    <3> QED BY <3>1, <3>2 DEF Record, DevNames
  <2>5. CASE x.learn.what = "nothing"
    BY <2>5 DEF Noted, Record
  <2> QED BY <1>3, <2>1, <2>2, <2>3, <2>4, <2>5 DEF Plain
<1> QED BY <1>1, <1>2, <1>3
\* From call c on to the next transfer, or to the end.
On(c, d) ==
    /\ c.at = Len(Scripts[c.op])
       => d.step = "ret" /\ d.at = c.at /\ d.ret = TPS6594_ERR_OK
    /\ c.at # Len(Scripts[c.op])
       => /\ c.at + 1 \in 1 .. Len(Scripts[c.op]) /\ d.at = c.at + 1
          /\ d.step = FirstStep(Scripts[c.op][c.at + 1]) /\ d.step # "ret"

LEMMA AdvancedOn ==
    ASSUME NEW c, DOMAIN c = CallNames, Placed(c)
    PROVE  On(c, Advanced(c))
  BY AdvancedOK DEF On

LEMMA OnAlike ==
    ASSUME NEW c, NEW e, e.op = c.op, e.at = c.at, NEW d, On(e, d)
    PROVE  On(c, d)
  BY DEF On

\* Every way a task moves on, with the call it is in afterwards.
Moves(t, d) == /\ run' = [run EXCEPT ![t] = d] /\ CallOK(d)
               /\ d.op = run[t].op /\ d.before = run[t].before
               /\ d.alone = run[t].alone /\ d.ready = run[t].ready
               /\ d.step # "idle"

GivenUp(d) == d.step = "ret" /\ d.ret # TPS6594_ERR_OK

LEMMA TestMoves ==
    ASSUME NEW t \in Tasks, Sound, Test(t)
    PROVE  \E d : /\ Moves(t, d) /\ d.failed = run[t].failed
                  /\ \/ GivenUp(d) /\ ~(dev.initialized /\ Now(t).kind # "refusal")
                     \/ /\ On(run[t], d) /\ (~Now(t).must \/ Now(t).kind = "verify")
                        /\ ~(dev.initialized /\ Now(t).kind # "refusal")
                     \/ /\ d.step = AfterTest(Now(t)) /\ d.at = run[t].at
                        /\ dev.initialized /\ Now(t).kind # "refusal"
<1>1. run[t].step = "test"
  BY DEF Test
<1>2. /\ DOMAIN run[t] = CallNames /\ Placed(run[t])
      /\ Now(t) = Scripts[run[t].op][run[t].at]
  BY <1>1, NowSane DEF Sound
<1>3. CASE dev.initialized /\ Now(t).kind # "refusal"
  <2> DEFINE d == [run[t] EXCEPT !.step = AfterTest(Now(t))]
  <2>1. run' = [run EXCEPT ![t] = d]
    BY <1>3 DEF Test
  <2>2. /\ DOMAIN d = CallNames /\ d.op = run[t].op /\ d.at = run[t].at
        /\ d.step = AfterTest(Now(t)) /\ SameCall(run[t], d)
    BY <1>2 DEF CallNames, SameCall
  <2> HIDE DEF d
  <2>3. CallOK(d) /\ d.step # "idle"
    BY <1>2, <2>2, Arrived DEF Placed
  <2> QED BY <1>3, <2>1, <2>2, <2>3 DEF Moves, SameCall
<1>4. CASE ~(dev.initialized /\ Now(t).kind # "refusal")
  <2>1. PICK d \in Refused(run[t], TPS6594_ERR_INVAL) : run' = [run EXCEPT ![t] = d]
    BY <1>4 DEF Test
  <2>2. TPS6594_ERR_INVAL \in {-1, -2}
    BY DEF TPS6594_ERR_INVAL
  <2>3. /\ CallOK(d) /\ SameCall(run[t], d) /\ d.step # "idle"
        /\ \/ d.step = "ret" /\ d.ret # TPS6594_ERR_OK
           \/ d = Advanced(run[t]) /\ (~Now(t).must \/ Now(t).kind = "verify")
    BY <1>2, <2>1, <2>2, RefusedOK
  <2>4. On(run[t], Advanced(run[t]))
    BY <1>2, AdvancedOn
  <2>5. Moves(t, d) /\ d.failed = run[t].failed
    BY <2>1, <2>3 DEF Moves, SameCall
  <2> QED BY <1>4, <2>3, <2>4, <2>5 DEF GivenUp
<1> QED BY <1>3, <1>4

LEMMA ReadMoves ==
    ASSUME NEW t \in Tasks, Sound, ReadOK(t)
    PROVE  \E d : /\ Moves(t, d) /\ d.failed = run[t].failed
                  /\ \/ /\ Now(t).kind \in {"get", "identify", "verify"}
                        /\ \/ /\ d.step = "learn" /\ d.at = run[t].at
                              /\ Now(t).learn # Nothing \/ Now(t).kind \in {"identify", "verify"}
                           \/ On(run[t], d) /\ Now(t).learn = Nothing
                     \/ /\ Now(t).kind \notin {"get", "identify", "verify"}
                        /\ d.step = "write" /\ d.at = run[t].at
                        /\ Now(t).reg \in BitRegs => d.cur = regs[Now(t).reg]
<1>1. run[t].step = "read"
  BY DEF ReadOK
<1>2. /\ DOMAIN run[t] = CallNames /\ Placed(run[t])
      /\ Now(t) = Scripts[run[t].op][run[t].at]
  BY <1>1, NowSane DEF Sound
<1>3. PICK v \in Shown(Now(t).reg) :
         run' = [run EXCEPT ![t] =
                    IF Now(t).kind \in {"get", "identify", "verify"}
                    THEN Succeeded([@ EXCEPT !.cur = v])
                    ELSE [@ EXCEPT !.cur = v, !.step = "write"]]
  BY DEF ReadOK
<1>4. Now(t).reg \in BitRegs => v = regs[Now(t).reg]
  BY <1>3, OtherRegs DEF Shown
<1> DEFINE c == [run[t] EXCEPT !.cur = v]
<1>5. DOMAIN c = CallNames /\ c.op = run[t].op /\ c.at = run[t].at /\ SameCall(run[t], c)
  BY <1>2 DEF CallNames, SameCall
<1>6. CASE Now(t).kind \in {"get", "identify", "verify"}
  <2>1. run' = [run EXCEPT ![t] = Succeeded(c)]
    BY <1>3, <1>6 DEF Sound, Running
  <2> HIDE DEF c
  <2>2. Placed(c) /\ Now(t) = Scripts[c.op][c.at]
    BY <1>2, <1>5 DEF Placed
  <2>3. /\ CallOK(Succeeded(c)) /\ SameCall(c, Succeeded(c)) /\ Succeeded(c).step # "idle"
        /\ (Now(t).learn # Nothing \/ Now(t).kind \in {"identify", "verify"})
           => Succeeded(c) = [c EXCEPT !.step = "learn"]
        /\ ~(Now(t).learn # Nothing \/ Now(t).kind \in {"identify", "verify"})
           => Succeeded(c) = Advanced(c)
    BY <1>5, <2>2, SucceededOK
  <2>4. Moves(t, Succeeded(c)) /\ Succeeded(c).failed = run[t].failed
    BY <1>5, <2>1, <2>3 DEF SameCall, Moves
  <2>5. /\ [c EXCEPT !.step = "learn"].step = "learn"
        /\ [c EXCEPT !.step = "learn"].at = run[t].at
    BY <1>5 DEF CallNames
  <2>6. CASE Now(t).learn # Nothing \/ Now(t).kind \in {"identify", "verify"}
    BY <1>6, <2>3, <2>4, <2>5, <2>6
  <2>7. CASE ~(Now(t).learn # Nothing \/ Now(t).kind \in {"identify", "verify"})
    <3>1. On(run[t], Succeeded(c))
      BY <1>5, <2>2, <2>3, <2>7, AdvancedOn, OnAlike
    <3> QED BY <1>6, <2>4, <2>7, <3>1
  <2> QED BY <2>6, <2>7
<1>7. CASE Now(t).kind \notin {"get", "identify", "verify"}
  <2> DEFINE d == [run[t] EXCEPT !.cur = v, !.step = "write"]
  <2>1. run' = [run EXCEPT ![t] = d]
    BY <1>3, <1>7 DEF Sound, Running
  <2>2. /\ DOMAIN d = CallNames /\ d.op = run[t].op /\ d.at = run[t].at /\ d.cur = v
        /\ d.step = "write" /\ SameCall(run[t], d)
    BY <1>2 DEF CallNames, SameCall
  <2> HIDE DEF d
  <2>3. Now(t).reg \in BitRegs => v \in SUBSET (0 .. 7)
    BY <1>4 DEF Sound, Chip
  <2>4. CallOK(d)
    BY <1>2, <1>7, <2>2, <2>3 DEF CallOK, Placed, Holding, Steps
  <2>5. Moves(t, d) /\ d.failed = run[t].failed
    BY <2>1, <2>2, <2>4 DEF Moves, SameCall
  <2> QED BY <1>4, <1>7, <2>2, <2>5
<1> QED BY <1>6, <1>7

\* The call with the failure on record.
LEMMA FailedMark ==
    ASSUME NEW c, CallOK(c), c.step # "idle"
    PROVE  LET e == [c EXCEPT !.failed = TRUE]
           IN  /\ CallOK(e) /\ DOMAIN e = CallNames /\ Placed(e)
               /\ e.op = c.op /\ e.at = c.at /\ e.step = c.step /\ e.cur = c.cur
               /\ e.before = c.before /\ e.alone = c.alone /\ e.ready = c.ready
               /\ e.failed
  BY DEF CallOK, CallNames, Placed, Holding

LEMMA ReadFailMoves ==
    ASSUME NEW t \in Tasks, Sound, ReadFails(t)
    PROVE  \E d : /\ Moves(t, d) /\ d.failed
                  /\ \/ GivenUp(d)
                     \/ On(run[t], d) /\ (~Now(t).must \/ Now(t).kind = "verify")
<1>1. run[t].step = "read"
  BY DEF ReadFails
<1> DEFINE e == [run[t] EXCEPT !.failed = TRUE]
<1>2. /\ DOMAIN e = CallNames /\ Placed(e) /\ e.op = run[t].op /\ e.at = run[t].at
      /\ e.before = run[t].before /\ e.alone = run[t].alone /\ e.ready = run[t].ready
      /\ e.failed
  BY <1>1, FailedMark DEF Sound, Running
<1>3. PICK d \in Refused(e, TPS6594_ERR_NOCOMM) : run' = [run EXCEPT ![t] = d]
  BY DEF ReadFails
<1> HIDE DEF e
<1>4. TPS6594_ERR_NOCOMM \in {-1, -2} /\ Now(t) = Scripts[e.op][e.at]
  BY <1>2 DEF TPS6594_ERR_NOCOMM, Now
<1>5. /\ CallOK(d) /\ SameCall(e, d) /\ d.step # "idle"
      /\ \/ d.step = "ret" /\ d.ret # TPS6594_ERR_OK
         \/ d = Advanced(e) /\ (~Now(t).must \/ Now(t).kind = "verify")
  BY <1>2, <1>3, <1>4, RefusedOK
<1>6. Moves(t, d) /\ d.failed
  BY <1>2, <1>3, <1>5 DEF Moves, SameCall
<1>7. d = Advanced(e) => On(run[t], d)
  BY <1>2, AdvancedOn, OnAlike
<1> QED BY <1>5, <1>6, <1>7 DEF GivenUp

LEMMA WriteMoves ==
    ASSUME NEW t \in Tasks, Sound, WriteOK(t)
    PROVE  \E d : /\ Moves(t, d) /\ d.failed = run[t].failed
                  /\ \/ d.step = "learn" /\ d.at = run[t].at /\ Now(t).learn # Nothing
                     \/ On(run[t], d) /\ Now(t).learn = Nothing
<1>1. run[t].step = "write"
  BY DEF WriteOK
<1> DEFINE c == run[t]
<1>2. /\ DOMAIN c = CallNames /\ Placed(c) /\ Now(t) = Scripts[c.op][c.at]
      /\ Now(t).kind \notin {"identify", "verify"}
  BY <1>1, NowSane DEF Sound, Holding
<1>3. run' = [run EXCEPT ![t] = Succeeded(c)]
  BY DEF WriteOK, Sound, Running
<1>4. /\ CallOK(Succeeded(c)) /\ SameCall(c, Succeeded(c)) /\ Succeeded(c).step # "idle"
      /\ Now(t).learn # Nothing => Succeeded(c) = [c EXCEPT !.step = "learn"]
      /\ Now(t).learn = Nothing => Succeeded(c) = Advanced(c)
  BY <1>2, SucceededOK
<1>5. Moves(t, Succeeded(c)) /\ Succeeded(c).failed = run[t].failed
  BY <1>3, <1>4 DEF Moves, SameCall
<1>6. CASE Now(t).learn # Nothing
  <2>1. Succeeded(c).step = "learn" /\ Succeeded(c).at = run[t].at
    BY <1>2, <1>4, <1>6 DEF CallNames
  <2> QED BY <1>5, <1>6, <2>1
<1>7. CASE Now(t).learn = Nothing
  <2>1. On(c, Succeeded(c))
    BY <1>2, <1>4, <1>7, AdvancedOn
  <2> QED BY <1>5, <1>7, <2>1
<1> QED BY <1>6, <1>7

LEMMA WriteFailMoves ==
    ASSUME NEW t \in Tasks, Sound, WriteFails(t)
    PROVE  \E d : /\ Moves(t, d) /\ d.failed
                  /\ \/ d.step = "write" /\ d.at = run[t].at /\ d.cur = run[t].cur
                     \/ GivenUp(d) /\ Now(t).must
                     \/ On(run[t], d) /\ ~Now(t).must
<1>1. run[t].step = "write"
  BY DEF WriteFails
<1> DEFINE e == [run[t] EXCEPT !.failed = TRUE]
<1>2. /\ CallOK(e) /\ DOMAIN e = CallNames /\ Placed(e) /\ e.op = run[t].op /\ e.at = run[t].at
      /\ e.step = "write" /\ e.cur = run[t].cur
      /\ e.before = run[t].before /\ e.alone = run[t].alone /\ e.ready = run[t].ready
      /\ e.failed
  BY <1>1, FailedMark DEF Sound, Running
<1>3. run' = [run EXCEPT ![t] = Retried(e, Now(t))]
  BY DEF WriteFails, Sound, Running
<1> HIDE DEF e
<1>4. Now(t) = Scripts[e.op][e.at]
  BY <1>2 DEF Now
<1> DEFINE d == Retried(e, Now(t))
<1>5. /\ CallOK(d) /\ SameCall(e, d) /\ d.step # "idle"
      /\ \/ d.step = "write" /\ d.at = e.at /\ d.cur = e.cur
         \/ d.step = "ret" /\ d.ret # TPS6594_ERR_OK /\ Now(t).must
         \/ d = Advanced(e) /\ ~Now(t).must
  BY <1>2, <1>4, RetriedOK
<1> HIDE DEF d
<1>6. Moves(t, d) /\ d.failed
  BY <1>2, <1>3, <1>5 DEF Moves, SameCall, d
<1>7. d = Advanced(e) => On(run[t], d)
  BY <1>2, AdvancedOn, OnAlike
<1> QED BY <1>2, <1>5, <1>6, <1>7 DEF GivenUp

LEMMA NoticeMoves ==
    ASSUME NEW t \in Tasks, Sound, Noticed(t)
    PROVE  \E d : /\ Moves(t, d) /\ d.failed = run[t].failed
                  /\ \/ GivenUp(d) /\ Now(t).kind \in {"identify", "verify"}
                     \/ On(run[t], d)
<1>1. run[t].step = "learn"
  BY DEF Noticed
<1> DEFINE c == run[t]
<1>2. DOMAIN c = CallNames /\ Placed(c)
  BY <1>1, NowSane DEF Sound
<1>3. PICK d : /\ run' = [run EXCEPT ![t] = d]
               /\ \/ d = Ended(c, TPS6594_ERR_NOMATCH) /\ Now(t).kind = "identify"
                  \/ d = Ended(c, TPS6594_ERR_FAULT) /\ Now(t).kind = "verify"
                  \/ d = Advanced(c)
  <2> DEFINE x == Now(t)
             d == CASE x.kind = "identify" /\ c.cur \notin x.val -> Ended(c, TPS6594_ERR_NOMATCH)
                    [] x.kind = "verify" /\ ~(x.val \subseteq c.cur) -> PowerBad(c)
                    [] OTHER -> Advanced(c)
  <2>1. run' = [run EXCEPT ![t] = d]
    BY DEF Noticed, Sound, Running
  <2>2. \/ d = Ended(c, TPS6594_ERR_NOMATCH) /\ Now(t).kind = "identify"
        \/ d = Ended(c, TPS6594_ERR_FAULT) /\ Now(t).kind = "verify"
        \/ d = Advanced(c)
    BY DEF PowerBad
  <2> HIDE DEF d
  <2> QED BY <2>1, <2>2
<1>4. CASE d = Advanced(c)
  <2>1. On(c, d) /\ CallOK(d) /\ SameCall(c, d) /\ d.step # "idle"
    BY <1>2, <1>4, AdvancedOn, AdvancedOK DEF SameCall
  <2> QED BY <1>3, <2>1 DEF Moves, SameCall
<1>5. ASSUME NEW code \in {TPS6594_ERR_NOMATCH, TPS6594_ERR_FAULT}, d = Ended(c, code),
             Now(t).kind \in {"identify", "verify"}
      PROVE  Moves(t, d) /\ d.failed = run[t].failed /\ GivenUp(d)
             /\ Now(t).kind \in {"identify", "verify"}
  <2>1. /\ CallOK(d) /\ SameCall(c, d) /\ d.step = "ret" /\ d.ret = code
    BY <1>2, <1>5, EndedOK DEF SameCall
  <2>2. code # TPS6594_ERR_OK
    BY DEF TPS6594_ERR_NOMATCH, TPS6594_ERR_FAULT, TPS6594_ERR_OK
  <2> QED BY <1>3, <1>5, <2>1, <2>2 DEF Moves, GivenUp, SameCall
<1> QED BY <1>3, <1>4, <1>5

\* A task that moves changes the calls of no other, and keeps to its duties.
LEMMA MoveKeeps ==
    ASSUME NEW t \in Tasks, Running, OnDuty, run[t].step # "idle", duty' = duty,
           NEW d, Moves(t, d)
    PROVE  /\ Running' /\ OnDuty' /\ run'[t] = d
           /\ \A u \in Tasks \ {t} : run'[u] = run[u]
  BY Turned DEF Moves

LEMMA InitSound == Init => Sound
<1> SUFFICES ASSUME Init PROVE Sound
  OBVIOUS
<1>1. Running /\ OnDuty
  BY IdleOK DEF Init, Running, OnDuty
<1>2. Chip
  BY OtherRegs DEF Init, Chip
<1>3. Record
  BY DEF Init, Record, DevNames, STATE_UNKNOWN, Millivolts
<1>4. Ghosts
  BY ApplicationsOK DEF Init, Ghosts
<1> QED BY <1>1, <1>2, <1>3, <1>4 DEF Sound

\* A call that is entered is at its first transfer.
LEMMA EnterSound ==
    ASSUME NEW t \in Tasks, Sound, NEW op \in duty[t], Enter(t, op)
    PROVE  /\ Sound' /\ run[t].step = "idle"
           /\ run'[t].op = op /\ run'[t].at = 1 /\ run'[t].step = FirstStep(Scripts[op][1])
           /\ run'[t].ready = dev.initialized /\ run'[t].alone = AllIdle(Tasks \ {t})
           /\ run'[t].before = regs[WDOG_CONF] /\ ~run'[t].failed
           /\ run'[t].step \notin {"idle", "ret"}
           /\ \A u \in Tasks \ {t} : /\ run'[u].op = run[u].op /\ run'[u].at = run[u].at
                                     /\ run'[u].step = run[u].step /\ run'[u].cur = run[u].cur
                                     /\ run'[u].before = run[u].before
                                     /\ run'[u].ret = run[u].ret /\ ~run'[u].alone
<1> DEFINE c == [Idle EXCEPT !.op = op, !.at = 1, !.step = FirstStep(Scripts[op][1]),
                             !.ready = dev.initialized, !.alone = AllIdle(Tasks \ {t}),
                             !.before = regs[WDOG_CONF]]
<1>1. op \in Made
  BY DEF Sound, OnDuty, Made
<1>2. run' = [u \in Tasks |-> IF u # t THEN [run[u] EXCEPT !.alone = FALSE] ELSE c]
  BY DEF Enter
<1>3. /\ DOMAIN c = CallNames /\ c.op = op /\ c.at = 1 /\ c.step = FirstStep(Scripts[op][1])
      /\ c.ready = dev.initialized /\ c.alone = AllIdle(Tasks \ {t})
      /\ c.before = regs[WDOG_CONF] /\ ~c.failed
  BY DEF Idle, CallNames
<1> HIDE DEF c
<1>4. 1 \in 1 .. Len(Scripts[op])
  BY <1>1, MadeSane
<1>5. Placed(c)
  BY <1>1, <1>3, <1>4 DEF Placed
<1>6. CallOK(c) /\ c.step \notin {"idle", "ret"}
  BY <1>3, <1>5, Arrived
<1>7. ASSUME NEW u \in Tasks \ {t}
      PROVE  /\ CallOK(run'[u])
             /\ run'[u].op = run[u].op /\ run'[u].at = run[u].at
             /\ run'[u].step = run[u].step /\ run'[u].cur = run[u].cur
             /\ run'[u].before = run[u].before
             /\ run'[u].ret = run[u].ret /\ ~run'[u].alone
  <2> DEFINE e == [run[u] EXCEPT !.alone = FALSE]
  <2>1. run'[u] = e
    BY <1>2
  <2>2. CallOK(run[u])
    BY DEF Sound, Running
  <2>3. /\ DOMAIN e = CallNames /\ e.op = run[u].op /\ e.at = run[u].at
        /\ e.step = run[u].step /\ e.cur = run[u].cur /\ e.before = run[u].before
        /\ e.ret = run[u].ret /\ ~e.alone
    BY <2>2 DEF CallOK, CallNames
  <2> HIDE DEF e
  <2>4. CallOK(e)
    BY <2>2, <2>3 DEF CallOK, Placed, Holding
  <2> QED BY <2>1, <2>3, <2>4
<1>8. run'[t] = c /\ DOMAIN run' = Tasks
  BY <1>2
<1>9. Running'
  <2>1. \A u \in Tasks : CallOK(run'[u])
    BY <1>6, <1>7, <1>8
  <2> QED BY <2>1, <1>8 DEF Running
<1>10. OnDuty'
  <2>1. duty' = duty
    BY DEF Enter
  <2>2. \A u \in Tasks : run'[u].step # "idle" => run'[u].op \in duty'[u]
    BY <1>3, <1>7, <1>8, <2>1 DEF Sound, OnDuty
  <2> QED BY <2>1, <2>2 DEF Sound, OnDuty
<1>11. Chip' /\ Record' /\ Ghosts'
  BY DEF Enter, Sound, Chip, Record, Ghosts
<1>12. run[t].step = "idle"
  BY DEF Enter
<1> QED BY <1>3, <1>6, <1>7, <1>8, <1>9, <1>10, <1>11, <1>12 DEF Sound

LEMMA ProceedSound ==
    ASSUME NEW t \in Tasks, Sound, Proceed(t)
    PROVE  Sound'
<1>0. MaxFaults \in Nat
  BY ApplicationsOK
<1>1. CASE Test(t)
  <2>1. \E d : Moves(t, d)
    BY <1>1, TestMoves
  <2>2. Running' /\ OnDuty'
    BY <1>1, <2>1, MoveKeeps DEF Sound, Test
  <2>3. Chip' /\ Record' /\ Ghosts'
    BY <1>1 DEF Test, Sound, Chip, Record, Ghosts
  <2> QED BY <2>2, <2>3 DEF Sound
<1>2. CASE ReadOK(t)
  <2>1. \E d : Moves(t, d)
    BY <1>2, ReadMoves
  <2>2. Running' /\ OnDuty'
    BY <1>2, <2>1, MoveKeeps DEF Sound, ReadOK
  <2>3. Chip' /\ Record' /\ Ghosts'
    BY <1>2 DEF ReadOK, Sound, Chip, Record, Ghosts
  <2> QED BY <2>2, <2>3 DEF Sound
<1>3. CASE ReadFails(t)
  <2>1. \E d : Moves(t, d)
    BY <1>3, ReadFailMoves
  <2>2. Running' /\ OnDuty'
    BY <1>3, <2>1, MoveKeeps DEF Sound, ReadFails
  <2>3. Chip' /\ Record'
    BY <1>3 DEF ReadFails, Sound, Chip, Record
  <2>4. Ghosts'
    BY <1>0, <1>3 DEF ReadFails, Sound, Ghosts
  <2> QED BY <2>2, <2>3, <2>4 DEF Sound
<1>4. CASE WriteOK(t)
  <2>1. \E d : Moves(t, d)
    BY <1>4, WriteMoves
  <2>2. Running' /\ OnDuty'
    BY <1>4, <2>1, MoveKeeps DEF Sound, WriteOK
  <2>3. Chip' /\ DOMAIN writer' = Rail
    BY <1>4, Landed DEF WriteOK, Sound
  <2>4. Record' /\ Ghosts'
    BY <1>4, <2>3 DEF WriteOK, Sound, Record, Ghosts
  <2> QED BY <2>2, <2>3, <2>4 DEF Sound
<1>5. CASE WriteFails(t)
  <2>1. \E d : Moves(t, d)
    BY <1>5, WriteFailMoves
  <2>2. Running' /\ OnDuty'
    BY <1>5, <2>1, MoveKeeps DEF Sound, WriteFails
  <2>3. Chip' /\ DOMAIN writer' = Rail
    <3>1. CASE Lands(t)
      BY <1>5, <3>1, Landed DEF WriteFails, Sound
    <3>2. CASE UNCHANGED <<regs, writer>>
      BY <3>2 DEF Sound, Chip, Ghosts
    <3> QED BY <1>5, <3>1, <3>2 DEF WriteFails
  <2>4. Record' /\ Ghosts'
    BY <1>0, <1>5, <2>3 DEF WriteFails, Sound, Record, Ghosts
  <2> QED BY <2>2, <2>3, <2>4 DEF Sound
<1>6. CASE Noticed(t)
  <2>1. \E d : Moves(t, d)
    BY <1>6, NoticeMoves
  <2>2. Running' /\ OnDuty'
    BY <1>6, <2>1, MoveKeeps DEF Sound, Noticed
  <2>3. run[t].step # "idle"
    BY <1>6 DEF Noticed
  <2>4. Sane(run[t].op.name, Now(t))
    BY <2>3, NowSane DEF Sound
  <2>5. Record'
    <3>1. dev' = Noted(Now(t), run[t].cur)
      BY <1>6 DEF Noticed
    <3> QED BY <2>4, <3>1, NotedOK DEF Sound, Record
  <2>6. Now(t).learn.what = "mv" => Now(t).learn.rail \in Rail
    BY <2>4, SaneLearns
  <2>7. Chip' /\ Ghosts'
    BY <1>6, <2>6 DEF Noticed, Sound, Chip, Ghosts
  <2> QED BY <2>2, <2>5, <2>7 DEF Sound
<1>7. CASE Return(t)
  <2>1. Running' /\ OnDuty'
    BY <1>7, IdleOK, Turned DEF Return, Sound
  <2>2. Chip' /\ Record' /\ Ghosts'
    BY <1>7 DEF Return, Sound, Chip, Record, Ghosts
  <2> QED BY <2>1, <2>2 DEF Sound
<1> QED BY <1>1, <1>2, <1>3, <1>4, <1>5, <1>6, <1>7 DEF Proceed

LEMMA SoundKept == Sound /\ [Next]_vars => Sound'
<1> SUFFICES ASSUME Sound, [Next]_vars PROVE Sound'
  OBVIOUS
<1>1. CASE UNCHANGED vars
  BY <1>1 DEF vars, Sound, Running, OnDuty, Chip, Record, Ghosts
<1>2. CASE Next
  BY <1>2, EnterSound, ProceedSound DEF Next
<1> QED BY <1>1, <1>2

LEMMA SoundTypes == Sound => TypeOK
  BY DEF Sound, Running, CallOK, Chip, Record, Ghosts, TypeOK, Steps, Millivolts

LEMMA SoundAlways == Spec => []Sound
  BY InitSound, SoundKept, PTL DEF Spec

\* The registers of the chip and the fields of the driver's record keep their widths,
\* whatever the calls, their interleavings and the failures of the bus.
THEOREM RegistersKeepWidth == Spec => []TypeOK
  BY SoundAlways, SoundTypes, PTL

-----------------------------------------------------------------------------
(* The invariant behind the voltages. *)

At(c) == Scripts[c.op][c.at]
LearningAt(c, r) == c.step = "learn" /\ At(c).reg = VoltReg(r)

\* A voltage about to be noted by the task that wrote it last is in the register.
Fresh == \A t \in Tasks, r \in Rail :
            LearningAt(run[t], r) /\ writer[r] = t => regs[VoltReg(r)] = At(run[t]).val

\* A voltage nobody is about to note, and nobody doubts, is in the register.
Agreed == \A r \in Rail :
             /\ dev.mv[r] # 0 /\ r \notin doubt
             /\ \A t \in Tasks : ~LearningAt(run[t], r)
             => dev.mv[r] \in MinMv(r) .. MaxMv(r) /\ regs[VoltReg(r)] = Code(r, dev.mv[r])

\* What can be done to the register of a rail, other than look at it.
LEMMA VoltNow ==
    ASSUME NEW name, NEW x, Sane(name, x), ~Look(x), NEW r \in Rail, x.reg = VoltReg(r)
    PROVE  /\ x.kind = "put" /\ x.learn # Nothing /\ x.learn.what = "mv" /\ x.learn.rail = r
           /\ x.learn.mv \in MinMv(r) .. MaxMv(r) /\ x.val = Code(r, x.learn.mv)
<1>1. Volt(x)
  <2>1. ~Number(x)
    BY OtherRegs, RailRegs DEF Number, PWR_CTRL, WDOG_RESPONSE
  <2>2. ~Bits(x) /\ ~Pet(x) /\ ~Aside(x)
    BY OtherRegs, RailRegs DEF Bits, Pet, Aside, WDOG_CONF
  <2> QED BY <2>1, <2>2 DEF Sane
<1>2. PICK s \in Rail : \E mv \in MinMv(s) .. MaxMv(s) :
         /\ x.kind = "put" /\ x.reg = VoltReg(s) /\ x.val = Code(s, mv)
         /\ x.learn = [what |-> "mv", rail |-> s, mv |-> mv]
  BY <1>1 DEF Volt
<1>3. s = r
  BY <1>2, RailRegs
<1>4. PICK mv \in MinMv(r) .. MaxMv(r) :
         /\ x.kind = "put" /\ x.val = Code(r, mv)
         /\ x.learn = [what |-> "mv", rail |-> r, mv |-> mv]
  BY <1>2, <1>3
<1>5. x.learn.what = "mv" /\ x.learn.rail = r /\ x.learn.mv = mv
  BY <1>4
<1>6. x.learn # Nothing
  BY <1>5 DEF Nothing
<1> QED BY <1>4, <1>5, <1>6

\* A call that comes to a transfer is not about to note a voltage.
LEMMA ArrivedElsewhere ==
    ASSUME NEW d, Placed(d), d.step = FirstStep(At(d)) \/ d.step = AfterTest(At(d)), NEW r \in Rail
    PROVE  ~LearningAt(d, r)
<1> SUFFICES ASSUME LearningAt(d, r) PROVE FALSE
  OBVIOUS
<1>1. At(d).kind = "note"
  BY StepNames DEF LearningAt
<1>2. Sane(d.op.name, At(d))
  BY MadeSane DEF Placed, At
<1>3. ~Look(At(d))
  BY <1>1 DEF Look
<1> QED BY <1>1, <1>2, <1>3, VoltNow DEF LearningAt

LEMMA OnElsewhere ==
    ASSUME NEW c, NEW d, On(c, d), Placed(c), d.op = c.op, NEW r \in Rail
    PROVE  ~LearningAt(d, r)
<1>1. CASE c.at = Len(Scripts[c.op])
  BY <1>1 DEF On, LearningAt
<1>2. CASE c.at # Len(Scripts[c.op])
  <2>1. /\ d.at \in 1 .. Len(Scripts[d.op]) /\ d.step = FirstStep(At(d))
    BY <1>2 DEF On, At
  <2>2. Placed(d)
    BY <2>1 DEF Placed
  <2> QED BY <2>1, <2>2, ArrivedElsewhere
<1> QED BY <1>1, <1>2

\* Steps that touch neither the chip nor the record, and note nothing.
LEMMA QuietCache ==
    ASSUME NEW t \in Tasks, Fresh, Agreed, UNCHANGED <<regs, dev, writer, doubt>>,
           \A r \in Rail : ~LearningAt(run[t], r) /\ ~LearningAt(run'[t], r),
           \A u \in Tasks \ {t} : /\ run'[u].op = run[u].op /\ run'[u].at = run[u].at
                                  /\ run'[u].step = run[u].step
    PROVE  Fresh' /\ Agreed'
<1>1. ASSUME NEW u \in Tasks, NEW r \in Rail
      PROVE  /\ LearningAt(run'[u], r) <=> LearningAt(run[u], r)
             /\ u # t => At(run'[u]) = At(run[u])
  <2>1. CASE u = t
    BY <2>1
  <2>2. CASE u # t
    BY <2>2 DEF LearningAt, At
  <2> QED BY <2>1, <2>2
<1>2. Fresh'
  BY <1>1 DEF Fresh
<1>3. Agreed'
  BY <1>1 DEF Agreed
<1> QED BY <1>2, <1>3

\* A task at this step of this transfer is about to note no voltage.
LEMMA NotLearning ==
    ASSUME NEW c, c.step # "learn", NEW r
    PROVE  ~LearningAt(c, r)
  BY DEF LearningAt

LEMMA EnterCache ==
    ASSUME NEW t \in Tasks, Sound, Fresh, Agreed, NEW op \in duty[t], Enter(t, op)
    PROVE  Fresh' /\ Agreed'
<1>1. \A r \in Rail : ~LearningAt(run[t], r)
  BY EnterSound, NotLearning
<1>2. CallOK(run'[t]) /\ run'[t].step = FirstStep(At(run'[t])) /\ run'[t].step # "idle"
  <2>1. /\ Sound' /\ run'[t].op = op /\ run'[t].at = 1
        /\ run'[t].step = FirstStep(Scripts[op][1]) /\ run'[t].step # "idle"
    BY EnterSound
  <2>2. CallOK(run'[t])
    BY <2>1 DEF Sound, Running
  <2> QED BY <2>1, <2>2 DEF At
<1>3. \A r \in Rail : ~LearningAt(run'[t], r)
  BY <1>2, ArrivedElsewhere DEF CallOK
<1>4. UNCHANGED <<regs, dev, writer, doubt>>
  BY DEF Enter
<1>5. \A u \in Tasks \ {t} : /\ run'[u].op = run[u].op /\ run'[u].at = run[u].at
                             /\ run'[u].step = run[u].step
  BY EnterSound
<1> QED BY <1>1, <1>3, <1>4, <1>5, QuietCache

LEMMA MoveCache ==
    ASSUME NEW t \in Tasks, Sound, Fresh, Agreed, duty' = duty, NEW d, Moves(t, d),
           run[t].step \notin {"idle", "learn"}, \A r \in Rail : ~LearningAt(d, r),
           UNCHANGED <<regs, dev, writer, doubt>>
    PROVE  Fresh' /\ Agreed'
<1>1. run'[t] = d /\ \A u \in Tasks \ {t} : run'[u] = run[u]
  BY MoveKeeps DEF Sound
<1>2. \A r \in Rail : ~LearningAt(run[t], r)
  BY NotLearning
<1> QED BY <1>1, <1>2, QuietCache

LEMMA TestCache ==
    ASSUME NEW t \in Tasks, Sound, Fresh, Agreed, Test(t)
    PROVE  Fresh' /\ Agreed'
<1>1. PICK d : /\ Moves(t, d)
               /\ \/ GivenUp(d)
                  \/ On(run[t], d)
                  \/ d.step = AfterTest(Now(t)) /\ d.at = run[t].at
  BY TestMoves
<1>2. run[t].step = "test" /\ UNCHANGED <<regs, dev, writer, doubt>> /\ duty' = duty
  BY DEF Test
<1>3. Placed(run[t])
  BY <1>2, NowSane DEF Sound
<1>4. ASSUME NEW r \in Rail PROVE ~LearningAt(d, r)
  <2>1. CASE GivenUp(d)
    BY <2>1, NotLearning DEF GivenUp
  <2>2. CASE On(run[t], d)
    BY <1>1, <1>3, <2>2, OnElsewhere DEF Moves
  <2>3. CASE d.step = AfterTest(Now(t)) /\ d.at = run[t].at
    <3>1. Placed(d) /\ d.step = AfterTest(At(d))
      BY <1>1, <1>3, <2>3 DEF Moves, Placed, Now, At
    <3> QED BY <3>1, ArrivedElsewhere
  <2> QED BY <1>1, <2>1, <2>2, <2>3
<1> QED BY <1>1, <1>2, <1>4, MoveCache

LEMMA ReadCache ==
    ASSUME NEW t \in Tasks, Sound, Fresh, Agreed, ReadOK(t) \/ ReadFails(t)
    PROVE  Fresh' /\ Agreed'
<1>1. PICK d : /\ Moves(t, d)
               /\ \/ d.step \in {"ret", "write"}
                  \/ On(run[t], d)
                  \/ /\ Now(t).kind \in {"get", "identify", "verify"} /\ d.at = run[t].at
                     /\ Now(t).learn # Nothing \/ Now(t).kind \in {"identify", "verify"}
  <2>1. CASE ReadOK(t)
    BY <2>1, ReadMoves
  <2>2. CASE ReadFails(t)
    BY <2>2, ReadFailMoves DEF GivenUp
  <2> QED BY <2>1, <2>2
<1>2. run[t].step = "read" /\ UNCHANGED <<regs, dev, writer, doubt>> /\ duty' = duty
  BY DEF ReadOK, ReadFails
<1>3. Placed(run[t]) /\ Sane(run[t].op.name, Now(t))
  BY <1>2, NowSane DEF Sound
<1>4. ASSUME NEW r \in Rail PROVE ~LearningAt(d, r)
  <2>1. CASE d.step \in {"ret", "write"}
    BY <2>1, NotLearning
  <2>2. CASE On(run[t], d)
    BY <1>1, <1>3, <2>2, OnElsewhere DEF Moves
  <2>3. CASE /\ Now(t).kind \in {"get", "identify", "verify"} /\ d.at = run[t].at
             /\ Now(t).learn # Nothing \/ Now(t).kind \in {"identify", "verify"}
    <3>1. At(d) = Now(t)
      BY <1>1, <2>3 DEF Moves, At, Now
    <3>2. ~Look(Now(t))
      BY <2>3 DEF Look
    <3>3. Now(t).reg # VoltReg(r)
      BY <1>3, <2>3, <3>2, VoltNow
    <3> QED BY <3>1, <3>3 DEF LearningAt
  <2> QED BY <1>1, <2>1, <2>2, <2>3
<1> QED BY <1>1, <1>2, <1>4, MoveCache

LEMMA WriteCache ==
    ASSUME NEW t \in Tasks, Sound, Fresh, Agreed, WriteOK(t)
    PROVE  Fresh' /\ Agreed'
<1> DEFINE x == Now(t)
<1>1. run[t].step = "write" /\ Lands(t) /\ UNCHANGED <<dev, doubt>> /\ duty' = duty
  BY DEF WriteOK
<1>2. PICK d : /\ Moves(t, d)
               /\ \/ d.step = "learn" /\ d.at = run[t].at /\ x.learn # Nothing
                  \/ On(run[t], d) /\ x.learn = Nothing
  BY WriteMoves
<1>3. run'[t] = d /\ \A u \in Tasks \ {t} : run'[u] = run[u]
  BY <1>1, <1>2, MoveKeeps DEF Sound
<1>4. /\ Placed(run[t]) /\ Sane(run[t].op.name, x) /\ ~Look(x)
  BY <1>1, NowSane DEF Sound, Holding, Look
<1>5. /\ x.reg \in DOMAIN regs => regs'[x.reg] = Written(x, run[t].cur)
      /\ \A a \in DOMAIN regs : a # x.reg => regs'[a] = regs[a]
      /\ \A r \in Rail : writer'[r] = IF x.reg = VoltReg(r) THEN t ELSE writer[r]
  BY <1>1, Landed DEF Sound
<1>6. \A r \in Rail : VoltReg(r) \in DOMAIN regs
  BY RailRegs DEF Sound, Chip
<1> HIDE DEF x
<1>7. \A r \in Rail : x.reg = VoltReg(r) => x.kind = "put" /\ x.learn # Nothing
  BY <1>4, VoltNow
<1>8. ASSUME NEW r \in Rail, x.reg = VoltReg(r)
      PROVE  /\ LearningAt(d, r) /\ At(d) = x
             /\ regs'[VoltReg(r)] = x.val /\ writer'[r] = t
  <2>1. d.step = "learn" /\ d.at = run[t].at
    BY <1>2, <1>7, <1>8
  <2>2. At(d) = x
    BY <1>2, <2>1 DEF Moves, At, Now, x
  <2>3. regs'[VoltReg(r)] = Written(x, run[t].cur)
    BY <1>5, <1>6, <1>8
  <2>4. Written(x, run[t].cur) = x.val
    BY <1>7, <1>8 DEF Written
  <2>5. writer'[r] = t
    BY <1>5, <1>8
  <2> QED BY <1>8, <2>1, <2>2, <2>3, <2>4, <2>5 DEF LearningAt
<1>9. ASSUME NEW r \in Rail, x.reg # VoltReg(r)
      PROVE  /\ ~LearningAt(d, r) /\ ~LearningAt(run[t], r)
             /\ regs'[VoltReg(r)] = regs[VoltReg(r)] /\ writer'[r] = writer[r]
  <2>1. ~LearningAt(d, r)
    <3>1. CASE d.step = "learn" /\ d.at = run[t].at /\ x.learn # Nothing
      <4>1. At(d) = x
        BY <1>2, <3>1 DEF Moves, At, Now, x
      <4> QED BY <1>9, <4>1 DEF LearningAt
    <3>2. CASE On(run[t], d)
      BY <1>2, <1>4, <3>2, OnElsewhere DEF Moves
    <3> QED BY <1>2, <3>1, <3>2
  <2>2. ~LearningAt(run[t], r)
    BY <1>1, NotLearning
  <2>3. regs'[VoltReg(r)] = regs[VoltReg(r)]
    BY <1>5, <1>6, <1>9
  <2>4. writer'[r] = writer[r]
    BY <1>5, <1>9
  <2> QED BY <2>1, <2>2, <2>3, <2>4
<1>10. ASSUME NEW u \in Tasks, NEW r \in Rail, LearningAt(run'[u], r), writer'[r] = u
       PROVE  regs'[VoltReg(r)] = At(run'[u]).val
  <2>1. CASE x.reg = VoltReg(r)
    BY <1>3, <1>8, <1>10, <2>1
  <2>2. CASE x.reg # VoltReg(r)
    <3>1. u # t
      BY <1>3, <1>9, <1>10, <2>2
    <3>2. run'[u] = run[u]
      BY <1>3, <3>1
    <3> QED BY <1>9, <1>10, <2>2, <3>2 DEF Fresh
  <2> QED BY <2>1, <2>2
<1>11. ASSUME NEW r \in Rail, dev'.mv[r] # 0, r \notin doubt',
              \A u \in Tasks : ~LearningAt(run'[u], r)
       PROVE  dev'.mv[r] \in MinMv(r) .. MaxMv(r) /\ regs'[VoltReg(r)] = Code(r, dev'.mv[r])
  <2>1. x.reg # VoltReg(r)
    BY <1>3, <1>8, <1>11
  <2>2. \A u \in Tasks : ~LearningAt(run[u], r)
    BY <1>3, <1>9, <1>11, <2>1
  <2>3. dev' = dev /\ doubt' = doubt
    BY <1>1
  <2> QED BY <1>9, <1>11, <2>1, <2>2, <2>3 DEF Agreed
<1>12. Fresh'
  BY <1>10 DEF Fresh
<1>13. Agreed'
  BY <1>11 DEF Agreed
<1> QED BY <1>12, <1>13

LEMMA WriteFailCache ==
    ASSUME NEW t \in Tasks, Sound, Fresh, Agreed, WriteFails(t)
    PROVE  Fresh' /\ Agreed'
<1> DEFINE x == Now(t)
<1>1. /\ run[t].step = "write" /\ dev' = dev /\ duty' = duty
      /\ Lands(t) \/ UNCHANGED <<regs, writer>>
      /\ doubt' = doubt \cup {r \in Rail : x.reg = VoltReg(r)}
  BY DEF WriteFails
<1>2. PICK d : Moves(t, d) /\ (d.step \in {"write", "ret"} \/ On(run[t], d))
  BY WriteFailMoves DEF GivenUp
<1>3. run'[t] = d /\ \A u \in Tasks \ {t} : run'[u] = run[u]
  BY <1>1, <1>2, MoveKeeps DEF Sound
<1>4. Placed(run[t])
  BY <1>1, NowSane DEF Sound
<1>5. ASSUME NEW r \in Rail PROVE ~LearningAt(run'[t], r) /\ ~LearningAt(run[t], r)
  <2>1. CASE d.step \in {"write", "ret"}
    BY <1>1, <1>3, <2>1, NotLearning
  <2>2. CASE On(run[t], d)
    BY <1>1, <1>2, <1>3, <1>4, <2>2, OnElsewhere, NotLearning DEF Moves
  <2> QED BY <1>2, <2>1, <2>2
<1> HIDE DEF x
<1>6. ASSUME NEW r \in Rail
      PROVE  /\ writer'[r] = writer[r] \/ writer'[r] = t
             /\ x.reg # VoltReg(r)
                => regs'[VoltReg(r)] = regs[VoltReg(r)] /\ writer'[r] = writer[r]
             /\ x.reg = VoltReg(r) => r \in doubt'
             /\ x.reg = VoltReg(r) /\ writer'[r] # t
                => regs'[VoltReg(r)] = regs[VoltReg(r)] /\ writer'[r] = writer[r]
  <2>1. VoltReg(r) \in DOMAIN regs
    BY RailRegs DEF Sound, Chip
  <2>2. CASE Lands(t)
    BY <1>1, <2>1, <2>2, Landed DEF Sound, x
  <2>3. CASE UNCHANGED <<regs, writer>>
    BY <1>1, <2>3
  <2> QED BY <1>1, <2>2, <2>3
<1>7. ASSUME NEW u \in Tasks, NEW r \in Rail, LearningAt(run'[u], r), writer'[r] = u
      PROVE  regs'[VoltReg(r)] = At(run'[u]).val
  <2>1. u # t
    BY <1>5, <1>7
  <2>2. run'[u] = run[u] /\ writer'[r] # t
    BY <1>3, <1>7, <2>1
  <2>3. regs'[VoltReg(r)] = regs[VoltReg(r)] /\ writer'[r] = writer[r]
    BY <1>6, <2>2
  <2> QED BY <1>7, <2>2, <2>3 DEF Fresh
<1>8. ASSUME NEW r \in Rail, dev'.mv[r] # 0, r \notin doubt',
             \A u \in Tasks : ~LearningAt(run'[u], r)
      PROVE  dev'.mv[r] \in MinMv(r) .. MaxMv(r) /\ regs'[VoltReg(r)] = Code(r, dev'.mv[r])
  <2>1. x.reg # VoltReg(r) /\ r \notin doubt
    BY <1>1, <1>6, <1>8
  <2>2. \A u \in Tasks : ~LearningAt(run[u], r)
    BY <1>3, <1>5, <1>8
  <2>3. regs'[VoltReg(r)] = regs[VoltReg(r)]
    BY <1>6, <2>1
  <2> QED BY <1>1, <1>8, <2>1, <2>2, <2>3 DEF Agreed
<1>9. Fresh'
  BY <1>7 DEF Fresh
<1>10. Agreed'
  BY <1>8 DEF Agreed
<1> QED BY <1>9, <1>10

LEMMA NoticeCache ==
    ASSUME NEW t \in Tasks, Sound, Fresh, Agreed, Noticed(t)
    PROVE  Fresh' /\ Agreed'
<1> DEFINE x == Now(t)
<1>1. /\ run[t].step = "learn" /\ regs' = regs /\ writer' = writer /\ duty' = duty
      /\ dev' = Noted(x, run[t].cur)
      /\ doubt' = IF x.learn.what # "mv" THEN doubt
                  ELSE IF writer[x.learn.rail] = t THEN doubt \ {x.learn.rail}
                  ELSE doubt \cup {x.learn.rail}
  BY DEF Noticed
<1>2. PICK d : Moves(t, d) /\ (GivenUp(d) \/ On(run[t], d))
  BY NoticeMoves
<1>3. run'[t] = d /\ \A u \in Tasks \ {t} : run'[u] = run[u]
  BY <1>1, <1>2, MoveKeeps DEF Sound
<1>4. /\ Placed(run[t]) /\ Sane(run[t].op.name, x) /\ ~Look(x) /\ x = At(run[t])
  BY <1>1, NowSane DEF Sound, Holding, At
<1>5. ASSUME NEW r \in Rail PROVE ~LearningAt(run'[t], r)
  <2>1. CASE GivenUp(d)
    BY <1>3, <2>1, NotLearning DEF GivenUp
  <2>2. CASE On(run[t], d)
    BY <1>2, <1>3, <1>4, <2>2, OnElsewhere DEF Moves
  <2> QED BY <1>2, <2>1, <2>2
<1> HIDE DEF x
<1>6. ASSUME NEW u \in Tasks, NEW r \in Rail, LearningAt(run'[u], r), writer'[r] = u
      PROVE  regs'[VoltReg(r)] = At(run'[u]).val
  <2>1. u # t /\ run'[u] = run[u]
    BY <1>3, <1>5, <1>6
  <2> QED BY <1>1, <1>6, <2>1 DEF Fresh
<1>7. ASSUME NEW r \in Rail, x.reg = VoltReg(r), r \notin doubt'
      PROVE  dev'.mv[r] \in MinMv(r) .. MaxMv(r) /\ regs'[VoltReg(r)] = Code(r, dev'.mv[r])
  <2>1. /\ x.learn.what = "mv" /\ x.learn.rail = r
        /\ x.learn.mv \in MinMv(r) .. MaxMv(r) /\ x.val = Code(r, x.learn.mv)
    BY <1>4, <1>7, VoltNow
  <2>2. writer[r] = t
    BY <1>1, <1>7, <2>1
  <2>3. regs[VoltReg(r)] = x.val
    BY <1>1, <1>4, <1>7, <2>2 DEF Fresh, LearningAt
  <2>4. dev' = [dev EXCEPT !.mv[r] = x.learn.mv]
    BY <1>1, <2>1 DEF Noted
  <2>5. dev'.mv[r] = x.learn.mv
    BY <2>4 DEF Sound, Record, DevNames
  <2> QED BY <1>1, <2>1, <2>3, <2>5
<1>8. ASSUME NEW r \in Rail, x.reg # VoltReg(r), dev'.mv[r] # 0
      PROVE  dev'.mv[r] = dev.mv[r]
  <2>1. CASE x.learn.what = "mv"
    <3>1. Volt(x)
      BY <1>4, <2>1, SaneLearns
    <3>2. x.learn.rail \in Rail /\ x.reg = VoltReg(x.learn.rail)
      BY <3>1 DEF Volt
    <3>3. dev' = [dev EXCEPT !.mv[x.learn.rail] = x.learn.mv]
      BY <1>1, <2>1 DEF Noted
    <3>4. x.learn.rail # r
      BY <1>8, <3>2
    <3> QED BY <3>3, <3>4 DEF Sound, Record, DevNames
  <2>2. CASE x.learn.what = "reset"
    <3>1. dev'.mv = [s \in Rail |-> 0]
      BY <1>1, <2>2 DEF Noted
    <3> QED BY <1>8, <3>1
  <2>3. CASE x.learn.what \notin {"mv", "reset"}
    <3>1. dev'.mv = dev.mv
      BY <1>1, <2>3 DEF Noted, Sound, Record, DevNames
    <3> QED BY <3>1
  <2> QED BY <2>1, <2>2, <2>3
<1>9. ASSUME NEW r \in Rail, x.reg # VoltReg(r), r \notin doubt' PROVE r \notin doubt
  <2>1. CASE x.learn.what = "mv"
    <3>1. Volt(x)
      BY <1>4, <2>1, SaneLearns
    <3>2. x.learn.rail \in Rail /\ x.reg = VoltReg(x.learn.rail)
      BY <3>1 DEF Volt
    <3>3. x.learn.rail # r
      BY <1>9, <3>2
    <3> QED BY <1>1, <1>9, <2>1, <3>3
  <2>2. CASE x.learn.what # "mv"
    BY <1>1, <1>9, <2>2
  <2> QED BY <2>1, <2>2
<1>10. ASSUME NEW r \in Rail, dev'.mv[r] # 0, r \notin doubt',
              \A u \in Tasks : ~LearningAt(run'[u], r)
       PROVE  dev'.mv[r] \in MinMv(r) .. MaxMv(r) /\ regs'[VoltReg(r)] = Code(r, dev'.mv[r])
  <2>1. CASE x.reg = VoltReg(r)
    BY <1>7, <1>10, <2>1
  <2>2. CASE x.reg # VoltReg(r)
    <3>1. dev'.mv[r] = dev.mv[r] /\ r \notin doubt
      BY <1>8, <1>9, <1>10, <2>2
    <3>2. ~LearningAt(run[t], r)
      BY <1>4, <2>2 DEF LearningAt
    <3>3. \A u \in Tasks : ~LearningAt(run[u], r)
      BY <1>3, <1>10, <3>2
    <3> QED BY <1>1, <1>10, <3>1, <3>3 DEF Agreed
  <2> QED BY <2>1, <2>2
<1>11. Fresh'
  BY <1>6 DEF Fresh
<1>12. Agreed'
  BY <1>10 DEF Agreed
<1> QED BY <1>11, <1>12

LEMMA InitCache == Init => Fresh /\ Agreed
<1> SUFFICES ASSUME Init PROVE Fresh /\ Agreed
  OBVIOUS
<1>1. \A t \in Tasks : run[t].step = "idle"
  BY DEF Init, Idle
<1>2. \A r \in Rail : dev.mv[r] = 0
  BY DEF Init
<1> QED BY <1>1, <1>2 DEF Fresh, Agreed, LearningAt

LEMMA CacheKept == Sound /\ Fresh /\ Agreed /\ [Next]_vars => Fresh' /\ Agreed'
<1> SUFFICES ASSUME Sound, Fresh, Agreed, [Next]_vars PROVE Fresh' /\ Agreed'
  OBVIOUS
<1>1. CASE UNCHANGED vars
  BY <1>1 DEF vars, Fresh, Agreed, LearningAt, At
<1>2. ASSUME NEW t \in Tasks, Proceed(t) PROVE Fresh' /\ Agreed'
  <2>1. CASE Return(t)
    <3>1. run'[t] = Idle /\ \A u \in Tasks \ {t} : run'[u] = run[u]
      BY <2>1 DEF Return, Sound, Running
    <3>2. \A r \in Rail : ~LearningAt(run[t], r) /\ ~LearningAt(run'[t], r)
      BY <2>1, <3>1, IdleOK, NotLearning DEF Return
    <3> QED BY <2>1, <3>1, <3>2, QuietCache DEF Return
  <2> QED BY <1>2, <2>1, TestCache, ReadCache, WriteCache, WriteFailCache, NoticeCache DEF Proceed
<1> QED BY <1>1, <1>2, EnterCache DEF Next

\* The code that is read back gives the voltage up to a step and to what the byte loses.
LEMMA CodeRoundTrip ==
    ASSUME NEW r \in Rail, NEW mv \in MinMv(r) .. MaxMv(r)
    PROVE  mv - (MinMv(r) + Code(r, mv) * StepMv(r))
              - 256 * StepMv(r) * ((mv - MinMv(r)) \div (256 * StepMv(r))) \in 0 .. StepMv(r) - 1
<1>1. CASE r \in Buck
  <2>1. MinMv(r) = 300 /\ MaxMv(r) = 3340 /\ StepMv(r) = 5
    BY <1>1 DEF MinMv, MaxMv, StepMv
  <2>2. ASSUME NEW d \in 0 .. 3040
        PROVE  d - ((d \div 5) % 256) * 5 - 1280 * (d \div 1280) \in 0 .. 4
    OBVIOUS
  <2>3. mv - 300 \in 0 .. 3040 /\ mv \in Int
    BY <2>1
  <2>4. (mv - 300) - (((mv - 300) \div 5) % 256) * 5 - 1280 * ((mv - 300) \div 1280) \in 0 .. 4
    BY <2>2, <2>3
  <2> QED BY <2>1, <2>3, <2>4 DEF Code
<1>2. CASE r \notin Buck
  <2>1. MinMv(r) = 600 /\ MaxMv(r) = 3300 /\ StepMv(r) = 50
    BY <1>2 DEF MinMv, MaxMv, StepMv
  <2>2. ASSUME NEW d \in 0 .. 2700
        PROVE  d - ((d \div 50) % 256) * 50 - 12800 * (d \div 12800) \in 0 .. 49
    OBVIOUS
  <2>3. mv - 600 \in 0 .. 2700 /\ mv \in Int
    BY <2>1
  <2>4. (mv - 600) - (((mv - 600) \div 50) % 256) * 50 - 12800 * ((mv - 600) \div 12800) \in 0 .. 49
    BY <2>2, <2>3
  <2> QED BY <2>1, <2>3, <2>4 DEF Code
<1> QED BY <1>1, <1>2

LEMMA AgreedCache == Agreed => CacheAgrees
<1> SUFFICES ASSUME Agreed, NEW r \in Rail, Settled(r), ~LowNoise(r)
             PROVE  dev.mv[r] - Delivered(r)
                    - 256 * StepMv(r) * ((dev.mv[r] - MinMv(r)) \div (256 * StepMv(r)))
                    \in 0 .. StepMv(r) - 1
  BY DEF CacheAgrees
<1>1. \A t \in Tasks : ~LearningAt(run[t], r)
  BY DEF Settled, LearningAt, At, Now
<1>2. dev.mv[r] \in MinMv(r) .. MaxMv(r) /\ regs[VoltReg(r)] = Code(r, dev.mv[r])
  BY <1>1 DEF Settled, Agreed
<1>3. Delivered(r) = MinMv(r) + Code(r, dev.mv[r]) * StepMv(r)
  BY <1>2 DEF Delivered, ChipStep
<1> QED BY <1>2, <1>3, CodeRoundTrip

\* The voltage the driver remembers is the one the chip delivers, up to the rounding to a
\* step and the bits that do not fit the register, whatever tasks set and whatever fails,
\* unless a write is being noted, has failed, or was overtaken, on every rail but an LDO
\* that is bypassed and LDO4 in low-noise mode.
THEOREM CacheFollowsChip == Spec => []CacheAgrees
<1>1. Sound /\ Fresh /\ Agreed /\ [Next]_vars => (Fresh /\ Agreed)'
  BY CacheKept
<1>2. Init => Fresh /\ Agreed
  BY InitCache
<1> QED BY <1>1, <1>2, SoundAlways, AgreedCache, PTL DEF Spec

-----------------------------------------------------------------------------
(* The invariant behind the watchdog. *)

Pets(ops) == \E op \in ops : op.name = "watchdog_pet"

\* In no application do two tasks pet the watchdog.
OnePetter == \A d \in Duties : \A t, u \in Tasks : Pets(d[t]) /\ Pets(d[u]) => t = u

Toggled(bits) == (bits \ {RST}) \cup ({RST} \ bits)
Petting(c) == c.op.name = "watchdog_pet" /\ c.step # "idle"

\* A pet before its write, between its writes, and after the one that was acknowledged.
PetState(c, conf) ==
    /\ c.step # "learn"
    /\ c.step \in {"test", "read"} => conf = c.before
    /\ c.step = "write" => c.cur = c.before /\ conf \in {c.before, Toggled(c.before)}
    /\ c.step = "ret" /\ c.ret = TPS6594_ERR_OK => conf = Toggled(c.before)

PetInv == \A t \in Tasks : Petting(run[t]) => PetState(run[t], regs[WDOG_CONF])

\* The register of the watchdog is written by nobody but who pets it.
LEMMA PetOnly ==
    ASSUME NEW name, NEW x, Sane(name, x), ~Look(x), x.reg = WDOG_CONF
    PROVE  name = "watchdog_pet"
<1>1. WDOG_CONF \in BitRegs /\ WDOG_CONF \notin NumberRegs
  BY OtherRegs DEF WDOG_CONF
<1>2. ~Volt(x)
  BY <1>1, RailRegs DEF Volt
<1>3. ~Number(x) /\ ~Bits(x) /\ ~Aside(x)
  BY <1>1, OtherRegs DEF Number, Bits, Aside, PWR_CTRL, WDOG_RESPONSE
<1> QED BY <1>2, <1>3 DEF Sane

LEMMA PetScript ==
    ASSUME NEW op \in Made, op.name = "watchdog_pet"
    PROVE  /\ Len(Scripts[op]) = 1
           /\ LET x == Scripts[op][1]
              IN  /\ x.kind = "flip" /\ x.reg = WDOG_CONF /\ x.val = {RST}
                  /\ x.learn = Nothing /\ x.must /\ x.call
<1>1. Scripts[op] = WatchdogPet
  <2>1. Scripts[op] = Script(op)
    BY DEF Scripts
  <2>2. Script(op) = WatchdogPet
    BY DEF Script
  <2> QED BY <2>1, <2>2
<1> DEFINE f == Flip(WDOG_CONF, {RST})
<1>2. /\ DOMAIN f = Fields /\ f.kind = "flip" /\ f.reg = WDOG_CONF /\ f.val = {RST}
      /\ f.learn = Nothing /\ f.must
  BY TransferFields DEF Flip
<1>3. WatchdogPet = <<Call(f)>>
  BY DEF WatchdogPet
<1> HIDE DEF f
<1>4. Alike(Call(f), f) /\ Call(f).call /\ Call(f).must
  BY <1>2, CallFields
<1>5. Len(WatchdogPet) = 1 /\ WatchdogPet[1] = Call(f)
  BY <1>3
<1> QED BY <1>1, <1>2, <1>4, <1>5 DEF Alike

LEMMA PetNow ==
    ASSUME NEW t \in Tasks, Sound, Petting(run[t])
    PROVE  /\ run[t].at = 1 /\ Len(Scripts[run[t].op]) = 1
           /\ Now(t).kind = "flip" /\ Now(t).reg = WDOG_CONF /\ Now(t).val = {RST}
           /\ Now(t).learn = Nothing /\ Now(t).must /\ Now(t).call
<1>1. Placed(run[t])
  BY NowSane DEF Petting, Sound
<1>2. Len(Scripts[run[t].op]) = 1
  BY <1>1, PetScript DEF Petting, Placed
<1>3. run[t].at = 1
  BY <1>1, <1>2 DEF Placed
<1> QED BY <1>1, <1>2, <1>3, PetScript DEF Petting, Placed, Now

LEMMA OnePets ==
    ASSUME OnePetter, Sound, NEW t \in Tasks, NEW u \in Tasks, Petting(run[t]), Petting(run[u])
    PROVE  t = u
<1>1. Pets(duty[t]) /\ Pets(duty[u]) /\ duty \in Duties
  BY DEF Petting, Pets, Sound, OnDuty
<1> QED BY <1>1 DEF OnePetter

\* Whoever does not pet the watchdog leaves its register alone.
LEMMA OthersLeaveIt ==
    ASSUME NEW t \in Tasks, Sound, Proceed(t), ~Petting(run[t])
    PROVE  regs'[WDOG_CONF] = regs[WDOG_CONF]
<1>1. WDOG_CONF \in DOMAIN regs
  BY OtherRegs DEF Sound, Chip, WDOG_CONF
<1>2. ASSUME run[t].step = "write", Lands(t) PROVE regs'[WDOG_CONF] = regs[WDOG_CONF]
  <2>1. Sane(run[t].op.name, Now(t)) /\ ~Look(Now(t))
    BY <1>2, NowSane DEF Sound, Holding, Look
  <2>2. Now(t).reg # WDOG_CONF
    BY <1>2, <2>1, PetOnly DEF Petting
  <2> QED BY <1>1, <1>2, <2>2, Landed DEF Sound
<1>3. \/ regs' = regs
      \/ run[t].step = "write" /\ Lands(t)
  BY DEF Proceed, Test, ReadOK, ReadFails, WriteOK, WriteFails, Noticed, Return
<1> QED BY <1>2, <1>3

\* What the other tasks do leaves a pet as it was.
LEMMA OthersPet ==
    ASSUME NEW t \in Tasks, NEW c, NEW d, PetState(c, regs[WDOG_CONF]),
           regs'[WDOG_CONF] = regs[WDOG_CONF],
           d.step = c.step, d.cur = c.cur, d.before = c.before, d.ret = c.ret
    PROVE  PetState(d, regs'[WDOG_CONF])
  BY DEF PetState

LEMMA EnterPet ==
    ASSUME NEW t \in Tasks, Sound, PetInv, NEW op \in duty[t], Enter(t, op)
    PROVE  PetInv'
<1>1. regs' = regs
  BY DEF Enter
<1>2. ASSUME Petting(run'[t]) PROVE PetState(run'[t], regs'[WDOG_CONF])
  <2>1. /\ Sound' /\ run'[t].op = op /\ run'[t].at = 1 /\ run'[t].step = FirstStep(Scripts[op][1])
        /\ run'[t].before = regs[WDOG_CONF] /\ run'[t].step # "idle"
    BY EnterSound
  <2>2. op \in Made /\ op.name = "watchdog_pet"
    BY <1>2, <2>1 DEF Petting, Sound, OnDuty, Made
  <2>3. run'[t].step = "test"
    BY <2>1, <2>2, PetScript DEF FirstStep
  <2> QED BY <1>1, <2>1, <2>3 DEF PetState
<1>3. ASSUME NEW u \in Tasks \ {t}, Petting(run'[u])
      PROVE  PetState(run'[u], regs'[WDOG_CONF])
  <2>1. /\ run'[u].op = run[u].op /\ run'[u].step = run[u].step /\ run'[u].cur = run[u].cur
        /\ run'[u].before = run[u].before /\ run'[u].ret = run[u].ret
    BY EnterSound
  <2> QED BY <1>1, <1>3, <2>1, OthersPet DEF Petting, PetInv
<1> QED BY <1>2, <1>3 DEF PetInv

\* A pet, step by step.
LEMMA PetSteps ==
    ASSUME NEW t \in Tasks, Sound, Petting(run[t]), PetState(run[t], regs[WDOG_CONF]),
           Proceed(t), Petting(run'[t])
    PROVE  PetState(run'[t], regs'[WDOG_CONF])
<1>0. run[t].step # "idle" /\ duty' = duty
  BY DEF Petting, Proceed, Test, ReadOK, ReadFails, WriteOK, WriteFails, Noticed, Return
<1>1. /\ run[t].at = 1 /\ Len(Scripts[run[t].op]) = 1
      /\ Now(t).kind = "flip" /\ Now(t).reg = WDOG_CONF /\ Now(t).val = {RST}
      /\ Now(t).learn = Nothing /\ Now(t).must /\ Now(t).call
  BY PetNow
<1>2. WDOG_CONF \in BitRegs /\ WDOG_CONF \in DOMAIN regs
  BY OtherRegs DEF Sound, Chip, WDOG_CONF
<1>3. \A d : On(run[t], d) => d.step = "ret" /\ d.ret = TPS6594_ERR_OK
  BY <1>1 DEF On
<1>4. \A d : Moves(t, d) => run'[t] = d /\ d.before = run[t].before
  BY <1>0, MoveKeeps DEF Moves, Sound
<1>5. CASE Test(t)
  <2>1. PICK d : /\ Moves(t, d)
                 /\ \/ GivenUp(d)
                    \/ ~Now(t).must \/ Now(t).kind = "verify"
                    \/ d.step = AfterTest(Now(t))
    BY <1>5, TestMoves
  <2>2. run[t].step = "test" /\ regs' = regs
    BY <1>5 DEF Test
  <2>3. AfterTest(Now(t)) = "read"
    BY <1>1 DEF AfterTest, Reads
  <2> QED BY <1>1, <1>4, <2>1, <2>2, <2>3 DEF PetState, GivenUp
<1>6. CASE ReadOK(t)
  <2>1. PICK d : /\ Moves(t, d)
                 /\ \/ Now(t).kind \in {"get", "identify", "verify"}
                    \/ d.step = "write" /\ d.cur = regs[WDOG_CONF]
    BY <1>1, <1>2, <1>6, ReadMoves
  <2>2. run[t].step = "read" /\ regs' = regs
    BY <1>6 DEF ReadOK
  <2> QED BY <1>1, <1>4, <2>1, <2>2 DEF PetState
<1>7. CASE ReadFails(t)
  <2>1. PICK d : Moves(t, d) /\ (GivenUp(d) \/ ~Now(t).must \/ Now(t).kind = "verify")
    BY <1>7, ReadFailMoves
  <2> QED BY <1>1, <1>4, <2>1 DEF PetState, GivenUp
<1>8. ASSUME run[t].step = "write", Lands(t)
      PROVE  regs'[WDOG_CONF] = Toggled(run[t].before)
  <2>1. regs'[WDOG_CONF] = Written(Now(t), run[t].cur)
    BY <1>1, <1>2, <1>8, Landed DEF Sound
  <2>2. run[t].cur = run[t].before
    BY <1>8 DEF PetState
  <2> QED BY <1>1, <2>1, <2>2 DEF Written, Toggled
<1>9. CASE WriteOK(t)
  <2>1. PICK d : Moves(t, d) /\ (On(run[t], d) \/ Now(t).learn # Nothing)
    BY <1>9, WriteMoves
  <2>2. regs'[WDOG_CONF] = Toggled(run[t].before)
    BY <1>8, <1>9 DEF WriteOK
  <2> QED BY <1>1, <1>3, <1>4, <2>1, <2>2 DEF PetState
<1>10. CASE WriteFails(t)
  <2>1. PICK d : /\ Moves(t, d)
                 /\ \/ d.step = "write" /\ d.cur = run[t].cur
                    \/ GivenUp(d)
                    \/ ~Now(t).must
    BY <1>10, WriteFailMoves
  <2>2. run[t].step = "write" /\ (Lands(t) \/ regs' = regs)
    BY <1>10 DEF WriteFails
  <2>3. run[t].cur = run[t].before /\ regs[WDOG_CONF] \in {run[t].before, Toggled(run[t].before)}
    BY <2>2 DEF PetState
  <2>4. regs'[WDOG_CONF] \in {run[t].before, Toggled(run[t].before)}
    BY <1>8, <2>2, <2>3
  <2> QED BY <1>1, <1>4, <2>1, <2>3, <2>4 DEF PetState, GivenUp
<1>11. CASE Noticed(t)
  BY <1>11 DEF Noticed, PetState
<1>12. CASE Return(t)
  <2>1. run'[t] = Idle
    BY <1>12 DEF Return, Sound, Running
  <2> QED BY <2>1, IdleOK DEF Petting
<1> QED BY <1>5, <1>6, <1>7, <1>9, <1>10, <1>11, <1>12 DEF Proceed

LEMMA ProceedPet ==
    ASSUME OnePetter, NEW t \in Tasks, Sound, PetInv, Proceed(t)
    PROVE  PetInv'
<1>0. \A u \in Tasks \ {t} : run'[u] = run[u]
  BY DEF Proceed, Test, ReadOK, ReadFails, WriteOK, WriteFails, Noticed, Return, Sound, Running
<1>1. ASSUME Petting(run'[t]) PROVE PetState(run'[t], regs'[WDOG_CONF])
  <2>1. Petting(run[t])
    <3>1. CASE Return(t)
      BY <1>1, <3>1, IdleOK DEF Return, Sound, Running, Petting
    <3>2. CASE ~Return(t)
      <4>1. run[t].step # "idle" /\ duty' = duty
        BY <3>2 DEF Proceed, Test, ReadOK, ReadFails, WriteOK, WriteFails, Noticed
      <4>2. PICK d : Moves(t, d)
        BY <3>2, TestMoves, ReadMoves, ReadFailMoves, WriteMoves, WriteFailMoves, NoticeMoves
           DEF Proceed
      <4>3. run'[t] = d /\ d.op = run[t].op
        BY <4>1, <4>2, MoveKeeps DEF Sound, Moves
      <4> QED BY <1>1, <4>1, <4>3 DEF Petting
    <3> QED BY <3>1, <3>2
  <2> QED BY <1>1, <2>1, PetSteps DEF PetInv
<1>2. ASSUME NEW u \in Tasks \ {t}, Petting(run'[u])
      PROVE  PetState(run'[u], regs'[WDOG_CONF])
  <2>1. Petting(run[u]) /\ run'[u] = run[u]
    BY <1>0, <1>2
  <2>2. ~Petting(run[t])
    BY <2>1, OnePets
  <2>3. regs'[WDOG_CONF] = regs[WDOG_CONF]
    BY <2>2, OthersLeaveIt
  <2> QED BY <2>1, <2>3 DEF PetInv
<1> QED BY <1>1, <1>2 DEF PetInv

LEMMA PetKept == OnePetter /\ Sound /\ PetInv /\ [Next]_vars => PetInv'
<1> SUFFICES ASSUME OnePetter, Sound, PetInv, [Next]_vars PROVE PetInv'
  OBVIOUS
<1>1. CASE UNCHANGED vars
  BY <1>1 DEF vars, PetInv, Petting, PetState
<1> QED BY <1>1, EnterPet, ProceedPet DEF Next

LEMMA PetDone == PetInv => PetTogglesOnce
<1> SUFFICES ASSUME PetInv, NEW t \in Tasks, run[t].op.name = "watchdog_pet",
                    run[t].step = "ret", run[t].ret = TPS6594_ERR_OK
             PROVE  (RST \in regs[WDOG_CONF]) # (RST \in run[t].before)
  BY DEF PetTogglesOnce
<1>1. regs[WDOG_CONF] = Toggled(run[t].before)
  BY DEF PetInv, Petting, PetState
<1> QED BY <1>1 DEF Toggled

\* Where one task pets the watchdog, a pet that reports success has turned the bit round
\* exactly once, however often its write was repeated.
THEOREM OnePetIsOneToggle ==
    ASSUME OnePetter
    PROVE  Spec => []PetTogglesOnce
<1>1. Init => PetInv
  BY IdleOK DEF Init, PetInv, Petting
<1>2. Sound /\ PetInv /\ [Next]_vars => PetInv'
  BY PetKept
<1>3. PetInv => PetTogglesOnce
  BY PetDone
<1> QED BY <1>1, <1>2, <1>3, SoundAlways, PTL DEF Spec

-----------------------------------------------------------------------------
(* The invariant behind deinit. *)

\* Who is alone in a call is: the others are in none.
AloneInv == \A t \in Tasks : run[t].step # "idle" /\ run[t].alone => AllIdle(Tasks \ {t})

\* A task that moves was and is in a call, or has left it.
LEMMA Proceeds ==
    ASSUME NEW t \in Tasks, Sound, Proceed(t)
    PROVE  /\ run[t].step # "idle" /\ duty' = duty
           /\ \A u \in Tasks \ {t} : run'[u] = run[u]
           /\ \/ run'[t] = Idle
              \/ /\ run'[t].op = run[t].op /\ run'[t].alone = run[t].alone
                 /\ run'[t].ready = run[t].ready /\ run'[t].before = run[t].before
<1>1. run[t].step # "idle" /\ duty' = duty
  BY DEF Proceed, Test, ReadOK, ReadFails, WriteOK, WriteFails, Noticed, Return
<1>2. CASE Return(t)
  BY <1>1, <1>2 DEF Return, Sound, Running
<1>3. CASE ~Return(t)
  <2>1. PICK d : Moves(t, d)
    BY <1>3, TestMoves, ReadMoves, ReadFailMoves, WriteMoves, WriteFailMoves, NoticeMoves
       DEF Proceed
  <2>2. run'[t] = d /\ \A u \in Tasks \ {t} : run'[u] = run[u]
    BY <1>1, <2>1, MoveKeeps DEF Sound
  <2> QED BY <1>1, <2>1, <2>2 DEF Moves
<1> QED BY <1>2, <1>3

LEMMA AloneKept == Sound /\ AloneInv /\ [Next]_vars => AloneInv'
<1> SUFFICES ASSUME Sound, AloneInv, [Next]_vars PROVE AloneInv'
  OBVIOUS
<1>1. CASE UNCHANGED vars
  BY <1>1 DEF vars, AloneInv, AllIdle
<1>2. ASSUME NEW t \in Tasks, NEW op \in duty[t], Enter(t, op) PROVE AloneInv'
  <2>1. /\ run'[t].alone = AllIdle(Tasks \ {t})
        /\ \A u \in Tasks \ {t} : run'[u].step = run[u].step /\ ~run'[u].alone
    BY <1>2, EnterSound
  <2>2. AllIdle(Tasks \ {t}) => AllIdle(Tasks \ {t})'
    BY <2>1 DEF AllIdle
  <2> QED BY <2>1, <2>2 DEF AloneInv
<1>3. ASSUME NEW t \in Tasks, Proceed(t) PROVE AloneInv'
  <2>1. /\ run[t].step # "idle" /\ \A u \in Tasks \ {t} : run'[u] = run[u]
        /\ run'[t] = Idle \/ run'[t].alone = run[t].alone
    BY <1>3, Proceeds
  <2>2. ASSUME NEW u \in Tasks, run'[u].step # "idle", run'[u].alone
        PROVE  AllIdle(Tasks \ {u})'
    <3>1. CASE u = t
      BY <2>1, <2>2, <3>1, IdleOK DEF AloneInv, AllIdle
    <3>2. CASE u # t
      BY <2>1, <2>2, <3>2 DEF AloneInv, AllIdle
    <3> QED BY <3>1, <3>2
  <2> QED BY <2>2 DEF AloneInv
<1> QED BY <1>1, <1>2, <1>3 DEF Next

LEMMA AloneAlways == Spec => []AloneInv
<1>1. Init => AloneInv
  BY IdleOK DEF Init, AloneInv
<1> QED BY <1>1, AloneKept, SoundAlways, PTL DEF Spec

\* The transfers of deinit.
LEMMA DeinitAt ==
    ASSUME NEW op \in Made, op.name = "deinit"
    PROVE  /\ Len(Scripts[op]) = 11
           /\ LET x == Scripts[op][1]
              IN  /\ x.kind = "put" /\ x.reg = WDOG_RESPONSE /\ x.val = 0
                  /\ x.learn = Nothing /\ x.call
           /\ \A r \in Rail :
                 LET x == Scripts[op][r + 2]
                 IN  /\ x.kind = "clear" /\ x.reg = ConfReg(r) /\ x.val = {EN}
                     /\ x.learn = Nothing /\ x.call
           /\ LET x == Scripts[op][11] IN x.kind = "note" /\ ~x.call
<1>1. Scripts[op] = Deinit
  <2>1. Scripts[op] = Script(op)
    BY DEF Scripts
  <2>2. Script(op) = Deinit
    BY DEF Script
  <2> QED BY <2>1, <2>2
<1>2. ASSUME NEW x, DOMAIN x = Fields
      PROVE  Alike(Ignored(Call(x)), x) /\ Ignored(Call(x)).call
  BY <1>2, CallFields, IgnoredFields DEF Alike
<1>3. \A a, v : /\ DOMAIN Put(a, v) = Fields /\ Put(a, v).kind = "put" /\ Put(a, v).reg = a
                /\ Put(a, v).val = v /\ Put(a, v).learn = Nothing
                /\ DOMAIN Clear(a, v) = Fields /\ Clear(a, v).kind = "clear"
                /\ Clear(a, v).reg = a /\ Clear(a, v).val = v /\ Clear(a, v).learn = Nothing
  BY TransferFields DEF Put, Clear
<1>4. LET x == Learn(Note, [what |-> "gone"]) IN x.kind = "note" /\ ~x.call
  BY TransferFields, LearnFields DEF Note
<1>5. /\ Len(Deinit) = 11
      /\ Deinit[1] = Ignored(Call(Put(WDOG_RESPONSE, 0)))
      /\ \A r \in Rail : Deinit[r + 2] = Ignored(Call(Clear(ConfReg(r), {EN})))
      /\ Deinit[11] = Learn(Note, [what |-> "gone"])
  BY DeinitScript
<1>6. LET x == Deinit[1]
      IN  /\ x.kind = "put" /\ x.reg = WDOG_RESPONSE /\ x.val = 0
          /\ x.learn = Nothing /\ x.call
  BY <1>2, <1>3, <1>5 DEF Alike
<1>7. ASSUME NEW r \in Rail
      PROVE  LET x == Deinit[r + 2]
             IN  /\ x.kind = "clear" /\ x.reg = ConfReg(r) /\ x.val = {EN}
                 /\ x.learn = Nothing /\ x.call
  <2> DEFINE y == Clear(ConfReg(r), {EN})
  <2>1. /\ DOMAIN y = Fields /\ y.kind = "clear" /\ y.reg = ConfReg(r) /\ y.val = {EN}
        /\ y.learn = Nothing /\ Deinit[r + 2] = Ignored(Call(y))
    BY <1>3, <1>5
  <2> HIDE DEF y
  <2>2. Alike(Ignored(Call(y)), y) /\ Ignored(Call(y)).call
    BY <1>2, <2>1
  <2> QED BY <2>1, <2>2 DEF Alike
<1> QED BY <1>1, <1>4, <1>5, <1>6, <1>7

LeavingAlone(c) == /\ c.op.name = "deinit" /\ c.step # "idle"
                   /\ c.ready /\ c.alone /\ ~c.failed

\* What deinit has done before its transfer number n.
OffBefore(n) == /\ n >= 2 => regs[WDOG_RESPONSE] = 0
                /\ \A r \in Rail : n >= r + 3 => EN \notin regs[ConfReg(r)]

DeinitState(c) == /\ OffBefore(c.at)
                  /\ c.step \in {"test", "read", "write"} => c.at <= 10 /\ dev.initialized
                  /\ c.step \in {"learn", "ret"} => c.at = 11

DeinitInv == \A t \in Tasks : LeavingAlone(run[t]) => DeinitState(run[t])

\* One more rail off, and the others as they were.
LEMMA OffNext ==
    ASSUME NEW t \in Tasks, NEW i, i = run[t].at, i <= 10, Sound, run[t].step = "write",
           run[t].op.name = "deinit", Lands(t), OffBefore(i)
    PROVE  OffBefore(i + 1)'
<1> DEFINE x == Now(t)
<1>1. /\ Placed(run[t]) /\ x = Scripts[run[t].op][i] /\ run[t].op \in Made
  BY NowSane DEF Sound, Placed
<1>2. Len(Scripts[run[t].op]) = 11
  BY <1>1, DeinitAt
<1>3. i \in 1 .. 10
  BY <1>1, <1>2 DEF Placed
<1>4. /\ WDOG_RESPONSE \in DOMAIN regs
      /\ \A r \in Rail : /\ ConfReg(r) \in DOMAIN regs /\ ConfReg(r) # WDOG_RESPONSE
                         /\ \A s \in Rail : ConfReg(r) = ConfReg(s) => r = s
  BY RailRegs, OtherRegs DEF Sound, Chip, WDOG_RESPONSE, VoltReg, ConfReg, Rail, Buck
<1>5. /\ x.reg \in DOMAIN regs => regs'[x.reg] = Written(x, run[t].cur)
      /\ \A a \in DOMAIN regs : a # x.reg => regs'[a] = regs[a]
  BY Landed DEF Sound
<1>6. CASE i = 1
  <2>1. x.kind = "put" /\ x.reg = WDOG_RESPONSE /\ x.val = 0
    BY <1>1, <1>6, DeinitAt
  <2>2. regs'[WDOG_RESPONSE] = 0
    BY <1>4, <1>5, <2>1 DEF Written
  <2>3. \A r \in Rail : ~(i + 1 >= r + 3)
    BY <1>6 DEF Rail
  <2> QED BY <2>2, <2>3 DEF OffBefore
<1>7. CASE i # 1
  <2> DEFINE q == i - 2
  <2>1. q \in Rail /\ i = q + 2
    BY <1>3, <1>7 DEF Rail
  <2> HIDE DEF q
  <2>2. x.kind = "clear" /\ x.reg = ConfReg(q) /\ x.val = {EN}
    BY <1>1, <2>1, DeinitAt
  <2>3. EN \notin regs'[ConfReg(q)]
    BY <1>4, <1>5, <2>1, <2>2 DEF Written
  <2>4. regs'[WDOG_RESPONSE] = 0
    <3>1. regs[WDOG_RESPONSE] = 0
      BY <1>3, <1>7 DEF OffBefore
    <3>2. WDOG_RESPONSE # x.reg
      BY <1>4, <2>1, <2>2
    <3> QED BY <1>4, <1>5, <3>1, <3>2
  <2>5. ASSUME NEW r \in Rail, i + 1 >= r + 3 PROVE EN \notin regs'[ConfReg(r)]
    <3>1. CASE r = q
      BY <2>3, <3>1
    <3>2. CASE r # q
      <4>1. i >= r + 3
        BY <2>1, <2>5, <3>2 DEF Rail
      <4>2. EN \notin regs[ConfReg(r)] /\ ConfReg(r) # x.reg
        BY <1>4, <2>1, <2>2, <3>2, <4>1 DEF OffBefore
      <4> QED BY <1>4, <1>5, <4>2
    <3> QED BY <3>1, <3>2
  <2> QED BY <2>4, <2>5 DEF OffBefore
<1> QED BY <1>6, <1>7

\* On to the next transfer of deinit: a call of the API, but for the last.
LEMMA DeinitOn ==
    ASSUME NEW c, c.op \in Made, c.op.name = "deinit", NEW i \in 1 .. 11, c.at = i,
           NEW d, d.op = c.op, On(c, d)
    PROVE  /\ i <= 9 => d.step = "test" /\ d.at = i + 1
           /\ i = 10 => d.step = "learn" /\ d.at = 11
           /\ i = 11 => d.step = "ret" /\ d.at = 11
<1>1. Len(Scripts[c.op]) = 11
  BY DeinitAt
<1>2. CASE i <= 9
  <2> DEFINE q == i - 1
  <2>1. q \in Rail /\ i + 1 = q + 2
    BY <1>2 DEF Rail
  <2> HIDE DEF q
  <2>2. Scripts[c.op][i + 1].call
    BY <2>1, DeinitAt
  <2>3. d.at = i + 1 /\ d.step = FirstStep(Scripts[c.op][i + 1])
    BY <1>1, <1>2 DEF On
  <2> QED BY <1>2, <2>2, <2>3 DEF FirstStep
<1>3. CASE i = 10
  <2>1. d.at = 11 /\ d.step = FirstStep(Scripts[c.op][11])
    BY <1>1, <1>3 DEF On
  <2>2. Scripts[c.op][11].kind = "note" /\ ~Scripts[c.op][11].call
    BY DeinitAt
  <2> QED BY <1>3, <2>1, <2>2 DEF FirstStep, AfterTest, Reads
<1>4. CASE i = 11
  BY <1>1, <1>4 DEF On
<1> QED BY <1>2, <1>3, <1>4

LEMMA DeinitSteps ==
    ASSUME NEW t \in Tasks, Sound, LeavingAlone(run[t]), DeinitState(run[t]), Proceed(t),
           LeavingAlone(run'[t])
    PROVE  DeinitState(run[t])'
<1> DEFINE x == Now(t)
<1> PICK i : i = run[t].at
  OBVIOUS
<1>1. /\ Placed(run[t]) /\ x = Scripts[run[t].op][i] /\ run[t].op \in Made
      /\ run[t].op.name = "deinit" /\ run[t].step # "idle"
  BY NowSane DEF Sound, Placed, LeavingAlone
<1>2. i \in 1 .. 11
  BY <1>1, DeinitAt DEF Placed
<1>3. ~Return(t)
  BY IdleOK DEF Return, Sound, Running, LeavingAlone
<1>4. i <= 10 => x.kind \in {"put", "clear"} /\ x.learn = Nothing
  <2>1. CASE i = 1
    BY <1>1, <2>1, DeinitAt
  <2>2. CASE i \in 2 .. 10
    <3> DEFINE q == i - 2
    <3>1. q \in Rail /\ i = q + 2
      BY <2>2 DEF Rail
    <3> HIDE DEF q
    <3> QED BY <1>1, <3>1, DeinitAt
  <2> QED BY <1>2, <2>1, <2>2
<1>5. i = 11 => x.kind = "note"
  BY <1>1, DeinitAt
<1>6. ASSUME NEW d, Moves(t, d) PROVE run'[t] = d /\ d.op = run[t].op
  BY <1>1, <1>6, MoveKeeps, Proceeds DEF Sound, Moves
<1>6a. ASSUME NEW d, Moves(t, d), On(run[t], d)
       PROVE  /\ i <= 9 => d.step = "test" /\ d.at = i + 1
              /\ i = 10 => d.step = "learn" /\ d.at = 11
              /\ i = 11 => d.step = "ret" /\ d.at = 11
  <2>1. d.op = run[t].op
    BY <1>6, <1>6a
  <2> QED BY <1>1, <1>2, <1>6a, <2>1, DeinitOn
<1>7. CASE Test(t)
  <2>1. /\ run[t].step = "test" /\ regs' = regs /\ dev' = dev
    BY <1>7 DEF Test
  <2>2. i <= 10 /\ dev.initialized
    BY <2>1 DEF DeinitState
  <2>3. x.kind # "refusal"
    BY <1>4, <2>2
  <2>4. PICK d : Moves(t, d) /\ d.step = AfterTest(x) /\ d.at = run[t].at
    BY <1>7, <2>2, <2>3, TestMoves
  <2>5. d.step \in {"read", "write"}
    BY <1>4, <2>2, <2>4 DEF AfterTest, Reads
  <2> QED BY <1>6, <2>1, <2>2, <2>4, <2>5 DEF DeinitState, OffBefore
<1>8. CASE ReadOK(t)
  <2>1. /\ run[t].step = "read" /\ regs' = regs /\ dev' = dev
    BY <1>8 DEF ReadOK
  <2>2. i <= 10 /\ dev.initialized
    BY <2>1 DEF DeinitState
  <2>3. x.kind \notin {"get", "identify", "verify"}
    BY <1>4, <2>2
  <2>4. PICK d : Moves(t, d) /\ d.step = "write" /\ d.at = run[t].at
    BY <1>8, <2>3, ReadMoves
  <2> QED BY <1>6, <2>1, <2>2, <2>4 DEF DeinitState, OffBefore
<1>9. CASE ReadFails(t)
  BY <1>6, <1>9, ReadFailMoves DEF LeavingAlone
<1>10. CASE WriteFails(t)
  BY <1>6, <1>10, WriteFailMoves DEF LeavingAlone
<1>11. CASE WriteOK(t)
  <2>1. /\ run[t].step = "write" /\ Lands(t) /\ dev' = dev
    BY <1>11 DEF WriteOK
  <2>2. i <= 10 /\ dev.initialized /\ OffBefore(i)
    BY <2>1 DEF DeinitState
  <2>3. OffBefore(i + 1)'
    BY <1>1, <2>1, <2>2, OffNext
  <2>4. PICK d : Moves(t, d) /\ On(run[t], d)
    BY <1>4, <1>11, <2>2, WriteMoves
  <2>5. run'[t] = d /\ d.at = i + 1 /\ d.step = IF i = 10 THEN "learn" ELSE "test"
    BY <1>1, <1>2, <1>6, <2>2, <2>4, DeinitOn
  <2>6. /\ d.step \in {"test", "read", "write"} => d.at <= 10
        /\ d.step \in {"learn", "ret"} => d.at = 11
    BY <1>2, <2>2, <2>5
  <2> QED BY <2>1, <2>2, <2>3, <2>5, <2>6 DEF DeinitState, OffBefore
<1>12. CASE Noticed(t)
  <2>1. run[t].step = "learn" /\ regs' = regs
    BY <1>12 DEF Noticed
  <2>2. i = 11
    BY <2>1 DEF DeinitState
  <2>3. PICK d : Moves(t, d) /\ On(run[t], d)
    BY <1>5, <1>12, <2>2, NoticeMoves
  <2>4. run'[t] = d /\ d.op = run[t].op
    BY <1>6, <2>3
  <2>5. d.step = "ret" /\ d.at = 11
    BY <1>6a, <2>2, <2>3
  <2> QED BY <2>1, <2>2, <2>4, <2>5 DEF DeinitState, OffBefore
<1> QED BY <1>3, <1>7, <1>8, <1>9, <1>10, <1>11, <1>12 DEF Proceed

LEMMA DeinitKept == Sound /\ AloneInv /\ DeinitInv /\ [Next]_vars => DeinitInv'
<1> SUFFICES ASSUME Sound, AloneInv, DeinitInv, [Next]_vars PROVE DeinitInv'
  OBVIOUS
<1>1. CASE UNCHANGED vars
  BY <1>1 DEF vars, DeinitInv, DeinitState, OffBefore, LeavingAlone
<1>2. ASSUME NEW t \in Tasks, NEW op \in duty[t], Enter(t, op),
             NEW u \in Tasks, LeavingAlone(run'[u])
      PROVE  DeinitState(run[u])'
  <2>1. u = t
    BY <1>2, EnterSound DEF LeavingAlone
  <2>2. /\ run'[t].op = op /\ run'[t].at = 1 /\ run'[t].step = FirstStep(Scripts[op][1])
        /\ run'[t].ready = dev.initialized /\ dev' = dev /\ Sound'
    BY <1>2, EnterSound DEF Enter
  <2>3. run'[t].step # "idle" /\ op.name = "deinit" /\ dev.initialized
    BY <1>2, <2>1, <2>2 DEF LeavingAlone
  <2>4. op \in Made
    BY <2>2, <2>3 DEF Sound, Running, CallOK, Placed
  <2>5. run'[t].step = "test"
    BY <2>2, <2>3, <2>4, DeinitAt DEF FirstStep
  <2>6. OffBefore(1)'
    BY DEF OffBefore, Rail
  <2> QED BY <2>1, <2>2, <2>3, <2>5, <2>6 DEF DeinitState, OffBefore
<1>3. ASSUME NEW t \in Tasks, Proceed(t), NEW u \in Tasks, LeavingAlone(run'[u])
      PROVE  DeinitState(run[u])'
  <2>1. /\ run[t].step # "idle" /\ \A v \in Tasks \ {t} : run'[v] = run[v]
        /\ run'[t] = Idle \/ /\ run'[t].op = run[t].op /\ run'[t].alone = run[t].alone
                             /\ run'[t].ready = run[t].ready
    BY <1>3, Proceeds
  <2>2. u = t
    BY <1>3, <2>1 DEF AloneInv, AllIdle, LeavingAlone
  <2>3. run'[t] # Idle
    BY <1>3, <2>2, IdleOK DEF LeavingAlone
  <2>4. ~run[t].failed
    <3>1. ASSUME NEW d, Moves(t, d) PROVE run'[t] = d
      BY <2>1, <3>1, MoveKeeps, Proceeds, <1>3 DEF Sound
    <3>2. ~run'[t].failed
      BY <1>3, <2>2 DEF LeavingAlone
    <3>3. CASE Return(t)
      BY <2>3, <3>3 DEF Return, Sound, Running
    <3>4. CASE ~Return(t)
      BY <1>3, <3>1, <3>2, <3>4, TestMoves, ReadMoves, ReadFailMoves, WriteMoves,
         WriteFailMoves, NoticeMoves DEF Proceed
    <3> QED BY <3>3, <3>4
  <2>5. LeavingAlone(run[t])
    BY <1>3, <2>1, <2>2, <2>3, <2>4 DEF LeavingAlone
  <2>6. DeinitState(run[t])'
    BY <1>3, <2>2, <2>5, DeinitSteps DEF DeinitInv
  <2> QED BY <2>2, <2>6
<1>4. ASSUME NEW t \in Tasks, Proceed(t) \/ \E op \in duty[t] : Enter(t, op)
      PROVE  DeinitInv'
  BY <1>2, <1>3, <1>4 DEF DeinitInv
<1> QED BY <1>1, <1>4 DEF Next

\* deinit, begun by a driver that knows its chip while no other task is in a call, and with
\* every transfer acknowledged, leaves the rails off and the watchdog disabled.
THEOREM DeinitTurnsOff == Spec => []OffAfterDeinit
<1>1. Init => DeinitInv
  BY IdleOK DEF Init, DeinitInv, LeavingAlone
<1>2. DeinitInv => OffAfterDeinit
  <2> SUFFICES ASSUME DeinitInv, NEW t \in Tasks, run[t].op.name = "deinit",
                      run[t].step = "ret", run[t].ready, run[t].alone, ~run[t].failed
               PROVE  /\ \A r \in Rail : EN \notin regs[ConfReg(r)]
                      /\ regs[WDOG_RESPONSE] = 0
    BY DEF OffAfterDeinit
  <2>1. run[t].at = 11 /\ OffBefore(run[t].at)
    BY DEF DeinitInv, DeinitState, LeavingAlone
  <2> QED BY <2>1 DEF OffBefore, Rail
<1> QED BY <1>1, <1>2, DeinitKept, SoundAlways, AloneAlways, PTL DEF Spec

-----------------------------------------------------------------------------
(* The invariant behind set_config. *)

\* A transfer of set_config that must succeed, out of range or a write of val to a.
Must(x, a, val) == /\ x.must /\ DOMAIN x = Fields
                   /\ x.kind = "refusal" => x.call
                   /\ x.kind # "refusal" => x.kind = "put" /\ x.reg = a /\ x.val = val

\* Transfer number i of set_config.
ConfigPlace(cfg, i, x) ==
    \/ \E r \in Rail : /\ i = 2 * r + 1 /\ Must(x, VoltReg(r), Code(r, cfg.mv[r]))
                       /\ x.kind = "put"
                          => x.learn = [what |-> "mv", rail |-> r, mv |-> cfg.mv[r]]
    \/ \E r \in Rail : /\ i = 2 * r + 2 /\ Must(x, ConfReg(r), ConfBits(cfg, r))
                       /\ x.learn = Nothing
    \/ i = 19 /\ Must(x, SLEEP_CONF, SleepBits(cfg.sleep)) /\ x.learn = Nothing
    \/ i = 20 /\ Must(x, WAKE_CONF, cfg.sleep.wake) /\ x.learn = Nothing
    \/ i >= 21 /\ Guard(x)

LEMMA MustPut ==
    \A a, v : /\ Must(Put(a, v), a, v) /\ Put(a, v).learn = Nothing
              /\ Must(Call(Put(a, v)), a, v) /\ Call(Put(a, v)).learn = Nothing
<1> SUFFICES ASSUME NEW a, NEW v
             PROVE  /\ Must(Put(a, v), a, v) /\ Put(a, v).learn = Nothing
                    /\ Must(Call(Put(a, v)), a, v) /\ Call(Put(a, v)).learn = Nothing
  OBVIOUS
<1> DEFINE x == Put(a, v)
<1>1. /\ DOMAIN x = Fields /\ x.kind = "put" /\ x.reg = a /\ x.val = v
      /\ x.learn = Nothing /\ x.must
  BY TransferFields DEF Put
<1> HIDE DEF x
<1>2. Alike(Call(x), x) /\ Call(x).must /\ DOMAIN Call(x) = Fields
  BY <1>1, CallFields DEF Alike
<1>3. Must(x, a, v) /\ Must(Call(x), a, v) /\ Call(x).learn = Nothing
  BY <1>1, <1>2 DEF Must, Alike
<1> QED BY <1>1, <1>3 DEF x

LEMMA MustVolt ==
    ASSUME NEW r, NEW mv
    PROVE  LET x == SetVoltage(r, mv)[1]
           IN  /\ Must(x, VoltReg(r), Code(r, mv))
               /\ x.kind = "put" => x.learn = [what |-> "mv", rail |-> r, mv |-> mv]
<1> DEFINE x == SetVoltage(r, mv)[1]
           what == [what |-> "mv", rail |-> r, mv |-> mv]
<1>1. CASE mv \in MinMv(r) .. MaxMv(r)
  <2> DEFINE y == Put(VoltReg(r), Code(r, mv))
  <2>1. x = Call(Learn(y, what))
    BY <1>1 DEF SetVoltage
  <2>2. /\ DOMAIN y = Fields /\ y.kind = "put" /\ y.reg = VoltReg(r) /\ y.val = Code(r, mv)
        /\ y.must
    BY TransferFields DEF Put
  <2> HIDE DEF y, x, what
  <2> DEFINE z == Learn(y, what)
  <2>3. /\ DOMAIN z = Fields /\ z.kind = "put" /\ z.reg = VoltReg(r) /\ z.val = Code(r, mv)
        /\ z.must /\ z.learn = what
    BY <2>2, LearnFields
  <2> HIDE DEF z
  <2>4. Alike(Call(z), z) /\ Call(z).must /\ DOMAIN Call(z) = Fields
    BY <2>3, CallFields DEF Alike
  <2>5. Must(x, VoltReg(r), Code(r, mv)) /\ x.learn = what
    BY <2>1, <2>3, <2>4 DEF Must, Alike, z
  <2> QED BY <2>5 DEF x, what
<1>2. CASE mv \notin MinMv(r) .. MaxMv(r)
  <2>1. x = Call(Refusal)
    BY <1>2 DEF SetVoltage
  <2>2. DOMAIN Refusal = Fields /\ Refusal.kind = "refusal" /\ Refusal.must
    BY TransferFields DEF Refusal
  <2>3. Alike(x, Refusal) /\ x.call /\ x.must
    BY <2>1, <2>2, CallFields
  <2> HIDE DEF x
  <2>4. Must(x, VoltReg(r), Code(r, mv)) /\ x.kind # "put"
    BY <2>2, <2>3 DEF Must, Alike
  <2> QED BY <2>4 DEF x
<1> QED BY <1>1, <1>2

LEMMA PlaceMust ==
    ASSUME NEW cfg, NEW i, i \in Nat, i <= 20, NEW x, ConfigPlace(cfg, i, x)
    PROVE  x.must /\ (x.kind = "put" \/ (x.kind = "refusal" /\ x.call))
<1>1. ~(i >= 21)
  OBVIOUS
<1>2. \E a, v : Must(x, a, v)
  BY <1>1, Zenon DEF ConfigPlace
<1>3. PICK a, v : Must(x, a, v)
  BY <1>2
<1>4. x.must
  BY <1>3, Zenon DEF Must
<1>5. x.kind = "put" \/ (x.kind = "refusal" /\ x.call)
  BY <1>3, Zenon DEF Must
<1> QED BY <1>4, <1>5

LEMMA ConfigAt ==
    ASSUME NEW op \in Made, op.name = "set_config"
    PROVE  /\ op.arg \in Config /\ Len(Scripts[op]) \in {21, 22}
           /\ \A i \in 1 .. Len(Scripts[op]) : ConfigPlace(op.arg, i, Scripts[op][i])
<1> DEFINE cfg == op.arg
<1>1. op.arg \in Config
  BY ApplicationsOK DEF Ops
<1>2. Scripts[op] = SetConfig(cfg)
  <2>1. Scripts[op] = Script(op)
    BY DEF Scripts
  <2>2. Script(op) = SetConfig(op.arg)
    BY DEF Script
  <2> QED BY <2>1, <2>2
<1> HIDE DEF cfg
<1> DEFINE s == SetConfig(cfg)
<1>3. /\ Len(s) \in {21, 22}
      /\ \A r \in Rail : /\ s[2 * r + 1] = SetVoltage(r, cfg.mv[r])[1]
                         /\ s[2 * r + 2] = Put(ConfReg(r), ConfBits(cfg, r))
      /\ s[19] = Call(Put(SLEEP_CONF, SleepBits(cfg.sleep)))
      /\ s[20] = Put(WAKE_CONF, cfg.sleep.wake)
      /\ \A i \in 21 .. Len(s) : Guard(s[i])
  BY <1>1, SetConfigScript DEF cfg
<1> HIDE DEF s
<1>4. ASSUME NEW i \in 1 .. Len(s) PROVE ConfigPlace(cfg, i, s[i])
  <2>1. CASE i <= 18
    <3>0. i \in 1 .. 18
      BY <1>3, <2>1
    <3>1. (i - 1) \div 2 \in Rail
      BY <3>0 DEF Rail
    <3>2. PICK r \in Rail : i = 2 * r + 1 \/ i = 2 * r + 2
      <4> DEFINE q == (i - 1) \div 2
      <4>1. i = 2 * q + 1 \/ i = 2 * q + 2
        BY <1>3
      <4> QED BY <3>1, <4>1
    <3>3. CASE i = 2 * r + 1
      <4>1. s[i] = SetVoltage(r, cfg.mv[r])[1]
        BY <1>3, <3>2, <3>3
      <4>2. /\ Must(s[i], VoltReg(r), Code(r, cfg.mv[r]))
            /\ s[i].kind = "put" => s[i].learn = [what |-> "mv", rail |-> r, mv |-> cfg.mv[r]]
        BY <4>1, MustVolt
      <4> QED BY <3>2, <3>3, <4>2 DEF ConfigPlace
    <3>4. CASE i = 2 * r + 2
      <4>1. s[i] = Put(ConfReg(r), ConfBits(cfg, r))
        BY <1>3, <3>2, <3>4
      <4>2. Must(s[i], ConfReg(r), ConfBits(cfg, r)) /\ s[i].learn = Nothing
        BY <4>1, MustPut
      <4> QED BY <3>2, <3>4, <4>2 DEF ConfigPlace
    <3> QED BY <3>2, <3>3, <3>4
  <2>2. CASE i = 19
    BY <1>3, <2>2, MustPut DEF ConfigPlace
  <2>3. CASE i = 20
    BY <1>3, <2>3, MustPut DEF ConfigPlace
  <2>4. CASE i >= 21
    BY <1>3, <2>4 DEF ConfigPlace
  <2> QED BY <1>3, <2>1, <2>2, <2>3, <2>4
<1> QED BY <1>1, <1>2, <1>3, <1>4 DEF s, cfg

\* What set_config has done before its transfer number n.
ConfigDone(cfg, n) ==
    /\ \A r \in Rail : /\ n >= 2 * r + 2 => /\ dev.mv[r] = cfg.mv[r]
                                            /\ regs[VoltReg(r)] = Code(r, cfg.mv[r])
                       /\ n >= 2 * r + 3 => regs[ConfReg(r)] = ConfBits(cfg, r)
    /\ n >= 20 => regs[SLEEP_CONF] = SleepBits(cfg.sleep)
    /\ n >= 21 => regs[WAKE_CONF] = cfg.sleep.wake

\* The registers of set_config are all different.
LEMMA Apart ==
    /\ \A r \in Rail : /\ VoltReg(r) \notin {0, WDOG_RESPONSE, ESM_CONF, SLEEP_CONF, WAKE_CONF}
                       /\ ConfReg(r) \notin {0, WDOG_RESPONSE, ESM_CONF, SLEEP_CONF, WAKE_CONF}
                       /\ \A s \in Rail : /\ VoltReg(r) = VoltReg(s) => r = s
                                          /\ ConfReg(r) = ConfReg(s) => r = s
                                          /\ VoltReg(r) # ConfReg(s)
                       /\ VoltReg(r) \in NumberRegs /\ ConfReg(r) \in BitRegs
    /\ WAKE_CONF \notin {0, WDOG_RESPONSE, ESM_CONF, SLEEP_CONF} /\ WAKE_CONF \in BitRegs
    /\ SLEEP_CONF \notin {0, WDOG_RESPONSE, ESM_CONF} /\ SLEEP_CONF \in BitRegs
<1>1. \A r \in Rail : /\ VoltReg(r) \in 16 .. 52 /\ ConfReg(r) = VoltReg(r) + 1
                      /\ VoltReg(r) \in NumberRegs /\ ConfReg(r) \in BitRegs
  BY RailRegs
<1>2. \A r \in Rail : /\ VoltReg(r) \notin {0, 97, 112, 160, 161}
                      /\ ConfReg(r) \notin {0, 97, 112, 160, 161}
  BY <1>1
<1>3. \A r, s \in Rail : /\ VoltReg(r) = VoltReg(s) => r = s
                         /\ VoltReg(r) # ConfReg(s)
  BY RailRegs
<1>4. \A r, s \in Rail : ConfReg(r) = ConfReg(s) => r = s
  BY <1>1, <1>3
<1>5. WAKE_CONF \notin {0, WDOG_RESPONSE, ESM_CONF, SLEEP_CONF} /\ WAKE_CONF \in BitRegs
  BY OtherRegs DEF WAKE_CONF, WDOG_RESPONSE, ESM_CONF, SLEEP_CONF
<1>6. SLEEP_CONF \notin {0, WDOG_RESPONSE, ESM_CONF} /\ SLEEP_CONF \in BitRegs
  BY OtherRegs DEF WDOG_RESPONSE, ESM_CONF, SLEEP_CONF
<1> QED BY <1>1, <1>2, <1>3, <1>4, <1>5, <1>6 DEF WDOG_RESPONSE, ESM_CONF, SLEEP_CONF, WAKE_CONF

\* Transfer number i disturbs nothing that was done before.
LEMMA DoneStays ==
    ASSUME NEW t \in Tasks, Sound, run[t].step = "write", Lands(t), dev' = dev,
           NEW cfg, NEW i \in Nat, ConfigPlace(cfg, i, Now(t)), ConfigDone(cfg, i),
           i <= 20 => Now(t).kind = "put"
    PROVE  ConfigDone(cfg, i)'
<1> DEFINE a == Now(t).reg
<1>1. \A b \in NumberRegs \cup BitRegs : b # a => regs'[b] = regs[b]
  BY Landed DEF Sound, Chip
<1>2. ASSUME NEW r \in Rail, i >= 2 * r + 2 PROVE VoltReg(r) # a
  <2>1. CASE i <= 20
    BY <1>2, <2>1, Apart DEF ConfigPlace, Must, Rail
  <2>2. CASE i > 20
    BY <1>2, <2>2, Apart DEF ConfigPlace, Must, Guard, Rail
  <2> QED BY <2>1, <2>2
<1>3. ASSUME NEW r \in Rail, i >= 2 * r + 3 PROVE ConfReg(r) # a
  <2>1. CASE i <= 20
    BY <1>3, <2>1, Apart DEF ConfigPlace, Must, Rail
  <2>2. CASE i > 20
    BY <1>3, <2>2, Apart DEF ConfigPlace, Must, Guard, Rail
  <2> QED BY <2>1, <2>2
<1>4. i >= 21 => WAKE_CONF # a
  BY Apart DEF ConfigPlace, Must, Guard, Rail
<1>5. i >= 20 => SLEEP_CONF # a
  BY Apart DEF ConfigPlace, Must, Guard, Rail
<1> QED BY <1>1, <1>2, <1>3, <1>4, <1>5, Apart DEF ConfigDone

\* A write that needs no noting completes transfer number i, and that of a voltage has
\* the value in the register.
LEMMA DoneNext ==
    ASSUME NEW t \in Tasks, Sound, run[t].step = "write", Lands(t), dev' = dev,
           NEW cfg, NEW i \in 1 .. 20, ConfigPlace(cfg, i, Now(t)), ConfigDone(cfg, i),
           Now(t).kind = "put"
    PROVE  /\ Now(t).learn = Nothing => ConfigDone(cfg, i + 1)'
           /\ \A r \in Rail : i = 2 * r + 1 => regs'[VoltReg(r)] = Code(r, cfg.mv[r])
<1> DEFINE x == Now(t)
<1>1. ConfigDone(cfg, i)'
  BY DoneStays
<1>2. x.reg \in NumberRegs \cup BitRegs => regs'[x.reg] = x.val
  BY Landed DEF Sound, Chip, Written
<1>3. ASSUME NEW r \in Rail, i = 2 * r + 1
      PROVE  /\ regs'[VoltReg(r)] = Code(r, cfg.mv[r])
             /\ x.learn = [what |-> "mv", rail |-> r, mv |-> cfg.mv[r]]
  <2>1. x.reg = VoltReg(r) /\ x.val = Code(r, cfg.mv[r])
        /\ x.learn = [what |-> "mv", rail |-> r, mv |-> cfg.mv[r]]
    BY <1>3 DEF ConfigPlace, Must, Rail
  <2> QED BY <1>2, <2>1, Apart
<1>4. ASSUME x.learn = Nothing PROVE ConfigDone(cfg, i + 1)'
  <2>1. ASSUME NEW r \in Rail PROVE i # 2 * r + 1
    <3>1. x.learn.what = "nothing"
      BY <1>4 DEF Nothing
    <3>2. ASSUME i = 2 * r + 1 PROVE x.learn.what = "mv"
      <4>1. x.learn = [what |-> "mv", rail |-> r, mv |-> cfg.mv[r]]
        BY <1>3, <3>2
      <4> QED BY <4>1
    <3> QED BY <3>1, <3>2
  <2>2. ASSUME NEW r \in Rail, i = 2 * r + 2 PROVE regs'[ConfReg(r)] = ConfBits(cfg, r)
    <3>1. x.reg = ConfReg(r) /\ x.val = ConfBits(cfg, r)
      BY <2>2 DEF ConfigPlace, Must, Rail
    <3> QED BY <1>2, <3>1, Apart
  <2>3. i = 20 => regs'[WAKE_CONF] = cfg.sleep.wake
    <3>1. i = 20 => x.reg = WAKE_CONF /\ x.val = cfg.sleep.wake
      BY DEF ConfigPlace, Must, Rail
    <3> QED BY <1>2, <3>1, Apart
  <2>4. ASSUME NEW r \in Rail
        PROVE  /\ i + 1 >= 2 * r + 2 => i >= 2 * r + 2
               /\ i + 1 >= 2 * r + 3 => i >= 2 * r + 3 \/ i = 2 * r + 2
    BY <2>1 DEF Rail
  <2>5. i = 19 => regs'[SLEEP_CONF] = SleepBits(cfg.sleep)
    <3>1. i = 19 => x.reg = SLEEP_CONF /\ x.val = SleepBits(cfg.sleep)
      BY DEF ConfigPlace, Must, Rail
    <3> QED BY <1>2, <3>1, Apart
  <2> QED BY <1>1, <2>2, <2>3, <2>4, <2>5 DEF ConfigDone
<1> QED BY <1>3, <1>4

\* Noting a voltage completes its transfer.
LEMMA DoneNoted ==
    ASSUME NEW t \in Tasks, Sound, NEW cfg, NEW r \in Rail, NEW i, i = 2 * r + 1,
           Now(t).learn = [what |-> "mv", rail |-> r, mv |-> cfg.mv[r]], Noticed(t),
           ConfigDone(cfg, i), regs[VoltReg(r)] = Code(r, cfg.mv[r])
    PROVE  ConfigDone(cfg, i + 1)'
<1>1. regs' = regs /\ dev' = Noted(Now(t), run[t].cur)
  BY DEF Noticed
<1>2. Noted(Now(t), run[t].cur) = [dev EXCEPT !.mv[r] = cfg.mv[r]]
  BY DEF Noted
<1>3. dev'.mv[r] = cfg.mv[r] /\ \A q \in Rail \ {r} : dev'.mv[q] = dev.mv[q]
  BY <1>1, <1>2 DEF Sound, Record, DevNames
<1>4. ASSUME NEW q \in Rail
      PROVE  /\ i + 1 >= 2 * q + 2 => i >= 2 * q + 2 \/ q = r
             /\ i + 1 >= 2 * q + 3 => i >= 2 * q + 3
             /\ i >= 2 * q + 2 => q # r
  BY DEF Rail
<1>5. i + 1 < 20
  BY DEF Rail
<1> QED BY <1>1, <1>3, <1>4, <1>5 DEF ConfigDone

SettingAlone(c) == /\ c.op.name = "set_config" /\ c.step # "idle"
                   /\ c.alone /\ ~GivenUp(c)

SettingState(c) ==
    /\ ConfigDone(c.op.arg, c.at)
    /\ c.step \in {"read", "ret"} => c.at >= 21
    /\ c.at <= 20 => /\ c.step \in {"write", "learn"} => At(c).kind = "put"
                     /\ c.step = "learn"
                        => \E r \in Rail : /\ c.at = 2 * r + 1
                                           /\ regs[VoltReg(r)] = Code(r, c.op.arg.mv[r])

ConfigInv == \A t \in Tasks : SettingAlone(run[t]) => SettingState(run[t])

\* On to the next transfer of set_config: never straight to a read or to noting.
LEMMA ConfigOn ==
    ASSUME NEW c, c.op \in Made, c.op.name = "set_config", NEW i \in 1 .. 22, c.at = i,
           NEW d, d.op = c.op, On(c, d)
    PROVE  /\ i <= 20 => /\ d.at = i + 1 /\ d.step # "ret"
                         /\ i <= 19 => /\ d.step \in {"test", "write"}
                                       /\ d.step = "write" => At(d).kind = "put"
           /\ i >= 21 => d.at \in {i, i + 1}
<1> DEFINE n == Len(Scripts[c.op])
           y == Scripts[c.op][i + 1]
<1>1. n \in {21, 22} /\ \A j \in 1 .. n : ConfigPlace(c.op.arg, j, Scripts[c.op][j])
  BY ConfigAt
<1>2. i <= 20 => d.at = i + 1 /\ d.step # "ret" /\ d.step = FirstStep(y)
  <2>1. n \in {21, 22}
    BY <1>1
  <2>2. i <= 20 => c.at # n
    <3> HIDE DEF n
    <3> QED BY <2>1
  <2> QED BY <2>2 DEF On
<1>3. i >= 21 => d.at \in {i, i + 1}
  BY <1>1 DEF On
<1>4. ASSUME i <= 19
      PROVE  d.step \in {"test", "write"} /\ (d.step = "write" => At(d).kind = "put")
  <2>0. i + 1 \in 1 .. n /\ i + 1 \in Nat /\ i + 1 <= 20
    <3>1. n \in {21, 22}
      BY <1>1
    <3> HIDE DEF n
    <3> QED BY <1>4, <3>1
  <2>1. ConfigPlace(c.op.arg, i + 1, y)
    BY <1>1, <2>0
  <2>2. y.kind = "put" \/ (y.kind = "refusal" /\ y.call)
    BY <2>0, <2>1, PlaceMust
  <2>3. At(d) = y /\ d.step = FirstStep(y)
    BY <1>2, <1>4 DEF At
  <2>4. FirstStep(y) = "test" \/ (FirstStep(y) = "write" /\ y.kind = "put")
    <3> HIDE DEF y
    <3>1. CASE y.call
      BY <3>1 DEF FirstStep
    <3>2. CASE ~y.call
      <4>1. y.kind = "put"
        BY <2>2, <3>2
      <4>2. AfterTest(y) = "write"
        BY <4>1 DEF AfterTest, Reads
      <4> QED BY <3>2, <4>1, <4>2 DEF FirstStep
    <3> QED BY <3>1, <3>2
  <2> QED BY <2>3, <2>4
<1> QED BY <1>2, <1>3, <1>4

LEMMA ConfigSteps ==
    ASSUME NEW t \in Tasks, Sound, SettingAlone(run[t]), SettingState(run[t]), Proceed(t),
           SettingAlone(run'[t])
    PROVE  SettingState(run[t])'
<1> DEFINE x == Now(t)
<1>0. PICK i, cfg : i = run[t].at /\ cfg = run[t].op.arg
  OBVIOUS
<1>1. /\ Placed(run[t]) /\ x = Scripts[run[t].op][i] /\ run[t].op \in Made
      /\ run[t].op.name = "set_config" /\ run[t].step # "idle" /\ At(run[t]) = x
  BY <1>0, NowSane DEF Sound, Placed, SettingAlone, At
<1>2. i \in 1 .. 22 /\ ConfigPlace(cfg, i, x)
  <2> DEFINE n == Len(Scripts[run[t].op])
  <2>1. n \in {21, 22} /\ \A j \in 1 .. n : ConfigPlace(cfg, j, Scripts[run[t].op][j])
    BY <1>0, <1>1, ConfigAt
  <2>2. i \in 1 .. n
    BY <1>0, <1>1 DEF Placed
  <2> HIDE DEF n
  <2> QED BY <1>1, <2>1, <2>2
<1>3. /\ ConfigDone(cfg, i)
      /\ run[t].step \in {"read", "ret"} => i >= 21
      /\ i <= 20 /\ run[t].step \in {"write", "learn"} => x.kind = "put"
      /\ i <= 20 /\ run[t].step = "learn"
         => \E r \in Rail : i = 2 * r + 1 /\ regs[VoltReg(r)] = Code(r, cfg.mv[r])
  BY <1>0, <1>1 DEF SettingState
<1>4. i <= 20 => x.must /\ x.kind \in {"put", "refusal"}
  BY <1>2, PlaceMust
<1>5. ASSUME NEW d, Moves(t, d)
      PROVE  /\ run'[t] = d /\ d.op = run[t].op /\ ~GivenUp(d)
             /\ On(run[t], d)
                => /\ i <= 20 => /\ d.at = i + 1 /\ d.step # "ret"
                                 /\ i <= 19 => /\ d.step \in {"test", "write"}
                                               /\ d.step = "write" => At(d).kind = "put"
                   /\ i >= 21 => d.at \in {i, i + 1}
  <2>1. run'[t] = d /\ d.op = run[t].op
    BY <1>1, <1>5, MoveKeeps, Proceeds DEF Sound, Moves
  <2>2. ~GivenUp(d)
    BY <2>1 DEF SettingAlone
  <2>3. ASSUME On(run[t], d)
        PROVE  /\ i <= 20 => /\ d.at = i + 1 /\ d.step # "ret"
                             /\ i <= 19 => /\ d.step \in {"test", "write"}
                                           /\ d.step = "write" => At(d).kind = "put"
               /\ i >= 21 => d.at \in {i, i + 1}
    BY <1>0, <1>1, <1>2, <2>1, <2>3, ConfigOn
  <2> QED BY <2>1, <2>2, <2>3
\* Past the sleep behaviour there is nothing left to do.
<1>6. ASSUME i >= 21, ConfigDone(cfg, i)', NEW d, Moves(t, d), d.at \in {i, i + 1}
      PROVE  SettingState(run[t])'
  <2>1. run'[t] = d /\ d.op.arg = cfg
    BY <1>0, <1>5, <1>6
  <2>2. ConfigDone(cfg, d.at)' /\ d.at >= 21
    BY <1>2, <1>6 DEF ConfigDone, Rail
  <2> QED BY <2>1, <2>2, <1>2, <1>6 DEF SettingState, ConfigDone
\* Before that, the next transfer is reached when this one is done.
<1>7. ASSUME i <= 20, ConfigDone(cfg, i + 1)', NEW d, Moves(t, d), On(run[t], d)
      PROVE  SettingState(run[t])'
  <2>1. run'[t] = d /\ d.op.arg = cfg /\ d.at = i + 1 /\ d.step # "ret"
        /\ (i <= 19 => d.step \in {"test", "write"} /\ (d.step = "write" => At(d).kind = "put"))
    BY <1>0, <1>5, <1>7
  <2>2. d.step = "read" => i + 1 >= 21
    BY <1>2, <2>1, <1>7
  <2>3. d.at <= 20 => i <= 19
    BY <1>2, <2>1
  <2>4. run'[t].at = i + 1 /\ run'[t].op.arg = cfg /\ ConfigDone(cfg, run[t].at)'
    BY <2>1, <1>7 DEF ConfigDone
  <2>5. d.step \notin {"learn", "ret"} \/ d.at >= 21
    BY <2>1, <1>2
  <2>6. At(run[t])' = At(d)
    BY <2>1 DEF At, Scripts
  <2>7. /\ run'[t].step \in {"read", "ret"} => run'[t].at >= 21
        /\ run'[t].at <= 20 => /\ run'[t].step \in {"write", "learn"} => At(d).kind = "put"
                               /\ run'[t].step # "learn"
    BY <1>2, <2>1, <2>2, <2>3, <2>5
  <2> QED BY <2>4, <2>6, <2>7 DEF SettingState
<1>8. CASE Test(t)
  <2>1. run[t].step = "test" /\ ConfigDone(cfg, i)'
    BY <1>3, <1>8 DEF Test, ConfigDone
  <2>2. PICK d : /\ Moves(t, d)
                 /\ \/ GivenUp(d)
                    \/ On(run[t], d) /\ (~x.must \/ x.kind = "verify")
                    \/ d.step = AfterTest(x) /\ d.at = run[t].at /\ x.kind # "refusal"
    BY <1>8, TestMoves
  <2>3. CASE i >= 21
    <3>1. d.at \in {i, i + 1}
      BY <1>0, <1>5, <2>2, <2>3
    <3> QED BY <1>6, <2>1, <2>2, <2>3, <3>1
  <2>4. CASE i <= 20
    <3>1. x.kind = "put" /\ d.step = AfterTest(x) /\ d.at = i
      BY <1>0, <1>4, <1>5, <2>2, <2>4
    <3>2. d.step = "write"
      BY <3>1 DEF AfterTest, Reads
    <3>3. run'[t] = d /\ d.op = run[t].op
      BY <1>5, <2>2
    <3>4. run'[t].at = i /\ run'[t].op.arg = cfg /\ run'[t].step = "write"
      BY <1>0, <3>1, <3>2, <3>3
    <3>5. At(run[t])' = x
      BY <1>1, <3>3, <3>4 DEF At, Scripts
    <3> QED BY <2>1, <3>1, <3>4, <3>5 DEF SettingState, ConfigDone
  <2> QED BY <1>2, <2>3, <2>4
<1>9. CASE ReadOK(t)
  <2>1. run[t].step = "read" /\ ConfigDone(cfg, i)' /\ i >= 21
    BY <1>3, <1>9 DEF ReadOK, ConfigDone
  <2>2. PICK d : Moves(t, d) /\ (d.at = run[t].at \/ On(run[t], d))
    BY <1>9, ReadMoves
  <2>3. d.at \in {i, i + 1}
    BY <1>0, <1>5, <2>1, <2>2
  <2> QED BY <1>6, <2>1, <2>2, <2>3
<1>10. CASE ReadFails(t)
  <2>1. run[t].step = "read" /\ ConfigDone(cfg, i)' /\ i >= 21
    BY <1>3, <1>10 DEF ReadFails, ConfigDone
  <2>2. PICK d : Moves(t, d) /\ (GivenUp(d) \/ On(run[t], d))
    BY <1>10, ReadFailMoves
  <2>3. d.at \in {i, i + 1}
    BY <1>5, <2>1, <2>2
  <2> QED BY <1>6, <2>1, <2>2, <2>3
<1>11. CASE WriteOK(t)
  <2>1. run[t].step = "write" /\ Lands(t) /\ dev' = dev
    BY <1>11 DEF WriteOK
  <2>2. ConfigDone(cfg, i)'
    BY <1>2, <1>3, <2>1, DoneStays
  <2>3. PICK d : /\ Moves(t, d)
                 /\ \/ d.step = "learn" /\ d.at = run[t].at /\ x.learn # Nothing
                    \/ On(run[t], d) /\ x.learn = Nothing
    BY <1>11, WriteMoves
  <2>4. CASE i >= 21
    <3>1. d.at \in {i, i + 1}
      BY <1>0, <1>5, <2>3, <2>4
    <3> QED BY <1>6, <2>2, <2>3, <2>4, <3>1
  <2>5. CASE i <= 20
    <3>1. x.kind = "put" /\ i \in 1 .. 20
      BY <1>2, <1>3, <2>1, <2>5
    <3>2. /\ x.learn = Nothing => ConfigDone(cfg, i + 1)'
          /\ \A r \in Rail : i = 2 * r + 1 => regs'[VoltReg(r)] = Code(r, cfg.mv[r])
      BY <1>2, <1>3, <2>1, <3>1, DoneNext
    <3>3. CASE x.learn = Nothing
      BY <1>7, <2>3, <2>5, <3>2, <3>3
    <3>4. CASE x.learn # Nothing
      <4>1. d.step = "learn" /\ d.at = i /\ run'[t] = d /\ d.op = run[t].op
        BY <1>0, <1>5, <2>3, <3>4
      <4>2. PICK r \in Rail : i = 2 * r + 1
        <5>1. ~(i >= 21)
          BY <3>1
        <5> QED BY <1>2, <3>4, <5>1, Zenon DEF ConfigPlace
      <4>3. regs'[VoltReg(r)] = Code(r, cfg.mv[r])
        BY <3>2, <4>2
      <4>4. run'[t].at = i /\ run'[t].op.arg = cfg /\ run'[t].step = "learn"
        BY <1>0, <4>1
      <4>5. At(run[t])' = x
        BY <1>1, <4>1, <4>4 DEF At, Scripts
      <4>6. \E q \in Rail : i = 2 * q + 1 /\ regs'[VoltReg(q)] = Code(q, cfg.mv[q])
        BY <4>2, <4>3
      <4> QED BY <2>2, <3>1, <4>4, <4>5, <4>6 DEF SettingState, ConfigDone
    <3> QED BY <3>3, <3>4
  <2> QED BY <1>2, <2>4, <2>5
<1>12. CASE WriteFails(t)
  <2>1. /\ run[t].step = "write" /\ dev' = dev
        /\ Lands(t) \/ regs' = regs
    BY <1>12 DEF WriteFails
  <2>2. ConfigDone(cfg, i)'
    <3>1. CASE Lands(t)
      BY <1>2, <1>3, <2>1, <3>1, DoneStays
    <3>2. CASE regs' = regs
      BY <1>3, <2>1, <3>2 DEF ConfigDone
    <3> QED BY <2>1, <3>1, <3>2
  <2>3. PICK d : /\ Moves(t, d)
                 /\ \/ d.step = "write" /\ d.at = run[t].at
                    \/ GivenUp(d)
                    \/ On(run[t], d) /\ ~x.must
    BY <1>12, WriteFailMoves
  <2>4. CASE i >= 21
    <3>1. d.at \in {i, i + 1}
      BY <1>0, <1>5, <2>3, <2>4
    <3> QED BY <1>6, <2>2, <2>3, <2>4, <3>1
  <2>5. CASE i <= 20
    <3>1. x.kind = "put"
      BY <1>3, <2>1, <2>5
    <3>2. d.step = "write" /\ d.at = i /\ run'[t] = d /\ d.op = run[t].op
      BY <1>0, <1>4, <1>5, <2>3, <2>5
    <3>3. run'[t].at = i /\ run'[t].op.arg = cfg /\ run'[t].step = "write"
      BY <1>0, <3>2
    <3>4. At(run[t])' = x
      BY <1>1, <3>2, <3>3 DEF At, Scripts
    <3> QED BY <2>2, <3>1, <3>3, <3>4 DEF SettingState, ConfigDone
  <2> QED BY <1>2, <2>4, <2>5
<1>13. CASE Noticed(t)
  <2>1. run[t].step = "learn" /\ regs' = regs /\ dev' = Noted(x, run[t].cur)
    BY <1>13 DEF Noticed
  <2>2. PICK d : Moves(t, d) /\ (GivenUp(d) \/ On(run[t], d))
    BY <1>13, NoticeMoves
  <2>3. On(run[t], d)
    BY <1>5, <2>2
  <2>4. CASE i >= 21
    <3>1. x.learn = Nothing
      BY <1>2, <2>4 DEF ConfigPlace, Guard, Rail
    <3>2. dev' = dev
      BY <2>1, <3>1 DEF Noted, Nothing
    <3>3. ConfigDone(cfg, i)'
      BY <1>3, <2>1, <3>2 DEF ConfigDone
    <3>4. d.at \in {i, i + 1}
      BY <1>5, <2>2, <2>3, <2>4
    <3> QED BY <1>6, <2>2, <2>4, <3>3, <3>4
  <2>5. CASE i <= 20
    <3>1. x.kind = "put"
      BY <1>3, <2>1, <2>5
    <3>2. PICK r \in Rail : i = 2 * r + 1 /\ regs[VoltReg(r)] = Code(r, cfg.mv[r])
      BY <1>3, <2>1, <2>5
    <3>3. x.learn = [what |-> "mv", rail |-> r, mv |-> cfg.mv[r]]
      BY <1>2, <2>5, <3>1, <3>2 DEF ConfigPlace, Rail
    <3>4. ConfigDone(cfg, i + 1)'
      BY <1>3, <1>13, <3>2, <3>3, DoneNoted
    <3> QED BY <1>7, <2>2, <2>3, <2>5, <3>4
  <2> QED BY <1>2, <2>4, <2>5
<1>14. ~Return(t)
  BY IdleOK DEF Return, Sound, Running, SettingAlone
<1> QED BY <1>8, <1>9, <1>10, <1>11, <1>12, <1>13, <1>14 DEF Proceed

LEMMA ConfigKept == Sound /\ AloneInv /\ ConfigInv /\ [Next]_vars => ConfigInv'
<1> SUFFICES ASSUME Sound, AloneInv, ConfigInv, [Next]_vars PROVE ConfigInv'
  OBVIOUS
<1>1. CASE UNCHANGED vars
  BY <1>1 DEF vars, ConfigInv, SettingState, SettingAlone, ConfigDone, GivenUp, At, Scripts
<1>2. ASSUME NEW t \in Tasks, NEW op \in duty[t], Enter(t, op),
             NEW u \in Tasks, SettingAlone(run'[u])
      PROVE  SettingState(run[u])'
  <2>1. u = t
    BY <1>2, EnterSound DEF SettingAlone
  <2>2. /\ run'[t].op = op /\ run'[t].at = 1 /\ run'[t].step = FirstStep(Scripts[op][1])
        /\ Sound' /\ run'[t].step \notin {"idle", "ret"}
    BY <1>2, EnterSound
  <2>3. op.name = "set_config" /\ op \in Made
    BY <1>2, <2>1, <2>2 DEF SettingAlone, Sound, Running, CallOK, Placed
  <2> DEFINE x == Scripts[op][1]
  <2>4. x.kind = "put" \/ (x.kind = "refusal" /\ x.call)
    <3> DEFINE n == Len(Scripts[op])
    <3>1. n \in {21, 22} /\ \A i \in 1 .. n : ConfigPlace(op.arg, i, Scripts[op][i])
      BY <2>3, ConfigAt
    <3>2. 1 \in 1 .. n
      <4>1. n \in {21, 22}
        BY <3>1
      <4> HIDE DEF n
      <4> QED BY <4>1
    <3>3. ConfigPlace(op.arg, 1, x)
      BY <3>1, <3>2
    <3> HIDE DEF x
    <3> QED BY <3>3, PlaceMust
  <2>5. run'[t].step = "test" \/ (run'[t].step = "write" /\ x.kind = "put")
    <3> HIDE DEF x
    <3>1. CASE x.call
      BY <2>2, <3>1 DEF FirstStep, x
    <3>2. CASE ~x.call
      <4>1. x.kind = "put" /\ run'[t].step = AfterTest(x)
        BY <2>2, <2>4, <3>2 DEF FirstStep, x
      <4> QED BY <4>1 DEF AfterTest, Reads
    <3> QED BY <3>1, <3>2
  <2>6. ConfigDone(run[t].op.arg, run[t].at)'
    BY <2>2 DEF ConfigDone, Rail
  <2>7. At(run[t])' = x
    BY <2>2 DEF At, Scripts
  <2> HIDE DEF x
  <2> QED BY <2>1, <2>2, <2>5, <2>6, <2>7 DEF SettingState
<1>3. ASSUME NEW t \in Tasks, Proceed(t), NEW u \in Tasks, SettingAlone(run'[u])
      PROVE  SettingState(run[u])'
  <2>1. /\ run[t].step # "idle" /\ \A v \in Tasks \ {t} : run'[v] = run[v]
        /\ run'[t] = Idle \/ (run'[t].op = run[t].op /\ run'[t].alone = run[t].alone)
    BY <1>3, Proceeds
  <2>2. u = t
    BY <1>3, <2>1 DEF AloneInv, AllIdle, SettingAlone
  <2>3. run'[t] # Idle
    BY <1>3, <2>2, IdleOK DEF SettingAlone
  <2>4. ~GivenUp(run[t])
    <3>1. CASE Return(t)
      BY <2>3, <3>1 DEF Return, Sound, Running
    <3>2. CASE ~Return(t)
      BY <1>3, <3>2 DEF Proceed, Test, ReadOK, ReadFails, WriteOK, WriteFails, Noticed, GivenUp
    <3> QED BY <3>1, <3>2
  <2>5. SettingAlone(run[t])
    BY <1>3, <2>1, <2>2, <2>3, <2>4 DEF SettingAlone
  <2>6. SettingState(run[t])'
    BY <1>3, <2>2, <2>5, ConfigSteps DEF ConfigInv
  <2> QED BY <2>2, <2>6
<1>4. ASSUME NEW t \in Tasks, Proceed(t) \/ \E op \in duty[t] : Enter(t, op)
      PROVE  ConfigInv'
  BY <1>2, <1>3, <1>4 DEF ConfigInv
<1> QED BY <1>1, <1>4 DEF Next

\* What SLEEP_CONF holds, bit by bit.
LEMMA SleepByBits ==
    ASSUME NEW s \in SleepConfig
    PROVE  LET b == SleepBits(s)
           IN  /\ (SLEEP_EN \in b) = (s.enabled \/ 0 \in s.bucks)
               /\ (RET_EN \in b) = (s.retention \/ 0 \in s.ldos)
               /\ \A k \in 1 .. 4 : (k \in b) = (k \in s.bucks)
               /\ (7 \in b) = (1 \in s.ldos)
               /\ 5 \notin b
<1> DEFINE ldo == {k + 6 : k \in s.ldos \cap 0 .. 1}
<1>1. \A n \in Int : n \in ldo <=> (n = 6 /\ 0 \in s.ldos) \/ (n = 7 /\ 1 \in s.ldos)
  <2>1. \A k \in s.ldos \cap 0 .. 1 : k = 0 \/ k = 1
    OBVIOUS
  <2> QED BY <2>1
<1> HIDE DEF ldo
<1>2. SleepBits(s) = (IF s.enabled THEN {0} ELSE {}) \cup (IF s.retention THEN {6} ELSE {})
                     \cup (s.bucks \cap 0 .. 4) \cup ldo
  BY DEF SleepBits, SLEEP_EN, RET_EN, ldo
<1>3. \A n \in 0 .. 7 : n \in SleepBits(s) <=> \/ n = 0 /\ s.enabled
                                               \/ n = 6 /\ s.retention
                                               \/ n \in s.bucks /\ n <= 4
                                               \/ n = 6 /\ 0 \in s.ldos
                                               \/ n = 7 /\ 1 \in s.ldos
  <2>1. \A n \in 0 .. 7 : n \in ldo <=> (n = 6 /\ 0 \in s.ldos) \/ (n = 7 /\ 1 \in s.ldos)
    BY <1>1
  <2> QED BY <1>2, <2>1
<1>4. s.enabled \in BOOLEAN /\ s.retention \in BOOLEAN
  BY DEF SleepConfig
<1>5. (0 \in SleepBits(s)) <=> (s.enabled \/ 0 \in s.bucks)
  BY <1>3
<1>6. (6 \in SleepBits(s)) <=> (s.retention \/ 0 \in s.ldos)
  BY <1>3
<1>7. \A k \in 1 .. 4 : (k \in SleepBits(s)) <=> (k \in s.bucks)
  BY <1>3
<1>8. (7 \in SleepBits(s)) <=> (1 \in s.ldos)
  BY <1>3
<1>9. 5 \notin SleepBits(s)
  BY <1>3
<1> HIDE DEF ldo
<1> QED BY <1>4, <1>5, <1>6, <1>7, <1>8, <1>9 DEF SLEEP_EN, RET_EN

\* What ConfiguredWhenOK says of the registers.
AsConfigured(cfg) ==
    /\ \A r \in Rail : /\ dev.mv[r] = cfg.mv[r]
                       /\ regs[VoltReg(r)] = Code(r, cfg.mv[r])
                       /\ regs[ConfReg(r)] \ {EN} = cfg.mode[r]
                       /\ (EN \in regs[ConfReg(r)]) = cfg.enable[r]
    /\ regs[WAKE_CONF] = cfg.sleep.wake
    /\ (SLEEP_EN \in regs[SLEEP_CONF]) = (cfg.sleep.enabled \/ 0 \in cfg.sleep.bucks)
    /\ (RET_EN \in regs[SLEEP_CONF]) = (cfg.sleep.retention \/ 0 \in cfg.sleep.ldos)
    /\ \A k \in 1 .. 4 : (k \in regs[SLEEP_CONF]) = (k \in cfg.sleep.bucks)
    /\ (7 \in regs[SLEEP_CONF]) = (1 \in cfg.sleep.ldos)
    /\ 5 \notin regs[SLEEP_CONF]

LEMMA ConfigHolds == Sound /\ ConfigInv => ConfiguredWhenOK
<1> SUFFICES ASSUME Sound, ConfigInv, NEW t \in Tasks, run[t].op.name = "set_config",
                    run[t].step = "ret", run[t].ret = TPS6594_ERR_OK, run[t].alone
             PROVE  AsConfigured(run[t].op.arg)
  BY DEF ConfiguredWhenOK, AsConfigured
<1> DEFINE cfg == run[t].op.arg
<1>1. SettingAlone(run[t])
  BY DEF SettingAlone, GivenUp
<1>2. ConfigDone(cfg, run[t].at) /\ run[t].at >= 21
  BY <1>1 DEF ConfigInv, SettingState
<1>3. run[t].op \in Made /\ run[t].at \in Nat
  BY <1>1, MadeSane DEF SettingAlone, Sound, Running, CallOK, Placed
<1>4. cfg \in Config
  BY <1>3, ConfigAt
<1> HIDE DEF cfg
<1>5. /\ \A r \in Rail : /\ dev.mv[r] = cfg.mv[r] /\ regs[VoltReg(r)] = Code(r, cfg.mv[r])
                         /\ regs[ConfReg(r)] = ConfBits(cfg, r)
      /\ regs[SLEEP_CONF] = SleepBits(cfg.sleep)
      /\ regs[WAKE_CONF] = cfg.sleep.wake
  BY <1>2, <1>3 DEF ConfigDone, Rail
<1>6. ASSUME NEW r \in Rail
      PROVE  (EN \in ConfBits(cfg, r)) = cfg.enable[r] /\ ConfBits(cfg, r) \ {EN} = cfg.mode[r]
  <2>1. cfg.enable[r] \in BOOLEAN /\ cfg.mode[r] \subseteq 0 .. 6
    BY <1>4 DEF Config, Modes
  <2>2. EN \notin cfg.mode[r]
    BY <2>1 DEF EN
  <2>3. CASE cfg.enable[r]
    BY <2>3, <2>1, <2>2 DEF ConfBits
  <2>4. CASE ~cfg.enable[r]
    BY <2>4, <2>1, <2>2 DEF ConfBits
  <2> QED BY <2>3, <2>4
<1>7. cfg.sleep \in SleepConfig
  BY <1>4 DEF Config
<1>8. AsConfigured(cfg)
  BY <1>5, <1>6, <1>7, SleepByBits DEF AsConfigured
<1> QED BY <1>8 DEF cfg

\* A set_config that reports success, with no other task in a call, has left the voltage,
\* mode and enable bits of every rail, the sleep behaviour and the wake-up as the
\* configuration says.
THEOREM SuccessIsConfigured == Spec => []ConfiguredWhenOK
<1>1. Init => ConfigInv
  BY IdleOK DEF Init, ConfigInv, SettingAlone
<1> QED BY <1>1, ConfigHolds, ConfigKept, SoundAlways, AloneAlways, PTL DEF Spec

=============================================================================
