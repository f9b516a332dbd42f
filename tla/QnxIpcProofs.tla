---------------------------- MODULE QnxIpcProofs ----------------------------
(***************************************************************************)
(* Theorems about QnxIpc, for any number of messages, workers and rounds   *)
(* and any number of kernel calls that fail.                               *)
(***************************************************************************)
EXTENDS QnxIpc, FiniteSetTheorems, TLAPS

\* What the kernel and the C types allow, before anything is said of the protocol.
\* A request of type 4 is the state of the client behind its last message.
Types ==
    /\ main \in {"start", "paused", "connect", "ready", "blocked", "answered",
                 "disconnect", "sleep", "join", "timing", "ended"}
    /\ request \in [type : 1 .. 4, echoes : Nat]
    /\ reply \in [status : {-1, 0, 1}, stats : [messages : Nat, bytes : Nat, clients : Nat]]
    /\ chan \in {"none", "message", "received", "lost", "pulse"}
    /\ server \in [at : {"none", "receive", "failed", "handle", "reply", "exited"},
                   type : 0 .. 4, ret : {-1, 0, 1}]
    /\ stats \in [messages : Nat, bytes : Nat, clients : Nat]
    /\ acked \in Nat

\* An echo the server has counted and the client has not been told of.
InHand == /\ request.type = MSG_ECHO
          /\ \/ main = "answered" \/ chan = "lost"
             \/ (chan = "received" /\ server.at = "reply")

\* Where the client is decides what it has asked for; what the server holds decides
\* what it will answer; the statistics it has been shown, if any, are the last ones.
Talk ==
    /\ main \in {"start", "connect"} => request.type = MSG_ECHO
    /\ main \in {"ready", "blocked", "answered"} => request.type # 4
    /\ server.at \in {"handle", "reply"} /\ chan # "received" => server.type = 0
    /\ server.at = "reply" /\ server.type = MSG_ECHO => server.ret = 0
    /\ main = "answered" /\ request.type = MSG_ECHO => reply.status = 0
    /\ stats.clients = 0
    /\ stats.messages = acked + (IF InHand THEN 1 ELSE 0)
    /\ stats.bytes = stats.messages * DataLen
    /\ request.type = MSG_ECHO => reply.stats = NoStats
    /\ reply.stats \in {NoStats, stats}

TalkInv == Types /\ BlockedIffInFlight /\ Talk

-----------------------------------------------------------------------------
(* The conversation. *)

LEMMA InitTalk == Init => TalkInv
  BY ConstantsOK DEF Init, TalkInv, Types, BlockedIffInFlight, Talk, InHand, NoReply, NoStats,
     MSG_ECHO

\* What a step of the client behind an answer, or behind a send that failed, does.
LEMMA ContinueTalk ==
    ASSUME TalkInv, NEW st \in {-1, 0, 1}, Continue(st),
           \/ main = "ready" /\ st = -1
           \/ main = "answered" /\ st = reply.status,
           UNCHANGED <<reply, chan, server, stats>>
    PROVE  TalkInv'
<1> USE DEF MSG_ECHO, MSG_GET_STATS, MSG_QUIT
<1>1. /\ main \in {"ready", "answered"} /\ main' \in {"ready", "disconnect"}
      /\ chan \notin {"message", "received", "lost"}
  BY DEF TalkInv, BlockedIffInFlight, Continue
<1>2. Types'
  BY <1>1 DEF TalkInv, Types, Talk, Continue
<1>3. BlockedIffInFlight'
  BY <1>1 DEF BlockedIffInFlight
<1>4. Talk'
  <2>1. /\ request.type = 1 => request'.type \in {1, 2}
        /\ request.type # 1 => request'.type = request.type + 1
        /\ main' = "ready" => request'.type # 4
    BY <1>1 DEF Continue, TalkInv, Types, Talk
  <2>2. ~InHand'
    BY <1>1 DEF InHand
  <2>3. stats.messages = acked'
    BY <1>1 DEF TalkInv, Types, Talk, InHand, Continue
  <2> QED BY <1>1, <2>1, <2>2, <2>3 DEF TalkInv, Types, Talk, InHand
<1> QED BY <1>2, <1>3, <1>4 DEF TalkInv

LEMMA MainTalk ==
    ASSUME TalkInv, MainStep
    PROVE  TalkInv'
<1> USE ConstantsOK DEF clientVars, serverVars, MSG_ECHO, MSG_GET_STATS, MSG_QUIT
<1>1. CASE \/ StartServer \/ StartFails \/ Connect \/ ConnectFails \/ Leave
           \/ Spawn \/ Join \/ StartTimer \/ StartTimerFails
  <2>1. /\ UNCHANGED <<request, reply, chan, stats, acked>>
        /\ main \notin {"blocked", "answered"} /\ main' \notin {"blocked", "answered"}
        /\ main' = "connect" => main = "start"
        /\ main' = "ready" => main = "connect"
        /\ main' # "start"
        /\ server' \in {server, [server EXCEPT !.at = "receive"]}
    BY <1>1 DEF StartServer, StartFails, Connect, ConnectFails, Leave, Spawn, Join, StartTimer,
       StartTimerFails
  <2>2. main' \in {"paused", "connect", "ready", "join", "timing", "ended"}
    BY <1>1 DEF StartServer, StartFails, Connect, ConnectFails, Leave, Spawn, Join, StartTimer,
       StartTimerFails
  <2>3. chan \notin {"received", "lost"}
    BY <2>1 DEF TalkInv, BlockedIffInFlight
  <2> QED BY <2>1, <2>2, <2>3 DEF TalkInv, Types, BlockedIffInFlight, Talk, InHand
<1>2. CASE Send
  BY <1>2 DEF Send, TalkInv, Types, BlockedIffInFlight, Talk, InHand
<1>3. CASE SendFails
  BY <1>3, ContinueTalk DEF SendFails
<1>4. CASE Resume
  BY <1>4, ContinueTalk DEF Resume, TalkInv, Types
<1>5. CASE Disconnect
  BY <1>5 DEF Disconnect, TalkInv, Types, BlockedIffInFlight, Talk, InHand
<1> QED BY <1>1, <1>2, <1>3, <1>4, <1>5 DEF MainStep

LEMMA CountedType ==
    ASSUME stats \in [messages : Nat, bytes : Nat, clients : Nat], NEW type
    PROVE  Counted(type) \in [messages : Nat, bytes : Nat, clients : Nat]
<1> DEFINE once == [stats EXCEPT !.messages = stats.messages + 1]
<1>1. stats.messages + 1 \in Nat /\ stats.bytes + DataLen \in Nat
  BY ConstantsOK
<1>2. once \in [messages : Nat, bytes : Nat, clients : Nat] /\ once.bytes = stats.bytes
  BY <1>1
<1> HIDE DEF once
<1>3. [once EXCEPT !.bytes = once.bytes + DataLen] \in [messages : Nat, bytes : Nat, clients : Nat]
  BY <1>1, <1>2
<1> QED BY <1>3 DEF Counted, once

\* A server that holds no message goes round its loop.
LEMMA Loops ==
    ASSUME TalkInv, server.at \in {"receive", "failed"},
           server' \in {[server EXCEPT !.at = "receive"], [server EXCEPT !.at = "failed"]},
           UNCHANGED <<clientVars, chan, stats>>
    PROVE  TalkInv'
<1>1. /\ UNCHANGED <<main, request, reply, acked, chan, stats>>
      /\ server'.at \in {"receive", "failed"} /\ chan # "received"
  BY DEF clientVars, TalkInv, Types, BlockedIffInFlight
<1>2. Types'
  BY <1>1 DEF TalkInv, Types
<1>3. BlockedIffInFlight' /\ InHand' = InHand
  BY <1>1 DEF TalkInv, BlockedIffInFlight, InHand
<1> QED BY <1>1, <1>2, <1>3 DEF TalkInv, Talk

\* A reply that fails leaves an echo that was counted and is never acknowledged.
LEMMA ReplyFailsTalk ==
    ASSUME TalkInv, ReplyFails
    PROVE  TalkInv'
<1>1. /\ UNCHANGED <<main, request, reply, acked, stats>>
      /\ server.at = "reply" /\ server'.at \in {"receive", "exited"}
      /\ server'.type = server.type /\ server'.ret = server.ret
      /\ chan = "received" /\ chan' = "lost"
  BY DEF ReplyFails, AfterReply, clientVars, TalkInv, Types
<1>2. Types'
  BY <1>1 DEF ReplyFails, TalkInv, Types
<1>3. BlockedIffInFlight'
  BY <1>1 DEF TalkInv, BlockedIffInFlight
<1>4. InHand' = InHand
  BY <1>1 DEF InHand
<1> QED BY <1>1, <1>2, <1>3, <1>4 DEF TalkInv, Talk

LEMMA ServerTalk ==
    ASSUME TalkInv, ServerStep
    PROVE  TalkInv'
<1> USE ConstantsOK DEF clientVars, serverVars, MSG_ECHO, MSG_GET_STATS, MSG_QUIT
<1>1. CASE Receive
  <2>1. /\ UNCHANGED <<main, request, reply, acked, stats>>
        /\ server.at = "receive"
        /\ server' = [at |-> "handle", type |-> IF chan = "message" THEN request.type ELSE 0,
                      ret |-> server.ret]
        /\ chan \in {"message", "pulse"}
        /\ chan' = IF chan = "message" THEN "received" ELSE "none"
    BY <1>1 DEF Receive, Held, TalkInv, Types
  <2>2. Types'
    BY <2>1 DEF TalkInv, Types
  <2>3. BlockedIffInFlight'
    BY <2>1 DEF TalkInv, BlockedIffInFlight
  <2>4. InHand' = InHand
    BY <2>1 DEF InHand, TalkInv, BlockedIffInFlight
  <2>5. /\ server'.at = "handle"
        /\ chan' # "received" => server'.type = 0
    BY <2>1
  <2>6. Talk'
    BY <2>1, <2>4, <2>5 DEF TalkInv, Talk
  <2> QED BY <2>2, <2>3, <2>6 DEF TalkInv
<1>2. CASE Retry
  BY <1>2, Loops DEF Retry
<1>3. CASE Handle
  <2>1. /\ UNCHANGED <<main, request, reply, acked, chan>>
        /\ server.at = "handle"
        /\ server' = [at |-> "reply", type |-> server.type,
                      ret |-> CASE server.type = 3 -> 1 [] server.type \in {1, 2} -> 0 [] OTHER -> -1]
        /\ stats' = Counted(server.type)
    BY <1>3 DEF Handle, TalkInv, Types
  <2>2. Types'
    <3>1. stats' \in [messages : Nat, bytes : Nat, clients : Nat]
      BY <2>1, CountedType DEF TalkInv, Types
    <3>2. server' \in [at : {"none", "receive", "failed", "handle", "reply", "exited"},
                       type : 0 .. 4, ret : {-1, 0, 1}]
      BY <2>1 DEF TalkInv, Types
    <3> QED BY <2>1, <3>1, <3>2 DEF TalkInv, Types
  <2>3. BlockedIffInFlight'
    BY <2>1 DEF TalkInv, BlockedIffInFlight
  <2>4. CASE server.type = 1
    <3>1. chan = "received" /\ main = "blocked" /\ request.type = 1
      BY <2>1, <2>4 DEF TalkInv, Talk, BlockedIffInFlight
    <3>2. /\ stats'.messages = stats.messages + 1 /\ stats'.bytes = stats.bytes + DataLen
          /\ stats'.clients = stats.clients
      BY <2>1, <2>4 DEF Counted, TalkInv, Types
    <3>3. ~InHand /\ InHand'
      BY <2>1, <3>1 DEF InHand
    <3>4. (stats.messages + 1) * DataLen = stats.messages * DataLen + DataLen
      BY DEF TalkInv, Types
    <3> QED BY <2>1, <2>2, <2>3, <3>1, <3>2, <3>3, <3>4 DEF TalkInv, Types, Talk
  <2>5. CASE server.type # 1
    <3>1. stats' = stats
      BY <2>1, <2>5 DEF Counted
    <3>2. InHand' = InHand
      BY <2>1, <2>5 DEF InHand, TalkInv, BlockedIffInFlight
    <3> QED BY <2>1, <2>2, <2>3, <2>5, <3>1, <3>2 DEF TalkInv, Talk
  <2> QED BY <2>4, <2>5
<1>4. CASE Reply
  <2>1. /\ UNCHANGED <<request, acked, stats>>
        /\ server.at = "reply" /\ server'.at \in {"receive", "exited"}
        /\ server'.type = server.type /\ server'.ret = server.ret
    BY <1>4 DEF Reply, AfterReply, TalkInv, Types
  <2>2. CASE chan = "received"
    <3>1. /\ chan' = "none" /\ main' = "answered" /\ main = "blocked"
          /\ server.type = request.type
          /\ reply'.status = server.ret
          /\ reply'.stats = IF server.type = 2 THEN stats ELSE reply.stats
      BY <1>4, <2>2 DEF Reply, TalkInv, BlockedIffInFlight
    <3>2. Types'
      BY <1>4, <2>1, <2>2 DEF TalkInv, Types, Reply
    <3>3. InHand' = InHand
      BY <2>1, <2>2, <3>1 DEF InHand
    <3> QED BY <2>1, <3>1, <3>2, <3>3 DEF TalkInv, Talk, BlockedIffInFlight
  <2>3. CASE chan # "received"
    <3>1. UNCHANGED <<chan, main, reply>>
      BY <1>4, <2>3 DEF Reply
    <3>2. Types'
      BY <1>4, <2>1, <3>1 DEF TalkInv, Types, Reply
    <3> QED BY <2>1, <2>3, <3>1, <3>2 DEF TalkInv, Talk, BlockedIffInFlight, InHand
  <2> QED BY <2>2, <2>3
<1> QED BY <1>1, <1>2, <1>3, <1>4 DEF ServerStep

LEMMA StepTalk == TalkInv /\ [Next]_vars => TalkInv'
<1> SUFFICES ASSUME TalkInv, [Next]_vars PROVE TalkInv'
  OBVIOUS
<1>1. CASE \/ \E w \in Workers : WorkerStep(w) \/ SemWaitFails(w)
           \/ TimerFires \/ ReceivePulse \/ UNCHANGED vars
  <2>1. UNCHANGED <<main, request, reply, chan, server, stats, acked>>
    BY <1>1 DEF WorkerStep, SemWait, SemWaitFails, Lock, Unlock, SemPost, TimerFires, ReceivePulse, vars,
       clientVars, serverVars
  <2> QED BY <2>1 DEF TalkInv, Types, BlockedIffInFlight, Talk, InHand
<1>2. CASE ReceiveFails
  BY <1>2, Loops DEF ReceiveFails
<1> QED BY <1>1, <1>2, MainTalk, ServerTalk, ReplyFailsTalk DEF Next

LEMMA TalkAlways == Spec => []TalkInv
  BY InitTalk, StepTalk, PTL DEF Spec

\* A client is blocked exactly while its message is with the kernel or the server, or
\* was lost by a reply that failed, whatever pulses arrive: nobody else is replied to.
THEOREM BlockedWhileInFlight == Spec => []BlockedIffInFlight
<1>1. TalkInv => BlockedIffInFlight
  BY DEF TalkInv
<1> QED BY TalkAlways, <1>1, PTL

\* The statistics the client prints count its successful echoes, for any number and
\* length of them and any failures.
THEOREM StatsCountTheEchoes == Spec => []StatsAreTheEchoes
<1>1. TalkInv => StatsAreTheEchoes
  <2> SUFFICES ASSUME TalkInv, request.type = MSG_QUIT, reply.stats # NoStats
               PROVE  reply.stats = [messages |-> acked, bytes |-> acked * DataLen, clients |-> 0]
    BY DEF StatsAreTheEchoes
  <2>1. reply.stats = stats /\ ~InHand
    BY DEF TalkInv, Talk, InHand, MSG_QUIT, MSG_ECHO
  <2>2. /\ stats \in [messages : Nat, bytes : Nat, clients : Nat]
        /\ stats.messages = acked /\ stats.bytes = acked * DataLen /\ stats.clients = 0
    BY <2>1 DEF TalkInv, Talk, Types
  <2> QED BY <2>1, <2>2
<1> QED BY TalkAlways, <1>1, PTL

-----------------------------------------------------------------------------
(* The semaphore. *)

Holders == {w \in Workers : worker[w].at \in {"lock", "work", "post"}}

WorkerTypes ==
    /\ sem \in Nat
    /\ worker \in [Workers -> [at : {"none", "wait", "lock", "work", "post", "done"}, round : Nat]]

\* In the semaphore's mode there is no server, and the first failure is a wait's.
Alone == /\ main \in {"start", "join"} => server.at = "none"
         /\ main = "start" => faults = 0 /\ \A w \in Workers : worker[w].at = "none"
         /\ faults \in Nat

SemInv == WorkerTypes /\ OneUnit /\ Alone

LEMMA InitSem == Init => SemInv
  BY DEF Init, SemInv, WorkerTypes, OneUnit, Alone

\* A worker that takes the unit is one holder more, one that gives it back one less.
LEMMA HoldersCount ==
    ASSUME NEW w
    PROVE  /\ Cardinality(Holders) \in Nat
           /\ w \notin Holders => Cardinality(Holders \cup {w}) = Cardinality(Holders) + 1
           /\ w \in Holders => Cardinality(Holders \ {w}) = Cardinality(Holders) - 1
<1>1. IsFiniteSet(Holders)
  BY ConstantsOK, FS_Subset, Holders \in SUBSET Workers DEF Holders
<1> HIDE DEF Holders
<1> QED BY <1>1, FS_CardinalityType, FS_AddElement, FS_RemoveElement

\* The steps of a worker leave the rest alone.
LEMMA WorkerFrame ==
    ASSUME SemInv, NEW w \in Workers, WorkerStep(w) \/ SemWaitFails(w)
    PROVE  /\ UNCHANGED <<main, server>>
           /\ WorkerStep(w) => UNCHANGED faults
           /\ worker[w] \in [at : {"none", "wait", "lock", "work", "post", "done"}, round : Nat]
           /\ WorkerTypes
           /\ main # "start"
           /\ main = "join" => sem + Cardinality(Holders) = 1 + faults
<1>1. /\ UNCHANGED <<main, server>> /\ main # "start"
      /\ WorkerStep(w) => UNCHANGED faults
  BY DEF WorkerStep, SemWait, SemWaitFails, Lock, Unlock, SemPost, clientVars, serverVars, At,
     SemInv, Alone
<1> QED BY <1>1 DEF SemInv, WorkerTypes, OneUnit, Holders

LEMMA WorkerSem ==
    ASSUME SemInv, NEW w \in Workers, WorkerStep(w) \/ SemWaitFails(w)
    PROVE  SemInv'
<1>1. /\ SemInv /\ UNCHANGED <<main, server>> /\ main # "start"
      /\ WorkerStep(w) => UNCHANGED faults
      /\ WorkerTypes /\ sem \in Nat /\ faults \in Nat
      /\ worker[w] \in [at : {"none", "wait", "lock", "work", "post", "done"}, round : Nat]
  BY WorkerFrame DEF SemInv, Alone, WorkerTypes
<1>2. main = "join" => sem + Cardinality(Holders) = 1 + faults
  BY WorkerFrame
<1>3. CASE SemWait(w) \/ SemWaitFails(w)
  <2>1. WorkerTypes'
    BY <1>1, <1>3 DEF SemWait, SemWaitFails, At, Goes, WorkerTypes
  <2>2. w \notin Holders /\ Holders' = Holders \cup {w}
    BY <1>1, <1>3 DEF SemWait, SemWaitFails, At, Goes, WorkerTypes, Holders
  <2>3. /\ faults' \in Nat
        /\ \/ sem' = sem - 1 /\ faults' = faults
           \/ sem' = sem /\ faults' = faults + 1
    BY <1>1, <1>3 DEF SemWait, SemWaitFails, Fault
  <2>4. main = "join" => sem' + Cardinality(Holders') = 1 + faults'
    <3>1. Cardinality(Holders') = Cardinality(Holders) + 1 /\ Cardinality(Holders) \in Nat
      BY <2>2, HoldersCount
    <3> QED BY <1>1, <1>2, <2>3, <3>1
  <2> QED BY <1>1, <2>1, <2>3, <2>4 DEF SemInv, OneUnit, Holders, Alone
<1>4. CASE Lock(w) \/ Unlock(w)
  <2>1. WorkerTypes' /\ UNCHANGED <<sem, faults>>
    BY <1>1, <1>4 DEF Lock, Unlock, At, Goes, WorkerTypes
  <2>2. Holders' = Holders
    BY <1>1, <1>4 DEF Lock, Unlock, At, Goes, WorkerTypes, Holders
  <2> QED BY <1>1, <1>2, <2>1, <2>2 DEF SemInv, OneUnit, Holders, Alone
<1>5. CASE SemPost(w)
  <2>1. WorkerTypes' /\ UNCHANGED faults
    BY <1>1, <1>5 DEF SemPost, Posted, At, WorkerTypes
  <2>2. w \in Holders /\ Holders' = Holders \ {w}
    BY <1>1, <1>5 DEF SemPost, At, WorkerTypes, Holders
  <2>3. main = "join" => sem' + Cardinality(Holders') = 1 + faults'
    BY <1>1, <1>2, <1>5, <2>1, <2>2, HoldersCount DEF SemPost, Posted, WorkerTypes
  <2> QED BY <1>1, <2>1, <2>3 DEF SemInv, OneUnit, Holders, Alone
<1> QED BY <1>3, <1>4, <1>5 DEF WorkerStep

LEMMA StepSem == SemInv /\ [Next]_vars => SemInv'
<1> SUFFICES ASSUME SemInv, [Next]_vars PROVE SemInv'
  OBVIOUS
<1>1. CASE Spawn
  <2>1. WorkerTypes' /\ Holders' = {} /\ sem' = 1 /\ faults' = 0 /\ server'.at = "none"
    BY <1>1 DEF Spawn, WorkerTypes, Holders, SemInv, Alone, serverVars
  <2>2. Cardinality(Holders') = 0
    BY <2>1, FS_EmptySet
  <2>3. main' = "join"
    BY <1>1 DEF Spawn
  <2> QED BY <2>1, <2>2, <2>3 DEF SemInv, OneUnit, Holders, Alone
<1>2. CASE \/ MainStep /\ ~Spawn
           \/ ServerStep \/ ReceiveFails \/ ReplyFails
           \/ TimerFires \/ ReceivePulse \/ UNCHANGED vars
  <2>1. /\ UNCHANGED <<sem, worker>>
        /\ main' \in {"start", "join"} => UNCHANGED <<main, server, faults>>
        /\ faults' \in Nat
    BY <1>2 DEF MainStep, ServerStep, StartServer, StartFails, Connect, ConnectFails, Send,
       SendFails, Continue, Resume, Disconnect, Leave, Join, StartTimer, StartTimerFails, Receive,
       Retry, ReceiveFails, Handle, Reply, ReplyFails, TimerFires, ReceivePulse, vars, clientVars,
       serverVars, semVars, Fault, SemInv, Alone
  <2> QED BY <2>1 DEF SemInv, WorkerTypes, OneUnit, Alone
<1> QED BY <1>1, <1>2, WorkerSem DEF Next

\* The unit of the semaphore is with the semaphore or with one worker, and every
\* sem_wait that failed has added one, for any number of workers, rounds and failures.
THEOREM UnitConserved == Spec => []OneUnit
<1>1. SemInv => OneUnit
  BY DEF SemInv
<1> QED BY InitSem, StepSem, <1>1, PTL DEF Spec
=============================================================================
