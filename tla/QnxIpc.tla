------------------------------- MODULE QnxIpc -------------------------------
(***************************************************************************)
(* qnx-apps/qnxIPC/qnxIPC.c: a program that shows, by the mode it is       *)
(* started in, a server thread and a client that talk by synchronous       *)
(* messages, a thread that counts the pulses of a timer, or workers that   *)
(* share a semaphore.  The kernel's calls are external: a send blocks its  *)
(* thread until the receiver replies, pulses queue up.  The calls that     *)
(* set a channel, its thread, a connection or the timer up may fail,       *)
(* MsgSend before its message is delivered, MsgReceive and MsgReply at any *)
(* time, sem_wait too.  Taken to succeed are sem_init, sem_post, the       *)
(* mutexes and the workers' creation, whose results nobody looks at.       *)
(***************************************************************************)
EXTENDS Integers, FiniteSets

CONSTANTS Modes,        \* modes the program is started in
          NumMessages,  \* argument of client_main
          DataLen,      \* length of the text of an echo
          Workers,      \* the threads of the semaphore demo
          Rounds,       \* iterations of a worker
          PulseCount,   \* pulses the timer thread waits for
          MaxQueued,    \* bound on the timer pulses that queue up
          MaxFaults     \* bound on the kernel calls that fail

\* client_main is called with 5 and 10, and the demo starts three workers.
ASSUME ConstantsOK ==
    /\ NumMessages \in Nat \ {0}
    /\ DataLen \in Nat
    /\ IsFiniteSet(Workers)

VARIABLES mode,
          main,         \* where the thread of main is
          request,      \* client: message to send next, or being sent; echoes sent
          reply,        \* client: what the last message was answered with
          chan,         \* server's channel: "none", what is waiting there, or
                        \* "lost" when a message was received and never replied to
          server,       \* server: where it is, message received, value returned
          stats,        \* global_stats
          acked,        \* ghost: echoes the client was told had succeeded
          sem, lock,    \* sem_demo; the worker that holds print_mutex
          worker,       \* each worker: where it is, in which round
          pulses, count,\* timer: pulses waiting, pulses counted
          faults        \* kernel calls that have failed, but for MsgReceive

clientVars == <<main, request, reply, acked>>
serverVars == <<chan, server, stats>>
semVars    == <<sem, lock, worker>>
timerVars  == <<pulses, count>>
vars == <<mode, clientVars, serverVars, semVars, timerVars, faults>>

MSG_ECHO      == 1
MSG_GET_STATS == 2
MSG_QUIT      == 3

NoStats == [messages |-> 0, bytes |-> 0, clients |-> 0]
NoReply == [status |-> 0, stats |-> NoStats]

Init == /\ mode \in Modes
        /\ main = "start"
        /\ request = [type |-> MSG_ECHO, echoes |-> 0]
        /\ reply = NoReply
        /\ chan = "none"
        /\ server = [at |-> "none", type |-> 0, ret |-> 0]
        /\ stats = NoStats
        /\ acked = 0
        /\ sem = 0 /\ lock = "nobody"
        /\ worker = [w \in Workers |-> [at |-> "none", round |-> 0]]
        /\ pulses = 0 /\ count = 0
        /\ faults = 0

Alive == main # "ended"

Fault == faults < MaxFaults /\ faults' = faults + 1

-----------------------------------------------------------------------------
(* main. *)

\* "server" and "both": start_server.  The server of mode "server" has a channel
\* nobody knows of, and main pauses for ever.
StartServer ==
    /\ main = "start" /\ mode \in {"server", "both"}
    /\ main' = IF mode = "both" THEN "connect" ELSE "paused"
    /\ server' = [server EXCEPT !.at = "receive"]
    /\ UNCHANGED <<mode, request, reply, acked, chan, stats, semVars, timerVars, faults>>

\* ChannelCreate or pthread_create fails: main returns 1.
StartFails ==
    /\ main = "start" /\ mode \in {"server", "both"}
    /\ Fault
    /\ main' = "ended"
    /\ UNCHANGED <<mode, request, reply, acked, serverVars, semVars, timerVars>>

\* client_connect.
Connect ==
    /\ main = "connect"
    /\ main' = "ready"
    /\ UNCHANGED <<mode, request, reply, acked, serverVars, semVars, timerVars, faults>>

\* In mode "client" server_chid is -1 and the attachment always fails.
ConnectFails ==
    /\ \/ main = "connect" /\ Fault
       \/ main = "start" /\ mode = "client" /\ UNCHANGED faults
    /\ main' = "ended"
    /\ UNCHANGED <<mode, request, reply, acked, serverVars, semVars, timerVars>>

\* client_main after a message was answered: further echoes, then the statistics
\* and the quit, whatever came back; the first echo that fails ends the echoes.
Continue(status) ==
    LET again == request.type = MSG_ECHO /\ status = 0 /\ request.echoes + 1 < NumMessages
    IN  /\ request' = IF request.type # MSG_ECHO THEN [request EXCEPT !.type = @ + 1]
                      ELSE IF again THEN [request EXCEPT !.echoes = @ + 1]
                      ELSE [request EXCEPT !.type = MSG_GET_STATS]
        /\ main' = IF request.type = MSG_QUIT THEN "disconnect" ELSE "ready"
        /\ acked' = IF request.type = MSG_ECHO /\ status = 0 THEN acked + 1 ELSE acked

\* MsgSend: the message waits in the channel and the client for its answer.
Send ==
    /\ main = "ready" /\ chan = "none"
    /\ chan' = "message"
    /\ main' = "blocked"
    /\ UNCHANGED <<mode, request, reply, acked, server, stats, semVars, timerVars, faults>>

SendFails ==
    /\ main = "ready"
    /\ Fault
    /\ Continue(-1)
    /\ UNCHANGED <<mode, reply, serverVars, semVars, timerVars>>

\* The answer has arrived.
Resume ==
    /\ main = "answered"
    /\ Continue(reply.status)
    /\ UNCHANGED <<mode, reply, serverVars, semVars, timerVars, faults>>

\* client_disconnect.  The kernel tells the channel by a pulse.
Disconnect ==
    /\ main = "disconnect"
    /\ main' = "sleep"
    /\ chan' = "pulse"
    /\ UNCHANGED <<mode, request, reply, acked, server, stats, semVars, timerVars, faults>>

\* main returns: the process and its threads are gone.
Leave ==
    /\ main = "sleep"
    /\ main' = "ended"
    /\ UNCHANGED <<mode, request, reply, acked, serverVars, semVars, timerVars, faults>>

-----------------------------------------------------------------------------
(* server_thread. *)

\* A pulse is held for a message to reply to.
Held_Pulse == "received"

\* What the channel holds once its message or pulse is received: a message stays
\* there until it is replied to, a pulse (rcvid 0) is gone.
Held == IF chan = "message" THEN "received" ELSE "none"

\* A pulse is read into the message too: its type and subtype are zero.
Receive ==
    /\ Alive /\ server.at = "receive" /\ chan \in {"message", "pulse"}
    /\ server' = [server EXCEPT !.at = "handle",
                                !.type = IF chan = "message" THEN request.type ELSE 0]
    /\ chan' = Held
    /\ UNCHANGED <<mode, clientVars, stats, semVars, timerVars, faults>>

\* MsgReceive fails, for as long as it likes, and the loop begins again.  A failure
\* in the timer's loop changes nothing at all.
ReceiveFails ==
    /\ Alive /\ server.at = "receive"
    /\ server' = [server EXCEPT !.at = "failed"]
    /\ UNCHANGED <<mode, clientVars, chan, stats, semVars, timerVars, faults>>

Retry ==
    /\ Alive /\ server.at = "failed"
    /\ server' = [server EXCEPT !.at = "receive"]
    /\ UNCHANGED <<mode, clientVars, chan, stats, semVars, timerVars, faults>>

\* Every message is counted.
Counted_All(type) == [stats EXCEPT !.messages = @ + 1, !.bytes = @ + DataLen]

\* global_stats after a message of this type.
Counted(type) ==
    IF type = MSG_ECHO THEN [stats EXCEPT !.messages = @ + 1, !.bytes = @ + DataLen] ELSE stats

\* handle_message, under stats_mutex.
Handle ==
    /\ Alive /\ server.at = "handle"
    /\ stats' = Counted(server.type)
    /\ server' = [server EXCEPT !.at = "reply",
                                !.ret = CASE server.type = MSG_QUIT -> 1
                                          [] server.type \in {MSG_ECHO, MSG_GET_STATS} -> 0
                                          [] OTHER -> -1]
    /\ UNCHANGED <<mode, clientVars, chan, semVars, timerVars, faults>>

\* The server leaves after one message.
AfterReply_Once == "exited"

\* Any value but zero ends the loop: the quit, and a message it does not know.
AfterReply == IF server.ret # 0 THEN "exited" ELSE "receive"

\* MsgReply.  A pulse has nobody to reply to.
Reply ==
    /\ Alive /\ server.at = "reply"
    /\ server' = [server EXCEPT !.at = AfterReply]
    /\ IF chan = "received"
       THEN /\ chan' = "none"
            /\ main' = "answered"
            /\ reply' = [status |-> server.ret,
                         stats |-> IF server.type = MSG_GET_STATS THEN stats ELSE reply.stats]
       ELSE UNCHANGED <<chan, main, reply>>
    /\ UNCHANGED <<mode, request, acked, stats, semVars, timerVars, faults>>

\* MsgReply fails.  Nobody looks: the server goes on, and the client stays blocked.
ReplyFails ==
    /\ Alive /\ server.at = "reply" /\ chan = "received"
    /\ Fault
    /\ server' = [server EXCEPT !.at = AfterReply]
    /\ chan' = "lost"
    /\ UNCHANGED <<mode, clientVars, stats, semVars, timerVars>>

-----------------------------------------------------------------------------
(* run_semaphore_demo. *)

Spawn ==
    /\ main = "start" /\ mode = "sem"
    /\ sem' = 1
    /\ worker' = [w \in Workers |-> [at |-> "wait", round |-> 0]]
    /\ main' = "join"
    /\ UNCHANGED <<mode, request, reply, acked, serverVars, lock, timerVars, faults>>

At(w, place) == Alive /\ worker[w].at = place
Goes(w, place) == worker' = [worker EXCEPT ![w].at = place]

SemWait(w) ==
    /\ At(w, "wait") /\ sem > 0
    /\ sem' = sem - 1
    /\ Goes(w, "lock")
    /\ UNCHANGED <<mode, clientVars, serverVars, lock, timerVars, faults>>

\* sem_wait fails.  Nobody looks: the worker goes on without the unit.
SemWaitFails(w) ==
    /\ At(w, "wait")
    /\ Fault
    /\ Goes(w, "lock")
    /\ UNCHANGED <<mode, clientVars, serverVars, sem, lock, timerVars>>

Lock(w) ==
    /\ At(w, "lock") /\ lock = "nobody"
    /\ lock' = w
    /\ Goes(w, "work")
    /\ UNCHANGED <<mode, clientVars, serverVars, sem, timerVars, faults>>

Unlock(w) ==
    /\ At(w, "work")
    /\ lock' = "nobody"
    /\ Goes(w, "post")
    /\ UNCHANGED <<mode, clientVars, serverVars, sem, timerVars, faults>>

\* The last round returns without its post.
Posted_NotLast(w) == IF worker[w].round + 1 < Rounds THEN sem + 1 ELSE sem

Posted(w) == sem + 1

SemPost(w) ==
    /\ At(w, "post")
    /\ sem' = Posted(w)
    /\ worker' = [worker EXCEPT ![w] = [at |-> IF @.round + 1 < Rounds THEN "wait" ELSE "done",
                                        round |-> @.round + 1]]
    /\ UNCHANGED <<mode, clientVars, serverVars, lock, timerVars, faults>>

\* The last pthread_join, then sem_destroy.
Join ==
    /\ main = "join"
    /\ \A w \in Workers : worker[w].at = "done"
    /\ main' = "ended"
    /\ UNCHANGED <<mode, request, reply, acked, serverVars, semVars, timerVars, faults>>

-----------------------------------------------------------------------------
(* timer_pulse_thread.  SIGEV_PULSE_INIT takes the priority before the code, *)
(* so that 10 is the pulse's priority and 1 its code: no pulse is counted    *)
(* and the clean-up behind the loop is never reached.                        *)

TimerPulse == [priority |-> 10, code |-> 1]

StartTimer ==
    /\ main = "start" /\ mode = "timer"
    /\ main' = "timing"
    /\ UNCHANGED <<mode, request, reply, acked, serverVars, semVars, timerVars, faults>>

\* The channel, the connection or the timer cannot be had.
StartTimerFails ==
    /\ main = "start" /\ mode = "timer"
    /\ Fault
    /\ main' = "ended"
    /\ UNCHANGED <<mode, request, reply, acked, serverVars, semVars, timerVars>>

TimerFires ==
    /\ main = "timing"
    /\ pulses < MaxQueued
    /\ pulses' = pulses + 1
    /\ UNCHANGED <<mode, clientVars, serverVars, semVars, count, faults>>

ReceivePulse ==
    /\ main = "timing"
    /\ count < PulseCount /\ pulses > 0
    /\ pulses' = pulses - 1
    /\ count' = IF TimerPulse.code = 10 THEN count + 1 ELSE count
    /\ UNCHANGED <<mode, clientVars, serverVars, semVars, faults>>

-----------------------------------------------------------------------------
MainStep == \/ StartServer \/ StartFails \/ Connect \/ ConnectFails
            \/ Send \/ SendFails \/ Resume \/ Disconnect \/ Leave
            \/ Spawn \/ Join \/ StartTimer \/ StartTimerFails
ServerStep == Receive \/ Retry \/ Handle \/ Reply
WorkerStep(w) == SemWait(w) \/ Lock(w) \/ Unlock(w) \/ SemPost(w)

Next == MainStep \/ ServerStep \/ ReceiveFails \/ ReplyFails
        \/ (\E w \in Workers : WorkerStep(w) \/ SemWaitFails(w))
        \/ TimerFires \/ ReceivePulse

\* The kernel runs every thread that is ready; no call need fail.
Fairness == WF_vars(MainStep) /\ WF_vars(ServerStep) /\ \A w \in Workers : WF_vars(WorkerStep(w))

Spec == Init /\ [][Next]_vars

FairSpec == Spec /\ Fairness

-----------------------------------------------------------------------------
(* Properties. *)

\* The statistics a client is shown are those of its echoes that succeeded, not one
\* more for a send that failed, a receive that was begun again, or another request.
StatsAreTheEchoes ==
    (request.type = MSG_QUIT /\ reply.stats # NoStats)
    => reply.stats = [messages |-> acked, bytes |-> acked * DataLen, clients |-> 0]

\* A reply is sent for the client that waits and for nothing else: the client is
\* blocked exactly while its message is in the channel or with the server, or was lost
\* by a reply that failed, also when pulses take the server through the same loop.
BlockedIffInFlight ==
    /\ (main = "blocked") = (chan \in {"message", "received", "lost"})
    /\ chan = "received" => server.at \in {"handle", "reply"} /\ server.type = request.type

\* Between its wait and its post a worker has the one unit of the semaphore, or one
\* that a failed sem_wait let it go without: no path of the loop loses a unit, and
\* each failure makes one too many for good, with the post of a unit never taken.
OneUnit ==
    main = "join" =>
        sem + Cardinality({w \in Workers : worker[w].at \in {"lock", "work", "post"}}) = 1 + faults

\* If MsgReceive does not fail for ever, the client and the workers come to their end
\* whatever else fails, but for a client whose reply was lost: nobody waits for a
\* server that has left, for an answer to a pulse, or for a unit that is lost.
DemoEnds ==
    <>[](server.at # "failed")
    => (mode \in {"both", "sem"} ~> main = "ended" \/ chan = "lost")
=============================================================================
