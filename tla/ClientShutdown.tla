--------------------------- MODULE ClientShutdown ---------------------------
(***************************************************************************)
(* How the audio client runs and stops: main() of                          *)
(* backend/audio-client/src/main.rs, the waker thread and the poll of the  *)
(* AudioCollector, around the handlers of AudioClient.                     *)
(*                                                                         *)
(* main() and the actor share one thread: the actor is polled when a waker *)
(* woke it, and main() goes on only between two polls.  A poll takes the   *)
(* datagrams of the server, then payloads until there is no whole one; then*)
(* it sends its waker to the waker thread, which wakes the actor after 1 ms.*)
(* Both channels hold one message; waker_tx.send blocks on a full one.     *)
(*                                                                         *)
(* After the interrupt main() joins the waker thread, which holds up the   *)
(* actor.  A poll that finds the receiver of its waker dropped ends the    *)
(* payload stream.                                                         *)
(***************************************************************************)
EXTENDS AudioClient

VARIABLES
    poll,     \* the poll of the actor: "idle", "datagrams" or "payloads"
    woken,    \* whether the actor was woken and is to be polled
    wakers,   \* wakers in the waker channel
    waker,    \* the waker thread: "select", "sleep" or "gone"
    main,     \* "running", "joining" (waker_thread), "local_join" or "done"
    asleep    \* history: the last waker was dropped with its channel

threads == <<poll, woken, wakers, waker, main, asleep>>
shutdownVars == <<clientVars, threads>>

ShutdownInit ==
    /\ ClientInit
    /\ poll = "idle"
    /\ woken = TRUE
    /\ wakers = 0
    /\ waker = "select"
    /\ main = "running"
    /\ asleep = FALSE

-----------------------------------------------------------------------------
(* The audio thread and the actor *)

Records ==
    /\ main = "running"
    /\ InputData
    /\ UNCHANGED threads

\* A datagram wakes the actor, whoever sent it.
Arrives ==
    /\ phase # "stopped"
    /\ ~woken
    /\ woken' = TRUE
    /\ UNCHANGED <<clientVars, poll, wakers, waker, main, asleep>>

ThreadFree == poll = "idle" /\ main # "joining"

BeginPoll ==
    /\ ThreadFree /\ woken
    /\ phase # "stopped"
    /\ poll' = "datagrams"
    /\ woken' = FALSE
    /\ UNCHANGED <<clientVars, wakers, waker, main, asleep>>

TakesHandshake ==
    /\ poll = "datagrams"
    /\ Handshake
    /\ UNCHANGED threads

\* The datagrams are done; a payload stream that has ended is not polled.
PollsPayloads ==
    /\ poll = "datagrams"
    /\ poll' = IF phase = "running" THEN "payloads" ELSE "idle"
    /\ UNCHANGED <<clientVars, woken, wakers, waker, main, asleep>>

TakesPayload ==
    /\ poll = "payloads"
    /\ TakePayload
    /\ UNCHANGED threads

TakesSample(s) ==
    /\ poll = "payloads"
    /\ ProcessSample(s)
    /\ UNCHANGED threads

\* No whole payload, but the waker thread lives: waker_tx.send.
SendWaker ==
    /\ poll = "payloads" /\ todo = 0 /\ ring < ChunkSize
    /\ waker # "gone"
    /\ wakers = 0
    /\ wakers' = 1
    /\ poll' = "idle"
    /\ UNCHANGED <<clientVars, woken, waker, main, asleep>>

\* The failure of send is taken for a stream that is only pending.
EndPayloadsStaysPending ==
    /\ poll = "payloads" /\ todo = 0 /\ ring < ChunkSize
    /\ waker = "gone"
    /\ poll' = "idle"
    /\ UNCHANGED <<clientVars, woken, wakers, waker, main, asleep>>

\* The receiver of the wakers is gone: Poll::Ready(None), and finished().
EndPayloads ==
    /\ poll = "payloads"
    /\ waker = "gone"
    /\ Finished
    /\ poll' = "idle"
    /\ UNCHANGED <<woken, wakers, waker, main, asleep>>

\* The 10 ms of finished() are over.
Stops ==
    /\ ThreadFree
    /\ Stop
    /\ UNCHANGED threads

-----------------------------------------------------------------------------
(* The waker thread *)

TakeWaker ==
    /\ waker = "select"
    /\ wakers = 1
    /\ wakers' = 0
    /\ waker' = "sleep"
    /\ UNCHANGED <<clientVars, poll, woken, main, asleep>>

\* The waker is dropped after the sleep without being used.
WakeForgotten ==
    /\ waker = "sleep"
    /\ waker' = "select"
    /\ UNCHANGED <<clientVars, poll, woken, wakers, main, asleep>>

\* The sleep is over: wake_by_ref.
Wake ==
    /\ waker = "sleep"
    /\ waker' = "select"
    /\ woken' = TRUE
    /\ UNCHANGED <<clientVars, poll, wakers, main, asleep>>

\* select! takes the terminate message, even if a waker is there as well;
\* what is in the channel is dropped with it and wakes nobody.
TakeTerminate ==
    /\ waker = "select"
    /\ main = "joining"
    /\ waker' = "gone"
    /\ wakers' = 0
    /\ asleep' = (wakers = 1 /\ ~woken)
    /\ UNCHANGED <<clientVars, poll, woken, main>>

-----------------------------------------------------------------------------
(* main() *)

\* The interrupt: pause, terminate_tx.send, and waker_thread.join begins.
Interrupt ==
    /\ main = "running"
    /\ poll = "idle"
    /\ main' = "joining"
    /\ UNCHANGED <<clientVars, poll, woken, wakers, waker, asleep>>

Joined ==
    /\ main = "joining"
    /\ waker = "gone"
    /\ main' = "local_join"
    /\ UNCHANGED <<clientVars, poll, woken, wakers, waker, asleep>>

\* local_join() returns when the actor has stopped.
Exit ==
    /\ main = "local_join"
    /\ phase = "stopped"
    /\ main' = "done"
    /\ UNCHANGED <<clientVars, poll, woken, wakers, waker, asleep>>

-----------------------------------------------------------------------------

Actor ==
    \/ BeginPoll
    \/ PollsPayloads
    \/ TakesPayload
    \/ \E s \in Samples : TakesSample(s)
    \/ SendWaker
    \/ EndPayloads
    \/ Stops

WakerThread == TakeWaker \/ Wake \/ TakeTerminate

MainThread == Joined \/ Exit

ShutdownNext ==
    \/ Records \/ Arrives \/ TakesHandshake
    \/ Actor
    \/ WakerThread
    \/ Interrupt \/ MainThread

ShutdownSpec == ShutdownInit /\ [][ShutdownNext]_shutdownVars

\* The threads keep running, and the timer of finished() is looked at by every
\* poll, however many datagrams come.  Nothing is assumed of the microphone, of
\* the server, of the user, or of the choice of select!.
ShutdownFairSpec ==
    /\ ShutdownSpec
    /\ WF_shutdownVars(Actor)
    /\ SF_shutdownVars(Stops)
    /\ WF_shutdownVars(WakerThread)
    /\ WF_shutdownVars(MainThread)

-----------------------------------------------------------------------------
(* Properties *)

ThreadsTypeOK ==
    /\ poll \in {"idle", "datagrams", "payloads"}
    /\ woken \in BOOLEAN /\ asleep \in BOOLEAN
    /\ wakers \in 0 .. 1
    /\ waker \in {"select", "sleep", "gone"}
    /\ main \in {"running", "joining", "local_join", "done"}

\* Who will poll the payload stream again: the actor is polled or woken, or
\* its waker is on its way through the waker thread.
PollComing ==
    woken \/ poll # "idle" \/ wakers = 1 \/ waker = "sleep"

\* The waker goes round between two threads and is never lost, however
\* datagrams add polls of their own, until the terminate message overtakes it:
\* a running stream is polled again, so that samples do not pile up unread.
StreamPolledAgain == phase = "running" /\ ~asleep => PollComing

\* An interrupt ends the client, unless select! preferred the terminate
\* message to a waker that was due.
BoundReached == ~Stream!Budget(sink)

InterruptEndsClient ==
    main = "joining" ~> main = "done" \/ asleep \/ BoundReached
=============================================================================
