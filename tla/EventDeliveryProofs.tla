------------------------ MODULE EventDeliveryProofs ------------------------
(***************************************************************************)
(* The event queue of the firmware, for every set of events, capacity and  *)
(* history of failures: while the queue has not overflowed a reconnect that*)
(* is announced is on its way and no event is forgotten; a deleted buffer  *)
(* is never touched again, overflow or not; three slots more than there are*)
(* events are enough; and a response is taken for the event it answers.    *)
(***************************************************************************)
EXTENDS EventDelivery, SequenceTheorems, FiniteSetTheorems, TLAPS

\* The types of the device's variables.
DeviceTypeOK ==
    /\ produced \subseteq Events
    /\ queue \in Seq(Callbacks)
    /\ current \in Callbacks \cup {Idle}
    /\ timer \in BOOLEAN /\ waiting \in BOOLEAN
    /\ connecting \in BOOLEAN /\ overflowed \in BOOLEAN
    /\ freed \subseteq produced
    /\ waiting => current.cb = "send"

\* Only events the tracker handed over are held.
HeldProduced == \A e \in Events : Held(SendCb(e)) => e \in produced

DeviceInv ==
    DeviceTypeOK /\ HeldProduced /\ ReconnectPending /\ NothingForgotten /\ FreedOnce

-----------------------------------------------------------------------------
(* Callbacks and sequences of callbacks *)

LEMMA CallbackFacts ==
    /\ ConnectCb \in Callbacks /\ ConnectCb.cb = "connect" /\ Idle.cb = "idle"
    /\ \A e \in Events : SendCb(e) \in Callbacks /\ SendCb(e).cb = "send" /\ SendCb(e).ev = e
    /\ Idle \notin Callbacks
    /\ \A c \in Callbacks : c # ConnectCb => c.cb = "send" /\ c.ev \in Events /\ c = SendCb(c.ev)
  <1>1. ConnectCb \in Callbacks /\ ConnectCb.cb = "connect" /\ Idle.cb = "idle"
    BY DEF Callbacks, ConnectCb, Idle
  <1>2. ASSUME NEW e \in Events
        PROVE  SendCb(e) \in Callbacks /\ SendCb(e).cb = "send" /\ SendCb(e).ev = e
    BY <1>2 DEF Callbacks, SendCb
  <1>3. ASSUME NEW c \in Callbacks, c # ConnectCb
        PROVE  c.cb = "send" /\ c.ev \in Events /\ c = SendCb(c.ev)
    <2>1. PICK e \in Events : c = SendCb(e)
      BY <1>3 DEF Callbacks
    <2> QED BY <1>2, <2>1
  <1>4. Idle \notin Callbacks
    BY <1>1, <1>3
  <1> QED BY <1>1, <1>2, <1>3, <1>4

LEMMA QueuedAppend ==
    ASSUME NEW S, NEW q \in Seq(S), NEW c \in S, NEW b
    PROVE  Queued(Append(q, c), b) <=> Queued(q, b) \/ b = c
  <1>1. /\ Append(q, c) \in Seq(S) /\ Len(Append(q, c)) = Len(q) + 1 /\ Len(q) \in Nat
        /\ Append(q, c)[Len(q) + 1] = c
        /\ \A i \in 1 .. Len(q) : Append(q, c)[i] = q[i]
    BY AppendProperties
  <1> DEFINE r == Append(q, c)
  <1> HIDE DEF r
  <1> QED BY <1>1 DEF Queued, r

LEMMA QueuedTail ==
    ASSUME NEW S, NEW q \in Seq(S), q # << >>, NEW b
    PROVE  Queued(q, b) <=> Queued(Tail(q), b) \/ b = Head(q)
  <1>1. /\ Head(q) = q[1] /\ Len(q) \in Nat \ {0} /\ Len(Tail(q)) = Len(q) - 1
        /\ \A i \in 1 .. Len(q) - 1 : Tail(q)[i] = q[i + 1]
    BY EmptySeq, HeadTailProperties
  <1> DEFINE t == Tail(q)
  <1> HIDE DEF t
  <1>2. ASSUME Queued(t, b) PROVE Queued(q, b)
    BY <1>1, <1>2 DEF Queued, t
  <1>3. ASSUME b = Head(q) PROVE Queued(q, b)
    BY <1>1, <1>3 DEF Queued
  <1>4. ASSUME Queued(q, b), b # Head(q) PROVE Queued(t, b)
    <2>1. PICK i \in 1 .. Len(q) : q[i] = b
      BY <1>4 DEF Queued
    <2>2. i # 1
      BY <1>1, <1>4, <2>1
    <2>3. i - 1 \in 1 .. Len(t) /\ t[i - 1] = b
      BY <1>1, <2>1, <2>2 DEF t
    <2> QED BY <2>3 DEF Queued
  <1> QED BY <1>2, <1>3, <1>4 DEF t

LEMMA OnceAppend ==
    ASSUME NEW S, NEW q \in Seq(S), NEW c \in S, NoSendTwice(q),
           c = ConnectCb \/ ~Queued(q, c)
    PROVE  NoSendTwice(Append(q, c))
  <1>1. /\ Len(Append(q, c)) = Len(q) + 1 /\ Len(q) \in Nat
        /\ Append(q, c)[Len(q) + 1] = c
        /\ \A i \in 1 .. Len(q) : Append(q, c)[i] = q[i]
    BY AppendProperties
  <1> DEFINE r == Append(q, c)
  <1> HIDE DEF r
  <1> SUFFICES ASSUME NEW i \in 1 .. Len(r), NEW j \in 1 .. Len(r), i # j, r[i] = r[j]
               PROVE  r[i] = ConnectCb
    BY DEF NoSendTwice, r
  <1>2. CASE i \in 1 .. Len(q) /\ j \in 1 .. Len(q)
    BY <1>1, <1>2 DEF NoSendTwice, r
  <1>3. CASE ~(i \in 1 .. Len(q) /\ j \in 1 .. Len(q))
    BY <1>1, <1>3 DEF Queued, r
  <1> QED BY <1>2, <1>3

LEMMA OnceTail ==
    ASSUME NEW S, NEW q \in Seq(S), q # << >>, NoSendTwice(q)
    PROVE  /\ NoSendTwice(Tail(q))
           /\ Head(q) # ConnectCb => ~Queued(Tail(q), Head(q))
  <1>1. /\ Head(q) = q[1] /\ Len(q) \in Nat \ {0} /\ Len(Tail(q)) = Len(q) - 1
        /\ \A i \in 1 .. Len(q) - 1 : Tail(q)[i] = q[i + 1]
    BY EmptySeq, HeadTailProperties
  <1> DEFINE t == Tail(q)
  <1> HIDE DEF t
  <1>2. NoSendTwice(t)
    <2> SUFFICES ASSUME NEW i \in 1 .. Len(t), NEW j \in 1 .. Len(t), i # j, t[i] = t[j]
                 PROVE  t[i] = ConnectCb
      BY DEF NoSendTwice
    <2>1. i + 1 \in 1 .. Len(q) /\ j + 1 \in 1 .. Len(q) /\ i + 1 # j + 1
      BY <1>1 DEF t
    <2>2. t[i] = q[i + 1] /\ t[j] = q[j + 1]
      BY <1>1 DEF t
    <2> QED BY <2>1, <2>2 DEF NoSendTwice
  <1>3. ASSUME Head(q) # ConnectCb, NEW i \in 1 .. Len(t), t[i] = Head(q)
        PROVE  FALSE
    <2>1. i + 1 \in 1 .. Len(q) /\ 1 \in 1 .. Len(q) /\ i + 1 # 1
      BY <1>1 DEF t
    <2>2. q[i + 1] = q[1]
      BY <1>1, <1>3 DEF t
    <2> QED BY <1>1, <1>3, <2>1, <2>2 DEF NoSendTwice
  <1> QED BY <1>2, <1>3 DEF Queued, t

\* EventQueue::call appends or does nothing.
LEMMA CallFacts ==
    ASSUME NEW q \in Seq(Callbacks), NEW c \in Callbacks
    PROVE  /\ Call(q, c) \in Seq(Callbacks)
           /\ \A b : Queued(Call(q, c), b) => Queued(q, b) \/ b = c
           /\ \A b : Queued(q, b) => Queued(Call(q, c), b)
           /\ ~Full(q) => Queued(Call(q, c), c)
           /\ NoSendTwice(q) /\ (c = ConnectCb \/ ~Queued(q, c)) => NoSendTwice(Call(q, c))
  <1>1. CASE Full(q)
    BY <1>1 DEF Call
  <1>2. CASE ~Full(q)
    <2>1. Call(q, c) = Append(q, c)
      BY <1>2 DEF Call
    <2>2. Append(q, c) \in Seq(Callbacks)
      BY AppendProperties
    <2>3. \A b : Queued(Append(q, c), b) <=> Queued(q, b) \/ b = c
      BY QueuedAppend
    <2>4. NoSendTwice(q) /\ (c = ConnectCb \/ ~Queued(q, c)) => NoSendTwice(Append(q, c))
      BY OnceAppend
    <2> QED BY <2>1, <2>2, <2>3, <2>4
  <1> QED BY <1>1, <1>2

-----------------------------------------------------------------------------
(* One lemma per operation of the device *)

LEMMA ProduceStep ==
    ASSUME DeviceInv, NEW e \in Events, Produce(e)
    PROVE  DeviceInv'
  <1>1. /\ e \notin produced /\ produced' = produced \cup {e}
        /\ queue' = Call(queue, SendCb(e)) /\ overflowed' = (overflowed \/ Full(queue))
        /\ UNCHANGED <<timer, current, waiting, connecting, freed>>
    BY DEF Produce
  <1>2. SendCb(e) \in Callbacks /\ SendCb(e) # ConnectCb /\ queue \in Seq(Callbacks)
    BY CallbackFacts DEF DeviceInv, DeviceTypeOK
  <1>3. ~Held(SendCb(e)) /\ e \notin freed
    BY <1>1 DEF DeviceInv, DeviceTypeOK, HeldProduced
  <1>4. /\ queue' \in Seq(Callbacks)
        /\ \A b : Queued(queue', b) => Queued(queue, b) \/ b = SendCb(e)
        /\ \A b : Queued(queue, b) => Queued(queue', b)
        /\ ~Full(queue) => Queued(queue', SendCb(e))
        /\ NoSendTwice(queue')
    BY <1>1, <1>2, <1>3, CallFacts DEF DeviceInv, FreedOnce, Held
  <1>5. \A f \in Events : SendCb(f) = SendCb(e) => f = e
    BY CallbackFacts
  <1>6. DeviceTypeOK'
    BY <1>1, <1>4 DEF DeviceInv, DeviceTypeOK, Full, Slots
  <1>7. HeldProduced'
    BY <1>1, <1>4, <1>5 DEF DeviceInv, HeldProduced, Held
  <1>8. ReconnectPending'
    BY <1>1, <1>4 DEF DeviceInv, ReconnectPending, Held
  <1>9. NothingForgotten'
    BY <1>1, <1>4 DEF DeviceInv, NothingForgotten, Held
  <1>10. FreedOnce'
    <2>1. current.cb = "send" => ~Queued(queue', current)
      BY <1>3, <1>4 DEF DeviceInv, FreedOnce, Held
    <2>2. \A f \in freed : ~Queued(queue', SendCb(f)) /\ current # SendCb(f)
      BY <1>3, <1>4, <1>5 DEF DeviceInv, DeviceTypeOK, FreedOnce, Held
    <2> QED BY <1>1, <1>4, <2>1, <2>2 DEF FreedOnce, Held
  <1> QED BY <1>6, <1>7, <1>8, <1>9, <1>10 DEF DeviceInv

LEMMA TimerStep ==
    ASSUME DeviceInv, TimerFires
    PROVE  DeviceInv'
  <1>1. /\ queue' = Append(queue, ConnectCb) /\ timer' = FALSE
        /\ UNCHANGED <<produced, current, waiting, connecting, freed, overflowed>>
    BY DEF TimerFires
  <1>2. ConnectCb \in Callbacks /\ queue \in Seq(Callbacks)
        /\ \A e \in Events : SendCb(e) # ConnectCb
    BY CallbackFacts DEF DeviceInv, DeviceTypeOK
  <1>3. /\ queue' \in Seq(Callbacks)
        /\ \A b : Queued(queue', b) <=> Queued(queue, b) \/ b = ConnectCb
        /\ NoSendTwice(queue')
    BY <1>1, <1>2, AppendProperties, QueuedAppend, OnceAppend DEF DeviceInv, FreedOnce
  <1>4. DeviceTypeOK'
    BY <1>1, <1>3 DEF DeviceInv, DeviceTypeOK
  <1>5. HeldProduced' /\ ReconnectPending' /\ NothingForgotten'
    BY <1>1, <1>2, <1>3
       DEF DeviceInv, HeldProduced, ReconnectPending, NothingForgotten, Held
  <1>6. FreedOnce'
    <2>1. current.cb = "send" => ~Queued(queue', current)
      BY <1>3, CallbackFacts DEF DeviceInv, FreedOnce
    <2>2. \A f \in freed : ~Queued(queue', SendCb(f)) /\ current # SendCb(f)
      BY <1>2, <1>3 DEF DeviceInv, DeviceTypeOK, FreedOnce, Held
    <2> QED BY <1>1, <1>3, <2>1, <2>2 DEF FreedOnce, Held
  <1> QED BY <1>4, <1>5, <1>6 DEF DeviceInv

LEMMA DispatchStep ==
    ASSUME DeviceInv, Dispatch
    PROVE  DeviceInv'
  <1>1. /\ current = Idle /\ queue # << >>
        /\ current' = Head(queue) /\ queue' = Tail(queue)
        /\ UNCHANGED <<produced, timer, waiting, connecting, freed, overflowed>>
    BY DEF Dispatch
  <1>2. queue \in Seq(Callbacks) /\ NoSendTwice(queue)
    BY DEF DeviceInv, DeviceTypeOK, FreedOnce
  <1>3. Head(queue) \in Callbacks /\ Tail(queue) \in Seq(Callbacks)
    BY <1>1, <1>2, HeadTailProperties
  <1>4. \A b : Queued(queue, b) <=> Queued(queue', b) \/ b = current'
    BY <1>1, <1>2, QueuedTail
  <1>5. /\ NoSendTwice(queue')
        /\ current' # ConnectCb => ~Queued(queue', current')
    BY <1>1, <1>2, OnceTail
  <1>6. ~waiting
    BY <1>1, CallbackFacts DEF DeviceInv, DeviceTypeOK
  <1>7. \A b \in Callbacks : Held(b) <=> Queued(queue', b) \/ current' = b
    BY <1>1, <1>4, CallbackFacts DEF Held
  <1>8. DeviceTypeOK'
    BY <1>1, <1>3, <1>6 DEF DeviceInv, DeviceTypeOK
  <1>9. HeldProduced' /\ ReconnectPending' /\ NothingForgotten'
    <2>1. \A e \in Events : SendCb(e) \in Callbacks
      BY CallbackFacts
    <2>2. HeldProduced'
      BY <1>1, <1>7, <2>1 DEF DeviceInv, HeldProduced, Held
    <2>3. ReconnectPending'
      BY <1>1, <1>7, CallbackFacts DEF DeviceInv, ReconnectPending, Held
    <2>4. NothingForgotten'
      BY <1>1, <1>7, <2>1 DEF DeviceInv, DeviceTypeOK, NothingForgotten, Held
    <2> QED BY <2>2, <2>3, <2>4
  <1>10. FreedOnce'
    <2>1. current'.cb = "send" => ~Queued(queue', current')
      BY <1>5, CallbackFacts
    <2>2. \A f \in freed : ~Queued(queue', SendCb(f)) /\ current' # SendCb(f)
      BY <1>7, CallbackFacts DEF DeviceInv, DeviceTypeOK, FreedOnce
    <2> QED BY <1>1, <1>5, <2>1, <2>2 DEF FreedOnce, Held
  <1> QED BY <1>8, <1>9, <1>10 DEF DeviceInv

LEMMA ConnectStep ==
    ASSUME DeviceInv, Connect
    PROVE  DeviceInv'
  <1>1. /\ current = ConnectCb /\ current' = Idle /\ connecting' = FALSE
        /\ UNCHANGED <<produced, queue, timer, waiting, freed, overflowed>>
    BY DEF Connect
  <1>2. /\ \A e \in Events : SendCb(e) # ConnectCb /\ SendCb(e) # Idle
        /\ Idle.cb # "send" /\ ConnectCb.cb # "send"
    BY CallbackFacts
  <1>3. DeviceTypeOK' /\ ReconnectPending'
    BY <1>1, <1>2 DEF DeviceInv, DeviceTypeOK, ReconnectPending
  <1>4. HeldProduced' /\ NothingForgotten'
    BY <1>1, <1>2 DEF DeviceInv, DeviceTypeOK, HeldProduced, NothingForgotten, Held
  <1>5. FreedOnce'
    BY <1>1, <1>2 DEF DeviceInv, DeviceTypeOK, FreedOnce, Held
  <1> QED BY <1>3, <1>4, <1>5 DEF DeviceInv

LEMMA ResponseStep ==
    ASSUME DeviceInv, Response
    PROVE  DeviceInv'
  <1>1. /\ waiting /\ current' = Idle /\ waiting' = FALSE
        /\ freed' = freed \cup {current.ev}
        /\ UNCHANGED <<produced, queue, timer, connecting, overflowed>>
    BY DEF Response
  <1>2. current.cb = "send" /\ current \in Callbacks \cup {Idle}
    BY <1>1 DEF DeviceInv, DeviceTypeOK
  <1>3. current.ev \in Events /\ current = SendCb(current.ev)
    BY <1>2, CallbackFacts
  <1>4. current.ev \in produced
    BY <1>3 DEF DeviceInv, HeldProduced, Held
  <1>5. \A e \in Events : SendCb(e) # Idle /\ (SendCb(e) = current => e = current.ev)
    BY <1>3, CallbackFacts
  <1>6. ConnectCb # current
    BY <1>2, CallbackFacts
  <1>7. DeviceTypeOK'
    BY <1>1, <1>4 DEF DeviceInv, DeviceTypeOK
  <1>8. HeldProduced'
    BY <1>1, <1>5 DEF DeviceInv, HeldProduced, Held
  <1>9. ReconnectPending'
    BY <1>1, <1>6 DEF DeviceInv, ReconnectPending, Held
  <1>10. NothingForgotten'
    BY <1>1, <1>5 DEF DeviceInv, DeviceTypeOK, NothingForgotten, Held
  <1>11. FreedOnce'
    <2>1. Idle.cb # "send"
      BY CallbackFacts
    <2>2. ~Queued(queue, current)
      BY <1>2 DEF DeviceInv, FreedOnce
    <2>3. \A f \in freed' : ~Queued(queue, SendCb(f)) /\ SendCb(f) # Idle
      BY <1>1, <1>3, <1>5, <2>2 DEF DeviceInv, DeviceTypeOK, FreedOnce, Held
    <2> QED BY <1>1, <2>1, <2>3 DEF DeviceInv, FreedOnce, Held
  <1> QED BY <1>7, <1>8, <1>9, <1>10, <1>11 DEF DeviceInv

LEMMA RetryStep ==
    ASSUME DeviceInv, current.cb = "send", Retry
    PROVE  DeviceInv'
  <1> DEFINE q == IF connecting THEN queue ELSE Call(queue, ConnectCb)
  <1>1. /\ queue' = Call(q, current)
        /\ overflowed' = (overflowed \/ (~connecting /\ Full(queue)) \/ Full(q))
        /\ connecting' = TRUE /\ waiting' = FALSE /\ current' = Idle
        /\ UNCHANGED <<produced, timer, freed>>
    BY DEF Retry
  <1>2. /\ current \in Callbacks /\ current.ev \in Events /\ current = SendCb(current.ev)
        /\ current # ConnectCb
    BY CallbackFacts DEF DeviceInv, DeviceTypeOK
  <1>3. queue \in Seq(Callbacks) /\ NoSendTwice(queue) /\ ~Queued(queue, current)
    BY DEF DeviceInv, DeviceTypeOK, FreedOnce
  <1>4. /\ q \in Seq(Callbacks) /\ NoSendTwice(q)
        /\ \A b : Queued(q, b) => Queued(queue, b) \/ b = ConnectCb
        /\ \A b : Queued(queue, b) => Queued(q, b)
        /\ ~connecting /\ ~Full(queue) => Queued(q, ConnectCb)
    <2>1. CASE connecting
      BY <1>3, <2>1
    <2>2. CASE ~connecting
      BY <1>3, <2>2, CallFacts, CallbackFacts
    <2> QED BY <2>1, <2>2
  <1>5. Full(q) \in BOOLEAN /\ Full(queue) \in BOOLEAN
    BY DEF Full
  <1> HIDE DEF q
  <1>6. ~Queued(q, current)
    BY <1>2, <1>3, <1>4
  <1>7. /\ queue' \in Seq(Callbacks) /\ NoSendTwice(queue')
        /\ \A b : Queued(queue', b) => Queued(q, b) \/ b = current
        /\ \A b : Queued(q, b) => Queued(queue', b)
        /\ ~Full(q) => Queued(queue', current)
    BY <1>1, <1>2, <1>4, <1>6, CallFacts
  <1>8. \A b : Queued(queue', b) => Queued(queue, b) \/ b = ConnectCb \/ b = current
    BY <1>4, <1>7
  <1>9. \A b : Queued(queue, b) => Queued(queue', b)
    BY <1>4, <1>7
  <1>10. \A e \in Events : SendCb(e) # Idle /\ SendCb(e) # ConnectCb
    BY CallbackFacts
  <1>11. DeviceTypeOK'
    BY <1>1, <1>5, <1>7 DEF DeviceInv, DeviceTypeOK
  <1>12. HeldProduced'
    BY <1>1, <1>8, <1>10 DEF DeviceInv, HeldProduced, Held
  <1>13. ReconnectPending'
    <2>1. ~overflowed' => Queued(queue', ConnectCb)
      BY <1>1, <1>2, <1>4, <1>7, <1>9 DEF DeviceInv, ReconnectPending, Held
    <2> QED BY <2>1 DEF ReconnectPending, Held
  <1>14. NothingForgotten'
    <2>1. ~overflowed' => Queued(queue', current)
      BY <1>1, <1>7
    <2>2. ~overflowed' => ~overflowed
      BY <1>1
    <2> QED BY <1>1, <1>9, <2>1, <2>2 DEF DeviceInv, NothingForgotten, Held
  <1>15. FreedOnce'
    <2>1. Idle.cb # "send"
      BY CallbackFacts
    <2>2. \A f \in freed : ~Queued(queue', SendCb(f)) /\ SendCb(f) # Idle
      BY <1>8, <1>10 DEF DeviceInv, DeviceTypeOK, FreedOnce, Held
    <2> QED BY <1>1, <1>7, <2>1, <2>2 DEF FreedOnce, Held
  <1> QED BY <1>11, <1>12, <1>13, <1>14, <1>15 DEF DeviceInv

LEMMA DeviceUnchanged ==
    ASSUME DeviceInv,
           UNCHANGED <<produced, queue, timer, current, connecting, freed, overflowed>>,
           waiting' = waiting \/ (waiting' = TRUE /\ current.cb = "send")
    PROVE  DeviceInv'
  <1>1. DeviceTypeOK'
    <2>1. waiting' \in BOOLEAN /\ (waiting' => current'.cb = "send")
      <3>1. CASE waiting' = waiting
        BY <3>1 DEF DeviceInv, DeviceTypeOK
      <3>2. CASE waiting' = TRUE /\ current.cb = "send"
        BY <3>2
      <3> QED BY <3>1, <3>2
    <2> QED BY <2>1 DEF DeviceInv, DeviceTypeOK
  <1>2. HeldProduced' /\ ReconnectPending' /\ NothingForgotten' /\ FreedOnce'
    BY DEF DeviceInv, HeldProduced, ReconnectPending, NothingForgotten, FreedOnce, Held,
           Queued, NoSendTwice
  <1> QED BY <1>1, <1>2 DEF DeviceInv

LEMMA DeviceInitInv == Init => DeviceInv
  <1> SUFFICES ASSUME Init
               PROVE  DeviceInv
    OBVIOUS
  <1>1. Idle.cb # "send" /\ \A e \in Events : SendCb(e) # Idle
    BY CallbackFacts
  <1>2. \A b : ~Queued(queue, b)
    BY DEF Init, Queued
  <1>3. DeviceTypeOK
    <2>1. queue \in Seq(Callbacks)
      BY EmptySeq DEF Init
    <2> QED BY <2>1 DEF Init, DeviceTypeOK
  <1>5. HeldProduced
    BY <1>1, <1>2 DEF Init, HeldProduced, Held
  <1>4. ReconnectPending /\ NothingForgotten /\ FreedOnce
    BY <1>1, <1>2 DEF Init, ReconnectPending, NothingForgotten, FreedOnce, NoSendTwice
  <1> QED BY <1>3, <1>4, <1>5 DEF DeviceInv

LEMMA DeviceStep == DeviceInv /\ [Next]_vars => DeviceInv'
  <1> SUFFICES ASSUME DeviceInv, [Next]_vars
               PROVE  DeviceInv'
    OBVIOUS
  <1>1. ASSUME NEW e \in Events, Produce(e) PROVE DeviceInv'
    BY <1>1, ProduceStep
  <1>2. ASSUME NEW e \in Events, Store(e) PROVE DeviceInv'
    BY <1>2, DeviceUnchanged DEF Store, device
  <1>3. CASE TimerFires
    BY <1>3, TimerStep
  <1>4. CASE Dispatch
    BY <1>4, DispatchStep
  <1>5. CASE Connect
    BY <1>5, ConnectStep
  <1>6. CASE Send
    BY <1>6, DeviceUnchanged DEF Send
  <1>7. CASE Response
    BY <1>7, ResponseStep
  <1>8. CASE LinkDown
    BY <1>8, RetryStep DEF LinkDown
  <1>9. CASE SendFails
    BY <1>9, RetryStep DEF SendFails
  <1>10. CASE ResponseTimeout
    <2>1. current.cb = "send"
      BY <1>10 DEF ResponseTimeout, DeviceInv, DeviceTypeOK
    <2> QED BY <1>10, <2>1, RetryStep DEF ResponseTimeout
  <1>11. CASE Break
    BY <1>11, DeviceUnchanged DEF Break, device
  <1>12. CASE BackendRestarts \/ EventServerStops
    BY <1>12, DeviceUnchanged DEF BackendRestarts, EventServerStops, device
  <1>13. CASE Reads
    BY <1>13, DeviceUnchanged DEF Reads, Read, device
  <1>14. CASE Authenticates
    BY <1>14, DeviceUnchanged DEF Authenticates, Authenticate, device
  <1>15. CASE UNCHANGED vars
    BY <1>15, DeviceUnchanged DEF vars, device
  <1> QED BY <1>1, <1>2, <1>3, <1>4, <1>5, <1>6, <1>7, <1>8, <1>9, <1>10, <1>11,
             <1>12, <1>13, <1>14, <1>15 DEF Next

LEMMA DeviceInvariant == Spec => []DeviceInv
  BY DeviceInitInv, DeviceStep, PTL DEF Spec

-----------------------------------------------------------------------------
(* How full the event queue gets *)

\* A connect beyond the one of the constructor is called for by _connecting:
\* the strengthening of BoundedConnects.
ConnectsCounted == Connects <= 1 + (IF connecting THEN 1 ELSE 0)

LEMMA ConnectsFinite ==
    ASSUME NEW q \in Seq(Callbacks)
    PROVE  /\ IsFiniteSet(ConnectsAt(q)) /\ Cardinality(ConnectsAt(q)) \in Nat
           /\ IsFiniteSet(1 .. Len(q)) /\ Cardinality(1 .. Len(q)) = Len(q) /\ Len(q) \in Nat
  <1>1. Len(q) \in Nat
    BY LenProperties
  <1>2. IsFiniteSet(1 .. Len(q)) /\ Cardinality(1 .. Len(q)) = Len(q)
    BY <1>1, FS_Interval
  <1>3. ConnectsAt(q) \in SUBSET (1 .. Len(q))
    BY DEF ConnectsAt
  <1>4. IsFiniteSet(ConnectsAt(q))
    BY <1>2, <1>3, FS_Subset
  <1> QED BY <1>1, <1>2, <1>4, FS_CardinalityType

LEMMA ConnectsAppend ==
    ASSUME NEW q \in Seq(Callbacks), NEW c \in Callbacks
    PROVE  /\ Append(q, c) \in Seq(Callbacks) /\ Len(Append(q, c)) = Len(q) + 1
           /\ Cardinality(ConnectsAt(Append(q, c))) =
                Cardinality(ConnectsAt(q)) + (IF c = ConnectCb THEN 1 ELSE 0)
  <1>1. /\ Append(q, c) \in Seq(Callbacks) /\ Len(Append(q, c)) = Len(q) + 1 /\ Len(q) \in Nat
        /\ Append(q, c)[Len(q) + 1] = c
        /\ \A i \in 1 .. Len(q) : Append(q, c)[i] = q[i]
    BY AppendProperties
  <1> DEFINE r == Append(q, c)
  <1> HIDE DEF r
  <1>2. CASE c = ConnectCb
    <2>1. ConnectsAt(r) = ConnectsAt(q) \cup {Len(q) + 1} /\ Len(q) + 1 \notin ConnectsAt(q)
      BY <1>1, <1>2 DEF ConnectsAt, r
    <2> QED BY ZenonT(40), <1>1, <1>2, <2>1, ConnectsFinite, FS_AddElement DEF r
  <1>3. CASE c # ConnectCb
    <2>1. ConnectsAt(r) = ConnectsAt(q)
      BY <1>1, <1>3 DEF ConnectsAt, r
    <2> QED BY <1>1, <1>3, <2>1, ConnectsFinite DEF r
  <1> QED BY <1>2, <1>3

LEMMA ConnectsTail ==
    ASSUME NEW q \in Seq(Callbacks), q # << >>
    PROVE  Cardinality(ConnectsAt(q)) =
             Cardinality(ConnectsAt(Tail(q))) + (IF Head(q) = ConnectCb THEN 1 ELSE 0)
  <1>1. /\ Head(q) = q[1] /\ Len(q) \in Nat \ {0} /\ Len(Tail(q)) = Len(q) - 1
        /\ Tail(q) \in Seq(Callbacks)
        /\ \A i \in 1 .. Len(q) - 1 : Tail(q)[i] = q[i + 1]
    BY EmptySeq, HeadTailProperties
  <1> DEFINE t == Tail(q)
             f == [i \in ConnectsAt(t) |-> i + 1]
  <1> HIDE DEF t
  <1>2. f \in Bijection(ConnectsAt(t), ConnectsAt(q) \ {1})
    <2>1. \A i \in ConnectsAt(t) : i \in 1 .. Len(q) - 1 /\ q[i + 1] = ConnectCb
      BY <1>1 DEF ConnectsAt, t
    <2>2. f \in [ConnectsAt(t) -> ConnectsAt(q) \ {1}]
      BY <1>1, <2>1 DEF ConnectsAt
    <2>3. \A i, j \in ConnectsAt(t) : f[i] = f[j] => i = j
      BY <1>1, <2>1
    <2>4. ASSUME NEW j \in ConnectsAt(q) \ {1} PROVE \E i \in ConnectsAt(t) : f[i] = j
      <3>1. j - 1 \in ConnectsAt(t)
        BY <1>1 DEF ConnectsAt, t
      <3> QED BY <3>1 DEF ConnectsAt
    <2> QED BY <2>2, <2>3, <2>4 DEF Bijection, Injection, Surjection, IsInjective
  <1>3. IsFiniteSet(ConnectsAt(t)) /\ IsFiniteSet(ConnectsAt(q))
    BY <1>1, ConnectsFinite DEF t
  <1>4. Cardinality(ConnectsAt(q) \ {1}) = Cardinality(ConnectsAt(t))
    BY <1>2, <1>3, FS_Bijection DEF ExistsBijection
  <1>5. 1 \in ConnectsAt(q) <=> Head(q) = ConnectCb
    BY <1>1 DEF ConnectsAt
  <1>6. Cardinality(ConnectsAt(q)) \in Nat /\ Cardinality(ConnectsAt(t)) \in Nat
    BY <1>3, FS_CardinalityType
  <1>7. Cardinality(ConnectsAt(q) \ {1}) =
          IF 1 \in ConnectsAt(q) THEN Cardinality(ConnectsAt(q)) - 1 ELSE Cardinality(ConnectsAt(q))
    BY <1>3, FS_RemoveElement
  <1> QED BY <1>4, <1>5, <1>6, <1>7 DEF t

LEMMA ConnectsCall ==
    ASSUME NEW q \in Seq(Callbacks), NEW c \in Callbacks
    PROVE  /\ Call(q, c) \in Seq(Callbacks) /\ Len(Call(q, c)) <= Len(q) + 1
           /\ Cardinality(ConnectsAt(Call(q, c))) <=
                Cardinality(ConnectsAt(q)) + (IF c = ConnectCb THEN 1 ELSE 0)
  <1>1. CASE Full(q)
    BY <1>1, ConnectsFinite DEF Call
  <1>2. CASE ~Full(q)
    BY <1>2, ConnectsAppend, ConnectsFinite DEF Call
  <1> QED BY <1>1, <1>2

\* Every send_callback that is queued or runs has an event of its own.
LEMMA SendsCounted ==
    ASSUME DeviceInv, IsFiniteSet(Events)
    PROVE  /\ Cardinality(produced) \in Nat
           /\ Len(queue) + (IF current.cb = "send" THEN 1 ELSE 0)
                <= Cardinality(ConnectsAt(queue)) + Cardinality(produced)
  <1> DEFINE n == 1 .. Len(queue)
             S == n \ ConnectsAt(queue)
             T == IF current.cb = "send" THEN produced \ {current.ev} ELSE produced
             f == [i \in S |-> queue[i].ev]
  <1>1. queue \in Seq(Callbacks) /\ current \in Callbacks \cup {Idle} /\ produced \subseteq Events
    BY DEF DeviceInv, DeviceTypeOK
  <1>2. /\ IsFiniteSet(n) /\ Cardinality(n) = Len(queue) /\ Len(queue) \in Nat
        /\ IsFiniteSet(ConnectsAt(queue)) /\ Cardinality(ConnectsAt(queue)) \in Nat
    BY <1>1, ConnectsFinite
  <1>3. IsFiniteSet(produced) /\ Cardinality(produced) \in Nat
    BY <1>1, FS_Subset, FS_CardinalityType
  <1>4. ASSUME NEW i \in S
        PROVE  /\ queue[i] = SendCb(queue[i].ev) /\ queue[i].ev \in T
               /\ Queued(queue, queue[i]) /\ queue[i] # ConnectCb
    <2>1. queue[i] \in Callbacks /\ queue[i] # ConnectCb
      BY <1>1, <1>2, ElementOfSeq DEF ConnectsAt
    <2>2. queue[i].ev \in Events /\ queue[i] = SendCb(queue[i].ev)
      BY <2>1, CallbackFacts
    <2>3. Queued(queue, queue[i])
      BY DEF Queued
    <2>4. queue[i].ev \in produced
      BY <2>2, <2>3 DEF DeviceInv, HeldProduced, Held
    <2>5. current.cb = "send" => current = SendCb(current.ev) /\ ~Queued(queue, current)
      BY <1>1, CallbackFacts DEF DeviceInv, FreedOnce
    <2> QED BY <2>1, <2>2, <2>3, <2>4, <2>5
  <1>5. f \in Injection(S, T)
    <2>1. f \in [S -> T]
      BY <1>4
    <2>2. ASSUME NEW i \in S, NEW j \in S, f[i] = f[j] PROVE i = j
      <3>1. queue[i] = queue[j] /\ queue[i] # ConnectCb
        BY <1>4, <2>2
      <3> QED BY <3>1 DEF DeviceInv, FreedOnce, NoSendTwice
    <2> QED BY <2>1, <2>2 DEF Injection, IsInjective
  <1>6. /\ IsFiniteSet(T)
        /\ Cardinality(T) = Cardinality(produced) - (IF current.cb = "send" THEN 1 ELSE 0)
    <2>1. ASSUME current.cb = "send" PROVE current.ev \in produced
      <3>1. current.ev \in Events /\ current = SendCb(current.ev)
        BY <1>1, <2>1, CallbackFacts
      <3> QED BY <3>1 DEF DeviceInv, HeldProduced, Held
    <2>2. CASE current.cb = "send"
      <3>1. T = produced \ {current.ev}
        BY <2>2
      <3>2. /\ IsFiniteSet(produced \ {current.ev})
            /\ Cardinality(produced \ {current.ev}) = Cardinality(produced) - 1
        BY <1>3, <2>1, <2>2, FS_RemoveElement
      <3> QED BY <2>2, <3>1, <3>2
    <2>3. CASE current.cb # "send"
      BY <1>3, <2>3
    <2> QED BY <2>2, <2>3
  <1>7. IsFiniteSet(S) /\ Cardinality(S) <= Cardinality(T)
    <2> HIDE DEF S, T, f
    <2> QED BY <1>5, <1>6, FS_Injection
  <1>8. Cardinality(S) = Len(queue) - Cardinality(ConnectsAt(queue))
    <2>1. n \cap ConnectsAt(queue) = ConnectsAt(queue)
      BY DEF ConnectsAt
    <2>2. Cardinality(S) = Cardinality(n) - Cardinality(n \cap ConnectsAt(queue))
      BY <1>2, FS_Difference
    <2> QED BY <1>2, <2>1, <2>2
  <1> HIDE DEF S, T, f
  <1> QED BY <1>2, <1>3, <1>6, <1>7, <1>8

LEMMA SlotsGrow ==
    ASSUME NEW q, NEW r, Len(q) \in Nat, Len(r) = Len(q) + 1
    PROVE  Slots(q) \in Nat /\ Slots(r) = Slots(q) + 1
  <1> DEFINE t == IF timer THEN 1 ELSE 0
             c == IF current # Idle THEN 1 ELSE 0
  <1>1. t \in Nat /\ c \in Nat
    OBVIOUS
  <1>2. Slots(q) = Len(q) + t + c /\ Slots(r) = Len(r) + t + c
    BY DEF Slots
  <1> HIDE DEF t, c
  <1> QED BY <1>1, <1>2

\* With connects and sends counted, a queue with a slot for each is not full.
LEMMA NotFull ==
    ASSUME DeviceInv, ConnectsCounted, IsFiniteSet(Events),
           QueueCapacity \in Nat, QueueCapacity >= Cardinality(Events) + 3
    PROVE  /\ ~connecting => Slots(queue) + 2 <= QueueCapacity
           /\ Slots(queue) + 1 <= QueueCapacity
           /\ \A e \in Events \ produced : Slots(queue) + 2 <= QueueCapacity
  <1>1. queue \in Seq(Callbacks) /\ current \in Callbacks \cup {Idle} /\ produced \subseteq Events
        /\ timer \in BOOLEAN
    BY DEF DeviceInv, DeviceTypeOK
  <1>2. /\ Len(queue) \in Nat /\ Cardinality(ConnectsAt(queue)) \in Nat
        /\ Cardinality(produced) \in Nat
        /\ Len(queue) + (IF current.cb = "send" THEN 1 ELSE 0)
             <= Cardinality(ConnectsAt(queue)) + Cardinality(produced)
    BY <1>1, ConnectsFinite, SendsCounted
  <1>3. Cardinality(Events) \in Nat /\ Cardinality(produced) <= Cardinality(Events)
    BY <1>1, FS_Subset, FS_CardinalityType
  <1>4. ASSUME NEW e \in Events \ produced PROVE Cardinality(produced) + 1 <= Cardinality(Events)
    <2>1. IsFiniteSet(produced) /\ produced # Events
      BY <1>1, FS_Subset
    <2>2. Cardinality(produced) # Cardinality(Events)
      BY <1>1, <2>1, FS_Subset
    <2> QED BY <1>2, <1>3, <2>2
  <1>5. current # Idle => current.cb = "send" \/ current = ConnectCb
    BY <1>1, CallbackFacts
  <1>6. current = ConnectCb => current.cb # "send" /\ current # Idle
    BY CallbackFacts
  <1>7. current = Idle => current.cb # "send" /\ current # ConnectCb
    BY CallbackFacts
  <1> DEFINE t == IF timer THEN 1 ELSE 0
             c == IF current = ConnectCb THEN 1 ELSE 0
             b == IF current.cb = "send" THEN 1 ELSE 0
             k == IF connecting THEN 1 ELSE 0
  <1>8. t \in 0 .. 1 /\ c \in 0 .. 1 /\ b \in 0 .. 1 /\ k \in 0 .. 1
    OBVIOUS
  <1>9. (IF current # Idle THEN 1 ELSE 0) = b + c
    BY <1>5, <1>6, <1>7
  <1>10. Slots(queue) = Len(queue) + t + (b + c)
    BY <1>9 DEF Slots
  <1>11. Cardinality(ConnectsAt(queue)) + t + c <= 1 + k
    BY DEF ConnectsCounted, Connects
  <1>12. Len(queue) + b <= Cardinality(ConnectsAt(queue)) + Cardinality(produced)
    BY <1>2
  <1>13. connecting \/ k = 0
    OBVIOUS
  <1> DEFINE l == Len(queue)
             n == Cardinality(ConnectsAt(queue))
             p == Cardinality(produced)
             z == Slots(queue)
  <1>14. l \in Nat /\ n \in Nat /\ p \in Nat
         /\ z = l + t + (b + c) /\ n + t + c <= 1 + k /\ l + b <= n + p
    BY <1>2, <1>10, <1>11, <1>12
  <1> HIDE DEF t, c, b, k, l, n, p, z
  <1>15. z \in Nat /\ z <= p + 1 + k
    BY <1>8, <1>14
  <1>16. Slots(queue) \in Nat /\ Slots(queue) <= Cardinality(produced) + 1 + k
    BY <1>15 DEF z, p
  <1> QED BY SMTT(30), <1>2, <1>3, <1>4, <1>8, <1>13, <1>16

\* What a step leaves of the queue decides its count of connects.
LEMMA ConnectsUnchanged ==
    ASSUME ConnectsCounted, UNCHANGED <<queue, timer, current, connecting>>
    PROVE  ConnectsCounted'
  BY DEF ConnectsCounted, Connects

LEMMA ConnectsRetry ==
    ASSUME DeviceInv, ConnectsCounted, current.cb = "send", Retry
    PROVE  ConnectsCounted'
  <1> DEFINE q == IF connecting THEN queue ELSE Call(queue, ConnectCb)
             t == IF timer THEN 1 ELSE 0
             k == IF connecting THEN 1 ELSE 0
  <1>1. queue' = Call(q, current) /\ connecting' = TRUE /\ current' = Idle /\ timer' = timer
    BY DEF Retry
  <1>2. queue \in Seq(Callbacks) /\ current \in Callbacks /\ current # ConnectCb
        /\ ConnectCb \in Callbacks /\ Idle # ConnectCb
    BY CallbackFacts DEF DeviceInv, DeviceTypeOK
  <1>3. q \in Seq(Callbacks)
        /\ Cardinality(ConnectsAt(q)) <= Cardinality(ConnectsAt(queue)) + 1 - k
    <2>1. CASE connecting
      BY <1>2, <2>1, ConnectsFinite
    <2>2. CASE ~connecting
      BY <1>2, <2>2, ConnectsCall
    <2> QED BY <2>1, <2>2
  <1>4. Cardinality(ConnectsAt(queue)) + t <= 1 + k
    <2>1. Cardinality(ConnectsAt(queue)) + t + 0 <= 1 + k
      BY <1>2 DEF ConnectsCounted, Connects
    <2> QED BY <1>2, <2>1, ConnectsFinite
  <1>5. t \in 0 .. 1 /\ k \in 0 .. 1
    OBVIOUS
  <1> HIDE DEF q
  <1>6. queue' \in Seq(Callbacks) /\ Cardinality(ConnectsAt(queue')) <= Cardinality(ConnectsAt(q))
    BY <1>1, <1>2, <1>3, ConnectsCall, ConnectsFinite
  <1>7. /\ Cardinality(ConnectsAt(queue)) \in Nat /\ Cardinality(ConnectsAt(q)) \in Nat
        /\ Cardinality(ConnectsAt(queue')) \in Nat
    BY <1>2, <1>3, <1>6, ConnectsFinite
  <1>8. Connects' = Cardinality(ConnectsAt(queue')) + t + 0
    BY <1>1, <1>2 DEF Connects
  <1> HIDE DEF t, k
  <1>9. Cardinality(ConnectsAt(queue')) + t + 0 <= 1 + 1
    BY <1>3, <1>4, <1>5, <1>6, <1>7
  <1> QED BY <1>1, <1>8, <1>9 DEF ConnectsCounted

LEMMA ConnectsStep == DeviceInv /\ ConnectsCounted /\ [Next]_vars => ConnectsCounted'
  <1> SUFFICES ASSUME DeviceInv, ConnectsCounted, [Next]_vars
               PROVE  ConnectsCounted'
    OBVIOUS
  <1> DEFINE n == Cardinality(ConnectsAt(queue))
             t == IF timer THEN 1 ELSE 0
             c == IF current = ConnectCb THEN 1 ELSE 0
             k == IF connecting THEN 1 ELSE 0
  <1>0. /\ queue \in Seq(Callbacks) /\ ConnectCb \in Callbacks /\ Idle # ConnectCb
        /\ n \in Nat /\ t \in 0 .. 1 /\ c \in 0 .. 1 /\ k \in 0 .. 1
        /\ n + t + c <= 1 + k
    <2>1. queue \in Seq(Callbacks) /\ ConnectCb \in Callbacks /\ Idle # ConnectCb
      BY CallbackFacts DEF DeviceInv, DeviceTypeOK
    <2>2. n \in Nat
      BY <2>1, ConnectsFinite
    <2>3. n + t + c <= 1 + k
      BY DEF ConnectsCounted, Connects
    <2> QED BY <2>1, <2>2, <2>3
  <1>1. ASSUME NEW e \in Events, Produce(e) PROVE ConnectsCounted'
    <2>1. SendCb(e) \in Callbacks /\ SendCb(e) # ConnectCb
      BY CallbackFacts
    <2>2. queue' = Call(queue, SendCb(e)) /\ UNCHANGED <<timer, current, connecting>>
      BY <1>1 DEF Produce
    <2>3. queue' \in Seq(Callbacks) /\ Cardinality(ConnectsAt(queue')) <= n
      BY <1>0, <2>1, <2>2, ConnectsCall
    <2>4. Cardinality(ConnectsAt(queue')) \in Nat
      BY <2>3, ConnectsFinite
    <2>5. Connects' = Cardinality(ConnectsAt(queue')) + t + c
      BY <2>2 DEF Connects
    <2>6. 1 + (IF connecting' THEN 1 ELSE 0) = 1 + k
      BY <2>2
    <2> HIDE DEF n, t, c, k
    <2>7. Cardinality(ConnectsAt(queue')) + t + c <= 1 + k
      BY <1>0, <2>3, <2>4
    <2> QED BY <2>5, <2>6, <2>7 DEF ConnectsCounted
  <1>2. CASE TimerFires
    <2>1. /\ timer /\ timer' = FALSE /\ queue' = Append(queue, ConnectCb)
          /\ UNCHANGED <<current, connecting>>
      BY <1>2 DEF TimerFires
    <2>2. Cardinality(ConnectsAt(queue')) = n + 1
      BY <1>0, <2>1, ConnectsAppend
    <2>3. Connects' = n + 1 + 0 + c /\ t = 1
      BY <2>1, <2>2 DEF Connects
    <2>4. 1 + (IF connecting' THEN 1 ELSE 0) = 1 + k
      BY <2>1
    <2> HIDE DEF n, t, c, k
    <2>5. n + 1 + 0 + c <= 1 + k
      BY <1>0, <2>3
    <2> QED BY <2>3, <2>4, <2>5 DEF ConnectsCounted
  <1>3. CASE Dispatch
    <2>1. /\ current = Idle /\ queue # << >> /\ current' = Head(queue) /\ queue' = Tail(queue)
          /\ UNCHANGED <<timer, connecting>>
      BY <1>3 DEF Dispatch
    <2> DEFINE m == Cardinality(ConnectsAt(queue'))
               h == IF current' = ConnectCb THEN 1 ELSE 0
    <2>2. n = m + h
      BY <1>0, <2>1, ConnectsTail
    <2>3. queue' \in Seq(Callbacks)
      BY <1>0, <2>1, HeadTailProperties
    <2>4. m \in Nat /\ h \in 0 .. 1
      BY <2>3, ConnectsFinite
    <2>5. Connects' = m + t + h /\ c = 0
      BY <1>0, <2>1 DEF Connects
    <2>6. 1 + (IF connecting' THEN 1 ELSE 0) = 1 + k
      BY <2>1
    <2> HIDE DEF n, t, c, k, m, h
    <2>7. m + t + h <= 1 + k
      BY <1>0, <2>2, <2>4, <2>5
    <2> QED BY <2>5, <2>6, <2>7 DEF ConnectsCounted
  <1>4. CASE Connect
    <2>1. /\ current = ConnectCb /\ current' = Idle /\ connecting' = FALSE
          /\ UNCHANGED <<queue, timer>>
      BY <1>4 DEF Connect
    <2>2. Connects' = n + t + 0 /\ c = 1
      BY <1>0, <2>1 DEF Connects
    <2> HIDE DEF n, t, c, k
    <2>3. n + t + 0 <= 1 + 0
      BY <1>0, <2>2
    <2> QED BY <2>1, <2>2, <2>3 DEF ConnectsCounted
  <1>5. CASE Response
    <2>1. waiting /\ current' = Idle /\ UNCHANGED <<queue, timer, connecting>>
      BY <1>5 DEF Response
    <2>2. current # ConnectCb
      BY <2>1, CallbackFacts DEF DeviceInv, DeviceTypeOK
    <2>3. Connects' = Connects
      BY <1>0, <2>1, <2>2 DEF Connects
    <2> QED BY <2>1, <2>3 DEF ConnectsCounted
  <1>6. CASE LinkDown \/ SendFails \/ ResponseTimeout
    <2>1. current.cb = "send" /\ Retry
      BY <1>6 DEF LinkDown, SendFails, ResponseTimeout, DeviceInv, DeviceTypeOK
    <2> QED BY <2>1, ConnectsRetry
  <1>7. CASE Send \/ Break \/ BackendRestarts \/ EventServerStops \/ Reads \/ Authenticates
    BY <1>7, ConnectsUnchanged
       DEF Send, Break, BackendRestarts, EventServerStops, Reads, Read, Authenticates,
           Authenticate, device
  <1>8. ASSUME NEW e \in Events, Store(e) PROVE ConnectsCounted'
    BY <1>8, ConnectsUnchanged DEF Store, device
  <1>9. CASE UNCHANGED vars
    BY <1>9, ConnectsUnchanged DEF vars, device
  <1> QED BY <1>1, <1>2, <1>3, <1>4, <1>5, <1>6, <1>7, <1>8, <1>9 DEF Next

\* A step that calls no callback keeps overflowed; Produce and Retry call one
\* and two, and find room for them.
LEMMA OverflowStep ==
    ASSUME IsFiniteSet(Events), DeviceInv, ConnectsCounted, NeverOverflows, [Next]_vars
    PROVE  NeverOverflows'
  <1> SUFFICES ASSUME QueueCapacity >= Cardinality(Events) + 3
               PROVE  ~overflowed'
    BY DEF NeverOverflows
  <1>1. /\ ~connecting => Slots(queue) + 2 <= QueueCapacity
        /\ Slots(queue) + 1 <= QueueCapacity
        /\ \A e \in Events \ produced : Slots(queue) + 2 <= QueueCapacity
    BY NotFull, DeliveryAssumption
  <1>2. /\ ~overflowed /\ queue \in Seq(Callbacks) /\ QueueCapacity \in Nat
        /\ ConnectCb \in Callbacks
    BY DeliveryAssumption, CallbackFacts DEF NeverOverflows, DeviceInv, DeviceTypeOK
  <1>3. Slots(queue) \in Nat
    BY <1>2, ConnectsAppend, LenProperties, SlotsGrow
  <1>4. ~Full(queue)
    BY <1>1, <1>2, <1>3 DEF Full
  <1>5. ASSUME NEW e \in Events, Produce(e) PROVE ~overflowed'
    BY <1>2, <1>4, <1>5 DEF Produce
  <1>6. ASSUME Retry PROVE ~overflowed'
    <2> DEFINE q == IF connecting THEN queue ELSE Call(queue, ConnectCb)
    <2>1. overflowed' = (overflowed \/ (~connecting /\ Full(queue)) \/ Full(q))
      BY <1>6 DEF Retry
    <2>2. ~Full(q)
      <3>1. CASE connecting
        BY <1>4, <3>1
      <3>2. CASE ~connecting
        <4>1. q = Append(queue, ConnectCb) /\ Len(q) = Len(queue) + 1 /\ Len(queue) \in Nat
          BY <1>2, <1>4, <3>2, ConnectsAppend, LenProperties DEF Call
        <4> HIDE DEF q
        <4>2. Slots(q) = Slots(queue) + 1
          BY <4>1, SlotsGrow
        <4> QED BY <1>1, <1>2, <1>3, <3>2, <4>2 DEF Full
      <3> QED BY <3>1, <3>2
    <2> QED BY <1>2, <1>4, <2>1, <2>2
  <1>7. CASE LinkDown \/ SendFails \/ ResponseTimeout
    BY <1>6, <1>7 DEF LinkDown, SendFails, ResponseTimeout
  <1>8. CASE \/ TimerFires \/ Dispatch \/ Connect \/ Send \/ Response \/ Break
             \/ BackendRestarts \/ EventServerStops \/ Reads \/ Authenticates
    BY <1>2, <1>8 DEF TimerFires, Dispatch, Connect, Send, Response, Break, BackendRestarts,
       EventServerStops, Reads, Read, Authenticates, Authenticate, device
  <1>9. ASSUME NEW e \in Events, Store(e) PROVE ~overflowed'
    BY <1>2, <1>9 DEF Store, device
  <1>10. CASE UNCHANGED vars
    BY <1>2, <1>10 DEF vars, device
  <1> QED BY <1>5, <1>7, <1>8, <1>9, <1>10 DEF Next

LEMMA CountedIsBounded == DeviceInv /\ ConnectsCounted => BoundedConnects
  <1> SUFFICES ASSUME DeviceInv, ConnectsCounted PROVE BoundedConnects
    OBVIOUS
  <1>1. Connects \in Nat
    <2>1. Cardinality(ConnectsAt(queue)) \in Nat
      BY ConnectsFinite DEF DeviceInv, DeviceTypeOK
    <2>2. (IF timer THEN 1 ELSE 0) \in Nat /\ (IF current = ConnectCb THEN 1 ELSE 0) \in Nat
      OBVIOUS
    <2> QED BY <2>1, <2>2 DEF Connects
  <1>2. 1 + (IF connecting THEN 1 ELSE 0) \in 1 .. 2
    OBVIOUS
  <1> QED BY <1>1, <1>2 DEF ConnectsCounted, BoundedConnects

LEMMA ConnectsInit == Init => ConnectsCounted /\ NeverOverflows
  <1> SUFFICES ASSUME Init
               PROVE  ConnectsCounted /\ NeverOverflows
    OBVIOUS
  <1>1. ConnectsAt(queue) = {}
    BY DEF Init, ConnectsAt
  <1>2. Cardinality(ConnectsAt(queue)) = 0
    BY <1>1, FS_EmptySet
  <1>3. current # ConnectCb
    BY CallbackFacts DEF Init
  <1>4. Connects = 1
    BY <1>2, <1>3 DEF Init, Connects
  <1> QED BY <1>4 DEF Init, ConnectsCounted, NeverOverflows

-----------------------------------------------------------------------------
(* Connections *)

\* The types of the connections and of the backend.
LinkTypeOK ==
    /\ listening \in BOOLEAN
    /\ links \in Seq(Links)
    /\ conn \in 0 .. Len(links)
    /\ waiting => conn # 0
    /\ accepted \subseteq Events

Wires == Seq(Events \X (1 .. Fragments))
Handlers == {"none", "new", "known", "gone"}
Questions == {NoEvent} \cup {<<e>> : e \in Events}

LEMMA LinkFacts ==
    ASSUME NEW k \in Links
    PROVE  /\ k.up \in BOOLEAN /\ k.acks \in Nat /\ k.wire \in Wires
           /\ k.handler \in Handlers /\ k.asking \in Questions
           /\ k.asking # NoEvent => k.asking[1] \in Events /\ k.asking = <<k.asking[1]>>
  <1>1. k.up \in BOOLEAN /\ k.acks \in Nat /\ k.wire \in Wires
        /\ k.handler \in Handlers /\ k.asking \in Questions
    BY DEF Links, Wires, Handlers, Questions
  <1>2. ASSUME k.asking # NoEvent PROVE k.asking[1] \in Events /\ k.asking = <<k.asking[1]>>
    <2>1. PICK e \in Events : k.asking = <<e>>
      BY <1>1, <1>2 DEF Questions
    <2> QED BY <2>1
  <1> QED BY <1>1, <1>2

LEMMA LinkExcept ==
    ASSUME NEW k \in Links
    PROVE  /\ [k EXCEPT !.up = FALSE] \in Links
           /\ [k EXCEPT !.asking = NoEvent] \in Links
           /\ [k EXCEPT !.asking = NoEvent, !.handler = "gone", !.up = FALSE] \in Links
           /\ [k EXCEPT !.up = FALSE, !.handler = "gone", !.asking = NoEvent] \in Links
           /\ \A n \in Nat : [k EXCEPT !.acks = n] \in Links
           /\ \A n \in Nat :
                [k EXCEPT !.asking = NoEvent, !.handler = "known", !.acks = n] \in Links
           /\ \A w \in Wires : [k EXCEPT !.wire = w] \in Links
           /\ \A e \in Events : [k EXCEPT !.asking = <<e>>] \in Links
  <1>0. NoEvent \in Questions /\ "gone" \in Handlers /\ "known" \in Handlers
        /\ \A e \in Events : <<e>> \in Questions
    BY DEF Questions, Handlers
  <1>1. Links = [up : BOOLEAN, wire : Wires, acks : Nat, handler : Handlers, asking : Questions]
    BY DEF Links, Wires, Handlers, Questions
  <1> QED BY <1>0, <1>1

LEMMA LinkUpdate ==
    ASSUME links \in Seq(Links), NEW c \in 1 .. Len(links), NEW k \in Links
    PROVE  /\ links[c] \in Links
           /\ [links EXCEPT ![c] = k] \in Seq(Links)
           /\ Len([links EXCEPT ![c] = k]) = Len(links)
  BY ElementOfSeq, ExceptSeq, LenProperties

LEMMA PiecesType ==
    ASSUME NEW e \in Events
    PROVE  Pieces(e) \in Wires /\ Len(Pieces(e)) = Fragments
  BY DeliveryAssumption, IsASeq DEF Pieces, Wires

LEMMA LinkInit == Init => LinkTypeOK
  BY EmptySeq DEF Init, LinkTypeOK

LEMMA DispatchLinks == ASSUME DeviceInv, LinkTypeOK, Dispatch PROVE LinkTypeOK'
  <1>1. ~waiting'
    BY CallbackFacts DEF Dispatch, DeviceInv, DeviceTypeOK
  <1>2. CASE UNCHANGED links
    <2>1. conn' \in 0 .. Len(links)
      BY LenProperties DEF Dispatch, LinkTypeOK
    <2> QED BY <1>1, <1>2, <2>1 DEF Dispatch, backend, LinkTypeOK
  <1>3. CASE links' # links
    <2>1. conn \in 1 .. Len(links) /\ links' = [links EXCEPT ![conn].up = FALSE] /\ conn' = 0
      BY <1>3, LenProperties DEF Dispatch, LinkTypeOK
    <2>2. links' \in Seq(Links) /\ Len(links') = Len(links)
      <3>1. [links[conn] EXCEPT !.up = FALSE] \in Links
        <4>1. links[conn] \in Links
          BY <2>1, ElementOfSeq DEF LinkTypeOK
        <4> QED BY <4>1, LinkExcept
      <3>2. links' = [links EXCEPT ![conn] = [links[conn] EXCEPT !.up = FALSE]]
        BY <2>1
      <3> QED BY <2>1, <3>1, <3>2, LinkUpdate DEF LinkTypeOK
    <2>3. conn' \in 0 .. Len(links')
      BY <2>1, <2>2, LenProperties
    <2> QED BY <1>1, <2>2, <2>3 DEF Dispatch, backend, LinkTypeOK
  <1> QED BY <1>2, <1>3

LEMMA ConnectLinks == ASSUME DeviceInv, LinkTypeOK, Connect PROVE LinkTypeOK'
  <1>1. ~waiting'
    BY CallbackFacts DEF Connect, DeviceInv, DeviceTypeOK
  <1>2. NewLink \in Links
    <2>1. << >> \in Wires
      BY EmptySeq DEF Wires
    <2> QED BY <2>1 DEF NewLink, Links, NoEvent, Wires
  <1>3. links' \in Seq(Links) /\ Len(links') = Len(links) + 1 /\ Len(links) \in Nat
    BY <1>2, AppendProperties, LenProperties DEF Connect, LinkTypeOK
  <1>4. conn' \in 0 .. Len(links')
    BY <1>3 DEF Connect
  <1> QED BY <1>1, <1>3, <1>4 DEF Connect, backend, LinkTypeOK

\* One connection is changed and stays a connection.
LEMMA OneLinkChanged ==
    ASSUME LinkTypeOK, NEW c \in 1 .. Len(links), NEW k \in Links,
           links' = [links EXCEPT ![c] = k],
           conn' = conn, listening' = listening, waiting' => conn # 0,
           accepted' \subseteq Events
    PROVE  LinkTypeOK'
  <1>1. links' \in Seq(Links) /\ Len(links') = Len(links)
    BY LinkUpdate DEF LinkTypeOK
  <1> QED BY <1>1 DEF LinkTypeOK

LEMMA SendLinks == ASSUME DeviceInv, LinkTypeOK, Send PROVE LinkTypeOK'
  <1>1. conn \in 1 .. Len(links) /\ conn # 0
    BY LenProperties DEF Send, Connected, LinkTypeOK
  <1>2. current.ev \in Events
    BY CallbackFacts DEF Send, DeviceInv, DeviceTypeOK
  <1>3. links[conn] \in Links
    BY <1>1, LinkUpdate DEF LinkTypeOK
  <1>4. links[conn].wire \o Pieces(current.ev) \in Wires
    BY <1>2, <1>3, LinkFacts, PiecesType, ConcatProperties DEF Wires
  <1> DEFINE sent == [links[conn] EXCEPT !.wire = @ \o Pieces(current.ev)]
  <1>5. sent \in Links
    BY <1>3, <1>4, LinkExcept
  <1>6. /\ links' = [links EXCEPT ![conn] = sent]
        /\ UNCHANGED <<conn, listening, accepted>>
    BY DEF Send, backend
  <1> QED BY <1>1, <1>5, <1>6, OneLinkChanged DEF LinkTypeOK

LEMMA ResponseLinks == ASSUME LinkTypeOK, Response PROVE LinkTypeOK'
  <1>1. conn \in 1 .. Len(links) /\ conn # 0 /\ links[conn].acks > 0
    BY LenProperties DEF Response, Connected, LinkTypeOK
  <1>2. links[conn] \in Links
    BY <1>1, LinkUpdate DEF LinkTypeOK
  <1> DEFINE answered == [links[conn] EXCEPT !.acks = @ - 1]
  <1>3. answered \in Links
    <2>1. links[conn].acks - 1 \in Nat
      BY <1>1, <1>2, LinkFacts
    <2> QED BY <1>2, <2>1, LinkExcept
  <1>4. /\ links' = [links EXCEPT ![conn] = answered]
        /\ UNCHANGED <<conn, listening, accepted>>
    BY DEF Response, backend
  <1> QED BY <1>1, <1>3, <1>4, OneLinkChanged DEF LinkTypeOK

LEMMA BreakLinks == ASSUME LinkTypeOK, Break PROVE LinkTypeOK'
  <1>1. conn \in 1 .. Len(links) /\ conn # 0
    BY LenProperties DEF Break, Connected, LinkTypeOK
  <1>2. [links[conn] EXCEPT !.up = FALSE] \in Links
    <2>1. links[conn] \in Links
      BY <1>1, ElementOfSeq DEF LinkTypeOK
    <2> QED BY <2>1, LinkExcept
  <1>3. /\ links' = [links EXCEPT ![conn] = [links[conn] EXCEPT !.up = FALSE]]
        /\ UNCHANGED <<conn, listening, accepted, waiting>>
    BY DEF Break, backend, device
  <1> QED BY <1>1, <1>2, <1>3, OneLinkChanged DEF LinkTypeOK

LEMMA RestartLinks == ASSUME LinkTypeOK, BackendRestarts PROVE LinkTypeOK'
  <1>1. DOMAIN links = 1 .. Len(links) /\ Len(links) \in Nat /\ links \in Seq(Links)
    BY LenProperties DEF LinkTypeOK
  <1>2. ASSUME NEW c \in 1 .. Len(links)
        PROVE  [links[c] EXCEPT !.up = FALSE, !.handler = "gone", !.asking = NoEvent] \in Links
    BY <1>1, <1>2, ElementOfSeq, LinkExcept
  <1>3. links' = [c \in 1 .. Len(links) |->
                    [links[c] EXCEPT !.up = FALSE, !.handler = "gone", !.asking = NoEvent]]
    BY <1>1 DEF BackendRestarts
  <1>4. links' \in Seq(Links) /\ Len(links') = Len(links)
    <2> DEFINE new(c) == [links[c] EXCEPT !.up = FALSE, !.handler = "gone", !.asking = NoEvent]
    <2>1. \A c \in 1 .. Len(links) : new(c) \in Links
      BY <1>2
    <2>2. links' = [c \in 1 .. Len(links) |-> new(c)]
      BY <1>3
    <2> HIDE DEF new
    <2> QED BY <1>1, <2>1, <2>2, IsASeq
  <1> QED BY <1>4 DEF BackendRestarts, LinkTypeOK, device

\* What a read takes is the beginning of what is on the wire.
LEMMA ReadFacts ==
    ASSUME NEW k \in Links, NEW n \in 1 .. Len(k.wire)
    PROVE  /\ SubSeq(k.wire, 1, n)[1][1] \in Events
           /\ SubSeq(k.wire, n + 1, Len(k.wire)) \in Wires
  <1>1. k.wire \in Wires /\ Len(k.wire) \in Nat
    BY LinkFacts, LenProperties DEF Wires
  <1>2. SubSeq(k.wire, 1, n)[1] = k.wire[1]
    BY <1>1, SubSeqProperties DEF Wires
  <1>3. k.wire[1] \in Events \X (1 .. Fragments)
    BY <1>1, ElementOfSeq DEF Wires
  <1>4. SubSeq(k.wire, n + 1, Len(k.wire)) \in Wires
    BY <1>1, SubSeqProperties DEF Wires
  <1> QED BY <1>2, <1>3, <1>4

\* A read leaves the rest on the wire, and a response or a question.
LEMMA ReadCases ==
    ASSUME LinkTypeOK, NEW c \in 1 .. Len(links), NEW n \in 1 .. Len(links[c].wire), Read(c, n)
    PROVE  LET buf == SubSeq(links[c].wire, 1, n)
               read == [links[c] EXCEPT !.wire = SubSeq(@, n + 1, Len(@))]
               answered == [read EXCEPT !.acks = @ + 1]
           IN  /\ links[c].handler \in {"new", "known"} /\ links[c].asking = NoEvent
               /\ \/ /\ links' = [links EXCEPT ![c] = answered]
                     /\ ~Decodes(buf) /\ accepted' = accepted
                  \/ /\ links' = [links EXCEPT ![c] = [read EXCEPT !.asking = <<buf[1][1]>>]]
                     /\ Decodes(buf) /\ accepted' = accepted
                  \/ /\ links' = [links EXCEPT ![c] = answered]
                     /\ Decodes(buf) /\ accepted' = accepted \cup {buf[1][1]}
               /\ UNCHANGED <<device, faults, listening>>
  BY DEF Read, Accept, backend

LEMMA ReadLinks ==
    ASSUME LinkTypeOK, NEW c \in 1 .. Len(links), NEW n \in 1 .. Len(links[c].wire), Read(c, n)
    PROVE  LinkTypeOK'
  <1> DEFINE buf == SubSeq(links[c].wire, 1, n)
             read == [links[c] EXCEPT !.wire = SubSeq(@, n + 1, Len(@))]
  <1>1. links[c] \in Links
    BY LinkUpdate DEF LinkTypeOK
  <1>2. buf[1][1] \in Events /\ read \in Links
    BY <1>1, ReadFacts, LinkExcept
  <1>3. /\ [read EXCEPT !.acks = @ + 1] \in Links
        /\ [read EXCEPT !.asking = <<buf[1][1]>>] \in Links
    <2> HIDE DEF read, buf
    <2>1. read.acks + 1 \in Nat
      BY <1>2, LinkFacts
    <2> QED BY <1>2, <2>1, LinkExcept
  <1>4. accepted' \subseteq Events /\ UNCHANGED <<conn, listening, waiting>>
    <2>1. UNCHANGED <<conn, listening, waiting>>
      BY DEF Read, Accept, device, backend
    <2>2. accepted' = accepted \/ accepted' = accepted \cup {buf[1][1]}
      BY DEF Read, Accept, backend
    <2> QED BY <1>2, <2>1, <2>2 DEF LinkTypeOK
  <1>5. PICK k \in Links : links' = [links EXCEPT ![c] = k]
    BY <1>3, ReadCases
  <1> QED BY <1>4, <1>5, OneLinkChanged DEF LinkTypeOK

LEMMA AuthenticateLinks ==
    ASSUME LinkTypeOK, NEW c \in 1 .. Len(links), Authenticate(c)
    PROVE  LinkTypeOK'
  <1>1. links[c] \in Links
    BY LinkUpdate DEF LinkTypeOK
  <1>2. links[c].asking[1] \in Events
    BY <1>1, LinkFacts DEF Authenticate
  <1>3. /\ [links[c] EXCEPT !.asking = NoEvent, !.handler = "known", !.acks = @ + 1] \in Links
        /\ [links[c] EXCEPT !.asking = NoEvent, !.handler = "gone", !.up = FALSE] \in Links
        /\ [links[c] EXCEPT !.asking = NoEvent] \in Links
    <2>1. links[c].acks + 1 \in Nat
      BY <1>1, LinkFacts
    <2> QED BY <1>1, <2>1, LinkExcept
  <1>4. accepted' \subseteq Events /\ UNCHANGED <<conn, listening, waiting>>
    BY <1>2 DEF Authenticate, Accept, LinkTypeOK, device, backend
  <1>5. PICK k \in Links : links' = [links EXCEPT ![c] = k]
    <2> DEFINE known == [links[c] EXCEPT !.asking = NoEvent, !.handler = "known", !.acks = @ + 1]
               gone == [links[c] EXCEPT !.asking = NoEvent, !.handler = "gone", !.up = FALSE]
    <2>1. \/ links' = [links EXCEPT ![c] = known]
          \/ links' = [links EXCEPT ![c] = gone]
          \/ links' = [links EXCEPT ![c] = [links[c] EXCEPT !.asking = NoEvent]]
      <3>1. PICK answer \in AuthOutcomes : Authenticate(c)!2!(answer)
        BY DEF Authenticate
      <3>2. CASE answer = "found"
        BY <3>1, <3>2
      <3>3. CASE answer = "refused"
        BY <3>1, <3>3
      <3>4. CASE answer = "mailbox"
        BY <3>1, <3>4
      <3> QED BY <3>1, <3>2, <3>3, <3>4
    <2> QED BY <1>3, <2>1
  <1> QED BY <1>4, <1>5, OneLinkChanged DEF LinkTypeOK

LEMMA LinkStep == DeviceInv /\ LinkTypeOK /\ [Next]_vars => LinkTypeOK'
  <1> SUFFICES ASSUME DeviceInv, LinkTypeOK, [Next]_vars
               PROVE  LinkTypeOK'
    OBVIOUS
  <1>1. DOMAIN links = 1 .. Len(links)
    BY LenProperties DEF LinkTypeOK
  <1>2. CASE Dispatch
    BY <1>2, DispatchLinks
  <1>3. CASE Connect
    BY <1>3, ConnectLinks
  <1>4. CASE Send
    BY <1>4, SendLinks
  <1>5. CASE Response
    BY <1>5, ResponseLinks
  <1>6. CASE LinkDown \/ SendFails \/ ResponseTimeout
    BY <1>6 DEF LinkDown, SendFails, ResponseTimeout, Retry, backend, LinkTypeOK
  <1>7. CASE Break
    BY <1>7, BreakLinks
  <1>8. CASE BackendRestarts
    BY <1>8, RestartLinks
  <1>9. CASE Reads
    BY <1>1, <1>9, ReadLinks DEF Reads
  <1>10. CASE Authenticates
    BY <1>1, <1>10, AuthenticateLinks DEF Authenticates
  <1>11. CASE TimerFires
    BY <1>11 DEF TimerFires, backend, LinkTypeOK
  <1>14. CASE EventServerStops
    BY <1>14 DEF EventServerStops, device, LinkTypeOK
  <1>12. ASSUME NEW e \in Events, Produce(e) \/ Store(e) PROVE LinkTypeOK'
    BY <1>12 DEF Produce, Store, device, backend, LinkTypeOK
  <1>13. CASE UNCHANGED vars
    BY <1>13 DEF vars, device, backend, LinkTypeOK
  <1> QED BY <1>2, <1>3, <1>4, <1>5, <1>6, <1>7, <1>8, <1>9, <1>10, <1>11, <1>12, <1>13, <1>14
         DEF Next

LEMMA LinkInvariant == Spec => []LinkTypeOK
  BY DeviceInvariant, LinkInit, LinkStep, PTL DEF Spec

-----------------------------------------------------------------------------
(* Responses *)

\* While the device is connected, at most one event is under way on its
\* connection, and it is the one send_callback waits for: on the wire, with
\* the handler that looks its secret up, or answered after it was accepted.
\* The strengthening of AckMeansAccepted.
Quiet(k) ==
    /\ k.acks = 0 /\ k.asking = NoEvent
    /\ k.handler \in {"new", "known"} => k.wire = << >>

UnderWay(k, e) ==
    \/ k.acks = 0 /\ k.asking = NoEvent /\ k.wire = Pieces(e)
    \/ k.acks = 0 /\ k.asking = <<e>> /\ k.wire = << >> /\ k.handler # "none"
    \/ k.acks = 1 /\ k.asking = NoEvent /\ k.wire = << >> /\ e \in accepted

AnswerIsOwn ==
    Connected => Quiet(links[conn]) \/ (waiting /\ UnderWay(links[conn], current.ev))

AckInv == timeouts = 0 /\ AnswerIsOwn /\ AckMeansAccepted

\* Steps that leave the connection of the socket, or break it.
LEMMA AckUnchanged ==
    ASSUME AckInv, timeouts' = timeouts, freed' = freed, accepted \subseteq accepted',
           \/ ~Connected'
           \/ /\ Connected' => Connected /\ links'[conn'] = links[conn]
              /\ waiting' = waiting /\ current' = current
    PROVE  AckInv'
  <1>1. AckMeansAccepted'
    BY DEF AckInv, AckMeansAccepted
  <1>2. AnswerIsOwn'
    BY DEF AckInv, AnswerIsOwn, UnderWay, Quiet
  <1> QED BY <1>1, <1>2 DEF AckInv

\* RETRY, when nothing is under way on a connection that is up.
LEMMA AckRetry ==
    ASSUME AckInv, Retry, timeouts' = timeouts, Connected => Quiet(links[conn])
    PROVE  AckInv'
  <1>1. UNCHANGED <<freed, conn, links, accepted>>
    BY DEF Retry, backend
  <1>2. AnswerIsOwn'
    BY <1>1 DEF AnswerIsOwn, Quiet, Connected
  <1> QED BY <1>1, <1>2 DEF AckInv, AckMeansAccepted

LEMMA AckTimeout ==
    ASSUME MaxTimeouts = 0, DeviceInv, LinkTypeOK, AckInv, ResponseTimeout
    PROVE  AckInv'
  <1>1. ~AnswerComing /\ timeouts' = timeouts
    BY DEF ResponseTimeout, AckInv
  <1>2. links[conn].acks = 0 /\ Connected /\ conn \in 1 .. Len(links)
    BY LenProperties DEF ResponseTimeout, Connected, LinkTypeOK
  <1>3. links[conn] \in Links
    BY <1>2, ElementOfSeq DEF LinkTypeOK
  <1>4. current.ev \in Events
    BY CallbackFacts DEF ResponseTimeout, DeviceInv, DeviceTypeOK
  <1>5. <<current.ev>> # NoEvent
    BY DEF NoEvent
  <1>6. Quiet(links[conn])
    BY <1>1, <1>2, <1>5 DEF AckInv, AnswerIsOwn, Quiet, UnderWay, AnswerComing
  <1> QED BY <1>1, <1>6, AckRetry DEF ResponseTimeout

LEMMA AckSend ==
    ASSUME DeviceInv, LinkTypeOK, AckInv, Send
    PROVE  AckInv'
  <1> DEFINE sent == [links[conn] EXCEPT !.wire = @ \o Pieces(current.ev)]
  <1>1. Connected /\ conn \in 1 .. Len(links) /\ ~waiting
    BY LenProperties DEF Send, Connected, LinkTypeOK
  <1>2. links[conn] \in Links /\ current.ev \in Events
    BY <1>1, ElementOfSeq, CallbackFacts DEF Send, LinkTypeOK, DeviceInv, DeviceTypeOK
  <1>3. Quiet(links[conn])
    BY <1>1 DEF AckInv, AnswerIsOwn
  <1>4. links' = [links EXCEPT ![conn] = sent] /\ links'[conn] = sent
    <2>1. links' = [links EXCEPT ![conn] = sent]
      BY DEF Send
    <2>2. DOMAIN links = 1 .. Len(links)
      BY LenProperties DEF LinkTypeOK
    <2> HIDE DEF sent
    <2> QED BY <1>1, <2>1, <2>2
  <1>5. /\ sent.acks = links[conn].acks /\ sent.asking = links[conn].asking
        /\ sent.handler = links[conn].handler
        /\ sent.wire = links[conn].wire \o Pieces(current.ev)
    BY <1>2 DEF Links
  <1>6. links[conn].wire = << >> => sent.wire = Pieces(current.ev)
    BY <1>2, <1>5, PiecesType, ConcatEmptySeq DEF Wires
  <1> HIDE DEF sent
  <1>7. Quiet(sent) \/ UnderWay(sent, current.ev)
    BY <1>3, <1>5, <1>6 DEF Quiet, UnderWay
  <1>8. waiting' = TRUE /\ UNCHANGED <<conn, current, freed, accepted, timeouts>>
    BY DEF Send, backend, faults
  <1>9. AnswerIsOwn'
    BY <1>4, <1>7, <1>8 DEF AnswerIsOwn, UnderWay, Quiet
  <1> QED BY <1>8, <1>9 DEF AckInv, AckMeansAccepted

LEMMA AckResponse ==
    ASSUME DeviceInv, LinkTypeOK, AckInv, Response
    PROVE  AckInv'
  <1> DEFINE answered == [links[conn] EXCEPT !.acks = @ - 1]
  <1>1. Connected /\ conn \in 1 .. Len(links) /\ waiting /\ links[conn].acks > 0
    BY LenProperties DEF Response, Connected, LinkTypeOK
  <1>2. links[conn] \in Links
    BY <1>1, ElementOfSeq DEF LinkTypeOK
  <1>3. /\ links[conn].acks = 1 /\ links[conn].asking = NoEvent /\ links[conn].wire = << >>
        /\ current.ev \in accepted
    BY <1>1 DEF AckInv, AnswerIsOwn, UnderWay, Quiet
  <1>4. links'[conn] = answered
    <2>1. links' = [links EXCEPT ![conn] = answered]
      BY DEF Response
    <2>2. DOMAIN links = 1 .. Len(links)
      BY LenProperties DEF LinkTypeOK
    <2> HIDE DEF answered
    <2> QED BY <1>1, <2>1, <2>2
  <1>5. answered.acks = 0 /\ answered.asking = NoEvent /\ answered.wire = << >>
    BY <1>2, <1>3 DEF Links
  <1> HIDE DEF answered
  <1>6. freed' = freed \cup {current.ev} /\ UNCHANGED <<conn, accepted, timeouts>>
    BY DEF Response, backend, faults
  <1>7. AnswerIsOwn'
    BY <1>4, <1>5, <1>6 DEF AnswerIsOwn, Quiet
  <1> QED BY <1>3, <1>6, <1>7 DEF AckInv, AckMeansAccepted

\* With one piece to an event, what is read from the wire is the event.
LEMMA PiecesOfOne ==
    ASSUME Fragments = 1, NEW e \in Events, NEW n \in 1 .. Len(Pieces(e))
    PROVE  /\ SubSeq(Pieces(e), 1, n)[1][1] = e
           /\ Decodes(SubSeq(Pieces(e), 1, n))
           /\ SubSeq(Pieces(e), n + 1, Len(Pieces(e))) = << >>
  <1>1. Pieces(e) = <<<<e, 1>>>> /\ Len(Pieces(e)) = 1 /\ n = 1
    BY DEF Pieces
  <1> DEFINE p == Pieces(e)
  <1>2. p \in Seq({<<e, 1>>}) /\ p[1] = <<e, 1>>
    BY <1>1
  <1> HIDE DEF p
  <1>3. SubSeq(p, 1, 1) \in Seq({<<e, 1>>}) /\ Len(SubSeq(p, 1, 1)) = 1 /\ SubSeq(p, 1, 1)[1] = <<e, 1>>
    BY <1>1, <1>2, SubSeqProperties DEF p
  <1>4. SubSeq(p, 2, 1) = << >>
    BY <1>1, <1>2, SubSeqProperties, EmptySeq DEF p
  <1>5. SubSeq(p, 1, 1)[1][1] = e
    BY <1>3
  <1>6. Decodes(SubSeq(p, 1, 1))
    BY <1>3, <1>5 DEF Decodes
  <1> QED BY <1>1, <1>4, <1>5, <1>6 DEF p

LEMMA AckRead ==
    ASSUME Fragments = 1, DeviceInv, LinkTypeOK, AckInv,
           NEW c \in 1 .. Len(links), NEW n \in 1 .. Len(links[c].wire), Read(c, n)
    PROVE  AckInv'
  <1> DEFINE buf == SubSeq(links[c].wire, 1, n)
             read == [links[c] EXCEPT !.wire = SubSeq(@, n + 1, Len(@))]
             answered == [read EXCEPT !.acks = @ + 1]
             asked == [read EXCEPT !.asking = <<buf[1][1]>>]
  <1>1. /\ links[c].handler \in {"new", "known"} /\ links[c].asking = NoEvent
        /\ UNCHANGED <<conn, current, waiting, freed, timeouts>>
    BY DEF Read, device, faults
  <1>2. links[c] \in Links /\ DOMAIN links = 1 .. Len(links)
    BY ElementOfSeq, LenProperties DEF LinkTypeOK
  <1>3. \/ links' = [links EXCEPT ![c] = answered] /\ ~Decodes(buf) /\ accepted' = accepted
        \/ links' = [links EXCEPT ![c] = asked] /\ Decodes(buf) /\ accepted' = accepted
        \/ /\ links' = [links EXCEPT ![c] = answered] /\ Decodes(buf)
           /\ accepted' = accepted \cup {buf[1][1]}
    BY DEF Read, Accept, backend
  <1>4. accepted \subseteq accepted'
    BY <1>3
  <1>5. /\ answered.up = links[c].up /\ answered.handler = links[c].handler
        /\ answered.wire = SubSeq(links[c].wire, n + 1, Len(links[c].wire))
        /\ answered.acks = links[c].acks + 1 /\ answered.asking = links[c].asking
    BY <1>2 DEF Links
  <1>6. /\ asked.up = links[c].up /\ asked.handler = links[c].handler
        /\ asked.wire = SubSeq(links[c].wire, n + 1, Len(links[c].wire))
        /\ asked.acks = links[c].acks /\ asked.asking = <<buf[1][1]>>
    BY <1>2 DEF Links
  <1> HIDE DEF answered, asked, read
  <1>7. CASE c # conn
    <2>1. Connected' => Connected /\ links'[conn'] = links[conn]
      BY <1>1, <1>2, <1>3, <1>7, LenProperties DEF Connected, LinkTypeOK
    <2> QED BY <1>1, <1>4, <2>1, AckUnchanged
  <1>8. CASE c = conn /\ Connected
    <2>1. Len(links[c].wire) \in Nat /\ links[c].wire # << >>
      BY <1>2, LinkFacts, LenProperties, EmptySeq DEF Wires
    <2>2. waiting /\ UnderWay(links[c], current.ev) /\ links[c].wire = Pieces(current.ev)
          /\ links[c].acks = 0
      BY <1>1, <1>8, <2>1 DEF AckInv, AnswerIsOwn, Quiet, UnderWay
    <2>3. current.ev \in Events
      BY <2>2, CallbackFacts DEF DeviceInv, DeviceTypeOK
    <2>4. /\ buf[1][1] = current.ev /\ Decodes(buf)
          /\ SubSeq(links[c].wire, n + 1, Len(links[c].wire)) = << >>
      BY <2>2, <2>3, PiecesOfOne
    <2> HIDE DEF buf
    <2>5. CASE links' = [links EXCEPT ![c] = asked]
      <3>1. links'[c] = asked
        BY <1>2, <2>5
      <3>2. /\ links'[c].acks = 0 /\ links'[c].asking = <<current.ev>>
            /\ links'[c].wire = << >> /\ links'[c].handler # "none"
        BY <1>1, <1>6, <2>2, <2>4, <3>1
      <3>3. AnswerIsOwn'
        BY <1>1, <1>8, <2>2, <3>2 DEF AnswerIsOwn, UnderWay
      <3> QED BY <1>1, <1>4, <3>3 DEF AckInv, AckMeansAccepted
    <2>6. CASE links' = [links EXCEPT ![c] = answered] /\ current.ev \in accepted'
      <3>1. links'[c] = answered
        BY <1>2, <2>6
      <3>2. links'[c].acks = 1 /\ links'[c].asking = NoEvent /\ links'[c].wire = << >>
        <4>1. answered.acks = 1
          BY <1>5, <2>2
        <4>2. answered.asking = NoEvent /\ answered.wire = << >>
          BY <1>1, <1>5, <2>4
        <4> QED BY <3>1, <4>1, <4>2
      <3>3. AnswerIsOwn'
        BY <1>1, <1>8, <2>2, <2>6, <3>2 DEF AnswerIsOwn, UnderWay
      <3> QED BY <1>1, <1>4, <3>3 DEF AckInv, AckMeansAccepted
    <2> QED BY <1>3, <2>4, <2>5, <2>6
  <1>9. CASE c = conn /\ ~Connected
    <2>1. ~Connected'
      <3>1. links'[c].up = links[c].up
        BY <1>2, <1>3, <1>5, <1>6
      <3> QED BY <1>1, <1>9, <3>1 DEF Connected
    <2> QED BY <1>1, <1>4, <2>1, AckUnchanged
  <1> QED BY <1>7, <1>8, <1>9

LEMMA AckAuthenticate ==
    ASSUME DeviceInv, LinkTypeOK, AckInv, NEW c \in 1 .. Len(links), Authenticate(c)
    PROVE  AckInv'
  <1> DEFINE e == links[c].asking[1]
             known == [links[c] EXCEPT !.asking = NoEvent, !.handler = "known", !.acks = @ + 1]
             gone == [links[c] EXCEPT !.asking = NoEvent, !.handler = "gone", !.up = FALSE]
             silent == [links[c] EXCEPT !.asking = NoEvent]
  <1>1. links[c].asking # NoEvent /\ UNCHANGED <<conn, current, waiting, freed, timeouts>>
    BY DEF Authenticate, device
  <1>2. links[c] \in Links /\ DOMAIN links = 1 .. Len(links)
    BY ElementOfSeq, LenProperties DEF LinkTypeOK
  <1>3. \/ links' = [links EXCEPT ![c] = known] /\ accepted' = accepted \cup {e}
        \/ links' = [links EXCEPT ![c] = gone] /\ accepted' = accepted
        \/ links' = [links EXCEPT ![c] = silent] /\ accepted' = accepted
    <2>1. PICK answer \in AuthOutcomes : Authenticate(c)!2!(answer)
      BY DEF Authenticate
    <2>2. CASE answer = "found"
      BY <2>1, <2>2 DEF Accept
    <2>3. CASE answer = "refused"
      BY <2>1, <2>3 DEF backend
    <2>4. CASE answer = "mailbox"
      BY <2>1, <2>4 DEF backend
    <2> QED BY <2>1, <2>2, <2>3, <2>4
  <1>4. accepted \subseteq accepted'
    BY <1>3
  <1>5. /\ known.up = links[c].up /\ known.wire = links[c].wire
        /\ known.acks = links[c].acks + 1 /\ known.asking = NoEvent
    BY <1>2 DEF Links
  <1>6. /\ silent.up = links[c].up /\ silent.wire = links[c].wire
        /\ silent.acks = links[c].acks /\ silent.asking = NoEvent
    BY <1>2 DEF Links
  <1>7. ~gone.up
    BY <1>2 DEF Links
  <1>8. links[c].asking = <<e>>
    BY <1>1, <1>2, LinkFacts
  <1> HIDE DEF known, gone, silent
  <1>9. CASE c # conn
    <2>1. Connected' => Connected /\ links'[conn'] = links[conn]
      BY <1>1, <1>2, <1>3, <1>9, LenProperties DEF Connected, LinkTypeOK
    <2> QED BY <1>1, <1>4, <2>1, AckUnchanged
  <1>10. CASE c = conn /\ Connected
    <2>1. /\ waiting /\ links[c].acks = 0 /\ links[c].asking = <<current.ev>>
          /\ links[c].wire = << >> /\ e = current.ev
      BY <1>1, <1>8, <1>10 DEF AckInv, AnswerIsOwn, Quiet, UnderWay
    <2> HIDE DEF e
    <2>2. CASE links' = [links EXCEPT ![c] = known] /\ accepted' = accepted \cup {e}
      <3>1. links'[c].acks = 1 /\ links'[c].asking = NoEvent /\ links'[c].wire = << >>
            /\ current.ev \in accepted'
        BY <1>2, <1>5, <2>1, <2>2
      <3>2. AnswerIsOwn'
        BY <1>1, <1>10, <2>1, <3>1 DEF AnswerIsOwn, UnderWay
      <3> QED BY <1>1, <1>4, <3>2 DEF AckInv, AckMeansAccepted
    <2>3. CASE links' = [links EXCEPT ![c] = gone]
      <3>1. ~Connected'
        BY <1>1, <1>2, <1>7, <1>10, <2>3 DEF Connected
      <3> QED BY <1>1, <1>4, <3>1, AckUnchanged
    <2>4. CASE links' = [links EXCEPT ![c] = silent]
      <3>1. Quiet(links'[c])
        BY <1>2, <1>6, <2>1, <2>4 DEF Quiet
      <3>2. AnswerIsOwn'
        BY <1>1, <1>10, <3>1 DEF AnswerIsOwn, Quiet
      <3> QED BY <1>1, <1>4, <3>2 DEF AckInv, AckMeansAccepted
    <2> QED BY <1>3, <2>2, <2>3, <2>4
  <1>11. CASE c = conn /\ ~Connected
    <2>1. ~Connected'
      <3>1. ~links'[c].up
        BY <1>2, <1>3, <1>5, <1>6, <1>7, <1>11 DEF Connected, LinkTypeOK
      <3> QED BY <1>1, <1>11, <3>1 DEF Connected
    <2> QED BY <1>1, <1>4, <2>1, AckUnchanged
  <1> QED BY <1>9, <1>10, <1>11

LEMMA AckInit == Init => AckInv
  BY DEF Init, AckInv, AnswerIsOwn, AckMeansAccepted, Connected

LEMMA AckStep ==
    ASSUME Fragments = 1, MaxTimeouts = 0
    PROVE  DeviceInv /\ LinkTypeOK /\ AckInv /\ [Next]_vars => AckInv'
  <1> SUFFICES ASSUME DeviceInv, LinkTypeOK, AckInv, [Next]_vars
               PROVE  AckInv'
    OBVIOUS
  <1>1. DOMAIN links = 1 .. Len(links) /\ Len(links) \in Nat
    BY LenProperties DEF LinkTypeOK
  <1>2. CASE Dispatch
    <2>1. ~waiting /\ ~waiting'
      BY <1>2, CallbackFacts DEF Dispatch, DeviceInv, DeviceTypeOK
    <2>2. UNCHANGED <<freed, accepted, timeouts>>
      BY <1>2 DEF Dispatch, backend, faults
    <2>3. conn' = 0 \/ UNCHANGED <<links, conn>>
      BY <1>2 DEF Dispatch
    <2>4. AnswerIsOwn'
      BY <2>1, <2>3 DEF AckInv, AnswerIsOwn, Connected, Quiet
    <2> QED BY <2>2, <2>4 DEF AckInv, AckMeansAccepted
  <1>3. CASE Connect
    <2>1. Quiet(NewLink)
      BY DEF NewLink, Quiet
    <2>2. links'[conn'] = NewLink
      BY <1>1, <1>3, AppendProperties DEF Connect, LinkTypeOK
    <2>3. AnswerIsOwn'
      <3>1. Quiet(links'[conn'])
        BY <2>1, <2>2
      <3> QED BY <3>1 DEF AnswerIsOwn, Quiet
    <2>4. UNCHANGED <<freed, accepted, timeouts>>
      BY <1>3 DEF Connect, backend, faults
    <2> QED BY <2>3, <2>4 DEF AckInv, AckMeansAccepted
  <1>4. CASE Send
    BY <1>4, AckSend
  <1>5. CASE Response
    BY <1>5, AckResponse
  <1>6. CASE LinkDown
    BY <1>6, AckRetry DEF LinkDown, faults
  <1>7. CASE SendFails
    BY <1>7, AckRetry DEF SendFails, AckInv, AnswerIsOwn
  <1>8. CASE ResponseTimeout
    BY <1>8, AckTimeout
  <1>9. CASE Break
    <2>1. conn \in DOMAIN links /\ links[conn] \in Links
      BY <1>1, <1>9, ElementOfSeq DEF Break, Connected, LinkTypeOK
    <2>2. ~links'[conn].up /\ conn' = conn
      BY <1>9, <2>1 DEF Break, device, Links
    <2>3. ~Connected'
      BY <2>2 DEF Connected
    <2> QED BY <1>9, <2>3, AckUnchanged DEF Break, device, backend
  <1>10. CASE BackendRestarts
    <2>1. ~Connected'
      <3>1. CASE conn = 0
        BY <1>10, <3>1 DEF BackendRestarts, device, Connected
      <3>2. CASE conn # 0
        <4>1. conn \in DOMAIN links /\ links[conn] \in Links /\ conn' = conn
          <5>1. conn \in 1 .. Len(links)
            BY <1>1, <3>2 DEF LinkTypeOK
          <5> QED BY <1>1, <1>10, <5>1, ElementOfSeq DEF BackendRestarts, device, LinkTypeOK
        <4>2. ~links'[conn].up
          BY <1>10, <4>1 DEF BackendRestarts, Links
        <4> QED BY <4>1, <4>2 DEF Connected
      <3> QED BY <3>1, <3>2
    <2> QED BY <1>10, <2>1, AckUnchanged DEF BackendRestarts, device
  <1>11. CASE Reads
    BY <1>1, <1>11, AckRead DEF Reads
  <1>12. CASE Authenticates
    BY <1>1, <1>12, AckAuthenticate DEF Authenticates
  <1>13. CASE TimerFires \/ EventServerStops \/ UNCHANGED vars
    <2>1. UNCHANGED <<freed, accepted, timeouts, conn, links, waiting, current>>
      BY <1>13 DEF TimerFires, EventServerStops, vars, device, backend, faults
    <2> QED BY <2>1, AckUnchanged DEF Connected
  <1>14. ASSUME NEW e \in Events, Produce(e) \/ Store(e) PROVE AckInv'
    <2>1. UNCHANGED <<freed, accepted, timeouts, conn, links, waiting, current>>
      BY <1>14 DEF Produce, Store, device, backend, faults
    <2> QED BY <2>1, AckUnchanged DEF Connected
  <1> QED BY <1>2, <1>3, <1>4, <1>5, <1>6, <1>7, <1>8, <1>9, <1>10, <1>11, <1>12, <1>13, <1>14
         DEF Next

-----------------------------------------------------------------------------
(* Results *)

(* Unless the event queue overflows, _connecting is only ever raised while a *)
(* connect_socket_callback is queued or runs.                                *)
THEOREM ReconnectIsPending == Spec => []ReconnectPending
  BY DeviceInvariant, PTL DEF DeviceInv

(* Unless the event queue overflows, an event stays in the queue until its   *)
(* buffer is deleted.                                                        *)
THEOREM NoEventForgotten == Spec => []NothingForgotten
  BY DeviceInvariant, PTL DEF DeviceInv

(* No buffer is deleted twice or sent after its deletion.                    *)
THEOREM BuffersFreedOnce == Spec => []FreedOnce
  BY DeviceInvariant, PTL DEF DeviceInv

(* Every variable of device, connections and backend keeps its type: the    *)
(* socket refers to a connection that was made, and only send_callback waits,*)
(* on a socket that is open.                                                 *)
THEOREM DeliveryTypeCorrect == Spec => []DeliveryTypeOK
  <1>1. DeviceInv /\ LinkTypeOK => DeliveryTypeOK
    BY DEF DeviceInv, DeviceTypeOK, LinkTypeOK, DeliveryTypeOK
  <1> QED BY <1>1, DeviceInvariant, LinkInvariant, PTL

(* At most two connects are queued, delayed or running at any time, however  *)
(* often sending fails and whether or not the queue overflows.               *)
THEOREM ConnectsAreBounded == Spec => []BoundedConnects
  BY CountedIsBounded, DeviceInvariant, ConnectsInit, ConnectsStep, PTL DEF Spec

(* A queue with three slots more than there are events never overflows.  For *)
(* any finite number of events and any history of failures.                  *)
THEOREM QueueNeverOverflows ==
    ASSUME IsFiniteSet(Events)
    PROVE  Spec => []NeverOverflows
  BY DeviceInvariant, ConnectsInit, ConnectsStep, OverflowStep, PTL DEF Spec

(* So the condition of NothingForgotten can be met: with enough slots every  *)
(* event the tracker handed over is in the queue until its buffer is deleted.*)
THEOREM EnoughSlotsForgetNothing ==
    ASSUME IsFiniteSet(Events), QueueCapacity >= Cardinality(Events) + 3
    PROVE  Spec => [](\A e \in produced : Held(SendCb(e)) \/ e \in freed)
  <1>1. NeverOverflows /\ NothingForgotten => \A e \in produced : Held(SendCb(e)) \/ e \in freed
    BY DEF NeverOverflows, NothingForgotten
  <1> QED BY <1>1, QueueNeverOverflows, NoEventForgotten, PTL

(* If an event arrives in one piece and no response is late, the buffer of an *)
(* event is deleted only after that event was given to EventProcessor: over  *)
(* any number of reconnects, refused secrets, restarts and failures, the     *)
(* single byte of a response is taken for the event it answers.              *)
THEOREM AcksAreOwn ==
    ASSUME Fragments = 1, MaxTimeouts = 0
    PROVE  Spec => []AckMeansAccepted
  BY DeviceInvariant, LinkInvariant, AckInit, AckStep, PTL DEF Spec, AckInv
=============================================================================
