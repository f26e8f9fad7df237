-------------------------- MODULE RunEvents_proofs --------------------------
(***************************************************************************)
(* Proofs about RunEvents for every set of clients and every number of     *)
(* events: what a client is sent is the log from its beginning, and a      *)
(* stream that has ended has carried all of it.                            *)
(***************************************************************************)
EXTENDS RunEvents, FiniteSetTheorems, SequenceTheorems, TLAPS

-----------------------------------------------------------------------------
(* The inductive invariant *)

\* The log is 1, 2, 3 ..., and the event that is being handed out is its last.
LogInv ==
    /\ Len(log) <= emitted
    /\ \A i \in 1..Len(log) : log[i] = i
    /\ ~closed => Len(log) = emitted
    /\ sending # {} => Len(log) = emitted /\ emitted > 0

\* Before the buffer is closed nobody is sent its end, and afterwards it has no
\* queues any more.
CloseInv ==
    /\ task \in {"gates", "engine"} => ~closed
    /\ ~closed => late = {} /\ \A c \in Clients : farewell[c] = <<>>
    /\ closed => subs = {} /\ sending \subseteq late
    /\ late # {} => log # <<>>
    /\ \A c \in Clients : farewell[c] \in {<<>>, <<Sentinel>>, Farewell}

\* A client that has not connected is nowhere in the stream; an open buffer knows
\* every client that reads from it.
ClientInv ==
    /\ \A c \in Clients : client[c] \in {"away", "refused"} =>
          /\ c \notin subs \cup sending \cup late
          /\ farewell[c] = <<>> /\ queue[c] = <<>> /\ seen[c] = <<>>
          /\ \A i \in 1..Len(callbacks) : callbacks[i][1] # c
    /\ ~closed => \A c \in Clients : client[c] # "ended" /\ (client[c] = "live" => c \in subs)

\* Where an item comes in the stream of a client, when the log has n events: the
\* events in their order, then the end.  An event that is late comes m items later
\* than it should.
Place(n, m, item) ==
    IF item < n THEN item
    ELSE IF item = n THEN item + m
    ELSE IF item = Terminal THEN IF m = 0 THEN n + 1 ELSE n
    ELSE IF item = Sentinel THEN IF m = 2 THEN n + 1 ELSE n + 2
    ELSE 0

\* How much of its end has been said to the client.
Said(c) == IF closed THEN 2 - Len(farewell[c]) ELSE 0

\* How much later the last event may come: not at all unless it is late, and how
\* much is settled once it is handed out.
Delays(c) ==
    IF c \notin late THEN {0}
    ELSE IF c \in sending THEN {2} ELSE 0..Said(c)

\* How many items have been handed out for the client, how many it has been sent,
\* and how many are in its queue.
Out(c)     == Len(log) + Said(c) - (IF c \in sending THEN 1 ELSE 0)
Sent(c)    == Len(seen[c])
Waiting(c) == Len(queue[c])

\* How many items have reached its queue.
Arrived(c) == Sent(c) + Waiting(c)

SeenInv(c, m) ==
    /\ Sent(c) <= Out(c)
    /\ \A i \in 1..Sent(c) : Place(Len(log), m, seen[c][i]) = i

QueueInv(c, m) ==
    /\ Arrived(c) <= Out(c)
    /\ \A i \in 1..Waiting(c) : Place(Len(log), m, queue[c][i]) = Sent(c) + i

\* The callbacks of the client carry the items that have been handed out and are
\* not in its queue yet, each of them once, in order.
CallbackInv(c, m) ==
    /\ \A i \in 1..Len(callbacks) : callbacks[i][1] = c =>
          Place(Len(log), m, callbacks[i][2]) \in (Arrived(c) + 1)..Out(c)
    /\ \A k \in (Arrived(c) + 1)..Out(c) : \E i \in 1..Len(callbacks) :
          callbacks[i][1] = c /\ Place(Len(log), m, callbacks[i][2]) = k
    /\ \A i, j \in 1..Len(callbacks) :
          i < j /\ callbacks[i][1] = c /\ callbacks[j][1] = c =>
              Place(Len(log), m, callbacks[i][2]) < Place(Len(log), m, callbacks[j][2])

StreamInv(c) ==
    client[c] \in {"live", "left"} =>
        \E m \in Delays(c) : SeenInv(c, m)
            /\ (client[c] = "live" => QueueInv(c, m) /\ CallbackInv(c, m))

IInv == TypeOK /\ LogInv /\ CloseInv /\ ClientInv /\ EndedSawAll /\ \A c \in Clients : StreamInv(c)

-----------------------------------------------------------------------------
(* Sequences *)

LEMMA Appended ==
  ASSUME NEW S, NEW s \in Seq(S), NEW e \in S
  PROVE  /\ Append(s, e) \in Seq(S) /\ Len(Append(s, e)) = Len(s) + 1 /\ Len(s) \in Nat
         /\ \A i \in 1..Len(s) : Append(s, e)[i] = s[i]
         /\ Append(s, e)[Len(s) + 1] = e
<1> QED
    BY AppendProperties

LEMMA Shortened ==
  ASSUME NEW S, NEW s \in Seq(S), s # <<>>
  PROVE  /\ Head(s) = s[1] /\ s[1] \in S /\ Tail(s) \in Seq(S)
         /\ Len(s) \in Nat \ {0} /\ Len(Tail(s)) = Len(s) - 1
         /\ \A i \in 1..(Len(s) - 1) : Tail(s)[i] = s[i + 1]
<1> QED
    BY HeadTailProperties, EmptySeq

-----------------------------------------------------------------------------
(* Types *)

Items == 1..Sentinel
Calls == Clients \X Items

LEMMA Numbers == /\ Terminal \in Items /\ Sentinel \in Items /\ Sentinel \in Nat
                 /\ Terminal = MaxEvents + 1 /\ Sentinel = MaxEvents + 2
                 /\ Events \subseteq Items /\ Items = (1..Terminal) \cup {Sentinel}
<1> QED
    BY EventsOK DEF Terminal, Sentinel, Items, Events

\* What is said to a client at the end, and what is left of it.
LEMMA Farewells ==
  /\ {<<>>, <<Sentinel>>, Farewell} \subseteq Seq({Terminal, Sentinel})
  /\ Len(<<>>) = 0 /\ Len(<<Sentinel>>) = 1 /\ Len(Farewell) = 2
  /\ Head(Farewell) = Terminal /\ Tail(Farewell) = <<Sentinel>>
  /\ Head(<<Sentinel>>) = Sentinel /\ Tail(<<Sentinel>>) = <<>>
  /\ Farewell # <<>> /\ <<Sentinel>> # <<>>
<1> QED
    BY DEF Farewell

LEMMA InitTyped == Init => TypeOK
<1>1. /\ <<>> \in Seq({Terminal, Sentinel}) /\ <<>> \in Seq(Events)
      /\ <<>> \in Seq(Clients \X (1..Sentinel)) /\ <<>> \in Seq(1..Sentinel)
      /\ <<>> \in Seq(1..Terminal)
      BY EmptySeq
<1>2. Init => /\ farewell \in [Clients -> Seq({Terminal, Sentinel})]
              /\ queue \in [Clients -> Seq(1..Sentinel)] /\ seen \in [Clients -> Seq(1..Terminal)]
              /\ log \in Seq(Events) /\ callbacks \in Seq(Clients \X (1..Sentinel))
      BY <1>1, Zenon DEF Init
<1>3. Init => client \in [Clients -> {"away", "live", "ended", "left", "refused"}]
      BY Zenon DEF Init
<1>4. 0 \in 0..MaxEvents
      BY EventsOK
<1> QED
    BY <1>2, <1>3, <1>4, Zenon DEF Init, TypeOK

LEMMA NextTyped == TypeOK /\ LogInv /\ [Next]_vars => TypeOK'
<1> SUFFICES ASSUME TypeOK, LogInv, [Next]_vars PROVE TypeOK'
    OBVIOUS
<1> USE Numbers DEF TypeOK, dispatcher, engine, buffer, stream, Items
<1>1. CASE Emit
  <2>1. CASE Accepts
    <3>1. emitted + 1 \in Events
          BY <1>1, EventsOK DEF Emit, Events
    <3>2. log' \in Seq(Events)
      <4>1. Append(log, emitted + 1) \in Seq(Events)
            BY <3>1, Appended
      <4>2. log' = Append(log, emitted + 1)
            BY <1>1, <2>1 DEF Emit
      <4> QED
          BY <4>1, <4>2
    <3> QED
        BY <1>1, <2>1, <3>2, EventsOK DEF Emit
  <2> QED
      BY <1>1, <2>1, EventsOK DEF Emit
<1>2. ASSUME NEW c \in Clients, HandOut(c) PROVE TypeOK'
  <2>1. emitted \in 1..Sentinel
        BY <1>2, EventsOK DEF HandOut, LogInv
  <2>2. Append(callbacks, <<c, emitted>>) \in Seq(Clients \X (1..Sentinel))
        BY <2>1, Appended
  <2> QED
      BY <1>2, <2>2 DEF HandOut
<1>3. CASE EngineEnds
      BY <1>3 DEF EngineEnds
<1>4. CASE Spawn
      BY <1>4 DEF Spawn
<1>5. CASE Settle
      BY <1>5, Farewells DEF Settle
<1>6. ASSUME NEW c \in Clients, SayFarewell(c) PROVE TypeOK'
  <2>1. Head(farewell[c]) \in Items /\ Tail(farewell[c]) \in Seq({Terminal, Sentinel})
        BY <1>6, Shortened DEF SayFarewell
  <2>2. callbacks' \in Seq(Calls)
        BY <1>6, <2>1, Appended DEF SayFarewell, Calls
  <2> QED
      BY <1>6, <2>1, <2>2 DEF SayFarewell, Calls
<1>7. CASE SliceEnds
      BY <1>7 DEF SliceEnds
<1>8. CASE Vanish
      BY <1>8 DEF Vanish
<1>9. CASE RunCallback
  <2>1. callbacks \in Seq(Calls) /\ callbacks # <<>>
        BY <1>9 DEF RunCallback, Calls
  <2>2. Head(callbacks) \in Calls /\ Tail(callbacks) \in Seq(Calls)
        BY <2>1, Shortened
  <2>3. Append(queue[Head(callbacks)[1]], Head(callbacks)[2]) \in Seq(Items)
    <3>1. Head(callbacks)[1] \in Clients /\ Head(callbacks)[2] \in Items
          BY <2>2 DEF Calls
    <3>2. queue[Head(callbacks)[1]] \in Seq(Items)
          BY <3>1
    <3> QED
        BY <3>1, <3>2, Appended
  <2> QED
      BY <1>9, <2>2, <2>3 DEF RunCallback, Calls
<1>10. ASSUME NEW c \in Clients, Connect(c) PROVE TypeOK'
  <2>1. Replay \in Seq(1..Terminal)
    <3>1. log \in Seq(1..Terminal) /\ Terminal \in 1..Terminal
          BY SeqMonotonic, EventsOK DEF Events, Terminal
    <3> QED
        BY <3>1, Appended DEF Replay
  <2>2. seen' \in [Clients -> Seq(1..Terminal)]
        BY <1>10, <2>1 DEF Connect
  <2>3. /\ client' \in [Clients -> {"away", "live", "ended", "left", "refused"}]
        /\ subs' \subseteq Clients
        BY <1>10 DEF Connect
  <2>4. UNCHANGED <<dispatcher, engine, log, closed, callbacks, queue, late>>
        BY <1>10 DEF Connect
  <2> QED
      BY <2>2, <2>3, <2>4
<1>11. ASSUME NEW c \in Clients, Read(c) PROVE TypeOK'
  <2>1. queue[c] \in Seq(Items) /\ queue[c] # <<>>
        BY <1>11 DEF Read
  <2>2. Head(queue[c]) \in Items /\ Tail(queue[c]) \in Seq(Items)
        BY <2>1, Shortened
  <2>3. Head(queue[c]) # Sentinel => Append(seen[c], Head(queue[c])) \in Seq(1..Terminal)
        BY <2>2, Appended
  <2> QED
      BY <1>11, <2>2, <2>3 DEF Read
<1>12. ASSUME NEW c \in Clients, Leave(c) PROVE TypeOK'
      BY <1>12 DEF Leave
<1>13. CASE UNCHANGED vars
      BY <1>13 DEF vars
<1> QED
    BY <1>1, <1>2, <1>3, <1>4, <1>5, <1>6, <1>7, <1>8, <1>9, <1>10, <1>11, <1>12, <1>13
       DEF Next, Worker, Task

-----------------------------------------------------------------------------
(* The log, the close, the clients *)

LEMMA InitIInv == Init => IInv
<1> SUFFICES ASSUME Init PROVE IInv
    OBVIOUS
<1>1. TypeOK /\ LogInv /\ CloseInv /\ ClientInv /\ EndedSawAll
      BY InitTyped, EmptySeq DEF Init, LogInv, CloseInv, ClientInv, EndedSawAll
<1>2. \A c \in Clients : StreamInv(c)
      BY DEF Init, StreamInv
<1> QED
    BY <1>1, <1>2 DEF IInv

LEMMA NextLog == TypeOK /\ LogInv /\ CloseInv /\ [Next]_vars => LogInv'
<1> SUFFICES ASSUME TypeOK, LogInv, CloseInv, [Next]_vars PROVE LogInv'
    OBVIOUS
<1> USE EventsOK DEF TypeOK, LogInv, dispatcher, engine, buffer, stream
<1>1. CASE Emit
  <2>1. CASE Accepts
    <3>1. log \in Seq(Events) /\ emitted + 1 \in Events /\ Len(log) = emitted
          BY <1>1, <2>1 DEF Emit, Events, Accepts
    <3>2. /\ Len(Append(log, emitted + 1)) = emitted + 1
          /\ \A i \in 1..(emitted + 1) : Append(log, emitted + 1)[i] = i
          BY <3>1, Appended
    <3>3. log' = Append(log, emitted + 1) /\ emitted' = emitted + 1
          BY <1>1, <2>1 DEF Emit
    <3> QED
        BY <3>2, <3>3
  <2>2. CASE ~Accepts
    <3>1. /\ emitted' = emitted + 1 /\ sending' = {} /\ log' = log /\ closed' /\ closed
          BY <1>1, <2>2 DEF Emit, Accepts
    <3> QED
        BY <3>1, Appended
  <2> QED
      BY <2>1, <2>2
<1>2. ASSUME NEW c \in Clients, HandOut(c) PROVE LogInv'
      BY <1>2 DEF HandOut
<1>3. ASSUME UNCHANGED <<log, emitted, sending>>, closed => closed' PROVE LogInv'
      BY <1>3
<1>4. CASE UNCHANGED vars
      BY <1>4 DEF vars
<1> QED
    BY <1>1, <1>2, <1>3, <1>4 DEF Next, Worker, Task, EngineEnds, Spawn, Settle, SayFarewell,
       SliceEnds, Vanish, RunCallback, Connect, Read, Leave

LEMMA NextClose == TypeOK /\ LogInv /\ CloseInv /\ [Next]_vars => CloseInv'
<1> SUFFICES ASSUME TypeOK, LogInv, CloseInv, [Next]_vars PROVE CloseInv'
    OBVIOUS
<1> USE EventsOK, Farewells DEF TypeOK, CloseInv, dispatcher, engine, buffer, stream
<1>1. CASE Emit
  <2>1. CASE Accepts
        BY <1>1, <2>1 DEF Emit, Accepts
  <2>2. CASE ~Accepts
        BY <1>1, <2>2 DEF Emit, Accepts
  <2> QED
      BY <2>1, <2>2
<1>2. ASSUME NEW c \in Clients, HandOut(c) PROVE CloseInv'
      BY <1>2 DEF HandOut
<1>3. CASE Settle
  <2>1. sending # {} => log # <<>>
        BY EmptySeq DEF LogInv
  <2> QED
      BY <1>3, <2>1 DEF Settle
<1>4. ASSUME NEW c \in Clients, SayFarewell(c) PROVE CloseInv'
      BY <1>4 DEF SayFarewell
<1>5. CASE Spawn \/ SliceEnds
      BY <1>5 DEF Spawn, SliceEnds
<1>6. ASSUME NEW c \in Clients, Connect(c) PROVE CloseInv'
      BY <1>6 DEF Connect, Waits
<1>7. ASSUME NEW c \in Clients, Leave(c) PROVE CloseInv'
      BY <1>7 DEF Leave
<1>8. ASSUME UNCHANGED <<task, closed, late, farewell, subs, sending, log>> PROVE CloseInv'
      BY <1>8
<1> QED
    BY <1>1, <1>2, <1>3, <1>4, <1>5, <1>6, <1>7, <1>8 DEF Next, Worker, Task, EngineEnds, Vanish,
       RunCallback, Read, vars

\* Adding a callback for d adds none for another client.
LEMMA OtherCallbacks ==
  ASSUME TypeOK, NEW d \in Clients, NEW x \in Items, callbacks' = Append(callbacks, <<d, x>>)
  PROVE  /\ Len(callbacks') = Len(callbacks) + 1 /\ Len(callbacks) \in Nat
         /\ \A i \in 1..Len(callbacks) : callbacks'[i] = callbacks[i] /\ callbacks[i] \in Calls
         /\ callbacks'[Len(callbacks) + 1] = <<d, x>>
<1>1. callbacks \in Seq(Calls) /\ <<d, x>> \in Calls
      BY DEF TypeOK, Calls, Items
<1>2. \A i \in 1..Len(callbacks) : callbacks[i] \in Calls
      BY <1>1, ElementOfSeq
<1> QED
    BY <1>1, <1>2, Appended

\* What the loop has run, and what is left.
LEMMA FirstCallback ==
  ASSUME TypeOK, RunCallback
  PROVE  /\ Len(callbacks) \in Nat \ {0} /\ Len(callbacks') = Len(callbacks) - 1
         /\ callbacks[1] = Head(callbacks) /\ callbacks[1] \in Calls
         /\ callbacks[1][1] \in Clients /\ callbacks[1][2] \in Items
         /\ \A i \in 1..Len(callbacks) : callbacks[i] \in Calls
         /\ \A i \in 1..Len(callbacks') : callbacks'[i] = callbacks[i + 1]
<1>1. callbacks \in Seq(Calls) /\ callbacks # <<>> /\ callbacks' = Tail(callbacks)
      BY DEF TypeOK, Calls, Items, RunCallback
<1>2. \A i \in 1..Len(callbacks) : callbacks[i] \in Calls
      BY <1>1, ElementOfSeq
<1>3. callbacks[1][1] \in Clients /\ callbacks[1][2] \in Items
      BY <1>1, Shortened DEF Calls
<1> QED
    BY <1>1, <1>2, <1>3, Shortened

\* The lengths and the elements of a client's sequences.
LEMMA Sizes ==
  ASSUME TypeOK, LogInv, CloseInv, NEW c \in Clients
  PROVE  /\ Len(log) \in 0..MaxEvents /\ Len(callbacks) \in Nat
         /\ Sent(c) \in Nat /\ Waiting(c) \in Nat /\ Arrived(c) \in Nat /\ Said(c) \in 0..2
         /\ \A i \in 1..Sent(c) : seen[c][i] \in 1..Terminal /\ seen[c][i] \in Items
         /\ \A i \in 1..Waiting(c) : queue[c][i] \in Items
         /\ \A i \in 1..Len(callbacks) : callbacks[i][1] \in Clients /\ callbacks[i][2] \in Items
         /\ Out(c) \in Nat /\ (~closed => Out(c) <= Len(log))
<1>1. /\ Len(log) \in 0..MaxEvents /\ Sent(c) \in Nat /\ Waiting(c) \in Nat
      /\ Len(callbacks) \in Nat
      BY EventsOK DEF TypeOK, LogInv, Sent, Waiting
<1>2. Said(c) \in 0..2 /\ (~closed => Said(c) = 0)
  <2>1. Len(farewell[c]) \in 0..2
    <3>1. farewell[c] \in {<<>>, <<Sentinel>>, Farewell}
          BY DEF CloseInv
    <3> QED
        BY <3>1, Farewells
  <2>2. CASE closed
    <3>1. \A k \in 0..2 : 2 - k \in 0..2
          OBVIOUS
    <3> QED
        BY <2>1, <2>2, <3>1, Zenon DEF Said
  <2>3. CASE ~closed
        BY <2>3 DEF Said
  <2> QED
      BY <2>2, <2>3
<1>3. /\ \A i \in 1..Sent(c) : seen[c][i] \in 1..Terminal
      /\ \A i \in 1..Waiting(c) : queue[c][i] \in Items
  <2>1. seen[c] \in Seq(1..Terminal) /\ queue[c] \in Seq(Items)
        BY DEF TypeOK, Items
  <2> QED
      BY <2>1, ElementOfSeq DEF Sent, Waiting
<1>4. \A i \in 1..Len(callbacks) : callbacks[i][1] \in Clients /\ callbacks[i][2] \in Items
  <2>1. callbacks \in Seq(Calls)
        BY DEF TypeOK, Items, Calls
  <2>2. \A i \in 1..Len(callbacks) : callbacks[i] \in Calls
        BY <2>1, ElementOfSeq
  <2> QED
      BY <2>2 DEF Calls
<1>5. c \in sending => Len(log) > 0
      BY <1>1, EventsOK DEF LogInv, TypeOK
<1>6. Out(c) \in Nat /\ (~closed => Out(c) <= Len(log))
      BY <1>1, <1>2, <1>5, EventsOK DEF Out
<1>7. Arrived(c) \in Nat
      BY <1>1 DEF Arrived
<1>8. \A x \in 1..Terminal : x \in Items
      BY Numbers
<1> QED
    BY <1>1, <1>2, <1>3, <1>4, <1>6, <1>7, <1>8

\* What comes at a place.
LEMMA Placed ==
  ASSUME NEW n \in 0..MaxEvents, NEW m \in 0..2, n > 0 \/ m = 0
  PROVE  /\ \A e \in 1..n : Place(n, m, e) = IF e = n THEN n + m ELSE e
         /\ Place(n, m, Terminal) = IF m = 0 THEN n + 1 ELSE n
         /\ Place(n, m, Sentinel) = IF m = 2 THEN n + 1 ELSE n + 2
         /\ \A x \in Items : Place(n, m, x) \in 1..(n + 2) =>
               \/ x \in 1..n
               \/ x = Terminal
               \/ x = Sentinel
<1> QED
    BY EventsOK DEF Place, Items, Terminal, Sentinel

\* The first item of a queue comes after what the client has been sent.
LEMMA FirstItem ==
  ASSUME TypeOK, NEW c \in Clients, queue[c] # <<>>, NEW m, QueueInv(c, m)
  PROVE  /\ Head(queue[c]) \in Items /\ Waiting(c) \in Nat \ {0}
         /\ Len(Tail(queue[c])) = Waiting(c) - 1
         /\ Place(Len(log), m, Head(queue[c])) = Sent(c) + 1
         /\ \A i \in 1..(Waiting(c) - 1) : Tail(queue[c])[i] = queue[c][i + 1]
<1>1. queue[c] \in Seq(Items)
      BY DEF TypeOK, Items
<1>2. /\ Head(queue[c]) = queue[c][1] /\ Head(queue[c]) \in Items /\ Waiting(c) \in Nat \ {0}
      /\ Len(Tail(queue[c])) = Waiting(c) - 1
      /\ \A i \in 1..(Waiting(c) - 1) : Tail(queue[c])[i] = queue[c][i + 1]
      BY <1>1, Shortened DEF Waiting
<1>3. 1 \in 1..Waiting(c)
      BY <1>2
<1> QED
    BY <1>2, <1>3 DEF QueueInv

\* As long as the buffer is open, nobody has its end before him.
LEMMA OpenStream ==
  ASSUME TypeOK, LogInv, CloseInv, ~closed, NEW c \in Clients, StreamInv(c),
         client[c] = "live", queue[c] # <<>>
  PROVE  Head(queue[c]) # Sentinel
<1>1. QueueInv(c, 0)
      BY DEF StreamInv, Delays, CloseInv
<1>2. /\ Arrived(c) <= Out(c) /\ Len(log) \in 0..MaxEvents /\ Out(c) \in Nat /\ Out(c) <= Len(log)
      /\ Arrived(c) = Sent(c) + Waiting(c) /\ Sent(c) \in Nat
      BY <1>1, Sizes DEF QueueInv, Arrived
<1>3. Waiting(c) \in Nat \ {0} /\ Place(Len(log), 0, Head(queue[c])) = Sent(c) + 1
      BY <1>1, FirstItem
<1>4. Place(Len(log), 0, Sentinel) = Len(log) + 2
      BY <1>2, Placed
<1> QED
    BY <1>2, <1>3, <1>4, EventsOK

LEMMA NextClient ==
  ASSUME TypeOK, LogInv, CloseInv, ClientInv, \A c \in Clients : StreamInv(c), [Next]_vars
  PROVE  ClientInv'
<1> USE DEF TypeOK, ClientInv, dispatcher, engine, buffer, stream
<1>1. CASE Emit
      BY <1>1 DEF Emit
<1>2. ASSUME NEW d \in Clients, HandOut(d) PROVE ClientInv'
  <2>1. emitted \in Items
        BY <1>2, EventsOK DEF HandOut, LogInv, Items, Sentinel
  <2>2. callbacks' = Append(callbacks, <<d, emitted>>)
        BY <1>2 DEF HandOut
  <2>3. client[d] \notin {"away", "refused"}
        BY <1>2 DEF HandOut
  <2>4. sending' \subseteq sending /\ UNCHANGED <<client, closed, subs, late, farewell, queue, seen>>
        BY <1>2 DEF HandOut
  <2> HIDE DEF TypeOK
  <2> QED
      BY <2>1, <2>2, <2>3, <2>4, OtherCallbacks
<1>3. CASE EngineEnds
      BY <1>3 DEF EngineEnds
<1>4. CASE Spawn
      BY <1>4 DEF Spawn
<1>5. CASE Settle
      BY <1>5 DEF Settle
<1>6. ASSUME NEW d \in Clients, SayFarewell(d) PROVE ClientInv'
  <2>1. Head(farewell[d]) \in Items
        BY <1>6, Farewells, Numbers DEF SayFarewell, CloseInv
  <2>2. callbacks' = Append(callbacks, <<d, Head(farewell[d])>>)
        BY <1>6 DEF SayFarewell
  <2>3. client[d] \notin {"away", "refused"}
        BY <1>6 DEF SayFarewell
  <2>4. \A c \in Clients \ {d} : farewell'[c] = farewell[c]
        BY <1>6 DEF SayFarewell
  <2>5. UNCHANGED <<client, closed, subs, sending, late, queue, seen>>
        BY <1>6 DEF SayFarewell
  <2> HIDE DEF TypeOK
  <2> QED
      BY <2>1, <2>2, <2>3, <2>4, <2>5, OtherCallbacks
<1>7. CASE SliceEnds
      BY <1>7 DEF SliceEnds
<1>8. CASE Vanish
      BY <1>8 DEF Vanish
<1>9. CASE RunCallback
  <2>1. UNCHANGED <<client, closed, subs, sending, late, farewell, seen>>
        BY <1>9 DEF RunCallback
  <2>2. \A c \in Clients : c # Head(callbacks)[1] => queue'[c] = queue[c]
        BY <1>9 DEF RunCallback
  <2> HIDE DEF TypeOK
  <2>3. /\ Head(callbacks) = callbacks[1] /\ 1 \in 1..Len(callbacks)
        /\ \A i \in 1..Len(callbacks') :
              callbacks'[i] = callbacks[i + 1] /\ i + 1 \in 1..Len(callbacks)
        BY <1>9, FirstCallback
  <2> QED
      BY <2>1, <2>2, <2>3
<1>10. ASSUME NEW d \in Clients, Connect(d) PROVE ClientInv'
      BY <1>10, SMTT(30) DEF Connect, Waits
<1>11. ASSUME NEW d \in Clients, Read(d) PROVE ClientInv'
      BY <1>11, OpenStream, SMTT(30) DEF Read
<1>12. ASSUME NEW d \in Clients, Leave(d) PROVE ClientInv'
      BY <1>12 DEF Leave
<1>13. CASE UNCHANGED vars
      BY <1>13 DEF vars
<1> QED
    BY <1>1, <1>2, <1>3, <1>4, <1>5, <1>6, <1>7, <1>8, <1>9, <1>10, <1>11, <1>12, <1>13
       DEF Next, Worker, Task

-----------------------------------------------------------------------------
(* The stream of a client *)

\* A step that leaves the stream of a client alone, and the places of what is in it.
LEMMA Kept ==
  ASSUME TypeOK, LogInv, CloseInv, NEW c \in Clients, NEW m, NEW n,
         queue'[c] = queue[c], seen'[c] = seen[c],
         Out(c)' \in Nat, Out(c) <= Out(c)',
         \A x \in Items : Place(Len(log), m, x) \in 1..Out(c) =>
             Place(Len(log'), n, x) = Place(Len(log), m, x),
         SeenInv(c, m)
  PROVE  /\ SeenInv(c, n)'
         /\ Out(c)' = Out(c) /\ QueueInv(c, m) => QueueInv(c, n)'
<1>1. Sent(c)' = Sent(c) /\ Waiting(c)' = Waiting(c) /\ Arrived(c)' = Arrived(c)
      BY DEF Sent, Waiting, Arrived
<1>2. /\ Sent(c) \in Nat /\ Waiting(c) \in Nat /\ Arrived(c) = Sent(c) + Waiting(c)
      /\ Arrived(c) \in Nat /\ Out(c) \in Nat
      /\ \A i \in 1..Sent(c) : seen[c][i] \in Items
      /\ \A i \in 1..Waiting(c) : queue[c][i] \in Items
      BY Sizes DEF Arrived
<1>3. SeenInv(c, n)'
      BY <1>1, <1>2 DEF SeenInv
<1>4. ASSUME Out(c)' = Out(c), QueueInv(c, m) PROVE QueueInv(c, n)'
      BY <1>1, <1>2, <1>4 DEF QueueInv
<1> QED
    BY <1>3, <1>4

\* The same for the callbacks: the step may add some for other clients.
LEMMA KeptCallbacks ==
  ASSUME TypeOK, LogInv, CloseInv, NEW c \in Clients, NEW m, NEW n,
         queue'[c] = queue[c], seen'[c] = seen[c], Out(c)' = Out(c),
         Len(callbacks') \in Nat, Len(callbacks) <= Len(callbacks'),
         \A i \in 1..Len(callbacks) : callbacks'[i] = callbacks[i],
         \A i \in 1..Len(callbacks') : i \in 1..Len(callbacks) \/ callbacks'[i][1] # c,
         \A x \in Items : Place(Len(log), m, x) \in 1..Out(c) =>
             Place(Len(log'), n, x) = Place(Len(log), m, x),
         CallbackInv(c, m)
  PROVE  CallbackInv(c, n)'
<1>1. Arrived(c)' = Arrived(c)
      BY DEF Sent, Waiting, Arrived
<1>2. /\ Arrived(c) \in Nat /\ Out(c) \in Nat /\ Len(callbacks) \in Nat
      /\ \A i \in 1..Len(callbacks) : callbacks[i][2] \in Items
      BY Sizes
<1>3. \A i \in 1..Len(callbacks) : callbacks[i][1] = c =>
          Place(Len(log'), n, callbacks[i][2]) = Place(Len(log), m, callbacks[i][2])
      BY <1>2 DEF CallbackInv
<1>4. \A i \in 1..Len(callbacks') : callbacks'[i][1] = c =>
          i \in 1..Len(callbacks) /\ callbacks'[i] = callbacks[i]
      OBVIOUS
<1>5. \A i \in 1..Len(callbacks) : i \in 1..Len(callbacks')
      BY <1>2
<1> DEFINE p(i) == Place(Len(log'), n, callbacks'[i][2])
<1>6. \A i \in 1..Len(callbacks') : callbacks'[i][1] = c =>
          p(i) \in (Arrived(c) + 1)..Out(c)
      BY <1>3, <1>4 DEF CallbackInv
<1>7. \A k \in (Arrived(c) + 1)..Out(c) : \E i \in 1..Len(callbacks') :
          callbacks'[i][1] = c /\ p(i) = k
  <2> SUFFICES ASSUME NEW k \in (Arrived(c) + 1)..Out(c)
               PROVE  \E i \in 1..Len(callbacks') : callbacks'[i][1] = c /\ p(i) = k
      OBVIOUS
  <2>1. PICK i \in 1..Len(callbacks) :
            callbacks[i][1] = c /\ Place(Len(log), m, callbacks[i][2]) = k
        BY DEF CallbackInv
  <2>2. i \in 1..Len(callbacks') /\ callbacks'[i] = callbacks[i]
        BY <1>5
  <2> QED
      BY <1>3, <2>1, <2>2
<1>8. \A i, j \in 1..Len(callbacks') :
          i < j /\ callbacks'[i][1] = c /\ callbacks'[j][1] = c => p(i) < p(j)
  <2> SUFFICES ASSUME NEW i \in 1..Len(callbacks'), NEW j \in 1..Len(callbacks'), i < j,
                      callbacks'[i][1] = c, callbacks'[j][1] = c
               PROVE  p(i) < p(j)
      OBVIOUS
  <2>1. /\ i \in 1..Len(callbacks) /\ callbacks'[i] = callbacks[i]
        /\ j \in 1..Len(callbacks) /\ callbacks'[j] = callbacks[j]
        BY <1>4
  <2>2. p(i) = Place(Len(log), m, callbacks[i][2]) /\ p(j) = Place(Len(log), m, callbacks[j][2])
        BY <1>3, <2>1
  <2> QED
      BY <2>1, <2>2 DEF CallbackInv
<1> QED
    BY <1>1, <1>6, <1>7, <1>8 DEF CallbackInv

\* The next item of a client's stream is handed out.
LEMMA HandedOver ==
  ASSUME TypeOK, LogInv, CloseInv, NEW c \in Clients, NEW m, NEW n, NEW x \in Items,
         queue'[c] = queue[c], seen'[c] = seen[c], Out(c)' = Out(c) + 1,
         callbacks' = Append(callbacks, <<c, x>>),
         \A y \in Items : Place(Len(log), m, y) \in 1..Out(c) =>
             Place(Len(log'), n, y) = Place(Len(log), m, y),
         Place(Len(log'), n, x) = Out(c) + 1,
         QueueInv(c, m), CallbackInv(c, m)
  PROVE  QueueInv(c, n)' /\ CallbackInv(c, n)'
<1>1. Sent(c)' = Sent(c) /\ Waiting(c)' = Waiting(c) /\ Arrived(c)' = Arrived(c)
      BY DEF Sent, Waiting, Arrived
<1>2. /\ Sent(c) \in Nat /\ Waiting(c) \in Nat /\ Arrived(c) = Sent(c) + Waiting(c)
      /\ Arrived(c) \in Nat /\ Out(c) \in Nat /\ Len(callbacks) \in Nat
      /\ \A i \in 1..Waiting(c) : queue[c][i] \in Items
      /\ \A i \in 1..Len(callbacks) : callbacks[i][2] \in Items
      BY Sizes DEF Arrived
<1>3. QueueInv(c, n)'
      BY <1>1, <1>2 DEF QueueInv
<1>4. \A i \in 1..Len(callbacks) : callbacks[i][1] = c =>
          Place(Len(log'), n, callbacks[i][2]) = Place(Len(log), m, callbacks[i][2])
      BY <1>2, SMTT(30) DEF CallbackInv
<1>5. /\ Len(callbacks') = Len(callbacks) + 1
      /\ \A i \in 1..Len(callbacks) : callbacks'[i] = callbacks[i]
      /\ callbacks'[Len(callbacks) + 1] = <<c, x>>
      BY OtherCallbacks
<1>6. Arrived(c) <= Out(c)
      BY DEF QueueInv
<1> DEFINE p(i) == Place(Len(log'), n, callbacks'[i][2])
<1>7. \A i \in 1..Len(callbacks') : callbacks'[i][1] = c =>
          p(i) \in (Arrived(c) + 1)..(Out(c) + 1)
      BY <1>2, <1>4, <1>5, <1>6, SMTT(30) DEF CallbackInv
<1>8. \A k \in (Arrived(c) + 1)..(Out(c) + 1) : \E i \in 1..Len(callbacks') :
          callbacks'[i][1] = c /\ p(i) = k
  <2> SUFFICES ASSUME NEW k \in (Arrived(c) + 1)..(Out(c) + 1)
               PROVE  \E i \in 1..Len(callbacks') : callbacks'[i][1] = c /\ p(i) = k
      OBVIOUS
  <2>1. CASE k = Out(c) + 1
        BY <1>2, <1>5, <2>1
  <2>2. CASE k # Out(c) + 1
    <3>1. k \in (Arrived(c) + 1)..Out(c)
          BY <1>2, <2>2
    <3>2. PICK i \in 1..Len(callbacks) :
              callbacks[i][1] = c /\ Place(Len(log), m, callbacks[i][2]) = k
          BY <3>1 DEF CallbackInv
    <3>3. i \in 1..Len(callbacks') /\ callbacks'[i] = callbacks[i]
          BY <1>2, <1>5
    <3> QED
        BY <1>4, <3>2, <3>3
  <2> QED
      BY <2>1, <2>2
<1>9. \A i, j \in 1..Len(callbacks') :
          i < j /\ callbacks'[i][1] = c /\ callbacks'[j][1] = c => p(i) < p(j)
  <2> SUFFICES ASSUME NEW i \in 1..Len(callbacks'), NEW j \in 1..Len(callbacks'), i < j,
                      callbacks'[i][1] = c, callbacks'[j][1] = c
               PROVE  p(i) < p(j)
      OBVIOUS
  <2>1. /\ i \in 1..Len(callbacks) /\ callbacks'[i] = callbacks[i]
        /\ p(i) = Place(Len(log), m, callbacks[i][2])
        /\ p(i) \in (Arrived(c) + 1)..Out(c)
        BY <1>2, <1>4, <1>5, SMTT(30) DEF CallbackInv
  <2>2. CASE j = Len(callbacks) + 1
        BY <1>2, <1>5, <2>1, <2>2
  <2>3. CASE j # Len(callbacks) + 1
    <3>1. /\ j \in 1..Len(callbacks) /\ callbacks'[j] = callbacks[j]
          /\ p(j) = Place(Len(log), m, callbacks[j][2])
          BY <1>2, <1>4, <1>5, <2>3
    <3> QED
        BY <2>1, <3>1 DEF CallbackInv
  <2> QED
      BY <2>2, <2>3
<1>10. CallbackInv(c, n)'
      BY <1>1, <1>7, <1>8, <1>9 DEF CallbackInv
<1> QED
    BY <1>3, <1>10

\* A step that does nothing to the stream of a client.
LEMMA Still ==
  ASSUME TypeOK, LogInv, CloseInv, NEW c \in Clients, StreamInv(c),
         log' = log, closed' = closed, c \in late' <=> c \in late, c \in sending' <=> c \in sending,
         farewell'[c] = farewell[c], queue'[c] = queue[c], seen'[c] = seen[c],
         client'[c] = client[c],
         Len(callbacks') \in Nat, Len(callbacks) <= Len(callbacks'),
         \A i \in 1..Len(callbacks) : callbacks'[i] = callbacks[i],
         \A i \in 1..Len(callbacks') : i \in 1..Len(callbacks) \/ callbacks'[i][1] # c
  PROVE  StreamInv(c)'
<1>1. Said(c)' = Said(c)
      BY DEF Said
<1>2. Out(c)' = Out(c) /\ Delays(c)' = Delays(c)
      BY <1>1 DEF Out, Delays
<1>3. Out(c) \in Nat
      BY Sizes
<1> SUFFICES ASSUME client'[c] \in {"live", "left"}
             PROVE  \E m \in Delays(c)' : SeenInv(c, m)'
                       /\ (client'[c] = "live" => QueueInv(c, m)' /\ CallbackInv(c, m)')
    BY DEF StreamInv
<1>4. PICK m \in Delays(c) : SeenInv(c, m)
          /\ (client[c] = "live" => QueueInv(c, m) /\ CallbackInv(c, m))
      BY DEF StreamInv
<1>5. SeenInv(c, m)' /\ (QueueInv(c, m) => QueueInv(c, m)')
      BY <1>2, <1>3, <1>4, Kept
<1>6. CallbackInv(c, m) => CallbackInv(c, m)'
      BY <1>2, KeptCallbacks
<1> QED
    BY <1>2, <1>4, <1>5, <1>6

\* The frame of a step that adds no callback, or one for another client.
LEMMA NoCallback ==
  ASSUME TypeOK, callbacks' = callbacks
  PROVE  /\ Len(callbacks') \in Nat /\ Len(callbacks) <= Len(callbacks')
         /\ \A i \in 1..Len(callbacks) : callbacks'[i] = callbacks[i]
         /\ \A i \in 1..Len(callbacks') : i \in 1..Len(callbacks)
<1>1. Len(callbacks) \in Nat
      BY DEF TypeOK
<1> QED
    BY <1>1

LEMMA OneCallback ==
  ASSUME TypeOK, NEW c \in Clients, NEW d \in Clients \ {c}, NEW x \in Items,
         callbacks' = Append(callbacks, <<d, x>>)
  PROVE  /\ Len(callbacks') \in Nat /\ Len(callbacks) <= Len(callbacks')
         /\ \A i \in 1..Len(callbacks) : callbacks'[i] = callbacks[i]
         /\ \A i \in 1..Len(callbacks') : i \in 1..Len(callbacks) \/ callbacks'[i][1] # c
<1> QED
    BY OtherCallbacks

LEMMA EmitStream ==
  ASSUME TypeOK, LogInv, CloseInv, ClientInv, Emit, NEW c \in Clients, StreamInv(c)
  PROVE  StreamInv(c)'
<1>1. /\ sending = {} /\ emitted' = emitted + 1 /\ emitted < MaxEvents
      /\ UNCHANGED <<farewell, closed, subs, callbacks, queue, client, seen, late>>
      BY DEF Emit, dispatcher, buffer, stream
<1>2. CASE closed
  <2>1. log' = log /\ sending' = sending
        BY <1>2 DEF Emit, Accepts
  <2> QED
      BY <1>1, <2>1, NoCallback, Still
<1>3. CASE ~closed
  <2>1. log' = Append(log, emitted + 1) /\ sending' = subs /\ Len(log) = emitted
        BY <1>1, <1>3 DEF Emit, Accepts, LogInv
  <2>2. Len(log') = Len(log) + 1 /\ Len(log) \in 0..MaxEvents /\ Len(log') \in 0..MaxEvents
    <3>1. emitted + 1 \in Events /\ log \in Seq(Events) /\ emitted \in Nat
          BY <1>1, EventsOK DEF TypeOK, Events
    <3> QED
        BY <1>1, <2>1, <3>1, EventsOK, Appended
  <2>3. Delays(c) = {0} /\ Delays(c)' = {0} /\ Said(c) = 0 /\ Said(c)' = 0
        BY <1>1, <1>3 DEF Delays, CloseInv, Said
  <2>4. /\ Out(c) = Len(log) /\ Out(c) <= Out(c)' /\ Out(c)' \in Nat
        /\ c \in subs => Out(c)' = Out(c)
        BY <1>1, <2>1, <2>2, <2>3, EventsOK DEF Out
  <2>5. \A x \in Items : Place(Len(log), 0, x) \in 1..Out(c) =>
            Place(Len(log'), 0, x) = Place(Len(log), 0, x)
        BY <2>2, <2>4, EventsOK DEF Place, Items, Terminal, Sentinel
  <2> SUFFICES ASSUME client[c] \in {"live", "left"}
               PROVE  SeenInv(c, 0)' /\ (client[c] = "live" => QueueInv(c, 0)' /\ CallbackInv(c, 0)')
      BY <1>1, <2>3 DEF StreamInv
  <2>6. SeenInv(c, 0) /\ (client[c] = "live" => QueueInv(c, 0) /\ CallbackInv(c, 0))
        BY <2>3 DEF StreamInv
  <2>7. queue'[c] = queue[c] /\ seen'[c] = seen[c] /\ callbacks' = callbacks
        BY <1>1
  <2>8. SeenInv(c, 0)' /\ (Out(c)' = Out(c) /\ QueueInv(c, 0) => QueueInv(c, 0)')
        BY <2>4, <2>5, <2>6, <2>7, Kept
  <2>9. Out(c)' = Out(c) /\ CallbackInv(c, 0) => CallbackInv(c, 0)'
        BY <2>5, <2>7, NoCallback, KeptCallbacks
  <2>10. client[c] = "live" => c \in subs
        BY <1>3 DEF ClientInv
  <2> QED
      BY <2>4, <2>6, <2>8, <2>9, <2>10
<1> QED
    BY <1>2, <1>3

LEMMA HandOutStream ==
  ASSUME TypeOK, LogInv, CloseInv, NEW d \in Clients, HandOut(d), NEW c \in Clients, StreamInv(c)
  PROVE  StreamInv(c)'
<1>1. /\ d \in sending /\ sending' = sending \ {d}
      /\ UNCHANGED <<farewell, log, closed, queue, client, seen, late>>
      BY DEF HandOut, dispatcher, buffer, stream
<1>2. /\ Len(log) \in 1..MaxEvents /\ Len(log) \in Items
      /\ callbacks' = Append(callbacks, <<d, Len(log)>>)
      BY <1>1, EventsOK DEF HandOut, LogInv, TypeOK, Items, Sentinel
<1>3. CASE c # d
      BY <1>1, <1>2, <1>3, OneCallback, Still
<1>4. CASE c = d
  <2>1. Said(c)' = Said(c) /\ Said(c) \in 0..2 /\ Delays(c)' = (IF c \in late THEN 0..Said(c) ELSE {0})
        BY <1>1, <1>4, Sizes DEF Said, Delays
  <2>2. Out(c) = Len(log) + Said(c) - 1 /\ Out(c)' = Len(log) + Said(c)
        BY <1>1, <1>2, <1>4, <2>1 DEF Out
  <2> PICK m \in 0..2 : m = IF c \in late THEN 2 ELSE 0
      OBVIOUS
  <2> PICK n \in 0..2 : n = IF c \in late THEN Said(c) ELSE 0
      BY <2>1
  <2>3. Delays(c) = {m} /\ n \in Delays(c)' /\ (c \notin late => Said(c) = 0)
    <3>1. c \notin late => Said(c) = 0
          BY <1>1, <1>4 DEF CloseInv, Said
    <3>2. Delays(c) = {m}
          BY <1>1, <1>4 DEF Delays
    <3>3. n \in 0..n
          OBVIOUS
    <3> QED
        BY <2>1, <3>1, <3>2, <3>3
  <2>4. \A x \in Items : Place(Len(log), m, x) \in 1..Out(c) =>
            Place(Len(log), n, x) = Place(Len(log), m, x)
        BY <1>2, <2>1, <2>2, EventsOK DEF Place, Items, Terminal, Sentinel
  <2>5. Place(Len(log), n, Len(log)) = Out(c) + 1 /\ Out(c)' = Out(c) + 1 /\ Out(c) \in Nat
        BY <1>2, <2>1, <2>2, <2>3, EventsOK DEF Place
  <2> SUFFICES ASSUME client[c] \in {"live", "left"}
               PROVE  SeenInv(c, n)' /\ (client[c] = "live" => QueueInv(c, n)' /\ CallbackInv(c, n)')
      BY <1>1, <2>3 DEF StreamInv
  <2>6. SeenInv(c, m) /\ (client[c] = "live" => QueueInv(c, m) /\ CallbackInv(c, m))
        BY <2>3 DEF StreamInv
  <2>7. log' = log /\ queue'[c] = queue[c] /\ seen'[c] = seen[c]
        BY <1>1
  <2>8. SeenInv(c, n)'
        BY <2>4, <2>5, <2>6, <2>7, Kept
  <2>9. QueueInv(c, m) /\ CallbackInv(c, m) => QueueInv(c, n)' /\ CallbackInv(c, n)'
    <3> PICK x \in Items : x = Len(log)
        BY <1>2
    <3>1. callbacks' = Append(callbacks, <<c, x>>) /\ Place(Len(log'), n, x) = Out(c) + 1
          BY <1>2, <1>4, <2>5, <2>7
    <3> QED
        BY <2>4, <2>5, <2>7, <3>1, HandedOver, SMTT(30)
  <2> QED
      BY <2>6, <2>8, <2>9
<1> QED
    BY <1>3, <1>4

LEMMA SettleStream ==
  ASSUME TypeOK, LogInv, CloseInv, ClientInv, Settle, NEW c \in Clients, StreamInv(c)
  PROVE  StreamInv(c)'
<1>1. ~closed /\ UNCHANGED <<sending, log, callbacks, queue, client, seen>>
      BY DEF Settle, CloseInv, engine, stream
<1>2. CASE status = "gone"
  <2>1. UNCHANGED <<farewell, closed, late>>
        BY <1>2 DEF Settle
  <2> QED
      BY <1>1, <2>1, NoCallback, Still
<1>3. CASE status # "gone"
  <2>1. closed' /\ late' = sending /\ farewell'[c] = IF c \in subs THEN Farewell ELSE <<>>
        BY <1>3 DEF Settle
  <2>2. Delays(c) = {0} /\ Said(c) = 0
        BY <1>1 DEF Delays, CloseInv, Said
  <2>3. Said(c)' \in 0..2 /\ (c \in subs => Said(c)' = 0)
        BY <2>1, Farewells DEF Said
  <2> PICK n \in {0, 2} : n = IF c \in sending THEN 2 ELSE 0
      OBVIOUS
  <2>4. n \in Delays(c)'
        BY <1>1, <2>1 DEF Delays
  <2>5. Out(c) \in Nat /\ Len(log) \in 0..MaxEvents /\ (c \in sending => Len(log) > 0)
        BY Sizes, EventsOK DEF LogInv, TypeOK
  <2>6. /\ Out(c) = Len(log) - (IF c \in sending THEN 1 ELSE 0)
        /\ Out(c)' = Out(c) + Said(c)'
        BY <1>1, <2>2, <2>3, <2>5, EventsOK DEF Out
  <2>7. \A x \in Items : Place(Len(log), 0, x) \in 1..Out(c) =>
            Place(Len(log'), n, x) = Place(Len(log), 0, x)
        BY <1>1, <2>5, <2>6, EventsOK DEF Place, Items, Terminal, Sentinel
  <2> SUFFICES ASSUME client[c] \in {"live", "left"}
               PROVE  SeenInv(c, n)' /\ (client[c] = "live" => QueueInv(c, n)' /\ CallbackInv(c, n)')
      BY <1>1, <2>4 DEF StreamInv
  <2>8. SeenInv(c, 0) /\ (client[c] = "live" => QueueInv(c, 0) /\ CallbackInv(c, 0))
        BY <2>2 DEF StreamInv
  <2>9. queue'[c] = queue[c] /\ seen'[c] = seen[c] /\ callbacks' = callbacks
        BY <1>1
  <2>10. Out(c) <= Out(c)' /\ Out(c)' \in Nat /\ (client[c] = "live" => Out(c)' = Out(c))
        BY <1>1, <2>3, <2>5, <2>6 DEF ClientInv
  <2>11. SeenInv(c, n)' /\ (Out(c)' = Out(c) /\ QueueInv(c, 0) => QueueInv(c, n)')
        BY <2>7, <2>8, <2>9, <2>10, Kept
  <2>12. Out(c)' = Out(c) /\ CallbackInv(c, 0) => CallbackInv(c, n)'
        BY <2>7, <2>9, NoCallback, KeptCallbacks
  <2> QED
      BY <2>8, <2>10, <2>11, <2>12
<1> QED
    BY <1>2, <1>3

LEMMA FarewellStream ==
  ASSUME TypeOK, LogInv, CloseInv, NEW d \in Clients, SayFarewell(d), NEW c \in Clients, StreamInv(c)
  PROVE  StreamInv(c)'
<1>1. /\ farewell[d] # <<>> /\ farewell' = [farewell EXCEPT ![d] = Tail(@)]
      /\ callbacks' = Append(callbacks, <<d, Head(farewell[d])>>)
      /\ UNCHANGED <<sending, log, closed, queue, client, seen, late>>
      BY DEF SayFarewell, engine, buffer, stream
<1>2. farewell[d] \in {<<Sentinel>>, Farewell} /\ closed
      BY <1>1 DEF CloseInv
<1>3. PICK x \in Items : x = Head(farewell[d])
      BY <1>2, Farewells, Numbers
<1>4. CASE c # d
  <2>1. farewell'[c] = farewell[c]
        BY <1>1, <1>4 DEF TypeOK
  <2> QED
      BY <1>1, <1>3, <1>4, <2>1, OneCallback, Still
<1>5. CASE c = d
  <2>1. /\ Said(c) \in {0, 1} /\ Said(c)' = Said(c) + 1
        /\ x = IF Said(c) = 0 THEN Terminal ELSE Sentinel
    <3>1. farewell'[c] = Tail(farewell[c])
          BY <1>1, <1>5 DEF TypeOK
    <3>2. CASE farewell[c] = Farewell
          BY <1>1, <1>2, <1>3, <1>5, <3>1, <3>2, Farewells DEF Said
    <3>3. CASE farewell[c] = <<Sentinel>>
          BY <1>1, <1>2, <1>3, <1>5, <3>1, <3>3, Farewells DEF Said
    <3> QED
        BY <1>2, <1>5, <3>2, <3>3
  <2>2. /\ Out(c) \in Nat /\ Len(log) \in 0..MaxEvents /\ (c \in late => Len(log) > 0)
        /\ c \in sending => c \in late
        BY <1>2, Sizes, EmptySeq, EventsOK, SMTT(30) DEF CloseInv, TypeOK
  <2>3. /\ Out(c) = Len(log) + Said(c) - (IF c \in sending THEN 1 ELSE 0)
        /\ Out(c)' = Out(c) + 1
        BY <1>1, <2>1, <2>2 DEF Out
  <2>4. \A m \in Delays(c) : /\ m \in Delays(c)' /\ m \in 0..2
                             /\ Place(Len(log), m, x) = Out(c) + 1
    <3> SUFFICES ASSUME NEW m \in Delays(c)
                 PROVE  m \in Delays(c)' /\ m \in 0..2 /\ Place(Len(log), m, x) = Out(c) + 1
        OBVIOUS
    <3>1. m \in Delays(c)' /\ m \in 0..2
          BY <1>1, <2>1 DEF Delays
    <3>2. Place(Len(log), m, x) =
              IF x = Terminal THEN IF m = 0 THEN Len(log) + 1 ELSE Len(log)
                              ELSE IF m = 2 THEN Len(log) + 1 ELSE Len(log) + 2
          BY <2>1, <2>2, EventsOK DEF Place, Terminal, Sentinel
    <3>3. Terminal # Sentinel
          BY EventsOK DEF Terminal, Sentinel
    <3>4. CASE c \notin late
          BY <2>1, <2>2, <2>3, <3>1, <3>2, <3>3, <3>4 DEF Delays
    <3>5. CASE c \in sending
          BY <2>1, <2>2, <2>3, <3>1, <3>2, <3>3, <3>5 DEF Delays
    <3>6. CASE c \in late /\ c \notin sending
          BY <2>1, <2>2, <2>3, <3>1, <3>2, <3>3, <3>6 DEF Delays
    <3> QED
        BY <3>4, <3>5, <3>6
  <2> SUFFICES ASSUME client[c] \in {"live", "left"}
               PROVE  \E m \in Delays(c)' : SeenInv(c, m)'
                         /\ (client[c] = "live" => QueueInv(c, m)' /\ CallbackInv(c, m)')
      BY <1>1 DEF StreamInv
  <2>5. PICK m \in Delays(c) : SeenInv(c, m)
            /\ (client[c] = "live" => QueueInv(c, m) /\ CallbackInv(c, m))
        BY DEF StreamInv
  <2>6. /\ log' = log /\ queue'[c] = queue[c] /\ seen'[c] = seen[c]
        /\ callbacks' = Append(callbacks, <<c, x>>)
        BY <1>1, <1>3, <1>5
  <2>7. SeenInv(c, m)'
        BY <2>2, <2>3, <2>5, <2>6, Kept
  <2>8. QueueInv(c, m) /\ CallbackInv(c, m) => QueueInv(c, m)' /\ CallbackInv(c, m)'
        BY <2>3, <2>4, <2>6, HandedOver
  <2> QED
      BY <2>4, <2>5, <2>7, <2>8
<1> QED
    BY <1>4, <1>5

\* The first of the loop's callbacks carries what comes next for its client.
LEMMA NextItem ==
  ASSUME TypeOK, LogInv, CloseInv, RunCallback, NEW c \in Clients, callbacks[1][1] = c,
         NEW m, CallbackInv(c, m)
  PROVE  Place(Len(log), m, callbacks[1][2]) = Arrived(c) + 1 /\ Arrived(c) + 1 <= Out(c)
<1>1. Len(callbacks) \in Nat \ {0} /\ Arrived(c) \in Nat /\ Out(c) \in Nat
      BY FirstCallback, Sizes
<1>2. Place(Len(log), m, callbacks[1][2]) \in (Arrived(c) + 1)..Out(c)
      BY <1>1 DEF CallbackInv
<1>3. PICK i \in 1..Len(callbacks) :
          callbacks[i][1] = c /\ Place(Len(log), m, callbacks[i][2]) = Arrived(c) + 1
  <2>1. Arrived(c) + 1 \in (Arrived(c) + 1)..Out(c)
        BY <1>1, <1>2
  <2> QED
      BY <2>1 DEF CallbackInv
<1>4. 1 < i => Place(Len(log), m, callbacks[1][2]) < Place(Len(log), m, callbacks[i][2])
      BY <1>1, <1>3 DEF CallbackInv
<1> QED
    BY <1>1, <1>2, <1>3, <1>4

LEMMA CallbackStream ==
  ASSUME TypeOK, LogInv, CloseInv, RunCallback, NEW c \in Clients, StreamInv(c)
  PROVE  StreamInv(c)'
<1>1. /\ Len(callbacks) \in Nat \ {0} /\ Len(callbacks') = Len(callbacks) - 1
      /\ callbacks[1][1] \in Clients /\ callbacks[1][2] \in Items
      /\ \A i \in 1..Len(callbacks') : callbacks'[i] = callbacks[i + 1]
      BY FirstCallback
<1>2. /\ UNCHANGED <<farewell, sending, log, closed, client, seen, late>>
      /\ queue' = [queue EXCEPT ![callbacks[1][1]] = Append(@, callbacks[1][2])]
      BY FirstCallback DEF RunCallback, dispatcher, engine, buffer
<1>3. Said(c)' = Said(c) /\ Sent(c)' = Sent(c)
      BY <1>2 DEF Said, Sent
<1>4. Out(c)' = Out(c) /\ Delays(c)' = Delays(c)
      BY <1>2, <1>3 DEF Out, Delays
<1>5. /\ Arrived(c) \in Nat /\ Out(c) \in Nat /\ Sent(c) \in Nat /\ Waiting(c) \in Nat
      /\ Arrived(c) = Sent(c) + Waiting(c)
      BY Sizes DEF Arrived
<1> SUFFICES ASSUME client[c] \in {"live", "left"}
             PROVE  \E m \in Delays(c) : SeenInv(c, m)'
                       /\ (client[c] = "live" => QueueInv(c, m)' /\ CallbackInv(c, m)')
    BY <1>2, <1>4 DEF StreamInv
<1>6. PICK m \in Delays(c) : SeenInv(c, m)
          /\ (client[c] = "live" => QueueInv(c, m) /\ CallbackInv(c, m))
      BY DEF StreamInv
<1>7. SeenInv(c, m)'
      BY <1>2, <1>3, <1>4, <1>6 DEF SeenInv
<1> DEFINE P(i) == Place(Len(log), m, callbacks[i][2])
           mine(i) == callbacks[i][1] = c
<1>8. ASSUME QueueInv(c, m), CallbackInv(c, m) PROVE QueueInv(c, m)' /\ CallbackInv(c, m)'
  <2>1. /\ Arrived(c) <= Out(c)
        /\ \A i \in 1..Waiting(c) : Place(Len(log), m, queue[c][i]) = Sent(c) + i
        BY <1>8 DEF QueueInv
  <2>2. /\ \A i \in 1..Len(callbacks) : mine(i) => P(i) \in (Arrived(c) + 1)..Out(c)
        /\ \A k \in (Arrived(c) + 1)..Out(c) : \E i \in 1..Len(callbacks) : mine(i) /\ P(i) = k
        /\ \A i, j \in 1..Len(callbacks) : i < j /\ mine(i) /\ mine(j) => P(i) < P(j)
        BY <1>8 DEF CallbackInv
  <2>3. \A i \in 1..(Len(callbacks) - 1) : callbacks'[i] = callbacks[i + 1]
                                          /\ i + 1 \in 1..Len(callbacks)
        BY <1>1
  <2>4. \A j \in 1..Len(callbacks) : j # 1 => j - 1 \in 1..(Len(callbacks) - 1)
                                              /\ callbacks'[j - 1] = callbacks[j]
        BY <1>1, <2>3
  <2>5. CASE callbacks[1][1] # c
    <3>1. queue'[c] = queue[c]
          BY <1>1, <1>2, <2>5 DEF TypeOK
    <3>2. Waiting(c)' = Waiting(c) /\ Arrived(c)' = Arrived(c)
          BY <1>3, <3>1 DEF Waiting, Arrived
    <3>3. QueueInv(c, m)'
          BY <1>2, <1>3, <1>4, <2>1, <3>1, <3>2 DEF QueueInv
    <3>4. \A i \in 1..(Len(callbacks) - 1) : callbacks'[i][1] = c =>
              Place(Len(log), m, callbacks'[i][2]) \in (Arrived(c) + 1)..Out(c)
          BY <2>2, <2>3
    <3>5. \A k \in (Arrived(c) + 1)..Out(c) : \E i \in 1..(Len(callbacks) - 1) :
              callbacks'[i][1] = c /\ Place(Len(log), m, callbacks'[i][2]) = k
      <4> SUFFICES ASSUME NEW k \in (Arrived(c) + 1)..Out(c)
                   PROVE  \E i \in 1..(Len(callbacks) - 1) :
                              callbacks'[i][1] = c /\ Place(Len(log), m, callbacks'[i][2]) = k
          OBVIOUS
      <4>1. PICK j \in 1..Len(callbacks) : mine(j) /\ P(j) = k
            BY <2>2
      <4>2. j # 1
            BY <2>5, <4>1
      <4> QED
          BY <2>4, <4>1, <4>2
    <3>6. \A i, j \in 1..(Len(callbacks) - 1) :
              i < j /\ callbacks'[i][1] = c /\ callbacks'[j][1] = c =>
                  Place(Len(log), m, callbacks'[i][2]) < Place(Len(log), m, callbacks'[j][2])
      <4> SUFFICES ASSUME NEW i \in 1..(Len(callbacks) - 1), NEW j \in 1..(Len(callbacks) - 1),
                          i < j, callbacks'[i][1] = c, callbacks'[j][1] = c
                   PROVE  P(i + 1) < P(j + 1)
          BY <2>3
      <4>1. i + 1 < j + 1 /\ mine(i + 1) /\ mine(j + 1)
            BY <2>3
      <4> QED
          BY <2>2, <2>3, <4>1
    <3> QED
        BY <1>1, <1>2, <1>4, <3>2, <3>3, <3>4, <3>5, <3>6 DEF CallbackInv
  <2>6. CASE callbacks[1][1] = c
    <3>1. P(1) = Arrived(c) + 1 /\ Arrived(c) + 1 <= Out(c)
          BY <1>8, <2>6, NextItem
    <3>2. /\ Waiting(c)' = Waiting(c) + 1 /\ Arrived(c)' = Arrived(c) + 1
          /\ \A i \in 1..Waiting(c) : queue'[c][i] = queue[c][i]
          /\ queue'[c][Waiting(c) + 1] = callbacks[1][2]
      <4>1. queue'[c] = Append(queue[c], callbacks[1][2]) /\ queue[c] \in Seq(Items)
            BY <1>1, <1>2, <2>6 DEF TypeOK, Items
      <4>2. /\ Waiting(c)' = Waiting(c) + 1
            /\ \A i \in 1..Waiting(c) : queue'[c][i] = queue[c][i]
            /\ queue'[c][Waiting(c) + 1] = callbacks[1][2]
            BY <1>1, <4>1, Appended DEF Waiting
      <4> QED
          BY <1>3, <1>5, <4>2 DEF Arrived
    <3>3. QueueInv(c, m)'
      <4>1. \A i \in 1..(Waiting(c) + 1) : Place(Len(log), m, queue'[c][i]) = Sent(c) + i
        <5> SUFFICES ASSUME NEW i \in 1..(Waiting(c) + 1)
                     PROVE  Place(Len(log), m, queue'[c][i]) = Sent(c) + i
            OBVIOUS
        <5>1. CASE i = Waiting(c) + 1
              BY <1>5, <3>1, <3>2, <5>1
        <5>2. CASE i \in 1..Waiting(c)
              BY <2>1, <3>2, <5>2
        <5> QED
            BY <1>5, <5>1, <5>2
      <4> QED
          BY <1>2, <1>3, <1>4, <3>1, <3>2, <4>1 DEF QueueInv
    <3>4. \A i \in 1..(Len(callbacks) - 1) : callbacks'[i][1] = c =>
              Place(Len(log), m, callbacks'[i][2]) \in (Arrived(c) + 2)..Out(c)
      <4> SUFFICES ASSUME NEW i \in 1..(Len(callbacks) - 1), mine(i + 1)
                   PROVE  P(i + 1) \in (Arrived(c) + 2)..Out(c)
          BY <2>3
      <4>1. 1 \in 1..Len(callbacks) /\ i + 1 \in 1..Len(callbacks) /\ 1 < i + 1
            BY <1>1
      <4>2. P(i + 1) \in (Arrived(c) + 1)..Out(c) /\ P(1) < P(i + 1)
            BY <2>2, <2>6, <4>1
      <4> QED
          BY <1>5, <3>1, <4>2
    <3>5. \A k \in (Arrived(c) + 2)..Out(c) : \E i \in 1..(Len(callbacks) - 1) :
              callbacks'[i][1] = c /\ Place(Len(log), m, callbacks'[i][2]) = k
      <4> SUFFICES ASSUME NEW k \in (Arrived(c) + 2)..Out(c)
                   PROVE  \E i \in 1..(Len(callbacks) - 1) :
                              callbacks'[i][1] = c /\ Place(Len(log), m, callbacks'[i][2]) = k
          OBVIOUS
      <4>1. PICK j \in 1..Len(callbacks) : mine(j) /\ P(j) = k
        <5>1. k \in (Arrived(c) + 1)..Out(c)
              BY <1>5
        <5> QED
            BY <2>2, <5>1
      <4>2. j # 1
            BY <1>5, <3>1, <4>1
      <4> QED
          BY <2>4, <4>1, <4>2
    <3>6. \A i, j \in 1..(Len(callbacks) - 1) :
              i < j /\ callbacks'[i][1] = c /\ callbacks'[j][1] = c =>
                  Place(Len(log), m, callbacks'[i][2]) < Place(Len(log), m, callbacks'[j][2])
      <4> SUFFICES ASSUME NEW i \in 1..(Len(callbacks) - 1), NEW j \in 1..(Len(callbacks) - 1),
                          i < j, callbacks'[i][1] = c, callbacks'[j][1] = c
                   PROVE  P(i + 1) < P(j + 1)
          BY <2>3
      <4>1. i + 1 < j + 1 /\ mine(i + 1) /\ mine(j + 1)
            BY <2>3
      <4> QED
          BY <2>2, <2>3, <4>1
    <3>7. Arrived(c)' + 1 = Arrived(c) + 2
          BY <1>5, <3>2
    <3> QED
        BY <1>1, <1>2, <1>4, <3>3, <3>4, <3>5, <3>6, <3>7 DEF CallbackInv
  <2> QED
      BY <2>5, <2>6
<1> QED
    BY <1>6, <1>7, <1>8

LEMMA ConnectStream ==
  ASSUME TypeOK, LogInv, CloseInv, ClientInv, NEW d \in Clients, Connect(d),
         NEW c \in Clients, StreamInv(c)
  PROVE  StreamInv(c)'
<1>1. /\ client[d] = "away" /\ UNCHANGED <<farewell, sending, log, closed, callbacks, queue, late>>
      BY DEF Connect, dispatcher, engine
<1>2. CASE c # d
  <2>1. client'[c] = client[c] /\ seen'[c] = seen[c]
        BY <1>1, <1>2 DEF Connect, TypeOK
  <2> QED
      BY <1>1, <2>1, NoCallback, Still
<1>3. CASE c = d
  <2> SUFFICES ASSUME client'[c] \in {"live", "left"}
               PROVE  \E m \in Delays(c)' : SeenInv(c, m)'
                         /\ (client'[c] = "live" => QueueInv(c, m)' /\ CallbackInv(c, m)')
      BY DEF StreamInv
  <2>1. ~closed /\ seen'[c] = log
        BY <1>1, <1>3 DEF Connect, Waits, Replay, TypeOK
  <2>2. /\ c \notin sending /\ c \notin late /\ queue[c] = <<>>
        /\ \A i \in 1..Len(callbacks) : callbacks[i][1] # c
        BY <1>1, <1>3 DEF ClientInv
  <2>3. Delays(c)' = {0} /\ Said(c)' = 0
        BY <1>1, <2>1, <2>2 DEF Delays, Said
  <2>4. Len(log) \in 0..MaxEvents /\ Len(log) \in Nat
        BY EventsOK DEF TypeOK, LogInv
  <2>5. /\ Out(c)' = Len(log) /\ Sent(c)' = Len(log) /\ Waiting(c)' = 0 /\ Arrived(c)' = Len(log)
        BY <1>1, <2>1, <2>2, <2>3, <2>4 DEF Out, Sent, Waiting, Arrived
  <2>6. \A i \in 1..Len(log) : Place(Len(log), 0, log[i]) = i
        BY <2>4 DEF LogInv, Place
  <2>7. SeenInv(c, 0)'
        BY <1>1, <2>1, <2>4, <2>5, <2>6 DEF SeenInv
  <2>8. QueueInv(c, 0)'
        BY <2>4, <2>5 DEF QueueInv
  <2>9. CallbackInv(c, 0)'
        BY <1>1, <2>2, <2>4, <2>5 DEF CallbackInv
  <2> QED
      BY <2>3, <2>7, <2>8, <2>9
<1> QED
    BY <1>2, <1>3

LEMMA ReadStream ==
  ASSUME TypeOK, LogInv, CloseInv, NEW d \in Clients, Read(d), NEW c \in Clients, StreamInv(c)
  PROVE  StreamInv(c)'
<1>1. /\ client[d] = "live" /\ queue[d] # <<>> /\ queue' = [queue EXCEPT ![d] = Tail(@)]
      /\ UNCHANGED <<farewell, sending, log, closed, callbacks, late>>
      BY DEF Read, dispatcher, engine, buffer
<1>2. CASE c # d
  <2>1. client'[c] = client[c] /\ seen'[c] = seen[c] /\ queue'[c] = queue[c]
        BY <1>1, <1>2 DEF Read, TypeOK
  <2> QED
      BY <1>1, <2>1, NoCallback, Still
<1>3. CASE c = d
  <2>1. CASE Head(queue[c]) = Sentinel
    <3>1. client'[c] = "ended"
          BY <1>1, <1>3, <2>1 DEF Read, TypeOK
    <3> QED
        BY <3>1 DEF StreamInv
  <2>2. CASE Head(queue[c]) # Sentinel
    <3>1. /\ seen'[c] = Append(seen[c], Head(queue[c])) /\ client'[c] = "live"
          /\ queue'[c] = Tail(queue[c])
          BY <1>1, <1>3, <2>2 DEF Read, TypeOK
    <3>2. Said(c)' = Said(c)
          BY <1>1 DEF Said
    <3>3. Out(c)' = Out(c) /\ Delays(c)' = Delays(c)
          BY <1>1, <3>2 DEF Out, Delays
    <3>4. PICK m \in Delays(c) : SeenInv(c, m) /\ QueueInv(c, m) /\ CallbackInv(c, m)
          BY <1>1, <1>3 DEF StreamInv
    <3>5. /\ Head(queue[c]) \in Items /\ Waiting(c) \in Nat \ {0}
          /\ Waiting(c)' = Waiting(c) - 1
          /\ Place(Len(log), m, Head(queue[c])) = Sent(c) + 1
          /\ \A i \in 1..(Waiting(c) - 1) : queue'[c][i] = queue[c][i + 1]
          BY <1>1, <1>3, <3>1, <3>4, FirstItem DEF Waiting
    <3>6. /\ Sent(c) \in Nat /\ Sent(c)' = Sent(c) + 1
          /\ \A i \in 1..Sent(c) : seen'[c][i] = seen[c][i]
          /\ seen'[c][Sent(c) + 1] = Head(queue[c])
      <4>1. seen[c] \in Seq(Items)
        <5>1. seen[c] \in Seq(1..Terminal)
              BY DEF TypeOK
        <5> QED
            BY <5>1, SeqMonotonic, Numbers, SMTT(30)
      <4> QED
          BY <3>1, <3>5, <4>1, Appended DEF Sent
    <3>7. Arrived(c)' = Arrived(c) /\ Arrived(c) = Sent(c) + Waiting(c) /\ Out(c) \in Nat
          BY <3>5, <3>6, Sizes DEF Arrived
    <3>8. SeenInv(c, m)'
      <4>1. \A i \in 1..(Sent(c) + 1) : Place(Len(log), m, seen'[c][i]) = i
        <5> SUFFICES ASSUME NEW i \in 1..(Sent(c) + 1)
                     PROVE  Place(Len(log), m, seen'[c][i]) = i
            OBVIOUS
        <5>1. CASE i = Sent(c) + 1
              BY <3>5, <3>6, <5>1
        <5>2. CASE i \in 1..Sent(c)
              BY <3>4, <3>6, <5>2 DEF SeenInv
        <5> QED
            BY <3>6, <5>1, <5>2
      <4>2. Sent(c) + 1 <= Out(c)
            BY <3>4, <3>5, <3>6, <3>7 DEF QueueInv
      <4> QED
          BY <1>1, <3>3, <3>6, <4>1, <4>2 DEF SeenInv
    <3>9. QueueInv(c, m)'
      <4>1. \A i \in 1..(Waiting(c) - 1) : Place(Len(log), m, queue'[c][i]) = Sent(c) + 1 + i
        <5> SUFFICES ASSUME NEW i \in 1..(Waiting(c) - 1)
                     PROVE  Place(Len(log), m, queue'[c][i]) = Sent(c) + 1 + i
            OBVIOUS
        <5>1. i + 1 \in 1..Waiting(c) /\ queue'[c][i] = queue[c][i + 1]
              BY <3>5
        <5>2. Place(Len(log), m, queue[c][i + 1]) = Sent(c) + (i + 1)
              BY <3>4, <5>1 DEF QueueInv
        <5> QED
            BY <3>6, <5>1, <5>2
      <4> QED
          BY <1>1, <3>3, <3>4, <3>5, <3>6, <3>7, <4>1 DEF QueueInv
    <3>10. CallbackInv(c, m)'
          BY <1>1, <3>3, <3>4, <3>7 DEF CallbackInv
    <3> QED
        BY <3>1, <3>3, <3>4, <3>8, <3>9, <3>10 DEF StreamInv
  <2> QED
      BY <2>1, <2>2
<1> QED
    BY <1>2, <1>3

LEMMA LeaveStream ==
  ASSUME TypeOK, LogInv, CloseInv, NEW d \in Clients, Leave(d), NEW c \in Clients, StreamInv(c)
  PROVE  StreamInv(c)'
<1>1. /\ client[d] = "live" /\ client' = [client EXCEPT ![d] = "left"]
      /\ UNCHANGED <<farewell, sending, log, closed, callbacks, queue, seen, late>>
      BY DEF Leave, dispatcher, engine
<1>2. CASE c # d
  <2>1. client'[c] = client[c]
        BY <1>1, <1>2 DEF TypeOK
  <2> QED
      BY <1>1, <2>1, NoCallback, Still
<1>3. CASE c = d
  <2>1. Said(c)' = Said(c) /\ Sent(c)' = Sent(c) /\ client'[c] = "left"
        BY <1>1, <1>3 DEF Said, Sent, TypeOK
  <2>2. Out(c)' = Out(c) /\ Delays(c)' = Delays(c)
        BY <1>1, <2>1 DEF Out, Delays
  <2>3. PICK m \in Delays(c) : SeenInv(c, m)
        BY <1>1, <1>3 DEF StreamInv
  <2>4. SeenInv(c, m)'
        BY <1>1, <2>1, <2>2, <2>3 DEF SeenInv
  <2> QED
      BY <2>1, <2>2, <2>3, <2>4 DEF StreamInv
<1> QED
    BY <1>2, <1>3

-----------------------------------------------------------------------------
(* The end of a stream *)

\* What a client is sent at a place.
LEMMA AtPlace ==
  ASSUME NEW n \in 0..MaxEvents, NEW m \in 0..2, n > 0 \/ m = 0,
         NEW x \in Items, NEW k \in Nat \ {0}, Place(n, m, x) = k
  PROVE  /\ k < n => x = k
         /\ k = n => x = IF m = 0 THEN n ELSE Terminal
         /\ k = n + 1 => x = IF m = 0 THEN Terminal ELSE IF m = 1 THEN n ELSE Sentinel
         /\ k <= n + 2
<1> QED
    BY EventsOK DEF Place, Items, Terminal, Sentinel

LEMMA DelayTypes ==
  ASSUME TypeOK, LogInv, CloseInv, NEW c \in Clients, NEW m \in Delays(c)
  PROVE  m \in 0..2 /\ (Len(log) > 0 \/ m = 0) /\ (m # 0 => c \in late)
<1>1. c \in late => Len(log) > 0
      BY EmptySeq DEF CloseInv, TypeOK
<1>2. Said(c) \in 0..2
      BY Sizes
<1> QED
    BY <1>1, <1>2 DEF Delays

\* The log without its last event.
LEMMA FrontOf ==
  ASSUME log \in Seq(Items), NEW n, n = Len(log), n \in Nat \ {0}, \A i \in 1..n : log[i] = i
  PROVE  /\ Front(log) \in Seq(Items) /\ Len(Front(log)) = n - 1
         /\ \A i \in 1..(n - 1) : Front(log)[i] = i
<1>1. \A i \in 1..(n - 1) : log[i] \in Items
  <2>1. \A i \in 1..n : log[i] \in Items
        BY ElementOfSeq
  <2> QED
      BY <2>1
<1>2. /\ Front(log) \in Seq(Items) /\ Len(Front(log)) = IF 1 <= n - 1 THEN n - 1 - 1 + 1 ELSE 0
      /\ \A i \in 1..(n - 1 - 1 + 1) : Front(log)[i] = log[1 + i - 1]
  <2>1. 1 \in Int /\ n - 1 \in Int
        OBVIOUS
  <2> QED
      BY <1>1, <2>1, SubSeqProperties DEF Front
<1>3. \A i \in 1..(n - 1) : i \in 1..(n - 1 - 1 + 1) /\ 1 + i - 1 = i /\ i \in 1..n
      OBVIOUS
<1> QED
    BY <1>2, <1>3, SMTT(30)

\* The log whose last event comes after the terminal event.
LEMMA TwoMore ==
  ASSUME NEW n \in Nat \ {0}, n \in Items, Front(log) \in Seq(Items), Len(Front(log)) = n - 1,
         \A i \in 1..(n - 1) : Front(log)[i] = i, Last(log) = n
  PROVE  LET s == Front(log) \o <<Terminal, Last(log)>>
         IN  /\ s \in Seq(Items) /\ Len(s) = n + 1
             /\ \A i \in 1..(n + 1) : s[i] = IF i < n THEN i ELSE IF i = n THEN Terminal ELSE n
<1> DEFINE two == <<Terminal, Last(log)>>
<1>1. two \in Seq(Items) /\ Len(two) = 2 /\ two[1] = Terminal /\ two[2] = n
      BY Numbers
<1> HIDE DEF two
<1>2. /\ Front(log) \o two \in Seq(Items)
      /\ Len(Front(log) \o two) = Len(Front(log)) + Len(two)
      /\ \A i \in 1..(Len(Front(log)) + Len(two)) : (Front(log) \o two)[i] =
             IF i <= Len(Front(log)) THEN Front(log)[i] ELSE two[i - Len(Front(log))]
      BY <1>1, ConcatProperties
<1>3. Len(Front(log)) + Len(two) = n + 1
      BY <1>1
<1>4. \A i \in 1..(n + 1) : (Front(log) \o two)[i] =
          IF i <= n - 1 THEN Front(log)[i] ELSE two[i - (n - 1)]
      BY <1>2, <1>3
<1>5. \A i \in 1..(n + 1) : (Front(log) \o two)[i] =
          IF i < n THEN i ELSE IF i = n THEN Terminal ELSE n
  <2> SUFFICES ASSUME NEW i \in 1..(n + 1)
               PROVE  (Front(log) \o two)[i] = IF i < n THEN i ELSE IF i = n THEN Terminal ELSE n
      OBVIOUS
  <2>1. CASE i < n
        BY <1>4, <2>1
  <2>2. CASE i = n
    <3>1. (Front(log) \o two)[i] = IF i <= n - 1 THEN Front(log)[i] ELSE two[i - (n - 1)]
          BY <1>4
    <3>2. ~(i <= n - 1) /\ i - (n - 1) = 1 /\ ~(i < n)
          BY <2>2
    <3> QED
        BY <1>1, <2>2, <3>1, <3>2, Zenon
  <2>3. CASE i = n + 1
    <3>1. (Front(log) \o two)[i] = IF i <= n - 1 THEN Front(log)[i] ELSE two[i - (n - 1)]
          BY <1>4
    <3>2. ~(i <= n - 1) /\ i - (n - 1) = 2 /\ ~(i < n) /\ i # n
          BY <2>3
    <3> QED
        BY <1>1, <3>1, <3>2, Zenon
  <2>4. i < n \/ i = n \/ i = n + 1
        OBVIOUS
  <2> QED
      BY <2>1, <2>2, <2>3, <2>4, Zenon
<1> QED
    BY <1>2, <1>3, <1>5 DEF two

\* A client whose generator reads the sentinel has been sent everything.
LEMMA ReadEnds ==
  ASSUME TypeOK, LogInv, CloseInv, NEW c \in Clients, StreamInv(c),
         client[c] = "live", queue[c] # <<>>, Head(queue[c]) = Sentinel
  PROVE  \/ seen[c] = Append(log, Terminal)
         \/ c \in late /\ seen[c] \in {Append(Front(log), Terminal),
                                      Front(log) \o <<Terminal, Last(log)>>}
<1> DEFINE n == Len(log)
<1>1. PICK m \in Delays(c) : SeenInv(c, m) /\ QueueInv(c, m)
      BY DEF StreamInv
<1>2. /\ m \in 0..2 /\ (n > 0 \/ m = 0) /\ (m # 0 => c \in late)
      /\ n \in 0..MaxEvents /\ Sent(c) \in Nat /\ \A i \in 1..Sent(c) : seen[c][i] \in Items
      BY <1>1, DelayTypes, Sizes
<1>3. Sent(c) = IF m = 2 THEN n ELSE n + 1
  <2>1. Place(n, m, Sentinel) = Sent(c) + 1
        BY <1>1, FirstItem
  <2>2. Place(n, m, Sentinel) = IF m = 2 THEN n + 1 ELSE n + 2
        BY <1>2, Placed
  <2> QED
      BY <1>2, <2>1, <2>2
<1>4. \A i \in 1..Sent(c) :
          /\ i < n => seen[c][i] = i
          /\ i = n => seen[c][i] = IF m = 0 THEN n ELSE Terminal
          /\ i = n + 1 => seen[c][i] = IF m = 0 THEN Terminal ELSE IF m = 1 THEN n ELSE Sentinel
  <2> SUFFICES ASSUME NEW i \in 1..Sent(c)
               PROVE  /\ i < n => seen[c][i] = i
                      /\ i = n => seen[c][i] = IF m = 0 THEN n ELSE Terminal
                      /\ i = n + 1 => seen[c][i] = IF m = 0 THEN Terminal
                                                   ELSE IF m = 1 THEN n ELSE Sentinel
      OBVIOUS
  <2>1. Place(n, m, seen[c][i]) = i /\ i \in Nat \ {0} /\ seen[c][i] \in Items
        BY <1>1, <1>2 DEF SeenInv
  <2> QED
      BY <1>2, <2>1, AtPlace
<1>5. /\ seen[c] \in Seq(Items) /\ log \in Seq(Items) /\ Terminal \in Items
      /\ \A i \in 1..n : log[i] = i /\ log[i] \in Items
  <2>1. seen[c] \in Seq(Items) /\ log \in Seq(Items) /\ Terminal \in Items
    <3>1. seen[c] \in Seq(1..Terminal) /\ log \in Seq(Events)
          BY DEF TypeOK
    <3>2. 1..Terminal \subseteq Items /\ Events \subseteq Items /\ Terminal \in Items
          BY Numbers
    <3>3. seen[c] \in Seq(Items)
          BY <3>1, <3>2, SeqMonotonic
    <3>4. log \in Seq(Items)
          BY <3>1, <3>2, SeqMonotonic
    <3> QED
        BY <3>2, <3>3, <3>4
  <2> QED
      BY <2>1, ElementOfSeq DEF LogInv
<1>6. CASE m = 0
  <2>1. /\ Append(log, Terminal) \in Seq(Items) /\ Len(Append(log, Terminal)) = n + 1
        /\ \A i \in 1..n : Append(log, Terminal)[i] = log[i]
        /\ Append(log, Terminal)[n + 1] = Terminal
        BY <1>5, Appended
  <2>2. \A i \in 1..Sent(c) : seen[c][i] = Append(log, Terminal)[i]
        BY <1>2, <1>3, <1>4, <1>5, <1>6, <2>1
  <2>3. Len(seen[c]) = Len(Append(log, Terminal))
        BY <1>3, <1>6, <2>1 DEF Sent
  <2> QED
      BY <1>5, <2>1, <2>2, <2>3, SeqEqual DEF Sent
<1>7. ASSUME m # 0
      PROVE  /\ Front(log) \in Seq(Items) /\ Len(Front(log)) = n - 1
             /\ \A i \in 1..(n - 1) : Front(log)[i] = i
             /\ Last(log) = n /\ n \in Items /\ n \in Nat
  <2>1. n \in 1..MaxEvents
        BY <1>2, <1>7, EventsOK
  <2>2. /\ Front(log) \in Seq(Items) /\ Len(Front(log)) = n - 1
        /\ \A i \in 1..(n - 1) : Front(log)[i] = i
        BY <1>5, <2>1, FrontOf, SMTT(30)
  <2>3. Last(log) = n /\ n \in Items
        BY <1>5, <2>1 DEF Last
  <2> QED
      BY <2>1, <2>2, <2>3
<1>8. CASE m = 2
  <2>1. /\ Front(log) \in Seq(Items) /\ Len(Front(log)) = n - 1 /\ n \in Nat
        /\ \A i \in 1..(n - 1) : Front(log)[i] = i
        BY <1>7, <1>8
  <2>2. /\ Append(Front(log), Terminal) \in Seq(Items) /\ Len(Append(Front(log), Terminal)) = n
        /\ \A i \in 1..(n - 1) : Append(Front(log), Terminal)[i] = Front(log)[i]
        /\ Append(Front(log), Terminal)[n] = Terminal
    <3>1. n - 1 + 1 = n
          BY <2>1
    <3> QED
        BY <1>5, <2>1, <3>1, Appended
  <2>3. \A i \in 1..Sent(c) : seen[c][i] = Append(Front(log), Terminal)[i]
        BY <1>2, <1>3, <1>4, <1>8, <2>1, <2>2
  <2>4. Len(seen[c]) = Len(Append(Front(log), Terminal))
        BY <1>3, <1>8, <2>2 DEF Sent
  <2>5. seen[c] = Append(Front(log), Terminal)
        BY <1>5, <2>2, <2>3, <2>4, SeqEqual DEF Sent
  <2> QED
      BY <1>2, <1>8, <2>5
<1>9. CASE m = 1
  <2> DEFINE two == <<Terminal, Last(log)>>
  <2>1. /\ Front(log) \in Seq(Items) /\ Len(Front(log)) = n - 1 /\ n \in Nat \ {0}
        /\ \A i \in 1..(n - 1) : Front(log)[i] = i
        /\ Last(log) = n /\ n \in Items
        BY <1>2, <1>7, <1>9
  <2>2. /\ Front(log) \o two \in Seq(Items) /\ Len(Front(log) \o two) = n + 1
        /\ \A i \in 1..(n + 1) : (Front(log) \o two)[i] =
               IF i < n THEN i ELSE IF i = n THEN Terminal ELSE n
        BY <2>1, TwoMore
  <2> HIDE DEF two
  <2>4. \A i \in 1..Sent(c) : seen[c][i] = (Front(log) \o two)[i]
        BY <1>2, <1>3, <1>4, <1>9, <2>1, <2>2
  <2>5. Len(seen[c]) = Len(Front(log) \o two)
        BY <1>3, <1>9, <2>2 DEF Sent
  <2>6. seen[c] = Front(log) \o two
        BY <1>5, <2>2, <2>4, <2>5, SeqEqual DEF Sent
  <2> QED
      BY <1>2, <1>9, <2>6 DEF two
<1>10. m = 0 \/ m = 1 \/ m = 2
      BY <1>2
<1> QED
    BY <1>6, <1>8, <1>9, <1>10

LEMMA NextEnded ==
  ASSUME TypeOK, LogInv, CloseInv, ClientInv, EndedSawAll, \A c \in Clients : StreamInv(c), [Next]_vars
  PROVE  EndedSawAll'
<1> SUFFICES ASSUME NEW c \in Clients, client'[c] = "ended"
             PROVE  (\/ seen[c] = Append(log, Terminal)
                     \/ c \in late /\ seen[c] \in {Append(Front(log), Terminal),
                                                  Front(log) \o <<Terminal, Last(log)>>})'
    BY DEF EndedSawAll
<1> USE DEF dispatcher, engine, buffer, stream
<1>1. ASSUME client[c] = "ended", UNCHANGED <<log, late>>, seen'[c] = seen[c]
      PROVE  (\/ seen[c] = Append(log, Terminal)
              \/ c \in late /\ seen[c] \in {Append(Front(log), Terminal),
                                           Front(log) \o <<Terminal, Last(log)>>})'
      BY <1>1 DEF EndedSawAll, Front, Last
<1>2. client[c] = "ended" => closed
      BY DEF ClientInv
<1>3. CASE Emit
      BY <1>1, <1>2, <1>3 DEF Emit, Accepts
<1>4. CASE Settle
  <2>1. ~closed /\ client[c] = "ended"
        BY <1>4 DEF Settle, CloseInv
  <2> QED
      BY <1>2, <2>1
<1>5. ASSUME NEW d \in Clients, Connect(d)
      PROVE  (\/ seen[c] = Append(log, Terminal)
              \/ c \in late /\ seen[c] \in {Append(Front(log), Terminal),
                                           Front(log) \o <<Terminal, Last(log)>>})'
  <2>1. CASE c # d
    <3>1. client[c] = "ended" /\ UNCHANGED <<log, late>> /\ seen'[c] = seen[c]
          BY <1>5, <2>1 DEF Connect, TypeOK
    <3> QED
        BY <1>1, <3>1
  <2>2. CASE c = d
        BY <1>5, <2>2 DEF Connect, Waits, Replay, TypeOK
  <2> QED
      BY <2>1, <2>2
<1>6. ASSUME NEW d \in Clients, Read(d)
      PROVE  (\/ seen[c] = Append(log, Terminal)
              \/ c \in late /\ seen[c] \in {Append(Front(log), Terminal),
                                           Front(log) \o <<Terminal, Last(log)>>})'
  <2>1. CASE c # d
    <3>1. client[c] = "ended" /\ UNCHANGED <<log, late>> /\ seen'[c] = seen[c]
          BY <1>6, <2>1 DEF Read, TypeOK
    <3> QED
        BY <1>1, <3>1
  <2>2. CASE c = d
    <3>1. /\ client[c] = "live" /\ queue[c] # <<>> /\ Head(queue[c]) = Sentinel
          /\ UNCHANGED <<log, late, seen>>
          BY <1>6, <2>2 DEF Read, TypeOK
    <3> QED
        BY <3>1, ReadEnds DEF Front, Last
  <2> QED
      BY <2>1, <2>2
<1>7. ASSUME NEW d \in Clients, Leave(d)
      PROVE  (\/ seen[c] = Append(log, Terminal)
              \/ c \in late /\ seen[c] \in {Append(Front(log), Terminal),
                                           Front(log) \o <<Terminal, Last(log)>>})'
  <2>1. client[c] = "ended" /\ UNCHANGED <<log, late, seen>>
        BY <1>7 DEF Leave, TypeOK
  <2> QED
      BY <1>1, <2>1
<1>8. ASSUME UNCHANGED <<client, log, seen, late>>
      PROVE  (\/ seen[c] = Append(log, Terminal)
              \/ c \in late /\ seen[c] \in {Append(Front(log), Terminal),
                                           Front(log) \o <<Terminal, Last(log)>>})'
      BY <1>1, <1>8
<1> QED
    BY <1>3, <1>4, <1>5, <1>6, <1>7, <1>8 DEF Next, Worker, Task, EngineEnds, HandOut, Spawn,
       SayFarewell, SliceEnds, Vanish, RunCallback, vars

-----------------------------------------------------------------------------
(* What the invariant says *)

LEMMA NextStream ==
  ASSUME TypeOK, LogInv, CloseInv, ClientInv, [Next]_vars, NEW c \in Clients, StreamInv(c)
  PROVE  StreamInv(c)'
<1> USE DEF dispatcher, engine, buffer, stream
<1>1. CASE Emit
      BY <1>1, EmitStream
<1>2. ASSUME NEW d \in Clients, HandOut(d) PROVE StreamInv(c)'
      BY <1>2, HandOutStream
<1>3. CASE Settle
      BY <1>3, SettleStream
<1>4. ASSUME NEW d \in Clients, SayFarewell(d) PROVE StreamInv(c)'
      BY <1>4, FarewellStream
<1>5. CASE RunCallback
      BY <1>5, CallbackStream
<1>6. ASSUME NEW d \in Clients, Connect(d) PROVE StreamInv(c)'
      BY <1>6, ConnectStream
<1>7. ASSUME NEW d \in Clients, Read(d) PROVE StreamInv(c)'
      BY <1>7, ReadStream
<1>8. ASSUME NEW d \in Clients, Leave(d) PROVE StreamInv(c)'
      BY <1>8, LeaveStream
<1>9. ASSUME UNCHANGED <<log, closed, late, sending, farewell, queue, seen, client, callbacks>>
      PROVE  StreamInv(c)'
      BY <1>9, NoCallback, Still
<1> QED
    BY <1>1, <1>2, <1>3, <1>4, <1>5, <1>6, <1>7, <1>8, <1>9
       DEF Next, Worker, Task, EngineEnds, Spawn, SliceEnds, Vanish, vars

\* The inductive invariant holds in every state.
LEMMA Invariance == Spec => []IInv
<1>1. Init => IInv
      BY InitIInv
<1>2. IInv /\ [Next]_vars => IInv'
  <2> SUFFICES ASSUME IInv, [Next]_vars PROVE IInv'
      OBVIOUS
  <2>1. /\ TypeOK /\ LogInv /\ CloseInv /\ ClientInv /\ EndedSawAll
        /\ \A c \in Clients : StreamInv(c)
        BY DEF IInv
  <2>2. TypeOK' /\ LogInv' /\ CloseInv'
        BY <2>1, NextTyped, NextLog, NextClose
  <2>3. ClientInv' /\ EndedSawAll'
        BY <2>1, NextClient, NextEnded
  <2>4. \A c \in Clients : StreamInv(c)'
        BY <2>1, NextStream
  <2> QED
      BY <2>2, <2>3, <2>4 DEF IInv
<1> QED
    BY <1>1, <1>2, PTL DEF Spec

\* Whoever has been sent something, each item has been sent at its place.
LEMMA SentInPlace ==
  ASSUME IInv, NEW c \in Clients
  PROVE  \E m \in 0..2 : /\ Len(log) > 0 \/ m = 0
                         /\ \A i \in 1..Sent(c) : Place(Len(log), m, seen[c][i]) = i
<1> DEFINE n == Len(log)
<1>1. TypeOK /\ LogInv /\ CloseInv /\ ClientInv /\ EndedSawAll /\ StreamInv(c)
      BY DEF IInv
<1>2. n \in 0..MaxEvents /\ Sent(c) \in Nat
      BY <1>1, Sizes
<1>3. CASE client[c] \in {"away", "refused"}
  <2>1. Sent(c) = 0
        BY <1>1, <1>3 DEF ClientInv, Sent
  <2> QED
      BY <2>1
<1>4. CASE client[c] \in {"live", "left"}
  <2>1. PICK m \in Delays(c) : SeenInv(c, m)
        BY <1>1, <1>4 DEF StreamInv
  <2>2. m \in 0..2 /\ (n > 0 \/ m = 0)
        BY <1>1, <2>1, DelayTypes
  <2> QED
      BY <2>1, <2>2 DEF SeenInv
<1>5. CASE client[c] = "ended"
  <2>1. log \in Seq(Items) /\ Terminal \in Items /\ \A i \in 1..n : log[i] = i
    <3>1. log \in Seq(Events) /\ Events \subseteq Items /\ Terminal \in Items
          BY <1>1, Numbers DEF TypeOK
    <3>2. log \in Seq(Items)
          BY <3>1, SeqMonotonic
    <3> QED
        BY <1>1, <3>1, <3>2 DEF LogInv
  <2>2. CASE seen[c] = Append(log, Terminal)
    <3>1. /\ Sent(c) = n + 1 /\ seen[c][n + 1] = Terminal
          /\ \A i \in 1..n : seen[c][i] = i
          BY <2>1, <2>2, Appended DEF Sent
    <3>2. \A i \in 1..(n + 1) : Place(n, 0, seen[c][i]) = i
          BY <1>2, <3>1, EventsOK DEF Place, Terminal, Sentinel
    <3> QED
        BY <3>1, <3>2
  <2>3. ASSUME c \in late
        PROVE  /\ n \in 1..MaxEvents /\ Front(log) \in Seq(Items) /\ Len(Front(log)) = n - 1
               /\ \A i \in 1..(n - 1) : Front(log)[i] = i
               /\ Last(log) = n /\ n \in Items
    <3>1. n \in 1..MaxEvents /\ n \in Items
          BY <1>1, <1>2, <2>3, EmptySeq, EventsOK DEF CloseInv, TypeOK, Items, Sentinel
    <3>2. /\ Front(log) \in Seq(Items) /\ Len(Front(log)) = n - 1
          /\ \A i \in 1..(n - 1) : Front(log)[i] = i
          BY <2>1, <3>1, FrontOf, SMTT(30)
    <3> QED
        BY <2>1, <3>1, <3>2 DEF Last
  <2>4. CASE c \in late /\ seen[c] = Append(Front(log), Terminal)
    <3>1. /\ n \in 1..MaxEvents /\ Front(log) \in Seq(Items) /\ Len(Front(log)) = n - 1
          /\ \A i \in 1..(n - 1) : Front(log)[i] = i
          BY <2>3, <2>4
    <3>2. /\ Sent(c) = n /\ seen[c][n] = Terminal
          /\ \A i \in 1..(n - 1) : seen[c][i] = i
      <4>1. n - 1 + 1 = n
            BY <3>1
      <4> QED
          BY <2>1, <2>4, <3>1, <4>1, Appended DEF Sent
    <3>3. \A i \in 1..n : Place(n, 2, seen[c][i]) = i
          BY <3>1, <3>2, EventsOK DEF Place, Terminal, Sentinel
    <3> QED
        BY <3>1, <3>2, <3>3
  <2>5. CASE c \in late /\ seen[c] = Front(log) \o <<Terminal, Last(log)>>
    <3>1. /\ n \in 1..MaxEvents /\ Front(log) \in Seq(Items) /\ Len(Front(log)) = n - 1
          /\ \A i \in 1..(n - 1) : Front(log)[i] = i
          /\ Last(log) = n /\ n \in Items
          BY <2>3, <2>5
    <3>2. Sent(c) = n + 1 /\ \A i \in 1..(n + 1) : seen[c][i] =
              IF i < n THEN i ELSE IF i = n THEN Terminal ELSE n
          BY <2>1, <2>5, <3>1, TwoMore DEF Sent
    <3>3. \A i \in 1..(n + 1) : Place(n, 1, seen[c][i]) = i
          BY <3>1, <3>2, EventsOK DEF Place, Terminal, Sentinel
    <3> QED
        BY <3>1, <3>2, <3>3
  <2> QED
      BY <1>1, <1>5, <2>2, <2>4, <2>5 DEF EndedSawAll
<1> QED
    BY <1>1, <1>3, <1>4, <1>5 DEF TypeOK

\* As long as a client has not been sent the end, what it is sent i-th is the i-th
\* event; a late one comes next.
LEMMA InOrder ==
  ASSUME IInv, NEW c \in Clients, NEW i \in DOMAIN seen[c], seen[c][i] \in Events
  PROVE  EventsSent(c, i) <= Len(log) /\ seen[c][i] = log[EventsSent(c, i)]
<1> DEFINE n == Len(log)
<1>1. TypeOK /\ LogInv /\ CloseInv
      BY DEF IInv
<1>2. /\ n \in 0..MaxEvents /\ Sent(c) \in Nat
      /\ \A j \in 1..Sent(c) : seen[c][j] \in 1..Terminal /\ seen[c][j] \in Items
      /\ \A j \in 1..n : log[j] = j
      BY <1>1, Sizes DEF LogInv
<1>3. i \in 1..Sent(c)
  <2>1. seen[c] \in Seq(1..Terminal)
        BY <1>1 DEF TypeOK
  <2> QED
      BY <2>1, LenProperties DEF Sent
<1>4. PICK m \in 0..2 : /\ n > 0 \/ m = 0
                        /\ \A j \in 1..Sent(c) : Place(n, m, seen[c][j]) = j
      BY SentInPlace
<1>5. \A j \in 1..Sent(c) :
          /\ j < n => seen[c][j] = j
          /\ j = n => seen[c][j] = IF m = 0 THEN n ELSE Terminal
          /\ j = n + 1 => seen[c][j] = IF m = 0 THEN Terminal ELSE IF m = 1 THEN n ELSE Sentinel
          /\ j <= n + 2
  <2> SUFFICES ASSUME NEW j \in 1..Sent(c)
               PROVE  /\ j < n => seen[c][j] = j
                      /\ j = n => seen[c][j] = IF m = 0 THEN n ELSE Terminal
                      /\ j = n + 1 => seen[c][j] = IF m = 0 THEN Terminal
                                                   ELSE IF m = 1 THEN n ELSE Sentinel
                      /\ j <= n + 2
      OBVIOUS
  <2>1. Place(n, m, seen[c][j]) = j /\ j \in Nat \ {0} /\ seen[c][j] \in Items
        BY <1>2, <1>4
  <2> QED
      BY <1>2, <1>4, <2>1, AtPlace
<1>6. Terminal \notin Events /\ Sentinel \notin 1..Terminal /\ 1..n \subseteq Events
      BY <1>2, EventsOK DEF Terminal, Sentinel, Events
<1>7. CASE i < n \/ (i = n /\ m = 0)
  <2>1. i \in 1..n /\ \A j \in 1..i : j \in 1..Sent(c) /\ seen[c][j] = j /\ j \in Events
        BY <1>2, <1>3, <1>5, <1>6, <1>7
  <2>2. {j \in 1..i : seen[c][j] \in Events} = 1..i
        BY <2>1
  <2>3. EventsSent(c, i) = i
    <3>1. Cardinality(1..i) = i
      <4>1. 1 \in Int /\ i \in Int /\ ~(1 > i) /\ i - 1 + 1 = i
            BY <2>1
      <4>2. Cardinality(1..i) = IF 1 > i THEN 0 ELSE i - 1 + 1
            BY <4>1, FS_Interval
      <4> QED
          BY <4>1, <4>2
    <3>2. EventsSent(c, i) = Cardinality({j \in 1..i : seen[c][j] \in Events})
          BY Zenon DEF EventsSent
    <3> QED
        BY <2>2, <3>1, <3>2, Zenon
  <2> QED
      BY <1>2, <2>1, <2>3
<1>8. CASE ~(i < n \/ (i = n /\ m = 0))
  <2>1. i = n + 1 /\ m = 1 /\ n \in 1..MaxEvents
    <3>1. i # n
          BY <1>3, <1>5, <1>6, <1>8
    <3>2. i # n + 1 \/ m = 1
          BY <1>2, <1>3, <1>4, <1>5, <1>6
    <3>3. i # n + 2
      <4> SUFFICES ASSUME i = n + 2 PROVE FALSE
          OBVIOUS
      <4>1. n + 1 \in 1..Sent(c) /\ i \in 1..Sent(c)
            BY <1>2, <1>3
      <4>2. m # 2
            BY <1>2, <1>5, <1>6, <4>1
      <4>3. CASE m = 0 \/ m = 1
        <5>1. Place(n, m, seen[c][i]) = n + 2
              BY <1>4, <4>1
        <5>2. seen[c][i] \in 1..n \/ seen[c][i] = Terminal
              BY <1>2, <1>3, <1>4, <1>6, <5>1, Placed
        <5> QED
          <6>1. \A e \in 1..n : Place(n, m, e) = IF e = n THEN n + m ELSE e
                BY <1>2, <1>4, Placed
          <6>2. Place(n, m, Terminal) = IF m = 0 THEN n + 1 ELSE n
                BY <1>2, <1>4, Placed
          <6> QED
              BY <1>2, <4>3, <5>1, <5>2, <6>1, <6>2
      <4> QED
          BY <4>2, <4>3
    <3> QED
        BY <1>2, <1>3, <1>4, <1>5, <1>8, <3>1, <3>2, <3>3
  <2>2. seen[c][i] = n
        BY <1>3, <1>5, <2>1
  <2>3. {j \in 1..i : seen[c][j] \in Events} = (1..(n - 1)) \cup {n + 1}
    <3>1. \A j \in 1..(n - 1) : j \in 1..Sent(c) /\ seen[c][j] = j /\ j \in Events
          BY <1>2, <1>3, <1>5, <1>6, <2>1
    <3>2. n \in 1..Sent(c) /\ seen[c][n] = Terminal
          BY <1>2, <1>3, <1>5, <2>1
    <3>3. \A j \in 1..i : j \in 1..(n - 1) \/ j = n \/ j = n + 1
          BY <2>1
    <3>4. \A j \in 1..(n - 1) : j \in 1..i
          BY <2>1
    <3> QED
        BY <1>6, <2>1, <3>1, <3>2, <3>3, <3>4
  <2>4. EventsSent(c, i) = n
    <3>1. IsFiniteSet(1..(n - 1)) /\ Cardinality(1..(n - 1)) = n - 1
      <4>1. 1 \in Int /\ n - 1 \in Int
            BY <2>1
      <4>2. IsFiniteSet(1..(n - 1))
            /\ Cardinality(1..(n - 1)) = IF 1 > n - 1 THEN 0 ELSE (n - 1) - 1 + 1
            BY <4>1, FS_Interval
      <4> QED
          BY <2>1, <4>2
    <3>2. n + 1 \notin 1..(n - 1)
          BY <2>1
    <3>3. Cardinality((1..(n - 1)) \cup {n + 1}) = n - 1 + 1
          BY <3>1, <3>2, FS_AddElement
    <3>4. EventsSent(c, i) = Cardinality({j \in 1..i : seen[c][j] \in Events})
          BY Zenon DEF EventsSent
    <3>5. n - 1 + 1 = n
          BY <2>1
    <3> QED
        BY <2>3, <3>3, <3>4, <3>5, Zenon
  <2> QED
      BY <1>2, <2>1, <2>2, <2>4
<1> QED
    BY <1>7, <1>8

-----------------------------------------------------------------------------
(* Theorems *)

\* The variables keep their types: in particular no client is ever sent a sentinel,
\* whatever the loop and the worker do in whatever order.
THEOREM TypeCorrect == Spec => []TypeOK
<1> QED
    BY Invariance, PTL DEF IInv

\* Every client is sent the log from its beginning, in order, without a gap and
\* without a repetition, for every number of clients and of events.
THEOREM LogIsSeenInOrder == Spec => []SeenInOrder
<1>1. IInv => SeenInOrder
      BY InOrder DEF SeenInOrder
<1> QED
    BY <1>1, Invariance, PTL

\* A stream that has ended has carried the whole log and then the terminal event,
\* but for the one event that the worker may have been handing out.
THEOREM EndedStreamsAreWhole == Spec => []EndedSawAll
<1> QED
    BY Invariance, PTL DEF IInv
=============================================================================
