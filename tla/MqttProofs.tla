----------------------------- MODULE MqttProofs -----------------------------
(***************************************************************************)
(* Theorems about Mqtt, for any set of client instances, with logging on   *)
(* MQTT or without.                                                        *)
(*                                                                         *)
(* What makes its invariants inductive is that a client which was let go   *)
(* has no link, is told to end and is in no callback that matters, and     *)
(* what a caller knows of the current one while it holds the lock.         *)
(***************************************************************************)
EXTENDS Mqtt, TLAPS

\* Whoever is in connect or disconnect holds the lock, and nobody else does.
LockHeld ==
  \A t \in Callers : lock = t <=> cpc[t] \in {"join", "create", "dial", "stopping"}

\* A client that is not the current one, or not yet.
LetGo ==
  \A c \in Clients : c # connection =>
    /\ link[c] = "closed" /\ tpc[c] \in {"none", "loop", "notify"}
    /\ tpc[c] # "none" => terminate[c]

\* The current client; until somebody stops it it is not told to end.
Current ==
  \A c \in Clients : c = connection =>
    /\ tpc[c] \in {"onConnect", "notify"} => link[c] = "open"
    /\ tpc[c] = "loop" => link[c] # "closed"
    /\ Reporting(c) => link[c] = "closed"
    /\ tpc[c] = "onDisconnectLock" => terminate[c]
    /\ lock = "free" /\ terminate[c] => tpc[c] = "onDisconnectLock"

\* What connect and disconnect know between their steps.
Held ==
  \A t \in Callers :
    /\ cpc[t] = "create" => connection = None
    /\ cpc[t] \in {"join", "stopping"} => connection # None
    /\ cpc[t] = "dial" => /\ connection # None /\ Over(connection)
                          /\ link[connection] = "closed" /\ ~terminate[connection]
    /\ cpc[t] \in {"join", "create", "dial"} => ~connected
    /\ cpc[t] \in {"join", "create", "stopping"} => ~connecting

IInv == TypeOK /\ LockHeld /\ LetGo /\ Current /\ Held /\ FlagsAreBacked

USE MqttAssumption DEF Callers, fields, paho

----------------------------------------------------------------------------
LEMMA InitInvariant == Init => IInv
  BY DEF Init, IInv, TypeOK, LockHeld, LetGo, Current, Held, FlagsAreBacked

\* paho's loop and the callbacks, which run while the lock is free.
LEMMA NetworkInvariant ==
  ASSUME NEW c \in Clients, IInv, Network(c)
  PROVE  IInv'
<1> USE DEF IInv, TypeOK, LockHeld, LetGo, Current, Held, FlagsAreBacked, Reporting, Over,
            NetworkAt
<1>1. CASE Accepted(c)
  BY <1>1 DEF Accepted
<1>2. CASE Refused(c)
  BY <1>2 DEF Refused
<1>3. CASE Lost(c)
  BY <1>3 DEF Lost
<1>4. CASE Terminated(c)
  BY <1>4 DEF Terminated
<1>5. CASE OnDisconnectStop(c)
  <2>1. c = connection /\ terminate' = [terminate EXCEPT ![c] = TRUE]
        /\ link' = [link EXCEPT ![c] = "closed"]
    BY <1>5 DEF OnDisconnectStop
  <2>2. TypeOK'
    BY <1>5, <2>1 DEF OnDisconnectStop
  <2>3. LockHeld'
    BY <1>5, <2>1 DEF OnDisconnectStop
  <2>4. LetGo'
    BY <1>5, <2>1 DEF OnDisconnectStop
  <2>5. Current'
    BY <1>5, <2>1 DEF OnDisconnectStop
  <2>6. Held'
    BY <1>5, <2>1 DEF OnDisconnectStop
  <2>7. FlagsAreBacked'
    BY <1>5, <2>1 DEF OnDisconnectStop
  <2>8. QED
    BY <2>2, <2>3, <2>4, <2>5, <2>6, <2>7
<1>6. QED
  BY <1>1, <1>2, <1>3, <1>4, <1>5 DEF Network

LEMMA CallbackInvariant ==
  ASSUME NEW c \in Clients, IInv, Callback(c)
  PROVE  IInv'
<1> USE DEF IInv, TypeOK, LockHeld, LetGo, Current, Held, FlagsAreBacked, Reporting, Over,
            NetworkAt
<1>1. CASE OnConnect(c)
  BY <1>1 DEF OnConnect
<1>2. CASE OnRefused(c)
  BY <1>2 DEF OnRefused
<1>3. CASE OnDisconnect(c)
  <2>1. c = connection /\ connection' = None
    BY <1>3 DEF OnDisconnect
  <2>2. TypeOK'
    BY <1>3, <2>1 DEF OnDisconnect
  <2>3. LockHeld'
    BY <1>3, <2>1 DEF OnDisconnect
  <2>4. LetGo'
    BY <1>3, <2>1 DEF OnDisconnect
  <2>5. Current'
    BY <1>3, <2>1 DEF OnDisconnect
  <2>6. Held'
    BY <1>3, <2>1 DEF OnDisconnect
  <2>7. FlagsAreBacked'
    BY <1>3, <2>1 DEF OnDisconnect
  <2>8. QED
    BY <2>2, <2>3, <2>4, <2>5, <2>6, <2>7
<1>4. CASE Notify(c)
  BY <1>4 DEF Notify
<1>5. QED
  BY <1>1, <1>2, <1>3, <1>4 DEF Callback

LEMMA CallerInvariant ==
  ASSUME NEW t \in Callers, IInv, Call(t) \/ Working(t) \/ Entering(t)
  PROVE  IInv'
<1> USE DEF IInv, TypeOK, LockHeld, LetGo, Current, Held, FlagsAreBacked, Reporting, Over,
            CallerAt
<1>1. CASE Call(t)
  BY <1>1 DEF Call
<1>2. CASE Connect(t)
  <2>1. lock = "free"
    BY <1>2 DEF Connect
  <2>2. TypeOK'
    <3>1. cpc' \in [Callers -> {"idle", "connect", "join", "create", "dial", "disconnect",
                               "stopping", "check"}]
      BY <1>2, <2>1 DEF Connect, LoopStop
    <3>2. /\ connection' \in Clients \cup {None} /\ connected' \in BOOLEAN
          /\ connecting' \in BOOLEAN /\ lock' \in Callers \cup {"free"}
      BY <1>2, <2>1 DEF Connect, LoopStop
    <3>3. /\ link' \in [Clients -> {"closed", "opening", "open"}]
          /\ terminate' \in [Clients -> BOOLEAN] /\ broker' = broker
      BY <1>2, <2>1 DEF Connect, LoopStop
    <3>4. tpc' \in [Clients -> {"none", "loop", "onConnect", "onRefused", "onDisconnect",
                               "onDisconnectLock", "notify"}]
      BY <1>2, <2>1 DEF Connect, LoopStop
    <3>5. QED
      BY <3>1, <3>2, <3>3, <3>4
  <2>3. LockHeld'
    BY <1>2, <2>1 DEF Connect, LoopStop
  <2>4. LetGo'
    BY <1>2, <2>1 DEF Connect, LoopStop
  <2>5. Current'
    BY <1>2, <2>1 DEF Connect, LoopStop
  <2>6. Held'
    BY <1>2, <2>1 DEF Connect, LoopStop
  <2>7. FlagsAreBacked'
    BY <1>2, <2>1 DEF Connect, LoopStop
  <2>8. QED
    BY <2>2, <2>3, <2>4, <2>5, <2>6, <2>7
<1>3. CASE Create(t)
  BY <1>3 DEF Create, Unused
<1>4. CASE Dial(t)
  <2>1. lock = t /\ connection \in Clients
    BY <1>4 DEF Dial
  <2>2. TypeOK'
    <3>1. cpc' \in [Callers -> {"idle", "connect", "join", "create", "dial", "disconnect",
                               "stopping", "check"}]
      BY <1>4, <2>1 DEF Dial
    <3>2. /\ connection' \in Clients \cup {None} /\ connected' \in BOOLEAN
          /\ connecting' \in BOOLEAN /\ lock' \in Callers \cup {"free"}
      BY <1>4, <2>1 DEF Dial
    <3>3. /\ link' \in [Clients -> {"closed", "opening", "open"}]
          /\ terminate' \in [Clients -> BOOLEAN] /\ broker' = broker
      BY <1>4, <2>1 DEF Dial
    <3>4. tpc' \in [Clients -> {"none", "loop", "onConnect", "onRefused", "onDisconnect",
                               "onDisconnectLock", "notify"}]
      BY <1>4, <2>1 DEF Dial
    <3>5. QED
      BY <3>1, <3>2, <3>3, <3>4
  <2>3. LockHeld'
    BY <1>4, <2>1 DEF Dial
  <2>4. LetGo'
    BY <1>4, <2>1 DEF Dial
  <2>5. Current'
    BY <1>4, <2>1 DEF Dial
  <2>6. Held'
    BY <1>4, <2>1 DEF Dial
  <2>7. FlagsAreBacked'
    BY <1>4, <2>1 DEF Dial
  <2>8. QED
    BY <2>2, <2>3, <2>4, <2>5, <2>6, <2>7
<1>5. CASE Disconnect(t)
  <2>1. lock = "free"
    BY <1>5 DEF Disconnect
  <2>2. TypeOK'
    <3>1. cpc' \in [Callers -> {"idle", "connect", "join", "create", "dial", "disconnect",
                               "stopping", "check"}]
      BY <1>5, <2>1 DEF Disconnect, LoopStop
    <3>2. /\ connection' \in Clients \cup {None} /\ connected' \in BOOLEAN
          /\ connecting' \in BOOLEAN /\ lock' \in Callers \cup {"free"}
      BY <1>5, <2>1 DEF Disconnect, LoopStop
    <3>3. /\ link' \in [Clients -> {"closed", "opening", "open"}]
          /\ terminate' \in [Clients -> BOOLEAN] /\ broker' = broker
      BY <1>5, <2>1 DEF Disconnect, LoopStop
    <3>4. tpc' \in [Clients -> {"none", "loop", "onConnect", "onRefused", "onDisconnect",
                               "onDisconnectLock", "notify"}]
      BY <1>5, <2>1 DEF Disconnect, LoopStop
    <3>5. QED
      BY <3>1, <3>2, <3>3, <3>4
  <2>3. LockHeld'
    BY <1>5, <2>1 DEF Disconnect, LoopStop
  <2>4. LetGo'
    BY <1>5, <2>1 DEF Disconnect, LoopStop
  <2>5. Current'
    BY <1>5, <2>1 DEF Disconnect, LoopStop
  <2>6. Held'
    BY <1>5, <2>1 DEF Disconnect, LoopStop
  <2>7. FlagsAreBacked'
    BY <1>5, <2>1 DEF Disconnect, LoopStop
  <2>8. QED
    BY <2>2, <2>3, <2>4, <2>5, <2>6, <2>7
<1>6. CASE Joined(t)
  <2>1. lock = t /\ connection \in Clients
    BY <1>6 DEF Joined, Parted
  <2>2. TypeOK'
    <3>1. cpc' \in [Callers -> {"idle", "connect", "join", "create", "dial", "disconnect",
                               "stopping", "check"}]
      BY <1>6, <2>1 DEF Joined, Parted
    <3>2. /\ connection' \in Clients \cup {None} /\ connected' \in BOOLEAN
          /\ connecting' \in BOOLEAN /\ lock' \in Callers \cup {"free"}
      BY <1>6, <2>1 DEF Joined, Parted
    <3>3. /\ link' \in [Clients -> {"closed", "opening", "open"}]
          /\ terminate' \in [Clients -> BOOLEAN] /\ broker' = broker
      BY <1>6, <2>1 DEF Joined, Parted
    <3>4. tpc' \in [Clients -> {"none", "loop", "onConnect", "onRefused", "onDisconnect",
                               "onDisconnectLock", "notify"}]
      BY <1>6, <2>1 DEF Joined, Parted
    <3>5. QED
      BY <3>1, <3>2, <3>3, <3>4
  <2>3. LockHeld'
    BY <1>6, <2>1 DEF Joined, Parted
  <2>4. LetGo'
    BY <1>6, <2>1 DEF Joined, Parted
  <2>5. Current'
    BY <1>6, <2>1 DEF Joined, Parted
  <2>6. Held'
    BY <1>6, <2>1 DEF Joined, Parted
  <2>7. FlagsAreBacked'
    BY <1>6, <2>1 DEF Joined, Parted
  <2>8. QED
    BY <2>2, <2>3, <2>4, <2>5, <2>6, <2>7
<1>7. CASE IsConnected(t)
  BY <1>7 DEF IsConnected
<1>8. QED
  BY <1>1, <1>2, <1>3, <1>4, <1>5, <1>6, <1>7 DEF Working, Entering

LEMMA NextInvariant == IInv /\ [Next]_vars => IInv'
<1> SUFFICES ASSUME IInv, [Next]_vars PROVE IInv'
  OBVIOUS
<1>1. ASSUME NEW c \in Clients, Network(c) \/ Callback(c) PROVE IInv'
  BY <1>1, NetworkInvariant, CallbackInvariant
<1>2. ASSUME NEW t \in Callers, Call(t) \/ Working(t) \/ Entering(t) PROVE IInv'
  BY <1>2, CallerInvariant
<1>3. CASE Broker \/ UNCHANGED vars
  BY <1>3 DEF Broker, vars, IInv, TypeOK, LockHeld, LetGo, Current, Held, FlagsAreBacked,
              Reporting, Over
<1>4. QED
  BY <1>1, <1>2, <1>3 DEF Next

LEMMA Invariant == Spec => []IInv
  BY InitInvariant, NextInvariant, PTL DEF Spec

----------------------------------------------------------------------------
\* The fields of MQTTConnection, paho's state and the threads' places keep
\* their types.
THEOREM MqttTypeCorrect == Spec => []TypeOK
<1>1. IInv => TypeOK
  BY DEF IInv
<1>2. QED
  BY <1>1, Invariant, PTL

\* _connected and _connecting, which make connect do nothing, are never left
\* behind by a client that has gone.
THEOREM MqttFlagsAreBacked == Spec => []FlagsAreBacked
<1>1. IInv => FlagsAreBacked
  BY DEF IInv
<1>2. QED
  BY <1>1, Invariant, PTL

\* on_connect and on_disconnect are never called for a client that was replaced.
THEOREM MqttNoStaleCallback == Spec => []NoStaleCallback
<1>1. IInv => NoStaleCallback
  BY DEF IInv, LetGo, NoStaleCallback, Reporting
<1>2. QED
  BY <1>1, Invariant, PTL

\* However many clients were made, only the current one has a link.
THEOREM MqttOneLink == Spec => []OneLink
<1>1. IInv => OneLink
  BY DEF IInv, LetGo, OneLink
<1>2. QED
  BY <1>1, Invariant, PTL

\* paho never finds itself in its loop with a lost link and free to reconnect.
THEOREM MqttNoSelfReconnect == Spec => []NoSelfReconnect
<1>1. IInv => NoSelfReconnect
  BY DEF IInv, LetGo, Current, NoSelfReconnect
<1>2. QED
  BY <1>1, Invariant, PTL

----------------------------------------------------------------------------
(* What becomes of a call that does not return.                            *)

LockedOutForEver == [][LockedOut => LockedOut']_vars

\* A caller that joins a thread which wants the lock has it for good: the
\* exception CallsEnd makes is a deadlock of the two, and whoever calls next
\* waits with them.
THEOREM MqttLockedOutForEver == Spec => LockedOutForEver
<1>1. ASSUME IInv, LockedOut, [Next]_vars
      PROVE  LockedOut'
  <2> USE DEF TypeOK, LockHeld, LockedOut, CallerAt, NetworkAt
  <2>1. PICK t \in Callers :
          /\ cpc[t] \in {"join", "stopping"}
          /\ \/ tpc[connection] \in {"onConnect", "onRefused", "onDisconnectLock"}
             \/ LogOnMqtt /\ tpc[connection] = "notify"
    BY <1>1
  <2>2. lock = t /\ lock # "free" /\ connection \in Clients
    BY <1>1, <2>1 DEF IInv, Held
  <2>3. ASSUME NEW c \in Clients, Network(c) \/ Callback(c) PROVE LockedOut'
    <3>1. c # connection \/ ~ (Network(c) \/ Callback(c))
      BY <2>1, <2>2 DEF Network, Accepted, Refused, Lost, Terminated, OnDisconnectStop,
                        Callback, OnConnect, OnRefused, OnDisconnect, Notify
    <3>2. connection' = connection /\ tpc'[connection] = tpc[connection] /\ cpc' = cpc
      BY <1>1, <2>2, <2>3, <3>1 DEF IInv, Network, Accepted, Refused, Lost, Terminated,
           OnDisconnectStop, Callback, OnConnect, OnRefused, OnDisconnect, Notify
    <3>3. QED
      BY <2>1, <3>2
  <2>4. ASSUME NEW u \in Callers, Call(u) \/ Working(u) \/ Entering(u) PROVE LockedOut'
    <3>1. ~ Entering(u)
      BY <2>2 DEF Entering, Connect, Disconnect, IsConnected
    <3>2. tpc[connection] # "none"
      BY <2>1
    <3>3. cpc[u] \in {"create", "dial", "join", "stopping"} => u = t
      BY <1>1, <2>2 DEF IInv, Held
    <3>4. ~ Working(u)
      BY <2>1, <3>2, <3>3 DEF Working, Create, Dial, Joined, Parted, Over
    <3>5. Call(u)
      BY <2>4, <3>1, <3>4
    <3>6. connection' = connection /\ tpc' = tpc
      BY <3>5 DEF Call, fields, paho
    <3>7. cpc[u] = "idle" /\ \E op \in {"connect", "disconnect", "check"} :
                               cpc' = [cpc EXCEPT ![u] = op]
      BY <3>5 DEF Call
    <3>8. cpc'[t] = cpc[t]
      BY <1>1, <2>1, <3>7 DEF IInv
    <3>9. QED
      BY <2>1, <3>6, <3>8
  <2>5. CASE Broker \/ UNCHANGED vars
    <3>1. connection' = connection /\ tpc' = tpc /\ cpc' = cpc
      BY <2>5 DEF Broker, vars, fields, paho
    <3>2. QED
      BY <2>1, <3>1
  <2>6. QED
    BY <1>1, <2>3, <2>4, <2>5 DEF Next
<1>2. QED
  BY <1>1, Invariant, PTL DEF Spec, LockedOutForEver

\* connect finds a leftover client only between its refused on_connect and the
\* end of its on_disconnect.
LeftoverReports == \A t \in Callers : cpc[t] = "join" => Reporting(connection)

\* A client that is neither connected nor being connected is about to go.
Leftover ==
  /\ lock = "free" /\ connection # None => connected \/ connecting \/ Reporting(connection)
  /\ \A t \in Callers : cpc[t] = "dial" => connecting

LEMMA LeftoverInvariant ==
  ASSUME IInv, Leftover, LeftoverReports, [Next]_vars
  PROVE  Leftover' /\ LeftoverReports'
<1> USE DEF TypeOK, LockHeld, Held, Leftover, LeftoverReports, Reporting, CallerAt, NetworkAt
<1>1. ASSUME NEW c \in Clients, Network(c) PROVE Leftover' /\ LeftoverReports'
  BY <1>1 DEF IInv, Network, Accepted, Refused, Lost, Terminated, OnDisconnectStop, Current
<1>2. ASSUME NEW c \in Clients, Callback(c) PROVE Leftover' /\ LeftoverReports'
  BY <1>2 DEF IInv, Callback, OnConnect, OnRefused, OnDisconnect, Notify
<1>3. ASSUME NEW t \in Callers, Connect(t) PROVE Leftover' /\ LeftoverReports'
  BY <1>3 DEF IInv, Connect, LoopStop
<1>4. ASSUME NEW t \in Callers, Call(t) \/ Disconnect(t) \/ IsConnected(t)
      PROVE  Leftover' /\ LeftoverReports'
  BY <1>4 DEF IInv, Call, Disconnect, IsConnected, LoopStop
<1>5. ASSUME NEW t \in Callers, Working(t) PROVE Leftover' /\ LeftoverReports'
  BY <1>5 DEF IInv, Working, Create, Dial, Joined, Parted
<1>6. CASE Broker \/ UNCHANGED vars
  BY <1>6 DEF Broker, vars
<1>7. QED
  BY <1>1, <1>2, <1>3, <1>4, <1>5, <1>6 DEF Next, Entering

\* The thread that connect joins is about to ask for the lock connect holds:
\* tearing a leftover client down never succeeds.
THEOREM MqttLeftoverReports == Spec => []LeftoverReports
<1>1. Init => Leftover /\ LeftoverReports
  BY DEF Init, Leftover, LeftoverReports
<1>2. QED
  BY <1>1, LeftoverInvariant, Invariant, PTL DEF Spec
----------------------------------------------------------------------------
(* That LockedOut is the only reason for which calls wait without end: the *)
(* guards of threads and callers, of which one is open while a call is     *)
(* under way.  (That the thread then runs is fairness, and TLC's.)         *)

ThreadReady(c) ==
  \/ /\ tpc[c] = "loop"
     /\ \/ terminate[c]
        \/ link[c] = "opening" /\ broker \in {"accepts", "refuses"}
        \/ link[c] # "closed" /\ broker = "down"
  \/ tpc[c] = "onDisconnect"
  \/ tpc[c] \in {"onConnect", "onRefused", "onDisconnectLock"} /\ lock = "free"
  \/ tpc[c] = "notify" /\ (LogOnMqtt => lock = "free")

CallerReady(t) ==
  \/ cpc[t] \in {"disconnect", "check"} /\ lock = "free"
  \/ cpc[t] = "connect" /\ lock = "free" /\ \E c \in Clients : Unused(c)
  \/ cpc[t] = "create" /\ \E c \in Clients : Unused(c)
  \/ cpc[t] = "dial"
  \/ cpc[t] \in {"join", "stopping"} /\ Over(connection)

Standstill ==
  /\ \A c \in Clients : ~ ThreadReady(c)
  /\ \A t \in Callers : ~ CallerReady(t)

\* The bound on client instances left aside: there is one beside the current.
WaitsAreLockOuts ==
  Standstill /\ (\E c \in Clients : c # connection)
    => LockedOut \/ \A t \in Callers : cpc[t] = "idle"

\* Who joins a thread has told it to end; who is to make a client, can.
Prepared ==
  \A t \in Callers :
    /\ cpc[t] \in {"join", "stopping"} => terminate[connection]
    /\ cpc[t] \in {"join", "create"} => \E c \in Clients : Unused(c)

LEMMA PreparedInvariant ==
  ASSUME IInv, Prepared, [Next]_vars
  PROVE  Prepared'
<1> USE DEF TypeOK, LockHeld, Held, Prepared, CallerAt, NetworkAt, Unused, Over
<1>1. ASSUME NEW c \in Clients, Network(c) PROVE Prepared'
  <2>1. UNCHANGED <<connection, cpc>> /\ \A d \in Clients : Unused(d) => Unused(d)'
    BY <1>1 DEF IInv, Network, Accepted, Refused, Lost, Terminated, OnDisconnectStop
  <2>2. \A d \in Clients : terminate[d] => terminate'[d]
    BY <1>1 DEF IInv, Network, Accepted, Refused, Lost, Terminated, OnDisconnectStop
  <2>3. QED
    BY <2>1, <2>2 DEF IInv
<1>2. ASSUME NEW c \in Clients, Callback(c) PROVE Prepared'
  <2>1. CASE Notify(c)
    BY <2>1 DEF IInv, Notify
  <2>2. CASE OnConnect(c) \/ OnRefused(c) \/ OnDisconnect(c)
    BY <2>2 DEF IInv, OnConnect, OnRefused, OnDisconnect
  <2>3. QED
    BY <1>2, <2>1, <2>2 DEF Callback
<1>3. ASSUME NEW t \in Callers, Entering(t) PROVE Prepared'
  BY <1>3 DEF IInv, Entering, Connect, Disconnect, IsConnected, LoopStop
<1>4. ASSUME NEW t \in Callers, Call(t) PROVE Prepared'
  BY <1>4 DEF IInv, Call
<1>5. ASSUME NEW t \in Callers, Working(t) PROVE Prepared'
  <2>1. CASE Create(t) \/ Dial(t)
    BY <2>1 DEF IInv, Create, Dial
  <2>2. CASE Joined(t)
    BY <2>2 DEF IInv, Joined, Parted
  <2>3. QED
    BY <1>5, <2>1, <2>2 DEF Working
<1>6. CASE Broker \/ UNCHANGED vars
  BY <1>6 DEF Broker, vars
<1>7. QED
  BY <1>1, <1>2, <1>3, <1>4, <1>5, <1>6 DEF Next

\* Whatever threads and callers do, the lock and the joins under it close no
\* circle but that of LockedOut.
THEOREM MqttWaitsAreLockOuts == Spec => []WaitsAreLockOuts
<1>1. Init => Prepared
  BY DEF Init, Prepared
<1>2. IInv /\ Prepared => WaitsAreLockOuts
  <2> SUFFICES ASSUME IInv, Prepared, Standstill, NEW d \in Clients, d # connection,
                      NEW t \in Callers, cpc[t] # "idle"
               PROVE  LockedOut
    BY DEF WaitsAreLockOuts
  <2> USE DEF IInv, TypeOK
  <2>1. lock # "free"
    <3> SUFFICES ASSUME lock = "free" PROVE FALSE
      OBVIOUS
    <3>1. cpc[t] = "connect" /\ ~ Unused(d)
      BY DEF LockHeld, Standstill, CallerReady
    <3>2. link[d] = "closed" /\ (tpc[d] = "notify" \/ (tpc[d] = "loop" /\ terminate[d]))
      BY <3>1 DEF LetGo, Unused, Over
    <3>3. QED
      BY <3>2 DEF Standstill, ThreadReady
  <2>2. PICK u \in Callers : lock = u /\ cpc[u] \in {"join", "create", "dial", "stopping"}
    BY <2>1 DEF LockHeld
  <2>3. cpc[u] \in {"join", "stopping"} /\ ~ Over(connection)
    BY <2>2 DEF Standstill, CallerReady, Prepared
  <2>4. connection \in Clients /\ terminate[connection] /\ ~ ThreadReady(connection)
    BY <2>3 DEF Held, Prepared, Standstill
  <2>5. \/ tpc[connection] \in {"onConnect", "onRefused", "onDisconnectLock"}
        \/ LogOnMqtt /\ tpc[connection] = "notify"
    BY <2>3, <2>4 DEF ThreadReady, Over
  <2>6. QED
    BY <2>3, <2>5 DEF LockedOut
<1>3. QED
  BY <1>1, <1>2, PreparedInvariant, Invariant, PTL DEF Spec
=============================================================================
