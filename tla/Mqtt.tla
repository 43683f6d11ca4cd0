-------------------------------- MODULE Mqtt --------------------------------
(***************************************************************************)
(* MQTTConnection: a paho client is made for each connection attempt and   *)
(* torn down when it is over.  Two threads call connect, disconnect and    *)
(* is_connected: the FSM thread and, on a stop, the main one.  Each client *)
(* has a network thread, which runs on_connect and on_disconnect.  The     *)
(* fields are guarded by _lock, which is reentrant: what a thread calls    *)
(* while it holds the lock does not wait for it.                           *)
(*                                                                         *)
(* paho-mqtt (external) is modelled from how the class uses it: loop_stop  *)
(* tells the network thread to end and joins it, unless it is the caller;  *)
(* a thread that was told so ends when it is back in its loop; a lost or   *)
(* refused connection is reported by on_disconnect, on that thread;        *)
(* disconnect closes the socket, and once the thread has ended it calls    *)
(* on_disconnect itself, on the caller's thread, which holds the lock.     *)
(***************************************************************************)
EXTENDS Naturals

CONSTANTS
  Clients,    \* bound: client instances not yet garbage; one is used again once it is
  None,       \* Python's None
  LogOnMqtt   \* config.log_on_mqtt is set: notifying calls is_connected

ASSUME MqttAssumption == None \notin Clients /\ LogOnMqtt \in BOOLEAN

Callers == {"fsm", "main"}

VARIABLES
  connection,   \* self.connection
  connected,    \* _connected
  connecting,   \* _connecting
  lock,         \* the caller that holds _lock from one step to the next, or "free"
  link,         \* of each client: "closed", "opening" (no CONNACK yet) or "open"
  terminate,    \* of each client: its thread is told to end
  tpc,          \* where each network thread is
  cpc,          \* where each caller is
  broker        \* environment: the broker "accepts", "refuses" or is "down"

fields == <<connection, connected, connecting>>
paho   == <<link, terminate, tpc>>
vars   == <<fields, lock, paho, cpc, broker>>

Init ==
  /\ connection = None /\ connected = FALSE /\ connecting = FALSE
  /\ lock = "free"
  /\ link = [c \in Clients |-> "closed"]
  /\ terminate = [c \in Clients |-> FALSE]
  /\ tpc = [c \in Clients |-> "none"]
  /\ cpc = [t \in Callers |-> "idle"]
  /\ broker \in {"accepts", "refuses", "down"}

NetworkAt(c, from, to) == tpc[c] = from /\ tpc' = [tpc EXCEPT ![c] = to]
CallerAt(t, from, to)  == cpc[t] = from /\ cpc' = [cpc EXCEPT ![t] = to]

Over(c) == tpc[c] = "none"   \* paho's _thread is None

\* A client nobody refers to any more, and the instances yet to be made.
Unused(c) == Over(c) /\ link[c] = "closed" /\ c # connection

----------------------------------------------------------------------------
(* paho's network thread, in its loop.                                     *)

\* CONNACK with success: paho's is_connected holds from here on.
Accepted(c) ==
  /\ link[c] = "opening" /\ broker = "accepts"
  /\ NetworkAt(c, "loop", "onConnect")
  /\ link' = [link EXCEPT ![c] = "open"]
  /\ UNCHANGED <<fields, lock, terminate, cpc, broker>>

\* CONNACK with an error.
Refused(c) ==
  /\ link[c] = "opening" /\ broker = "refuses"
  /\ NetworkAt(c, "loop", "onRefused")
  /\ UNCHANGED <<fields, lock, link, terminate, cpc, broker>>

\* The connection is lost, before a CONNACK or after.
Lost(c) ==
  /\ link[c] # "closed" /\ broker = "down"
  /\ NetworkAt(c, "loop", "onDisconnect")
  /\ link' = [link EXCEPT ![c] = "closed"]
  /\ UNCHANGED <<fields, lock, terminate, cpc, broker>>

\* The thread ends without a callback; the socket stays as it is.
Terminated(c) ==
  /\ terminate[c]
  /\ NetworkAt(c, "loop", "none")
  /\ UNCHANGED <<fields, lock, link, terminate, cpc, broker>>

----------------------------------------------------------------------------
(* Callbacks.  What they do under the lock is one step: nothing in it waits.*)

OnConnect(c) ==
  /\ lock = "free"
  /\ IF c = connection
       THEN NetworkAt(c, "onConnect", "notify") /\ connected' = TRUE /\ connecting' = FALSE
       ELSE NetworkAt(c, "onConnect", "loop") /\ UNCHANGED <<connected, connecting>>
  /\ UNCHANGED <<connection, lock, link, terminate, cpc, broker>>

\* Mutant: a lock that is not reentrant: the notification waits for its own.
OnRefusedSelfLock(c) ==
  /\ lock = "free" /\ tpc[c] = "onRefused"
  /\ lock' = c
  /\ UNCHANGED <<fields, paho, cpc, broker>>

\* on_connect with an error.  It notifies under the lock.  paho then closes
\* the socket and calls on_disconnect.
OnRefused(c) ==
  /\ lock = "free"
  /\ NetworkAt(c, "onRefused", "onDisconnect")
  /\ IF c = connection THEN connected' = FALSE /\ connecting' = FALSE
                       ELSE UNCHANGED <<connected, connecting>>
  /\ link' = [link EXCEPT ![c] = "closed"]
  /\ UNCHANGED <<connection, lock, terminate, cpc, broker>>

\* Mutant: on_disconnect leaves paho's loop running.
OnDisconnectStopNot(c) ==
  /\ NetworkAt(c, "onDisconnect", "onDisconnectLock")
  /\ UNCHANGED <<fields, lock, link, terminate, cpc, broker>>

\* on_disconnect stops self.connection before it takes the lock, whichever
\* client that is.  For its own, loop_stop does not join and there is no
\* socket left to disconnect; NoStaleCallback says it is never another's.
OnDisconnectStop(c) ==
  /\ NetworkAt(c, "onDisconnect", "onDisconnectLock")
  /\ IF connection = None
       THEN UNCHANGED <<link, terminate>>
       ELSE /\ terminate' = [terminate EXCEPT ![connection] = TRUE]
            /\ link' = [link EXCEPT ![connection] = "closed"]
  /\ UNCHANGED <<fields, lock, cpc, broker>>

\* Mutant: on_disconnect forgets the attempt in progress.
OnDisconnectKeeps(c) ==
  /\ lock = "free"
  /\ NetworkAt(c, "onDisconnectLock", "notify")
  /\ connection' = None /\ connected' = FALSE
  /\ UNCHANGED <<connecting, lock, link, terminate, cpc, broker>>

OnDisconnect(c) ==
  /\ lock = "free"
  /\ IF c = connection
       THEN /\ NetworkAt(c, "onDisconnectLock", "notify")
            /\ connection' = None /\ connected' = FALSE /\ connecting' = FALSE
       ELSE NetworkAt(c, "onDisconnectLock", "loop") /\ UNCHANGED fields
  /\ UNCHANGED <<lock, link, terminate, cpc, broker>>

\* __notify_state_change, outside the lock: HandlerFSM.log_on_mqtt asks
\* is_connected, and waits for the lock.
Notify(c) ==
  /\ LogOnMqtt => lock = "free"
  /\ NetworkAt(c, "notify", "loop")
  /\ UNCHANGED <<fields, lock, link, terminate, cpc, broker>>

----------------------------------------------------------------------------
(* connect.                                                                *)

Call(t) ==
  /\ \E op \in {"connect", "disconnect", "check"} : CallerAt(t, "idle", op)
  /\ UNCHANGED <<fields, lock, paho, broker>>

\* Mutant: the flag as in paho 1.x, where it may be None.
LoopStopNone(c) == terminate' = [terminate EXCEPT ![c] = None]

LoopStop(c) == terminate' = [terminate EXCEPT ![c] = TRUE]

\* Mutant: a leftover client's thread is told to end, and not waited for.
ConnectNoJoin(t) ==
  /\ lock = "free" /\ \E c \in Clients : Unused(c)
  /\ IF connected \/ connecting
       THEN CallerAt(t, "connect", "idle") /\ UNCHANGED <<connection, lock, link, terminate>>
       ELSE /\ lock' = t /\ connection' = None
            /\ IF connection = None
                 THEN UNCHANGED <<link, terminate>>
                 ELSE LoopStop(connection) /\ link' = [link EXCEPT ![connection] = "closed"]
            /\ CallerAt(t, "connect", "create")
  /\ UNCHANGED <<connected, connecting, tpc, broker>>

\* The bound on Clients is here: once the lock is taken a client can be made.
Connect(t) ==
  /\ lock = "free" /\ \E c \in Clients : Unused(c)
  /\ IF connected \/ connecting
       THEN CallerAt(t, "connect", "idle") /\ UNCHANGED <<lock, terminate>>
       ELSE /\ lock' = t
            /\ IF connection = None
                 THEN CallerAt(t, "connect", "create") /\ UNCHANGED terminate
                 ELSE CallerAt(t, "connect", "join") /\ LoopStop(connection)
  /\ UNCHANGED <<fields, link, tpc, broker>>

Create(t) ==
  /\ CallerAt(t, "create", "dial")
  /\ \E c \in Clients : /\ Unused(c) /\ connection' = c
                        /\ terminate' = [terminate EXCEPT ![c] = FALSE]
  /\ connecting' = TRUE
  /\ UNCHANGED <<connected, lock, link, tpc, broker>>

\* The blocking connect, and loop_start.  It raises when the broker is down.
Dial(t) ==
  /\ IF broker = "down"
       THEN /\ CallerAt(t, "dial", "idle")
            /\ connection' = None /\ connected' = FALSE /\ connecting' = FALSE
            /\ UNCHANGED <<link, tpc>>
       ELSE /\ CallerAt(t, "dial", "check")
            /\ link' = [link EXCEPT ![connection] = "opening"]
            /\ tpc' = [tpc EXCEPT ![connection] = "loop"]
            /\ UNCHANGED fields
  /\ lock' = "free"
  /\ UNCHANGED <<terminate, broker>>

----------------------------------------------------------------------------
(* disconnect and is_connected.                                            *)

Disconnect(t) ==
  /\ lock = "free"
  /\ IF connection = None
       THEN CallerAt(t, "disconnect", "idle") /\ UNCHANGED <<connecting, lock, terminate>>
       ELSE /\ CallerAt(t, "disconnect", "stopping") /\ lock' = t
            /\ connecting' = FALSE /\ LoopStop(connection)
  /\ UNCHANGED <<connection, connected, link, tpc, broker>>

\* What connect and disconnect do once loop_stop has returned.
Parted(t) ==
  /\ cpc[t] \in {"join", "stopping"} /\ Over(connection)
  /\ connection' = None
  /\ IF cpc[t] = "join"
       THEN CallerAt(t, "join", "create") /\ UNCHANGED <<connected, lock>>
       ELSE CallerAt(t, "stopping", "idle") /\ connected' = FALSE /\ lock' = "free"
  /\ UNCHANGED <<connecting, terminate, tpc, broker>>

\* Mutant: the thread is ended and the socket left open.
JoinedOnly(t) == Parted(t) /\ UNCHANGED link

\* loop_stop returns.  disconnect closes the socket; if there was one, that
\* runs on_disconnect here, whose changes are those the caller makes anyway.
\* In connect this does not happen: a client is left over only from a refused
\* on_connect to its on_disconnect, which waits for the lock connect holds.
Joined(t) == Parted(t) /\ link' = [link EXCEPT ![connection] = "closed"]

IsConnected(t) ==   \* changes nothing, but waits for the lock
  /\ lock = "free"
  /\ CallerAt(t, "check", "idle")
  /\ UNCHANGED <<fields, lock, paho, broker>>

----------------------------------------------------------------------------
Broker ==   \* environment
  /\ broker' \in {"accepts", "refuses", "down"} \ {broker}
  /\ UNCHANGED <<fields, lock, paho, cpc>>

Network(c)  == Accepted(c) \/ Refused(c) \/ Lost(c) \/ Terminated(c) \/ OnDisconnectStop(c)
Callback(c) == OnConnect(c) \/ OnRefused(c) \/ OnDisconnect(c) \/ Notify(c)
Working(t)  == Create(t) \/ Dial(t) \/ Joined(t)
Entering(t) == Connect(t) \/ Disconnect(t) \/ IsConnected(t)

Next == \/ \E c \in Clients : Network(c) \/ Callback(c)
        \/ \E t \in Callers : Call(t) \/ Working(t) \/ Entering(t)
        \/ Broker

Spec == Init /\ [][Next]_vars

\* HandlerFSM.do_idle calls start_connections again and again.
Retry == Call("fsm") /\ cpc'["fsm"] = "connect"

\* Threads run.  A thread that waits for the lock gets it if the lock is free
\* again and again: between calls the others sleep for seconds.
FairSpec ==
  /\ Spec
  /\ \A c \in Clients : WF_vars(Network(c)) /\ SF_vars(Callback(c))
  /\ \A t \in Callers : WF_vars(Working(t)) /\ SF_vars(Entering(t))
  /\ SF_vars(Retry)

----------------------------------------------------------------------------
(* Safety.                                                                 *)

\* Every variable holds a value of its type: fields of MQTTConnection, paho's
\* state of each client, the threads' places.
TypeOK ==
  /\ connection \in Clients \cup {None}
  /\ connected \in BOOLEAN /\ connecting \in BOOLEAN
  /\ lock \in Callers \cup {"free"}
  /\ link \in [Clients -> {"closed", "opening", "open"}]
  /\ terminate \in [Clients -> BOOLEAN]
  /\ tpc \in [Clients -> {"none", "loop", "onConnect", "onRefused", "onDisconnect",
                          "onDisconnectLock", "notify"}]
  /\ cpc \in [Callers -> {"idle", "connect", "join", "create", "dial", "disconnect",
                          "stopping", "check"}]
  /\ broker \in {"accepts", "refuses", "down"}

Reporting(c) == tpc[c] \in {"onDisconnect", "onDisconnectLock"}

\* Whenever the lock is free, _connected means an open link or one whose loss
\* is about to be reported, and _connecting an attempt that some callback will
\* settle.  connect refuses to do anything while either is set: one left
\* behind would keep the service from ever connecting again.
FlagsAreBacked ==
  lock = "free" =>
    /\ ~(connected /\ connecting)
    /\ connected => connection # None /\ (link[connection] = "open" \/ Reporting(connection))
    /\ connecting => /\ connection # None /\ ~Over(connection)
                     /\ \/ link[connection] = "opening" /\ tpc[connection] = "loop"
                        \/ tpc[connection] \in {"onConnect", "onRefused"}
                        \/ Reporting(connection)

\* A callback always comes from the current client.  on_disconnect stops
\* self.connection before it has checked that; were the callback late, it
\* would stop the connection that replaced its own.
NoStaleCallback ==
  \A c \in Clients :
    tpc[c] \in {"onConnect", "onRefused"} \/ Reporting(c) => connection = c

\* No client that was replaced or given up keeps its link to the broker: it
\* would go on delivering messages to the dispatcher, or have the broker throw
\* the new one out, which has the same client id.
OneLink == \A c \in Clients : link[c] # "closed" => connection = c

\* paho would reconnect by itself when a link is lost, behind the back of
\* connect; on_disconnect has told it not to.
NoSelfReconnect ==
  \A c \in Clients : tpc[c] = "loop" /\ link[c] = "closed" => terminate[c]

----------------------------------------------------------------------------
(* Liveness.                                                               *)

\* A caller joins, under the lock, a thread with a callback that waits for it.
LockedOut ==
  \E t \in Callers : /\ cpc[t] \in {"join", "stopping"}
                     /\ \/ tpc[connection] \in {"onConnect", "onRefused", "onDisconnectLock"}
                        \/ LogOnMqtt /\ tpc[connection] = "notify"

\* connect, disconnect and is_connected return, but for one reason: some
\* caller holds the lock while it joins a thread whose callback waits for it.
CallsEnd == \A t \in Callers : cpc[t] # "idle" ~> cpc[t] = "idle" \/ LockedOut

\* When the broker stays up and nobody disconnects, the connection comes up
\* and stays, whatever attempts failed before, unless a caller is locked out.
ComesUp ==
  <>[](broker = "accepts") /\ <>[](\A t \in Callers : cpc[t] \notin {"disconnect", "stopping"})
    => <>[](connected \/ LockedOut)

=============================================================================
