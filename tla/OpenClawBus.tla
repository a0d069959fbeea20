----------------------------- MODULE OpenClawBus -----------------------------
(***************************************************************************)
(* OpenClawEventBus of packages/adapter-openclaw/src: an event bus that    *)
(* hands every event to an inner bus and to its own subscribers, and then  *)
(* forwards the events of the configured types to a gateway over a         *)
(* websocket that is opened again, after a delay, whenever it closes.      *)
(*                                                                         *)
(* The gateway and the websocket library are external: a socket opens,     *)
(* fails or closes at any time, and tells the bus by one event each.       *)
(* Message texts and the delay's length are left out.                      *)
(***************************************************************************)
EXTENDS Integers, FiniteSets

CONSTANTS
  Emits,        \* events emitted on the bus
  Wanted,       \* those whose type and loop id the options ask for
  MaxSockets    \* bound on the connections made

ASSUME BusAssumption == MaxSockets \in Nat \ {0}

VARIABLES
  autoReconnect, \* the option
  sockets,       \* socket -> readyState, with the close event's delivery
  ws,            \* this.ws, or 0 for null
  isConnected,
  timers,        \* pending setTimeouts, named by the socket whose close set them
  reconnectTimer,\* the last of them, or 0
  stopped,       \* history: disconnect() was called
  emits,         \* event -> where its emit is
  gatewayGot     \* events the gateway received

busVars == <<autoReconnect, sockets, ws, isConnected, timers, reconnectTimer, stopped,
             emits, gatewayGot>>

Sockets == 1..MaxSockets
SocketFates == {"none", "inner", "handlers", "forwarded", "dropped", "skipped", "rejected"}

BusTypeOK ==
  /\ sockets \in [Sockets -> {"none", "connecting", "open", "closing", "closed"}]
  /\ ws \in 0..MaxSockets
  /\ isConnected \in BOOLEAN
  /\ timers \subseteq Sockets
  /\ reconnectTimer \in 0..MaxSockets
  /\ emits \in [Emits -> SocketFates]
  /\ gatewayGot \subseteq Emits

Unused == {s \in Sockets : sockets[s] = "none"}

Opened(s) == [sockets EXCEPT ![s] = "connecting"]

(* The constructor connects.                                               *)
BusInit ==
  /\ autoReconnect \in BOOLEAN
  /\ sockets = [s \in Sockets |-> IF s = 1 THEN "connecting" ELSE "none"]
  /\ ws = 1
  /\ isConnected = FALSE
  /\ timers = {}
  /\ reconnectTimer = 0
  /\ stopped = FALSE
  /\ emits = [e \in Emits |-> "none"]
  /\ gatewayGot = {}

-----------------------------------------------------------------------------
(* The socket.                                                             *)

SocketOpens(s) ==
  /\ sockets[s] = "connecting"
  /\ sockets' = [sockets EXCEPT ![s] = "open"]
  /\ isConnected' = TRUE
  /\ UNCHANGED <<autoReconnect, ws, timers, reconnectTimer, stopped, emits, gatewayGot>>

(* An error event comes before the close of a socket that failed.          *)

(* Mutant: the error handler schedules a reconnection too.                 *)
SocketFailsAndReconnects(s) ==
  /\ sockets[s] \in {"connecting", "open"}
  /\ sockets' = [sockets EXCEPT ![s] = "closing"]
  /\ isConnected' = FALSE
  /\ IF autoReconnect THEN timers' = timers \cup {s} /\ reconnectTimer' = s
                      ELSE UNCHANGED <<timers, reconnectTimer>>
  /\ UNCHANGED <<autoReconnect, ws, stopped, emits, gatewayGot>>

SocketFails(s) ==
  /\ sockets[s] \in {"connecting", "open"}
  /\ sockets' = [sockets EXCEPT ![s] = "closing"]
  /\ isConnected' = FALSE
  /\ UNCHANGED <<autoReconnect, ws, timers, reconnectTimer, stopped, emits, gatewayGot>>

(* The gateway ends the connection; its close event is still to come.      *)
SocketEnds(s) ==
  /\ sockets[s] = "open"
  /\ sockets' = [sockets EXCEPT ![s] = "closing"]
  /\ UNCHANGED <<autoReconnect, ws, isConnected, timers, reconnectTimer, stopped, emits, gatewayGot>>

(* The close event: not connected, and a timer if the option says so.      *)
SocketCloses(s) ==
  /\ sockets[s] = "closing"
  /\ sockets' = [sockets EXCEPT ![s] = "closed"]
  /\ isConnected' = FALSE
  /\ IF autoReconnect THEN timers' = timers \cup {s} /\ reconnectTimer' = s
                      ELSE UNCHANGED <<timers, reconnectTimer>>
  /\ UNCHANGED <<autoReconnect, ws, stopped, emits, gatewayGot>>

(* The timer fires: connect().                                             *)
Reconnects(s) ==
  /\ s \in timers
  /\ timers' = timers \ {s}
  /\ \E n \in Unused :
       /\ \A k \in Unused : n <= k
       /\ sockets' = Opened(n)
       /\ ws' = n
  /\ UNCHANGED <<autoReconnect, isConnected, reconnectTimer, stopped, emits, gatewayGot>>

Disconnect ==
  /\ timers' = timers \ {reconnectTimer}
  /\ sockets' = [s \in Sockets |->
       IF s = ws /\ sockets[s] \in {"connecting", "open"} THEN "closing" ELSE sockets[s]]
  /\ ws' = 0
  /\ isConnected' = FALSE
  /\ stopped' = TRUE
  /\ UNCHANGED <<autoReconnect, reconnectTimer, emits, gatewayGot>>

-----------------------------------------------------------------------------
(* emit: the inner bus, the subscribers one after the other, the gateway.  *)

Emit(e) ==
  /\ emits[e] = "none"
  /\ emits' = [emits EXCEPT ![e] = "inner"]
  /\ UNCHANGED <<autoReconnect, sockets, ws, isConnected, timers, reconnectTimer, stopped, gatewayGot>>

(* What the inner bus does ends the emit only if it rejects.               *)
InnerDone(e) ==
  /\ emits[e] = "inner"
  /\ \E fate \in {"handlers", "rejected"} : emits' = [emits EXCEPT ![e] = fate]
  /\ UNCHANGED <<autoReconnect, sockets, ws, isConnected, timers, reconnectTimer, stopped, gatewayGot>>

ShouldForward(e) == e \in Wanted

CanSend == ws # 0 /\ sockets[ws] = "open" /\ isConnected

(* The subscribers are done, whether they threw or not; sendToGateway.     *)
Forward(e) ==
  /\ emits[e] = "handlers"
  /\ emits' = [emits EXCEPT ![e] = CASE ~ShouldForward(e) -> "skipped"
                                     [] ShouldForward(e) /\ CanSend -> "forwarded"
                                     [] OTHER -> "dropped"]
  /\ gatewayGot' = IF ShouldForward(e) /\ CanSend THEN gatewayGot \cup {e} ELSE gatewayGot
  /\ UNCHANGED <<autoReconnect, sockets, ws, isConnected, timers, reconnectTimer, stopped>>

BusNext ==
  \/ \E s \in Sockets :
       \/ SocketOpens(s)
       \/ SocketFails(s)
       \/ SocketEnds(s)
       \/ SocketCloses(s)
       \/ Reconnects(s)
  \/ Disconnect
  \/ \E e \in Emits : Emit(e) \/ InnerDone(e) \/ Forward(e)

BusSpec == BusInit /\ [][BusNext]_busVars

-----------------------------------------------------------------------------

LiveSockets == {s \in Sockets : sockets[s] \in {"connecting", "open", "closing"}}

(* The bus never holds two sockets, or a socket and a timer that will open *)
(* another: closing, failing, reconnecting and disconnect() in any order   *)
(* leave one line of reconnections at most; and as long as it was not      *)
(* disconnected, the line does not break and this.ws is its socket.        *)
ReconnectsOnce ==
  /\ Cardinality(LiveSockets) + Cardinality(timers) <= 1
  /\ (autoReconnect /\ ~stopped) =>
       /\ Cardinality(LiveSockets) + Cardinality(timers) = 1
       /\ LiveSockets \subseteq {ws}
  /\ isConnected => ws # 0 /\ sockets[ws] \in {"open", "closing"}
=============================================================================
