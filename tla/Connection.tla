---- MODULE Connection ----
(***************************************************************************)
(* The browser's one WebSocket to the bridge and the requests over it:     *)
(* WsClient (apps/web/src/app/state/ws-client.ts), the bridge's message    *)
(* loop (apps/bridge/src/ws/server.ts) and what dispatch                   *)
(* (apps/bridge/src/ws/dispatch.ts) answers a request with.                *)
(*                                                                         *)
(* Sockets are numbered in the order they are opened; at most one is not   *)
(* closed, because only a close schedules the next one.  The bridge        *)
(* handles requests concurrently (its handler is async), so answers come   *)
(* in any order, and a request the browser has given up may still be       *)
(* carried out.  The length of the backoff is left out: a scheduled        *)
(* reconnect happens at any later time.                                    *)
(***************************************************************************)
EXTENDS Naturals, FiniteSets

CONSTANTS
  Request,     \* what one page sends: an id each (crypto.randomUUID())
  MaxSockets,  \* bound: sockets one page opens
  NoAnswer

\* What a request may be answered with.
Answer == {"done", "unknown_host", "not_supported", "unknown_method", "invalid_params",
           "RepoFileError", "HostUnavailableError", "HerdrRequestError", "internal_error",
           "same_tab", "zoomed_tab"}

ASSUME ConnectionAssumption == MaxSockets \in Nat \ {0} /\ NoAnswer \notin Answer

VARIABLES
  webSocket,      \* the number of the current socket
  readyState,     \* and its state
  reconnectTimer, \* scheduleReconnect()'s timer is running
  connectionLost, \* the outage has been announced
  pending,        \* requests with a promise still to settle
  sent,           \* the socket a request went out on, 0 before
  frame,          \* where it is: on its way "up", its answer "down", or "none"
  answer          \* what the bridge answered it with, while that is on its way

connection == <<webSocket, readyState, reconnectTimer, connectionLost, pending, sent, frame, answer>>

----
(* dispatch.ts: one request to one answer. *)

Herdr == {"pane.list", "pane.read", "pane.send_keys", "pane.send_text", "pane.split",
          "pane.close", "pane.move", "pane.rename", "tab.create", "tab.rename", "tab.close",
          "tab.move", "workspace.create", "workspace.rename", "workspace.close"}
Repo  == {"repo.status", "repo.tree", "file.read", "repo.diff"}
Local == {"events.subscribe", "pane.subscribe_output", "pane.unsubscribe_output"}
Unsupported == {"pane.resize", "pane.graphics.info", "pane.graphics.stream"}

\* The parameters a request must carry to be handed on.
Needs(method) ==
  CASE method \in {"pane.read", "pane.subscribe_output", "pane.close", "pane.rename"} -> {"pane_id"}
    [] method \in {"repo.status", "repo.tree"} -> {"pane_id"}
    [] method \in {"file.read", "repo.diff"} -> {"pane_id", "path"}
    [] method = "pane.send_keys" -> {"pane_id", "keys"}
    [] method = "pane.send_text" -> {"pane_id", "text"}
    [] method = "pane.split" -> {"direction"}
    [] method = "pane.move" -> {"pane_id", "destination"}
    [] method = "tab.rename" -> {"tab_id", "label"}
    [] method = "tab.close" -> {"tab_id"}
    [] method = "tab.move" -> {"tab_id", "insert_index"}
    [] method = "workspace.rename" -> {"workspace_id", "label"}
    [] method = "workspace.close" -> {"workspace_id"}
    [] OTHER -> {}

\* How a call of the host's runtime may end: done, or with an error of a class.
Runtime(method) ==
  CASE method \in Repo -> {"done", "RepoFileError", "HostUnavailableError", "Error"}
    [] method \in Herdr -> {"done", "HostUnavailableError", "HerdrRequestError", "Error"}
    [] OTHER -> {"done"}

\* As caught(), but without its last return: the error leaves the handler, and
\* the request is never answered.
caughtSome(outcome) ==
  IF outcome \in {"done", "RepoFileError", "HostUnavailableError", "HerdrRequestError"}
  THEN outcome ELSE NoAnswer

\* The catch clause: three classes of error carry a code of their own, any
\* other becomes internal_error.
caught(outcome) ==
  IF outcome \in {"done", "RepoFileError", "HostUnavailableError", "HerdrRequestError"}
  THEN outcome ELSE "internal_error"

\* What a request is answered with, when the runtime's call ends in outcome.
dispatch(method, given, hostKnown, outcome) ==
  CASE method = "bridge.capabilities" -> "done"
    [] method # "bridge.capabilities" /\ ~hostKnown -> "unknown_host"
    [] method \in Unsupported /\ hostKnown -> "not_supported"
    [] method \in Herdr \cup Repo \cup Local /\ hostKnown ->
         IF Needs(method) \subseteq given THEN caught(outcome) ELSE "invalid_params"
    [] OTHER -> "unknown_method"

----
\* connect(): the application opens the first socket as it starts.
ConnectionInit ==
  /\ webSocket = 1 /\ readyState = "connecting"
  /\ reconnectTimer = FALSE /\ connectionLost = FALSE
  /\ pending = {}
  /\ sent = [r \in Request |-> 0]
  /\ frame = [r \in Request |-> "none"]
  /\ answer = [r \in Request |-> NoAnswer]

\* open(), from scheduleReconnect()'s timer.
Reopen ==
  /\ reconnectTimer /\ webSocket < MaxSockets
  /\ reconnectTimer' = FALSE
  /\ webSocket' = webSocket + 1 /\ readyState' = "connecting"
  /\ UNCHANGED <<connectionLost, pending, sent, frame, answer>>

\* The 'open' listener.
SocketOpens ==
  /\ readyState = "connecting"
  /\ readyState' = "open" /\ connectionLost' = FALSE
  /\ UNCHANGED <<webSocket, reconnectTimer, pending, sent, frame, answer>>

\* The requests whose promise a close rejects: rejectAllPending().
rejectAllPending == pending

\* The 'close' listener, of an open socket or of an attempt that failed.
\* Answers on their way are not delivered; a request on its way may be.
SocketCloses ==
  /\ readyState \in {"connecting", "open"}
  /\ readyState' = "closed" /\ reconnectTimer' = TRUE
  /\ connectionLost' = (connectionLost \/ readyState = "open")
  /\ pending' = pending \ rejectAllPending
  /\ frame' = [r \in Request |-> IF frame[r] = "up" THEN "up" ELSE "none"]
  /\ answer' = [r \in Request |-> NoAnswer]
  /\ UNCHANGED <<webSocket, sent>>

\* request(): sent when the socket is open.
Send(r) ==
  /\ sent[r] = 0 /\ readyState = "open"
  /\ sent' = [sent EXCEPT ![r] = webSocket]
  /\ pending' = pending \cup {r}
  /\ frame' = [frame EXCEPT ![r] = "up"]
  /\ UNCHANGED <<webSocket, readyState, reconnectTimer, connectionLost, answer>>

\* request(), refused at once when the socket is not open.
Refuse(r) ==
  /\ sent[r] = 0 /\ readyState # "open"
  /\ UNCHANGED connection

\* The bridge's message handler: what dispatch returned goes back, when the
\* socket it came in on is still open.
Handle(r, result) ==
  /\ frame[r] = "up"
  /\ LET back == result # NoAnswer /\ readyState = "open" /\ sent[r] = webSocket
     IN  /\ answer' = [answer EXCEPT ![r] = IF back THEN result ELSE NoAnswer]
         /\ frame' = [frame EXCEPT ![r] = IF back THEN "down" ELSE "none"]
  /\ UNCHANGED <<webSocket, readyState, reconnectTimer, connectionLost, pending, sent>>

\* handleMessage(): the answer settles the promise of its request, if that is
\* still waited for.
Deliver(r) ==
  /\ frame[r] = "down" /\ readyState = "open"
  /\ frame' = [frame EXCEPT ![r] = "none"]
  /\ answer' = [answer EXCEPT ![r] = NoAnswer]
  /\ pending' = pending \ {r}
  /\ UNCHANGED <<webSocket, readyState, reconnectTimer, connectionLost, sent>>

ConnectionNext ==
  \/ Reopen \/ SocketOpens \/ SocketCloses
  \/ \E r \in Request : \/ Send(r) \/ Refuse(r) \/ Deliver(r)
                         \/ \E result \in Answer : Handle(r, result)

ConnectionSpec == ConnectionInit /\ [][ConnectionNext]_connection

----
\* Every promise is kept in sight: its request went out on the socket that is
\* open now, and it or its answer is still on its way there.  WsClient rejects
\* what a closed socket leaves behind (rejectAllPending), and dispatch answers
\* whatever the host's call ends in (the catch clause of dispatch.ts), so no
\* promise waits for an answer nobody will send.
PromisesCanSettle ==
  \A r \in pending : readyState = "open" /\ sent[r] = webSocket /\ frame[r] # "none"
====
