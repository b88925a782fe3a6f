------------------------------ MODULE LiveView ------------------------------
(***************************************************************************)
(* How the inspector page of a run follows the run.  A worker writes the   *)
(* transcript row and broadcasts a small run.turn event; the hub fans it   *)
(* out to a bounded channel per WebSocket client; the page takes an event  *)
(* only as a hint and reads the row again through REST.  Log lines use the *)
(* same channels.  Nothing on the way blocks the worker: full channels     *)
(* drop.  Sockets break, and the page opens a new one after a delay.       *)
(*                                                                         *)
(* Sources: engine/internal/api/{ws_hub,ws_handler}.go, the transcript     *)
(* writes of engine/internal/experiment/orchestrator.go, and               *)
(* frontend/src/lib/use-turn-stream.ts with useRunTurns of lib/hooks.ts.   *)
(***************************************************************************)
EXTENDS Integers, Sequences

CONSTANTS
    Versions,   \* how often the worker writes the transcript row
    MaxLogs,    \* how many log lines it broadcasts
    BCap,       \* the capacity of Hub.broadcast (256 in the code)
    CCap,       \* the capacity of a client's channel (64)
    MaxLosses   \* how many sockets of the page break

ASSUME LiveViewAssumption ==
    /\ Versions \in Nat \ {0} /\ MaxLogs \in Nat
    /\ BCap \in Nat \ {0} /\ CCap \in Nat \ {0}
    /\ MaxLosses \in Nat

\* A page opens its sockets one after the other.
Conns == 1..(MaxLosses + 1)
NoData == -1

VARIABLES
    row,       \* the version of the transcript row
    worker,    \* "write", "announce" what it wrote, or "done"
    logsLeft,  \* the log lines still to come
    bcast,     \* Hub.broadcast
    clients,   \* Hub.clients
    chan,      \* the channel of a client
    closed,    \* that channel was closed
    handler,   \* where HandleWS of a connection stands
    alive,     \* the TCP connection is up
    wire,      \* the frames on their way to the browser
    losses,    \* how many connections broke
    page,      \* "open" until the inspector is unmounted
    sock,      \* the connection of socketRef.current
    ready,     \* its state in the browser: "connecting", "open", "closed"
    timer,     \* reconnectTimer is set
    cache,     \* the version the query cache of ['run-turns', runId] holds
    fetch,     \* its request: "idle", "sent", or "read" by the server
    answer     \* the version the server read for it

workerVars == <<row, worker, logsLeft>>
serverVars == <<chan, closed, handler, clients>>
netVars    == <<alive, wire, losses>>
pageVars   == <<page, sock, ready, timer>>
queryVars  == <<cache, fetch, answer>>
vars       == <<workerVars, bcast, serverVars, netVars, pageVars, queryVars>>

Events == {"turn", "log"}

TypeOK ==
    /\ row \in 0..Versions
    /\ worker \in {"write", "announce", "done"}
    /\ logsLeft \in 0..MaxLogs
    /\ bcast \in Seq(Events) /\ Len(bcast) <= BCap
    /\ clients \in SUBSET Conns
    /\ chan \in [Conns -> Seq(Events)]
    /\ \A c \in Conns : Len(chan[c]) <= CCap
    /\ closed \in [Conns -> BOOLEAN]
    /\ handler \in [Conns -> {"none", "register", "serve", "unregister", "gone"}]
    /\ alive \in [Conns -> BOOLEAN]
    /\ wire \in [Conns -> Seq(Events)]
    /\ losses \in 0..MaxLosses
    /\ page \in {"open", "closed"}
    /\ sock \in Conns
    /\ ready \in {"connecting", "open", "closed"}
    /\ timer \in BOOLEAN
    /\ cache \in {NoData} \cup 0..Versions
    /\ fetch \in {"idle", "sent", "read"}
    /\ answer \in {NoData} \cup 0..Versions

\* The page has just been mounted: it connects and sends its first request.
Init ==
    /\ row = 0 /\ worker = "write" /\ logsLeft = MaxLogs
    /\ bcast = <<>>
    /\ clients = {}
    /\ chan = [c \in Conns |-> <<>>]
    /\ closed = [c \in Conns |-> FALSE]
    /\ handler = [c \in Conns |-> "none"]
    /\ alive = [c \in Conns |-> c = 1]
    /\ wire = [c \in Conns |-> <<>>]
    /\ losses = 0
    /\ page = "open" /\ sock = 1 /\ ready = "connecting" /\ timer = FALSE
    /\ cache = NoData /\ fetch = "sent" /\ answer = NoData

----
(* The worker of the run.                                                   *)

\* Hub.Broadcast never blocks: what does not fit is dropped.
Broadcast(event) ==
    bcast' = IF Len(bcast) < BCap THEN Append(bcast, event) ELSE bcast

\* SaveTranscript: a flush of the streamer, or the final transcript.
Write ==
    /\ worker = "write" /\ row < Versions
    /\ row' = row + 1
    /\ worker' = "announce"
    /\ UNCHANGED <<logsLeft, bcast, serverVars, netVars, pageVars, queryVars>>

\* A failed run saves its transcript and broadcasts no run.turn for it.
WriteFailed ==
    /\ worker = "write" /\ row < Versions
    /\ row' = row + 1
    /\ worker' = "done"
    /\ UNCHANGED <<logsLeft, bcast, serverVars, netVars, pageVars, queryVars>>

Announce ==
    /\ worker = "announce"
    /\ Broadcast("turn")
    /\ worker' = IF row = Versions THEN "done" ELSE "write"
    /\ UNCHANGED <<row, logsLeft, serverVars, netVars, pageVars, queryVars>>

Log ==
    /\ worker = "write" /\ logsLeft > 0
    /\ Broadcast("log")
    /\ logsLeft' = logsLeft - 1
    /\ UNCHANGED <<row, worker, serverVars, netVars, pageVars, queryVars>>

----
(* The hub's goroutine: one case of its select at a time.                   *)

Register(c) ==
    /\ handler[c] = "register"
    /\ clients' = clients \cup {c}
    /\ handler' = [handler EXCEPT ![c] = "serve"]
    /\ UNCHANGED <<workerVars, bcast, chan, closed, netVars, pageVars, queryVars>>

\* The handler's deferred calls: the rendezvous with the hub, conn.Close.
Unregister(c) ==
    /\ handler[c] = "unregister"
    /\ clients' = clients \ {c}
    /\ closed' = [closed EXCEPT ![c] = TRUE]
    /\ handler' = [handler EXCEPT ![c] = "gone"]
    /\ alive' = [alive EXCEPT ![c] = FALSE]
    /\ UNCHANGED <<workerVars, bcast, chan, wire, losses, pageVars, queryVars>>

\* Mutant: the hub throws out a client whose channel is full.
FanoutEvicting ==
    LET full == {c \in clients : Len(chan[c]) = CCap} IN
    /\ bcast # <<>>
    /\ chan' = [c \in Conns |->
         IF c \in clients \ full THEN Append(chan[c], Head(bcast)) ELSE chan[c]]
    /\ closed' = [c \in Conns |-> closed[c] \/ c \in full]
    /\ clients' = clients \ full
    /\ bcast' = Tail(bcast)
    /\ UNCHANGED <<workerVars, handler, netVars, pageVars, queryVars>>

\* A client without room misses the message, uncounted.
Fanout ==
    /\ bcast # <<>>
    /\ chan' = [c \in Conns |->
         IF c \in clients /\ Len(chan[c]) < CCap
         THEN Append(chan[c], Head(bcast)) ELSE chan[c]]
    /\ bcast' = Tail(bcast)
    /\ UNCHANGED <<workerVars, clients, closed, handler, netVars, pageVars, queryVars>>

----
(* HandleWS, one goroutine per connection.                                  *)

Upgrade(c) ==
    /\ c = sock /\ ready = "connecting" /\ alive[c] /\ handler[c] = "none"
    /\ handler' = [handler EXCEPT ![c] = "register"]
    /\ UNCHANGED <<workerVars, bcast, chan, closed, clients, netVars, pageVars, queryVars>>

\* The writer loop.  A write to a broken connection fails, or its bytes are
\* lost in the kernel's buffer.
Serve(c) ==
    /\ handler[c] = "serve"
    /\ \/ /\ chan[c] # <<>>
          /\ chan' = [chan EXCEPT ![c] = Tail(@)]
          /\ \/ /\ wire' = IF alive[c] THEN [wire EXCEPT ![c] = Append(@, Head(chan[c]))]
                                       ELSE wire
                /\ UNCHANGED handler
             \/ /\ ~alive[c]
                /\ handler' = [handler EXCEPT ![c] = "unregister"]
                /\ UNCHANGED wire
       \/ /\ chan[c] = <<>> /\ closed[c]
          /\ handler' = [handler EXCEPT ![c] = "unregister"]
          /\ UNCHANGED <<chan, wire>>
    /\ UNCHANGED <<workerVars, bcast, closed, clients, alive, losses, pageVars, queryVars>>

\* Mutant: only a failing write ends the handler (no reader, no ping).
NoticeNever(c) == FALSE /\ UNCHANGED vars

\* The reader ends (close frame, error, no pong in time) or a ping fails.
Notice(c) ==
    /\ handler[c] = "serve" /\ ~alive[c]
    /\ handler' = [handler EXCEPT ![c] = "unregister"]
    /\ UNCHANGED <<workerVars, bcast, chan, closed, clients, netVars, pageVars, queryVars>>

----
(* The page.                                                                *)

\* Mutant: the request in flight is joined, as without cancelRefetch.
InvalidateJoining ==
    /\ fetch' = IF fetch = "idle" THEN "sent" ELSE fetch
    /\ answer' = IF fetch = "idle" THEN NoData ELSE answer
    /\ UNCHANGED cache

\* invalidateQueries: a request in flight is cancelled and sent again, but
\* the very first one, whose query has no data yet, is left alone.
Invalidate ==
    IF fetch # "idle" /\ cache = NoData
    THEN UNCHANGED queryVars
    ELSE fetch' = "sent" /\ answer' = NoData /\ UNCHANGED cache

\* Mutant: onopen only shows that the page is connected.
OpenQuietly ==
    /\ page = "open" /\ ready = "connecting"
    /\ alive[sock] /\ handler[sock] # "none"
    /\ ready' = "open"
    /\ UNCHANGED <<workerVars, bcast, serverVars, netVars, page, sock, timer, queryVars>>

\* onopen.
Open ==
    /\ page = "open" /\ ready = "connecting"
    /\ alive[sock] /\ handler[sock] # "none"
    /\ ready' = "open"
    /\ Invalidate
    /\ UNCHANGED <<workerVars, bcast, serverVars, netVars, page, sock, timer>>

\* onmessage: events other than the run's run.turn are ignored.
Message ==
    /\ page = "open" /\ ready = "open" /\ wire[sock] # <<>>
    /\ wire' = [wire EXCEPT ![sock] = Tail(@)]
    /\ IF Head(wire[sock]) = "turn" THEN Invalidate ELSE UNCHANGED queryVars
    /\ UNCHANGED <<workerVars, bcast, serverVars, alive, losses, pageVars>>

\* onclose: frames that did not arrive are lost.
OnClose ==
    /\ ready # "closed" /\ ~alive[sock]
    /\ ready' = "closed"
    /\ timer' = (page = "open")
    /\ wire' = [wire EXCEPT ![sock] = <<>>]
    /\ UNCHANGED <<workerVars, bcast, serverVars, alive, losses, page, sock, queryVars>>

Reconnect ==
    /\ timer /\ sock < MaxLosses + 1
    /\ timer' = FALSE
    /\ sock' = sock + 1
    /\ ready' = "connecting"
    /\ alive' = [alive EXCEPT ![sock + 1] = TRUE]
    /\ UNCHANGED <<workerVars, bcast, serverVars, wire, losses, page, queryVars>>

\* The effect's cleanup: cancelled, clearTimeout, socket.close.
Unmount ==
    /\ page = "open"
    /\ page' = "closed"
    /\ timer' = FALSE
    /\ alive' = [alive EXCEPT ![sock] = FALSE]
    /\ UNCHANGED <<workerVars, bcast, serverVars, wire, losses, sock, ready, queryVars>>

\* GET /runs/{id}/turns reads the row; later the page stores the answer.
Read ==
    /\ fetch = "sent"
    /\ fetch' = "read" /\ answer' = row
    /\ UNCHANGED <<workerVars, bcast, serverVars, netVars, pageVars, cache>>

Land ==
    /\ fetch = "read"
    /\ cache' = answer
    /\ fetch' = "idle" /\ answer' = NoData
    /\ UNCHANGED <<workerVars, bcast, serverVars, netVars, pageVars>>

----
(* The network, and the whole.                                              *)

Lose(c) ==
    /\ alive[c] /\ losses < MaxLosses
    /\ alive' = [alive EXCEPT ![c] = FALSE]
    /\ losses' = losses + 1
    /\ UNCHANGED <<workerVars, bcast, serverVars, wire, pageVars, queryVars>>

HandlerStep(c) == Upgrade(c) \/ Register(c) \/ Serve(c) \/ Unregister(c)

PageStep == Open \/ Message \/ OnClose \/ Reconnect \/ Read \/ Land

Next ==
    \/ Write \/ WriteFailed \/ Announce \/ Log
    \/ Fanout
    \/ \E c \in Conns : HandlerStep(c) \/ Notice(c) \/ Lose(c)
    \/ PageStep \/ Unmount

Spec == Init /\ [][Next]_vars

(* Goroutines and the browser's event loop run, timers fire, the engine     *)
(* answers REST requests, and the server notices a broken connection within *)
(* pongWait.  Nothing makes the agent produce output, a socket break or the *)
(* user leave the page.                                                     *)
Fairness ==
    /\ WF_vars(Announce) /\ WF_vars(Fanout)
    /\ \A c \in Conns : WF_vars(HandlerStep(c)) /\ WF_vars(Notice(c))
    /\ WF_vars(Open) /\ WF_vars(Message) /\ WF_vars(OnClose)
    /\ WF_vars(Reconnect) /\ WF_vars(Read) /\ WF_vars(Land)

FairSpec == Spec /\ Fairness

----
(* Safety.                                                                  *)

\* Who may use a channel: the hub while the client is registered, and the
\* handler until the hub has closed it.
ChannelInv ==
    \A c \in Conns :
        /\ c \in clients => handler[c] \in {"serve", "unregister"}
        /\ closed[c] <=> handler[c] = "gone"

\* A page has one connection at a time, and waits only without one.
SocketInv ==
    /\ \A c \in Conns : alive[c] => c = sock
    /\ timer => ~alive[sock]

(* The hub never sends on a closed channel and never closes one twice (both *)
(* panic, in the goroutine that serves every page): a channel is closed     *)
(* only after its client left the map, and by the last to use it.           *)
NoUseAfterClose ==
    \A c \in Conns : c \in clients \/ handler[c] \in {"register", "unregister"} => ~closed[c]

(* An inspector that was left does not come back: no timer is pending and   *)
(* no connection of it is up, whatever the socket did meanwhile.            *)
UnmountedStaysGone ==
    page = "closed" => ~timer /\ \A c \in Conns : ~alive[c]

(* Liveness.  A notice that reached the channel of a page that shows data   *)
(* makes the page show the row as it was written before, or a later one:    *)
(* neither a request that was in flight nor lost later notices prevent it.  *)
NoticeIsShown ==
    \A c \in Conns, v \in 1..Versions :
        /\ page = "open" /\ c = sock /\ cache # NoData
        /\ row >= v
        /\ \E i \in DOMAIN chan[c] : chan[c][i] = "turn"
        ~> cache >= v \/ ~alive[c] \/ page = "closed"

(* Reconcile-on-reconnect: a page that connects (again) comes to show every  *)
(* turn that was written while it had no socket, though it got no notice of *)
(* them.  A turn written later, before the hub registers the client, may be *)
(* missed until the next notice.                                            *)
ReopenReconciles ==
    \A c \in Conns, v \in 1..Versions :
        /\ page = "open" /\ c = sock /\ ready = "connecting" /\ cache # NoData
        /\ row >= v
        ~> cache >= v \/ ~alive[c] \/ page = "closed"

(* The handler of a broken connection ends and its client leaves the hub,   *)
(* although the client does not drain its channel any more and the hub has  *)
(* messages for it.                                                         *)
ConnectionsEnd ==
    \A c \in Conns : handler[c] # "none" /\ ~alive[c] ~> handler[c] = "gone"

=============================================================================
