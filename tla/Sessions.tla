------------------------------ MODULE Sessions ------------------------------
(***************************************************************************)
(* The streaming sessions of one plugin instance at the DCD server, as     *)
(* pkg/restapi registers and deletes them for FLBPluginInit and            *)
(* FLBPluginExit, with lost, late and incomplete answers, crashes and      *)
(* restarts.  DCD handles a request at any time after it was sent, also    *)
(* after the client has given up waiting, or never.                        *)
(*                                                                         *)
(* A session is named by the POST that asked for it: the id in DCD's       *)
(* answer tells the client which one it is and nothing more.               *)
(***************************************************************************)
EXTENDS Naturals, Sequences

CONSTANTS
    StreamingTypes,  \* cfg.StreamingTypes, after prometheus_streaming_types was added
    MaxLives,        \* bound on the starts of the process
    NoRequest        \* the client waits for no answer

Lives == 1..MaxLives
Entries == DOMAIN StreamingTypes
Asked == [life : Lives, entry : Entries, auth : BOOLEAN]
Requests == [op : {"POST", "DELETE"}, session : Asked]

ASSUME SessionsAssumption ==
    /\ MaxLives \in Nat
    /\ StreamingTypes \in Seq(STRING)
    /\ NoRequest \notin Requests

VARIABLES
    phase,     \* of the process: down, starting, running, stopping or stopped
    life,      \* number of the process's starts
    token,     \* Client.token is set
    next,      \* the entry of StreamingTypes that Init registers next
    known,     \* Client.streamingSessions
    todo,      \* StopStreaming's copy, without the ids it is done with
    lastErr,   \* StopStreaming's lastErr
    waiting,   \* the request the client waits for
    answer,    \* DCD's answer to it, once there is one
    wire,      \* requests DCD has not handled
    server,    \* sessions registered at DCD
    logged,    \* requests whose failure was logged
    nameless,  \* POSTs that succeeded with an empty id
    crashed    \* lives that ended with a crash

vars == <<phase, life, token, next, known, todo, lastErr, waiting, answer,
          wire, server, logged, nameless, crashed>>
history == <<logged, nameless, crashed>>

Post(s) == [op |-> "POST", session |-> s]
Delete(s) == [op |-> "DELETE", session |-> s]
Session(n) == [life |-> life, entry |-> n, auth |-> token]

Init ==
    /\ phase = "down"
    /\ life = 0
    /\ token = FALSE
    /\ next = 1
    /\ known = {} /\ todo = {} /\ lastErr = FALSE
    /\ waiting = NoRequest /\ answer = "none"
    /\ wire = {} /\ server = {}
    /\ logged = {} /\ nameless = {} /\ crashed = {}
-----------------------------------------------------------------------------
(* The HTTP client *)

Send(request) ==
    /\ waiting = NoRequest
    /\ waiting' = request
    /\ answer' = "none"
    /\ wire' = wire \union {request}

Receive ==
    /\ waiting' = NoRequest
    /\ answer' = "none"

\* Faulty variant: only DCD's own answer ends the wait.
FailsIfAnswered(op) ==
    /\ waiting # NoRequest
    /\ waiting.op = op
    /\ answer = "error"
    /\ Receive
    /\ logged' = logged \union {waiting}

\* do returns an error: the connection broke, http.Client's timeout passed (it
\* covers the reading of the answer, too), or DCD's answer is not a 2xx.
Fails(op) ==
    /\ waiting # NoRequest
    /\ waiting.op = op
    /\ Receive
    /\ logged' = logged \union {waiting}
-----------------------------------------------------------------------------
(* FLBPluginInit and StartStreaming *)

\* A new client; Init goes on whether Login got a token or not.
Start ==
    /\ phase \in {"down", "stopped"}
    /\ life < MaxLives
    /\ life' = life + 1
    /\ token' \in BOOLEAN
    /\ next' = 1
    /\ known' = {} /\ todo' = {} /\ lastErr' = FALSE
    /\ phase' = "starting"
    /\ UNCHANGED <<waiting, answer, wire, server, history>>

\* Faulty variant: the loop takes one entry too many.
StartStreamingPastEnd ==
    /\ phase = "starting"
    /\ next <= Len(StreamingTypes) + 1
    /\ Send(Post(Session(next)))
    /\ UNCHANGED <<phase, life, token, next, known, todo, lastErr, server, history>>

StartStreaming ==
    /\ phase = "starting"
    /\ next \in Entries
    /\ Send(Post(Session(next)))
    /\ UNCHANGED <<phase, life, token, next, known, todo, lastErr, server, history>>

\* Faulty variant: the id is not remembered.
RegisteredForgotten ==
    /\ phase = "starting"
    /\ answer = "ok"
    /\ Receive
    /\ next' = next + 1
    /\ UNCHANGED <<phase, life, token, known, todo, lastErr, wire, server, history>>

Registered ==
    /\ phase = "starting"
    /\ answer = "ok"
    /\ Receive
    /\ known' = known \union {waiting.session}
    /\ next' = next + 1
    /\ UNCHANGED <<phase, life, token, todo, lastErr, wire, server, history>>

\* A 2xx without an id, or without a body, is a success that leaves no trace.
RegisteredNameless ==
    /\ phase = "starting"
    /\ answer = "nameless"
    /\ Receive
    /\ nameless' = nameless \union {waiting}
    /\ next' = next + 1
    /\ UNCHANGED <<phase, life, token, known, todo, lastErr, wire, server, logged, crashed>>

\* Faulty variant: Init gives up on the remaining types.
StartStreamingFailsForAll ==
    /\ phase = "starting"
    /\ Fails("POST")
    /\ next' = Len(StreamingTypes) + 1
    /\ UNCHANGED <<phase, life, token, known, todo, lastErr, wire, server, nameless, crashed>>

StartStreamingFails ==
    /\ phase = "starting"
    /\ Fails("POST")
    /\ next' = next + 1
    /\ UNCHANGED <<phase, life, token, known, todo, lastErr, wire, server, nameless, crashed>>

Started ==
    /\ phase = "starting"
    /\ next \notin Entries
    /\ phase' = "running"
    /\ UNCHANGED <<life, token, next, known, todo, lastErr, waiting, answer,
                   wire, server, history>>
-----------------------------------------------------------------------------
(* FLBPluginExit and StopStreaming *)

Exit ==
    /\ phase = "running"
    /\ phase' = "stopping"
    /\ todo' = known
    /\ lastErr' = FALSE
    /\ UNCHANGED <<life, token, next, known, waiting, answer, wire, server, history>>

DeleteSession ==
    /\ phase = "stopping"
    /\ \E s \in todo : Send(Delete(s)) /\ todo' = todo \ {s}
    /\ UNCHANGED <<phase, life, token, next, known, lastErr, server, history>>

Deleted ==
    /\ phase = "stopping"
    /\ answer = "ok"
    /\ Receive
    /\ UNCHANGED <<phase, life, token, next, known, todo, lastErr, wire, server, history>>

DeleteFails ==
    /\ phase = "stopping"
    /\ Fails("DELETE")
    /\ lastErr' = TRUE
    /\ UNCHANGED <<phase, life, token, next, known, todo, wire, server, nameless, crashed>>

\* Every session of the copy was tried; all of them are forgotten.
Stopped ==
    /\ phase = "stopping"
    /\ todo = {}
    /\ waiting = NoRequest
    /\ known' = {}
    /\ phase' = "stopped"
    /\ UNCHANGED <<life, token, next, todo, lastErr, waiting, answer, wire, server, history>>

\* The process ends without FLBPluginExit: everything but DCD's state is gone.
Crash ==
    /\ phase \in {"starting", "running", "stopping"}
    /\ phase' = "down"
    /\ crashed' = crashed \union {life}
    /\ Receive
    /\ known' = {} /\ todo' = {} /\ lastErr' = FALSE
    /\ UNCHANGED <<life, token, next, wire, server, logged, nameless>>
-----------------------------------------------------------------------------
(* DCD *)

\* The answer reaches the client if it still waits for it, or is lost.
Answer(request, answers) ==
    \/ request = waiting /\ answer' \in answers
    \/ UNCHANGED answer

DCDRegisters(request) ==
    /\ request.op = "POST"
    /\ request.session.auth
    /\ server' = server \union {request.session}
    /\ Answer(request, {"ok", "nameless", "error"})

DCDRemoves(request) ==
    /\ request.op = "DELETE"
    /\ server' = server \ {request.session}
    /\ Answer(request, {"ok", "error"})

DCDRefuses(request) ==
    /\ UNCHANGED server
    /\ Answer(request, {"error"})

DCD ==
    /\ \E request \in wire :
          /\ DCDRegisters(request) \/ DCDRemoves(request) \/ DCDRefuses(request)
          /\ wire' = wire \ {request}
    /\ UNCHANGED <<phase, life, token, next, known, todo, lastErr, waiting, history>>
-----------------------------------------------------------------------------
Client ==
    \/ StartStreaming
    \/ Registered
    \/ RegisteredNameless
    \/ StartStreamingFails
    \/ Started
    \/ DeleteSession
    \/ Deleted
    \/ DeleteFails
    \/ Stopped

Next == Start \/ Client \/ Exit \/ Crash \/ DCD

Spec == Init /\ [][Next]_vars

\* Init and Exit run to their ends: the client's timeout ends every request.
\* Nothing is assumed of DCD.
FairSpec == Spec /\ WF_vars(Client)
-----------------------------------------------------------------------------
Phases == {"down", "starting", "running", "stopping", "stopped"}
Answers == {"none", "ok", "nameless", "error"}

TypeOK ==
    /\ phase \in Phases
    /\ life \in 0..MaxLives
    /\ token \in BOOLEAN
    /\ next \in 1..(Len(StreamingTypes) + 1)
    /\ known \subseteq Asked
    /\ todo \subseteq known
    /\ lastErr \in BOOLEAN
    /\ waiting \in Requests \union {NoRequest}
    /\ answer \in Answers
    /\ wire \subseteq Requests
    /\ server \subseteq Asked
    /\ logged \subseteq Requests
    /\ nameless \subseteq Requests
    /\ crashed \subseteq Lives

\* No session is left behind at DCD without a trace: the client will delete it,
\* a failure was logged for it, its answer had no id, or its process crashed.
Accounted ==
    \A s \in server :
        \/ s \in known
        \/ waiting = Post(s)
        \/ Post(s) \in logged \union nameless
        \/ Delete(s) \in logged
        \/ s.life \in crashed

\* A running plugin has a session for every entry of streaming_types, or a
\* logged failure for that entry: one failure does not keep the others away.
Subscribed ==
    phase = "running" =>
        \A n \in Entries : Session(n) \in server \/ Post(Session(n)) \in logged

\* FLBPluginInit and FLBPluginExit return, whatever DCD does.
CallsReturn ==
    phase \in {"starting", "stopping"} ~> phase \in {"running", "stopped", "down"}

\* A StopStreaming that returned no error left none of the sessions it was to
\* delete ("deletes all registered streaming sessions from DCD").
StopDeletesAll ==
    phase = "stopped" /\ ~lastErr => \A s \in server : s.life # life
=============================================================================
