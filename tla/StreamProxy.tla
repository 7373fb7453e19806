----------------------------- MODULE StreamProxy -----------------------------
(***************************************************************************)
(* One gRPC stream through the broker (pkg/broker/proxy_grpc.go): the      *)
(* handler opens a stream to the agent and starts two goroutines that pump *)
(* frames, one in each direction.  It waits for the result of the agent's  *)
(* side, then for that of the client's side, and answers with a status.    *)
(*                                                                         *)
(* Frames are opaque and both transports are FIFO, so the frames of a      *)
(* direction are counts: sent by one end, forwarded by the pump.  The      *)
(* client, the agent and the library's streams are external: RecvMsg gives *)
(* a frame, io.EOF at the end of the input, or the status it ended with;   *)
(* SendMsg gives io.EOF once the other end is gone; a client that goes     *)
(* away cancels the context of both streams.                               *)
(***************************************************************************)
EXTENDS Integers

CONSTANT MaxFrames        \* bound on the frames each end sends

VARIABLES
  client,       \* [at |-> "open", "closed" (half-closed) or "gone", sent |-> frames]
  agent,        \* [at |-> "running", or its status; sent |-> frames; eof |-> it saw the half-close]
  up, down,     \* the pumps: [at |-> where it stands, frames |-> forwarded, err |-> why it ended]
  results,      \* clientToBackendErr and backendToClientErr, each with room for one
  handler,      \* [at |-> what it waits for, backendErr, status |-> what it returned]
  header,       \* the agent's header was handed on
  counted       \* streamMessages

streamVars == <<client, agent, up, down, results, handler, header, counted>>

Idle == [at |-> "idle", frames |-> 0, err |-> "none"]

Init ==
  /\ client = [at |-> "open", sent |-> 0]
  /\ agent = [at |-> "running", sent |-> 0, eof |-> FALSE]
  /\ up = Idle /\ down = Idle
  /\ results = [up |-> "none", down |-> "none"]
  /\ handler = [at |-> "begin", backendErr |-> "none", status |-> "none"]
  /\ header = FALSE /\ counted = 0

Ended == handler.at = "ended"

-----------------------------------------------------------------------------
(* The two ends *)

ClientSends ==
  /\ client.at = "open" /\ client.sent < MaxFrames /\ ~Ended
  /\ client' = [client EXCEPT !.sent = @ + 1]
  /\ UNCHANGED <<agent, up, down, results, handler, header, counted>>

\* It has no more to send (a unary call says so at once), or goes away.
ClientLeaves(how) ==
  /\ client.at = "open" \/ (client.at = "closed" /\ how = "gone")
  /\ ~Ended
  /\ client' = [client EXCEPT !.at = how]
  /\ UNCHANGED <<agent, up, down, results, handler, header, counted>>

Opened == up.at # "idle"

AgentSends ==
  /\ Opened /\ agent.at = "running" /\ agent.sent < MaxFrames
  /\ agent' = [agent EXCEPT !.sent = @ + 1]
  /\ UNCHANGED <<client, up, down, results, handler, header, counted>>

\* The agent may answer before the client is done.
AgentEnds ==
  /\ Opened /\ agent.at = "running"
  /\ \E status \in {"OK", "Failed"} : agent' = [agent EXCEPT !.at = status]
  /\ UNCHANGED <<client, up, down, results, handler, header, counted>>

-----------------------------------------------------------------------------
(* The handler *)

\* NewStream to the agent; on failure the handler returns its error.
Open ==
  /\ handler.at = "begin"
  /\ \/ /\ up' = [up EXCEPT !.at = "recv"] /\ down' = [down EXCEPT !.at = "header"]
        /\ handler' = [handler EXCEPT !.at = "backend"]
     \/ /\ handler' = [handler EXCEPT !.at = "ended", !.status = "Unavailable"]
        /\ UNCHANGED <<up, down>>
  /\ UNCHANGED <<client, agent, results, header, counted>>

AwaitBackend ==
  /\ handler.at = "backend" /\ results.down # "none"
  /\ handler' = [handler EXCEPT !.at = "client", !.backendErr = results.down]
  /\ results' = [results EXCEPT !.down = "none"]
  /\ UNCHANGED <<client, agent, up, down, header, counted>>

\* The agent's error before the client's; io.EOF is not an error.
StatusOfBare(backendErr, clientErr) ==
  IF backendErr # "EOF" THEN backendErr ELSE clientErr
StatusOf(backendErr, clientErr) ==
  IF backendErr # "EOF" THEN backendErr ELSE IF clientErr # "EOF" THEN clientErr ELSE "OK"

\* The handler returns and its slot is released.
AwaitClient ==
  /\ handler.at = "client" /\ results.up # "none"
  /\ handler' = [handler EXCEPT !.at = "ended", !.status = StatusOf(handler.backendErr, results.up)]
  /\ results' = [results EXCEPT !.up = "none"]
  /\ UNCHANGED <<client, agent, up, down, header, counted>>

-----------------------------------------------------------------------------
(* From the client to the agent: copyMessages(ss, clientStream) *)

UpRecv ==
  /\ up.at = "recv"
  /\ \/ up.frames < client.sent /\ up' = [up EXCEPT !.at = "send"]
     \/ client.at = "closed" /\ up.frames = client.sent /\ up' = [up EXCEPT !.at = "report", !.err = "EOF"]
     \/ client.at = "gone" /\ up' = [up EXCEPT !.at = "report", !.err = "Canceled"]
  /\ UNCHANGED <<client, agent, down, results, handler, header, counted>>

UpSend ==
  /\ up.at = "send"
  /\ \/ up' = [up EXCEPT !.at = "recv", !.frames = @ + 1]
     \/ /\ agent.at # "running" \/ client.at = "gone"
        /\ up' = [up EXCEPT !.at = "report", !.err = "EOF"]
  /\ UNCHANGED <<client, agent, down, results, handler, header, counted>>

\* The result is put down before the half-close: the channel has room for it
\* (without that room the pump would wait until the handler takes it).
UpReportUnbuffered ==
  /\ up.at = "report" /\ handler.at = "client"
  /\ results' = [results EXCEPT !.up = up.err]
  /\ up' = [up EXCEPT !.at = "close"]
  /\ UNCHANGED <<client, agent, down, handler, header, counted>>
UpReport ==
  /\ up.at = "report"
  /\ results' = [results EXCEPT !.up = up.err]
  /\ up' = [up EXCEPT !.at = "close"]
  /\ UNCHANGED <<client, agent, down, handler, header, counted>>

CloseSend ==
  /\ up.at = "close"
  /\ up' = [up EXCEPT !.at = "done"]
  /\ agent' = [agent EXCEPT !.eof = TRUE]
  /\ UNCHANGED <<client, down, results, handler, header, counted>>

-----------------------------------------------------------------------------
(* From the agent to the client: the header, then copyMessages(clientStream, ss) *)

\* Header blocks until the agent sends or ends, or the client is gone.
Header ==
  /\ down.at = "header"
  /\ \/ (agent.sent > 0 \/ agent.at # "running") /\ header' = TRUE
     \/ client.at = "gone" /\ UNCHANGED header
  /\ down' = [down EXCEPT !.at = "recv"]
  /\ UNCHANGED <<client, agent, up, results, handler, counted>>

DownRecv ==
  /\ down.at = "recv"
  /\ \/ down.frames < agent.sent /\ down' = [down EXCEPT !.at = "send"]
     \/ /\ agent.at # "running" /\ down.frames = agent.sent
        /\ down' = [down EXCEPT !.at = "report", !.err = IF agent.at = "OK" THEN "EOF" ELSE agent.at]
     \/ client.at = "gone" /\ down' = [down EXCEPT !.at = "report", !.err = "Canceled"]
  /\ UNCHANGED <<client, agent, up, results, handler, header, counted>>

DownSend ==
  /\ down.at = "send"
  /\ \/ down' = [down EXCEPT !.at = "count", !.frames = @ + 1]
     \/ client.at = "gone" /\ down' = [down EXCEPT !.at = "report", !.err = "Unavailable"]
  /\ UNCHANGED <<client, agent, up, results, handler, header, counted>>

Count ==
  /\ down.at = "count"
  /\ counted' = counted + 1
  /\ down' = [down EXCEPT !.at = "recv"]
  /\ UNCHANGED <<client, agent, up, results, handler, header>>

DownReport ==
  /\ down.at = "report"
  /\ results' = [results EXCEPT !.down = down.err]
  /\ down' = [down EXCEPT !.at = "done"]
  /\ UNCHANGED <<client, agent, up, handler, header, counted>>

-----------------------------------------------------------------------------
Handler == Open \/ AwaitBackend \/ AwaitClient
UpPump == UpRecv \/ UpSend \/ UpReport \/ CloseSend
DownPump == Header \/ DownRecv \/ DownSend \/ Count \/ DownReport

Over == Ended /\ up.at \in {"idle", "done"} /\ UNCHANGED streamVars

Next ==
  \/ ClientSends \/ (\E how \in {"closed", "gone"} : ClientLeaves(how))
  \/ AgentSends \/ AgentEnds
  \/ Handler \/ UpPump \/ DownPump
  \/ Over

Spec == Init /\ [][Next]_streamVars

\* What an agent owes: it ends once its input has ended.
AgentAnswers == agent.eof /\ AgentEnds

-----------------------------------------------------------------------------
(* Properties *)

\* When the stream is over and the client still there, it was given the status
\* the agent ended with, with the header, and every frame the agent sent, each
\* counted once; and an agent at work that sees its input end was given every
\* frame the client sent: what both would have seen without the broker in
\* between, in whatever order they finish.
Faithful ==
  /\ up.frames <= client.sent
  /\ agent.eof /\ agent.at = "running" /\ client.at # "gone" =>
       client.at = "closed" /\ up.frames = client.sent
  /\ counted <= down.frames /\ down.frames <= counted + 1
  /\ client.at # "gone" /\ down.frames > 0 => header
  /\ Ended /\ Opened /\ client.at # "gone" =>
       handler.status = agent.at /\ header /\ down.frames = agent.sent /\ counted = agent.sent

\* The handler returns, and gives its slot back, once the client has nothing
\* more to send or is gone, if the agent ends when its input does.
Returns == (client.at # "open") ~> Ended
=============================================================================
