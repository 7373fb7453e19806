------------------------------ MODULE MCBroker ------------------------------
(***************************************************************************)
(* The parts of the broker that keep state, for TLC: the rate limiter of a *)
(* fleet of brokers, the termination of one pod, the cache of the          *)
(* peer-hash file behind the introspection endpoint, one gRPC stream, and  *)
(* the count of server-sent events.  They share no state, so each          *)
(* behaviour exercises one part, while the others stay as they begin.      *)
(***************************************************************************)
EXTENDS RateLimiter

CONSTANTS Graces, Lag, Travel, MaxRequests, MaxFaults, Handlers, MaxWrites, MaxServed, None,
          MaxFrames, MaxBytes, MaxWrite

VARIABLES
  part,
  grace, grpc, clock, phase, inflight, routed, coming, refused, wake, until, termAt, cut, faults,
  file, times, fileClock, cache, request, served,
  client, agent, up, down, results, handler, header, counted,
  kind, recorder, events, written

Pod  == INSTANCE Termination
File == INSTANCE PeerHashesFile WITH Requests <- Handlers, clock <- fileClock
Grpc == INSTANCE StreamProxy
Sse  == INSTANCE SseCounter

podVars  == <<grace, grpc, clock, phase, inflight, routed, coming, refused, wake, until, termAt, cut, faults>>
fileVars == <<file, times, fileClock, cache, request, served>>
grpcVars == <<client, agent, up, down, results, handler, header, counted>>
sseVars  == <<kind, recorder, events, written>>
mcVars   == <<part, vars, podVars, fileVars, grpcVars, sseVars>>

MCInit ==
  /\ part \in {"limiter", "pod", "file", "grpc", "sse"}
  /\ Init /\ Pod!Init /\ File!Init /\ Grpc!Init /\ Sse!Init
  /\ part # "pod" => grace = 60 /\ ~grpc

Limiter(step) ==
  part = "limiter" /\ step /\ UNCHANGED <<part, podVars, fileVars, grpcVars, sseVars>>
Stream(step) ==
  part = "grpc" /\ step /\ UNCHANGED <<part, vars, podVars, fileVars, sseVars>>

MCNext ==
  \/ Limiter(Next)
  \/ part = "pod" /\ Pod!Next /\ UNCHANGED <<part, vars, fileVars, grpcVars, sseVars>>
  \/ part = "file" /\ (File!Next \/ File!Done) /\ UNCHANGED <<part, vars, podVars, grpcVars, sseVars>>
  \/ Stream(Grpc!Next)
  \/ part = "sse" /\ (Sse!Next \/ Sse!Done) /\ UNCHANGED <<part, vars, podVars, fileVars, grpcVars>>

\* The fairness of RateLimiter; and the goroutines of a stream run, while the
\* agent ends once its input has ended.
MCSpec ==
  /\ MCInit /\ [][MCNext]_mcVars
  /\ WF_mcVars(Limiter(Publish))
  /\ \A b \in Brokers :
       /\ WF_mcVars(Limiter(Enter(b))) /\ WF_mcVars(Limiter(Exit(b)))
       /\ WF_mcVars(Limiter(release(b))) /\ WF_mcVars(Limiter(Discover(b)))
       /\ WF_mcVars(Limiter(SetLimit(b))) /\ WF_mcVars(Limiter(Stop(b)))
  /\ WF_mcVars(Stream(Grpc!Handler)) /\ WF_mcVars(Stream(Grpc!UpPump))
  /\ WF_mcVars(Stream(Grpc!DownPump)) /\ WF_mcVars(Stream(Grpc!AgentAnswers))

-----------------------------------------------------------------------------
(* Properties: those of the parts, whose comments say what they are about. *)

\* Once scaling ends, the slices of the limiter add up to the cap again.
FleetSoftCap == part = "limiter" => SoftCapRestored

\* An HTTP broker whose budgets fit is never killed by the kubelet, and a
\* request is cut off only when both budgets of the pod are spent.
EndsInTime == Pod!EndsInTime

\* No request still on its way to a pod that is deleted finds its broker closed.
NoneRefused == Pod!NoneRefused

\* No request for the peer hashes is answered with older ones than the file
\* held when it came in.
ReplyCurrent == File!TypeOK /\ File!ReplyCurrent

\* A gRPC client is given the agent's frames and status as without the broker.
StreamFaithful == Grpc!Faithful

\* The handler of a gRPC stream returns once the client is done or gone.
StreamReturns == part = "grpc" => Grpc!Returns

\* Server-sent events are counted alike however the stream is cut into Writes.
EventsExact == Sse!Exact
=============================================================================
