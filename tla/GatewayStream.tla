--------------------------- MODULE GatewayStream ---------------------------
(***************************************************************************)
(* One player's GameStream on a gateway: the goroutines of                 *)
(* cmd/gateway/gateway_handlers.go (the handler itself, receiveInbound,    *)
(* pumpStates) around the streamSender of cmd/gateway/stream_sender.go and *)
(* its writeLoop, and the client's check of the states it receives         *)
(* (cmd/client/ui.go).                                                     *)
(*                                                                         *)
(* Control frames (results and errors) are never dropped: producers wait   *)
(* for room in a bounded queue while they hold controlMu.  State frames    *)
(* are merged: one pending frame, replaced only by one that does not       *)
(* regress.  Finish lets accepted controls out; Abort stops at once.       *)
(***************************************************************************)
EXTENDS Naturals, Sequences

CONSTANTS
    Frames,        \* the state frames SnapshotFor may produce
    NoFrame,
    Capacity,      \* controlQueueCapacity
    MaxCommands,   \* bound on commands the client sends
    MaxErrors      \* bound on state errors the pump reports

FrameVersion == [map : STRING, session : Nat, topology : Nat, epoch : Nat,
                 version : Nat]

ASSUME StreamBoundAssumption ==
    /\ Capacity \in Nat \ {0}
    /\ MaxCommands \in Nat /\ MaxErrors \in Nat

\* SwitchMap counts the session version up, so frames of one session version
\* show one map.  SnapshotFor reads topology version and epoch together, and
\* epochs only grow.
ASSUME FrameAssumption ==
    /\ Frames \subseteq FrameVersion
    /\ NoFrame \notin FrameVersion
    /\ \A f, g \in Frames : f.session = g.session =>
          /\ f.map = g.map
          /\ f.topology <= g.topology => f.epoch <= g.epoch

VARIABLES
    inbound,       \* receiveInbound: what it waits for, or offers to the handler
    handler,       \* where the handler goroutine is
    pump,          \* where pumpStates is
    writer,        \* where writeLoop is
    controls,      \* the control queue
    sending,       \* the frame inside stream.Send
    controlMu,     \* holder of controlMu
    accepting,     \* acceptingControls
    finished,      \* the finished channel is closed
    done,          \* the done channel is closed
    stateReady,    \* the token in stateReady
    pending,       \* pendingState
    latest,        \* latestState
    held,          \* held[p]: the frame producer p is submitting
    request,       \* the command being handled
    accepted,      \* history: control frames that EnqueueControl took
    sent,          \* history: control frames that Send delivered
    shown,         \* the client's current state
    greeting       \* it is still the one that Authenticated carried

streamVars == <<inbound, handler, pump, writer, controls, sending, controlMu,
                accepting, finished, done, stateReady, pending, latest, held,
                request, accepted, sent, shown, greeting>>

queueVars == <<controls, controlMu, accepting, accepted>>
stateVars == <<stateReady, pending, latest, held>>
writerVars == <<writer, sending, sent, shown, greeting>>

Producers == {"handler", "pump"}

\* One command is answered by one control frame, numbered by the command; the
\* pump's errors carry request 0.
Requests == 0..MaxCommands

\* Steps of EnqueueControl and SubmitState, shared by handler and pump.
ProducerSteps == {"lock", "put", "submit", "stage", "signal"}

HandlerSteps == ProducerSteps \cup
    {"loop", "finish", "discard", "untoken", "close", "awaitPump", "awaitWriter",
     "abort", "joinPump", "joinWriter", "returned"}

PumpSteps == ProducerSteps \cup {"loop", "ended"}

WriterSteps == {"poll", "check", "select", "take", "sendControl", "sendState",
                "drain", "sendDrained", "ended"}

Inbound == {"recv", "command", "logout", "eof", "failure", "ended"}

NothingToSend == [control |-> 0, frame |-> NoFrame]

\* The type invariant of a stream; the queue keeps to its capacity.
StreamTypeOK ==
    /\ inbound \in Inbound
    /\ handler \in HandlerSteps
    /\ pump \in PumpSteps
    /\ writer \in WriterSteps
    /\ controls \in Seq(Requests) /\ Len(controls) <= Capacity
    /\ sending \in [control : Requests, frame : Frames \cup {NoFrame}]
    /\ controlMu \in Producers \cup {"free"}
    /\ accepting \in BOOLEAN
    /\ finished \in BOOLEAN
    /\ done \in BOOLEAN
    /\ stateReady \in BOOLEAN
    /\ pending \in Frames \cup {NoFrame}
    /\ latest \in Frames \cup {NoFrame}
    /\ held \in [Producers -> Frames \cup {NoFrame}]
    /\ request \in [kind : {"command", "logout"}, id : Requests]
    /\ accepted \in Seq(Requests)
    /\ sent \in Seq(Requests)
    /\ shown \in Frames
    /\ greeting \in BOOLEAN

\* The stream is authenticated and the goroutines have been started.  The client
\* shows the state it was authenticated with, of which the sender knows nothing.
StreamInit ==
    /\ inbound = "recv"
    /\ handler = "loop" /\ pump = "loop" /\ writer = "poll"
    /\ controls = <<>> /\ sending = NothingToSend
    /\ controlMu = "free" /\ accepting = TRUE
    /\ finished = FALSE /\ done = FALSE
    /\ stateReady = FALSE /\ pending = NoFrame /\ latest = NoFrame
    /\ held = [p \in Producers |-> NoFrame]
    /\ request = [kind |-> "command", id |-> 0]
    /\ accepted = <<>> /\ sent = <<>>
    /\ shown \in Frames /\ greeting = TRUE

-----------------------------------------------------------------------------
(* receiveInbound.                                                         *)

\* stream.Recv returns.  Once the handler has returned it can only fail.  A
\* logout that fails is answered like any other command.
Recv(kind) ==
    /\ inbound = "recv"
    /\ kind # "failure" => handler # "returned"
    /\ kind \in {"command", "logout"} => request.id < MaxCommands
    /\ inbound' = kind
    /\ UNCHANGED <<handler, pump, queueVars, stateVars, writerVars, finished,
                   done, request>>

\* Nobody takes what it offers any more.
StopReceiving ==
    /\ inbound \notin {"recv", "ended"}
    /\ done \/ finished
    /\ inbound' = "ended"
    /\ UNCHANGED <<handler, pump, queueVars, stateVars, writerVars, finished,
                   done, request>>

-----------------------------------------------------------------------------
(* The handler's select loop.                                              *)

\* It takes the offer.  A command or a logout is answered first of all; the
\* state it may come with is submitted after that.
TakeInbound ==
    /\ handler = "loop"
    /\ inbound \notin {"recv", "ended"}
    /\ inbound' = IF inbound \in {"eof", "failure"} THEN "ended" ELSE "recv"
    /\ handler' = CASE inbound = "eof" -> "finish"
                    [] inbound = "failure" -> "abort"
                    [] OTHER -> "lock"
    /\ request' = IF inbound \in {"command", "logout"}
                  THEN [kind |-> inbound, id |-> request.id + 1]
                  ELSE request
    /\ UNCHANGED <<pump, queueVars, stateVars, writerVars, finished, done>>

\* Done is closed, or the inbound channel is.
LeaveLoop ==
    /\ handler = "loop"
    /\ done \/ inbound = "ended"
    /\ handler' = "abort"
    /\ UNCHANGED <<inbound, pump, queueVars, stateVars, writerVars, finished,
                   done, request>>

-----------------------------------------------------------------------------
(* EnqueueControl and SubmitState, called by both producers.               *)

At(p) == IF p = "handler" THEN handler ELSE pump

Goto(p, step) ==
    /\ handler' = IF p = "handler" THEN step ELSE handler
    /\ pump' = IF p = "pump" THEN step ELSE pump

\* What follows an EnqueueControl that returned false.
Refused(p) == IF p = "handler" THEN "abort" ELSE "ended"

\* What follows one that returned true: a command may bring a state with it.
Answered(p) ==
    IF p = "pump" THEN {"loop"}
    ELSE IF request.kind = "logout" THEN {"finish"} ELSE {"submit", "loop"}

EnqueueLock(p) ==
    /\ At(p) = "lock"
    /\ controlMu = "free"
    /\ IF accepting
       THEN controlMu' = p /\ Goto(p, "put")
       ELSE Goto(p, Refused(p)) /\ UNCHANGED controlMu
    /\ UNCHANGED <<inbound, controls, accepting, accepted, stateVars, writerVars,
                   finished, done, request>>

\* There is room in the queue.
EnqueuePut(p) ==
    LET frame == IF p = "handler" THEN request.id ELSE 0
    IN  /\ At(p) = "put"
        /\ Len(controls) < Capacity
        /\ controls' = Append(controls, frame)
        /\ accepted' = Append(accepted, frame)
        /\ controlMu' = "free"
        /\ \E step \in Answered(p) : Goto(p, step)
        /\ UNCHANGED <<inbound, accepting, stateVars, writerVars, finished, done,
                       request>>

\* Mutant: a producer waits for room only.
EnqueueWaits(p) ==
    /\ FALSE
    /\ UNCHANGED streamVars

\* The other case of the select: done is closed.
EnqueueAborted(p) ==
    /\ At(p) = "put"
    /\ done
    /\ controlMu' = "free"
    /\ Goto(p, Refused(p))
    /\ UNCHANGED <<inbound, controls, accepting, accepted, stateVars, writerVars,
                   finished, done, request>>

\* SubmitState looks at done and finished without the lock.
SubmitState(p) ==
    /\ At(p) = "submit"
    /\ IF done \/ finished
       THEN Goto(p, "loop") /\ UNCHANGED held
       ELSE /\ \E f \in Frames : held' = [held EXCEPT ![p] = f]
            /\ Goto(p, "stage")
    /\ UNCHANGED <<inbound, queueVars, stateReady, pending, latest, writerVars,
                   finished, done, request>>

\* Mutant: only map versions are compared.
OlderMapVersion(next, previous) == next.version < previous.version

\* stateRegresses.
Regresses(next, previous) ==
    \/ next.session < previous.session
    \/ next.session = previous.session /\ next.epoch < previous.epoch
    \/ /\ next.session = previous.session
       /\ next.epoch = previous.epoch
       /\ next.map = previous.map
       /\ next.version < previous.version

\* Under stateMu: keep the frame unless it regresses.
StageState(p) ==
    /\ At(p) = "stage"
    /\ IF latest # NoFrame /\ Regresses(held[p], latest)
       THEN Goto(p, "loop") /\ UNCHANGED <<pending, latest>>
       ELSE /\ pending' = held[p]
            /\ latest' = held[p]
            /\ Goto(p, "signal")
    /\ held' = [held EXCEPT ![p] = NoFrame]
    /\ UNCHANGED <<inbound, queueVars, stateReady, writerVars, finished, done,
                   request>>

\* Mutant: the writer is not woken.
SignalNobody(p) ==
    /\ At(p) = "signal"
    /\ Goto(p, "loop")
    /\ UNCHANGED <<inbound, queueVars, stateVars, writerVars, finished, done,
                   request>>

\* Put a token into stateReady unless one is there.
SignalState(p) ==
    /\ At(p) = "signal"
    /\ stateReady' = TRUE
    /\ Goto(p, "loop")
    /\ UNCHANGED <<inbound, queueVars, pending, latest, held, writerVars,
                   finished, done, request>>

-----------------------------------------------------------------------------
(* pumpStates.                                                             *)

\* The ticker fires: SnapshotFor yields a state, or an error that is new.
PumpTick ==
    /\ pump = "loop"
    /\ \/ pump' = "submit"
       \/ /\ Len(SelectSeq(accepted, LAMBDA r : r = 0)) < MaxErrors
          /\ pump' = "lock"
    /\ UNCHANGED <<inbound, handler, queueVars, stateVars, writerVars, finished,
                   done, request>>

PumpEnds ==
    /\ pump = "loop"
    /\ done \/ finished
    /\ pump' = "ended"
    /\ UNCHANGED <<inbound, handler, queueVars, stateVars, writerVars, finished,
                   done, request>>

-----------------------------------------------------------------------------
(* Finish, Abort and the handler's way out.                                *)

\* Mutant: Finish does not wait for a producer that is about to put.
FinishControlsUnlocked ==
    /\ handler = "finish"
    /\ accepting' = FALSE
    /\ handler' = "discard"
    /\ UNCHANGED <<inbound, pump, controls, controlMu, accepted, stateVars,
                   writerVars, finished, done, request>>

\* Finish under controlMu: no more controls.
FinishControls ==
    /\ handler = "finish"
    /\ controlMu = "free"
    /\ accepting' = FALSE
    /\ handler' = "discard"
    /\ UNCHANGED <<inbound, pump, controls, controlMu, accepted, stateVars,
                   writerVars, finished, done, request>>

\* Finish under stateMu: the pending state is dropped.
FinishState ==
    /\ handler = "discard"
    /\ pending' = NoFrame
    /\ handler' = "untoken"
    /\ UNCHANGED <<inbound, pump, queueVars, stateReady, latest, held,
                   writerVars, finished, done, request>>

FinishToken ==
    /\ handler = "untoken"
    /\ stateReady' = FALSE
    /\ handler' = "close"
    /\ UNCHANGED <<inbound, pump, queueVars, pending, latest, held, writerVars,
                   finished, done, request>>

FinishClose ==
    /\ handler = "close"
    /\ finished' = TRUE
    /\ handler' = "awaitPump"
    /\ UNCHANGED <<inbound, pump, queueVars, stateVars, writerVars, done, request>>

\* The waits of the graceful way out, and those of the deferred function.
Await ==
    /\ \/ handler = "awaitPump" /\ pump = "ended" /\ handler' = "awaitWriter"
       \/ handler = "awaitWriter" /\ writer = "ended" /\ handler' = "abort"
       \/ handler = "joinPump" /\ pump = "ended" /\ handler' = "joinWriter"
       \/ handler = "joinWriter" /\ writer = "ended" /\ handler' = "returned"
    /\ UNCHANGED <<inbound, pump, queueVars, stateVars, writerVars, finished,
                   done, request>>

\* The deferred function aborts and logs the player out.
AbortStream ==
    /\ handler = "abort"
    /\ done' = TRUE
    /\ handler' = "joinPump"
    /\ UNCHANGED <<inbound, pump, queueVars, stateVars, writerVars, finished,
                   request>>

-----------------------------------------------------------------------------
(* writeLoop, drainControls and send.                                      *)

WriterGoes(step) ==
    /\ writer' = step
    /\ UNCHANGED <<inbound, handler, pump, queueVars, stateVars, sending, sent,
                   shown, greeting, finished, done, request>>

TakeControl(step) ==
    /\ controls # <<>>
    /\ sending' = [control |-> Head(controls), frame |-> NoFrame]
    /\ controls' = Tail(controls)
    /\ writer' = step
    /\ UNCHANGED <<inbound, handler, pump, controlMu, accepting, accepted,
                   stateVars, sent, shown, greeting, finished, done, request>>

\* The first select: controls come first.
WriterPoll ==
    /\ writer = "poll"
    /\ \/ TakeControl("sendControl")
       \/ controls = <<>> /\ WriterGoes("check")

\* The second select: closed channels before anything else.
WriterCheck ==
    /\ writer = "check"
    /\ \/ done /\ WriterGoes("ended")
       \/ finished /\ WriterGoes("drain")
       \/ ~done /\ ~finished /\ WriterGoes("select")

\* The third select: any case that is ready.
WriterSelect ==
    /\ writer = "select"
    /\ \/ done /\ WriterGoes("ended")
       \/ finished /\ WriterGoes("drain")
       \/ TakeControl("sendControl")
       \/ /\ stateReady
          /\ stateReady' = FALSE
          /\ writer' = "take"
          /\ UNCHANGED <<inbound, handler, pump, queueVars, pending, latest, held,
                         sending, sent, shown, greeting, finished, done, request>>

TakeState ==
    /\ writer = "take"
    /\ pending' = NoFrame
    /\ sending' = [control |-> 0, frame |-> pending]
    /\ writer' = IF pending = NoFrame THEN "poll" ELSE "sendState"
    /\ UNCHANGED <<inbound, handler, pump, queueVars, stateReady, latest, held,
                   sent, shown, greeting, finished, done, request>>

DrainControls ==
    /\ writer = "drain"
    /\ \/ done /\ WriterGoes("ended")
       \/ TakeControl("sendDrained")
       \/ ~done /\ controls = <<>> /\ WriterGoes("ended")

InSend == writer \in {"sendControl", "sendState", "sendDrained"}

\* shouldApplyState of a client that shows a state.  Unlike the sender it goes by
\* the topology version as well.
ShouldApplyState(next, current) ==
    \/ next.session > current.session
    \/ /\ next.session = current.session
       /\ \/ next.topology > current.topology
          \/ /\ next.topology = current.topology
             /\ \/ next.epoch > current.epoch
                \/ /\ next.epoch = current.epoch
                   /\ next.map # current.map \/ next.version >= current.version

ApplyState(frame) ==
    IF ShouldApplyState(frame, shown)
    THEN shown' = frame /\ greeting' = FALSE
    ELSE UNCHANGED <<shown, greeting>>

\* The client receives in the order of the stream: results and errors become
\* notes, a state is applied or dropped.
HandleServerEnvelope ==
    IF writer = "sendState"
    THEN ApplyState(sending.frame) /\ UNCHANGED sent
    ELSE sent' = Append(sent, sending.control) /\ UNCHANGED <<shown, greeting>>

SendSucceeds ==
    /\ InSend
    /\ writer' = IF writer = "sendDrained" THEN "drain" ELSE "poll"
    /\ sending' = NothingToSend
    /\ HandleServerEnvelope
    /\ UNCHANGED <<inbound, handler, pump, queueVars, stateVars, finished, done,
                   request>>

\* Send reports an error: Abort, and the writer ends.
SendFails ==
    /\ InSend
    /\ done' = TRUE
    /\ writer' = "ended"
    /\ sending' = NothingToSend
    /\ UNCHANGED <<inbound, handler, pump, queueVars, stateVars, sent, shown,
                   greeting, finished, request>>

-----------------------------------------------------------------------------
ProducerStep(p) ==
    \/ EnqueueLock(p) \/ EnqueuePut(p) \/ EnqueueAborted(p)
    \/ SubmitState(p) \/ StageState(p) \/ SignalState(p)

HandlerStep ==
    \/ ProducerStep("handler")
    \/ TakeInbound \/ LeaveLoop
    \/ FinishControls \/ FinishState \/ FinishToken \/ FinishClose
    \/ Await \/ AbortStream

WriterStep ==
    \/ WriterPoll \/ WriterCheck \/ WriterSelect \/ TakeState \/ DrainControls
    \/ SendSucceeds \/ SendFails

StreamNext ==
    \/ \E kind \in {"command", "logout", "eof", "failure"} : Recv(kind)
    \/ StopReceiving
    \/ HandlerStep
    \/ ProducerStep("pump") \/ PumpTick \/ PumpEnds
    \/ WriterStep

(***************************************************************************)
(* Fairness: goroutines run, a Send returns (the client reads on, or the   *)
(* transport breaks), and Recv fails once the handler has returned.        *)
(* Strong fairness stands for the pump's select, which does not prefer its *)
(* ticker for ever to a closed channel.                                    *)
(***************************************************************************)
StreamFairness ==
    /\ WF_streamVars(HandlerStep)
    /\ WF_streamVars(ProducerStep("pump"))
    /\ SF_streamVars(PumpEnds)
    /\ WF_streamVars(WriterStep)
    /\ WF_streamVars(handler = "returned" /\ Recv("failure"))
    /\ WF_streamVars(StopReceiving)

StreamSpec == StreamInit /\ [][StreamNext]_streamVars /\ StreamFairness

-----------------------------------------------------------------------------
(***************************************************************************)
(* stream_sender.go:67: a producer that waits for room may still complete, *)
(* then Finish drains every accepted frame.  A stream that ends without an *)
(* abort has delivered every control frame that EnqueueControl took, in    *)
(* the order it took them.                                                 *)
(***************************************************************************)
GracefulEndDeliversAll == (writer = "ended" /\ ~done) => sent = accepted

(***************************************************************************)
(* stream_sender.go:125: the sender's filter follows the client-side       *)
(* contract.  Two producers hold frames while others overtake them and     *)
(* pending frames are merged, yet the client applies every state that is   *)
(* sent: nothing it would have to drop takes the place of a newer pending  *)
(* frame.  There are two exceptions: a frame that was labelled before the  *)
(* gateway applied a newer topology, and one that is older than the state  *)
(* of Authenticated, which did not pass through the sender                 *)
(* (gateway_handlers.go:37).                                               *)
(***************************************************************************)
ClientAppliesWhatIsSent ==
    [][(writer = "sendState" /\ writer' = "poll")
          => \/ shown' = sending.frame
             \/ sending.frame.topology < shown.topology
             \/ greeting /\ Regresses(sending.frame, shown)]_streamVars

(***************************************************************************)
(* No lost wake-up: while the stream is open, a pending state has a token, *)
(* a producer about to put one, or a writer about to take the state.       *)
(***************************************************************************)
PendingStateHasWaker ==
    (pending # NoFrame /\ accepting) =>
        \/ stateReady
        \/ writer \in {"take", "ended"}
        \/ \E p \in Producers : At(p) = "signal"

(***************************************************************************)
(* However the stream ends (logout, EOF, a broken transport) and whatever  *)
(* the queue and its producers are doing, all four goroutines end: none is *)
(* left behind on controlMu, on a full queue or on a channel.              *)
(***************************************************************************)
StreamEnds ==
    (done \/ handler \in {"finish", "abort"}) ~>
        /\ handler = "returned"
        /\ pump = "ended" /\ writer = "ended" /\ inbound = "ended"
=============================================================================
