------------------------ MODULE GatewayStreamProofs ------------------------
(***************************************************************************)
(* Proofs about GatewayStream, for any frames, any capacity of the control *)
(* queue and any number of commands and errors.                            *)
(*                                                                         *)
(* The inductive invariant has five parts: the types with what a goroutine *)
(* carries from one step to the next, who holds controlMu and who may      *)
(* still put, where every accepted control frame is, who wakes the writer, *)
(* and the order of the state frames on their way to the client.           *)
(***************************************************************************)
EXTENDS GatewayStream, SequenceTheorems, TLAPS

\* There is an id left for an offered command, a producer that is about to stage
\* a frame holds one, and so does a writer that is about to send one.
CarriedInv ==
    /\ inbound \in {"command", "logout"} => request.id < MaxCommands
    /\ \A p \in Producers : At(p) = "stage" => held[p] \in Frames
    /\ writer = "sendState" => sending.frame \in Frames

TypeInv == StreamTypeOK /\ CarriedInv

\* A producer inside the select of EnqueueControl holds controlMu.  Once
\* Finish has had the lock nobody holds it, and finished comes after that.
LockInv ==
    /\ \A p \in Producers : At(p) = "put" <=> controlMu = p
    /\ ~accepting => controlMu = "free"
    /\ handler \in {"discard", "untoken", "close"} \/ finished => ~accepting

\* The writer has taken one control frame and has not sent it yet.
Carrying == writer \in {"sendControl", "sendDrained"}

Taken == Len(sent) + (IF Carrying THEN 1 ELSE 0)

\* While nothing was aborted the accepted control frames are those sent, the
\* one the writer carries and those in the queue, in this order; the writer
\* drains once Finish is through, and ends with an empty queue.
DeliveryInv ==
    /\ ~done =>
          /\ Len(accepted) = Taken + Len(controls)
          /\ \A i \in 1 .. Len(sent) : accepted[i] = sent[i]
          /\ Carrying => accepted[Len(sent) + 1] = sending.control
          /\ \A i \in 1 .. Len(controls) : accepted[Taken + i] = controls[i]
    /\ writer \in {"drain", "sendDrained"} => finished
    /\ writer = "ended" /\ ~done => finished /\ controls = <<>>

\* f does not regress behind g: the order the sender goes by.
NotBehind(f, g) == ~Regresses(f, g)

\* What waits is the latest frame; what is being sent and what the client
\* shows are not ahead of what comes after them, once the client shows a frame
\* that the sender has seen.
OrderInv ==
    /\ pending # NoFrame => pending = latest
    /\ writer = "sendState" =>
          /\ sending.frame # NoFrame /\ latest # NoFrame
          /\ NotBehind(latest, sending.frame)
          /\ ~greeting => NotBehind(sending.frame, shown)
    /\ ~greeting => latest # NoFrame /\ NotBehind(latest, shown)

StreamInv ==
    /\ TypeInv /\ LockInv /\ DeliveryInv
    /\ PendingStateHasWaker /\ OrderInv

-----------------------------------------------------------------------------
\* The initial state satisfies the inductive invariant.
LEMMA StreamInit_Inv == StreamInit => StreamInv
<1> SUFFICES ASSUME StreamInit
             PROVE  StreamInv
  OBVIOUS
<1> USE DEF StreamInit
<1>1. TypeInv
  <2>1. /\ accepting \in BOOLEAN /\ finished \in BOOLEAN /\ done \in BOOLEAN
        /\ stateReady \in BOOLEAN /\ greeting \in BOOLEAN
    BY Zenon
  <2>2. controls \in Seq(Requests) /\ accepted \in Seq(Requests) /\ sent \in Seq(Requests)
    OBVIOUS
  <2>3. sending \in [control : Requests, frame : Frames \cup {NoFrame}]
    BY StreamBoundAssumption DEF NothingToSend, Requests
  <2>4. request \in [kind : {"command", "logout"}, id : Requests]
    BY StreamBoundAssumption DEF Requests
  <2>5. Len(controls) <= Capacity
    BY StreamBoundAssumption
  <2>6. /\ inbound \in Inbound /\ handler \in HandlerSteps /\ pump \in PumpSteps
        /\ writer \in WriterSteps
    BY DEF Inbound, HandlerSteps, PumpSteps, ProducerSteps, WriterSteps
  <2>7. CarriedInv
    BY DEF CarriedInv, At, Producers
  <2>8. QED
    BY <2>1, <2>2, <2>3, <2>4, <2>5, <2>6, <2>7 DEF TypeInv, StreamTypeOK
<1>2. LockInv
  BY DEF LockInv, At, Producers
<1>3. DeliveryInv
  BY DEF DeliveryInv, Carrying, Taken
<1>4. PendingStateHasWaker /\ OrderInv
  BY DEF PendingStateHasWaker, OrderInv
<1>5. QED
  BY <1>1, <1>2, <1>3, <1>4 DEF StreamInv

\* The writer takes the oldest frame of the queue.
LEMMA HeadTail ==
  ASSUME NEW S, NEW q \in Seq(S), q # <<>>
  PROVE  /\ Head(q) \in S /\ Tail(q) \in Seq(S)
         /\ Len(q) > 0 /\ Len(Tail(q)) = Len(q) - 1
         /\ Head(q) = q[1]
         /\ \A i \in 1 .. Len(q) - 1 : Tail(q)[i] = q[i + 1]
  OBVIOUS

LEMMA TakeControl_Type ==
  ASSUME TypeInv, NEW step \in {"sendControl", "sendDrained"}, TakeControl(step)
  PROVE  TypeInv'
<1>1. Head(controls) \in Requests /\ Tail(controls) \in Seq(Requests)
  BY HeadTail DEF TypeInv, StreamTypeOK, TakeControl
<1>2. Len(Tail(controls)) <= Capacity
  BY HeadTail, StreamBoundAssumption DEF TypeInv, StreamTypeOK, TakeControl
<1>3. sending' \in [control : Requests, frame : Frames \cup {NoFrame}]
  BY <1>1 DEF TakeControl
<1>4. QED
  BY <1>1, <1>2, <1>3
  DEF TypeInv, WriterSteps, StreamTypeOK, CarriedInv, TakeControl, At, stateVars

LEMMA TakeControl_Delivery ==
  ASSUME TypeInv, DeliveryInv, NEW step \in {"sendControl", "sendDrained"},
         TakeControl(step), ~Carrying, writer # "ended",
         step = "sendDrained" => finished
  PROVE  DeliveryInv'
<1>1. /\ controls' = Tail(controls) /\ sending'.control = Head(controls)
      /\ writer' = step /\ controls # <<>>
      /\ UNCHANGED <<accepted, sent, finished, done>>
  BY DEF TakeControl
<1>2. /\ Len(controls) > 0 /\ Len(controls') = Len(controls) - 1
      /\ Head(controls) = controls[1] /\ Len(controls) \in Nat
      /\ \A i \in 1 .. Len(controls) - 1 : controls'[i] = controls[i + 1]
      /\ Len(sent) \in Nat
  BY <1>1, HeadTail DEF TypeInv, StreamTypeOK
<1>3. Carrying' /\ Taken = Len(sent) /\ Taken' = Len(sent) + 1
  BY <1>1, <1>2 DEF Carrying, Taken
<1>4. ASSUME ~done
      PROVE  /\ Len(accepted) = Taken' + Len(controls')
             /\ \A i \in 1 .. Len(sent) : accepted[i] = sent[i]
             /\ accepted[Len(sent) + 1] = sending'.control
             /\ \A i \in 1 .. Len(controls') : accepted[Taken' + i] = controls'[i]
  <2>1. /\ Len(accepted) = Len(sent) + Len(controls)
        /\ \A i \in 1 .. Len(sent) : accepted[i] = sent[i]
        /\ \A i \in 1 .. Len(controls) : accepted[Len(sent) + i] = controls[i]
    BY <1>3, <1>4 DEF DeliveryInv
  <2>2. accepted[Len(sent) + 1] = sending'.control
    <3>1. 1 \in 1 .. Len(controls)
      BY <1>2
    <3>2. QED
      BY <1>1, <1>2, <2>1, <3>1
  <2>3. ASSUME NEW i \in 1 .. Len(controls')
        PROVE  accepted[Taken' + i] = controls'[i]
    <3>1. i + 1 \in 1 .. Len(controls) /\ i \in 1 .. Len(controls) - 1
      BY <1>2
    <3>2. Len(sent) + (i + 1) = Taken' + i
      BY <1>2, <1>3
    <3>3. QED
      BY <1>2, <2>1, <3>1, <3>2
  <2>4. Len(accepted) = Taken' + Len(controls')
    BY <1>2, <1>3, <2>1
  <2>5. QED
    BY <2>1, <2>2, <2>3, <2>4
<1>5. writer' \in {"drain", "sendDrained"} => finished'
  BY <1>1
<1>6. writer' # "ended"
  BY <1>1
<1>7. QED
  BY <1>1, <1>3, <1>4, <1>5, <1>6 DEF DeliveryInv

\* Every step keeps the types and what the goroutines carry.
LEMMA StreamNext_Type == TypeInv /\ [StreamNext]_streamVars => TypeInv'
<1> SUFFICES ASSUME TypeInv, [StreamNext]_streamVars
             PROVE  TypeInv'
  OBVIOUS
<1> USE StreamBoundAssumption
    DEF TypeInv, StreamTypeOK, CarriedInv, Requests, Producers, At, Inbound,
        HandlerSteps, PumpSteps, ProducerSteps, WriterSteps, queueVars,
        stateVars, writerVars
<1>1. ASSUME NEW kind \in {"command", "logout", "eof", "failure"}, Recv(kind)
      PROVE  TypeInv'
  BY <1>1
  DEF Recv
<1>2. CASE StopReceiving
  BY <1>2
  DEF StopReceiving
<1>3. CASE TakeInbound
  BY <1>3
  DEF TakeInbound
<1>4. CASE LeaveLoop
  BY <1>4
  DEF LeaveLoop
<1>5. ASSUME NEW p \in Producers, EnqueueLock(p)
      PROVE  TypeInv'
  BY <1>5
  DEF EnqueueLock, At, Goto, Refused
<1>6. ASSUME NEW p \in Producers, EnqueuePut(p)
      PROVE  TypeInv'
  BY <1>6
  DEF EnqueuePut, At, Goto, Answered
<1>7. ASSUME NEW p \in Producers, EnqueueAborted(p)
      PROVE  TypeInv'
  BY <1>7
  DEF EnqueueAborted, At, Goto, Refused
<1>8. ASSUME NEW p \in Producers, SubmitState(p)
      PROVE  TypeInv'
  BY <1>8
  DEF SubmitState, At, Goto
<1>9. ASSUME NEW p \in Producers, StageState(p)
      PROVE  TypeInv'
  BY <1>9
  DEF StageState, At, Goto
<1>10. ASSUME NEW p \in Producers, SignalState(p)
      PROVE  TypeInv'
  BY <1>10
  DEF SignalState, At, Goto
<1>11. CASE PumpTick
  BY <1>11
  DEF PumpTick
<1>12. CASE PumpEnds
  BY <1>12
  DEF PumpEnds
<1>13. CASE FinishControls
  <2>1. accepting' \in BOOLEAN
    BY <1>13, Zenon DEF FinishControls
  <2>2. QED
    BY <1>13, <2>1 DEF FinishControls
<1>14. CASE FinishState
  BY <1>14
  DEF FinishState
<1>15. CASE FinishToken
  <2>1. stateReady' \in BOOLEAN
    BY <1>15, Zenon DEF FinishToken
  <2>2. QED
    BY <1>15, <2>1 DEF FinishToken
<1>16. CASE FinishClose
  BY <1>16
  DEF FinishClose
<1>17. CASE Await
  BY <1>17
  DEF Await
<1>18. CASE AbortStream
  BY <1>18
  DEF AbortStream
<1>19. CASE WriterPoll
  BY <1>19, TakeControl_Type DEF WriterPoll, WriterGoes
<1>20. CASE WriterCheck
  BY <1>20
  DEF WriterCheck, WriterGoes
<1>21. CASE WriterSelect
  <2>1. CASE TakeControl("sendControl")
    BY <2>1, TakeControl_Type
  <2>2. CASE stateReady'  = FALSE /\ writer' = "take"
             /\ UNCHANGED <<inbound, handler, pump, queueVars, pending, latest, held,
                            sending, sent, shown, greeting, finished, done, request>>
    <3>1. stateReady' \in BOOLEAN
      BY <2>2, Zenon
    <3>2. QED
      BY <2>2, <3>1
  <2>3. CASE WriterGoes("ended") \/ WriterGoes("drain")
    BY <2>3 DEF WriterGoes
  <2>4. QED
    BY <1>21, <2>1, <2>2, <2>3 DEF WriterSelect
<1>22. CASE TakeState
  BY <1>22
  DEF TakeState
<1>23. CASE DrainControls
  BY <1>23, TakeControl_Type DEF DrainControls, WriterGoes
<1>24. CASE SendSucceeds
  <2>1. sending' \in [control : Requests, frame : Frames \cup {NoFrame}]
    BY <1>24 DEF SendSucceeds, NothingToSend
  <2>2. sent' \in Seq(Requests) /\ shown' \in Frames /\ greeting' \in BOOLEAN
    <3>1. CASE writer = "sendState"
      <4>1. sending.frame \in Frames
        BY <3>1 DEF CarriedInv
      <4>2. greeting' = FALSE \/ greeting' = greeting
        BY <1>24, <3>1 DEF SendSucceeds, HandleServerEnvelope, ApplyState
      <4>3. greeting' \in BOOLEAN
        BY <4>2, Zenon
      <4>4. QED
        BY <1>24, <3>1, <4>1, <4>3 DEF SendSucceeds, HandleServerEnvelope, ApplyState
    <3>2. CASE writer # "sendState"
      <4>1. greeting' = greeting /\ shown' = shown /\ sent' = Append(sent, sending.control)
        BY <1>24, <3>2 DEF SendSucceeds, HandleServerEnvelope
      <4>2. greeting' \in BOOLEAN
        BY <4>1, Zenon
      <4>3. QED
        BY <4>1, <4>2
    <3>3. QED
      BY <3>1, <3>2
  <2>3. writer' \in WriterSteps
    BY <1>24 DEF SendSucceeds
  <2>4. QED
    BY <1>24, <2>1, <2>2, <2>3 DEF SendSucceeds
<1>25. CASE SendFails
  <2>1. sending' \in [control : Requests, frame : Frames \cup {NoFrame}]
    BY <1>25 DEF SendFails, NothingToSend
  <2>2. QED
    BY <1>25, <2>1 DEF SendFails
<1>26. CASE UNCHANGED streamVars
  BY <1>26 DEF streamVars
<1>27. QED
  BY <1>1, <1>2, <1>3, <1>4, <1>5, <1>6, <1>7, <1>8, <1>9, <1>10, <1>11, <1>12,
     <1>13, <1>14, <1>15, <1>16, <1>17, <1>18, <1>19, <1>20, <1>21, <1>22,
     <1>23, <1>24, <1>25, <1>26
  DEF StreamNext, HandlerStep, WriterStep, ProducerStep, Producers

\* Every step keeps controlMu with the producer that is about to put.
LEMMA StreamNext_Lock == TypeInv /\ LockInv /\ [StreamNext]_streamVars => LockInv'
<1> SUFFICES ASSUME TypeInv, LockInv, [StreamNext]_streamVars
             PROVE  LockInv'
  OBVIOUS
<1> USE DEF TypeInv, StreamTypeOK, LockInv, Producers, At, queueVars, stateVars,
            writerVars
<1>1. CASE TakeInbound
  BY <1>1
  DEF TakeInbound
<1>2. CASE LeaveLoop
  BY <1>2
  DEF LeaveLoop
<1>3. ASSUME NEW p \in Producers, EnqueueLock(p)
      PROVE  LockInv'
  BY <1>3
  DEF EnqueueLock, At, Goto, Refused
<1>4. ASSUME NEW p \in Producers, EnqueuePut(p)
      PROVE  LockInv'
  BY <1>4
  DEF EnqueuePut, At, Goto, Answered
<1>5. ASSUME NEW p \in Producers, EnqueueAborted(p)
      PROVE  LockInv'
  BY <1>5
  DEF EnqueueAborted, At, Goto, Refused
<1>6. ASSUME NEW p \in Producers, SubmitState(p)
      PROVE  LockInv'
  BY <1>6
  DEF SubmitState, At, Goto
<1>7. ASSUME NEW p \in Producers, StageState(p)
      PROVE  LockInv'
  BY <1>7
  DEF StageState, At, Goto
<1>8. ASSUME NEW p \in Producers, SignalState(p)
      PROVE  LockInv'
  BY <1>8
  DEF SignalState, At, Goto
<1>9. CASE PumpTick
  BY <1>9
  DEF PumpTick
<1>10. CASE PumpEnds
  BY <1>10
  DEF PumpEnds
<1>11. CASE FinishControls
  BY <1>11
  DEF FinishControls
<1>12. CASE FinishState
  BY <1>12
  DEF FinishState
<1>13. CASE FinishToken
  BY <1>13
  DEF FinishToken
<1>14. CASE FinishClose
  BY <1>14
  DEF FinishClose
<1>15. CASE Await
  BY <1>15
  DEF Await
<1>16. CASE AbortStream
  BY <1>16
  DEF AbortStream
<1>17. CASE UNCHANGED <<handler, pump, controlMu, accepting, finished>>
  BY <1>17
<1>18. QED
  BY <1>1, <1>2, <1>3, <1>4, <1>5, <1>6, <1>7, <1>8, <1>9, <1>10, <1>11, <1>12,
     <1>13, <1>14, <1>15, <1>16, <1>17
  DEF StreamNext, HandlerStep, WriterStep, ProducerStep, Producers, streamVars,
      queueVars, stateVars, writerVars, Recv, StopReceiving, WriterPoll,
      TakeControl, WriterGoes, WriterCheck, WriterSelect, TakeState,
      DrainControls, SendSucceeds, InSend, HandleServerEnvelope, ApplyState,
      SendFails

\* Every step keeps the accepted control frames in their places.
LEMMA StreamNext_Delivery ==
  TypeInv /\ LockInv /\ DeliveryInv /\ [StreamNext]_streamVars => DeliveryInv'
<1> SUFFICES ASSUME TypeInv, LockInv, DeliveryInv, [StreamNext]_streamVars
             PROVE  DeliveryInv'
  OBVIOUS
<1> USE DEF TypeInv, StreamTypeOK, DeliveryInv, Carrying, Taken, queueVars,
            stateVars, writerVars
<1>1. ASSUME NEW p \in Producers, EnqueuePut(p)
      PROVE  DeliveryInv'
  <2> DEFINE frame == IF p = "handler" THEN request.id ELSE 0
  <2>1. /\ controls' = Append(controls, frame) /\ accepted' = Append(accepted, frame)
        /\ UNCHANGED <<sent, sending, writer, finished, done>>
    BY <1>1 DEF EnqueuePut
  <2>2. accepting
    BY <1>1 DEF EnqueuePut, LockInv, Producers
  <2>3. ~finished
    BY <2>2 DEF LockInv
  <2> HIDE DEF frame
  <2>4. /\ Len(controls') = Len(controls) + 1
        /\ Len(accepted') = Len(accepted) + 1
        /\ \A i \in 1 .. Len(controls) : controls'[i] = controls[i]
        /\ \A i \in 1 .. Len(accepted) : accepted'[i] = accepted[i]
        /\ controls'[Len(controls) + 1] = frame
        /\ accepted'[Len(accepted) + 1] = frame
    BY <2>1
  <2>5. Taken \in Nat /\ Taken' = Taken /\ Len(controls) \in Nat /\ Len(sent) \in Nat
    BY <2>1
  <2>6. Carrying' = Carrying /\ (Carrying => Taken = Len(sent) + 1) /\ Taken >= Len(sent)
    BY <2>1
  <2>7. ASSUME ~done
        PROVE  /\ Len(accepted') = Taken' + Len(controls')
               /\ \A i \in 1 .. Len(sent') : accepted'[i] = sent'[i]
               /\ Carrying' => accepted'[Len(sent') + 1] = sending'.control
               /\ \A i \in 1 .. Len(controls') : accepted'[Taken' + i] = controls'[i]
    <3>1. /\ Len(accepted) = Taken + Len(controls)
          /\ \A i \in 1 .. Len(sent) : accepted[i] = sent[i]
          /\ Carrying => accepted[Len(sent) + 1] = sending.control
          /\ \A i \in 1 .. Len(controls) : accepted[Taken + i] = controls[i]
      BY <2>7
    <3> HIDE DEF Taken, Carrying
    <3>0. /\ Taken \in Nat /\ Taken' = Taken /\ Len(controls) \in Nat
          /\ Len(accepted) = Taken + Len(controls)
          /\ Len(controls') = Len(controls) + 1 /\ Len(accepted') = Len(accepted) + 1
      BY <2>4, <2>5, <3>1, Zenon
    <3>2. \A i \in 1 .. Len(controls') : accepted'[Taken' + i] = controls'[i]
      <4> TAKE i \in 1 .. Len(controls')
      <4>1. CASE i <= Len(controls)
        <5>1. i \in 1 .. Len(controls) /\ Taken + i \in 1 .. Len(accepted)
          BY <2>4, <2>5, <3>1, <4>1
        <5>2. QED
          BY <2>4, <2>5, <3>1, <5>1
      <4>2. CASE i > Len(controls)
        <5>1. i = Len(controls) + 1
          BY <3>0, <4>2
        <5>2. Taken + i = Len(accepted) + 1
          BY <3>0, <5>1
        <5>3. QED
          BY <2>4, <2>5, <5>1, <5>2
      <4>3. QED
        BY <2>4, <2>5, <4>1, <4>2
    <3>3. \A i \in 1 .. Len(sent') : accepted'[i] = sent'[i]
      BY <2>1, <2>4, <2>5, <2>6, <3>1
    <3>4. Carrying' => accepted'[Len(sent') + 1] = sending'.control
      BY <2>1, <2>4, <2>5, <2>6, <3>1
    <3>5. QED
      BY <3>0, <3>2, <3>3, <3>4
  <2>8. QED
    BY <2>1, <2>3, <2>7
<1>2. CASE FinishClose
  BY <1>2
  DEF FinishClose
<1>3. CASE AbortStream
  BY <1>3
  DEF AbortStream
<1>4. CASE WriterPoll
  <2>1. CASE TakeControl("sendControl")
    BY <1>4, <2>1, TakeControl_Delivery DEF WriterPoll
  <2>2. CASE ~TakeControl("sendControl")
    BY <1>4, <2>2 DEF WriterPoll, WriterGoes
  <2>3. QED
    BY <2>1, <2>2
<1>5. CASE WriterCheck
  BY <1>5
  DEF WriterCheck, WriterGoes
<1>6. CASE WriterSelect
  <2>1. CASE TakeControl("sendControl")
    BY <1>6, <2>1, TakeControl_Delivery DEF WriterSelect
  <2>2. CASE ~TakeControl("sendControl")
    BY <1>6, <2>2 DEF WriterSelect, WriterGoes
  <2>3. QED
    BY <2>1, <2>2
<1>7. CASE TakeState
  BY <1>7
  DEF TakeState
<1>8. CASE DrainControls
  <2>1. CASE TakeControl("sendDrained")
    BY <1>8, <2>1, TakeControl_Delivery DEF DrainControls
  <2>2. CASE ~TakeControl("sendDrained")
    BY <1>8, <2>2 DEF DrainControls, WriterGoes
  <2>3. QED
    BY <2>1, <2>2
<1>9. CASE SendSucceeds
  <2>1. CASE writer = "sendState"
    BY <1>9, <2>1 DEF SendSucceeds, HandleServerEnvelope
  <2>2. CASE writer # "sendState"
    <3>1. /\ Carrying /\ ~Carrying' /\ sent' = Append(sent, sending.control)
          /\ UNCHANGED <<controls, accepted, done, finished>>
          /\ writer' = IF writer = "sendDrained" THEN "drain" ELSE "poll"
      BY <1>9, <2>2 DEF SendSucceeds, HandleServerEnvelope, InSend
    <3>2. /\ Len(sent') = Len(sent) + 1 /\ sent'[Len(sent) + 1] = sending.control
          /\ \A i \in 1 .. Len(sent) : sent'[i] = sent[i]
          /\ Len(sent) \in Nat
      BY <3>1
    <3>3. Taken' = Taken
      BY <3>1, <3>2
    <3>4. QED
      BY <3>1, <3>2, <3>3
  <2>3. QED
    BY <2>1, <2>2
<1>10. CASE SendFails
  BY <1>10, Zenon DEF SendFails
<1>11. CASE UNCHANGED <<controls, accepted, sent, sending, writer, finished, done>>
  BY <1>11
<1>12. QED
  BY <1>1, <1>2, <1>3, <1>4, <1>5, <1>6, <1>7, <1>8, <1>9, <1>10, <1>11
  DEF StreamNext, HandlerStep, WriterStep, ProducerStep, Producers, streamVars,
      queueVars, stateVars, writerVars, Recv, StopReceiving, TakeInbound,
      LeaveLoop, EnqueueLock, At, Goto, Refused, EnqueueAborted, SubmitState,
      StageState, SignalState, PumpTick, PumpEnds, FinishControls, FinishState,
      FinishToken, Await

\* Every step keeps somebody to wake the writer for a pending state.
LEMMA StreamNext_Waker ==
  /\ TypeInv /\ LockInv /\ PendingStateHasWaker
  /\ [StreamNext]_streamVars
  => PendingStateHasWaker'
<1> SUFFICES ASSUME TypeInv, LockInv, PendingStateHasWaker,
                    [StreamNext]_streamVars
             PROVE  PendingStateHasWaker'
  OBVIOUS
<1> USE DEF TypeInv, StreamTypeOK, PendingStateHasWaker, Producers, At, queueVars,
            stateVars, writerVars
<1>1. CASE TakeInbound
  BY <1>1
  DEF TakeInbound
<1>2. CASE LeaveLoop
  BY <1>2
  DEF LeaveLoop
<1>3. ASSUME NEW p \in Producers, EnqueueLock(p)
      PROVE  PendingStateHasWaker'
  BY <1>3
  DEF EnqueueLock, At, Goto, Refused
<1>4. ASSUME NEW p \in Producers, EnqueuePut(p)
      PROVE  PendingStateHasWaker'
  BY <1>4
  DEF EnqueuePut, At, Goto, Answered
<1>5. ASSUME NEW p \in Producers, EnqueueAborted(p)
      PROVE  PendingStateHasWaker'
  BY <1>5
  DEF EnqueueAborted, At, Goto, Refused
<1>6. ASSUME NEW p \in Producers, SubmitState(p)
      PROVE  PendingStateHasWaker'
  BY <1>6
  DEF SubmitState, At, Goto
<1>7. ASSUME NEW p \in Producers, StageState(p)
      PROVE  PendingStateHasWaker'
  BY <1>7
  DEF StageState, At, Goto
<1>8. ASSUME NEW p \in Producers, SignalState(p)
      PROVE  PendingStateHasWaker'
  BY <1>8
  DEF SignalState, At, Goto
<1>9. CASE PumpTick
  BY <1>9
  DEF PumpTick
<1>10. CASE PumpEnds
  BY <1>10
  DEF PumpEnds
<1>11. CASE FinishControls
  BY <1>11, Zenon DEF FinishControls
<1>12. CASE FinishState
  BY <1>12
  DEF FinishState
<1>13. CASE FinishToken
  <2>1. ~accepting'
    BY <1>13, Zenon DEF FinishToken, LockInv, queueVars
  <2>2. QED
    BY <2>1
<1>14. CASE FinishClose
  BY <1>14
  DEF FinishClose
<1>15. CASE Await
  BY <1>15
  DEF Await
<1>16. CASE AbortStream
  BY <1>16
  DEF AbortStream
<1>17. CASE WriterPoll
  BY <1>17
  DEF WriterPoll, TakeControl, WriterGoes
<1>18. CASE WriterCheck
  BY <1>18
  DEF WriterCheck, WriterGoes
<1>19. CASE WriterSelect
  BY <1>19
  DEF WriterSelect, TakeControl, WriterGoes
<1>20. CASE TakeState
  BY <1>20
  DEF TakeState
<1>21. CASE DrainControls
  BY <1>21
  DEF DrainControls, TakeControl, WriterGoes
<1>22. CASE SendSucceeds
  BY <1>22
  DEF SendSucceeds, InSend, HandleServerEnvelope, ApplyState
<1>23. CASE SendFails
  BY <1>23
  DEF SendFails, InSend
<1>24. CASE UNCHANGED <<handler, pump, writer, stateReady, pending, accepting>>
  BY <1>24
<1>25. QED
  BY <1>1, <1>2, <1>3, <1>4, <1>5, <1>6, <1>7, <1>8, <1>9, <1>10, <1>11, <1>12,
     <1>13, <1>14, <1>15, <1>16, <1>17, <1>18, <1>19, <1>20, <1>21, <1>22,
     <1>23, <1>24
  DEF StreamNext, HandlerStep, WriterStep, ProducerStep, Producers, streamVars,
      queueVars, stateVars, writerVars, Recv, StopReceiving

\* The sender's order of frames is transitive: within a session there is one
\* map, so epoch and version decide.
LEMMA NotBehindTransitive ==
  ASSUME NEW f \in Frames, NEW g \in Frames, NEW h \in Frames,
         NotBehind(f, g), NotBehind(g, h)
  PROVE  NotBehind(f, h)
  BY FrameAssumption DEF NotBehind, Regresses, FrameVersion

LEMMA NotBehindReflexive ==
  ASSUME NEW f \in Frames
  PROVE  NotBehind(f, f)
  BY FrameAssumption DEF NotBehind, Regresses, FrameVersion

\* Every step keeps the frames in the order they are sent.
LEMMA StreamNext_Order == TypeInv /\ OrderInv /\ [StreamNext]_streamVars => OrderInv'
<1> SUFFICES ASSUME TypeInv, OrderInv, [StreamNext]_streamVars
             PROVE  OrderInv'
  OBVIOUS
<1> USE DEF TypeInv, StreamTypeOK, OrderInv, queueVars, stateVars, writerVars
<1>1. ASSUME NEW p \in Producers, StageState(p)
      PROVE  OrderInv'
  <2>1. CASE latest # NoFrame /\ Regresses(held[p], latest)
    BY <1>1, <2>1 DEF StageState
  <2>2. CASE ~(latest # NoFrame /\ Regresses(held[p], latest))
    <3>1. /\ pending' = held[p] /\ latest' = held[p]
          /\ UNCHANGED <<writer, sending, shown, greeting>>
      BY <1>1, <2>2 DEF StageState
    <3>2. held[p] \in Frames /\ NoFrame \notin Frames
      BY <1>1, FrameAssumption DEF StageState, CarriedInv
    <3>3. latest # NoFrame => latest \in Frames /\ NotBehind(held[p], latest)
      BY <2>2 DEF NotBehind
    <3>4. ASSUME NEW f \in Frames, latest # NoFrame, NotBehind(latest, f)
          PROVE  NotBehind(held[p], f)
      BY <3>2, <3>3, <3>4, NotBehindTransitive
    <3>5. QED
      BY <3>1, <3>2, <3>4
  <2>3. QED
    BY <2>1, <2>2
<1>2. CASE FinishState
  BY <1>2
  DEF FinishState
<1>3. CASE WriterPoll
  BY <1>3
  DEF WriterPoll, TakeControl, WriterGoes
<1>4. CASE WriterCheck
  BY <1>4
  DEF WriterCheck, WriterGoes
<1>5. CASE WriterSelect
  BY <1>5
  DEF WriterSelect, TakeControl, WriterGoes
<1>6. CASE TakeState
  <2>1. CASE pending = NoFrame
    BY <1>6, <2>1 DEF TakeState
  <2>2. CASE pending # NoFrame
    <3>1. pending = latest /\ latest \in Frames /\ NotBehind(latest, latest)
      BY <2>2, NotBehindReflexive
    <3>2. QED
      BY <1>6, <2>2, <3>1 DEF TakeState
  <2>3. QED
    BY <2>1, <2>2
<1>7. CASE DrainControls
  BY <1>7
  DEF DrainControls, TakeControl, WriterGoes
<1>8. CASE SendSucceeds
  BY <1>8
  DEF SendSucceeds, InSend, HandleServerEnvelope, ApplyState
<1>9. CASE SendFails
  BY <1>9
  DEF SendFails, InSend
<1>10. CASE UNCHANGED <<pending, latest, sending, writer, shown, greeting>>
  BY <1>10
<1>11. QED
  BY <1>1, <1>2, <1>3, <1>4, <1>5, <1>6, <1>7, <1>8, <1>9, <1>10
  DEF StreamNext, HandlerStep, WriterStep, ProducerStep, Producers, streamVars,
      queueVars, stateVars, writerVars, Recv, StopReceiving, TakeInbound,
      LeaveLoop, EnqueueLock, At, Goto, Refused, EnqueuePut, Answered,
      EnqueueAborted, SubmitState, SignalState, PumpTick, PumpEnds,
      FinishControls, FinishToken, FinishClose, Await, AbortStream

\* The invariant holds in every reachable state.
LEMMA StreamInvariant == StreamSpec => []StreamInv
<1>1. StreamInv /\ [StreamNext]_streamVars => StreamInv'
  BY StreamNext_Type, StreamNext_Lock, StreamNext_Delivery, StreamNext_Waker,
     StreamNext_Order
  DEF StreamInv
<1>2. QED
  BY <1>1, StreamInit_Inv, PTL DEF StreamSpec

-----------------------------------------------------------------------------
\* The goroutines of a stream keep to their steps and the control queue to its
\* capacity.
THEOREM StreamTypeCorrect == StreamSpec => []StreamTypeOK
<1>1. StreamInv => StreamTypeOK
  BY DEF StreamInv, TypeInv
<1>2. QED
  BY <1>1, StreamInvariant, PTL

\* A stream whose writer ends without an abort has sent every control frame
\* that EnqueueControl took, in order: Finish takes controlMu, so a producer
\* waiting for room has put its frame before the writer drains the queue.
THEOREM GracefulEndDeliversAllTheorem == StreamSpec => []GracefulEndDeliversAll
<1>1. StreamInv => GracefulEndDeliversAll
  <2> SUFFICES ASSUME StreamInv, writer = "ended", ~done
               PROVE  sent = accepted
    BY DEF GracefulEndDeliversAll
  <2>1. sent \in Seq(Requests) /\ accepted \in Seq(Requests)
    BY DEF StreamInv, TypeInv, StreamTypeOK
  <2>2. /\ Len(accepted) = Len(sent)
        /\ \A i \in 1 .. Len(sent) : accepted[i] = sent[i]
    BY <2>1 DEF StreamInv, DeliveryInv, Taken, Carrying
  <2>3. QED
    BY <2>1, <2>2, SeqEqual
<1>2. QED
  BY <1>1, StreamInvariant, PTL

\* No lost wake-up: a pending state of an open stream has a token, a producer
\* about to put one, or a writer about to take it.
THEOREM PendingStateHasWakerTheorem == StreamSpec => []PendingStateHasWaker
<1>1. StreamInv => PendingStateHasWaker
  BY DEF StreamInv
<1>2. QED
  BY <1>1, StreamInvariant, PTL

\* The client applies every state the gateway sends, however producers
\* overtake each other, unless the frame was labelled under an older topology
\* than the client has seen, or is older than the state of Authenticated that
\* the client still shows (stateRegresses against shouldApplyState).
THEOREM ClientAppliesWhatIsSentTheorem == StreamSpec => ClientAppliesWhatIsSent
<1> DEFINE Applied ==
      (writer = "sendState" /\ writer' = "poll")
         => \/ shown' = sending.frame
            \/ sending.frame.topology < shown.topology
            \/ greeting /\ Regresses(sending.frame, shown)
<1>1. ASSUME StreamInv, [StreamNext]_streamVars
      PROVE  [Applied]_streamVars
  <2> SUFFICES ASSUME StreamNext, writer = "sendState", writer' = "poll",
                      shown' # sending.frame,
                      ~(greeting /\ Regresses(sending.frame, shown))
               PROVE  sending.frame.topology < shown.topology
    BY <1>1
  <2> USE <1>1 DEF StreamInv, TypeInv, StreamTypeOK
  <2>1. SendSucceeds
    BY DEF StreamNext, HandlerStep, ProducerStep, WriterStep, Recv, StopReceiving,
           TakeInbound, LeaveLoop, EnqueueLock, EnqueuePut, EnqueueAborted,
           SubmitState, StageState, SignalState, PumpTick, PumpEnds,
           FinishControls, FinishState, FinishToken, FinishClose, Await,
           AbortStream, WriterPoll, WriterCheck, WriterSelect, TakeState,
           DrainControls, SendFails, TakeControl, WriterGoes, writerVars
  <2>2. shown' = shown /\ ~ShouldApplyState(sending.frame, shown)
    BY <2>1 DEF SendSucceeds, HandleServerEnvelope, ApplyState
  <2>3. /\ sending.frame \in Frames /\ shown \in Frames
        /\ NotBehind(sending.frame, shown)
    BY FrameAssumption DEF OrderInv, NotBehind
  <2>4. QED
    BY <2>2, <2>3, FrameAssumption
    DEF NotBehind, Regresses, ShouldApplyState, FrameVersion
<1>2. QED
  BY <1>1, StreamInvariant, PTL DEF StreamSpec, ClientAppliesWhatIsSent
=============================================================================
