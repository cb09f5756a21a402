------------------------ MODULE StreamExchangeProofs ------------------------
(***************************************************************************)
(* Theorems about StreamExchange, for every set of plans and every bound.  *)
(*                                                                         *)
(* First its types, what the client is answered, and that it implements    *)
(* the contract of an exchange.  Then, from "Who may still add to the      *)
(* answer" on, what it puts on the wire and into its log: nothing is lost, *)
(* repeated or out of order.                                               *)
(***************************************************************************)
EXTENDS StreamExchange, SelectionTheorems

-----------------------------------------------------------------------------
(* Types                                                                    *)

LEMMA PlanType ==
  ASSUME NEW plan \in Plans
  PROVE  plan \in Seq(Step)
BY PlansAssumption DEF IsPlan

\* The frames there are, by kind.
LEMMA FrameTypes ==
  /\ \A x \in Phases : Frame("data", x) \in Frames
  /\ \A t \in {"whole", "partial"} : Frame("finish", t) \in Frames
  /\ Frame("http_error", "injected") \in Frames
  /\ \A t \in {"operator_hard_abort", "stream_cut_injected"} :
       Frame("hard_abort", t) \in Frames
BY DEF Frame, Frames, DataFrames

LEMMA FrameTags ==
  ASSUME NEW f \in Frames
  PROVE  /\ f # NoFrame /\ f # KeepAliveFrame /\ f # GoneFrame
         /\ f.kind \in {"data", "finish", "http_error", "hard_abort"}
         /\ f.kind = "data" => f.tag \in Phases
         /\ f.kind = "finish" => f.tag \in {"whole", "partial"}
         /\ f.kind = "http_error" => f.tag = "injected"
         /\ f.kind = "hard_abort" =>
              f.tag \in {"operator_hard_abort", "stream_cut_injected"}
BY DEF Frame, Frames, DataFrames, NoFrame, KeepAliveFrame, GoneFrame

\* The frames and the names of a plan's chunks.
LEMMA FramesOfPlan ==
  ASSUME NEW plan \in Seq(Step)
  PROVE  /\ ToFrames(plan) \in Seq(Frames)
         /\ Whats(plan) \in Seq(Phases)
         /\ Len(ToFrames(plan)) = Len(plan)
         /\ Len(Whats(plan)) = Len(plan)
<1>1. \A i \in 1..Len(plan) : plan[i].what \in Phases
  <2> SUFFICES ASSUME NEW i \in 1..Len(plan) PROVE plan[i].what \in Phases
    OBVIOUS
  <2> plan[i] \in Step
    BY ElementOfSeq
  <2> QED
    BY DEF Step
<1>2. Len(plan) \in Nat
  BY LenProperties
<1>3. ToFrames(plan) \in [1..Len(plan) -> Frames]
  BY <1>1, FrameTypes DEF ToFrames
<1>4. Whats(plan) \in [1..Len(plan) -> Phases]
  BY <1>1 DEF Whats
<1> QED
  BY <1>2, <1>3, <1>4, SeqDef, LenProperties

LEMMA InitType == Init => TypeOK
<1> SUFFICES ASSUME Init PROVE TypeOK
  OBVIOUS
<1>1. injection \in Injected
  BY DEF Init, NoInjection, Injected
<1>2. tick \in BOOLEAN
  BY SwitchesAssumption DEF Init
<1>3. \A S : <<>> \in Seq(S)
  BY EmptySeq
<1>4. RuntimeType
  BY <1>1, <1>3 DEF Init, RuntimeType
<1>5. SendingType
  BY <1>3 DEF Init, SendingType
<1>6. ConsumerType
  BY <1>2, <1>3 DEF Init, ConsumerType
<1>7. TraceType
  BY <1>3 DEF Init, TraceType
<1> QED
  BY <1>4, <1>5, <1>6, <1>7 DEF TypeOK

-----------------------------------------------------------------------------
(* What the parts of a step do to the types                                 *)

LEMMA CancelSenderType ==
  ASSUME SendingType, CancelSender, queue' \in Seq(Frames)
  PROVE  SendingType'
BY EmptySeq DEF SendingType, CancelSender

LEMMA EndingType ==
  ASSUME TypeOK, NEW s \in {"completed", "aborted", "injected"},
         NEW reason \in Reasons, Ending(s, reason)
  PROVE  /\ status' \in {"pending", "active", "completed", "aborted", "injected"}
         /\ done' \in BOOLEAN
         /\ closings' \in Seq(Closing)
<1>1. [status |-> s, reason |-> reason] \in Closing
  BY DEF Closing
<1>2. closings \in Seq(Closing)
  BY DEF TypeOK, TraceType
<1>3. Append(closings, [status |-> s, reason |-> reason]) \in Seq(Closing)
  BY <1>1, <1>2, AppendProperties
<1> QED
  BY <1>2, <1>3 DEF TypeOK, RuntimeType, Ending

LEMMA PutType ==
  ASSUME NEW w \in Seq(Items), NEW x \in Items
  PROVE  Put(w, x) \in Seq(Items)
BY AppendProperties DEF Put

LEMMA DeliverType ==
  ASSUME TypeOK, NEW items \in Seq(Items),
         NEW frame \in Frames \cup {KeepAliveFrame, GoneFrame},
         items # <<>> \/ ~headersStarted,
         Deliver(frame, items),
         fetched' \in Frames \cup {NoFrame},
         UNCHANGED <<headersStarted, disconnected>>
  PROVE  /\ ConsumerType'
         /\ wire' \in Seq(Items)
<1> DEFINE sends == (IF headersStarted THEN <<>> ELSE <<"head">>) \o items
<1>1. /\ <<"head">> \in Seq(Items)
      /\ <<>> \in Seq(Items)
  BY EmptySeq DEF Items
<1>2. sends \in Seq(Items) /\ sends # <<>>
  BY <1>1, ConcatProperties, ConcatEqualIffEmpty
<1>3. Head(sends) \in Items
  BY <1>2, HeadTailProperties
<1>4. frame # NoFrame
  BY FrameTags DEF NoFrame, KeepAliveFrame, GoneFrame, Frame
<1>5. outbox' = sends /\ wire' = Put(wire, Head(sends))
  BY DEF Deliver
<1>6. wire' \in Seq(Items)
  BY <1>3, <1>5, PutType DEF TypeOK, TraceType
<1>7. ConsumerType'
  BY <1>2, <1>4, <1>5 DEF TypeOK, ConsumerType, Deliver
<1> QED
  BY <1>6, <1>7

-----------------------------------------------------------------------------
(* Type correctness                                                         *)

LEMMA OperatorType == TypeOK /\ Operator => TypeOK'
<1> SUFFICES ASSUME TypeOK, Operator PROVE TypeOK'
  OBVIOUS
<1>0. /\ RuntimeType /\ SendingType /\ ConsumerType /\ TraceType
      /\ injection.kind \in {"none", "delay", "stream_cut"}
      /\ [injection EXCEPT !.applied = TRUE] \in Injected
  BY DEF TypeOK, RuntimeType, Injected
<1>1. ASSUME NEW mode \in {"paced", "instant"}, NEW plan \in Plans,
             Submit(mode, plan)
      PROVE  TypeOK'
  <2>1. plan \in Seq(Step) /\ Whats(plan) \in Seq(Phases)
    BY PlanType, FramesOfPlan
  <2>2. script' \in Seq(Phases)
    BY <1>0, <1>1, <2>1, ConcatProperties DEF Submit, RuntimeType
  <2>3. RuntimeType'
    BY <1>0, <1>1, <2>2 DEF Submit, Accept, RuntimeType
  <2>4. SendingType'
    BY <1>0, <1>1, <2>1 DEF Submit, Accept, SendingType
  <2>5. ConsumerType' /\ TraceType'
    BY <1>0, <1>1 DEF Submit, Accept, ConsumerType, TraceType, consumer, trace
  <2> QED
    BY <2>3, <2>4, <2>5 DEF TypeOK
<1>2. ASSUME NEW mode \in {"paced", "instant"}, SubmitFails(mode)
      PROVE  TypeOK'
  BY <1>0, <1>2
     DEF TypeOK, SubmitFails, Accept, RuntimeType, SendingType, ConsumerType,
         TraceType, consumer, trace
<1>3. CASE AbortGraceful
  <2>1. queue' \in Seq(Frames)
    BY <1>0, <1>3, FrameTypes, AppendProperties DEF AbortGraceful, SendingType
  <2>2. SendingType'
    BY <1>0, <1>3, <2>1, CancelSenderType DEF AbortGraceful
  <2> QED
    BY <1>0, <1>3, <2>2
       DEF TypeOK, AbortGraceful, RuntimeType, ConsumerType, TraceType, consumer, trace
<1>4. ASSUME NEW t \in {"operator_hard_abort", "stream_cut_injected"}, CutNow(t)
      PROVE  TypeOK'
  <2>1. queue' \in Seq(Frames)
    BY <1>0, <1>4, FrameTypes, AppendProperties DEF CutNow, SendingType
  <2>2. SendingType'
    BY <1>0, <1>4, <2>1, CancelSenderType DEF CutNow
  <2> QED
    BY <1>0, <1>4, <2>2
       DEF TypeOK, CutNow, RuntimeType, ConsumerType, TraceType, runtime, consumer, trace
<1>5. CASE InjectHttpError
  <2>1. queue' \in Seq(Frames)
    BY <1>0, <1>5, FrameTypes, AppendProperties DEF InjectHttpError, SendingType
  <2> QED
    BY <1>0, <1>5, <2>1
       DEF TypeOK, InjectHttpError, RuntimeType, SendingType, ConsumerType, TraceType,
           runtime, consumer, trace
<1>6. ASSUME NEW inj \in Injected, Arm(inj) PROVE TypeOK'
  BY <1>0, <1>6 DEF TypeOK, Arm, RuntimeType, SendingType, ConsumerType, TraceType,
                    sending, consumer, trace
<1>7. CASE InjectDelay
  BY <1>6, <1>7 DEF InjectDelay, Injected
<1>8. ASSUME NEW n \in CutAfter, InjectCutAfter(n) PROVE TypeOK'
  <2>1. n \in Nat /\ Len(sent) \in Nat
    BY <1>0, CutAssumption, LenProperties DEF TraceType
  <2> QED
    BY <1>6, <1>8, <2>1 DEF InjectCutAfter, Injected
<1>9. ASSUME NEW whats \in Seq(Phases), Relay(whats)
      PROVE  /\ script' \in Seq(Phases)
             /\ SendingType' /\ ConsumerType' /\ TraceType'
  <2>1. [i \in 1..Len(whats) |-> Frame("data", whats[i])] \in Seq(Frames)
    <3>1. \A i \in 1..Len(whats) : Frame("data", whats[i]) \in Frames
      BY FrameTypes, ElementOfSeq
    <3>2. Len(whats) \in Nat
      BY LenProperties
    <3> QED
      BY <3>1, <3>2, SeqDef
  <2>2. script' \in Seq(Phases) /\ queue' \in Seq(Frames)
    BY <1>0, <1>9, <2>1, ConcatProperties DEF Relay, RuntimeType, SendingType
  <2> QED
    BY <1>0, <1>9, <2>2 DEF Relay, SendingType, ConsumerType, TraceType, consumer, trace
<1>10. CASE LiveStart
  <2>1. <<"role">> \in Seq(Phases)
    BY DEF Phases
  <2>2. /\ script' \in Seq(Phases)
        /\ SendingType' /\ ConsumerType' /\ TraceType'
    BY <1>9, <1>10, <2>1 DEF LiveStart
  <2> QED
    BY <1>0, <1>10, <2>2 DEF TypeOK, LiveStart, Relay, RuntimeType, Phases
<1>11. ASSUME NEW field \in {"reasoning", "content"}, LiveText(field)
       PROVE  TypeOK'
  <2>1. <<field>> \in Seq(Phases)
    BY DEF Phases
  <2>2. /\ script' \in Seq(Phases)
        /\ SendingType' /\ ConsumerType' /\ TraceType'
    BY <1>9, <1>11, <2>1 DEF LiveText
  <2> QED
    BY <1>0, <1>11, <2>2 DEF TypeOK, LiveText, Relay, RuntimeType, Phases
<1>12. ASSUME NEW chunks \in 1..2, LiveToolCall(chunks) PROVE TypeOK'
  <2>1. [i \in 1..chunks |-> "tool"] \in Seq(Phases)
    BY SeqDef DEF Phases
  <2>2. /\ script' \in Seq(Phases)
        /\ SendingType' /\ ConsumerType' /\ TraceType'
    BY <1>9, <1>12, <2>1 DEF LiveToolCall
  <2> QED
    BY <1>0, <1>12, <2>2 DEF TypeOK, LiveToolCall, Relay, RuntimeType, Phases
<1>13. CASE LiveFinish
  <2>1. queue' \in Seq(Frames)
    BY <1>0, <1>13, FrameTypes, AppendProperties DEF LiveFinish, SendingType
  <2> QED
    BY <1>0, <1>13, <2>1
       DEF TypeOK, LiveFinish, RuntimeType, SendingType, ConsumerType, TraceType,
           consumer, trace
<1>14. CASE PutReadOnly
  BY <1>0, <1>14 DEF TypeOK, PutReadOnly, RuntimeType, SendingType, ConsumerType,
                     TraceType, sending, consumer, trace
<1> QED
  BY <1>1, <1>2, <1>3, <1>4, <1>5, <1>7, <1>8, <1>10, <1>11, <1>12, <1>13, <1>14
     DEF Operator, AbortHard, InjectCutNow

LEMMA SenderType == TypeOK /\ (Sender \/ Shutdown \/ GetTask) => TypeOK'
<1> SUFFICES ASSUME TypeOK, Sender \/ Shutdown \/ GetTask PROVE TypeOK'
  OBVIOUS
<1>0. /\ RuntimeType /\ SendingType /\ ConsumerType /\ TraceType
      /\ ToFrames(todo) \in Seq(Frames)
      /\ Len(ToFrames(todo)) = Len(todo)
      /\ Len(todo) \in Nat
  BY FramesOfPlan, LenProperties DEF TypeOK, SendingType
<1>1. CASE SenderEnds
  <2>1. queue \o ToFrames(todo) \in Seq(Frames)
    BY <1>0, ConcatProperties DEF SendingType
  <2>2. queue' \in Seq(Frames)
    BY <1>1, <2>1, FrameTypes, AppendProperties DEF SenderEnds
  <2>3. SendingType'
    BY <1>0, <1>1, <2>2, EmptySeq DEF SenderEnds, SendingType
  <2> QED
    BY <1>0, <1>1, <2>3 DEF TypeOK, SenderEnds, RuntimeType, ConsumerType, TraceType,
                            runtime, consumer, trace
<1>2. ASSUME NEW n \in 1..Len(todo), SenderPauses(n) PROVE TypeOK'
  <2>1. SubSeq(ToFrames(todo), 1, n) \in Seq(Frames)
    <3>1. \A i \in 1..n : ToFrames(todo)[i] \in Frames
      BY <1>0, ElementOfSeq
    <3> QED
      BY <1>0, <3>1, SubSeqProperties
  <2>2. SubSeq(todo, n + 1, Len(todo)) \in Seq(Step)
    <3>1. \A i \in n + 1..Len(todo) : todo[i] \in Step
      BY <1>0, ElementOfSeq DEF SendingType
    <3> QED
      BY <1>0, <3>1, SubSeqProperties
  <2>3. queue' \in Seq(Frames)
    BY <1>0, <1>2, <2>1, ConcatProperties DEF SenderPauses, SendingType
  <2>4. SendingType'
    BY <1>0, <1>2, <2>2, <2>3 DEF SenderPauses, SendingType
  <2> QED
    BY <1>0, <1>2, <2>4 DEF TypeOK, SenderPauses, RuntimeType, ConsumerType, TraceType,
                            runtime, consumer, trace
<1>3. CASE Shutdown
  <2>1. SendingType'
    BY <1>0, <1>3, EmptySeq DEF Shutdown, SendingType
  <2> QED
    BY <1>0, <1>3, <2>1 DEF TypeOK, Shutdown, RuntimeType, ConsumerType, TraceType,
                            runtime, consumer, trace
<1>4. CASE GetTask
  <2>1. Head(queue) \in Frames /\ Tail(queue) \in Seq(Frames)
    BY <1>0, <1>4, HeadTailProperties DEF GetTask, SendingType
  <2> QED
    BY <1>0, <1>4, <2>1 DEF TypeOK, GetTask, RuntimeType, SendingType, ConsumerType,
                            TraceType, runtime, trace
<1> QED
  BY <1>1, <1>2, <1>3, <1>4 DEF Sender

LEMMA StopType ==
  ASSUME TypeOK, Stop, fetched' \in Frames \cup {NoFrame},
         headersStarted' \in BOOLEAN, UNCHANGED disconnected
  PROVE  ConsumerType'
BY EmptySeq DEF TypeOK, Stop, ConsumerType

LEMMA EnterWaitType ==
  ASSUME TypeOK, EnterWait, fetched' \in Frames \cup {NoFrame},
         headersStarted' \in BOOLEAN, UNCHANGED disconnected
  PROVE  ConsumerType'
<1>1. tick' \in BOOLEAN
  BY SwitchesAssumption DEF EnterWait
<1> QED
  BY <1>1, EmptySeq DEF TypeOK, EnterWait, ConsumerType

\* What an ending of the consumer's leaves typed.
LEMMA EndCancellingType ==
  ASSUME TypeOK, NEW reason \in Reasons, EndCancelling(reason),
         UNCHANGED <<meta, live, readOnly, script>>,
         queue' \in Seq(Frames), injection' \in Injected
  PROVE  RuntimeType' /\ SendingType' /\ closings' \in Seq(Closing)
<1>1. SendingType'
  BY CancelSenderType DEF TypeOK, SendingType, EndCancelling
<1>2. /\ status' \in {"pending", "active", "completed", "aborted", "injected"}
      /\ done' \in BOOLEAN
      /\ closings' \in Seq(Closing)
  BY EndingType DEF EndCancelling
<1> QED
  BY <1>1, <1>2 DEF TypeOK, RuntimeType

LEMMA WakesType == TypeOK /\ (Wakes \/ ConsumerCancelled \/ ClientLeaves) => TypeOK'
<1> SUFFICES ASSUME TypeOK, Wakes \/ ConsumerCancelled \/ ClientLeaves PROVE TypeOK'
  OBVIOUS
<1>0. /\ RuntimeType /\ SendingType /\ ConsumerType /\ TraceType
      /\ fetched \in Frames \cup {NoFrame}
      /\ headersStarted \in BOOLEAN
      /\ injection \in Injected
      /\ queue \in Seq(Frames)
      /\ wire \in Seq(Items)
      /\ <<>> \in Seq(Items)
      /\ Chunks \subseteq Items /\ Phases \subseteq Chunks
      /\ Append(wire, "close") \in Seq(Items) /\ Append(wire, "errhead") \in Seq(Items)
  <2>1. wire \in Seq(Items) /\ "close" \in Items /\ "errhead" \in Items
    BY DEF TypeOK, TraceType, Items
  <2> QED
    BY <2>1, AppendProperties, EmptySeq
       DEF TypeOK, RuntimeType, SendingType, ConsumerType, Chunks, Items
<1>00. \A x \in Items : <<x>> \in Seq(Items)
  OBVIOUS
<1>1. CASE TakeDisconnect
  <2>1. RuntimeType' /\ SendingType' /\ closings' \in Seq(Closing)
    BY <1>0, <1>1, EndCancellingType DEF TakeDisconnect, OnClientDisconnect, Reasons
  <2>2. ConsumerType' /\ wire' \in Seq(Items)
    <3>1. CASE headersStarted
      BY <1>0, <1>1, <3>1, StopType DEF TakeDisconnect
    <3>2. CASE ~headersStarted
      <4>1. <<"end">> \in Seq(Items)
        BY <1>00 DEF Items
      <4> QED
        BY <1>0, <1>1, <3>2, <4>1, DeliverType DEF TakeDisconnect
    <3> QED
      BY <3>1, <3>2
  <2> QED
    BY <1>0, <1>1, <2>1, <2>2 DEF TypeOK, TakeDisconnect, TraceType
<1>2. CASE Tick
  <2>1. ConsumerType' /\ wire' \in Seq(Items)
    <3>1. CASE Delayed
      BY <1>0, <1>2, <3>1, EnterWaitType DEF Tick
    <3>2. CASE ~Delayed
      <4>1. <<"keepalive">> \in Seq(Items)
        BY <1>00 DEF Items
      <4> QED
        BY <1>0, <1>2, <3>2, <4>1, DeliverType DEF Tick
    <3> QED
      BY <3>1, <3>2
  <2> QED
    BY <1>0, <1>2, <2>1 DEF TypeOK, Tick, RuntimeType, SendingType, TraceType,
                            runtime, sending
<1>3. CASE TakeData
  <2>1. fetched \in Frames /\ <<fetched.tag>> \in Seq(Items)
    BY <1>0, <1>00, <1>3, FrameTags DEF TakeData, Taken, NoFrame, Frame
  <2>2. ConsumerType' /\ wire' \in Seq(Items)
    BY <1>0, <1>3, <2>1, DeliverType DEF TakeData, Taken
  <2> QED
    BY <1>0, <1>3, <2>2 DEF TypeOK, TakeData, Taken, RuntimeType, SendingType, TraceType,
                            runtime, sending
<1>4. CASE TakeFinish
  <2>1. fetched \in Frames
    BY <1>0, <1>4, FrameTags DEF TakeFinish, Taken, NoFrame, Frame
  <2>2. FinishSends \in Seq(Items) /\ FinishSends # <<>>
    <3>1. /\ <<"role">> \in Seq(Items) /\ <<"finish">> \in Seq(Items)
          /\ <<"usage">> \in Seq(Items) /\ <<"done">> \in Seq(Items)
      <4>1. {"role", "finish", "usage", "done"} \subseteq Items
        BY DEF Items, Chunks, Phases
      <4> QED
        BY <1>00, <4>1
    <3> QED
      BY <1>0, <3>1 DEF FinishSends
  <2>3. ConsumerType' /\ wire' \in Seq(Items)
    BY <1>0, <1>4, <2>1, <2>2, DeliverType DEF TakeFinish, Taken
  <2> QED
    BY <1>0, <1>4, <2>3 DEF TypeOK, TakeFinish, Taken, RuntimeType, SendingType, TraceType,
                            runtime, sending
<1>5. CASE TakeHttpError
  <2>1. fetched \in Frames
    BY <1>0, <1>5, FrameTags DEF TakeHttpError, Taken, NoFrame, Frame
  <2>2. <<"errhead", "errbody">> \in Seq(Items)
    BY DEF Items
  <2>3. ConsumerType'
    BY <1>0, <1>5, <2>1, <2>2, FrameTags DEF TakeHttpError, Taken, ConsumerType
  <2> QED
    BY <1>0, <1>5, <2>3 DEF TypeOK, TakeHttpError, RuntimeType, SendingType, TraceType,
                            runtime, sending
<1>6. CASE DropHttpError
  <2>1. ConsumerType'
    BY <1>0, <1>6, EnterWaitType DEF DropHttpError, Taken
  <2> QED
    BY <1>0, <1>6, <2>1 DEF TypeOK, DropHttpError, RuntimeType, SendingType, TraceType,
                            runtime, sending, trace
<1>7. CASE TakeHardAbort
  <2>1. fetched \in Frames /\ fetched.tag \in Reasons
    BY <1>0, <1>7, FrameTags DEF TakeHardAbort, Taken, NoFrame, Frame, Reasons
  <2>2. CASE headersStarted
    <3>1. RuntimeType' /\ SendingType' /\ closings' \in Seq(Closing)
      BY <1>0, <1>7, <2>1, <2>2, EndCancellingType DEF TakeHardAbort, OnHardAbort
    <3>2. ConsumerType'
      BY <1>0, <1>7, <2>2, StopType DEF TakeHardAbort, Taken
    <3> QED
      BY <1>0, <1>7, <2>2, <3>1, <3>2 DEF TypeOK, TakeHardAbort, TraceType
  <2>3. CASE ~headersStarted
    <3>1. ConsumerType' /\ wire' \in Seq(Items)
      BY <1>0, <1>7, <2>1, <2>3, DeliverType DEF TakeHardAbort, Taken
    <3> QED
      BY <1>0, <1>7, <2>3, <3>1
         DEF TypeOK, TakeHardAbort, Taken, RuntimeType, SendingType, TraceType
  <2> QED
    BY <2>2, <2>3
<1>8. CASE ConsumerCancelled
  <2>1. RuntimeType' /\ SendingType' /\ closings' \in Seq(Closing)
    BY <1>0, <1>8, EndCancellingType DEF ConsumerCancelled, OnClientDisconnect, Reasons
  <2>2. ConsumerType'
    BY <1>0, <1>8, StopType DEF ConsumerCancelled
  <2> QED
    BY <1>0, <1>8, <2>1, <2>2 DEF TypeOK, ConsumerCancelled, TraceType
<1>9. CASE ClientLeaves
  BY <1>0, <1>9 DEF TypeOK, ClientLeaves, RuntimeType, SendingType, ConsumerType,
                    TraceType, runtime, sending, trace
<1> QED
  BY <1>1, <1>2, <1>3, <1>4, <1>5, <1>6, <1>7, <1>8, <1>9 DEF Wakes

LEMMA SendReturnsType == TypeOK /\ SendReturns => TypeOK'
<1> SUFFICES ASSUME TypeOK, SendReturns PROVE TypeOK'
  OBVIOUS
<1>0. /\ RuntimeType /\ SendingType /\ ConsumerType /\ TraceType
      /\ fetched \in Frames \cup {NoFrame}
      /\ injection \in Injected
      /\ [injection EXCEPT !.applied = TRUE] \in Injected
      /\ queue \in Seq(Frames)
      /\ wire \in Seq(Items)
      /\ Append(wire, "close") \in Seq(Items)
  <2>1. wire \in Seq(Items) /\ "close" \in Items /\ injection \in Injected
    BY DEF TypeOK, RuntimeType, TraceType, Items
  <2>2. [injection EXCEPT !.applied = TRUE] \in Injected
    BY <2>1 DEF Injected
  <2> QED
    BY <2>1, <2>2, AppendProperties
       DEF TypeOK, RuntimeType, SendingType, ConsumerType
<1>1. ASSUME Returned
      PROVE  /\ sent' \in Seq(Chunks)
             /\ headersStarted' \in BOOLEAN
             /\ fetched' \in Frames \cup {NoFrame}
             /\ UNCHANGED <<fetched, disconnected, queue, meta, live, readOnly, script>>
  <2>1. Head(outbox) \in Chunks => Append(sent, Head(outbox)) \in Seq(Chunks)
    BY <1>0, AppendProperties DEF TraceType
  <2> QED
    BY <1>0, <1>1, <2>1 DEF Returned, ConsumerType, TraceType
<1>2. CASE SendNext
  <2>1. /\ outbox # <<>> /\ outbox \in Seq(Items) /\ Len(outbox) > 1
        /\ Len(outbox) \in Nat
    BY <1>0, <1>2, LenProperties, EmptySeq DEF SendNext, Returned, ConsumerType
  <2>2. outbox[2] \in Items
    BY <2>1, ElementOfSeq
  <2>3. Tail(outbox) \in Seq(Items) /\ Len(Tail(outbox)) # 0
    <3>1. /\ Tail(outbox) \in Seq(Items)
          /\ Len(Tail(outbox)) = Len(outbox) - 1
      BY <2>1, HeadTailProperties
    <3> QED
      BY <2>1, <3>1
  <2>4. Tail(outbox) # <<>>
    <3>1. Tail(outbox) = <<>> => Len(Tail(outbox)) = Len(<<>>)
      BY Zenon
    <3>2. Len(<<>>) = 0
      BY EmptySeq
    <3> QED
      BY <2>3, <3>1, <3>2, Zenon
  <2>5. wire' \in Seq(Items)
    BY <1>0, <1>2, <2>2, PutType DEF SendNext
  <2>6. ConsumerType'
    BY <1>0, <1>1, <1>2, <2>3, <2>4 DEF SendNext, Returned, ConsumerType
  <2>7. RuntimeType' /\ SendingType' /\ closings' \in Seq(Closing)
    BY <1>0, <1>1, <1>2 DEF SendNext, RuntimeType, SendingType, TraceType
  <2> QED
    BY <1>1, <1>2, <2>5, <2>6, <2>7 DEF TypeOK, SendNext, TraceType
<1>3. CASE KeepAliveSent \/ DataSent
  <2>1. Returned /\ EnterWait
    BY <1>3 DEF KeepAliveSent, DataSent, Sent
  <2>2. ConsumerType'
    BY <1>1, <2>1, EnterWaitType
  <2>3. UNCHANGED <<done, status, closings, injection, sender, todo, wire>>
    BY <1>3 DEF KeepAliveSent, DataSent
  <2> QED
    BY <1>0, <1>1, <2>1, <2>2, <2>3 DEF TypeOK, RuntimeType, SendingType, TraceType
<1>4. CASE DataSentAndCut
  <2>1. Returned /\ Stop /\ OnHardAbort("stream_cut_injected")
    BY <1>4 DEF DataSentAndCut, Sent
  <2>2. ConsumerType'
    BY <1>1, <2>1, StopType
  <2>3. RuntimeType' /\ SendingType' /\ closings' \in Seq(Closing)
    BY <1>0, <1>1, <1>4, <2>1, EndCancellingType DEF DataSentAndCut, OnHardAbort, Reasons
  <2> QED
    BY <1>0, <1>1, <1>4, <2>1, <2>2, <2>3 DEF TypeOK, DataSentAndCut, TraceType
<1>5. CASE FinishSent \/ HttpErrorSent
  <2>1. Returned /\ Stop /\ UNCHANGED <<injection, wire>>
    BY <1>5 DEF FinishSent, HttpErrorSent, Sent
  <2>2. ConsumerType'
    BY <1>1, <2>1, StopType
  <2>3. /\ current.kind = "finish" => current.tag \in Reasons
        /\ current.kind = "http_error" => current.tag \in Reasons
    BY <1>0, FrameTags
       DEF ConsumerType, NoFrame, KeepAliveFrame, GoneFrame, Frame, Reasons
  <2>4. /\ status' \in {"pending", "active", "completed", "aborted", "injected"}
        /\ done' \in BOOLEAN
        /\ closings' \in Seq(Closing)
        /\ UNCHANGED <<sender, todo>>
    BY <1>5, <2>3, EndingType
       DEF FinishSent, HttpErrorSent, Sent, OnStreamComplete, OnInjectedDelivered
  <2> QED
    BY <1>0, <1>1, <2>1, <2>2, <2>4 DEF TypeOK, RuntimeType, SendingType, TraceType
<1>6. CASE HardAbortHeadSent
  <2>1. Returned /\ Stop /\ OnHardAbort(current.tag)
    BY <1>6 DEF HardAbortHeadSent, Sent
  <2>2. ConsumerType'
    BY <1>1, <2>1, StopType
  <2>3. current.tag \in Reasons
    BY <1>0, <1>6, FrameTags
       DEF HardAbortHeadSent, Sent, ConsumerType, NoFrame, KeepAliveFrame, GoneFrame,
           Frame, Reasons
  <2>4. RuntimeType' /\ SendingType' /\ closings' \in Seq(Closing)
    BY <1>0, <1>1, <1>6, <2>1, <2>3, EndCancellingType DEF HardAbortHeadSent, OnHardAbort
  <2> QED
    BY <1>0, <1>1, <1>6, <2>1, <2>2, <2>4 DEF TypeOK, HardAbortHeadSent, TraceType
<1>7. CASE GoneSent
  <2>1. Returned /\ Stop
    BY <1>7 DEF GoneSent, Sent
  <2>2. ConsumerType'
    BY <1>1, <2>1, StopType
  <2> QED
    BY <1>0, <1>1, <1>7, <2>1, <2>2
       DEF TypeOK, GoneSent, RuntimeType, SendingType, TraceType
<1> QED
  BY <1>2, <1>3, <1>4, <1>5, <1>6, <1>7 DEF SendReturns

\* Every variable of a streaming exchange keeps its type, and the consumer is
\* in a send exactly while it has something to send (sse.py's loop).
THEOREM TypeCorrect == Spec => []TypeOK
<1>1. TypeOK /\ [Next]_vars => TypeOK'
  <2>1. CASE UNCHANGED vars
    BY <2>1 DEF TypeOK, RuntimeType, SendingType, ConsumerType, TraceType,
                vars, runtime, sending, consumer, trace
  <2> QED
    BY <2>1, OperatorType, SenderType, WakesType, SendReturnsType DEF Next, Environment
<1> QED
  BY InitType, <1>1, PTL DEF Spec

-----------------------------------------------------------------------------
(* The client's answer and the contract                                     *)

\* What the consumer still has to send, given the frame it sends it for.
SendInv ==
  /\ pc = "send" => wire # <<>> /\ wire[Len(wire)] = outbox[1]
  /\ current.kind = "http_error" =>
       \/ outbox = <<"errhead", "errbody">> /\ wire = <<"errhead">>
       \/ outbox = <<"errbody">> /\ wire = <<"errhead", "errbody">>
  /\ current.kind # "http_error" =>
       \A i \in 1..Len(outbox) : outbox[i] \notin {"errhead", "errbody"}
  /\ current.kind # "finish" =>
       \A i \in 1..Len(outbox) : outbox[i] \notin {"finish", "usage", "done"}
  /\ current.kind = "finish" =>
       \A i \in 1..Len(outbox) : outbox[i] = "done" <=> i = Len(outbox)
  /\ \A i \in 1..Len(outbox) : outbox[i] # "close"

\* What is on the wire, given what the consumer is doing.
WireInv ==
  /\ ~headersStarted /\ pc = "wait" => wire = <<>>
  /\ ~headersStarted /\ pc = "send" =>
       wire = <<outbox[1]>> /\ outbox[1] \in {"head", "errhead"}
  /\ On("errhead") => \/ current.kind = "http_error"
                      \/ pc = "ended" /\ OneResponse
  /\ On("finish") => current.kind = "finish" \/ pc = "ended"
  /\ On("done") => \/ current.kind = "finish" /\ Len(outbox) = 1
                   \/ pc = "ended"
  /\ On("close") => pc = "ended"

\* What the closing says of the wire.
ClosingInv ==
  /\ OneEnding
  /\ pc = "ended" => done
  /\ done => pc = "ended" \/ current = GoneFrame
  /\ current = GoneFrame => done /\ closings[1].reason = "client_disconnected"
  /\ done => CASE closings[1].reason \in {"whole", "partial"} ->
                    status = "completed" /\ On("done")
               [] closings[1].reason = "injected" ->
                    /\ status = "injected"
                    /\ On("errhead") /\ ~On("done") /\ ~On("close")
               [] closings[1].reason = "client_disconnected" ->
                    status = "aborted"
               [] OTHER ->
                    /\ status = "aborted"
                    /\ ~On("finish") /\ ~On("done")
                    /\ wire # <<>> /\ wire[Len(wire)] = "close"

SafetyInv == SendInv /\ WireInv /\ ClosingInv

-----------------------------------------------------------------------------
(* The wire grows at its end                                                *)

LEMMA Kinds ==
  /\ NoFrame.kind = "none" /\ KeepAliveFrame.kind = "keepalive"
  /\ GoneFrame.kind = "gone"
  /\ NoFrame # GoneFrame /\ KeepAliveFrame # GoneFrame
BY DEF NoFrame, KeepAliveFrame, GoneFrame, Frame

LEMMA AppendOn ==
  ASSUME wire \in Seq(Items), NEW x \in Items, wire' = Append(wire, x)
  PROVE  /\ wire' # <<>> /\ wire'[Len(wire')] = x
         /\ \A y : On(y)' <=> On(y) \/ y = x
<1>1. /\ Len(wire) \in Nat
      /\ Len(wire') = Len(wire) + 1
      /\ \A i \in 1..Len(wire) : wire'[i] = wire[i]
      /\ wire'[Len(wire) + 1] = x
  BY AppendProperties, LenProperties
<1>2. wire' # <<>>
  BY <1>1
<1>3. ASSUME NEW y PROVE On(y)' <=> On(y) \/ y = x
  <2>1. On(y)' => On(y) \/ y = x
    BY <1>1 DEF On
  <2>2. On(y) => On(y)'
    BY <1>1 DEF On
  <2>3. y = x => On(y)'
    BY <1>1 DEF On
  <2> QED
    BY <2>1, <2>2, <2>3
<1> QED
  BY <1>1, <1>2, <1>3

LEMMA PutOn ==
  ASSUME wire \in Seq(Items), NEW x \in Items, wire' = Put(wire, x)
  PROVE  /\ wire' # <<>> /\ wire'[Len(wire')] = x
         /\ \A y : On(y)' <=> On(y) \/ y = x
         /\ wire = <<>> => wire' = <<x>>
         /\ x # "keepalive" => wire' = Append(wire, x)
<1>1. CASE wire' = Append(wire, x)
  <2>1. wire = <<>> => wire' = <<x>>
    BY <1>1
  <2> QED
    BY <1>1, <2>1, AppendOn
<1>2. CASE wire' = wire /\ x = "keepalive" /\ wire # <<>> /\ wire[Len(wire)] = x
  <2>1. Len(wire) \in Nat /\ Len(wire) # 0
    BY <1>2, EmptySeq, LenProperties
  <2>2. On(x)
    BY <1>2, <2>1 DEF On
  <2> QED
    BY <1>2, <2>2 DEF On
<1> QED
  BY <1>1, <1>2 DEF Put

\* Nothing but headers and chunks precedes a wait.
LEMMA AtWait ==
  ASSUME TypeOK, SafetyInv, pc = "wait"
  PROVE  /\ current = NoFrame /\ outbox = <<>> /\ ~done
         /\ ~On("errhead") /\ ~On("finish") /\ ~On("done") /\ ~On("close")
BY Kinds DEF TypeOK, ConsumerType, SafetyInv, WireInv, ClosingInv

-----------------------------------------------------------------------------
(* Steps the consumer takes no part in                                      *)

LEMMA QuietSafe ==
  ASSUME SafetyInv,
         UNCHANGED <<pc, current, outbox, headersStarted, wire, closings, done>>,
         status' = status \/ (~done /\ status' \in {"pending", "active"})
  PROVE  SafetyInv'
<1>1. SendInv'
  BY DEF SafetyInv, SendInv
<1>2. WireInv'
  BY DEF SafetyInv, WireInv, OneResponse, On
<1>3. OneEnding'
  BY DEF SafetyInv, ClosingInv, OneEnding
<1>4. ClosingInv'
  BY <1>3 DEF SafetyInv, ClosingInv, OneEnding, On
<1> QED
  BY <1>1, <1>2, <1>4 DEF SafetyInv

LEMMA OthersSafe ==
  SafetyInv /\ (Operator \/ Sender \/ GetTask \/ ClientLeaves \/ Shutdown) => SafetyInv'
<1> SUFFICES ASSUME SafetyInv, Operator \/ Sender \/ GetTask \/ ClientLeaves \/ Shutdown
             PROVE  SafetyInv'
  OBVIOUS
<1>1. CASE Operator
  <2>1. UNCHANGED <<pc, current, outbox, headersStarted, wire, closings, done>>
    BY <1>1
       DEF Operator, Submit, SubmitFails, Accept, AbortGraceful, AbortHard, InjectCutNow,
           CutNow, InjectHttpError, InjectDelay, InjectCutAfter, Arm, LiveStart, LiveText,
           LiveToolCall, Relay, LiveFinish, PutReadOnly, runtime, consumer, trace
  <2>2. status' = status \/ (~done /\ status' \in {"pending", "active"})
    BY <1>1
       DEF Operator, Submit, SubmitFails, Accept, AbortGraceful, AbortHard, InjectCutNow,
           CutNow, InjectHttpError, InjectDelay, InjectCutAfter, Arm, LiveStart, LiveText,
           LiveToolCall, Relay, LiveFinish, PutReadOnly, Registered, runtime
  <2> QED
    BY <2>1, <2>2, QuietSafe
<1>2. CASE Sender \/ GetTask \/ ClientLeaves \/ Shutdown
  <2>1. UNCHANGED <<pc, current, outbox, headersStarted, wire, closings, done, status>>
    BY <1>2 DEF Sender, SenderEnds, SenderPauses, GetTask, ClientLeaves, Shutdown,
                runtime, consumer, trace
  <2> QED
    BY <2>1, QuietSafe
<1> QED
  BY <1>1, <1>2

-----------------------------------------------------------------------------
(* The consumer's steps                                                     *)

\* A delivery begun from a wait.
LEMMA DeliverSafe ==
  ASSUME TypeOK, SafetyInv, pc = "wait",
         NEW items \in Seq(Items),
         NEW frame \in Frames \cup {KeepAliveFrame, GoneFrame},
         items # <<>> \/ ~headersStarted,
         Deliver(frame, items),
         UNCHANGED headersStarted,
         frame.kind # "http_error",
         \A i \in 1..Len(items) : items[i] \notin {"errhead", "errbody", "close"},
         frame.kind # "finish" =>
           \A i \in 1..Len(items) : items[i] \notin {"finish", "usage", "done"},
         frame.kind = "finish" =>
           /\ Len(items) > 1
           /\ \A i \in 1..Len(items) : items[i] = "done" <=> i = Len(items)
  PROVE  SendInv' /\ WireInv'
<1> DEFINE sends == (IF headersStarted THEN <<>> ELSE <<"head">>) \o items
<1>1. /\ pc' = "send" /\ current' = frame /\ outbox' = sends
      /\ wire' = Put(wire, Head(sends))
  BY DEF Deliver
<1>2. /\ <<"head">> \in Seq(Items) /\ <<>> \in Seq(Items)
      /\ wire \in Seq(Items)
  BY EmptySeq DEF Items, TypeOK, TraceType
<1>3. sends \in Seq(Items) /\ sends # <<>>
  BY <1>2, ConcatProperties, ConcatEqualIffEmpty
<1>4. Head(sends) = sends[1] /\ sends[1] \in Items /\ Len(sends) \in Nat /\ Len(sends) > 0
  BY <1>3, ElementOfSeq, EmptySeq, LenProperties
<1>5. \A i \in 1..Len(sends) :
        IF headersStarted THEN sends[i] = items[i] /\ Len(sends) = Len(items)
        ELSE /\ Len(sends) = Len(items) + 1
             /\ IF i = 1 THEN sends[i] = "head" ELSE sends[i] = items[i - 1]
  <2>1. CASE headersStarted
    <3>1. sends = items
      BY <2>1, ConcatEmptySeq
    <3> QED
      BY <2>1, <3>1
  <2>2. CASE ~headersStarted
    <3>1. /\ Len(<<"head">>) = 1 /\ <<"head">>[1] = "head"
      OBVIOUS
    <3>2. sends = <<"head">> \o items
      BY <2>2
    <3>3. Len(items) \in Nat
      BY LenProperties
    <3> HIDE DEF sends
    <3>4. /\ Len(sends) = 1 + Len(items)
          /\ \A i \in 1..1 + Len(items) :
               sends[i] = IF i <= 1 THEN <<"head">>[i] ELSE items[i - 1]
      BY <1>2, <3>1, <3>2, ConcatProperties
    <3> QED
      BY <2>2, <3>1, <3>3, <3>4
  <2> QED
    BY <2>1, <2>2
<1> HIDE DEF sends
<1>6. /\ wire' # <<>> /\ wire'[Len(wire')] = sends[1]
      /\ \A y : On(y)' <=> On(y) \/ y = sends[1]
      /\ wire = <<>> => wire' = <<sends[1]>>
  BY <1>1, <1>2, <1>4, PutOn
<1>7. Len(items) \in Nat
  BY LenProperties
<1>8. SendInv'
  <2>1. \A i \in 1..Len(sends) :
          \/ sends[i] = "head" /\ i = 1 /\ ~headersStarted
          \/ \E j \in 1..Len(items) : sends[i] = items[j] /\ (j = Len(items) <=> i = Len(sends))
    BY <1>4, <1>5, <1>7
  <2>2. \A i \in 1..Len(sends) : sends[i] \notin {"errhead", "errbody", "close"}
    BY <2>1
  <2>3. frame.kind # "finish" =>
          \A i \in 1..Len(sends) : sends[i] \notin {"finish", "usage", "done"}
    BY <2>1
  <2>4. frame.kind = "finish" =>
          \A i \in 1..Len(sends) : sends[i] = "done" <=> i = Len(sends)
    <3> SUFFICES ASSUME frame.kind = "finish", NEW i \in 1..Len(sends)
                 PROVE  sends[i] = "done" <=> i = Len(sends)
      OBVIOUS
    <3>1. /\ Len(items) > 1
          /\ \A j \in 1..Len(items) : items[j] = "done" <=> j = Len(items)
      OBVIOUS
    <3>2. CASE headersStarted
      BY <1>5, <3>1, <3>2
    <3>3. CASE ~headersStarted
      BY <1>5, <1>7, <3>1, <3>3
    <3> QED
      BY <3>2, <3>3
  <2> QED
    BY <1>1, <1>6, <2>2, <2>3, <2>4 DEF SendInv
<1>9. sends[1] # "done"
  BY <1>4, <1>5, <1>7
<1>10. WireInv'
  BY <1>1, <1>4, <1>5, <1>6, <1>7, <1>9, AtWait DEF SafetyInv, WireInv
<1> QED
  BY <1>8, <1>10

\* The consumer goes back to its wait, having sent for a tick or for data.
LEMMA WaitAgainSafe ==
  ASSUME TypeOK, SafetyInv, EnterWait,
         current.kind \in {"none", "keepalive", "data"},
         headersStarted' \/ pc = "wait", pc # "ended",
         UNCHANGED <<wire, done, status, closings>>,
         ~headersStarted' => ~headersStarted
  PROVE  SafetyInv'
<1>1. outbox' = <<>> /\ Len(outbox') = 0 /\ pc' = "wait" /\ current' = NoFrame
  BY EmptySeq DEF EnterWait
<1>2. SendInv'
  BY <1>1, Kinds DEF SendInv
<1>3. pc # "ended" /\ ~done
  BY Kinds DEF SafetyInv, ClosingInv, TypeOK, ConsumerType
<1>4. WireInv'
  BY <1>1, <1>3 DEF SafetyInv, WireInv, On
<1>5. ClosingInv'
  BY <1>1, <1>3, Kinds DEF SafetyInv, ClosingInv, OneEnding
<1> QED
  BY <1>2, <1>4, <1>5 DEF SafetyInv

LEMMA Stopped ==
  ASSUME Stop
  PROVE  /\ pc' = "ended" /\ current' = NoFrame /\ outbox' = <<>> /\ Len(outbox') = 0
         /\ SendInv'
<1>1. pc' = "ended" /\ current' = NoFrame /\ outbox' = <<>> /\ Len(outbox') = 0
  BY EmptySeq DEF Stop
<1> QED
  BY <1>1, Kinds DEF SendInv

\* A closing, when the exchange was open and when it was not.
LEMMA EndingCases ==
  ASSUME TypeOK, SafetyInv, NEW s, NEW reason, Ending(s, reason)
  PROVE  /\ done' /\ Len(closings') = 1
         /\ done => UNCHANGED <<status, closings>>
         /\ ~done => /\ status' = s
                     /\ closings'[1].status = s /\ closings'[1].reason = reason
<1>1. CASE done
  BY <1>1 DEF Ending, SafetyInv, ClosingInv, OneEnding
<1>2. CASE ~done
  <2>1. closings = <<>>
    BY <1>2 DEF SafetyInv, ClosingInv, OneEnding
  <2>2. closings' = <<[status |-> s, reason |-> reason]>>
    BY <1>2, <2>1 DEF Ending
  <2>3. Len(closings') = 1 /\ closings'[1] = [status |-> s, reason |-> reason]
    BY <2>2
  <2> QED
    BY <1>2, <2>3 DEF Ending
<1> QED
  BY <1>1, <1>2

LEMMA DisconnectSafe ==
  ASSUME TypeOK, SafetyInv, pc # "ended", Stop, OnClientDisconnect, UNCHANGED wire
  PROVE  SafetyInv'
<1>1. /\ pc' = "ended" /\ current' = NoFrame /\ outbox' = <<>> /\ Len(outbox') = 0
      /\ SendInv'
  BY Stopped
<1>2. Ending("aborted", "client_disconnected")
  BY DEF OnClientDisconnect, EndCancelling
<1>3. /\ done' /\ Len(closings') = 1
      /\ status' = closings'[1].status /\ status' = "aborted"
      /\ closings'[1].reason = "client_disconnected"
  <2>1. CASE done
    <3>1. closings[1].reason = "client_disconnected" /\ status = closings[1].status
      BY <2>1 DEF SafetyInv, ClosingInv, OneEnding
    <3>2. status = "aborted"
      BY <2>1, <3>1 DEF SafetyInv, ClosingInv
    <3> QED
      BY <1>2, <2>1, <3>1, <3>2, EndingCases
  <2>2. CASE ~done
    BY <1>2, <2>2, EndingCases
  <2> QED
    BY <2>1, <2>2
<1>4. ClosingInv'
  BY <1>1, <1>3, Kinds DEF ClosingInv, OneEnding
<1>5. On("errhead")' => OneResponse'
  <2>1. On("errhead")' => On("errhead")
    BY DEF On
  <2>2. On("errhead") => wire \in {<<"errhead">>, <<"errhead", "errbody">>}
    BY DEF SafetyInv, SendInv, WireInv
  <2> QED
    BY <2>1, <2>2 DEF OneResponse
<1>6. WireInv'
  BY <1>1, <1>5 DEF WireInv
<1> QED
  BY <1>1, <1>4, <1>6 DEF SafetyInv

\* A hard abort or a cut severs a stream that has no ending.
LEMMA SeverSafe ==
  ASSUME TypeOK, SafetyInv, Stop, NEW reason,
         current.kind \in {"none", "data", "hard_abort"}, pc # "ended",
         reason \in {"operator_hard_abort", "stream_cut_injected"},
         OnHardAbort(reason), wire' = Append(wire, "close")
  PROVE  SafetyInv'
<1>1. /\ pc' = "ended" /\ current' = NoFrame /\ outbox' = <<>> /\ Len(outbox') = 0
      /\ SendInv'
  BY Stopped
<1>2. wire \in Seq(Items) /\ "close" \in Items
  BY DEF TypeOK, TraceType, Items
<1>3. /\ wire' # <<>> /\ wire'[Len(wire')] = "close"
      /\ \A y : On(y)' <=> On(y) \/ y = "close"
  BY <1>2, AppendOn
<1>4. ~done /\ ~On("errhead") /\ ~On("finish") /\ ~On("done")
  BY Kinds DEF SafetyInv, WireInv, ClosingInv
<1>5. Ending("aborted", reason)
  BY DEF OnHardAbort, EndCancelling
<1>6. /\ done' /\ Len(closings') = 1
      /\ status' = "aborted" /\ closings'[1].status = "aborted"
      /\ closings'[1].reason = reason
  BY <1>4, <1>5, EndingCases
<1>7. ClosingInv'
  BY <1>1, <1>3, <1>4, <1>6, Kinds DEF ClosingInv, OneEnding
<1>8. WireInv'
  BY <1>1, <1>3, <1>4 DEF WireInv
<1> QED
  BY <1>1, <1>7, <1>8 DEF SafetyInv

\* What a finish makes the consumer send.
LEMMA FinishItems ==
  /\ FinishSends \in Seq(Items) /\ FinishSends # <<>> /\ Len(FinishSends) > 1
  /\ \A i \in 1..Len(FinishSends) :
       /\ FinishSends[i] \notin {"errhead", "errbody", "close"}
       /\ FinishSends[i] = "done" <=> i = Len(FinishSends)
<1> DEFINE before == {"role", "finish", "usage"}
           lead   == IF sent = <<>> THEN <<"role">> ELSE <<>>
           usage  == IF IncludeUsage THEN <<"usage">> ELSE <<>>
           start  == lead \o <<"finish">> \o usage
<1>0. \A x \in before : <<x>> \in Seq(before)
  OBVIOUS
<1>11. before \subseteq Items /\ "done" \in Items
  BY DEF Items, Chunks, Phases
<1>12. <<"done">> \in Seq(Items)
  BY <1>11
<1>1. lead \in Seq(before) /\ <<"finish">> \in Seq(before) /\ usage \in Seq(before)
  BY <1>0, EmptySeq
<1>2. Len(<<"finish">>) = 1 /\ Len(<<"done">>) = 1 /\ <<"done">>[1] = "done"
  OBVIOUS
<1>3. FinishSends = start \o <<"done">>
  BY DEF FinishSends
<1> HIDE DEF lead, usage
<1>4. /\ lead \o <<"finish">> \in Seq(before)
      /\ Len(lead \o <<"finish">>) = Len(lead) + 1
  BY <1>1, <1>2, ConcatProperties
<1>5. start \in Seq(before) /\ Len(start) = Len(lead) + 1 + Len(usage)
  BY <1>1, <1>4, ConcatProperties
<1>6. Len(start) \in Nat /\ Len(start) > 0
  BY <1>1, <1>5, LenProperties
<1>7. \A i \in 1..Len(start) : start[i] \in before
  BY <1>5, ElementOfSeq
<1>8. start \in Seq(Items) /\ <<"done">> \in Seq(Items)
  BY <1>5, <1>11, <1>12, SeqMonotonic
<1> HIDE DEF start
<1>9. /\ FinishSends \in Seq(Items) /\ Len(FinishSends) = Len(start) + 1
      /\ \A i \in 1..Len(start) + 1 :
           FinishSends[i] = IF i <= Len(start) THEN start[i] ELSE <<"done">>[i - Len(start)]
  BY <1>2, <1>3, <1>8, ConcatProperties
<1>10. FinishSends # <<>>
  BY <1>6, <1>9, EmptySeq
<1> QED
  BY <1>2, <1>6, <1>7, <1>9, <1>10

LEMMA WakesSafe == TypeOK /\ SafetyInv /\ Wakes => SafetyInv'
<1> SUFFICES ASSUME TypeOK, SafetyInv, Wakes PROVE SafetyInv'
  OBVIOUS
<1>0. pc = "wait"
  BY DEF Wakes, TakeDisconnect, Tick, TakeData, TakeFinish, TakeHttpError, DropHttpError,
         TakeHardAbort, Taken, Waiting
<1>1. /\ current = NoFrame /\ outbox = <<>> /\ ~done
      /\ ~On("errhead") /\ ~On("finish") /\ ~On("done") /\ ~On("close")
  BY <1>0, AtWait
<1>2. \A x \in Items : <<x>> \in Seq(Items) /\ Len(<<x>>) = 1 /\ <<x>>[1] = x
  OBVIOUS
<1>3. {"end", "keepalive", "finish", "usage", "done", "role", "errhead", "errbody"} \subseteq Items
      /\ Phases \subseteq Items
  BY DEF Items, Chunks, Phases
\* What is still open after a delivery began from the wait.
<1>4. ASSUME SendInv', WireInv', pc' = "send", current' # GoneFrame,
             UNCHANGED <<done, status, closings>>
      PROVE  SafetyInv'
  BY <1>1, <1>4 DEF SafetyInv, ClosingInv, OneEnding
<1>5. CASE TakeDisconnect
  <2>1. CASE headersStarted
    BY <1>0, <1>5, <2>1, DisconnectSafe DEF TakeDisconnect
  <2>2. CASE ~headersStarted
    <3>1. Deliver(GoneFrame, <<"end">>) /\ UNCHANGED headersStarted
      BY <1>5, <2>2 DEF TakeDisconnect
    <3>2. <<"end">> \in Seq(Items) /\ Len(<<"end">>) = 1 /\ <<"end">>[1] = "end"
      BY <1>2, <1>3
    <3>3. \A i \in 1..Len(<<"end">>) : <<"end">>[i] = "end"
      BY <3>2
    <3>4. SendInv' /\ WireInv'
      BY <1>0, <2>2, <3>1, <3>2, <3>3, Kinds, DeliverSafe
    <3>5. Ending("aborted", "client_disconnected")
      BY <1>5 DEF TakeDisconnect, OnClientDisconnect, EndCancelling
    <3>6. /\ done' /\ Len(closings') = 1 /\ status' = "aborted"
          /\ closings'[1].status = "aborted"
          /\ closings'[1].reason = "client_disconnected"
      BY <1>1, <3>5, EndingCases
    <3>7. pc' = "send" /\ current' = GoneFrame
      BY <3>1 DEF Deliver
    <3>8. ClosingInv'
      BY <3>6, <3>7 DEF ClosingInv, OneEnding
    <3> QED
      BY <3>4, <3>8 DEF SafetyInv
  <2> QED
    BY <2>1, <2>2
<1>6. CASE Tick
  <2>1. UNCHANGED <<headersStarted, done, status, closings>>
    BY <1>6 DEF Tick, runtime
  <2>2. CASE Delayed
    BY <1>0, <1>1, <1>6, <2>1, <2>2, Kinds, WaitAgainSafe DEF Tick
  <2>3. CASE ~Delayed
    <3>1. Deliver(KeepAliveFrame, <<"keepalive">>)
      BY <1>6, <2>3 DEF Tick
    <3>2. /\ <<"keepalive">> \in Seq(Items) /\ Len(<<"keepalive">>) = 1
          /\ <<"keepalive">>[1] = "keepalive"
      BY <1>2, <1>3
    <3>3. \A i \in 1..Len(<<"keepalive">>) : <<"keepalive">>[i] = "keepalive"
      BY <3>2
    <3>4. <<"keepalive">> # <<>>
      OBVIOUS
    <3>5. SendInv' /\ WireInv'
      BY <1>0, <2>1, <3>1, <3>2, <3>3, <3>4, Kinds, DeliverSafe
    <3> QED
      BY <1>4, <2>1, <3>1, <3>5, Kinds DEF Deliver
  <2> QED
    BY <2>2, <2>3
<1>7. ASSUME NEW kind \in {"data", "finish", "http_error", "hard_abort"}, Taken(kind)
      PROVE  /\ fetched \in Frames /\ fetched # GoneFrame
             /\ fetched.kind = kind
             /\ kind = "data" => fetched.tag \in Phases
             /\ kind = "hard_abort" =>
                  fetched.tag \in {"operator_hard_abort", "stream_cut_injected"}
  <2>1. fetched \in Frames
    BY <1>7, Kinds DEF Taken, TypeOK, ConsumerType
  <2> QED
    BY <1>7, <2>1, FrameTags DEF Taken
<1>8. CASE TakeData
  <2>1. /\ fetched \in Frames /\ fetched # GoneFrame /\ fetched.kind = "data"
        /\ fetched.tag \in Phases
    BY <1>7, <1>8 DEF TakeData
  <2> DEFINE x == fetched.tag
  <2>2. /\ Deliver(fetched, <<x>>)
        /\ UNCHANGED <<headersStarted, done, status, closings>>
    BY <1>8 DEF TakeData, runtime
  <2>3. <<x>> \in Seq(Items) /\ Len(<<x>>) = 1 /\ <<x>>[1] = x /\ <<x>> # <<>>
    BY <1>2, <1>3, <2>1
  <2>4. x \notin {"errhead", "errbody", "close", "finish", "usage", "done"}
    BY <2>1 DEF Phases
  <2>5. \A i \in 1..Len(<<x>>) : <<x>>[i] = x
    BY <2>3
  <2> HIDE DEF x
  <2>6. SendInv' /\ WireInv'
    BY <1>0, <2>1, <2>2, <2>3, <2>4, <2>5, DeliverSafe
  <2> QED
    BY <1>4, <2>1, <2>2, <2>6 DEF Deliver
<1>9. CASE TakeFinish
  <2>1. fetched \in Frames /\ fetched # GoneFrame /\ fetched.kind = "finish"
    BY <1>7, <1>9 DEF TakeFinish
  <2>2. /\ Deliver(fetched, FinishSends)
        /\ UNCHANGED <<headersStarted, done, status, closings>>
    BY <1>9 DEF TakeFinish, runtime
  <2>4. SendInv' /\ WireInv'
    BY <1>0, <2>1, <2>2, FinishItems, DeliverSafe
  <2> QED
    BY <1>4, <2>1, <2>2, <2>4 DEF Deliver
<1>10. CASE TakeHttpError
  <2>1. fetched \in Frames /\ fetched # GoneFrame /\ fetched.kind = "http_error"
    BY <1>7, <1>10 DEF TakeHttpError
  <2>2. wire = <<>>
    BY <1>0, <1>10 DEF TakeHttpError, SafetyInv, WireInv
  <2>3. /\ pc' = "send" /\ current' = fetched /\ outbox' = <<"errhead", "errbody">>
        /\ wire' = <<"errhead">>
        /\ UNCHANGED <<headersStarted, done, status, closings>>
    BY <1>10, <2>2 DEF TakeHttpError, runtime
  <2>4. /\ Len(outbox') = 2 /\ outbox'[1] = "errhead" /\ outbox'[2] = "errbody"
        /\ wire' # <<>> /\ Len(wire') = 1 /\ wire'[1] = "errhead"
    BY <2>3
  <2>5. \A y : On(y)' <=> y = "errhead"
    BY <2>4 DEF On
  <2>6. SendInv'
    BY <2>1, <2>3, <2>4 DEF SendInv
  <2>7. WireInv'
    BY <2>1, <2>3, <2>4, <2>5 DEF WireInv
  <2> QED
    BY <1>4, <2>1, <2>3, <2>6, <2>7
<1>11. CASE DropHttpError
  BY <1>0, <1>1, <1>11, Kinds, WaitAgainSafe DEF DropHttpError, runtime, trace
<1>12. CASE TakeHardAbort
  <2>1. /\ fetched \in Frames /\ fetched # GoneFrame /\ fetched.kind = "hard_abort"
        /\ fetched.tag \in {"operator_hard_abort", "stream_cut_injected"}
    BY <1>7, <1>12 DEF TakeHardAbort
  <2>2. CASE headersStarted
    BY <1>0, <1>1, <1>12, <2>1, <2>2, Kinds, SeverSafe DEF TakeHardAbort
  <2>3. CASE ~headersStarted
    <3>1. /\ Deliver(fetched, <<>>)
          /\ UNCHANGED <<headersStarted, done, status, closings>>
      BY <1>12, <2>3 DEF TakeHardAbort
    <3>2. <<>> \in Seq(Items) /\ \A i \in 1..Len(<<>>) : FALSE
      BY EmptySeq
    <3>3. SendInv' /\ WireInv'
      BY <1>0, <2>1, <2>3, <3>1, <3>2, DeliverSafe
    <3> QED
      BY <1>4, <2>1, <3>1, <3>3 DEF Deliver
  <2> QED
    BY <2>2, <2>3
<1> QED
  BY <1>5, <1>6, <1>8, <1>9, <1>10, <1>11, <1>12 DEF Wakes

LEMMA SendReturnsSafe == TypeOK /\ SafetyInv /\ SendReturns => SafetyInv'
<1> SUFFICES ASSUME TypeOK, SafetyInv, SendReturns PROVE SafetyInv'
  OBVIOUS
<1>0. /\ pc = "send" /\ Returned
  BY DEF SendReturns, SendNext, KeepAliveSent, DataSent, DataSentAndCut, FinishSent,
         HttpErrorSent, HardAbortHeadSent, GoneSent, Sent, Returned
<1>1. /\ outbox \in Seq(Items) /\ outbox # <<>> /\ Len(outbox) \in Nat /\ Len(outbox) > 0
      /\ Head(outbox) = outbox[1]
      /\ wire \in Seq(Items) /\ wire # <<>> /\ wire[Len(wire)] = outbox[1]
  <2>1. /\ outbox \in Seq(Items) /\ outbox # <<>>
        /\ wire \in Seq(Items) /\ wire # <<>> /\ wire[Len(wire)] = outbox[1]
    BY <1>0 DEF TypeOK, ConsumerType, TraceType, SafetyInv, SendInv
  <2> QED
    BY <2>1, EmptySeq, LenProperties
<1>2. headersStarted'
  BY <1>0, <1>1 DEF Returned, SafetyInv, WireInv
<1>3. On(outbox[1])
  <2>1. Len(wire) \in 1..Len(wire)
    BY <1>1, EmptySeq, LenProperties
  <2> QED
    BY <1>1, <2>1 DEF On
<1>4. done => current = GoneFrame
  BY <1>0 DEF SafetyInv, ClosingInv
<1>5. /\ On("errhead") => current.kind = "http_error"
      /\ On("finish") => current.kind = "finish"
      /\ On("done") => current.kind = "finish" /\ Len(outbox) = 1
      /\ ~On("close")
  BY <1>0 DEF SafetyInv, WireInv
<1>6. CASE SendNext
  <2>1. /\ Len(outbox) > 1 /\ outbox' = Tail(outbox) /\ wire' = Put(wire, outbox[2])
        /\ UNCHANGED <<pc, current, done, status, closings>>
    BY <1>6 DEF SendNext
  <2>2. /\ Tail(outbox) \in Seq(Items)
        /\ Len(Tail(outbox)) = Len(outbox) - 1
        /\ \A i \in 1..Len(Tail(outbox)) : Tail(outbox)[i] = outbox[i + 1]
    BY <1>1, HeadTailProperties
  <2>3. outbox[2] \in Items
    BY <1>1, <2>1, ElementOfSeq
  <2>4. /\ wire' # <<>> /\ wire'[Len(wire')] = outbox[2]
        /\ \A y : On(y)' <=> On(y) \/ y = outbox[2]
        /\ outbox[2] # "keepalive" => wire' = Append(wire, outbox[2])
    BY <1>1, <2>1, <2>3, PutOn
  <2>5. /\ Len(outbox') = Len(outbox) - 1 /\ outbox'[1] = outbox[2]
        /\ \A i \in 1..Len(outbox') : i + 1 \in 1..Len(outbox) /\ outbox'[i] = outbox[i + 1]
    BY <1>1, <2>1, <2>2
  <2>6. current.kind = "http_error" =>
          outbox' = <<"errbody">> /\ wire' = <<"errhead", "errbody">>
    <3>1. current.kind = "http_error" =>
            outbox = <<"errhead", "errbody">> /\ wire = <<"errhead">>
      BY <2>1 DEF SafetyInv, SendInv
    <3>2. outbox = <<"errhead", "errbody">> /\ wire = <<"errhead">> =>
            outbox' = <<"errbody">> /\ wire' = <<"errhead", "errbody">>
      BY <2>1, <2>4
    <3> QED
      BY <3>1, <3>2
  <2>7. /\ current.kind # "http_error" =>
             \A i \in 1..Len(outbox) : outbox[i] \notin {"errhead", "errbody"}
        /\ current.kind # "finish" =>
             \A i \in 1..Len(outbox) : outbox[i] \notin {"finish", "usage", "done"}
        /\ current.kind = "finish" =>
             \A i \in 1..Len(outbox) : outbox[i] = "done" <=> i = Len(outbox)
        /\ \A i \in 1..Len(outbox) : outbox[i] # "close"
    BY DEF SafetyInv, SendInv
  <2>8. SendInv'
    <3>1. current.kind = "finish" =>
            \A i \in 1..Len(outbox') : outbox'[i] = "done" <=> i = Len(outbox')
      <4> SUFFICES ASSUME current.kind = "finish", NEW i \in 1..Len(outbox')
                   PROVE  outbox'[i] = "done" <=> i = Len(outbox')
        OBVIOUS
      <4>1. i + 1 \in 1..Len(outbox) /\ outbox'[i] = outbox[i + 1]
        BY <2>5
      <4>2. outbox[i + 1] = "done" <=> i + 1 = Len(outbox)
        BY <2>7, <4>1
      <4> QED
        BY <1>1, <2>5, <4>1, <4>2
    <3> QED
      BY <1>0, <2>1, <2>4, <2>5, <2>6, <2>7, <3>1 DEF SendInv
  <2>9. WireInv'
    <3>1. 2 \in 1..Len(outbox)
      BY <1>1, <2>1
    <3>2. outbox[2] # "close" /\ (outbox[2] = "errhead" => current.kind = "http_error")
          /\ (outbox[2] = "finish" => current.kind = "finish")
          /\ (outbox[2] = "done" => current.kind = "finish" /\ Len(outbox) = 2)
      BY <2>7, <3>1
    <3> QED
      BY <1>0, <1>1, <1>2, <1>5, <2>1, <2>4, <2>5, <3>2 DEF WireInv
  <2>10. ClosingInv'
    BY <1>0, <1>4, <2>1, Kinds DEF SafetyInv, ClosingInv, OneEnding
  <2> QED
    BY <2>8, <2>9, <2>10 DEF SafetyInv
<1>7. CASE KeepAliveSent \/ DataSent
  <2>1. /\ EnterWait /\ current.kind \in {"keepalive", "data"}
        /\ UNCHANGED <<wire, done, status, closings>>
    BY <1>7 DEF KeepAliveSent, DataSent, Sent
  <2> QED
    BY <1>0, <1>2, <2>1, WaitAgainSafe
<1>8. CASE DataSentAndCut
  BY <1>0, <1>8, SeverSafe DEF DataSentAndCut, Sent
<1>9. CASE HardAbortHeadSent
  <2>1. current.kind = "hard_abort"
    BY <1>9 DEF HardAbortHeadSent, Sent
  <2>2. current.tag \in {"operator_hard_abort", "stream_cut_injected"}
    BY <2>1, Kinds, FrameTags DEF TypeOK, ConsumerType
  <2> QED
    BY <1>0, <1>9, <2>1, <2>2, SeverSafe DEF HardAbortHeadSent
<1>10. CASE FinishSent
  <2>1. current.kind = "finish" /\ Len(outbox) = 1
    BY <1>10 DEF FinishSent, Sent
  <2>2. current.tag \in {"whole", "partial"} /\ current # GoneFrame
    BY <2>1, Kinds, FrameTags DEF TypeOK, ConsumerType
  <2>3. On("done")
    BY <1>1, <1>3, <2>1 DEF SafetyInv, SendInv
  <2>4. Stop /\ Ending("completed", current.tag) /\ UNCHANGED wire
    BY <1>10 DEF FinishSent, OnStreamComplete
  <2>5. /\ pc' = "ended" /\ current' = NoFrame /\ SendInv'
    BY <2>4, Stopped
  <2>6. /\ done' /\ Len(closings') = 1 /\ status' = "completed"
        /\ closings'[1].status = "completed" /\ closings'[1].reason = current.tag
    BY <1>4, <2>2, <2>4, EndingCases
  <2>7. ClosingInv'
    BY <2>2, <2>3, <2>4, <2>5, <2>6, Kinds DEF ClosingInv, OneEnding, On
  <2>8. WireInv'
    BY <1>5, <2>1, <2>4, <2>5 DEF WireInv, On
  <2> QED
    BY <2>5, <2>7, <2>8 DEF SafetyInv
<1>11. CASE HttpErrorSent
  <2>1. current.kind = "http_error" /\ Len(outbox) = 1
    BY <1>11 DEF HttpErrorSent, Sent
  <2>2. current.tag = "injected" /\ current # GoneFrame
    BY <2>1, Kinds, FrameTags DEF TypeOK, ConsumerType
  <2>3. wire = <<"errhead", "errbody">>
    <3>1. Len(<<"errhead", "errbody">>) = 2
      OBVIOUS
    <3> QED
      BY <2>1, <3>1 DEF SafetyInv, SendInv
  <2>4. Stop /\ Ending("injected", current.tag) /\ UNCHANGED wire
    BY <1>11 DEF HttpErrorSent, OnInjectedDelivered
  <2>5. /\ pc' = "ended" /\ current' = NoFrame /\ SendInv'
    BY <2>4, Stopped
  <2>6. /\ done' /\ Len(closings') = 1 /\ status' = "injected"
        /\ closings'[1].status = "injected" /\ closings'[1].reason = "injected"
    BY <1>4, <2>2, <2>4, EndingCases
  <2>7. On("errhead")'
    BY <2>3, <2>4 DEF On
  <2>8. ~On("done")' /\ ~On("close")'
    BY <1>5, <2>1, <2>4 DEF On
  <2>9. ClosingInv'
    BY <2>5, <2>6, <2>7, <2>8, Kinds DEF ClosingInv, OneEnding
  <2>10. OneResponse'
    BY <2>3, <2>4 DEF OneResponse
  <2>11. WireInv'
    BY <2>5, <2>10 DEF WireInv
  <2> QED
    BY <2>5, <2>9, <2>11 DEF SafetyInv
<1>12. CASE GoneSent
  <2>1. /\ Stop /\ current.kind = "gone"
        /\ UNCHANGED <<done, status, closings, wire>>
    BY <1>12 DEF GoneSent, Sent
  <2>2. current = GoneFrame
    BY <2>1, Kinds, FrameTags DEF TypeOK, ConsumerType
  <2>3. /\ pc' = "ended" /\ current' = NoFrame /\ SendInv'
    BY <2>1, Stopped
  <2>4. ClosingInv'
    BY <2>1, <2>2, <2>3, Kinds DEF SafetyInv, ClosingInv, OneEnding
  <2>5. WireInv'
    BY <1>5, <2>1, <2>3 DEF WireInv, On
  <2> QED
    BY <2>3, <2>4, <2>5 DEF SafetyInv
<1> QED
  BY <1>6, <1>7, <1>8, <1>9, <1>10, <1>11, <1>12 DEF SendReturns

-----------------------------------------------------------------------------
(* The invariant and what it gives                                          *)

LEMMA InitSafe == Init => SafetyInv
<1> SUFFICES ASSUME Init PROVE SafetyInv
  OBVIOUS
<1>1. Len(<<>>) = 0
  BY EmptySeq
<1>2. SendInv
  BY <1>1, Kinds DEF Init, SendInv
<1>3. WireInv
  BY <1>1 DEF Init, WireInv, On
<1>4. ClosingInv
  BY <1>1, Kinds DEF Init, ClosingInv, OneEnding
<1> QED
  BY <1>2, <1>3, <1>4 DEF SafetyInv

LEMMA NextSafe == TypeOK /\ SafetyInv /\ [Next]_vars => SafetyInv'
<1> SUFFICES ASSUME TypeOK, SafetyInv, [Next]_vars PROVE SafetyInv'
  OBVIOUS
<1>1. CASE ConsumerCancelled
  BY <1>1, DisconnectSafe DEF ConsumerCancelled
<1>2. CASE UNCHANGED vars
  BY <1>2, QuietSafe DEF vars, runtime, consumer, trace
<1> QED
  BY <1>1, <1>2, OthersSafe, WakesSafe, SendReturnsSafe DEF Next, Environment

THEOREM SafetyInvariant == Spec => [](TypeOK /\ SafetyInv)
<1> QED
  BY TypeCorrect, InitSafe, NextSafe, PTL DEF Spec

\* An exchange is closed once, with the status of the hook that closed it
\* (the `if rt.done: return` of every on_* hook, and a consumer that stops).
THEOREM OneEndingAlways == Spec => []OneEnding
<1>1. SafetyInv => OneEnding
  BY DEF SafetyInv, ClosingInv
<1> QED
  BY <1>1, SafetyInvariant, PTL

\* An injected HTTP error is the client's only response: it never follows the
\* headers of a stream and nothing follows it (sse.py's http_error frames).
THEOREM OneResponseAlways == Spec => []OneResponse
<1>1. SafetyInv => OneResponse
  BY DEF SafetyInv, SendInv, WireInv, OneResponse
<1> QED
  BY <1>1, SafetyInvariant, PTL

\* A hard abort and a cut leave a stream without a finish and without [DONE],
\* and the connection is severed (OperatorHardAbort).
THEOREM HardAbortTruncatesAlways == Spec => []HardAbortTruncates
<1>1. SafetyInv => HardAbortTruncates
  <2> SUFFICES ASSUME SafetyInv,
                      NEW i \in 1..Len(closings),
                      closings[i].reason \in {"operator_hard_abort", "stream_cut_injected"}
               PROVE  ~On("finish") /\ ~On("done") /\ wire[Len(wire)] = "close"
    BY DEF HardAbortTruncates, Closed
  <2>1. Len(<<>>) = 0
    BY EmptySeq
  <2>2. done /\ Len(closings) = 1
    BY <2>1 DEF SafetyInv, ClosingInv, OneEnding
  <2>3. closings[1].reason \in {"operator_hard_abort", "stream_cut_injected"}
    BY <2>2
  <2> QED
    BY <2>2, <2>3 DEF SafetyInv, ClosingInv
<1> QED
  BY <1>1, SafetyInvariant, PTL

-----------------------------------------------------------------------------
(* Refinement                                                               *)

LEMMA InvAgrees == SafetyInv => Contract!Agree
<1> SUFFICES ASSUME SafetyInv PROVE Contract!Agree
  OBVIOUS
<1>1. closings = <<>> <=> ~done
  <2>1. Len(<<>>) = 0
    BY EmptySeq
  <2> QED
    BY <2>1 DEF SafetyInv, ClosingInv, OneEnding
<1>2. ClientReply \in Contract!Replies
  BY DEF ClientReply, Contract!Replies
<1>3. CASE ~done
  BY <1>1, <1>2, <1>3 DEF ClosingCause, Contract!Agree, Contract!Agreeing
<1>4. CASE done
  <2>1. ClosingCause = "response" => ClientReply = "whole"
    BY <1>1, <1>4 DEF ClosingCause, ClientReply, SafetyInv, ClosingInv
  <2>2. ClosingCause = "injection" => ClientReply = "error"
    BY <1>1, <1>4 DEF ClosingCause, ClientReply, SafetyInv, ClosingInv
  <2>3. ClosingCause = "operator" => ClientReply \in {"cut", "error", "started", "none"}
    BY <1>1, <1>4 DEF ClosingCause, ClientReply, SafetyInv, ClosingInv
  <2>4. ClosingCause \in {"response", "injection", "operator", "disconnect"}
    BY <1>1, <1>4 DEF ClosingCause
  <2> QED
    BY <1>2, <2>1, <2>2, <2>3, <2>4 DEF Contract!Agree, Contract!Agreeing
<1> QED
  BY <1>3, <1>4

\* A step closes the exchange as its reason says, or leaves the closing alone
\* and activates the exchange at most.
LEMMA RowStep == TypeOK /\ SafetyInv /\ [Next]_vars => Contract!Row
<1> SUFFICES ASSUME TypeOK, SafetyInv, [Next]_vars PROVE Contract!Row
  OBVIOUS
<1>1. ASSUME UNCHANGED closings, status' = status \/ (status = "pending" /\ status' = "active")
      PROVE  Contract!Row
  BY <1>1 DEF Contract!Row, Contract!Activate, ClosingCause
<1>2. ASSUME NEW s, NEW reason, Ending(s, reason),
             \/ s = "completed" /\ reason \in {"whole", "partial"}
             \/ s = "injected" /\ reason = "injected"
             \/ s = "aborted" /\ reason \in {"operator_hard_abort", "stream_cut_injected",
                                             "client_disconnected"}
      PROVE  Contract!Row
  <2>1. CASE done
    BY <1>1, <1>2, <2>1 DEF Ending
  <2>2. CASE ~done
    <3>1. closings = <<>> /\ status \in Contract!Open
      BY <2>2 DEF SafetyInv, ClosingInv, OneEnding, Contract!Open
    <3>2. Len(closings') = 1 /\ closings'[1].reason = reason /\ status' = s
      BY <1>2, <2>2, EndingCases
    <3>3. closings' # <<>>
      BY <3>2, EmptySeq
    <3>4. ClosingCause' \in Contract!Causes \ {"none"} /\ s = Contract!StatusOf[ClosingCause']
      BY <1>2, <3>2, <3>3 DEF ClosingCause, Contract!Causes, Contract!StatusOf
    <3> QED
      BY <3>1, <3>2, <3>4 DEF Contract!Row, Contract!Close
  <2> QED
    BY <2>1, <2>2
<1>3. CASE Operator
  BY <1>1, <1>3
     DEF Operator, Submit, SubmitFails, Accept, AbortGraceful, AbortHard, InjectCutNow,
         CutNow, InjectHttpError, InjectDelay, InjectCutAfter, Arm, LiveStart, LiveText,
         LiveToolCall, Relay, LiveFinish, PutReadOnly, runtime, trace
<1>4. CASE Sender \/ GetTask \/ ClientLeaves \/ Shutdown \/ UNCHANGED vars
  BY <1>1, <1>4 DEF Sender, SenderEnds, SenderPauses, GetTask, ClientLeaves, Shutdown,
                    vars, runtime, trace
<1>5. CASE Tick \/ TakeData \/ TakeFinish \/ TakeHttpError \/ DropHttpError
           \/ SendNext \/ KeepAliveSent \/ DataSent \/ GoneSent
  BY <1>1, <1>5 DEF Tick, TakeData, TakeFinish, TakeHttpError, DropHttpError, SendNext,
                    KeepAliveSent, DataSent, GoneSent, runtime, trace
<1>6. CASE TakeDisconnect \/ ConsumerCancelled
  BY <1>2, <1>6 DEF TakeDisconnect, ConsumerCancelled, OnClientDisconnect, EndCancelling
<1>7. CASE DataSentAndCut
  BY <1>2, <1>7 DEF DataSentAndCut, OnHardAbort, EndCancelling
<1>8. CASE TakeHardAbort
  <2>1. fetched.tag \in {"operator_hard_abort", "stream_cut_injected"}
    BY <1>8, Kinds, FrameTags DEF TakeHardAbort, Taken, TypeOK, ConsumerType
  <2>2. CASE headersStarted
    BY <1>2, <1>8, <2>1, <2>2 DEF TakeHardAbort, OnHardAbort, EndCancelling
  <2>3. CASE ~headersStarted
    BY <1>1, <1>8, <2>3 DEF TakeHardAbort
  <2> QED
    BY <2>2, <2>3
<1>9. CASE HardAbortHeadSent
  <2>1. current.tag \in {"operator_hard_abort", "stream_cut_injected"}
    BY <1>9, Kinds, FrameTags DEF HardAbortHeadSent, Sent, TypeOK, ConsumerType
  <2> QED
    BY <1>2, <1>9, <2>1 DEF HardAbortHeadSent, OnHardAbort, EndCancelling
<1>10. CASE FinishSent
  <2>1. current.tag \in {"whole", "partial"}
    BY <1>10, Kinds, FrameTags DEF FinishSent, Sent, TypeOK, ConsumerType
  <2> QED
    BY <1>2, <1>10, <2>1 DEF FinishSent, OnStreamComplete
<1>11. CASE HttpErrorSent
  <2>1. current.tag = "injected"
    BY <1>11, Kinds, FrameTags DEF HttpErrorSent, Sent, TypeOK, ConsumerType
  <2> QED
    BY <1>2, <1>11, <2>1 DEF HttpErrorSent, OnInjectedDelivered
<1> QED
  BY <1>3, <1>4, <1>5, <1>6, <1>7, <1>8, <1>9, <1>10, <1>11
     DEF Next, Wakes, SendReturns, Environment

\* One item is put on the wire at most, and what it may follow.
LEMMA WireStep ==
  ASSUME TypeOK, SafetyInv, [Next]_vars
  PROVE  \/ UNCHANGED wire
         \/ \E x \in Items :
              /\ \A y : On(y)' <=> On(y) \/ y = x
              /\ ~On("close")
              /\ x \in {"done", "close"} => ~On("errhead")
              /\ x = "errhead" => ~On("head") /\ ~On("done")
<1>0. /\ wire \in Seq(Items) /\ outbox \in Seq(Items)
      /\ {"close", "errhead"} \subseteq Items
  BY DEF TypeOK, TraceType, ConsumerType, Items
<1>1. ASSUME pc = "wait", NEW items \in Seq(Items), NEW frame, Deliver(frame, items),
             items # <<>> \/ ~headersStarted,
             \A i \in 1..Len(items) : items[i] \notin {"errhead", "close"}
      PROVE  \E x \in Items :
               /\ \A y : On(y)' <=> On(y) \/ y = x
               /\ ~On("close") /\ ~On("errhead") /\ x # "errhead"
  <2> DEFINE sends == (IF headersStarted THEN <<>> ELSE <<"head">>) \o items
  <2>1. <<"head">> \in Seq(Items) /\ <<>> \in Seq(Items) /\ "head" \in Items
    BY EmptySeq DEF Items
  <2>2. Head(sends) \in Items /\ Head(sends) # "errhead"
    <3>1. CASE headersStarted
      <4>1. sends = items
        BY <3>1, ConcatEmptySeq
      <4>2. Len(items) \in Nat /\ Len(items) > 0 /\ items # <<>>
        BY <1>1, <3>1, EmptySeq, LenProperties
      <4>3. Head(items) = items[1] /\ items[1] \in Items
        BY <4>2, ElementOfSeq
      <4> HIDE DEF sends
      <4> QED
        BY <1>1, <4>1, <4>2, <4>3
    <3>2. CASE ~headersStarted
      <4>1. sends = <<"head">> \o items
        BY <3>2
      <4>2. Len(<<"head">>) = 1 /\ <<"head">>[1] = "head" /\ Len(items) \in Nat
        BY LenProperties
      <4> HIDE DEF sends
      <4>3. Len(sends) = 1 + Len(items) /\ sends[1] = "head" /\ sends \in Seq(Items)
        BY <2>1, <4>1, <4>2, ConcatProperties
      <4>4. Head(sends) = "head"
        BY <4>2, <4>3
      <4> QED
        BY <2>1, <4>4
    <3> QED
      BY <3>1, <3>2
  <2>3. wire' = Put(wire, Head(sends))
    BY <1>1 DEF Deliver
  <2> HIDE DEF sends
  <2> QED
    BY <1>0, <1>1, <2>2, <2>3, AtWait, PutOn
<1>2. ASSUME wire' = Append(wire, "close"), pc # "ended",
             current.kind \in {"none", "data", "hard_abort"}
      PROVE  \E x \in Items :
               /\ \A y : On(y)' <=> On(y) \/ y = x
               /\ ~On("close") /\ ~On("errhead") /\ x # "errhead"
  <2>1. ~On("close") /\ ~On("errhead")
    BY <1>2 DEF SafetyInv, WireInv
  <2> QED
    BY <1>0, <1>2, <2>1, AppendOn
<1>3. CASE Operator \/ Sender \/ GetTask \/ Environment \/ UNCHANGED vars
  BY <1>3
     DEF Operator, Submit, SubmitFails, Accept, AbortGraceful, AbortHard, InjectCutNow,
         CutNow, InjectHttpError, InjectDelay, InjectCutAfter, Arm, LiveStart, LiveText,
         LiveToolCall, Relay, LiveFinish, PutReadOnly, Sender, SenderEnds, SenderPauses,
         GetTask, Environment, ClientLeaves, ConsumerCancelled, Shutdown, vars, trace
<1>4. \A x \in Items : <<x>> \in Seq(Items) /\ Len(<<x>>) = 1 /\ <<x>>[1] = x /\ <<x>> # <<>>
  OBVIOUS
<1>5. CASE TakeDisconnect
  <2>1. CASE headersStarted
    BY <1>5, <2>1 DEF TakeDisconnect
  <2>2. CASE ~headersStarted
    <3>1. "end" \in Items /\ "end" \notin {"errhead", "close"}
      BY DEF Items
    <3>2. <<"end">> \in Seq(Items) /\ \A i \in 1..Len(<<"end">>) : <<"end">>[i] = "end"
      BY <1>4, <3>1
    <3>3. pc = "wait" /\ Deliver(GoneFrame, <<"end">>)
      BY <1>5, <2>2 DEF TakeDisconnect, Waiting
    <3> QED
      BY <1>1, <2>2, <3>1, <3>2, <3>3
  <2> QED
    BY <2>1, <2>2
<1>6. CASE Tick
  <2>1. CASE Delayed
    BY <1>6, <2>1 DEF Tick
  <2>2. CASE ~Delayed
    <3>1. "keepalive" \in Items /\ "keepalive" \notin {"errhead", "close"}
      BY DEF Items
    <3>2. /\ <<"keepalive">> \in Seq(Items) /\ <<"keepalive">> # <<>>
          /\ \A i \in 1..Len(<<"keepalive">>) : <<"keepalive">>[i] = "keepalive"
      BY <1>4, <3>1
    <3>3. pc = "wait" /\ Deliver(KeepAliveFrame, <<"keepalive">>)
      BY <1>6, <2>2 DEF Tick, Waiting
    <3> QED
      BY <1>1, <3>1, <3>2, <3>3
  <2> QED
    BY <2>1, <2>2
<1>7. CASE TakeData
  <2> DEFINE x == fetched.tag
  <2>1. x \in Phases
    BY <1>7, Kinds, FrameTags DEF TakeData, Taken, TypeOK, ConsumerType
  <2>2. x \in Items /\ x \notin {"errhead", "close"}
    BY <2>1 DEF Items, Chunks, Phases
  <2>3. pc = "wait" /\ Deliver(fetched, <<x>>)
    BY <1>7 DEF TakeData, Taken, Waiting
  <2> HIDE DEF x
  <2>4. /\ <<x>> \in Seq(Items) /\ <<x>> # <<>>
        /\ \A i \in 1..Len(<<x>>) : <<x>>[i] = x
    BY <1>4, <2>2
  <2> QED
    BY <1>1, <2>2, <2>3, <2>4
<1>8. CASE TakeFinish
  <2>1. pc = "wait" /\ Deliver(fetched, FinishSends)
    BY <1>8 DEF TakeFinish, Taken, Waiting
  <2> QED
    BY <1>1, <2>1, FinishItems
<1>9. CASE TakeHttpError
  <2>1. pc = "wait" /\ ~headersStarted /\ wire' = Append(wire, "errhead")
    BY <1>9 DEF TakeHttpError, Taken, Waiting
  <2>2. wire = <<>>
    BY <2>1 DEF SafetyInv, WireInv
  <2>3. ~On("head") /\ ~On("done") /\ ~On("close")
    <3>1. Len(<<>>) = 0
      BY EmptySeq
    <3> QED
      BY <2>2, <3>1 DEF On
  <2> QED
    BY <1>0, <2>1, <2>3, AppendOn
<1>10. CASE TakeHardAbort
  <2>1. pc = "wait" /\ current = NoFrame
    BY <1>10, AtWait DEF TakeHardAbort, Taken, Waiting
  <2>2. CASE headersStarted
    BY <1>2, <1>10, <2>1, <2>2, Kinds DEF TakeHardAbort
  <2>3. CASE ~headersStarted
    <3>1. <<>> \in Seq(Items) /\ \A i \in 1..Len(<<>>) : FALSE
      BY EmptySeq
    <3>2. Deliver(fetched, <<>>)
      BY <1>10, <2>3 DEF TakeHardAbort
    <3> QED
      BY <1>1, <2>1, <2>3, <3>1, <3>2
  <2> QED
    BY <2>2, <2>3
<1>11. CASE DropHttpError
  BY <1>11 DEF DropHttpError, trace
<1>12. CASE SendNext
  <2>1. pc = "send" /\ Len(outbox) > 1 /\ wire' = Put(wire, outbox[2])
    BY <1>12 DEF SendNext, Returned
  <2>2. Len(outbox) \in Nat /\ 2 \in 1..Len(outbox)
    BY <1>0, <2>1, LenProperties
  <2>3. outbox[2] \in Items
    BY <1>0, <2>2, ElementOfSeq
  <2>4. /\ outbox[2] # "close" /\ ~On("close")
        /\ outbox[2] = "done" => ~On("errhead")
        /\ outbox[2] # "errhead"
    <3>1. current.kind = "http_error" => outbox[2] = "errbody"
      <4>1. /\ Len(<<"errbody">>) = 1
            /\ <<"errhead", "errbody">>[2] = "errbody"
        OBVIOUS
      <4> QED
        BY <2>1, <4>1 DEF SafetyInv, SendInv
    <3> QED
      BY <2>1, <2>2, <3>1 DEF SafetyInv, SendInv, WireInv
  <2>5. \A y : On(y)' <=> On(y) \/ y = outbox[2]
    BY <1>0, <2>1, <2>3, PutOn
  <2> QED
    BY <2>3, <2>4, <2>5
<1>13. CASE DataSentAndCut \/ HardAbortHeadSent
  BY <1>2, <1>13 DEF DataSentAndCut, HardAbortHeadSent, Sent, Returned
<1>14. CASE KeepAliveSent \/ DataSent \/ FinishSent \/ HttpErrorSent \/ GoneSent
  BY <1>14 DEF KeepAliveSent, DataSent, FinishSent, HttpErrorSent, GoneSent
<1> QED
  BY <1>3, <1>5, <1>6, <1>7, <1>8, <1>9, <1>10, <1>11, <1>12, <1>13, <1>14
     DEF Next, Wakes, SendReturns

LEMMA RespondStep == TypeOK /\ SafetyInv /\ [Next]_vars => Contract!Respond
<1> SUFFICES ASSUME TypeOK, SafetyInv, [Next]_vars PROVE Contract!Respond
  OBVIOUS
<1>1. CASE UNCHANGED wire
  <2>1. \A x : On(x)' <=> On(x)
    BY <1>1 DEF On
  <2>2. ClientReply' = ClientReply
    BY <2>1 DEF ClientReply
  <2> QED
    BY <2>2 DEF Contract!Respond
<1>2. ASSUME NEW x \in Items,
             \A y : On(y)' <=> On(y) \/ y = x,
             ~On("close"),
             x \in {"done", "close"} => ~On("errhead"),
             x = "errhead" => ~On("head") /\ ~On("done")
      PROVE  Contract!Respond
  <2>1. \/ ClientReply' = ClientReply
        \/ ClientReply = "none" /\ ClientReply' \in {"started", "whole", "error", "cut"}
        \/ ClientReply = "started" /\ ClientReply' \in {"whole", "cut"}
    BY <1>2 DEF ClientReply
  <2> QED
    BY <2>1 DEF Contract!Respond, Contract!Follow
<1> QED
  BY <1>1, <1>2, WireStep

\* A streaming exchange keeps the contract: its row is closed once and never
\* contradicts what the client was handed, whose reply only moves forward.
THEOREM ImplementsContract == Spec => ContractSpec
<1>1. Init => Contract!Init
  <2>1. Len(<<>>) = 0
    BY EmptySeq
  <2> QED
    BY <2>1 DEF Init, Contract!Init, ClosingCause, ClientReply, On
<1>2. TypeOK /\ SafetyInv /\ (TypeOK /\ SafetyInv)' /\ [Next]_vars => [Contract!Next]_(Contract!vars)
  <2>1. SafetyInv' => Contract!Agree'
    BY InvAgrees, PTL
  <2> QED
    BY <2>1, RowStep, RespondStep DEF Contract!Next
<1> QED
  BY <1>1, <1>2, SafetyInvariant, PTL DEF Spec, ContractSpec, Contract!Spec

-----------------------------------------------------------------------------
(* Who may still add to the answer                                          *)

\* A draft and live mode exclude each other, and a sender has a draft behind it.
ModeInv ==
  /\ status = "pending" => sender = "none" /\ live = "off" /\ script = <<>>
  /\ sender # "none" => live = "off" /\ meta \in {"paced", "instant"} /\ script # <<>>
  /\ sender # "running" => todo = <<>>
  /\ meta = "live" => live # "off"
  /\ live # "off" => script # <<>>

\* The script opens with the role and keeps its phases in their order.
ScriptInv ==
  /\ script # <<>> => script[1] = "role"
  /\ \A i \in 2..Len(script) : script[i] # "role"
  /\ \A i, j \in 1..Len(script) : i < j => Rank[script[i]] =< Rank[script[j]]
  /\ live # "off" => \A i \in 1..Len(script) : Rank[script[i]] =< Rank[live]

LEMMA Ranks ==
  /\ \A x \in Phases : Rank[x] \in 1..4
  /\ \A x, y \in Phases : Rank[x] = Rank[y] => x = y
  /\ \A x \in Phases : Rank[x] =< Rank["tool"]
  /\ \A x \in Phases : Rank[x] > 1 <=> x # "role"
BY DEF Phases, Rank

\* The frames and the chunks of a plan, and what IsPlan says of them.
LEMMA PlanScript ==
  ASSUME NEW plan \in Plans
  PROVE  /\ Whats(plan) # <<>> /\ Whats(plan)[1] = "role"
         /\ \A i \in 2..Len(Whats(plan)) : Whats(plan)[i] # "role"
         /\ \A i, j \in 1..Len(Whats(plan)) :
              i < j => Rank[Whats(plan)[i]] =< Rank[Whats(plan)[j]]
<1>1. plan \in Seq(Step) /\ plan # <<>> /\ IsPlan(plan)
  BY PlansAssumption DEF IsPlan
<1>2. /\ Len(Whats(plan)) = Len(plan) /\ Whats(plan) \in Seq(Phases)
      /\ Len(plan) \in Nat /\ Len(plan) # 0
  BY <1>1, FramesOfPlan, EmptySeq, LenProperties
<1>3. \A i \in 1..Len(plan) : Whats(plan)[i] = plan[i].what /\ Whats(plan)[i] \in Phases
  BY <1>1, <1>2, ElementOfSeq DEF Whats
<1>4. Whats(plan) # <<>>
  BY <1>2, EmptySeq
<1>5. Whats(plan)[1] = "role"
  BY <1>1, <1>2, <1>3 DEF IsPlan
<1>6. \A i \in 2..Len(plan) : Whats(plan)[i] # "role"
  BY <1>1, <1>2, <1>3, Ranks DEF IsPlan
<1>7. \A i, j \in 1..Len(plan) : i < j => Rank[Whats(plan)[i]] =< Rank[Whats(plan)[j]]
  BY <1>1, <1>3 DEF IsPlan
<1> QED
  BY <1>2, <1>4, <1>5, <1>6, <1>7

\* Live mode goes on at the phase it is in, or at a later one.
LEMMA ScriptGrows ==
  ASSUME TypeOK, ScriptInv, live # "off", script # <<>>,
         NEW x \in Phases \ {"role"}, Rank[x] >= Rank[live],
         NEW whats \in Seq({x}),
         script' = script \o whats, live' = x
  PROVE  ScriptInv' /\ script' # <<>>
<1>1. /\ script \in Seq(Phases) /\ live \in Phases
      /\ whats \in Seq(Phases)
      /\ Len(script) \in Nat /\ Len(script) # 0 /\ Len(whats) \in Nat
      /\ \A i \in 1..Len(whats) : whats[i] = x
  <2>1. script \in Seq(Phases) /\ live \in Phases
    BY DEF TypeOK, RuntimeType
  <2>2. \A i \in 1..Len(whats) : whats[i] = x
    BY ElementOfSeq
  <2>3. whats \in Seq(Phases)
    BY SeqMonotonic
  <2> QED
    BY <2>1, <2>2, <2>3, EmptySeq, LenProperties
<1>2. /\ script' \in Seq(Phases) /\ Len(script') = Len(script) + Len(whats)
      /\ \A i \in 1..Len(script) + Len(whats) :
           script'[i] = IF i =< Len(script) THEN script[i] ELSE whats[i - Len(script)]
  BY <1>1, ConcatProperties
<1>3. \A i \in 1..Len(script') :
        \/ i =< Len(script) /\ script'[i] = script[i]
        \/ i > Len(script) /\ script'[i] = x
  BY <1>1, <1>2
<1>4. \A i \in 1..Len(script) : script[i] \in Phases
  BY <1>1, ElementOfSeq
<1>5. /\ Rank[live] \in Int /\ Rank[x] \in Int
      /\ \A i \in 1..Len(script) : Rank[script[i]] \in Int /\ Rank[script[i]] =< Rank[x]
  <2>1. \A y \in Phases : Rank[y] \in Int
    BY Ranks
  <2>2. \A i \in 1..Len(script) : Rank[script[i]] =< Rank[live]
    BY DEF ScriptInv
  <2>3. Rank[live] \in Int /\ Rank[x] \in Int
    BY <1>1, <2>1
  <2>4. \A i \in 1..Len(script) : Rank[script[i]] \in Int
    BY <1>4, <2>1
  <2> QED
    BY <2>2, <2>3, <2>4
<1>6. script' # <<>>
  BY <1>1, <1>2, EmptySeq
<1>7. script'[1] = "role"
  BY <1>1, <1>2, <1>3 DEF ScriptInv
<1>8. \A i \in 2..Len(script') : script'[i] # "role"
  BY <1>1, <1>2, <1>3 DEF ScriptInv
<1>9. \A i, j \in 1..Len(script') : i < j => Rank[script'[i]] =< Rank[script'[j]]
  BY <1>1, <1>2, <1>3, <1>5 DEF ScriptInv
<1>10. \A i \in 1..Len(script') : Rank[script'[i]] =< Rank[live']
  BY <1>3, <1>5
<1> QED
  BY <1>6, <1>7, <1>8, <1>9, <1>10 DEF ScriptInv

\* What a step that asks for nothing more does to both.
LEMMA ScriptKept == ScriptInv /\ UNCHANGED <<script, live>> => ScriptInv'
BY DEF ScriptInv

LEMMA ModeKept ==
  ASSUME TypeOK, ModeInv, UNCHANGED <<script, live, meta>>,
         \/ UNCHANGED <<sender, todo>>
         \/ sender = "running" /\ sender' # "none" /\ (sender' = "running" \/ todo' = <<>>),
         status' = "pending" => status = "pending"
  PROVE  ModeInv'
BY DEF ModeInv

LEMMA ScriptSafe ==
  TypeOK /\ SafetyInv /\ ModeInv /\ ScriptInv /\ [Next]_vars => ModeInv' /\ ScriptInv'
<1> SUFFICES ASSUME TypeOK, SafetyInv, ModeInv, ScriptInv, [Next]_vars
             PROVE  ModeInv' /\ ScriptInv'
  OBVIOUS
<1>0. /\ script \in Seq(Phases)
      /\ \A s \in Seq(Phases) : <<>> \o s = s
  BY ConcatEmptySeq DEF TypeOK, RuntimeType
<1>1. ASSUME CancelSender
      PROVE  \/ UNCHANGED <<sender, todo>>
             \/ sender = "running" /\ sender' = "cancelled" /\ todo' = <<>>
  BY <1>1 DEF CancelSender
<1>2. ASSUME NEW mode \in {"paced", "instant"}, NEW plan \in Plans, Submit(mode, plan)
      PROVE  ModeInv' /\ ScriptInv'
  <2>1. /\ status = "pending" /\ status' = "active" /\ meta' = mode
        /\ script' = script \o Whats(plan) /\ sender' = "running"
        /\ UNCHANGED live
    BY <1>2 DEF Submit, Accept
  <2>2. live = "off" /\ script = <<>>
    BY <2>1 DEF ModeInv
  <2>3. Whats(plan) \in Seq(Phases)
    BY PlanType, FramesOfPlan
  <2>4. script' = Whats(plan)
    BY <1>0, <2>1, <2>2, <2>3
  <2> QED
    BY <2>1, <2>2, <2>4, PlanScript DEF ModeInv, ScriptInv
<1>3. ASSUME NEW mode \in {"paced", "instant"}, SubmitFails(mode)
      PROVE  ModeInv' /\ ScriptInv'
  <2>1. /\ status = "pending" /\ status' = "active" /\ meta' = mode
        /\ UNCHANGED <<script, sender, todo, live>>
    BY <1>3 DEF SubmitFails, Accept
  <2> QED
    BY <2>1, ScriptKept DEF ModeInv
<1>4. CASE AbortGraceful
  <2>1. /\ CancelSender /\ meta' = IF meta = "none" THEN "aborted_draft" ELSE meta
        /\ UNCHANGED <<status, live, script>>
    BY <1>4 DEF AbortGraceful
  <2> QED
    BY <1>1, <2>1, ScriptKept DEF ModeInv
<1>5. ASSUME UNCHANGED <<script, live, meta>>,
             UNCHANGED <<sender, todo>> \/ CancelSender,
             status' = "pending" => status = "pending"
      PROVE  ModeInv' /\ ScriptInv'
  BY <1>1, <1>5, ModeKept, ScriptKept
<1>6. CASE AbortHard \/ InjectCutNow \/ InjectHttpError \/ InjectDelay \/ PutReadOnly
           \/ \E n \in CutAfter : InjectCutAfter(n)
  BY <1>5, <1>6
     DEF AbortHard, InjectCutNow, CutNow, InjectHttpError, InjectDelay, InjectCutAfter,
         Arm, PutReadOnly, runtime, sending
<1>7. CASE LiveStart
  <2>1. /\ status = "pending" /\ status' = "active" /\ live' = "role"
        /\ script' = script \o <<"role">>
        /\ UNCHANGED <<meta, sender, todo>>
    BY <1>7 DEF LiveStart, Relay
  <2>2. script = <<>> /\ sender = "none" /\ todo = <<>> /\ meta # "live"
    BY <2>1 DEF ModeInv
  <2>3. <<"role">> \in Seq(Phases) /\ Len(<<"role">>) = 1 /\ <<"role">>[1] = "role"
    BY DEF Phases
  <2>4. script' = <<"role">>
    BY <1>0, <2>1, <2>2, <2>3
  <2>5. Len(script') = 1 /\ script'[1] = "role" /\ script' # <<>>
    BY <2>3, <2>4
  <2>6. Rank["role"] = 1
    BY DEF Rank
  <2>7. ScriptInv'
    BY <2>1, <2>5, <2>6 DEF ScriptInv
  <2> QED
    BY <2>1, <2>2, <2>5, <2>7 DEF ModeInv
<1>8. ASSUME Live, NEW x \in Phases \ {"role"}, Rank[x] >= Rank[live], live' = x,
             NEW whats \in Seq({x}), Relay(whats), UNCHANGED <<status, meta>>
      PROVE  ModeInv' /\ ScriptInv'
  <2>1. /\ live # "off" /\ script # <<>> /\ script' = script \o whats
        /\ UNCHANGED <<sender, todo>>
    BY <1>8 DEF Live, Relay, ModeInv
  <2>2. ScriptInv' /\ script' # <<>>
    BY <1>8, <2>1, ScriptGrows
  <2> QED
    BY <1>8, <2>1, <2>2 DEF ModeInv, Phases
<1>9. ASSUME NEW field \in {"reasoning", "content"}, LiveText(field)
      PROVE  ModeInv' /\ ScriptInv'
  <2>1. field \in Phases \ {"role"} /\ <<field>> \in Seq({field})
    BY DEF Phases
  <2> QED
    BY <1>8, <1>9, <2>1 DEF LiveText
<1>10. ASSUME NEW chunks \in 1..2, LiveToolCall(chunks)
       PROVE  ModeInv' /\ ScriptInv'
  <2> DEFINE whats == [i \in 1..chunks |-> "tool"]
  <2>1. "tool" \in Phases \ {"role"} /\ whats \in Seq({"tool"})
    BY SeqDef DEF Phases
  <2>2. Rank["tool"] >= Rank[live]
    <3>1. live \in Phases
      BY <1>10 DEF LiveToolCall, Live, TypeOK, RuntimeType
    <3> QED
      BY <3>1, Ranks
  <2>3. Live /\ live' = "tool" /\ Relay(whats) /\ UNCHANGED <<status, meta>>
    BY <1>10 DEF LiveToolCall
  <2> HIDE DEF whats
  <2> QED
    BY <1>8, <2>1, <2>2, <2>3
<1>11. CASE LiveFinish
  <2>1. live # "off" /\ meta' = "live" /\ UNCHANGED <<status, live, script, sender, todo>>
    BY <1>11 DEF LiveFinish, Live
  <2> QED
    BY <2>1, ScriptKept DEF ModeInv
<1>12. CASE Sender \/ Shutdown
  <2>1. /\ sender = "running" /\ sender' # "none"
        /\ sender' = "running" \/ todo' = <<>>
        /\ UNCHANGED <<script, live, meta, status>>
    BY <1>12 DEF Sender, SenderEnds, SenderPauses, Shutdown, runtime
  <2> QED
    BY <2>1, ModeKept, ScriptKept
<1>13. ASSUME NEW s \in {"completed", "aborted", "injected"}, NEW reason, Ending(s, reason)
       PROVE  status' = "pending" => status = "pending"
  BY <1>13 DEF Ending
<1>14. CASE TakeDisconnect \/ ConsumerCancelled
  <2>1. /\ EndCancelling("client_disconnected") /\ UNCHANGED <<script, live, meta>>
    BY <1>14 DEF TakeDisconnect, ConsumerCancelled, OnClientDisconnect
  <2> QED
    BY <1>5, <1>13, <2>1 DEF EndCancelling
<1>15. CASE GetTask \/ ClientLeaves \/ Tick \/ TakeData \/ TakeFinish \/ TakeHttpError
            \/ DropHttpError \/ UNCHANGED vars
  BY <1>5, <1>15
     DEF GetTask, ClientLeaves, Tick, TakeData, TakeFinish, TakeHttpError, DropHttpError,
         runtime, sending, vars
<1>16. CASE TakeHardAbort
  <2>1. UNCHANGED <<script, live, meta>>
    BY <1>16 DEF TakeHardAbort
  <2>2. EndCancelling(fetched.tag) \/ UNCHANGED <<status, sender, todo>>
    BY <1>16 DEF TakeHardAbort, OnHardAbort
  <2> QED
    BY <1>5, <1>13, <2>1, <2>2 DEF EndCancelling
<1>17. CASE SendReturns
  <2>1. UNCHANGED <<script, live, meta>>
    BY <1>17 DEF SendReturns, SendNext, KeepAliveSent, DataSent, DataSentAndCut, FinishSent,
                 HttpErrorSent, HardAbortHeadSent, GoneSent, Sent, Returned
  <2>2. \/ UNCHANGED <<status, sender, todo>>
        \/ \E reason : EndCancelling(reason)
        \/ /\ \E s \in {"completed", "injected"} : \E reason : Ending(s, reason)
           /\ UNCHANGED <<sender, todo>>
    BY <1>17 DEF SendReturns, SendNext, KeepAliveSent, DataSent, DataSentAndCut, FinishSent,
                 HttpErrorSent, HardAbortHeadSent, GoneSent, OnHardAbort, OnStreamComplete,
                 OnInjectedDelivered
  <2> QED
    BY <1>5, <1>13, <2>1, <2>2 DEF EndCancelling
<1> QED
  BY <1>2, <1>3, <1>4, <1>6, <1>7, <1>9, <1>10, <1>11, <1>12, <1>14, <1>15, <1>16, <1>17
     DEF Next, Operator, Wakes, Environment

-----------------------------------------------------------------------------
(* What the consumer is sending                                             *)

Clean == {"head", "keepalive"} \cup Phases

\* The sends of one frame; nothing but headers, keep-alives and data is on the
\* wire before an ending; a tick is for an exchange that has sent no chunk.
OutboxInv ==
  /\ current.kind = "data" =>
       /\ current.tag \in Phases
       /\ outbox \in {<<current.tag>>, <<"head", current.tag>>}
  /\ current.kind = "keepalive" => outbox \in {<<"keepalive">>, <<"head", "keepalive">>}
  /\ current.kind = "gone" => outbox \in {<<"end">>, <<"head", "end">>}
  /\ current.kind = "hard_abort" => outbox = <<"head">>
  /\ current.kind = "finish" =>
       \A i \in 1..Len(outbox) : outbox[i] \in Chunks \/ (i = 1 /\ outbox[i] = "head")
  /\ current.kind \notin {"none", "keepalive", "gone"} => fetched = NoFrame
  /\ pc # "ended" /\ current.kind \in {"none", "keepalive", "data", "hard_abort"} =>
       \A y \in Items : On(y) => y \in Clean
  /\ tick => pc = "wait" /\ sent = <<>>

LEMMA OutboxKept ==
  ASSUME OutboxInv, UNCHANGED <<pc, tick, fetched, current, outbox, wire, sent>>
  PROVE  OutboxInv'
BY DEF OutboxInv, On

\* The consumer sends the headers first, when it has not yet.
LEMMA DeliverSends ==
  ASSUME NEW x \in Items, NEW frame, Deliver(frame, <<x>>)
  PROVE  /\ pc' = "send" /\ current' = frame /\ ~tick'
         /\ outbox' = IF headersStarted THEN <<x>> ELSE <<"head", x>>
         /\ wire' = Put(wire, IF headersStarted THEN x ELSE "head")
<1>1. CASE headersStarted
  BY <1>1, Tuples DEF Deliver
<1>2. CASE ~headersStarted
  BY <1>2, Tuples DEF Deliver
<1> QED
  BY <1>1, <1>2

\* From a wait to a send: what is on the wire then.
LEMMA DeliverClean ==
  ASSUME TypeOK, SafetyInv, OutboxInv, pc = "wait",
         NEW x \in Items, wire' = Put(wire, x)
  PROVE  \A y \in Items : On(y)' => y \in Clean \/ y = x
<1>1. current.kind = "none"
  BY AtWait, Kinds
<1>2. \A y : On(y)' <=> On(y) \/ y = x
  BY PutOn DEF TypeOK, TraceType
<1> QED
  BY <1>1, <1>2 DEF OutboxInv

LEMMA OutboxWakes ==
  ASSUME TypeOK, SafetyInv, OutboxInv, Wakes
  PROVE  OutboxInv'
<1>0. pc = "wait"
  BY DEF Wakes, TakeDisconnect, Tick, TakeData, TakeFinish, TakeHttpError, DropHttpError,
         TakeHardAbort, Taken, Waiting
<1>1. current = NoFrame /\ outbox = <<>>
  BY <1>0, AtWait
<1>2. /\ "head" \in Items /\ "keepalive" \in Items /\ "end" \in Items
      /\ Phases \subseteq Items /\ Phases \subseteq Chunks /\ Chunks \subseteq Items
      /\ "head" \in Clean /\ "keepalive" \in Clean /\ Phases \subseteq Clean
  BY DEF Items, Chunks, Clean
<1>3. ASSUME Stop PROVE OutboxInv'
  BY <1>3, Kinds DEF Stop, OutboxInv
<1>4. ASSUME EnterWait, UNCHANGED <<wire, sent>> PROVE OutboxInv'
  BY <1>0, <1>1, <1>4, Kinds DEF EnterWait, OutboxInv, On
<1>5. CASE TakeDisconnect
  <2>1. CASE headersStarted
    BY <1>3, <1>5, <2>1 DEF TakeDisconnect
  <2>2. CASE ~headersStarted
    <3>1. Deliver(GoneFrame, <<"end">>)
      BY <1>5, <2>2 DEF TakeDisconnect
    <3>2. pc' = "send" /\ current' = GoneFrame /\ ~tick' /\ outbox' = <<"head", "end">>
      BY <1>2, <2>2, <3>1, DeliverSends
    <3> QED
      BY <3>2, Kinds DEF OutboxInv
  <2> QED
    BY <2>1, <2>2
<1>6. CASE Tick
  <2>1. CASE Delayed
    BY <1>4, <1>6, <2>1 DEF Tick
  <2>2. CASE ~Delayed
    <3>1. Deliver(KeepAliveFrame, <<"keepalive">>)
      BY <1>6, <2>2 DEF Tick
    <3>2. /\ pc' = "send" /\ current' = KeepAliveFrame /\ ~tick'
          /\ outbox' \in {<<"keepalive">>, <<"head", "keepalive">>}
          /\ \E x \in {"head", "keepalive"} : wire' = Put(wire, x)
      BY <1>2, <3>1, DeliverSends
    <3>3. \A y \in Items : On(y)' => y \in Clean
      BY <1>0, <1>2, <3>2, DeliverClean
    <3> QED
      BY <3>2, <3>3, Kinds DEF OutboxInv
  <2> QED
    BY <2>1, <2>2
<1>7. ASSUME NEW kind \in {"data", "finish", "http_error", "hard_abort"}, Taken(kind)
      PROVE  /\ fetched \in Frames /\ fetched.kind = kind /\ fetched' = NoFrame
             /\ kind = "data" => fetched.tag \in Phases
  <2>1. fetched \in Frames
    BY <1>7, Kinds DEF Taken, TypeOK, ConsumerType
  <2> QED
    BY <1>7, <2>1, FrameTags DEF Taken
<1>8. CASE TakeData
  <2>1. fetched.kind = "data" /\ fetched.tag \in Phases /\ fetched' = NoFrame
    BY <1>7, <1>8 DEF TakeData
  <2>2. Deliver(fetched, <<fetched.tag>>)
    BY <1>8 DEF TakeData
  <2>3. /\ pc' = "send" /\ current' = fetched /\ ~tick'
        /\ outbox' \in {<<fetched.tag>>, <<"head", fetched.tag>>}
        /\ \E x \in {"head", fetched.tag} : wire' = Put(wire, x)
    BY <1>2, <2>1, <2>2, DeliverSends
  <2>4. \A y \in Items : On(y)' => y \in Clean
    BY <1>0, <1>2, <2>1, <2>3, DeliverClean
  <2> QED
    BY <2>1, <2>3, <2>4 DEF OutboxInv
<1>9. CASE TakeFinish
  <2>1. fetched.kind = "finish" /\ fetched' = NoFrame
    BY <1>7, <1>9 DEF TakeFinish
  <2>2. Deliver(fetched, FinishSends)
    BY <1>9 DEF TakeFinish
  <2>3. /\ pc' = "send" /\ current' = fetched /\ ~tick'
        /\ outbox' = (IF headersStarted THEN <<>> ELSE <<"head">>) \o FinishSends
    BY <2>2 DEF Deliver
  <2>4. FinishSends \in Seq(Chunks)
    <3>1. /\ <<"role">> \in Seq(Chunks) /\ <<"finish">> \in Seq(Chunks)
          /\ <<"usage">> \in Seq(Chunks) /\ <<"done">> \in Seq(Chunks)
          /\ <<>> \in Seq(Chunks)
      BY EmptySeq DEF Chunks, Phases
    <3> QED
      BY <3>1, ConcatProperties DEF FinishSends
  <2>5. \A i \in 1..Len(outbox') : outbox'[i] \in Chunks \/ (i = 1 /\ outbox'[i] = "head")
    <3> DEFINE fs == FinishSends
    <3>1. Len(fs) \in Nat /\ \A i \in 1..Len(fs) : fs[i] \in Chunks
      BY <2>4, ElementOfSeq, LenProperties
    <3>2. fs \in Seq(Items)
      BY <1>2, <2>4, SeqMonotonic
    <3> HIDE DEF fs
    <3>3. CASE headersStarted
      <4>1. outbox' = fs
        BY <2>3, <3>2, <3>3, ConcatEmptySeq DEF fs
      <4> QED
        BY <3>1, <4>1
    <3>4. CASE ~headersStarted
      <4>1. /\ <<"head">> \in Seq(Items) /\ Len(<<"head">>) = 1 /\ <<"head">>[1] = "head"
        BY <1>2
      <4>2. outbox' = <<"head">> \o fs
        BY <2>3, <3>4 DEF fs
      <4>3. /\ Len(outbox') = 1 + Len(fs)
            /\ \A i \in 1..1 + Len(fs) :
                 outbox'[i] = IF i =< 1 THEN <<"head">>[i] ELSE fs[i - 1]
        BY <3>2, <4>1, <4>2, ConcatProperties
      <4> QED
        BY <3>1, <4>1, <4>3
    <3> QED
      BY <3>3, <3>4
  <2> QED
    BY <2>1, <2>3, <2>5 DEF OutboxInv
<1>10. CASE TakeHttpError
  <2>1. fetched.kind = "http_error" /\ fetched' = NoFrame
    BY <1>7, <1>10 DEF TakeHttpError
  <2>2. pc' = "send" /\ current' = fetched /\ ~tick'
    BY <1>10 DEF TakeHttpError
  <2> QED
    BY <2>1, <2>2 DEF OutboxInv
<1>11. CASE DropHttpError
  BY <1>4, <1>11 DEF DropHttpError, trace
<1>12. CASE TakeHardAbort
  <2>1. fetched.kind = "hard_abort" /\ fetched' = NoFrame
    BY <1>7, <1>12 DEF TakeHardAbort
  <2>2. CASE headersStarted
    BY <1>3, <1>12, <2>2 DEF TakeHardAbort
  <2>3. CASE ~headersStarted
    <3>1. Deliver(fetched, <<>>)
      BY <1>12, <2>3 DEF TakeHardAbort
    <3>2. <<"head">> \o <<>> = <<"head">> /\ Head(<<"head">>) = "head"
      OBVIOUS
    <3>3. /\ pc' = "send" /\ current' = fetched /\ ~tick' /\ outbox' = <<"head">>
          /\ wire' = Put(wire, "head")
      BY <2>3, <3>1, <3>2 DEF Deliver
    <3>4. \A y \in Items : On(y)' => y \in Clean
      BY <1>0, <1>2, <3>3, DeliverClean
    <3> QED
      BY <2>1, <3>3, <3>4 DEF OutboxInv
  <2> QED
    BY <2>2, <2>3
<1> QED
  BY <1>5, <1>6, <1>8, <1>9, <1>10, <1>11, <1>12 DEF Wakes

\* What a send that returns leaves to be sent.
LEMMA AfterSend ==
  ASSUME TypeOK, SafetyInv, pc = "send"
  PROVE  /\ outbox \in Seq(Items) /\ outbox # <<>> /\ Len(outbox) \in Nat \ {0}
         /\ Head(outbox) = outbox[1] /\ outbox[1] \in Items
         /\ Tail(outbox) \in Seq(Items) /\ Len(Tail(outbox)) = Len(outbox) - 1
         /\ \A i \in 1..Len(Tail(outbox)) : Tail(outbox)[i] = outbox[i + 1]
         /\ wire \in Seq(Items) /\ wire # <<>> /\ wire[Len(wire)] = outbox[1]
<1>1. /\ outbox \in Seq(Items) /\ outbox # <<>>
      /\ wire \in Seq(Items) /\ wire # <<>> /\ wire[Len(wire)] = outbox[1]
  BY DEF TypeOK, ConsumerType, TraceType, SafetyInv, SendInv
<1>2. Len(outbox) \in Nat \ {0}
  BY <1>1, EmptySeq
<1>3. outbox[1] \in Items /\ Head(outbox) = outbox[1]
  BY <1>1, <1>2, ElementOfSeq
<1> QED
  BY <1>1, <1>2, <1>3, HeadTailProperties

LEMMA OutboxSendReturns ==
  ASSUME TypeOK, SafetyInv, OutboxInv, SendReturns
  PROVE  OutboxInv'
<1>0. pc = "send" /\ UNCHANGED fetched
  BY DEF SendReturns, SendNext, KeepAliveSent, DataSent, DataSentAndCut, FinishSent,
         HttpErrorSent, HardAbortHeadSent, GoneSent, Sent, Returned
<1>1. CASE SendNext
  <2>1. /\ Len(outbox) > 1 /\ outbox' = Tail(outbox) /\ wire' = Put(wire, outbox[2])
        /\ UNCHANGED <<pc, tick, current>>
    BY <1>1 DEF SendNext
  <2>2. ~tick
    BY <1>0 DEF OutboxInv
  <2>3. outbox \in Seq(Items) /\ outbox[2] \in Items
    BY <1>0, <2>1, AfterSend, ElementOfSeq
  <2>4. ASSUME NEW x, NEW y, outbox \in {<<y>>, <<x, y>>}
        PROVE  outbox[2] = y /\ outbox' = <<y>>
    <3>1. Len(<<y>>) = 1 /\ <<x, y>>[2] = y /\ Tail(<<x, y>>) = <<y>>
      BY Tuples
    <3>2. outbox = <<x, y>>
      BY <2>1, <2>4, <3>1
    <3> QED
      BY <2>1, <3>1, <3>2
  <2>5. \A y : On(y)' <=> On(y) \/ y = outbox[2]
    BY <2>1, <2>3, PutOn DEF TypeOK, TraceType
  <2>6. CASE current.kind = "data"
    <3>1. /\ current.tag \in Phases /\ outbox' = <<current.tag>>
          /\ outbox[2] = current.tag
      BY <2>4, <2>6 DEF OutboxInv
    <3> QED
      BY <1>0, <2>1, <2>2, <2>5, <2>6, <3>1 DEF OutboxInv, Clean
  <2>7. CASE current.kind = "keepalive"
    <3>1. outbox' = <<"keepalive">> /\ outbox[2] = "keepalive"
      BY <2>4, <2>7 DEF OutboxInv
    <3> QED
      BY <1>0, <2>1, <2>2, <2>5, <2>7, <3>1 DEF OutboxInv, Clean
  <2>8. CASE current.kind = "gone"
    <3>1. outbox' = <<"end">>
      BY <2>4, <2>8 DEF OutboxInv
    <3> QED
      BY <1>0, <2>1, <2>2, <2>8, <3>1 DEF OutboxInv
  <2>9. CASE current.kind = "hard_abort"
    BY <2>1, <2>9 DEF OutboxInv
  <2>10. CASE current.kind = "finish"
    <3>1. \A i \in 1..Len(outbox') : outbox'[i] \in Chunks
      <4>1. \A i \in 1..Len(outbox') : /\ i + 1 \in 1..Len(outbox) /\ i + 1 # 1
                                       /\ outbox'[i] = outbox[i + 1]
        BY <1>0, <2>1, AfterSend
      <4> QED
        BY <2>10, <4>1 DEF OutboxInv
    <3> QED
      BY <1>0, <2>1, <2>2, <2>10, <3>1 DEF OutboxInv
  <2>11. CASE current.kind = "http_error"
    BY <1>0, <2>1, <2>2, <2>11 DEF OutboxInv
  <2>12. current # NoFrame
    BY <1>0 DEF TypeOK, ConsumerType
  <2> QED
    BY <2>6, <2>7, <2>8, <2>9, <2>10, <2>11, <2>12, Kinds, FrameTags
       DEF TypeOK, ConsumerType
<1>2. CASE KeepAliveSent \/ DataSent
  <2>1. EnterWait /\ UNCHANGED wire /\ current.kind \in {"keepalive", "data"}
    BY <1>2 DEF KeepAliveSent, DataSent, Sent
  <2> QED
    BY <1>0, <2>1, Kinds DEF EnterWait, OutboxInv, On
<1>3. CASE DataSentAndCut \/ FinishSent \/ HttpErrorSent \/ HardAbortHeadSent \/ GoneSent
  <2>1. Stop
    BY <1>3 DEF DataSentAndCut, FinishSent, HttpErrorSent, HardAbortHeadSent, GoneSent
  <2> QED
    BY <2>1, Kinds DEF Stop, OutboxInv
<1> QED
  BY <1>1, <1>2, <1>3 DEF SendReturns

LEMMA OutboxSafe == TypeOK /\ SafetyInv /\ OutboxInv /\ [Next]_vars => OutboxInv'
<1> SUFFICES ASSUME TypeOK, SafetyInv, OutboxInv, [Next]_vars PROVE OutboxInv'
  OBVIOUS
<1>1. CASE Operator \/ Sender \/ Shutdown \/ ClientLeaves \/ UNCHANGED vars
  <2>1. UNCHANGED <<pc, tick, fetched, current, outbox, wire, sent>>
    BY <1>1 DEF Operator, Submit, SubmitFails, Accept, AbortGraceful, AbortHard,
         InjectCutNow, CutNow, InjectHttpError, InjectDelay, InjectCutAfter, Arm,
         LiveStart, LiveText, LiveToolCall, Relay, LiveFinish, PutReadOnly, Sender,
         SenderEnds, SenderPauses, Shutdown, ClientLeaves, vars, consumer, trace
  <2> QED
    BY <2>1, OutboxKept
<1>2. CASE GetTask
  <2>1. /\ current.kind \in {"none", "keepalive", "gone"}
        /\ UNCHANGED <<pc, tick, current, outbox, wire, sent>>
    BY <1>2, AtWait, Kinds DEF GetTask, trace
  <2> QED
    BY <2>1 DEF OutboxInv, On
<1>3. CASE ConsumerCancelled
  BY <1>3, Kinds DEF ConsumerCancelled, Stop, OutboxInv
<1> QED
  BY <1>1, <1>2, <1>3, OutboxWakes, OutboxSendReturns DEF Next, Environment

-----------------------------------------------------------------------------
(* The steps there are, as the wire and the log see them                    *)

QuietStep  == UNCHANGED <<pc, current, outbox, wire, sent>> /\ (done => UNCHANGED status)
BeginStep  == /\ pc = "wait" /\ pc' = "send" /\ UNCHANGED sent
              /\ outbox'[1] \in Items /\ wire' = Put(wire, outbox'[1])
WaitStep   == pc = "wait" /\ pc' = "wait" /\ UNCHANGED <<wire, sent>>
BackStep   == /\ (KeepAliveSent \/ DataSent) /\ Len(outbox) = 1
              /\ pc' = "wait" /\ Returned /\ UNCHANGED wire
StopStep   == /\ pc' = "ended" /\ wire' \in {wire, Append(wire, "close")}
              /\ \/ pc = "wait" /\ UNCHANGED sent
                 \/ Len(outbox) = 1 /\ Returned
CancelStep == /\ pc # "ended" /\ pc' = "ended" /\ UNCHANGED <<wire, sent>>
              /\ status' = "aborted"

LEMMA ConsumerSteps ==
  ASSUME TypeOK, SafetyInv, [Next]_vars
  PROVE  QuietStep \/ BeginStep \/ WaitStep \/ SendNext \/ BackStep \/ StopStep \/ CancelStep
<1>0. TypeOK' /\ SafetyInv'
  <2>1. SafetyInv'
    BY NextSafe
  <2>2. TypeOK'
    BY OperatorType, SenderType, WakesType, SendReturnsType
       DEF Next, Environment, TypeOK, RuntimeType, SendingType, ConsumerType, TraceType,
           vars, runtime, sending, consumer, trace
  <2> QED
    BY <2>1, <2>2
<1>1. CASE Operator \/ Sender \/ GetTask \/ Shutdown \/ ClientLeaves \/ UNCHANGED vars
  BY <1>1 DEF Operator, Submit, SubmitFails, Accept, Registered, AbortGraceful, AbortHard,
       InjectCutNow, CutNow, InjectHttpError, InjectDelay, InjectCutAfter, Arm,
       LiveStart, LiveText, LiveToolCall, Live, Relay, LiveFinish, PutReadOnly, Sender,
       SenderEnds, SenderPauses, GetTask, Shutdown, ClientLeaves, vars, runtime, consumer,
       trace, QuietStep
<1>2. CASE Wakes
  <2>1. pc = "wait" /\ UNCHANGED sent
    BY <1>2 DEF Wakes, TakeDisconnect, Tick, TakeData, TakeFinish, TakeHttpError,
         DropHttpError, TakeHardAbort, Taken, Waiting, trace
  <2>2. ASSUME NEW frame, NEW items, Deliver(frame, items) PROVE BeginStep
    <3>1. pc' = "send" /\ wire' = Put(wire, Head(outbox'))
      BY <2>2 DEF Deliver
    <3>2. outbox' \in Seq(Items) /\ outbox' # <<>>
      BY <1>0, <3>1 DEF TypeOK, ConsumerType
    <3>3. Head(outbox') = outbox'[1] /\ Head(outbox') \in Items
      BY <3>2, HeadTailProperties
    <3> QED
      BY <2>1, <3>1, <3>3 DEF BeginStep
  <2>3. ASSUME EnterWait, UNCHANGED wire PROVE WaitStep
    BY <2>1, <2>3 DEF EnterWait, WaitStep
  <2>4. ASSUME Stop, wire' \in {wire, Append(wire, "close")} PROVE StopStep
    BY <2>1, <2>4 DEF Stop, StopStep
  <2>5. CASE TakeHttpError
    <3>1. pc' = "send" /\ outbox' = <<"errhead", "errbody">> /\ wire' = Append(wire, "errhead")
      BY <2>5 DEF TakeHttpError
    <3>2. outbox'[1] = "errhead" /\ "errhead" \in Items
      BY <3>1, Tuples DEF Items
    <3> QED
      BY <2>1, <3>1, <3>2 DEF BeginStep, Put
  <2> QED
    BY <1>2, <2>2, <2>3, <2>4, <2>5
       DEF Wakes, TakeDisconnect, Tick, TakeData, TakeFinish, DropHttpError, TakeHardAbort,
           trace
<1>3. CASE SendReturns
  <2>1. ASSUME KeepAliveSent \/ DataSent PROVE BackStep
    BY <2>1 DEF KeepAliveSent, DataSent, EnterWait, Sent, BackStep
  <2>2. ASSUME DataSentAndCut \/ FinishSent \/ HttpErrorSent \/ HardAbortHeadSent \/ GoneSent
        PROVE  StopStep
    BY <2>2 DEF DataSentAndCut, FinishSent, HttpErrorSent, HardAbortHeadSent, GoneSent,
                Sent, Stop, StopStep
  <2> QED
    BY <1>3, <2>1, <2>2 DEF SendReturns
<1>4. CASE ConsumerCancelled
  <2>1. /\ pc # "ended" /\ pc' = "ended" /\ UNCHANGED <<wire, sent>>
        /\ Ending("aborted", "client_disconnected")
    BY <1>4 DEF ConsumerCancelled, OnClientDisconnect, EndCancelling, Stop
  <2>2. done => status = "aborted"
    BY <2>1 DEF SafetyInv, ClosingInv
  <2>3. status' = "aborted"
    BY <2>1, <2>2, EndingCases
  <2> QED
    BY <2>1, <2>3 DEF CancelStep
<1> QED
  BY <1>1, <1>2, <1>3, <1>4 DEF Next, Environment

-----------------------------------------------------------------------------
(* The chunk_sent log                                                       *)

\* The log is short of the wire by the chunk that is being sent, or was when
\* the request was cancelled.
LogInv ==
  /\ pc = "wait" => ChunksOn(wire) = sent
  /\ pc = "send" => ChunksOn(wire) = IF outbox[1] \in Chunks THEN Append(sent, outbox[1])
                                                              ELSE sent
  /\ pc = "ended" => \/ ChunksOn(wire) = sent
                     \/ /\ status = "aborted"
                        /\ \E x \in Chunks : ChunksOn(wire) = Append(sent, x)

\* Repeated keep-alives are one; what a test of other items sees is Append.
LEMMA PutSelected ==
  ASSUME NEW w \in Seq(Items), NEW x \in Items, NEW K, "keepalive" \notin K
  PROVE  Selected(Put(w, x), K) = IF x \in K THEN Append(Selected(w, K), x)
                                             ELSE Selected(w, K)
<1>1. Put(w, x) = Append(w, x) \/ (x = "keepalive" /\ Put(w, x) = w)
  BY DEF Put
<1> QED
  BY <1>1, SelectedAppend

LEMMA ChunkItems ==
  /\ Phases \subseteq Chunks /\ Chunks \subseteq Items
  /\ "keepalive" \notin Chunks /\ "keepalive" \notin Phases
  /\ "close" \notin Chunks /\ "close" \notin Phases /\ "close" \in Items
  /\ {"head", "errhead", "errbody", "end"} \cap Chunks = {}
BY DEF Items, Chunks, Phases

\* What a send that returned adds to the log.
LEMMA Logged ==
  ASSUME TypeOK, SafetyInv, Returned
  PROVE  sent' = IF outbox[1] \in Chunks THEN Append(sent, outbox[1]) ELSE sent
BY AfterSend DEF Returned

LEMMA LogSafe == TypeOK /\ SafetyInv /\ LogInv /\ [Next]_vars => LogInv'
<1> SUFFICES ASSUME TypeOK, SafetyInv, LogInv, [Next]_vars PROVE LogInv'
  OBVIOUS
<1>0. wire \in Seq(Items) /\ sent \in Seq(Chunks) /\ pc \in {"wait", "send", "ended"}
  BY DEF TypeOK, TraceType, ConsumerType
<1>1. CASE QuietStep
  <2>1. pc = "ended" => done
    BY DEF SafetyInv, ClosingInv
  <2>2. UNCHANGED <<pc, outbox, wire, sent>> /\ (done => UNCHANGED status)
    BY <1>1 DEF QuietStep
  <2>3. ChunksOn(wire)' = ChunksOn(wire)
    BY <2>2 DEF ChunksOn
  <2> QED
    BY <2>1, <2>2, <2>3 DEF LogInv
<1>2. CASE BeginStep
  <2>1. /\ pc = "wait" /\ pc' = "send" /\ UNCHANGED sent
        /\ outbox'[1] \in Items /\ wire' = Put(wire, outbox'[1])
    BY <1>2 DEF BeginStep
  <2>2. ChunksOn(wire') = IF outbox'[1] \in Chunks THEN Append(ChunksOn(wire), outbox'[1])
                                                   ELSE ChunksOn(wire)
    BY <1>0, <2>1, PutSelected, ChunkItems DEF ChunksOn
  <2>3. ChunksOn(wire) = sent
    BY <2>1 DEF LogInv
  <2> QED
    BY <2>1, <2>2, <2>3 DEF LogInv
<1>3. CASE WaitStep
  <2>1. ChunksOn(wire)' = ChunksOn(wire)
    BY <1>3 DEF WaitStep, ChunksOn
  <2> QED
    BY <1>3, <2>1 DEF WaitStep, LogInv
<1>4. ASSUME Returned PROVE ChunksOn(wire) = sent'
  BY <1>4, Logged DEF LogInv, Returned
<1>5. CASE SendNext
  <2>1. /\ Returned /\ Len(outbox) > 1 /\ outbox' = Tail(outbox)
        /\ wire' = Put(wire, outbox[2]) /\ pc = "send" /\ pc' = "send"
    BY <1>5 DEF SendNext, Returned
  <2>2. outbox'[1] = outbox[2] /\ outbox[2] \in Items
    BY <2>1, AfterSend, ElementOfSeq
  <2>3. ChunksOn(wire') = IF outbox[2] \in Chunks THEN Append(ChunksOn(wire), outbox[2])
                                                  ELSE ChunksOn(wire)
    <3>1. \A x \in Items : Selected(Put(wire, x), Chunks) =
            IF x \in Chunks THEN Append(Selected(wire, Chunks), x)
                            ELSE Selected(wire, Chunks)
      BY <1>0, PutSelected, ChunkItems
    <3> QED
      BY <2>1, <2>2, <3>1 DEF ChunksOn
  <2> QED
    BY <1>4, <2>1, <2>2, <2>3 DEF LogInv
<1>6. CASE BackStep
  <2>1. ChunksOn(wire)' = ChunksOn(wire)
    BY <1>6 DEF BackStep, ChunksOn
  <2> QED
    BY <1>4, <1>6, <2>1 DEF BackStep, LogInv
<1>7. CASE StopStep
  <2>1. ChunksOn(wire') = ChunksOn(wire)
    <3>1. wire' = wire \/ wire' = Append(wire, "close")
      BY <1>7 DEF StopStep
    <3>2. Selected(Append(wire, "close"), Chunks) = Selected(wire, Chunks)
      BY <1>0, SelectedAppend, ChunkItems
    <3> QED
      BY <3>1, <3>2 DEF ChunksOn
  <2>2. ChunksOn(wire) = sent'
    BY <1>4, <1>7 DEF StopStep, LogInv
  <2> QED
    BY <1>7, <2>1, <2>2 DEF StopStep, LogInv
<1>8. CASE CancelStep
  <2>1. ChunksOn(wire)' = ChunksOn(wire)
    BY <1>8 DEF CancelStep, ChunksOn
  <2> QED
    BY <1>0, <1>8, <2>1 DEF CancelStep, LogInv
<1> QED
  BY <1>1, <1>2, <1>3, <1>5, <1>6, <1>7, <1>8, ConsumerSteps

-----------------------------------------------------------------------------
\* Where an armed cut stands to the count of chunks sent.
CutInv ==
  injection.kind = "stream_cut" =>
    IF injection.applied THEN pc = "ended" /\ CutCount
    ELSE /\ injection.at =< Len(sent)
         /\ pc # "ended" /\ current.kind # "finish" =>
              Len(sent) = injection.at \/ Len(sent) < injection.after

\* Only a data frame's chunk is logged by a send that is not for a finish.
LEMMA LoggedChunk ==
  ASSUME TypeOK, SafetyInv, OutboxInv, Returned,
         current.kind \notin {"data", "finish"} \/ (current.kind = "data" /\ Len(outbox) > 1)
  PROVE  UNCHANGED sent
<1>1. outbox[1] \notin Chunks
  <2>1. CASE current.kind = "data"
    <3>1. outbox = <<"head", current.tag>>
      BY <2>1, Tuples DEF OutboxInv
    <3> QED
      BY <3>1, ChunkItems, Tuples
  <2>2. CASE current.kind \in {"keepalive", "gone", "hard_abort", "http_error"}
    <3>1. \E x \in {"keepalive", "end", "errbody"} :
            outbox \in {<<x>>, <<"head">>, <<"head", x>>, <<"errhead", x>>}
      BY <2>2 DEF OutboxInv, SafetyInv, SendInv
    <3> QED
      BY <3>1, ChunkItems, Tuples
  <2>3. current.kind \in {"data", "keepalive", "gone", "hard_abort", "http_error"}
    <3>1. current # NoFrame
      BY DEF Returned, TypeOK, ConsumerType
    <3> QED
      BY <3>1, Kinds, FrameTags DEF TypeOK, ConsumerType
  <2> QED
    BY <2>1, <2>2, <2>3
<1> QED
  BY <1>1, Logged

LEMMA CutSafe ==
  TypeOK /\ SafetyInv /\ OutboxInv /\ CutInv /\ [Next]_vars => CutInv'
<1> SUFFICES ASSUME TypeOK, SafetyInv, OutboxInv, CutInv, [Next]_vars PROVE CutInv'
  OBVIOUS
<1>0. /\ sent \in Seq(Chunks) /\ Len(sent) \in Nat
      /\ injection.at \in Nat /\ injection.after \in Nat /\ injection.applied \in BOOLEAN
      /\ injection \in Injected
  BY LenProperties DEF TypeOK, TraceType, RuntimeType, Injected
<1>1. pc = "ended" => done
  BY DEF SafetyInv, ClosingInv
<1>2. ASSUME Returned
      PROVE  /\ Len(sent') \in Nat /\ Len(sent') >= Len(sent)
             /\ Len(sent') =< Len(sent) + 1
             /\ outbox[1] \in Chunks => Len(sent') = Len(sent) + 1
  <2>1. \A x \in Chunks : Len(Append(sent, x)) = Len(sent) + 1
    BY <1>0, AppendProperties
  <2> QED
    BY <1>0, <1>2, <2>1, Logged
<1>3. CASE Operator
  <2>1. UNCHANGED <<pc, current, sent>>
    BY <1>3 DEF Operator, Submit, SubmitFails, Accept, AbortGraceful, AbortHard,
         InjectCutNow, CutNow, InjectHttpError, InjectDelay, InjectCutAfter, Arm,
         LiveStart, LiveText, LiveToolCall, Relay, LiveFinish, PutReadOnly, consumer, trace
  <2>2. \/ UNCHANGED injection
        \/ injection'.kind = "delay"
        \/ \E n \in CutAfter : injection' = [kind |-> "stream_cut", after |-> n,
                                             applied |-> FALSE, at |-> Len(sent)]
    BY <1>0, <1>3
       DEF Operator, Submit, SubmitFails, Accept, AbortGraceful, AbortHard, Delayed,
         InjectCutNow, CutNow, InjectHttpError, InjectDelay, InjectCutAfter, Arm,
         LiveStart, LiveText, LiveToolCall, Relay, LiveFinish, PutReadOnly, runtime, Injected
  <2>3. CASE UNCHANGED injection
    BY <2>1, <2>3 DEF CutInv, CutCount
  <2>4. CASE injection'.kind = "delay"
    BY <2>4 DEF CutInv
  <2>5. ASSUME NEW n \in CutAfter,
               injection' = [kind |-> "stream_cut", after |-> n, applied |-> FALSE,
                             at |-> Len(sent)]
        PROVE  CutInv'
    BY <1>0, <2>1, <2>5 DEF CutInv
  <2> QED
    BY <2>2, <2>3, <2>4, <2>5
<1>4. CASE Sender \/ GetTask \/ Shutdown \/ ClientLeaves \/ UNCHANGED vars
  <2>1. UNCHANGED <<pc, current, sent, injection>>
    BY <1>4 DEF Sender, SenderEnds, SenderPauses, GetTask, Shutdown, ClientLeaves, vars,
         runtime, consumer, trace
  <2> QED
    BY <2>1 DEF CutInv, CutCount
<1>5. CASE Wakes \/ ConsumerCancelled
  <2>1. pc # "ended" /\ UNCHANGED <<injection, sent>>
    BY <1>5 DEF Wakes, TakeDisconnect, Tick, TakeData, TakeFinish, TakeHttpError,
         DropHttpError, TakeHardAbort, Taken, Waiting, ConsumerCancelled, runtime, trace
  <2>2. pc' = "ended" \/ pc = "wait"
    BY <1>5 DEF Wakes, TakeDisconnect, Tick, TakeData, TakeFinish, TakeHttpError,
         DropHttpError, TakeHardAbort, Taken, Waiting, ConsumerCancelled, Stop
  <2>3. pc = "wait" => current.kind = "none"
    BY AtWait, Kinds
  <2> QED
    BY <2>1, <2>2, <2>3 DEF CutInv
<1>6. CASE SendNext
  <2>1. Returned /\ Len(outbox) > 1 /\ UNCHANGED <<pc, current, injection>> /\ pc = "send"
    BY <1>6 DEF SendNext, Returned
  <2>2. current.kind # "finish" => UNCHANGED sent
    <3>1. current.kind = "data" \/ current.kind \notin {"data", "finish"}
            \/ current.kind = "finish"
      OBVIOUS
    <3> QED
      BY <2>1, <3>1, LoggedChunk
  <2> QED
    BY <1>0, <1>2, <2>1, <2>2 DEF CutInv
<1>7. CASE KeepAliveSent
  <2>1. UNCHANGED <<injection, sent>> /\ pc = "send" /\ pc' = "wait"
        /\ current.kind = "keepalive"
    BY <1>7, LoggedChunk DEF KeepAliveSent, Sent, Returned, EnterWait
  <2> QED
    BY <2>1 DEF CutInv
<1>8. CASE DataSent
  <2>1. /\ Returned /\ UNCHANGED injection /\ pc = "send" /\ pc' = "wait" /\ ~CutDue
    BY <1>8 DEF DataSent, Sent, Returned, EnterWait
  <2> QED
    BY <1>0, <1>2, <2>1 DEF CutInv, CutDue
<1>9. CASE DataSentAndCut
  <2>1. /\ Returned /\ pc = "send" /\ pc' = "ended" /\ CutDue /\ current.kind = "data"
        /\ injection' = [injection EXCEPT !.applied = TRUE] /\ Len(outbox) = 1
    BY <1>9 DEF DataSentAndCut, Sent, Returned, Stop
  <2>2. /\ injection'.kind = "stream_cut" /\ injection'.applied
        /\ injection'.after = injection.after /\ injection'.at = injection.at
    BY <1>0, <2>1 DEF Injected, CutDue
  <2>3. outbox[1] \in Chunks
    <3>1. Len(<<"head", current.tag>>) = 2 /\ <<current.tag>>[1] = current.tag
      BY Tuples
    <3>2. current.tag \in Phases /\ outbox \in {<<current.tag>>, <<"head", current.tag>>}
      BY <2>1 DEF OutboxInv
    <3> QED
      BY <2>1, <3>1, <3>2, ChunkItems
  <2>4. Len(sent') = Len(sent) + 1
    BY <1>2, <2>1, <2>3
  <2>5. /\ injection.at =< Len(sent) /\ Len(sent) + 1 >= injection.after
        /\ Len(sent) = injection.at \/ Len(sent) < injection.after
    BY <2>1 DEF CutInv, CutDue
  <2> QED
    BY <1>0, <2>1, <2>2, <2>4, <2>5 DEF CutInv, CutCount
<1>10. CASE FinishSent \/ HttpErrorSent \/ HardAbortHeadSent \/ GoneSent
  <2>1. Returned /\ UNCHANGED injection /\ pc = "send" /\ pc' = "ended"
    BY <1>10 DEF FinishSent, HttpErrorSent, HardAbortHeadSent, GoneSent, Sent, Returned, Stop
  <2> QED
    BY <1>0, <1>2, <2>1 DEF CutInv
<1> QED
  BY <1>3, <1>4, <1>5, <1>6, <1>7, <1>8, <1>9, <1>10 DEF Next, Environment, SendReturns

\* After the closing the log stands still: the consumer has ended, or sends a
\* client that has left nothing but the end of its stream.
LEMMA FrozenStep ==
  TypeOK /\ SafetyInv /\ OutboxInv /\ [Next]_vars => [done => UNCHANGED sent]_vars
<1> SUFFICES ASSUME TypeOK, SafetyInv, OutboxInv, [Next]_vars, done PROVE UNCHANGED sent
  OBVIOUS
<1>1. pc = "ended" \/ current = GoneFrame
  BY DEF SafetyInv, ClosingInv
<1>2. ASSUME Returned PROVE UNCHANGED sent
  BY <1>1, <1>2, LoggedChunk, Kinds DEF Returned
<1> QED
  BY <1>2, ConsumerSteps
     DEF QuietStep, BeginStep, WaitStep, SendNext, BackStep, StopStep, CancelStep

-----------------------------------------------------------------------------
(* Whose response it is                                                     *)

\* A finish is queued by someone who has answered for it.
Owned(frame) == frame.kind = "finish" => /\ meta # "none"
                                         /\ frame.tag = "whole" => meta = "live" \/ sender = "ended"

OwnerInv ==
  /\ \A i \in 1..Len(queue) : Owned(queue[i])
  /\ Owned(fetched)
  /\ Owned(current)
  /\ done => /\ closings[1].reason \in {"whole", "partial"} => meta # "none"
             /\ closings[1].reason = "whole" => meta \in {"paced", "instant", "live"}

\* What a step does to the owners: the mode of a response is settled once.
LEMMA OwnerStep ==
  ASSUME TypeOK, ModeInv, [Next]_vars
  PROVE  /\ meta # "none" => meta' # "none"
         /\ meta = "live" => meta' = "live"
         /\ sender = "ended" => sender' = "ended"
         /\ done => UNCHANGED meta
<1>1. CASE Operator
  <2>1. ASSUME NEW mode \in {"paced", "instant"}, Accept, meta' = mode,
               UNCHANGED sender \/ sender' = "running"
        PROVE  /\ meta # "none" => meta' # "none"
               /\ meta = "live" => meta' = "live"
               /\ sender = "ended" => sender' = "ended"
               /\ done => UNCHANGED meta
    BY <2>1 DEF Accept, Registered, ModeInv
  <2>2. \/ UNCHANGED meta
        \/ /\ ~done /\ meta' \in {"live", "aborted_draft"}
           /\ meta' = "aborted_draft" => meta = "none"
        \/ \E mode \in {"paced", "instant"} :
             Accept /\ meta' = mode /\ (UNCHANGED sender \/ sender' = "running")
    BY <1>1
       DEF Operator, Submit, SubmitFails, AbortGraceful, AbortHard,
         InjectCutNow, CutNow, InjectHttpError, InjectDelay, InjectCutAfter, Arm, Registered,
         LiveStart, LiveText, LiveToolCall, Live, Relay, LiveFinish, PutReadOnly, runtime
  <2>3. \/ UNCHANGED sender \/ CancelSender
        \/ \E mode \in {"paced", "instant"} :
             Accept /\ meta' = mode /\ (UNCHANGED sender \/ sender' = "running")
    BY <1>1
       DEF Operator, Submit, SubmitFails, AbortGraceful, AbortHard,
         InjectCutNow, CutNow, InjectHttpError, InjectDelay, InjectCutAfter, Arm, Accept,
         LiveStart, LiveText, LiveToolCall, Live, Relay, LiveFinish, PutReadOnly, sending
  <2> QED
    BY <2>1, <2>2, <2>3 DEF CancelSender
<1>2. CASE Sender \/ GetTask \/ Environment \/ UNCHANGED vars
  BY <1>2 DEF Sender, SenderEnds, SenderPauses, GetTask, Environment, ClientLeaves, Shutdown,
       ConsumerCancelled, OnClientDisconnect, EndCancelling, CancelSender, vars, runtime,
       sending
<1>3. CASE Wakes
  BY <1>3 DEF Wakes, TakeDisconnect, Tick, TakeData, TakeFinish, TakeHttpError,
         DropHttpError, TakeHardAbort, OnClientDisconnect, OnHardAbort, EndCancelling,
         CancelSender, runtime, sending
<1>4. CASE SendReturns
  BY <1>4 DEF SendReturns, SendNext, KeepAliveSent, DataSent, DataSentAndCut, FinishSent,
         HttpErrorSent, HardAbortHeadSent, GoneSent, Sent, Returned, OnHardAbort,
         EndCancelling, CancelSender, OnStreamComplete, OnInjectedDelivered
<1> QED
  BY <1>1, <1>2, <1>3, <1>4 DEF Next

LEMMA Members ==
  ASSUME NEW S, NEW s \in Seq(S)
  PROVE  /\ \A x \in S : \A i \in 1..Len(Append(s, x)) :
              Append(s, x)[i] = x \/ \E j \in 1..Len(s) : Append(s, x)[i] = s[j]
         /\ \A t \in Seq(S) : \A i \in 1..Len(s \o t) :
              \/ \E j \in 1..Len(s) : (s \o t)[i] = s[j]
              \/ \E j \in 1..Len(t) : (s \o t)[i] = t[j]
         /\ s # <<>> => /\ \E j \in 1..Len(s) : Head(s) = s[j]
                        /\ \A i \in 1..Len(Tail(s)) : \E j \in 1..Len(s) : Tail(s)[i] = s[j]
<1>1. Len(s) \in Nat
  BY LenProperties
<1>2. ASSUME NEW x \in S, NEW i \in 1..Len(Append(s, x))
      PROVE  Append(s, x)[i] = x \/ \E j \in 1..Len(s) : Append(s, x)[i] = s[j]
  <2>1. i = Len(s) + 1 \/ i \in 1..Len(s)
    BY <1>1, AppendProperties
  <2> QED
    BY <2>1, AppendProperties
<1>3. ASSUME NEW t \in Seq(S), NEW i \in 1..Len(s \o t)
      PROVE  \/ \E j \in 1..Len(s) : (s \o t)[i] = s[j]
             \/ \E j \in 1..Len(t) : (s \o t)[i] = t[j]
  <2>1. Len(t) \in Nat /\ i \in 1..Len(s) + Len(t)
    BY LenProperties, ConcatProperties
  <2>2. (s \o t)[i] = IF i =< Len(s) THEN s[i] ELSE t[i - Len(s)]
    BY <2>1, ConcatProperties
  <2>3. CASE i =< Len(s)
    BY <1>1, <2>1, <2>2, <2>3
  <2>4. CASE i > Len(s)
    <3>1. i - Len(s) \in 1..Len(t)
      BY <1>1, <2>1, <2>4
    <3> QED
      BY <1>1, <2>1, <2>2, <2>4, <3>1
  <2> QED
    BY <1>1, <2>1, <2>3, <2>4
<1>4. ASSUME s # <<>>
      PROVE  /\ \E j \in 1..Len(s) : Head(s) = s[j]
             /\ \A i \in 1..Len(Tail(s)) : \E j \in 1..Len(s) : Tail(s)[i] = s[j]
  <2>1. Len(Tail(s)) = Len(s) - 1 /\ Len(s) # 0 /\ Head(s) = s[1]
        /\ \A i \in 1..Len(Tail(s)) : Tail(s)[i] = s[i + 1]
    BY <1>4, HeadTailProperties, EmptySeq
  <2>2. \A i \in 1..Len(Tail(s)) : i + 1 \in 1..Len(s)
    BY <1>1, <2>1
  <2> QED
    BY <1>1, <2>1, <2>2
<1> QED
  BY <1>2, <1>3, <1>4

\* What is queued: the frames that were, and the ones the step adds.
LEMMA QueueSteps ==
  ASSUME TypeOK, [Next]_vars
  PROVE  \A i \in 1..Len(queue') :
           \/ \E j \in 1..Len(queue) : queue'[i] = queue[j]
           \/ queue'[i].kind # "finish"
           \/ AbortGraceful /\ queue'[i] = Frame("finish", "partial")
           \/ LiveFinish /\ queue'[i] = Frame("finish", "whole")
           \/ SenderEnds /\ queue'[i] = Frame("finish", "whole")
<1>0. queue \in Seq(Frames) /\ ToFrames(todo) \in Seq(Frames) /\ todo \in Seq(Step)
      /\ Len(todo) \in Nat /\ Len(ToFrames(todo)) = Len(todo)
  BY FramesOfPlan, LenProperties DEF TypeOK, SendingType
<1>1. \A j \in 1..Len(ToFrames(todo)) : ToFrames(todo)[j].kind # "finish"
  <2>1. ASSUME NEW j \in 1..Len(todo) PROVE ToFrames(todo)[j].kind = "data"
    BY <2>1 DEF ToFrames, Frame
  <2> QED
    BY <1>0, <2>1
<1>2. ASSUME NEW frame \in Frames, queue' = Append(queue, frame), NEW i \in 1..Len(queue')
      PROVE  queue'[i] = frame \/ \E j \in 1..Len(queue) : queue'[i] = queue[j]
  BY <1>0, <1>2, Members
<1>3. CASE AbortGraceful
  BY <1>2, <1>3, FrameTypes DEF AbortGraceful
<1>4. CASE LiveFinish
  BY <1>2, <1>4, FrameTypes DEF LiveFinish
<1>5. CASE AbortHard \/ InjectCutNow \/ InjectHttpError
  <2>1. \E frame \in Frames : frame.kind # "finish" /\ queue' = Append(queue, frame)
    <3>1. ASSUME NEW reason \in {"operator_hard_abort", "stream_cut_injected"}, CutNow(reason)
          PROVE  \E frame \in Frames : frame.kind # "finish" /\ queue' = Append(queue, frame)
      <4>1. Frame("hard_abort", reason) \in Frames
            /\ Frame("hard_abort", reason).kind # "finish"
        BY FrameTypes DEF Frame
      <4> QED
        BY <3>1, <4>1 DEF CutNow
    <3>2. Frame("http_error", "injected") \in Frames
          /\ Frame("http_error", "injected").kind # "finish"
      BY FrameTypes DEF Frame
    <3> QED
      BY <1>5, <3>1, <3>2 DEF AbortHard, InjectCutNow, InjectHttpError
  <2> QED
    BY <1>2, <2>1
<1>6. ASSUME NEW whats \in Seq(Phases), Relay(whats), NEW i \in 1..Len(queue')
      PROVE  (\E j \in 1..Len(queue) : queue'[i] = queue[j]) \/ queue'[i].kind # "finish"
  <2> DEFINE more == [k \in 1..Len(whats) |-> Frame("data", whats[k])]
  <2>1. more \in Seq(Frames)
    <3>1. \A k \in 1..Len(whats) : Frame("data", whats[k]) \in Frames
      BY FrameTypes, ElementOfSeq
    <3>2. Len(whats) \in Nat
      BY LenProperties
    <3> QED
      BY <3>1, <3>2, SeqDef
  <2>2. \A k \in 1..Len(more) : more[k].kind # "finish"
    BY LenProperties DEF Frame
  <2>3. queue' = queue \o more
    BY <1>6 DEF Relay
  <2> HIDE DEF more
  <2> QED
    BY <1>0, <2>1, <2>2, <2>3, Members
<1>7. CASE LiveStart \/ (\E field \in {"reasoning", "content"} : LiveText(field))
           \/ (\E chunks \in 1..2 : LiveToolCall(chunks))
  <2>1. \E whats \in Seq(Phases) : Relay(whats)
    <3>1. \A x \in Phases : <<x>> \in Seq(Phases)
      OBVIOUS
    <3>2. \A n \in 1..2 : [i \in 1..n |-> "tool"] \in Seq(Phases)
      BY SeqDef DEF Phases
    <3> QED
      BY <1>7, <3>1, <3>2 DEF LiveStart, LiveText, LiveToolCall, Phases
  <2> QED
    BY <1>6, <2>1
<1>8. CASE SenderEnds
  <2>1. /\ queue' = Append(queue \o ToFrames(todo), Frame("finish", "whole"))
        /\ queue \o ToFrames(todo) \in Seq(Frames)
    BY <1>0, <1>8, ConcatProperties DEF SenderEnds
  <2>2. \A i \in 1..Len(queue') :
          \/ queue'[i] = Frame("finish", "whole")
          \/ \E k \in 1..Len(queue \o ToFrames(todo)) : queue'[i] = (queue \o ToFrames(todo))[k]
    BY <2>1, FrameTypes, Members
  <2>3. \A k \in 1..Len(queue \o ToFrames(todo)) :
          \/ \E j \in 1..Len(queue) : (queue \o ToFrames(todo))[k] = queue[j]
          \/ (queue \o ToFrames(todo))[k].kind # "finish"
    <3>1. \A k \in 1..Len(queue \o ToFrames(todo)) :
            \/ \E j \in 1..Len(queue) : (queue \o ToFrames(todo))[k] = queue[j]
            \/ \E j \in 1..Len(ToFrames(todo)) :
                 (queue \o ToFrames(todo))[k] = ToFrames(todo)[j]
      BY <1>0, Members
    <3> QED
      BY <1>1, <3>1
  <2> QED
    BY <1>8, <2>2, <2>3
<1>9. ASSUME NEW n \in 1..Len(todo), SenderPauses(n), NEW i \in 1..Len(queue')
      PROVE  (\E j \in 1..Len(queue) : queue'[i] = queue[j]) \/ queue'[i].kind # "finish"
  <2> DEFINE more == SubSeq(ToFrames(todo), 1, n)
  <2>1. /\ more \in Seq(Frames) /\ Len(more) = n
        /\ \A k \in 1..n : more[k] = ToFrames(todo)[k]
    <3>1. \A k \in 1..n : ToFrames(todo)[k] \in Frames
      BY <1>0, ElementOfSeq
    <3> QED
      BY <1>0, <3>1, SubSeqProperties
  <2>2. queue' = queue \o more
    BY <1>9 DEF SenderPauses
  <2> HIDE DEF more
  <2>3. \A k \in 1..Len(more) : more[k].kind # "finish"
    <3>1. \A k \in 1..n : k \in 1..Len(ToFrames(todo))
      BY <1>0
    <3> QED
      BY <1>1, <2>1, <3>1
  <2>4. \/ \E j \in 1..Len(queue) : queue'[i] = queue[j]
        \/ \E j \in 1..Len(more) : queue'[i] = more[j]
    <3>1. queue \in Seq(Frames) /\ more \in Seq(Frames)
      BY <1>0, <2>1
    <3>2. \A k \in 1..Len(queue \o more) :
            \/ \E j \in 1..Len(queue) : (queue \o more)[k] = queue[j]
            \/ \E j \in 1..Len(more) : (queue \o more)[k] = more[j]
      <4>1. \A t \in Seq(Frames) : \A k \in 1..Len(queue \o t) :
              \/ \E j \in 1..Len(queue) : (queue \o t)[k] = queue[j]
              \/ \E j \in 1..Len(t) : (queue \o t)[k] = t[j]
        BY <3>1, Members
      <4> QED
        BY <3>1, <4>1, Zenon
    <3> QED
      BY <2>2, <3>2
  <2> QED
    BY <2>3, <2>4
<1>10. CASE GetTask
  BY <1>0, <1>10, Members DEF GetTask
<1>11. ASSUME UNCHANGED queue
       PROVE  \A i \in 1..Len(queue') : \E j \in 1..Len(queue) : queue'[i] = queue[j]
  BY <1>11
<1>12. CASE \/ \E mode \in {"paced", "instant"}, plan \in Plans : Submit(mode, plan)
            \/ \E mode \in {"paced", "instant"} : SubmitFails(mode)
            \/ InjectDelay \/ PutReadOnly \/ \E n \in CutAfter : InjectCutAfter(n)
            \/ Environment \/ Wakes \/ SendReturns \/ UNCHANGED vars
  <2>1. UNCHANGED queue
    BY <1>12 DEF Submit, SubmitFails, Accept, InjectDelay, InjectCutAfter, Arm, PutReadOnly,
         Environment, ClientLeaves, ConsumerCancelled, Shutdown, Wakes, TakeDisconnect, Tick,
         TakeData, TakeFinish, TakeHttpError, DropHttpError, TakeHardAbort, SendReturns,
         SendNext, KeepAliveSent, DataSent, DataSentAndCut, FinishSent, HttpErrorSent,
         HardAbortHeadSent, GoneSent, Sent, Returned, sending, vars
  <2> QED
    BY <1>11, <2>1
<1> QED
  BY <1>3, <1>4, <1>5, <1>7, <1>8, <1>9, <1>10, <1>12 DEF Next, Operator, Sender

\* What is in the consumer's hand after a step.
LEMMA HandSteps ==
  ASSUME TypeOK, SafetyInv, [Next]_vars
  PROVE  /\ \/ fetched' \in {fetched, NoFrame}
            \/ queue # <<>> /\ fetched' = Head(queue)
         /\ current' \in {current, fetched, NoFrame, KeepAliveFrame, GoneFrame}
<1>1. CASE Operator \/ Sender \/ Environment \/ UNCHANGED vars
  BY <1>1 DEF Operator, Submit, SubmitFails, Accept, AbortGraceful, AbortHard,
       InjectCutNow, CutNow, InjectHttpError, InjectDelay, InjectCutAfter, Arm,
       LiveStart, LiveText, LiveToolCall, Relay, LiveFinish, PutReadOnly, Sender,
       SenderEnds, SenderPauses, Environment, Shutdown, ClientLeaves, ConsumerCancelled,
       Stop, vars, consumer
<1>2. CASE GetTask
  BY <1>2 DEF GetTask
<1>3. CASE Wakes
  BY <1>3 DEF Wakes, TakeDisconnect, Tick, TakeData, TakeFinish, TakeHttpError,
       DropHttpError, TakeHardAbort, Taken, Deliver, EnterWait, Stop
<1>4. CASE SendReturns
  BY <1>4 DEF SendReturns, SendNext, KeepAliveSent, DataSent, DataSentAndCut, FinishSent,
       HttpErrorSent, HardAbortHeadSent, GoneSent, Sent, Returned, EnterWait, Stop
<1> QED
  BY <1>1, <1>2, <1>3, <1>4 DEF Next

\* A closed exchange stays as it is: what may still run is a request that is
\* cancelled, and the end of the stream of a client that has left.
LEMMA ClosedStays ==
  ASSUME TypeOK, SafetyInv, [Next]_vars, done
  PROVE  /\ UNCHANGED <<closings, script>>
         /\ pc = "ended" => UNCHANGED <<pc, wire>>
<1>1. ASSUME NEW s, NEW reason, Ending(s, reason) PROVE UNCHANGED closings
  BY <1>1 DEF Ending
<1>2. pc = "ended" \/ current = GoneFrame
  BY DEF SafetyInv, ClosingInv
<1>3. CASE Operator \/ Sender \/ GetTask \/ Shutdown \/ ClientLeaves \/ UNCHANGED vars
  BY <1>3 DEF Operator, Submit, SubmitFails, Accept, Registered, AbortGraceful, AbortHard,
       InjectCutNow, CutNow, InjectHttpError, InjectDelay, InjectCutAfter, Arm,
       LiveStart, LiveText, LiveToolCall, Live, Relay, LiveFinish, PutReadOnly, Sender,
       SenderEnds, SenderPauses, GetTask, Shutdown, ClientLeaves, vars, runtime, consumer,
       trace
<1>4. CASE ConsumerCancelled
  BY <1>1, <1>4 DEF ConsumerCancelled, OnClientDisconnect, EndCancelling
<1>5. ~Wakes
  <2>1. Wakes => pc = "wait"
    BY DEF Wakes, TakeDisconnect, Tick, TakeData, TakeFinish, TakeHttpError,
           DropHttpError, TakeHardAbort, Taken, Waiting
  <2> QED
    BY <2>1, AtWait
<1>6. CASE SendReturns
  BY <1>2, <1>6, Kinds
     DEF SendReturns, SendNext, KeepAliveSent, DataSent, DataSentAndCut, FinishSent,
         HttpErrorSent, HardAbortHeadSent, GoneSent, Sent, Returned
<1> QED
  BY <1>3, <1>4, <1>5, <1>6 DEF Next, Environment

LEMMA OwnerSafe ==
  TypeOK /\ SafetyInv /\ ModeInv /\ OwnerInv /\ [Next]_vars => OwnerInv'
<1> SUFFICES ASSUME TypeOK, SafetyInv, ModeInv, OwnerInv, [Next]_vars PROVE OwnerInv'
  OBVIOUS
<1> DEFINE Then(frame) ==
             frame.kind = "finish" => /\ meta' # "none"
                                      /\ frame.tag = "whole" => meta' = "live" \/ sender' = "ended"
<1>0. /\ queue \in Seq(Frames)
      /\ SafetyInv'
  BY NextSafe DEF TypeOK, SendingType
<1>1. /\ meta # "none" => meta' # "none"
      /\ meta = "live" => meta' = "live"
      /\ sender = "ended" => sender' = "ended"
      /\ done => UNCHANGED meta
  BY OwnerStep
<1>2. \A frame : Owned(frame) => Then(frame)
  BY <1>1 DEF Owned
<1>3. \A i \in 1..Len(queue') : Then(queue'[i])
  <2> SUFFICES ASSUME NEW i \in 1..Len(queue') PROVE Then(queue'[i])
    OBVIOUS
  <2>1. \A j \in 1..Len(queue) : Then(queue[j])
    BY <1>2 DEF OwnerInv
  <2>2. CASE AbortGraceful /\ queue'[i] = Frame("finish", "partial")
    BY <2>2 DEF AbortGraceful, Frame
  <2>3. CASE LiveFinish /\ queue'[i] = Frame("finish", "whole")
    BY <2>3 DEF LiveFinish, Frame
  <2>4. CASE SenderEnds /\ queue'[i] = Frame("finish", "whole")
    BY <2>4 DEF SenderEnds, Frame, ModeInv, runtime
  <2> QED
    BY <2>1, <2>2, <2>3, <2>4, QueueSteps
<1>4. Then(fetched') /\ Then(current')
  <2>1. Then(fetched) /\ Then(current)
    BY <1>2 DEF OwnerInv
  <2>2. Then(NoFrame) /\ Then(KeepAliveFrame) /\ Then(GoneFrame)
    BY Kinds
  <2>3. queue # <<>> => Then(Head(queue))
    <3>1. queue # <<>> => \E j \in 1..Len(queue) : Head(queue) = queue[j]
      BY <1>0, Members
    <3> QED
      BY <1>2, <3>1 DEF OwnerInv
  <2> HIDE DEF Then
  <2> QED
    BY <2>1, <2>2, <2>3, HandSteps
<1>5. done' => /\ closings'[1].reason \in {"whole", "partial"} => meta' # "none"
               /\ closings'[1].reason = "whole" => meta' \in {"paced", "instant", "live"}
  <2>1. CASE done
    <3>1. UNCHANGED closings
      BY <2>1, ClosedStays
    <3> QED
      BY <1>1, <2>1, <3>1 DEF OwnerInv
  <2>2. CASE ~done
    <3>1. ASSUME NEW s, NEW reason, Ending(s, reason)
          PROVE  closings'[1].reason = reason
      BY <2>2, <3>1, EndingCases
    <3>2. CASE FinishSent
      <4>1. Ending("completed", current.tag) /\ current.kind = "finish"
        BY <3>2 DEF FinishSent, OnStreamComplete, Sent
      <4>2. closings'[1].reason = current.tag /\ Owned(current)
        BY <3>1, <4>1 DEF OwnerInv
      <4>3. UNCHANGED <<meta, sender>>
        BY <3>2 DEF FinishSent, OnStreamComplete, Sent, Returned
      <4>4. current.tag \in {"whole", "partial"}
        BY <4>1, Kinds, FrameTags DEF TypeOK, ConsumerType
      <4>5. current.tag = "whole" /\ meta # "live" => meta \in {"paced", "instant"}
        BY <4>1, <4>2 DEF Owned, ModeInv
      <4> QED
        BY <4>1, <4>2, <4>3, <4>4, <4>5 DEF Owned
    <3>3. CASE ~FinishSent
      <4>1. done' => \E s : \E reason \in {"client_disconnected", "injected",
                                "operator_hard_abort", "stream_cut_injected"} :
                              Ending(s, reason)
        <5>1. CASE Operator \/ Sender \/ GetTask \/ Shutdown \/ ClientLeaves \/ UNCHANGED vars
          <6>1. UNCHANGED done
            BY <5>1 DEF Operator, Submit, SubmitFails, Accept, AbortGraceful, AbortHard,
             InjectCutNow, CutNow, InjectHttpError, InjectDelay, InjectCutAfter, Arm,
             LiveStart, LiveText, LiveToolCall, Relay, LiveFinish, PutReadOnly, Sender,
             SenderEnds, SenderPauses, GetTask, Shutdown, ClientLeaves, vars, runtime
          <6> QED
            BY <2>2, <6>1
        <5>2. CASE ConsumerCancelled \/ TakeDisconnect
          BY <5>2 DEF ConsumerCancelled, TakeDisconnect, OnClientDisconnect, EndCancelling
        <5>3. CASE Tick \/ TakeData \/ TakeFinish \/ TakeHttpError \/ DropHttpError
          BY <2>2, <5>3 DEF Tick, TakeData, TakeFinish, TakeHttpError, DropHttpError, runtime
        <5>4. fetched.kind = "hard_abort" => fetched.tag \in {"operator_hard_abort",
                                                              "stream_cut_injected"}
          BY Kinds, FrameTags DEF TypeOK, ConsumerType
        <5>5. current.kind = "hard_abort" => current.tag \in {"operator_hard_abort",
                                                              "stream_cut_injected"}
          BY Kinds, FrameTags DEF TypeOK, ConsumerType
        <5>6. current.kind = "http_error" => current.tag = "injected"
          BY Kinds, FrameTags DEF TypeOK, ConsumerType
        <5>7. CASE TakeHardAbort
          BY <2>2, <5>4, <5>7 DEF TakeHardAbort, Taken, OnHardAbort, EndCancelling
        <5>8. CASE SendNext \/ KeepAliveSent \/ DataSent \/ GoneSent
          BY <2>2, <5>8 DEF SendNext, KeepAliveSent, DataSent, GoneSent
        <5>9. CASE DataSentAndCut
          BY <5>9 DEF DataSentAndCut, OnHardAbort, EndCancelling
        <5>10. CASE HttpErrorSent
          BY <5>6, <5>10 DEF HttpErrorSent, Sent, OnInjectedDelivered
        <5>11. CASE HardAbortHeadSent
          BY <5>5, <5>11 DEF HardAbortHeadSent, Sent, OnHardAbort, EndCancelling
        <5> QED
          BY <3>3, <5>1, <5>2, <5>3, <5>7, <5>8, <5>9, <5>10, <5>11
             DEF Next, Environment, Wakes, SendReturns
      <4>2. ASSUME done' PROVE closings'[1].reason \notin {"whole", "partial"}
        BY <3>1, <4>1, <4>2
      <4> QED
        BY <4>2
    <3> QED
      BY <3>2, <3>3
  <2>3. done \in BOOLEAN
    BY DEF TypeOK, RuntimeType
  <2> QED
    BY <2>1, <2>2, <2>3
<1> QED
  BY <1>3, <1>4, <1>5 DEF OwnerInv, Owned

-----------------------------------------------------------------------------
(* The answer                                                               *)

\* What the consumer still has to hand to `send`, after the send it is in.
ToCome == IF pc = "send" THEN Tail(outbox) ELSE <<>>

\* The data on the wire, with what the frame in the consumer's hand adds.
Answer == DataOn(wire) \o DataOn(ToCome)

Fetched == IF fetched.kind = "data" THEN <<fetched.tag>> ELSE <<>>
Queued  == Tags(Selected(queue, DataFrames))

\* While nothing has ended the answer, the script is what was sent, what is on
\* its way and what the sender still has.
HeldInv ==
  pc # "ended" /\ current.kind # "finish" =>
    \E rest \in Seq(Phases) :
      /\ script = Answer \o Fetched \o Queued \o rest
      /\ sender \notin {"cancelled", "stopped"} => rest = Whats(todo)

LEMMA AnswerType ==
  ASSUME TypeOK
  PROVE  /\ wire \in Seq(Items) /\ ToCome \in Seq(Items)
         /\ DataOn(wire) \in Seq(Phases) /\ DataOn(ToCome) \in Seq(Phases)
         /\ Answer \in Seq(Phases)
         /\ pc # "send" => Answer = DataOn(wire)
<1>1. wire \in Seq(Items) /\ outbox \in Seq(Items) /\ (pc = "send" <=> outbox # <<>>)
  BY DEF TypeOK, TraceType, ConsumerType
<1>2. ToCome \in Seq(Items)
  BY <1>1, HeadTailProperties, EmptySeq DEF ToCome
<1>3. Items \cap Phases = Phases
  BY ChunkItems
<1>4. DataOn(wire) \in Seq(Phases) /\ DataOn(ToCome) \in Seq(Phases)
  BY <1>1, <1>2, <1>3, SelectedType DEF DataOn
<1>5. ASSUME pc # "send" PROVE Answer = DataOn(wire)
  <2>1. DataOn(ToCome) = <<>>
    BY <1>5, SelectedEmpty DEF ToCome, DataOn
  <2> QED
    BY <1>4, <2>1, ConcatEmptySeq DEF Answer
<1> QED
  BY <1>1, <1>2, <1>4, <1>5, ConcatProperties DEF Answer

\* The frames of chunks, and their names again.
LEMMA TagsOf ==
  /\ Tags(<<>>) = <<>>
  /\ \A frames \in Seq(DataFrames) :
       /\ Tags(frames) \in Seq(Phases) /\ Len(Tags(frames)) = Len(frames)
       /\ \A more \in Seq(DataFrames) : Tags(frames \o more) = Tags(frames) \o Tags(more)
  /\ \A frame \in DataFrames : Tags(<<frame>>) = <<frame.tag>>
<1>1. ASSUME NEW frames \in Seq(DataFrames)
      PROVE  /\ Tags(frames) \in Seq(Phases) /\ Len(Tags(frames)) = Len(frames)
             /\ \A i \in 1..Len(frames) : Tags(frames)[i] = frames[i].tag
  <2>1. Len(frames) \in Nat
    BY LenProperties
  <2>2. \A i \in 1..Len(frames) : frames[i].tag \in Phases
    <3>1. \A i \in 1..Len(frames) : frames[i] \in DataFrames
      BY ElementOfSeq
    <3> QED
      BY <3>1 DEF DataFrames
  <2>3. Tags(frames) \in [1..Len(frames) -> Phases]
    BY <2>2 DEF Tags
  <2> QED
    BY <2>1, <2>3, SeqDef, LenProperties DEF Tags
<1>2. ASSUME NEW frames \in Seq(DataFrames), NEW more \in Seq(DataFrames)
      PROVE  Tags(frames \o more) = Tags(frames) \o Tags(more)
  <2> DEFINE all == frames \o more
             s   == Tags(frames)
             t   == Tags(more)
  <2>1. /\ all \in Seq(DataFrames) /\ Len(all) = Len(frames) + Len(more)
        /\ \A i \in 1..Len(frames) + Len(more) :
             all[i] = IF i =< Len(frames) THEN frames[i] ELSE more[i - Len(frames)]
        /\ Len(frames) \in Nat /\ Len(more) \in Nat
    BY ConcatProperties, LenProperties
  <2>2. /\ s \in Seq(Phases) /\ t \in Seq(Phases)
        /\ Len(s) = Len(frames) /\ Len(t) = Len(more)
        /\ \A i \in 1..Len(frames) : s[i] = frames[i].tag
        /\ \A i \in 1..Len(more) : t[i] = more[i].tag
    BY <1>1
  <2> HIDE DEF all, s, t
  <2>3. /\ Tags(all) \in Seq(Phases) /\ Len(Tags(all)) = Len(all)
        /\ \A i \in 1..Len(all) : Tags(all)[i] = all[i].tag
    BY <1>1, <2>1
  <2>4. /\ s \o t \in Seq(Phases) /\ Len(s \o t) = Len(s) + Len(t)
        /\ \A i \in 1..Len(s) + Len(t) :
             (s \o t)[i] = IF i =< Len(s) THEN s[i] ELSE t[i - Len(s)]
    BY <2>2, ConcatProperties
  <2>5. \A i \in 1..Len(Tags(all)) : Tags(all)[i] = (s \o t)[i]
    <3> SUFFICES ASSUME NEW i \in 1..Len(frames) + Len(more)
                 PROVE  Tags(all)[i] = (s \o t)[i]
      BY <2>1, <2>3
    <3>0. /\ Tags(all)[i] = all[i].tag
          /\ all[i] = IF i =< Len(frames) THEN frames[i] ELSE more[i - Len(frames)]
          /\ (s \o t)[i] = IF i =< Len(frames) THEN s[i] ELSE t[i - Len(frames)]
      BY <2>1, <2>2, <2>3, <2>4
    <3>1. CASE i =< Len(frames)
      <4>1. i \in 1..Len(frames)
        BY <2>1, <3>1
      <4>2. s[i] = frames[i].tag
        BY <2>2, <4>1
      <4> QED
        BY <3>0, <3>1, <4>2
    <3>2. CASE ~(i =< Len(frames))
      <4>1. i - Len(frames) \in 1..Len(more)
        BY <2>1, <3>2
      <4>2. t[i - Len(frames)] = more[i - Len(frames)].tag
        BY <2>2, <4>1
      <4> QED
        BY <3>0, <3>2, <4>2
    <3> QED
      BY <3>1, <3>2
  <2>6. Tags(all) = s \o t
    BY <2>1, <2>2, <2>3, <2>4, <2>5, SeqEqual
  <2> QED
    BY <2>6 DEF all, s, t
<1>3. ASSUME NEW frame \in DataFrames PROVE Tags(<<frame>>) = <<frame.tag>>
  <2>1. <<frame>> \in Seq(DataFrames) /\ Len(<<frame>>) = 1 /\ <<frame>>[1] = frame
    OBVIOUS
  <2>2. frame.tag \in Phases
    BY DEF DataFrames
  <2>3. <<frame.tag>> \in Seq(Phases) /\ Len(<<frame.tag>>) = 1 /\ <<frame.tag>>[1] = frame.tag
    BY <2>2
  <2>4. /\ Tags(<<frame>>) \in Seq(Phases) /\ Len(Tags(<<frame>>)) = 1
        /\ Tags(<<frame>>)[1] = frame.tag
    <3> DEFINE one == <<frame>>
    <3>1. one \in Seq(DataFrames) /\ Len(one) = 1 /\ one[1] = frame
      BY <2>1
    <3> HIDE DEF one
    <3>2. /\ Tags(one) \in Seq(Phases) /\ Len(Tags(one)) = 1
          /\ Tags(one)[1] = frame.tag
      BY <1>1, <3>1
    <3> QED
      BY <3>2 DEF one
  <2>5. \A i \in 1..1 : Tags(<<frame>>)[i] = <<frame.tag>>[i]
    BY <2>3, <2>4
  <2> HIDE DEF Tags
  <2> QED
    BY <2>3, <2>4, <2>5, SeqEqual
<1>4. Tags(<<>>) = <<>>
  <2>1. <<>> \in Seq(DataFrames) /\ Len(<<>>) = 0
    BY EmptySeq
  <2>2. Tags(<<>>) \in Seq(Phases) /\ Len(Tags(<<>>)) = 0
    BY <1>1, <2>1
  <2> QED
    BY <2>2, EmptySeq
<1> QED
  BY <1>1, <1>2, <1>3, <1>4

\* What is queued, when a frame or several are added or one is taken.
LEMMA QueuedIs ==
  /\ \A frames \in Seq(Frames) : Selected(frames, DataFrames) \in Seq(DataFrames)
  /\ \A frames, more \in Seq(Frames) :
       Tags(Selected(frames \o more, DataFrames))
         = Tags(Selected(frames, DataFrames)) \o Tags(Selected(more, DataFrames))
  /\ \A frames \in Seq(Frames), frame \in Frames : frame.kind # "data" =>
       Tags(Selected(Append(frames, frame), DataFrames)) = Tags(Selected(frames, DataFrames))
  /\ \A frames \in Seq(Frames) : frames # <<>> =>
       Tags(Selected(frames, DataFrames))
         = (IF Head(frames).kind = "data" THEN <<Head(frames).tag>> ELSE <<>>)
             \o Tags(Selected(Tail(frames), DataFrames))
<1>0. \A frame \in Frames : frame \in DataFrames <=> frame.kind = "data"
  BY DEF Frames, DataFrames
<1>1. \A frames \in Seq(Frames) : Selected(frames, DataFrames) \in Seq(DataFrames)
  <2>1. Frames \cap DataFrames = DataFrames
    BY DEF Frames
  <2> QED
    BY <2>1, SelectedType
<1>2. ASSUME NEW frames \in Seq(Frames), NEW more \in Seq(Frames)
      PROVE  Tags(Selected(frames \o more, DataFrames))
               = Tags(Selected(frames, DataFrames)) \o Tags(Selected(more, DataFrames))
  <2>1. Selected(frames \o more, DataFrames)
          = Selected(frames, DataFrames) \o Selected(more, DataFrames)
    BY SelectedConcat
  <2> QED
    BY <1>1, <2>1, TagsOf
<1>3. ASSUME NEW frames \in Seq(Frames), NEW frame \in Frames, frame.kind # "data"
      PROVE  Selected(Append(frames, frame), DataFrames) = Selected(frames, DataFrames)
  BY <1>0, <1>3, SelectedAppend
<1>4. ASSUME NEW frames \in Seq(Frames), frames # <<>>
      PROVE  Tags(Selected(frames, DataFrames))
               = (IF Head(frames).kind = "data" THEN <<Head(frames).tag>> ELSE <<>>)
                   \o Tags(Selected(Tail(frames), DataFrames))
  <2> DEFINE h == Head(frames)
             t == Selected(Tail(frames), DataFrames)
  <2>1. h \in Frames /\ t \in Seq(DataFrames) /\ Tail(frames) \in Seq(Frames)
    BY <1>1, <1>4, HeadTailProperties
  <2>2. Selected(frames, DataFrames) = (IF h \in DataFrames THEN <<h>> ELSE <<>>) \o t
    BY <1>4, SelectedHeadTail
  <2> HIDE DEF h, t
  <2>3. CASE h.kind = "data"
    <3>1. h \in DataFrames /\ <<h>> \in Seq(DataFrames)
      BY <1>0, <2>1, <2>3
    <3>2. Tags(<<h>> \o t) = <<h.tag>> \o Tags(t)
      BY <2>1, <3>1, TagsOf
    <3> QED
      BY <2>2, <2>3, <3>1, <3>2 DEF h, t
  <2>4. CASE h.kind # "data"
    <3>1. h \notin DataFrames
      BY <1>0, <2>1, <2>4
    <3>2. <<>> \o t = t /\ <<>> \o Tags(t) = Tags(t)
      BY <2>1, TagsOf, ConcatEmptySeq
    <3> QED
      BY <2>2, <2>4, <3>1, <3>2 DEF h, t
  <2> QED
    BY <2>3, <2>4
<1> QED
  BY <1>1, <1>2, <1>3, <1>4

\* The data among what is sent, item by item.
LEMMA DataPut ==
  ASSUME NEW w \in Seq(Items), NEW s \in Seq(Items), s # <<>>
  PROVE  DataOn(Put(w, Head(s))) \o DataOn(Tail(s)) = DataOn(w) \o DataOn(s)
<1> DEFINE x == Head(s)
           a == DataOn(w)
           b == DataOn(<<x>>)
           c == DataOn(Tail(s))
<1>0. \A t \in Seq(Items) : DataOn(t) \in Seq(Phases)
  <2>1. Items \cap Phases = Phases
    BY ChunkItems
  <2> QED
    BY <2>1, SelectedType DEF DataOn
<1>1. /\ x \in Items /\ <<x>> \in Seq(Items) /\ Tail(s) \in Seq(Items)
      /\ a \in Seq(Phases) /\ b \in Seq(Phases) /\ c \in Seq(Phases)
  BY <1>0, HeadAndTail
<1>2. b = IF x \in Phases THEN <<x>> ELSE <<>>
  BY SelectedOne DEF DataOn
<1>3. DataOn(s) = b \o c
  BY <1>2, SelectedHeadTail DEF DataOn
<1> HIDE DEF x
<1>4. DataOn(Put(w, x)) = IF x \in Phases THEN Append(a, x) ELSE a
  BY <1>1, PutSelected, ChunkItems DEF DataOn
<1> HIDE DEF a, b, c
<1>5. DataOn(Put(w, x)) = a \o b
  BY <1>1, <1>2, <1>4, AppendIsConcat, ConcatEmptySeq
<1>6. (a \o b) \o c = a \o (b \o c)
  BY <1>1, ConcatAssociative
<1> QED
  BY <1>3, <1>5, <1>6 DEF a, c, x

LEMMA DeliverAnswer ==
  ASSUME TypeOK, pc = "wait",
         NEW items \in Seq(Items), items # <<>> \/ ~headersStarted,
         NEW frame, Deliver(frame, items)
  PROVE  Answer' = Answer \o DataOn(items)
<1> DEFINE sends == (IF headersStarted THEN <<>> ELSE <<"head">>) \o items
<1>1. /\ <<"head">> \in Seq(Items) /\ <<>> \in Seq(Items)
      /\ sends \in Seq(Items) /\ sends # <<>>
  <2>1. <<"head">> \in Seq(Items) /\ <<>> \in Seq(Items)
    BY EmptySeq DEF Items
  <2> QED
    BY <2>1, ConcatProperties, ConcatEqualIffEmpty
<1>2. DataOn(sends) = DataOn(items)
  <2>1. CASE headersStarted
    BY <2>1, ConcatEmptySeq
  <2>2. CASE ~headersStarted
    <3>1. DataOn(<<"head">> \o items) = DataOn(<<"head">>) \o DataOn(items)
      <4> DEFINE u == <<"head">>
      <4>1. u \in Seq(Items)
        BY <1>1
      <4> HIDE DEF u
      <4>2. DataOn(u \o items) = DataOn(u) \o DataOn(items)
        BY <4>1, SelectedConcat DEF DataOn
      <4> QED
        BY <4>2 DEF u
    <3>2. DataOn(<<"head">>) = <<>>
      BY SelectedOne DEF DataOn, Phases
    <3>3. DataOn(items) \in Seq(Items \cap Phases)
      BY SelectedType DEF DataOn
    <3> QED
      BY <2>2, <3>1, <3>2, <3>3, ConcatEmptySeq
  <2> QED
    BY <2>1, <2>2
<1>3. /\ pc' = "send" /\ outbox' = sends /\ wire' = Put(wire, Head(sends))
  BY DEF Deliver
<1>4. Answer = DataOn(wire) /\ wire \in Seq(Items)
  BY AnswerType
<1> HIDE DEF sends
<1>5. Answer' = DataOn(Put(wire, Head(sends))) \o DataOn(Tail(sends))
  BY <1>3 DEF Answer, ToCome
<1> QED
  BY <1>1, <1>2, <1>4, <1>5, DataPut

LEMMA LastSend ==
  ASSUME TypeOK, SafetyInv, pc = "send", Len(outbox) = 1
  PROVE  Answer = DataOn(wire)
<1>1. Tail(outbox) \in Seq(Items) /\ Len(Tail(outbox)) = 0
  BY AfterSend
<1>2. Tail(outbox) = <<>>
  BY <1>1, EmptySeq
<1>3. DataOn(ToCome) = <<>>
  BY <1>2, SelectedEmpty DEF ToCome, DataOn
<1> QED
  BY <1>3, AnswerType, ConcatEmptySeq DEF Answer

\* No other step adds to the answer; a cancelled send takes what it had still to send.
LEMMA AnswerStep ==
  ASSUME TypeOK, SafetyInv, [Next]_vars
  PROVE  \/ Answer' = Answer
         \/ BeginStep
         \/ CancelStep /\ \E r \in Seq(Phases) : Answer = Answer' \o r
<1>0. TypeOK'
  BY OperatorType, SenderType, WakesType, SendReturnsType
     DEF Next, Environment, TypeOK, RuntimeType, SendingType, ConsumerType, TraceType,
         vars, runtime, sending, consumer, trace
<1>1. CASE QuietStep
  BY <1>1 DEF QuietStep, Answer, ToCome
<1>2. CASE WaitStep
  BY <1>2 DEF WaitStep, Answer, ToCome
<1>3. CASE SendNext
  <2> DEFINE s == Tail(outbox)
  <2>1. /\ pc = "send" /\ pc' = "send" /\ outbox' = s /\ wire' = Put(wire, outbox[2])
        /\ Len(outbox) > 1
    BY <1>3 DEF SendNext, Returned
  <2>2. s \in Seq(Items) /\ Len(s) = Len(outbox) - 1 /\ Len(outbox) \in Nat
        /\ \A i \in 1..Len(s) : s[i] = outbox[i + 1]
    BY <2>1, AfterSend
  <2>3. s # <<>> /\ s[1] = outbox[2]
    <3>1. 1 \in 1..Len(s) /\ Len(s) # 0
      BY <2>1, <2>2
    <3>2. s # <<>>
      <4>1. Len(<<>>) = 0
        BY EmptySeq
      <4>2. s = <<>> => Len(s) = Len(<<>>)
        BY Zenon
      <4> QED
        BY <3>1, <4>1, <4>2, Zenon
    <3> QED
      BY <2>2, <3>1, <3>2
  <2>4. wire \in Seq(Items)
    BY AnswerType
  <2>5. Answer = DataOn(wire) \o DataOn(s)
    BY <2>1 DEF Answer, ToCome
  <2>6. Answer' = DataOn(Put(wire, outbox[2])) \o DataOn(Tail(s))
    BY <2>1 DEF Answer, ToCome
  <2> HIDE DEF s
  <2>7. Head(s) = outbox[2]
    BY <2>2, <2>3, HeadAndTail
  <2> QED
    BY <2>2, <2>3, <2>4, <2>5, <2>6, <2>7, DataPut
<1>4. ASSUME pc = "send", Len(outbox) = 1
      PROVE  Answer = DataOn(wire)
  BY <1>4, LastSend
<1>5. ASSUME pc' # "send" PROVE Answer' = DataOn(wire')
  <2>1. DataOn(ToCome)' = <<>>
    BY <1>5, SelectedEmpty DEF ToCome, DataOn
  <2>2. wire' \in Seq(Items) /\ Items \cap Phases = Phases
    BY <1>0, ChunkItems DEF TypeOK, TraceType
  <2>3. DataOn(wire') \in Seq(Phases)
    BY <2>2, SelectedType DEF DataOn
  <2> QED
    BY <2>1, <2>3, ConcatEmptySeq DEF Answer
<1>6. CASE BackStep
  BY <1>4, <1>5, <1>6 DEF BackStep, Returned
<1>7. CASE StopStep
  <2>1. DataOn(wire') = DataOn(wire)
    <3>1. wire' = wire \/ wire' = Append(wire, "close")
      BY <1>7 DEF StopStep
    <3>2. Selected(Append(wire, "close"), Phases) = Selected(wire, Phases)
      BY AnswerType, SelectedAppend, ChunkItems
    <3> QED
      BY <3>1, <3>2 DEF DataOn
  <2>2. Answer = DataOn(wire)
    BY <1>4, <1>7, AnswerType DEF StopStep, Returned
  <2> QED
    BY <1>5, <1>7, <2>1, <2>2 DEF StopStep
<1>8. CASE CancelStep
  <2>1. Answer' = DataOn(wire)
    BY <1>5, <1>8 DEF CancelStep
  <2> QED
    BY <1>8, <2>1, AnswerType DEF Answer
<1> QED
  BY <1>1, <1>2, <1>3, <1>6, <1>7, <1>8, ConsumerSteps

LEMMA HeldTypes ==
  ASSUME TypeOK
  PROVE  /\ Answer \in Seq(Phases) /\ Fetched \in Seq(Phases) /\ Queued \in Seq(Phases)
         /\ Whats(todo) \in Seq(Phases) /\ script \in Seq(Phases)
         /\ queue \in Seq(Frames) /\ todo \in Seq(Step)
         /\ fetched = NoFrame \/ fetched \in Frames
<1>1. fetched = NoFrame \/ fetched \in Frames
  BY DEF TypeOK, ConsumerType
<1>2. fetched.kind = "data" => fetched.tag \in Phases
  BY <1>1, Kinds, FrameTags
<1>3. Fetched \in Seq(Phases)
  BY <1>2, EmptySeq DEF Fetched
<1>4. queue \in Seq(Frames) /\ todo \in Seq(Step) /\ script \in Seq(Phases)
  BY DEF TypeOK, SendingType, RuntimeType
<1>5. Queued \in Seq(Phases)
  BY <1>4, QueuedIs, TagsOf DEF Queued
<1> QED
  BY <1>1, <1>3, <1>4, <1>5, AnswerType, FramesOfPlan

\* Joining sequences of phases.
LEMMA Joined ==
  /\ \A a, b \in Seq(Phases) : a \o b \in Seq(Phases)
  /\ \A a, b, c \in Seq(Phases) : (a \o b) \o c = a \o (b \o c)
  /\ \A a \in Seq(Phases) : a \o <<>> = a /\ <<>> \o a = a
  /\ \A a, b \in Seq(Phases) : a \o b = <<>> => a = <<>> /\ b = <<>>
  /\ <<>> \in Seq(Phases)
BY ConcatProperties, ConcatAssociative, ConcatEmptySeq, ConcatEqualIffEmpty, EmptySeq

\* What is left to the sender, when it hands over the first n of its deltas.
LEMMA WhatsSplit ==
  ASSUME NEW plan \in Seq(Step), NEW n \in 0..Len(plan)
  PROVE  /\ SubSeq(ToFrames(plan), 1, n) \in Seq(Frames)
         /\ SubSeq(plan, n + 1, Len(plan)) \in Seq(Step)
         /\ Tags(Selected(SubSeq(ToFrames(plan), 1, n), DataFrames))
              \o Whats(SubSeq(plan, n + 1, Len(plan))) = Whats(plan)
<1> DEFINE first == SubSeq(ToFrames(plan), 1, n)
           rest  == SubSeq(plan, n + 1, Len(plan))
<1>1. /\ Len(plan) \in Nat /\ ToFrames(plan) \in Seq(Frames)
      /\ Len(ToFrames(plan)) = Len(plan) /\ Whats(plan) \in Seq(Phases)
      /\ Len(Whats(plan)) = Len(plan)
  BY FramesOfPlan, LenProperties
<1>2. \A i \in 1..Len(plan) :
        /\ plan[i] \in Step /\ plan[i].what \in Phases
        /\ ToFrames(plan)[i] = Frame("data", plan[i].what)
        /\ ToFrames(plan)[i] \in DataFrames /\ ToFrames(plan)[i].tag = plan[i].what
        /\ Whats(plan)[i] = plan[i].what
  <2> SUFFICES ASSUME NEW i \in 1..Len(plan)
               PROVE  /\ plan[i] \in Step /\ plan[i].what \in Phases
                      /\ ToFrames(plan)[i] = Frame("data", plan[i].what)
                      /\ ToFrames(plan)[i] \in DataFrames
                      /\ ToFrames(plan)[i].tag = plan[i].what
                      /\ Whats(plan)[i] = plan[i].what
    OBVIOUS
  <2>1. plan[i] \in Step
    BY ElementOfSeq
  <2> QED
    BY <2>1 DEF Step, ToFrames, Whats, Frame, DataFrames
<1>3. /\ first \in Seq(DataFrames) /\ Len(first) = n
      /\ \A i \in 1..n : first[i] = ToFrames(plan)[i]
  <2>1. \A i \in 1..n : ToFrames(plan)[i] \in DataFrames
    BY <1>1, <1>2
  <2>2. n \in Int /\ 1 \in Int
    BY <1>1
  <2> HIDE DEF first
  <2>3. /\ SubSeq(ToFrames(plan), 1, n) \in Seq(DataFrames)
        /\ Len(SubSeq(ToFrames(plan), 1, n)) = IF 1 =< n THEN n - 1 + 1 ELSE 0
        /\ \A i \in 1..n - 1 + 1 : SubSeq(ToFrames(plan), 1, n)[i] = ToFrames(plan)[1 + i - 1]
    BY <2>1, <2>2, SubSeqProperties
  <2> QED
    BY <1>1, <2>3 DEF first
<1>4. /\ rest \in Seq(Step) /\ Len(rest) = Len(plan) - n
      /\ \A i \in 1..Len(plan) - n : rest[i] = plan[i + n]
  <2>1. \A i \in n + 1..Len(plan) : plan[i] \in Step
    BY <1>1, <1>2
  <2>2. n + 1 \in Int /\ Len(plan) \in Int
    BY <1>1
  <2> HIDE DEF rest
  <2>3. /\ SubSeq(plan, n + 1, Len(plan)) \in Seq(Step)
        /\ Len(SubSeq(plan, n + 1, Len(plan)))
             = IF n + 1 =< Len(plan) THEN Len(plan) - (n + 1) + 1 ELSE 0
        /\ \A i \in 1..Len(plan) - (n + 1) + 1 :
             SubSeq(plan, n + 1, Len(plan))[i] = plan[(n + 1) + i - 1]
    BY <2>1, <2>2, SubSeqProperties
  <2> QED
    BY <1>1, <2>3 DEF rest
<1>5. first \in Seq(Frames)
  BY <1>3, SeqMonotonic DEF Frames
<1> HIDE DEF first, rest
<1>6. Selected(first, DataFrames) = first
  BY <1>3, SelectedAll
<1> DEFINE a == Tags(first)
           b == Whats(rest)
<1>7. /\ a \in Seq(Phases) /\ Len(a) = n
      /\ \A i \in 1..n : a[i] = Whats(plan)[i]
  <2>1. Tags(first) \in Seq(Phases) /\ Len(Tags(first)) = n
    BY <1>3, TagsOf
  <2>2. \A i \in 1..n : Tags(first)[i] = first[i].tag
    BY <1>3 DEF Tags
  <2> QED
    BY <1>1, <1>2, <1>3, <2>1, <2>2
<1>8. /\ b \in Seq(Phases) /\ Len(b) = Len(plan) - n
      /\ \A i \in 1..Len(plan) - n : b[i] = Whats(plan)[i + n]
  <2>1. Whats(rest) \in Seq(Phases) /\ Len(Whats(rest)) = Len(plan) - n
    BY <1>4, FramesOfPlan
  <2>2. \A i \in 1..Len(plan) - n : Whats(rest)[i] = rest[i].what
    BY <1>4 DEF Whats
  <2>3. \A i \in 1..Len(plan) - n : i + n \in 1..Len(plan)
    BY <1>1
  <2> QED
    BY <1>2, <1>4, <2>1, <2>2, <2>3
<1> HIDE DEF a, b
<1>9. /\ a \o b \in Seq(Phases) /\ Len(a \o b) = Len(plan)
      /\ \A i \in 1..Len(plan) : (a \o b)[i] = IF i =< n THEN a[i] ELSE b[i - n]
  BY <1>1, <1>7, <1>8, ConcatProperties
<1>10. \A i \in 1..Len(plan) : (a \o b)[i] = Whats(plan)[i]
  <2> SUFFICES ASSUME NEW i \in 1..Len(plan) PROVE (a \o b)[i] = Whats(plan)[i]
    OBVIOUS
  <2>1. CASE i =< n
    BY <1>1, <1>7, <1>9, <2>1
  <2>2. CASE ~(i =< n)
    <3>1. i - n \in 1..Len(plan) - n /\ (i - n) + n = i
      BY <1>1, <2>2
    <3>2. b[i - n] = Whats(plan)[i]
      BY <1>8, <3>1
    <3> QED
      BY <1>9, <2>2, <3>2
  <2> QED
    BY <2>1, <2>2
<1>11. a \o b = Whats(plan)
  BY <1>1, <1>9, <1>10, SeqEqual
<1> QED
  BY <1>4, <1>5, <1>6, <1>11 DEF first, rest, a, b

LEMMA HeldKept ==
  ASSUME HeldInv, UNCHANGED script,
         Answer' = Answer, Fetched' = Fetched, Queued' = Queued,
         pc' # "ended" /\ current'.kind # "finish" => pc # "ended" /\ current.kind # "finish",
         UNCHANGED <<sender, todo>> \/ sender' \in {"cancelled", "stopped"}
  PROVE  HeldInv'
<1> SUFFICES ASSUME pc' # "ended", current'.kind # "finish"
             PROVE  \E rest \in Seq(Phases) :
                      /\ script' = Answer' \o Fetched' \o Queued' \o rest
                      /\ sender' \notin {"cancelled", "stopped"} => rest = Whats(todo')
  BY DEF HeldInv
<1>1. PICK rest \in Seq(Phases) :
             /\ script = Answer \o Fetched \o Queued \o rest
             /\ sender \notin {"cancelled", "stopped"} => rest = Whats(todo)
  BY DEF HeldInv
<1>2. script' = Answer' \o Fetched' \o Queued' \o rest
  BY <1>1
<1>3. sender' \notin {"cancelled", "stopped"} => rest = Whats(todo')
  BY <1>1
<1> QED
  BY <1>2, <1>3

\* The operator's calls.
LEMMA HeldOperator ==
  ASSUME TypeOK, SafetyInv, ModeInv, HeldInv, Operator
  PROVE  HeldInv'
<1>0. /\ UNCHANGED <<pc, fetched, current, outbox, wire>>
      /\ Answer' = Answer /\ Fetched' = Fetched
  <2>1. UNCHANGED <<pc, fetched, current, outbox, wire>>
    BY DEF Operator, Submit, SubmitFails, Accept, AbortGraceful, AbortHard,
         InjectCutNow, CutNow, InjectHttpError, InjectDelay, InjectCutAfter, Arm,
         LiveStart, LiveText, LiveToolCall, Relay, LiveFinish, PutReadOnly, consumer, trace
  <2> QED
    BY <2>1 DEF Answer, ToCome, Fetched
<1>1. ASSUME NEW mode \in {"paced", "instant"}, NEW plan \in Plans, Submit(mode, plan)
      PROVE  HeldInv'
  <2>1. /\ status = "pending" /\ script' = script \o Whats(plan) /\ UNCHANGED queue
        /\ sender' = "running" /\ todo' = plan
    BY <1>1 DEF Submit, Accept
  <2>2. script = <<>>
    BY <2>1 DEF ModeInv
  <2>3. Whats(plan) \in Seq(Phases)
    BY PlanType, FramesOfPlan
  <2>4. SUFFICES ASSUME pc # "ended", current.kind # "finish" PROVE HeldInv'
    BY <1>0 DEF HeldInv
  <2>5. PICK rest \in Seq(Phases) : script = Answer \o Fetched \o Queued \o rest
    BY <2>4 DEF HeldInv
  <2>6. Answer \o Fetched \o Queued = <<>>
    <3> DEFINE held == Answer \o Fetched \o Queued
    <3>1. held \in Seq(Phases) /\ held \o rest = <<>>
      BY <2>2, <2>5, HeldTypes, Joined
    <3> HIDE DEF held
    <3>2. held = <<>>
      BY <3>1, Joined
    <3> QED
      BY <3>2 DEF held
  <2>7. script' = Answer \o Fetched \o Queued \o Whats(plan)
    BY <2>1, <2>2, <2>6
  <2>8. Queued' = Queued
    BY <2>1 DEF Queued
  <2>9. script' = Answer' \o Fetched' \o Queued' \o Whats(todo')
    BY <1>0, <2>1, <2>7, <2>8
  <2> QED
    BY <2>1, <2>3, <2>9 DEF HeldInv
<1>2. ASSUME UNCHANGED script, Queued' = Queued,
             UNCHANGED <<sender, todo>> \/ CancelSender
      PROVE  HeldInv'
  BY <1>0, <1>2, HeldKept DEF CancelSender
<1>3. ASSUME NEW frame \in Frames, frame.kind # "data", queue' = Append(queue, frame)
      PROVE  Queued' = Queued
  <2>1. Tags(Selected(queue', DataFrames)) = Tags(Selected(queue, DataFrames))
    BY <1>3, HeldTypes, QueuedIs
  <2> QED
    BY <2>1 DEF Queued
<1>4. CASE \/ \E mode \in {"paced", "instant"} : SubmitFails(mode)
           \/ InjectDelay \/ PutReadOnly \/ \E n \in CutAfter : InjectCutAfter(n)
  <2>1. UNCHANGED <<script, queue, sender, todo>>
    BY <1>4 DEF SubmitFails, Accept, InjectDelay, InjectCutAfter, Arm, PutReadOnly, sending
  <2> QED
    BY <1>2, <2>1 DEF Queued
<1>5. CASE AbortGraceful
  <2>1. Frame("finish", "partial").kind = "finish"
    BY DEF Frame
  <2>2. /\ UNCHANGED script /\ queue' = Append(queue, Frame("finish", "partial"))
        /\ CancelSender
    BY <1>5 DEF AbortGraceful
  <2>3. Queued' = Queued
    BY <1>3, <2>1, <2>2, FrameTypes
  <2> QED
    BY <1>2, <2>2, <2>3
<1>6. ASSUME NEW reason \in {"operator_hard_abort", "stream_cut_injected"}, CutNow(reason)
      PROVE  HeldInv'
  <2>1. Frame("hard_abort", reason).kind = "hard_abort"
    BY DEF Frame
  <2>2. /\ UNCHANGED script /\ queue' = Append(queue, Frame("hard_abort", reason))
        /\ CancelSender
    BY <1>6 DEF CutNow, runtime
  <2>3. Queued' = Queued
    BY <1>3, <2>1, <2>2, FrameTypes
  <2> QED
    BY <1>2, <2>2, <2>3
<1>7. CASE InjectHttpError
  <2>1. Frame("http_error", "injected").kind = "http_error"
    BY DEF Frame
  <2>2. /\ UNCHANGED script /\ queue' = Append(queue, Frame("http_error", "injected"))
        /\ UNCHANGED <<sender, todo>>
    BY <1>7 DEF InjectHttpError, runtime
  <2>3. Queued' = Queued
    BY <1>3, <2>1, <2>2, FrameTypes
  <2> QED
    BY <1>2, <2>2, <2>3
<1>8. CASE LiveFinish
  <2>1. Frame("finish", "whole").kind = "finish"
    BY DEF Frame
  <2>2. /\ UNCHANGED script /\ queue' = Append(queue, Frame("finish", "whole"))
        /\ UNCHANGED <<sender, todo>>
    BY <1>8 DEF LiveFinish
  <2>3. Queued' = Queued
    BY <1>3, <2>1, <2>2, FrameTypes
  <2> QED
    BY <1>2, <2>2, <2>3
<1>9. ASSUME NEW whats \in Seq(Phases), Relay(whats), sender = "none"
      PROVE  HeldInv'
  <2> DEFINE more == [i \in 1..Len(whats) |-> Frame("data", whats[i])]
  <2>1. /\ script' = script \o whats /\ queue' = queue \o more
        /\ UNCHANGED <<sender, todo>>
    BY <1>9 DEF Relay
  <2>2. more \in Seq(DataFrames) /\ Tags(more) = whats
    <3>1. Len(whats) \in Nat /\ \A i \in 1..Len(whats) : whats[i] \in Phases
      BY ElementOfSeq, LenProperties
    <3>2. \A i \in 1..Len(whats) : /\ Frame("data", whats[i]) \in DataFrames
                                   /\ Frame("data", whats[i]).tag = whats[i]
      BY <3>1 DEF Frame, DataFrames
    <3>3. more \in Seq(DataFrames) /\ Len(more) = Len(whats)
      <4>1. more \in [1..Len(whats) -> DataFrames]
        BY <3>2
      <4> QED
        BY <3>1, <4>1, SeqDef, LenProperties
    <3>4. \A i \in 1..Len(whats) : more[i].tag = whats[i]
      BY <3>2
    <3> HIDE DEF more
    <3>5. Tags(more) \in Seq(Phases) /\ Len(Tags(more)) = Len(whats)
      BY <3>3, TagsOf
    <3>6. \A i \in 1..Len(whats) : Tags(more)[i] = whats[i]
      BY <3>3, <3>4 DEF Tags
    <3>7. Tags(more) = whats
      BY <3>5, <3>6, SeqEqual
    <3> QED
      BY <3>3, <3>7
  <2> HIDE DEF more
  <2>3. more \in Seq(Frames) /\ Selected(more, DataFrames) = more
    BY <2>2, SeqMonotonic, SelectedAll DEF Frames
  <2>4. Tags(Selected(queue', DataFrames)) = Tags(Selected(queue, DataFrames)) \o whats
    BY <2>1, <2>2, <2>3, HeldTypes, QueuedIs
  <2>5. Queued' = Queued \o whats
    BY <2>4 DEF Queued
  <2>6. Whats(todo) = <<>>
    <3>1. todo = <<>>
      BY <1>9 DEF ModeInv
    <3>2. Whats(todo) \in Seq(Phases) /\ Len(Whats(todo)) = 0
      BY <3>1, FramesOfPlan, EmptySeq
    <3> QED
      BY <3>2, EmptySeq
  <2>7. SUFFICES ASSUME pc # "ended", current.kind # "finish" PROVE HeldInv'
    BY <1>0 DEF HeldInv
  <2>8. script = Answer \o Fetched \o Queued \o Whats(todo)
    BY <1>9, <2>7 DEF HeldInv
  <2> DEFINE held == Answer \o Fetched
  <2>9. held \in Seq(Phases) /\ Queued \in Seq(Phases) /\ Whats(todo) \in Seq(Phases)
    BY HeldTypes, Joined
  <2>10. script = held \o Queued
    BY <2>6, <2>8, <2>9, Joined
  <2> HIDE DEF held
  <2>11. script' = (held \o (Queued \o whats)) \o Whats(todo)
    BY <2>1, <2>6, <2>9, <2>10, Joined
  <2>12. script' = Answer' \o Fetched' \o Queued' \o Whats(todo)
    BY <1>0, <2>5, <2>11 DEF held
  <2>13. Whats(todo)' = Whats(todo)
    BY <2>1
  <2> QED
    BY <2>9, <2>12, <2>13 DEF HeldInv
<1>10. CASE LiveStart
  <2>1. <<"role">> \in Seq(Phases) /\ sender = "none" /\ Relay(<<"role">>)
    BY <1>10 DEF LiveStart, ModeInv, Phases
  <2> QED
    BY <1>9, <2>1
<1>11. ASSUME NEW field \in {"reasoning", "content"}, LiveText(field)
       PROVE  HeldInv'
  <2>1. <<field>> \in Seq(Phases) /\ sender = "none" /\ Relay(<<field>>)
    BY <1>11 DEF LiveText, Live, ModeInv, Phases
  <2> QED
    BY <1>9, <2>1
<1>12. ASSUME NEW chunks \in 1..2, LiveToolCall(chunks)
       PROVE  HeldInv'
  <2> DEFINE whats == [i \in 1..chunks |-> "tool"]
  <2>1. whats \in Seq(Phases) /\ sender = "none" /\ Relay(whats)
    BY <1>12, SeqDef DEF LiveToolCall, Live, ModeInv, Phases
  <2> HIDE DEF whats
  <2> QED
    BY <1>9, <2>1
<1> QED
  BY <1>1, <1>4, <1>5, <1>6, <1>7, <1>8, <1>10, <1>11, <1>12
     DEF Operator, AbortHard, InjectCutNow

\* The sender, and the task that reads its queue.
LEMMA HeldSender ==
  ASSUME TypeOK, SafetyInv, OutboxInv, ModeInv, HeldInv, Sender \/ Shutdown \/ GetTask
  PROVE  HeldInv'
<1>0. /\ UNCHANGED <<pc, current, outbox, wire, script>>
      /\ Answer' = Answer
  <2>1. UNCHANGED <<pc, current, outbox, wire, script>>
    BY DEF Sender, SenderEnds, SenderPauses, Shutdown, GetTask, runtime, consumer, trace
  <2> QED
    BY <2>1 DEF Answer, ToCome
<1>1. SUFFICES ASSUME pc # "ended", current.kind # "finish" PROVE HeldInv'
  BY <1>0 DEF HeldInv
<1>2. PICK rest \in Seq(Phases) :
             /\ script = Answer \o Fetched \o Queued \o rest
             /\ sender \notin {"cancelled", "stopped"} => rest = Whats(todo)
  BY <1>1 DEF HeldInv
<1> DEFINE held == Answer \o Fetched
<1>3. /\ held \in Seq(Phases) /\ Queued \in Seq(Phases) /\ Whats(todo) \in Seq(Phases)
      /\ Answer \in Seq(Phases) /\ Fetched \in Seq(Phases)
      /\ todo \in Seq(Step) /\ queue \in Seq(Frames)
      /\ Len(todo) \in Nat
  BY HeldTypes, Joined, LenProperties
<1> HIDE DEF held
<1>4. ASSUME NEW more \in Seq(Frames), Queued' = Queued \o Tags(Selected(more, DataFrames)),
             NEW left \in Seq(Phases), Tags(Selected(more, DataFrames)) \o left = Whats(todo),
             sender = "running", UNCHANGED fetched, Whats(todo)' = left
      PROVE  HeldInv'
  <2> DEFINE tags == Tags(Selected(more, DataFrames))
  <2>1. tags \in Seq(Phases)
    BY QueuedIs, TagsOf
  <2>2. script = held \o Queued \o Whats(todo)
    BY <1>2, <1>4 DEF held
  <2> HIDE DEF tags
  <2>3. script = (held \o Queued) \o (tags \o left)
    BY <1>4, <2>2 DEF tags
  <2>4. held \o Queued \in Seq(Phases)
    BY <1>3, Joined
  <2>5. script = ((held \o Queued) \o tags) \o left
    <3>1. \A a \in Seq(Phases) : (a \o tags) \o left = a \o (tags \o left)
      BY <1>4, <2>1, ConcatAssociative
    <3> QED
      BY <2>3, <2>4, <3>1
  <2>6. (held \o Queued) \o tags = held \o (Queued \o tags)
    <3>1. \A a, b \in Seq(Phases) : (a \o b) \o tags = a \o (b \o tags)
      BY <2>1, ConcatAssociative
    <3> QED
      BY <1>3, <3>1
  <2>7. Fetched' = Fetched
    BY <1>4 DEF Fetched
  <2>8. script' = Answer' \o Fetched' \o Queued' \o Whats(todo)'
    BY <1>0, <1>4, <2>5, <2>6, <2>7 DEF tags, held
  <2> QED
    BY <1>4, <2>8 DEF HeldInv
<1>5. CASE SenderEnds
  <2>1. /\ sender = "running" /\ UNCHANGED fetched /\ todo' = <<>>
        /\ queue' = Append(queue \o ToFrames(todo), Frame("finish", "whole"))
    BY <1>5 DEF SenderEnds, consumer
  <2>2. ToFrames(todo) \in Seq(Frames) /\ queue \o ToFrames(todo) \in Seq(Frames)
    BY <1>3, FramesOfPlan, ConcatProperties
  <2>3. Frame("finish", "whole") \in Frames /\ Frame("finish", "whole").kind # "data"
    BY FrameTypes DEF Frame
  <2>4. Tags(Selected(queue', DataFrames)) = Tags(Selected(queue \o ToFrames(todo), DataFrames))
    BY <2>1, <2>2, <2>3, QueuedIs
  <2>5. Tags(Selected(queue \o ToFrames(todo), DataFrames))
          = Queued \o Tags(Selected(ToFrames(todo), DataFrames))
    BY <1>3, <2>2, QueuedIs DEF Queued
  <2>6. Queued' = Queued \o Tags(Selected(ToFrames(todo), DataFrames))
    BY <2>4, <2>5 DEF Queued
  <2>7. Whats(todo)' = <<>>
    <3>1. <<>> \in Seq(Step) /\ Len(<<>>) = 0
      BY EmptySeq
    <3>2. Whats(<<>>) \in Seq(Phases) /\ Len(Whats(<<>>)) = 0
      BY <3>1, FramesOfPlan
    <3> QED
      BY <2>1, <3>2, EmptySeq
  <2>8. Tags(Selected(ToFrames(todo), DataFrames)) \o <<>> = Whats(todo)
    <3>1. SubSeq(ToFrames(todo), 1, Len(todo)) = ToFrames(todo)
      BY <1>3, <2>2, FramesOfPlan, SubSeqFull
    <3>2. SubSeq(todo, Len(todo) + 1, Len(todo)) = <<>>
      BY <1>3, SubSeqEmpty
    <3>3. Len(todo) \in 0..Len(todo)
      BY <1>3
    <3>4. Tags(Selected(SubSeq(ToFrames(todo), 1, Len(todo)), DataFrames))
            \o Whats(SubSeq(todo, Len(todo) + 1, Len(todo))) = Whats(todo)
      BY <1>3, <3>3, WhatsSplit
    <3> QED
      BY <2>1, <2>7, <3>1, <3>2, <3>4
  <2> QED
    BY <1>4, <2>1, <2>2, <2>6, <2>7, <2>8, Joined
<1>6. ASSUME NEW n \in 1..Len(todo), SenderPauses(n) PROVE HeldInv'
  <2>1. /\ sender = "running" /\ UNCHANGED fetched
        /\ queue' = queue \o SubSeq(ToFrames(todo), 1, n)
        /\ todo' = SubSeq(todo, n + 1, Len(todo))
    BY <1>6 DEF SenderPauses, consumer
  <2> DEFINE more == SubSeq(ToFrames(todo), 1, n)
             left == Whats(SubSeq(todo, n + 1, Len(todo)))
  <2>2. n \in 0..Len(todo)
    BY <1>3
  <2>3. more \in Seq(Frames) /\ left \in Seq(Phases)
        /\ Tags(Selected(more, DataFrames)) \o left = Whats(todo)
    BY <1>3, <2>2, WhatsSplit, FramesOfPlan
  <2>4. Whats(todo)' = left
    BY <2>1
  <2> HIDE DEF left
  <2>5. queue' = queue \o more
    BY <2>1
  <2> HIDE DEF more
  <2>6. Queued' = Queued \o Tags(Selected(more, DataFrames))
    BY <1>3, <2>3, <2>5, QueuedIs DEF Queued
  <2> QED
    BY <1>4, <2>1, <2>3, <2>4, <2>6
<1>7. CASE Shutdown
  <2>1. sender' = "stopped" /\ UNCHANGED <<fetched, queue>>
    BY <1>7 DEF Shutdown, consumer
  <2> QED
    BY <1>0, <2>1, HeldKept DEF Fetched, Queued
<1>8. CASE GetTask
  <2>1. /\ fetched = NoFrame /\ queue # <<>> /\ fetched' = Head(queue)
        /\ queue' = Tail(queue) /\ UNCHANGED <<sender, todo>>
    BY <1>8 DEF GetTask
  <2>2. Fetched = <<>>
    BY <2>1, Kinds DEF Fetched
  <2>3. Queued = Fetched' \o Queued'
    BY <1>3, <2>1, QueuedIs DEF Queued, Fetched
  <2>4. Fetched' \in Seq(Phases) /\ Queued' \in Seq(Phases)
    <3>1. Head(queue) \in Frames /\ Tail(queue) \in Seq(Frames)
      BY <1>3, <2>1, HeadTailProperties
    <3>2. Fetched' \in Seq(Phases)
      BY <2>1, <3>1, FrameTags, EmptySeq DEF Fetched
    <3>3. Queued' \in Seq(Phases)
      BY <2>1, <3>1, QueuedIs, TagsOf DEF Queued
    <3> QED
      BY <3>2, <3>3
  <2>5. Answer \o Fetched \o Queued = Answer \o Fetched' \o Queued'
    <3> DEFINE f == Fetched'
               q == Queued'
    <3>1. Answer \o Fetched = Answer
      BY <1>3, <2>2, Joined
    <3>2. f \in Seq(Phases) /\ q \in Seq(Phases) /\ Queued = f \o q
      BY <2>3, <2>4
    <3> HIDE DEF f, q
    <3>3. \A a \in Seq(Phases) : a \o (f \o q) = (a \o f) \o q
      BY <3>2, ConcatAssociative
    <3> QED
      BY <1>3, <3>1, <3>2, <3>3 DEF f, q
  <2>6. script' = Answer' \o Fetched' \o Queued' \o rest
    BY <1>0, <1>2, <2>5
  <2>7. Whats(todo)' = Whats(todo)
    BY <2>1
  <2> QED
    BY <1>2, <2>1, <2>6, <2>7 DEF HeldInv
<1> QED
  BY <1>5, <1>6, <1>7, <1>8 DEF Sender

\* The consumer.
LEMMA HeldConsumer ==
  ASSUME TypeOK, SafetyInv, HeldInv,
         Wakes \/ SendReturns \/ ConsumerCancelled \/ ClientLeaves \/ UNCHANGED vars
  PROVE  HeldInv'
<1>0. /\ UNCHANGED <<script, queue>> /\ Queued' = Queued
  <2>1. UNCHANGED <<script, queue>>
    BY DEF Wakes, TakeDisconnect, Tick, TakeData, TakeFinish, TakeHttpError, DropHttpError,
         TakeHardAbort, SendReturns, SendNext, KeepAliveSent, DataSent, DataSentAndCut,
         FinishSent, HttpErrorSent, HardAbortHeadSent, GoneSent, Sent, Returned,
         ConsumerCancelled, ClientLeaves, runtime, sending, vars
  <2> QED
    BY <2>1 DEF Queued
<1>1. ASSUME pc' = "ended" \/ current'.kind = "finish" PROVE HeldInv'
  BY <1>1 DEF HeldInv
<1>2. ASSUME Answer' = Answer, Fetched' = Fetched, pc # "ended", current.kind # "finish",
             UNCHANGED <<sender, todo>> \/ CancelSender
      PROVE  HeldInv'
  BY <1>0, <1>2, HeldKept DEF CancelSender
<1>3. [Next]_vars
  BY DEF Next, Environment
<1>4. CASE ClientLeaves \/ UNCHANGED vars
  <2>1. UNCHANGED <<pc, fetched, current, outbox, wire, sender, todo>>
    BY <1>4 DEF ClientLeaves, vars, sending, consumer, trace
  <2>2. Answer' = Answer /\ Fetched' = Fetched
    BY <2>1 DEF Answer, ToCome, Fetched
  <2> QED
    BY <1>0, <2>1, <2>2, HeldKept
<1>5. CASE ConsumerCancelled
  BY <1>1, <1>5 DEF ConsumerCancelled, Stop
<1>6. CASE SendReturns
  <2>1. CASE SendNext \/ KeepAliveSent \/ DataSent
    <3>1. /\ pc = "send" /\ pc' # "ended" /\ UNCHANGED <<fetched, sender, todo>>
          /\ current' = current \/ current.kind # "finish"
      BY <2>1 DEF SendNext, KeepAliveSent, DataSent, Sent, Returned, EnterWait
    <3>2. Answer' = Answer /\ Fetched' = Fetched
      BY <1>3, <3>1, AnswerStep DEF BeginStep, CancelStep, Fetched
    <3>3. CASE current.kind = "finish"
      BY <1>1, <3>1, <3>3
    <3>4. CASE current.kind # "finish"
      BY <1>2, <3>1, <3>2, <3>4
    <3> QED
      BY <3>3, <3>4
  <2>2. CASE DataSentAndCut \/ FinishSent \/ HttpErrorSent \/ HardAbortHeadSent \/ GoneSent
    BY <1>1, <2>2 DEF DataSentAndCut, FinishSent, HttpErrorSent, HardAbortHeadSent, GoneSent,
                      Stop
  <2> QED
    BY <1>6, <2>1, <2>2 DEF SendReturns
<1>7. CASE Wakes
  <2>0. pc = "wait" /\ current.kind = "none"
    <3>1. pc = "wait"
      BY <1>7 DEF Wakes, TakeDisconnect, Tick, TakeData, TakeFinish, TakeHttpError,
           DropHttpError, TakeHardAbort, Taken, Waiting
    <3> QED
      BY <3>1, AtWait, Kinds
  <2>1. /\ Answer \in Seq(Phases) /\ Answer = DataOn(wire) /\ wire \in Seq(Items)
        /\ fetched = NoFrame \/ fetched \in Frames
    BY <2>0, HeldTypes, AnswerType
  <2>2. ASSUME NEW frame, NEW items \in Seq(Items), items # <<>> \/ ~headersStarted,
               Deliver(frame, items), DataOn(items) = <<>>
        PROVE  Answer' = Answer
    BY <2>0, <2>1, <2>2, DeliverAnswer, ConcatEmptySeq
  <2>3. \A x \in Items \ Phases : DataOn(<<x>>) = <<>> /\ <<x>> \in Seq(Items) /\ <<x>> # <<>>
    BY SelectedOne DEF DataOn
  <2>4. ASSUME NEW kind \in {"finish", "http_error", "hard_abort"}, Taken(kind)
        PROVE  Fetched' = Fetched
    BY <2>4, Kinds DEF Taken, Fetched
  <2>5. CASE TakeDisconnect
    <3>1. UNCHANGED fetched /\ (UNCHANGED <<sender, todo>> \/ CancelSender)
      BY <2>5 DEF TakeDisconnect, OnClientDisconnect, EndCancelling
    <3>2. CASE headersStarted
      BY <1>1, <2>5, <3>2 DEF TakeDisconnect, Stop
    <3>3. CASE ~headersStarted
      <4>1. Deliver(GoneFrame, <<"end">>) /\ "end" \in Items \ Phases
        BY <2>5, <3>3 DEF TakeDisconnect, Items, Phases
      <4>2. Answer' = Answer
        BY <2>2, <2>3, <4>1
      <4> QED
        BY <1>2, <2>0, <3>1, <4>2 DEF Fetched
    <3> QED
      BY <3>2, <3>3
  <2>6. CASE Tick
    <3>1. UNCHANGED <<fetched, sender, todo>>
      BY <2>6 DEF Tick, sending
    <3>2. Answer' = Answer
      <4>1. CASE Delayed
        <5>1. UNCHANGED wire /\ pc' = "wait"
          BY <2>6, <4>1 DEF Tick, EnterWait
        <5> QED
          BY <2>0, <5>1 DEF Answer, ToCome
      <4>2. CASE ~Delayed
        <5>1. Deliver(KeepAliveFrame, <<"keepalive">>) /\ "keepalive" \in Items \ Phases
          BY <2>6, <4>2 DEF Tick, Items, Phases
        <5> QED
          BY <2>2, <2>3, <5>1
      <4> QED
        BY <4>1, <4>2
    <3> QED
      BY <1>2, <2>0, <3>1, <3>2 DEF Fetched
  <2>7. CASE TakeData
    <3>1. /\ fetched.kind = "data" /\ fetched' = NoFrame /\ UNCHANGED <<sender, todo>>
          /\ Deliver(fetched, <<fetched.tag>>)
      BY <2>7 DEF TakeData, Taken, sending
    <3>2. fetched.tag \in Phases
      BY <2>1, <3>1, Kinds, FrameTags
    <3> DEFINE x == <<fetched.tag>>
    <3>3. x \in Seq(Items) /\ x # <<>> /\ DataOn(x) = x /\ x \in Seq(Phases)
      BY <3>2, ChunkItems, SelectedOne DEF DataOn
    <3>4. Fetched = x /\ Fetched' = <<>>
      BY <3>1, Kinds DEF Fetched
    <3> HIDE DEF x
    <3>5. Answer' = Answer \o x
      BY <2>0, <3>1, <3>3, DeliverAnswer DEF x
    <3>6. PICK rest \in Seq(Phases) :
                 /\ script = Answer \o Fetched \o Queued \o rest
                 /\ sender \notin {"cancelled", "stopped"} => rest = Whats(todo)
      BY <2>0 DEF HeldInv
    <3>7. Answer' \o Fetched' = Answer \o Fetched
      <4>1. (Answer \o x) \o <<>> = Answer \o x
        BY <2>1, <3>3, Joined
      <4> QED
        BY <3>4, <3>5, <4>1
    <3>8. script' = Answer' \o Fetched' \o Queued' \o rest
      BY <1>0, <3>6, <3>7
    <3>9. Whats(todo)' = Whats(todo)
      BY <3>1
    <3> QED
      BY <3>1, <3>6, <3>8, <3>9 DEF HeldInv
  <2>8. CASE TakeFinish
    BY <1>1, <2>8 DEF TakeFinish, Taken, Deliver
  <2>9. CASE TakeHttpError
    <3>1. /\ pc' = "send" /\ outbox' = <<"errhead", "errbody">> /\ UNCHANGED <<sender, todo>>
          /\ wire' = Append(wire, "errhead") /\ Taken("http_error")
      BY <2>9 DEF TakeHttpError, sending
    <3>2. {"errhead", "errbody"} \subseteq Items \ Phases
      BY DEF Items, Phases
    <3>3. DataOn(wire') = DataOn(wire)
      BY <2>1, <3>1, <3>2, SelectedAppend DEF DataOn
    <3>4. ToCome' = <<"errbody">>
      BY <3>1, Tuples DEF ToCome
    <3>5. DataOn(ToCome)' = <<>>
      BY <2>3, <3>2, <3>4 DEF DataOn
    <3>6. Answer' = Answer
      BY <2>1, <3>3, <3>5, ConcatEmptySeq DEF Answer
    <3> QED
      BY <1>2, <2>0, <2>4, <3>1, <3>6
  <2>10. CASE DropHttpError
    <3>1. /\ UNCHANGED <<wire, sender, todo>> /\ pc' = "wait" /\ Taken("http_error")
      BY <2>10 DEF DropHttpError, sending, trace, EnterWait
    <3>2. Answer' = Answer
      BY <2>0, <3>1 DEF Answer, ToCome
    <3> QED
      BY <1>2, <2>0, <2>4, <3>1, <3>2
  <2>11. CASE TakeHardAbort
    <3>1. Taken("hard_abort")
      BY <2>11 DEF TakeHardAbort
    <3>2. CASE headersStarted
      BY <1>1, <2>11, <3>2 DEF TakeHardAbort, Stop
    <3>3. CASE ~headersStarted
      <4>1. Deliver(fetched, <<>>) /\ UNCHANGED <<sender, todo>>
        BY <2>11, <3>3 DEF TakeHardAbort
      <4>2. <<>> \in Seq(Items) /\ DataOn(<<>>) = <<>>
        BY EmptySeq, SelectedEmpty DEF DataOn
      <4>3. Answer' = Answer
        BY <2>2, <3>3, <4>1, <4>2
      <4> QED
        BY <1>2, <2>0, <2>4, <3>1, <4>1, <4>3
    <3> QED
      BY <3>2, <3>3
  <2> QED
    BY <1>7, <2>5, <2>6, <2>7, <2>8, <2>9, <2>10, <2>11 DEF Wakes
<1> QED
  BY <1>4, <1>5, <1>6, <1>7

LEMMA HeldSafe ==
  TypeOK /\ SafetyInv /\ OutboxInv /\ ModeInv /\ HeldInv /\ [Next]_vars => HeldInv'
BY HeldOperator, HeldSender, HeldConsumer DEF Next, Environment

-----------------------------------------------------------------------------
(* All of the answer, or a beginning of it                                  *)

\* The answer so far begins the script; a response may open with a role that
\* nobody asked for.
Begins(a, s) ==
  \/ s = <<>> /\ a \in {<<>>, <<"role">>}
  \/ s # <<>> /\ \E r \in Seq(Phases) : s = a \o r

PrefixInv == Begins(Answer, script)

Whole == Frame("finish", "whole")

\* When the sender has ended, its finish marker comes after all of its chunks.
EndedWhole ==
  sender = "ended" =>
    /\ \A i, j \in 1..Len(queue) : queue[i] = Whole /\ i < j => queue[j].kind # "data"
    /\ fetched = Whole => \A j \in 1..Len(queue) : queue[j].kind # "data"
    /\ current = Whole => Answer = script

\* So a draft that is recorded as whole was sent whole.
ClosedWhole ==
  done /\ closings[1].reason = "whole" /\ meta # "live" => DataOn(wire) = script

WholeInv == EndedWhole /\ ClosedWhole

LEMMA ScriptSteps ==
  ASSUME TypeOK, ModeInv, [Next]_vars
  PROVE  /\ \E r \in Seq(Phases) : script' = script \o r
         /\ sender # "none" => UNCHANGED script
<1>0. script \in Seq(Phases)
  BY DEF TypeOK, RuntimeType
<1>1. ASSUME NEW r \in Seq(Phases), script' = script \o r, sender = "none"
      PROVE  /\ \E q \in Seq(Phases) : script' = script \o q
             /\ sender # "none" => UNCHANGED script
  BY <1>1
<1>2. ASSUME UNCHANGED script
      PROVE  /\ \E q \in Seq(Phases) : script' = script \o q
             /\ sender # "none" => UNCHANGED script
  BY <1>0, <1>2, Joined
<1>3. ASSUME NEW mode \in {"paced", "instant"}, NEW plan \in Plans, Submit(mode, plan)
      PROVE  \E r \in Seq(Phases) : script' = script \o r /\ sender = "none"
  <2>1. script' = script \o Whats(plan) /\ sender = "none"
    BY <1>3 DEF Submit, Accept, ModeInv
  <2> QED
    BY <2>1, PlanType, FramesOfPlan
<1>4. CASE LiveStart
  <2>1. script' = script \o <<"role">> /\ sender = "none" /\ <<"role">> \in Seq(Phases)
    BY <1>4 DEF LiveStart, Relay, ModeInv, Phases
  <2> QED
    BY <1>1, <2>1
<1>5. ASSUME NEW field \in {"reasoning", "content"}, LiveText(field)
      PROVE  \E r \in Seq(Phases) : script' = script \o r /\ sender = "none"
  <2>1. script' = script \o <<field>> /\ sender = "none" /\ <<field>> \in Seq(Phases)
    BY <1>5 DEF LiveText, Live, Relay, ModeInv, Phases
  <2> QED
    BY <2>1
<1>6. ASSUME NEW chunks \in 1..2, LiveToolCall(chunks)
      PROVE  \E r \in Seq(Phases) : script' = script \o r /\ sender = "none"
  <2> DEFINE whats == [i \in 1..chunks |-> "tool"]
  <2>1. whats \in Seq(Phases)
    BY SeqDef DEF Phases
  <2>2. script' = script \o whats /\ sender = "none"
    BY <1>6 DEF LiveToolCall, Live, Relay, ModeInv
  <2> HIDE DEF whats
  <2> QED
    BY <2>1, <2>2
<1>7. CASE \/ \E mode \in {"paced", "instant"} : SubmitFails(mode)
           \/ AbortGraceful \/ AbortHard \/ InjectHttpError \/ InjectDelay \/ InjectCutNow
           \/ \E n \in CutAfter : InjectCutAfter(n)
           \/ LiveFinish \/ PutReadOnly
  <2>1. UNCHANGED script
    BY <1>7 DEF SubmitFails, AbortGraceful, AbortHard, InjectCutNow, CutNow, InjectHttpError,
         InjectDelay, InjectCutAfter, Arm, LiveFinish, PutReadOnly, runtime
  <2> QED
    BY <1>2, <2>1
<1>8. CASE Sender \/ GetTask \/ Environment \/ Wakes \/ SendReturns \/ UNCHANGED vars
  <2>1. UNCHANGED script
    BY <1>8 DEF Sender, SenderEnds, SenderPauses, GetTask, Environment, Shutdown,
         ClientLeaves, ConsumerCancelled, Wakes, TakeDisconnect, Tick, TakeData, TakeFinish,
         TakeHttpError, DropHttpError, TakeHardAbort, SendReturns, SendNext, KeepAliveSent,
         DataSent, DataSentAndCut, FinishSent, HttpErrorSent, HardAbortHeadSent, GoneSent,
         Sent, Returned, runtime, vars
  <2> QED
    BY <1>2, <2>1
<1> QED
  BY <1>1, <1>3, <1>4, <1>5, <1>6, <1>7, <1>8 DEF Next, Operator

\* Nothing among the chunks is nothing among the data.
LEMMA NoChunks ==
  ASSUME NEW w \in Seq(Items)
  PROVE  ChunksOn(w) = <<>> => DataOn(w) = <<>>
<1> DEFINE c == Selected(w, Chunks)
           d == Selected(w, Phases)
<1>1. \A K : \A x : (\E i \in 1..Len(Selected(w, K)) : Selected(w, K)[i] = x)
                      <=> x \in K /\ \E i \in 1..Len(w) : w[i] = x
  BY SelectedElements
<1>2. d \in Seq(Items \cap Phases)
  BY SelectedType
<1> HIDE DEF c, d
<1>3. ASSUME c = <<>>, d # <<>> PROVE FALSE
  <2>1. 1 \in 1..Len(d)
    BY <1>2, <1>3, EmptySeq
  <2>2. d[1] \in Phases /\ \E i \in 1..Len(w) : w[i] = d[1]
    BY <1>1, <2>1 DEF d
  <2>3. \E i \in 1..Len(c) : c[i] = d[1]
    BY <1>1, <2>2, ChunkItems DEF c
  <2> QED
    BY <1>3, <2>3, EmptySeq
<1> QED
  BY <1>3 DEF ChunksOn, DataOn, c, d

\* A finish adds a role at most.
LEMMA FinishData ==
  DataOn(FinishSends) = IF sent = <<>> THEN <<"role">> ELSE <<>>
<1> DEFINE role   == <<"role">>
           finish == <<"finish">>
           last   == <<"done">>
           lead   == IF sent = <<>> THEN role ELSE <<>>
           usage  == IF IncludeUsage THEN <<"usage">> ELSE <<>>
<1>1. /\ {"role", "finish", "usage", "done"} \subseteq Chunks
      /\ "role" \in Phases /\ {"finish", "usage", "done"} \cap Phases = {}
  BY DEF Chunks, Phases
<1>2. /\ lead \in Seq(Chunks) /\ finish \in Seq(Chunks) /\ usage \in Seq(Chunks)
      /\ last \in Seq(Chunks)
  <2>1. \A x \in Chunks : <<x>> \in Seq(Chunks)
    OBVIOUS
  <2> QED
    BY <1>1, <2>1, EmptySeq
<1>3. /\ DataOn(lead) = IF sent = <<>> THEN role ELSE <<>>
      /\ DataOn(finish) = <<>> /\ DataOn(usage) = <<>> /\ DataOn(last) = <<>>
  BY <1>1, SelectedOne, SelectedEmpty DEF DataOn
<1>4. DataOn(lead) \in Seq(Phases)
  <2>1. role \in Seq(Phases)
    BY <1>1
  <2> QED
    BY <1>3, <2>1, EmptySeq
<1>5. FinishSends = ((lead \o finish) \o usage) \o last
  BY DEF FinishSends
<1> HIDE DEF lead, finish, usage, last
<1>6. /\ lead \o finish \in Seq(Chunks) /\ (lead \o finish) \o usage \in Seq(Chunks)
  BY <1>2, ConcatProperties
<1>7. \A s, t \in Seq(Chunks) : DataOn(s \o t) = DataOn(s) \o DataOn(t)
  BY SelectedConcat DEF DataOn
<1>8. DataOn(FinishSends) = ((DataOn(lead) \o DataOn(finish)) \o DataOn(usage)) \o DataOn(last)
  <2>1. DataOn(FinishSends) = DataOn((lead \o finish) \o usage) \o DataOn(last)
    BY <1>2, <1>5, <1>6, <1>7
  <2>2. DataOn((lead \o finish) \o usage) = DataOn(lead \o finish) \o DataOn(usage)
    BY <1>2, <1>6, <1>7
  <2>3. DataOn(lead \o finish) = DataOn(lead) \o DataOn(finish)
    BY <1>2, <1>7
  <2> QED
    BY <2>1, <2>2, <2>3
<1>9. DataOn(FinishSends) = DataOn(lead)
  BY <1>3, <1>4, <1>8, ConcatEmptySeq
<1> QED
  BY <1>3, <1>9

HeldTyped == Answer \in Seq(Phases) /\ Fetched \in Seq(Phases) /\ Queued \in Seq(Phases)

LEMMA HeldTypesNext == TypeOK' => HeldTyped'
<1>1. TypeOK => HeldTyped
  BY HeldTypes DEF HeldTyped
<1> QED
  BY <1>1, PTL


\* When a finish begins to be sent, and what it adds to the answer.
LEMMA FinishBegins ==
  ASSUME TypeOK, SafetyInv, LogInv, TakeFinish
  PROVE  /\ Answer' = IF sent = <<>> THEN <<"role">> ELSE Answer
         /\ sent = <<>> => Answer = <<>>
         /\ pc = "wait" /\ current' = fetched /\ fetched.kind = "finish" /\ fetched' = NoFrame
         /\ UNCHANGED <<runtime, sending, closings, sent>> /\ pc' = "send"
<1>1. /\ pc = "wait" /\ fetched.kind = "finish" /\ fetched' = NoFrame
      /\ Deliver(fetched, FinishSends)
      /\ UNCHANGED <<runtime, sending, closings, sent>>
  BY DEF TakeFinish, Taken, Waiting
<1>2. pc' = "send" /\ current' = fetched
  BY <1>1 DEF Deliver
<1>3. Answer' = Answer \o DataOn(FinishSends)
  BY <1>1, FinishItems, DeliverAnswer
<1>4. /\ Answer = DataOn(wire) /\ Answer \in Seq(Phases) /\ wire \in Seq(Items)
      /\ ChunksOn(wire) = sent
  BY <1>1, AnswerType DEF LogInv
<1>5. sent = <<>> => Answer = <<>>
  BY <1>4, NoChunks
<1>6. CASE sent = <<>>
  <2>2. <<>> \o <<"role">> = <<"role">>
    BY Tuples
  <2> QED
    BY <1>1, <1>2, <1>3, <1>5, <1>6, <2>2, FinishData
<1>7. CASE sent # <<>>
  BY <1>1, <1>2, <1>3, <1>4, <1>7, FinishData, ConcatEmptySeq
<1> QED
  BY <1>6, <1>7

\* What an answer that begins the script stays, when the script grows or the answer shrinks.
LEMMA BeginsGrows ==
  ASSUME NEW a \in Seq(Phases), NEW s \in Seq(Phases), Begins(a, s),
         NEW r \in Seq(Phases), s \o r # <<>> => (s \o r)[1] = "role"
  PROVE  Begins(a, s \o r)
<1> DEFINE t    == s \o r
           role == <<"role">>
<1>1. t \in Seq(Phases) /\ (t # <<>> => t[1] = "role")
  BY Joined
<1>2. CASE s # <<>>
  <2>1. PICK q \in Seq(Phases) : s = a \o q
    BY <1>2 DEF Begins
  <2>2. t = a \o (q \o r) /\ q \o r \in Seq(Phases)
    BY <2>1, Joined
  <2>3. t # <<>>
    BY <1>2, Joined
  <2> QED
    BY <2>2, <2>3 DEF Begins
<1>3. CASE s = <<>> /\ t = <<>>
  BY <1>3 DEF Begins
<1>4. CASE s = <<>> /\ t # <<>>
  <2>1. a \in {<<>>, role}
    BY <1>4 DEF Begins
  <2>2. /\ t = <<Head(t)>> \o Tail(t) /\ Tail(t) \in Seq(Phases) /\ Head(t) = "role"
    BY <1>1, <1>4, HeadAndTail
  <2>3. t = role \o Tail(t)
    BY <2>2
  <2>4. t = <<>> \o t
    BY <1>1, Joined
  <2> HIDE DEF t, role
  <2>5. \E q \in Seq(Phases) : t = a \o q
    BY <1>1, <2>1, <2>2, <2>3, <2>4
  <2> QED
    BY <1>4, <2>5 DEF Begins, t
<1> QED
  BY <1>2, <1>3, <1>4

LEMMA BeginsShrinks ==
  ASSUME NEW a \in Seq(Phases), NEW s \in Seq(Phases), NEW r \in Seq(Phases),
         Begins(a \o r, s)
  PROVE  Begins(a, s)
<1>1. CASE s # <<>>
  <2>1. PICK q \in Seq(Phases) : s = (a \o r) \o q
    BY <1>1 DEF Begins
  <2>2. s = a \o (r \o q) /\ r \o q \in Seq(Phases)
    BY <2>1, Joined
  <2> QED
    BY <1>1, <2>2 DEF Begins
<1>2. CASE s = <<>> /\ a \o r = <<>>
  <2>1. a = <<>>
    BY <1>2, Joined
  <2> QED
    BY <1>2, <2>1 DEF Begins
<1>3. CASE s = <<>> /\ a \o r = <<"role">>
  <2> DEFINE w == a \o r
  <2>1. /\ Len(w) = 1 /\ w[1] = "role" /\ Len(w) = Len(a) + Len(r)
        /\ Len(a) \in Nat /\ Len(r) \in Nat
        /\ \A i \in 1..Len(a) : w[i] = a[i]
    <3>1. Len(w) = 1 /\ w[1] = "role"
      BY <1>3, Tuples
    <3>2. /\ Len(a \o r) = Len(a) + Len(r)
          /\ Len(a) \in Nat /\ Len(r) \in Nat
      BY ConcatProperties, LenProperties
    <3>3. \A i \in 1..Len(a) : (a \o r)[i] = a[i]
      BY <3>2, ConcatProperties
    <3> QED
      BY <3>1, <3>2, <3>3
  <2>2. Len(a) = 0 => a = <<>>
    BY EmptySeq
  <2>3. ASSUME Len(a) = 1 PROVE a = <<"role">>
    <3> DEFINE role == <<"role">>
    <3>1. role \in Seq(Phases) /\ Len(role) = 1 /\ role[1] = "role"
      BY DEF Phases
    <3> HIDE DEF role
    <3>2. \A i \in 1..Len(a) : a[i] = role[i]
      BY <2>1, <2>3, <3>1
    <3>3. a = role
      BY <2>3, <3>1, <3>2, SeqEqual
    <3> QED
      BY <3>3 DEF role
  <2> QED
    BY <1>3, <2>1, <2>2, <2>3 DEF Begins
<1> QED
  BY <1>1, <1>2, <1>3 DEF Begins


LEMMA TypeStep == TypeOK /\ [Next]_vars => TypeOK'
<1>1. CASE UNCHANGED vars
  BY <1>1 DEF TypeOK, RuntimeType, SendingType, ConsumerType, TraceType,
              vars, runtime, sending, consumer, trace
<1> QED
  BY <1>1, OperatorType, SenderType, WakesType, SendReturnsType DEF Next, Environment

\* Only a finish frame makes the consumer send a finish.
LEMMA FinishOnly ==
  ASSUME TypeOK, SafetyInv, [Next]_vars, pc = "wait", pc' = "send", current'.kind = "finish"
  PROVE  TakeFinish
<1>1. \A frame \in {KeepAliveFrame, GoneFrame} : frame.kind # "finish"
  BY Kinds
<1>2. ~Operator /\ ~Sender /\ ~GetTask /\ ~Shutdown /\ ~ClientLeaves /\ vars' # vars
  BY DEF Operator, Submit, SubmitFails, Accept, AbortGraceful, AbortHard,
         InjectCutNow, CutNow, InjectHttpError, InjectDelay, InjectCutAfter, Arm,
         LiveStart, LiveText, LiveToolCall, Relay, LiveFinish, PutReadOnly, consumer,
         Sender, SenderEnds, SenderPauses, GetTask, Shutdown, ClientLeaves, vars
<1>3. ~SendReturns /\ ~ConsumerCancelled
  BY DEF SendReturns, SendNext, KeepAliveSent, DataSent, DataSentAndCut, FinishSent,
         HttpErrorSent, HardAbortHeadSent, GoneSent, Sent, Returned, ConsumerCancelled, Stop
<1>4. ~TakeDisconnect /\ ~Tick
  BY <1>1 DEF TakeDisconnect, Tick, Deliver, Stop, EnterWait
<1>5. ~TakeData /\ ~TakeHttpError /\ ~DropHttpError /\ ~TakeHardAbort
  BY DEF TakeData, TakeHttpError, DropHttpError, TakeHardAbort, Taken, Deliver, Stop, EnterWait
<1> QED
  BY <1>2, <1>3, <1>4, <1>5 DEF Next, Wakes, Environment

LEMMA PrefixSafe ==
  TypeOK /\ SafetyInv /\ OutboxInv /\ ModeInv /\ ScriptInv /\ LogInv /\ HeldInv
    /\ PrefixInv /\ [Next]_vars => PrefixInv'
<1> SUFFICES ASSUME TypeOK, SafetyInv, OutboxInv, ModeInv, ScriptInv, LogInv, HeldInv,
                    PrefixInv, [Next]_vars
             PROVE  PrefixInv'
  OBVIOUS
<1>1. TypeOK' /\ HeldInv' /\ ScriptInv'
  BY TypeStep, HeldSafe, ScriptSafe
<1>2. /\ Answer \in Seq(Phases) /\ script \in Seq(Phases)
      /\ Answer' \in Seq(Phases) /\ Fetched' \in Seq(Phases) /\ Queued' \in Seq(Phases)
  BY <1>1, HeldTypes, HeldTypesNext DEF HeldTyped
<1>3. PICK more \in Seq(Phases) : script' = script \o more
  BY ScriptSteps
<1>4. ASSUME NEW a \in Seq(Phases), Begins(a, script) PROVE Begins(a, script')
  <2>1. script \o more # <<>> => (script \o more)[1] = "role"
    BY <1>1, <1>3 DEF ScriptInv
  <2> QED
    BY <1>2, <1>3, <1>4, <2>1, BeginsGrows
<1>5. CASE pc' # "ended" /\ current'.kind # "finish"
  <2>1. PICK rest \in Seq(Phases) : script' = ((Answer' \o Fetched') \o Queued') \o rest
    BY <1>1, <1>5 DEF HeldInv
  <2> DEFINE a == Answer'
             b == Fetched'
             c == Queued'
  <2>2. a \in Seq(Phases) /\ b \in Seq(Phases) /\ c \in Seq(Phases)
        /\ script' = ((a \o b) \o c) \o rest
    BY <1>2, <2>1
  <2>3. PrefixInv' <=> Begins(a, script')
    BY DEF PrefixInv
  <2> HIDE DEF a, b, c
  <2>4. b \o c \in Seq(Phases) /\ (b \o c) \o rest \in Seq(Phases)
    BY <2>2, Joined
  <2>5. script' = a \o ((b \o c) \o rest)
    <3>1. (a \o b) \o c = a \o (b \o c)
      BY <2>2, Joined
    <3>2. (a \o (b \o c)) \o rest = a \o ((b \o c) \o rest)
      BY <2>2, <2>4, Joined
    <3> QED
      BY <2>2, <3>1, <3>2
  <2>6. script' = <<>> => a = <<>>
    <3> DEFINE d == (b \o c) \o rest
    <3>1. d \in Seq(Phases) /\ script' = a \o d
      BY <2>4, <2>5
    <3> HIDE DEF d
    <3>2. \A x \in Seq(Phases) : a \o x = <<>> => a = <<>>
      BY <2>2, Joined
    <3> QED
      BY <3>1, <3>2
  <2> QED
    BY <2>3, <2>4, <2>5, <2>6 DEF Begins
<1>6. CASE ~(pc' # "ended" /\ current'.kind # "finish")
  <2>1. CASE Answer' = Answer
    BY <1>2, <1>4, <2>1 DEF PrefixInv
  <2>2. ASSUME NEW r \in Seq(Phases), Answer = Answer' \o r
        PROVE  PrefixInv'
    <3>1. Begins(Answer', script)
      BY <1>2, <2>2, BeginsShrinks DEF PrefixInv
    <3> QED
      BY <1>2, <1>4, <3>1 DEF PrefixInv
  <2>3. CASE BeginStep
    <3>1. TakeFinish
      BY <1>6, <2>3, FinishOnly DEF BeginStep
    <3>2. UNCHANGED script
      BY <3>1, FinishBegins DEF runtime
    <3>3. Answer' = IF sent = <<>> THEN <<"role">> ELSE Answer
      BY <3>1, FinishBegins
    <3>4. CASE sent # <<>>
      BY <3>2, <3>3, <3>4 DEF PrefixInv
    <3>5. CASE sent = <<>> /\ script = <<>>
      BY <3>2, <3>3, <3>5 DEF PrefixInv, Begins
    <3>6. CASE sent = <<>> /\ script # <<>>
      <4>1. /\ script = <<Head(script)>> \o Tail(script) /\ Tail(script) \in Seq(Phases)
            /\ Head(script) = "role"
        BY <1>2, <3>6, HeadAndTail DEF ScriptInv
      <4>2. script = Answer' \o Tail(script)
        BY <3>3, <3>6, <4>1
      <4> QED
        BY <3>2, <3>6, <4>1, <4>2 DEF PrefixInv, Begins
    <3> QED
      BY <3>4, <3>5, <3>6
  <2> QED
    BY <2>1, <2>2, <2>3, AnswerStep
<1> QED
  BY <1>5, <1>6


\* Without data frames there is nothing queued.
LEMMA NoDataQueued ==
  ASSUME TypeOK, \A j \in 1..Len(queue) : queue[j].kind # "data"
  PROVE  Queued = <<>>
<1> DEFINE s == Selected(queue, DataFrames)
<1>1. queue \in Seq(Frames)
  BY HeldTypes
<1>2. s \in Seq(DataFrames)
  BY <1>1, QueuedIs
<1>3. \A x : (\E i \in 1..Len(s) : s[i] = x)
                <=> x \in DataFrames /\ \E i \in 1..Len(queue) : queue[i] = x
  BY <1>1, SelectedElements
<1>4. \A x \in DataFrames : x.kind = "data"
  BY DEF DataFrames
<1> HIDE DEF s
<1>5. s # <<>> => Len(s) \in Nat \ {0}
  BY <1>2, EmptySeq
<1>6. s # <<>> => \E i \in 1..Len(s) : s[i] = s[1]
  BY <1>5
<1>7. s = <<>>
  BY <1>3, <1>4, <1>6
<1> QED
  BY <1>7, TagsOf DEF s, Queued

\* Nobody asks for more once a draft was submitted.
LEMMA OperatorLater ==
  ASSUME TypeOK, ModeInv, Operator, sender # "none"
  PROVE  /\ \/ UNCHANGED queue
            \/ \E f \in Frames : f.kind # "data" /\ queue' = Append(queue, f)
         /\ UNCHANGED <<pc, fetched, current, outbox, wire, script>>
<1>1. /\ status # "pending" /\ live = "off"
      /\ UNCHANGED <<pc, fetched, current, outbox, wire>>
  BY DEF ModeInv, Operator, Submit, SubmitFails, Accept, AbortGraceful, AbortHard,
         InjectCutNow, CutNow, InjectHttpError, InjectDelay, InjectCutAfter, Arm,
         LiveStart, LiveText, LiveToolCall, Relay, LiveFinish, PutReadOnly, consumer, trace
<1>2. ASSUME NEW f \in Frames, f.kind # "data", queue' = Append(queue, f), UNCHANGED script
      PROVE  /\ \E g \in Frames : g.kind # "data" /\ queue' = Append(queue, g)
             /\ UNCHANGED <<pc, fetched, current, outbox, wire, script>>
  BY <1>1, <1>2
<1>3. /\ Frame("finish", "partial").kind # "data" /\ Frame("finish", "whole").kind # "data"
      /\ Frame("http_error", "injected").kind # "data"
      /\ \A t : Frame("hard_abort", t).kind # "data"
  BY DEF Frame
<1>4. CASE AbortGraceful \/ LiveFinish \/ InjectHttpError \/ AbortHard \/ InjectCutNow
  BY <1>2, <1>3, <1>4, FrameTypes
     DEF AbortGraceful, LiveFinish, InjectHttpError, AbortHard, InjectCutNow, CutNow, runtime
<1>5. CASE InjectDelay \/ (\E n \in CutAfter : InjectCutAfter(n)) \/ PutReadOnly
           \/ (\E mode \in {"paced", "instant"} : SubmitFails(mode))
  BY <1>1, <1>5 DEF InjectDelay, InjectCutAfter, Arm, PutReadOnly, SubmitFails, Accept, sending
<1>6. /\ \A mode, plan : ~Submit(mode, plan)
      /\ ~LiveStart /\ \A field : ~LiveText(field)
      /\ \A chunks : ~LiveToolCall(chunks)
  BY <1>1 DEF Submit, Accept, LiveStart, LiveText, LiveToolCall, Live
<1> QED
  BY <1>4, <1>5, <1>6 DEF Operator

LEMMA WholeClosed ==
  ASSUME TypeOK, SafetyInv, ModeInv, OwnerInv, EndedWhole, ClosedWhole, [Next]_vars
  PROVE  ClosedWhole'
<1>1. CASE done
  <2>1. /\ UNCHANGED <<closings, script, meta>>
        /\ pc = "ended" => UNCHANGED wire
    BY <1>1, ClosedStays, OwnerStep
  <2>2. pc # "ended" => closings[1].reason # "whole"
    BY <1>1 DEF SafetyInv, ClosingInv
  <2> QED
    BY <1>1, <2>1, <2>2 DEF ClosedWhole
<1>2. CASE ~done /\ ~done'
  BY <1>2 DEF ClosedWhole
<1>3. ASSUME ~done, NEW s, NEW reason, Ending(s, reason), reason # "whole"
      PROVE  ClosedWhole'
  BY <1>3, EndingCases DEF ClosedWhole
<1>4. CASE FinishSent
  <2>1. /\ current.kind = "finish" /\ Len(outbox) = 1 /\ pc = "send"
        /\ Ending("completed", current.tag) /\ UNCHANGED <<wire, meta, script, sender>>
    BY <1>4 DEF FinishSent, Sent, Returned, OnStreamComplete
  <2>2. CASE current.tag # "whole"
    BY <1>2, <1>3, <2>1, <2>2, <1>1
  <2>3. CASE current.tag = "whole" /\ meta # "live"
    <3>1. sender = "ended"
      BY <2>1, <2>3 DEF OwnerInv, Owned
    <3>2. current = Whole
      <4>1. current \in Frames
        BY <2>1, Kinds DEF TypeOK, ConsumerType
      <4> QED
        BY <2>1, <2>3, <4>1 DEF Frames, DataFrames, Whole, Frame
    <3> QED
      BY <2>1, <3>1, <3>2, LastSend DEF EndedWhole, ClosedWhole
  <2>4. CASE meta = "live"
    BY <2>1, <2>4 DEF ClosedWhole
  <2> QED
    BY <2>2, <2>3, <2>4
<1>5. CASE ~done /\ done' /\ ~FinishSent
  <2>1. ~Operator /\ ~Sender /\ ~GetTask /\ ~Shutdown /\ ~ClientLeaves /\ vars' # vars
    BY <1>5
       DEF Operator, Submit, SubmitFails, Accept, AbortGraceful, AbortHard,
         InjectCutNow, CutNow, InjectHttpError, InjectDelay, InjectCutAfter, Arm,
         LiveStart, LiveText, LiveToolCall, Relay, LiveFinish, PutReadOnly, runtime,
         Sender, SenderEnds, SenderPauses, GetTask, Shutdown, ClientLeaves, vars
  <2>2. \A s, reason : Ending(s, reason) /\ reason # "whole" => ClosedWhole'
    BY <1>3, <1>5
  <2>3. fetched.kind = "hard_abort" => fetched.tag # "whole"
    BY Kinds, FrameTags DEF TypeOK, ConsumerType
  <2>4. current.kind \in {"hard_abort", "http_error"} => current.tag # "whole"
    BY Kinds, FrameTags DEF TypeOK, ConsumerType
  <2>5. CASE TakeDisconnect \/ ConsumerCancelled
    BY <2>2, <2>5 DEF TakeDisconnect, ConsumerCancelled, OnClientDisconnect, EndCancelling
  <2>6. CASE TakeHardAbort
    BY <1>5, <2>2, <2>3, <2>6 DEF TakeHardAbort, OnHardAbort, EndCancelling, Taken
  <2>7. CASE DataSentAndCut
    BY <2>2, <2>7 DEF DataSentAndCut, OnHardAbort, EndCancelling
  <2>8. CASE HttpErrorSent \/ HardAbortHeadSent
    BY <2>2, <2>4, <2>8 DEF HttpErrorSent, HardAbortHeadSent, OnInjectedDelivered, OnHardAbort,
                            EndCancelling, Sent
  <2>9. ~Tick /\ ~TakeData /\ ~TakeFinish /\ ~TakeHttpError /\ ~DropHttpError /\ ~SendNext
        /\ ~KeepAliveSent /\ ~DataSent /\ ~GoneSent
    BY <1>5 DEF Tick, TakeData, TakeFinish, TakeHttpError, DropHttpError, SendNext,
                KeepAliveSent, DataSent, GoneSent, runtime
  <2> QED
    BY <1>5, <2>1, <2>5, <2>6, <2>7, <2>8, <2>9 DEF Next, Wakes, SendReturns, Environment
<1> QED
  BY <1>1, <1>2, <1>4, <1>5


\* When the sender's own finish is taken, all that was asked for is on the wire.
LEMMA WholeTaken ==
  ASSUME TypeOK, SafetyInv, ModeInv, LogInv, HeldInv, EndedWhole, sender = "ended",
         TakeFinish, fetched = Whole
  PROVE  Answer' = script'
<1>1. /\ pc = "wait" /\ UNCHANGED script /\ Answer' = (IF sent = <<>> THEN <<"role">> ELSE Answer)
      /\ sent = <<>> => Answer = <<>>
  BY FinishBegins DEF runtime
<1>2. current.kind = "none"
  BY <1>1, AtWait, Kinds
<1>3. PICK rest \in Seq(Phases) : /\ script = Answer \o Fetched \o Queued \o rest
                                  /\ rest = Whats(todo)
  BY <1>1, <1>2 DEF HeldInv
<1>4. Queued = <<>>
  BY NoDataQueued DEF EndedWhole
<1>5. Fetched = <<>>
  BY DEF Fetched, Whole, Frame
<1>6. rest = <<>>
  <2>1. todo = <<>>
    BY DEF ModeInv
  <2>2. todo \in Seq(Step) /\ Len(todo) = 0
    BY <2>1, EmptySeq
  <2>3. Len(Whats(todo)) = 0
    BY <2>2, FramesOfPlan
  <2> QED
    BY <1>3, <2>3, EmptySeq
<1>7. script = Answer
  <2>1. Answer \in Seq(Phases)
    BY HeldTypes
  <2>2. Answer \o <<>> = Answer
    BY <2>1, Joined
  <2> QED
    BY <1>3, <1>4, <1>5, <1>6, <2>2
<1>8. script # <<>>
  BY DEF ModeInv
<1> QED
  BY <1>1, <1>7, <1>8

LEMMA WholeEnded ==
  ASSUME TypeOK, SafetyInv, ModeInv, LogInv, HeldInv, OwnerInv, EndedWhole, [Next]_vars
  PROVE  EndedWhole'
<1>0. /\ queue \in Seq(Frames) /\ todo \in Seq(Step) /\ Len(queue) \in Nat
  BY HeldTypes, LenProperties
<1>1. ASSUME UNCHANGED <<pc, fetched, current, outbox, wire, script>>
      PROVE  Answer' = Answer
  BY <1>1 DEF Answer, ToCome
<1>2. CASE sender' # "ended"
  BY <1>2 DEF EndedWhole
<1>3. CASE SenderEnds
  <2>1. /\ sender = "running" /\ queue' = Append(queue \o ToFrames(todo), Whole)
        /\ UNCHANGED <<pc, fetched, current, outbox, wire, script>>
    BY <1>3 DEF SenderEnds, Whole, runtime, consumer, trace
  <2>2. meta # "live"
    BY <2>1 DEF ModeInv
  <2>3. fetched # Whole /\ current # Whole /\ \A i \in 1..Len(queue) : queue[i] # Whole
    BY <2>1, <2>2 DEF OwnerInv, Owned, Whole, Frame
  <2> DEFINE more == ToFrames(todo)
             all  == queue \o more
  <2>4. more \in Seq(Frames) /\ \A i \in 1..Len(more) : more[i] # Whole
    BY <1>0, FramesOfPlan DEF ToFrames, Frame, Whole
  <2>5. all \in Seq(Frames) /\ \A i \in 1..Len(all) : all[i] # Whole
    <3>1. all \in Seq(Frames)
      BY <1>0, <2>4, ConcatProperties
    <3>2. \A i \in 1..Len(all) : \/ \E j \in 1..Len(queue) : all[i] = queue[j]
                                 \/ \E j \in 1..Len(more) : all[i] = more[j]
      BY <1>0, <2>4, Members
    <3> QED
      BY <2>3, <2>4, <3>1, <3>2
  <2> HIDE DEF more, all
  <2>6. Whole \in Frames
    BY FrameTypes DEF Whole
  <2>7. /\ queue' = Append(all, Whole) /\ Len(all) \in Nat /\ Len(queue') = Len(all) + 1
        /\ \A i \in 1..Len(all) : queue'[i] = all[i]
    BY <2>1, <2>5, <2>6, AppendProperties, LenProperties DEF all, more
  <2>8. ASSUME NEW i \in 1..Len(queue'), NEW j \in 1..Len(queue'), queue'[i] = Whole, i < j
        PROVE  FALSE
    <3>1. i \in 1..Len(all)
      BY <2>7, <2>8
    <3> QED
      BY <2>5, <2>7, <2>8, <3>1
  <2> QED
    BY <2>1, <2>3, <2>8 DEF EndedWhole
<1>4. CASE sender = "ended" /\ Operator
  <2>1. /\ \/ UNCHANGED queue
           \/ \E f \in Frames : f.kind # "data" /\ queue' = Append(queue, f)
        /\ UNCHANGED <<pc, fetched, current, outbox, wire, script>>
    BY <1>4, OperatorLater
  <2>2. CASE UNCHANGED queue
    BY <1>1, <1>4, <2>1, <2>2 DEF EndedWhole
  <2>3. ASSUME NEW f \in Frames, f.kind # "data", queue' = Append(queue, f)
        PROVE  EndedWhole'
    <3>1. /\ Len(queue') = Len(queue) + 1 /\ queue'[Len(queue')] = f
          /\ \A i \in 1..Len(queue) : queue'[i] = queue[i]
      BY <1>0, <2>3, AppendProperties
    <3>2. \A j \in 1..Len(queue') : j = Len(queue') \/ j \in 1..Len(queue)
      BY <1>0, <3>1
    <3>3. ASSUME NEW i \in 1..Len(queue'), NEW j \in 1..Len(queue'), queue'[i] = Whole, i < j
          PROVE  queue'[j].kind # "data"
      <4>1. CASE j = Len(queue')
        BY <2>3, <3>1, <4>1
      <4>2. CASE j \in 1..Len(queue)
        <5>1. i \in 1..Len(queue)
          BY <1>0, <3>3, <4>2
        <5> QED
          BY <1>4, <3>1, <3>3, <4>2, <5>1 DEF EndedWhole
      <4> QED
        BY <3>2, <4>1, <4>2
    <3>4. ASSUME fetched = Whole, NEW j \in 1..Len(queue') PROVE queue'[j].kind # "data"
      BY <1>4, <2>3, <3>1, <3>2, <3>4 DEF EndedWhole
    <3>5. Answer' = Answer /\ UNCHANGED <<fetched, current, script>>
      BY <1>1, <2>1
    <3> QED
      BY <1>4, <3>3, <3>4, <3>5 DEF EndedWhole
  <2> QED
    BY <2>1, <2>2, <2>3
<1>5. CASE sender = "ended" /\ GetTask
  <2>1. /\ queue # <<>> /\ fetched' = Head(queue) /\ queue' = Tail(queue)
        /\ UNCHANGED <<pc, current, outbox, wire, script>>
    BY <1>5 DEF GetTask, runtime, trace
  <2>2. /\ Head(queue) = queue[1] /\ Len(Tail(queue)) = Len(queue) - 1 /\ Len(queue) >= 1
        /\ \A i \in 1..Len(Tail(queue)) : Tail(queue)[i] = queue[i + 1]
    BY <1>0, <2>1, HeadTailProperties, EmptySeq
  <2>3. Answer' = Answer
    BY <2>1 DEF Answer, ToCome
  <2>4. \A i \in 1..Len(queue') : i + 1 \in 1..Len(queue) /\ queue'[i] = queue[i + 1]
    BY <1>0, <2>1, <2>2
  <2>5. ASSUME NEW i \in 1..Len(queue'), NEW j \in 1..Len(queue'), queue'[i] = Whole, i < j
        PROVE  queue'[j].kind # "data"
    <3>1. /\ i + 1 \in 1..Len(queue) /\ j + 1 \in 1..Len(queue) /\ i + 1 < j + 1
          /\ queue[i + 1] = Whole /\ queue'[j] = queue[j + 1]
      BY <2>4, <2>5
    <3>2. \A k, m \in 1..Len(queue) : queue[k] = Whole /\ k < m => queue[m].kind # "data"
      BY <1>5 DEF EndedWhole
    <3> QED
      BY <3>1, <3>2
  <2>6. ASSUME fetched' = Whole, NEW j \in 1..Len(queue') PROVE queue'[j].kind # "data"
    <3>1. 1 \in 1..Len(queue) /\ 1 < j + 1 /\ queue[1] = Whole
      BY <1>0, <2>1, <2>2, <2>6
    <3> QED
      BY <1>5, <2>4, <3>1 DEF EndedWhole
  <2> QED
    BY <1>5, <2>1, <2>3, <2>5, <2>6 DEF EndedWhole
<1>6. ASSUME sender = "ended", UNCHANGED <<queue, script>>, fetched' \in {fetched, NoFrame},
             current' = Whole => Answer' = script
      PROVE  EndedWhole'
  <2>1. NoFrame # Whole
    BY DEF NoFrame, Whole, Frame
  <2> QED
    BY <1>6, <2>1 DEF EndedWhole
<1>7. CASE sender = "ended" /\ (SendReturns \/ ClientLeaves \/ UNCHANGED vars)
  <2>1. /\ UNCHANGED <<queue, fetched, script>> /\ current' \in {current, NoFrame}
    BY <1>7 DEF SendReturns, SendNext, KeepAliveSent, DataSent, DataSentAndCut,
         FinishSent, HttpErrorSent, HardAbortHeadSent, GoneSent, Sent, Returned,
         ClientLeaves, EnterWait, Stop, runtime, sending, vars, consumer
  <2>2. CASE current' = Whole
    <3>1. current = Whole
      BY <2>1, <2>2 DEF Whole, NoFrame, Frame
    <3>2. pc' # "ended" \/ pc = "ended"
      BY <1>7, <2>2 DEF SendReturns, SendNext, KeepAliveSent, DataSent, DataSentAndCut,
         FinishSent, HttpErrorSent, HardAbortHeadSent, GoneSent, Sent, Returned,
         ClientLeaves, EnterWait, Stop, vars, consumer, Whole, NoFrame, Frame
    <3>3. pc # "wait"
      BY <3>1, AtWait DEF Whole, NoFrame, Frame
    <3>4. Answer' = Answer
      BY <3>2, <3>3, AnswerStep DEF BeginStep, CancelStep
    <3> QED
      BY <1>6, <1>7, <2>1, <3>1, <3>4 DEF EndedWhole
  <2>3. CASE current' # Whole
    BY <1>6, <1>7, <2>1, <2>3
  <2> QED
    BY <2>2, <2>3
<1>8. CASE sender = "ended" /\ (Wakes \/ ConsumerCancelled)
  <2>1. /\ UNCHANGED <<queue, script>> /\ fetched' \in {fetched, NoFrame}
    BY <1>8 DEF Wakes, TakeDisconnect, Tick, TakeData, TakeFinish, TakeHttpError, DropHttpError,
         TakeHardAbort, Taken, ConsumerCancelled, runtime, sending
  <2>2. CASE current' = Whole
    <3>1. Whole \notin {NoFrame, KeepAliveFrame, GoneFrame} /\ Whole.kind = "finish"
      BY DEF Whole, NoFrame, KeepAliveFrame, GoneFrame, Frame
    <3>2. TakeFinish
      BY <1>8, <2>2, <3>1 DEF Wakes, TakeDisconnect, Tick, TakeData, TakeHttpError, DropHttpError,
         TakeHardAbort, Taken, ConsumerCancelled, Deliver, Stop, EnterWait
    <3>3. fetched = Whole
      BY <2>2, <3>2, FinishBegins
    <3> QED
      BY <1>6, <1>8, <2>1, <3>2, <3>3, WholeTaken
  <2>3. CASE current' # Whole
    BY <1>6, <1>8, <2>1, <2>3
  <2> QED
    BY <2>2, <2>3
<1>9. sender' = "ended" /\ ~SenderEnds =>
        sender = "ended" /\ ~Sender /\ ~Shutdown
  BY <1>0, OwnerStep
     DEF Next, Operator, Submit, SubmitFails, Accept, AbortGraceful, AbortHard,
         InjectCutNow, CutNow, CancelSender, InjectHttpError, InjectDelay, InjectCutAfter, Arm,
         LiveStart, LiveText, LiveToolCall, Relay, LiveFinish, PutReadOnly, sending,
         Sender, SenderPauses, Shutdown, GetTask, Wakes, TakeDisconnect, Tick, TakeData,
         TakeFinish, TakeHttpError, DropHttpError, TakeHardAbort, OnClientDisconnect,
         OnHardAbort, EndCancelling, SendReturns, SendNext, KeepAliveSent, DataSent,
         DataSentAndCut, FinishSent, HttpErrorSent, HardAbortHeadSent, GoneSent, Sent,
         OnStreamComplete, OnInjectedDelivered, Environment, ConsumerCancelled, ClientLeaves, vars
<1> QED
  BY <1>2, <1>3, <1>4, <1>5, <1>7, <1>8, <1>9 DEF Next, Environment

LEMMA WholeSafe ==
  TypeOK /\ SafetyInv /\ ModeInv /\ LogInv /\ HeldInv /\ OwnerInv /\ WholeInv /\ [Next]_vars
    => WholeInv'
BY WholeEnded, WholeClosed DEF WholeInv


-----------------------------------------------------------------------------
\* The order of the wire, with what is still to be handed to `send`.
Has(w, x) == \E i \in 1..Len(w) : w[i] = x

Before(x, y) == \/ WireRank[x] < WireRank[y]
                \/ x = y /\ x \in {"reasoning", "content", "tool"}

Ordered(w) ==
  /\ w # <<>> => w[1] \in {"head", "errhead"}
  /\ \A i, j \in 1..Len(w) : i < j => Before(w[i], w[j])
  /\ (\E x \in Chunks : Has(w, x)) => Has(w, "role")
  /\ Has(w, "done") => Has(w, "finish")

Planned == wire \o ToCome

OrderInv == Ordered(Planned) /\ (headersStarted => wire # <<>>)

LEMMA OrderOfWire == WireOrder <=> Ordered(wire)
BY DEF WireOrder, Ordered, Before, Has, On

LEMMA WireRanks ==
  /\ \A x \in Items : WireRank[x] \in 0..9
  /\ \A x \in Phases : WireRank[x] = Rank[x] + 1
  /\ WireRank["head"] = 0 /\ WireRank["keepalive"] = 1 /\ WireRank["role"] = 2
  /\ WireRank["finish"] = 6 /\ WireRank["usage"] = 7 /\ WireRank["done"] = 8
  /\ WireRank["close"] = 9 /\ WireRank["end"] = 9 /\ WireRank["errbody"] = 9
  /\ WireRank["errhead"] = 0
  /\ \A x \in Clean : WireRank[x] =< 5
  /\ \A x \in Clean \ Phases : WireRank[x] =< 1
  /\ \A x \in Chunks \ {"role"} : WireRank[x] > 2
BY DEF WireRank, Items, Chunks, Phases, Rank, Clean

\* One item more.
LEMMA OneMore ==
  ASSUME NEW w \in Seq(Items), NEW x \in Items
  PROVE  /\ w \o <<x>> = Append(w, x) /\ w \o <<x>> \in Seq(Items) /\ w \o <<x>> # <<>>
         /\ Len(w \o <<x>>) = Len(w) + 1 /\ Len(w) \in Nat
         /\ (w \o <<x>>)[Len(w) + 1] = x
         /\ \A i \in 1..Len(w) : (w \o <<x>>)[i] = w[i]
         /\ \A y : Has(w \o <<x>>, y) <=> Has(w, y) \/ y = x
<1> DEFINE t == <<x>>
           u == Append(w, x)
<1>1. t \in Seq(Items) /\ Len(t) = 1 /\ t[1] = x
  OBVIOUS
<1>2. /\ Len(w) \in Nat /\ u \in Seq(Items) /\ Len(u) = Len(w) + 1 /\ u[Len(w) + 1] = x
      /\ \A i \in 1..Len(w) : u[i] = w[i]
  BY LenProperties, AppendProperties
<1> HIDE DEF t, u
<1>3. /\ w \o t \in Seq(Items) /\ Len(w \o t) = Len(w) + 1
      /\ \A i \in 1..Len(w) : (w \o t)[i] = w[i]
      /\ (w \o t)[Len(w) + 1] = x
  <2>1. /\ w \o t \in Seq(Items) /\ Len(w \o t) = Len(w) + Len(t)
        /\ \A i \in 1..Len(w) + Len(t) :
             (w \o t)[i] = IF i =< Len(w) THEN w[i] ELSE t[i - Len(w)]
    BY <1>1, ConcatProperties
  <2>2. /\ Len(w) + Len(t) = Len(w) + 1 /\ Len(w) + 1 - Len(w) = 1
        /\ Len(w) + 1 \in 1..Len(w) + Len(t) /\ ~(Len(w) + 1 =< Len(w))
        /\ \A i \in 1..Len(w) : i \in 1..Len(w) + Len(t) /\ i =< Len(w)
    BY <1>1, <1>2
  <2> QED
    BY <1>1, <2>1, <2>2
<1>4. \A i \in 1..Len(w) + 1 : (w \o t)[i] = u[i]
  <2> SUFFICES ASSUME NEW i \in 1..Len(w) + 1 PROVE (w \o t)[i] = u[i]
    OBVIOUS
  <2>1. CASE i \in 1..Len(w)
    BY <1>2, <1>3, <2>1
  <2>2. CASE i = Len(w) + 1
    <3> DEFINE n == Len(w) + 1
               v == w \o t
    <3>1. v[n] = x /\ u[n] = x /\ i = n
      BY <1>2, <1>3, <2>2
    <3> HIDE DEF n, v
    <3>2. v[i] = u[i]
      BY <3>1
    <3> QED
      BY <3>2 DEF v
  <2>3. i \in 1..Len(w) \/ i = Len(w) + 1
    BY <1>2
  <2> QED
    BY <2>1, <2>2, <2>3, Zenon
<1>5. w \o t = u
  BY <1>2, <1>3, <1>4, SeqEqual
<1>6. u # <<>>
  <2>1. u = <<>> => Len(u) = Len(<<>>)
    BY Zenon
  <2> QED
    BY <1>2, <2>1, EmptySeq
<1>7. \A y : Has(u, y) <=> Has(w, y) \/ y = x
  <2>1. \A i \in 1..Len(u) : i = Len(w) + 1 \/ i \in 1..Len(w)
    BY <1>2
  <2>2. Len(w) + 1 \in 1..Len(u) /\ \A i \in 1..Len(w) : i \in 1..Len(u)
    BY <1>2
  <2> QED
    BY <1>2, <2>1, <2>2 DEF Has
<1> QED
  BY <1>2, <1>5, <1>6, <1>7 DEF t, u

LEMMA Extended ==
  ASSUME NEW w \in Seq(Items), NEW x \in Items, Ordered(w),
         w = <<>> => x \in {"head", "errhead"},
         \A y \in Items : Has(w, y) => Before(y, x),
         x \in Chunks => x = "role" \/ Has(w, "role"),
         x = "done" => Has(w, "finish")
  PROVE  Ordered(w \o <<x>>)
<1> DEFINE u == w \o <<x>>
<1>1. /\ u \in Seq(Items) /\ Len(u) = Len(w) + 1 /\ Len(w) \in Nat
      /\ u[Len(w) + 1] = x
      /\ \A i \in 1..Len(w) : u[i] = w[i]
      /\ \A y : Has(u, y) <=> Has(w, y) \/ y = x
  BY OneMore
<1> HIDE DEF u
<1>2. u[1] \in {"head", "errhead"}
  <2>1. CASE w = <<>>
    <3>1. Len(w) = 0
      BY <2>1, EmptySeq
    <3> QED
      BY <1>1, <2>1, <3>1
  <2>2. CASE w # <<>>
    <3>1. 1 \in 1..Len(w)
      BY <1>1, <2>2, EmptySeq
    <3> QED
      BY <1>1, <2>2, <3>1 DEF Ordered
  <2> QED
    BY <2>1, <2>2
<1>3. ASSUME NEW i \in 1..Len(u), NEW j \in 1..Len(u), i < j
      PROVE  Before(u[i], u[j])
  <2>1. i \in 1..Len(w) /\ u[i] = w[i] /\ w[i] \in Items
    <3>1. i \in 1..Len(w)
      BY <1>1, <1>3
    <3> QED
      BY <1>1, <3>1, ElementOfSeq
  <2>2. CASE j = Len(w) + 1
    BY <1>1, <2>1, <2>2 DEF Has
  <2>3. CASE j # Len(w) + 1
    <3>1. j \in 1..Len(w)
      BY <1>1, <2>3
    <3> QED
      BY <1>1, <1>3, <2>1, <3>1 DEF Ordered
  <2> QED
    BY <2>2, <2>3
<1>4. (\E y \in Chunks : Has(u, y)) => Has(u, "role")
  BY <1>1 DEF Ordered
<1>5. Has(u, "done") => Has(u, "finish")
  BY <1>1 DEF Ordered
<1> QED
  BY <1>2, <1>3, <1>4, <1>5 DEF Ordered, u

\* A beginning of what is ordered is ordered: the role comes before every other
\* chunk, and a finish before [DONE].
LEMMA OrderedBeginning ==
  ASSUME NEW w \in Seq(Items), NEW t \in Seq(Items), Ordered(w \o t)
  PROVE  Ordered(w)
<1> DEFINE u == w \o t
<1>1. /\ u \in Seq(Items) /\ Len(u) = Len(w) + Len(t) /\ Len(w) \in Nat /\ Len(t) \in Nat
      /\ \A i \in 1..Len(w) : u[i] = w[i]
  BY ConcatProperties, LenProperties
<1>2. Ordered(u)
  OBVIOUS
<1> HIDE DEF u
<1>3. \A i \in 1..Len(w) : i \in 1..Len(u)
  BY <1>1
<1>4. w # <<>> => w[1] \in {"head", "errhead"}
  <2>1. w # <<>> => 1 \in 1..Len(w) /\ u # <<>>
    <3>1. u = <<>> => Len(u) = Len(<<>>)
      BY Zenon
    <3> QED
      BY <1>1, <3>1, EmptySeq
  <2> QED
    BY <1>1, <1>2, <2>1 DEF Ordered
<1>5. \A i, j \in 1..Len(w) : i < j => Before(w[i], w[j])
  BY <1>1, <1>2, <1>3 DEF Ordered
<1>6. ASSUME NEW x \in Items, NEW y \in Items, Has(w, x), Has(u, y), x # y,
             ~(WireRank[x] < WireRank[y])
      PROVE  Has(w, y)
  <2>1. PICK i \in 1..Len(w) : w[i] = x
    BY <1>6 DEF Has
  <2>2. PICK j \in 1..Len(u) : u[j] = y
    BY <1>6 DEF Has
  <2>3. ~(i < j)
    BY <1>1, <1>2, <1>3, <1>6, <2>1, <2>2 DEF Ordered, Before
  <2>4. j \in 1..Len(w)
    BY <1>1, <2>1, <2>2, <2>3
  <2> QED
    BY <1>1, <2>2, <2>4 DEF Has
<1>7. \A x : Has(w, x) => Has(u, x)
  BY <1>1, <1>3 DEF Has
<1>8. ASSUME NEW x \in Chunks, Has(w, x) PROVE Has(w, "role")
  <2>1. Has(u, "role")
    BY <1>2, <1>7, <1>8 DEF Ordered
  <2>2. x # "role" => ~(WireRank[x] < WireRank["role"])
    BY WireRanks, ChunkItems
  <2> QED
    BY <1>6, <1>8, <2>1, <2>2, ChunkItems DEF Items, Chunks, Phases
<1>9. ASSUME Has(w, "done") PROVE Has(w, "finish")
  <2>1. Has(u, "finish")
    BY <1>2, <1>7, <1>9 DEF Ordered
  <2>2. ~(WireRank["done"] < WireRank["finish"]) /\ {"done", "finish"} \subseteq Items
    BY WireRanks DEF Items, Chunks
  <2> QED
    BY <1>6, <1>9, <2>1, <2>2
<1> QED
  BY <1>4, <1>5, <1>8, <1>9 DEF Ordered


\* The chunks on the wire at a wait are those of the log.
LEMMA LoggedAtWait ==
  ASSUME TypeOK, LogInv, pc = "wait"
  PROVE  /\ sent = <<>> => \A x \in Chunks : ~Has(wire, x)
         /\ sent # <<>> => \E x \in Chunks : Has(wire, x)
<1> DEFINE sel == Selected(wire, Chunks)
<1>1. wire \in Seq(Items) /\ sel = sent /\ sent \in Seq(Chunks)
  BY AnswerType DEF LogInv, ChunksOn, TypeOK, TraceType
<1>2. \A x : (\E i \in 1..Len(sel) : sel[i] = x) <=> x \in Chunks /\ Has(wire, x)
  BY <1>1, SelectedElements DEF Has
<1> HIDE DEF sel
<1>3. CASE sent = <<>>
  BY <1>1, <1>2, <1>3, EmptySeq
<1>4. CASE sent # <<>>
  <2>1. 1 \in 1..Len(sel) /\ sel[1] \in Chunks
    BY <1>1, <1>4, EmptySeq, ElementOfSeq
  <2> QED
    BY <1>2, <1>4, <2>1
<1> QED
  BY <1>3, <1>4

\* The wire with the headers that a delivery begins with.
Opened == IF headersStarted THEN wire ELSE <<"head">>

LEMMA OpenedIs ==
  ASSUME TypeOK, SafetyInv, OutboxInv, OrderInv, pc = "wait"
  PROVE  /\ Opened \in Seq(Items) /\ Ordered(Opened) /\ Opened # <<>>
         /\ \A y \in Items : Has(Opened, y) => y \in Clean
         /\ \A y \in Chunks : Has(Opened, y) <=> Has(wire, y)
         /\ ~headersStarted => wire = <<>> /\ \A y : Has(Opened, y) => y = "head"
         /\ Ordered(wire) /\ wire \in Seq(Items) /\ Planned = wire
<1>1. wire \in Seq(Items) /\ ToCome = <<>> /\ current.kind = "none"
  BY AnswerType, AtWait, Kinds DEF ToCome
<1>2. Planned = wire /\ Ordered(wire)
  BY <1>1, ConcatEmptySeq DEF Planned, OrderInv
<1>3. ~headersStarted => wire = <<>>
  BY DEF SafetyInv, WireInv
<1>4. CASE headersStarted
  <2>1. Opened = wire /\ wire # <<>>
    BY <1>4 DEF Opened, OrderInv
  <2>2. \A y \in Items : Has(wire, y) => y \in Clean
    BY <1>1 DEF OutboxInv, Has, On
  <2> QED
    BY <1>1, <1>2, <1>4, <2>1, <2>2
<1>5. CASE ~headersStarted
  <2> DEFINE none == <<>>
  <2>1. none \in Seq(Items) /\ Len(none) = 0 /\ "head" \in Items \ Chunks /\ "head" \in Clean
    BY EmptySeq DEF Items, Chunks, Phases, Clean
  <2>2. Opened = none \o <<"head">>
    BY <1>5, Tuples DEF Opened
  <2>3. \A y : ~Has(none, y)
    BY <2>1 DEF Has
  <2>4. Ordered(none)
    BY <2>1, <2>3 DEF Ordered
  <2> HIDE DEF none
  <2>5. Ordered(Opened)
    BY <2>1, <2>2, <2>3, <2>4, Extended
  <2>6. /\ Opened \in Seq(Items) /\ Opened # <<>>
        /\ \A y : Has(Opened, y) <=> y = "head"
    BY <2>1, <2>2, <2>3, OneMore
  <2>7. \A y : ~Has(wire, y)
    BY <1>3, <1>5, <2>3 DEF none
  <2> QED
    BY <1>1, <1>2, <1>3, <1>5, <2>1, <2>5, <2>6, <2>7
<1> QED
  BY <1>4, <1>5

\* A first item and the rest, handed over one after the other.
LEMMA Handed ==
  ASSUME NEW w \in Seq(Items), NEW s \in Seq(Items), s # <<>>
  PROVE  Append(w, Head(s)) \o Tail(s) = w \o s
<1> DEFINE h == <<Head(s)>>
<1>1. h \in Seq(Items) /\ Tail(s) \in Seq(Items) /\ Head(s) \in Items /\ s = h \o Tail(s)
  BY HeadAndTail
<1>2. w \o h = Append(w, Head(s))
  BY <1>1, OneMore
<1> HIDE DEF h
<1>3. (w \o h) \o Tail(s) = w \o (h \o Tail(s))
  BY <1>1, ConcatAssociative
<1> QED
  BY <1>1, <1>2, <1>3

LEMMA PlannedBegins ==
  ASSUME TypeOK, SafetyInv, pc = "wait",
         NEW items \in Seq(Items), items # <<>> \/ ~headersStarted,
         headersStarted => Head(items) # "keepalive",
         NEW frame, Deliver(frame, items)
  PROVE  Planned' = Opened \o items
<1> DEFINE head  == <<"head">>
           lead  == IF headersStarted THEN <<>> ELSE head
           sends == lead \o items
<1>1. /\ pc' = "send" /\ outbox' = sends /\ wire' = Put(wire, Head(sends))
  BY DEF Deliver
<1>2. lead \in Seq(Items) /\ "head" \in Items /\ head \in Seq(Items)
  <2>1. "head" \in Items
    BY DEF Items
  <2> QED
    BY <2>1, EmptySeq
<1>3. wire \in Seq(Items)
  BY AnswerType
<1>4. /\ sends \in Seq(Items) /\ sends # <<>> /\ Head(sends) # "keepalive"
  <2>1. CASE headersStarted
    <3>1. sends = items
      BY <2>1, ConcatEmptySeq
    <3> QED
      BY <2>1, <3>1
  <2>2. CASE ~headersStarted
    <3>1. lead = head
      BY <2>2
    <3>2. /\ Len(head) = 1 /\ head[1] = "head"
      BY Tuples
    <3> HIDE DEF head, lead
    <3>4. Len(items) \in Nat
      BY LenProperties
    <3>7. \A a, b \in Seq(Items) :
            /\ a \o b \in Seq(Items) /\ Len(a \o b) = Len(a) + Len(b)
            /\ \A i \in 1..Len(a) + Len(b) :
                 (a \o b)[i] = IF i =< Len(a) THEN a[i] ELSE b[i - Len(a)]
      BY ConcatProperties
    <3>3. /\ sends \in Seq(Items) /\ Len(sends) = Len(head) + Len(items)
          /\ sends[1] = head[1]
      <4>1. sends = head \o items
        BY <3>1
      <4>2. /\ head \o items \in Seq(Items) /\ Len(head \o items) = Len(head) + Len(items)
            /\ \A i \in 1..Len(head) + Len(items) :
                 (head \o items)[i] = IF i =< Len(head) THEN head[i] ELSE items[i - Len(head)]
        BY <1>2, <3>7
      <4>3. 1 \in 1..Len(head) + Len(items) /\ 1 =< Len(head)
        BY <3>2, <3>4
      <4> QED
        BY <4>1, <4>2, <4>3
    <3>5. sends # <<>>
      <4>1. sends = <<>> => Len(sends) = Len(<<>>)
        BY Zenon
      <4> QED
        BY <3>2, <3>3, <3>4, <4>1, EmptySeq
    <3>6. Head(sends) = sends[1]
      BY <3>3, <3>5, HeadAndTail
    <3> QED
      BY <3>2, <3>3, <3>5, <3>6
  <2> QED
    BY <2>1, <2>2
<1> HIDE DEF sends
<1>5. Head(sends) \in Items
  BY <1>4, HeadAndTail
<1>6. wire' = Append(wire, Head(sends))
  BY <1>1, <1>3, <1>4, <1>5 DEF Put
<1>7. Planned' = wire \o sends
  BY <1>1, <1>3, <1>4, <1>6, Handed DEF Planned, ToCome
<1>8. CASE headersStarted
  <2>1. sends = items
    BY <1>8, ConcatEmptySeq DEF sends
  <2> QED
    BY <1>7, <1>8, <2>1 DEF Opened
<1>9. CASE ~headersStarted
  <2>1. wire = <<>>
    BY <1>9 DEF SafetyInv, WireInv
  <2>2. <<>> \o sends = sends
    BY <1>4, ConcatEmptySeq
  <2> QED
    BY <1>7, <1>9, <2>1, <2>2 DEF Opened, sends
<1> QED
  BY <1>8, <1>9


\* The sends of a finish, after headers and data.
LEMMA FinishOrdered ==
  ASSUME NEW w \in Seq(Items), Ordered(w), w # <<>>,
         \A y \in Items : Has(w, y) => y \in Clean,
         sent = <<>> => \A y \in Chunks : ~Has(w, y),
         sent # <<>> => Has(w, "role")
  PROVE  Ordered(w \o FinishSends)
<1> DEFINE role   == <<"role">>
           finish == <<"finish">>
           last   == <<"done">>
           lead   == IF sent = <<>> THEN role ELSE <<>>
           usage  == IF IncludeUsage THEN <<"usage">> ELSE <<>>
           w1     == w \o lead
           w2     == w1 \o finish
           w3     == w2 \o usage
<1>1. /\ {"role", "finish", "usage", "done"} \subseteq Items \cap Chunks
      /\ Clean \subseteq Items /\ "finish" \notin Clean
  BY DEF Items, Chunks, Phases, Clean
<1>2. \A x \in Items : <<x>> \in Seq(Items)
  OBVIOUS
<1>3. lead \in Seq(Items) /\ usage \in Seq(Items) /\ finish \in Seq(Items) /\ last \in Seq(Items)
  BY <1>1, <1>2, EmptySeq
<1>4. /\ w1 \in Seq(Items) /\ Ordered(w1) /\ w1 # <<>>
      /\ \A y \in Items : Has(w1, y) => y \in Clean
      /\ Has(w1, "role")
  <2>1. CASE sent = <<>>
    <3>1. w1 = w \o <<"role">>
      BY <2>1
    <3>2. /\ w1 \in Seq(Items) /\ w1 # <<>> /\ \A y : Has(w1, y) <=> Has(w, y) \/ y = "role"
      BY <1>1, <3>1, OneMore
    <3>3. \A y \in Items : Has(w, y) => Before(y, "role")
      <4>1. \A y \in Clean \ Phases : WireRank[y] < WireRank["role"]
        BY WireRanks, <1>1
      <4> QED
        BY <2>1, <4>1, ChunkItems DEF Before
    <3>4. Ordered(w \o <<"role">>)
      BY <1>1, <3>3, Extended
    <3>5. "role" \in Clean
      BY DEF Clean, Phases
    <3> QED
      BY <3>1, <3>2, <3>4, <3>5
  <2>2. CASE sent # <<>>
    <3>1. w1 = w
      BY <2>2, ConcatEmptySeq
    <3> QED
      BY <2>2, <3>1
  <2> QED
    BY <2>1, <2>2
<1>5. /\ w2 \in Seq(Items) /\ Ordered(w2) /\ w2 # <<>>
      /\ \A y \in Items : Has(w2, y) => y \in Clean \/ y = "finish"
      /\ Has(w2, "role") /\ Has(w2, "finish")
  <2> HIDE DEF w1
  <2>1. \A y \in Items : Has(w1, y) => Before(y, "finish")
    <3>1. \A y \in Clean : WireRank[y] < WireRank["finish"]
      BY <1>1, WireRanks
    <3> QED
      BY <1>4, <3>1 DEF Before
  <2>2. Ordered(w1 \o <<"finish">>)
    BY <1>1, <1>4, <2>1, Extended
  <2>3. /\ w1 \o <<"finish">> \in Seq(Items) /\ w1 \o <<"finish">> # <<>>
        /\ \A y : Has(w1 \o <<"finish">>, y) <=> Has(w1, y) \/ y = "finish"
    BY <1>1, <1>4, OneMore
  <2> QED
    BY <1>4, <2>2, <2>3
<1>6. /\ w3 \in Seq(Items) /\ Ordered(w3) /\ w3 # <<>>
      /\ \A y \in Items : Has(w3, y) => y \in Clean \/ y \in {"finish", "usage"}
      /\ Has(w3, "role") /\ Has(w3, "finish")
  <2> HIDE DEF w2
  <2>1. CASE IncludeUsage
    <3>1. \A y \in Items : Has(w2, y) => Before(y, "usage")
      <4>1. \A y \in Clean \cup {"finish"} : WireRank[y] < WireRank["usage"]
        BY <1>1, WireRanks
      <4> QED
        BY <1>5, <4>1 DEF Before
    <3>2. Ordered(w2 \o <<"usage">>)
      BY <1>1, <1>5, <3>1, Extended
    <3>3. /\ w2 \o <<"usage">> \in Seq(Items) /\ w2 \o <<"usage">> # <<>>
          /\ \A y : Has(w2 \o <<"usage">>, y) <=> Has(w2, y) \/ y = "usage"
      BY <1>1, <1>5, OneMore
    <3> QED
      BY <1>5, <2>1, <3>2, <3>3
  <2>2. CASE ~IncludeUsage
    <3>1. w3 = w2
      BY <1>5, <2>2, ConcatEmptySeq
    <3> QED
      BY <1>5, <3>1
  <2> QED
    BY <2>1, <2>2
<1>7. Ordered(w3 \o last)
  <2> HIDE DEF w3
  <2>1. \A y \in Items : Has(w3, y) => Before(y, "done")
    <3>1. \A y \in Clean \cup {"finish", "usage"} : WireRank[y] < WireRank["done"]
      BY <1>1, WireRanks
    <3> QED
      BY <1>6, <3>1 DEF Before
  <2> QED
    BY <1>1, <1>6, <2>1, Extended
<1>8. w3 \o last = w \o FinishSends
  <2> HIDE DEF lead, finish, usage, last
  <2>1. FinishSends = ((lead \o finish) \o usage) \o last
    BY DEF FinishSends, lead, finish, usage, last
  <2> DEFINE lf  == lead \o finish
             lfu == lf \o usage
  <2>2. lf \in Seq(Items) /\ lfu \in Seq(Items)
    BY <1>3, ConcatProperties
  <2>3. \A a, b, c \in Seq(Items) : (a \o b) \o c = a \o (b \o c)
    BY ConcatAssociative
  <2> HIDE DEF lf, lfu
  <2>4. (w \o lead) \o finish = w \o lf
    BY <1>3, <2>3 DEF lf
  <2>5. (w \o lf) \o usage = w \o lfu
    BY <1>3, <2>2, <2>3 DEF lfu
  <2>6. (w \o lfu) \o last = w \o (lfu \o last)
    BY <1>3, <2>2, <2>3
  <2> QED
    BY <2>1, <2>4, <2>5, <2>6 DEF lf, lfu
<1> QED
  BY <1>7, <1>8

\* The consumer takes a data frame: its chunk follows what is on the wire, since
\* both are in the script and that is in order.
LEMMA DataOrdered ==
  ASSUME TypeOK, SafetyInv, OutboxInv, ScriptInv, HeldInv, OrderInv, TakeData
  PROVE  Ordered(Planned')
<1> DEFINE tag == fetched.tag
           x   == <<tag>>
           ans == DataOn(wire)
<1>1. /\ pc = "wait" /\ fetched.kind = "data" /\ Deliver(fetched, x)
  BY DEF TakeData, Taken, Waiting
<1>2. /\ tag \in Phases /\ tag \in Items /\ tag # "keepalive" /\ tag \in Chunks
      /\ x \in Seq(Items) /\ x # <<>> /\ Head(x) = tag /\ x \in Seq(Phases)
      /\ Len(x) = 1 /\ x[1] = tag
  <2>1. fetched = NoFrame \/ fetched \in Frames
    BY HeldTypes
  <2>2. tag \in Phases
    BY <1>1, <2>1, Kinds, FrameTags
  <2>3. tag \in Items /\ tag \in Chunks
    BY <2>2, ChunkItems
  <2> QED
    BY <2>2, <2>3, ChunkItems, Tuples
<1>3. Planned' = Opened \o x
  BY <1>1, <1>2, PlannedBegins
<1>4. PICK rest \in Seq(Phases) : script = ((ans \o x) \o Queued) \o rest
  <2>1. current.kind = "none" /\ Answer = ans
    BY <1>1, AtWait, Kinds, AnswerType
  <2>2. Fetched = x
    BY <1>1 DEF Fetched
  <2> QED
    BY <1>1, <2>1, <2>2 DEF HeldInv
<1>5. /\ ans \in Seq(Phases) /\ Len(ans) \in Nat /\ Queued \in Seq(Phases)
      /\ wire \in Seq(Items)
  BY AnswerType, HeldTypes, LenProperties
<1>6. /\ script \in Seq(Phases) /\ Len(script) \in Nat /\ Len(ans) + 1 \in 1..Len(script)
      /\ script[Len(ans) + 1] = tag
      /\ \A i \in 1..Len(ans) : script[i] = ans[i]
  <2> DEFINE r == Queued \o rest
  <2>1. r \in Seq(Phases) /\ Len(r) \in Nat
    BY <1>4, <1>5, ConcatProperties, LenProperties
  <2>2. script = ans \o (x \o r)
    <3>1. ((ans \o x) \o Queued) \o rest = (ans \o x) \o (Queued \o rest)
      <4>1. ans \o x \in Seq(Phases)
        BY <1>2, <1>5, ConcatProperties
      <4> QED
        BY <1>4, <1>5, <4>1, ConcatAssociative
    <3>2. (ans \o x) \o r = ans \o (x \o r)
      BY <1>2, <1>5, <2>1, ConcatAssociative
    <3> QED
      BY <1>4, <3>1, <3>2
  <2> HIDE DEF r, x, ans
  <2> DEFINE y == x \o r
  <2>3. /\ y \in Seq(Phases) /\ Len(y) = 1 + Len(r) /\ y[1] = tag
    <3>1. /\ x \o r \in Seq(Phases) /\ Len(x \o r) = Len(x) + Len(r)
          /\ \A i \in 1..Len(x) + Len(r) :
               (x \o r)[i] = IF i =< Len(x) THEN x[i] ELSE r[i - Len(x)]
      BY <1>2, <2>1, ConcatProperties
    <3>2. 1 \in 1..Len(x) + Len(r) /\ 1 =< Len(x)
      BY <1>2, <2>1
    <3> QED
      BY <1>2, <3>1, <3>2
  <2> HIDE DEF y
  <2>4. /\ ans \o y \in Seq(Phases) /\ Len(ans \o y) = Len(ans) + Len(y)
        /\ \A i \in 1..Len(ans) + Len(y) :
             (ans \o y)[i] = IF i =< Len(ans) THEN ans[i] ELSE y[i - Len(ans)]
    <3>1. \A a, b \in Seq(Phases) :
            /\ a \o b \in Seq(Phases) /\ Len(a \o b) = Len(a) + Len(b)
            /\ \A i \in 1..Len(a) + Len(b) :
                 (a \o b)[i] = IF i =< Len(a) THEN a[i] ELSE b[i - Len(a)]
      BY ConcatProperties
    <3> QED
      BY <1>5, <2>3, <3>1
  <2>5. script = ans \o y
    BY <2>2 DEF y
  <2> HIDE DEF tag
  <2>6. /\ Len(ans) + 1 \in 1..Len(ans) + Len(y) /\ ~(Len(ans) + 1 =< Len(ans))
        /\ Len(ans) + 1 - Len(ans) = 1 /\ Len(ans) + Len(y) \in Nat
        /\ \A i \in 1..Len(ans) : i \in 1..Len(ans) + Len(y) /\ i =< Len(ans)
    BY <1>5, <2>1, <2>3
  <2> QED
    BY <2>3, <2>4, <2>5, <2>6
<1> HIDE DEF tag, x, ans
<1>7. \A y : Has(ans, y) <=> y \in Phases /\ Has(wire, y)
  BY <1>5, SelectedElements DEF ans, DataOn, Has
<1>8. /\ Opened \in Seq(Items) /\ Ordered(Opened) /\ Opened # <<>>
      /\ \A y \in Items : Has(Opened, y) => y \in Clean
      /\ \A y \in Chunks : Has(Opened, y) <=> Has(wire, y)
  BY <1>1, OpenedIs
<1>9. ASSUME NEW y \in Items, Has(Opened, y)
      PROVE  Before(y, tag)
  <2>1. y \in Clean
    BY <1>8, <1>9
  <2>2. CASE y \notin Phases
    BY <1>2, <2>1, <2>2, WireRanks DEF Before
  <2>3. CASE y \in Phases
    <3>1. Has(ans, y)
      BY <1>7, <1>8, <1>9, <2>3, ChunkItems
    <3>2. PICK i \in 1..Len(ans) : ans[i] = y
      BY <3>1 DEF Has
    <3>3. i \in 1..Len(script) /\ i < Len(ans) + 1 /\ script[i] = y
      BY <1>5, <1>6, <3>2
    <3>4. Rank[y] =< Rank[tag]
      BY <1>6, <3>3 DEF ScriptInv
    <3>5. tag # "role"
      <4>1. Len(ans) + 1 \in 2..Len(script)
        BY <1>5, <1>6, <3>2
      <4> QED
        BY <1>6, <4>1 DEF ScriptInv
    <3>6. Rank[y] \in 1..4 /\ Rank[tag] \in 1..4 /\ (Rank[y] = Rank[tag] => y = tag)
      BY <1>2, <2>3, Ranks
    <3>7. WireRank[y] = Rank[y] + 1 /\ WireRank[tag] = Rank[tag] + 1
      BY <1>2, <2>3, WireRanks
    <3>8. WireRank[y] < WireRank[tag] \/ y = tag
      BY <3>4, <3>6, <3>7
    <3>9. tag \in {"reasoning", "content", "tool"}
      BY <1>2, <3>5 DEF Phases
    <3> QED
      BY <3>8, <3>9 DEF Before
  <2> QED
    BY <2>2, <2>3
<1>10. tag = "role" \/ Has(Opened, "role")
  <2>0. script # <<>>
    BY <1>6, EmptySeq
  <2>1. CASE Len(ans) = 0
    BY <1>6, <2>0, <2>1 DEF ScriptInv
  <2>2. CASE Len(ans) # 0
    <3>1. 1 \in 1..Len(ans)
      BY <1>5, <2>2
    <3>2. ans[1] = "role"
      BY <1>6, <2>0, <3>1 DEF ScriptInv
    <3>3. Has(ans, "role")
      BY <3>1, <3>2 DEF Has
    <3> QED
      BY <1>7, <1>8, <3>3, ChunkItems
  <2> QED
    BY <2>1, <2>2
<1>11. tag # "done"
  BY <1>2 DEF Phases
<1>12. Ordered(Opened \o <<tag>>)
  BY <1>2, <1>8, <1>9, <1>10, <1>11, Extended
<1> QED
  BY <1>3, <1>12 DEF x


LEMMA FinishChunks == FinishSends \in Seq(Chunks)
<1> DEFINE lead   == IF sent = <<>> THEN <<"role">> ELSE <<>>
           finish == <<"finish">>
           usage  == IF IncludeUsage THEN <<"usage">> ELSE <<>>
           last   == <<"done">>
<1>1. {"role", "finish", "usage", "done"} \subseteq Chunks
  BY DEF Chunks, Phases
<1>2. \A x \in Chunks : <<x>> \in Seq(Chunks)
  OBVIOUS
<1>3. lead \in Seq(Chunks) /\ finish \in Seq(Chunks) /\ usage \in Seq(Chunks)
      /\ last \in Seq(Chunks)
  BY <1>1, <1>2, EmptySeq
<1>4. FinishSends = ((lead \o finish) \o usage) \o last
  BY DEF FinishSends
<1> HIDE DEF lead, finish, usage, last
<1> QED
  BY <1>3, <1>4, ConcatProperties

\* What the consumer begins to send in a wait.
LEMMA BeginOrdered ==
  ASSUME TypeOK, SafetyInv, OutboxInv, ScriptInv, LogInv, HeldInv, OrderInv, Wakes,
         pc' = "send"
  PROVE  Ordered(Planned')
<1>0. pc = "wait"
  BY DEF Wakes, TakeDisconnect, Tick, TakeData, TakeFinish, TakeHttpError, DropHttpError,
         TakeHardAbort, Taken, Waiting
<1>1. /\ Opened \in Seq(Items) /\ Ordered(Opened) /\ Opened # <<>>
      /\ \A y \in Items : Has(Opened, y) => y \in Clean
      /\ \A y \in Chunks : Has(Opened, y) <=> Has(wire, y)
      /\ ~headersStarted => wire = <<>> /\ \A y : Has(Opened, y) => y = "head"
      /\ Ordered(wire) /\ wire \in Seq(Items) /\ Planned = wire
  BY <1>0, OpenedIs
<1>2. {"end", "keepalive", "errhead", "errbody", "head"} \subseteq Items \ Chunks
  BY DEF Items, Chunks, Phases
<1>3. /\ sent = <<>> => \A x \in Chunks : ~Has(wire, x)
      /\ sent # <<>> => \E x \in Chunks : Has(wire, x)
  BY <1>0, LoggedAtWait
<1>4. \A x \in Items : <<x>> \in Seq(Items) /\ <<x>> # <<>> /\ Head(<<x>>) = x /\ Tail(<<x>>) = <<>>
  <2> SUFFICES ASSUME NEW x \in Items
               PROVE  <<x>> \in Seq(Items) /\ <<x>> # <<>> /\ Head(<<x>>) = x
                      /\ Tail(<<x>>) = <<>>
    OBVIOUS
  <2>1. <<x>> \in Seq(Items)
    OBVIOUS
  <2> QED
    BY <2>1, Tuples
<1>5. CASE TakeDisconnect
  <2>1. ~headersStarted /\ Deliver(GoneFrame, <<"end">>)
    BY <1>5 DEF TakeDisconnect, Stop
  <2>2. Planned' = Opened \o <<"end">>
    BY <1>0, <1>2, <1>4, <2>1, PlannedBegins
  <2>3. \A y \in Items : Has(Opened, y) => Before(y, "end")
    <3>1. \A y \in Clean : WireRank[y] < WireRank["end"]
      <4>1. Clean \subseteq Items
        BY DEF Clean, Items, Chunks
      <4> QED
        BY <4>1, WireRanks
    <3> QED
      BY <1>1, <3>1 DEF Before
  <2>4. Ordered(Opened \o <<"end">>)
    BY <1>1, <1>2, <2>3, Extended
  <2> QED
    BY <2>2, <2>4
<1>6. CASE Tick
  <2>1. Deliver(KeepAliveFrame, <<"keepalive">>) /\ tick
    BY <1>6 DEF Tick, EnterWait
  <2>2. \A y \in Items : Has(Opened, y) => y \in {"head", "keepalive"}
    <3>1. sent = <<>>
      BY <2>1 DEF OutboxInv
    <3> QED
      BY <1>1, <1>3, <3>1, ChunkItems DEF Clean
  <2>3. CASE headersStarted /\ wire[Len(wire)] = "keepalive"
    <3>1. /\ Opened = wire /\ wire # <<>>
      BY <1>1, <2>3 DEF Opened
    <3> DEFINE ka == <<"keepalive">>
    <3>2. ka \in Seq(Items) /\ Head(ka) = "keepalive" /\ Tail(ka) = <<>> /\ <<>> \o ka = ka
      BY <1>2, <1>4, Tuples
    <3> HIDE DEF ka
    <3>3. wire' = Put(wire, Head(ka)) /\ pc' = "send" /\ outbox' = ka
      BY <2>1, <2>3, <3>2 DEF Deliver, ka
    <3>4. wire' = wire /\ ToCome' = <<>>
      BY <2>3, <3>1, <3>2, <3>3 DEF Put, ToCome
    <3> QED
      BY <1>1, <3>4, ConcatEmptySeq DEF Planned
  <2>4. CASE ~(headersStarted /\ wire[Len(wire)] = "keepalive")
    <3>1. ASSUME NEW y \in Items, Has(Opened, y) PROVE y = "head"
      <4>1. CASE ~headersStarted
        BY <1>1, <3>1, <4>1
      <4>2. CASE headersStarted /\ y = "keepalive"
        <5>1. Opened = wire /\ Len(wire) \in Nat
          BY <1>1, <4>2, LenProperties DEF Opened
        <5>2. PICK i \in 1..Len(wire) : wire[i] = "keepalive"
          BY <3>1, <4>2, <5>1 DEF Has
        <5>3. i + 1 \in 1..Len(wire)
          BY <2>4, <4>2, <5>1, <5>2
        <5>4. wire[i + 1] \in {"head", "keepalive"}
          <6>1. wire[i + 1] \in Items /\ Has(wire, wire[i + 1])
            BY <1>1, <5>3, ElementOfSeq DEF Has
          <6> QED
            BY <2>2, <5>1, <6>1
        <5>5. Before("keepalive", wire[i + 1])
          BY <1>1, <5>1, <5>2, <5>3 DEF Ordered
        <5> QED
          BY <5>4, <5>5, WireRanks DEF Before
      <4> QED
        BY <2>2, <3>1, <4>1, <4>2
    <3>2. Planned' = Opened \o <<"keepalive">>
      <4>1. CASE ~headersStarted
        BY <1>0, <1>2, <1>4, <2>1, <4>1, PlannedBegins
      <4>2. CASE headersStarted
        <5> DEFINE ka == <<"keepalive">>
        <5>1. ka \in Seq(Items) /\ Head(ka) = "keepalive" /\ Tail(ka) = <<>> /\ <<>> \o ka = ka
          BY <1>2, <1>4, Tuples
        <5> HIDE DEF ka
        <5>2. wire' = Put(wire, Head(ka)) /\ pc' = "send" /\ outbox' = ka
          BY <2>1, <4>2, <5>1 DEF Deliver, ka
        <5>3. wire' = Append(wire, "keepalive") /\ ToCome' = <<>>
          BY <2>4, <4>2, <5>1, <5>2 DEF Put, ToCome
        <5>4. /\ wire \o <<"keepalive">> = Append(wire, "keepalive")
              /\ wire \o <<"keepalive">> \in Seq(Items)
          BY <1>1, <1>2, OneMore
        <5>5. wire' \o <<>> = wire'
          BY <5>3, <5>4, ConcatEmptySeq
        <5> QED
          BY <4>2, <5>3, <5>4, <5>5 DEF Planned, Opened
      <4> QED
        BY <4>1, <4>2
    <3>3. \A y \in Items : Has(Opened, y) => Before(y, "keepalive")
      BY <3>1, WireRanks DEF Before
    <3>4. Ordered(Opened \o <<"keepalive">>)
      BY <1>1, <1>2, <3>3, Extended
    <3> QED
      BY <3>2, <3>4
  <2> QED
    BY <2>3, <2>4
<1>7. CASE TakeData
  BY <1>7, DataOrdered
<1>8. CASE TakeFinish
  <2>1. Deliver(fetched, FinishSends)
    BY <1>8 DEF TakeFinish
  <2>2. /\ FinishSends \in Seq(Items) /\ FinishSends # <<>>
        /\ Head(FinishSends) # "keepalive"
    <3>1. FinishSends \in Seq(Chunks) /\ FinishSends # <<>>
      BY FinishItems, FinishChunks
    <3> QED
      BY <3>1, FinishItems, HeadAndTail, ChunkItems
  <2>3. Planned' = Opened \o FinishSends
    BY <1>0, <2>1, <2>2, PlannedBegins
  <2>4. sent # <<>> => Has(Opened, "role")
    BY <1>1, <1>3, ChunkItems DEF Ordered, Phases
  <2>5. sent = <<>> => \A y \in Chunks : ~Has(Opened, y)
    BY <1>1, <1>3
  <2> QED
    BY <1>1, <2>3, <2>4, <2>5, FinishOrdered
<1>9. CASE TakeHttpError
  <2>1. /\ ~headersStarted /\ wire = <<>> /\ pc' = "send"
        /\ outbox' = <<"errhead", "errbody">> /\ wire' = Append(wire, "errhead")
    BY <1>1, <1>9 DEF TakeHttpError
  <2> DEFINE none == <<>>
  <2>2. none \in Seq(Items) /\ Len(none) = 0 /\ \A y : ~Has(none, y)
    BY EmptySeq DEF Has
  <2>3. Ordered(none)
    BY <2>2 DEF Ordered
  <2> HIDE DEF none
  <2> DEFINE one == none \o <<"errhead">>
  <2>4. /\ one \in Seq(Items) /\ one = Append(none, "errhead") /\ one # <<>>
        /\ \A y : Has(one, y) <=> y = "errhead"
    <3>1. "errhead" \in Items
      BY <1>2
    <3>2. /\ one \in Seq(Items) /\ one = Append(none, "errhead") /\ one # <<>>
          /\ \A y : Has(one, y) <=> Has(none, y) \/ y = "errhead"
      BY <2>2, <3>1, OneMore
    <3> QED
      BY <2>2, <3>2
  <2>5. Ordered(one)
    <3>1. none = <<>>
      BY DEF none
    <3> QED
      BY <1>2, <2>2, <2>3, <3>1, Extended
  <2> HIDE DEF one
  <2>6. \A y \in Items : Has(one, y) => Before(y, "errbody")
    BY <2>4, WireRanks DEF Before
  <2>7. Ordered(one \o <<"errbody">>)
    BY <1>2, <2>4, <2>5, <2>6, Extended
  <2>8. ToCome' = <<"errbody">> /\ wire' = one
    BY <2>1, <2>4, Tuples DEF ToCome, none
  <2> QED
    BY <2>7, <2>8 DEF Planned
<1>10. CASE TakeHardAbort
  <2>1. ~headersStarted /\ Deliver(fetched, <<>>)
    BY <1>10 DEF TakeHardAbort, Stop
  <2>2. <<>> \in Seq(Items)
    BY EmptySeq
  <2>3. Planned' = Opened \o <<>>
    BY <1>0, <2>1, <2>2, PlannedBegins
  <2> QED
    BY <1>1, <2>3, ConcatEmptySeq
<1>11. ~DropHttpError
  BY DEF DropHttpError, EnterWait
<1> QED
  BY <1>5, <1>6, <1>7, <1>8, <1>9, <1>10, <1>11 DEF Wakes


\* A stream is severed before anything closed it.
LEMMA Severed ==
  ASSUME TypeOK, SafetyInv, [Next]_vars, pc' = "ended", wire' # wire
  PROVE  /\ pc # "ended" /\ current.kind \in {"none", "data", "hard_abort"}
         /\ pc = "wait" => headersStarted
         /\ wire' = Append(wire, "close")
<1>1. ~Operator /\ ~Sender /\ ~GetTask /\ ~Shutdown /\ ~ClientLeaves /\ vars' # vars
  BY DEF Operator, Submit, SubmitFails, Accept, AbortGraceful, AbortHard,
         InjectCutNow, CutNow, InjectHttpError, InjectDelay, InjectCutAfter, Arm,
         LiveStart, LiveText, LiveToolCall, Relay, LiveFinish, PutReadOnly, trace,
         Sender, SenderEnds, SenderPauses, GetTask, Shutdown, ClientLeaves, vars
<1>2. CASE Wakes \/ ConsumerCancelled
  <2>1. TakeHardAbort
    BY <1>2 DEF Wakes, TakeDisconnect, Tick, TakeData, TakeFinish, TakeHttpError, DropHttpError,
                Taken, ConsumerCancelled, Deliver, EnterWait, trace
  <2>2. pc = "wait" /\ headersStarted /\ wire' = Append(wire, "close")
    BY <2>1 DEF TakeHardAbort, Taken, Waiting, Deliver
  <2> QED
    BY <2>2, AtWait, Kinds
<1>3. CASE SendReturns
  BY <1>3 DEF SendReturns, SendNext, KeepAliveSent, DataSent, DataSentAndCut, FinishSent,
         HttpErrorSent, HardAbortHeadSent, GoneSent, Sent, Returned, EnterWait
<1> QED
  BY <1>1, <1>2, <1>3 DEF Next, Environment

LEMMA OrderSafe ==
  TypeOK /\ SafetyInv /\ OutboxInv /\ ScriptInv /\ LogInv /\ HeldInv /\ OrderInv /\ [Next]_vars
    => OrderInv'
<1> SUFFICES ASSUME TypeOK, SafetyInv, OutboxInv, ScriptInv, LogInv, HeldInv, OrderInv,
                    [Next]_vars
             PROVE  OrderInv'
  OBVIOUS
<1>0. wire \in Seq(Items) /\ ToCome \in Seq(Items) /\ Ordered(Planned) /\ outbox \in Seq(Items)
  BY AnswerType DEF OrderInv, TypeOK, ConsumerType
<1>1. headersStarted' => wire' # <<>>
  <2>1. wire # <<>> => wire' # <<>>
    <3>1. CASE UNCHANGED wire
      BY <3>1
    <3>2. ASSUME NEW x \in Items, On(x)' PROVE wire' # <<>>
      <4>1. PICK i \in 1..Len(wire') : wire'[i] = x
        BY <3>2 DEF On
      <4> QED
        BY <4>1, EmptySeq
    <3> QED
      BY <3>1, <3>2, WireStep
  <2>2. headersStarted' => headersStarted \/ pc = "send"
    BY DEF Next, Operator, Submit, SubmitFails, Accept, AbortGraceful, AbortHard,
         InjectCutNow, CutNow, InjectHttpError, InjectDelay, InjectCutAfter, Arm,
         LiveStart, LiveText, LiveToolCall, Relay, LiveFinish, PutReadOnly, consumer,
         Sender, SenderEnds, SenderPauses, GetTask, Wakes, TakeDisconnect, Tick, TakeData,
         TakeFinish, TakeHttpError, DropHttpError, TakeHardAbort, SendReturns, SendNext,
         KeepAliveSent, DataSent, DataSentAndCut, FinishSent, HttpErrorSent, HardAbortHeadSent,
         GoneSent, Sent, Returned, Environment, ConsumerCancelled, ClientLeaves, Shutdown, vars
  <2> QED
    BY <2>1, <2>2 DEF OrderInv, SafetyInv, SendInv
<1> SUFFICES Ordered(Planned')
  BY <1>1 DEF OrderInv
<1>2. ASSUME Planned' = Planned PROVE Ordered(Planned')
  BY <1>0, <1>2
<1>3. pc # "send" \/ Len(outbox) = 1 => Planned = wire
  <2>1. pc = "send" /\ Len(outbox) = 1 => Tail(outbox) = <<>>
    <3>1. ASSUME pc = "send", Len(outbox) = 1 PROVE Tail(outbox) = <<>>
      <4>1. /\ Tail(outbox) \in Seq(Items) /\ Len(Tail(outbox)) = 0
        BY <3>1, AfterSend
      <4> QED
        BY <4>1, EmptySeq
    <3> QED
      BY <3>1
  <2> QED
    BY <1>0, <2>1, ConcatEmptySeq DEF Planned, ToCome
<1>4. pc' # "send" /\ wire' = wire => Planned' = wire
  BY <1>0, ConcatEmptySeq DEF Planned, ToCome
<1>5. CASE QuietStep
  BY <1>2, <1>5 DEF QuietStep, Planned, ToCome
<1>6. CASE BeginStep
  <2>1. pc = "wait" /\ pc' = "send"
    BY <1>6 DEF BeginStep
  <2>2. ~Operator /\ ~Sender /\ ~GetTask /\ ~Shutdown /\ ~ClientLeaves /\ vars' # vars
    BY <2>1 DEF Operator, Submit, SubmitFails, Accept, AbortGraceful, AbortHard,
         InjectCutNow, CutNow, InjectHttpError, InjectDelay, InjectCutAfter, Arm,
         LiveStart, LiveText, LiveToolCall, Relay, LiveFinish, PutReadOnly, consumer,
         Sender, SenderEnds, SenderPauses, GetTask, Shutdown, ClientLeaves, vars
  <2>3. ~SendReturns /\ ~ConsumerCancelled
    BY <2>1 DEF SendReturns, SendNext, KeepAliveSent, DataSent, DataSentAndCut, FinishSent,
         HttpErrorSent, HardAbortHeadSent, GoneSent, Sent, Returned, ConsumerCancelled, Stop
  <2> QED
    BY <2>1, <2>2, <2>3, BeginOrdered DEF Next, Environment
<1>7. CASE WaitStep
  <2>1. pc = "wait" /\ pc' = "wait" /\ wire' = wire
    BY <1>7 DEF WaitStep
  <2> QED
    BY <1>0, <1>3, <1>4, <2>1
<1>8. CASE SendNext
  <2> DEFINE s == Tail(outbox)
  <2>1. /\ pc = "send" /\ pc' = "send" /\ Len(outbox) > 1
        /\ outbox' = s /\ wire' = Put(wire, outbox[2])
    BY <1>8 DEF SendNext, Returned
  <2>2. /\ s \in Seq(Items) /\ Len(s) = Len(outbox) - 1 /\ s[1] = outbox[2]
        /\ wire # <<>> /\ wire[Len(wire)] = outbox[1] /\ Len(outbox) \in Nat
    BY <2>1, AfterSend
  <2>3. s # <<>>
    BY <2>1, <2>2, EmptySeq
  <2>4. Head(s) = outbox[2] /\ outbox[2] \in Items
    BY <2>2, <2>3, HeadAndTail
  <2>5. ~(outbox[1] = "keepalive" /\ outbox[2] = "keepalive")
    <3>1. CASE current.kind = "finish"
      <4>1. 2 \in 1..Len(outbox)
        BY <2>1, <2>2
      <4> QED
        BY <3>1, <4>1, ChunkItems DEF OutboxInv
    <3>2. CASE current.kind = "http_error"
      <4>1. outbox \in {<<"errhead", "errbody">>, <<"errbody">>}
        BY <3>2 DEF SafetyInv, SendInv
      <4> QED
        BY <2>1, <4>1, Tuples
    <3>3. CASE current.kind \in {"data", "keepalive", "gone", "hard_abort"}
      <4>1. \E y \in Items : outbox \in {<<y>>, <<"head", y>>}
        BY <3>3, ChunkItems DEF OutboxInv, Items
      <4> QED
        BY <2>1, <4>1, Tuples
    <3>4. current.kind \in {"data", "keepalive", "gone", "hard_abort", "finish", "http_error"}
      <4>1. current \in Frames \cup {KeepAliveFrame, GoneFrame}
        BY <2>1 DEF TypeOK, ConsumerType
      <4> QED
        BY <4>1, FrameTags, Kinds
    <3> QED
      BY <3>1, <3>2, <3>3, <3>4
  <2>6. wire' = Append(wire, Head(s))
    BY <2>1, <2>2, <2>4, <2>5 DEF Put
  <2>7. Planned' = wire \o s
    BY <1>0, <2>1, <2>2, <2>3, <2>6, Handed DEF Planned, ToCome
  <2>8. Planned = wire \o s
    BY <2>1 DEF Planned, ToCome
  <2> QED
    BY <1>2, <2>7, <2>8
<1>9. CASE BackStep
  <2>1. Len(outbox) = 1 /\ pc' = "wait" /\ wire' = wire
    BY <1>9 DEF BackStep
  <2> QED
    BY <1>0, <1>3, <1>4, <2>1
<1>10. CASE StopStep
  <2>1. pc' = "ended" /\ (pc = "wait" \/ Len(outbox) = 1)
    BY <1>10 DEF StopStep
  <2>2. CASE wire' = wire
    BY <1>0, <1>3, <1>4, <2>1, <2>2
  <2>3. CASE wire' # wire
    <3>1. /\ pc # "ended" /\ current.kind \in {"none", "data", "hard_abort"}
          /\ pc = "wait" => headersStarted
          /\ wire' = Append(wire, "close")
      BY <2>1, <2>3, Severed
    <3>2. wire # <<>>
      BY <3>1 DEF OrderInv, SafetyInv, SendInv, TypeOK, ConsumerType
    <3>3. "close" \in Items /\ "close" \notin Chunks
      BY ChunkItems
    <3>4. \A y \in Items : Has(wire, y) => Before(y, "close")
      <4>1. \A y \in Items : Has(wire, y) => y \in Clean
        BY <3>1 DEF OutboxInv, Has, On
      <4>2. \A y \in Items : y \in Clean => WireRank[y] < WireRank["close"]
        BY WireRanks
      <4> QED
        BY <4>1, <4>2 DEF Before
    <3>5. Ordered(wire \o <<"close">>)
      BY <1>0, <1>3, <2>1, <3>2, <3>3, <3>4, Extended, ChunkItems DEF Chunks
    <3>6. wire' = wire \o <<"close">> /\ wire' \in Seq(Items)
      BY <1>0, <3>1, <3>3, OneMore
    <3>7. Planned' = wire'
      BY <2>1, <3>6, ConcatEmptySeq DEF Planned, ToCome
    <3> QED
      BY <3>5, <3>6, <3>7
  <2> QED
    BY <2>2, <2>3
<1>11. CASE CancelStep
  <2>1. pc' # "send" /\ wire' = wire
    BY <1>11 DEF CancelStep
  <2>2. Ordered(wire)
    BY <1>0, OrderedBeginning DEF Planned
  <2> QED
    BY <1>4, <2>1, <2>2
<1> QED
  BY <1>5, <1>6, <1>7, <1>8, <1>9, <1>10, <1>11, ConsumerSteps


-----------------------------------------------------------------------------
(* The theorems                                                             *)

TraceInv == /\ ModeInv /\ ScriptInv /\ OutboxInv /\ LogInv /\ CutInv /\ OwnerInv
            /\ HeldInv /\ PrefixInv /\ WholeInv /\ OrderInv

LEMMA InitTrace == Init => TraceInv
<1> SUFFICES ASSUME Init PROVE TraceInv
  OBVIOUS
<1>1. /\ TypeOK /\ SafetyInv
      /\ status = "pending" /\ ~done /\ meta = "none" /\ live = "off" /\ script = <<>>
      /\ injection = NoInjection /\ sender = "none" /\ todo = <<>> /\ queue = <<>>
      /\ pc = "wait" /\ fetched = NoFrame /\ current = NoFrame /\ outbox = <<>>
      /\ ~headersStarted /\ sent = <<>> /\ wire = <<>>
  BY InitType, InitSafe DEF Init
<1>2. Len(<<>>) = 0
  BY EmptySeq
<1>3. NoFrame.kind = "none"
  BY Kinds
<1>4. /\ Answer = <<>> /\ Fetched = <<>> /\ Queued = <<>> /\ Whats(todo) = <<>>
      /\ ToCome = <<>> /\ Planned = <<>>
  <2>1. ToCome = <<>>
    BY <1>1 DEF ToCome
  <2>2. DataOn(<<>>) = <<>> /\ Selected(queue, DataFrames) = <<>>
    BY <1>1, SelectedEmpty DEF DataOn
  <2>3. <<>> \in Seq(Phases) /\ <<>> \in Seq(Items)
    BY EmptySeq
  <2>4. \A S : \A s \in Seq(S) : s \o <<>> = s
    BY ConcatEmptySeq
  <2>5. Answer = <<>> /\ Planned = <<>>
    BY <1>1, <2>1, <2>2, <2>3, <2>4 DEF Answer, Planned
  <2>6. Queued = <<>>
    BY <2>2, TagsOf DEF Queued
  <2>7. Whats(todo) = <<>>
    <3>1. todo \in Seq(Step) /\ Len(todo) = 0
      BY <1>1, <1>2, EmptySeq
    <3>2. Whats(todo) \in Seq(Phases) /\ Len(Whats(todo)) = 0
      BY <3>1, FramesOfPlan
    <3> QED
      BY <3>2, EmptySeq
  <2> QED
    BY <1>1, <1>3, <2>1, <2>5, <2>6, <2>7 DEF Fetched
<1>5. ModeInv /\ ScriptInv
  BY <1>1, <1>2 DEF ModeInv, ScriptInv
<1>6. OutboxInv
  BY <1>1, <1>2, <1>3 DEF OutboxInv, On
<1>7. LogInv
  BY <1>1, SelectedEmpty DEF LogInv, ChunksOn
<1>8. CutInv
  BY <1>1 DEF CutInv, NoInjection
<1>9. OwnerInv
  BY <1>1, <1>2, <1>3 DEF OwnerInv, Owned
<1>10. HeldInv
  <2>1. <<>> \in Seq(Phases) /\ <<>> \o <<>> = <<>>
    BY Joined
  <2>2. script = Answer \o Fetched \o Queued \o <<>>
    BY <1>1, <1>4, <2>1
  <2> QED
    BY <1>4, <2>1, <2>2 DEF HeldInv
<1>11. PrefixInv
  BY <1>1, <1>4 DEF PrefixInv, Begins
<1>12. WholeInv
  BY <1>1 DEF WholeInv, EndedWhole, ClosedWhole
<1>13. OrderInv
  BY <1>1, <1>2, <1>4 DEF OrderInv, Ordered, Has
<1> QED
  BY <1>5, <1>6, <1>7, <1>8, <1>9, <1>10, <1>11, <1>12, <1>13 DEF TraceInv

LEMMA TraceSafe == TypeOK /\ SafetyInv /\ TraceInv /\ [Next]_vars => TraceInv'
BY ScriptSafe, OutboxSafe, LogSafe, CutSafe, OwnerSafe, HeldSafe, PrefixSafe, WholeSafe, OrderSafe
   DEF TraceInv

\* What paced sender, queue, consumer, wire and log hold together at every await:
\* nothing is reordered, doubled or dropped between submit() and the client, and the
\* closing tells what was left on the wire (state.py's sender and hooks, sse.py's loop).
THEOREM TraceInvariant == Spec => [](TypeOK /\ SafetyInv /\ TraceInv)
BY SafetyInvariant, InitTrace, TraceSafe, PTL DEF Spec

\* Whatever the operator, the sender and the timers do, the client reads a legal
\* stream: headers, keep-alives, one role, the phases in their order, one finish,
\* the usage and [DONE] (sse.py's consumer loop).
THEOREM WireOrderAlways == Spec => []WireOrder
<1>1. TypeOK /\ TraceInv => WireOrder
  <2> SUFFICES ASSUME TypeOK, TraceInv PROVE WireOrder
    OBVIOUS
  <2>1. Ordered(wire \o ToCome)
    BY DEF TraceInv, OrderInv, Planned
  <2> QED
    BY <2>1, AnswerType, OrderedBeginning, OrderOfWire
<1> QED
  BY <1>1, TraceInvariant, PTL

\* The chunk_sent events are the chunks on the wire, short of the one a send was
\* begun for (Hub.on_chunk_sent after each `await send` of sse.py).
THEOREM LogTracksWireAlways == Spec => []LogTracksWire
<1>1. TypeOK /\ SafetyInv /\ TraceInv => LogTracksWire
  <2> SUFFICES ASSUME TypeOK, SafetyInv, TraceInv PROVE LogTracksWire
    OBVIOUS
  <2>1. LogInv /\ pc \in {"wait", "send", "ended"}
    BY DEF TraceInv, TypeOK, ConsumerType
  <2>2. done /\ status = "completed" => pc = "ended"
    BY DEF SafetyInv, ClosingInv
  <2> QED
    BY <2>1, <2>2 DEF LogInv, LogTracksWire
<1> QED
  BY <1>1, TraceInvariant, PTL

\* What a frame in the consumer's hand adds to the data on the wire.
LEMMA HandData ==
  ASSUME TypeOK, SafetyInv, OutboxInv, pc # "ended", current.kind # "finish"
  PROVE  DataOn(ToCome) \o Fetched = InHand
<1>1. /\ fetched = NoFrame \/ fetched \in Frames
      /\ Fetched \in Seq(Phases) /\ NoFrame.kind = "none"
      /\ \A a \in Seq(Phases) : a \o <<>> = a /\ <<>> \o a = a
  BY HeldTypes, Joined, Kinds
<1>2. \A x : DataOn(<<x>>) = IF x \in Phases THEN <<x>> ELSE <<>>
  BY SelectedOne DEF DataOn
<1>3. DataOn(<<>>) = <<>>
  BY SelectedEmpty DEF DataOn
<1>4. \A x, y : /\ Tail(<<x>>) = <<>> /\ Tail(<<x, y>>) = <<y>>
                /\ Len(<<x>>) = 1 /\ Len(<<x, y>>) = 2
  BY Tuples
<1>5. {"keepalive", "end", "errbody"} \cap Phases = {}
  BY DEF Phases
<1>6. CASE current.kind = "data"
  <2>1. fetched.kind # "data" /\ pc = "send" /\ current.tag \in Phases
    BY <1>1, <1>6, Kinds DEF OutboxInv, TypeOK, ConsumerType
  <2>2. Fetched = <<>>
    BY <2>1 DEF Fetched
  <2>3. CASE outbox = <<current.tag>>
    <3>1. ToCome = <<>> /\ Len(outbox) # 2
      BY <1>4, <2>1, <2>3 DEF ToCome
    <3> QED
      BY <1>1, <1>3, <2>1, <2>2, <3>1 DEF InHand
  <2>4. CASE outbox = <<"head", current.tag>>
    <3> DEFINE x == <<current.tag>>
    <3>1. ToCome = x /\ Len(outbox) = 2 /\ x \in Seq(Phases)
      BY <1>4, <2>1, <2>4 DEF ToCome
    <3>2. DataOn(x) = x
      BY <1>2, <2>1
    <3>3. InHand = x
      BY <1>6, <2>1, <3>1 DEF InHand
    <3> HIDE DEF x
    <3> QED
      BY <1>1, <2>2, <3>1, <3>2, <3>3
  <2> QED
    BY <1>6, <2>3, <2>4 DEF OutboxInv
<1>7. CASE current.kind # "data"
  <2>1. InHand = Fetched
    BY <1>7 DEF InHand, Fetched
  <2>2. DataOn(ToCome) = <<>>
    <3>1. CASE pc = "wait"
      BY <1>3, <3>1 DEF ToCome
    <3>2. CASE pc = "send"
      <4>1. current.kind \in {"keepalive", "gone", "hard_abort", "http_error"}
        <5>1. current \in Frames \cup {KeepAliveFrame, GoneFrame}
          BY <3>2 DEF TypeOK, ConsumerType
        <5> QED
          BY <1>7, <5>1, FrameTags, Kinds
      <4>2. \/ \E x : outbox = <<x>>
            \/ \E x, y : outbox = <<x, y>> /\ y \notin Phases
        BY <1>5, <4>1 DEF OutboxInv, SafetyInv, SendInv
      <4>3. ToCome = <<>> \/ \E y : ToCome = <<y>> /\ y \notin Phases
        BY <1>4, <3>2, <4>2 DEF ToCome
      <4> QED
        BY <1>2, <1>3, <4>3
    <3> QED
      BY <3>1, <3>2 DEF TypeOK, ConsumerType
  <2> QED
    BY <1>1, <2>1, <2>2
<1> QED
  BY <1>6, <1>7

\* While nothing has ended the answer, every chunk that was asked for is on the
\* wire, in the consumer's hand, in the queue or with the sender, once and in its
\* place (get_task outlives the keep-alive ticks in sse.py).
THEOREM NothingLostAlways == Spec => []NothingLost
<1>1. TypeOK /\ SafetyInv /\ TraceInv => NothingLost
  <2> SUFFICES ASSUME TypeOK, SafetyInv, TraceInv, pc # "ended", current.kind # "finish",
                      sender \notin {"cancelled", "stopped"}
               PROVE  script = DataOn(wire) \o InHand
                        \o Tags(Selected(queue, DataFrames)) \o Whats(todo)
    BY DEF NothingLost
  <2>1. script = Answer \o Fetched \o Queued \o Whats(todo)
    BY DEF TraceInv, HeldInv
  <2>2. DataOn(ToCome) \o Fetched = InHand
    BY HandData DEF TraceInv
  <2>3. /\ DataOn(wire) \in Seq(Phases) /\ DataOn(ToCome) \in Seq(Phases)
        /\ Fetched \in Seq(Phases)
    BY AnswerType, HeldTypes
  <2>4. (DataOn(wire) \o DataOn(ToCome)) \o Fetched = DataOn(wire) \o (DataOn(ToCome) \o Fetched)
    BY <2>3, Joined
  <2> QED
    BY <2>1, <2>2, <2>4 DEF Answer, Queued
<1> QED
  BY <1>1, TraceInvariant, PTL

\* A beginning, as SubSeq writes it.
LEMMA Beginning ==
  ASSUME NEW a \in Seq(Phases), NEW b \in Seq(Phases)
  PROVE  a \o b \in Seq(Phases) /\ \E n \in 0..Len(a \o b) : a = SubSeq(a \o b, 1, n)
<1>1. /\ a \o b \in Seq(Phases) /\ Len(a \o b) = Len(a) + Len(b)
      /\ Len(a) \in Nat /\ Len(b) \in Nat
  BY ConcatProperties, LenProperties
<1>2. Len(a) \in 0..Len(a \o b)
  BY <1>1
<1>3. a = SubSeq(a \o b, 1, Len(a))
  <2>1. CASE Len(a) = 0
    <3>1. a = <<>>
      BY <2>1, EmptySeq
    <3>2. SubSeq(a \o b, 1, 0) = <<>>
      BY SubSeqEmpty
    <3> QED
      BY <2>1, <3>1, <3>2
  <2>2. CASE Len(a) # 0
    <3>1. 1 \in 1..Len(a) /\ Len(a) \in 1..Len(a)
      BY <1>1, <2>2
    <3>2. SubSeq(a \o b, 1, Len(a)) = SubSeq(a, 1, Len(a))
      BY <3>1, SubSeqOfConcat1
    <3>3. SubSeq(a, 1, Len(a)) = a
      BY SubSeqFull
    <3> QED
      BY <3>2, <3>3
  <2> QED
    BY <2>1, <2>2
<1> QED
  BY <1>1, <1>2, <1>3

\* What has reached the wire begins what the operator asked for, however it was
\* cut, and it is all of it for a draft that is recorded as whole (the `partial`
\* of on_stream_complete).
THEOREM AnswerOnWireAlways == Spec => []AnswerOnWire
<1>1. TypeOK /\ SafetyInv /\ TraceInv => AnswerOnWire
  <2> SUFFICES ASSUME TypeOK, SafetyInv, TraceInv PROVE AnswerOnWire
    OBVIOUS
  <2>1. ASSUME script # <<>>
        PROVE  DataOn(wire) \in {SubSeq(script, 1, n) : n \in 0..Len(script)}
    <3> DEFINE a == DataOn(wire)
               b == DataOn(ToCome)
    <3>1. PICK r \in Seq(Phases) : script = (a \o b) \o r
      BY <2>1 DEF TraceInv, PrefixInv, Begins, Answer
    <3>2. a \in Seq(Phases) /\ b \in Seq(Phases)
      BY AnswerType
    <3> HIDE DEF a, b
    <3>3. script = a \o (b \o r) /\ b \o r \in Seq(Phases)
      BY <3>1, <3>2, Joined
    <3>4. \E n \in 0..Len(a \o (b \o r)) : a = SubSeq(a \o (b \o r), 1, n)
      BY <3>2, <3>3, Beginning
    <3> QED
      BY <3>3, <3>4 DEF a
  <2>2. ASSUME Closed("completed", {"whole"}), meta \in {"paced", "instant"}
        PROVE  DataOn(wire) = script
    <3>1. PICK i \in 1..Len(closings) : closings[i].reason = "whole"
      BY <2>2 DEF Closed
    <3>2. done /\ Len(closings) = 1
      BY <3>1, EmptySeq DEF SafetyInv, ClosingInv, OneEnding
    <3>3. closings[1].reason = "whole"
      BY <3>1, <3>2
    <3> QED
      BY <2>2, <3>2, <3>3 DEF TraceInv, WholeInv, ClosedWhole
  <2> QED
    BY <2>1, <2>2 DEF AnswerOnWire
<1> QED
  BY <1>1, TraceInvariant, PTL

\* A response is recorded with the mode of a draft or of live, a whole one with an
\* answer behind it (on_stream_complete's fallback to "unknown" is never taken).
THEOREM ResponseOwnedAlways == Spec => []ResponseOwned
<1>1. SafetyInv /\ TraceInv => ResponseOwned
  <2> SUFFICES ASSUME SafetyInv, TraceInv PROVE ResponseOwned
    OBVIOUS
  <2>1. ASSUME NEW reasons, Closed("completed", reasons)
        PROVE  done /\ closings[1].reason \in reasons
    <3>1. PICK i \in 1..Len(closings) : closings[i].reason \in reasons
      BY <2>1 DEF Closed
    <3>2. done /\ Len(closings) = 1
      BY <3>1, EmptySeq DEF SafetyInv, ClosingInv, OneEnding
    <3> QED
      BY <3>1, <3>2
  <2> QED
    BY <2>1 DEF ResponseOwned, TraceInv, OwnerInv
<1> QED
  BY <1>1, TraceInvariant, PTL

\* An armed cut that fires leaves after_chunks chunks, or one more than had been
\* sent when it was armed too late for that (Hub.on_chunk_sent's count).
THEOREM CutCountAlways == Spec => []CutCount
<1>1. TraceInv => CutCount
  BY DEF TraceInv, CutInv, CutCount
<1> QED
  BY <1>1, TraceInvariant, PTL

\* No chunk is logged after the exchange was closed: what response_submitted says
\* of the chunks stays true (`maycomb verify` compares the two).
THEOREM RecordFrozenAlways == Spec => RecordFrozen
<1>1. TypeOK /\ SafetyInv /\ TraceInv /\ [Next]_vars => [done => UNCHANGED sent]_vars
  BY FrozenStep DEF TraceInv
<1> QED
  BY <1>1, TraceInvariant, PTL DEF Spec, RecordFrozen

=============================================================================
