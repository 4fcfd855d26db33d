------------------------ MODULE PipelineRunnerProofs ------------------------
(***************************************************************************)
(* PipelineRunner for any number of calls and any interleaving of the two  *)
(* threads: what their ring holds, who owes whom a signal, and when the    *)
(* worker reads from an empty ring.                                        *)
(***************************************************************************)
EXTENDS PipelineRunner, SequenceTheorems, FiniteSetTheorems, TLAPS

UiPlaces == {"idle", "load", "wait", "write", "add", "raise", "join", "joined"}
WorkerPlaces == {"check", "load", "wait", "read", "subtract", "raise", "got", "running",
                 "stopped", "exited", "crashed"}
Values == Commands \union {"null"}

RingTyped ==
    /\ count \in Int /\ head \in {0, 1} /\ tail \in {0, 1}
    /\ values \in [{0, 1} -> Values]
    /\ unread \in Seq(Values)

FlagsTyped ==
    /\ data_ready \in BOOLEAN /\ space_open \in BOOLEAN /\ should_run \in BOOLEAN
    /\ overdrawn \in BOOLEAN /\ unwaited \in BOOLEAN

UiTyped == ui \in [pc : UiPlaces, value : Values]
WorkerTyped ==
    worker \in [pc : WorkerPlaces, loop : {"entry", "watcher", "pause"}, cmd : Values,
                refused : BOOLEAN]

TypeOK == RingTyped /\ FlagsTyped /\ UiTyped /\ WorkerTyped

(* The count lags behind the ring: a command is written before it is added *)
(* and read before it is subtracted.                                       *)
CountInv ==
    ~overdrawn => count = Len(unread) - (IF ui.pc = "add" THEN 1 ELSE 0)
                                      + (IF worker.pc = "subtract" THEN 1 ELSE 0)

(* The last Size commands that were written lie where they were written:   *)
(* a third one, which only a stale space_open lets in, takes the oldest.   *)
RingInv ==
    ~overdrawn =>
        /\ tail = (head + Len(unread)) % 2
        /\ \A i \in 1 .. Len(unread) :
              i + 1 >= Len(unread) => values[(head + i - 1) % 2] = unread[i]

(* The worker sleeps only on a count of 0, or with its signal on its way.  *)
WakeInv ==
    ~overdrawn /\ worker.pc = "wait" => count = 0 \/ data_ready \/ ui.pc = "raise"

(* While every command is waited for, one signal at most is under way, and *)
(* until the command it stands for is subtracted the count is not 0, so    *)
(* that no second one is raised.                                           *)
Taking == worker.pc \in {"read", "subtract"}

SignalInv ==
    ~unwaited =>
        /\ ~overdrawn
        /\ data_ready \/ ui.pc = "raise" \/ Taking => count > 0
        /\ ~(data_ready /\ ui.pc = "raise")
        /\ ~(Taking /\ (data_ready \/ ui.pc = "raise"))

RunnerInv == TypeOK /\ CountInv /\ RingInv /\ WakeInv /\ SignalInv

-----------------------------------------------------------------------------

LEMMA InitRunner == Init => RunnerInv
<1> SUFFICES ASSUME Init PROVE RunnerInv
  OBVIOUS
<1>1. RingTyped
  BY DEF Init, RingTyped, Size, Values
<1>2. FlagsTyped
  BY DEF Init, FlagsTyped
<1>3. UiTyped /\ WorkerTyped
  BY DEF Init, UiTyped, WorkerTyped, UiPlaces, WorkerPlaces, NewWorker, Values
<1>4. CountInv /\ RingInv /\ WakeInv /\ SignalInv
  BY DEF Init, NewWorker, CountInv, RingInv, WakeInv, SignalInv, Taking
<1> QED
  BY <1>1, <1>2, <1>3, <1>4 DEF RunnerInv, TypeOK

LEMMA RingStaysTyped == TypeOK /\ [Next]_vars => RingTyped'
<1> SUFFICES ASSUME TypeOK, [Next]_vars PROVE RingTyped'
  OBVIOUS
<1> USE DEF TypeOK, RingTyped, UiTyped, Values, Size, queue, history
<1>1. CASE ProduceWrite
  BY <1>1 DEF ProduceWrite
<1>2. CASE ProduceAdd
  BY <1>2 DEF ProduceAdd
<1>3. CASE Restart
  BY <1>3 DEF Restart, FreshQueue, NewWorker
<1>4. CASE ConsumeRead
  BY <1>4 DEF ConsumeRead
<1>5. CASE ConsumeSubtract
  BY <1>5 DEF ConsumeSubtract
<1>6. CASE UNCHANGED <<count, head, tail, values, unread>>
  BY <1>6
<1> QED
  BY <1>1, <1>2, <1>3, <1>4, <1>5, <1>6
  DEF Next, UserInterface, Produce, Work, Consume, Execute, Control, Terminate, ProduceLoad,
      ProduceWait, ProduceRaise, Join, Check, ConsumeLoad, ConsumeWait, ConsumeRaise,
      Dispatch, Watch, Paused, CallWatcher, Stopped, StoreStatus, vars

LEMMA UiStaysTyped == TypeOK /\ [Next]_vars => UiTyped'
<1> SUFFICES ASSUME TypeOK, [Next]_vars PROVE UiTyped'
  OBVIOUS
<1> USE DEF TypeOK, UiTyped, UiPlaces, Values, Commands, Signals, Size, queue, history
<1>1. CASE Execute
  BY <1>1 DEF Execute, Call
<1>2. CASE Control
  BY <1>2 DEF Control, Call
<1>3. CASE Terminate
  BY <1>3 DEF Terminate
<1>4. CASE ProduceLoad
  BY <1>4 DEF ProduceLoad
<1>5. CASE ProduceWait
  BY <1>5 DEF ProduceWait
<1>6. CASE ProduceWrite
  BY <1>6 DEF ProduceWrite
<1>7. CASE ProduceAdd
  BY <1>7 DEF ProduceAdd, AfterProduce
<1>8. CASE ProduceRaise
  BY <1>8 DEF ProduceRaise, AfterProduce
<1>9. CASE Join
  BY <1>9 DEF Join
<1>10. CASE Restart
  BY <1>10 DEF Restart, NewWorker
<1>11. CASE UNCHANGED ui
  BY <1>11
<1> QED
  BY <1>1, <1>2, <1>3, <1>4, <1>5, <1>6, <1>7, <1>8, <1>9, <1>10, <1>11
  DEF Next, UserInterface, Produce, Work, Consume, Check, ConsumeLoad,
      ConsumeWait, ConsumeRead, ConsumeSubtract, ConsumeRaise, Dispatch,
      Watch, Paused, CallWatcher, Stopped, StoreStatus, vars

LEMMA WorkerStaysTyped == TypeOK /\ [Next]_vars => WorkerTyped'
<1> SUFFICES ASSUME TypeOK, [Next]_vars PROVE WorkerTyped'
  OBVIOUS
<1> USE DEF TypeOK, RingTyped, WorkerTyped, WorkerPlaces, Values, Commands, Signals, Size
<1>1. CASE Restart
  BY <1>1 DEF Restart, NewWorker
<1>2. CASE Check
  BY <1>2 DEF Check, Refusing
<1>3. CASE ConsumeLoad
  BY <1>3 DEF ConsumeLoad
<1>4. CASE ConsumeWait
  BY <1>4 DEF ConsumeWait
<1>5. CASE ConsumeRead
  BY <1>5 DEF ConsumeRead
<1>6. CASE ConsumeSubtract
  BY <1>6 DEF ConsumeSubtract
<1>7. CASE ConsumeRaise
  BY <1>7 DEF ConsumeRaise
<1>8. CASE Dispatch
  BY <1>8 DEF Dispatch
<1>9. CASE Watch
  BY <1>9 DEF Watch, Refusing
<1>10. CASE Paused
  BY <1>10 DEF Paused
<1>11. CASE CallWatcher
  BY <1>11 DEF CallWatcher
<1>12. CASE Stopped
  BY <1>12 DEF Stopped
<1>13. CASE StoreStatus
  BY <1>13 DEF StoreStatus
<1>14. CASE UNCHANGED worker
  BY <1>14
<1> QED
  BY <1>1, <1>2, <1>3, <1>4, <1>5, <1>6, <1>7, <1>8, <1>9, <1>10, <1>11,
     <1>12, <1>13, <1>14
  DEF Next, UserInterface, Produce, Work, Consume, Execute, Control,
      Terminate, ProduceLoad, ProduceWait, ProduceWrite, ProduceAdd,
      ProduceRaise, Join, vars

LEMMA FlagsStayTyped == TypeOK /\ [Next]_vars => FlagsTyped'
  BY
  DEF Next, UserInterface, Produce, Work, Consume, Execute, Control,
      Terminate, ProduceLoad, ProduceWait, ProduceWrite, ProduceAdd,
      ProduceRaise, Join, Restart, Check, ConsumeLoad, ConsumeWait,
      ConsumeRead, ConsumeSubtract, ConsumeRaise, Dispatch, Watch, Paused,
      CallWatcher, Stopped, StoreStatus, TypeOK, FlagsTyped, FreshQueue,
      queue, runner, history, vars

LEMMA TypeStep == TypeOK /\ [Next]_vars => TypeOK'
BY RingStaysTyped, UiStaysTyped, WorkerStaysTyped, FlagsStayTyped DEF TypeOK

-----------------------------------------------------------------------------
(* What the steps that touch neither the ring nor its signals leave alone: *)
(* those of a call before it writes, and those of the worker's loops.      *)
Calling == Execute \/ Control \/ Terminate \/ ProduceLoad \/ ProduceWait \/ Join
Looping == Check \/ Dispatch \/ Watch \/ Paused \/ CallWatcher \/ Stopped \/ StoreStatus

LEMMA CallingSteps ==
    ASSUME TypeOK, Calling
    PROVE  /\ UNCHANGED <<count, head, tail, values, data_ready, worker, history>>
           /\ ui.pc \notin {"add", "raise"} /\ ui'.pc \notin {"add", "raise"}
<1> USE DEF TypeOK, UiTyped, UiPlaces, queue, history
<1>1. CASE Execute
  BY <1>1 DEF Execute, Call
<1>2. CASE Control
  BY <1>2 DEF Control, Call
<1>3. CASE Terminate
  BY <1>3 DEF Terminate
<1>4. CASE ProduceLoad
  BY <1>4 DEF ProduceLoad
<1>5. CASE ProduceWait
  BY <1>5 DEF ProduceWait
<1>6. CASE Join
  BY <1>6 DEF Join
<1> QED
  BY <1>1, <1>2, <1>3, <1>4, <1>5, <1>6 DEF Calling

LEMMA LoopingSteps ==
    ASSUME TypeOK, Looping
    PROVE  /\ UNCHANGED <<queue, ui, history>>
           /\ worker.pc \notin {"wait", "read", "subtract"}
           /\ worker'.pc \notin {"wait", "read", "subtract"}
<1> USE DEF TypeOK, WorkerTyped, WorkerPlaces, Values, Commands, Signals
<1>1. CASE Check
  BY <1>1 DEF Check, Refusing
<1>2. CASE Dispatch
  BY <1>2 DEF Dispatch
<1>3. CASE Watch
  BY <1>3 DEF Watch, Refusing
<1>4. CASE Paused
  BY <1>4 DEF Paused
<1>5. CASE CallWatcher
  BY <1>5 DEF CallWatcher
<1>6. CASE Stopped
  BY <1>6 DEF Stopped
<1>7. CASE StoreStatus
  BY <1>7 DEF StoreStatus
<1> QED
  BY <1>1, <1>2, <1>3, <1>4, <1>5, <1>6, <1>7 DEF Looping

LEMMA Unread ==
    ASSUME TypeOK
    PROVE  /\ Len(unread) \in Nat
           /\ unread = <<>> <=> Len(unread) = 0
           /\ unread # <<>> =>
                 /\ Len(Tail(unread)) = Len(unread) - 1
                 /\ \A i \in 1 .. Len(unread) - 1 : Tail(unread)[i] = unread[i + 1]
<1>1. unread \in Seq(Values)
  BY DEF TypeOK, RingTyped
<1> QED
  BY <1>1, EmptySeq, HeadTailProperties

LEMMA ReadShortens ==
    ASSUME TypeOK, ConsumeRead, ~overdrawn'
    PROVE  /\ ~overdrawn /\ unread # <<>>
           /\ Len(unread') = Len(unread) - 1
           /\ \A i \in 1 .. Len(unread') : unread'[i] = unread[i + 1]
<1>1. unread # <<>> /\ ~overdrawn /\ unread' = Tail(unread)
  BY DEF ConsumeRead
<1> QED
  BY <1>1, Unread

LEMMA CountStep ==
    ASSUME RunnerInv, [Next]_vars
    PROVE  CountInv'
<1> USE DEF RunnerInv, TypeOK, RingTyped, UiTyped, WorkerTyped, CountInv, queue, history
<1>1. CASE Calling
  BY <1>1, CallingSteps
<1>2. CASE Looping
  BY <1>2, LoopingSteps
<1>3. CASE ProduceWrite
  BY <1>3 DEF ProduceWrite
<1>4. CASE ProduceAdd
  BY <1>4 DEF ProduceAdd, AfterProduce
<1>5. CASE ProduceRaise
  BY <1>5 DEF ProduceRaise, AfterProduce
<1>6. CASE Restart
  BY <1>6 DEF Restart, FreshQueue, NewWorker
<1>7. CASE ConsumeLoad
  BY <1>7 DEF ConsumeLoad
<1>8. CASE ConsumeWait
  BY <1>8 DEF ConsumeWait
<1>9. CASE ConsumeRead
  <2> SUFFICES ASSUME ~overdrawn' PROVE CountInv'
    OBVIOUS
  <2>1. ~overdrawn /\ Len(unread') = Len(unread) - 1 /\ Len(unread) \in Nat
    BY <1>9, ReadShortens, Unread
  <2> QED
    BY <2>1, <1>9 DEF ConsumeRead
<1>10. CASE ConsumeSubtract
  BY <1>10 DEF ConsumeSubtract
<1>11. CASE ConsumeRaise
  BY <1>11 DEF ConsumeRaise
<1>12. CASE UNCHANGED vars
  BY <1>12 DEF vars
<1> QED
  BY <1>1, <1>2, <1>3, <1>4, <1>5, <1>6, <1>7, <1>8, <1>9, <1>10, <1>11, <1>12
  DEF Next, UserInterface, Produce, Work, Consume, Calling, Looping

LEMMA WakeStep ==
    ASSUME RunnerInv, [Next]_vars
    PROVE  WakeInv'
<1> USE DEF RunnerInv, TypeOK, RingTyped, UiTyped, WorkerTyped, WakeInv, queue, history
<1>1. CASE Calling
  BY <1>1, CallingSteps
<1>2. CASE Looping
  BY <1>2, LoopingSteps
<1>3. CASE ProduceWrite
  BY <1>3 DEF ProduceWrite
<1>4. CASE ProduceAdd
  BY <1>4 DEF ProduceAdd, AfterProduce
<1>5. CASE ProduceRaise
  BY <1>5 DEF ProduceRaise, AfterProduce
<1>6. CASE Restart
  BY <1>6 DEF Restart, FreshQueue, NewWorker
<1>7. CASE ConsumeLoad
  BY <1>7 DEF ConsumeLoad
<1>8. CASE ConsumeWait
  BY <1>8 DEF ConsumeWait
<1>9. CASE ConsumeRead
  BY <1>9 DEF ConsumeRead
<1>10. CASE ConsumeSubtract
  BY <1>10 DEF ConsumeSubtract
<1>11. CASE ConsumeRaise
  BY <1>11 DEF ConsumeRaise
<1>12. CASE UNCHANGED vars
  BY <1>12 DEF vars
<1> QED
  BY <1>1, <1>2, <1>3, <1>4, <1>5, <1>6, <1>7, <1>8, <1>9, <1>10, <1>11, <1>12
  DEF Next, UserInterface, Produce, Work, Consume, Calling, Looping

LEMMA SignalStep ==
    ASSUME RunnerInv, [Next]_vars
    PROVE  SignalInv'
<1> USE DEF RunnerInv, TypeOK, RingTyped, UiTyped, WorkerTyped, CountInv, SignalInv, Taking, queue, history
<1>1. CASE Calling
  BY <1>1, CallingSteps
<1>2. CASE Looping
  BY <1>2, LoopingSteps
<1>3. CASE ProduceWrite
  BY <1>3 DEF ProduceWrite
<1>4. CASE ProduceAdd
  BY <1>4 DEF ProduceAdd, AfterProduce
<1>5. CASE ProduceRaise
  BY <1>5 DEF ProduceRaise, AfterProduce
<1>6. CASE Restart
  BY <1>6 DEF Restart, FreshQueue, NewWorker
<1>7. CASE ConsumeLoad
  BY <1>7 DEF ConsumeLoad
<1>8. CASE ConsumeWait
  BY <1>8 DEF ConsumeWait
<1>9. CASE ConsumeRead
  <2> SUFFICES ASSUME ~unwaited PROVE SignalInv'
    BY <1>9 DEF ConsumeRead
  <2>1. unread # <<>>
    BY <1>9, Unread DEF ConsumeRead
  <2> QED
    BY <2>1, <1>9 DEF ConsumeRead
<1>10. CASE ConsumeSubtract
  BY <1>10 DEF ConsumeSubtract
<1>11. CASE ConsumeRaise
  BY <1>11 DEF ConsumeRaise
<1>12. CASE UNCHANGED vars
  BY <1>12 DEF vars
<1> QED
  BY <1>1, <1>2, <1>3, <1>4, <1>5, <1>6, <1>7, <1>8, <1>9, <1>10, <1>11, <1>12
  DEF Next, UserInterface, Produce, Work, Consume, Calling, Looping


(* Two places of the ring are the same when their distance is even. *)
LEMMA TwoSlots ==
    ASSUME NEW h \in {0, 1}, NEW n \in Nat
    PROVE  /\ (h + n) % 2 \in {0, 1}
           /\ (((h + 1) % 2) + n) % 2 = (h + n + 1) % 2
           /\ (((h + n) % 2) + 1) % 2 = (h + n + 1) % 2
           /\ (h + n + 1) % 2 # (h + n) % 2
BY SMT

LEMMA WriteKeepsRing ==
    ASSUME TypeOK, RingInv, ProduceWrite
    PROVE  RingInv'
<1> SUFFICES ASSUME ~overdrawn
             PROVE  RingInv'
  BY DEF RingInv, ProduceWrite
<1> DEFINE len == Len(unread)
<1>1. /\ len \in Nat /\ Len(unread') = len + 1
      /\ unread'[len + 1] = ui.value
      /\ \A i \in 1 .. len : unread'[i] = unread[i]
  BY AppendProperties, Unread DEF ProduceWrite, TypeOK, RingTyped, UiTyped
<1>2. /\ head' = head /\ head \in {0, 1} /\ tail = (head + len) % 2
      /\ tail' = (tail + 1) % 2
      /\ values' = [values EXCEPT ![tail] = ui.value]
      /\ values \in [{0, 1} -> Values]
  BY DEF RingInv, ProduceWrite, TypeOK, RingTyped, Size
<1>3. tail' = (head' + Len(unread')) % 2
  BY <1>1, <1>2, TwoSlots
<1>4. ASSUME NEW i \in 1 .. Len(unread'), i + 1 >= Len(unread')
      PROVE  values'[(head' + i - 1) % 2] = unread'[i]
  <2>1. CASE i = len + 1
    BY <2>1, <1>1, <1>2, TwoSlots
  <2>2. CASE i = len
    <3>1. len - 1 \in Nat /\ i \in 1 .. len /\ i + 1 >= len
      BY <2>2, <1>1, <1>4
    <3>2. (head + (len - 1)) % 2 # (head + len) % 2 /\ (head + (len - 1)) % 2 \in {0, 1}
      BY <3>1, <1>2, TwoSlots
    <3>3. values[(head + i - 1) % 2] = unread[i]
      BY <3>1 DEF RingInv
    <3> QED
      BY <2>2, <3>1, <3>2, <3>3, <1>1, <1>2
  <2> QED
    BY <1>1, <1>4, <2>1, <2>2
<1> QED
  BY <1>3, <1>4 DEF RingInv

LEMMA ReadKeepsRing ==
    ASSUME TypeOK, RingInv, ConsumeRead
    PROVE  RingInv'
<1> SUFFICES ASSUME ~overdrawn'
             PROVE  RingInv'
  BY DEF RingInv
<1>1. /\ ~overdrawn /\ unread # <<>> /\ Len(unread) \in Nat
      /\ Len(unread') = Len(unread) - 1 /\ Len(unread') \in Nat
      /\ \A i \in 1 .. Len(unread') : unread'[i] = unread[i + 1]
  BY ReadShortens, Unread
<1>2. /\ head' = (head + 1) % 2 /\ head \in {0, 1}
      /\ tail' = tail /\ values' = values /\ tail = (head + Len(unread)) % 2
  BY <1>1 DEF RingInv, ConsumeRead, TypeOK, RingTyped, Size
<1>3. tail' = (head' + Len(unread')) % 2
  BY <1>1, <1>2, TwoSlots
<1>4. ASSUME NEW i \in 1 .. Len(unread'), i + 1 >= Len(unread')
      PROVE  values'[(head' + i - 1) % 2] = unread'[i]
  <2>1. i + 1 \in 1 .. Len(unread) /\ (i + 1) + 1 >= Len(unread) /\ i - 1 \in Nat
    BY <1>1, <1>4
  <2>2. values[(head + (i + 1) - 1) % 2] = unread[i + 1]
    BY <1>1, <2>1 DEF RingInv
  <2>3. (((head + 1) % 2) + (i - 1)) % 2 = (head + (i - 1) + 1) % 2
    BY <1>2, <2>1, TwoSlots
  <2>4. (head' + i - 1) % 2 = (head + (i + 1) - 1) % 2
    BY <1>2, <2>1, <2>3
  <2> QED
    BY <1>1, <1>2, <2>2, <2>4
<1> QED
  BY <1>3, <1>4 DEF RingInv

LEMMA RingStep ==
    ASSUME RunnerInv, [Next]_vars
    PROVE  RingInv'
<1> USE DEF RunnerInv, TypeOK, RingTyped, UiTyped, RingInv
<1>1. CASE ProduceWrite
  BY <1>1, WriteKeepsRing
<1>2. CASE Restart
  BY <1>2 DEF Restart, FreshQueue, NewWorker
<1>3. CASE ConsumeRead
  BY <1>3, ReadKeepsRing
<1>4. CASE UNCHANGED <<overdrawn, head, tail, values, unread>>
  BY <1>4
<1> QED
  BY <1>1, <1>2, <1>3, <1>4, CallingSteps, LoopingSteps
  DEF Next, UserInterface, Produce, Work, Consume, Calling, Looping,
     ProduceAdd, ProduceRaise, ConsumeLoad, ConsumeWait, ConsumeSubtract, ConsumeRaise, queue, history, vars

LEMMA RunnerIsInductive == RunnerInv /\ [Next]_vars => RunnerInv'
BY TypeStep, CountStep, WakeStep, SignalStep, RingStep DEF RunnerInv

-----------------------------------------------------------------------------
(* However many calls are made and however far the threads drift apart,    *)
(* the ring of two hands the worker nothing that was not written, until a  *)
(* command was taken ahead of its signal.                                  *)
THEOREM RunnerOverdrawsOnlyOnStaleSignals == Spec => []OverdrawsOnlyOnStaleSignals
<1>1. RunnerInv => OverdrawsOnlyOnStaleSignals
  BY DEF RunnerInv, SignalInv, OverdrawsOnlyOnStaleSignals
<1> QED
  BY <1>1, InitRunner, RunnerIsInductive, PTL DEF Spec

(* The unread commands lie in the ring in the order of the calls.          *)
THEOREM RunnerRingHoldsUnread == Spec => []RingHoldsUnread
<1>1. RunnerInv => RingHoldsUnread
  BY Unread DEF RunnerInv, RingInv, RingHoldsUnread, Size
<1> QED
  BY <1>1, InitRunner, RunnerIsInductive, PTL DEF Spec

(* The worker never sleeps over a command whose signal is not to come.     *)
THEOREM RunnerLosesNoWakeup == Spec => []NoLostWakeup
<1>1. RunnerInv => NoLostWakeup
  BY Unread DEF RunnerInv, TypeOK, RingTyped, UiTyped, CountInv, WakeInv, NoLostWakeup
<1> QED
  BY <1>1, InitRunner, RunnerIsInductive, PTL DEF Spec
-----------------------------------------------------------------------------
(* What the contract needs to know besides: a call that is not to wait     *)
(* finds a free slot, so that with the command in the worker's hand no     *)
(* more pipelines are under way than the contract allows;                  *)
RoomInv ==
    /\ ui.pc \in {"idle", "load"} => count <= Size
    /\ ui.pc \in {"write", "add"} /\ ui.value # "terminate" => count < Size
    /\ ui.pc = "raise" /\ ui.value # "terminate" => count <= Size
    /\ ui.pc = "wait" => ui.value = "terminate"

(* the worker has in hand what was sent, unless it overdrew the ring;      *)
SentInv ==
    /\ unread \in Seq(Commands)
    /\ ui.pc \in {"load", "wait", "write"} => ui.value \in Commands
    /\ ~overdrawn /\ InHand # <<>> => worker.cmd \in Commands

(* the state that the user interface reads is where the worker is, and it  *)
(* is stopped when the thread is joined.                                   *)
InLoop == {"check", "load", "wait", "read", "subtract", "raise", "got"}

StateInv ==
    /\ current_state \in {"stopped", "running"}
    /\ worker.pc = "running" => current_state = "running"
    /\ worker.pc \in {"stopped", "exited"} => current_state = "stopped"
    /\ worker.pc \in InLoop => (current_state = "stopped" <=> worker.loop = "entry")
    /\ ui.pc = "joined" => worker.pc = "exited"

ContractInv == RoomInv /\ SentInv /\ StateInv

LEMMA InitContract == Init => ContractInv
<1> SUFFICES ASSUME Init PROVE ContractInv
  OBVIOUS
<1>1. /\ count = 0 /\ ui.pc = "idle" /\ worker.pc = "check" /\ worker.loop = "entry"
      /\ current_state = "stopped" /\ unread = <<>>
  BY DEF Init, NewWorker
<1>2. <<>> \in Seq(Commands)
  OBVIOUS
<1> QED
  BY <1>1, <1>2 DEF ContractInv, RoomInv, SentInv, StateInv, InLoop, InHand, Size

(* A step of one thread leaves what is said of the other alone. *)
LEMMA RoomStep ==
    ASSUME RunnerInv, ContractInv, [Next]_vars
    PROVE  RoomInv'
<1> USE DEF RunnerInv, TypeOK, RingTyped, UiTyped, UiPlaces, ContractInv, RoomInv, Size, queue, history
<1>1. CASE Execute
  BY <1>1 DEF Execute, Call
<1>2. CASE Control
  BY <1>2 DEF Control, Call
<1>3. CASE Terminate
  BY <1>3 DEF Terminate
<1>4. CASE ProduceLoad
  BY <1>4 DEF ProduceLoad
<1>5. CASE ProduceWait
  BY <1>5 DEF ProduceWait
<1>6. CASE ProduceWrite
  BY <1>6 DEF ProduceWrite
<1>7. CASE ProduceAdd
  BY <1>7 DEF ProduceAdd, AfterProduce
<1>8. CASE ProduceRaise
  BY <1>8 DEF ProduceRaise, AfterProduce
<1>9. CASE Join
  BY <1>9 DEF Join
<1>10. CASE Restart
  BY <1>10 DEF Restart, FreshQueue, NewWorker
<1>11. CASE ConsumeSubtract
  BY <1>11 DEF ConsumeSubtract
<1>12. CASE UNCHANGED <<ui, count>>
  BY <1>12
<1> QED
  BY <1>1, <1>2, <1>3, <1>4, <1>5, <1>6, <1>7, <1>8, <1>9, <1>10, <1>11, <1>12
  DEF Next, UserInterface, Produce, Work, Consume, Check, ConsumeLoad,
      ConsumeWait, ConsumeRead, ConsumeRaise, Dispatch,
      Watch, Paused, CallWatcher, Stopped, StoreStatus, vars

LEMMA StateStep ==
    ASSUME RunnerInv, ContractInv, [Next]_vars
    PROVE  StateInv'
<1> USE DEF RunnerInv, TypeOK, UiTyped, UiPlaces, WorkerTyped, WorkerPlaces, Values, Commands, Signals,
            ContractInv, StateInv, InLoop, runner, queue, history
<1>1. CASE Calling
  <2>1. ui'.pc = "joined" => worker.pc = "exited"
    BY <1>1 DEF Calling, Execute, Control, Call, Terminate, ProduceLoad, ProduceWait, Join
  <2>2. worker' = worker /\ current_state' = current_state
    BY <1>1 DEF Calling, Execute, Control, Terminate, ProduceLoad, ProduceWait, Join
  <2> QED
    BY <2>1, <2>2
<1>2. CASE ProduceWrite
  BY <1>2 DEF ProduceWrite
<1>3. CASE ProduceAdd
  BY <1>3 DEF ProduceAdd, AfterProduce
<1>4. CASE ProduceRaise
  BY <1>4 DEF ProduceRaise, AfterProduce
<1>5. CASE Restart
  BY <1>5 DEF Restart, NewWorker
<1>6. CASE Check
  BY <1>6 DEF Check, Refusing
<1>7. CASE Consume
  BY <1>7, ZenonT(60) DEF Consume, ConsumeLoad, ConsumeWait, ConsumeRead, ConsumeSubtract, ConsumeRaise
<1>8. CASE Dispatch
  BY <1>8, ZenonT(60) DEF Dispatch
<1>9. CASE Watch
  BY <1>9 DEF Watch, Refusing
<1>10. CASE Paused
  BY <1>10 DEF Paused
<1>11. CASE CallWatcher
  BY <1>11 DEF CallWatcher
<1>12. CASE Stopped
  BY <1>12 DEF Stopped
<1>13. CASE StoreStatus
  BY <1>13 DEF StoreStatus
<1>14. CASE UNCHANGED vars
  BY <1>14 DEF vars
<1> QED
  BY <1>1, <1>2, <1>3, <1>4, <1>5, <1>6, <1>7, <1>8, <1>9, <1>10, <1>11, <1>12, <1>13, <1>14
  DEF Next, UserInterface, Produce, Work, Calling

(* What lies at the head of the ring was written. *)
LEMMA HeadIsCommand ==
    ASSUME RunnerInv, SentInv, ~overdrawn, unread # <<>>
    PROVE  values[head] \in Commands
<1>1. /\ unread \in Seq(Commands) /\ Len(unread) \in Nat /\ Len(unread) # 0
      /\ head \in {0, 1}
      /\ \A i \in 1 .. Len(unread) :
            i + 1 >= Len(unread) => values[(head + i - 1) % 2] = unread[i]
  BY Unread DEF RunnerInv, RingInv, SentInv, TypeOK, RingTyped
<1>2. PICK n : n = Len(unread)
  OBVIOUS
<1>3. n \in Nat /\ n # 0 /\ \A i \in 1 .. n : unread[i] \in Commands
  BY <1>1, <1>2
<1>4. n \in 1 .. n /\ values[(head + n - 1) % 2] \in Commands
  BY <1>1, <1>2, <1>3
<1>5. CASE (head + n - 1) % 2 = head
  BY <1>4, <1>5
<1>6. CASE (head + n - 1) % 2 # head
  <2>1. PICK m : m = n - 1
    OBVIOUS
  <2>2. m \in 1 .. n /\ m + 1 >= n /\ (head + m - 1) % 2 = head
    BY <1>1, <1>3, <1>6, <2>1
  <2> QED
    BY <1>1, <1>2, <1>3, <2>2
<1> QED
  BY <1>5, <1>6

LEMMA SentStep ==
    ASSUME RunnerInv, ContractInv, [Next]_vars
    PROVE  SentInv'
<1> USE DEF RunnerInv, TypeOK, RingTyped, UiTyped, UiPlaces, WorkerTyped, WorkerPlaces, ContractInv, SentInv, InHand, queue, history
<1>1. CASE Calling
  <2>1. ui'.pc \in {"load", "wait", "write"} => ui'.value \in Commands
    BY <1>1 DEF Calling, Execute, Control, Call, Terminate, ProduceLoad, ProduceWait, Join, Commands, Signals
  <2> QED
    BY <1>1, <2>1, CallingSteps
<1>2. CASE ProduceWrite
  <2>1. ui.value \in Commands /\ unread' = Append(unread, ui.value)
    BY <1>2 DEF ProduceWrite
  <2>2. unread' \in Seq(Commands)
    BY <2>1, AppendProperties
  <2> QED
    BY <1>2, <2>2 DEF ProduceWrite
<1>3. CASE ProduceAdd
  BY <1>3 DEF ProduceAdd, AfterProduce
<1>4. CASE ProduceRaise
  BY <1>4 DEF ProduceRaise, AfterProduce
<1>5. CASE Restart
  <2>1. unread' = <<>> /\ <<>> \in Seq(Commands)
    BY <1>5 DEF Restart, NewWorker
  <2> QED
    BY <1>5, <2>1 DEF Restart, NewWorker
<1>6. CASE Looping
  <2>1. UNCHANGED <<ui, unread, overdrawn>>
    BY <1>6, LoopingSteps
  <2>2. InHand' = <<>>
    BY <1>6, ZenonT(60) DEF Looping, Check, Dispatch, Watch, Refusing, Paused, CallWatcher, Stopped, StoreStatus,
                Values, Commands, Signals
  <2> QED
    BY <2>1, <2>2
<1>7. CASE ConsumeLoad
  BY <1>7 DEF ConsumeLoad
<1>8. CASE ConsumeWait
  BY <1>8 DEF ConsumeWait
<1>9. CASE ConsumeRead
  <2>1. unread' \in Seq(Commands)
    BY <1>9, HeadTailProperties DEF ConsumeRead
  <2>2. ~overdrawn' => ~overdrawn /\ unread # <<>>
    BY <1>9 DEF ConsumeRead
  <2>3. ~overdrawn' => values[head] \in Commands
    BY <2>2, HeadIsCommand
  <2>4. worker'.cmd = values[head] /\ ui' = ui
    BY <1>9 DEF ConsumeRead
  <2> QED
    BY <2>1, <2>3, <2>4
<1>10. CASE ConsumeSubtract
  BY <1>10 DEF ConsumeSubtract
<1>11. CASE ConsumeRaise
  BY <1>11 DEF ConsumeRaise
<1>12. CASE UNCHANGED vars
  BY <1>12 DEF vars
<1> QED
  BY <1>1, <1>2, <1>3, <1>4, <1>5, <1>6, <1>7, <1>8, <1>9, <1>10, <1>11, <1>12
  DEF Next, UserInterface, Produce, Work, Consume, Calling, Looping

LEMMA ContractIsInductive ==
    ASSUME RunnerInv, ContractInv, [Next]_vars
    PROVE  ContractInv'
BY RoomStep, SentStep, StateStep DEF ContractInv

-----------------------------------------------------------------------------
(* How many pipelines a sequence of commands has. *)
Places(commands) == {i \in 1 .. Len(commands) : commands[i] = "pipeline"}

LEMMA PlacesAreFinite ==
    ASSUME NEW s \in Seq(Values)
    PROVE  /\ IsFiniteSet(Places(s)) /\ Cardinality(Places(s)) \in Nat
           /\ PipelinesIn(s) = Cardinality(Places(s)) /\ PipelinesIn(s) <= Len(s)
<1>1. PICK n : n = Len(s)
  OBVIOUS
<1>2. n \in Nat
  BY <1>1
<1>3. IsFiniteSet(1 .. n) /\ Cardinality(1 .. n) = n
  BY <1>2, FS_Interval
<1>4. Places(s) \in SUBSET (1 .. n)
  BY <1>1 DEF Places
<1>5. IsFiniteSet(Places(s)) /\ Cardinality(Places(s)) <= n
  BY <1>3, <1>4, FS_Subset
<1>6. Cardinality(Places(s)) \in Nat
  BY <1>5, FS_CardinalityType
<1>7. PipelinesIn(s) = Cardinality(Places(s))
  BY DEF PipelinesIn, Places
<1> QED
  BY <1>1, <1>5, <1>6, <1>7

LEMMA AppendCounts ==
    ASSUME NEW s \in Seq(Values), NEW v \in Values
    PROVE  PipelinesIn(Append(s, v)) = PipelinesIn(s) + (IF v = "pipeline" THEN 1 ELSE 0)
<1>1. PICK more, n : more = Append(s, v) /\ n = Len(s)
  OBVIOUS
<1>2. /\ more \in Seq(Values) /\ Len(more) = n + 1 /\ n \in Nat
      /\ more[n + 1] = v /\ \A i \in 1 .. n : more[i] = s[i]
  BY <1>1, AppendProperties
<1>3. Places(s) \subseteq 1 .. n /\ n + 1 \notin Places(s)
  BY <1>1, <1>2 DEF Places
<1>4. CASE v = "pipeline"
  <2>1. Places(more) = Places(s) \union {n + 1}
    BY <1>1, <1>2, <1>4 DEF Places
  <2>2. Cardinality(Places(more)) = Cardinality(Places(s)) + 1
    BY <1>3, <2>1, PlacesAreFinite, FS_AddElement
  <2> QED
    BY <1>1, <1>2, <1>4, <2>2, PlacesAreFinite
<1>5. CASE v # "pipeline"
  <2>1. Places(more) = Places(s)
    BY <1>1, <1>2, <1>5 DEF Places
  <2>2. PipelinesIn(s) \in Nat /\ PipelinesIn(more) = PipelinesIn(s)
    BY <1>2, <2>1, PlacesAreFinite
  <2> QED
    BY <1>1, <1>5, <2>2
<1> QED
  BY <1>4, <1>5

LEMMA HeadCounts ==
    ASSUME NEW s \in Seq(Values), s # <<>>
    PROVE  PipelinesIn(s) = PipelinesIn(Tail(s)) + (IF Head(s) = "pipeline" THEN 1 ELSE 0)
<1>1. PICK rest, n : rest = Tail(s) /\ n = Len(rest)
  OBVIOUS
<1>2. /\ rest \in Seq(Values) /\ n \in Nat /\ Len(s) = n + 1
      /\ \A i \in 1 .. n : rest[i] = s[i + 1]
      /\ Head(s) = s[1]
  BY <1>1, HeadTailProperties
<1>3. PICK later : later = {i \in 2 .. n + 1 : s[i] = "pipeline"}
  OBVIOUS
<1>4. PICK shift : shift = [i \in Places(rest) |-> i + 1]
  OBVIOUS
<1>5. shift \in Bijection(Places(rest), later)
  <2>1. \A i \in Places(rest) : i \in 1 .. n /\ rest[i] = "pipeline" /\ i + 1 \in later
    BY <1>1, <1>2, <1>3 DEF Places
  <2>2. shift \in [Places(rest) -> later]
    BY <1>4, <2>1
  <2>3. \A i, j \in Places(rest) : shift[i] = shift[j] => i = j
    BY <1>4, <2>1
  <2>4. ASSUME NEW t \in later PROVE \E i \in Places(rest) : shift[i] = t
    <3>1. PICK i : i = t - 1
      OBVIOUS
    <3>2. i \in 1 .. n /\ i + 1 = t
      BY <1>2, <1>3, <3>1
    <3>3. i \in Places(rest)
      BY <1>1, <1>2, <1>3, <3>2 DEF Places
    <3> QED
      BY <1>4, <3>2, <3>3
  <2> QED
    BY <2>2, <2>3, <2>4 DEF Bijection, Injection, Surjection, IsInjective
<1>6. IsFiniteSet(later) /\ Cardinality(later) = PipelinesIn(rest) /\ PipelinesIn(rest) \in Nat
  <2>1. ExistsBijection(Places(rest), later)
    BY <1>5 DEF ExistsBijection
  <2> QED
    BY <1>2, <2>1, PlacesAreFinite, FS_Bijection
<1>7. CASE s[1] = "pipeline"
  <2>1. Places(s) = later \union {1} /\ 1 \notin later
    BY <1>2, <1>3, <1>7 DEF Places
  <2>2. Cardinality(Places(s)) = Cardinality(later) + 1
    BY <1>6, <2>1, FS_AddElement
  <2> QED
    BY <1>1, <1>2, <1>6, <1>7, <2>2, PlacesAreFinite
<1>8. CASE s[1] # "pipeline"
  <2>1. Places(s) = later
    BY <1>2, <1>3, <1>8 DEF Places
  <2> QED
    BY <1>1, <1>2, <1>6, <1>8, <2>1, PlacesAreFinite
<1> QED
  BY <1>7, <1>8

(* What is on its way, from what was not read and what is in hand. *)
InHandCounts == IF InHand = <<"pipeline">> THEN 1 ELSE 0

LEMMA OnTheirWay ==
    ASSUME TypeOK
    PROVE  /\ PipelinesIn(InHand \o unread) = PipelinesIn(unread) + InHandCounts
           /\ PipelinesIn(unread) \in Nat /\ PipelinesIn(unread) <= Len(unread) /\ Len(unread) \in Nat
           /\ InHandCounts \in {0, 1}
<1>1. /\ unread \in Seq(Values) /\ worker.cmd \in Values
      /\ InHand = <<>> \/ InHand = <<worker.cmd>>
  BY DEF TypeOK, RingTyped, WorkerTyped, InHand
<1>2. PipelinesIn(unread) \in Nat /\ PipelinesIn(unread) <= Len(unread) /\ Len(unread) \in Nat
  BY <1>1, PlacesAreFinite
<1>3. CASE InHand = <<>>
  <2>1. InHand \o unread = unread
    BY <1>1, <1>3
  <2> QED
    BY <1>2, <1>3, <2>1 DEF InHandCounts
<1>4. CASE InHand = <<worker.cmd>>
  <2>1. PICK cmd, u, s : cmd = worker.cmd /\ u = unread /\ s = <<cmd>> \o u
    OBVIOUS
  <2>2. u \in Seq(Values) /\ cmd \in Values /\ InHand \o unread = s
    BY <1>1, <1>4, <2>1
  <2>3. s \in Seq(Values) /\ s # <<>> /\ Head(s) = cmd /\ Tail(s) = u
    BY <2>1, <2>2
  <2>4. PipelinesIn(s) = PipelinesIn(u) + (IF cmd = "pipeline" THEN 1 ELSE 0)
    BY <2>3, HeadCounts
  <2>5. InHandCounts = IF cmd = "pipeline" THEN 1 ELSE 0
    BY <1>4, <2>1 DEF InHandCounts
  <2> QED
    BY <1>2, <2>1, <2>2, <2>4, <2>5
<1> QED
  BY <1>1, <1>2, <1>3, <1>4

-----------------------------------------------------------------------------
(* The contract's state, told by the number of pipelines on their way.     *)
Row(n) == [k \in 1 .. n |-> "pipeline"]

LEMMA Rows ==
    ASSUME NEW n \in Nat
    PROVE  /\ Row(n) \in Seq({"pipeline"}) /\ Len(Row(n)) = n
           /\ Append(Row(n), "pipeline") = Row(n + 1)
           /\ n > 0 => Row(n) # <<>> /\ Head(Row(n)) = "pipeline" /\ Tail(Row(n)) = Row(n - 1)
<1>1. Row(n) \in Seq({"pipeline"}) /\ Len(Row(n)) = n
  BY DEF Row
<1>2. Append(Row(n), "pipeline") = Row(n + 1)
  BY <1>1 DEF Row
<1>3. ASSUME n > 0
      PROVE  Row(n) # <<>> /\ Head(Row(n)) = "pipeline" /\ Tail(Row(n)) = Row(n - 1)
  BY <1>1, <1>3 DEF Row
<1> QED
  BY <1>1, <1>2, <1>3

UnderWay == PipelinesIn(InHand \o unread)
Same == UnderWay' = UnderWay /\ current_state' = current_state

LEMMA ContractStutters ==
    ASSUME Same
    PROVE  [Contract!RunnerNext]_(Contract!runnerVars)
BY DEF Same, UnderWay, Contract!runnerVars

LEMMA ContractSends ==
    ASSUME UnderWay \in Nat, UnderWay <= 2, UnderWay' = UnderWay + 1, current_state' = current_state
    PROVE  [Contract!RunnerNext]_(Contract!runnerVars)
<1>1. Len(Row(UnderWay)) = UnderWay /\ Append(Row(UnderWay), "pipeline") = Row(UnderWay + 1)
  BY Rows
<1>2. Contract!Send("pipeline")
  BY <1>1 DEF Contract!Send, Contract!Capacity, Row, UnderWay
<1> QED
  BY <1>2 DEF Contract!RunnerNext

LEMMA ContractStarts ==
    ASSUME UnderWay \in Nat, UnderWay > 0, UnderWay' = UnderWay - 1,
           current_state = "stopped", current_state' = "running"
    PROVE  [Contract!RunnerNext]_(Contract!runnerVars)
<1>1. /\ Row(UnderWay) # <<>> /\ Head(Row(UnderWay)) = "pipeline"
      /\ Tail(Row(UnderWay)) = Row(UnderWay')
  BY Rows
<1>2. Contract!Start
  BY <1>1 DEF Contract!Start, Row, UnderWay
<1> QED
  BY <1>2 DEF Contract!RunnerNext, Contract!Work

LEMMA ContractForgets ==
    ASSUME UnderWay \in Nat, UnderWay > 0, UnderWay' = UnderWay - 1,
           current_state = "running", current_state' = "running"
    PROVE  [Contract!RunnerNext]_(Contract!runnerVars)
<1>1. Row(UnderWay) # <<>> /\ Tail(Row(UnderWay)) = Row(UnderWay')
  BY Rows
<1>2. Contract!Forget
  BY <1>1 DEF Contract!Forget, Row, UnderWay
<1> QED
  BY <1>2 DEF Contract!RunnerNext, Contract!Work

LEMMA ContractFinishes ==
    ASSUME UnderWay' = UnderWay, current_state = "running", current_state' = "stopped"
    PROVE  [Contract!RunnerNext]_(Contract!runnerVars)
<1>1. Contract!Finish
  BY DEF Contract!Finish, Contract!Nothing, UnderWay
<1> QED
  BY <1>1 DEF Contract!RunnerNext, Contract!Work

LEMMA ContractResets ==
    ASSUME UnderWay' = 0, current_state = "stopped", current_state' = "stopped"
    PROVE  [Contract!RunnerNext]_(Contract!runnerVars)
<1>1. Row(0) = <<>>
  BY DEF Row
<1>2. Contract!Reset
  BY <1>1 DEF Contract!Reset, Row, UnderWay
<1> QED
  BY <1>2 DEF Contract!RunnerNext

-----------------------------------------------------------------------------
(* Every step of the two threads is one of the contract's, or none.        *)
Sound == RunnerInv /\ ContractInv /\ ~Unsound /\ ~overdrawn'
Moves == [Contract!RunnerNext]_(Contract!runnerVars)

LEMMA UnderWayCounts ==
    ASSUME TypeOK
    PROVE  /\ UnderWay = PipelinesIn(unread) + InHandCounts
           /\ UnderWay \in Nat /\ UnderWay <= Len(unread) + InHandCounts
<1>1. PICK p, n, h : p = PipelinesIn(unread) /\ n = Len(unread) /\ h = InHandCounts
  OBVIOUS
<1>2. p \in Nat /\ n \in Nat /\ h \in {0, 1} /\ p <= n /\ UnderWay = p + h
  BY <1>1, OnTheirWay DEF UnderWay
<1> QED
  BY <1>1, <1>2

UnderWaySum == UnderWay = PipelinesIn(unread) + InHandCounts

LEMMA UnderWayAdds == TypeOK => UnderWaySum
BY UnderWayCounts DEF UnderWaySum

LEMMA UnderWayAddsThen == TypeOK' => UnderWaySum'
BY UnderWayAdds, PTL

LEMMA HandKept ==
    ASSUME UNCHANGED unread, InHand' = InHand
    PROVE  UnderWay' = UnderWay
BY DEF UnderWay

LEMMA WriteSends ==
    ASSUME Sound, ProduceWrite, TypeOK'
    PROVE  Moves
<1>1. PICK n, p, h : n = Len(unread) /\ p = PipelinesIn(unread) /\ h = InHandCounts
  OBVIOUS
<1>2. /\ TypeOK /\ unread \in Seq(Values) /\ ui.value \in Values
      /\ n \in Nat /\ p \in Nat /\ p <= n /\ h \in {0, 1}
      /\ UnderWay = p + h
  BY <1>1, OnTheirWay, UnderWayCounts DEF Sound, RunnerInv, TypeOK, RingTyped, UiTyped
<1>3. /\ unread' = Append(unread, ui.value) /\ worker' = worker /\ current_state' = current_state
  BY DEF ProduceWrite, runner
<1>4. InHandCounts' = h
  BY <1>1, <1>3 DEF InHandCounts, InHand
<1>5. PipelinesIn(unread') = p + (IF ui.value = "pipeline" THEN 1 ELSE 0)
  BY <1>1, <1>2, <1>3, AppendCounts
<1>6. UnderWay' = PipelinesIn(unread') + InHandCounts'
  BY UnderWayAddsThen DEF UnderWaySum
<1>7. CASE ui.value = "pipeline"
  <2>1. UnderWay' = UnderWay + 1
    BY <1>2, <1>4, <1>5, <1>6, <1>7
  <2>2. count < 2
    BY <1>7 DEF Sound, ContractInv, RoomInv, ProduceWrite, Size
  <2>3. count = n + (IF worker.pc = "subtract" THEN 1 ELSE 0)
    BY <1>1, <1>2 DEF Sound, RunnerInv, CountInv, ProduceWrite, Unsound
  <2>4. UnderWay <= 2
    BY <1>2, <2>2, <2>3
  <2> QED
    BY <1>2, <1>3, <2>1, <2>4, ContractSends DEF Moves
<1>8. CASE ui.value # "pipeline"
  <2>1. UnderWay' = UnderWay
    BY <1>2, <1>4, <1>5, <1>6, <1>8
  <2> QED
    BY <1>3, <2>1, ContractStutters DEF Moves, Same
<1> QED
  BY <1>7, <1>8

LEMMA ReadForgets ==
    ASSUME Sound, ConsumeRead, TypeOK'
    PROVE  Moves
<1>1. PICK n, p, h : n = Len(unread) /\ p = PipelinesIn(unread) /\ h = InHandCounts
  OBVIOUS
<1>2. /\ TypeOK /\ unread \in Seq(Values) /\ n \in Nat /\ p \in Nat /\ p <= n
      /\ UnderWay = p + h /\ UnderWay \in Nat
  BY <1>1, OnTheirWay, UnderWayCounts DEF Sound, RunnerInv, TypeOK, RingTyped
<1>3. /\ unread # <<>> /\ unread' = Tail(unread) /\ current_state' = current_state
      /\ worker.pc = "read" /\ worker'.pc = "subtract" /\ worker'.loop = worker.loop
      /\ worker'.cmd = values[head]
  BY <1>2 DEF Sound, ConsumeRead, runner, TypeOK, WorkerTyped
<1>4. p = PipelinesIn(Tail(unread)) + (IF Head(unread) = "pipeline" THEN 1 ELSE 0)
  BY <1>1, <1>2, <1>3, HeadCounts
<1>5. Tail(unread) \in Seq(Values)
  BY <1>2, <1>3, HeadTailProperties
<1>6. PICK q : q = PipelinesIn(Tail(unread))
  OBVIOUS
<1>7. q \in Nat
  BY <1>5, <1>6, PlacesAreFinite
<1>8. h = 0
  BY <1>1, <1>3 DEF InHandCounts, InHand
<1>9. UnderWay' = q + InHandCounts'
  <2>1. UnderWay' = PipelinesIn(unread') + InHandCounts'
    BY UnderWayAddsThen DEF UnderWaySum
  <2> QED
    BY <1>3, <1>6, <2>1
<1>10. CASE worker.loop = "entry"
  <2>1. n = 1 \/ n = 2
    BY <1>1, <1>2, <1>3 DEF Sound, Unsound, Size
  <2>2. 1 \in 1 .. n /\ 1 + 1 >= n
    BY <2>1
  <2>3. /\ head \in {0, 1}
        /\ \A i \in 1 .. n : i + 1 >= n => values[(head + i - 1) % 2] = unread[i]
    BY <1>1 DEF Sound, Unsound, RunnerInv, RingInv, TypeOK, RingTyped
  <2>4. values[(head + 1 - 1) % 2] = unread[1]
    BY <2>2, <2>3
  <2>5. (head + 1 - 1) % 2 = head
    BY <2>3
  <2>6. worker'.cmd = Head(unread)
    BY <1>2, <1>3, <2>4, <2>5
  <2>7. InHandCounts' = IF Head(unread) = "pipeline" THEN 1 ELSE 0
    BY <1>3, <1>10, <2>6 DEF InHandCounts, InHand
  <2>8. UnderWay' = UnderWay
    BY <1>1, <1>2, <1>4, <1>6, <1>7, <1>8, <1>9, <2>7
  <2> QED
    BY <1>3, <2>8, ContractStutters DEF Moves, Same
<1>11. CASE worker.loop # "entry"
  <2>1. InHandCounts' = 0
    BY <1>3, <1>11 DEF InHandCounts, InHand
  <2>2. current_state = "running"
    BY <1>3, <1>11 DEF Sound, ContractInv, StateInv, InLoop
  <2>3. CASE Head(unread) = "pipeline"
    <3>1. UnderWay > 0 /\ UnderWay' = UnderWay - 1
      BY <1>1, <1>2, <1>4, <1>6, <1>7, <1>8, <1>9, <2>1, <2>3
    <3> QED
      BY <1>2, <1>3, <2>2, <3>1, ContractForgets DEF Moves
  <2>4. CASE Head(unread) # "pipeline"
    <3>1. UnderWay' = UnderWay
      BY <1>1, <1>2, <1>4, <1>6, <1>7, <1>8, <1>9, <2>1, <2>4
    <3> QED
      BY <1>3, <3>1, ContractStutters DEF Moves, Same
  <2> QED
    BY <2>3, <2>4
<1> QED
  BY <1>10, <1>11

LEMMA DispatchStarts ==
    ASSUME Sound, Dispatch, TypeOK'
    PROVE  Moves
<1>1. PICK p, h : p = PipelinesIn(unread) /\ h = InHandCounts
  OBVIOUS
<1>2. /\ TypeOK /\ p \in Nat /\ UnderWay = p + h /\ UnderWay \in Nat
  BY <1>1, OnTheirWay, UnderWayCounts DEF Sound, RunnerInv
<1>3. /\ unread' = unread /\ worker.pc = "got" /\ worker.loop = "entry"
      /\ InHand = <<worker.cmd>> /\ worker.cmd \in Commands
  BY DEF Dispatch, history, Sound, ContractInv, SentInv, Unsound, InHand
<1>4. current_state = "stopped"
  BY <1>3 DEF Sound, ContractInv, StateInv, InLoop
<1>5. UnderWay' = p
  <2>1. UnderWay' = PipelinesIn(unread') + InHandCounts'
    BY UnderWayAddsThen DEF UnderWaySum
  <2>2. worker'.pc \notin {"subtract", "raise", "got"}
    BY <1>2, <1>3 DEF Dispatch, TypeOK, WorkerTyped, Commands, Signals
  <2>3. InHandCounts' = 0
    BY <2>2 DEF InHandCounts, InHand
  <2> QED
    BY <1>1, <1>2, <1>3, <2>1, <2>3
<1>6. CASE worker.cmd = "pipeline"
  <2>1. h = 1
    BY <1>1, <1>3, <1>6 DEF InHandCounts
  <2>2. current_state' = "running"
    BY <1>6 DEF Dispatch, Signals
  <2>3. UnderWay > 0 /\ UnderWay' = UnderWay - 1
    BY <1>2, <1>5, <2>1
  <2> QED
    BY <1>2, <1>4, <2>2, <2>3, ContractStarts DEF Moves
<1>7. CASE worker.cmd # "pipeline"
  <2>1. InHand # <<"pipeline">>
    BY <1>3, <1>7
  <2>2. h = 0
    BY <1>1, <2>1 DEF InHandCounts
  <2>3. current_state' = current_state
    BY <1>3, <1>7 DEF Dispatch, Commands, Signals
  <2> QED
    BY <1>2, <1>5, <2>2, <2>3, ContractStutters DEF Moves, Same
<1> QED
  BY <1>6, <1>7

LEMMA RestartResets ==
    ASSUME Sound, Restart
    PROVE  Moves
<1>1. InHand' = <<>> /\ unread' = <<>> /\ current_state' = "stopped"
  BY DEF Restart, NewWorker, InHand
<1>2. current_state = "stopped"
  BY DEF Sound, ContractInv, StateInv, Restart
<1>3. PipelinesIn(<<>>) = 0
  <2>1. <<>> \in Seq(Values) /\ Len(<<>>) = 0
    OBVIOUS
  <2>2. PipelinesIn(<<>>) <= 0 /\ PipelinesIn(<<>>) \in Nat
    BY <2>1, PlacesAreFinite
  <2> QED
    BY <2>2
<1>4. UnderWay' = PipelinesIn(<<>>)
  BY <1>1 DEF UnderWay
<1> QED
  BY <1>1, <1>2, <1>3, <1>4, ContractResets DEF Moves

LEMMA StoppedFinishes ==
    ASSUME Sound, Stopped
    PROVE  Moves
<1>1. current_state = "running" /\ current_state' = "stopped" /\ unread' = unread
  BY DEF Stopped, Sound, ContractInv, StateInv, history
<1>2. InHand = <<>> /\ InHand' = <<>>
  BY DEF Stopped, InHand, Sound, RunnerInv, TypeOK, WorkerTyped
<1> QED
  BY <1>1, <1>2, HandKept, ContractFinishes DEF Moves

(* The rest moves neither a pipeline nor the state.                        *)
Silent == \/ Calling \/ ProduceAdd \/ ProduceRaise
          \/ Check \/ Watch \/ Paused \/ CallWatcher \/ StoreStatus
          \/ ConsumeLoad \/ ConsumeWait \/ ConsumeSubtract \/ ConsumeRaise
          \/ UNCHANGED vars

LEMMA SilentStutters ==
    ASSUME Sound, Silent
    PROVE  Moves
<1> USE DEF runner, queue, history
<1>1. unread' = unread /\ current_state' = current_state
  BY DEF Silent, Calling, Execute, Control, Terminate, ProduceLoad, ProduceWait, Join,
         ProduceAdd, ProduceRaise, Check, Watch, Paused, CallWatcher, StoreStatus,
         ConsumeLoad, ConsumeWait, ConsumeSubtract, ConsumeRaise, vars
<1>2. InHand' = InHand
  <2> USE DEF InHand, Sound, RunnerInv, TypeOK, WorkerTyped, Values, Commands, Signals
  <2>1. CASE Calling \/ ProduceAdd \/ ProduceRaise \/ UNCHANGED vars
    BY <2>1 DEF Calling, Execute, Control, Terminate, ProduceLoad, ProduceWait, Join,
                ProduceAdd, ProduceRaise, vars
  <2>2. CASE Check \/ Watch \/ Paused \/ CallWatcher \/ StoreStatus
    BY <2>2 DEF Check, Watch, Refusing, Paused, CallWatcher, StoreStatus
  <2>3. CASE ConsumeLoad \/ ConsumeWait
    BY <2>3 DEF ConsumeLoad, ConsumeWait
  <2>4. CASE ConsumeSubtract \/ ConsumeRaise
    BY <2>4 DEF ConsumeSubtract, ConsumeRaise
  <2> QED
    BY <2>1, <2>2, <2>3, <2>4 DEF Silent
<1> QED
  BY <1>1, <1>2, HandKept, ContractStutters DEF Moves, Same

LEMMA RunnerMoves ==
    ASSUME RunnerInv, ContractInv, [Next]_vars, TypeOK'
    PROVE  Unsound \/ overdrawn' \/ Moves
<1> SUFFICES ASSUME ~Unsound, ~overdrawn' PROVE Moves
  OBVIOUS
<1>1. Sound
  BY DEF Sound
<1>2. CASE ProduceWrite
  BY <1>1, <1>2, WriteSends
<1>3. CASE ConsumeRead
  BY <1>1, <1>3, ReadForgets
<1>4. CASE Dispatch
  BY <1>1, <1>4, DispatchStarts
<1>5. CASE Restart
  BY <1>1, <1>5, RestartResets
<1>6. CASE Stopped
  BY <1>1, <1>6, StoppedFinishes
<1>7. CASE Silent
  BY <1>1, <1>7, SilentStutters
<1> QED
  BY <1>2, <1>3, <1>4, <1>5, <1>6, <1>7
  DEF Next, UserInterface, Produce, Work, Consume, Calling, Silent

LEMMA InitMoves == Init => Contract!RunnerInit
<1> SUFFICES ASSUME Init PROVE Contract!RunnerInit
  OBVIOUS
<1>1. InHand = <<>> /\ unread = <<>> /\ current_state = "stopped"
  BY DEF Init, NewWorker, InHand
<1>2. PipelinesIn(<<>>) = 0
  <2>1. <<>> \in Seq(Values) /\ Len(<<>>) = 0
    OBVIOUS
  <2>2. PipelinesIn(<<>>) <= 0 /\ PipelinesIn(<<>>) \in Nat
    BY <2>1, PlacesAreFinite
  <2> QED
    BY <2>2
<1>3. PipelinesIn(InHand \o unread) = 0
  BY <1>1, <1>2
<1> QED
  BY <1>1, <1>3 DEF Contract!RunnerInit, Contract!Nothing

(* The runner keeps its promises to the application (RunnerContract):      *)
(* whatever the two threads of pipeline_runner.c do through their ring,    *)
(* pipelines are executed one at a time in the order they were sent, each  *)
(* at most once, one that arrives during another is forgotten, and a       *)
(* terminated runner has none left, as long as no command was read from an *)
(* empty ring or written over an older one.                                *)
THEOREM RunnerImplementsContract == Spec => ImplementsContract
<1>1. Init => RunnerInv /\ ContractInv /\ Contract!RunnerInit
  BY InitRunner, InitContract, InitMoves
<1>2. (RunnerInv /\ ContractInv) /\ [Next]_vars => (RunnerInv /\ ContractInv)'
  BY RunnerIsInductive, ContractIsInductive
<1>3. (RunnerInv /\ ContractInv) /\ (RunnerInv /\ ContractInv)' /\ [Next]_vars
          => Unsound \/ overdrawn' \/ [Contract!RunnerNext]_(Contract!runnerVars)
  BY RunnerMoves DEF RunnerInv, Moves
<1> QED
  BY <1>1, <1>2, <1>3, PTL DEF Spec, ImplementsContract
=============================================================================
