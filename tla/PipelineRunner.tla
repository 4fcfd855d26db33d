--------------------------- MODULE PipelineRunner ---------------------------
(***************************************************************************)
(* heditor/src/pipeline_runner.c on the queue of heditor/src/hthread.c:    *)
(* the user-interface thread sends commands through a ring of two slots to *)
(* the worker thread, which runs pipelines and polls the ring while it     *)
(* does.  Every atomic operation on shared memory is a step of its own;    *)
(* a wait on a signal and the reset of its value are one step, for both    *)
(* happen under its mutex.  The two ring positions are kept modulo Size:   *)
(* each is read by the thread that moves it, and only modulo Size.         *)
(***************************************************************************)
EXTENDS Integers, Sequences, FiniteSets

CONSTANTS MaxCalls,     \* bound on the calls of the user interface
          MaxOverdraw   \* bound on how far the worker can overdraw the queue

ASSUME RunnerAssumption == MaxCalls \in Nat /\ MaxOverdraw \in Nat \ {0}

Size == 2               \* the length of cmd_buf

Signals == {"stop", "resume", "pause", "terminate"}
Commands == Signals \union {"pipeline"}

VARIABLES
    count, head, tail, values,        \* hed_spsc_queue_t
    data_ready, space_open,           \* the values of its two signals
    current_state, should_run, execution_status,
    ui,           \* the user-interface thread: where it is, what it sends
    worker,       \* the worker: where it is, in which loop, what it took, and
                  \* whether the watcher has refused to go on with the pipeline
    calls,        \* how many calls the user interface has made
    unread,       \* history: the commands written and not yet read
    overdrawn,    \* history: whether a command was read that no one wrote
    unwaited      \* history: whether one was taken without the signal

queue == <<count, head, tail, values, data_ready, space_open>>
runner == <<current_state, should_run, execution_status>>
history == <<unread, overdrawn, unwaited>>
vars == <<queue, runner, ui, worker, calls, history>>

NewWorker == [pc |-> "check", loop |-> "entry", cmd |-> "null", refused |-> FALSE]

(* pipeline_runner_init.  The slots keep what they held. *)
FreshQueue ==
    /\ count' = 0 /\ head' = 0 /\ tail' = 0 /\ UNCHANGED values
    /\ data_ready' = FALSE /\ space_open' = FALSE

Init ==
    /\ count = 0 /\ head = 0 /\ tail = 0
    /\ values = [slot \in 0 .. Size - 1 |-> "null"]
    /\ data_ready = FALSE /\ space_open = FALSE
    /\ current_state = "stopped" /\ should_run = TRUE /\ execution_status = "finished"
    /\ ui = [pc |-> "idle", value |-> "null"]
    /\ worker = NewWorker
    /\ calls = 0
    /\ unread = <<>> /\ overdrawn = FALSE /\ unwaited = FALSE

-----------------------------------------------------------------------------
(* The calls.  A call of pipeline_runner_execute while the state is not    *)
(* stopped does nothing.                                                   *)
Call(value) ==
    /\ ui.pc = "idle" /\ calls < MaxCalls
    /\ ui' = [pc |-> "load", value |-> value]
    /\ calls' = calls + 1

Execute ==
    /\ Call("pipeline")
    /\ current_state = "stopped"
    /\ UNCHANGED <<queue, runner, worker, history>>

Control ==      \* pipeline_runner_stop, _pause and _resume
    /\ \E value \in Signals \ {"terminate"} : Call(value)
    /\ UNCHANGED <<queue, runner, worker, history>>

(* Mutant: only the command is sent. *)
TerminateByCommand ==
    /\ ui.pc = "idle"
    /\ ui' = [pc |-> "load", value |-> "terminate"]
    /\ UNCHANGED <<queue, runner, worker, calls, history>>

Terminate ==
    /\ ui.pc = "idle"
    /\ ui' = [pc |-> "load", value |-> "terminate"]
    /\ should_run' = FALSE
    /\ UNCHANGED <<queue, current_state, execution_status, worker, calls, history>>

(* hed_spsc_queue_produce, with an endless timeout for terminate and none  *)
(* for the others.                                                         *)
ProduceLoad ==
    /\ ui.pc = "load"
    /\ ui' = [ui EXCEPT !.pc = IF count # Size THEN "write"
                               ELSE IF ui.value = "terminate" THEN "wait" ELSE "idle"]
    /\ UNCHANGED <<queue, runner, worker, calls, history>>

ProduceWait ==
    /\ ui.pc = "wait" /\ space_open
    /\ space_open' = FALSE
    /\ ui' = [ui EXCEPT !.pc = "write"]
    /\ UNCHANGED <<count, head, tail, values, data_ready, runner, worker, calls, history>>

(* Mutant: the slot is that of the tail after the addition. *)
ProduceWriteAhead ==
    /\ ui.pc = "write"
    /\ tail' = (tail + 1) % Size
    /\ values' = [values EXCEPT ![(tail + 1) % Size] = ui.value]
    /\ unread' = Append(unread, ui.value)
    /\ ui' = [ui EXCEPT !.pc = "add"]
    /\ UNCHANGED <<count, head, data_ready, space_open, runner, worker, calls,
                   overdrawn, unwaited>>

ProduceWrite ==
    /\ ui.pc = "write"
    /\ tail' = (tail + 1) % Size
    /\ values' = [values EXCEPT ![tail] = ui.value]
    /\ unread' = Append(unread, ui.value)
    /\ ui' = [ui EXCEPT !.pc = "add"]
    /\ UNCHANGED <<count, head, data_ready, space_open, runner, worker, calls,
                   overdrawn, unwaited>>

AfterProduce == IF ui.value = "terminate" THEN "join" ELSE "idle"

(* Mutant: the count after the addition is compared with 0. *)
ProduceAddSilently ==
    /\ ui.pc = "add"
    /\ count' = count + 1
    /\ ui' = [ui EXCEPT !.pc = IF count + 1 = 0 THEN "raise" ELSE AfterProduce]
    /\ UNCHANGED <<head, tail, values, data_ready, space_open, runner, worker, calls, history>>

ProduceAdd ==
    /\ ui.pc = "add"
    /\ count' = count + 1
    /\ ui' = [ui EXCEPT !.pc = IF count = 0 THEN "raise" ELSE AfterProduce]
    /\ UNCHANGED <<head, tail, values, data_ready, space_open, runner, worker, calls, history>>

ProduceRaise ==
    /\ ui.pc = "raise"
    /\ data_ready' = TRUE
    /\ ui' = [ui EXCEPT !.pc = AfterProduce]
    /\ UNCHANGED <<count, head, tail, values, space_open, runner, worker, calls, history>>

(* thrd_join, after which the runner may be initialised again, as it is    *)
(* when plugins are reloaded.                                              *)
Join ==
    /\ ui.pc = "join" /\ worker.pc = "exited"
    /\ ui' = [ui EXCEPT !.pc = "joined"]
    /\ UNCHANGED <<queue, runner, worker, calls, history>>

Restart ==
    /\ ui.pc = "joined" /\ calls < MaxCalls
    /\ FreshQueue
    /\ current_state' = "stopped" /\ execution_status' = "finished" /\ should_run' = TRUE
    /\ ui' = [ui EXCEPT !.pc = "idle"]
    /\ worker' = NewWorker
    /\ calls' = calls + 1
    /\ unread' = <<>> /\ overdrawn' = FALSE /\ unwaited' = FALSE

(* A fault of the worker is the end of the process, of this thread too.    *)
Alive == worker.pc # "crashed"

Produce ==
    Alive /\ (ProduceLoad \/ ProduceWait \/ ProduceWrite \/ ProduceAdd \/ ProduceRaise)

UserInterface ==
    Produce \/ Join \/ Restart \/ (Alive /\ (Execute \/ Control \/ Terminate))

-----------------------------------------------------------------------------
(* The watcher returns false.                                              *)
Refusing == [worker EXCEPT !.pc = "running", !.refused = TRUE]

(* The three loops around hed_spsc_queue_consume all test should_run: that *)
(* of pipeline_runner_entry ends the thread, that of pipeline_watcher      *)
(* returns false, and that of a pause goes back to the watcher's.          *)
Check ==
    /\ worker.pc = "check"
    /\ worker' =
          IF should_run THEN [worker EXCEPT !.pc = "load"]
          ELSE CASE worker.loop = "entry"   -> [worker EXCEPT !.pc = "exited"]
                 [] worker.loop = "watcher" -> Refusing
                 [] worker.loop = "pause"   -> [worker EXCEPT !.loop = "watcher"]
    /\ UNCHANGED <<queue, runner, ui, calls, history>>

(* hed_spsc_queue_consume, which waits unless the watcher calls it. *)
ConsumeLoad ==
    /\ worker.pc = "load" /\ count > -MaxOverdraw
    /\ worker' = [worker EXCEPT !.pc = IF count # 0 THEN "read"
                                       ELSE IF worker.loop = "watcher" THEN "running" ELSE "wait"]
    /\ unwaited' = (unwaited \/ count # 0)
    /\ UNCHANGED <<queue, runner, ui, calls, unread, overdrawn>>

(* Mutant: the value is not tested again after a spurious wakeup. *)
ConsumeWaitOnce ==
    /\ worker.pc = "wait"
    /\ data_ready' = FALSE
    /\ worker' = [worker EXCEPT !.pc = "read"]
    /\ UNCHANGED <<count, head, tail, values, space_open, runner, ui, calls, history>>

ConsumeWait ==
    /\ worker.pc = "wait" /\ data_ready
    /\ data_ready' = FALSE
    /\ worker' = [worker EXCEPT !.pc = "read"]
    /\ UNCHANGED <<count, head, tail, values, space_open, runner, ui, calls, history>>

(* Mutant: the head is moved before the slot is read. *)
ConsumeReadAhead ==
    /\ worker.pc = "read"
    /\ head' = (head + 1) % Size
    /\ worker' = [worker EXCEPT !.pc = "subtract", !.cmd = values[(head + 1) % Size]]
    /\ unread' = IF unread = <<>> THEN unread ELSE Tail(unread)
    /\ overdrawn' = (overdrawn \/ unread = <<>>)
    /\ UNCHANGED <<count, tail, values, data_ready, space_open, runner, ui, calls, unwaited>>

ConsumeRead ==
    /\ worker.pc = "read"
    /\ head' = (head + 1) % Size
    /\ worker' = [worker EXCEPT !.pc = "subtract", !.cmd = values[head]]
    /\ unread' = IF unread = <<>> THEN unread ELSE Tail(unread)
    /\ overdrawn' = (overdrawn \/ unread = <<>>)
    /\ UNCHANGED <<count, tail, values, data_ready, space_open, runner, ui, calls, unwaited>>

ConsumeSubtract ==
    /\ worker.pc = "subtract"
    /\ count' = count - 1
    /\ worker' = [worker EXCEPT !.pc = IF count = Size THEN "raise" ELSE "got"]
    /\ UNCHANGED <<head, tail, values, data_ready, space_open, runner, ui, calls, history>>

ConsumeRaise ==
    /\ worker.pc = "raise"
    /\ space_open' = TRUE
    /\ worker' = [worker EXCEPT !.pc = "got"]
    /\ UNCHANGED <<count, head, tail, values, data_ready, runner, ui, calls, history>>

(* What the three loops make of a command.  Anything that is not one of    *)
(* the four signals is a pipeline to pipeline_runner_entry, which faults   *)
(* on a null one; to the watcher a pipeline is nothing.                    *)
Dispatch ==
    /\ worker.pc = "got" /\ worker.loop = "entry"
    /\ CASE worker.cmd = "terminate" ->
              worker' = [worker EXCEPT !.pc = "exited"] /\ UNCHANGED current_state
         [] worker.cmd \in Signals \ {"terminate"} ->
              worker' = [worker EXCEPT !.pc = "check"] /\ UNCHANGED current_state
         [] worker.cmd = "pipeline" ->
              /\ worker' = [worker EXCEPT !.pc = "running", !.refused = FALSE]
              /\ current_state' = "running"
         [] worker.cmd = "null" ->
              worker' = [worker EXCEPT !.pc = "crashed"] /\ current_state' = "running"
    /\ UNCHANGED <<queue, should_run, execution_status, ui, calls, history>>

(* Mutant: a stop is dropped like a resume. *)
WatchDroppingStop ==
    /\ worker.pc = "got" /\ worker.loop = "watcher"
    /\ worker' =
          CASE worker.cmd = "null" -> [worker EXCEPT !.pc = "running"]
            [] worker.cmd = "terminate" -> Refusing
            [] worker.cmd = "pause" -> [worker EXCEPT !.pc = "check", !.loop = "pause"]
            [] worker.cmd \in {"stop", "resume", "pipeline"} -> [worker EXCEPT !.pc = "check"]
    /\ UNCHANGED <<queue, runner, ui, calls, history>>

Watch ==
    /\ worker.pc = "got" /\ worker.loop = "watcher"
    /\ worker' =
          CASE worker.cmd = "null" -> [worker EXCEPT !.pc = "running"]
            [] worker.cmd \in {"stop", "terminate"} -> Refusing
            [] worker.cmd = "pause" -> [worker EXCEPT !.pc = "check", !.loop = "pause"]
            [] worker.cmd \in {"resume", "pipeline"} -> [worker EXCEPT !.pc = "check"]
    /\ UNCHANGED <<queue, runner, ui, calls, history>>

Paused ==
    /\ worker.pc = "got" /\ worker.loop = "pause"
    /\ worker' = [worker EXCEPT !.pc = "check",
                                !.loop = IF worker.cmd = "resume" THEN "watcher" ELSE "pause"]
    /\ UNCHANGED <<queue, runner, ui, calls, history>>

(* hgraph_pipeline_execute as the runner sees it: it calls the watcher any *)
(* number of times and returns.  A refusal does not end the calls at once: *)
(* the callback that was told of it may report again, and end_pipeline and *)
(* the last call of the watcher do not look at the answers, so that the    *)
(* execution can even finish.                                              *)
CallWatcher ==
    /\ worker.pc = "running"
    /\ worker' = [worker EXCEPT !.pc = "check", !.loop = "watcher"]
    /\ UNCHANGED <<queue, runner, ui, calls, history>>

Stopped ==
    /\ worker.pc = "running"
    /\ current_state' = "stopped"
    /\ worker' = [worker EXCEPT !.pc = "stopped"]
    /\ UNCHANGED <<queue, should_run, execution_status, ui, calls, history>>

(* The status is "failed" for HGRAPH_PIPELINE_EXEC_OOM and for those that  *)
(* the watcher has no part in; only a refusal gives "aborted".             *)
Statuses == {"finished", "aborted", "failed"}

StoreStatus ==
    /\ worker.pc = "stopped"
    /\ \E status \in Statuses :
          /\ status = "aborted" => worker.refused
          /\ execution_status' = status
    /\ worker' = [worker EXCEPT !.pc = "check", !.loop = "entry"]
    /\ UNCHANGED <<queue, current_state, should_run, ui, calls, history>>

Consume == ConsumeLoad \/ ConsumeWait \/ ConsumeRead \/ ConsumeSubtract \/ ConsumeRaise
Work == Check \/ Consume \/ Dispatch \/ Watch \/ Paused \/ CallWatcher \/ Stopped \/ StoreStatus

Next == UserInterface \/ Work

(* A callback that is told of a refusal returns sooner or later, however   *)
(* often it reports before, and pipeline.c calls no other after it but     *)
(* end_pipeline, once for each node.                                       *)
StoppedAfterRefusal == worker.refused /\ Stopped

(* The threads run: a call that has begun goes on, and so does the worker. *)
(* Strong fairness, for the calls of the watcher come in between.  Nobody  *)
(* has to make a call, and a pipeline that nobody stops may run for good.  *)
Spec ==
    /\ Init /\ [][Next]_vars
    /\ WF_vars(Produce) /\ WF_vars(Join) /\ WF_vars(Work)
    /\ SF_vars(StoppedAfterRefusal)

-----------------------------------------------------------------------------
(* A command is read from an empty ring, which hands the worker an old     *)
(* command or faults on a null pipeline, only after a command was taken    *)
(* without waiting for the signal raised with it: the signal is then left  *)
(* over and the next wait returns at once.                                 *)
OverdrawsOnlyOnStaleSignals == overdrawn => unwaited

(* Before that happens the two threads agree about the ring: the unread    *)
(* commands lie from head on, in the order they were sent.                 *)
(* Len(unread) exceeds Size when a stale space_open let the command of     *)
(* pipeline_runner_terminate overwrite the oldest one.                     *)
RingHoldsUnread ==
    ~overdrawn /\ Len(unread) <= Size =>
        \A i \in 1 .. Len(unread) : values[(head + i - 1) % Size] = unread[i]

(* No lost wakeup: the worker does not sleep over an unread command unless *)
(* the producer has yet to raise the signal for it.                        *)
NoLostWakeup ==
    ~overdrawn /\ unread # <<>> /\ worker.pc = "wait" =>
        data_ready \/ ui.pc \in {"add", "raise"}

(* pipeline_runner_terminate returns, if it found a free slot and the      *)
(* queue was never overdrawn: neither a running pipeline nor a pause can   *)
(* hold the worker.  (With both slots taken the worker may leave its loop  *)
(* on should_run alone and never make the space the call waits for.)       *)
TerminateReturns ==
    (ui.pc = "write" /\ ui.value = "terminate" /\ ~overdrawn)
        ~> (ui.pc = "joined" \/ ~Alive)

(* A stop that is the only command on its way to a running pipeline ends   *)
(* it, however often the pipeline calls its watcher, unless the user       *)
(* pauses it afterwards and never resumes: the callback that was told to   *)
(* stop can still take the pause, and wait.  (A stop that reaches the      *)
(* worker in a pause is dropped; and the end of such a later pause can     *)
(* overdraw the queue, after which the watcher goes round in old commands.)*)
StopEndsThePipeline ==
    []<>(worker.loop # "pause") =>
        ((unread = <<"stop">> /\ ~overdrawn /\ worker.pc = "running")
            ~> (current_state = "stopped" \/ overdrawn \/ ~Alive))

-----------------------------------------------------------------------------
(* The runner implements RunnerContract, which App builds on: what is on   *)
(* its way is what the worker has read and not yet looked at, and what it  *)
(* has not read; pipelines are started in the order they were sent and     *)
(* none is started twice.  (Not after a read from an empty ring, and not   *)
(* while the command of pipeline_runner_terminate lies on an older one.)   *)
InHand ==
    IF worker.loop = "entry" /\ worker.pc \in {"subtract", "raise", "got"}
    THEN <<worker.cmd>> ELSE <<>>

(* How many of some commands are pipelines: the queue is modelled with one *)
(* pipeline, so that a sequence of pipelines is no more than its length.   *)
PipelinesIn(commands) == Cardinality({i \in 1 .. Len(commands) : commands[i] = "pipeline"})

Contract ==
    INSTANCE RunnerContract WITH
        Pipelines <- {"pipeline"},
        sent <- [k \in 1 .. PipelinesIn(InHand \o unread) |-> "pipeline"],
        executing <- IF current_state = "running" THEN {"pipeline"} ELSE {}

Unsound == overdrawn \/ Len(unread) > Size

ImplementsContract ==
    /\ Contract!RunnerInit
    /\ [][Unsound \/ overdrawn' \/ [Contract!RunnerNext]_(Contract!runnerVars)]_vars
=============================================================================
