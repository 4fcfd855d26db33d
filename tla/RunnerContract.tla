--------------------------- MODULE RunnerContract --------------------------
(***************************************************************************)
(* What pipeline_runner.c promises to the application, whatever its queue  *)
(* and its threads do: pipelines that were sent are executed one at a time *)
(* and in order, one that arrives while another is executed is forgotten,  *)
(* and a runner that was terminated and initialised again has none left.   *)
(***************************************************************************)
EXTENDS Integers, Sequences

CONSTANT Pipelines

VARIABLES current_state,  \* what pipeline_runner_current_state returns
          sent,           \* the pipelines on their way to the worker
          executing       \* the pipeline the worker executes

runnerVars == <<current_state, sent, executing>>

Capacity == 2           \* the length of cmd_buf
Nothing == {}           \* no pipeline; one is a singleton set

RunnerInit == current_state = "stopped" /\ sent = <<>> /\ executing = Nothing

(* The worker can hold one pipeline and the queue Capacity more; a full    *)
(* queue drops the command.                                                *)
Send(pipeline) ==
    /\ \/ Len(sent) <= Capacity /\ sent' = Append(sent, pipeline)
       \/ Len(sent) >= Capacity /\ UNCHANGED sent
    /\ UNCHANGED <<current_state, executing>>

Start ==
    /\ current_state = "stopped" /\ sent # <<>>
    /\ current_state' = "running" /\ executing' = {Head(sent)} /\ sent' = Tail(sent)

Forget ==
    /\ current_state = "running" /\ sent # <<>>
    /\ sent' = Tail(sent)
    /\ UNCHANGED <<current_state, executing>>

Finish ==
    /\ current_state = "running"
    /\ current_state' = "stopped" /\ executing' = Nothing
    /\ UNCHANGED sent

Work == Start \/ Forget \/ Finish

(* pipeline_runner_terminate, which returns when nothing is executed, and  *)
(* pipeline_runner_init.                                                   *)
Reset ==
    /\ current_state = "stopped"
    /\ sent' = <<>>
    /\ UNCHANGED <<current_state, executing>>

RunnerNext == Work \/ Reset \/ \E pipeline \in Pipelines : Send(pipeline)

RunnerSpec == RunnerInit /\ [][RunnerNext]_runnerVars
=============================================================================
