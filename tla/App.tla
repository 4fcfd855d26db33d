-------------------------------- MODULE App --------------------------------
(***************************************************************************)
(* heditor/src/app.c with the command buffer of command.c: documents, the  *)
(* frame that draws them and takes the user's input, the two dialogs, the  *)
(* commands a frame collects and then carries out, the reload of plugins,  *)
(* and the two pipelines that are sent to the runner.  The worker's steps  *)
(* are those of RunnerContract, between any two steps of a frame.          *)
(*                                                                         *)
(* A document's graph is a content: an edit makes it one that no document  *)
(* and no file has; a load or a reload leaves all of it, or what is left   *)
(* without the nodes and edges the registry does not know.  Which those    *)
(* are is the subject of GraphFile and Migration.                          *)
(***************************************************************************)
EXTENDS RunnerContract, FiniteSets

CONSTANTS MaxDocuments, Paths, Contents,
          MaxInputs     \* bound on what the user and the plugins' files do

ASSUME AppAssumption ==
    /\ MaxDocuments \in Nat \ {0} /\ MaxInputs \in Nat
    /\ Contents \subseteq Nat \ {0}
    /\ Cardinality(Contents) > MaxDocuments + Cardinality(Paths)
    /\ Pipelines = {0, 1}

VARIABLES
    documents,              \* the document_t structures, by index
    num_documents, active_document_index,
    should_switch_tab, dirty_doc_index,
    focus,                  \* the editor whose tab is to be selected
    popup,                  \* the dialog that is open
    commands,               \* hed_cmd_buf from read_pos to write_pos
    files,                  \* what each path holds
    pipelines,              \* the two buffers; current_pipeline is one
    current_pipeline, pipeline_bound_graph,
    frame,                  \* where the frame is, and its local variables
    quitting,               \* sapp_quit was called, or a quit not cancelled
    asked,                  \* history: the editor "Save?" was opened for
    confirmed,              \* history: "Exit?" was answered with yes
    doubled                 \* history: a Play came before the last started

view == <<documents, num_documents, active_document_index, should_switch_tab,
          dirty_doc_index, focus, popup>>
execution == <<pipelines, current_pipeline, pipeline_bound_graph>>
history == <<asked, confirmed, doubled>>
appVars == <<view, commands, files, execution, frame, quitting, history>>
vars == <<appVars, runnerVars>>

None == -1
NoPath == "none"
MaxCommands == 8

(* A graph as it was edited, and how many loads and reloads have since     *)
(* left something of it out.                                               *)
Whole(edit) == [edit |-> edit, lost |-> 0]
Part(content) == [content EXCEPT !.lost = @ + 1]
Remains(content) == {content, Part(content)}

Broken == Whole(0)      \* a file that cannot be read back

Editors == 0 .. MaxDocuments - 1
Open == 0 .. num_documents - 1

(* The pointer to a graph: each document_t has two, and a reload swaps     *)
(* them.                                                                   *)
Graph(document) == <<document.editor, document.half>>

Fresh == Whole(CHOOSE edit \in Contents :
                  /\ \A i \in Editors : documents[i].content.edit # edit
                  /\ \A path \in Paths : files[path].edit # edit)

Init ==
    /\ RunnerInit
    /\ documents = [i \in Editors |-> [editor |-> i, half |-> 0, content |-> Whole(i + 1),
                                       path |-> NoPath, is_dirty |-> FALSE]]
    /\ num_documents = 1 /\ active_document_index = 0
    /\ should_switch_tab = FALSE /\ dirty_doc_index = None
    /\ focus = None /\ popup = "none"
    /\ commands = <<>>
    /\ files = [path \in Paths |-> Broken]
    /\ pipelines = [k \in Pipelines |-> [graph |-> <<>>, live |-> 0]]
    /\ current_pipeline = 0 /\ pipeline_bound_graph = <<>>
    /\ frame = [pc |-> "begin", click |-> TRUE, can_create |-> FALSE, visible |-> None,
                editable |-> FALSE, early |-> FALSE, switching |-> FALSE, active |-> 0, inputs |-> 0]
    /\ quitting = FALSE
    /\ asked = None /\ confirmed = FALSE /\ doubled = FALSE

HedCmd(type) ==
    commands' = IF Len(commands) < MaxCommands THEN Append(commands, type) ELSE commands

ShouldConfirmExit == \E i \in Open : documents[i].is_dirty

Goto(pc) == frame' = [frame EXCEPT !.pc = pc]
Input(pc) == /\ frame.inputs < MaxInputs
             /\ frame' = [frame EXCEPT !.pc = pc, !.inputs = @ + 1]
Click(pc) == /\ frame.click /\ frame.inputs < MaxInputs
             /\ frame' = [frame EXCEPT !.pc = pc, !.click = FALSE, !.inputs = @ + 1]

-----------------------------------------------------------------------------
(* Between two frames.  (At most one request to quit for each.) *)
QuitRequested ==
    /\ frame.pc = "begin" /\ ~quitting /\ commands = <<>>
    /\ IF ShouldConfirmExit THEN HedCmd("exit") /\ UNCHANGED quitting
       ELSE quitting' = TRUE /\ UNCHANGED commands
    /\ Input("begin")
    /\ UNCHANGED <<view, files, execution, history, runnerVars>>

ReloadPlugins ==
    /\ frame.pc = "begin" /\ ~quitting
    /\ Input("terminate")
    /\ UNCHANGED <<view, commands, files, execution, quitting, history, runnerVars>>

(* A modal dialog takes the mouse; it leaves the hot keys. *)
NewFrame == [frame EXCEPT !.pc = "menu", !.click = popup = "none",
                          !.can_create = num_documents < MaxDocuments]

(* The graphs of the documents in lossy have nodes or edges that the next  *)
(* registry does not know.  No document is marked for it.                  *)
MigrateDocuments ==
    /\ frame.pc = "terminate"
    /\ Reset
    /\ \E lossy \in SUBSET Open :
          documents' = [i \in Editors |->
              IF i \in Open
              THEN [documents[i] EXCEPT !.half = 1 - @,
                                        !.content = IF i \in lossy THEN Part(@) ELSE @]
              ELSE documents[i]]
    /\ frame' = NewFrame
    /\ doubled' = FALSE
    /\ UNCHANGED <<num_documents, active_document_index, should_switch_tab, dirty_doc_index,
                   focus, popup, commands, files, execution, quitting, asked, confirmed>>

Begin ==
    /\ frame.pc = "begin" /\ ~quitting
    /\ frame' = NewFrame
    /\ UNCHANGED <<view, commands, files, execution, quitting, history, runnerVars>>

-----------------------------------------------------------------------------
(* The menu bar, and the "+" behind the tabs.  Play is greyed out unless   *)
(* the runner is stopped; Pause, Resume and Stop do nothing.               *)
Menu ==
    /\ frame.pc = "menu"
    /\ \/ Goto("draw") /\ UNCHANGED commands
       \/ /\ Click("draw")
          /\ \E type \in {"new", "open", "save", "save_as", "exit", "execute"} :
                /\ type = "new" => frame.can_create
                /\ type = "execute" => current_state = "stopped"
                /\ HedCmd(type)
    /\ UNCHANGED <<view, files, execution, quitting, history, runnerVars>>

(* The visible tab: the one that was to be selected, or any. *)
VisibleTabs ==
    LET open == {documents[i].editor : i \in Open} IN
    IF focus \in open THEN {focus} ELSE IF open = {} THEN {None} ELSE open

IndexOf(editor) == CHOOSE i \in Editors : documents[i].editor = editor

(* Mutant: a tab is always editable. *)
DrawEditable ==
    /\ frame.pc = "draw"
    /\ \E editor \in VisibleTabs :
          frame' = [frame EXCEPT
              !.pc = "edit", !.visible = editor,
              !.editable = editor # None,
              !.early = current_state = "stopped" /\ sent # <<>>,
              !.switching = should_switch_tab]
    /\ UNCHANGED <<view, commands, files, execution, quitting, history, runnerVars>>

(* What draw_editor is told.  early and switching are history: the worker  *)
(* has yet to take a pipeline; the tab that is drawn need not be the       *)
(* active document.  SetSelected shows its tab in the frame after.         *)
Draw ==
    /\ frame.pc = "draw"
    /\ \E editor \in VisibleTabs :
          frame' = [frame EXCEPT
              !.pc = "edit", !.visible = editor,
              !.editable = /\ editor # None
                           /\ \/ Graph(documents[IndexOf(editor)]) # pipeline_bound_graph
                              \/ current_state = "stopped",
              !.early = current_state = "stopped" /\ sent # <<>>,
              !.switching = should_switch_tab]
    /\ UNCHANGED <<view, commands, files, execution, quitting, history, runnerVars>>

Edited(i) == [documents EXCEPT ![i].content = Fresh, ![i].is_dirty = TRUE]
Marked(i) == [documents EXCEPT ![i].is_dirty = TRUE]

(* draw_editor: nodes and edges are removed and attributes changed at      *)
(* once; a new node or edge is left to a command, and only the edge marks  *)
(* the document.                                                           *)
EditInPlace ==
    /\ popup = "none" /\ documents' = Edited(IndexOf(frame.visible))
    /\ Input("tabs")
    /\ UNCHANGED commands

QueueEdge ==
    /\ Click("tabs") /\ HedCmd("create_edge")
    /\ documents' = Marked(IndexOf(frame.visible))

QueueNode == Click("tabs") /\ HedCmd("create_node") /\ UNCHANGED documents

Edit ==
    /\ frame.pc = "edit"
    /\ \/ Goto("tabs") /\ UNCHANGED <<commands, documents>>
       \/ frame.editable /\ (EditInPlace \/ QueueEdge \/ QueueNode)
    /\ UNCHANGED <<num_documents, active_document_index, should_switch_tab, dirty_doc_index,
                   focus, popup, files, execution, quitting, history, runnerVars>>

-----------------------------------------------------------------------------
(* close_document: the last document takes the place of the closed one. *)
Closed(docs, i) ==
    [docs EXCEPT ![i] = docs[num_documents - 1], ![num_documents - 1] = docs[i]]

(* Mutant: drawing a tab does not make it the active document. *)
LeaveTabsInactive(docs, num, drawn) ==
    /\ documents' = docs /\ num_documents' = num
    /\ focus' = IF should_switch_tab /\ active_document_index < num
                THEN docs[active_document_index].editor ELSE None
    /\ should_switch_tab' = FALSE
    /\ UNCHANGED <<active_document_index, popup>>

(* The end of the loop over the tabs, after at most one click on a cross:  *)
(* which index was drawn as the visible one, and whose tab was told to be  *)
(* selected.                                                               *)
LeaveTabs(docs, num, drawn) ==
    /\ documents' = docs /\ num_documents' = num
    /\ active_document_index' = IF should_switch_tab \/ frame.visible = None
                                THEN active_document_index ELSE drawn
    /\ focus' = IF should_switch_tab /\ active_document_index < num
                THEN docs[active_document_index].editor ELSE None
    /\ should_switch_tab' = FALSE
    /\ UNCHANGED popup

Visible == IndexOf(frame.visible)

KeepTabs ==
    /\ LeaveTabs(documents, num_documents, Visible)
    /\ frame' = [frame EXCEPT !.pc = "keys", !.click = FALSE, !.editable = FALSE]
    /\ UNCHANGED dirty_doc_index

(* Mutant: a changed document is closed like any other. *)
CloseTabUnasked ==
    /\ Click("keys")
    /\ \E i \in Open :
          /\ LeaveTabs(Closed(documents, i), num_documents - 1,
                       IF Visible = num_documents - 1 THEN i ELSE Visible)
          /\ UNCHANGED dirty_doc_index

CloseTab ==
    /\ frame.click /\ frame.inputs < MaxInputs
    /\ frame' = [frame EXCEPT !.pc = "keys", !.click = FALSE, !.editable = FALSE,
                              !.inputs = @ + 1]
    /\ \E i \in Open :
          IF documents[i].is_dirty
          THEN dirty_doc_index' = i /\ LeaveTabs(documents, num_documents, Visible)
          ELSE /\ LeaveTabs(Closed(documents, i), num_documents - 1,
                            IF Visible = num_documents - 1 THEN i ELSE Visible)
               /\ UNCHANGED dirty_doc_index

Tabs ==
    /\ frame.pc = "tabs"
    /\ KeepTabs \/ CloseTab
    /\ UNCHANGED <<commands, files, execution, quitting, history, runnerVars>>

(* The hot keys.  (At most one for each frame.) *)
Keys ==
    /\ frame.pc = "keys"
    /\ \/ Goto("popups") /\ UNCHANGED commands
       \/ /\ Input("popups")
          /\ \E type \in {"new", "open", "save", "save_as"} :
                (type = "new" => frame.can_create) /\ HedCmd(type)
    /\ UNCHANGED <<view, files, execution, quitting, history, runnerVars>>

-----------------------------------------------------------------------------
(* save_document_at: the file cannot be opened, or is emptied and then not *)
(* written, or holds the graph.                                            *)
SaveDocumentAt(i, path) ==
    {[documents |-> documents, files |-> files, saved |-> FALSE],
     [documents |-> documents, files |-> [files EXCEPT ![path] = Broken], saved |-> FALSE],
     [documents |-> [documents EXCEPT ![i].is_dirty = FALSE, ![i].path = path],
      files |-> [files EXCEPT ![path] = documents[i].content], saved |-> TRUE]}

SaveAs(i) == UNION {SaveDocumentAt(i, path) : path \in Paths}

Save(i) == IF documents[i].path = NoPath THEN SaveAs(i)
           ELSE SaveDocumentAt(i, documents[i].path)

(* The dialog "Save?" for the document whose cross was clicked.  Opening   *)
(* one dialog closes the other, and nobody answers one in its first frame. *)
OpenSaveDialog ==
    /\ dirty_doc_index # None /\ popup # "save"
    /\ popup' = "save" /\ asked' = documents[dirty_doc_index].editor
    /\ active_document_index' = dirty_doc_index /\ should_switch_tab' = TRUE
    /\ frame' = [frame EXCEPT !.pc = "commands", !.active = dirty_doc_index]
    /\ UNCHANGED <<documents, num_documents, dirty_doc_index, focus, files, quitting, confirmed>>

ToCommands(answers) ==
    /\ frame.inputs + answers <= MaxInputs
    /\ frame' = [frame EXCEPT !.pc = "commands", !.active = active_document_index,
                              !.inputs = @ + answers]

(* Mutant: the document is not forgotten. *)
CloseDialogOnly == popup' = "none" /\ UNCHANGED dirty_doc_index

CloseDialog == popup' = "none" /\ dirty_doc_index' = None

AnswerSave ==
    /\ popup = "save"
    /\ \/ \E outcome \in Save(dirty_doc_index) :    \* Yes
             /\ files' = outcome.files
             /\ IF outcome.saved
                THEN /\ documents' = Closed(outcome.documents, dirty_doc_index)
                     /\ num_documents' = num_documents - 1
                     /\ CloseDialog
                ELSE UNCHANGED <<documents, num_documents, popup, dirty_doc_index>>
       \/ /\ documents' = Closed(documents, dirty_doc_index)    \* No
          /\ num_documents' = num_documents - 1
          /\ CloseDialog
          /\ UNCHANGED files
       \/ CloseDialog /\ UNCHANGED <<documents, num_documents, files>>    \* Cancel
    /\ ToCommands(1)
    /\ UNCHANGED <<active_document_index, should_switch_tab, focus, quitting, asked, confirmed>>

AnswerExit ==
    /\ popup = "exit" /\ dirty_doc_index = None
    /\ \/ quitting' = TRUE /\ confirmed' = TRUE /\ UNCHANGED popup      \* Yes
       \/ popup' = "none" /\ UNCHANGED <<quitting, confirmed>>          \* No
    /\ ToCommands(1)
    /\ UNCHANGED <<documents, num_documents, active_document_index, should_switch_tab,
                   dirty_doc_index, focus, files, asked>>

NoAnswer ==
    /\ dirty_doc_index # None => popup = "save"
    /\ ToCommands(0)
    /\ UNCHANGED <<view, files, quitting, asked, confirmed>>

Popups ==
    /\ frame.pc = "popups"
    /\ OpenSaveDialog \/ AnswerSave \/ AnswerExit \/ NoAnswer
    /\ UNCHANGED <<commands, execution, doubled, runnerVars>>

-----------------------------------------------------------------------------
(* The commands, in the order they were given.  All but Open, New and Exit *)
(* act on the document that was active before the first of them.           *)
TakeCommand(type) ==
    /\ frame.pc = "commands" /\ commands # <<>> /\ Head(commands) = type
    /\ commands' = Tail(commands)

CmdExit ==
    /\ TakeCommand("exit")
    /\ IF ShouldConfirmExit THEN popup' = "exit" /\ UNCHANGED quitting
       ELSE quitting' = TRUE /\ UNCHANGED popup
    /\ UNCHANGED <<documents, num_documents, active_document_index, should_switch_tab,
                   dirty_doc_index, focus, files, execution, frame, history, runnerVars>>

(* new_document, with the given graph and path in the new tab. *)
NewDocument(content, path) ==
    /\ num_documents < MaxDocuments
    /\ documents' = [documents EXCEPT
          ![num_documents] = [@ EXCEPT !.content = content, !.path = path, !.is_dirty = FALSE]]
    /\ num_documents' = num_documents + 1
    /\ active_document_index' = num_documents /\ should_switch_tab' = TRUE

CmdNew ==
    /\ TakeCommand("new")
    /\ \/ NewDocument(Fresh, NoPath)
       \/ /\ num_documents = MaxDocuments
          /\ UNCHANGED <<documents, num_documents, active_document_index, should_switch_tab>>
    /\ UNCHANGED <<dirty_doc_index, focus, popup, files, execution, frame, quitting, history,
                   runnerVars>>

TabsOf(path) == {i \in Open : documents[i].path = path}

(* The file dialog is cancelled; or the file is already open; or there is  *)
(* no tab left; or it is read, which can fail before or in its middle, and *)
(* which leaves out what the registry does not know.                       *)
CmdOpen ==
    /\ TakeCommand("open")
    /\ \/ UNCHANGED <<documents, num_documents, active_document_index, should_switch_tab>>
       \/ \E path \in Paths :
             \/ /\ TabsOf(path) # {}
                /\ active_document_index' =
                      CHOOSE i \in TabsOf(path) : \A j \in TabsOf(path) : i <= j
                /\ should_switch_tab' = TRUE
                /\ UNCHANGED <<documents, num_documents>>
             \/ /\ TabsOf(path) = {}
                /\ \/ NewDocument(Fresh, NoPath)
                   \/ files[path] # Broken /\ \E content \in Remains(files[path]) :
                                                NewDocument(content, path)
    /\ UNCHANGED <<dirty_doc_index, focus, popup, files, execution, frame, quitting, history,
                   runnerVars>>

CmdSave ==
    /\ \/ TakeCommand("save") /\ \E outcome \in Save(frame.active) :
             documents' = outcome.documents /\ files' = outcome.files
       \/ TakeCommand("save_as") /\ \E outcome \in SaveAs(frame.active) :
             documents' = outcome.documents /\ files' = outcome.files
    /\ UNCHANGED <<num_documents, active_document_index, should_switch_tab, dirty_doc_index,
                   focus, popup, execution, frame, quitting, history, runnerVars>>

InitPipeline(buffers, k, graph) ==
    [buffers EXCEPT ![k] = [graph |-> graph, live |-> @.live + 1]]
CleanupPipeline(buffers, k) == [buffers EXCEPT ![k].live = @ - 1]

(* Mutant: the pipeline of the other graph is not cleaned up. *)
ReboundLeaking(graph) ==
    IF graph = pipeline_bound_graph THEN pipelines
    ELSE InitPipeline(pipelines, current_pipeline, graph)

(* The current pipeline is bound to the graph again when that is another   *)
(* one, the next is initialised from it and takes its place.  The worker   *)
(* cannot start in between, unless it has yet to take an earlier pipeline. *)
Rebound(graph) ==
    IF graph = pipeline_bound_graph THEN pipelines
    ELSE InitPipeline(IF pipeline_bound_graph = <<>> THEN pipelines
                      ELSE CleanupPipeline(pipelines, current_pipeline),
                      current_pipeline, graph)

(* Mutant: the state is not tested again. *)
ExecuteUnchecked(graph, next) ==
    /\ pipelines' = CleanupPipeline(InitPipeline(Rebound(graph), next, graph),
                                    current_pipeline)
    /\ pipeline_bound_graph' = graph /\ current_pipeline' = next
    /\ doubled' = (doubled \/ sent # <<>>)
    /\ Send(next)

Execute(graph, next) ==
    /\ current_state = "stopped"
    /\ pipelines' = CleanupPipeline(InitPipeline(Rebound(graph), next, graph),
                                    current_pipeline)
    /\ pipeline_bound_graph' = graph /\ current_pipeline' = next
    /\ doubled' = (doubled \/ sent # <<>>)
    /\ Send(next)

CmdExecute ==
    /\ TakeCommand("execute")
    /\ \/ Execute(Graph(documents[frame.active]), 1 - current_pipeline)
       \/ current_state # "stopped" /\ UNCHANGED <<execution, doubled, runnerVars>>
    /\ UNCHANGED <<view, files, frame, quitting, asked, confirmed>>

(* Mutant: a new node leaves the document unmarked. *)
CmdCreateUnmarked ==
    /\ \/ /\ TakeCommand("create_node")
          /\ documents' \in {documents, [documents EXCEPT ![frame.active].content = Fresh]}
       \/ /\ TakeCommand("create_edge")
          /\ documents' \in {documents, Marked(frame.active), Edited(frame.active)}
    /\ UNCHANGED <<num_documents, active_document_index, should_switch_tab, dirty_doc_index,
                   focus, popup, files, execution, frame, quitting, history, runnerVars>>

(* The graph may be full: then the document is marked for a node it did    *)
(* not get.  An edge that is rejected may come back as the valid id 0.     *)
CmdCreate ==
    /\ \/ /\ TakeCommand("create_node")
          /\ documents' \in {Marked(frame.active), Edited(frame.active)}
       \/ /\ TakeCommand("create_edge")
          /\ documents' \in {documents, Marked(frame.active), Edited(frame.active)}
    /\ UNCHANGED <<num_documents, active_document_index, should_switch_tab, dirty_doc_index,
                   focus, popup, files, execution, frame, quitting, history, runnerVars>>

EndFrame ==
    /\ frame.pc = "commands" /\ commands = <<>>
    /\ frame' = [frame EXCEPT !.pc = "begin", !.click = TRUE, !.can_create = FALSE,
                              !.visible = None, !.editable = FALSE, !.early = FALSE,
                              !.switching = FALSE,
                              !.active = 0]
    /\ UNCHANGED <<view, commands, files, execution, quitting, history, runnerVars>>

(* The end of the program. *)
Cleanup ==
    /\ frame.pc = "begin" /\ quitting
    /\ Reset
    /\ pipelines' = IF pipeline_bound_graph = <<>> THEN pipelines
                    ELSE CleanupPipeline(pipelines, current_pipeline)
    /\ Goto("ended")
    /\ UNCHANGED <<view, commands, files, current_pipeline, pipeline_bound_graph, quitting,
                   history>>

Commands == CmdExit \/ CmdNew \/ CmdOpen \/ CmdSave \/ CmdExecute \/ CmdCreate \/ EndFrame
Frame == Begin \/ Menu \/ Draw \/ Edit \/ Tabs \/ Keys \/ Popups \/ Commands
Worker == Work /\ UNCHANGED appVars

Next == QuitRequested \/ ReloadPlugins \/ MigrateDocuments \/ Frame \/ Cleanup \/ Worker

Spec == Init /\ [][Next]_vars

-----------------------------------------------------------------------------
IsOpen(editor) == \E i \in Open : documents[i].editor = editor
Of(editor) == documents[IndexOf(editor)]

(* The dialog "Save?" speaks of the document whose cross was clicked, by   *)
(* an index into a table whose entries trade places, and commands that     *)
(* open documents go on being carried out while it waits.                  *)
DialogKeepsItsDocument ==
    dirty_doc_index # None =>
        /\ dirty_doc_index \in Open
        /\ popup = "save" => documents[dirty_doc_index].editor = asked

(* A document with changes that were not saved is closed only by an answer *)
(* to a dialog that was opened for it, and the program ends with one open  *)
(* only after "Exit?" was answered with yes.                               *)
UnsavedWorkIsConfirmed ==
    [][/\ \A editor \in Editors :
             IsOpen(editor) /\ Of(editor).is_dirty => IsOpen(editor)' \/ asked = editor
       /\ (frame.pc = "ended")' => confirmed \/ ~ShouldConfirmExit]_vars

IsClean(editor) == IsOpen(editor) /\ Of(editor).path # NoPath /\ ~Of(editor).is_dirty
Reloading == frame.pc = "terminate"

(* A document becomes clean only by a save, with exactly what is in its    *)
(* file, or by being opened from its file, with all of it that the         *)
(* registry knows; and while it is clean its path and contents stay, but   *)
(* for what a reload of the plugins leaves out: the code marks no document *)
(* for that.  (The file can still change under it: a later save of it can  *)
(* fail, and another tab can be saved to its path.)                        *)
CleanMeansSaved ==
    [][\A editor \in Editors :
          IsClean(editor)' =>
              \/ Of(editor)'.content = files'[Of(editor)'.path]
              \/ ~IsOpen(editor) /\ Of(editor)'.content \in Remains(files[Of(editor)'.path])
              \/ /\ IsClean(editor) /\ Of(editor)'.path = Of(editor).path
                 /\ \/ Of(editor)'.content = Of(editor).content
                    \/ Reloading /\ Of(editor)'.content = Part(Of(editor).content)]_vars

(* The graph the worker walks is not changed by the user interface, with   *)
(* three exceptions.  early: draw_editor was told "editable" between Play  *)
(* and the worker's first store.  switching: a new node or edge goes to    *)
(* the active document, in the frame in which another one is still drawn.  *)
(* A closed document: its graph is built anew when the slot is taken.      *)
ExecutedGraphIsLeftAlone ==
    [][\A k \in executing : \A editor \in Editors :
          /\ pipelines[k].graph = Graph(Of(editor)) /\ IsOpen(editor)
          /\ ~frame.early /\ ~frame.switching
          => Of(editor)'.content = Of(editor).content]_vars

(* A pipeline that is executed, or on its way to the worker, has not been  *)
(* cleaned up, unless Play was carried out twice before the worker took    *)
(* the first: the state is still "stopped" then.                           *)
ExecutedPipelineIsLive ==
    ~doubled => \A k \in executing \union {sent[n] : n \in 1 .. Len(sent)} : pipelines[k].live = 1

(* Every initialisation of a pipeline is cleaned up once: at most the      *)
(* current one is live, through changes of the bound graph, reloads and    *)
(* the end of the program.                                                 *)
PipelineDataIsFreedOnce ==
    \A k \in Pipelines :
        pipelines[k].live = IF /\ pipeline_bound_graph # <<>> /\ k = current_pipeline
                               /\ frame.pc # "ended" THEN 1 ELSE 0

(* A new node or edge is created in the document that was drawn when the   *)
(* user asked for it, unless a tab was about to be selected.               *)
CreatedWhereDrawn ==
    /\ frame.pc = "commands" /\ commands # <<>>
    /\ Head(commands) \in {"create_node", "create_edge"} /\ ~frame.switching
    => documents[frame.active].editor = frame.visible
=============================================================================
