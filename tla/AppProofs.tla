----------------------------- MODULE AppProofs ------------------------------
(***************************************************************************)
(* App for any number of documents, paths and inputs.  The inductive       *)
(* invariant relates the table of documents, the frame, the two pipelines, *)
(* the dialogs, what the commands of a frame presume about it, and what is *)
(* known of the document that was drawn.                                   *)
(***************************************************************************)
EXTENDS App, SequenceTheorems, WellFoundedInduction, TLAPS

IsDocument(d) ==
    /\ DOMAIN d = {"editor", "half", "content", "path", "is_dirty"}
    /\ d.editor \in Editors

(* Documents trade places but each is at one index. *)
IsTable(docs) ==
    /\ docs = [i \in Editors |-> docs[i]]
    /\ \A i \in Editors : IsDocument(docs[i])
    /\ \A i, j \in Editors : docs[i].editor = docs[j].editor => i = j

DocumentsInv ==
    /\ IsTable(documents)
    /\ num_documents \in 0 .. MaxDocuments
    /\ active_document_index \in Editors
    /\ dirty_doc_index \in Open \union {None}

Places == {"begin", "terminate", "menu", "draw", "edit", "tabs", "keys", "popups",
           "commands", "ended"}

(* The visible tab is open from the moment it is drawn to the end of the   *)
(* loop over the tabs.                                                     *)
FrameInv ==
    /\ DOMAIN frame = {"pc", "click", "can_create", "visible", "editable", "early", "switching",
                       "active", "inputs"}
    /\ frame.pc \in Places
    /\ frame.active \in Editors
    /\ frame.pc \in {"edit", "tabs"} =>
          /\ frame.switching = should_switch_tab
          /\ frame.visible # None => IsOpen(frame.visible)
    /\ frame.editable => frame.pc \in {"edit", "tabs"} /\ frame.visible # None

IsBuffers(buffers) ==
    /\ buffers = [k \in Pipelines |-> buffers[k]]
    /\ \A k \in Pipelines : DOMAIN buffers[k] = {"graph", "live"} /\ buffers[k].live \in Int

(* The worker executes a pipeline exactly while it is running, and every   *)
(* pipeline is one of the bound graph.                                     *)
ExecutionInv ==
    /\ current_state \in {"stopped", "running"}
    /\ sent \in Seq(Pipelines) /\ executing \subseteq Pipelines
    /\ current_state = "stopped" => executing = Nothing
    /\ current_pipeline \in Pipelines
    /\ IsBuffers(pipelines)
    /\ \A k \in Pipelines : pipelines[k].graph = pipeline_bound_graph
    /\ PipelineDataIsFreedOnce
    /\ ~doubled =>
          \A k \in executing \union {sent[n] : n \in 1 .. Len(sent)} :
             k = current_pipeline /\ pipeline_bound_graph # <<>> /\ frame.pc # "ended"

(* A click is not spent before the tabs, and a dialog takes it.            *)
DialogInv ==
    /\ popup \in {"none", "save", "exit"}
    /\ popup = "save" => dirty_doc_index # None /\ documents[dirty_doc_index].editor = asked
    /\ dirty_doc_index # None /\ frame.pc \notin {"keys", "popups"} => popup # "none"
    /\ frame.click => frame.pc \notin {"keys", "popups", "commands"}
    /\ frame.click /\ frame.pc \in {"menu", "draw", "edit", "tabs"} => popup = "none"

Types == {"new", "open", "save", "save_as", "exit", "execute", "create_node", "create_edge"}
Given(types) == \E n \in 1 .. Len(commands) : commands[n] \in types
Creating == Given({"create_node", "create_edge"})

(* Until the user clicks there is no command but the exit of a request to  *)
(* quit, which found unsaved work; so what a click creates is created in a *)
(* frame without another click, and a program that quits creates nothing.  *)
CommandsInv ==
    /\ commands \in Seq(Types)
    /\ frame.click \/ frame.pc \in {"begin", "terminate"} =>
          /\ Len(commands) <= 1
          /\ \A n \in 1 .. Len(commands) : commands[n] = "exit"
          /\ commands # <<>> => ShouldConfirmExit
    /\ Creating =>
          /\ frame.pc \in {"tabs", "keys", "popups", "commands"}
          /\ frame.pc # "commands" => popup = "none"
          /\ dirty_doc_index = None
          /\ ~Given({"execute"})
          /\ \A n \in 2 .. Len(commands) : commands[n] # "exit"
          /\ commands[1] = "exit" => ShouldConfirmExit
    /\ quitting => frame.pc \in {"begin", "commands", "ended"}
    /\ quitting /\ ~confirmed => ~ShouldConfirmExit /\ ~Creating

(* What is created is created in the document that was drawn, whose graph  *)
(* the worker does not walk and will not before the frame ends.            *)
DrawnInv ==
    /\ Creating => IsOpen(frame.visible)
    /\ Creating /\ ~frame.switching =>
          /\ frame.pc \in {"keys", "popups"} =>
                documents[active_document_index].editor = frame.visible
          /\ frame.pc = "commands" => documents[frame.active].editor = frame.visible
    /\ (frame.editable \/ Creating) /\ ~frame.early =>
          \/ \A i \in Editors : documents[i].editor = frame.visible =>
                Graph(documents[i]) # pipeline_bound_graph
          \/ executing = Nothing /\ sent = <<>>

EndedInv == frame.pc = "ended" => quitting

(* A path is one of a file, which holds something from the start. *)
FilesInv ==
    /\ DOMAIN files = Paths
    /\ \A i \in Editors : documents[i].path \in Paths \union {NoPath}

AppInv ==
    /\ DocumentsInv /\ FrameInv /\ ExecutionInv /\ DialogInv /\ CommandsInv /\ DrawnInv
    /\ EndedInv /\ FilesInv

-----------------------------------------------------------------------------
(* The table of documents. *)
LEMMA UniqueIndex ==
    ASSUME NEW docs, IsTable(docs), NEW i \in Editors
    PROVE  (CHOOSE j \in Editors : docs[j].editor = docs[i].editor) = i
BY DEF IsTable

LEMMA EditorsAreIndices ==
    /\ Editors \subseteq Int /\ 0 \in Editors
    /\ \A num \in 1 .. MaxDocuments : num - 1 \in Editors
    /\ \A num \in 0 .. MaxDocuments : 0 .. num - 1 \subseteq Editors
BY AppAssumption DEF Editors

(* What keeps every document's editor keeps the table. *)
LEMMA SameEditors ==
    ASSUME NEW docs, IsTable(docs), NEW table,
           table = [i \in Editors |-> table[i]],
           \A i \in Editors : IsDocument(table[i]) /\ table[i].editor = docs[i].editor
    PROVE  IsTable(table)
BY DEF IsTable

Swapped(docs, i, j) == [docs EXCEPT ![i] = docs[j], ![j] = docs[i]]

LEMMA SwapKeepsTable ==
    ASSUME NEW docs, IsTable(docs), NEW i \in Editors, NEW j \in Editors
    PROVE  /\ IsTable(Swapped(docs, i, j))
           /\ Swapped(docs, i, j)[i] = docs[j]
           /\ Swapped(docs, i, j)[j] = docs[i]
           /\ \A k \in Editors \ {i, j} : Swapped(docs, i, j)[k] = docs[k]
<1>1. docs = [k \in Editors |-> docs[k]]
  BY DEF IsTable
<1>2. /\ Swapped(docs, i, j) = [k \in Editors |-> Swapped(docs, i, j)[k]]
      /\ Swapped(docs, i, j)[i] = docs[j]
      /\ Swapped(docs, i, j)[j] = docs[i]
      /\ \A k \in Editors \ {i, j} : Swapped(docs, i, j)[k] = docs[k]
  BY <1>1 DEF Swapped
<1> HIDE DEF Swapped
<1> QED
  BY <1>2, SMTT(30) DEF IsTable

(* A table in which one document has other fields than its editor. *)
Writes(table, docs, i, content, path, is_dirty) ==
    /\ table = [j \in Editors |-> table[j]]
    /\ IsDocument(table[i])
    /\ table[i].editor = docs[i].editor /\ table[i].half = docs[i].half
    /\ table[i].content = content /\ table[i].path = path /\ table[i].is_dirty = is_dirty
    /\ \A j \in Editors \ {i} : table[j] = docs[j]

LEMMA WriteKeepsTable ==
    ASSUME NEW docs, IsTable(docs), NEW i \in Editors, NEW table,
           NEW content, NEW path, NEW is_dirty, Writes(table, docs, i, content, path, is_dirty)
    PROVE  IsTable(table)
BY SameEditors DEF Writes, IsTable

(* The index of an open document, and the one a document is moved from.    *)
LEMMA OpenIndices ==
    ASSUME DocumentsInv
    PROVE  /\ Open \subseteq Editors
           /\ \A i \in Open : num_documents - 1 \in Open /\ num_documents \in 1 .. MaxDocuments
           /\ \A i \in Editors : IndexOf(documents[i].editor) = i
<1>1. Open \subseteq Editors /\ \A i \in Open : num_documents - 1 \in Open
                                              /\ num_documents \in 1 .. MaxDocuments
  BY EditorsAreIndices, AppAssumption DEF DocumentsInv, Open
<1>2. \A i \in Editors : IndexOf(documents[i].editor) = i
  BY UniqueIndex DEF DocumentsInv, IndexOf
<1> QED
  BY <1>1, <1>2

(* A reload turns every open document, which keeps its graph or a part of  *)
(* it and everything else.                                                 *)
Turns(after, before) ==
    /\ IsDocument(after)
    /\ after.editor = before.editor /\ after.path = before.path
    /\ after.is_dirty = before.is_dirty /\ after.content \in Remains(before.content)

LEMMA MigrateTurns ==
    ASSUME DocumentsInv, MigrateDocuments
    PROVE  /\ Open' = Open /\ documents' = [i \in Editors |-> documents'[i]]
           /\ \A i \in Editors : Turns(documents'[i], documents[i])
<1>1. PICK lossy \in SUBSET Open :
         documents' = [i \in Editors |->
              IF i \in Open
              THEN [documents[i] EXCEPT !.half = 1 - @,
                                        !.content = IF i \in lossy THEN Part(@) ELSE @]
              ELSE documents[i]]
  BY DEF MigrateDocuments
<1>2. ASSUME NEW i \in Editors
      PROVE  Turns(documents'[i], documents[i])
  <2>1. IsDocument(documents[i])
    BY DEF DocumentsInv, IsTable
  <2>2. CASE i \in Open
    <3>1. documents'[i] = [documents[i] EXCEPT !.half = 1 - @,
                             !.content = IF i \in lossy THEN Part(@) ELSE @]
      BY <1>1, <2>2
    <3>2. documents'[i].content = IF i \in lossy THEN Part(documents[i].content)
                                  ELSE documents[i].content
      BY <2>1, <3>1 DEF IsDocument
    <3>3. /\ IsDocument(documents'[i])
          /\ documents'[i].editor = documents[i].editor /\ documents'[i].path = documents[i].path
          /\ documents'[i].is_dirty = documents[i].is_dirty
      BY <2>1, <3>1 DEF IsDocument
    <3> QED
      BY <3>2, <3>3 DEF Turns, Remains
  <2>3. CASE i \notin Open
    BY <1>1, <2>1, <2>3 DEF Turns, Remains
  <2> QED
    BY <2>2, <2>3
<1>3. documents' = [i \in Editors |-> documents'[i]] /\ Open' = Open
  BY <1>1 DEF MigrateDocuments, Open
<1> QED
  BY <1>2, <1>3

LEMMA MigrateKeepsDocuments ==
    ASSUME DocumentsInv, MigrateDocuments
    PROVE  DocumentsInv'
<1>1. IsTable(documents')
  BY MigrateTurns, SameEditors DEF DocumentsInv, Turns
<1> QED
  BY <1>1 DEF DocumentsInv, MigrateDocuments, Open

LEMMA EditWrites ==
    ASSUME DocumentsInv, NEW i \in Editors, documents' = Edited(i)
    PROVE  Writes(documents', documents, i, Fresh, documents[i].path, TRUE)
BY DEF DocumentsInv, IsTable, IsDocument, Edited, Writes

LEMMA MarkWrites ==
    ASSUME DocumentsInv, NEW i \in Editors, documents' = Marked(i)
    PROVE  Writes(documents', documents, i, documents[i].content, documents[i].path, TRUE)
BY DEF DocumentsInv, IsTable, IsDocument, Marked, Writes

LEMMA NewWrites ==
    ASSUME DocumentsInv, NEW content, NEW path, NewDocument(content, path)
    PROVE  /\ num_documents \in Editors /\ num_documents' = num_documents + 1
           /\ Writes(documents', documents, num_documents, content, path, FALSE)
<1>1. num_documents \in Editors
  BY AppAssumption DEF DocumentsInv, NewDocument, Editors
<1> QED
  BY <1>1 DEF DocumentsInv, IsTable, IsDocument, NewDocument, Writes

LEMMA SaveWrites ==
    ASSUME DocumentsInv, NEW i \in Editors, NEW path
    PROVE  Writes([documents EXCEPT ![i].is_dirty = FALSE, ![i].path = path],
                  documents, i, documents[i].content, path, FALSE)
<1> SUFFICES ASSUME NEW table,
                    table = [documents EXCEPT ![i].is_dirty = FALSE, ![i].path = path]
             PROVE  Writes(table, documents, i, documents[i].content, path, FALSE)
  OBVIOUS
<1> QED
  BY DEF DocumentsInv, IsTable, IsDocument, Writes

(* A save either leaves the documents alone or cleans one of them. *)
LEMMA SaveOutcomes ==
    ASSUME DocumentsInv, NEW i \in Editors, NEW outcome \in Save(i) \union SaveAs(i)
    PROVE  \/ ~outcome.saved /\ outcome.documents = documents
           \/ \E path \in Paths \union ({documents[i].path} \ {NoPath}) :
                 /\ outcome.saved
                 /\ Writes(outcome.documents, documents, i, documents[i].content, path, FALSE)
                 /\ outcome.files = [files EXCEPT ![path] = documents[i].content]
<1>1. PICK path \in Paths \union ({documents[i].path} \ {NoPath}) :
         outcome \in SaveDocumentAt(i, path)
  BY DEF Save, SaveAs
<1> DEFINE saved == [documents EXCEPT ![i].is_dirty = FALSE, ![i].path = path]
           broken == [files EXCEPT ![path] = Broken]
           written == [files EXCEPT ![path] = documents[i].content]
<1>2. outcome \in {[documents |-> documents, files |-> files, saved |-> FALSE],
                   [documents |-> documents, files |-> broken, saved |-> FALSE],
                   [documents |-> saved, files |-> written, saved |-> TRUE]}
  BY <1>1 DEF SaveDocumentAt
<1>3. Writes(saved, documents, i, documents[i].content, path, FALSE)
  BY SaveWrites
<1> HIDE DEF saved, broken
<1>4. \/ ~outcome.saved /\ outcome.documents = documents
      \/ outcome.saved /\ outcome.documents = saved /\ outcome.files = written
  BY <1>2
<1> QED
  BY <1>1, <1>3, <1>4

LEMMA CloseSwaps ==
    ASSUME DocumentsInv, NEW i \in Open, NEW docs, IsTable(docs)
    PROVE  LET last == num_documents - 1 IN
           /\ last \in Editors /\ last \in 0 .. MaxDocuments
           /\ IsTable(Closed(docs, i))
           /\ Closed(docs, i)[i] = docs[last] /\ Closed(docs, i)[last] = docs[i]
           /\ \A j \in Editors \ {i, last} : Closed(docs, i)[j] = docs[j]
<1> DEFINE last == num_documents - 1
<1>1. i \in Editors /\ last \in Editors /\ last \in 0 .. MaxDocuments
  BY OpenIndices, AppAssumption DEF Editors, Open
<1>2. Closed(docs, i) = Swapped(docs, i, last)
  BY DEF Closed, Swapped
<1> HIDE DEF last
<1>3. /\ IsTable(Swapped(docs, i, last))
      /\ Swapped(docs, i, last)[i] = docs[last]
      /\ Swapped(docs, i, last)[last] = docs[i]
      /\ \A k \in Editors \ {i, last} : Swapped(docs, i, last)[k] = docs[k]
  BY <1>1, SwapKeepsTable
<1> QED
  BY <1>1, <1>2, <1>3 DEF last

-----------------------------------------------------------------------------
(* Every step keeps the table of documents. *)
LEMMA SameIndices ==
    ASSUME DocumentsInv, IsTable(documents'),
           UNCHANGED <<num_documents, active_document_index, dirty_doc_index>>
    PROVE  DocumentsInv'
BY DEF DocumentsInv, Open

LEMMA ShownIsOpen ==
    ASSUME DocumentsInv, FrameInv, frame.pc \in {"edit", "tabs"}, frame.visible # None
    PROVE  Visible \in Open /\ Visible \in Editors /\ documents[Visible].editor = frame.visible
<1>1. PICK i \in Open : documents[i].editor = frame.visible
  BY DEF FrameInv, IsOpen
<1> QED
  BY <1>1, OpenIndices DEF Visible

LEMMA EditKeepsDocuments ==
    ASSUME DocumentsInv, FrameInv, Edit
    PROVE  DocumentsInv'
<1>1. UNCHANGED <<num_documents, active_document_index, dirty_doc_index>>
  BY DEF Edit
<1>2. CASE UNCHANGED documents
  BY <1>1, <1>2, SameIndices DEF DocumentsInv
<1>3. CASE frame.editable /\ documents' = Edited(Visible)
  BY <1>1, <1>3, ShownIsOpen, EditWrites, WriteKeepsTable, SameIndices
  DEF DocumentsInv, FrameInv
<1>4. CASE frame.editable /\ documents' = Marked(Visible)
  BY <1>1, <1>4, ShownIsOpen, MarkWrites, WriteKeepsTable, SameIndices
  DEF DocumentsInv, FrameInv
<1> QED
  BY <1>2, <1>3, <1>4 DEF Edit, EditInPlace, QueueEdge, QueueNode, Visible

LEMMA TabsKeepDocuments ==
    ASSUME DocumentsInv, FrameInv, DialogInv, Tabs
    PROVE  DocumentsInv'
<1> USE DEF DocumentsInv
<1>1. frame.pc = "tabs" /\ (frame.visible # None => Visible \in Editors)
  BY ShownIsOpen DEF Tabs
<1>2. CASE KeepTabs
  BY <1>1, <1>2 DEF KeepTabs, LeaveTabs, Open
<1>3. ASSUME NEW i \in Open, documents[i].is_dirty, dirty_doc_index' = i,
             LeaveTabs(documents, num_documents, Visible)
      PROVE  DocumentsInv'
  BY <1>1, <1>3 DEF LeaveTabs, Open
<1>4. ASSUME NEW i \in Open, frame.click, UNCHANGED dirty_doc_index,
             LeaveTabs(Closed(documents, i), num_documents - 1,
                       IF Visible = num_documents - 1 THEN i ELSE Visible)
      PROVE  DocumentsInv'
  <2>1. dirty_doc_index = None
    BY <1>1, <1>4 DEF DialogInv
  <2>2. i \in Editors
    BY OpenIndices
  <2>3. IsTable(Closed(documents, i)) /\ num_documents - 1 \in 0 .. MaxDocuments
    BY CloseSwaps
  <2> QED
    BY <1>1, <1>4, <2>1, <2>2, <2>3 DEF LeaveTabs
<1> QED
  BY <1>2, <1>3, <1>4 DEF Tabs, CloseTab

(* The document whose cross was clicked is closed, saved or not. *)
LEMMA ClosingKeepsDocuments ==
    ASSUME DocumentsInv, dirty_doc_index # None, NEW docs, IsTable(docs),
           documents' = Closed(docs, dirty_doc_index), num_documents' = num_documents - 1,
           UNCHANGED active_document_index, dirty_doc_index' = None
    PROVE  DocumentsInv'
<1>1. dirty_doc_index \in Open
  BY DEF DocumentsInv
<1>2. IsTable(Closed(docs, dirty_doc_index)) /\ num_documents - 1 \in 0 .. MaxDocuments
  BY <1>1, CloseSwaps
<1> QED
  BY <1>2 DEF DocumentsInv

LEMMA PopupsKeepDocuments ==
    ASSUME DocumentsInv, DialogInv, Popups
    PROVE  DocumentsInv'
<1>1. CASE OpenSaveDialog
  <2>1. dirty_doc_index \in Editors
    BY <1>1, OpenIndices DEF DocumentsInv, OpenSaveDialog
  <2> QED
    BY <1>1, <2>1 DEF OpenSaveDialog, DocumentsInv, Open
<1>2. CASE AnswerSave
  <2>0. dirty_doc_index # None /\ dirty_doc_index \in Editors
    BY <1>2, OpenIndices DEF AnswerSave, DialogInv, DocumentsInv
  <2>1. ASSUME NEW outcome \in Save(dirty_doc_index), outcome.saved,
               documents' = Closed(outcome.documents, dirty_doc_index),
               num_documents' = num_documents - 1, CloseDialog
        PROVE  DocumentsInv'
    <3>1. PICK path : Writes(outcome.documents, documents, dirty_doc_index,
                             documents[dirty_doc_index].content, path, FALSE)
      BY <2>0, <2>1, SaveOutcomes
    <3>2. IsTable(outcome.documents)
      BY <2>0, <3>1, WriteKeepsTable DEF DocumentsInv
    <3> QED
      BY <1>2, <2>0, <2>1, <3>2, ClosingKeepsDocuments DEF CloseDialog, AnswerSave
  <2>2. ASSUME documents' = Closed(documents, dirty_doc_index),
               num_documents' = num_documents - 1, CloseDialog
        PROVE  DocumentsInv'
    BY <1>2, <2>0, <2>2, ClosingKeepsDocuments DEF CloseDialog, AnswerSave, DocumentsInv
  <2>3. ASSUME UNCHANGED <<documents, num_documents>>,
               UNCHANGED dirty_doc_index \/ dirty_doc_index' = None
        PROVE  DocumentsInv'
    BY <1>2, <2>3 DEF AnswerSave, DocumentsInv, Open
  <2> QED
    BY <1>2, <2>1, <2>2, <2>3 DEF AnswerSave, CloseDialog
<1>3. CASE UNCHANGED <<documents, num_documents, active_document_index, dirty_doc_index>>
  BY <1>3, SameIndices DEF DocumentsInv
<1> QED
  BY <1>1, <1>2, <1>3 DEF Popups, AnswerExit, NoAnswer, view

LEMMA NewKeepsDocuments ==
    ASSUME DocumentsInv, NEW content, NEW path, NewDocument(content, path),
           UNCHANGED dirty_doc_index
    PROVE  DocumentsInv'
<1>1. num_documents \in Editors /\ IsTable(documents')
  BY NewWrites, WriteKeepsTable DEF DocumentsInv
<1>2. num_documents + 1 \in 0 .. MaxDocuments
  BY <1>1, AppAssumption DEF Editors
<1> QED
  BY <1>1, <1>2 DEF DocumentsInv, NewDocument, Open

LEMMA LeastIndex ==
    ASSUME NEW indices, indices \subseteq Nat, indices # {}
    PROVE  (CHOOSE i \in indices : \A j \in indices : i <= j) \in indices
<1>1. PICK i \in indices : \A j \in indices : <<j, i>> \notin OpToRel(<, Nat)
  BY NatLessThanWellFounded, WFMin
<1>2. ASSUME NEW j \in indices
      PROVE  i <= j
  <2>1. <<j, i>> \in Nat \X Nat /\ <<j, i>>[1] = j /\ <<j, i>>[2] = i
    OBVIOUS
  <2>2. ~(j < i)
    BY <1>1, <2>1 DEF OpToRel
  <2> QED
    BY <2>2
<1> QED
  BY <1>2

LEMMA OpenKeepsDocuments ==
    ASSUME DocumentsInv, CmdOpen
    PROVE  DocumentsInv'
<1>1. ASSUME UNCHANGED <<documents, num_documents>>, active_document_index' \in Editors
      PROVE  DocumentsInv'
  BY <1>1 DEF CmdOpen, DocumentsInv, Open
<1>2. ASSUME NEW path \in Paths, TabsOf(path) # {}
      PROVE  (CHOOSE i \in TabsOf(path) : \A j \in TabsOf(path) : i <= j) \in Editors
  <2>1. TabsOf(path) \subseteq Editors /\ TabsOf(path) \subseteq Nat
    BY OpenIndices DEF TabsOf, Editors
  <2> QED
    BY <1>2, <2>1, LeastIndex
<1> QED
  BY <1>1, <1>2, NewKeepsDocuments DEF CmdOpen, DocumentsInv

LEMMA SaveKeepsDocuments ==
    ASSUME DocumentsInv, FrameInv, CmdSave
    PROVE  DocumentsInv'
<1>1. frame.active \in Editors
  BY DEF FrameInv
<1>2. PICK outcome \in Save(frame.active) \union SaveAs(frame.active) :
         documents' = outcome.documents
  BY DEF CmdSave
<1>3. IsTable(documents')
  BY <1>1, <1>2, SaveOutcomes, WriteKeepsTable DEF DocumentsInv
<1> QED
  BY <1>3, SameIndices DEF CmdSave

LEMMA CreateKeepsDocuments ==
    ASSUME DocumentsInv, FrameInv, CmdCreate
    PROVE  DocumentsInv'
<1>1. frame.active \in Editors
  BY DEF FrameInv
<1>2. documents' \in {documents, Marked(frame.active), Edited(frame.active)}
  BY DEF CmdCreate
<1>3. IsTable(documents')
  BY <1>1, <1>2, EditWrites, MarkWrites, WriteKeepsTable DEF DocumentsInv
<1> QED
  BY <1>3, SameIndices DEF CmdCreate

LEMMA DocumentsStep ==
    ASSUME DocumentsInv, FrameInv, DialogInv, [Next]_vars
    PROVE  DocumentsInv'
<1>1. CASE CmdNew
  <2>1. CASE NewDocument(Fresh, NoPath)
    BY <1>1, <2>1, NewKeepsDocuments DEF CmdNew
  <2>2. CASE UNCHANGED <<documents, num_documents, active_document_index>>
    BY <1>1, <2>2, SameIndices DEF CmdNew, DocumentsInv
  <2> QED
    BY <1>1, <2>1, <2>2 DEF CmdNew
<1>2. CASE UNCHANGED <<documents, num_documents, active_document_index, dirty_doc_index>>
  BY <1>2, SameIndices DEF DocumentsInv
<1> QED
  BY <1>1, <1>2, MigrateKeepsDocuments, EditKeepsDocuments, TabsKeepDocuments,
     PopupsKeepDocuments, OpenKeepsDocuments, SaveKeepsDocuments, CreateKeepsDocuments
  DEF Next, QuitRequested, ReloadPlugins, Frame, Begin, Menu, Draw, Keys, Commands, CmdExit,
      CmdExecute, EndFrame, Cleanup, Worker, view, appVars, vars

-----------------------------------------------------------------------------
(* The frame goes its way, with an open tab while one is drawn. *)
LEMMA EditKeepsOpen ==
    ASSUME DocumentsInv, FrameInv, Edit
    PROVE  /\ Open' = Open
           /\ \A i \in Editors : documents'[i].editor = documents[i].editor
                              /\ documents'[i].half = documents[i].half
<1>1. Open' = Open
  BY DEF Edit, Open
<1>2. CASE UNCHANGED documents
  BY <1>1, <1>2
<1>3. CASE frame.editable /\ documents' = Edited(Visible)
  BY <1>1, <1>3, ShownIsOpen, EditWrites DEF FrameInv, Writes
<1>4. CASE frame.editable /\ documents' = Marked(Visible)
  BY <1>1, <1>4, ShownIsOpen, MarkWrites DEF FrameInv, Writes
<1> QED
  BY <1>1, <1>2, <1>3, <1>4 DEF Edit, EditInPlace, QueueEdge, QueueNode, Visible

LEMMA DrawKeepsFrame ==
    ASSUME DocumentsInv, FrameInv, Draw
    PROVE  FrameInv'
<1>1. PICK editor \in VisibleTabs :
         frame' = [frame EXCEPT
              !.pc = "edit", !.visible = editor,
              !.editable = /\ editor # None
                           /\ \/ Graph(documents[IndexOf(editor)]) # pipeline_bound_graph
                              \/ current_state = "stopped",
              !.early = current_state = "stopped" /\ sent # <<>>,
              !.switching = should_switch_tab]
  BY DEF Draw
<1>2. /\ DOMAIN frame' = DOMAIN frame
      /\ frame'.pc = "edit" /\ frame'.visible = editor /\ frame'.active = frame.active
      /\ frame'.switching = should_switch_tab
      /\ frame'.editable => editor # None
  BY <1>1 DEF FrameInv
<1>3. editor # None => IsOpen(editor)
  BY <1>1 DEF VisibleTabs, IsOpen
<1> QED
  BY <1>2, <1>3 DEF FrameInv, Places, Draw, view, IsOpen, Open

LEMMA EditKeepsFrame ==
    ASSUME DocumentsInv, FrameInv, Edit
    PROVE  FrameInv'
<1>1. /\ DOMAIN frame' = DOMAIN frame
      /\ frame'.pc = "tabs" /\ frame'.visible = frame.visible /\ frame'.active = frame.active
      /\ frame'.switching = frame.switching /\ frame'.editable = frame.editable
      /\ should_switch_tab' = should_switch_tab
      /\ frame.pc = "edit"
  BY DEF Edit, Goto, EditInPlace, QueueEdge, QueueNode, Input, Click, FrameInv
<1>2. frame.visible # None => IsOpen(frame.visible)'
  BY <1>1, EditKeepsOpen, OpenIndices DEF FrameInv, IsOpen
<1> QED
  BY <1>1, <1>2 DEF FrameInv, Places

LEMMA PopupsKeepFrame ==
    ASSUME DocumentsInv, FrameInv, Popups
    PROVE  FrameInv'
<1>1. dirty_doc_index # None => dirty_doc_index \in Editors
  BY OpenIndices DEF DocumentsInv
<1> QED
  BY <1>1 DEF Popups, OpenSaveDialog, AnswerSave, AnswerExit, NoAnswer, ToCommands, FrameInv,
              DocumentsInv, Places

LEMMA FrameStep ==
    ASSUME DocumentsInv, FrameInv, [Next]_vars
    PROVE  FrameInv'
<1> USE DEF FrameInv, Places
<1>1. CASE QuitRequested
  BY <1>1 DEF QuitRequested, Input
<1>2. CASE ReloadPlugins
  BY <1>2 DEF ReloadPlugins, Input
<1>3. CASE MigrateDocuments
  BY <1>3 DEF MigrateDocuments, NewFrame
<1>4. CASE Begin
  BY <1>4 DEF Begin, NewFrame
<1>5. CASE Menu
  BY <1>5 DEF Menu, Goto, Click
<1>6. CASE Tabs
  <2>1. /\ DOMAIN frame' = DOMAIN frame /\ frame'.pc = "keys"
        /\ frame'.active = frame.active /\ frame'.editable = FALSE
    BY <1>6 DEF Tabs, KeepTabs, CloseTab
  <2> QED
    BY <2>1
<1>7. CASE Keys
  <2>1. /\ DOMAIN frame' = DOMAIN frame /\ frame'.pc = "popups" /\ frame.pc = "keys"
        /\ frame'.active = frame.active /\ frame'.editable = frame.editable
    BY <1>7 DEF Keys, Goto, Input
  <2> QED
    BY <2>1
<1>8. CASE EndFrame
  BY <1>8, EditorsAreIndices DEF EndFrame
<1>9. CASE Cleanup
  BY <1>9 DEF Cleanup, Goto
<1>10. CASE UNCHANGED frame /\ frame.pc = "commands"
  BY <1>10
<1>11. CASE UNCHANGED <<frame, documents, num_documents, should_switch_tab>>
  BY <1>11 DEF IsOpen, Open
<1> QED
  BY <1>1, <1>2, <1>3, <1>4, <1>5, <1>6, <1>7, <1>8, <1>9, <1>10, <1>11, DrawKeepsFrame,
     EditKeepsFrame, PopupsKeepFrame
  DEF Next, Frame, Commands, CmdExit, CmdNew, CmdOpen, CmdSave, CmdExecute, CmdCreate,
      TakeCommand, Worker, view, appVars, vars

-----------------------------------------------------------------------------
(* The two pipelines. *)
LEMMA InitFills ==
    ASSUME NEW buffers, IsBuffers(buffers), NEW k \in Pipelines, NEW graph
    PROVE  LET filled == InitPipeline(buffers, k, graph) IN
           /\ IsBuffers(filled)
           /\ filled[k].graph = graph /\ filled[k].live = buffers[k].live + 1
           /\ \A j \in Pipelines \ {k} : filled[j] = buffers[j]
<1> SUFFICES ASSUME NEW filled, filled = InitPipeline(buffers, k, graph)
             PROVE  /\ IsBuffers(filled)
                    /\ filled[k].graph = graph /\ filled[k].live = buffers[k].live + 1
                    /\ \A j \in Pipelines \ {k} : filled[j] = buffers[j]
  OBVIOUS
<1> QED
  BY DEF IsBuffers, InitPipeline

LEMMA CleanupEmpties ==
    ASSUME NEW buffers, IsBuffers(buffers), NEW k \in Pipelines
    PROVE  LET emptied == CleanupPipeline(buffers, k) IN
           /\ IsBuffers(emptied)
           /\ emptied[k].graph = buffers[k].graph /\ emptied[k].live = buffers[k].live - 1
           /\ \A j \in Pipelines \ {k} : emptied[j] = buffers[j]
<1> SUFFICES ASSUME NEW emptied, emptied = CleanupPipeline(buffers, k)
             PROVE  /\ IsBuffers(emptied)
                    /\ emptied[k].graph = buffers[k].graph /\ emptied[k].live = buffers[k].live - 1
                    /\ \A j \in Pipelines \ {k} : emptied[j] = buffers[j]
  OBVIOUS
<1> QED
  BY DEF IsBuffers, CleanupPipeline

(* However the current pipeline was bound, it is live and of the graph. *)
LEMMA ReboundIsLive ==
    ASSUME ExecutionInv, frame.pc # "ended", NEW graph, graph # <<>>
    PROVE  LET rebound == Rebound(graph) IN
           /\ IsBuffers(rebound)
           /\ rebound[current_pipeline].graph = graph /\ rebound[current_pipeline].live = 1
           /\ \A j \in Pipelines \ {current_pipeline} : rebound[j].live = 0
<1>1. /\ IsBuffers(pipelines) /\ current_pipeline \in Pipelines
      /\ \A k \in Pipelines :
            /\ pipelines[k].graph = pipeline_bound_graph
            /\ pipelines[k].live = IF pipeline_bound_graph # <<>> /\ k = current_pipeline
                                   THEN 1 ELSE 0
  BY DEF ExecutionInv, PipelineDataIsFreedOnce
<1>2. CASE graph = pipeline_bound_graph
  BY <1>1, <1>2 DEF Rebound
<1>3. CASE graph # pipeline_bound_graph /\ pipeline_bound_graph = <<>>
  <2>1. Rebound(graph) = InitPipeline(pipelines, current_pipeline, graph)
    BY <1>3 DEF Rebound
  <2> QED
    BY <1>1, <1>3, <2>1, InitFills
<1>4. CASE graph # pipeline_bound_graph /\ pipeline_bound_graph # <<>>
  <2> DEFINE emptied == CleanupPipeline(pipelines, current_pipeline)
  <2>1. Rebound(graph) = InitPipeline(emptied, current_pipeline, graph)
    BY <1>4 DEF Rebound
  <2>2. /\ IsBuffers(emptied) /\ emptied[current_pipeline].live = 0
        /\ \A j \in Pipelines \ {current_pipeline} : emptied[j].live = 0
    BY <1>1, <1>4, CleanupEmpties
  <2> HIDE DEF emptied
  <2> QED
    BY <1>1, <2>1, <2>2, InitFills
<1> QED
  BY <1>2, <1>3, <1>4

LEMMA ExecuteKeepsExecution ==
    ASSUME ExecutionInv, FrameInv, CmdExecute
    PROVE  ExecutionInv'
<1>0. frame.pc = "commands" /\ frame' = frame
  BY DEF CmdExecute, TakeCommand
<1>1. CASE UNCHANGED <<execution, doubled, runnerVars>>
  BY <1>0, <1>1 DEF ExecutionInv, PipelineDataIsFreedOnce, execution, runnerVars
<1>2. ASSUME NEW graph, graph # <<>>, Execute(graph, 1 - current_pipeline)
      PROVE  ExecutionInv'
  <2> DEFINE next == 1 - current_pipeline
             filled == InitPipeline(Rebound(graph), next, graph)
  <2>1. /\ IsBuffers(pipelines) /\ current_pipeline \in Pipelines /\ Pipelines = {0, 1}
        /\ sent \in Seq(Pipelines) /\ executing = Nothing
    BY <1>2, AppAssumption DEF ExecutionInv, Execute
  <2>2. next \in Pipelines /\ next # current_pipeline /\ Pipelines = {next, current_pipeline}
    BY <2>1
  <2>3. /\ pipelines' = CleanupPipeline(filled, current_pipeline)
        /\ pipeline_bound_graph' = graph /\ current_pipeline' = next
        /\ doubled' = (doubled \/ sent # <<>>)
        /\ Send(next)
    BY <1>2 DEF Execute
  <2>4. /\ IsBuffers(filled)
        /\ filled[next].graph = graph /\ filled[next].live = 1
        /\ filled[current_pipeline].graph = graph /\ filled[current_pipeline].live = 1
    <3> HIDE DEF next
    <3> QED
      BY <1>0, <1>2, <2>1, <2>2, ReboundIsLive, InitFills
  <2> HIDE DEF next, filled
  <2>5. /\ IsBuffers(pipelines')
        /\ pipelines'[next].graph = graph /\ pipelines'[next].live = 1
        /\ pipelines'[current_pipeline].graph = graph /\ pipelines'[current_pipeline].live = 0
    BY <2>1, <2>2, <2>3, <2>4, CleanupEmpties
  <2>6. sent' \in Seq(Pipelines) /\ executing' = Nothing /\ current_state' = current_state
    BY <2>1, <2>2, <2>3, AppendProperties DEF Send
  <2>7. ~doubled' => \A n \in 1 .. Len(sent') : sent'[n] = next
    <3>1. CASE sent # <<>>
      BY <2>3, <3>1
    <3>2. CASE sent = <<>>
      <4>1. sent' = <<next>>
        BY <2>3, <3>2 DEF Send, Capacity
      <4> QED
        BY <4>1
    <3> QED
      BY <3>1, <3>2
  <2>8. PipelineDataIsFreedOnce'
    BY <1>0, <1>2, <2>2, <2>3, <2>5 DEF PipelineDataIsFreedOnce
  <2> QED
    BY <1>0, <1>2, <2>1, <2>2, <2>3, <2>5, <2>6, <2>7, <2>8 DEF ExecutionInv, Nothing
<1> QED
  <2>1. Graph(documents[frame.active]) # <<>>
    BY DEF Graph
  <2> QED
    BY <1>1, <1>2, <2>1 DEF CmdExecute

LEMMA MigrateKeepsExecution ==
    ASSUME ExecutionInv, FrameInv, MigrateDocuments
    PROVE  ExecutionInv'
<1>1. /\ executing = Nothing /\ executing' = Nothing /\ sent' = <<>>
      /\ current_state' = current_state /\ doubled' = FALSE /\ UNCHANGED execution
      /\ frame.pc # "ended" /\ frame'.pc # "ended"
  BY DEF MigrateDocuments, Reset, NewFrame, ExecutionInv, FrameInv
<1> QED
  BY <1>1 DEF ExecutionInv, PipelineDataIsFreedOnce, execution, Nothing

LEMMA CleanupKeepsExecution ==
    ASSUME ExecutionInv, FrameInv, Cleanup
    PROVE  ExecutionInv'
<1>1. /\ executing = Nothing /\ executing' = Nothing /\ sent' = <<>>
      /\ current_state' = current_state
      /\ UNCHANGED <<current_pipeline, pipeline_bound_graph, doubled>>
      /\ frame.pc # "ended" /\ frame'.pc = "ended"
      /\ pipelines' = IF pipeline_bound_graph = <<>> THEN pipelines
                      ELSE CleanupPipeline(pipelines, current_pipeline)
  BY DEF Cleanup, Reset, Goto, ExecutionInv, FrameInv, history
<1>2. /\ IsBuffers(pipelines') /\ current_pipeline \in Pipelines
      /\ \A k \in Pipelines : pipelines'[k].graph = pipeline_bound_graph
                           /\ pipelines'[k].live = 0
  BY <1>1, CleanupEmpties DEF ExecutionInv, PipelineDataIsFreedOnce
<1> QED
  BY <1>1, <1>2 DEF ExecutionInv, PipelineDataIsFreedOnce, Nothing

LEMMA WorkerKeepsExecution ==
    ASSUME ExecutionInv, FrameInv, Worker
    PROVE  ExecutionInv'
<1>1. UNCHANGED <<pipelines, current_pipeline, pipeline_bound_graph, frame, doubled>>
  BY DEF Worker, appVars, execution, history
<1>2. sent \in Seq(Pipelines)
  BY DEF ExecutionInv
<1>3. sent # <<>> => /\ Head(sent) \in {sent[n] : n \in 1 .. Len(sent)}
                     /\ Head(sent) \in Pipelines
                     /\ Tail(sent) \in Seq(Pipelines)
                     /\ {Tail(sent)[n] : n \in 1 .. Len(Tail(sent))}
                           \subseteq {sent[n] : n \in 1 .. Len(sent)}
  <2> SUFFICES ASSUME sent # <<>>
               PROVE  /\ Head(sent) \in {sent[n] : n \in 1 .. Len(sent)}
                      /\ Head(sent) \in Pipelines
                      /\ Tail(sent) \in Seq(Pipelines)
                      /\ {Tail(sent)[n] : n \in 1 .. Len(Tail(sent))}
                           \subseteq {sent[n] : n \in 1 .. Len(sent)}
    OBVIOUS
  <2>1. /\ Head(sent) \in Pipelines /\ Tail(sent) \in Seq(Pipelines)
        /\ Len(Tail(sent)) = Len(sent) - 1 /\ Len(sent) \in Nat \ {0}
        /\ \A n \in 1 .. Len(Tail(sent)) : Tail(sent)[n] = sent[n + 1]
    BY <1>2, HeadTailProperties, EmptySeq
  <2>2. Head(sent) = sent[1]
    BY <1>2
  <2>3. ASSUME NEW n \in 1 .. Len(Tail(sent))
        PROVE  Tail(sent)[n] \in {sent[m] : m \in 1 .. Len(sent)}
    BY <2>1
  <2> QED
    BY <2>1, <2>2, <2>3
<1>4. CASE Start
  <2>1. /\ current_state' = "running" /\ executing' = {Head(sent)} /\ sent' = Tail(sent)
        /\ sent # <<>>
    BY <1>4 DEF Start
  <2> QED
    BY <1>1, <1>3, <2>1 DEF ExecutionInv, PipelineDataIsFreedOnce
<1>5. CASE Forget
  <2>1. sent' = Tail(sent) /\ sent # <<>> /\ UNCHANGED <<current_state, executing>>
    BY <1>5 DEF Forget
  <2> QED
    BY <1>1, <1>3, <2>1 DEF ExecutionInv, PipelineDataIsFreedOnce
<1>6. CASE Finish
  BY <1>1, <1>6 DEF Finish, Nothing, ExecutionInv, PipelineDataIsFreedOnce
<1> QED
  BY <1>4, <1>5, <1>6 DEF Worker, Work

LEMMA ExecutionStep ==
    ASSUME ExecutionInv, FrameInv, [Next]_vars
    PROVE  ExecutionInv'
<1>1. ASSUME UNCHANGED <<execution, doubled, runnerVars>>, frame'.pc # "ended",
             frame.pc # "ended"
      PROVE  ExecutionInv'
  BY <1>1 DEF ExecutionInv, PipelineDataIsFreedOnce, execution, runnerVars
<1>2. CASE UNCHANGED vars
  BY <1>2 DEF ExecutionInv, PipelineDataIsFreedOnce, vars, appVars, execution, runnerVars, history
<1>3. DOMAIN frame = {"pc", "click", "can_create", "visible", "editable", "early", "switching",
                      "active", "inputs"}
  BY DEF FrameInv
<1>4. CASE QuitRequested \/ ReloadPlugins \/ Begin \/ Menu \/ Draw \/ Edit \/ Tabs \/ Keys
  <2>1. UNCHANGED <<execution, doubled, runnerVars>> /\ frame.pc # "ended"
    BY <1>4 DEF QuitRequested, ReloadPlugins, Begin, Menu, Draw, Edit, Tabs, Keys, history
  <2>2. frame'.pc # "ended"
    BY <1>3, <1>4 DEF QuitRequested, ReloadPlugins, Begin, Menu, Draw, Edit, Tabs, Keys,
          Input, Click, Goto, NewFrame, KeepTabs, CloseTab, EditInPlace, QueueEdge, QueueNode
  <2> QED
    BY <1>1, <2>1, <2>2
<1>5. CASE Popups \/ CmdExit \/ CmdNew \/ CmdOpen \/ CmdSave \/ CmdCreate \/ EndFrame
  <2>1. UNCHANGED <<execution, doubled, runnerVars>> /\ frame.pc # "ended"
    BY <1>5 DEF Popups, CmdExit, CmdNew, CmdOpen, CmdSave, CmdCreate, EndFrame, TakeCommand,
                history
  <2>2. frame'.pc # "ended"
    BY <1>3, <1>5, <2>1 DEF Popups, CmdExit, CmdNew, CmdOpen, CmdSave, CmdCreate, EndFrame,
          OpenSaveDialog, AnswerSave, AnswerExit, NoAnswer, ToCommands
  <2> QED
    BY <1>1, <2>1, <2>2
<1> QED
  BY <1>2, <1>4, <1>5, ExecuteKeepsExecution, MigrateKeepsExecution, CleanupKeepsExecution,
     WorkerKeepsExecution
  DEF Next, Frame, Commands

-----------------------------------------------------------------------------
(* Documents trade places only in the loop over the tabs and in a dialog,  *)
(* and a graph changes its half only in a reload.                          *)
LEMMA EditorsStay ==
    ASSUME DocumentsInv, FrameInv, [Next]_vars, ~Tabs, ~Popups
    PROVE  \A i \in Editors : /\ documents'[i].editor = documents[i].editor
                              /\ ~MigrateDocuments => documents'[i].half = documents[i].half
<1>1. CASE UNCHANGED documents
  BY <1>1
<1>2. CASE MigrateDocuments
  BY <1>2, MigrateTurns DEF Turns
<1>3. CASE Edit
  BY <1>3, EditKeepsOpen
<1>4. ASSUME NEW content, NEW path, NewDocument(content, path)
      PROVE  \A i \in Editors : documents'[i].editor = documents[i].editor
                             /\ documents'[i].half = documents[i].half
  BY <1>4, NewWrites DEF Writes
<1>5. CASE CmdNew
  BY <1>1, <1>4, <1>5 DEF CmdNew
<1>6. CASE CmdOpen
  BY <1>1, <1>4, <1>6 DEF CmdOpen
<1>7. CASE CmdSave
  <2>1. frame.active \in Editors
    BY DEF FrameInv
  <2>2. PICK outcome \in Save(frame.active) \union SaveAs(frame.active) :
           documents' = outcome.documents
    BY <1>7 DEF CmdSave
  <2>3. UNCHANGED documents \/ \E path : Writes(documents', documents, frame.active,
                                                documents[frame.active].content, path, FALSE)
    BY <2>1, <2>2, SaveOutcomes
  <2> QED
    BY <2>1, <2>3 DEF Writes
<1>8. CASE CmdCreate
  <2>1. frame.active \in Editors
    BY DEF FrameInv
  <2>2. documents' \in {documents, Marked(frame.active), Edited(frame.active)}
    BY <1>8 DEF CmdCreate
  <2> QED
    BY <2>1, <2>2, EditWrites, MarkWrites DEF Writes
<1> QED
  BY <1>1, <1>2, <1>3, <1>5, <1>6, <1>7, <1>8
  DEF Next, QuitRequested, ReloadPlugins, Frame, Begin, Menu, Draw, Keys, Commands, CmdExit,
      CmdExecute, EndFrame, Cleanup, Worker, view, appVars, vars

-----------------------------------------------------------------------------
(* The dialogs. *)
LEMMA TabsKeepDialog ==
    ASSUME DocumentsInv, FrameInv, DialogInv, Tabs
    PROVE  DialogInv'
<1>1. /\ DOMAIN frame = {"pc", "click", "can_create", "visible", "editable", "early",
                         "switching", "active", "inputs"}
      /\ frame.pc = "tabs" /\ UNCHANGED <<popup, asked>>
  BY DEF FrameInv, Tabs, KeepTabs, CloseTab, LeaveTabs, history
<1>2. frame'.pc = "keys" /\ frame'.click = FALSE
  BY <1>1 DEF Tabs, KeepTabs, CloseTab
<1>3. CASE KeepTabs
  BY <1>1, <1>2, <1>3 DEF DialogInv, KeepTabs, LeaveTabs
<1>4. CASE CloseTab
  BY <1>1, <1>2, <1>4 DEF DialogInv, CloseTab
<1> QED
  BY <1>3, <1>4 DEF Tabs

LEMMA PopupsKeepDialog ==
    ASSUME DocumentsInv, FrameInv, DialogInv, Popups
    PROVE  DialogInv'
<1>1. /\ DOMAIN frame = {"pc", "click", "can_create", "visible", "editable", "early",
                         "switching", "active", "inputs"}
      /\ frame.pc = "popups" /\ frame.click = FALSE
  BY DEF FrameInv, Popups, DialogInv
<1>2. frame'.pc = "commands" /\ frame'.click = FALSE
  BY <1>1 DEF Popups, OpenSaveDialog, AnswerSave, AnswerExit, NoAnswer, ToCommands
<1>3. CASE OpenSaveDialog
  BY <1>2, <1>3 DEF DialogInv, OpenSaveDialog
<1>4. CASE AnswerSave
  <2>1. \/ CloseDialog
        \/ UNCHANGED <<documents, num_documents, popup, dirty_doc_index>>
    BY <1>4 DEF AnswerSave
  <2> QED
    BY <1>2, <1>4, <2>1 DEF DialogInv, AnswerSave, CloseDialog
<1>5. CASE AnswerExit
  BY <1>2, <1>5 DEF DialogInv, AnswerExit
<1>6. CASE NoAnswer
  BY <1>2, <1>6 DEF DialogInv, NoAnswer, view
<1> QED
  BY <1>3, <1>4, <1>5, <1>6 DEF Popups

LEMMA DialogStep ==
    ASSUME DocumentsInv, FrameInv, DialogInv, [Next]_vars
    PROVE  DialogInv'
<1>1. DOMAIN frame = {"pc", "click", "can_create", "visible", "editable", "early",
                      "switching", "active", "inputs"}
  BY DEF FrameInv
<1>2. popup = "save" => dirty_doc_index \in Editors
  BY OpenIndices DEF DialogInv, DocumentsInv
<1>3. ASSUME ~Tabs, ~Popups, UNCHANGED <<popup, asked, dirty_doc_index>>
      PROVE  popup' = "save" => dirty_doc_index' # None
                             /\ documents'[dirty_doc_index'].editor = asked'
  BY <1>2, <1>3, EditorsStay DEF DialogInv
<1>4. CASE QuitRequested \/ ReloadPlugins \/ MigrateDocuments \/ Begin \/ Menu \/ Draw \/ Edit
           \/ Keys \/ EndFrame \/ Cleanup
  <2>1. ~Tabs /\ ~Popups /\ UNCHANGED <<popup, asked, dirty_doc_index>>
    BY <1>4 DEF QuitRequested, ReloadPlugins, MigrateDocuments, Begin, Menu, Draw, Edit, Keys,
                EndFrame, Cleanup, Tabs, Popups, view, history
  <2>2. /\ dirty_doc_index # None /\ frame'.pc \notin {"keys", "popups"} => popup # "none"
        /\ frame'.click => frame'.pc \notin {"keys", "popups", "commands"}
        /\ frame'.click /\ frame'.pc \in {"menu", "draw", "edit", "tabs"} => popup = "none"
    <3> USE <1>1 DEF DialogInv
    <3>1. CASE QuitRequested \/ ReloadPlugins
      BY <3>1 DEF QuitRequested, ReloadPlugins, Input
    <3>2. CASE MigrateDocuments \/ Begin
      BY <3>2 DEF MigrateDocuments, Begin, NewFrame
    <3>3. CASE Menu
      BY <3>3 DEF Menu, Goto, Click
    <3>4. CASE Draw
      BY <3>4 DEF Draw
    <3>5. CASE Edit
      BY <3>5 DEF Edit, Goto, Input, Click, EditInPlace, QueueEdge, QueueNode
    <3>6. CASE Keys
      BY <3>6 DEF Keys, Goto, Input
    <3>7. CASE EndFrame
      BY <3>7 DEF EndFrame
    <3>8. CASE Cleanup
      BY <3>8 DEF Cleanup, Goto
    <3> QED
      BY <1>4, <3>1, <3>2, <3>3, <3>4, <3>5, <3>6, <3>7, <3>8
  <2> QED
    BY <1>3, <2>1, <2>2 DEF DialogInv
<1>5. CASE CmdExit \/ CmdNew \/ CmdOpen \/ CmdSave \/ CmdExecute \/ CmdCreate
  <2>1. /\ ~Tabs /\ ~Popups /\ UNCHANGED <<asked, dirty_doc_index, frame>>
        /\ frame.pc = "commands" /\ (UNCHANGED popup \/ popup' = "exit")
    BY <1>5 DEF CmdExit, CmdNew, CmdOpen, CmdSave, CmdExecute, CmdCreate, TakeCommand, Tabs,
                Popups, view, history
  <2> QED
    BY <1>3, <2>1 DEF DialogInv
<1>6. CASE UNCHANGED <<frame, popup, asked, dirty_doc_index, documents>>
  BY <1>6 DEF DialogInv
<1> QED
  BY <1>4, <1>5, <1>6, TabsKeepDialog, PopupsKeepDialog
  DEF Next, Frame, Commands, Worker, view, appVars, vars, history

-----------------------------------------------------------------------------
(* The commands. *)
LEMMA GiveCommand ==
    ASSUME commands \in Seq(Types), NEW type \in Types, HedCmd(type)
    PROVE  /\ commands' \in Seq(Types)
           /\ Len(commands) \in Nat /\ Len(commands') \in Nat
           /\ Len(commands') <= Len(commands) + 1
           /\ \A n \in 1 .. Len(commands') :
                 \/ n \in 1 .. Len(commands) /\ commands'[n] = commands[n]
                 \/ n = Len(commands) + 1 /\ commands'[n] = type
           /\ Len(commands) = 0 => commands' = <<type>>
<1>1. Len(commands) \in Nat
  BY DEF Types
<1>2. CASE Len(commands) < MaxCommands
  <2>1. commands' = Append(commands, type)
    BY <1>2 DEF HedCmd
  <2>2. /\ commands' \in Seq(Types) /\ Len(commands') = Len(commands) + 1
        /\ \A n \in 1 .. Len(commands) : commands'[n] = commands[n]
        /\ commands'[Len(commands) + 1] = type
    BY <2>1, AppendProperties
  <2>3. Len(commands) = 0 => commands' = <<type>>
    BY <2>1, EmptySeq
  <2> QED
    BY <1>1, <2>2, <2>3
<1>3. CASE ~(Len(commands) < MaxCommands)
  BY <1>1, <1>3 DEF HedCmd, MaxCommands
<1> QED
  BY <1>2, <1>3

LEMMA TakenCommand ==
    ASSUME commands \in Seq(Types), NEW type, TakeCommand(type)
    PROVE  /\ frame.pc = "commands" /\ commands' \in Seq(Types)
           /\ Len(commands) \in Nat \ {0} /\ commands[1] = type
           /\ Len(commands') = Len(commands) - 1
           /\ \A n \in 1 .. Len(commands') : commands'[n] = commands[n + 1]
<1>1. commands # <<>> /\ commands' = Tail(commands) /\ Head(commands) = type
  BY DEF TakeCommand
<1>2. Head(commands) = commands[1]
  BY <1>1
<1> QED
  BY <1>1, <1>2, HeadTailProperties, EmptySeq DEF TakeCommand

(* What a frame's phases do to commands and to what there is to confirm.   *)
LEMMA ConfirmStays ==
    ASSUME DocumentsInv, FrameInv, ShouldConfirmExit,
           MigrateDocuments \/ Edit \/ UNCHANGED <<documents, num_documents>>
    PROVE  ShouldConfirmExit'
<1>1. PICK i \in Open : documents[i].is_dirty
  BY DEF ShouldConfirmExit
<1>2. i \in Editors
  BY OpenIndices
<1>3. CASE UNCHANGED <<documents, num_documents>>
  BY <1>1, <1>3 DEF ShouldConfirmExit, Open
<1>4. CASE MigrateDocuments
  <2>1. documents'[i].is_dirty = documents[i].is_dirty /\ Open' = Open
    BY <1>2, <1>4, MigrateTurns DEF Turns
  <2> QED
    BY <1>1, <2>1 DEF ShouldConfirmExit
<1>5. CASE Edit /\ ~UNCHANGED documents
  <2>1. PICK content : Writes(documents', documents, Visible, content, documents[Visible].path, TRUE)
    BY <1>5, ShownIsOpen, EditWrites, MarkWrites
    DEF Edit, FrameInv, EditInPlace, QueueEdge, QueueNode, Visible
  <2>2. documents'[i].is_dirty /\ Open' = Open
    BY <1>1, <1>2, <1>5, <2>1 DEF Writes, Edit, Open
  <2> QED
    BY <1>1, <2>2 DEF ShouldConfirmExit
<1>6. CASE Edit /\ UNCHANGED documents
  BY <1>3, <1>6 DEF Edit
<1> QED
  BY <1>3, <1>4, <1>5, <1>6

(* The parts of the invariant, for a step that leaves nothing created. *)
LEMMA NothingCreated ==
    ASSUME commands' \in Seq(Types), ~Creating',
           frame'.click \/ frame'.pc \in {"begin", "terminate"} =>
              /\ Len(commands') <= 1
              /\ \A n \in 1 .. Len(commands') : commands'[n] = "exit"
              /\ commands' # <<>> => ShouldConfirmExit',
           quitting' => frame'.pc \in {"begin", "commands", "ended"},
           quitting' /\ ~confirmed' => ~ShouldConfirmExit'
    PROVE  CommandsInv'
BY DEF CommandsInv

LEMMA BetweenFrames ==
    ASSUME DocumentsInv, FrameInv, CommandsInv,
           QuitRequested \/ ReloadPlugins \/ MigrateDocuments \/ Begin \/ Draw \/ Cleanup
    PROVE  CommandsInv'
<1>0. /\ DOMAIN frame = {"pc", "click", "can_create", "visible", "editable", "early",
                         "switching", "active", "inputs"}
      /\ frame.pc \in {"begin", "terminate", "draw"} /\ ~Creating /\ commands \in Seq(Types)
  BY DEF FrameInv, CommandsInv, QuitRequested, ReloadPlugins, MigrateDocuments, Begin, Draw, Cleanup
<1>1. CASE QuitRequested
  <2>1. /\ UNCHANGED <<documents, num_documents, confirmed>> /\ commands = <<>>
        /\ frame'.pc = "begin"
    BY <1>0, <1>1 DEF QuitRequested, Input, view, history
  <2>2. ShouldConfirmExit' = ShouldConfirmExit
    BY <2>1 DEF ShouldConfirmExit, Open
  <2>3. CASE ShouldConfirmExit
    <3>1. commands' = <<"exit">> /\ quitting' = FALSE
      BY <1>0, <1>1, <2>1, <2>3, EmptySeq DEF QuitRequested, HedCmd, MaxCommands
    <3>2. "exit" \in Types /\ Len(commands') = 1 /\ commands'[1] = "exit"
      BY <3>1 DEF Types
    <3> QED
      BY <2>1, <2>2, <2>3, <3>1, <3>2, NothingCreated DEF Creating, Given
  <2>4. CASE ~ShouldConfirmExit
    <3>1. commands' = commands /\ quitting' = TRUE
      BY <1>1, <2>4 DEF QuitRequested
    <3> QED
      BY <1>0, <2>1, <2>2, <2>4, <3>1, NothingCreated, EmptySeq DEF Creating, Given
  <2> QED
    BY <2>3, <2>4
<1>2. CASE ReloadPlugins \/ MigrateDocuments \/ Begin \/ Draw \/ Cleanup
  <2>1. /\ UNCHANGED <<commands, quitting, confirmed>>
        /\ MigrateDocuments \/ UNCHANGED <<documents, num_documents>>
    BY <1>2 DEF ReloadPlugins, MigrateDocuments, Begin, Draw, Cleanup, view, history
  <2>2. ShouldConfirmExit => ShouldConfirmExit'
    BY <2>1, ConfirmStays
  <2>3. /\ frame'.click => frame.click \/ frame.pc \in {"begin", "terminate"}
        /\ frame'.pc = "begin" => FALSE
        /\ frame'.pc = "terminate" => frame.pc = "begin"
        /\ quitting => frame'.pc = "ended" /\ ~MigrateDocuments
    <3>1. CASE ReloadPlugins
      BY <1>0, <3>1 DEF ReloadPlugins, Input, MigrateDocuments
    <3>2. CASE MigrateDocuments
      BY <1>0, <3>2 DEF MigrateDocuments, NewFrame, CommandsInv
    <3>3. CASE Begin
      BY <1>0, <3>3 DEF Begin, NewFrame, MigrateDocuments
    <3>4. CASE Draw
      BY <1>0, <3>4 DEF Draw, CommandsInv, MigrateDocuments
    <3>5. CASE Cleanup
      BY <1>0, <3>5 DEF Cleanup, Goto, MigrateDocuments
    <3> QED
      BY <1>2, <3>1, <3>2, <3>3, <3>4, <3>5
  <2>4. ~Creating'
    BY <1>0, <2>1 DEF Creating, Given
  <2>5. quitting /\ ~confirmed => ~ShouldConfirmExit'
    <3>1. ~MigrateDocuments => (ShouldConfirmExit' = ShouldConfirmExit)
      BY <2>1 DEF ShouldConfirmExit, Open
    <3> QED
      BY <2>1, <2>3, <3>1 DEF CommandsInv
  <2>6. frame'.click \/ frame'.pc \in {"begin", "terminate"} =>
            /\ Len(commands') <= 1
            /\ \A n \in 1 .. Len(commands') : commands'[n] = "exit"
            /\ commands' # <<>> => ShouldConfirmExit'
    BY <2>1, <2>2, <2>3 DEF CommandsInv
  <2> QED
    BY <1>0, <2>1, <2>3, <2>4, <2>5, <2>6, NothingCreated
<1> QED
  BY <1>1, <1>2

LEMMA MenuKeepsCommands ==
    ASSUME DocumentsInv, FrameInv, CommandsInv, Menu
    PROVE  CommandsInv'
<1>0. /\ DOMAIN frame = {"pc", "click", "can_create", "visible", "editable", "early",
                         "switching", "active", "inputs"}
      /\ frame.pc = "menu" /\ ~Creating /\ commands \in Seq(Types) /\ ~quitting
      /\ UNCHANGED <<documents, num_documents, quitting, confirmed>>
  BY DEF FrameInv, CommandsInv, Menu, view, history
<1>1. frame'.pc = "draw"
  BY <1>0 DEF Menu, Goto, Click
<1>2. CASE UNCHANGED commands /\ Goto("draw")
  <2>1. frame'.click = frame.click
    BY <1>0, <1>2 DEF Goto
  <2>2. ~Creating' /\ (ShouldConfirmExit' = ShouldConfirmExit)
    BY <1>0, <1>2 DEF Creating, Given, ShouldConfirmExit, Open
  <2> QED
    BY <1>0, <1>1, <1>2, <2>1, <2>2, NothingCreated DEF CommandsInv
<1>3. ASSUME Click("draw"),
             NEW type \in {"new", "open", "save", "save_as", "exit", "execute"}, HedCmd(type)
      PROVE  CommandsInv'
  <2>1. frame'.click = FALSE
    BY <1>0, <1>3 DEF Click
  <2>2. ~Creating' /\ commands' \in Seq(Types)
    BY <1>0, <1>3, GiveCommand DEF Types, Creating, Given
  <2> QED
    BY <1>0, <1>1, <2>1, <2>2, NothingCreated
<1> QED
  BY <1>2, <1>3 DEF Menu

LEMMA EditKeepsCommands ==
    ASSUME DocumentsInv, FrameInv, DialogInv, CommandsInv, Edit
    PROVE  CommandsInv'
<1>0. /\ DOMAIN frame = {"pc", "click", "can_create", "visible", "editable", "early",
                         "switching", "active", "inputs"}
      /\ frame.pc = "edit" /\ ~Creating /\ commands \in Seq(Types) /\ ~quitting
      /\ UNCHANGED <<popup, dirty_doc_index, quitting, confirmed>>
  BY DEF FrameInv, CommandsInv, Edit, history
<1>1. frame'.pc = "tabs"
  BY <1>0 DEF Edit, Goto, EditInPlace, QueueEdge, QueueNode, Input, Click
<1>2. ShouldConfirmExit => ShouldConfirmExit'
  BY ConfirmStays
<1>3. CASE UNCHANGED commands /\ (Goto("tabs") \/ Input("tabs"))
  <2>1. frame'.click = frame.click
    BY <1>0, <1>3 DEF Goto, Input
  <2>2. ~Creating'
    BY <1>0, <1>3 DEF Creating, Given
  <2> QED
    BY <1>0, <1>1, <1>2, <1>3, <2>1, <2>2, NothingCreated DEF CommandsInv
<1>4. ASSUME Click("tabs"), NEW type \in {"create_edge", "create_node"}, HedCmd(type)
      PROVE  CommandsInv'
  <2>1. frame.click /\ frame'.click = FALSE
    BY <1>0, <1>4 DEF Click
  <2>2. /\ Len(commands) <= 1 /\ \A n \in 1 .. Len(commands) : commands[n] = "exit"
        /\ commands # <<>> => ShouldConfirmExit
        /\ popup = "none" /\ dirty_doc_index = None
    BY <1>0, <2>1 DEF CommandsInv, DialogInv
  <2>3. /\ commands' \in Seq(Types) /\ Len(commands) \in Nat /\ Len(commands') \in Nat
        /\ \A n \in 1 .. Len(commands') :
              \/ n \in 1 .. Len(commands) /\ commands'[n] = commands[n]
              \/ n = Len(commands) + 1 /\ commands'[n] = type
        /\ Len(commands) = 0 => commands' = <<type>>
    BY <1>0, <1>4, GiveCommand DEF Types
  <2>4. ~Given({"execute"})' /\ \A n \in 2 .. Len(commands') : commands'[n] # "exit"
    BY <1>4, <2>2, <2>3 DEF Given
  <2>5. commands'[1] = "exit" => ShouldConfirmExit'
    <3>1. CASE Len(commands) = 0
      BY <1>4, <2>3, <3>1
    <3>2. CASE Len(commands) # 0
      BY <1>2, <2>2, <3>2, EmptySeq
    <3> QED
      BY <3>1, <3>2
  <2> QED
    BY <1>0, <1>1, <2>1, <2>2, <2>3, <2>4, <2>5 DEF CommandsInv
<1> QED
  BY <1>3, <1>4 DEF Edit, EditInPlace, QueueEdge, QueueNode

LEMMA TabsKeepCommands ==
    ASSUME FrameInv, CommandsInv, Tabs
    PROVE  CommandsInv'
<1>0. /\ DOMAIN frame = {"pc", "click", "can_create", "visible", "editable", "early",
                         "switching", "active", "inputs"}
      /\ frame.pc = "tabs" /\ commands \in Seq(Types) /\ ~quitting
      /\ UNCHANGED <<commands, quitting, confirmed>>
  BY DEF FrameInv, CommandsInv, Tabs, history
<1>1. frame'.pc = "keys" /\ frame'.click = FALSE
  BY <1>0 DEF Tabs, KeepTabs, CloseTab
<1>2. Creating' = Creating /\ Given({"execute"})' = Given({"execute"})
  BY <1>0 DEF Creating, Given
<1>3. CASE Creating
  <2>1. ~frame.click
    BY <1>0, <1>3 DEF CommandsInv, Creating, Given
  <2>2. UNCHANGED <<documents, num_documents, popup, dirty_doc_index>>
    BY <2>1 DEF Tabs, KeepTabs, CloseTab, LeaveTabs
  <2>3. ShouldConfirmExit' = ShouldConfirmExit
    BY <2>2 DEF ShouldConfirmExit, Open
  <2> QED
    BY <1>0, <1>1, <1>2, <1>3, <2>2, <2>3 DEF CommandsInv
<1>4. CASE ~Creating
  BY <1>0, <1>1, <1>2, <1>4, NothingCreated
<1> QED
  BY <1>3, <1>4

LEMMA KeysKeepCommands ==
    ASSUME FrameInv, DialogInv, CommandsInv, Keys
    PROVE  CommandsInv'
<1>0. /\ DOMAIN frame = {"pc", "click", "can_create", "visible", "editable", "early",
                         "switching", "active", "inputs"}
      /\ frame.pc = "keys" /\ ~frame.click /\ commands \in Seq(Types) /\ ~quitting
      /\ UNCHANGED <<documents, num_documents, popup, dirty_doc_index, quitting, confirmed>>
  BY DEF FrameInv, DialogInv, CommandsInv, Keys, view, history
<1>1. frame'.pc = "popups" /\ ~frame'.click
  BY <1>0 DEF Keys, Goto, Input
<1>2. ShouldConfirmExit' = ShouldConfirmExit
  BY <1>0 DEF ShouldConfirmExit, Open
<1>3. CASE UNCHANGED commands
  <2>1. Creating' = Creating /\ Given({"execute"})' = Given({"execute"})
    BY <1>3 DEF Creating, Given
  <2> QED
    BY <1>0, <1>1, <1>2, <1>3, <2>1 DEF CommandsInv
<1>4. ASSUME NEW type \in {"new", "open", "save", "save_as"}, HedCmd(type)
      PROVE  CommandsInv'
  <2>1. /\ commands' \in Seq(Types) /\ Len(commands) \in Nat /\ Len(commands') \in Nat
        /\ \A n \in 1 .. Len(commands') :
              \/ n \in 1 .. Len(commands) /\ commands'[n] = commands[n]
              \/ n = Len(commands) + 1 /\ commands'[n] = type
    BY <1>0, <1>4, GiveCommand DEF Types
  <2>2. CASE Creating
    <3>1. Len(commands) >= 1
      BY <2>1, <2>2 DEF Creating, Given
    <3>2. ~Given({"execute"})' /\ \A n \in 2 .. Len(commands') : commands'[n] # "exit"
      BY <1>4, <2>1, <2>2 DEF Given, CommandsInv
    <3>3. Creating' => (commands'[1] = "exit" => ShouldConfirmExit')
      BY <1>2, <2>1, <2>2, <3>1 DEF Creating, Given, CommandsInv
    <3> QED
      BY <1>0, <1>1, <2>1, <2>2, <3>2, <3>3 DEF CommandsInv
  <2>3. CASE ~Creating
    <3>1. ~Creating'
      BY <1>4, <2>1, <2>3 DEF Creating, Given
    <3> QED
      BY <1>0, <1>1, <2>1, <3>1, NothingCreated
  <2> QED
    BY <2>2, <2>3
<1> QED
  BY <1>3, <1>4 DEF Keys

LEMMA PopupsKeepCommands ==
    ASSUME FrameInv, DialogInv, CommandsInv, Popups
    PROVE  CommandsInv'
<1>0. /\ DOMAIN frame = {"pc", "click", "can_create", "visible", "editable", "early",
                         "switching", "active", "inputs"}
      /\ frame.pc = "popups" /\ ~frame.click /\ commands \in Seq(Types) /\ ~quitting
      /\ UNCHANGED commands
  BY DEF FrameInv, DialogInv, CommandsInv, Popups
<1>1. frame'.pc = "commands" /\ ~frame'.click
  BY <1>0 DEF Popups, OpenSaveDialog, AnswerSave, AnswerExit, NoAnswer, ToCommands
<1>2. Creating' = Creating /\ Given({"execute"})' = Given({"execute"})
  BY <1>0 DEF Creating, Given
<1>3. CASE Creating
  <2>1. popup = "none" /\ dirty_doc_index = None
    BY <1>0, <1>3 DEF CommandsInv
  <2>2. UNCHANGED <<documents, num_documents, dirty_doc_index, quitting, confirmed>>
    BY <2>1 DEF Popups, OpenSaveDialog, AnswerSave, AnswerExit, NoAnswer, view
  <2>3. ShouldConfirmExit' = ShouldConfirmExit
    BY <2>2 DEF ShouldConfirmExit, Open
  <2> QED
    BY <1>0, <1>1, <1>2, <1>3, <2>2, <2>3 DEF CommandsInv
<1>4. CASE ~Creating
  <2>1. quitting' => confirmed'
    BY <1>0 DEF Popups, OpenSaveDialog, AnswerSave, AnswerExit, NoAnswer
  <2> QED
    BY <1>0, <1>1, <1>2, <1>4, <2>1, NothingCreated
<1> QED
  BY <1>3, <1>4

(* A command that is carried out leaves the others behind it. *)
LEMMA TakeKeepsCommands ==
    ASSUME DialogInv, CommandsInv, NEW type, TakeCommand(type),
           UNCHANGED <<frame, dirty_doc_index, confirmed>>,
           quitting' /\ ~confirmed => ~ShouldConfirmExit' /\ ~Creating
    PROVE  CommandsInv'
<1>1. /\ frame.pc = "commands" /\ commands' \in Seq(Types)
      /\ Len(commands) \in Nat \ {0}
      /\ Len(commands') = Len(commands) - 1
      /\ \A n \in 1 .. Len(commands') : commands'[n] = commands[n + 1]
  BY TakenCommand DEF CommandsInv
<1>2. ~frame.click
  BY <1>1 DEF DialogInv
<1>3. /\ Creating' => Creating
      /\ Given({"execute"})' => Given({"execute"})
  BY <1>1 DEF Creating, Given
<1>4. CASE Creating'
  <2>1. 1 \in 1 .. Len(commands')
    BY <1>1, <1>4 DEF Creating, Given
  <2>2. \A n \in 1 .. Len(commands') : commands'[n] # "exit"
    BY <1>1, <1>3, <1>4 DEF CommandsInv
  <2> QED
    BY <1>1, <1>2, <1>3, <1>4, <2>1, <2>2 DEF CommandsInv
<1>5. CASE ~Creating'
  BY <1>1, <1>2, <1>5, NothingCreated
<1> QED
  BY <1>4, <1>5

(* Opening a document and saving one leave no more unsaved work. *)
LEMMA NewNeedsNoConfirmation ==
    ASSUME DocumentsInv, NEW content, NEW path, NewDocument(content, path), ~ShouldConfirmExit
    PROVE  ~ShouldConfirmExit'
<1>1. Writes(documents', documents, num_documents, content, path, FALSE)
  BY NewWrites
<1>2. Open' = Open \union {num_documents} /\ Open \subseteq Editors
  BY OpenIndices, AppAssumption DEF NewDocument, Open, DocumentsInv
<1> QED
  BY <1>1, <1>2 DEF ShouldConfirmExit, Writes

LEMMA SaveNeedsNoConfirmation ==
    ASSUME DocumentsInv, FrameInv, CmdSave, ~ShouldConfirmExit
    PROVE  ~ShouldConfirmExit'
<1>1. frame.active \in Editors
  BY DEF FrameInv
<1>2. PICK outcome \in Save(frame.active) \union SaveAs(frame.active) :
         documents' = outcome.documents
  BY DEF CmdSave
<1>3. UNCHANGED documents \/ \E path : Writes(documents', documents, frame.active,
                                              documents[frame.active].content, path, FALSE)
  BY <1>1, <1>2, SaveOutcomes
<1>4. Open' = Open /\ Open \subseteq Editors
  BY OpenIndices DEF CmdSave, Open
<1> QED
  BY <1>3, <1>4 DEF ShouldConfirmExit, Writes

LEMMA CommandsStep ==
    ASSUME DocumentsInv, FrameInv, DialogInv, CommandsInv, [Next]_vars
    PROVE  CommandsInv'
<1>1. CASE CmdExit
  <2>1. TakeCommand("exit") /\ UNCHANGED <<frame, dirty_doc_index, confirmed, documents, num_documents>>
    BY <1>1 DEF CmdExit, history
  <2>2. ShouldConfirmExit' = ShouldConfirmExit
    BY <2>1 DEF ShouldConfirmExit, Open
  <2>3. commands[1] = "exit"
    BY <2>1, TakenCommand DEF CommandsInv
  <2>4. quitting' /\ ~confirmed => ~ShouldConfirmExit' /\ ~Creating
    BY <1>1, <2>2, <2>3 DEF CmdExit, CommandsInv
  <2> QED
    BY <2>1, <2>4, TakeKeepsCommands
<1>2. CASE CmdNew \/ CmdOpen
  <2>1. PICK type : TakeCommand(type)
    BY <1>2 DEF CmdNew, CmdOpen
  <2>2. UNCHANGED <<frame, dirty_doc_index, quitting, confirmed>>
    BY <1>2 DEF CmdNew, CmdOpen, history
  <2>3. CASE UNCHANGED <<documents, num_documents>>
    <3>1. ShouldConfirmExit' = ShouldConfirmExit
      BY <2>3 DEF ShouldConfirmExit, Open
    <3> QED
      BY <2>1, <2>2, <3>1, TakeKeepsCommands DEF CommandsInv
  <2>4. ASSUME NEW content, NEW path, NewDocument(content, path)
        PROVE  CommandsInv'
    <3>1. ~ShouldConfirmExit => ~ShouldConfirmExit'
      BY <2>4, NewNeedsNoConfirmation
    <3> QED
      BY <2>1, <2>2, <3>1, TakeKeepsCommands DEF CommandsInv
  <2> QED
    BY <1>2, <2>3, <2>4 DEF CmdNew, CmdOpen
<1>3. CASE CmdSave
  <2>1. PICK type : TakeCommand(type)
    BY <1>3 DEF CmdSave
  <2>2. UNCHANGED <<frame, dirty_doc_index, quitting, confirmed>>
    BY <1>3 DEF CmdSave, history
  <2> QED
    BY <1>3, <2>1, <2>2, SaveNeedsNoConfirmation, TakeKeepsCommands DEF CommandsInv
<1>4. CASE CmdExecute
  <2>1. /\ TakeCommand("execute")
        /\ UNCHANGED <<frame, dirty_doc_index, quitting, confirmed, documents, num_documents>>
    BY <1>4 DEF CmdExecute, view
  <2>2. ShouldConfirmExit' = ShouldConfirmExit
    BY <2>1 DEF ShouldConfirmExit, Open
  <2> QED
    BY <2>1, <2>2, TakeKeepsCommands DEF CommandsInv
<1>5. CASE CmdCreate
  <2>1. PICK type \in {"create_node", "create_edge"} : TakeCommand(type)
    BY <1>5 DEF CmdCreate
  <2>2. UNCHANGED <<frame, dirty_doc_index, quitting, confirmed>>
    BY <1>5 DEF CmdCreate, history
  <2>3. Creating
    BY <2>1, TakenCommand DEF CommandsInv, Creating, Given
  <2> QED
    BY <2>1, <2>2, <2>3, TakeKeepsCommands DEF CommandsInv
<1>6. CASE EndFrame
  <2>1. /\ commands = <<>> /\ UNCHANGED <<commands, quitting, confirmed, documents, num_documents>>
        /\ frame'.pc = "begin"
    BY <1>6 DEF EndFrame, FrameInv, view, history
  <2>2. ~Creating' /\ Len(commands') = 0 /\ (ShouldConfirmExit' = ShouldConfirmExit)
    BY <2>1, EmptySeq DEF Creating, Given, ShouldConfirmExit, Open
  <2> QED
    BY <2>1, <2>2, NothingCreated DEF CommandsInv
<1>7. CASE UNCHANGED <<commands, frame, popup, dirty_doc_index, documents, num_documents, quitting,
                       confirmed>>
  BY <1>7 DEF CommandsInv, Creating, Given, ShouldConfirmExit, Open
<1> QED
  BY <1>1, <1>2, <1>3, <1>4, <1>5, <1>6, <1>7, BetweenFrames, MenuKeepsCommands,
     EditKeepsCommands, TabsKeepCommands, KeysKeepCommands, PopupsKeepCommands
  DEF Next, Frame, Commands, Worker, view, appVars, vars, history

-----------------------------------------------------------------------------
(* What was drawn stays open. *)
LEMMA DrawnStays ==
    ASSUME DocumentsInv, NEW editor, IsOpen(editor), Open \subseteq Open',
           \A i \in Editors : documents'[i].editor = documents[i].editor
    PROVE  IsOpen(editor)'
BY OpenIndices DEF IsOpen

(* The parts of the invariant, for a step after which nothing can change. *)
LEMMA NothingDrawn ==
    ASSUME ~Creating', ~frame'.editable
    PROVE  DrawnInv'
BY DEF DrawnInv

LEMMA DrawKeepsDrawn ==
    ASSUME DocumentsInv, FrameInv, ExecutionInv, CommandsInv, CommandsInv', Draw
    PROVE  DrawnInv'
<1>1. PICK editor \in VisibleTabs :
         frame' = [frame EXCEPT
              !.pc = "edit", !.visible = editor,
              !.editable = /\ editor # None
                           /\ \/ Graph(documents[IndexOf(editor)]) # pipeline_bound_graph
                              \/ current_state = "stopped",
              !.early = current_state = "stopped" /\ sent # <<>>,
              !.switching = should_switch_tab]
  BY DEF Draw
<1>2. /\ frame'.pc = "edit" /\ frame'.visible = editor
      /\ frame'.editable => \/ Graph(documents[IndexOf(editor)]) # pipeline_bound_graph
                            \/ current_state = "stopped"
      /\ frame'.early = (current_state = "stopped" /\ sent # <<>>)
  BY <1>1 DEF FrameInv
<1>3. ~Creating' /\ UNCHANGED <<documents, pipeline_bound_graph, executing, sent>>
  BY <1>2 DEF CommandsInv, Draw, view, execution, runnerVars
<1>4. \A i \in Editors : documents[i].editor = editor => IndexOf(editor) = i
  BY OpenIndices
<1> QED
  BY <1>2, <1>3, <1>4 DEF DrawnInv, ExecutionInv

LEMMA EditKeepsDrawn ==
    ASSUME DocumentsInv, DocumentsInv', FrameInv, CommandsInv, DrawnInv, Edit
    PROVE  DrawnInv'
<1>1. /\ DOMAIN frame = {"pc", "click", "can_create", "visible", "editable", "early",
                         "switching", "active", "inputs"}
      /\ frame.pc = "edit" /\ ~Creating
      /\ UNCHANGED <<pipeline_bound_graph, executing, sent>>
  BY DEF FrameInv, CommandsInv, Edit, execution, runnerVars
<1>2. /\ frame'.pc = "tabs" /\ frame'.visible = frame.visible
      /\ frame'.editable = frame.editable /\ frame'.early = frame.early
  BY <1>1 DEF Edit, Goto, EditInPlace, QueueEdge, QueueNode, Input, Click
<1>3. Creating' => frame.editable
  BY <1>1 DEF Edit, Creating, Given
<1>4. CASE frame.editable
  <2>1. PICK shown : shown = frame.visible /\ shown = frame'.visible
    BY <1>2
  <2>2. IsOpen(shown)
    BY <1>1, <1>4, <2>1 DEF FrameInv, IsOpen
  <2>3. IsOpen(shown)'
    BY <2>2, EditKeepsOpen, DrawnStays
  <2>4. \A i \in Editors : documents'[i].editor = documents[i].editor
                         /\ documents'[i].half = documents[i].half
    BY EditKeepsOpen
  <2> QED
    BY <1>1, <1>2, <1>4, <2>1, <2>3, <2>4 DEF DrawnInv, IsOpen, Graph
<1>5. CASE ~frame.editable
  BY <1>2, <1>3, <1>5, NothingDrawn
<1> QED
  BY <1>4, <1>5

LEMMA TabsKeepDrawn ==
    ASSUME DocumentsInv, FrameInv, CommandsInv, DrawnInv, Tabs
    PROVE  DrawnInv'
<1>1. /\ DOMAIN frame = {"pc", "click", "can_create", "visible", "editable", "early",
                         "switching", "active", "inputs"}
      /\ frame.pc = "tabs"
      /\ UNCHANGED <<commands, pipeline_bound_graph, executing, sent>>
  BY DEF FrameInv, Tabs, execution, runnerVars
<1>2. frame'.pc = "keys" /\ ~frame'.editable /\ Creating' = Creating
  BY <1>1 DEF Tabs, KeepTabs, CloseTab, Creating, Given
<1>3. CASE Creating
  <2>1. ~frame.click
    BY <1>1, <1>3 DEF CommandsInv, Creating, Given
  <2>2. KeepTabs
    BY <2>1 DEF Tabs, CloseTab
  <2>3. /\ UNCHANGED <<documents, num_documents>>
        /\ frame'.visible = frame.visible /\ frame'.early = frame.early
        /\ frame'.switching = frame.switching
    BY <1>1, <2>2 DEF KeepTabs, LeaveTabs
  <2>4. IsOpen(frame.visible) /\ frame.visible # None
    <3>1. PICK i \in Open : documents[i].editor = frame.visible
      BY <1>3 DEF DrawnInv, IsOpen
    <3>2. documents[i].editor \in Editors /\ None \notin Editors
      BY OpenIndices DEF DocumentsInv, IsTable, IsDocument, Editors, None
    <3> QED
      BY <3>1, <3>2 DEF IsOpen
  <2>5. ~frame.switching => active_document_index' = Visible
    BY <1>1, <2>2, <2>4 DEF FrameInv, KeepTabs, LeaveTabs
  <2>6. documents[Visible].editor = frame.visible
    BY <1>1, <2>4, ShownIsOpen
  <2> QED
    BY <1>1, <1>2, <1>3, <2>3, <2>4, <2>5, <2>6 DEF DrawnInv, IsOpen, Open
<1>4. CASE ~Creating
  BY <1>2, <1>4, NothingDrawn
<1> QED
  BY <1>3, <1>4

LEMMA KeysKeepDrawn ==
    ASSUME FrameInv, CommandsInv, DrawnInv, Keys
    PROVE  DrawnInv'
<1>1. /\ DOMAIN frame = {"pc", "click", "can_create", "visible", "editable", "early",
                         "switching", "active", "inputs"}
      /\ frame.pc = "keys" /\ ~frame.editable
      /\ UNCHANGED <<documents, num_documents, active_document_index, pipeline_bound_graph,
                     executing, sent>>
  BY DEF FrameInv, Keys, view, execution, runnerVars
<1>2. /\ frame'.pc = "popups" /\ frame'.visible = frame.visible /\ frame'.early = frame.early
      /\ frame'.switching = frame.switching /\ ~frame'.editable
  BY <1>1 DEF Keys, Goto, Input
<1>3. Creating' => Creating
  <2>1. ASSUME NEW type \in {"new", "open", "save", "save_as"}, HedCmd(type)
        PROVE  Creating' => Creating
    BY <2>1, GiveCommand DEF CommandsInv, Types, Creating, Given
  <2> QED
    BY <2>1 DEF Keys, Creating, Given
<1> QED
  BY <1>1, <1>2, <1>3 DEF DrawnInv, IsOpen, Open

LEMMA PopupsKeepDrawn ==
    ASSUME FrameInv, CommandsInv, DrawnInv, Popups
    PROVE  DrawnInv'
<1>1. /\ DOMAIN frame = {"pc", "click", "can_create", "visible", "editable", "early",
                         "switching", "active", "inputs"}
      /\ frame.pc = "popups" /\ ~frame.editable
      /\ UNCHANGED <<commands, pipeline_bound_graph, executing, sent>>
  BY DEF FrameInv, Popups, execution, runnerVars
<1>2. /\ frame'.pc = "commands" /\ frame'.visible = frame.visible
      /\ frame'.early = frame.early /\ frame'.switching = frame.switching /\ ~frame'.editable
  BY <1>1 DEF Popups, OpenSaveDialog, AnswerSave, AnswerExit, NoAnswer, ToCommands
<1>3. Creating' = Creating
  BY <1>1 DEF Creating, Given
<1>4. CASE Creating
  <2>1. popup = "none" /\ dirty_doc_index = None
    BY <1>1, <1>4 DEF CommandsInv
  <2>2. NoAnswer
    BY <2>1 DEF Popups, OpenSaveDialog, AnswerSave, AnswerExit
  <2>3. UNCHANGED <<documents, num_documents>> /\ frame'.active = active_document_index
    BY <1>1, <2>2 DEF NoAnswer, ToCommands, view
  <2> QED
    BY <1>1, <1>2, <1>3, <1>4, <2>3 DEF DrawnInv, IsOpen, Open
<1>5. CASE ~Creating
  BY <1>2, <1>3, <1>5, NothingDrawn
<1> QED
  BY <1>4, <1>5

LEMMA CommandsKeepDrawn ==
    ASSUME DocumentsInv, DocumentsInv', FrameInv, CommandsInv, DrawnInv, [Next]_vars,
           CmdExit \/ CmdNew \/ CmdOpen \/ CmdSave \/ CmdExecute \/ CmdCreate
    PROVE  DrawnInv'
<1>1. /\ frame.pc = "commands" /\ frame' = frame /\ ~frame.editable
      /\ ~Tabs /\ ~Popups /\ ~MigrateDocuments
      /\ frame.active \in Editors
  BY DEF CmdExit, CmdNew, CmdOpen, CmdSave, CmdExecute, CmdCreate, TakeCommand, FrameInv,
         Tabs, Popups, MigrateDocuments
<1>2. PICK type : TakeCommand(type) /\ (CmdExecute => type = "execute")
  BY DEF CmdExit, CmdNew, CmdOpen, CmdSave, CmdExecute, CmdCreate, TakeCommand
<1>3. /\ commands[1] = type /\ Len(commands) \in Nat \ {0}
      /\ Creating' => Creating
  BY <1>2, TakenCommand DEF CommandsInv, Creating, Given
<1>4. CASE CmdExecute \/ ~Creating
  BY <1>1, <1>2, <1>3, <1>4, NothingDrawn DEF CommandsInv, Given
<1>5. CASE ~CmdExecute /\ Creating
  <2>1. UNCHANGED <<pipeline_bound_graph, executing, sent>>
    BY <1>5 DEF CmdExit, CmdNew, CmdOpen, CmdSave, CmdCreate, execution, runnerVars
  <2>2. \A i \in Editors : documents'[i].editor = documents[i].editor
                        /\ documents'[i].half = documents[i].half
    BY <1>1, EditorsStay
  <2>3. Open \subseteq Open'
    <3>1. num_documents' = num_documents \/ num_documents' = num_documents + 1
      BY <1>5 DEF CmdExit, CmdNew, CmdOpen, CmdSave, CmdCreate, NewDocument
    <3>2. num_documents \in Int
      BY AppAssumption DEF DocumentsInv
    <3> QED
      BY <3>1, <3>2 DEF Open
  <2>4. PICK shown : shown = frame.visible
    OBVIOUS
  <2>5. IsOpen(shown)
    BY <1>5, <2>4 DEF DrawnInv
  <2>6. IsOpen(shown)'
    BY <2>2, <2>3, <2>5, DrawnStays
  <2>7. ~frame.switching => documents'[frame.active].editor = frame.visible
    BY <1>1, <1>5, <2>2 DEF DrawnInv
  <2> QED
    BY <1>1, <1>3, <1>5, <2>1, <2>2, <2>4, <2>6, <2>7 DEF DrawnInv, Graph
<1> QED
  BY <1>4, <1>5

LEMMA WorkerKeepsDrawn ==
    ASSUME ExecutionInv, DrawnInv, Worker
    PROVE  DrawnInv'
<1>1. UNCHANGED <<documents, num_documents, active_document_index, frame, commands,
                  pipeline_bound_graph>>
  BY DEF Worker, appVars, view, execution
<1>2. executing = Nothing /\ sent = <<>> => executing' = Nothing /\ sent' = <<>>
  BY DEF Worker, Work, Start, Forget, Finish
<1> QED
  BY <1>1, <1>2 DEF DrawnInv, Creating, Given, IsOpen, Open

LEMMA DrawnStep ==
    ASSUME AppInv, [Next]_vars, DocumentsInv', FrameInv', CommandsInv'
    PROVE  DrawnInv'
<1> USE DEF AppInv
<1>1. ASSUME frame'.pc \in {"begin", "terminate", "menu", "draw", "ended"}
      PROVE  DrawnInv'
  BY <1>1, NothingDrawn DEF FrameInv, CommandsInv
<1>2. CASE QuitRequested \/ ReloadPlugins \/ MigrateDocuments \/ Begin \/ Menu \/ EndFrame
           \/ Cleanup
  <2>1. DOMAIN frame = {"pc", "click", "can_create", "visible", "editable", "early",
                        "switching", "active", "inputs"}
    BY DEF FrameInv
  <2>2. frame'.pc \in {"begin", "terminate", "menu", "draw", "ended"}
    BY <1>2, <2>1 DEF QuitRequested, ReloadPlugins, MigrateDocuments, Begin, Menu, EndFrame,
                      Cleanup, Input, Click, Goto, NewFrame
  <2> QED
    BY <1>1, <2>2
<1>3. CASE UNCHANGED vars
  BY <1>3 DEF vars, appVars, view, execution, runnerVars, DrawnInv, Creating, Given, IsOpen, Open
<1> QED
  BY <1>2, <1>3, DrawKeepsDrawn, EditKeepsDrawn, TabsKeepDrawn, KeysKeepDrawn,
     PopupsKeepDrawn, CommandsKeepDrawn, WorkerKeepsDrawn
  DEF Next, Frame, Commands

-----------------------------------------------------------------------------
(* What a step does to the documents.                                      *)
KeepsDocuments == UNCHANGED <<documents, num_documents>>

(* An edit, in place or by a command, or a mark that there will be one.    *)
Edits(k, content) ==
    /\ Writes(documents', documents, k, content, documents[k].path, TRUE)
    /\ UNCHANGED <<num_documents, files>>
    /\ \/ content = documents[k].content
       \/ frame.editable /\ documents[k].editor = frame.visible
       \/ Creating /\ frame.pc = "commands" /\ k = frame.active

Saves(k, path) ==
    /\ Writes(documents', documents, k, documents[k].content, path, FALSE)
    /\ files' = [files EXCEPT ![path] = documents[k].content]
    /\ UNCHANGED num_documents

Opens(content, path) ==
    /\ NewDocument(content, path)
    /\ UNCHANGED files
    /\ path # NoPath => path \in Paths /\ content \in Remains(files[path])

(* The last document takes the place of the closed one, the k-th, which is *)
(* the last then; unsaved work is closed by an answer for it.              *)
Closes(k) ==
    /\ num_documents' = num_documents - 1
    /\ documents[k].is_dirty => documents[k].editor = asked
    /\ k # num_documents - 1 => documents'[k] = documents[num_documents - 1]
    /\ documents'[num_documents - 1].editor = documents[k].editor
    /\ documents'[num_documents - 1].content = documents[k].content
    /\ documents'[num_documents - 1].path \in Paths \union {NoPath}
    /\ \A j \in Editors \ {k, num_documents - 1} : documents'[j] = documents[j]

LEMMA EditEdits ==
    ASSUME AppInv, Edit
    PROVE  KeepsDocuments \/ \E k \in Editors : \E content : Edits(k, content)
<1>1. CASE UNCHANGED documents
  BY <1>1 DEF Edit, KeepsDocuments
<1>2. CASE ~UNCHANGED documents
  <2>1. frame.editable /\ frame.pc = "edit" /\ frame.visible # None
        /\ UNCHANGED <<num_documents, files>>
    BY <1>2 DEF Edit, AppInv, FrameInv
  <2>2. Visible \in Editors /\ documents[Visible].editor = frame.visible
    BY <2>1, ShownIsOpen DEF AppInv
  <2>3. \/ Writes(documents', documents, Visible, Fresh, documents[Visible].path, TRUE)
        \/ Writes(documents', documents, Visible, documents[Visible].content,
                  documents[Visible].path, TRUE)
    BY <1>2, <2>2, EditWrites, MarkWrites
    DEF AppInv, Edit, EditInPlace, QueueEdge, QueueNode, Visible
  <2> QED
    BY <2>1, <2>2, <2>3 DEF Edits
<1> QED
  BY <1>1, <1>2

(* The document that is closed may have been saved before. *)
LEMMA ClosesOne ==
    ASSUME AppInv, NEW k \in Open, NEW docs, NEW path \in Paths \union {NoPath}, NEW is_dirty,
           Writes(docs, documents, k, documents[k].content, path, is_dirty),
           documents' = Closed(docs, k), num_documents' = num_documents - 1,
           documents[k].is_dirty => documents[k].editor = asked
    PROVE  Closes(k)
<1> DEFINE last == num_documents - 1
<1>1. k \in Editors /\ IsTable(docs)
  BY OpenIndices, WriteKeepsTable DEF AppInv, DocumentsInv
<1>2. /\ last \in Editors
      /\ Closed(docs, k)[k] = docs[last] /\ Closed(docs, k)[last] = docs[k]
      /\ \A j \in Editors \ {k, last} : Closed(docs, k)[j] = docs[j]
  BY <1>1, CloseSwaps DEF AppInv
<1> HIDE DEF last
<1>3. /\ k # last => documents'[k] = documents[last]
      /\ documents'[last].editor = documents[k].editor
      /\ documents'[last].content = documents[k].content
      /\ documents'[last].path = path
      /\ \A j \in Editors \ {k, last} : documents'[j] = documents[j]
  BY <1>1, <1>2 DEF Writes
<1> QED
  BY <1>3 DEF Closes, last

LEMMA NoWriteWrites ==
    ASSUME DocumentsInv, NEW k \in Editors
    PROVE  Writes(documents, documents, k, documents[k].content, documents[k].path,
                  documents[k].is_dirty)
BY DEF DocumentsInv, IsTable, Writes

LEMMA TabsClose ==
    ASSUME AppInv, Tabs
    PROVE  KeepsDocuments \/ \E k \in Open : Closes(k)
<1>1. CASE KeepsDocuments
  BY <1>1
<1>2. CASE ~KeepsDocuments
  <2>1. PICK k \in Open : /\ ~documents[k].is_dirty
                          /\ documents' = Closed(documents, k)
                          /\ num_documents' = num_documents - 1
    BY <1>2 DEF Tabs, KeepTabs, CloseTab, LeaveTabs, KeepsDocuments
  <2>2. k \in Editors
    BY OpenIndices DEF AppInv
  <2> QED
    BY <2>1, <2>2, NoWriteWrites, ClosesOne DEF AppInv, FilesInv
<1> QED
  BY <1>1, <1>2

LEMMA PopupsClose ==
    ASSUME AppInv, Popups
    PROVE  KeepsDocuments \/ \E k \in Open : Closes(k)
<1>1. CASE KeepsDocuments
  BY <1>1
<1>2. CASE ~KeepsDocuments
  <2> DEFINE k == dirty_doc_index
  <2>1. AnswerSave /\ popup = "save"
    BY <1>2 DEF Popups, OpenSaveDialog, AnswerSave, AnswerExit, NoAnswer, view, KeepsDocuments
  <2>2. k \in Open /\ k \in Editors /\ documents[k].editor = asked
    BY <2>1, OpenIndices DEF AppInv, DialogInv, DocumentsInv
  <2>3. ASSUME NEW outcome \in Save(k), outcome.saved,
               documents' = Closed(outcome.documents, k), num_documents' = num_documents - 1
        PROVE  \E j \in Open : Closes(j)
    <3>1. PICK path \in Paths \union ({documents[k].path} \ {NoPath}) :
             Writes(outcome.documents, documents, k, documents[k].content, path, FALSE)
      BY <2>2, <2>3, SaveOutcomes DEF AppInv
    <3>2. path \in Paths \union {NoPath}
      BY <2>2, <3>1 DEF AppInv, FilesInv
    <3> QED
      BY <2>2, <2>3, <3>1, <3>2, ClosesOne
  <2>4. ASSUME documents' = Closed(documents, k), num_documents' = num_documents - 1
        PROVE  \E j \in Open : Closes(j)
    BY <2>2, <2>4, NoWriteWrites, ClosesOne DEF AppInv, FilesInv
  <2> QED
    BY <1>2, <2>1, <2>3, <2>4 DEF AnswerSave, KeepsDocuments
<1> QED
  BY <1>1, <1>2

LEMMA DocumentsChange ==
    ASSUME AppInv, [Next]_vars
    PROVE  \/ KeepsDocuments
           \/ MigrateDocuments
           \/ \E k \in Editors : \E content : Edits(k, content)
           \/ \E k \in Editors, path \in Paths : Saves(k, path)
           \/ \E content, path : Opens(content, path)
           \/ \E k \in Open : Closes(k)
<1>1. CASE CmdNew
  BY <1>1 DEF CmdNew, KeepsDocuments, Opens
<1>2. CASE CmdOpen
  BY <1>2 DEF CmdOpen, KeepsDocuments, Opens
<1>3. CASE CmdSave
  <2>1. frame.active \in Editors /\ UNCHANGED num_documents
    BY <1>3 DEF CmdSave, AppInv, FrameInv
  <2>2. PICK outcome \in Save(frame.active) \union SaveAs(frame.active) :
           documents' = outcome.documents /\ files' = outcome.files
    BY <1>3 DEF CmdSave
  <2>3. \/ UNCHANGED documents
        \/ \E path \in Paths \union ({documents[frame.active].path} \ {NoPath}) :
              Saves(frame.active, path)
    BY <2>1, <2>2, SaveOutcomes DEF AppInv, Saves
  <2>4. documents[frame.active].path \in Paths \union {NoPath}
    BY <2>1 DEF AppInv, FilesInv
  <2> QED
    BY <2>1, <2>3, <2>4 DEF KeepsDocuments
<1>4. CASE CmdCreate
  <2>1. /\ frame.active \in Editors /\ frame.pc = "commands"
        /\ UNCHANGED <<num_documents, files>>
    BY <1>4 DEF CmdCreate, TakeCommand, AppInv, FrameInv
  <2>2. Creating
    BY <1>4, TakenCommand DEF CmdCreate, AppInv, CommandsInv, Creating, Given
  <2>3. documents' \in {documents, Marked(frame.active), Edited(frame.active)}
    BY <1>4 DEF CmdCreate
  <2>4. documents' = Edited(frame.active) => Edits(frame.active, Fresh)
    BY <2>1, <2>2, EditWrites DEF AppInv, Edits
  <2>5. documents' = Marked(frame.active)
           => Edits(frame.active, documents[frame.active].content)
    BY <2>1, MarkWrites DEF AppInv, Edits
  <2> QED
    BY <2>1, <2>3, <2>4, <2>5 DEF KeepsDocuments
<1> QED
  BY <1>1, <1>2, <1>3, <1>4, EditEdits, TabsClose, PopupsClose
  DEF Next, QuitRequested, ReloadPlugins, Frame, Begin, Menu, Draw, Keys, Commands, CmdExit,
      CmdExecute, EndFrame, Cleanup, Worker, view, appVars, vars, KeepsDocuments

LEMMA FilesStep ==
    ASSUME AppInv, [Next]_vars
    PROVE  FilesInv'
<1>1. DOMAIN files' = Paths
  <2>1. DOMAIN files = Paths
    BY DEF AppInv, FilesInv
  <2>2. ASSUME NEW i, NEW outcome \in Save(i) \union SaveAs(i)
        PROVE  DOMAIN outcome.files = Paths
    <3>1. PICK path : outcome \in SaveDocumentAt(i, path)
      BY <2>2 DEF Save, SaveAs
    <3> DEFINE cleaned == [documents EXCEPT ![i].is_dirty = FALSE, ![i].path = path]
    <3>2. outcome \in {[documents |-> documents, files |-> files, saved |-> FALSE],
                       [documents |-> documents, files |-> [files EXCEPT ![path] = Broken],
                        saved |-> FALSE],
                       [documents |-> cleaned,
                        files |-> [files EXCEPT ![path] = documents[i].content],
                        saved |-> TRUE]}
      BY <3>1 DEF SaveDocumentAt
    <3> HIDE DEF cleaned
    <3> QED
      BY <2>1, <3>2
  <2>3. CASE CmdSave
    BY <2>2, <2>3 DEF CmdSave
  <2>4. CASE Popups
    BY <2>1, <2>2, <2>4 DEF Popups, OpenSaveDialog, AnswerSave, AnswerExit, NoAnswer
  <2> QED
    BY <2>1, <2>3, <2>4
    DEF Next, QuitRequested, ReloadPlugins, MigrateDocuments, Frame, Begin, Menu, Draw, Edit, Tabs,
        Keys, Commands, CmdExit, CmdNew, CmdOpen, CmdExecute, CmdCreate, EndFrame, Cleanup,
        Worker, view, appVars, vars
<1>2. \A i \in Editors : documents'[i].path \in Paths \union {NoPath}
  <2>0. \A i \in Editors : documents[i].path \in Paths \union {NoPath}
    BY DEF AppInv, FilesInv
  <2>1. CASE MigrateDocuments
    BY <2>0, <2>1, MigrateTurns DEF AppInv, Turns
  <2>2. ASSUME NEW k \in Editors, NEW content, Edits(k, content)
        PROVE  \A i \in Editors : documents'[i].path \in Paths \union {NoPath}
    BY <2>0, <2>2 DEF Edits, Writes
  <2>3. ASSUME NEW k \in Editors, NEW path \in Paths, Saves(k, path)
        PROVE  \A i \in Editors : documents'[i].path \in Paths \union {NoPath}
    BY <2>0, <2>3 DEF Saves, Writes
  <2>4. ASSUME NEW content, NEW path, Opens(content, path)
        PROVE  \A i \in Editors : documents'[i].path \in Paths \union {NoPath}
    <3>1. Writes(documents', documents, num_documents, content, path, FALSE)
      BY <2>4, NewWrites DEF Opens, AppInv
    <3> QED
      BY <2>0, <2>4, <3>1 DEF Opens, Writes
  <2>5. ASSUME NEW k \in Open, Closes(k)
        PROVE  \A i \in Editors : documents'[i].path \in Paths \union {NoPath}
    <3>1. k \in Editors /\ num_documents - 1 \in Editors
      BY OpenIndices DEF AppInv
    <3> QED
      BY <2>0, <2>5, <3>1 DEF Closes
  <2> QED
    BY <2>0, <2>1, <2>2, <2>3, <2>4, <2>5, DocumentsChange DEF KeepsDocuments
<1> QED
  BY <1>1, <1>2 DEF FilesInv

LEMMA EndedStep ==
    ASSUME FrameInv, EndedInv, [Next]_vars
    PROVE  /\ EndedInv'
           /\ frame'.pc = "ended" => UNCHANGED <<frame, documents, num_documents, quitting, confirmed>>
                                     \/ Cleanup
<1>0. DOMAIN frame = {"pc", "click", "can_create", "visible", "editable", "early",
                      "switching", "active", "inputs"}
  BY DEF FrameInv
<1>1. CASE QuitRequested \/ ReloadPlugins \/ MigrateDocuments \/ Begin \/ Menu \/ Draw \/ Edit
           \/ Tabs \/ Keys
  <2>1. frame'.pc # "ended"
    BY <1>0, <1>1 DEF QuitRequested, ReloadPlugins, MigrateDocuments, Begin, Menu, Draw, Edit,
          Tabs, Keys, Input, Click, Goto, NewFrame, KeepTabs, CloseTab, EditInPlace, QueueEdge,
          QueueNode
  <2> QED
    BY <2>1 DEF EndedInv
<1>2. CASE Popups \/ Commands
  <2>1. frame.pc # "ended"
    BY <1>2 DEF Popups, Commands, CmdExit, CmdNew, CmdOpen, CmdSave, CmdExecute, CmdCreate,
                EndFrame, TakeCommand
  <2>2. frame'.pc # "ended"
    BY <1>0, <1>2, <2>1 DEF Popups, Commands, CmdExit, CmdNew, CmdOpen, CmdSave, CmdExecute,
          CmdCreate, EndFrame, OpenSaveDialog, AnswerSave, AnswerExit, NoAnswer, ToCommands
  <2> QED
    BY <2>2 DEF EndedInv
<1>3. CASE Cleanup
  BY <1>3 DEF Cleanup, EndedInv
<1>4. CASE UNCHANGED appVars
  BY <1>4 DEF appVars, view, history, EndedInv
<1> QED
  BY <1>1, <1>2, <1>3, <1>4 DEF Next, Frame, Worker, vars

-----------------------------------------------------------------------------
LEMMA InitApp == Init => AppInv
<1> SUFFICES ASSUME Init PROVE AppInv
  OBVIOUS
<1> USE DEF Init, RunnerInit
<1>1. /\ documents = [i \in Editors |-> documents[i]]
      /\ \A i \in Editors :
            documents[i] = [editor |-> i, half |-> 0, content |-> Whole(i + 1),
                            path |-> NoPath, is_dirty |-> FALSE]
  OBVIOUS
<1>2. DocumentsInv
  BY <1>1, EditorsAreIndices, AppAssumption DEF DocumentsInv, IsTable, IsDocument
<1>3. FrameInv
  BY EditorsAreIndices DEF FrameInv, Places
<1>4. IsBuffers(pipelines) /\ \A k \in Pipelines : pipelines[k] = [graph |-> <<>>, live |-> 0]
  BY DEF IsBuffers
<1>5. ExecutionInv
  <2>1. sent = <<>> /\ sent \in Seq(Pipelines) /\ {sent[n] : n \in 1 .. Len(sent)} = {}
    OBVIOUS
  <2> QED
    BY <1>4, <2>1, AppAssumption DEF ExecutionInv, Nothing, PipelineDataIsFreedOnce
<1>6. DialogInv
  BY DEF DialogInv
<1>7. ~Creating /\ commands \in Seq(Types) /\ Len(commands) = 0 /\ commands = <<>>
  BY DEF Creating, Given
<1>8. CommandsInv /\ EndedInv
  BY <1>7 DEF CommandsInv, EndedInv
<1>9. DrawnInv
  BY <1>7 DEF DrawnInv
<1>10. FilesInv
  BY <1>1 DEF FilesInv
<1> QED
  BY <1>2, <1>3, <1>5, <1>6, <1>8, <1>9, <1>10 DEF AppInv

LEMMA AppStep == AppInv /\ [Next]_vars => AppInv'
<1> SUFFICES ASSUME AppInv, [Next]_vars PROVE AppInv'
  OBVIOUS
<1>1. DocumentsInv' /\ FrameInv' /\ ExecutionInv' /\ DialogInv' /\ CommandsInv'
  BY DocumentsStep, FrameStep, ExecutionStep, DialogStep, CommandsStep DEF AppInv
<1>2. DrawnInv' /\ EndedInv' /\ FilesInv'
  BY <1>1, DrawnStep, EndedStep, FilesStep DEF AppInv
<1> QED
  BY <1>1, <1>2 DEF AppInv

LEMMA AppIsInductive == Spec => []AppInv
BY InitApp, AppStep, PTL DEF Spec

-----------------------------------------------------------------------------
(* The dialog "Save?" speaks of the document whose cross was clicked, for  *)
(* as long as it is open, however the documents trade places meanwhile:    *)
(* the index that try_close_document put in dirty_doc_index stays that of  *)
(* an open document, because a tab is closed only without a dialog.        *)
THEOREM AppDialogKeepsItsDocument == Spec => []DialogKeepsItsDocument
<1>1. AppInv => DialogKeepsItsDocument
  BY DEF AppInv, DocumentsInv, DialogInv, DialogKeepsItsDocument
<1> QED
  BY <1>1, AppIsInductive, PTL

(* A pipeline that the runner executes or was sent is initialised and not  *)
(* cleaned up, unless Play came again before the worker took the first.    *)
THEOREM AppExecutedPipelineIsLive == Spec => []ExecutedPipelineIsLive
<1>1. AppInv => ExecutedPipelineIsLive
  <2> SUFFICES ASSUME AppInv, ~doubled,
                      NEW k \in executing \union {sent[n] : n \in 1 .. Len(sent)}
               PROVE  pipelines[k].live = 1
    BY DEF ExecutedPipelineIsLive
  <2>1. /\ k = current_pipeline /\ pipeline_bound_graph # <<>> /\ frame.pc # "ended"
        /\ k \in Pipelines /\ PipelineDataIsFreedOnce
    BY DEF AppInv, ExecutionInv
  <2> QED
    BY <2>1 DEF PipelineDataIsFreedOnce
<1> QED
  BY <1>1, AppIsInductive, PTL

(* Through every change of the bound graph, every reload and the end of    *)
(* the program, a pipeline that was initialised is cleaned up once: the    *)
(* current one is live when there is a bound graph, and no other ever is.  *)
THEOREM AppPipelineDataIsFreedOnce == Spec => []PipelineDataIsFreedOnce
<1>1. AppInv => PipelineDataIsFreedOnce
  BY DEF AppInv, ExecutionInv
<1> QED
  BY <1>1, AppIsInductive, PTL

(* What the user dropped on the canvas is created in the document that was *)
(* drawn there, although the command acts on the active document: nothing  *)
(* between the two makes another one active, but a tab about to be shown.  *)
THEOREM AppCreatedWhereDrawn == Spec => []CreatedWhereDrawn
<1>1. AppInv => CreatedWhereDrawn
  <2> SUFFICES ASSUME AppInv, frame.pc = "commands", commands # <<>>,
                      Head(commands) \in {"create_node", "create_edge"}, ~frame.switching
               PROVE  documents[frame.active].editor = frame.visible
    BY DEF CreatedWhereDrawn
  <2>1. commands \in Seq(Types) /\ Len(commands) \in Nat \ {0} /\ Head(commands) = commands[1]
    BY EmptySeq DEF AppInv, CommandsInv
  <2>2. Creating
    BY <2>1 DEF Creating, Given
  <2> QED
    BY <2>2 DEF AppInv, DrawnInv
<1> QED
  BY <1>1, AppIsInductive, PTL

-----------------------------------------------------------------------------
(* Where a document is before and after a step. *)
LEMMA DocumentAt ==
    ASSUME NEW docs, IsTable(docs), NEW i \in Editors, NEW editor, docs[i].editor = editor
    PROVE  docs[CHOOSE j \in Editors : docs[j].editor = editor] = docs[i]
<1>1. (CHOOSE j \in Editors : docs[j].editor = editor) = i
  BY DEF IsTable
<1> QED
  BY <1>1

LEMMA NewIsLast ==
    ASSUME DocumentsInv, NEW content, NEW path, NewDocument(content, path)
    PROVE  /\ num_documents \in Editors /\ num_documents \notin Open
           /\ Open' = Open \union {num_documents}
           /\ Writes(documents', documents, num_documents, content, path, FALSE)
<1>1. num_documents \in Nat /\ num_documents' = num_documents + 1
  BY AppAssumption DEF DocumentsInv, NewDocument
<1>2. num_documents \notin Open /\ Open' = Open \union {num_documents}
  BY <1>1 DEF Open
<1> QED
  BY <1>2, NewWrites

LEMMA ClosedIsLast ==
    ASSUME DocumentsInv, NEW k \in Open, Closes(k)
    PROVE  LET last == num_documents - 1 IN
           /\ Open \subseteq Editors /\ last \in Open /\ last \notin Open'
           /\ Open = Open' \union {last}
BY OpenIndices, AppAssumption DEF Closes, Open, DocumentsInv

(* An open document stays open, somewhere, unless it is the closed one. *)
LEMMA UnsavedStaysOpen ==
    ASSUME AppInv, [Next]_vars, NEW i \in Open, documents[i].is_dirty
    PROVE  (\E j \in Open' : documents'[j].editor = documents[i].editor)
           \/ asked = documents[i].editor
<1>0. i \in Editors /\ DocumentsInv
  BY OpenIndices DEF AppInv
<1>1. CASE KeepsDocuments
  BY <1>1 DEF KeepsDocuments, Open
<1>2. CASE MigrateDocuments
  BY <1>0, <1>2, MigrateTurns DEF Turns
<1>3. ASSUME NEW k \in Editors, NEW content, Edits(k, content)
      PROVE  documents'[i].editor = documents[i].editor /\ i \in Open'
  BY <1>0, <1>3 DEF Edits, Writes, Open
<1>4. ASSUME NEW k \in Editors, NEW path, Saves(k, path)
      PROVE  documents'[i].editor = documents[i].editor /\ i \in Open'
  BY <1>0, <1>4 DEF Saves, Writes, Open
<1>5. ASSUME NEW content, NEW path, Opens(content, path)
      PROVE  documents'[i].editor = documents[i].editor /\ i \in Open'
  BY <1>0, <1>5, NewIsLast DEF Opens, Writes
<1>6. ASSUME NEW k \in Open, Closes(k)
      PROVE  (\E j \in Open' : documents'[j].editor = documents[i].editor)
             \/ asked = documents[i].editor
  <2> DEFINE last == num_documents - 1
  <2>1. Open \subseteq Editors /\ last \in Open /\ last \notin Open' /\ Open = Open' \union {last}
    BY <1>0, <1>6, ClosedIsLast
  <2>2. CASE i = k
    BY <1>6, <2>2 DEF Closes
  <2>3. CASE i # k /\ i = last
    <3>1. k \in Open' /\ documents'[k] = documents[last]
      BY <1>6, <2>1, <2>3 DEF Closes
    <3> QED
      BY <2>3, <3>1
  <2>4. CASE i # k /\ i # last
    <3>1. i \in Open' /\ documents'[i] = documents[i]
      BY <1>0, <1>6, <2>1, <2>4 DEF Closes
    <3> QED
      BY <3>1
  <2> QED
    BY <2>2, <2>3, <2>4
<1> QED
  BY <1>1, <1>2, <1>3, <1>4, <1>5, <1>6, DocumentsChange

(* A document with unsaved work is closed only by an answer to the dialog  *)
(* that was opened for it, and the program ends with unsaved work only     *)
(* after "Exit?" was answered with yes: a quit that found nothing to       *)
(* confirm lets nothing be changed in what is left of its frame.           *)
THEOREM AppUnsavedWorkIsConfirmed == Spec => UnsavedWorkIsConfirmed
<1> DEFINE A == /\ \A editor \in Editors :
                      IsOpen(editor) /\ Of(editor).is_dirty => IsOpen(editor)' \/ asked = editor
                /\ (frame.pc = "ended")' => confirmed \/ ~ShouldConfirmExit
<1>1. AppInv /\ [Next]_vars => [A]_vars
  <2> SUFFICES ASSUME AppInv, [Next]_vars PROVE A
    OBVIOUS
  <2>1. ASSUME NEW editor \in Editors, IsOpen(editor), Of(editor).is_dirty
        PROVE  IsOpen(editor)' \/ asked = editor
    <3>1. PICK i \in Open : documents[i].editor = editor
      BY <2>1 DEF IsOpen
    <3>2. documents[i].is_dirty
      BY <2>1, <3>1, OpenIndices DEF AppInv, Of
    <3> QED
      BY <3>1, <3>2, UnsavedStaysOpen DEF IsOpen
  <2>2. frame'.pc = "ended" => confirmed \/ ~ShouldConfirmExit
    <3>1. ASSUME frame'.pc = "ended"
          PROVE  quitting
      BY <3>1, EndedStep DEF AppInv, EndedInv, Cleanup
    <3> QED
      BY <3>1 DEF AppInv, CommandsInv
  <2> QED
    BY <2>1, <2>2
<1> QED
  BY <1>1, AppIsInductive, PTL DEF Spec, UnsavedWorkIsConfirmed

(* A clean document that was clean before, at the same path.               *)
StaysClean(after, before) ==
    /\ before.editor = after.editor /\ before.path = after.path /\ ~before.is_dirty
    /\ \/ after.content = before.content
       \/ Reloading /\ after.content = Part(before.content)

LEMMA CleanIsSaved ==
    ASSUME AppInv, [Next]_vars, NEW i \in Open', documents'[i].path # NoPath,
           ~documents'[i].is_dirty
    PROVE  \/ documents'[i].content = files'[documents'[i].path]
           \/ /\ ~IsOpen(documents'[i].editor)
              /\ documents'[i].content \in Remains(files[documents'[i].path])
           \/ \E j \in Open : StaysClean(documents'[i], documents[j])
<1>0. DocumentsInv /\ Open \subseteq Editors /\ DOMAIN files = Paths
  BY OpenIndices DEF AppInv, FilesInv
<1>1. CASE KeepsDocuments
  BY <1>1 DEF KeepsDocuments, Open, StaysClean
<1>2. CASE MigrateDocuments
  <2>1. i \in Open /\ Reloading /\ Turns(documents'[i], documents[i])
    BY <1>0, <1>2, MigrateTurns DEF MigrateDocuments, Reloading
  <2> QED
    BY <2>1 DEF Turns, Remains, StaysClean
<1>3. ASSUME NEW k \in Editors, NEW content, Edits(k, content)
      PROVE  i \in Open /\ documents'[i] = documents[i]
  BY <1>0, <1>3 DEF Edits, Writes, Open
<1>4. ASSUME NEW k \in Editors, NEW path \in Paths, Saves(k, path)
      PROVE  \/ documents'[i].content = files'[documents'[i].path]
             \/ i \in Open /\ documents'[i] = documents[i]
  BY <1>0, <1>4 DEF Saves, Writes, Open
<1>5. ASSUME NEW content, NEW path, Opens(content, path)
      PROVE  \/ /\ ~IsOpen(documents'[i].editor)
                /\ documents'[i].content \in Remains(files[documents'[i].path])
             \/ i \in Open /\ documents'[i] = documents[i]
  <2>1. /\ num_documents \in Editors /\ num_documents \notin Open
        /\ Open' = Open \union {num_documents}
        /\ Writes(documents', documents, num_documents, content, path, FALSE)
    BY <1>0, <1>5, NewIsLast DEF Opens
  <2>2. CASE i = num_documents
    <3>1. documents'[i].editor = documents[i].editor /\ documents'[i].path = path
          /\ documents'[i].content = content
      BY <2>1, <2>2 DEF Writes
    <3>2. ~IsOpen(documents[i].editor)
      BY <1>0, <2>1, <2>2 DEF IsOpen, DocumentsInv, IsTable
    <3> QED
      BY <1>5, <3>1, <3>2 DEF Opens
  <2>3. CASE i # num_documents
    BY <1>0, <2>1, <2>3 DEF Writes
  <2> QED
    BY <2>2, <2>3
<1>6. ASSUME NEW k \in Open, Closes(k)
      PROVE  \E j \in Open : documents'[i] = documents[j]
  <2> DEFINE last == num_documents - 1
  <2>1. last \in Open /\ last \notin Open' /\ Open = Open' \union {last}
    BY <1>0, <1>6, ClosedIsLast
  <2>2. i # last /\ i \in Open
    BY <2>1
  <2>3. CASE i = k
    BY <1>6, <2>1, <2>2, <2>3 DEF Closes
  <2>4. CASE i # k
    BY <1>0, <1>6, <2>2, <2>4 DEF Closes
  <2> QED
    BY <2>3, <2>4
<1>7. ASSUME NEW j \in Open, documents'[i] = documents[j]
      PROVE  StaysClean(documents'[i], documents[j])
  BY <1>7 DEF StaysClean
<1> QED
  BY <1>1, <1>2, <1>3, <1>4, <1>5, <1>6, <1>7, DocumentsChange

(* A document becomes clean only with what its file has, and stays clean   *)
(* only while its path and its contents stay, but for what a reload leaves *)
(* out: saving, opening, closing and the swap of documents keep the mark   *)
(* and the file together.                                                  *)
THEOREM AppCleanMeansSaved == Spec => CleanMeansSaved
<1> DEFINE Result(editor) ==
              \/ Of(editor)'.content = files'[Of(editor)'.path]
              \/ ~IsOpen(editor) /\ Of(editor)'.content \in Remains(files[Of(editor)'.path])
              \/ /\ IsClean(editor) /\ Of(editor)'.path = Of(editor).path
                 /\ \/ Of(editor)'.content = Of(editor).content
                    \/ Reloading /\ Of(editor)'.content = Part(Of(editor).content)
           A == \A editor \in Editors : IsClean(editor)' => Result(editor)
<1>1. AppInv /\ AppInv' /\ [Next]_vars => [A]_vars
  <2> SUFFICES ASSUME AppInv, AppInv', [Next]_vars PROVE A
    OBVIOUS
  <2> SUFFICES ASSUME NEW editor \in Editors, IsClean(editor)'
               PROVE  Result(editor)
    OBVIOUS
  <2>1. PICK i \in Open' : documents'[i].editor = editor
    BY DEF IsClean, IsOpen
  <2>2. IsTable(documents') /\ i \in Editors
    <3>1. IsTable(documents') /\ num_documents' \in 0 .. MaxDocuments
      BY DEF AppInv, DocumentsInv
    <3> QED
      BY <3>1, EditorsAreIndices DEF Open
  <2>3. Of(editor)' = documents'[i]
    BY <2>1, <2>2, DocumentAt DEF Of, IndexOf
  <2>4. documents'[i].path # NoPath /\ ~documents'[i].is_dirty
    BY <2>3 DEF IsClean
  <2>5. CASE documents'[i].content = files'[documents'[i].path]
    BY <2>3, <2>5
  <2>6. CASE /\ ~IsOpen(documents'[i].editor)
             /\ documents'[i].content \in Remains(files[documents'[i].path])
    BY <2>1, <2>3, <2>6
  <2>7. ASSUME NEW j \in Open, StaysClean(documents'[i], documents[j])
        PROVE  Result(editor)
    <3>1. j \in Editors /\ documents[j].editor = editor
      BY <2>1, <2>7, OpenIndices DEF AppInv, StaysClean
    <3>2. Of(editor) = documents[j]
      BY <3>1, DocumentAt DEF AppInv, DocumentsInv, Of, IndexOf
    <3>3. IsClean(editor)
      BY <2>4, <2>7, <3>1, <3>2 DEF IsClean, IsOpen, StaysClean
    <3> QED
      BY <2>3, <2>7, <3>2, <3>3 DEF StaysClean
  <2> QED
    BY <2>4, <2>5, <2>6, <2>7, CleanIsSaved
<1> QED
  BY <1>1, AppIsInductive, PTL DEF Spec, CleanMeansSaved

LEMMA BoundGraphStays ==
    ASSUME AppInv, [Next]_vars, executing # Nothing, ~frame.early, ~frame.switching,
           NEW i \in Open, Graph(documents[i]) = pipeline_bound_graph
    PROVE  \E j \in Editors : /\ documents'[j].editor = documents[i].editor
                              /\ documents'[j].content = documents[i].content
<1>0. DocumentsInv /\ Open \subseteq Editors /\ i \in Editors
  BY OpenIndices DEF AppInv
<1>1. CASE KeepsDocuments
  BY <1>0, <1>1 DEF KeepsDocuments
<1>2. CASE MigrateDocuments
  BY <1>2 DEF MigrateDocuments, Reset, AppInv, ExecutionInv
<1>3. ASSUME NEW k \in Editors, NEW content, Edits(k, content)
      PROVE  /\ documents'[i].editor = documents[i].editor
             /\ documents'[i].content = documents[i].content
  <2>1. CASE i # k \/ content = documents[k].content
    BY <1>0, <1>3, <2>1 DEF Edits, Writes
  <2>2. CASE i = k /\ content # documents[k].content
    <3>1. \/ frame.editable /\ documents[k].editor = frame.visible
          \/ Creating /\ frame.pc = "commands" /\ k = frame.active
      BY <1>3, <2>2 DEF Edits
    <3>2. (frame.editable \/ Creating) /\ documents[k].editor = frame.visible
      BY <3>1 DEF AppInv, DrawnInv
    <3>3. Graph(documents[k]) # pipeline_bound_graph
      BY <3>2 DEF AppInv, DrawnInv
    <3> QED
      BY <2>2, <3>3
  <2> QED
    BY <2>1, <2>2
<1>4. ASSUME NEW k \in Editors, NEW path, Saves(k, path)
      PROVE  /\ documents'[i].editor = documents[i].editor
             /\ documents'[i].content = documents[i].content
  BY <1>0, <1>4 DEF Saves, Writes
<1>5. ASSUME NEW content, NEW path, Opens(content, path)
      PROVE  documents'[i] = documents[i]
  BY <1>0, <1>5, NewIsLast DEF Opens, Writes
<1>6. ASSUME NEW k \in Open, Closes(k)
      PROVE  \E j \in Editors : /\ documents'[j].editor = documents[i].editor
                                /\ documents'[j].content = documents[i].content
  <2> DEFINE last == num_documents - 1
  <2>1. last \in Editors
    BY <1>0, <1>6, ClosedIsLast
  <2>2. CASE i = k
    BY <1>6, <2>1, <2>2 DEF Closes
  <2>3. CASE i # k /\ i = last
    BY <1>0, <1>6, <2>3 DEF Closes
  <2>4. CASE i # k /\ i # last
    BY <1>0, <1>6, <2>4 DEF Closes
  <2> QED
    BY <2>2, <2>3, <2>4
<1> QED
  BY <1>0, <1>1, <1>2, <1>3, <1>4, <1>5, <1>6, DocumentsChange

(* The graph the worker walks is not changed under it: what draw_editor    *)
(* was told is still so when the edit and the commands of the frame come,  *)
(* because no other pipeline can be sent between the two.                  *)
THEOREM AppExecutedGraphIsLeftAlone == Spec => ExecutedGraphIsLeftAlone
<1> DEFINE A == \A k \in executing : \A editor \in Editors :
                   /\ pipelines[k].graph = Graph(Of(editor)) /\ IsOpen(editor)
                   /\ ~frame.early /\ ~frame.switching
                   => Of(editor)'.content = Of(editor).content
<1>1. AppInv /\ AppInv' /\ [Next]_vars => [A]_vars
  <2> SUFFICES ASSUME AppInv, AppInv', [Next]_vars,
                      NEW k \in executing, NEW editor \in Editors,
                      pipelines[k].graph = Graph(Of(editor)), IsOpen(editor),
                      ~frame.early, ~frame.switching
               PROVE  Of(editor)'.content = Of(editor).content
    OBVIOUS
  <2>1. executing # Nothing /\ pipelines[k].graph = pipeline_bound_graph
    BY DEF AppInv, ExecutionInv, Nothing
  <2>2. PICK i \in Open : documents[i].editor = editor
    BY DEF IsOpen
  <2>3. i \in Editors /\ Of(editor) = documents[i]
    BY <2>2, OpenIndices DEF AppInv, Of
  <2>4. PICK j \in Editors : /\ documents'[j].editor = documents[i].editor
                             /\ documents'[j].content = documents[i].content
    BY <2>1, <2>2, <2>3, BoundGraphStays
  <2>5. Of(editor)' = documents'[j]
    BY <2>2, <2>4, DocumentAt DEF AppInv, DocumentsInv, Of, IndexOf
  <2> QED
    BY <2>3, <2>4, <2>5
<1> QED
  BY <1>1, AppIsInductive, PTL DEF Spec, ExecutedGraphIsLeftAlone
=============================================================================
