------------------------------ MODULE DeployServer ------------------------------
(***************************************************************************)
(* DeployHandler with the parser that it calls: Xml2Dag builds the nodes   *)
(* and edges of a workflow from a BPMN document. Document and node set are *)
(* package variables, so the requests that are being handled at the same   *)
(* time share them: doc and dag are pointers to the ones made last.        *)
(*                                                                         *)
(* A document or a node set is called by the request that made it. A       *)
(* document is abstracted to its elements in the order of the text, and    *)
(* the parser makes them visible one by one.                               *)
(***************************************************************************)
EXTENDS ServerRequests, Sequences

CONSTANTS
  Body,      \* the bodies of deploy requests
  Id,        \* ids of workflows
  Dashed,    \* Dashed[i]: i with '-' for every '_'
  Nobody     \* a pointer that was not set

\* "docker" is a task whose attribute custom is "1". An "edge" leads to a task, a
\* "loose-edge" has the empty string as its target, a "half-edge" lacks an end.
Task == {"docker", "plain"}
Flow == {"edge", "loose-edge", "half-edge"}
Element == {"definitions", "process", "id"} \cup Task \cup Flow

\* flaw: why the handler gives up, if it does: it is no POST or cannot be read, its
\* JSON cannot be decoded, the XML is malformed after its last element.
Flaw == {"none", "request", "xml"}

ASSUME DeployAssumption ==
  /\ Body \subseteq [flaw : Flaw, id : Id, xml : Seq(Element)]
  /\ Dashed \in [Id -> Id]
  /\ "none" \notin Id
  /\ NoJob \notin Body
  /\ Nobody \notin Request

VARIABLES
  dag, doc,  \* the package variables
  roots,     \* roots[d]: whose root elements document d has, in their order
  read,      \* read[r]: how many elements of its text r has parsed
  nodes,     \* nodes[m]: by name, the number of dependencies of each node of set m
  writers,   \* writers[m]: the requests inside an assignment to map m
  set,       \* set[r]: the map that r is writing to
  source,    \* source[r]: whose process element r found
  id,        \* id[r]: process_id
  todo,      \* todo[r]: positions in that document left to a loop
  starter    \* starter[r]: id and node set that CreateWorkflow was called with

deployVars == <<dag, doc, roots, read, nodes, writers, set, source, id, todo, starter>>
parseVars == <<dag, doc, roots, read, nodes, writers>>

\* A definition named ...Bug is not part of the specification: it is the one below
\* it with a plausible mistake, which a property must notice.
GetNameBug == "1"

\* Fillin is a TODO, so a node has the name it was made with.
Unnamed == ""
GetName == Unnamed

IsNodeSet(n) == \E names \in SUBSET {Unnamed} : n \in [names -> Nat]
EmptySet == [name \in {} |-> 0]
NoStarter == [id |-> "none", nodes |-> EmptySet]

DeployPlaces == {"new-map", "new-document", "open", "elements", "process", "tasks",
                 "node", "assign", "edge"}

DeployTypeOK ==
  /\ dag \in Request \cup {Nobody}
  /\ doc \in Request \cup {Nobody}
  /\ roots \in [Request -> Seq(Request)]
  /\ read \in [Request -> Nat]
  /\ DOMAIN nodes = Request /\ \A m \in Request : IsNodeSet(nodes[m])
  /\ writers \in [Request -> SUBSET Request]
  /\ set \in [Request -> Request \cup {Nobody}]
  /\ source \in [Request -> Request \cup {Nobody}]
  /\ id \in [Request -> Id \cup {"none"}]
  /\ todo \in [Request -> SUBSET Nat]
  /\ DOMAIN starter = Request
  /\ \A r \in Request : starter[r].id \in Id \cup {"none"} /\ IsNodeSet(starter[r].nodes)

DeployInit ==
  /\ dag = Nobody
  /\ doc = Nobody
  /\ roots = [r \in Request |-> << >>]
  /\ read = [r \in Request |-> 0]
  /\ nodes = [r \in Request |-> EmptySet]
  /\ writers = [r \in Request |-> {}]
  /\ set = [r \in Request |-> Nobody]
  /\ source = [r \in Request |-> Nobody]
  /\ id = [r \in Request |-> "none"]
  /\ todo = [r \in Request |-> {}]
  /\ starter = [r \in Request |-> NoStarter]

Deploys == {r \in Request : job[r] \in Body}

-----------------------------------------------------------------------------
(* The handler up to Xml2Dag, and the two assignments to package variables *)

ReceiveDeploy(r) ==
  /\ listening = "yes"
  /\ \E b \in Body : Receive(r, b, b.flaw = "request", "new-map")
  /\ UNCHANGED deployVars

NewMap(r) ==
  /\ at[r] = "new-map"
  /\ dag' = r
  /\ GoTo(r, "new-document")
  /\ UNCHANGED <<doc, roots, read, nodes, writers, set, source, id, todo, starter>>

NewDocumentBug(r) ==
  /\ at[r] = "new-document"
  /\ doc' = IF doc = Nobody THEN r ELSE doc
  /\ GoTo(r, "open")
  /\ UNCHANGED <<dag, roots, read, nodes, writers, set, source, id, todo, starter>>

NewDocument(r) ==
  /\ at[r] = "new-document"
  /\ doc' = r
  /\ GoTo(r, "open")
  /\ UNCHANGED <<dag, roots, read, nodes, writers, set, source, id, todo, starter>>

-----------------------------------------------------------------------------
(* doc.ReadFromString: the text is parsed into whatever document doc leads to *)

Open(r) ==
  /\ at[r] = "open"
  /\ roots' = [roots EXCEPT ![doc] = Append(@, r)]
  /\ GoTo(r, "elements")
  /\ UNCHANGED <<dag, doc, read, nodes, writers, set, source, id, todo, starter>>

ReadElement(r) ==
  /\ at[r] = "elements"
  /\ read[r] < Len(job[r].xml)
  /\ read' = [read EXCEPT ![r] = @ + 1]
  /\ UNCHANGED <<requestVars, dag, doc, roots, nodes, writers, set, source, id, todo, starter>>

ReadEnd(r) ==
  /\ at[r] = "elements"
  /\ read[r] = Len(job[r].xml)
  /\ \/ job[r].flaw = "none" /\ GoTo(r, "process")
     \/ job[r].flaw = "xml" /\ Finish(r, "silent")
  /\ UNCHANGED deployVars

-----------------------------------------------------------------------------
(* What Xml2Dag takes from the document that doc leads to by then *)

\* The positions of the elements of a kind that can be seen of q's text.
Seen(q, kinds) == {i \in 1..read[q] : job[q].xml[i] \in kinds}

\* The first element of a document with the name "definitions".
Definitions(d, q) ==
  \E i \in 1..Len(roots[d]) :
    /\ roots[d][i] = q
    /\ Seen(q, {"definitions"}) # {}
    /\ \A j \in 1..i-1 : Seen(roots[d][j], {"definitions"}) = {}

\* A nil element is found where there is none, and its method called.
SelectProcess(r) ==
  /\ at[r] = "process"
  /\ \/ \E q \in Request :
          /\ Definitions(doc, q)
          /\ Seen(q, {"process"}) # {}
          /\ source' = [source EXCEPT ![r] = q]
          /\ id' = [id EXCEPT ![r] = IF Seen(q, {"id"}) # {} THEN Dashed[job[q].id] ELSE "none"]
          /\ GoTo(r, "tasks")
     \/ /\ \A q \in Request : Definitions(doc, q) => Seen(q, {"process"}) = {}
        /\ Finish(r, "aborted")
        /\ UNCHANGED <<source, id>>
  /\ UNCHANGED <<parseVars, set, todo, starter>>

\* SelectElements("task"), and SelectElements("sequenceFlow") after buildNode
SelectTasks(r) ==
  /\ at[r] = "tasks"
  /\ todo' = [todo EXCEPT ![r] = Seen(source[r], Task)]
  /\ GoTo(r, "node")
  /\ UNCHANGED <<parseVars, set, source, id, starter>>

SelectFlows(r) ==
  /\ at[r] = "node"
  /\ todo[r] = {}
  /\ todo' = [todo EXCEPT ![r] = Seen(source[r], Flow)]
  /\ GoTo(r, "edge")
  /\ UNCHANGED <<parseVars, set, source, id, starter>>

\* Position i is the next one of a loop, and has an element of these kinds.
IsNext(r, i, kinds) ==
  /\ \A j \in todo[r] : i <= j
  /\ job[source[r]].xml[i] \in kinds

\* The local variables of a call that has returned.
Forget(r) ==
  /\ source' = [source EXCEPT ![r] = Nobody]
  /\ id' = [id EXCEPT ![r] = "none"]
  /\ todo' = [todo EXCEPT ![r] = {}]

\* A loop takes the next of the elements it was given.
NextOf(r, kinds) ==
  \E i \in todo[r] : IsNext(r, i, kinds) /\ todo' = [todo EXCEPT ![r] = @ \ {i}]

-----------------------------------------------------------------------------
(* buildNode, and its assignments to the map that dag leads to *)

SkipTask(r) ==
  /\ at[r] = "node"
  /\ NextOf(r, {"plain"})
  /\ UNCHANGED <<requestVars, parseVars, set, source, id, starter>>

\* The runtime may notice another write to the map (see MapRace), and may not.
BeginNode(r) ==
  /\ at[r] = "node"
  /\ NextOf(r, {"docker"})
  /\ set' = [set EXCEPT ![r] = dag]
  /\ writers' = [writers EXCEPT ![dag] = @ \cup {r}]
  /\ GoTo(r, "assign")
  /\ UNCHANGED <<dag, doc, roots, read, nodes, source, id, starter>>

EndNode(r) ==
  /\ at[r] = "assign"
  /\ nodes' = [nodes EXCEPT ![set[r]] = [name \in DOMAIN @ \cup {GetName} |->
                                           IF name = GetName THEN 0 ELSE @[name]]]
  /\ writers' = [writers EXCEPT ![set[r]] = @ \ {r}]
  /\ set' = [set EXCEPT ![r] = Nobody]
  /\ GoTo(r, "node")
  /\ UNCHANGED <<dag, doc, roots, read, source, id, todo, starter>>

-----------------------------------------------------------------------------
(* buildFlow, and the end of Xml2Dag and of the handler *)

\* An edge without one of its ends is ignored.
SkipFlow(r) ==
  /\ at[r] = "edge"
  /\ NextOf(r, {"half-edge"})
  /\ UNCHANGED <<requestVars, parseVars, set, source, id, starter>>

Connect(r) ==
  /\ at[r] = "edge"
  /\ NextOf(r, {"loose-edge"})
  /\ Unnamed \in DOMAIN nodes[dag]
  /\ nodes' = [nodes EXCEPT ![dag][Unnamed] = @ + 1]
  /\ UNCHANGED <<requestVars, dag, doc, roots, read, writers, set, source, id, starter>>

\* dag[targetRef] is a nil Node, and AppendDep is called on it.
ConnectToNil(r) ==
  /\ at[r] = "edge"
  /\ \E i \in todo[r] :
       \/ IsNext(r, i, {"edge"})
       \/ IsNext(r, i, {"loose-edge"}) /\ Unnamed \notin DOMAIN nodes[dag]
  /\ Finish(r, "aborted")
  /\ Forget(r)
  /\ UNCHANGED <<parseVars, set, starter>>

\* Xml2Dag insists on an id at the end only.
NoId(r) ==
  /\ at[r] = "edge"
  /\ todo[r] = {}
  /\ id[r] = "none"
  /\ Finish(r, "silent")
  /\ Forget(r)
  /\ UNCHANGED <<parseVars, set, starter>>

\* NewWorkflowStarter gets a pointer to the package variable dag. CreateWorkflow is
\* a TODO that returns nil.
Deploy(r) ==
  /\ at[r] = "edge"
  /\ todo[r] = {}
  /\ id[r] # "none"
  /\ starter' = [starter EXCEPT ![r] = [id |-> id[r], nodes |-> nodes[dag]]]
  /\ Finish(r, "success")
  /\ Forget(r)
  /\ UNCHANGED <<parseVars, set>>

UsesMap(r) ==
  \E i \in todo[r] : \/ at[r] = "node" /\ IsNext(r, i, {"docker"})
                     \/ at[r] = "edge" /\ IsNext(r, i, {"edge", "loose-edge"})

\* The runtime notices that a map is used while another goroutine writes to it,
\* which ends the process: there is no way to recover from it.
MapRace(r) == UsesMap(r) /\ writers[dag] \ {r} # {}

DeployStep(r) ==
  \/ ReceiveDeploy(r) \/ NewMap(r) \/ NewDocument(r)
  \/ Open(r) \/ ReadElement(r) \/ ReadEnd(r)
  \/ SelectProcess(r) \/ SelectTasks(r) \/ SelectFlows(r)
  \/ SkipTask(r) \/ BeginNode(r) \/ EndNode(r)
  \/ SkipFlow(r) \/ Connect(r) \/ ConnectToNil(r) \/ NoId(r) \/ Deploy(r)

\* All memory is gone; starter is history.
DeployLost ==
  /\ dag' = Nobody
  /\ doc' = Nobody
  /\ roots' = [r \in Request |-> << >>]
  /\ read' = [r \in Request |-> 0]
  /\ nodes' = [r \in Request |-> EmptySet]
  /\ writers' = [r \in Request |-> {}]
  /\ set' = [r \in Request |-> Nobody]
  /\ source' = [r \in Request |-> Nobody]
  /\ id' = [r \in Request |-> "none"]
  /\ todo' = [r \in Request |-> {}]
  /\ UNCHANGED starter
=============================================================================
