--------------------------- MODULE AstroServerProofs ---------------------------
(***************************************************************************)
(* For any requests, bodies, organizations, projects and names, handled in *)
(* any number at a time: the answer of a deploy request that is handled    *)
(* alone, the safety properties of saves and of the calls of the           *)
(* Kubernetes adapters, what overlapping deploy requests get from each     *)
(* other, and that all of it implements ServerPromise.                     *)
(***************************************************************************)
EXTENDS AstroServer, FiniteSetTheorems, SequenceTheorems, TLAPS

Places == DeployPlaces \cup SavePlaces \cup AdapterPlaces

RequestTypes == RequestsTypeOK(Body \cup Save \cup Call, Places)

\* What a request asks for can be told from its body.
LEMMA Kinds ==
  /\ \A j \in Body : j \notin Save /\ j \notin Call /\ j # NoJob
  /\ \A j \in Save : j \notin Body /\ j \notin Call /\ j # NoJob
  /\ \A j \in Call : j \notin Body /\ j \notin Save /\ j # NoJob
<1>1. \A j \in Body : DOMAIN j = {"flaw", "id", "xml"}
  BY DeployAssumption
<1>2. \A j \in Save : DOMAIN j = {"flaw", "org", "project"}
  BY SaveAssumption
<1>3. \A j \in Call : DOMAIN j = {"op", "name"}
  BY AdapterAssumption
<1>4. "id" \notin {"flaw", "org", "project"} /\ "flaw" \notin {"op", "name"}
  OBVIOUS
<1>5. \A j \in Body : j \notin Save /\ j \notin Call
  BY <1>1, <1>2, <1>3, <1>4
<1>6. \A j \in Save : j \notin Call
  BY <1>2, <1>3, <1>4
<1> QED
  BY <1>5, <1>6, DeployAssumption, SaveAssumption, AdapterAssumption

LEMMA PlaceKinds ==
  /\ \A p \in DeployPlaces : p \notin SavePlaces /\ p \notin AdapterPlaces
  /\ \A p \in SavePlaces : p \notin AdapterPlaces
  /\ "idle" \notin Places /\ "done" \notin Places
BY DEF DeployPlaces, SavePlaces, AdapterPlaces, Places

-----------------------------------------------------------------------------
(* What a step does to the requests *)

\* The place p fits what is asked for.
Suits(p, j) ==
  /\ p \in DeployPlaces => j \in Body
  /\ p \in SavePlaces => j \in Save
  /\ p \in AdapterPlaces => j \in Call

\* Request r is made.
Begins(r) ==
  /\ at[r] = "idle"
  /\ \E j \in Body \cup Save \cup Call, p \in Places \cup {"done"}, how \in {"none", "silent"} :
       /\ Suits(p, j)
       /\ how = "silent" <=> p = "done"
       /\ p = "done" => j \notin Call /\ (j \in Save => j.flaw = "request")
       /\ p # "done" => p \in {"new-map", "bucket", "create-deployment", "delete-deployment"}
       /\ job' = [job EXCEPT ![r] = j]
       /\ at' = [at EXCEPT ![r] = p]
       /\ answer' = [answer EXCEPT ![r] = how]
       /\ before' = [before EXCEPT ![r] = {q \in Request : Ended(q)}]
       /\ UNCHANGED <<listening, hit>>

\* Request r goes on at another place.
Goes(r) ==
  /\ Active(r)
  /\ \E p \in Places : Suits(p, job[r]) /\ at' = [at EXCEPT ![r] = p]
  /\ UNCHANGED <<listening, job, answer, before, hit>>

\* Request r ends, after a call to the outside that failed or without one.
Ends(r) ==
  /\ Active(r)
  /\ \E how \in Answers \ {"lost", "none"} :
       /\ at' = [at EXCEPT ![r] = "done"]
       /\ answer' = [answer EXCEPT ![r] = how]
  /\ hit' = hit \/ hit' = hit \cup {r}
  /\ UNCHANGED <<listening, job, before>>

Moves(r) == UNCHANGED requestVars \/ Begins(r) \/ Goes(r) \/ Ends(r)

LEMMA ReceiveMoves ==
  ASSUME NEW r \in Request, NEW j \in Body \cup Save, NEW refused \in BOOLEAN,
         NEW place \in {"new-map", "bucket"}, RequestTypes, RequestInv,
         Suits(place, j), refused => (j \in Save => j.flaw = "request"),
         Receive(r, j, refused, place)
  PROVE  Begins(r)
<1>1. /\ at[r] = "idle" /\ answer \in [Request -> Answers]
      /\ job' = [job EXCEPT ![r] = j]
      /\ before' = [before EXCEPT ![r] = {q \in Request : Ended(q)}]
      /\ UNCHANGED <<listening, hit>>
  BY DEF Receive, Begin, RequestTypes, RequestsTypeOK
<1>2. CASE ~refused
  <2>1. at' = [at EXCEPT ![r] = place] /\ answer' = answer /\ answer[r] = "none"
    BY <1>1, <1>2 DEF Receive, Begin, RequestInv, Ended
  <2>2. answer' = [answer EXCEPT ![r] = "none"] /\ place \in Places /\ place # "done"
    BY <1>1, <2>1 DEF Places, DeployPlaces, SavePlaces
  <2> QED BY <1>1, <2>1, <2>2 DEF Begins
<1>3. CASE refused
  <2>1. at' = [at EXCEPT ![r] = "done"] /\ answer' = [answer EXCEPT ![r] = "silent"]
    BY <1>3 DEF Receive, Begin
  <2>2. Suits("done", j) /\ j \notin Call
    BY PlaceKinds, Kinds DEF Suits, Places
  <2> QED BY <1>1, <1>3, <2>1, <2>2 DEF Begins
<1> QED BY <1>2, <1>3

LEMMA GoMoves ==
  ASSUME NEW r \in Request, Active(r), NEW p \in Places, Suits(p, job[r]), GoTo(r, p)
  PROVE  Goes(r)
BY DEF GoTo, Goes

LEMMA FinishMoves ==
  ASSUME NEW r \in Request, Active(r), NEW how \in {"success", "silent", "error", "aborted"},
         Finish(r, how) \/ Fault(r, how)
  PROVE  Ends(r)
BY DEF Finish, Fault, Ends, Answers

\* Where a request is, it is active, and what it asks for suits the place.
LEMMA PlaceFacts ==
  ASSUME RequestTypes, RequestInv, NEW r \in Request, at[r] \in Places
  PROVE  /\ Active(r) /\ job[r] # NoJob
         /\ at[r] \in DeployPlaces => job[r] \in Body /\ job[r] \notin Save /\ job[r] \notin Call
         /\ at[r] \in SavePlaces => job[r] \in Save /\ job[r] \notin Body /\ job[r] \notin Call
         /\ at[r] \in AdapterPlaces => job[r] \in Call /\ job[r] \notin Body /\ job[r] \notin Save
BY PlaceKinds, Kinds DEF RequestInv, Active

LEMMA DeployMoves ==
  ASSUME RequestTypes, RequestInv, NEW r \in Request, DeployStep(r)
  PROVE  Moves(r) /\ job'[r] \in Body
<1> USE DEF DeployPlaces, Places
<1>1. CASE ReceiveDeploy(r)
  <2>1. PICK b \in Body : Receive(r, b, b.flaw = "request", "new-map")
    BY <1>1 DEF ReceiveDeploy
  <2>2. Suits("new-map", b)
    BY DEF Suits, SavePlaces, AdapterPlaces
  <2>3. Begins(r)
    BY <2>1, <2>2, Kinds, ReceiveMoves
  <2>4. job'[r] = b
    BY <2>1 DEF Receive, Begin, RequestTypes, RequestsTypeOK
  <2> QED BY <2>3, <2>4 DEF Moves
<1>2. ASSUME at[r] \in DeployPlaces
      PROVE  Active(r) /\ job[r] \in Body /\ \A p \in DeployPlaces : p \in Places /\ Suits(p, job[r])
  BY <1>2, PlaceFacts, PlaceKinds DEF Suits
<1>3. ASSUME at[r] \in DeployPlaces, NEW p \in DeployPlaces, GoTo(r, p)
      PROVE  Moves(r) /\ job'[r] \in Body
  BY <1>2, <1>3, GoMoves DEF Moves, GoTo
<1>4. ASSUME at[r] \in DeployPlaces, NEW how \in {"success", "silent", "error", "aborted"}, Finish(r, how)
      PROVE  Moves(r) /\ job'[r] \in Body
  BY <1>2, <1>4, FinishMoves DEF Moves, Finish
<1>5. ASSUME at[r] \in DeployPlaces, UNCHANGED requestVars
      PROVE  Moves(r) /\ job'[r] \in Body
  BY <1>2, <1>5 DEF Moves, requestVars
<1>6. CASE NewMap(r) \/ NewDocument(r) \/ Open(r) \/ SelectTasks(r) \/ SelectFlows(r)
           \/ BeginNode(r) \/ EndNode(r)
  BY <1>3, <1>6 DEF NewMap, NewDocument, Open, SelectTasks, SelectFlows, BeginNode, EndNode
<1>7. CASE ReadEnd(r) \/ SelectProcess(r)
  BY <1>3, <1>4, <1>7 DEF ReadEnd, SelectProcess
<1>8. CASE ReadElement(r) \/ SkipTask(r) \/ SkipFlow(r) \/ Connect(r)
  BY <1>5, <1>8 DEF ReadElement, SkipTask, SkipFlow, Connect
<1>9. CASE ConnectToNil(r) \/ NoId(r) \/ Deploy(r)
  BY <1>4, <1>9 DEF ConnectToNil, NoId, Deploy
<1> QED BY <1>1, <1>6, <1>7, <1>8, <1>9 DEF DeployStep

LEMMA SaveMoves ==
  ASSUME RequestTypes, RequestInv, NEW r \in Request, SaveStep(r)
  PROVE  Moves(r) /\ job'[r] \in Save
<1> USE DEF SavePlaces, Places
<1>1. CASE ReceiveSave(r)
  <2>1. PICK s \in Save : Receive(r, s, s.flaw = "request", "bucket")
    BY <1>1 DEF ReceiveSave
  <2>2. Suits("bucket", s)
    BY DEF Suits, DeployPlaces, AdapterPlaces
  <2>3. Begins(r)
    BY <2>1, <2>2, ReceiveMoves
  <2>4. job'[r] = s
    BY <2>1 DEF Receive, Begin, RequestTypes, RequestsTypeOK
  <2> QED BY <2>3, <2>4 DEF Moves
<1>2. ASSUME at[r] \in SavePlaces
      PROVE  Active(r) /\ job[r] \in Save /\ \A p \in SavePlaces : p \in Places /\ Suits(p, job[r])
  BY <1>2, PlaceFacts, PlaceKinds DEF Suits
<1>3. ASSUME at[r] \in SavePlaces, NEW p \in SavePlaces, GoTo(r, p)
      PROVE  Moves(r) /\ job'[r] \in Save
  BY <1>2, <1>3, GoMoves DEF Moves, GoTo
<1>4. ASSUME at[r] \in SavePlaces, NEW how \in {"success", "silent", "error", "aborted"},
             Finish(r, how) \/ Fault(r, how)
      PROVE  Moves(r) /\ job'[r] \in Save
  BY <1>2, <1>4, FinishMoves DEF Moves, Finish, Fault
<1>5. CASE CheckBucket(r) \/ MakeBucket(r) \/ PutObject(r)
  BY <1>3, <1>4, <1>5 DEF CheckBucket, MakeBucket, Made, PutObject
<1>6. CASE Respond(r) \/ MinioFails(r)
  BY <1>4, <1>6 DEF Respond, MinioFails
<1> QED BY <1>1, <1>5, <1>6 DEF SaveStep

LEMMA AdapterMoves ==
  ASSUME RequestTypes, RequestInv, NEW r \in Request, AdapterStep(r)
  PROVE  Moves(r) /\ job'[r] \in Call
<1> USE DEF AdapterPlaces, Places
<1>1. CASE ReceiveCall(r)
  <2>1. PICK c \in Call, p \in {"create-deployment", "delete-deployment"} : Begin(r, c, p)
    BY <1>1 DEF ReceiveCall
  <2>2. Suits(p, c) /\ p # "done"
    BY DEF Suits, DeployPlaces, SavePlaces
  <2>3. /\ at[r] = "idle" /\ answer' = answer /\ answer[r] = "none"
        /\ answer \in [Request -> Answers]
    BY <1>1, <2>1 DEF ReceiveCall, Begin, RequestInv, Ended, RequestTypes, RequestsTypeOK
  <2>4. answer' = [answer EXCEPT ![r] = "none"]
    BY <2>3
  <2>5. Begins(r)
    BY <2>1, <2>2, <2>3, <2>4 DEF Begins, Begin
  <2>6. job'[r] = c
    BY <2>1 DEF Begin, RequestTypes, RequestsTypeOK
  <2> QED BY <2>5, <2>6 DEF Moves
<1>2. ASSUME at[r] \in AdapterPlaces
      PROVE  Active(r) /\ job[r] \in Call /\ \A p \in AdapterPlaces : p \in Places /\ Suits(p, job[r])
  BY <1>2, PlaceFacts, PlaceKinds DEF Suits
<1>3. ASSUME at[r] \in AdapterPlaces, NEW p \in AdapterPlaces, GoTo(r, p)
      PROVE  Moves(r) /\ job'[r] \in Call
  BY <1>2, <1>3, GoMoves DEF Moves, GoTo
<1>4. ASSUME at[r] \in AdapterPlaces, NEW how \in {"success", "silent", "error", "aborted"},
             Finish(r, how) \/ Fault(r, how)
      PROVE  Moves(r) /\ job'[r] \in Call
  BY <1>2, <1>4, FinishMoves DEF Moves, Finish, Fault
<1>5. CASE CreateDeployment(r) \/ CreateService(r) \/ DeleteDeployment(r) \/ DeleteService(r)
  BY <1>3, <1>4, <1>5 DEF CreateDeployment, CreateService, DeleteDeployment, DeleteService
<1>6. CASE AdapterMissing(r) \/ KubeFails(r)
  BY <1>4, <1>6 DEF AdapterMissing, KubeFails
<1> QED BY <1>1, <1>5, <1>6 DEF AdapterStep

-----------------------------------------------------------------------------
(* What every step keeps *)

Kept ==
  /\ \A q \in Request :
       /\ job[q] # NoJob => job'[q] = job[q] /\ before'[q] = before[q]
       /\ Ended(q) => Ended(q)' /\ answer'[q] = answer[q]
       /\ Active(q)' => Active(q) \/ at[q] = "idle"
       /\ answer'[q] = answer[q] \/ (Ended(q)' /\ ~Ended(q))
       /\ job[q] = NoJob /\ job'[q] # NoJob => before'[q] = {p \in Request : Ended(p)}
  /\ hit \subseteq hit'

\* All but r stay as they are.
OthersStay(r) ==
  \A q \in Request \ {r} :
    /\ job'[q] = job[q] /\ before'[q] = before[q] /\ at'[q] = at[q] /\ answer'[q] = answer[q]
    /\ q \in hit' => q \in hit

LEMMA MovesKeep ==
  ASSUME RequestTypes, RequestInv, NEW r \in Request, Moves(r)
  PROVE  Kept /\ OthersStay(r) /\ RequestTypes' /\ RequestInv'
<1> USE DEF RequestTypes, RequestsTypeOK
<1>1. CASE UNCHANGED requestVars
  BY <1>1 DEF requestVars, Kept, OthersStay, RequestInv, Ended, Active
<1>2. CASE Begins(r)
  <2>1. PICK j \in Body \cup Save \cup Call, p \in Places \cup {"done"}, how \in {"none", "silent"} :
          /\ Suits(p, j) /\ (how = "silent" <=> p = "done")
          /\ job' = [job EXCEPT ![r] = j]
          /\ at' = [at EXCEPT ![r] = p]
          /\ answer' = [answer EXCEPT ![r] = how]
          /\ before' = [before EXCEPT ![r] = {q \in Request : Ended(q)}]
          /\ UNCHANGED <<listening, hit>>
    BY <1>2 DEF Begins
  <2>2. at[r] = "idle" /\ job[r] = NoJob /\ j # NoJob /\ p # "idle"
    BY <1>2, Kinds, PlaceKinds DEF Begins, RequestInv
  <2>3. RequestTypes'
    BY <2>1 DEF Answers, Ended
  <2>4. Kept /\ OthersStay(r)
    BY <2>1, <2>2, PlaceKinds DEF Kept, OthersStay, Ended, Active, RequestInv
  <2>5. ASSUME NEW q \in Request
        PROVE  /\ at'[q] = "idle" <=> job'[q] = NoJob
               /\ answer'[q] # "none" => Ended(q)'
               /\ \A x \in before'[q] : Ended(x)'
               /\ Suits(at'[q], job'[q])
    <3>1. CASE q = r
      <4>1. at'[r] = p /\ job'[r] = j /\ answer'[r] = how /\ before'[r] = {x \in Request : Ended(x)}
        BY <2>1
      <4>2. \A x \in Request : Ended(x) => Ended(x)'
        BY <2>4 DEF Kept
      <4> QED BY <2>1, <2>2, <3>1, <4>1, <4>2 DEF Ended
    <3>2. CASE q # r
      <4>1. at'[q] = at[q] /\ job'[q] = job[q] /\ answer'[q] = answer[q] /\ before'[q] = before[q]
        BY <2>1, <3>2
      <4>2. \A x \in before[q] : Ended(x) /\ x \in Request
        BY DEF RequestInv
      <4>3. \A x \in before'[q] : Ended(x)'
        BY <2>4, <4>1, <4>2 DEF Kept
      <4> QED BY <4>1, <4>3 DEF RequestInv, Suits, Ended
    <3> QED BY <3>1, <3>2
  <2> QED BY <2>3, <2>4, <2>5 DEF RequestInv, Suits
<1>3. ASSUME Active(r), UNCHANGED <<listening, job, before>>,
             NEW p \in Places \cup {"done"}, at' = [at EXCEPT ![r] = p], Suits(p, job[r]),
             NEW how \in Answers, answer' = [answer EXCEPT ![r] = how],
             how = answer[r] \/ p = "done", how # "none" => p = "done",
             hit' = hit \/ hit' = hit \cup {r}
      PROVE  Kept /\ OthersStay(r) /\ RequestTypes' /\ RequestInv'
  <2>1. at[r] \notin {"idle", "done"} /\ p # "idle" /\ job[r] # NoJob
    BY <1>3, PlaceKinds DEF Active, RequestInv
  <2>2. RequestTypes'
    BY <1>3
  <2>3. Kept /\ OthersStay(r)
    BY <1>3, <2>1 DEF Kept, OthersStay, Ended, Active
  <2>4. ASSUME NEW q \in Request
        PROVE  /\ at'[q] = "idle" <=> job'[q] = NoJob
               /\ answer'[q] # "none" => Ended(q)'
               /\ \A x \in before'[q] : Ended(x)'
               /\ Suits(at'[q], job'[q])
    <3>1. \A x \in before'[q] : Ended(x)'
      BY <1>3, <2>3 DEF Kept, RequestInv
    <3>2. CASE q = r
      BY <1>3, <2>1, <3>1, <3>2 DEF Ended
    <3>3. CASE q # r
      BY <1>3, <3>1, <3>3 DEF RequestInv, Suits, Ended
    <3> QED BY <3>2, <3>3
  <2> QED BY <2>2, <2>3, <2>4 DEF RequestInv, Suits
<1>4. CASE Goes(r)
  <2>1. answer[r] = "none" /\ answer' = [answer EXCEPT ![r] = "none"]
    BY <1>4 DEF Goes, RequestInv, Ended, Active
  <2> QED BY <1>3, <1>4, <2>1 DEF Goes, Answers
<1>5. CASE Ends(r)
  <2>1. Suits("done", job[r])
    BY PlaceKinds DEF Suits, Places
  <2> QED BY <1>3, <1>5, <2>1 DEF Ends
<1> QED BY <1>1, <1>2, <1>4, <1>5 DEF Moves

LEMMA LostKeep ==
  ASSUME RequestTypes, RequestInv, RequestsLost
  PROVE  Kept /\ RequestTypes' /\ RequestInv'
<1>1. \A q \in Request :
        /\ at'[q] = IF Active(q) THEN "done" ELSE at[q]
        /\ answer'[q] = IF Active(q) THEN "lost" ELSE answer[q]
        /\ job'[q] = job[q] /\ before'[q] = before[q]
  BY DEF RequestsLost
<1>2. \A q \in Request : at'[q] \in {"idle", "done"} /\ (Ended(q) => Ended(q)')
  BY <1>1 DEF Active, Ended
<1>3. RequestTypes'
  <2>1. at' \in [Request -> Places \cup {"idle", "done"}]
    BY <1>2 DEF RequestsLost
  <2>2. answer' \in [Request -> Answers]
    BY DEF RequestsLost, RequestTypes, RequestsTypeOK, Answers
  <2> QED BY <2>1, <2>2 DEF RequestsLost, RequestTypes, RequestsTypeOK
<1>4. Kept
  BY <1>1, <1>2 DEF Kept, RequestsLost, Active, Ended
<1>5. RequestInv'
  <2> SUFFICES ASSUME NEW q \in Request
               PROVE  /\ at'[q] = "idle" <=> job'[q] = NoJob
                      /\ answer'[q] # "none" => Ended(q)'
                      /\ \A x \in before'[q] : Ended(x)'
                      /\ at'[q] \notin Places
    BY DEF RequestInv, Places
  <2>1. \A x \in before'[q] : Ended(x)'
    BY <1>1, <1>2, <1>3 DEF RequestInv, RequestTypes, RequestsTypeOK
  <2>2. at'[q] = "idle" <=> job'[q] = NoJob
    BY <1>1 DEF RequestInv, Active
  <2>3. answer'[q] # "none" => Ended(q)'
    BY <1>1 DEF RequestInv, Active, Ended
  <2> QED BY <1>2, <2>1, <2>2, <2>3, PlaceKinds
<1> QED BY <1>3, <1>4, <1>5

LEMMA StaysKeep ==
  ASSUME RequestTypes, RequestInv, UNCHANGED <<job, at, answer, before, hit>>,
         listening' \in {"no", "yes", "failed"}
  PROVE  Kept /\ RequestTypes' /\ RequestInv'
BY DEF Kept, RequestTypes, RequestsTypeOK, RequestInv, Active, Ended

\* Requests that meet have met.
LEMMA TogetherKept ==
  ASSUME Kept, NEW r \in Request, NEW q \in Request, Together(r, q)
  PROVE  Together(r, q)'
BY DEF Kept, Together

LEMMA TogetherActive ==
  ASSUME RequestTypes, RequestInv, NEW r \in Request, NEW q \in Request, r # q,
         Active(r), Active(q)
  PROVE  Together(r, q)
BY DEF Together, RequestInv, Active, Ended

\* The requests of a kind are left alone, or lost.
Untouched(kind) ==
  \A q \in Request :
    job'[q] \in kind =>
      /\ job'[q] = job[q]
      /\ at'[q] = at[q] \/ (at'[q] = "done" /\ answer'[q] = "lost")
      /\ answer'[q] = answer[q] \/ answer'[q] = "lost"

LEMMA OthersUntouched ==
  ASSUME NEW r \in Request, OthersStay(r), NEW kind, job'[r] \notin kind
  PROVE  Untouched(kind)
BY DEF OthersStay, Untouched

LEMMA LostUntouched ==
  ASSUME NEW kind, RequestsLost
  PROVE  Untouched(kind)
BY DEF Untouched, RequestsLost

LEMMA StaysUntouched ==
  ASSUME NEW kind, UNCHANGED <<job, at, answer, before, hit>>
  PROVE  Untouched(kind)
BY DEF Untouched

-----------------------------------------------------------------------------
(* Deploy requests and the package variables of the parser *)

ParserFine == DeployTypeOK /\ ParserInv

LEMMA ParserFrame ==
  ASSUME RequestTypes, RequestInv, ParserFine, Kept, RequestInv', UNCHANGED deployVars,
         \A q \in Request : job'[q] \in Body => at'[q] = at[q]
  PROVE  ParserFine'
<1>1. DeployTypeOK'
  BY DEF ParserFine, DeployTypeOK, deployVars
<1>2. ASSUME NEW q \in Request
      PROVE  /\ at'[q] \in DeployPlaces \ {"new-map"} => dag' # Nobody
             /\ at'[q] \in {"tasks", "node", "assign", "edge"} => source'[q] # Nobody
             /\ read'[q] > 0 => job'[q] \in Body
             /\ \A m \in Request : q \in writers'[m] => at'[q] = "assign" /\ set'[q] = m
  <2>1. at'[q] \in DeployPlaces => at'[q] = at[q]
    BY DEF RequestInv
  <2>2. read'[q] > 0 => job'[q] \in Body
    BY Kinds DEF ParserFine, ParserInv, Kept, deployVars
  <2>3. ASSUME NEW m \in Request, q \in writers'[m]
        PROVE  at'[q] = "assign" /\ set'[q] = m
    <3>1. at[q] = "assign" /\ set[q] = m
      BY <2>3 DEF ParserFine, ParserInv, deployVars
    <3>2. job[q] \in Body
      BY <3>1 DEF RequestInv, DeployPlaces
    <3>3. job'[q] \in Body
      BY <3>2, Kinds DEF Kept
    <3> QED BY <3>1, <3>3 DEF deployVars
  <2> QED BY <2>1, <2>2, <2>3 DEF ParserFine, ParserInv, deployVars, DeployPlaces
<1> QED BY <1>1, <1>2 DEF ParserFine, ParserInv

\* The same for a step of r that leaves the writers and pointers in use.
LEMMA ParserStep ==
  ASSUME RequestTypes, RequestInv, ParserFine, NEW r \in Request, Kept, OthersStay(r), DeployTypeOK',
         dag' = dag \/ dag' = r,
         \A q \in Request \ {r} : source'[q] = source[q] /\ read'[q] = read[q] /\ set'[q] = set[q],
         \A m \in Request, q \in Request \ {r} : q \in writers'[m] => q \in writers[m],
         at'[r] \in DeployPlaces \ {"new-map"} => dag' # Nobody,
         at'[r] \in {"tasks", "node", "assign", "edge"} => source'[r] # Nobody,
         read'[r] > 0 => job'[r] \in Body,
         \A m \in Request : r \in writers'[m] => at'[r] = "assign" /\ set'[r] = m
  PROVE  ParserFine'
<1> USE DeployAssumption
<1>1. ASSUME NEW q \in Request, q # r
      PROVE  /\ at'[q] \in DeployPlaces \ {"new-map"} => dag' # Nobody
             /\ at'[q] \in {"tasks", "node", "assign", "edge"} => source'[q] # Nobody
             /\ read'[q] > 0 => job'[q] \in Body
             /\ \A m \in Request : q \in writers'[m] => at'[q] = "assign" /\ set'[q] = m
  <2>1. at'[q] = at[q] /\ job'[q] = job[q]
    BY <1>1 DEF OthersStay
  <2>2. source'[q] = source[q] /\ read'[q] = read[q] /\ set'[q] = set[q]
    BY <1>1
  <2>3. \A m \in Request : q \in writers'[m] => q \in writers[m]
    BY <1>1
  <2>4. /\ at[q] \in DeployPlaces \ {"new-map"} => dag # Nobody
        /\ at[q] \in {"tasks", "node", "assign", "edge"} => source[q] # Nobody
        /\ read[q] > 0 => job[q] \in Body
        /\ \A m \in Request : q \in writers[m] => at[q] = "assign" /\ set[q] = m
    BY DEF ParserFine, ParserInv
  <2>5. dag # Nobody => dag' # Nobody
    OBVIOUS
  <2> QED BY <2>1, <2>2, <2>3, <2>4, <2>5
<1> QED BY <1>1 DEF ParserFine, ParserInv

LEMMA SeenPositions ==
  ASSUME RequestTypes, DeployTypeOK, NEW q \in Request, NEW kinds
  PROVE  Seen(q, kinds) \in SUBSET Nat /\ (Seen(q, kinds) # {} => read[q] > 0)
<1>1. read[q] \in Nat
  BY DEF DeployTypeOK
<1> QED BY <1>1 DEF Seen

LEMMA DeployKeeps ==
  ASSUME RequestTypes, RequestInv, ParserFine, NEW r \in Request,
         Kept, OthersStay(r), RequestTypes', RequestInv', DeployStep(r)
  PROVE  ParserFine'
<1>t. /\ dag \in Request \cup {Nobody} /\ doc \in Request \cup {Nobody} /\ Nobody \notin Request
      /\ roots \in [Request -> Seq(Request)] /\ read \in [Request -> Nat]
      /\ DOMAIN nodes = Request /\ \A m \in Request : IsNodeSet(nodes[m])
      /\ writers \in [Request -> SUBSET Request]
      /\ set \in [Request -> Request \cup {Nobody}]
      /\ source \in [Request -> Request \cup {Nobody}]
      /\ id \in [Request -> Id \cup {"none"}]
      /\ todo \in [Request -> SUBSET Nat]
      /\ DOMAIN starter = Request
      /\ \A q \in Request : starter[q].id \in Id \cup {"none"} /\ IsNodeSet(starter[q].nodes)
      /\ job \in [Request -> Body \cup Save \cup Call \cup {NoJob}]
      /\ at \in [Request -> Places \cup {"idle", "done"}]
  BY DeployAssumption DEF ParserFine, DeployTypeOK, RequestTypes, RequestsTypeOK
<1>0. /\ DeployTypeOK
      /\ at[r] \in DeployPlaces \ {"new-map"} => dag # Nobody /\ dag \in Request
      /\ at[r] \in {"tasks", "node", "assign", "edge"} => source[r] # Nobody /\ source[r] \in Request
      /\ read[r] > 0 => job[r] \in Body
      /\ \A m \in Request : r \in writers[m] => at[r] = "assign" /\ set[r] = m
  BY <1>t DEF ParserFine, ParserInv, DeployPlaces
<1>a. ASSUME UNCHANGED deployVars PROVE DeployTypeOK'
  BY <1>0, <1>a DEF DeployTypeOK, deployVars
<1>b. ASSUME \E kinds : NextOf(r, kinds) PROVE todo' \in [Request -> SUBSET Nat]
  <2>1. PICK kinds : NextOf(r, kinds)
    BY <1>b
  <2>2. PICK i \in todo[r] : todo' = [todo EXCEPT ![r] = @ \ {i}]
    BY <2>1 DEF NextOf
  <2>3. todo[r] \ {i} \in SUBSET Nat
    BY <1>t
  <2> QED BY <1>t, <2>2, <2>3
<1>k. read[r] > 0 => job'[r] \in Body
  BY <1>0, Kinds DEF Kept
<1>1. CASE ReceiveDeploy(r)
  <2>1. UNCHANGED deployVars /\ at'[r] \in {"new-map", "done"} /\ at[r] = "idle"
    BY <1>t, <1>1 DEF ReceiveDeploy, Receive, Begin
  <2>2. \A m \in Request : r \notin writers'[m]
    BY <1>0, <2>1 DEF deployVars
  <2> QED BY <1>0, <1>a, <1>k, <2>1, <2>2, ParserStep DEF deployVars, DeployPlaces
<1>2. CASE NewMap(r)
  <2>1. at[r] = "new-map" /\ at'[r] = "new-document" /\ dag' = r
    BY <1>t, <1>2 DEF NewMap, GoTo
  <2>2. DeployTypeOK'
    BY <1>t, <1>2 DEF NewMap, DeployTypeOK
  <2> QED BY <1>t, <1>0, <1>k, <1>2, <2>1, <2>2, ParserStep DEF NewMap
<1>3. CASE NewDocument(r)
  <2>1. at[r] = "new-document" /\ at'[r] = "open" /\ doc' = r
    BY <1>t, <1>3 DEF NewDocument, GoTo
  <2>2. DeployTypeOK'
    BY <1>t, <1>3 DEF NewDocument, DeployTypeOK
  <2> QED BY <1>t, <1>0, <1>k, <1>3, <2>1, <2>2, ParserStep DEF NewDocument, DeployPlaces
<1>4. CASE Open(r)
  <2>1. at[r] = "open" /\ at'[r] = "elements"
    BY <1>t, <1>4 DEF Open, GoTo
  <2>2. roots' \in [Request -> Seq(Request)]
    <3>1. ASSUME doc \in Request PROVE Append(roots[doc], r) \in Seq(Request)
      <4>1. roots[doc] \in Seq(Request)
        BY <1>t, <3>1
      <4> QED BY <4>1
    <3>2. doc \in Request \/ roots' = roots
      BY <1>t, <1>4 DEF Open
    <3> QED BY <1>t, <1>4, <3>1, <3>2 DEF Open
  <2>3. DeployTypeOK'
    BY <1>t, <1>4, <2>2 DEF Open, DeployTypeOK
  <2> QED BY <1>t, <1>0, <1>k, <1>4, <2>1, <2>3, ParserStep DEF Open, DeployPlaces
<1>5. CASE ReadElement(r)
  <2>1. at[r] = "elements" /\ at' = at /\ job' = job
    BY <1>t, <1>5 DEF ReadElement, requestVars
  <2>2. job[r] \in Body
    BY <2>1, PlaceFacts DEF DeployPlaces, Places
  <2>3. DeployTypeOK'
    BY <1>t, <1>5 DEF ReadElement, DeployTypeOK
  <2> QED BY <1>t, <1>0, <1>5, <2>1, <2>2, <2>3, ParserStep DEF ReadElement, DeployPlaces
<1>6. CASE ReadEnd(r)
  <2>1. at[r] = "elements" /\ at'[r] \in {"process", "done"}
    BY <1>t, <1>6 DEF ReadEnd, GoTo, Finish
  <2>2. UNCHANGED deployVars
    BY <1>6 DEF ReadEnd
  <2> QED BY <1>0, <1>a, <1>k, <2>1, <2>2, ParserStep DEF ReadEnd, deployVars, DeployPlaces
<1>7. CASE SelectProcess(r)
  <2>1. at[r] = "process"
    BY <1>t, <1>7 DEF SelectProcess
  <2>2. CASE at'[r] = "done" /\ UNCHANGED deployVars
    BY <1>0, <1>a, <1>k, <2>1, <2>2, ParserStep DEF deployVars, DeployPlaces
  <2>3. CASE at'[r] = "tasks" /\ ~UNCHANGED deployVars
    <3>1. PICK q \in Request : /\ Seen(q, {"process"}) # {}
                               /\ source' = [source EXCEPT ![r] = q]
                               /\ id' = [id EXCEPT ![r] = IF Seen(q, {"id"}) # {} THEN Dashed[job[q].id] ELSE "none"]
      BY <1>7, <2>3 DEF SelectProcess, Finish, deployVars, parseVars
    <3>2. job[q] \in Body
      BY <1>0, <3>1, SeenPositions DEF ParserFine, ParserInv
    <3>3. job[q].id \in Id /\ Dashed[job[q].id] \in Id
      BY <3>2, DeployAssumption
    <3>4. id' \in [Request -> Id \cup {"none"}]
      BY <1>t, <3>1, <3>3
    <3>5. UNCHANGED <<parseVars, set, todo, starter>>
      BY <1>7 DEF SelectProcess
    <3>6. DeployTypeOK'
      BY <1>t, <3>1, <3>4, <3>5 DEF parseVars, DeployTypeOK
    <3>7. source'[r] # Nobody
      BY <1>t, <3>1
    <3> QED BY <1>t, <1>0, <1>k, <2>1, <2>3, <3>1, <3>5, <3>6, <3>7, ParserStep DEF parseVars, DeployPlaces
  <2>4. (at'[r] = "tasks" \/ at'[r] = "done") /\ (at'[r] = "done" => UNCHANGED deployVars)
    BY <1>t, <1>7 DEF SelectProcess, GoTo, Finish, deployVars, parseVars
  <2>5. CASE at'[r] = "tasks" /\ UNCHANGED deployVars
    <3>1. PICK q \in Request : source' = [source EXCEPT ![r] = q]
      BY <1>t, <1>7, <2>5 DEF SelectProcess, Finish
    <3>2. source'[r] # Nobody
      BY <1>t, <3>1
    <3> QED BY <1>0, <1>a, <1>k, <2>1, <2>5, <3>2, ParserStep DEF deployVars, DeployPlaces
  <2> QED BY <2>2, <2>3, <2>4, <2>5
<1>8. CASE SelectTasks(r) \/ SelectFlows(r)
  <2>1. at[r] \in {"tasks", "node"} /\ at'[r] \in {"node", "edge"}
    BY <1>t, <1>8 DEF SelectTasks, SelectFlows, GoTo
  <2>2. UNCHANGED <<parseVars, set, source, id, starter>>
    BY <1>8 DEF SelectTasks, SelectFlows
  <2>3. todo' \in [Request -> SUBSET Nat]
    <3>1. PICK kinds : todo' = [todo EXCEPT ![r] = Seen(source[r], kinds)]
      BY <1>8 DEF SelectTasks, SelectFlows
    <3>2. Seen(source[r], kinds) \in SUBSET Nat
      BY <1>0, <2>1, SeenPositions
    <3> QED BY <1>t, <3>1, <3>2
  <2>4. DeployTypeOK'
    BY <1>t, <2>2, <2>3 DEF parseVars, DeployTypeOK
  <2> QED BY <1>t, <1>0, <1>k, <2>1, <2>2, <2>4, ParserStep DEF parseVars, DeployPlaces
<1>9. CASE SkipTask(r) \/ SkipFlow(r)
  <2>1. at' = at /\ at[r] \in {"node", "edge"}
    BY <1>t, <1>9 DEF SkipTask, SkipFlow, requestVars
  <2>2. UNCHANGED <<parseVars, set, source, id, starter>>
    BY <1>9 DEF SkipTask, SkipFlow
  <2>3. todo' \in [Request -> SUBSET Nat]
    BY <1>b, <1>9 DEF SkipTask, SkipFlow
  <2>4. DeployTypeOK'
    BY <1>t, <2>2, <2>3 DEF parseVars, DeployTypeOK
  <2> QED BY <1>t, <1>0, <1>k, <2>1, <2>2, <2>4, ParserStep DEF parseVars, DeployPlaces
<1>10. CASE BeginNode(r)
  <2>1. at[r] = "node" /\ at'[r] = "assign" /\ dag \in Request
    BY <1>t, <1>0, <1>10 DEF BeginNode, GoTo, DeployPlaces
  <2>2. todo' \in [Request -> SUBSET Nat]
    BY <1>b, <1>10 DEF BeginNode
  <2>3. set' = [set EXCEPT ![r] = dag] /\ writers' = [writers EXCEPT ![dag] = @ \cup {r}]
    BY <1>10 DEF BeginNode
  <2>4. UNCHANGED <<dag, doc, roots, read, nodes, source, id, starter>>
    BY <1>t, <1>10 DEF BeginNode
  <2>5. DeployTypeOK'
    BY <1>t, <2>1, <2>2, <2>3, <2>4 DEF DeployTypeOK
  <2>6. \A m \in Request : r \in writers'[m] => m = dag
    BY <1>t, <1>0, <2>1, <2>3
  <2>7. set'[r] = dag /\ \A m \in Request, q \in Request \ {r} : q \in writers'[m] => q \in writers[m]
    BY <1>t, <2>3
  <2> QED BY <1>t, <1>0, <1>k, <2>1, <2>3, <2>4, <2>5, <2>6, <2>7, ParserStep DEF DeployPlaces
<1>11. CASE EndNode(r)
  <2>1. at[r] = "assign" /\ at'[r] = "node"
    BY <1>t, <1>11 DEF EndNode, GoTo
  <2>2. set' = [set EXCEPT ![r] = Nobody] /\ writers' = [writers EXCEPT ![set[r]] = @ \ {r}]
    BY <1>11 DEF EndNode
  <2>3. UNCHANGED <<dag, doc, roots, read, source, id, todo, starter>>
    BY <1>11 DEF EndNode
  <2>4. DOMAIN nodes' = Request /\ \A m \in Request : IsNodeSet(nodes'[m])
    <3>1. DOMAIN nodes' = Request
      BY <1>t, <1>11 DEF EndNode
    <3>2. ASSUME NEW m \in Request
          PROVE  \/ nodes'[m] = nodes[m]
                 \/ nodes'[m] = [name \in DOMAIN nodes[m] \cup {GetName} |->
                                   IF name = GetName THEN 0 ELSE nodes[m][name]]
      BY <1>t, <1>11 DEF EndNode
    <3>3. ASSUME NEW m \in Request PROVE IsNodeSet(nodes'[m])
      <4>1. PICK names \in SUBSET {Unnamed} : nodes[m] \in [names -> Nat]
        BY <1>t DEF IsNodeSet
      <4>2. DOMAIN nodes[m] \cup {GetName} \in SUBSET {Unnamed}
        BY <4>1 DEF GetName
      <4>3. CASE nodes'[m] = nodes[m]
        BY <4>1, <4>3 DEF IsNodeSet
      <4>4. CASE nodes'[m] = [name \in DOMAIN nodes[m] \cup {GetName} |->
                                IF name = GetName THEN 0 ELSE nodes[m][name]]
        <5>1. DOMAIN nodes[m] = names
          BY <4>1
        <5>2. nodes'[m] \in [DOMAIN nodes[m] \cup {GetName} -> Nat]
          BY <4>1, <4>4, <5>1
        <5> QED BY <4>2, <5>2 DEF IsNodeSet
      <4> QED BY <3>2, <4>3, <4>4
    <3> QED BY <3>1, <3>3
  <2>5. DeployTypeOK'
    BY <1>t, <2>2, <2>3, <2>4 DEF DeployTypeOK
  <2>6. \A m \in Request : r \notin writers'[m]
    BY <1>t, <1>0, <2>2
  <2>7. \A m \in Request, q \in Request \ {r} : q \in writers'[m] => q \in writers[m]
    BY <1>t, <2>2
  <2> QED BY <1>t, <1>0, <1>k, <2>1, <2>2, <2>3, <2>5, <2>6, <2>7, ParserStep DEF DeployPlaces
<1>12. CASE Connect(r)
  <2>1. at' = at /\ at[r] = "edge" /\ dag \in Request
    BY <1>t, <1>0, <1>12 DEF Connect, requestVars, DeployPlaces
  <2>2. UNCHANGED <<dag, doc, roots, read, writers, set, source, id, starter>>
    BY <1>12 DEF Connect
  <2>3. todo' \in [Request -> SUBSET Nat]
    BY <1>b, <1>12 DEF Connect
  <2>4. DOMAIN nodes' = Request /\ \A m \in Request : IsNodeSet(nodes'[m])
    <3>1. DOMAIN nodes' = Request
      BY <1>t, <1>12 DEF Connect
    <3>2. ASSUME NEW m \in Request
          PROVE  \/ nodes'[m] = nodes[m]
                 \/ nodes'[m] = [nodes[m] EXCEPT ![Unnamed] = @ + 1] /\ Unnamed \in DOMAIN nodes[m]
      BY <1>t, <1>12, <2>1 DEF Connect
    <3>3. ASSUME NEW m \in Request PROVE IsNodeSet(nodes'[m])
      <4>1. PICK names \in SUBSET {Unnamed} : nodes[m] \in [names -> Nat]
        BY <1>t DEF IsNodeSet
      <4>2. Unnamed \in DOMAIN nodes[m] => nodes[m][Unnamed] + 1 \in Nat
        BY <4>1
      <4>3. nodes'[m] \in [names -> Nat]
        BY <3>2, <4>1, <4>2
      <4> QED BY <4>3 DEF IsNodeSet
    <3> QED BY <3>1, <3>3
  <2>5. DeployTypeOK'
    BY <1>t, <2>2, <2>3, <2>4 DEF DeployTypeOK
  <2> QED BY <1>t, <1>0, <1>k, <2>1, <2>2, <2>5, ParserStep DEF DeployPlaces
<1>13. CASE ConnectToNil(r) \/ NoId(r) \/ Deploy(r)
  <2>1. at[r] = "edge" /\ at'[r] = "done" /\ dag \in Request
    BY <1>t, <1>0, <1>13 DEF ConnectToNil, NoId, Deploy, Finish, DeployPlaces
  <2>2. Forget(r) /\ UNCHANGED <<parseVars, set>>
    BY <1>13 DEF ConnectToNil, NoId, Deploy
  <2>3. \/ starter' = starter
        \/ starter' = [starter EXCEPT ![r] = [id |-> id[r], nodes |-> nodes[dag]]]
    BY <1>13 DEF ConnectToNil, NoId, Deploy
  <2>4. DOMAIN starter' = Request /\ \A q \in Request : starter'[q].id \in Id \cup {"none"} /\ IsNodeSet(starter'[q].nodes)
    <3>1. IsNodeSet(nodes[dag]) /\ id[r] \in Id \cup {"none"}
      BY <1>t, <2>1
    <3>2. CASE starter' = starter
      BY <1>t, <3>2
    <3>3. CASE starter' = [starter EXCEPT ![r] = [id |-> id[r], nodes |-> nodes[dag]]]
      <4>1. DOMAIN starter' = Request
        BY <1>t, <3>3
      <4>2. ASSUME NEW q \in Request
            PROVE  starter'[q] = starter[q] \/ (starter'[q].id = id[r] /\ starter'[q].nodes = nodes[dag])
        BY <1>t, <3>3
      <4>3. ASSUME NEW q \in Request
            PROVE  starter'[q].id \in Id \cup {"none"} /\ IsNodeSet(starter'[q].nodes)
        BY <1>t, <3>1, <4>2, Zenon
      <4> QED BY <4>1, <4>3
    <3> QED BY <2>3, <3>2, <3>3
  <2>5. DeployTypeOK'
    BY <1>t, <2>2, <2>4 DEF Forget, parseVars, DeployTypeOK
  <2> QED BY <1>t, <1>0, <1>k, <2>1, <2>2, <2>5, ParserStep DEF Forget, parseVars, DeployPlaces
<1> QED BY <1>1, <1>2, <1>3, <1>4, <1>5, <1>6, <1>7, <1>8, <1>9, <1>10, <1>11, <1>12, <1>13 DEF DeployStep

LEMMA ParserLost ==
  ASSUME RequestTypes', ParserFine, RequestsLost, DeployLost
  PROVE  ParserFine'
<1> USE DEF DeployTypeOK, DeployLost
<1>1. DeployTypeOK
  BY DEF ParserFine
<1>2. IsNodeSet(EmptySet)
  <2>1. EmptySet \in [{} -> Nat] /\ {} \in SUBSET {Unnamed}
    BY DEF EmptySet
  <2> QED BY <2>1 DEF IsNodeSet
<1>3. \A q \in Request : nodes'[q] = EmptySet
  OBVIOUS
<1>4. DOMAIN nodes' = Request /\ \A q \in Request : IsNodeSet(nodes'[q])
  BY <1>2, <1>3
<1>5. << >> \in Seq(Request)
  OBVIOUS
<1>6. /\ roots' \in [Request -> Seq(Request)] /\ read' \in [Request -> Nat]
      /\ writers' \in [Request -> SUBSET Request] /\ todo' \in [Request -> SUBSET Nat]
      /\ set' \in [Request -> Request \cup {Nobody}] /\ source' \in [Request -> Request \cup {Nobody}]
      /\ id' \in [Request -> Id \cup {"none"}]
  BY <1>5
<1>7. DeployTypeOK'
  BY <1>1, <1>4, <1>6
<1>8. \A q \in Request : at'[q] \notin DeployPlaces
  <2>1. \A q \in Request : at'[q] = (IF Active(q) THEN "done" ELSE at[q])
    BY DEF RequestsLost
  <2> QED BY <2>1 DEF Active, DeployPlaces
<1>9. \A q \in Request : read'[q] = 0 /\ writers'[q] = {}
  OBVIOUS
<1>10. \A q \in Request : at'[q] \notin {"tasks", "node", "assign", "edge"}
  BY <1>8 DEF DeployPlaces
<1>11. ParserInv'
  <2>1. ASSUME NEW q \in Request
        PROVE  /\ at'[q] \in DeployPlaces \ {"new-map"} => dag' # Nobody
               /\ at'[q] \in {"tasks", "node", "assign", "edge"} => source'[q] # Nobody
               /\ read'[q] > 0 => job'[q] \in Body
               /\ \A m \in Request : q \in writers'[m] => at'[q] = "assign" /\ set'[q] = m
    <3>1. ~(read'[q] > 0)
      BY <1>9
    <3> QED BY <1>8, <1>9, <1>10, <3>1
  <2> QED BY <2>1 DEF ParserInv
<1> QED BY <1>7, <1>11 DEF ParserFine

-----------------------------------------------------------------------------
(* Deploy requests that are handled alone *)

LEMMA PositionsFinite ==
  ASSUME NEW b \in Body, NEW kinds
  PROVE  IsFiniteSet(Positions(b, kinds)) /\ Positions(b, kinds) \subseteq Nat
<1>1. Len(b.xml) \in Nat
  BY DeployAssumption
<1>2. IsFiniteSet(1..Len(b.xml))
  BY <1>1, FS_Interval
<1> QED BY <1>1, <1>2, FS_Subset DEF Positions

LEMMA BodyTypes ==
  ASSUME NEW b \in Body
  PROVE  Len(b.xml) \in Nat /\ b.flaw \in {"none", "request", "xml"}
<1>1. Len(b.xml) \in Nat
  BY DeployAssumption
<1>2. b.flaw \in {"none", "request", "xml"}
  BY DeployAssumption DEF Flaw
<1> QED BY <1>1, <1>2

LEMMA OneIsAll == 1 \in 1..1 /\ (\A i \in 1..1 : i = 1) /\ \A j \in 1..1-1 : FALSE
<1>1. 1 \in 1..1 /\ \A i \in 1..1 : i = 1
  OBVIOUS
<1>2. ASSUME NEW j \in 1..1-1 PROVE FALSE
  <2>1. j \in Int /\ 1 <= j /\ j <= 0
    OBVIOUS
  <2> QED BY <2>1
<1> QED BY <1>1, <1>2

LEMMA SeenAll ==
  ASSUME NEW b \in Body, NEW q, job[q] = b, read[q] = Len(b.xml), NEW kinds
  PROVE  Seen(q, kinds) = Positions(b, kinds)
BY DEF Seen, Positions

LEMMA NodeSets ==
  /\ \A k : NodeSet(FALSE, k) = EmptySet
  /\ \A made, k : DOMAIN NodeSet(made, k) = (IF made THEN {Unnamed} ELSE {})
  /\ \A k : NodeSet(TRUE, k)[Unnamed] = k
<1>1. \A k : NodeSet(FALSE, k) = EmptySet
  BY DEF NodeSet, EmptySet
<1> QED BY <1>1 DEF NodeSet

LEMMA OutcomeOf ==
  ASSUME NEW b \in Body
  PROVE  /\ b.flaw # "none" => Outcome(b) = [answer |-> "silent", starter |-> NoStarter]
         /\ b.flaw = "none" /\ ~(Has(b, {"definitions"}) /\ Has(b, {"process"}) /\ Connected(b))
              => Outcome(b) = [answer |-> "aborted", starter |-> NoStarter]
         /\ b.flaw = "none" /\ Has(b, {"definitions"}) /\ Has(b, {"process"}) /\ Connected(b)
              => /\ ~Has(b, {"id"}) => Outcome(b) = [answer |-> "silent", starter |-> NoStarter]
                 /\ Has(b, {"id"}) => Outcome(b) = [answer |-> "success",
                                                   starter |-> [id |-> Dashed[b.id], nodes |-> NodesOf(b)]]
<1>1. CASE b.flaw # "none"
  BY <1>1 DEF Outcome
<1>2. CASE b.flaw = "none" /\ ~(Has(b, {"definitions"}) /\ Has(b, {"process"}) /\ Connected(b))
  BY <1>2 DEF Outcome
<1>3. CASE b.flaw = "none" /\ Has(b, {"definitions"}) /\ Has(b, {"process"}) /\ Connected(b)
  BY <1>3 DEF Outcome
<1> QED BY <1>1, <1>2, <1>3

LEMMA DeployAt ==
  ASSUME NEW r, DeployStep(r)
  PROVE  at[r] = "idle" \/ at[r] \in DeployPlaces
BY DEF DeployStep, ReceiveDeploy, Receive, Begin, NewMap, NewDocument, Open, ReadElement, ReadEnd,
       SelectProcess, SelectTasks, SelectFlows, SkipTask, BeginNode, EndNode, SkipFlow, Connect,
       ConnectToNil, NoId, Deploy, DeployPlaces

\* Whoever has been alone to the end was alone before.
LEMMA AloneBefore ==
  ASSUME Kept, NEW r \in Request, Alone(r, Deploys)'
  PROVE  Alone(r, Deploys)
<1> SUFFICES ASSUME NEW q \in Deploys, Together(r, q) PROVE FALSE
  BY DEF Alone
<1>1. q \in Request /\ q \in Deploys'
  BY Kinds DEF Deploys, Kept
<1>2. Together(r, q)'
  BY <1>1, TogetherKept
<1> QED BY <1>1, <1>2 DEF Alone

\* While r is alone, no other deploy request takes a step.
LEMMA AloneSteps ==
  ASSUME RequestTypes, RequestInv, Kept, NEW r \in Request, NEW q \in Request, q # r,
         OthersStay(q), Active(r), job'[r] \in Body, Alone(r, Deploys)',
         at[q] = "idle" \/ at[q] \in DeployPlaces, job'[q] \in Body
  PROVE  FALSE
<1>1. q \in Deploys' /\ job'[r] # NoJob /\ job'[q] # NoJob
  BY Kinds DEF Deploys
<1>2. job'[r] = job[r] /\ before'[r] = before[r]
  BY DEF OthersStay
<1>3. q \notin before[r]
  BY PlaceKinds DEF RequestInv, Ended, Places
<1>4. CASE at[q] = "idle"
  <2>1. before'[q] = {p \in Request : Ended(p)}
    BY <1>1, <1>4 DEF RequestInv, Kept
  <2>2. r \notin before'[q]
    BY <2>1 DEF Active, Ended
  <2>3. Together(r, q)'
    BY <1>1, <1>2, <1>3, <2>2 DEF Together
  <2> QED BY <1>1, <2>3 DEF Alone
<1>5. CASE at[q] \in DeployPlaces
  <2>1. Active(q)
    BY <1>5, PlaceFacts DEF Places
  <2>2. Together(r, q)
    BY <2>1, TogetherActive
  <2>3. Together(r, q)'
    BY <2>2, TogetherKept
  <2> QED BY <1>1, <2>3 DEF Alone
<1> QED BY <1>4, <1>5

\* The answer that a deploy request alone is given.
Right(r) == [answer |-> answer[r], starter |-> starter[r]] = Outcome(job[r])

\* The deploy request r, alone, takes its next step.
LEMMA SoloStep ==
  ASSUME RequestTypes, RequestInv, ParserFine, NEW r \in Request, at[r] \in DeployPlaces,
         Solo(r), starter[r] = NoStarter, at[r] = "new-map" => Fresh(r), DeployStep(r)
  PROVE  IF at'[r] = "done" THEN Right(r)' ELSE Solo(r)'
<1>t. /\ dag \in Request \cup {Nobody} /\ doc \in Request \cup {Nobody} /\ Nobody \notin Request
      /\ roots \in [Request -> Seq(Request)] /\ read \in [Request -> Nat]
      /\ DOMAIN nodes = Request
      /\ set \in [Request -> Request \cup {Nobody}]
      /\ source \in [Request -> Request \cup {Nobody}]
      /\ id \in [Request -> Id \cup {"none"}]
      /\ todo \in [Request -> SUBSET Nat]
      /\ DOMAIN starter = Request
      /\ answer \in [Request -> Answers]
      /\ at \in [Request -> Places \cup {"idle", "done"}]
  BY DeployAssumption DEF ParserFine, DeployTypeOK, RequestTypes, RequestsTypeOK
<1>b. PICK b \in Body : job[r] = b /\ job' = job
  <2>1. job[r] \in Body /\ job[r] # NoJob
    BY PlaceFacts DEF Places
  <2>2. at[r] # "idle"
    BY PlaceKinds DEF Places
  <2>3. job' = job
    BY <2>2 DEF DeployStep, ReceiveDeploy, Receive, Begin, NewMap, NewDocument, Open, ReadElement, ReadEnd,
       SelectProcess, SelectTasks, SelectFlows, SkipTask, BeginNode, EndNode, SkipFlow, Connect,
       ConnectToNil, NoId, Deploy, GoTo, Finish, requestVars
  <2> QED BY <2>1, <2>3
<1>l. Len(b.xml) \in Nat /\ b.flaw \in {"none", "request", "xml"}
  BY BodyTypes
<1>s. /\ b.flaw # "request" /\ read[r] <= Len(b.xml)
      /\ at[r] # "new-map" => dag = r
      /\ at[r] \in {"new-document", "open"} => roots[r] = << >>
      /\ at[r] \in {"new-document", "open", "elements", "process", "tasks"} => nodes[r] = EmptySet
      /\ at[r] \in {"open", "elements", "process"} => doc = r
      /\ at[r] \in {"elements", "process"} => Len(roots[r]) = 1 /\ roots[r][1] = r
      /\ at[r] \in {"process", "tasks", "node", "assign", "edge"} =>
           b.flaw = "none" /\ read[r] = Len(b.xml)
      /\ at[r] \in {"tasks", "node", "assign", "edge"} =>
           /\ source[r] = r /\ Has(b, {"definitions"}) /\ Has(b, {"process"})
           /\ id[r] = IF Has(b, {"id"}) THEN Dashed[b.id] ELSE "none"
      /\ at[r] \in {"node", "assign"} => todo[r] = Positions(b, Task) \cap todo[r]
      /\ at[r] = "node" => nodes[r] = NodeSet(Positions(b, {"docker"}) \ todo[r] # {}, 0)
      /\ at[r] = "assign" =>
           /\ set[r] = r /\ Positions(b, {"docker"}) \ todo[r] # {}
           /\ \E made \in BOOLEAN : nodes[r] = NodeSet(made, 0)
      /\ at[r] = "edge" =>
           /\ todo[r] = Positions(b, Flow) \cap todo[r]
           /\ nodes[r] = NodeSet(Has(b, {"docker"}), Cardinality(Positions(b, {"loose-edge"}) \ todo[r]))
           /\ Positions(b, {"edge"}) \ todo[r] = {}
           /\ Positions(b, {"loose-edge"}) \ todo[r] # {} => Has(b, {"docker"})
  BY <1>b DEF Solo
<1>j. job'[r] = b
  BY <1>b
\* The parts of the text that come before the first process element are one place.
<1>1. CASE NewMap(r)
  <2>1. at[r] = "new-map" /\ at'[r] = "new-document" /\ dag' = r
    BY <1>t, <1>1 DEF NewMap, GoTo
  <2>2. UNCHANGED <<doc, roots, read, nodes, writers, set, source, id, todo, starter>>
    BY <1>1 DEF NewMap
  <2> QED BY <1>j, <1>s, <2>1, <2>2 DEF Solo, Fresh
<1>2. CASE NewDocument(r)
  <2>1. at[r] = "new-document" /\ at'[r] = "open" /\ doc' = r
    BY <1>t, <1>2 DEF NewDocument, GoTo
  <2>2. UNCHANGED <<dag, roots, read, nodes, writers, set, source, id, todo, starter>>
    BY <1>2 DEF NewDocument
  <2> QED BY <1>j, <1>s, <2>1, <2>2 DEF Solo
<1>3. CASE Open(r)
  <2>1. at[r] = "open" /\ at'[r] = "elements"
    BY <1>t, <1>3 DEF Open, GoTo
  <2>2. UNCHANGED <<dag, doc, read, nodes, writers, set, source, id, todo, starter>>
    BY <1>3 DEF Open
  <2>3. roots'[r] = Append(roots[r], r)
    BY <1>t, <1>3, <1>s, <2>1 DEF Open
  <2>4. Len(roots'[r]) = 1 /\ roots'[r][1] = r
    BY <1>t, <1>s, <2>1, <2>3
  <2> QED BY <1>j, <1>s, <2>1, <2>2, <2>4 DEF Solo
<1>4. CASE ReadElement(r)
  <2>1. at[r] = "elements" /\ at' = at /\ read[r] < Len(b.xml) /\ read'[r] = read[r] + 1
    BY <1>t, <1>b, <1>4 DEF ReadElement, requestVars
  <2>2. UNCHANGED <<dag, doc, roots, nodes, writers, set, source, id, todo, starter>>
    BY <1>4 DEF ReadElement
  <2>3. read'[r] <= Len(b.xml)
    BY <1>t, <1>l, <2>1
  <2> QED BY <1>j, <1>s, <2>1, <2>2, <2>3 DEF Solo
<1>5. CASE ReadEnd(r)
  <2>1. at[r] = "elements" /\ read[r] = Len(b.xml) /\ UNCHANGED deployVars
    BY <1>b, <1>5 DEF ReadEnd
  <2>2. CASE b.flaw = "none" /\ GoTo(r, "process")
    <3>1. at'[r] = "process"
      BY <1>t, <2>2 DEF GoTo
    <3> QED BY <1>j, <1>s, <2>1, <2>2, <3>1 DEF Solo, deployVars
  <2>3. CASE b.flaw = "xml" /\ Finish(r, "silent")
    <3>1. at'[r] = "done" /\ answer'[r] = "silent" /\ starter'[r] = NoStarter
      BY <1>t, <2>1, <2>3 DEF Finish, deployVars
    <3> QED BY <1>j, <2>3, <3>1, OutcomeOf DEF Right
  <2> QED BY <1>b, <1>5, <2>2, <2>3 DEF ReadEnd
<1>6. CASE SelectProcess(r)
  <2>1. at[r] = "process" /\ UNCHANGED <<parseVars, set, todo, starter>>
    BY <1>6 DEF SelectProcess
  <2>2. \A kinds : Seen(r, kinds) = Positions(b, kinds)
    BY <1>b, <1>s, <2>1, SeenAll
  <2>3. \A q \in Request : Definitions(doc, q) <=> q = r /\ Has(b, {"definitions"})
    <3>1. Len(roots[doc]) = 1 /\ roots[doc][1] = r
      BY <1>s, <2>1
    <3>2. /\ 1 \in 1..1 /\ \A i \in 1..1 : i = 1
          /\ \A j \in 1..1-1 : FALSE
      BY OneIsAll
    <3>3. ASSUME NEW q \in Request, Definitions(doc, q) PROVE q = r /\ Has(b, {"definitions"})
      BY <2>2, <3>1, <3>2, <3>3 DEF Definitions, Has
    <3>4. ASSUME Has(b, {"definitions"}) PROVE Definitions(doc, r)
      <4>1. roots[doc][1] = r /\ Seen(r, {"definitions"}) # {}
        BY <2>2, <3>1, <3>4 DEF Has
      <4>2. \A j \in 1..1-1 : Seen(roots[doc][j], {"definitions"}) = {}
        BY <3>2
      <4> QED BY <3>1, <3>2, <4>1, <4>2 DEF Definitions
    <3> QED BY <3>3, <3>4
  <2>4. CASE Has(b, {"definitions"}) /\ Has(b, {"process"})
    <3>1. PICK q \in Request : /\ Definitions(doc, q)
                               /\ source' = [source EXCEPT ![r] = q]
                               /\ id' = [id EXCEPT ![r] = IF Seen(q, {"id"}) # {} THEN Dashed[job[q].id] ELSE "none"]
                               /\ GoTo(r, "tasks")
      BY <1>6, <2>2, <2>3, <2>4 DEF SelectProcess, Has
    <3>2. source'[r] = r /\ id'[r] = (IF Has(b, {"id"}) THEN Dashed[b.id] ELSE "none") /\ at'[r] = "tasks"
      BY <1>t, <1>b, <2>2, <2>3, <3>1 DEF GoTo, Has
    <3> QED BY <1>j, <1>s, <2>1, <2>4, <3>2 DEF Solo, parseVars
  <2>5. CASE ~(Has(b, {"definitions"}) /\ Has(b, {"process"}))
    <3>1. Finish(r, "aborted")
      BY <1>6, <2>2, <2>3, <2>5 DEF SelectProcess, Has
    <3>2. at'[r] = "done" /\ answer'[r] = "aborted" /\ starter'[r] = NoStarter
      BY <1>t, <2>1, <3>1 DEF Finish
    <3> QED BY <1>j, <1>s, <2>1, <2>5, <3>2, OutcomeOf DEF Right
  <2> QED BY <2>4, <2>5
<1>7. CASE SelectTasks(r)
  <2>1. /\ at[r] = "tasks" /\ at'[r] = "node" /\ todo'[r] = Seen(r, Task)
        /\ UNCHANGED <<parseVars, set, source, id, starter>>
    BY <1>t, <1>s, <1>7 DEF SelectTasks, GoTo
  <2>2. todo'[r] = Positions(b, Task)
    BY <1>b, <1>s, <2>1, SeenAll
  <2>3. Positions(b, {"docker"}) \ todo'[r] = {}
    BY <2>2 DEF Positions, Task
  <2>4. nodes'[r] = NodeSet(Positions(b, {"docker"}) \ todo'[r] # {}, 0)
    BY <1>s, <2>1, <2>3, NodeSets DEF parseVars
  <2> QED BY <1>j, <1>s, <2>1, <2>2, <2>4 DEF Solo, parseVars
<1>8. CASE SelectFlows(r)
  <2>1. /\ at[r] = "node" /\ at'[r] = "edge" /\ todo[r] = {} /\ todo'[r] = Seen(r, Flow)
        /\ UNCHANGED <<parseVars, set, source, id, starter>>
    BY <1>t, <1>s, <1>8 DEF SelectFlows, GoTo
  <2>2. todo'[r] = Positions(b, Flow)
    BY <1>b, <1>s, <2>1, SeenAll
  <2>3. Positions(b, {"loose-edge"}) \ todo'[r] = {} /\ Positions(b, {"edge"}) \ todo'[r] = {}
    BY <2>2 DEF Positions, Flow
  <2>4. Cardinality(Positions(b, {"loose-edge"}) \ todo'[r]) = 0
    BY <2>3, FS_EmptySet
  <2>5. Positions(b, {"docker"}) \ todo[r] # {} <=> Has(b, {"docker"})
    BY <2>1 DEF Has
  <2>6. nodes'[r] = NodeSet(Has(b, {"docker"}), Cardinality(Positions(b, {"loose-edge"}) \ todo'[r]))
    BY <1>s, <2>1, <2>4, <2>5 DEF parseVars, NodeSet
  <2> QED BY <1>j, <1>s, <2>1, <2>2, <2>3, <2>6 DEF Solo, parseVars
\* One more of the elements left to a loop.
<1>n. ASSUME NEW kinds, NextOf(r, kinds), source[r] = r
      PROVE  \E i \in todo[r] : b.xml[i] \in kinds /\ todo'[r] = todo[r] \ {i}
  BY <1>t, <1>b, <1>n DEF NextOf, IsNext
<1>9. CASE SkipTask(r)
  <2>1. /\ at[r] = "node" /\ at' = at /\ NextOf(r, {"plain"})
        /\ UNCHANGED <<parseVars, set, source, id, starter>>
    BY <1>9 DEF SkipTask, requestVars
  <2>2. PICK i \in todo[r] : b.xml[i] \in {"plain"} /\ todo'[r] = todo[r] \ {i}
    BY <1>s, <1>n, <2>1
  <2>3. Positions(b, {"docker"}) \ todo'[r] = Positions(b, {"docker"}) \ todo[r]
    BY <2>2 DEF Positions
  <2>4. todo'[r] = Positions(b, Task) \cap todo'[r]
    BY <1>s, <2>1, <2>2
  <2> QED BY <1>j, <1>s, <2>1, <2>3, <2>4 DEF Solo, parseVars
<1>10. CASE BeginNode(r)
  <2>1. /\ at[r] = "node" /\ at'[r] = "assign" /\ NextOf(r, {"docker"}) /\ set'[r] = r
        /\ UNCHANGED <<dag, doc, roots, read, nodes, source, id, starter>>
    BY <1>t, <1>s, <1>10 DEF BeginNode, GoTo
  <2>2. PICK i \in todo[r] : b.xml[i] \in {"docker"} /\ todo'[r] = todo[r] \ {i}
    BY <1>s, <1>n, <2>1
  <2>3. i \in Positions(b, {"docker"}) \ todo'[r]
    <3>1. i \in Positions(b, Task)
      BY <1>s, <2>1
    <3> QED BY <2>2, <3>1 DEF Positions
  <2>4. todo'[r] = Positions(b, Task) \cap todo'[r]
    BY <1>s, <2>1, <2>2
  <2>5. \E made \in BOOLEAN : nodes'[r] = NodeSet(made, 0)
    BY <1>s, <2>1
  <2> QED BY <1>j, <1>s, <2>1, <2>3, <2>4, <2>5 DEF Solo
<1>11. CASE EndNode(r)
  <2>1. /\ at[r] = "assign" /\ at'[r] = "node"
        /\ UNCHANGED <<dag, doc, roots, read, source, id, todo, starter>>
    BY <1>t, <1>11 DEF EndNode, GoTo
  <2>2. PICK made \in BOOLEAN : nodes[r] = NodeSet(made, 0)
    BY <1>s, <2>1
  <2>3. nodes'[r] = [name \in DOMAIN nodes[r] \cup {GetName} |-> IF name = GetName THEN 0 ELSE nodes[r][name]]
    BY <1>t, <1>s, <1>11, <2>1 DEF EndNode
  <2>4. DOMAIN nodes[r] \cup {GetName} = {Unnamed}
    BY <2>2, NodeSets DEF GetName
  <2>5. nodes'[r] = [name \in {Unnamed} |-> 0]
    BY <2>3, <2>4 DEF GetName
  <2>6. nodes'[r] = NodeSet(Positions(b, {"docker"}) \ todo'[r] # {}, 0)
    BY <1>s, <2>1, <2>5 DEF NodeSet
  <2> QED BY <1>j, <1>s, <2>1, <2>6 DEF Solo
<1>12. CASE SkipFlow(r)
  <2>1. /\ at[r] = "edge" /\ at' = at /\ NextOf(r, {"half-edge"})
        /\ UNCHANGED <<parseVars, set, source, id, starter>>
    BY <1>12 DEF SkipFlow, requestVars
  <2>2. PICK i \in todo[r] : b.xml[i] \in {"half-edge"} /\ todo'[r] = todo[r] \ {i}
    BY <1>s, <1>n, <2>1
  <2>3. /\ Positions(b, {"loose-edge"}) \ todo'[r] = Positions(b, {"loose-edge"}) \ todo[r]
        /\ Positions(b, {"edge"}) \ todo'[r] = Positions(b, {"edge"}) \ todo[r]
    BY <2>2 DEF Positions
  <2>4. todo'[r] = Positions(b, Flow) \cap todo'[r]
    BY <1>s, <2>1, <2>2
  <2> QED BY <1>j, <1>s, <2>1, <2>3, <2>4 DEF Solo, parseVars
<1>13. CASE Connect(r)
  <2>1. /\ at[r] = "edge" /\ at' = at /\ NextOf(r, {"loose-edge"}) /\ Unnamed \in DOMAIN nodes[r]
        /\ UNCHANGED <<dag, doc, roots, read, writers, set, source, id, starter>>
    BY <1>s, <1>13 DEF Connect, requestVars
  <2>2. PICK i \in todo[r] : b.xml[i] \in {"loose-edge"} /\ todo'[r] = todo[r] \ {i}
    BY <1>s, <1>n, <2>1
  <2> DEFINE past == Positions(b, {"loose-edge"}) \ todo[r]
  <2>3. i \in Positions(b, {"loose-edge"})
    <3>1. i \in Positions(b, Flow)
      BY <1>s, <2>1
    <3> QED BY <2>2, <3>1 DEF Positions
  <2>4. Positions(b, {"loose-edge"}) \ todo'[r] = past \cup {i} /\ i \notin past
    BY <2>2, <2>3
  <2>5. Cardinality(past \cup {i}) = Cardinality(past) + 1
    <3>1. IsFiniteSet(past)
      BY PositionsFinite, FS_Subset
    <3> HIDE DEF past
    <3> QED BY <2>4, <3>1, FS_AddElement
  <2>6. Has(b, {"docker"}) /\ nodes[r] = NodeSet(TRUE, Cardinality(past))
    <3>1. Has(b, {"docker"})
      BY <1>s, <2>1 DEF NodeSet
    <3> QED BY <1>s, <2>1, <3>1 DEF NodeSet
  <2>7. nodes'[r] = [nodes[r] EXCEPT ![Unnamed] = @ + 1]
    BY <1>t, <1>s, <1>13, <2>1 DEF Connect
  <2>8. nodes'[r] = NodeSet(TRUE, Cardinality(past) + 1)
    BY <2>6, <2>7 DEF NodeSet
  <2>9. nodes'[r] = NodeSet(Has(b, {"docker"}), Cardinality(Positions(b, {"loose-edge"}) \ todo'[r]))
    BY <2>4, <2>5, <2>6, <2>8 DEF NodeSet
  <2>10. Positions(b, {"edge"}) \ todo'[r] = {}
    BY <1>s, <2>1, <2>2 DEF Positions
  <2>11. todo'[r] = Positions(b, Flow) \cap todo'[r]
    BY <1>s, <2>1, <2>2
  <2> HIDE DEF past
  <2> QED BY <1>j, <1>s, <2>1, <2>6, <2>9, <2>10, <2>11 DEF Solo
<1>14. CASE ConnectToNil(r)
  <2>1. at[r] = "edge" /\ Finish(r, "aborted") /\ starter' = starter
    BY <1>14 DEF ConnectToNil
  <2>2. PICK i \in todo[r] : \/ b.xml[i] \in {"edge"}
                             \/ b.xml[i] \in {"loose-edge"} /\ Unnamed \notin DOMAIN nodes[r]
    BY <1>b, <1>s, <1>14, <2>1 DEF ConnectToNil, IsNext
  <2>3. i \in 1..Len(b.xml)
    <3>1. i \in Positions(b, Flow)
      BY <1>s, <2>1
    <3> QED BY <3>1 DEF Positions
  <2>4. ~Connected(b)
    <3>1. CASE b.xml[i] \in {"edge"}
      <4>1. i \in Positions(b, {"edge"})
        BY <2>3, <3>1 DEF Positions
      <4> QED BY <4>1 DEF Connected, Has
    <3>2. CASE b.xml[i] \in {"loose-edge"} /\ Unnamed \notin DOMAIN nodes[r]
      <4>1. i \in Positions(b, {"loose-edge"})
        BY <2>3, <3>2 DEF Positions
      <4>2. ~Has(b, {"docker"})
        BY <1>s, <2>1, <3>2 DEF NodeSet
      <4> QED BY <4>1, <4>2 DEF Connected, Has
    <3> QED BY <2>2, <3>1, <3>2
  <2>5. at'[r] = "done" /\ answer'[r] = "aborted" /\ starter'[r] = NoStarter
    BY <1>t, <2>1 DEF Finish
  <2> QED BY <1>j, <1>s, <2>1, <2>4, <2>5, OutcomeOf DEF Right
<1>15. ASSUME at[r] = "edge", todo[r] = {}
       PROVE  /\ Connected(b) /\ nodes[r] = NodesOf(b)
              /\ b.flaw = "none" /\ Has(b, {"definitions"}) /\ Has(b, {"process"})
  <2>1. \A kinds : Positions(b, kinds) \ todo[r] = Positions(b, kinds)
    BY <1>15
  <2> QED BY <1>s, <1>15, <2>1 DEF Connected, Has, NodesOf
<1>16. CASE NoId(r)
  <2>1. at[r] = "edge" /\ todo[r] = {} /\ id[r] = "none" /\ Finish(r, "silent") /\ starter' = starter
    BY <1>16 DEF NoId
  <2>2. ~Has(b, {"id"})
    <3>1. Dashed[b.id] \in Id /\ "none" \notin Id
      BY DeployAssumption
    <3> QED BY <1>s, <2>1, <3>1
  <2>3. at'[r] = "done" /\ answer'[r] = "silent" /\ starter'[r] = NoStarter
    BY <1>t, <2>1 DEF Finish
  <2> QED BY <1>j, <1>15, <2>1, <2>2, <2>3, OutcomeOf DEF Right
<1>17. CASE Deploy(r)
  <2>1. /\ at[r] = "edge" /\ todo[r] = {} /\ id[r] # "none" /\ Finish(r, "success")
        /\ starter' = [starter EXCEPT ![r] = [id |-> id[r], nodes |-> nodes[r]]]
    BY <1>s, <1>17 DEF Deploy
  <2>2. Has(b, {"id"}) /\ id[r] = Dashed[b.id]
    BY <1>s, <2>1
  <2>3. at'[r] = "done" /\ answer'[r] = "success" /\ starter'[r] = [id |-> id[r], nodes |-> nodes[r]]
    BY <1>t, <2>1 DEF Finish
  <2> QED BY <1>j, <1>15, <2>1, <2>2, <2>3, OutcomeOf DEF Right
<1>18. CASE ReceiveDeploy(r)
  BY <1>18, PlaceKinds DEF ReceiveDeploy, Receive, Begin, Places
<1> QED BY <1>1, <1>2, <1>3, <1>4, <1>5, <1>6, <1>7, <1>8, <1>9, <1>10, <1>11, <1>12, <1>13, <1>14,
           <1>16, <1>17, <1>18 DEF DeployStep

\* All that is said of the deploy request r.
SoloFine(r) ==
  /\ at[r] \in {"idle", "new-map"} => Fresh(r)
  /\ answer[r] # "success" => starter[r] = NoStarter
  /\ job[r] \in Body /\ Active(r) /\ Alone(r, Deploys) => Solo(r)
  /\ job[r] \in Body /\ Ended(r) /\ answer[r] # "lost" /\ Alone(r, Deploys) => Right(r)

LEMMA SolosOneByOne == SoloInv /\ AnsweredAlone <=> \A r \in Request : SoloFine(r)
BY DEF SoloInv, AnsweredAlone, SoloFine, Deploys, Right

LEMMA SolosNext == (SoloInv /\ AnsweredAlone <=> \A r \in Request : SoloFine(r))'
BY SolosOneByOne, PTL

\* A step of q leaves alone what leads to nothing that r has made, and what r gave on.
LEMMA FreshKept ==
  ASSUME NEW q \in Request, NEW r \in Request, r # q, Nobody \notin Request,
         DOMAIN nodes = Request, DOMAIN starter = Request, DeployStep(q)
  PROVE  (Fresh(r) => Fresh(r)') /\ starter'[r] = starter[r]
<1> USE DEF Fresh
<1>1. CASE UNCHANGED deployVars
  BY <1>1 DEF deployVars
<1>2. CASE NewMap(q)
  BY <1>2 DEF NewMap
<1>3. CASE NewDocument(q)
  BY <1>3 DEF NewDocument
<1>4. CASE Open(q)
  BY <1>4 DEF Open
<1>5. CASE ReadElement(q)
  BY <1>5 DEF ReadElement
<1>6. CASE SelectProcess(q) \/ SelectTasks(q) \/ SelectFlows(q) \/ SkipTask(q) \/ SkipFlow(q)
           \/ ConnectToNil(q) \/ NoId(q)
  BY <1>6 DEF SelectProcess, SelectTasks, SelectFlows, SkipTask, SkipFlow, ConnectToNil, NoId, parseVars
<1>7. CASE BeginNode(q)
  BY <1>7 DEF BeginNode
<1>8. CASE EndNode(q)
  BY <1>8 DEF EndNode
<1>9. CASE Connect(q)
  <2>1. dag # r => nodes'[r] = nodes[r]
    BY <1>9 DEF Connect
  <2>2. UNCHANGED <<dag, doc, roots, read, set, starter>>
    BY <1>9 DEF Connect
  <2> QED BY <2>1, <2>2
<1>10. CASE Deploy(q)
  BY <1>10 DEF Deploy, parseVars
<1> QED BY <1>1, <1>2, <1>3, <1>4, <1>5, <1>6, <1>7, <1>8, <1>9, <1>10
        DEF DeployStep, ReceiveDeploy, ReadEnd

\* A request that a step leaves where it is.
LEMMA SoloFrame ==
  ASSUME RequestTypes, RequestInv, Kept, NEW r \in Request, SoloFine(r),
         at'[r] = at[r], job'[r] = job[r], answer'[r] = answer[r], starter'[r] = starter[r],
         Fresh(r) => Fresh(r)',
         job'[r] \in Body /\ Active(r)' /\ Alone(r, Deploys)' /\ Solo(r) => Solo(r)'
  PROVE  SoloFine(r)'
<1>1. Alone(r, Deploys)' => Alone(r, Deploys)
  BY AloneBefore
<1>2. job'[r] \in Body /\ Ended(r)' /\ answer'[r] # "lost" /\ Alone(r, Deploys)' => Right(r)'
  BY <1>1 DEF SoloFine, Right, Ended
<1>3. job'[r] \in Body /\ Active(r)' /\ Alone(r, Deploys)' => Solo(r)'
  BY <1>1 DEF SoloFine, Active
<1> QED BY <1>2, <1>3 DEF SoloFine

LEMMA DeploySolo ==
  ASSUME RequestTypes, RequestInv, ParserFine, NEW q \in Request, DeployStep(q),
         Kept, OthersStay(q), RequestTypes', RequestInv', job'[q] \in Body,
         \A r \in Request : SoloFine(r)
  PROVE  \A r \in Request : SoloFine(r)'
<1>t. /\ Nobody \notin Request /\ DOMAIN nodes = Request /\ DOMAIN starter = Request
      /\ at \in [Request -> Places \cup {"idle", "done"}]
      /\ job \in [Request -> Body \cup Save \cup Call \cup {NoJob}]
      /\ answer \in [Request -> Answers]
  BY DeployAssumption DEF ParserFine, DeployTypeOK, RequestTypes, RequestsTypeOK
<1>1. ASSUME NEW r \in Request, r # q PROVE SoloFine(r)'
  <2>1. (Fresh(r) => Fresh(r)') /\ starter'[r] = starter[r]
    BY <1>t, <1>1, FreshKept
  <2>2. at'[r] = at[r] /\ job'[r] = job[r] /\ answer'[r] = answer[r]
    BY <1>1 DEF OthersStay
  <2>3. ~(job'[r] \in Body /\ Active(r)' /\ Alone(r, Deploys)')
    <3>1. Active(r)' => Active(r)
      BY <2>2 DEF Active
    <3> QED BY <1>1, <3>1, DeployAt, AloneSteps
  <2> QED BY <2>1, <2>2, <2>3, SoloFrame
<1>2. SoloFine(q)'
  <2>0. SoloFine(q)
    OBVIOUS
  <2>1. CASE at[q] = "idle"
    <3>1. ReceiveDeploy(q)
      BY <2>1 DEF DeployStep, NewMap, NewDocument, Open, ReadElement, ReadEnd, SelectProcess, SelectTasks,
           SelectFlows, SkipTask, BeginNode, EndNode, SkipFlow, Connect, ConnectToNil, NoId, Deploy
    <3>2. PICK b \in Body : Receive(q, b, b.flaw = "request", "new-map")
      BY <3>1 DEF ReceiveDeploy
    <3>3. UNCHANGED deployVars /\ answer[q] = "none"
      BY <2>1, <3>1 DEF ReceiveDeploy, RequestInv, Ended
    <3>4. Fresh(q) /\ Fresh(q)' /\ starter'[q] = NoStarter
      BY <2>0, <2>1, <3>3 DEF SoloFine, Fresh, deployVars
    <3>5. CASE b.flaw # "request"
      <4>1. at'[q] = "new-map" /\ job'[q] = b
        BY <1>t, <3>2, <3>5 DEF Receive, Begin
      <4>2. Solo(q)'
        <5>1. read'[q] <= Len(b.xml)
          <6>1. Len(b.xml) \in Nat /\ read'[q] = 0
            BY <3>4, DeployAssumption DEF Fresh
          <6> QED BY <6>1
        <5> QED BY <3>5, <4>1, <5>1 DEF Solo
      <4> QED BY <3>4, <4>1, <4>2 DEF SoloFine, Ended
    <3>6. CASE b.flaw = "request"
      <4>1. at'[q] = "done" /\ job'[q] = b /\ answer'[q] = "silent"
        BY <1>t, <3>2, <3>6 DEF Receive, Begin
      <4>2. Right(q)'
        BY <3>4, <3>6, <4>1, OutcomeOf DEF Right
      <4> QED BY <3>4, <4>1, <4>2 DEF SoloFine, Active
    <3> QED BY <3>5, <3>6
  <2>2. CASE at[q] \in DeployPlaces
    <3>1. Active(q) /\ job[q] \in Body /\ answer[q] = "none" /\ starter[q] = NoStarter
      <4>1. Active(q) /\ job[q] \in Body
        BY <2>2, PlaceFacts DEF Places
      <4>2. answer[q] = "none"
        BY <4>1 DEF Active, Ended, RequestInv
      <4> QED BY <2>0, <4>1, <4>2 DEF SoloFine
    <3>2. at[q] = "new-map" => Fresh(q)
      BY <2>0 DEF SoloFine
    <3>3. at'[q] \notin {"idle", "new-map"}
      <4>1. at'[q] # "idle"
        BY DeployAssumption DEF RequestInv
      <4>2. at'[q] # "new-map"
        BY <1>t, <2>2 DEF DeployStep, ReceiveDeploy, Receive, Begin, NewMap, NewDocument, Open, ReadElement, ReadEnd,
           SelectProcess, SelectTasks, SelectFlows, SkipTask, BeginNode, EndNode, SkipFlow, Connect,
           ConnectToNil, NoId, Deploy, GoTo, Finish, requestVars, DeployPlaces
      <4> QED BY <4>1, <4>2
    <3>4. answer'[q] # "success" => starter'[q] = NoStarter
      <4>1. starter' = starter \/ (Deploy(q) /\ Finish(q, "success"))
        BY <2>2 DEF DeployStep, ReceiveDeploy, NewMap, NewDocument, Open, ReadElement, ReadEnd,
           SelectProcess, SelectTasks, SelectFlows, SkipTask, BeginNode, EndNode, SkipFlow, Connect,
           ConnectToNil, NoId, Deploy, deployVars
      <4>2. Finish(q, "success") => answer'[q] = "success"
        BY <1>t DEF Finish
      <4> QED BY <3>1, <4>1, <4>2
    <3>5. ASSUME Alone(q, Deploys)'
          PROVE  IF at'[q] = "done" THEN Right(q)' ELSE Solo(q)'
      <4>1. Solo(q)
        BY <2>0, <3>1, <3>5, AloneBefore DEF SoloFine
      <4> QED BY <2>2, <3>1, <3>2, <4>1, SoloStep
    <3> QED BY <3>3, <3>4, <3>5 DEF SoloFine, Active, Ended
  <2> QED BY <2>1, <2>2, DeployAt
<1> QED BY <1>1, <1>2

LEMMA SoloStays ==
  ASSUME NEW r \in Request, Solo(r), at'[r] = at[r], job'[r] = job[r], UNCHANGED deployVars
  PROVE  Solo(r)'
<1>1. PICK b, p : job[r] = b /\ job'[r] = b /\ at[r] = p /\ at'[r] = p
  OBVIOUS
<1>2. UNCHANGED <<dag, doc, roots, read, nodes, set, source, id, todo>>
  BY DEF deployVars
<1>3. b.flaw # "request"
  BY <1>1 DEF Solo
<1>4. read[r] <= Len(b.xml)
  BY <1>1 DEF Solo
<1>5. job'[r].flaw # "request" /\ read'[r] <= Len(job'[r].xml)
  BY <1>1, <1>2, <1>3, <1>4
<1> QED BY <1>1, <1>2, <1>5 DEF Solo

LEMMA UntouchedSolo ==
  ASSUME RequestTypes, RequestInv, RequestInv', Kept, Untouched(Body), UNCHANGED deployVars,
         \A q \in Request : job'[q] \in Body => at'[q] = at[q],
         \A r \in Request : SoloFine(r)
  PROVE  \A r \in Request : SoloFine(r)'
<1> SUFFICES ASSUME NEW r \in Request PROVE SoloFine(r)'
  OBVIOUS
<1>1. Fresh(r) => Fresh(r)'
  BY DEF Fresh, deployVars
<1>2. starter'[r] = starter[r]
  BY DEF deployVars
<1>3. CASE job'[r] \in Body
  <2>1. at'[r] = at[r] /\ job'[r] = job[r]
    BY <1>3 DEF Untouched
  <2>2. answer'[r] = answer[r]
    BY <2>1 DEF Kept, Ended
  <2>3. Solo(r) => Solo(r)'
    BY <2>1, SoloStays
  <2> QED BY <1>1, <1>2, <2>1, <2>2, <2>3, SoloFrame
<1>4. CASE job'[r] \notin Body
  <2>1. at'[r] # "new-map"
    BY <1>4 DEF RequestInv, DeployPlaces
  <2>2. at'[r] = "idle" => at[r] = "idle"
    BY DEF RequestInv, Kept
  <2>3. at'[r] \in {"idle", "new-map"} => Fresh(r)'
    BY <1>1, <2>1, <2>2 DEF SoloFine
  <2>4. answer[r] = "success" => answer'[r] = "success"
    BY DEF Kept, RequestInv
  <2>5. answer'[r] # "success" => starter'[r] = NoStarter
    BY <1>2, <2>4 DEF SoloFine
  <2> QED BY <1>4, <2>3, <2>5 DEF SoloFine
<1> QED BY <1>3, <1>4

LEMMA LostSolo ==
  ASSUME RequestTypes, RequestInv, ParserFine, Kept, RequestsLost, DeployLost,
         \A r \in Request : SoloFine(r)
  PROVE  \A r \in Request : SoloFine(r)'
<1> SUFFICES ASSUME NEW r \in Request PROVE SoloFine(r)'
  OBVIOUS
<1>1. Fresh(r)'
  BY DeployAssumption DEF DeployLost, Fresh
<1>2. starter'[r] = starter[r] /\ job'[r] = job[r]
  BY DEF DeployLost, RequestsLost
<1>3. /\ at'[r] = IF Active(r) THEN "done" ELSE at[r]
      /\ answer'[r] = IF Active(r) THEN "lost" ELSE answer[r]
  BY DEF RequestsLost
<1>4. CASE Active(r)
  <2>1. answer[r] # "success"
    BY <1>4 DEF RequestInv, Active, Ended
  <2>2. starter'[r] = NoStarter
    BY <1>2, <2>1 DEF SoloFine
  <2> QED BY <1>1, <1>3, <1>4, <2>2 DEF SoloFine, Active
<1>5. CASE ~Active(r)
  <2>1. ~Active(r)'
    BY <1>3, <1>5 DEF Active
  <2> QED BY <1>1, <1>2, <1>3, <1>5, <2>1, SoloFrame
<1> QED BY <1>4, <1>5

LEMMA InitSolo ==
  ASSUME Init
  PROVE  \A r \in Request : SoloFine(r)
<1> SUFFICES ASSUME NEW r \in Request PROVE SoloFine(r)
  OBVIOUS
<1>1. Fresh(r) /\ starter[r] = NoStarter
  BY DeployAssumption DEF Init, DeployInit, Fresh
<1>2. at[r] = "idle"
  BY DEF Init, RequestsInit
<1> QED BY <1>1, <1>2 DEF SoloFine, Active, Ended

-----------------------------------------------------------------------------
(* What overlapping deploy requests get from each other *)

\* What is said of the starter of r.
StarterOf(r) ==
  job[r] \in Body /\ answer[r] = "success" =>
    /\ \E q \in Neighbours(r) : Has(job[q], {"id"}) /\ starter[r].id = Dashed[job[q].id]
    /\ Unnamed \in DOMAIN starter[r].nodes => DockerNear(r)

SharedFine == \A r \in Request : Shared(r) /\ StarterOf(r)

LEMMA SharedOneByOne == SharedInv /\ StarterFromNeighbours <=> SharedFine
BY DEF SharedInv, StarterFromNeighbours, SharedFine, StarterOf, Deploys

LEMMA NeighboursGrow ==
  ASSUME Kept, NEW r \in Request, NEW q \in Neighbours(r)
  PROVE  q \in Neighbours(r)' /\ q \in Request /\ job[q] \in Body /\ job'[q] = job[q]
<1>1. q \in Request /\ job[q] \in Body /\ (q = r \/ Together(r, q))
  BY DEF Neighbours, Deploys
<1>2. job'[q] = job[q]
  BY <1>1, Kinds DEF Kept
<1>3. Together(r, q) => Together(r, q)'
  BY <1>1, TogetherKept
<1> QED BY <1>1, <1>2, <1>3 DEF Neighbours, Deploys

LEMMA DockerKept ==
  ASSUME Kept, NEW r \in Request, DockerNear(r)
  PROVE  DockerNear(r)'
<1>0. PICK q \in Neighbours(r) : \E s \in Neighbours(q) : Has(job[s], {"docker"})
  BY DEF DockerNear
<1>1. PICK s \in Neighbours(q) : Has(job[s], {"docker"})
  BY <1>0
<1>2. q \in Neighbours(r)' /\ q \in Request
  BY NeighboursGrow
<1>3. s \in Neighbours(q)' /\ job'[s] = job[s]
  BY <1>2, NeighboursGrow
<1>4. Has(job'[s], {"docker"})
  BY <1>1, <1>3
<1> QED BY <1>2, <1>3, <1>4 DEF DockerNear

\* Requests that are at work at the same time are neighbours.
LEMMA AtWork ==
  ASSUME RequestTypes, RequestInv, NEW r \in Request, NEW q \in Request,
         at[r] \in DeployPlaces, at[q] \in DeployPlaces
  PROVE  q \in Neighbours(r)
<1>1. Active(r) /\ Active(q) /\ job[q] \in Body
  BY PlaceFacts DEF Places
<1> QED BY <1>1, TogetherActive DEF Neighbours, Deploys

LEMMA SeenWithin ==
  ASSUME DeployTypeOK, ParserInv, NEW q \in Request, Shared(q), NEW kinds
  PROVE  Seen(q, kinds) \subseteq Positions(job[q], kinds)
<1> SUFFICES ASSUME NEW i \in Seen(q, kinds) PROVE i \in Positions(job[q], kinds)
  OBVIOUS
<1>1. read[q] \in Nat /\ i \in 1..read[q] /\ job[q].xml[i] \in kinds
  BY DEF DeployTypeOK, Seen
<1>2. read[q] > 0
  BY <1>1
<1>3. read[q] <= Len(job[q].xml) /\ Len(job[q].xml) \in Nat
  BY <1>2, BodyTypes DEF Shared, ParserInv
<1>4. i \in 1..Len(job[q].xml)
  BY <1>1, <1>3
<1> QED BY <1>1, <1>4 DEF Positions

\* A request that a step leaves where it is.
LEMMA SharedStay ==
  ASSUME Kept, NEW q \in Request, Shared(q), StarterOf(q),
         at'[q] = at[q], job'[q] = job[q], answer'[q] = answer[q], starter'[q] = starter[q],
         source'[q] = source[q], id'[q] = id[q], todo'[q] \subseteq todo[q],
         read'[q] > 0 => read'[q] <= Len(job'[q].xml),
         at[q] \in {"idle", "new-map", "new-document"} => roots'[q] = << >> /\ doc' # q,
         at[q] \in {"open", "elements", "process"} =>
           doc' # Nobody /\ \A i \in 1..Len(roots'[doc']) : roots'[doc'][i] \in Neighbours(q)',
         at[q] \in DeployPlaces \ {"new-map"} /\ Unnamed \in DOMAIN nodes'[dag'] => DockerNear(q)'
  PROVE  Shared(q)' /\ StarterOf(q)'
<1>1. ASSUME at[q] \in {"tasks", "node", "assign", "edge"}
      PROVE  /\ source'[q] \in Neighbours(q)' /\ job'[source'[q]] = job[source[q]]
             /\ id'[q] # "none" =>
                  Has(job'[source'[q]], {"id"}) /\ id'[q] = Dashed[job'[source'[q]].id]
  <2>1. PICK s : source[q] = s
    OBVIOUS
  <2>2. s \in Neighbours(q) /\ (id[q] # "none" => Has(job[s], {"id"}) /\ id[q] = Dashed[job[s].id])
    BY <1>1, <2>1 DEF Shared
  <2>3. s \in Neighbours(q)' /\ job'[s] = job[s]
    BY <2>2, NeighboursGrow
  <2> QED BY <2>1, <2>2, <2>3
<1>2. at[q] \in {"node", "assign"} => todo'[q] \subseteq Positions(job'[source'[q]], Task)
  BY <1>1 DEF Shared
<1>3. at[q] = "assign" => Has(job'[source'[q]], {"docker"})
  BY <1>1 DEF Shared
<1>4. Shared(q)'
  BY <1>1, <1>2, <1>3 DEF Shared
<1>5. ASSUME job'[q] \in Body, answer'[q] = "success"
      PROVE  /\ \E x \in Neighbours(q)' : Has(job'[x], {"id"}) /\ starter'[q].id = Dashed[job'[x].id]
             /\ Unnamed \in DOMAIN starter'[q].nodes => DockerNear(q)'
  <2>1. PICK x \in Neighbours(q) : Has(job[x], {"id"}) /\ starter[q].id = Dashed[job[x].id]
    BY <1>5 DEF StarterOf
  <2>2. x \in Neighbours(q)' /\ job'[x] = job[x]
    BY NeighboursGrow
  <2>3. Unnamed \in DOMAIN starter[q].nodes => DockerNear(q)
    BY <1>5 DEF StarterOf
  <2> QED BY <2>1, <2>2, <2>3, DockerKept
<1> QED BY <1>4, <1>5 DEF StarterOf

\* The variables of the other requests' goroutines.
LEMMA LocalsStay ==
  ASSUME DeployTypeOK, NEW r \in Request, NEW q \in Request, q # r, DeployStep(r)
  PROVE  /\ source'[q] = source[q] /\ id'[q] = id[q] /\ todo'[q] = todo[q]
         /\ read'[q] = read[q] /\ starter'[q] = starter[q]
<1>t. /\ source \in [Request -> Request \cup {Nobody}] /\ id \in [Request -> Id \cup {"none"}]
      /\ todo \in [Request -> SUBSET Nat] /\ read \in [Request -> Nat] /\ DOMAIN starter = Request
  BY DEF DeployTypeOK
<1>1. CASE ReceiveDeploy(r) \/ NewMap(r) \/ NewDocument(r) \/ Open(r) \/ ReadElement(r) \/ ReadEnd(r)
  BY <1>t, <1>1 DEF ReceiveDeploy, NewMap, NewDocument, Open, ReadElement, ReadEnd, deployVars
<1>2. CASE SelectProcess(r) \/ SelectTasks(r) \/ SelectFlows(r) \/ SkipTask(r) \/ SkipFlow(r)
  BY <1>t, <1>2 DEF SelectProcess, SelectTasks, SelectFlows, SkipTask, SkipFlow, NextOf, parseVars
<1>3. CASE BeginNode(r) \/ EndNode(r) \/ Connect(r)
  BY <1>t, <1>3 DEF BeginNode, EndNode, Connect, NextOf
<1>4. CASE ConnectToNil(r) \/ NoId(r) \/ Deploy(r)
  BY <1>t, <1>4 DEF ConnectToNil, NoId, Deploy, Forget, parseVars
<1> QED BY <1>1, <1>2, <1>3, <1>4 DEF DeployStep

\* The document that doc leads to after a step of r.
LEMMA DocumentShared ==
  ASSUME RequestTypes, RequestInv, ParserFine, Kept, NEW r \in Request, DeployStep(r), SharedFine,
         NEW q \in Request
  PROVE  /\ q # r /\ at[q] \in {"idle", "new-map", "new-document"} => roots'[q] = << >> /\ doc' # q
         /\ at[q] \in {"open", "elements", "process"} =>
              doc' # Nobody /\ \A i \in 1..Len(roots'[doc']) : roots'[doc'][i] \in Neighbours(q)'
<1>t. /\ doc \in Request \cup {Nobody} /\ roots \in [Request -> Seq(Request)] /\ r # Nobody
      /\ Shared(q) /\ Shared(r)
  BY DeployAssumption DEF ParserFine, DeployTypeOK, SharedFine
<1>1. /\ at[q] \in {"idle", "new-map", "new-document"} => roots[q] = << >> /\ doc # q
      /\ at[q] \in {"open", "elements", "process"} =>
           doc # Nobody /\ \A i \in 1..Len(roots[doc]) : roots[doc][i] \in Neighbours(q)
  BY <1>t DEF Shared
<1>2. ASSUME at[q] \in {"open", "elements", "process"}, NEW i \in 1..Len(roots[doc])
      PROVE  roots[doc][i] \in Neighbours(q)'
  <2>1. PICK x : roots[doc][i] = x
    OBVIOUS
  <2>2. x \in Neighbours(q)
    BY <1>1, <1>2, <2>1
  <2> QED BY <2>1, <2>2, NeighboursGrow
<1>3. CASE UNCHANGED <<doc, roots>>
  BY <1>1, <1>2, <1>3
<1>4. CASE NewDocument(r)
  <2>1. roots[r] = << >> /\ doc' = r /\ roots' = roots
    BY <1>t, <1>4 DEF NewDocument, Shared
  <2>2. 1..Len(roots'[doc']) = {}
    BY <2>1
  <2> QED BY <1>t, <1>1, <2>1, <2>2
<1>5. CASE Open(r)
  <2>1. at[r] = "open" /\ doc \in Request /\ doc' = doc /\ roots' = [roots EXCEPT ![doc] = Append(@, r)]
    BY <1>t, <1>5 DEF Open, Shared
  <2>2. at[q] \in {"idle", "new-map", "new-document"} => roots'[q] = << >> /\ doc' # q
    BY <1>t, <1>1, <2>1
  <2>3. ASSUME at[q] \in {"open", "elements", "process"}, NEW i \in 1..Len(roots'[doc'])
        PROVE  roots'[doc'][i] \in Neighbours(q)'
    <3>1. PICK s \in Seq(Request) : s = roots[doc]
      BY <1>t, <2>1
    <3>2. roots'[doc'] = Append(s, r) /\ Len(s) \in Nat
      BY <1>t, <2>1, <3>1
    <3>3. i \in 1..Len(s) \/ Append(s, r)[i] = r
      BY <2>3, <3>1, <3>2, AppendProperties
    <3>4. i \in 1..Len(s) => Append(s, r)[i] = s[i]
      BY <3>1, <3>2, AppendProperties
    <3>5. r \in Neighbours(q)'
      <4>1. r \in Neighbours(q)
        BY <2>1, <2>3, AtWork DEF DeployPlaces
      <4> QED BY <4>1, NeighboursGrow
    <3> QED BY <1>2, <2>3, <3>1, <3>2, <3>3, <3>4, <3>5
  <2> QED BY <1>1, <2>1, <2>2, <2>3
<1>6. CASE \/ ReceiveDeploy(r) \/ NewMap(r) \/ ReadElement(r) \/ ReadEnd(r) \/ SelectProcess(r)
           \/ SelectTasks(r) \/ SelectFlows(r) \/ SkipTask(r) \/ BeginNode(r) \/ EndNode(r)
           \/ SkipFlow(r) \/ Connect(r) \/ ConnectToNil(r) \/ NoId(r) \/ Deploy(r)
  BY <1>3, <1>6 DEF ReceiveDeploy, NewMap, ReadElement, ReadEnd, SelectProcess, SelectTasks, SelectFlows,
       SkipTask, BeginNode, EndNode, SkipFlow, Connect, ConnectToNil, NoId, Deploy, deployVars, parseVars
<1> QED BY <1>4, <1>5, <1>6 DEF DeployStep

\* The node set that dag leads to after a step of r.
LEMMA NodesShared ==
  ASSUME RequestTypes, RequestInv, ParserFine, Kept, NEW r \in Request, DeployStep(r), SharedFine,
         SoloFine(r), NEW q \in Request, at[q] \in DeployPlaces, q = r \/ at[q] # "new-map",
         Unnamed \in DOMAIN nodes'[dag']
  PROVE  DockerNear(q)'
<1>t. /\ dag \in Request \cup {Nobody} /\ DOMAIN nodes = Request
      /\ Shared(q) /\ Shared(r) /\ ParserInv
  BY DEF ParserFine, DeployTypeOK, SharedFine
<1>1. CASE at[q] # "new-map" /\ Unnamed \in DOMAIN nodes[dag]
  <2>1. DockerNear(q)
    BY <1>t, <1>1 DEF Shared
  <2> QED BY <2>1, DockerKept
<1>2. CASE NewMap(r)
  <2>1. nodes'[dag'] = EmptySet
    BY <1>2 DEF NewMap, SoloFine, Fresh
  <2> QED BY <2>1 DEF EmptySet
<1>3. CASE EndNode(r)
  <2>1. at[r] = "assign" /\ r \in Neighbours(q)
    BY <1>3, AtWork DEF EndNode, DeployPlaces
  <2>2. PICK s \in Neighbours(r) : Has(job[s], {"docker"})
    BY <1>t, <2>1 DEF Shared
  <2>3. DockerNear(q)
    BY <2>1, <2>2 DEF DockerNear
  <2> QED BY <2>3, DockerKept
<1>4. CASE ~NewMap(r) /\ ~EndNode(r)
  <2>1. at[q] # "new-map"
    <3>1. at[r] # "new-map"
      BY <1>4 DEF DeployStep, ReceiveDeploy, Receive, Begin, NewDocument, Open, ReadElement, ReadEnd,
           SelectProcess, SelectTasks, SelectFlows, SkipTask, BeginNode, SkipFlow, Connect, ConnectToNil,
           NoId, Deploy
    <3> QED BY <3>1
  <2>2. dag' = dag
    BY <1>4 DEF DeployStep, ReceiveDeploy, NewDocument, Open, ReadElement, ReadEnd, SelectProcess,
         SelectTasks, SelectFlows, SkipTask, BeginNode, SkipFlow, Connect, ConnectToNil, NoId, Deploy,
         deployVars, parseVars
  <2>3. CASE nodes' = nodes
    BY <1>1, <2>1, <2>2, <2>3
  <2>4. CASE Connect(r)
    <3>1. DOMAIN nodes'[dag] = DOMAIN nodes[dag]
      BY <1>t, <2>4 DEF Connect, DeployPlaces, ParserInv
    <3> QED BY <1>1, <2>1, <2>2, <3>1
  <2>5. nodes' = nodes \/ Connect(r)
    BY <1>4 DEF DeployStep, ReceiveDeploy, NewDocument, Open, ReadElement, ReadEnd, SelectProcess,
         SelectTasks, SelectFlows, SkipTask, BeginNode, SkipFlow, ConnectToNil, NoId, Deploy,
         deployVars, parseVars
  <2> QED BY <2>3, <2>4, <2>5
<1> QED BY <1>2, <1>3, <1>4

\* The request that takes a step itself.
LEMMA SharedOwn ==
  ASSUME RequestTypes, RequestInv, ParserFine, Kept, NEW r \in Request, DeployStep(r), SharedFine,
         SoloFine(r), RequestTypes', RequestInv'
  PROVE  Shared(r)' /\ StarterOf(r)'
<1>t. /\ at \in [Request -> Places \cup {"idle", "done"}]
      /\ job \in [Request -> Body \cup Save \cup Call \cup {NoJob}]
      /\ answer \in [Request -> Answers]
      /\ read \in [Request -> Nat] /\ todo \in [Request -> SUBSET Nat]
      /\ source \in [Request -> Request \cup {Nobody}] /\ id \in [Request -> Id \cup {"none"}]
      /\ DOMAIN starter = Request
      /\ DeployTypeOK /\ ParserInv /\ Shared(r) /\ StarterOf(r)
  BY DEF RequestTypes, RequestsTypeOK, ParserFine, DeployTypeOK, SharedFine
<1>r. read[r] > 0 => read[r] <= Len(job'[r].xml)
  BY <1>t, Kinds DEF ParserInv, Shared, Kept
<1>d. /\ at[r] \in {"open", "elements", "process"} =>
           doc' # Nobody /\ \A i \in 1..Len(roots'[doc']) : roots'[doc'][i] \in Neighbours(r)'
      /\ at[r] \in DeployPlaces /\ Unnamed \in DOMAIN nodes'[dag'] => DockerNear(r)'
  BY DocumentShared, NodesShared
<1>n. at[r] # "done" => answer[r] = "none"
  BY DEF RequestInv, Ended
\* What it takes from the document it found.
<1>s. PICK s : s = source[r]
  OBVIOUS
<1>k. ASSUME at[r] \in {"tasks", "node", "assign", "edge"}
      PROVE  /\ s \in Neighbours(r) /\ s \in Request /\ s \in Neighbours(r)'
             /\ job[s] \in Body /\ job'[s] = job[s]
             /\ id[r] # "none" => Has(job[s], {"id"}) /\ id[r] = Dashed[job[s].id]
             /\ at[r] \in {"node", "assign"} => todo[r] \subseteq Positions(job[s], Task)
  <2>1. /\ s \in Neighbours(r)
        /\ id[r] # "none" => Has(job[s], {"id"}) /\ id[r] = Dashed[job[s].id]
        /\ at[r] \in {"node", "assign"} => todo[r] \subseteq Positions(job[s], Task)
    BY <1>t, <1>s, <1>k DEF Shared
  <2> QED BY <2>1, NeighboursGrow
<1>1. CASE ReceiveDeploy(r)
  <2>1. /\ at[r] = "idle" /\ at'[r] \in {"new-map", "done"} /\ answer'[r] \in {"none", "silent"}
        /\ UNCHANGED deployVars
    BY <1>t, <1>n, <1>1 DEF ReceiveDeploy, Receive, Begin
  <2> QED BY <1>t, <1>r, <2>1 DEF Shared, StarterOf, deployVars, DeployPlaces
<1>2. CASE NewMap(r)
  <2>1. /\ at[r] = "new-map" /\ at'[r] = "new-document" /\ answer'[r] = "none"
        /\ roots' = roots /\ doc' = doc /\ read' = read
    BY <1>t, <1>n, <1>2 DEF NewMap, GoTo
  <2> QED BY <1>t, <1>r, <1>d, <2>1 DEF Shared, StarterOf, DeployPlaces
<1>3. CASE NewDocument(r)
  <2>1. /\ at[r] = "new-document" /\ at'[r] = "open" /\ answer'[r] = "none" /\ read' = read
        /\ doc' = r /\ roots' = roots
    BY <1>t, <1>n, <1>3 DEF NewDocument, GoTo
  <2>2. roots'[doc'] = << >> /\ doc' # Nobody
    BY <1>t, <2>1, DeployAssumption DEF Shared
  <2>3. 1..Len(roots'[doc']) = {}
    BY <2>2
  <2> QED BY <1>t, <1>r, <1>d, <2>1, <2>2, <2>3 DEF Shared, StarterOf, DeployPlaces
<1>4. CASE Open(r)
  <2>1. at[r] = "open" /\ at'[r] = "elements" /\ answer'[r] = "none" /\ read' = read
    BY <1>t, <1>n, <1>4 DEF Open, GoTo
  <2> QED BY <1>t, <1>r, <1>d, <2>1 DEF Shared, StarterOf, DeployPlaces
<1>5. CASE ReadElement(r)
  <2>1. /\ at[r] = "elements" /\ at' = at /\ job' = job /\ answer' = answer
        /\ read[r] < Len(job[r].xml) /\ read'[r] = read[r] + 1
    BY <1>t, <1>5 DEF ReadElement, requestVars
  <2>2. Len(job[r].xml) \in Nat
    BY <2>1, PlaceFacts, BodyTypes DEF Places, DeployPlaces
  <2>3. read'[r] <= Len(job'[r].xml)
    BY <1>t, <2>1, <2>2
  <2>4. answer'[r] = "none"
    BY <1>n, <2>1
  <2> QED BY <1>d, <2>1, <2>3, <2>4 DEF Shared, StarterOf, DeployPlaces
<1>6. CASE ReadEnd(r)
  <2>1. /\ at[r] = "elements" /\ at'[r] \in {"process", "done"} /\ answer'[r] \in {"none", "silent"}
        /\ read' = read
    BY <1>t, <1>n, <1>6 DEF ReadEnd, GoTo, Finish, deployVars
  <2> QED BY <1>t, <1>r, <1>d, <2>1 DEF Shared, StarterOf, DeployPlaces
<1>7. CASE SelectProcess(r)
  <2>1. at[r] = "process" /\ read' = read
    BY <1>7 DEF SelectProcess, parseVars
  <2>2. CASE at'[r] = "done" /\ answer'[r] = "aborted"
    BY <1>t, <1>r, <2>1, <2>2 DEF Shared, StarterOf, DeployPlaces
  <2>3. ASSUME NEW q \in Request, Definitions(doc, q), source' = [source EXCEPT ![r] = q],
               id' = [id EXCEPT ![r] = IF Seen(q, {"id"}) # {} THEN Dashed[job[q].id] ELSE "none"],
               GoTo(r, "tasks")
        PROVE  Shared(r)' /\ StarterOf(r)'
    <3>1. q \in Neighbours(r)
      BY <1>t, <2>1, <2>3 DEF Definitions, Shared
    <3>2. q \in Neighbours(r)' /\ job'[q] = job[q]
      BY <3>1, NeighboursGrow
    <3>3. source'[r] = q /\ at'[r] = "tasks" /\ answer'[r] = "none"
      BY <1>t, <1>n, <2>1, <2>3 DEF GoTo
    <3>4. Seen(q, {"id"}) \subseteq Positions(job[q], {"id"})
      BY <1>t, SeenWithin DEF SharedFine
    <3>5. id'[r] # "none" => Has(job'[q], {"id"}) /\ id'[r] = Dashed[job'[q].id]
      BY <1>t, <2>3, <3>2, <3>4 DEF Has
    <3> QED BY <1>r, <1>d, <2>1, <3>2, <3>3, <3>5 DEF Shared, StarterOf, DeployPlaces
  <2> QED BY <1>t, <1>7, <2>2, <2>3 DEF SelectProcess, Finish
<1>8. CASE SelectTasks(r) \/ SelectFlows(r)
  <2>1. /\ at[r] \in {"tasks", "node"} /\ at'[r] \in {"node", "edge"} /\ answer'[r] = "none"
        /\ UNCHANGED <<read, source, id>>
    BY <1>t, <1>n, <1>8 DEF SelectTasks, SelectFlows, GoTo, parseVars
  <2>2. at'[r] = "node" => todo'[r] \subseteq Positions(job[s], Task)
    <3>1. ASSUME SelectTasks(r) PROVE todo'[r] = Seen(s, Task)
      BY <1>t, <1>s, <3>1 DEF SelectTasks
    <3>2. Seen(s, Task) \subseteq Positions(job[s], Task)
      BY <1>t, <1>k, <2>1, SeenWithin DEF SharedFine
    <3>3. SelectFlows(r) => at'[r] = "edge"
      BY <1>t DEF SelectFlows, GoTo
    <3> QED BY <1>8, <3>1, <3>2, <3>3
  <2> QED BY <1>r, <1>s, <1>d, <1>k, <2>1, <2>2 DEF Shared, StarterOf, DeployPlaces
<1>9. CASE SkipTask(r) \/ SkipFlow(r) \/ Connect(r)
  <2>1. /\ at[r] \in {"node", "edge"} /\ at' = at /\ job' = job /\ answer' = answer
        /\ UNCHANGED <<read, source, id, starter>> /\ todo'[r] \subseteq todo[r]
    BY <1>t, <1>9 DEF SkipTask, SkipFlow, Connect, NextOf, requestVars, parseVars
  <2> QED BY <1>t, <1>r, <1>d, <2>1, SharedStay DEF DeployPlaces
<1>10. CASE BeginNode(r)
  <2>1. /\ at[r] = "node" /\ at'[r] = "assign" /\ answer'[r] = "none"
        /\ UNCHANGED <<read, source, id>>
    BY <1>t, <1>n, <1>10 DEF BeginNode, GoTo
  <2>2. PICK i \in todo[r] : job[s].xml[i] \in {"docker"} /\ todo' = [todo EXCEPT ![r] = @ \ {i}]
    BY <1>s, <1>10 DEF BeginNode, NextOf, IsNext
  <2>3. i \in Positions(job[s], {"docker"})
    BY <1>k, <2>1, <2>2 DEF Positions
  <2>4. Has(job[s], {"docker"}) /\ todo'[r] \subseteq Positions(job[s], Task)
    BY <1>t, <1>k, <2>1, <2>2, <2>3 DEF Has
  <2> QED BY <1>r, <1>s, <1>d, <1>k, <2>1, <2>4 DEF Shared, StarterOf, DeployPlaces
<1>11. CASE EndNode(r)
  <2>1. /\ at[r] = "assign" /\ at'[r] = "node" /\ answer'[r] = "none"
        /\ UNCHANGED <<read, source, id, todo>>
    BY <1>t, <1>n, <1>11 DEF EndNode, GoTo
  <2> QED BY <1>r, <1>s, <1>d, <1>k, <2>1 DEF Shared, StarterOf, DeployPlaces
<1>12. CASE ConnectToNil(r) \/ NoId(r)
  <2>1. at'[r] = "done" /\ answer'[r] \in {"aborted", "silent"} /\ read' = read
    BY <1>t, <1>12 DEF ConnectToNil, NoId, Finish, parseVars
  <2> QED BY <1>r, <2>1 DEF Shared, StarterOf, DeployPlaces
<1>13. CASE Deploy(r)
  <2>1. /\ at[r] = "edge" /\ at'[r] = "done" /\ id[r] # "none"
        /\ UNCHANGED <<read, nodes, dag>>
        /\ starter' = [starter EXCEPT ![r] = [id |-> id[r], nodes |-> nodes[dag]]]
    BY <1>t, <1>13 DEF Deploy, Finish, parseVars
  <2>2. starter'[r].id = id[r] /\ starter'[r].nodes = nodes[dag]
    BY <1>t, <2>1
  <2>3. Has(job'[s], {"id"}) /\ starter'[r].id = Dashed[job'[s].id]
    BY <1>k, <2>1, <2>2
  <2>4. Unnamed \in DOMAIN starter'[r].nodes => DockerNear(r)'
    BY <1>d, <2>1, <2>2 DEF DeployPlaces
  <2> QED BY <1>r, <1>k, <2>1, <2>3, <2>4 DEF Shared, StarterOf, DeployPlaces
<1> QED BY <1>1, <1>2, <1>3, <1>4, <1>5, <1>6, <1>7, <1>8, <1>9, <1>10, <1>11, <1>12, <1>13 DEF DeployStep

LEMMA DeployShared ==
  ASSUME RequestTypes, RequestInv, ParserFine, NEW r \in Request, DeployStep(r), Kept, OthersStay(r),
         RequestTypes', RequestInv', \A q \in Request : SoloFine(q), SharedFine
  PROVE  SharedFine'
<1>1. ASSUME NEW q \in Request, q # r PROVE Shared(q)' /\ StarterOf(q)'
  <2>1. at'[q] = at[q] /\ job'[q] = job[q] /\ answer'[q] = answer[q]
    BY <1>1 DEF OthersStay
  <2>2. /\ source'[q] = source[q] /\ id'[q] = id[q] /\ todo'[q] = todo[q]
        /\ read'[q] = read[q] /\ starter'[q] = starter[q]
    BY <1>1, LocalsStay DEF ParserFine
  <2>3. Shared(q) /\ StarterOf(q)
    BY DEF SharedFine
  <2>4. read'[q] > 0 => read'[q] <= Len(job'[q].xml)
    BY <2>1, <2>2, <2>3 DEF Shared
  <2>5. at[q] \in {"idle", "new-map", "new-document"} => roots'[q] = << >> /\ doc' # q
    BY <1>1, DocumentShared
  <2>6. at[q] \in {"open", "elements", "process"} =>
          doc' # Nobody /\ \A i \in 1..Len(roots'[doc']) : roots'[doc'][i] \in Neighbours(q)'
    BY DocumentShared
  <2>7. at[q] \in DeployPlaces \ {"new-map"} /\ Unnamed \in DOMAIN nodes'[dag'] => DockerNear(q)'
    BY NodesShared
  <2> QED BY <2>1, <2>2, <2>3, <2>4, <2>5, <2>6, <2>7, SharedStay
<1>2. Shared(r)' /\ StarterOf(r)'
  BY SharedOwn
<1> QED BY <1>1, <1>2 DEF SharedFine

LEMMA UntouchedShared ==
  ASSUME RequestTypes, RequestInv, RequestInv', ParserFine, Kept, Untouched(Body), UNCHANGED deployVars,
         \A q \in Request : job'[q] \in Body => at'[q] = at[q],
         SharedFine
  PROVE  SharedFine'
<1> SUFFICES ASSUME NEW q \in Request PROVE Shared(q)' /\ StarterOf(q)'
  BY DEF SharedFine
<1>t. Shared(q) /\ StarterOf(q) /\ ParserInv
  BY DEF SharedFine, ParserFine
<1>1. read'[q] > 0 => read'[q] <= Len(job'[q].xml)
  BY <1>t, Kinds DEF Kept, Shared, ParserInv, deployVars
<1>2. CASE job'[q] \in Body
  <2>1. at'[q] = at[q] /\ job'[q] = job[q]
    BY <1>2 DEF Untouched
  <2>2. answer'[q] = answer[q]
    BY <2>1 DEF Kept, Ended
  <2>3. ASSUME at[q] \in {"open", "elements", "process"}
        PROVE  doc' # Nobody /\ \A i \in 1..Len(roots'[doc']) : roots'[doc'][i] \in Neighbours(q)'
    <3>1. ASSUME NEW i \in 1..Len(roots[doc]) PROVE roots[doc][i] \in Neighbours(q)'
      <4>1. PICK x : x = roots[doc][i]
        OBVIOUS
      <4>2. x \in Neighbours(q)
        BY <1>t, <2>3, <4>1 DEF Shared
      <4> QED BY <4>1, <4>2, NeighboursGrow
    <3> QED BY <1>t, <2>3, <3>1 DEF Shared, deployVars
  <2>4. ASSUME at[q] \in DeployPlaces \ {"new-map"}, Unnamed \in DOMAIN nodes'[dag']
        PROVE  DockerNear(q)'
    <3>1. DockerNear(q)
      BY <1>t, <2>4 DEF Shared, deployVars
    <3> QED BY <3>1, DockerKept
  <2>5. at[q] \in {"idle", "new-map", "new-document"} => roots'[q] = << >> /\ doc' # q
    BY <1>t DEF Shared, deployVars
  <2> QED BY <1>t, <1>1, <2>1, <2>2, <2>3, <2>4, <2>5, SharedStay DEF deployVars
<1>3. CASE job'[q] \notin Body
  <2>1. at'[q] \notin DeployPlaces
    BY <1>3 DEF RequestInv
  <2>2. at'[q] = "idle" => at[q] = "idle"
    BY DEF RequestInv, Kept
  <2>3. at'[q] = "idle" => roots'[q] = << >> /\ doc' # q
    BY <1>t, <2>2 DEF Shared, deployVars
  <2> QED BY <1>1, <1>3, <2>1, <2>3 DEF Shared, StarterOf, DeployPlaces
<1> QED BY <1>2, <1>3

LEMMA LostShared ==
  ASSUME RequestTypes, RequestInv, RequestInv', Kept, RequestsLost, DeployLost, SharedFine
  PROVE  SharedFine'
<1> SUFFICES ASSUME NEW q \in Request PROVE Shared(q)' /\ StarterOf(q)'
  BY DEF SharedFine
<1>1. /\ at'[q] \notin DeployPlaces /\ roots'[q] = << >> /\ doc' # q /\ read'[q] = 0
  BY DeployAssumption DEF RequestsLost, DeployLost, Active, DeployPlaces
<1>2. Shared(q)'
  <2>1. ~(read'[q] > 0)
    BY <1>1
  <2> QED BY <1>1, <2>1 DEF Shared, DeployPlaces
<1>3. ASSUME job'[q] \in Body, answer'[q] = "success"
      PROVE  /\ \E x \in Neighbours(q)' : Has(job'[x], {"id"}) /\ starter'[q].id = Dashed[job'[x].id]
             /\ Unnamed \in DOMAIN starter'[q].nodes => DockerNear(q)'
  <2>1. job[q] = job'[q] /\ answer[q] = "success" /\ starter' = starter
    BY <1>3 DEF RequestsLost, DeployLost
  <2>2. /\ \E x \in Neighbours(q) : Has(job[x], {"id"}) /\ starter[q].id = Dashed[job[x].id]
        /\ Unnamed \in DOMAIN starter[q].nodes => DockerNear(q)
    BY <1>3, <2>1 DEF SharedFine, StarterOf
  <2>3. PICK x \in Neighbours(q) : Has(job[x], {"id"}) /\ starter[q].id = Dashed[job[x].id]
    BY <2>2
  <2>4. x \in Neighbours(q)' /\ job'[x] = job[x]
    BY NeighboursGrow
  <2> QED BY <2>1, <2>2, <2>3, <2>4, DockerKept
<1> QED BY <1>2, <1>3 DEF StarterOf

LEMMA InitShared ==
  ASSUME Init
  PROVE  SharedFine
<1> SUFFICES ASSUME NEW q \in Request PROVE Shared(q) /\ StarterOf(q)
  BY DEF SharedFine
<1>1. /\ at[q] = "idle" /\ answer[q] = "none" /\ roots[q] = << >> /\ doc = Nobody /\ read[q] = 0
  BY DEF Init, RequestsInit, DeployInit
<1>2. ~(read[q] > 0) /\ doc # q
  BY <1>1, DeployAssumption
<1> QED BY <1>1, <1>2 DEF Shared, StarterOf, DeployPlaces

-----------------------------------------------------------------------------
(* Saves *)

SavesFine == SaveTypeOK /\ SaveInv /\ BucketBeforeObject /\ RefusedOnlyByRace /\ NewestSaveStored

\* All that is said of the save q.
SaveFine(q) ==
  LET o == job[q].org IN
    /\ at[q] = "make" /\ HasBucket(o) => Together(q, buckets[o])
    /\ at[q] = "respond" => StoredSince(q)
    /\ at[q] \in {"put", "put-again", "respond"} => HasBucket(o)
    /\ answer[q] = "silent" /\ job[q].flaw = "none" /\ q \notin hit
         => HasBucket(o) /\ Together(q, buckets[o])
    /\ answer[q] = "success" => StoredSince(q)

AllSaves == {q \in Request : job[q] \in Save}

LEMMA SavesOneByOne ==
  ASSUME RequestTypes, RequestInv
  PROVE  SavesFine <=> SaveTypeOK /\ \A q \in AllSaves : SaveFine(q)
<1>1. \A q \in AllSaves : job[q].org \in Org
  BY SaveAssumption DEF AllSaves
<1>2. \A q \in Request : at[q] \in {"make", "put", "put-again", "respond"} => q \in AllSaves
  BY DEF RequestInv, SavePlaces, AllSaves
<1>3. ASSUME SavesFine, NEW q \in AllSaves PROVE SaveFine(q)
  <2>1. q \in Saves(job[q].org) /\ q \in Request
    BY DEF Saves, AllSaves
  <2>2. NewestSaveStored => (answer[q] = "success" => StoredSince(q))
    BY <1>1, <2>1 DEF NewestSaveStored, StoredSince
  <2>3. RefusedOnlyByRace =>
          (answer[q] = "silent" /\ job[q].flaw = "none" /\ q \notin hit
             => HasBucket(job[q].org) /\ Together(q, buckets[job[q].org]))
    BY <1>1, <2>1 DEF RefusedOnlyByRace
  <2> QED BY <1>3, <2>1, <2>2, <2>3 DEF SavesFine, SaveInv, BucketBeforeObject, SaveFine
<1>4. ASSUME SaveTypeOK, \A q \in AllSaves : SaveFine(q) PROVE SavesFine
  <2>1. SaveInv /\ BucketBeforeObject
    BY <1>2, <1>4 DEF SaveInv, BucketBeforeObject, SaveFine
  <2>2. \A o \in Org : \A q \in Saves(o) : q \in AllSaves /\ job[q].org = o
    BY DEF Saves, AllSaves
  <2>3. RefusedOnlyByRace
    BY <1>4, <2>2 DEF RefusedOnlyByRace, SaveFine
  <2>4. NewestSaveStored
    BY <1>4, <2>2 DEF NewestSaveStored, SaveFine, StoredSince
  <2> QED BY <1>4, <2>1, <2>3, <2>4 DEF SavesFine
<1> QED BY <1>3, <1>4 DEF SavesFine

\* What is said of a save holds while its request stays, or is lost, and others
\* make buckets and store objects.
LEMMA SaveFrame ==
  ASSUME RequestTypes, RequestInv, RequestTypes', Kept, SaveTypeOK,
         NEW q \in AllSaves, SaveFine(q),
         at'[q] = at[q] \/ at'[q] = "done",
         answer'[q] = answer[q] \/ answer'[q] = "lost",
         NEW r \in Request,
         \A o \in Org : \/ buckets'[o] = buckets[o]
                        \/ buckets[o] = NoRequest /\ buckets'[o] = r /\ at[r] = "make" /\ r # q,
         \A o \in Org, p \in Project : \/ objects'[o][p] = objects[o][p]
                                       \/ objects'[o][p] = r /\ Active(r)
  PROVE  SaveFine(q)'
<1>0. PICK o \in Org, p \in Project : job[q].org = o /\ job[q].project = p
  BY SaveAssumption DEF AllSaves
<1>1. /\ q \in Request /\ o \in Org /\ p \in Project
      /\ job'[q] = job[q] /\ before'[q] = before[q] /\ hit \subseteq hit'
  BY <1>0, Kinds DEF AllSaves, Kept
<1>2. StoredSince(q) => StoredSince(q)'
  <2>1. ASSUME Active(r) PROVE r \notin before[q] /\ r # NoRequest
    BY <1>1, <2>1, SaveAssumption DEF Active, RequestInv, Ended
  <2> QED BY <1>0, <1>1, <2>1 DEF StoredSince
<1>3. HasBucket(o) => HasBucket(o)' /\ buckets'[o] = buckets[o]
  BY <1>1 DEF HasBucket
<1>4. HasBucket(o)' /\ ~HasBucket(o) => buckets'[o] = r /\ at[r] = "make" /\ r # q
  BY <1>1 DEF HasBucket
<1>5. HasBucket(o) /\ Together(q, buckets[o]) => Together(q, buckets[o])'
  <2>1. SUFFICES ASSUME HasBucket(o), Together(q, buckets[o])
                 PROVE  Together(q, buckets[o])'
    OBVIOUS
  <2>2. PICK x \in Request : buckets[o] = x
    BY <1>1, <2>1 DEF SaveTypeOK, HasBucket
  <2>3. buckets'[o] = x /\ Together(q, x)
    BY <1>3, <2>1, <2>2
  <2>4. Together(q, x)'
    BY <1>1, <2>3, TogetherKept
  <2> QED BY <2>3, <2>4 DEF Together
<1>6. at[q] = "make" /\ HasBucket(o)' => Together(q, buckets[o])'
  <2>1. CASE HasBucket(o)
    BY <1>0, <1>5, <2>1 DEF SaveFine
  <2>2. CASE at[q] = "make" /\ HasBucket(o)' /\ ~HasBucket(o)
    <3>1. buckets'[o] = r /\ at[r] = "make" /\ r # q
      BY <1>4, <2>2
    <3>2. Together(q, r)
      BY <1>1, <2>2, <3>1, TogetherActive DEF Active
    <3>3. Together(q, r)'
      BY <1>1, <3>2, TogetherKept
    <3> QED BY <3>1, <3>3 DEF Together
  <2> QED BY <2>1, <2>2
<1>7. /\ at[q] = "respond" => StoredSince(q)
      /\ at[q] \in {"put", "put-again", "respond"} => HasBucket(o)
      /\ answer[q] = "silent" /\ job[q].flaw = "none" /\ q \notin hit
           => HasBucket(o) /\ Together(q, buckets[o])
      /\ answer[q] = "success" => StoredSince(q)
  BY <1>0 DEF SaveFine
<1>8. /\ at'[q] = "make" /\ HasBucket(o)' => Together(q, buckets[o])'
      /\ at'[q] = "respond" => StoredSince(q)'
      /\ at'[q] \in {"put", "put-again", "respond"} => HasBucket(o)'
      /\ answer'[q] = "silent" /\ job'[q].flaw = "none" /\ q \notin hit'
           => HasBucket(o)' /\ Together(q, buckets[o])'
      /\ answer'[q] = "success" => StoredSince(q)'
  BY <1>1, <1>2, <1>3, <1>5, <1>6, <1>7
<1>9. job'[q].org = o
  BY <1>0, <1>1
<1> QED BY <1>8, <1>9 DEF SaveFine, HasBucket, Together, StoredSince

LEMMA SavesImplied ==
  RequestTypes /\ RequestInv /\ SaveTypeOK /\ (\A q \in AllSaves : SaveFine(q)) => SavesFine
BY SavesOneByOne

\* The same of the state after a step.
LEMMA SavesNext ==
  (RequestTypes /\ RequestInv /\ SaveTypeOK /\ (\A q \in AllSaves : SaveFine(q)) => SavesFine)'
BY SavesImplied, PTL

LEMMA SaveKeeps ==
  ASSUME RequestTypes, RequestInv, RequestTypes', RequestInv', SavesFine,
         NEW r \in Request, Kept, OthersStay(r), job'[r] \in Save, SaveStep(r)
  PROVE  SavesFine'
<1>t. /\ job \in [Request -> Body \cup Save \cup Call \cup {NoJob}]
      /\ at \in [Request -> Places \cup {"idle", "done"}]
      /\ answer \in [Request -> Answers]
      /\ buckets \in [Org -> Request \cup {NoRequest}]
      /\ objects \in [Org -> [Project -> Request \cup {NoRequest}]]
      /\ r # NoRequest
  BY SaveAssumption DEF RequestTypes, RequestsTypeOK, SavesFine, SaveTypeOK
<1>f. SaveTypeOK /\ \A q \in AllSaves : SaveFine(q)
  BY SavesOneByOne
<1>p. PICK o \in Org, p \in Project : job'[r].org = o /\ job'[r].project = p
  BY SaveAssumption
\* What the step says of r itself, and writes.
<1> DEFINE Own ==
      /\ at'[r] = "make" /\ HasBucket(o)' => Together(r, buckets[o])'
      /\ at'[r] = "respond" => StoredSince(r)'
      /\ at'[r] \in {"put", "put-again", "respond"} => HasBucket(o)'
      /\ answer'[r] = "silent" /\ job'[r].flaw = "none" /\ r \notin hit'
           => HasBucket(o)' /\ Together(r, buckets[o])'
      /\ answer'[r] = "success" => StoredSince(r)'
           Writes ==
      /\ buckets' = buckets \/ (~HasBucket(o) /\ at[r] = "make" /\ buckets' = [buckets EXCEPT ![o] = r])
      /\ objects' = objects \/ (Active(r) /\ objects' = [objects EXCEPT ![o][p] = r])
<1>1. SUFFICES Own /\ Writes
  <2>1. /\ \A x \in Org : \/ buckets'[x] = buckets[x]
                          \/ buckets[x] = NoRequest /\ buckets'[x] = r /\ at[r] = "make"
        /\ \A x \in Org, y \in Project : \/ objects'[x][y] = objects[x][y]
                                         \/ objects'[x][y] = r /\ Active(r)
        /\ SaveTypeOK'
    <3>1. Writes
      BY <1>1
    <3>2. \A x \in Org : \/ buckets'[x] = buckets[x]
                         \/ buckets[x] = NoRequest /\ buckets'[x] = r /\ at[r] = "make"
      BY <1>t, <3>1 DEF HasBucket
    <3>3. \A x \in Org, y \in Project : \/ objects'[x][y] = objects[x][y]
                                        \/ objects'[x][y] = r /\ Active(r)
      BY <1>t, <3>1
    <3>4. SaveTypeOK'
      <4>1. objects[o] \in [Project -> Request \cup {NoRequest}]
        BY <1>t
      <4>2. [objects[o] EXCEPT ![p] = r] \in [Project -> Request \cup {NoRequest}]
        BY <4>1
      <4>3. [objects EXCEPT ![o][p] = r] = [objects EXCEPT ![o] = [objects[o] EXCEPT ![p] = r]]
        BY <1>t
      <4>4. [objects EXCEPT ![o][p] = r] \in [Org -> [Project -> Request \cup {NoRequest}]]
        BY <1>t, <4>2, <4>3
      <4>5. [buckets EXCEPT ![o] = r] \in [Org -> Request \cup {NoRequest}]
        BY <1>t
      <4> QED BY <1>t, <3>1, <4>4, <4>5 DEF SaveTypeOK
    <3> QED BY <3>2, <3>3, <3>4
  <2>2. ASSUME NEW q \in AllSaves', q # r PROVE SaveFine(q)'
    <3>1. job'[q] = job[q] /\ at'[q] = at[q] /\ answer'[q] = answer[q]
      BY <2>2 DEF OthersStay, AllSaves
    <3>2. q \in AllSaves /\ SaveFine(q)
      BY <1>f, <3>1 DEF AllSaves
    <3> HIDE DEF Own, Writes
    <3> QED BY <1>f, <2>1, <2>2, <3>1, <3>2, SaveFrame
  <2>3. SaveFine(r)'
    <3>1. Own
      BY <1>1
    <3> QED BY <1>p, <3>1 DEF SaveFine, HasBucket, Together
  <2>4. SaveTypeOK' /\ \A q \in AllSaves' : SaveFine(q)'
    BY <2>1, <2>2, <2>3
  <2> HIDE DEF Own, Writes
  <2> QED BY <2>4, SavesNext
<1>2. CASE ReceiveSave(r)
  <2>1. /\ UNCHANGED saveVars /\ at'[r] \in {"bucket", "done"}
        /\ answer'[r] = answer[r] \/ (answer'[r] = "silent" /\ job'[r].flaw = "request")
        /\ at[r] = "idle"
    BY <1>t, <1>2 DEF ReceiveSave, Receive, Begin
  <2>2. answer[r] = "none"
    BY <1>t, <2>1 DEF RequestInv, Ended
  <2> QED BY <2>1, <2>2 DEF saveVars
<1>3. ASSUME at[r] \in SavePlaces
      PROVE  /\ Active(r) /\ job'[r] = job[r] /\ job[r].org = o /\ job[r].project = p
             /\ answer[r] = "none" /\ r \in AllSaves /\ SaveFine(r)
             /\ r \notin before[r] /\ before'[r] = before[r]
  <2>1. Active(r) /\ job[r] # NoJob /\ job[r] \in Save
    BY <1>3, PlaceFacts DEF Places
  <2> QED BY <1>f, <1>p, <2>1 DEF Kept, RequestInv, Active, Ended, AllSaves
<1>4. CASE CheckBucket(r)
  <2>1. at[r] = "bucket" /\ UNCHANGED saveVars
    BY <1>4 DEF CheckBucket
  <2>2. CASE at'[r] = "done" /\ answer'[r] = "silent" /\ job'[r].flaw = "name"
    BY <2>1, <2>2 DEF saveVars
  <2>3. CASE at'[r] = (IF HasBucket(o) THEN "put" ELSE "make") /\ answer'[r] = "none"
    BY <2>1, <2>3 DEF saveVars, HasBucket
  <2> QED BY <1>t, <1>3, <1>4, <2>1, <2>2, <2>3 DEF CheckBucket, Finish, GoTo, SavePlaces
<1>5. CASE MakeBucket(r)
  <2>1. at[r] = "make" /\ objects' = objects
    BY <1>5 DEF MakeBucket
  <2>2. CASE /\ ~HasBucket(o) /\ buckets' = [buckets EXCEPT ![o] = r]
             /\ \/ at'[r] = "put" /\ answer'[r] = "none"
                \/ at'[r] = "done" /\ answer'[r] = "silent" /\ r \in hit'
    BY <1>t, <2>1, <2>2 DEF HasBucket
  <2>3. CASE HasBucket(o) /\ at'[r] = "done" /\ answer'[r] = "silent" /\ buckets' = buckets
    <3>1. Together(r, buckets[o])
      BY <1>3, <2>1, <2>3 DEF SaveFine, SavePlaces
    <3>2. PICK x \in Request : buckets[o] = x
      BY <1>t, <2>3 DEF HasBucket
    <3>3. Together(r, x)'
      BY <3>1, <3>2, TogetherKept
    <3>4. Together(r, buckets[o])'
      BY <2>3, <3>2, <3>3 DEF Together
    <3> QED BY <2>1, <2>3, <3>4 DEF HasBucket
  <2> QED BY <1>t, <1>3, <1>5, <2>1, <2>2, <2>3 DEF MakeBucket, Made, Fault, Finish, GoTo, SavePlaces
<1>6. CASE PutObject(r)
  <2>1. at[r] \in {"put", "put-again"} /\ buckets' = buckets
    BY <1>6 DEF PutObject
  <2>2. HasBucket(o) /\ HasBucket(o)'
    BY <1>3, <2>1 DEF SaveFine, SavePlaces, HasBucket
  <2>3. objects' = [objects EXCEPT ![o][p] = r] /\ Active(r)
    BY <1>3, <1>6, <2>1, <2>2 DEF PutObject, SavePlaces
  <2>4. StoredSince(r)'
    BY <1>t, <1>p, <1>3, <2>1, <2>3 DEF StoredSince, SavePlaces
  <2>5. \/ at'[r] \in {"respond", "put-again"} /\ answer'[r] = "none"
        \/ at'[r] = "done" /\ answer'[r] = "silent" /\ r \in hit'
    BY <1>t, <1>3, <1>6, <2>1, <2>2 DEF PutObject, Fault, GoTo, SavePlaces
  <2> QED BY <2>1, <2>2, <2>3, <2>4, <2>5
<1>7. CASE Respond(r)
  <2>1. at[r] = "respond" /\ UNCHANGED saveVars /\ at'[r] = "done" /\ answer'[r] = "success"
    BY <1>t, <1>7 DEF Respond, Finish
  <2>2. StoredSince(r)
    BY <1>3, <2>1 DEF SaveFine, SavePlaces
  <2>3. StoredSince(r)'
    BY <1>3, <2>1, <2>2 DEF StoredSince, SavePlaces, saveVars
  <2> QED BY <2>1, <2>3 DEF saveVars
<1>8. CASE MinioFails(r)
  <2>1. UNCHANGED saveVars /\ at'[r] = "done" /\ answer'[r] = "silent" /\ r \in hit'
    BY <1>t, <1>8 DEF MinioFails, Fault
  <2> QED BY <2>1 DEF saveVars
<1> HIDE DEF Own, Writes
<1> QED BY <1>2, <1>4, <1>5, <1>6, <1>7, <1>8 DEF SaveStep

\* The save that made a bucket, or stored an object, is not refused afterwards.
LEMMA GoesOnKept ==
  ASSUME RequestInv, Kept, NEW o, NEW places, NEW x \in Request, GoesOn(x, o, places),
         at[x] \in places =>
           at'[x] \in places \/ answer'[x] \in {"success", "lost"} \/ x \in hit'
  PROVE  GoesOn(x, o, places)'
<1>1. x \in Saves(o)' /\ job'[x].flaw = "none"
  BY Kinds DEF GoesOn, Saves, Kept
<1>2. answer[x] \in {"success", "lost"} => answer'[x] = answer[x]
  BY DEF RequestInv, Kept
<1>3. x \in hit => x \in hit'
  BY DEF Kept
<1> QED BY <1>1, <1>2, <1>3 DEF GoesOn

LEMMA WinnersUntouched ==
  ASSUME RequestInv, Kept, SaveTypeOK, WinnerInv, Untouched(Save), UNCHANGED saveVars
  PROVE  WinnerInv'
<1>1. ASSUME NEW o \in Org, NEW x \in Request, NEW places, GoesOn(x, o, places)
      PROVE  GoesOn(x, o, places)'
  <2>1. job'[x] \in Save
    BY <1>1, Kinds DEF GoesOn, Saves, Kept
  <2>2. at[x] \in places => at'[x] \in places \/ answer'[x] \in {"success", "lost"} \/ x \in hit'
    BY <2>1 DEF Untouched
  <2> QED BY <1>1, <2>2, GoesOnKept
<1>2. ASSUME NEW o \in Org
      PROVE  /\ \A q \in Saves(o)' :
                  /\ at'[q] \in {"make", "put", "put-again", "respond"} => job'[q].flaw = "none"
                  /\ Ended(q)' => answer'[q] \in {"success", "silent", "lost"}
             /\ HasBucket(o)' => GoesOn(buckets[o], o, {"put", "put-again", "respond"})'
             /\ \A p \in Project : objects'[o][p] # NoRequest => GoesOn(objects[o][p], o, {"put-again", "respond"})'
  <2>1. ASSUME NEW q \in Saves(o)'
        PROVE  /\ at'[q] \in {"make", "put", "put-again", "respond"} => job'[q].flaw = "none"
               /\ Ended(q)' => answer'[q] \in {"success", "silent", "lost"}
    BY DEF WinnerInv, Untouched, Saves, Ended
  <2>2. ASSUME HasBucket(o)' PROVE GoesOn(buckets[o], o, {"put", "put-again", "respond"})'
    <3>1. PICK x \in Request : buckets[o] = x /\ buckets'[o] = x
      BY <2>2 DEF HasBucket, SaveTypeOK, saveVars
    <3>2. GoesOn(x, o, {"put", "put-again", "respond"})
      BY <2>2, <3>1 DEF WinnerInv, HasBucket
    <3>3. GoesOn(x, o, {"put", "put-again", "respond"})'
      BY <1>1, <3>2
    <3> QED BY <3>1, <3>3
  <2>3. ASSUME NEW p \in Project, objects'[o][p] # NoRequest
        PROVE  GoesOn(objects[o][p], o, {"put-again", "respond"})'
    <3>1. PICK x \in Request : objects[o][p] = x /\ objects'[o][p] = x
      BY <2>3 DEF SaveTypeOK, saveVars
    <3>2. GoesOn(x, o, {"put-again", "respond"})
      BY <2>3, <3>1 DEF WinnerInv, saveVars
    <3>3. GoesOn(x, o, {"put-again", "respond"})'
      BY <1>1, <3>2
    <3> QED BY <3>1, <3>3
  <2> QED BY <2>1, <2>2, <2>3
<1> QED BY <1>2 DEF WinnerInv, HasBucket

LEMMA WinnersKeep ==
  ASSUME RequestTypes, RequestInv, RequestInv', SavesFine, WinnerInv,
         NEW r \in Request, Kept, OthersStay(r), job'[r] \in Save, SaveStep(r)
  PROVE  WinnerInv'
<1>t. /\ job \in [Request -> Body \cup Save \cup Call \cup {NoJob}]
      /\ at \in [Request -> Places \cup {"idle", "done"}]
      /\ answer \in [Request -> Answers]
      /\ buckets \in [Org -> Request \cup {NoRequest}]
      /\ objects \in [Org -> [Project -> Request \cup {NoRequest}]]
      /\ r # NoRequest
  BY SaveAssumption DEF RequestTypes, RequestsTypeOK, SavesFine, SaveTypeOK
<1>p. PICK o \in Org, p \in Project : job'[r].org = o /\ job'[r].project = p
  BY SaveAssumption
<1>1. ASSUME at[r] \in SavePlaces
      PROVE  /\ job'[r] = job[r] /\ job[r].org = o /\ job[r].project = p /\ r \in Saves(o) /\ r \in Saves(o)'
             /\ at[r] \in {"make", "put", "put-again", "respond"} => job[r].flaw = "none"
             /\ at[r] \in {"put", "put-again", "respond"} => HasBucket(o)
  <2>1. job[r] # NoJob /\ job[r] \in Save
    BY <1>1, PlaceFacts DEF Places
  <2>2. job'[r] = job[r]
    BY <2>1 DEF Kept
  <2> QED BY <1>p, <2>1, <2>2 DEF Saves, WinnerInv, SavesFine, BucketBeforeObject
\* Where the step leads r, and what it writes.
<1>2. /\ at'[r] \in {"make", "put", "put-again", "respond"} => job'[r].flaw = "none"
      /\ Ended(r)' => answer'[r] \in {"success", "silent", "lost"}
      /\ at[r] \in {"put", "put-again"} => at'[r] \in {"put-again", "respond"} \/ r \in hit'
      /\ at[r] = "respond" => answer'[r] = "success"
      /\ \/ buckets' = buckets
         \/ /\ at[r] = "make" /\ buckets' = [buckets EXCEPT ![o] = r]
            /\ at'[r] = "put" \/ r \in hit'
      /\ \/ objects' = objects
         \/ /\ at[r] \in {"put", "put-again"} /\ objects' = [objects EXCEPT ![o][p] = r]
            /\ at'[r] \in {"put-again", "respond"} \/ r \in hit'
  <2>1. CASE ReceiveSave(r)
    <3>1. PICK j \in Save : Receive(r, j, j.flaw = "request", "bucket")
      BY <2>1 DEF ReceiveSave
    <3>2. /\ at[r] = "idle" /\ at'[r] \in {"bucket", "done"}
          /\ at'[r] = "done" => answer'[r] = "silent"
      BY <1>t, <3>1 DEF Receive, Begin
    <3> QED BY <2>1, <3>2 DEF ReceiveSave, saveVars, Ended
  <2>2. CASE CheckBucket(r)
    <3>1. at[r] = "bucket" /\ UNCHANGED saveVars
      BY <2>2 DEF CheckBucket
    <3>2. \/ at'[r] = "done" /\ answer'[r] = "silent"
          \/ at'[r] \in {"put", "make"} /\ job'[r].flaw = "none"
      BY <1>t, <1>1, <2>2, <3>1 DEF CheckBucket, Finish, GoTo, SavePlaces
    <3> QED BY <3>1, <3>2 DEF saveVars, Ended
  <2>3. CASE MakeBucket(r)
    <3>1. at[r] = "make" /\ objects' = objects /\ job'[r].flaw = "none"
      BY <1>1, <2>3 DEF MakeBucket, SavePlaces
    <3>2. \/ /\ buckets' = [buckets EXCEPT ![o] = r]
             /\ at'[r] = "put" \/ (at'[r] = "done" /\ answer'[r] = "silent" /\ r \in hit')
          \/ buckets' = buckets /\ at'[r] = "done" /\ answer'[r] = "silent"
      BY <1>t, <1>1, <2>3, <3>1 DEF MakeBucket, Made, GoTo, Fault, Finish, SavePlaces
    <3> QED BY <3>1, <3>2 DEF Ended
  <2>4. CASE PutObject(r)
    <3>1. at[r] \in {"put", "put-again"} /\ buckets' = buckets /\ job'[r].flaw = "none" /\ HasBucket(o)
      BY <1>1, <2>4 DEF PutObject, SavePlaces
    <3>2. /\ objects' = [objects EXCEPT ![o][p] = r]
          /\ at'[r] \in {"put-again", "respond"} \/ (at'[r] = "done" /\ answer'[r] = "silent" /\ r \in hit')
      BY <1>t, <1>1, <2>4, <3>1 DEF PutObject, GoTo, Fault, Finish, SavePlaces
    <3> QED BY <3>1, <3>2 DEF Ended
  <2>5. CASE Respond(r)
    <3>1. at[r] = "respond" /\ UNCHANGED saveVars /\ at'[r] = "done" /\ answer'[r] = "success"
      BY <1>t, <2>5 DEF Respond, Finish
    <3> QED BY <3>1 DEF saveVars, Ended
  <2>6. CASE MinioFails(r)
    <3>1. /\ at[r] \in {"bucket", "make", "put", "put-again"} /\ UNCHANGED saveVars
          /\ at'[r] = "done" /\ answer'[r] = "silent" /\ r \in hit'
      BY <1>t, <2>6 DEF MinioFails, Fault
    <3> QED BY <3>1 DEF saveVars, Ended
  <2> QED BY <2>1, <2>2, <2>3, <2>4, <2>5, <2>6 DEF SaveStep
<1>3. ASSUME NEW y \in Org, NEW x \in Request, NEW places \in {{"put", "put-again", "respond"}, {"put-again", "respond"}},
             GoesOn(x, y, places)
      PROVE  GoesOn(x, y, places)'
  <2>1. at[x] \in places => at'[x] \in places \/ answer'[x] \in {"success", "lost"} \/ x \in hit'
    BY <1>2, <1>3 DEF OthersStay
  <2> QED BY <1>3, <2>1, GoesOnKept
<1>4. ASSUME NEW y \in Org
      PROVE  /\ \A q \in Saves(y)' :
                  /\ at'[q] \in {"make", "put", "put-again", "respond"} => job'[q].flaw = "none"
                  /\ Ended(q)' => answer'[q] \in {"success", "silent", "lost"}
             /\ HasBucket(y)' => GoesOn(buckets[y], y, {"put", "put-again", "respond"})'
             /\ \A z \in Project : objects'[y][z] # NoRequest => GoesOn(objects[y][z], y, {"put-again", "respond"})'
  <2>1. ASSUME NEW q \in Saves(y)'
        PROVE  /\ at'[q] \in {"make", "put", "put-again", "respond"} => job'[q].flaw = "none"
               /\ Ended(q)' => answer'[q] \in {"success", "silent", "lost"}
    BY <1>2 DEF WinnerInv, OthersStay, Saves, Ended
  <2>2. ASSUME HasBucket(y)' PROVE GoesOn(buckets[y], y, {"put", "put-again", "respond"})'
    <3>1. CASE buckets'[y] = buckets[y]
      <4>1. PICK x \in Request : buckets[y] = x /\ buckets'[y] = x
        BY <1>t, <2>2, <3>1 DEF HasBucket
      <4>2. GoesOn(x, y, {"put", "put-again", "respond"})
        BY <2>2, <4>1 DEF WinnerInv, HasBucket
      <4>3. GoesOn(x, y, {"put", "put-again", "respond"})'
        BY <1>3, <4>2
      <4> QED BY <4>1, <4>3
    <3>2. CASE buckets'[y] # buckets[y]
      <4>1. y = o /\ buckets'[y] = r /\ at[r] = "make" /\ (at'[r] = "put" \/ r \in hit')
        BY <1>t, <1>2, <3>2
      <4>2. r \in Saves(y)' /\ job'[r].flaw = "none"
        BY <1>1, <4>1 DEF SavePlaces
      <4>3. GoesOn(r, y, {"put", "put-again", "respond"})'
        BY <4>1, <4>2 DEF GoesOn
      <4> QED BY <4>1, <4>3
    <3> QED BY <3>1, <3>2
  <2>3. ASSUME NEW z \in Project, objects'[y][z] # NoRequest
        PROVE  GoesOn(objects[y][z], y, {"put-again", "respond"})'
    <3>1. CASE objects'[y][z] = objects[y][z]
      <4>1. PICK x \in Request : objects[y][z] = x /\ objects'[y][z] = x
        BY <1>t, <2>3, <3>1
      <4>2. GoesOn(x, y, {"put-again", "respond"})
        BY <2>3, <4>1 DEF WinnerInv
      <4>3. GoesOn(x, y, {"put-again", "respond"})'
        BY <1>3, <4>2
      <4> QED BY <4>1, <4>3
    <3>2. CASE objects'[y][z] # objects[y][z]
      <4>1. /\ y = o /\ objects'[y][z] = r /\ at[r] \in {"put", "put-again"}
            /\ at'[r] \in {"put-again", "respond"} \/ r \in hit'
        BY <1>t, <1>2, <3>2
      <4>2. r \in Saves(y)' /\ job'[r].flaw = "none"
        BY <1>1, <4>1 DEF SavePlaces
      <4>3. GoesOn(r, y, {"put-again", "respond"})'
        BY <4>1, <4>2 DEF GoesOn
      <4> QED BY <4>1, <4>3
    <3> QED BY <3>1, <3>2
  <2> QED BY <2>1, <2>2, <2>3
<1> QED BY <1>4 DEF WinnerInv, HasBucket

\* If all valid saves have ended unhindered, the one that made the bucket succeeded,
\* and so did the one whose object is stored for its project.
LEMMA WinnerStored ==
  ASSUME RequestInv, SavesFine, WinnerInv
  PROVE  SomeSaveStored
<1> SUFFICES ASSUME NEW o \in Org,
                    NEW valid, valid = {r \in Saves(o) : job[r].flaw = "none"}, valid # {},
                    \A r \in valid : Ended(r) /\ r \notin hit /\ answer[r] # "lost"
             PROVE  \E r \in valid : answer[r] = "success" /\ \E p \in Project : objects[o][p] = r
  BY DEF SomeSaveStored
<1>1. ASSUME NEW x, NEW places \in {{"put", "put-again", "respond"}, {"put-again", "respond"}}, GoesOn(x, o, places)
      PROVE  x \in valid /\ answer[x] = "success"
  <2>1. x \in valid
    BY <1>1 DEF GoesOn
  <2>2. at[x] = "done" /\ x \notin hit /\ answer[x] # "lost"
    BY <2>1 DEF Ended
  <2> QED BY <1>1, <2>1, <2>2 DEF GoesOn
<1>2. \E r \in valid : answer[r] = "success"
  <2>1. PICK r \in valid : TRUE
    OBVIOUS
  <2>2. r \in Saves(o) /\ answer[r] \in {"success", "silent"}
    BY DEF WinnerInv
  <2>3. answer[r] = "silent" => HasBucket(o)
    BY <2>2 DEF SavesFine, RefusedOnlyByRace
  <2>4. HasBucket(o) => GoesOn(buckets[o], o, {"put", "put-again", "respond"})
    BY DEF WinnerInv
  <2> QED BY <1>1, <2>2, <2>3, <2>4
<1>3. PICK r \in valid : answer[r] = "success"
  BY <1>2
<1>4. r \in Saves(o) /\ job[r].project \in Project
  BY SaveAssumption DEF Saves
<1>5. objects[o][job[r].project] # NoRequest
  BY <1>3, <1>4 DEF SavesFine, NewestSaveStored
<1>6. GoesOn(objects[o][job[r].project], o, {"put-again", "respond"})
  BY <1>4, <1>5 DEF WinnerInv
<1> QED BY <1>1, <1>4, <1>6

-----------------------------------------------------------------------------
(* Calls of the adapters *)

AdaptersFine == AdapterTypeOK /\ OpInv /\ AdapterInv /\ AnswersTrue

\* All that is said of the calls for the name n.
AdapterFine(n) ==
  /\ \A q \in Calls(n) : Undisputed(q, n) =>
       /\ at[q] = "create-service" => n \in deployments
       /\ at[q] = "delete-service" => n \notin deployments
       /\ answer[q] = "success"
            => IF job[q].op = "create" THEN n \in deployments /\ ServiceName(n) \in services
                                       ELSE n \notin deployments /\ ServiceName(n) \notin services
  /\ Calm(n) =>
       /\ \A q \in Calls(n) :
            /\ at[q] = "create-service" => n \in deployments /\ ServiceName(n) \notin services
            /\ at[q] = "delete-service" => n \notin deployments /\ ServiceName(n) \in services
       /\ \/ \E q \in Calls(n) : at[q] \in {"create-service", "delete-service"}
          \/ n \in deployments <=> ServiceName(n) \in services

LEMMA NamesOneByOne ==
  AdapterInv /\ AnswersTrue <=> \A n \in Name : AdapterFine(n)
<1>1. ASSUME AdapterInv, AnswersTrue, NEW n \in Name PROVE AdapterFine(n)
  BY <1>1 DEF AdapterInv, AnswersTrue, AdapterFine, Undisputed
<1>2. ASSUME \A n \in Name : AdapterFine(n) PROVE AdapterInv /\ AnswersTrue
  <2>1. AdapterInv
    BY <1>2 DEF AdapterInv, AdapterFine
  <2>2. AnswersTrue
    BY <1>2 DEF AnswersTrue, AdapterFine, Undisputed
  <2> QED BY <2>1, <2>2
<1> QED BY <1>1, <1>2

LEMMA NamesNext ==
  (AdapterInv /\ AnswersTrue <=> \A n \in Name : AdapterFine(n))'
BY NamesOneByOne, PTL

LEMMA CallsGrow ==
  ASSUME Kept, NEW n
  PROVE  Calls(n) \subseteq Calls(n)'
BY Kinds DEF Calls, Kept

\* What has disturbed a call has done so for good.
LEMMA DisturbedKept ==
  ASSUME RequestInv, Kept, NEW n, NEW q \in Calls(n), Disturbed(q, n)
  PROVE  Disturbed(q, n)'
<1>1. q \in Request
  BY DEF Calls
<1>2. CASE q \in hit
  BY <1>2 DEF Kept, Disturbed
<1>3. CASE answer[q] \in {"lost", "aborted"}
  <2>1. answer'[q] = answer[q]
    BY <1>1, <1>3 DEF RequestInv, Kept
  <2> QED BY <1>3, <2>1 DEF Disturbed
<1>4. CASE ~Alone(q, Calls(n))
  <2>1. PICK x \in Calls(n) : Together(q, x)
    BY <1>4 DEF Alone
  <2>2. x \in Calls(n)' /\ Together(q, x)'
    BY <1>1, <2>1, TogetherKept, CallsGrow DEF Calls
  <2>3. ~Alone(q, Calls(n))'
    BY <2>2 DEF Alone
  <2> QED BY <2>3 DEF Disturbed
<1> QED BY <1>2, <1>3, <1>4 DEF Disturbed

LEMMA CalmBefore ==
  ASSUME RequestInv, Kept, NEW n, Calm(n)'
  PROVE  Calm(n)
BY DisturbedKept, CallsGrow DEF Calm

\* What is said of a name holds while nothing happens to it and to its calls.
LEMMA AdapterFrame ==
  ASSUME RequestTypes, RequestInv, Kept, NEW n \in Name, AdapterFine(n),
         n \in deployments' <=> n \in deployments,
         ServiceName(n) \in services' <=> ServiceName(n) \in services,
         \A q \in Calls(n)' :
           /\ q \in Calls(n) /\ job'[q] = job[q]
           /\ at'[q] = at[q] \/ (at'[q] = "done" /\ answer'[q] = "lost")
           /\ answer'[q] = answer[q] \/ answer'[q] = "lost"
  PROVE  AdapterFine(n)'
<1>1. Calls(n)' = Calls(n)
  BY CallsGrow
<1>2. \A q \in Calls(n) : Undisputed(q, n)' <=> Undisputed(q, n)
  <2>1. \A q \in Calls(n) : q \in Request /\ job[q] # NoJob
    BY Kinds DEF Calls
  <2>2. \A q \in Calls(n) : before'[q] = before[q]
    BY <2>1 DEF Kept
  <2> QED BY <1>1, <2>2 DEF Undisputed
<1>3. ASSUME NEW q \in Calls(n)', Undisputed(q, n)'
      PROVE  /\ at'[q] = "create-service" => n \in deployments'
             /\ at'[q] = "delete-service" => n \notin deployments'
             /\ answer'[q] = "success"
                  => IF job'[q].op = "create" THEN n \in deployments' /\ ServiceName(n) \in services'
                                              ELSE n \notin deployments' /\ ServiceName(n) \notin services'
  BY <1>1, <1>2, <1>3 DEF AdapterFine
<1>4. ASSUME Calm(n)'
      PROVE  /\ \A q \in Calls(n)' :
                  /\ at'[q] = "create-service" => n \in deployments' /\ ServiceName(n) \notin services'
                  /\ at'[q] = "delete-service" => n \notin deployments' /\ ServiceName(n) \in services'
             /\ \/ \E q \in Calls(n)' : at'[q] \in {"create-service", "delete-service"}
                \/ n \in deployments' <=> ServiceName(n) \in services'
  <2>1. Calm(n)
    BY <1>4, CalmBefore
  <2>2. \A q \in Calls(n)' : ~(at'[q] = "done" /\ answer'[q] = "lost")
    BY <1>4 DEF Calm, Disturbed
  <2>3. \A q \in Calls(n) : at'[q] = at[q]
    BY <1>1, <1>4 DEF Calm, Disturbed
  <2> QED BY <1>1, <2>1, <2>3 DEF AdapterFine
<1> QED BY <1>3, <1>4 DEF AdapterFine, ServiceName

-----------------------------------------------------------------------------

\* While r is at work, no other call for its name is undisputed, and in a calm no
\* other call is at work.
LEMMA Company ==
  ASSUME RequestTypes, RequestInv, RequestTypes', RequestInv', Kept, NEW r \in Request, OthersStay(r),
         ~Ended(r), NEW n, r \in Calls(n)'
  PROVE  /\ \A q \in Calls(n)' \ {r} : ~Undisputed(q, n)'
         /\ Calm(n)' => \A q \in Calls(n)' \ {r} : at'[q] = "done"
         /\ r \in Calls(n) /\ Undisputed(r, n)' => Undisputed(r, n)
<1>1. ASSUME NEW q \in Calls(n)' \ {r} PROVE r \notin before'[q] /\ q \in Request
  BY DEF OthersStay, RequestInv, Calls
<1>2. ASSUME Calm(n)', NEW q \in Calls(n)' \ {r} PROVE at'[q] = "done"
  <2>1. ~Together(r, q)'
    BY <1>2 DEF Calm, Disturbed, Alone
  <2>2. job'[r] # NoJob /\ job'[q] # NoJob
    BY Kinds DEF Calls
  <2>3. q \in before'[r]
    BY <1>1, <1>2, <2>1, <2>2 DEF Together
  <2> QED BY <2>3 DEF RequestInv, Ended
<1>3. ASSUME r \in Calls(n), Undisputed(r, n)' PROVE Undisputed(r, n)
  <2>1. before'[r] = before[r]
    BY <1>3, Kinds DEF Calls, Kept
  <2> QED BY <1>3, <2>1, CallsGrow DEF Undisputed
<1> QED BY <1>1, <1>2, <1>3 DEF Undisputed

\* So what is said of the name follows from what is said of r.
LEMMA AdapterOwn ==
  ASSUME RequestTypes, RequestInv, RequestTypes', RequestInv', Kept, NEW r \in Request, OthersStay(r),
         ~Ended(r), NEW n, r \in Calls(n)',
         Undisputed(r, n)' =>
           /\ at'[r] = "create-service" => n \in deployments'
           /\ at'[r] = "delete-service" => n \notin deployments'
           /\ answer'[r] = "success"
                => IF job'[r].op = "create" THEN n \in deployments' /\ ServiceName(n) \in services'
                                            ELSE n \notin deployments' /\ ServiceName(n) \notin services',
         Calm(n)' =>
           /\ at'[r] = "create-service" => n \in deployments' /\ ServiceName(n) \notin services'
           /\ at'[r] = "delete-service" => n \notin deployments' /\ ServiceName(n) \in services'
           /\ \/ at'[r] \in {"create-service", "delete-service"}
              \/ n \in deployments' <=> ServiceName(n) \in services'
  PROVE  AdapterFine(n)'
<1>1. \A q \in Calls(n)' : Undisputed(q, n)' =>
        /\ at'[q] = "create-service" => n \in deployments'
        /\ at'[q] = "delete-service" => n \notin deployments'
        /\ answer'[q] = "success"
             => IF job'[q].op = "create" THEN n \in deployments' /\ ServiceName(n) \in services'
                                         ELSE n \notin deployments' /\ ServiceName(n) \notin services'
  BY Company
<1>2. ASSUME Calm(n)'
      PROVE  /\ \A q \in Calls(n)' :
                  /\ at'[q] = "create-service" => n \in deployments' /\ ServiceName(n) \notin services'
                  /\ at'[q] = "delete-service" => n \notin deployments' /\ ServiceName(n) \in services'
             /\ \/ \E q \in Calls(n)' : at'[q] \in {"create-service", "delete-service"}
                \/ n \in deployments' <=> ServiceName(n) \in services'
  <2>1. \A q \in Calls(n)' \ {r} : at'[q] = "done"
    BY <1>2, Company
  <2> QED BY <1>2, <2>1
<1> QED BY <1>1, <1>2 DEF AdapterFine, ServiceName

LEMMA AdapterKeeps ==
  ASSUME RequestTypes, RequestInv, RequestTypes', RequestInv', AdaptersFine,
         NEW r \in Request, Kept, OthersStay(r), job'[r] \in Call, AdapterStep(r)
  PROVE  AdaptersFine'
<1>t. /\ job \in [Request -> Body \cup Save \cup Call \cup {NoJob}]
      /\ at \in [Request -> Places \cup {"idle", "done"}]
      /\ answer \in [Request -> Answers]
      /\ hit \in SUBSET Request
  BY DEF RequestTypes, RequestsTypeOK
<1>m. PICK m \in Name : job'[r].name = m
  BY AdapterAssumption
<1> DEFINE s == ServiceName(m)
           Undisturbed == Undisputed(r, m)'
           Settled == Calm(m)'
           Own ==
             /\ at'[r] \in {"create-deployment", "create-service"} => job'[r].op = "create"
             /\ at'[r] \in {"delete-deployment", "delete-service"} => job'[r].op = "delete"
             /\ Undisturbed =>
                  /\ at'[r] = "create-service" => m \in deployments'
                  /\ at'[r] = "delete-service" => m \notin deployments'
                  /\ answer'[r] = "success"
                       => IF job'[r].op = "create" THEN m \in deployments' /\ s \in services'
                                                   ELSE m \notin deployments' /\ s \notin services'
             /\ Settled =>
                  /\ at'[r] = "create-service" => m \in deployments' /\ s \notin services'
                  /\ at'[r] = "delete-service" => m \notin deployments' /\ s \in services'
                  /\ \/ at'[r] \in {"create-service", "delete-service"}
                     \/ m \in deployments' <=> s \in services'
           Writes ==
             /\ adapters' = adapters
             /\ deployments' \in {deployments, deployments \cup {m}, deployments \ {m}}
             /\ services' \in {services, services \cup {s}, services \ {s}}
<1>c. r \in Calls(m)' /\ ~Ended(r)
  <2>1. ~Ended(r)
    BY DEF AdapterStep, ReceiveCall, Begin, CreateDeployment, CreateService, DeleteDeployment,
           DeleteService, AdapterMissing, KubeFails, AdapterPlaces, Ended
  <2> QED BY <1>m, <2>1 DEF Calls
<1>1. SUFFICES Own /\ Writes
  <2>1. AdapterTypeOK'
    <3>1. Writes
      BY <1>1
    <3>2. s \in {ServiceName(n) : n \in Name}
      OBVIOUS
    <3> HIDE DEF s, Own
    <3> QED BY <3>1, <3>2 DEF AdaptersFine, AdapterTypeOK
  <2>2. OpInv'
    <3>1. ASSUME NEW q \in Request
          PROVE  /\ at'[q] \in {"create-deployment", "create-service"} => job'[q].op = "create"
                 /\ at'[q] \in {"delete-deployment", "delete-service"} => job'[q].op = "delete"
      <4>1. CASE q = r
        BY <1>1, <4>1
      <4>2. CASE q # r
        BY <4>2 DEF OthersStay, AdaptersFine, OpInv
      <4> QED BY <4>1, <4>2
    <3> QED BY <3>1 DEF OpInv
  <2>3. ASSUME NEW n \in Name, n # m PROVE AdapterFine(n)'
    <3>1. ServiceName(n) # s
      BY <2>3 DEF ServiceName
    <3>2. n \in deployments' <=> n \in deployments
      BY <1>1, <2>3
    <3>3. ServiceName(n) \in services' <=> ServiceName(n) \in services
      BY <1>1, <3>1
    <3>4. ASSUME NEW q \in Calls(n)'
          PROVE  q \in Calls(n) /\ job'[q] = job[q] /\ at'[q] = at[q] /\ answer'[q] = answer[q]
      BY <1>m, <2>3 DEF Calls, OthersStay
    <3>5. AdapterFine(n)
      BY NamesOneByOne DEF AdaptersFine
    <3> QED BY <3>2, <3>3, <3>4, <3>5, AdapterFrame
  <2>4. AdapterFine(m)'
    <3>1. Own
      BY <1>1
    <3>2. Undisputed(r, m)' =>
           /\ at'[r] = "create-service" => m \in deployments'
           /\ at'[r] = "delete-service" => m \notin deployments'
           /\ answer'[r] = "success"
                => IF job'[r].op = "create" THEN m \in deployments' /\ ServiceName(m) \in services'
                                            ELSE m \notin deployments' /\ ServiceName(m) \notin services'
      BY <3>1
    <3>3. Calm(m)' =>
           /\ at'[r] = "create-service" => m \in deployments' /\ ServiceName(m) \notin services'
           /\ at'[r] = "delete-service" => m \notin deployments' /\ ServiceName(m) \in services'
           /\ \/ at'[r] \in {"create-service", "delete-service"}
              \/ m \in deployments' <=> ServiceName(m) \in services'
      BY <3>1
    <3> HIDE DEF Own, Writes
    <3> QED BY <1>c, <3>2, <3>3, AdapterOwn
  <2> HIDE DEF Own, Writes
  <2>5. \A n \in Name : AdapterFine(n)'
    BY <2>3, <2>4
  <2>6. AdapterInv' /\ AnswersTrue'
    BY <2>5, NamesNext
  <2> QED BY <2>1, <2>2, <2>6 DEF AdaptersFine
<1>2. ASSUME at[r] \in AdapterPlaces
      PROVE  /\ Active(r) /\ job'[r] = job[r] /\ job[r].name = m /\ answer[r] = "none" /\ r \in Calls(m)
             /\ at[r] \in {"create-deployment", "create-service"} <=> job[r].op = "create"
             /\ at[r] \in {"delete-deployment", "delete-service"} => job[r].op = "delete"
  <2>1. Active(r) /\ job[r] # NoJob /\ job[r] \in Call
    BY <1>2, PlaceFacts DEF Places
  <2>2. job'[r] = job[r]
    BY <2>1 DEF Kept
  <2>3. job[r].op \in {"create", "delete"}
    BY <2>1, AdapterAssumption
  <2>4. /\ at[r] \in {"create-deployment", "create-service"} => job[r].op = "create"
        /\ at[r] \in {"delete-deployment", "delete-service"} => job[r].op = "delete"
    BY DEF AdaptersFine, OpInv
  <2> QED BY <1>2, <1>m, <2>1, <2>2, <2>3, <2>4 DEF RequestInv, Active, Ended, Calls, AdapterPlaces
<1>3. ASSUME at[r] \in AdapterPlaces, Undisturbed
      PROVE  /\ at[r] = "create-service" => m \in deployments
             /\ at[r] = "delete-service" => m \notin deployments
  <2>1. Undisputed(r, m) /\ r \in Calls(m)
    BY <1>2, <1>3, <1>c, Company
  <2> QED BY <2>1, NamesOneByOne DEF AdaptersFine, AdapterFine
<1>4. ASSUME Settled
      PROVE  /\ r \in Calls(m) =>
                  /\ at[r] = "create-service" => m \in deployments /\ s \notin services
                  /\ at[r] = "delete-service" => m \notin deployments /\ s \in services
             /\ at[r] \notin {"create-service", "delete-service"} => (m \in deployments <=> s \in services)
  <2>1. Calm(m)
    BY <1>4, CalmBefore
  <2>2. \A q \in Calls(m)' \ {r} : at'[q] = "done" /\ q \in Request
    BY <1>4, <1>c, Company DEF Calls
  <2>3. \A q \in Calls(m) \ {r} : at[q] = "done"
    BY <2>2, CallsGrow DEF OthersStay
  <2>4. AdapterFine(m)
    BY NamesOneByOne DEF AdaptersFine
  <2> QED BY <2>1, <2>3, <2>4 DEF AdapterFine
\* A call that fails, or finds an adapter missing, is disturbed.
<1>5. ASSUME r \in hit' \/ answer'[r] = "aborted" PROVE ~Settled
  BY <1>5, <1>c DEF Calm, Disturbed
<1> HIDE DEF Undisturbed, Settled, s
<1>6. CASE ReceiveCall(r)
  <2>1. PICK c \in Call : Begin(r, c, IF c.op = "create" THEN "create-deployment" ELSE "delete-deployment")
    BY <1>6 DEF ReceiveCall
  <2>2. /\ at[r] = "idle" /\ job'[r] = c /\ c.op \in {"create", "delete"}
        /\ at'[r] = IF c.op = "create" THEN "create-deployment" ELSE "delete-deployment"
    BY <1>t, <2>1, AdapterAssumption DEF Begin
  <2>3. answer'[r] = "none" /\ UNCHANGED adapterVars
    BY <1>6, <2>2 DEF ReceiveCall, RequestInv, Ended
  <2> QED BY <1>4, <2>2, <2>3 DEF adapterVars
<1>7. CASE CreateDeployment(r)
  <2>1. at[r] = "create-deployment" /\ UNCHANGED <<adapters, services>>
    BY <1>7 DEF CreateDeployment
  <2>2. CASE m \notin deployments /\ deployments' = deployments \cup {m} /\ at'[r] = "create-service"
             /\ answer'[r] = "none"
    BY <1>2, <1>4, <2>1, <2>2 DEF AdapterPlaces
  <2>3. CASE m \notin deployments /\ deployments' = deployments \cup {m} /\ at'[r] = "done" /\ r \in hit'
             /\ answer'[r] = "error"
    BY <1>5, <2>1, <2>3
  <2>4. CASE deployments' = deployments /\ at'[r] = "done" /\ answer'[r] = "error"
    BY <1>4, <2>1, <2>4
  <2> QED BY <1>t, <1>2, <1>7, <2>1, <2>2, <2>3, <2>4 DEF CreateDeployment, GoTo, Finish, Fault, AdapterPlaces
<1>8. CASE CreateService(r)
  <2>1. at[r] = "create-service" /\ UNCHANGED <<adapters, deployments>> /\ at'[r] = "done"
    BY <1>t, <1>8 DEF CreateService, Finish, Fault
  <2>2. CASE services' = services \cup {s} /\ answer'[r] = "success"
    BY <1>2, <1>3, <1>4, <2>1, <2>2 DEF AdapterPlaces
  <2>3. CASE services' = services \cup {s} /\ answer'[r] = "error" /\ r \in hit'
    BY <1>5, <2>1, <2>3
  <2>4. CASE s \in services /\ services' = services /\ answer'[r] = "error"
    BY <1>2, <1>4, <2>1, <2>4 DEF AdapterPlaces
  <2> QED BY <1>t, <1>2, <1>8, <2>1, <2>2, <2>3, <2>4 DEF CreateService, Finish, Fault, AdapterPlaces, s
<1>9. CASE DeleteDeployment(r)
  <2>1. at[r] = "delete-deployment" /\ UNCHANGED <<adapters, services>>
    BY <1>9 DEF DeleteDeployment
  <2>2. CASE m \in deployments /\ deployments' = deployments \ {m} /\ at'[r] = "delete-service"
             /\ answer'[r] = "none"
    BY <1>2, <1>4, <2>1, <2>2 DEF AdapterPlaces
  <2>3. CASE m \in deployments /\ deployments' = deployments \ {m} /\ at'[r] = "done" /\ r \in hit'
             /\ answer'[r] = "error"
    BY <1>5, <2>1, <2>3
  <2>4. CASE deployments' = deployments /\ at'[r] = "done" /\ answer'[r] = "error"
    BY <1>4, <2>1, <2>4
  <2> QED BY <1>t, <1>2, <1>9, <2>1, <2>2, <2>3, <2>4 DEF DeleteDeployment, GoTo, Finish, Fault, AdapterPlaces
<1>10. CASE DeleteService(r)
  <2>1. at[r] = "delete-service" /\ UNCHANGED <<adapters, deployments>> /\ at'[r] = "done"
    BY <1>t, <1>10 DEF DeleteService, Finish, Fault
  <2>2. CASE services' = services \ {s} /\ answer'[r] = "success"
    BY <1>2, <1>3, <1>4, <2>1, <2>2 DEF AdapterPlaces
  <2>3. CASE services' = services \ {s} /\ answer'[r] = "error" /\ r \in hit'
    BY <1>5, <2>1, <2>3
  <2>4. CASE s \notin services /\ services' = services /\ answer'[r] = "error"
    BY <1>2, <1>4, <2>1, <2>4 DEF AdapterPlaces
  <2> QED BY <1>t, <1>2, <1>10, <2>1, <2>2, <2>3, <2>4 DEF DeleteService, Partner, Finish, Fault, AdapterPlaces, s
<1>11. CASE AdapterMissing(r)
  <2>1. UNCHANGED adapterVars /\ at'[r] = "done" /\ answer'[r] = "aborted"
    BY <1>t, <1>11 DEF AdapterMissing, Finish
  <2> QED BY <1>5, <2>1 DEF adapterVars
<1>12. CASE KubeFails(r)
  <2>1. UNCHANGED adapterVars /\ at'[r] = "done" /\ answer'[r] = "error" /\ r \in hit'
    BY <1>t, <1>12 DEF KubeFails, Fault
  <2> QED BY <1>5, <2>1 DEF adapterVars
<1> HIDE DEF Own, Writes
<1> QED BY <1>6, <1>7, <1>8, <1>9, <1>10, <1>11, <1>12 DEF AdapterStep

-----------------------------------------------------------------------------
(* The whole process *)

LEMMA SavesUntouched ==
  ASSUME RequestTypes, RequestInv, RequestTypes', RequestInv', Kept, SavesFine,
         Untouched(Save), UNCHANGED saveVars
  PROVE  SavesFine'
<1>1. SaveTypeOK /\ \A q \in AllSaves : SaveFine(q)
  BY SavesOneByOne
<1>2. SaveTypeOK'
  BY <1>1 DEF SaveTypeOK, saveVars
<1>3. ASSUME NEW q \in AllSaves' PROVE SaveFine(q)'
  <2>1. q \in Request /\ q \in AllSaves
    BY DEF AllSaves, Untouched
  <2>2. at'[q] = at[q] \/ at'[q] = "done"
    BY DEF AllSaves, Untouched
  <2>3. answer'[q] = answer[q] \/ answer'[q] = "lost"
    BY DEF AllSaves, Untouched
  <2>4. buckets' = buckets /\ objects' = objects
    BY DEF saveVars
  <2> QED BY <1>1, <2>1, <2>2, <2>3, <2>4, SaveFrame
<1> QED BY <1>2, <1>3, SavesNext

LEMMA AdaptersUntouched ==
  ASSUME RequestTypes, RequestInv, RequestTypes', RequestInv', Kept, AdaptersFine,
         Untouched(Call), adapters' \in 0..3, UNCHANGED <<deployments, services>>
  PROVE  AdaptersFine'
<1>1. AdapterTypeOK'
  BY DEF AdaptersFine, AdapterTypeOK
<1>2. ASSUME NEW q \in Request
      PROVE  /\ at'[q] \in {"create-deployment", "create-service"} => job'[q].op = "create"
             /\ at'[q] \in {"delete-deployment", "delete-service"} => job'[q].op = "delete"
  <2>1. CASE job'[q] \in Call
    BY <2>1 DEF Untouched, AdaptersFine, OpInv
  <2>2. CASE job'[q] \notin Call
    BY <2>2 DEF RequestInv, AdapterPlaces
  <2> QED BY <2>1, <2>2
<1>3. ASSUME NEW n \in Name PROVE AdapterFine(n)'
  <2>1. AdapterFine(n)
    BY NamesOneByOne DEF AdaptersFine
  <2>2. ASSUME NEW q \in Calls(n)'
        PROVE  /\ q \in Calls(n) /\ job'[q] = job[q]
               /\ at'[q] = at[q] \/ (at'[q] = "done" /\ answer'[q] = "lost")
               /\ answer'[q] = answer[q] \/ answer'[q] = "lost"
    BY DEF Calls, Untouched
  <2> QED BY <2>1, <2>2, AdapterFrame
<1>4. AdapterInv' /\ AnswersTrue'
  BY <1>3, NamesNext
<1> QED BY <1>1, <1>2, <1>4 DEF AdaptersFine, OpInv

LEMMA Parts ==
  IInv <=> /\ RequestTypes /\ RequestInv /\ ParserFine /\ SavesFine /\ AdaptersFine
           /\ SoloInv /\ AnsweredAlone /\ WinnerInv /\ SharedFine
BY SharedOneByOne DEF IInv, TypeOK, RequestTypes, Places, ParserFine, SavesFine, AdaptersFine

LEMMA PartsNext ==
  (IInv <=> /\ RequestTypes /\ RequestInv /\ ParserFine /\ SavesFine /\ AdaptersFine
            /\ SoloInv /\ AnsweredAlone /\ WinnerInv /\ SharedFine)'
BY Parts, PTL

LEMMA InitIInv == Init => IInv
<1> SUFFICES ASSUME Init PROVE IInv
  OBVIOUS
<1> USE DEF Init, RequestsInit
<1>1. RequestTypes
  BY DEF RequestTypes, RequestsTypeOK, Answers
<1>2. \A r \in Request : at[r] = "idle" /\ job[r] = NoJob /\ answer[r] = "none" /\ before[r] = {}
  OBVIOUS
<1>3. RequestInv
  BY <1>2, PlaceKinds DEF RequestInv, Places
<1>4. DeployTypeOK
  <2>1. IsNodeSet(EmptySet)
    <3>1. EmptySet \in [{} -> Nat] /\ {} \in SUBSET {Unnamed}
      BY DEF EmptySet
    <3> QED BY <3>1 DEF IsNodeSet
  <2>2. NoStarter.id = "none" /\ NoStarter.nodes = EmptySet
    BY DEF NoStarter
  <2>3. /\ \A r \in Request : nodes[r] = EmptySet /\ starter[r] = NoStarter
        /\ DOMAIN nodes = Request /\ DOMAIN starter = Request
    BY DEF DeployInit
  <2>4. << >> \in Seq(Request)
    OBVIOUS
  <2>5. /\ roots \in [Request -> Seq(Request)] /\ read \in [Request -> Nat]
        /\ writers \in [Request -> SUBSET Request] /\ todo \in [Request -> SUBSET Nat]
        /\ set \in [Request -> Request \cup {Nobody}] /\ source \in [Request -> Request \cup {Nobody}]
        /\ id \in [Request -> Id \cup {"none"}] /\ dag = Nobody /\ doc = Nobody
    BY <2>4 DEF DeployInit
  <2>6. \A r \in Request : IsNodeSet(nodes[r])
    BY <2>1, <2>3
  <2>7. \A r \in Request : starter[r].id \in Id \cup {"none"} /\ IsNodeSet(starter[r].nodes)
    BY <2>1, <2>2, <2>3
  <2> QED BY <2>3, <2>5, <2>6, <2>7 DEF DeployTypeOK
<1>5. ParserInv
  <2>1. \A r \in Request : read[r] = 0 /\ writers[r] = {}
    BY DEF DeployInit
  <2>2. \A r \in Request : ~(read[r] > 0)
    BY <2>1
  <2> QED BY <1>2, <2>1, <2>2 DEF ParserInv, DeployPlaces
<1>6. SavesFine
  <2>1. SaveTypeOK
    BY DEF SaveInit, SaveTypeOK
  <2>2. AllSaves = {}
    BY <1>2, Kinds DEF AllSaves
  <2> QED BY <1>1, <1>3, <2>1, <2>2, SavesImplied
<1>7. AdaptersFine
  <2>1. AdapterTypeOK
    BY DEF AdapterInit, AdapterTypeOK
  <2>2. OpInv
    BY <1>2 DEF OpInv
  <2>3. \A n \in Name : Calls(n) = {} /\ n \notin deployments /\ ServiceName(n) \notin services
    BY <1>2, Kinds DEF Calls, AdapterInit
  <2>4. \A n \in Name : AdapterFine(n)
    BY <2>3 DEF AdapterFine
  <2> QED BY <2>1, <2>2, <2>4, NamesOneByOne DEF AdaptersFine
<1>8. WinnerInv
  <2>1. \A o \in Org : Saves(o) = {} /\ ~HasBucket(o) /\ \A p \in Project : objects[o][p] = NoRequest
    BY <1>2, Kinds DEF Saves, SaveInit, HasBucket
  <2> QED BY <2>1 DEF WinnerInv
<1>9. SoloInv /\ AnsweredAlone
  BY InitSolo, SolosOneByOne
<1>10. SharedFine
  BY InitShared
<1> QED BY <1>1, <1>3, <1>4, <1>5, <1>6, <1>7, <1>8, <1>9, <1>10, Parts DEF ParserFine

LEMMA NextIInv == IInv /\ [Next]_vars => IInv'
<1> SUFFICES ASSUME IInv, [Next]_vars PROVE IInv'
  OBVIOUS
<1>0. /\ RequestTypes /\ RequestInv /\ ParserFine /\ SavesFine /\ AdaptersFine
      /\ SoloInv /\ AnsweredAlone /\ WinnerInv /\ SharedFine
      /\ \A r \in Request : SoloFine(r)
  BY Parts, SolosOneByOne
<1>s. SaveTypeOK
  BY <1>0 DEF SavesFine
<1>a. adapters \in 0..3
  BY <1>0 DEF AdaptersFine, AdapterTypeOK
<1>1. CASE UNCHANGED <<job, at, answer, before, hit>> /\ listening' \in {"no", "yes", "failed"}
           /\ UNCHANGED <<deployVars, saveVars, deployments, services>> /\ adapters' \in 0..3
  <2>1. Kept /\ RequestTypes' /\ RequestInv'
    BY <1>0, <1>1, StaysKeep
  <2>2. ParserFine'
    BY <1>0, <1>1, <2>1, ParserFrame
  <2>3. SavesFine' /\ WinnerInv'
    BY <1>0, <1>s, <1>1, <2>1, StaysUntouched, SavesUntouched, WinnersUntouched
  <2>4. AdaptersFine'
    BY <1>0, <1>1, <2>1, StaysUntouched, AdaptersUntouched
  <2>5. SharedFine'
    BY <1>0, <1>1, <2>1, StaysUntouched, UntouchedShared
  <2>6. SoloInv' /\ AnsweredAlone'
    BY <1>0, <1>1, <2>1, StaysUntouched, UntouchedSolo, SolosNext
  <2> QED BY <2>1, <2>2, <2>3, <2>4, <2>5, <2>6, PartsNext
<1>2. CASE StartListening
  BY <1>1, <1>2, <1>a DEF StartListening, Listen, adapterVars
<1>3. CASE InitAdapters
  <2>1. listening \in {"no", "yes", "failed"}
    BY <1>0 DEF RequestTypes, RequestsTypeOK
  <2>2. adapters' \in 0..3
    BY <1>3, <1>a DEF InitAdapters, SetAdapter
  <2> QED BY <1>1, <1>3, <2>1, <2>2 DEF InitAdapters, SetAdapter, requestVars
<1>4. CASE UNCHANGED vars
  <2>1. listening \in {"no", "yes", "failed"}
    BY <1>0 DEF RequestTypes, RequestsTypeOK
  <2> QED BY <1>1, <1>4, <1>a, <2>1 DEF vars, requestVars, adapterVars
<1>5. ASSUME NEW r \in Request, DeployStep(r), UNCHANGED <<saveVars, adapterVars>>
      PROVE  IInv'
  <2>1. Moves(r) /\ job'[r] \in Body
    BY <1>0, <1>5, DeployMoves
  <2>2. Kept /\ OthersStay(r) /\ RequestTypes' /\ RequestInv'
    BY <1>0, <1>5, <2>1, MovesKeep
  <2>3. job'[r] \notin Save /\ job'[r] \notin Call
    BY <2>1, Kinds
  <2>4. ParserFine'
    BY <1>0, <1>5, <2>2, DeployKeeps
  <2>5. SavesFine' /\ WinnerInv'
    BY <1>0, <1>s, <1>5, <2>2, <2>3, OthersUntouched, SavesUntouched, WinnersUntouched
  <2>6. AdaptersFine'
    BY <1>0, <1>a, <1>5, <2>2, <2>3, OthersUntouched, AdaptersUntouched DEF adapterVars
  <2>7. SharedFine'
    BY <1>0, <1>5, <2>1, <2>2, DeployShared
  <2>8. SoloInv' /\ AnsweredAlone'
    BY <1>0, <1>5, <2>1, <2>2, DeploySolo, SolosNext
  <2> QED BY <2>2, <2>4, <2>5, <2>6, <2>7, <2>8, PartsNext
<1>6. ASSUME NEW r \in Request, SaveStep(r), UNCHANGED <<deployVars, adapterVars>>
      PROVE  IInv'
  <2>1. Moves(r) /\ job'[r] \in Save
    BY <1>0, <1>6, SaveMoves
  <2>2. Kept /\ OthersStay(r) /\ RequestTypes' /\ RequestInv'
    BY <1>0, <1>6, <2>1, MovesKeep
  <2>3. job'[r] \notin Body /\ job'[r] \notin Call
    BY <2>1, Kinds
  <2>4. ParserFine'
    BY <1>0, <1>6, <2>2, <2>3, ParserFrame DEF OthersStay
  <2>5. SavesFine' /\ WinnerInv'
    BY <1>0, <1>s, <1>6, <2>1, <2>2, SaveKeeps, WinnersKeep
  <2>6. AdaptersFine'
    BY <1>0, <1>a, <1>6, <2>2, <2>3, OthersUntouched, AdaptersUntouched DEF adapterVars
  <2>7. SharedFine'
    BY <1>0, <1>6, <2>2, <2>3, OthersUntouched, UntouchedShared DEF OthersStay
  <2>8. SoloInv' /\ AnsweredAlone'
    BY <1>0, <1>6, <2>2, <2>3, OthersUntouched, UntouchedSolo, SolosNext DEF OthersStay
  <2> QED BY <2>2, <2>4, <2>5, <2>6, <2>7, <2>8, PartsNext
<1>7. ASSUME NEW r \in Request, AdapterStep(r), UNCHANGED <<deployVars, saveVars>>
      PROVE  IInv'
  <2>1. Moves(r) /\ job'[r] \in Call
    BY <1>0, <1>7, AdapterMoves
  <2>2. Kept /\ OthersStay(r) /\ RequestTypes' /\ RequestInv'
    BY <1>0, <1>7, <2>1, MovesKeep
  <2>3. job'[r] \notin Body /\ job'[r] \notin Save
    BY <2>1, Kinds
  <2>4. ParserFine'
    BY <1>0, <1>7, <2>2, <2>3, ParserFrame DEF OthersStay
  <2>5. SavesFine' /\ WinnerInv'
    BY <1>0, <1>s, <1>7, <2>2, <2>3, OthersUntouched, SavesUntouched, WinnersUntouched
  <2>6. AdaptersFine'
    BY <1>0, <1>7, <2>1, <2>2, AdapterKeeps
  <2>7. SharedFine'
    BY <1>0, <1>7, <2>2, <2>3, OthersUntouched, UntouchedShared DEF OthersStay
  <2>8. SoloInv' /\ AnsweredAlone'
    BY <1>0, <1>7, <2>2, <2>3, OthersUntouched, UntouchedSolo, SolosNext DEF OthersStay
  <2> QED BY <2>2, <2>4, <2>5, <2>6, <2>7, <2>8, PartsNext
<1>8. ASSUME ProcessEnds PROVE IInv'
  <2>0. RequestsLost /\ DeployLost /\ UNCHANGED <<saveVars, deployments, services>> /\ adapters' \in 0..3
    BY <1>8 DEF ProcessEnds, AdaptersLost
  <2>1. Kept /\ RequestTypes' /\ RequestInv'
    BY <1>0, <2>0, LostKeep
  <2>2. ParserFine'
    BY <1>0, <2>0, <2>1, ParserLost
  <2>3. SavesFine' /\ WinnerInv'
    BY <1>0, <1>s, <2>0, <2>1, LostUntouched, SavesUntouched, WinnersUntouched
  <2>4. AdaptersFine'
    BY <1>0, <2>0, <2>1, LostUntouched, AdaptersUntouched
  <2>5. SoloInv' /\ AnsweredAlone'
    BY <1>0, <2>0, <2>1, LostSolo, SolosNext
  <2>6. SharedFine'
    BY <1>0, <2>0, <2>1, LostShared
  <2> QED BY <2>1, <2>2, <2>3, <2>4, <2>5, <2>6, PartsNext
<1>9. CASE RuntimeEnds \/ Killed
  BY <1>8, <1>9 DEF RuntimeEnds, Killed
<1> QED BY <1>2, <1>3, <1>4, <1>5, <1>6, <1>7, <1>9 DEF Next, Handle

LEMMA Inductive == Spec => []IInv
BY InitIInv, NextIInv, PTL DEF Spec

-----------------------------------------------------------------------------
(* The results *)

\* Every variable keeps its type: in particular every node that buildNode makes has
\* the empty name, and what CreateWorkflow gets has at most that one node.
THEOREM TypeCorrect == Spec => []TypeOK
<1>1. IInv => TypeOK
  BY DEF IInv
<1> QED BY <1>1, Inductive, PTL

\* A deploy request that is handled alone is answered from its own body: whatever is
\* left in the package variables of the parser, it makes its own before it reads it.
THEOREM AloneIsRight == Spec => []AnsweredAlone
<1>1. IInv => AnsweredAlone
  BY DEF IInv
<1> QED BY <1>1, Inductive, PTL

\* The id that a workflow is started with, and its node, come from deploy requests that
\* overlapped, and not from what earlier ones left in the parser's package variables.
THEOREM NothingOlder == Spec => []StarterFromNeighbours
<1>1. IInv => StarterFromNeighbours
  BY DEF IInv
<1> QED BY <1>1, Inductive, PTL

\* SaveHandler never sends an object to a bucket that is not there, as it goes on
\* from MakeBucket only when that succeeded and nothing removes a bucket.
THEOREM BucketThere == Spec => []BucketBeforeObject
<1>1. IInv => BucketBeforeObject
  BY DEF IInv
<1> QED BY <1>1, Inductive, PTL

\* A save that is valid and that minio did not fail is refused only when the bucket
\* was made by an overlapping save, between BucketExists and MakeBucket.
THEOREM RefusalExplained == Spec => []RefusedOnlyByRace
<1>1. IInv => RefusedOnlyByRace
  BY DEF IInv
<1> QED BY <1>1, Inductive, PTL

\* What SaveHandler acknowledged is stored, or was overwritten by a save that had
\* not ended when this one began.
THEOREM AcknowledgedStays == Spec => []NewestSaveStored
<1>1. IInv => NewestSaveStored
  BY DEF IInv
<1> QED BY <1>1, Inductive, PTL

\* When all valid saves of an organization have ended and nothing has failed them,
\* one was acknowledged and its object is stored: the race for the bucket has a
\* winner, and the winner goes on.
THEOREM RaceHasWinner == Spec => []SomeSaveStored
<1>1. IInv => SomeSaveStored
  BY Parts, WinnerStored
<1> QED BY <1>1, Inductive, PTL

\* createDeployment and deleteDeployment return no error only when Deployment and
\* Service are both there, or both gone, unless another call has interfered.
THEOREM NoErrorIsTrue == Spec => []AnswersTrue
<1>1. IInv => AnswersTrue
  BY DEF IInv
<1> QED BY <1>1, Inductive, PTL

\* A Deployment without its Service, or the reverse, has a cause: a call at work, one
\* that failed or was lost in the middle, or two for the same name at a time.
THEOREM HalvesHaveCause == Spec => []HalvesExplained
<1>1. IInv => HalvesExplained
  <2> SUFFICES ASSUME AdapterInv, NEW n \in Name,
                      (n \in deployments) # (ServiceName(n) \in services)
               PROVE  \E r \in Calls(n) : Active(r) \/ Disturbed(r, n)
    BY DEF IInv, HalvesExplained
  <2>1. CASE Calm(n)
    BY <2>1 DEF AdapterInv, Active
  <2>2. CASE ~Calm(n)
    BY <2>2 DEF Calm
  <2> QED BY <2>1, <2>2
<1> QED BY <1>1, Inductive, PTL

-----------------------------------------------------------------------------
(* The refinement: each step is one step of one request's life, or none *)

Stages == [r \in Request |-> StageOf(r)]

Paired == {n \in Name : ServiceName(n) \in services}

Promised == Promise!PromiseNext \/ UNCHANGED Promise!promiseVars

\* The places at which nothing is stored yet.
AskedPlaces ==
  DeployPlaces \cup {"bucket", "make", "put", "create-deployment", "delete-deployment"}

MadePlaces == {"put-again", "respond", "create-service", "delete-service"}

StageFacts ==
  \A r \in Request :
    /\ at[r] = "idle" => StageOf(r) = "new"
    /\ at[r] = "done" => StageOf(r) = answer[r]
    /\ at[r] \in AskedPlaces => StageOf(r) = "asked"
    /\ at[r] \in MadePlaces => StageOf(r) = "made"

LEMMA StageAt == StageFacts
BY DEF StageFacts, StageOf, AskedPlaces, MadePlaces, DeployPlaces

\* The same of the state after a step.
LEMMA StageNext == StageFacts'
BY StageAt, PTL

LEMMA Becomes ==
  ASSUME NEW r \in Request, OthersStay(r)
  PROVE  /\ \A s : StageOf(r)' = s => Promise!Become(r, s)
         /\ Stages[r] = StageOf(r) /\ Stages'[r] = StageOf(r)'
         /\ StageOf(r)' = StageOf(r) => Stages' = Stages
<1>1. \A q \in Request \ {r} : StageOf(q)' = StageOf(q)
  BY DEF OthersStay, StageOf
<1> QED BY <1>1 DEF Promise!Become, Stages

\* What it takes for a step of request r to be one of ServerPromise.
LEMMA Advances ==
  ASSUME NEW r \in Request, OthersStay(r), StageOf(r)' # StageOf(r),
         \/ Promise!Ask(r) \/ Promise!Store(r) \/ Promise!FirstHalf(r) \/ Promise!OtherHalf(r)
         \/ Promise!Acknowledge(r) \/ Promise!Refuse(r)
  PROVE  Promised
<1>1. Stages'[r] # Stages[r]
  BY Becomes
<1>2. Promise!Advance(r)
  BY <1>1 DEF Promise!Advance, Stages
<1> QED BY <1>2 DEF Promised, Promise!PromiseNext

LEMMA Stutters ==
  ASSUME NEW r \in Request, OthersStay(r), StageOf(r)' = StageOf(r), job' = job,
         UNCHANGED <<objects, deployments, services>>
  PROVE  Promised
<1>1. Stages' = Stages
  BY Becomes
<1> QED BY <1>1 DEF Promised, Promise!promiseVars, Stages

LEMMA NothingIsStored ==
  ASSUME UNCHANGED <<objects, deployments, services>>
  PROVE  Promise!NothingStored
BY DEF Promise!NothingStored

\* A request is made.
LEMMA AskPromised ==
  ASSUME RequestTypes, NEW r \in Request, OthersStay(r), NEW j \in Body \cup Save \cup Call,
         at[r] = "idle", job' = [job EXCEPT ![r] = j],
         UNCHANGED <<objects, deployments, services>>,
         \/ at'[r] \in AskedPlaces
         \/ at'[r] = "done" /\ answer'[r] = "silent" /\ j \in Body \cup Save
  PROVE  Promised
<1>1. StageOf(r) = "new" /\ Stages[r] = "new"
  BY StageAt, Becomes DEF StageFacts
<1>2. CASE at'[r] \in AskedPlaces
  <2>1. StageOf(r)' = "asked"
    BY <1>2, StageNext DEF StageFacts
  <2>2. Promise!Become(r, "asked")
    BY <2>1, Becomes
  <2>3. Promise!Ask(r)
    BY <1>1, <2>2, NothingIsStored DEF Promise!Ask, Promise!For, Stages
  <2> QED BY <1>1, <2>1, <2>3, Advances
<1>3. CASE at'[r] = "done" /\ answer'[r] = "silent" /\ j \in Body \cup Save
  <2>1. StageOf(r)' = "silent"
    BY <1>3, StageNext DEF StageFacts
  <2>2. Promise!Become(r, "silent")
    BY <2>1, Becomes
  <2>3. Promise!Ask(r)
    BY <1>1, <1>3, <2>2, NothingIsStored DEF Promise!Ask, Promise!For, Stages
  <2> QED BY <1>1, <2>1, <2>3, Advances
<1> QED BY <1>2, <1>3

LEMMA ReceivePromised ==
  ASSUME RequestTypes, NEW r \in Request, OthersStay(r), NEW j \in Body \cup Save,
         NEW refused \in BOOLEAN, NEW place \in {"new-map", "bucket"}, Receive(r, j, refused, place),
         UNCHANGED <<objects, deployments, services>>
  PROVE  Promised
<1>1. at[r] = "idle" /\ job' = [job EXCEPT ![r] = j]
  BY DEF Receive, Begin
<1>2. \/ at'[r] = place
      \/ at'[r] = "done" /\ answer'[r] = "silent"
  BY DEF Receive, Begin, RequestTypes, RequestsTypeOK
<1>3. place \in AskedPlaces
  BY DEF AskedPlaces, DeployPlaces
<1> QED BY <1>1, <1>2, <1>3, AskPromised

\* A request goes on to a place at which as much is stored, or does not move.
LEMMA GoPromised ==
  ASSUME RequestTypes, NEW r \in Request, OthersStay(r), at[r] \in AskedPlaces,
         at'[r] \in AskedPlaces, job' = job, UNCHANGED <<objects, deployments, services>>
  PROVE  Promised
<1>1. StageOf(r) = "asked" /\ StageOf(r)' = "asked"
  BY StageAt, StageNext DEF StageFacts
<1> QED BY <1>1, Stutters

\* A request is answered, with nothing stored by this step.
LEMMA EndPromised ==
  ASSUME RequestTypes, RequestInv, NEW r \in Request, OthersStay(r),
         at'[r] = "done", job' = job, UNCHANGED <<objects, deployments, services>>,
         \/ at[r] \in DeployPlaces /\ answer'[r] \in {"success", "silent", "aborted"}
         \/ at[r] \in {"bucket", "make", "put", "put-again"} /\ answer'[r] = "silent"
         \/ at[r] = "respond" /\ answer'[r] = "success"
         \/ at[r] \in AdapterPlaces /\ answer'[r] \in {"error", "aborted"}
  PROVE  Promised
<1>1. StageOf(r)' = answer'[r] /\ Promise!Become(r, answer'[r])
  BY StageNext, Becomes DEF StageFacts
<1>2. Stages[r] = StageOf(r) /\ Promise!NothingStored
  BY Becomes, NothingIsStored
<1>3. CASE at[r] \in DeployPlaces /\ answer'[r] \in {"success", "silent", "aborted"}
  <2>1. StageOf(r) = "asked" /\ job[r] \in Body
    BY <1>3, StageAt DEF StageFacts, RequestInv, AskedPlaces
  <2>2. Promise!Acknowledge(r) \/ Promise!Refuse(r)
    BY <1>1, <1>2, <1>3, <2>1 DEF Promise!Acknowledge, Promise!Refuse, Stages
  <2> QED BY <1>1, <1>3, <2>1, <2>2, Advances
<1>4. CASE at[r] \in {"bucket", "make", "put", "put-again"} /\ answer'[r] = "silent"
  <2>1. StageOf(r) \in Promise!Open /\ job[r] \in Save
    BY <1>4, StageAt DEF StageFacts, RequestInv, AskedPlaces, MadePlaces, SavePlaces, Promise!Open
  <2>2. Promise!Refuse(r)
    BY <1>1, <1>2, <1>4, <2>1 DEF Promise!Refuse, Stages
  <2> QED BY <1>1, <1>4, <2>1, <2>2, Advances DEF Promise!Open
<1>5. CASE at[r] = "respond" /\ answer'[r] = "success"
  <2>1. StageOf(r) = "made" /\ job[r] \in Save
    BY <1>5, StageAt DEF StageFacts, RequestInv, MadePlaces, SavePlaces
  <2>2. Promise!Acknowledge(r)
    BY <1>1, <1>2, <1>5, <2>1 DEF Promise!Acknowledge, Stages
  <2> QED BY <1>1, <1>5, <2>1, <2>2, Advances
<1>6. CASE at[r] \in AdapterPlaces /\ answer'[r] \in {"error", "aborted"}
  <2>1. StageOf(r) \in Promise!Open /\ job[r] \in Call
    BY <1>6, StageAt DEF StageFacts, RequestInv, AskedPlaces, MadePlaces, AdapterPlaces, Promise!Open
  <2>2. Promise!Refuse(r)
    BY <1>1, <1>2, <1>6, <2>1 DEF Promise!Refuse, Stages
  <2> QED BY <1>1, <1>6, <2>1, <2>2, Advances DEF Promise!Open
<1> QED BY <1>3, <1>4, <1>5, <1>6

\* DeployHandler stores nothing: it is asked, and answers.
LEMMA DeployPromised ==
  ASSUME RequestTypes, RequestInv, NEW r \in Request, OthersStay(r), DeployStep(r),
         UNCHANGED <<objects, deployments, services>>
  PROVE  Promised
<1>1. CASE ReceiveDeploy(r)
  BY <1>1, ReceivePromised DEF ReceiveDeploy
<1>2. ASSUME at[r] \in DeployPlaces, NEW p \in DeployPlaces, GoTo(r, p)
      PROVE  Promised
  <2>1. at'[r] = p /\ job' = job
    BY <1>2 DEF GoTo, RequestTypes, RequestsTypeOK
  <2> QED BY <1>2, <2>1, GoPromised DEF AskedPlaces
<1>3. ASSUME at[r] \in DeployPlaces, NEW how \in {"success", "silent", "aborted"}, Finish(r, how)
      PROVE  Promised
  <2>1. at'[r] = "done" /\ answer'[r] = how /\ job' = job
    BY <1>3 DEF Finish, RequestTypes, RequestsTypeOK
  <2> QED BY <1>3, <2>1, EndPromised
<1>4. ASSUME at[r] \in DeployPlaces, UNCHANGED requestVars
      PROVE  Promised
  BY <1>4, GoPromised DEF requestVars, AskedPlaces
<1> USE DEF DeployPlaces
<1>5. CASE NewMap(r) \/ NewDocument(r) \/ Open(r) \/ SelectTasks(r) \/ SelectFlows(r)
           \/ BeginNode(r) \/ EndNode(r)
  BY <1>2, <1>5 DEF NewMap, NewDocument, Open, SelectTasks, SelectFlows, BeginNode, EndNode
<1>6. CASE ReadEnd(r) \/ SelectProcess(r)
  BY <1>2, <1>3, <1>6 DEF ReadEnd, SelectProcess
<1>7. CASE ReadElement(r) \/ SkipTask(r) \/ SkipFlow(r) \/ Connect(r)
  BY <1>4, <1>7 DEF ReadElement, SkipTask, SkipFlow, Connect
<1>8. CASE ConnectToNil(r) \/ NoId(r) \/ Deploy(r)
  BY <1>3, <1>8 DEF ConnectToNil, NoId, Deploy
<1> QED BY <1>1, <1>5, <1>6, <1>7, <1>8 DEF DeployStep

LEMMA SavePromised ==
  ASSUME RequestTypes, RequestInv, NEW r \in Request, OthersStay(r), SaveStep(r),
         UNCHANGED <<deployments, services>>
  PROVE  Promised
<1> USE DEF RequestTypes, RequestsTypeOK
<1>1. CASE ReceiveSave(r)
  BY <1>1, ReceivePromised DEF ReceiveSave, saveVars
<1>2. ASSUME at[r] \in {"bucket", "make", "put"}, NEW p \in {"make", "put"}, GoTo(r, p),
             UNCHANGED objects
      PROVE  Promised
  <2>1. at'[r] = p /\ job' = job
    BY <1>2 DEF GoTo
  <2> QED BY <1>2, <2>1, GoPromised DEF AskedPlaces
<1>3. ASSUME at[r] \in {"bucket", "make", "put", "put-again"}, Finish(r, "silent") \/ Fault(r, "silent"),
             UNCHANGED objects
      PROVE  Promised
  <2>1. at'[r] = "done" /\ answer'[r] = "silent" /\ job' = job
    BY <1>3 DEF Finish, Fault
  <2> QED BY <1>3, <2>1, EndPromised
<1>4. CASE CheckBucket(r)
  BY <1>2, <1>3, <1>4 DEF CheckBucket, saveVars
<1>5. CASE MakeBucket(r)
  BY <1>2, <1>3, <1>5 DEF MakeBucket, Made
<1>6. CASE PutObject(r)
  <2>1. CASE UNCHANGED objects /\ Finish(r, "silent")
    BY <1>3, <1>6, <2>1 DEF PutObject
  <2>2. ASSUME objects' = [objects EXCEPT ![job[r].org][job[r].project] = r],
               GoTo(r, "respond") \/ GoTo(r, "put-again") \/ Fault(r, "silent")
        PROVE  Promised
    <3>1. /\ job' = job
          /\ \/ at'[r] \in {"respond", "put-again"}
             \/ at'[r] = "done" /\ answer'[r] = "silent"
      BY <2>2 DEF GoTo, Fault
    <3>2. at[r] \in {"put", "put-again"} /\ job[r] \in Save /\ Promise!Stored(r)
      BY <1>6, <2>2, <3>1 DEF PutObject, RequestInv, SavePlaces, Promise!Stored
    <3>3. StageOf(r)' \in {"made", "silent"}
      BY <3>1, StageNext DEF StageFacts, MadePlaces
    <3>4. CASE at[r] = "put"
      <4>1. StageOf(r) = "asked" /\ Stages[r] = "asked"
        BY <3>4, StageAt, Becomes DEF StageFacts, AskedPlaces
      <4>2. Promise!Become(r, "made") \/ Promise!Become(r, "silent")
        BY <3>3, Becomes
      <4>3. Promise!Store(r)
        BY <3>2, <4>1, <4>2 DEF Promise!Store, Stages
      <4> QED BY <3>3, <4>1, <4>3, Advances
    <3>5. CASE at[r] = "put-again"
      <4>1. StageOf(r) = "made" /\ Stages[r] = "made"
        BY <3>5, StageAt, Becomes DEF StageFacts, MadePlaces
      <4>2. Stages' = Stages \/ Promise!Become(r, "silent")
        BY <3>3, <4>1, Becomes
      <4>3. Promise!StoreAgain(r)
        BY <3>2, <4>1, <4>2 DEF Promise!StoreAgain, Stages
      <4> QED BY <4>3 DEF Promised, Promise!PromiseNext
    <3> QED BY <3>2, <3>4, <3>5
  <2> QED BY <1>6, <2>1, <2>2 DEF PutObject
<1>7. CASE Respond(r)
  <2>1. at[r] = "respond" /\ at'[r] = "done" /\ answer'[r] = "success" /\ job' = job
    BY <1>7 DEF Respond, Finish
  <2> QED BY <1>7, <2>1, EndPromised DEF Respond, saveVars
<1>8. CASE MinioFails(r)
  BY <1>3, <1>8 DEF MinioFails, saveVars
<1> QED BY <1>1, <1>4, <1>5, <1>6, <1>7, <1>8 DEF SaveStep

\* What a call does to the names that have a Service.
LEMMA Pairs ==
  ASSUME NEW n \in Name
  PROVE  /\ services' = services \cup {ServiceName(n)} => Paired' = Paired \cup {n}
         /\ services' = services \ {ServiceName(n)} => Paired' = Paired \ {n}
         /\ n \in Paired <=> ServiceName(n) \in services
<1>1. \A m \in Name : ServiceName(m) = ServiceName(n) => m = n
  BY DEF ServiceName
<1> QED BY <1>1 DEF Paired

\* One half of a call is done, and answered or not.
LEMMA HalfPromised ==
  ASSUME RequestTypes, RequestInv, OpInv, NEW r \in Request, OthersStay(r), job' = job,
         UNCHANGED objects, NEW n \in Name, job[r] \in Call, job[r].name = n,
         \/ /\ at[r] = "create-deployment" /\ services' = services
            /\ n \notin deployments /\ deployments' = deployments \cup {n}
         \/ /\ at[r] = "delete-deployment" /\ services' = services
            /\ n \in deployments /\ deployments' = deployments \ {n}
         \/ /\ at[r] = "create-service" /\ deployments' = deployments
            /\ ServiceName(n) \notin services /\ services' = services \cup {ServiceName(n)}
         \/ /\ at[r] = "delete-service" /\ deployments' = deployments
            /\ ServiceName(n) \in services /\ services' = services \ {ServiceName(n)},
         \/ at'[r] = "done" /\ answer'[r] = "error"
         \/ at[r] = "create-deployment" /\ at'[r] = "create-service"
         \/ at[r] = "delete-deployment" /\ at'[r] = "delete-service"
         \/ at[r] \in {"create-service", "delete-service"} /\ at'[r] = "done" /\ answer'[r] = "success"
  PROVE  Promised
<1>1. Stages[r] = StageOf(r) /\ Promise!Become(r, StageOf(r)')
  BY Becomes
<1>2. CASE at[r] \in {"create-deployment", "delete-deployment"}
  <2>1. StageOf(r) = "asked" /\ StageOf(r)' \in {"made", "error"}
    BY <1>2, StageAt, StageNext DEF StageFacts, AskedPlaces, MadePlaces
  <2>2. deployments' = Promise!Changed(deployments, job[r]) /\ deployments' # deployments
    BY <1>2 DEF Promise!Changed, OpInv
  <2>3. Promise!FirstHalf(r)
    BY <1>1, <1>2, <2>1, <2>2 DEF Promise!FirstHalf, Stages
  <2> QED BY <2>1, <2>3, Advances
<1>3. CASE at[r] \in {"create-service", "delete-service"}
  <2>1. StageOf(r) = "made" /\ StageOf(r)' \in {"success", "error"}
    BY <1>3, StageAt, StageNext DEF StageFacts, MadePlaces
  <2>2. /\ at[r] = "create-service" => Paired' = Paired \cup {n} /\ n \notin Paired
        /\ at[r] = "delete-service" => Paired' = Paired \ {n} /\ n \in Paired
    BY Pairs
  <2>3. Paired' = Promise!Changed(Paired, job[r]) /\ Paired' # Paired
    BY <1>3, <2>2 DEF Promise!Changed, OpInv
  <2>4. Promise!OtherHalf(r)
    BY <1>1, <1>3, <2>1, <2>3 DEF Promise!OtherHalf, Stages, Paired
  <2> QED BY <2>1, <2>4, Advances
<1> QED BY <1>2, <1>3

LEMMA AdapterPromised ==
  ASSUME RequestTypes, RequestInv, OpInv, NEW r \in Request, OthersStay(r), AdapterStep(r),
         UNCHANGED objects
  PROVE  Promised
<1> USE DEF RequestTypes, RequestsTypeOK
<1>1. CASE ReceiveCall(r)
  <2>1. PICK c \in Call, p \in {"create-deployment", "delete-deployment"} : Begin(r, c, p)
    BY <1>1 DEF ReceiveCall
  <2>2. at[r] = "idle" /\ job' = [job EXCEPT ![r] = c] /\ at'[r] = p
    BY <2>1 DEF Begin
  <2>3. p \in AskedPlaces
    BY DEF AskedPlaces
  <2> QED BY <1>1, <2>2, <2>3, AskPromised DEF ReceiveCall, adapterVars
<1>2. ASSUME at[r] \in AdapterPlaces, NEW how \in {"error", "aborted"},
             Finish(r, how) \/ Fault(r, how), UNCHANGED <<deployments, services>>
      PROVE  Promised
  <2>1. at'[r] = "done" /\ answer'[r] = how /\ job' = job
    BY <1>2 DEF Finish, Fault
  <2> QED BY <1>2, <2>1, EndPromised
<1>3. ASSUME at[r] \in AdapterPlaces PROVE job[r] \in Call /\ job[r].name \in Name
  BY <1>3, AdapterAssumption DEF RequestInv
<1>4. CASE CreateDeployment(r)
  <2>1. at[r] = "create-deployment" /\ at[r] \in AdapterPlaces /\ services' = services
    BY <1>4 DEF CreateDeployment, AdapterPlaces
  <2>2. CASE Finish(r, "error") /\ UNCHANGED deployments
    BY <1>2, <2>1, <2>2
  <2>3. CASE /\ job[r].name \notin deployments
             /\ deployments' = deployments \cup {job[r].name}
             /\ GoTo(r, "create-service") \/ Fault(r, "error")
    <3>1. /\ job' = job
          /\ at'[r] = "create-service" \/ (at'[r] = "done" /\ answer'[r] = "error")
      BY <2>3 DEF GoTo, Fault
    <3> QED BY <1>3, <2>1, <2>3, <3>1, HalfPromised
  <2> QED BY <1>4, <2>2, <2>3 DEF CreateDeployment
<1>5. CASE DeleteDeployment(r)
  <2>1. at[r] = "delete-deployment" /\ at[r] \in AdapterPlaces /\ services' = services
    BY <1>5 DEF DeleteDeployment, AdapterPlaces
  <2>2. CASE Finish(r, "error") /\ UNCHANGED deployments
    BY <1>2, <2>1, <2>2
  <2>3. CASE /\ job[r].name \in deployments
             /\ deployments' = deployments \ {job[r].name}
             /\ GoTo(r, "delete-service") \/ Fault(r, "error")
    <3>1. /\ job' = job
          /\ at'[r] = "delete-service" \/ (at'[r] = "done" /\ answer'[r] = "error")
      BY <2>3 DEF GoTo, Fault
    <3> QED BY <1>3, <2>1, <2>3, <3>1, HalfPromised
  <2> QED BY <1>5, <2>2, <2>3 DEF DeleteDeployment
<1>6. CASE CreateService(r)
  <2>1. at[r] = "create-service" /\ at[r] \in AdapterPlaces /\ deployments' = deployments
    BY <1>6 DEF CreateService, AdapterPlaces
  <2>2. CASE Finish(r, "error") /\ UNCHANGED services
    BY <1>2, <2>1, <2>2
  <2>3. CASE /\ ServiceName(job[r].name) \notin services
             /\ services' = services \cup {ServiceName(job[r].name)}
             /\ Finish(r, "success") \/ Fault(r, "error")
    <3>1. job' = job /\ at'[r] = "done" /\ answer'[r] \in {"success", "error"}
      BY <2>3 DEF Finish, Fault
    <3> QED BY <1>3, <2>1, <2>3, <3>1, HalfPromised
  <2> QED BY <1>6, <2>2, <2>3 DEF CreateService
<1>7. CASE DeleteService(r)
  <2>1. at[r] = "delete-service" /\ at[r] \in AdapterPlaces /\ deployments' = deployments
    BY <1>7 DEF DeleteService, AdapterPlaces
  <2>2. CASE Finish(r, "error") /\ UNCHANGED services
    BY <1>2, <2>1, <2>2
  <2>3. CASE /\ ServiceName(job[r].name) \in services
             /\ services' = services \ {ServiceName(job[r].name)}
             /\ Finish(r, "success") \/ Fault(r, "error")
    <3>1. job' = job /\ at'[r] = "done" /\ answer'[r] \in {"success", "error"}
      BY <2>3 DEF Finish, Fault
    <3> QED BY <1>3, <2>1, <2>3, <3>1, HalfPromised
  <2> QED BY <1>7, <2>2, <2>3 DEF DeleteService, Partner
<1>8. CASE AdapterMissing(r) \/ KubeFails(r)
  BY <1>2, <1>8 DEF AdapterMissing, KubeFails, AdapterPlaces, adapterVars
<1> QED BY <1>1, <1>4, <1>5, <1>6, <1>7, <1>8 DEF AdapterStep

\* The end of the process: who was not answered never is, and nothing else changes.
LEMMA LosePromised ==
  ASSUME RequestTypes, RequestsLost, UNCHANGED <<objects, deployments, services>>
  PROVE  Promised
<1>1. ASSUME NEW r \in Request
      PROVE  StageOf(r)' = IF StageOf(r) \in Promise!Open THEN "lost" ELSE StageOf(r)
  <2>1. CASE Active(r)
    <3>1. at'[r] = "done" /\ answer'[r] = "lost"
      BY <2>1 DEF RequestsLost
    <3>2. at[r] \in AskedPlaces \cup MadePlaces
      BY <2>1 DEF Active, RequestTypes, RequestsTypeOK, Places, AskedPlaces, MadePlaces,
                  SavePlaces, AdapterPlaces
    <3> QED BY <3>1, <3>2, StageAt, StageNext DEF StageFacts, Promise!Open
  <2>2. CASE at[r] = "done"
    <3>1. at'[r] = "done" /\ answer'[r] = answer[r]
      BY <2>2 DEF RequestsLost, Active
    <3>2. answer[r] \notin Promise!Open
      BY DEF RequestTypes, RequestsTypeOK, Answers, Promise!Open
    <3> QED BY <2>2, <3>1, <3>2, StageAt, StageNext DEF StageFacts
  <2>3. CASE at[r] = "idle"
    <3>1. at'[r] = "idle"
      BY <2>3 DEF RequestsLost, Active
    <3> QED BY <2>3, <3>1, StageAt, StageNext DEF StageFacts, Promise!Open
  <2> QED BY <2>1, <2>2, <2>3 DEF Active
<1>2. Stages' = [r \in Request |-> IF Stages[r] \in Promise!Open THEN "lost" ELSE Stages[r]]
  BY <1>1 DEF Stages
<1>3. job' = job
  BY DEF RequestsLost
<1>4. Promise!LoseAll
  BY <1>2, <1>3, NothingIsStored DEF Promise!LoseAll, Stages
<1> QED BY <1>4 DEF Promised, Promise!PromiseNext

LEMMA NextPromised ==
  ASSUME IInv, [Next]_vars
  PROVE  Promised
<1>0. RequestTypes /\ RequestInv /\ OpInv
  BY Parts DEF AdaptersFine
<1>1. ASSUME UNCHANGED <<job, at, answer, objects, deployments, services>>
      PROVE  Promised
  <2>1. Stages' = Stages
    BY <1>1 DEF Stages, StageOf
  <2> QED BY <1>1, <2>1 DEF Promised, Promise!promiseVars, Stages
<1>2. ASSUME NEW r \in Request, DeployStep(r), UNCHANGED <<saveVars, adapterVars>>
      PROVE  Promised
  <2>1. OthersStay(r)
    BY <1>0, <1>2, DeployMoves, MovesKeep
  <2> QED BY <1>0, <1>2, <2>1, DeployPromised DEF saveVars, adapterVars
<1>3. ASSUME NEW r \in Request, SaveStep(r), UNCHANGED adapterVars
      PROVE  Promised
  <2>1. OthersStay(r)
    BY <1>0, <1>3, SaveMoves, MovesKeep
  <2> QED BY <1>0, <1>3, <2>1, SavePromised DEF adapterVars
<1>4. ASSUME NEW r \in Request, AdapterStep(r), UNCHANGED saveVars
      PROVE  Promised
  <2>1. OthersStay(r)
    BY <1>0, <1>4, AdapterMoves, MovesKeep
  <2> QED BY <1>0, <1>4, <2>1, AdapterPromised DEF saveVars
<1>5. CASE ProcessEnds
  BY <1>0, <1>5, LosePromised DEF ProcessEnds, AdaptersLost, saveVars
<1>6. CASE StartListening \/ InitAdapters \/ UNCHANGED vars
  BY <1>1, <1>6 DEF StartListening, Listen, InitAdapters, SetAdapter, vars, requestVars, saveVars,
                    adapterVars
<1> QED BY <1>2, <1>3, <1>4, <1>5, <1>6 DEF Next, Handle, RuntimeEnds, Killed

\* The server implements ServerPromise, for any requests, handled in any number at a
\* time, with failing calls and ends of the process: a save counts whenever its object is
\* stored, each half of an adapter's call at the instant of its request to the API
\* server; nothing is stored by a request that is not open; success means all was done.
THEOREM PromiseKept == Spec => KeepsPromise
<1>1. Init => Promise!PromiseInit
  <2> SUFFICES ASSUME Init PROVE Promise!PromiseInit
    OBVIOUS
  <2>1. \A r \in Request : StageOf(r) = "new"
    BY StageAt DEF Init, RequestsInit, StageFacts
  <2>2. Stages = [r \in Request |-> "new"]
    BY <2>1 DEF Stages
  <2>3. Paired = {}
    BY DEF Init, AdapterInit, Paired
  <2> QED BY <2>2, <2>3 DEF Promise!PromiseInit, Init, RequestsInit, SaveInit, AdapterInit, Stages, Paired
<1>2. IInv /\ [Next]_vars => [Promise!PromiseNext]_(Promise!promiseVars)
  BY NextPromised DEF Promised
<1> QED BY <1>1, <1>2, Inductive, PTL DEF Spec, KeepsPromise, Promise!PromiseSpec

=============================================================================
