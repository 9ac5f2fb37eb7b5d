----------------------------- MODULE ServerPromise -----------------------------
(***************************************************************************)
(* What the clients of the server can count on, told without handlers,     *)
(* buckets, adapters and package variables: a request changes what is      *)
(* stored between its beginning and its end only, and nothing is missing   *)
(* when it is answered "success". A save may be stored more than once      *)
(* until then. AstroServer implements it.                                  *)
(***************************************************************************)

CONSTANTS
  Request, NoJob, NoRequest,
  Body, Org, Project, Save, Name, Call   \* as in AstroServer

VARIABLES
  job,           \* job[r]: what request r asks for
  stage,         \* stage[r]: how far r has got, or its answer
  objects,       \* objects[o][p]: the request whose XML is stored for project p
  deployments,   \* the names that have a Deployment
  services       \* the names that have a Service

\* "made" is a save whose object is stored, or a call that has done one half.
Open == {"asked", "made"}

PromiseInit ==
  /\ job = [r \in Request |-> NoJob]
  /\ stage = [r \in Request |-> "new"]
  /\ objects = [o \in Org |-> [p \in Project |-> NoRequest]]
  /\ deployments = {}
  /\ services = {}

Become(r, s) == stage' = [stage EXCEPT ![r] = s]

NothingStored == UNCHANGED <<objects, deployments, services>>

For(r, jobs) == \E j \in jobs : job' = [job EXCEPT ![r] = j]

\* A request that cannot be read is answered at once.
Ask(r) ==
  /\ stage[r] = "new"
  /\ \/ Become(r, "asked") /\ For(r, Body \cup Save \cup Call)
     \/ Become(r, "silent") /\ For(r, Body \cup Save)
  /\ NothingStored

Stored(r) ==
  /\ objects' = [objects EXCEPT ![job[r].org][job[r].project] = r]
  /\ UNCHANGED <<job, deployments, services>>

\* An error of minio ends a save, whether its object is stored or not.
Store(r) ==
  /\ stage[r] = "asked" /\ job[r] \in Save
  /\ Become(r, "made") \/ Become(r, "silent")
  /\ Stored(r)

\* The same object again, over what others may have stored since.
StoreAgain(r) ==
  /\ stage[r] = "made" /\ job[r] \in Save
  /\ UNCHANGED stage \/ Become(r, "silent")
  /\ Stored(r)

Changed(names, call) ==
  IF call.op = "create" THEN names \cup {call.name} ELSE names \ {call.name}

\* Only what was not there is created, and only what is there is deleted.
FirstHalf(r) ==
  /\ stage[r] = "asked" /\ job[r] \in Call
  /\ Become(r, "made") \/ Become(r, "error")
  /\ deployments' = Changed(deployments, job[r]) /\ deployments' # deployments
  /\ UNCHANGED <<job, objects, services>>

OtherHalf(r) ==
  /\ stage[r] = "made" /\ job[r] \in Call
  /\ Become(r, "success") \/ Become(r, "error")
  /\ services' = Changed(services, job[r]) /\ services' # services
  /\ UNCHANGED <<job, objects, deployments>>

\* A deploy request stores nothing.
Acknowledge(r) ==
  /\ \/ stage[r] = "made" /\ job[r] \in Save
     \/ stage[r] = "asked" /\ job[r] \in Body
  /\ Become(r, "success")
  /\ UNCHANGED job /\ NothingStored

Refuse(r) ==
  /\ \/ stage[r] \in Open /\ job[r] \in Save /\ Become(r, "silent")
     \/ stage[r] = "asked" /\ job[r] \in Body /\ (Become(r, "silent") \/ Become(r, "aborted"))
     \/ stage[r] \in Open /\ job[r] \in Call /\ (Become(r, "error") \/ Become(r, "aborted"))
  /\ UNCHANGED job /\ NothingStored

\* The end of the process costs every request its answer, and nothing else.
LoseAll ==
  /\ stage' = [r \in Request |-> IF stage[r] \in Open THEN "lost" ELSE stage[r]]
  /\ UNCHANGED job /\ NothingStored

promiseVars == <<job, stage, objects, deployments, services>>

\* Whatever a request does brings it further, except StoreAgain, and no other one.
Advance(r) ==
  /\ stage'[r] # stage[r]
  /\ Ask(r) \/ Store(r) \/ FirstHalf(r) \/ OtherHalf(r) \/ Acknowledge(r) \/ Refuse(r)

PromiseNext == LoseAll \/ \E r \in Request : Advance(r) \/ StoreAgain(r)

PromiseSpec == PromiseInit /\ [][PromiseNext]_promiseVars
=============================================================================
