----------------------------- MODULE ServerRequests -----------------------------
(***************************************************************************)
(* The HTTP server's process: the listener and the requests it works on at *)
(* the same time. net/http runs a handler in a goroutine of its own and    *)
(* recovers it from a panic, which costs the connection and nothing else.  *)
(* When the process ends, its requests are lost with it.                   *)
(*                                                                         *)
(* A request is used once. before and hit are history: the code has no     *)
(* such variables, the properties use them.                                *)
(***************************************************************************)
EXTENDS Naturals, FiniteSets

CONSTANTS
  Request,   \* the requests that are ever made
  MaxAtOnce, \* how many of them are handled at the same time, a bound of the model
  NoJob      \* no request was made yet

ASSUME RequestsAssumption == MaxAtOnce \in Nat

VARIABLES
  listening,  \* "no", "yes", or "failed": ListenAndServe returned an error
  job,        \* job[r]: what request r asks for
  at,         \* at[r]: the next thing the goroutine of r does
  answer,     \* answer[r]: how r ended
  before,     \* before[r]: the requests that had ended when r began
  hit         \* the requests for which a call to the outside failed

requestVars == <<listening, job, at, answer, before, hit>>

\* "silent" is an empty response with status 200, "aborted" a closed connection.
Answers == {"none", "success", "silent", "error", "aborted", "lost"}

RequestsTypeOK(jobs, places) ==
  /\ listening \in {"no", "yes", "failed"}
  /\ job \in [Request -> jobs \cup {NoJob}]
  /\ at \in [Request -> places \cup {"idle", "done"}]
  /\ answer \in [Request -> Answers]
  /\ before \in [Request -> SUBSET Request]
  /\ hit \in SUBSET Request

RequestsInit ==
  /\ listening = "no"
  /\ job = [r \in Request |-> NoJob]
  /\ at = [r \in Request |-> "idle"]
  /\ answer = [r \in Request |-> "none"]
  /\ before = [r \in Request |-> {}]
  /\ hit = {}

Ended(r) == at[r] = "done"
Active(r) == at[r] \notin {"idle", "done"}

\* Neither had ended when the other began.
Together(r, q) ==
  /\ r # q
  /\ job[r] # NoJob /\ job[q] # NoJob
  /\ r \notin before[q] /\ q \notin before[r]

Alone(r, others) == \A q \in others : ~Together(r, q)

-----------------------------------------------------------------------------

\* NewRouter: it is asked once, and an error is only logged.
Listen ==
  /\ listening = "no"
  /\ listening' \in {"yes", "failed"}
  /\ UNCHANGED <<job, at, answer, before, hit>>

Begin(r, j, place) ==
  /\ at[r] = "idle"
  /\ Cardinality({q \in Request : Active(q)}) < MaxAtOnce
  /\ job' = [job EXCEPT ![r] = j]
  /\ at' = [at EXCEPT ![r] = place]
  /\ before' = [before EXCEPT ![r] = {q \in Request : Ended(q)}]
  /\ UNCHANGED <<listening, hit>>

GoTo(r, place) ==
  /\ at' = [at EXCEPT ![r] = place]
  /\ UNCHANGED <<listening, job, answer, before, hit>>

Finish(r, how) ==
  /\ at' = [at EXCEPT ![r] = "done"]
  /\ answer' = [answer EXCEPT ![r] = how]
  /\ UNCHANGED <<listening, job, before, hit>>

\* A call to the outside fails, carried out or not.
Fault(r, how) ==
  /\ at' = [at EXCEPT ![r] = "done"]
  /\ answer' = [answer EXCEPT ![r] = how]
  /\ hit' = hit \cup {r}
  /\ UNCHANGED <<listening, job, before>>

\* A request that is refused before it does anything, or goes on at place.
Receive(r, j, refused, place) ==
  \/ /\ ~refused
     /\ Begin(r, j, place)
     /\ UNCHANGED answer
  \/ /\ refused
     /\ Begin(r, j, "done")
     /\ answer' = [answer EXCEPT ![r] = "silent"]

\* The process is gone, and started again.
RequestsLost ==
  /\ listening' = "no"
  /\ at' = [r \in Request |-> IF Active(r) THEN "done" ELSE at[r]]
  /\ answer' = [r \in Request |-> IF Active(r) THEN "lost" ELSE answer[r]]
  /\ UNCHANGED <<job, before, hit>>
=============================================================================
