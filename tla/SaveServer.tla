------------------------------- MODULE SaveServer -------------------------------
(***************************************************************************)
(* SaveHandler: the XML of a project goes to the object                    *)
(* '{project}/bpmn.xml' in the bucket of its organization. The handler     *)
(* makes up to three requests to minio, and those of other handlers come   *)
(* between them. minio refuses a bucket that exists already, an object in  *)
(* a bucket that does not, and names that are not valid. Its client sends  *)
(* a PUT again that it got no answer to.                                   *)
(***************************************************************************)
EXTENDS ServerRequests

CONSTANTS
  Org, Project,
  Save,        \* the bodies of save requests
  NoRequest    \* nobody made this bucket, or stored this object

\* flaw: the handler gives up before its first request to minio (no POST, no
\* JSON, no client for the configured endpoint); minio rejects the bucket's name.
ASSUME SaveAssumption ==
  /\ Save \subseteq [flaw : {"none", "request", "name"}, org : Org, project : Project]
  /\ NoJob \notin Save
  /\ NoRequest \notin Request

VARIABLES
  buckets,   \* buckets[o]: the request that made the bucket of o
  objects    \* objects[o][p]: the request whose XML is stored for project p

saveVars == <<buckets, objects>>

\* "put-again": an object was stored, and its answer did not arrive.
SavePlaces == {"bucket", "make", "put", "put-again", "respond"}

SaveTypeOK ==
  /\ buckets \in [Org -> Request \cup {NoRequest}]
  /\ objects \in [Org -> [Project -> Request \cup {NoRequest}]]

SaveInit ==
  /\ buckets = [o \in Org |-> NoRequest]
  /\ objects = [o \in Org |-> [p \in Project |-> NoRequest]]

Saves(o) == {r \in Request : job[r] \in Save /\ job[r].org = o}

HasBucket(o) == buckets[o] # NoRequest

ReceiveSave(r) ==
  /\ listening = "yes"
  /\ \E s \in Save : Receive(r, s, s.flaw = "request", "bucket")
  /\ UNCHANGED saveVars

\* A definition named ...Bug is not part of the specification: it is the one below
\* it with a plausible mistake, which a property must notice.
CheckBucketBug(r) ==
  /\ at[r] = "bucket"
  /\ GoTo(r, "put")
  /\ UNCHANGED saveVars

CheckBucketAnywayBug(r) ==
  /\ at[r] = "bucket"
  /\ GoTo(r, "make")
  /\ UNCHANGED saveVars

\* BucketExists
CheckBucket(r) ==
  /\ at[r] = "bucket"
  /\ \/ job[r].flaw = "name" /\ Finish(r, "silent")
     \/ job[r].flaw = "none" /\ GoTo(r, IF HasBucket(job[r].org) THEN "put" ELSE "make")
  /\ UNCHANGED saveVars

MadeBug(r) == Finish(r, "success")

Made(r) == GoTo(r, "put")

\* A bucket that was made in the meantime is an error too.
MakeBucket(r) ==
  /\ at[r] = "make"
  /\ \/ /\ ~HasBucket(job[r].org)
        /\ buckets' = [buckets EXCEPT ![job[r].org] = r]
        /\ Made(r) \/ Fault(r, "silent")
     \/ /\ HasBucket(job[r].org)
        /\ Finish(r, "silent")
        /\ UNCHANGED buckets
  /\ UNCHANGED objects

PutObjectBug(r) ==
  /\ at[r] \in {"put", "put-again"}
  /\ objects' = [objects EXCEPT ![job[r].org][job[r].project] = IF @ = NoRequest THEN r ELSE @]
  /\ GoTo(r, "respond")
  /\ UNCHANGED buckets

\* The object is stored once for each time that the client sends it.
PutObject(r) ==
  /\ at[r] \in {"put", "put-again"}
  /\ \/ /\ HasBucket(job[r].org)
        /\ objects' = [objects EXCEPT ![job[r].org][job[r].project] = r]
        /\ GoTo(r, "respond") \/ GoTo(r, "put-again") \/ Fault(r, "silent")
     \/ /\ ~HasBucket(job[r].org)
        /\ Finish(r, "silent")
        /\ UNCHANGED objects
  /\ UNCHANGED buckets

Respond(r) ==
  /\ at[r] = "respond"
  /\ Finish(r, "success")
  /\ UNCHANGED saveVars

\* A request to minio is not carried out, however often it is sent.
MinioFails(r) ==
  /\ at[r] \in {"bucket", "make", "put", "put-again"}
  /\ Fault(r, "silent")
  /\ UNCHANGED saveVars

SaveStep(r) ==
  \/ ReceiveSave(r) \/ CheckBucket(r) \/ MakeBucket(r) \/ PutObject(r) \/ Respond(r)
  \/ MinioFails(r)
=============================================================================
