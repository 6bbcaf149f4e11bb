------------------------------ MODULE Tagging -------------------------------
(***************************************************************************)
(* Tags in the index database: PostTagsIdFiles in main.go with             *)
(* GetOrCreateTagFromName, AddTag, AddTagIds, RemoveTagIds and             *)
(* InvertTagIds, while the metadata stage tags files (WriteTags), a file   *)
(* scan deletes rows and the writer compacts tags in the background.       *)
(*                                                                         *)
(* A tag has versions.  A request looks up the active version of a name,   *)
(* and the writer makes a new version out of the one it is given.          *)
(***************************************************************************)
EXTENDS Database

CONSTANTS
    Operations,     \* what requests ask for: a subset of RequestTypes
    MaxRequests,    \* bound: requests made
    MaxTagged,      \* bound: files tagged by the metadata stage
    MaxDeleted      \* bound: files deleted

RequestTypes == {"addTagIds", "removeTagIds", "invertTagIds"}

ASSUME TaggingAssumption ==
    /\ Operations \subseteq RequestTypes
    /\ MaxRequests \in Nat /\ MaxTagged \in Nat /\ MaxDeleted \in Nat

VARIABLES
    pc,             \* where each request is
    request,        \* what it asks for: the tag, the operation, the files
    version,        \* the tag version it has looked up, 0 for none
    requests, tagged, deleted   \* bounds

requestVars == <<pc, request, version>>
bounds == <<requests, tagged, deleted>>
vars == <<dbVars, requestVars, bounds>>

Request == [tag : Tags, op : Operations, files : (SUBSET Files) \ {{}}]
NoRequest == [tag |-> "", op |-> "", files |-> {}]

Init ==
    /\ InitDatabase(Files)
    /\ pc = [c \in Clients |-> "idle"]
    /\ request = [c \in Clients |-> NoRequest]
    /\ version = [c \in Clients |-> 0]
    /\ requests = 0 /\ tagged = 0 /\ deleted = 0

Goto(c, label) == pc' = [pc EXCEPT ![c] = label]

\* What a client's step leaves alone: all but pending and answered.
Asking == UNCHANGED <<locked, flushing, db, saved, barriers, compaction, compactors>>

----------------------------------------------------------------------------
(* PostTagsIdFiles.                                                        *)

Begin(c) ==
    /\ pc[c] = "idle"
    /\ requests < MaxRequests
    /\ requests' = requests + 1
    /\ \E r \in Request : request' = [request EXCEPT ![c] = r]
    /\ Goto(c, "lookup")
    /\ UNCHANGED <<dbVars, version, tagged, deleted>>

\* GetOrCreateTagFromName: the tag is looked up among the committed ones, and
\* created when it is not there.
Lookup(c) ==
    /\ pc[c] = "lookup"
    /\ IF Active(saved, request[c].tag) = {}
       THEN Goto(c, "create") /\ UNCHANGED version
       ELSE /\ \E v \in Active(saved, request[c].tag) :
                  version' = [version EXCEPT ![c] = v]
            /\ Goto(c, "change")
    /\ UNCHANGED <<dbVars, request, bounds>>

Create(c) ==
    /\ pc[c] = "create"
    /\ Send([type |-> "addTag", tag |-> request[c].tag, from |-> c])
    /\ Goto(c, "created")
    /\ Asking
    /\ UNCHANGED <<answered, request, version, bounds>>

\* Faulty variant: AddTag does not wait for the commit.
CreatedUncommitted(c) ==
    /\ pc[c] = "created"
    /\ c \in answered
    /\ answered' = answered \ {c}
    /\ Goto(c, "again")
    /\ Asking
    /\ UNCHANGED <<pending, request, version, bounds>>

\* AddTag: the answer, and then WaitForCommit.
Created(c) ==
    /\ pc[c] = "created"
    /\ c \in answered
    /\ answered' = answered \ {c}
    /\ Goto(c, "wait")
    /\ Asking
    /\ UNCHANGED <<pending, request, version, bounds>>

WaitForCommit(c) ==
    /\ pc[c] = "wait"
    /\ Unlocked
    /\ Goto(c, "again")
    /\ UNCHANGED <<dbVars, request, version, bounds>>

\* The second lookup; without a tag the request fails with ErrNotFound.
LookupAgain(c) ==
    /\ pc[c] = "again"
    /\ IF Active(saved, request[c].tag) = {}
       THEN Goto(c, "failed") /\ UNCHANGED version
       ELSE /\ \E v \in Active(saved, request[c].tag) :
                  version' = [version EXCEPT ![c] = v]
            /\ Goto(c, "change")
    /\ UNCHANGED <<dbVars, request, bounds>>

\* AddTagIds, RemoveTagIds or InvertTagIds.
Change(c) ==
    /\ pc[c] = "change"
    /\ Send([type |-> request[c].op, version |-> version[c],
             files |-> request[c].files, from |-> c])
    /\ Goto(c, "changing")
    /\ Asking
    /\ UNCHANGED <<answered, request, version, bounds>>

Respond(c) ==
    /\ pc[c] = "changing"
    /\ c \in answered
    /\ answered' = answered \ {c}
    /\ Goto(c, "idle")
    /\ request' = [request EXCEPT ![c] = NoRequest]
    /\ version' = [version EXCEPT ![c] = 0]
    /\ Asking
    /\ UNCHANGED <<pending, bounds>>

----------------------------------------------------------------------------
(* The indexing stages.                                                    *)

\* WriteTags, called by the metadata stage.
TagFile ==
    /\ tagged < MaxTagged
    /\ tagged' = tagged + 1
    /\ \E n \in Tags, f \in saved.rows :
          Send([type |-> "addTagId", tag |-> n, file |-> f])
    /\ Asking
    /\ UNCHANGED <<answered, requestVars, requests, deleted>>

\* RunFiles deletes a row it has listed.
DeleteFile ==
    /\ deleted < MaxDeleted
    /\ deleted' = deleted + 1
    /\ \E f \in saved.rows : Send([type |-> "delete", file |-> f])
    /\ Asking
    /\ UNCHANGED <<answered, requestVars, requests, tagged>>

----------------------------------------------------------------------------
Proceed(c) ==
    \/ Lookup(c) \/ Create(c) \/ Created(c) \/ WaitForCommit(c)
    \/ LookupAgain(c) \/ Change(c) \/ Respond(c)

Next ==
    \/ \E c \in Clients : Begin(c) \/ Proceed(c)
    \/ TagFile \/ DeleteFile
    \/ Writer /\ UNCHANGED <<requestVars, bounds>>

Spec == Init /\ [][Next]_vars

\* Request goroutines and the writer run, and the goroutines of CompactTag get
\* their turn on the channel; nobody is obliged to make a request.
Fairness ==
    /\ \A c \in Clients : SF_vars(Proceed(c))
    /\ WF_dbVars(Handle)
    /\ SF_dbVars(Tick)
    /\ WF_dbVars(Unlock)
    /\ SF_dbVars(SendCompaction)

FairSpec == Spec /\ Fairness

----------------------------------------------------------------------------
(* Properties.                                                             *)

\* The requests, the writer and the tables hold well-formed state: a range
\* belongs to a version that is still there, and lies within the ids.
TypeOK ==
    /\ Len(pending) <= Capacity
    /\ locked \in BOOLEAN /\ flushing \in BOOLEAN
    /\ flushing => locked /\ db = saved
    /\ \A d \in {db, saved} :
          /\ d.rows \subseteq Files
          /\ \A v \in DOMAIN d.tags : d.tags[v].name \in Tags
          /\ \A r \in d.ranges :
                /\ r.version \in DOMAIN d.tags
                /\ d.tags[r.version].status # "gone"
                /\ r.low \in Files /\ r.high \in Files /\ r.low <= r.high
    /\ compaction \subseteq DOMAIN db.tags
    /\ barriers = {} /\ answered \subseteq Clients
    /\ request \in [Clients -> Request \cup {NoRequest}]
    /\ \A c \in Clients : pc[c] \in {"change", "changing"} => version[c] \in DOMAIN saved.tags

\* However many requests and indexing stages create, change and compact a tag
\* at once, readers and the writer find at most one active version of it.
OneActiveVersion ==
    \A d \in {db, saved}, n \in Tags : Cardinality(Active(d, n)) <= 1

\* GetOrCreateTagFromName finds the tag it has asked the writer to create: the
\* second lookup, in the committed database, comes after the commit.
CreatedIsFound ==
    \A c \in Clients : pc[c] # "failed"

\* A request is answered with the time of a version that every reader already
\* sees, as the active one, with the change made: a scene loaded after the
\* response shows it.
Applied(r, ids) ==
    CASE r.op = "addTagIds"    -> r.files \subseteq ids
      [] r.op = "removeTagIds" -> r.files \cap ids = {}
      [] r.op = "invertTagIds" -> TRUE
AnswersAreVisible ==
    [][ \A c \in answered' \ answered :
          pc[c] = "changing" =>
            \E v \in Active(saved', request[c].tag) :
                v > version[c] /\ Applied(request[c], ImageIds(saved', v))
      ]_vars

\* Deleting a file's row changes no other file's tags, although the ranges it
\* splits are read from the committed database, behind the writer's own changes.
Deleting(f) ==
    /\ ~flushing /\ pending # <<>> /\ pending' = Tail(pending)
    /\ Head(pending) = [type |-> "delete", file |-> f]
DeleteTouchesOneFile ==
    [][ \A f \in Files : Deleting(f) =>
          \A v \in DOMAIN db.tags, g \in db.rows \ {f} :
              g \in ImageIds(db, v) <=> g \in ImageIds(db', v)
      ]_vars

\* Every request is answered: creating the tag waits for a commit, and pending
\* compactions postpone the commit but not forever.
EveryRequestAnswered ==
    \A c \in Clients : (pc[c] # "idle") ~> (pc[c] = "idle")

\* "Tag operation successfully completed on the files": where requests only add
\* files to a tag and no file is deleted, readers never lose one of its files.
Content(d, n) == UNION {ImageIds(d, v) : v \in Active(d, n)}
RequestsAreKept ==
    [][ \A n \in Tags : Content(saved, n) \subseteq Content(saved', n) ]_vars
=============================================================================
