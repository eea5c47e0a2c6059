---------------------------- MODULE Publications ----------------------------
(***************************************************************************)
(* The admin writers of the publications table: POST (create), PATCH, POST *)
(* publish, unpublish and clone.  A row's status says whether the gallery  *)
(* shows it; the workflow inside its review JSON is the editor's view of   *)
(* the same thing, and the handlers are to keep the two in step.           *)
(*                                                                         *)
(* Every request is one transaction at READ COMMITTED.  It works on a copy *)
(* of the row in its session; its first UPDATE takes the row's lock, which *)
(* it holds to the end, and writes the changed columns only, after which   *)
(* the copy is refreshed.  get_db commits when the answer has been sent.   *)
(* updated_at is PostgreSQL's now(), the start of the transaction, so one  *)
(* value stands for all the writes of one request; with the id, which      *)
(* does not change, it is what compute_etag hashes.                        *)
(***************************************************************************)
EXTENDS Naturals

CONSTANTS
    Publications,  \* ids of rows, created and to be created
    Requests,      \* concurrent admin requests
    Kinds,         \* which of the endpoints they call
    Workflows,     \* the editor's states; the handlers tell two of them apart
    NoReview,      \* the review column is NULL
    Keep,          \* a PATCH body without a review
    NoOne,         \* no row
    MaxClock,      \* bound: transactions begun
    MaxFaults      \* bound: transactions that fail half-way

Endpoints == {"create", "clone", "patch", "publish", "unpublish"}

ASSUME PublicationConstants ==
    /\ Kinds \subseteq Endpoints
    /\ {"draft", "published"} \subseteq Workflows
    /\ NoReview \notin Workflows \cup {Keep}
    /\ Keep \notin Workflows
    /\ NoOne \notin Publications
    /\ MaxClock \in Nat
    /\ MaxFaults \in Nat

VARIABLES
    row,       \* the committed rows
    clock,     \* the next transaction's start
    request,   \* what the client asked for, and where the handler is
    began,     \* the start of the request's transaction
    seen,      \* the row as the handler first read it
    view,      \* the row in the request's session
    holds,     \* the requests that hold their row's lock
    answer,    \* the updated_at behind the ETag of the answer
    announced, \* requests that log PUBLICATION_PUBLISHED (visible)
    faults

vars == <<row, clock, request, began, seen, view, holds, answer, announced, faults>>

NoRow == [status |-> "none", workflow |-> NoReview, updated |-> 0, published |-> 0]
NoRequest == [pc |-> "idle", kind |-> "patch", pub |-> NoOne, tag |-> 0,
              edits |-> FALSE, review |-> Keep]

-----------------------------------------------------------------------------
(* The session.                                                             *)

Free(p) == \A q \in holds : request[q].pub # p

\* What an UPDATE of the request finds once it has the lock.
Latest(r) == IF r \in holds THEN view[r] ELSE row[request[r].pub]
CanWrite(r) == r \in holds \/ Free(request[r].pub)

\* An UPDATE of some columns: onupdate stamps the row, and a refresh follows.
Stamped(r, changed) == [changed EXCEPT !.updated = began[r]]
Write(r, changed) ==
    /\ CanWrite(r)
    /\ view' = [view EXCEPT ![r] = Stamped(r, changed)]
    /\ holds' = holds \cup {r}

\* A flush without changes writes nothing; the refresh reads what is there.
Refresh(r) ==
    /\ view' = [view EXCEPT ![r] = Latest(r)]
    /\ UNCHANGED holds

Goto(r, pc) == request' = [request EXCEPT ![r] = [@ EXCEPT !.pc = pc]]

\* The transaction's first statement, on a row that is there (404 otherwise).
Begins(r, kind, p, pc) ==
    /\ request[r].pc = "idle"
    /\ kind \in Kinds
    /\ clock <= MaxClock
    /\ clock' = clock + 1
    /\ began' = [began EXCEPT ![r] = clock]
    /\ seen' = [seen EXCEPT ![r] = row[p]]
    /\ UNCHANGED <<row, answer, announced, faults>>

Ends(r) ==
    /\ request' = [request EXCEPT ![r] = NoRequest]
    /\ began' = [began EXCEPT ![r] = 0]
    /\ seen' = [seen EXCEPT ![r] = NoRow]
    /\ view' = [view EXCEPT ![r] = NoRow]
    /\ holds' = holds \ {r}
    /\ answer' = [answer EXCEPT ![r] = 0]
    /\ announced' = announced \ {r}
    /\ UNCHANGED clock

\* If-Match: absent, or the tag of the copy.
Matches(r) == request[r].tag = 0 \/ request[r].tag = seen[r].updated

Refused(r) ==
    /\ request[r].pc \in {"patch", "publish"}
    /\ ~Matches(r)
    /\ Ends(r)
    /\ UNCHANGED <<row, faults>>

Visible(copy) == copy.status = "published"

\* compute_etag of the object that is serialised.
PreviousTag(r, copy) == seen[r].updated
AnswerTag(r, copy) == copy.updated

-----------------------------------------------------------------------------
(* PATCH /{id}.                                                             *)

\* The body may change editorial columns (edits) and may carry a review, which
\* is stored verbatim; an explicit null clears it.
PatchReads(r, p, tag, edits, review) ==
    /\ row[p].status # "none"
    /\ Begins(r, "patch", p, "patch")
    /\ request' = [request EXCEPT ![r] =
                     [pc |-> "patch", kind |-> "patch", pub |-> p, tag |-> tag,
                      edits |-> edits, review |-> review]]
    /\ view' = [view EXCEPT ![r] = row[p]]
    /\ UNCHANGED holds

\* The review column is written when it differs from the copy's: in its
\* workflow, or only in its history and comments (comments).
StoresUnset(r, comments) == comments \/ request[r].review # seen[r].workflow
StoresReview(r, comments) ==
    request[r].review # Keep /\ (comments \/ request[r].review # seen[r].workflow)

\* update_fields.
PatchFields(r, comments) ==
    /\ request[r].pc = "patch"
    /\ Matches(r)
    /\ comments => request[r].review \in Workflows
    /\ \/ /\ request[r].edits \/ StoresReview(r, comments)
          /\ Write(r, [Latest(r) EXCEPT !.workflow =
                         IF StoresReview(r, comments) THEN request[r].review ELSE @])
       \/ /\ ~request[r].edits /\ ~StoresReview(r, comments)
          /\ Refresh(r)
    /\ Goto(r, "sync")
    /\ UNCHANGED <<row, clock, began, seen, answer, announced, faults>>

\* Publication.status follows the workflow of the body.
Promotes(r) == request[r].review = "published" /\ ~Visible(view[r])
DemotesNever(r) == FALSE
Demotes(r) == request[r].review \in Workflows \ {"published"} /\ Visible(view[r])

\* Whether the workflow is new is decided on the first copy.
AnnouncesLate(r) == request[r].review = "published" /\ view[r].workflow # "published"
Announces(r) == request[r].review = "published" /\ seen[r].workflow # "published"

PublishedRow(r) == [Latest(r) EXCEPT !.status = "published", !.published = began[r]]

\* The statements after update_fields up to the answer.  update_status does not
\* refresh the session's object: its updated_at is the one before.
PatchStatus(r) ==
    /\ request[r].pc = "sync"
    /\ \/ /\ Promotes(r)
          /\ Write(r, PublishedRow(r))
          /\ answer' = [answer EXCEPT ![r] = AnswerTag(r, Stamped(r, PublishedRow(r)))]
       \/ /\ Demotes(r)
          /\ Write(r, [Latest(r) EXCEPT !.status = "draft"])
          /\ answer' = [answer EXCEPT ![r] = AnswerTag(r, view[r])]
       \/ /\ ~Promotes(r) /\ ~Demotes(r)
          /\ answer' = [answer EXCEPT ![r] = AnswerTag(r, view[r])]
          /\ UNCHANGED <<view, holds>>
    /\ announced' = IF Announces(r) THEN announced \cup {r} ELSE announced
    /\ Goto(r, "answered")
    /\ UNCHANGED <<row, clock, began, seen, faults>>

-----------------------------------------------------------------------------
(* POST /{id}/publish.                                                      *)

\* SELECT ... FOR UPDATE.
PlainSelect(r) == holds
ForUpdate(r) == holds \cup {r}
PublishReads(r, p, tag) ==
    /\ row[p].status # "none"
    /\ Free(p)
    /\ Begins(r, "publish", p, "publish")
    /\ request' = [request EXCEPT ![r] =
                     [NoRequest EXCEPT !.pc = "publish", !.kind = "publish",
                                       !.pub = p, !.tag = tag]]
    /\ view' = [view EXCEPT ![r] = row[p]]
    /\ holds' = ForUpdate(r)

\* _sync_workflow_from_status: a row with a review gets the workflow that goes
\* with its status, and a history entry.
MirroredNever(copy, workflow) == copy
Mirrored(copy, workflow) ==
    [copy EXCEPT !.workflow = IF @ = NoReview THEN NoReview ELSE workflow]

\* publish, the mirror, the audit event and the capture of the bound blocks,
\* whose errors are caught one by one.  A statement that PostgreSQL refuses
\* there (refused) has aborted the transaction all the same.
PublishRow(r, refused) ==
    /\ request[r].pc = "publish"
    /\ Matches(r)
    /\ Write(r, Mirrored(PublishedRow(r), "published"))
    /\ answer' = [answer EXCEPT ![r] = AnswerTag(r, Stamped(r, PublishedRow(r)))]
    /\ announced' = announced \cup {r}
    /\ Goto(r, IF refused THEN "aborted" ELSE "answered")
    /\ UNCHANGED <<row, clock, began, seen, faults>>

-----------------------------------------------------------------------------
(* POST /{id}/unpublish.                                                    *)

UnpublishReads(r, p) ==
    /\ row[p].status # "none"
    /\ Begins(r, "unpublish", p, "unpublish")
    /\ request' = [request EXCEPT ![r] =
                     [NoRequest EXCEPT !.pc = "unpublish", !.kind = "unpublish",
                                       !.pub = p]]
    /\ view' = [view EXCEPT ![r] = row[p]]
    /\ UNCHANGED holds

UnpublishRow(r) ==
    /\ request[r].pc = "unpublish"
    /\ \/ Visible(view[r]) /\ Write(r, [Latest(r) EXCEPT !.status = "draft"])
       \/ ~Visible(view[r]) /\ Refresh(r)
    /\ Goto(r, "mirror")
    /\ UNCHANGED <<row, clock, began, seen, answer, announced, faults>>

UnpublishMirrors(r) ==
    /\ request[r].pc = "mirror"
    /\ \/ view[r].workflow # NoReview /\ Write(r, [Latest(r) EXCEPT !.workflow = "draft"])
       \/ view[r].workflow = NoReview /\ UNCHANGED <<view, holds>>
    /\ Goto(r, "answered")
    /\ UNCHANGED <<row, clock, began, seen, answer, announced, faults>>

-----------------------------------------------------------------------------
(* POST / and POST /{id}/clone.                                             *)

\* The row starts as a draft whatever workflow its review carries.
Create(r, p, review) ==
    /\ row[p].status = "none"
    /\ Free(p)
    /\ Begins(r, "create", p, "answered")
    /\ request' = [request EXCEPT ![r] =
                     [NoRequest EXCEPT !.pc = "answered", !.kind = "create", !.pub = p]]
    /\ view' = [view EXCEPT ![r] =
                  [NoRow EXCEPT !.status = "draft", !.workflow = review, !.updated = clock]]
    /\ holds' = holds \cup {r}

\* A source that is not published is refused with 409.
CloneReads(r, p) ==
    /\ Visible(row[p])
    /\ Begins(r, "clone", p, "clone")
    /\ request' = [request EXCEPT ![r] =
                     [NoRequest EXCEPT !.pc = "clone", !.kind = "clone", !.pub = p]]
    /\ view' = [view EXCEPT ![r] = row[p]]
    /\ UNCHANGED holds

\* The copy is a draft with a fresh review, committed before the answer.
CloneCommits(r, copy) ==
    /\ request[r].pc = "clone"
    /\ row[copy].status = "none"
    /\ Free(copy)
    /\ row' = [row EXCEPT ![copy] = [NoRow EXCEPT !.status = "draft", !.workflow = "draft",
                                                  !.updated = began[r]]]
    /\ Ends(r)
    /\ UNCHANGED faults

-----------------------------------------------------------------------------
(* The end of the transaction, in get_db.                                   *)

Commit(r) ==
    /\ request[r].pc = "answered"
    /\ row' = IF r \in holds THEN [row EXCEPT ![request[r].pub] = view[r]] ELSE row
    /\ Ends(r)
    /\ UNCHANGED faults

\* COMMIT of an aborted transaction is a ROLLBACK, and no error to asyncpg.
CommitOfAborted(r) ==
    /\ request[r].pc = "aborted"
    /\ Ends(r)
    /\ UNCHANGED <<row, faults>>

\* A statement or the commit raises, or the process exits: rolled back.
RequestFails(r) ==
    /\ request[r].pc # "idle"
    /\ faults < MaxFaults
    /\ faults' = faults + 1
    /\ Ends(r)
    /\ UNCHANGED row

-----------------------------------------------------------------------------
Init ==
    /\ row = [p \in Publications |-> NoRow]
    /\ clock = 1
    /\ request = [r \in Requests |-> NoRequest]
    /\ began = [r \in Requests |-> 0]
    /\ seen = [r \in Requests |-> NoRow]
    /\ view = [r \in Requests |-> NoRow]
    /\ holds = {}
    /\ answer = [r \in Requests |-> 0]
    /\ announced = {}
    /\ faults = 0

\* A client's If-Match is a tag it has been shown, or none (0).
Tags == 0..(clock - 1)

Patch(r) ==
    \/ \E p \in Publications, tag \in Tags, edits \in BOOLEAN,
           review \in Workflows \cup {NoReview, Keep} : PatchReads(r, p, tag, edits, review)
    \/ \E comments \in BOOLEAN : PatchFields(r, comments)
    \/ PatchStatus(r)
Publish(r) ==
    \/ \E p \in Publications, tag \in Tags : PublishReads(r, p, tag)
    \/ \E refused \in BOOLEAN : PublishRow(r, refused)
Unpublish(r) ==
    \/ \E p \in Publications : UnpublishReads(r, p)
    \/ UnpublishRow(r)
    \/ UnpublishMirrors(r)
New(r) ==
    \/ \E p \in Publications, review \in Workflows \cup {NoReview} : Create(r, p, review)
    \/ \E p \in Publications : CloneReads(r, p) \/ CloneCommits(r, p)
Finish(r) == Refused(r) \/ Commit(r) \/ CommitOfAborted(r) \/ RequestFails(r)

Next == \E r \in Requests : Patch(r) \/ Publish(r) \/ Unpublish(r) \/ New(r) \/ Finish(r)

Spec == Init /\ [][Next]_vars

-----------------------------------------------------------------------------
(* Correctness.                                                             *)

Row == [status : {"none", "draft", "published"}, workflow : Workflows \cup {NoReview},
        updated : Nat, published : Nat]
Request == [pc : {"idle", "patch", "sync", "publish", "unpublish", "mirror", "clone",
                  "answered", "aborted"},
            kind : Endpoints, pub : Publications \cup {NoOne}, tag : Nat,
            edits : BOOLEAN, review : Workflows \cup {NoReview, Keep}]

\* Every variable has its type: rows, the session's copies of them, and the
\* local variables of the handlers.
TypeOK ==
    /\ row \in [Publications -> Row]
    /\ clock \in Nat
    /\ request \in [Requests -> Request]
    /\ began \in [Requests -> Nat]
    /\ seen \in [Requests -> Row]
    /\ view \in [Requests -> Row]
    /\ holds \subseteq Requests
    /\ answer \in [Requests -> Nat]
    /\ announced \subseteq Requests
    /\ faults \in Nat

\* publication_repository.py:309, the lock closes the window between the ETag
\* check and the UPDATE: a publish with If-Match replaces the very version its
\* client has seen, whatever else is writing the row.
PublishGuarded ==
    \A r \in Requests :
        /\ request[r].kind = "publish"
        /\ request[r].pc = "answered"
        /\ request[r].tag # 0
        => row[request[r].pub].updated = request[r].tag

\* The gallery shows a row just when its workflow is "published"; a row without
\* a review goes by its status alone.
InSync(copy) == copy.workflow = NoReview \/ (Visible(copy) <=> copy.workflow = "published")

\* The handler is done, and the row it is about to replace is the one that it
\* read and was in step.
Undisturbed(r) ==
    /\ request[r].pc = "answered"
    /\ request[r].kind # "create"
    /\ seen[r].updated = row[request[r].pub].updated
    /\ InSync(row[request[r].pub])

\* Only overlapping requests and creations bring status and workflow out of
\* step: a handler that nobody overtakes leaves a row in step as it found it.
SyncKept == \A r \in Requests : Undisturbed(r) => InSync(Latest(r))

\* The ETag a PATCH answers with, before its commit, is the one the row has
\* after it, so that the client's next If-Match succeeds.
TagKept == \A r \in Requests : Undisturbed(r) /\ request[r].kind = "patch"
                                => answer[r] = Latest(r).updated

\* A row does not become visible without a PUBLICATION_PUBLISHED event in the
\* same transaction.
AnnouncedKept ==
    \A r \in Requests :
        Undisturbed(r) /\ ~Visible(row[request[r].pub]) /\ Visible(Latest(r))
            => r \in announced

-----------------------------------------------------------------------------
(* The inductive invariant behind them.                                     *)

Active(r) == request[r].pc # "idle"
Target(r) == row[request[r].pub]

\* The row is still the version the handler read.
Current(r) == seen[r].updated = Target(r).updated

\* Every stage belongs to one handler, and a handler to a transaction.
ControlInv ==
    \A r \in Requests :
        /\ request[r].pc \in {"idle", "patch", "sync"} => request[r].kind = "patch"
        /\ request[r].pc \in {"publish", "aborted"} => request[r].kind = "publish"
        /\ request[r].pc \in {"unpublish", "mirror"} => request[r].kind = "unpublish"
        /\ request[r].pc = "clone" <=> request[r].kind = "clone"
        /\ Active(r) => request[r].pub \in Publications /\ began[r] \in 1..(clock - 1)

\* Transactions begin one after the other, and no copy of a row bears the time
\* of a transaction that is still open, except its own.
StampInv ==
    /\ clock >= 1
    /\ \A r, q \in Requests : Active(r) /\ Active(q) /\ began[r] = began[q] => r = q
    /\ \A p \in Publications : /\ row[p].updated < clock
                               /\ \A q \in Requests : Active(q) => row[p].updated # began[q]
    /\ \A r \in Requests : Active(r) =>
         /\ seen[r].updated < clock
         /\ \A q \in Requests : Active(q) => seen[r].updated # began[q]

\* One request at a time holds a row, and its copy is what the row will be.
LockInv ==
    /\ \A r \in holds : /\ Active(r)
                        /\ request[r].pc # "publish" => view[r].updated = began[r]
    /\ \A r, q \in holds : request[r].pub = request[q].pub => r = q

\* As long as the row is the one that was read, so are the copies.
CopyInv ==
    \A r \in Requests :
        /\ request[r].pc \in {"patch", "unpublish"} => view[r] = seen[r]
        /\ Active(r) /\ Current(r) =>
              /\ seen[r] = Target(r)
              /\ r \notin holds => view[r] = Target(r)

PublishInv ==
    \A r \in Requests :
        /\ request[r].kind = "publish" => r \in holds /\ Current(r)
        /\ request[r].kind = "publish" /\ request[r].pc = "answered"
              => Matches(r) /\ r \in announced /\ InSync(view[r])

\* What update_fields has done to the copy when it was the current one.
PatchInv ==
    \A r \in Requests :
        request[r].pc = "sync" /\ Current(r) =>
            /\ view[r].status = Target(r).status
            /\ view[r].workflow = IF request[r].review = Keep THEN Target(r).workflow
                                                             ELSE request[r].review

UnpublishInv ==
    \A r \in Requests :
        /\ request[r].pc = "mirror" /\ Current(r) => ~Visible(view[r])
        /\ request[r].kind = "unpublish" /\ request[r].pc = "answered" /\ Current(r)
              => ~Visible(Latest(r))

PublicationInv ==
    /\ TypeOK /\ ControlInv /\ StampInv /\ LockInv /\ CopyInv /\ PublishInv
    /\ PatchInv /\ UnpublishInv
    /\ SyncKept /\ TagKept /\ AnnouncedKept
=============================================================================
