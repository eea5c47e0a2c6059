------------------------- MODULE PublicationsProofs -------------------------
(***************************************************************************)
(* Theorems about Publications for every number of rows, of requests and   *)
(* of transactions, every set of workflow states and every failure.        *)
(***************************************************************************)
EXTENDS Publications, TLAPS

-----------------------------------------------------------------------------
(* Types.                                                                   *)

Stages == {"idle", "patch", "sync", "publish", "unpublish", "mirror", "clone",
           "answered", "aborted"}

\* The rows the handlers write are rows.
LEMMA RowValues ==
    /\ NoRow \in Row
    /\ \A c \in Row, s \in {"draft", "published"} : [c EXCEPT !.status = s] \in Row
    /\ \A c \in Row, w \in Workflows \cup {NoReview} : [c EXCEPT !.workflow = w] \in Row
    /\ \A c \in Row, w \in Workflows : Mirrored(c, w) \in Row
    /\ \A w \in Workflows \cup {NoReview}, n \in Nat :
          [NoRow EXCEPT !.status = "draft", !.workflow = w, !.updated = n] \in Row
    /\ "draft" \in Workflows /\ "published" \in Workflows
<1>1. "draft" \in Workflows /\ "published" \in Workflows
  BY PublicationConstants
<1>2. NoRow \in Row
  BY DEF NoRow, Row
<1>3. \A c \in Row, s \in {"draft", "published"} : [c EXCEPT !.status = s] \in Row
  BY DEF Row
<1>4. \A c \in Row, w \in Workflows \cup {NoReview} : [c EXCEPT !.workflow = w] \in Row
  BY DEF Row
<1>5. \A c \in Row, w \in Workflows : Mirrored(c, w) \in Row
  BY DEF Row, Mirrored
<1>6. \A w \in Workflows \cup {NoReview}, n \in Nat :
        [NoRow EXCEPT !.status = "draft", !.workflow = w, !.updated = n] \in Row
  BY DEF Row, NoRow
<1> QED BY <1>1, <1>2, <1>3, <1>4, <1>5, <1>6

\* A request's copy, stamped or as its UPDATE finds it, is a row.
LEMMA CopyTypes ==
    ASSUME TypeOK, NEW r \in Requests, request[r].pub \in Publications
    PROVE  /\ Latest(r) \in Row
           /\ PublishedRow(r) \in Row
           /\ \A c \in Row : Stamped(r, c) \in Row
           /\ \A c \in Row : AnswerTag(r, c) \in Nat
<1>1. Latest(r) \in Row
  BY DEF TypeOK, Latest
<1>2. began[r] \in Nat
  BY DEF TypeOK
<1>3. PublishedRow(r) \in Row
  BY <1>1, <1>2 DEF PublishedRow, Row
<1>4. \A c \in Row : Stamped(r, c) \in Row
  BY <1>2 DEF Stamped, Row
<1>5. \A c \in Row : AnswerTag(r, c) \in Nat
  BY DEF AnswerTag, Row
<1> QED BY <1>1, <1>3, <1>4, <1>5

\* A stage is set.
LEMMA GotoType ==
    ASSUME TypeOK, NEW r \in Requests, NEW pc \in Stages, Goto(r, pc)
    PROVE  request' \in [Requests -> Request]
<1>1. [request[r] EXCEPT !.pc = pc] \in Request
  BY DEF TypeOK, Request, Stages
<1> QED BY <1>1 DEF TypeOK, Goto

\* A request whose transaction is over.
LEMMA EndsType ==
    ASSUME TypeOK, NEW r \in Requests, Ends(r), row' \in [Publications -> Row], faults' \in Nat
    PROVE  TypeOK'
<1>1. NoRequest \in Request
  BY PublicationConstants DEF NoRequest, Request, Endpoints
<1>2. NoRow \in Row
  BY RowValues
<1> QED BY <1>1, <1>2 DEF TypeOK, Ends

\* A request whose transaction begins.
LEMMA BeginsType ==
    ASSUME TypeOK, NEW r \in Requests, NEW kind, NEW pc, NEW p \in Publications,
           Begins(r, kind, p, pc),
           NEW q \in Request, request' = [request EXCEPT ![r] = q],
           NEW v \in Row, view' = [view EXCEPT ![r] = v],
           holds' \subseteq Requests
    PROVE  TypeOK'
<1>1. row[p] \in Row
  BY DEF TypeOK
<1>2. clock' \in Nat /\ began' \in [Requests -> Nat] /\ seen' \in [Requests -> Row]
  BY <1>1 DEF TypeOK, Begins
<1>3. request' \in [Requests -> Request] /\ view' \in [Requests -> Row]
  BY DEF TypeOK
<1> QED BY <1>2, <1>3 DEF TypeOK, Begins

\* A step inside a transaction: the stage, the copy, the lock and the answer.
LEMMA InsideType ==
    ASSUME TypeOK, NEW r \in Requests, NEW pc \in Stages, Goto(r, pc),
           NEW v \in Row, view' = view \/ view' = [view EXCEPT ![r] = v],
           NEW n \in Nat, answer' = answer \/ answer' = [answer EXCEPT ![r] = n],
           holds' \subseteq Requests, announced' \subseteq Requests,
           UNCHANGED <<row, clock, began, seen, faults>>
    PROVE  TypeOK'
<1>1. request' \in [Requests -> Request]
  BY GotoType
<1>2. view' \in [Requests -> Row] /\ answer' \in [Requests -> Nat]
  BY DEF TypeOK
<1> QED BY <1>1, <1>2 DEF TypeOK

\* update_fields keeps the types.
LEMMA PatchFieldsType ==
    ASSUME TypeOK, NEW r \in Requests, NEW comments \in BOOLEAN,
           request[r].pub \in Publications, PatchFields(r, comments)
    PROVE  TypeOK'
<1>1. /\ Goto(r, "sync") /\ "sync" \in Stages
      /\ UNCHANGED <<row, clock, began, seen, answer, announced, faults>>
  BY DEF PatchFields, Stages
<1>2. holds' \subseteq Requests
  BY DEF PatchFields, Write, Refresh, TypeOK
<1>3. PICK v \in Row : view' = [view EXCEPT ![r] = v]
  <2>1. CASE /\ request[r].edits \/ StoresReview(r, comments)
             /\ Write(r, [Latest(r) EXCEPT !.workflow =
                            IF StoresReview(r, comments) THEN request[r].review ELSE @])
    <3>1. PICK w : w = IF StoresReview(r, comments) THEN request[r].review
                                                    ELSE Latest(r).workflow
      OBVIOUS
    <3>2. Latest(r) \in Row /\ \A c \in Row : Stamped(r, c) \in Row
      BY CopyTypes
    <3>3. Latest(r).workflow \in Workflows \cup {NoReview}
      BY <3>2 DEF Row
    <3>4. request[r].review # Keep => request[r].review \in Workflows \cup {NoReview}
      BY DEF TypeOK, Request
    <3>5. w \in Workflows \cup {NoReview}
      BY <3>1, <3>3, <3>4 DEF StoresReview
    <3>6. [Latest(r) EXCEPT !.workflow = w] \in Row
      BY <3>2, <3>5, RowValues
    <3>7. view' = [view EXCEPT ![r] = Stamped(r, [Latest(r) EXCEPT !.workflow = w])]
      BY <2>1, <3>1 DEF Write
    <3> QED BY <3>2, <3>6, <3>7
  <2>2. CASE Refresh(r)
    BY <2>2, CopyTypes DEF Refresh
  <2> QED BY <2>1, <2>2 DEF PatchFields
<1>4. answer[r] \in Nat
  BY DEF TypeOK
<1>5. announced' \subseteq Requests
  BY <1>1 DEF TypeOK
<1> QED BY <1>1, <1>2, <1>3, <1>4, <1>5, InsideType

\* The promotion or demotion keeps the types.
LEMMA PatchStatusType ==
    ASSUME TypeOK, NEW r \in Requests,
           request[r].pub \in Publications, PatchStatus(r)
    PROVE  TypeOK'
<1>1. /\ Goto(r, "answered") /\ "answered" \in Stages
      /\ UNCHANGED <<row, clock, began, seen, faults>>
  BY DEF PatchStatus, Stages
<1>2. holds' \subseteq Requests /\ announced' \subseteq Requests
  BY DEF PatchStatus, Write, TypeOK
<1>3. /\ PublishedRow(r) \in Row /\ Latest(r) \in Row
      /\ \A c \in Row : Stamped(r, c) \in Row
      /\ \A c \in Row : AnswerTag(r, c) \in Nat
  BY CopyTypes
<1>4. view[r] \in Row
  BY DEF TypeOK
<1>5. [Latest(r) EXCEPT !.status = "draft"] \in Row
  BY <1>3, RowValues
<1>6. PICK v \in Row, n \in Nat : /\ (view' = view \/ view' = [view EXCEPT ![r] = v])
                                   /\ answer' = [answer EXCEPT ![r] = n]
  BY <1>3, <1>4, <1>5 DEF PatchStatus, Write
<1> QED BY <1>1, <1>2, <1>6, InsideType

\* Publishing keeps the types.
LEMMA PublishRowType ==
    ASSUME TypeOK, NEW r \in Requests, NEW refused \in BOOLEAN,
           request[r].pub \in Publications, PublishRow(r, refused)
    PROVE  TypeOK'
<1>1. PICK pc \in Stages : Goto(r, pc)
  BY DEF PublishRow, Stages
<1>2. holds' \subseteq Requests /\ announced' \subseteq Requests
  BY DEF PublishRow, Write, TypeOK
<1>3. /\ PublishedRow(r) \in Row
      /\ \A c \in Row : Stamped(r, c) \in Row
      /\ \A c \in Row : AnswerTag(r, c) \in Nat
  BY CopyTypes
<1>4. Mirrored(PublishedRow(r), "published") \in Row
  BY <1>3, RowValues
<1>5. PICK v \in Row, n \in Nat : /\ view' = [view EXCEPT ![r] = v]
                                   /\ answer' = [answer EXCEPT ![r] = n]
  BY <1>3, <1>4 DEF PublishRow, Write
<1>6. UNCHANGED <<row, clock, began, seen, faults>>
  BY DEF PublishRow
<1> QED BY <1>1, <1>2, <1>5, <1>6, InsideType

\* Unpublishing keeps the types.
LEMMA UnpublishType ==
    ASSUME TypeOK, NEW r \in Requests, request[r].pub \in Publications,
           UnpublishRow(r) \/ UnpublishMirrors(r)
    PROVE  TypeOK'
<1>1. PICK pc \in Stages : Goto(r, pc)
  BY DEF UnpublishRow, UnpublishMirrors, Stages
<1>2. /\ holds' \subseteq Requests /\ announced' \subseteq Requests
      /\ UNCHANGED <<row, clock, began, seen, answer, faults>>
  BY DEF UnpublishRow, UnpublishMirrors, Write, Refresh, TypeOK
<1>3. Latest(r) \in Row /\ \A c \in Row : Stamped(r, c) \in Row
  BY CopyTypes
<1>4. /\ [Latest(r) EXCEPT !.status = "draft"] \in Row
      /\ [Latest(r) EXCEPT !.workflow = "draft"] \in Row
  BY <1>3, RowValues
<1>5. PICK v \in Row : view' = view \/ view' = [view EXCEPT ![r] = v]
  BY <1>3, <1>4 DEF UnpublishRow, UnpublishMirrors, Write, Refresh
<1>6. answer[r] \in Nat
  BY DEF TypeOK
<1> QED BY <1>1, <1>2, <1>5, <1>6, InsideType

\* The first statements keep the types.
LEMMA ReadsType ==
    ASSUME TypeOK, NEW r \in Requests, NEW p \in Publications
    PROVE  /\ \A tag \in Tags, edits \in BOOLEAN, review \in Workflows \cup {NoReview, Keep} :
                 PatchReads(r, p, tag, edits, review) => TypeOK'
           /\ \A tag \in Tags : PublishReads(r, p, tag) => TypeOK'
           /\ UnpublishReads(r, p) => TypeOK'
           /\ \A review \in Workflows \cup {NoReview} : Create(r, p, review) => TypeOK'
           /\ CloneReads(r, p) => TypeOK'
<1>1. row[p] \in Row /\ clock \in Nat /\ holds \subseteq Requests
  BY DEF TypeOK
<1>2. \A tag \in Tags : tag \in Nat
  BY <1>1 DEF Tags
<1>3. \A tag \in Tags, edits \in BOOLEAN, review \in Workflows \cup {NoReview, Keep} :
        PatchReads(r, p, tag, edits, review) => TypeOK'
  <2> SUFFICES ASSUME NEW tag \in Tags, NEW edits \in BOOLEAN,
                      NEW review \in Workflows \cup {NoReview, Keep},
                      PatchReads(r, p, tag, edits, review)
               PROVE  TypeOK'
    OBVIOUS
  <2> DEFINE q == [pc |-> "patch", kind |-> "patch", pub |-> p, tag |-> tag,
                   edits |-> edits, review |-> review]
  <2>1. q \in Request
    BY <1>2 DEF Request, Endpoints
  <2>2. /\ Begins(r, "patch", p, "patch") /\ request' = [request EXCEPT ![r] = q]
        /\ view' = [view EXCEPT ![r] = row[p]] /\ holds' \subseteq Requests
    BY <1>1 DEF PatchReads
  <2> HIDE DEF q
  <2> QED BY <1>1, <2>1, <2>2, BeginsType
<1>4. \A tag \in Tags : PublishReads(r, p, tag) => TypeOK'
  <2> SUFFICES ASSUME NEW tag \in Tags, PublishReads(r, p, tag) PROVE TypeOK'
    OBVIOUS
  <2> DEFINE q == [NoRequest EXCEPT !.pc = "publish", !.kind = "publish",
                                    !.pub = p, !.tag = tag]
  <2>1. q \in Request
    BY <1>2 DEF Request, NoRequest, Endpoints
  <2>2. /\ Begins(r, "publish", p, "publish") /\ request' = [request EXCEPT ![r] = q]
        /\ view' = [view EXCEPT ![r] = row[p]] /\ holds' \subseteq Requests
    BY <1>1 DEF PublishReads, ForUpdate
  <2> HIDE DEF q
  <2> QED BY <1>1, <2>1, <2>2, BeginsType
<1>5. UnpublishReads(r, p) => TypeOK'
  <2> SUFFICES ASSUME UnpublishReads(r, p) PROVE TypeOK'
    OBVIOUS
  <2> DEFINE q == [NoRequest EXCEPT !.pc = "unpublish", !.kind = "unpublish", !.pub = p]
  <2>1. q \in Request
    BY DEF Request, NoRequest, Endpoints
  <2>2. /\ Begins(r, "unpublish", p, "unpublish") /\ request' = [request EXCEPT ![r] = q]
        /\ view' = [view EXCEPT ![r] = row[p]] /\ holds' \subseteq Requests
    BY <1>1 DEF UnpublishReads
  <2> HIDE DEF q
  <2> QED BY <1>1, <2>1, <2>2, BeginsType
<1>6. \A review \in Workflows \cup {NoReview} : Create(r, p, review) => TypeOK'
  <2> SUFFICES ASSUME NEW review \in Workflows \cup {NoReview}, Create(r, p, review)
               PROVE  TypeOK'
    OBVIOUS
  <2> DEFINE q == [NoRequest EXCEPT !.pc = "answered", !.kind = "create", !.pub = p]
             v == [NoRow EXCEPT !.status = "draft", !.workflow = review, !.updated = clock]
  <2>1. q \in Request
    BY DEF Request, NoRequest, Endpoints
  <2>2. v \in Row
    BY <1>1, RowValues
  <2>3. /\ Begins(r, "create", p, "answered") /\ request' = [request EXCEPT ![r] = q]
        /\ view' = [view EXCEPT ![r] = v] /\ holds' \subseteq Requests
    BY <1>1 DEF Create
  <2> HIDE DEF q, v
  <2> QED BY <2>1, <2>2, <2>3, BeginsType
<1>7. CloneReads(r, p) => TypeOK'
  <2> SUFFICES ASSUME CloneReads(r, p) PROVE TypeOK'
    OBVIOUS
  <2> DEFINE q == [NoRequest EXCEPT !.pc = "clone", !.kind = "clone", !.pub = p]
  <2>1. q \in Request
    BY DEF Request, NoRequest, Endpoints
  <2>2. /\ Begins(r, "clone", p, "clone") /\ request' = [request EXCEPT ![r] = q]
        /\ view' = [view EXCEPT ![r] = row[p]] /\ holds' \subseteq Requests
    BY <1>1 DEF CloneReads
  <2> HIDE DEF q
  <2> QED BY <1>1, <2>1, <2>2, BeginsType
<1> QED BY <1>3, <1>4, <1>5, <1>6, <1>7

\* The last statements keep the types.
LEMMA FinishType ==
    ASSUME TypeOK, NEW r \in Requests
    PROVE  /\ Refused(r) => TypeOK'
           /\ request[r].pub \in Publications /\ Commit(r) => TypeOK'
           /\ CommitOfAborted(r) => TypeOK'
           /\ RequestFails(r) => TypeOK'
           /\ \A p \in Publications : CloneCommits(r, p) => TypeOK'
<1>1. ASSUME Refused(r) \/ CommitOfAborted(r) PROVE TypeOK'
  BY <1>1, EndsType DEF Refused, CommitOfAborted, TypeOK
<1>2. ASSUME request[r].pub \in Publications, Commit(r) PROVE TypeOK'
  <2>1. view[r] \in Row
    BY DEF TypeOK
  <2>2. row' \in [Publications -> Row] /\ faults' \in Nat
    BY <1>2, <2>1 DEF TypeOK, Commit
  <2> QED BY <1>2, <2>2, EndsType DEF Commit
<1>3. ASSUME RequestFails(r) PROVE TypeOK'
  BY <1>3, EndsType DEF RequestFails, TypeOK
<1>4. ASSUME NEW p \in Publications, CloneCommits(r, p) PROVE TypeOK'
  <2>1. began[r] \in Nat
    BY DEF TypeOK
  <2>2. [NoRow EXCEPT !.status = "draft", !.workflow = "draft", !.updated = began[r]] \in Row
    BY <2>1, RowValues
  <2>3. row' \in [Publications -> Row] /\ faults' \in Nat
    BY <1>4, <2>2 DEF TypeOK, CloneCommits
  <2> QED BY <1>4, <2>3, EndsType DEF CloneCommits
<1> QED BY <1>1, <1>2, <1>3, <1>4

-----------------------------------------------------------------------------
(* The invariant, request by request.                                       *)

Exclusive == \A r, q \in holds : request[r].pub = request[q].pub => r = q

Sound(r) ==
    /\ /\ request[r].pc \in {"idle", "patch", "sync"} => request[r].kind = "patch"
       /\ request[r].pc \in {"publish", "aborted"} => request[r].kind = "publish"
       /\ request[r].pc \in {"unpublish", "mirror"} => request[r].kind = "unpublish"
       /\ request[r].pc = "clone" <=> request[r].kind = "clone"
       /\ Active(r) => request[r].pub \in Publications /\ began[r] \in 1..(clock - 1)
    /\ r \in holds => /\ Active(r)
                      /\ request[r].pc # "publish" => view[r].updated = began[r]
    /\ request[r].pc \in {"patch", "unpublish"} => view[r] = seen[r]
    /\ Active(r) /\ Current(r) =>
         /\ seen[r] = Target(r)
         /\ r \notin holds => view[r] = Target(r)
    /\ request[r].kind = "publish" => r \in holds /\ Current(r)
    /\ request[r].kind = "publish" /\ request[r].pc = "answered"
         => Matches(r) /\ r \in announced /\ InSync(view[r])
    /\ request[r].pc = "sync" /\ Current(r) =>
         /\ view[r].status = Target(r).status
         /\ view[r].workflow = IF request[r].review = Keep THEN Target(r).workflow
                                                          ELSE request[r].review
    /\ request[r].pc = "mirror" /\ Current(r) => ~Visible(view[r])
    /\ request[r].kind = "unpublish" /\ request[r].pc = "answered" /\ Current(r)
         => ~Visible(Latest(r))
    /\ Undisturbed(r) => InSync(Latest(r))
    /\ Undisturbed(r) /\ request[r].kind = "patch" => answer[r] = Latest(r).updated
    /\ Undisturbed(r) /\ ~Visible(row[request[r].pub]) /\ Visible(Latest(r))
         => r \in announced

\* The parts the invariant is made of.
LEMMA Parts ==
    PublicationInv => TypeOK /\ StampInv /\ Exclusive /\ \A r \in Requests : Sound(r)
<1> SUFFICES ASSUME PublicationInv
             PROVE  TypeOK /\ StampInv /\ Exclusive /\ \A r \in Requests : Sound(r)
  OBVIOUS
<1>1. TypeOK /\ StampInv /\ Exclusive
  BY DEF PublicationInv, LockInv, Exclusive
<1>2. ASSUME NEW r \in Requests PROVE Sound(r)
  BY DEF PublicationInv, ControlInv, LockInv, CopyInv, PublishInv, PatchInv,
         UnpublishInv, SyncKept, TagKept, AnnouncedKept, Sound
<1> QED BY <1>1, <1>2

\* And the other way, after a step.
LEMMA Whole ==
    ASSUME TypeOK', StampInv', Exclusive', \A r \in Requests : Sound(r)'
    PROVE  PublicationInv'
<1>1. ControlInv' /\ CopyInv' /\ PublishInv' /\ PatchInv'
  BY DEF ControlInv, CopyInv, PublishInv, PatchInv, Sound
<1>2. UnpublishInv' /\ SyncKept' /\ TagKept' /\ AnnouncedKept'
  BY DEF UnpublishInv, SyncKept, TagKept, AnnouncedKept, Sound
<1>3. LockInv'
  BY DEF LockInv, Exclusive, Sound, TypeOK
<1> QED BY <1>1, <1>2, <1>3 DEF PublicationInv

\* A request that takes no part in a step, whose row is as it was or, when it
\* does not hold it, has become another version than the one it read.
LEMMA Bystander ==
    ASSUME NEW q \in Requests, Sound(q), clock \in Nat, clock' \in Nat, clock' >= clock,
           request'[q] = request[q], began'[q] = began[q], seen'[q] = seen[q],
           view'[q] = view[q], answer'[q] = answer[q],
           q \in holds' <=> q \in holds, q \in announced' <=> q \in announced,
           Active(q) => \/ row'[request[q].pub] = row[request[q].pub]
                        \/ /\ q \notin holds
                           /\ row'[request[q].pub].updated # seen[q].updated
    PROVE  Sound(q)'
<1>1. CASE ~Active(q)
  <2>1. request[q].pc = "idle" /\ q \notin holds /\ request[q].kind = "patch"
    BY <1>1 DEF Active, Sound
  <2> QED BY <2>1 DEF Sound, Active, Undisturbed
<1>2. CASE Active(q) /\ row'[request[q].pub] = row[request[q].pub]
  <2>1. began[q] \in 1..(clock - 1) => began[q] \in 1..(clock' - 1)
    OBVIOUS
  <2>2. /\ Target(q)' = Target(q) /\ Latest(q)' = Latest(q)
        /\ Current(q)' <=> Current(q)
        /\ Active(q)' <=> Active(q)
        /\ Matches(q)' <=> Matches(q)
        /\ Undisturbed(q)' <=> Undisturbed(q)
    BY <1>2 DEF Target, Current, Latest, Active, Matches, Undisturbed
  <2> QED BY <1>2, <2>1, <2>2 DEF Sound
<1>3. CASE /\ Active(q) /\ q \notin holds
           /\ row'[request[q].pub].updated # seen[q].updated
  <2>1. began[q] \in 1..(clock - 1) => began[q] \in 1..(clock' - 1)
    OBVIOUS
  <2>2. request[q].kind # "publish"
    BY <1>3 DEF Sound
  <2>3. ~Current(q)' /\ ~Undisturbed(q)' /\ (Active(q)' <=> Active(q))
    BY <1>3 DEF Target, Current, Active, Undisturbed
  <2> QED BY <1>3, <2>1, <2>2, <2>3 DEF Sound
<1> QED BY <1>1, <1>2, <1>3

\* A request that is over.
LEMMA Over ==
    ASSUME NEW r \in Requests, request'[r] = NoRequest, r \notin holds'
    PROVE  Sound(r)'
BY DEF NoRequest, Sound, Active, Undisturbed

\* What a step of one request leaves alone.
Elsewhere(r) ==
    \A q \in Requests \ {r} :
        /\ request'[q] = request[q] /\ began'[q] = began[q] /\ seen'[q] = seen[q]
        /\ view'[q] = view[q] /\ answer'[q] = answer[q]
        /\ q \in holds' <=> q \in holds
        /\ q \in announced' <=> q \in announced

-----------------------------------------------------------------------------
(* Three shapes of steps: a transaction begins, goes on, or ends.           *)

\* A transaction begins: its time is new.
LEMMA BeginShape ==
    ASSUME PublicationInv, TypeOK', NEW r \in Requests, NEW p \in Publications,
           Elsewhere(r), request[r].pc = "idle", request'[r].pub = p,
           clock' = clock + 1, began'[r] = clock, seen'[r] = row[p], row' = row,
           r \in holds' => Free(p), Sound(r)'
    PROVE  PublicationInv'
<1>1. /\ TypeOK /\ StampInv /\ Exclusive /\ \A q \in Requests : Sound(q)
      /\ clock \in Nat
  BY Parts DEF TypeOK
<1>2. ASSUME NEW q \in Requests \ {r} PROVE Sound(q)'
  BY <1>1, Bystander DEF Elsewhere
<1>3. \A q \in Requests : Sound(q)'
  BY <1>2
<1>4. \A q \in Requests \ {r} : Active(q)' => /\ Active(q) /\ began[q] < clock
                                                /\ began'[q] = began[q]
                                                /\ seen'[q] = seen[q]
  BY <1>1 DEF Elsewhere, Active, Sound
<1>5. \A q \in Requests : Active(q) => seen[q].updated < clock
  <2>1. ASSUME NEW q \in Requests, Active(q) PROVE seen[q].updated < clock
    BY <1>1, <2>1 DEF StampInv
  <2> QED BY <2>1
<1>6. StampInv'
  <2>1. clock' >= 1
    BY <1>1 DEF StampInv
  <2>2. ASSUME NEW q \in Requests, NEW s \in Requests, Active(q)', Active(s)', began'[q] = began'[s]
        PROVE  q = s
    BY <1>1, <1>4, <2>2 DEF StampInv
  <2>3. ASSUME NEW o \in Publications
        PROVE  /\ row'[o].updated < clock'
               /\ \A q \in Requests : Active(q)' => row'[o].updated # began'[q]
    <3>1. row[o].updated < clock /\ row[o].updated \in Nat
      BY <1>1 DEF StampInv, TypeOK, Row
    <3> QED BY <1>1, <1>4, <3>1 DEF StampInv
  <2>4. ASSUME NEW q \in Requests, NEW s \in Requests, Active(q)', Active(s)'
        PROVE  seen'[q].updated # began'[s]
    BY <1>1, <1>4, <1>5, <2>4 DEF StampInv
  <2>5. ASSUME NEW q \in Requests, Active(q)' PROVE seen'[q].updated < clock'
    <3>1. CASE q # r
      <4>1. seen[q].updated < clock /\ seen[q].updated \in Nat
        BY <1>1, <1>4, <1>5, <2>5, <3>1 DEF TypeOK, Row
      <4> QED BY <1>1, <1>4, <2>5, <3>1, <4>1
    <3>2. CASE q = r
      <4>1. row[p].updated < clock /\ row[p].updated \in Nat
        BY <1>1 DEF StampInv, TypeOK, Row
      <4> QED BY <1>1, <3>2, <4>1
    <3> QED BY <3>1, <3>2
  <2> QED BY <2>1, <2>2, <2>3, <2>4, <2>5 DEF StampInv
<1>7. Exclusive'
  BY <1>1 DEF Exclusive, Elsewhere, Free, TypeOK, Sound, Active
<1> QED BY <1>3, <1>6, <1>7, Whole

\* A transaction goes on: it may take the lock of its row when that is free.
LEMMA InsideShape ==
    ASSUME PublicationInv, TypeOK', NEW r \in Requests,
           Elsewhere(r), Active(r), Active(r)', request'[r].pub = request[r].pub,
           UNCHANGED <<clock, began, seen, row>>,
           r \in holds' => CanWrite(r), Sound(r)'
    PROVE  PublicationInv'
<1>1. /\ TypeOK /\ StampInv /\ Exclusive /\ \A q \in Requests : Sound(q)
      /\ clock \in Nat
  BY Parts DEF TypeOK
<1>2. ASSUME NEW q \in Requests \ {r} PROVE Sound(q)'
  BY <1>1, Bystander DEF Elsewhere
<1>3. \A q \in Requests : Sound(q)'
  BY <1>2
<1>4. \A q \in Requests : Active(q)' <=> Active(q)
  BY DEF Elsewhere, Active
<1>5. StampInv'
  BY <1>1, <1>4 DEF StampInv
<1>6. Exclusive'
  BY <1>1 DEF Exclusive, Elsewhere, CanWrite, Free, TypeOK
<1> QED BY <1>3, <1>5, <1>6, Whole

\* A transaction ends and leaves the rows alone, or replaces one that nobody
\* else holds by a version that bears its own time.
LEMMA EndShape ==
    ASSUME PublicationInv, TypeOK', NEW r \in Requests, Elsewhere(r), Active(r),
           request'[r] = NoRequest, r \notin holds', clock' = clock,
           \/ row' = row
           \/ \E p \in Publications, v \in Row :
                 /\ row' = [row EXCEPT ![p] = v]
                 /\ v.updated = began[r]
                 /\ \A q \in holds \ {r} : request[q].pub # p
    PROVE  PublicationInv'
<1>1. /\ TypeOK /\ StampInv /\ Exclusive /\ \A q \in Requests : Sound(q)
      /\ clock \in Nat
  BY Parts DEF TypeOK
<1>2. \A q \in Requests : Active(q)' => q # r /\ Active(q)
  BY DEF Elsewhere, Active, NoRequest
<1>3. began[r] \in Nat /\ began[r] < clock
  BY <1>1 DEF Sound
<1>4. \A o \in Publications : row'[o] = row[o] \/ row'[o].updated = began[r]
  BY <1>1 DEF TypeOK
<1>5. ASSUME NEW q \in Requests \ {r}, Active(q)
      PROVE  \/ row'[request[q].pub] = row[request[q].pub]
             \/ q \notin holds /\ row'[request[q].pub].updated # seen[q].updated
  <2>1. request[q].pub \in Publications
    BY <1>1, <1>5 DEF Sound
  <2>2. seen[q].updated # began[r]
    BY <1>1, <1>5 DEF StampInv
  <2> QED BY <1>1, <1>4, <2>1, <2>2 DEF TypeOK
<1>6. ASSUME NEW q \in Requests \ {r} PROVE Sound(q)'
  BY <1>1, <1>5, Bystander DEF Elsewhere
<1>7. \A q \in Requests : Sound(q)'
  BY <1>6, Over
<1>8. StampInv'
  <2>1. ASSUME NEW o \in Publications
        PROVE  /\ row'[o].updated < clock'
               /\ \A q \in Requests : Active(q)' => row'[o].updated # began'[q]
    BY <1>1, <1>2, <1>3, <1>4 DEF StampInv, Elsewhere
  <2>2. ASSUME NEW q \in Requests, NEW s \in Requests, Active(q)', Active(s)'
        PROVE  /\ began'[q] = began'[s] => q = s
               /\ seen'[q].updated < clock'
               /\ seen'[q].updated # began'[s]
    BY <1>1, <1>2, <2>2 DEF StampInv, Elsewhere
  <2> QED BY <1>1, <2>1, <2>2 DEF StampInv
<1>9. Exclusive'
  BY <1>1 DEF Exclusive, Elsewhere, TypeOK
<1> QED BY <1>7, <1>8, <1>9, Whole

-----------------------------------------------------------------------------
(* One lemma per action.                                                    *)

\* A PATCH reads the row without a lock.
LEMMA PatchReadsKeeps ==
    ASSUME PublicationInv, NEW r \in Requests, NEW p \in Publications,
           NEW tag \in Tags, NEW edits \in BOOLEAN, NEW review \in Workflows \cup {NoReview, Keep},
           PatchReads(r, p, tag, edits, review)
    PROVE  PublicationInv'
<1>1. /\ TypeOK /\ StampInv /\ Exclusive /\ \A q \in Requests : Sound(q)
      /\ clock \in Nat /\ clock >= 1
  BY Parts DEF TypeOK, StampInv
<1>2. TypeOK'
  BY <1>1, ReadsType
<1>3. /\ request[r].pc = "idle" /\ request'[r].pc = "patch" /\ request'[r].kind = "patch"
      /\ request'[r].pub = p
      /\ clock' = clock + 1 /\ began'[r] = clock /\ seen'[r] = row[p] /\ row' = row
      /\ announced' = announced
  BY <1>1 DEF PatchReads, Begins, TypeOK, NoRequest
<1>4. Elsewhere(r)
  BY <1>1 DEF PatchReads, Begins, Elsewhere, TypeOK
<1>5. view'[r] = row[p] /\ r \notin holds'
  BY <1>1, <1>3 DEF PatchReads, TypeOK, Sound, Active
<1>6. Sound(r)'
  BY <1>1, <1>3, <1>5 DEF Sound, Active, Current, Target, Undisturbed
<1> QED BY <1>2, <1>3, <1>4, <1>5, <1>6, BeginShape

\* A publish locks the row before it reads it.
LEMMA PublishReadsKeeps ==
    ASSUME PublicationInv, NEW r \in Requests, NEW p \in Publications,
           NEW tag \in Tags, PublishReads(r, p, tag)
    PROVE  PublicationInv'
<1>1. /\ TypeOK /\ StampInv /\ Exclusive /\ \A q \in Requests : Sound(q)
      /\ clock \in Nat /\ clock >= 1
  BY Parts DEF TypeOK, StampInv
<1>2. TypeOK'
  BY <1>1, ReadsType
<1>3. /\ request[r].pc = "idle" /\ request'[r].pc = "publish" /\ request'[r].kind = "publish"
      /\ request'[r].pub = p
      /\ clock' = clock + 1 /\ began'[r] = clock /\ seen'[r] = row[p] /\ row' = row
      /\ announced' = announced
  BY <1>1 DEF PublishReads, Begins, TypeOK, NoRequest
<1>4. Elsewhere(r)
  BY <1>1 DEF PublishReads, Begins, Elsewhere, TypeOK, ForUpdate
<1>5. view'[r] = row[p] /\ r \in holds' /\ Free(p)
  BY <1>1, <1>3 DEF PublishReads, TypeOK, ForUpdate
<1>6. Sound(r)'
  BY <1>1, <1>3, <1>5 DEF Sound, Active, Current, Target, Undisturbed
<1> QED BY <1>2, <1>3, <1>4, <1>5, <1>6, BeginShape

\* An unpublish reads the row without a lock.
LEMMA UnpublishReadsKeeps ==
    ASSUME PublicationInv, NEW r \in Requests, NEW p \in Publications,
           UnpublishReads(r, p)
    PROVE  PublicationInv'
<1>1. /\ TypeOK /\ StampInv /\ Exclusive /\ \A q \in Requests : Sound(q)
      /\ clock \in Nat /\ clock >= 1
  BY Parts DEF TypeOK, StampInv
<1>2. TypeOK'
  BY <1>1, ReadsType
<1>3. /\ request[r].pc = "idle" /\ request'[r].pc = "unpublish" /\ request'[r].kind = "unpublish"
      /\ request'[r].pub = p
      /\ clock' = clock + 1 /\ began'[r] = clock /\ seen'[r] = row[p] /\ row' = row
      /\ announced' = announced
  BY <1>1 DEF UnpublishReads, Begins, TypeOK, NoRequest
<1>4. Elsewhere(r)
  BY <1>1 DEF UnpublishReads, Begins, Elsewhere, TypeOK
<1>5. view'[r] = row[p] /\ r \notin holds'
  BY <1>1, <1>3 DEF UnpublishReads, TypeOK, Sound, Active
<1>6. Sound(r)'
  BY <1>1, <1>3, <1>5 DEF Sound, Active, Current, Target, Undisturbed
<1> QED BY <1>2, <1>3, <1>4, <1>5, <1>6, BeginShape

\* A clone reads its source without a lock.
LEMMA CloneReadsKeeps ==
    ASSUME PublicationInv, NEW r \in Requests, NEW p \in Publications,
           CloneReads(r, p)
    PROVE  PublicationInv'
<1>1. /\ TypeOK /\ StampInv /\ Exclusive /\ \A q \in Requests : Sound(q)
      /\ clock \in Nat /\ clock >= 1
  BY Parts DEF TypeOK, StampInv
<1>2. TypeOK'
  BY <1>1, ReadsType
<1>3. /\ request[r].pc = "idle" /\ request'[r].pc = "clone" /\ request'[r].kind = "clone"
      /\ request'[r].pub = p
      /\ clock' = clock + 1 /\ began'[r] = clock /\ seen'[r] = row[p] /\ row' = row
      /\ announced' = announced
  BY <1>1 DEF CloneReads, Begins, TypeOK, NoRequest
<1>4. Elsewhere(r)
  BY <1>1 DEF CloneReads, Begins, Elsewhere, TypeOK
<1>5. view'[r] = row[p] /\ r \notin holds'
  BY <1>1, <1>3 DEF CloneReads, TypeOK, Sound, Active
<1>6. Sound(r)'
  BY <1>1, <1>3, <1>5 DEF Sound, Active, Current, Target, Undisturbed
<1> QED BY <1>2, <1>3, <1>4, <1>5, <1>6, BeginShape

\* A creation owns the row it inserts.
LEMMA CreateKeeps ==
    ASSUME PublicationInv, NEW r \in Requests, NEW p \in Publications,
           NEW review \in Workflows \cup {NoReview}, Create(r, p, review)
    PROVE  PublicationInv'
<1>1. /\ TypeOK /\ StampInv /\ Exclusive /\ \A q \in Requests : Sound(q)
      /\ clock \in Nat /\ clock >= 1
  BY Parts DEF TypeOK, StampInv
<1>2. TypeOK'
  BY <1>1, ReadsType
<1>3. /\ request[r].pc = "idle" /\ request'[r].pc = "answered" /\ request'[r].kind = "create"
      /\ request'[r].pub = p
      /\ clock' = clock + 1 /\ began'[r] = clock /\ seen'[r] = row[p] /\ row' = row
      /\ announced' = announced
  BY <1>1 DEF Create, Begins, TypeOK, NoRequest
<1>4. Elsewhere(r)
  BY <1>1 DEF Create, Begins, Elsewhere, TypeOK
<1>5. view'[r].updated = clock /\ r \in holds' /\ Free(p)
  BY <1>1, <1>3 DEF Create, TypeOK, NoRow
<1>6. Sound(r)'
  BY <1>1, <1>3, <1>5 DEF Sound, Active, Current, Target, Undisturbed
<1> QED BY <1>2, <1>3, <1>4, <1>5, <1>6, BeginShape

\* The transactions that end without a write.
LEMMA EndsKeep ==
    ASSUME PublicationInv, NEW r \in Requests,
           Refused(r) \/ CommitOfAborted(r) \/ RequestFails(r)
    PROVE  PublicationInv'
<1>1. TypeOK
  BY Parts
<1>2. TypeOK'
  BY <1>1, FinishType
<1>3. Ends(r) /\ row' = row /\ Active(r)
  BY DEF Refused, CommitOfAborted, RequestFails, Active
<1>4. Elsewhere(r) /\ request'[r] = NoRequest /\ r \notin holds' /\ clock' = clock
  BY <1>1, <1>3 DEF Ends, Elsewhere, TypeOK
<1> QED BY <1>2, <1>3, <1>4, EndShape

\* A commit replaces the row by the copy of the holder.
LEMMA CommitKeeps ==
    ASSUME PublicationInv, NEW r \in Requests, Commit(r)
    PROVE  PublicationInv'
<1>1. TypeOK /\ Exclusive /\ Sound(r)
  BY Parts
<1>2. Ends(r) /\ Active(r) /\ request[r].pc = "answered"
  BY DEF Commit, Active
<1>3. request[r].pub \in Publications /\ view[r] \in Row
  BY <1>1, <1>2 DEF Sound, TypeOK
<1>4. TypeOK'
  BY <1>1, <1>3, FinishType
<1>5. Elsewhere(r) /\ request'[r] = NoRequest /\ r \notin holds' /\ clock' = clock
  BY <1>1, <1>2 DEF Ends, Elsewhere, TypeOK
<1>6. CASE r \in holds
  <2>1. view[r].updated = began[r] /\ row' = [row EXCEPT ![request[r].pub] = view[r]]
    BY <1>1, <1>2, <1>6 DEF Sound, Commit
  <2>2. \A q \in holds \ {r} : request[q].pub # request[r].pub
    BY <1>1, <1>6 DEF Exclusive
  <2> QED BY <1>2, <1>3, <1>4, <1>5, <2>1, <2>2, EndShape
<1>7. CASE r \notin holds
  <2>1. row' = row
    BY <1>7 DEF Commit
  <2> QED BY <1>2, <1>4, <1>5, <2>1, EndShape
<1> QED BY <1>6, <1>7

\* The commit of a clone fills a row that nobody holds.
LEMMA CloneCommitsKeeps ==
    ASSUME PublicationInv, NEW r \in Requests, NEW p \in Publications, CloneCommits(r, p)
    PROVE  PublicationInv'
<1>1. TypeOK
  BY Parts
<1>2. TypeOK'
  BY <1>1, FinishType
<1>3. Ends(r) /\ Active(r) /\ \A q \in holds \ {r} : request[q].pub # p
  BY DEF CloneCommits, Active, Free
<1>4. Elsewhere(r) /\ request'[r] = NoRequest /\ r \notin holds' /\ clock' = clock
  BY <1>1, <1>3 DEF Ends, Elsewhere, TypeOK
<1>5. began[r] \in Nat
  BY <1>1 DEF TypeOK
<1>6. PICK v : v = [NoRow EXCEPT !.status = "draft", !.workflow = "draft",
                                 !.updated = began[r]]
  OBVIOUS
<1>7. v \in Row /\ v.updated = began[r] /\ row' = [row EXCEPT ![p] = v]
  BY <1>5, <1>6, RowValues DEF CloneCommits, NoRow
<1> QED BY <1>2, <1>3, <1>4, <1>7, EndShape

\* update_fields on an undisturbed row: the status stays, the workflow is the
\* one of the body.
LEMMA PatchFieldsKeeps ==
    ASSUME PublicationInv, NEW r \in Requests, NEW comments \in BOOLEAN,
           PatchFields(r, comments)
    PROVE  PublicationInv'
<1>1. TypeOK /\ StampInv /\ Sound(r)
  BY Parts
<1>2. /\ request[r].pc = "patch" /\ request[r].kind = "patch" /\ Active(r)
      /\ request[r].pub \in Publications
  BY <1>1 DEF PatchFields, Sound, Active
<1>3. TypeOK'
  BY <1>1, <1>2, PatchFieldsType
<1>4. /\ request'[r].pc = "sync" /\ request'[r].kind = "patch"
      /\ request'[r].pub = request[r].pub /\ request'[r].review = request[r].review
      /\ UNCHANGED <<row, clock, began, seen, answer, announced>>
  BY <1>1, <1>2 DEF PatchFields, Goto, TypeOK, Request
<1>5. Elsewhere(r)
  BY <1>1 DEF PatchFields, Goto, Write, Refresh, Elsewhere, TypeOK
<1>6. r \notin holds
  <2>1. view[r] = seen[r] /\ seen[r].updated # began[r]
    BY <1>1, <1>2 DEF Sound, StampInv
  <2> QED BY <1>1, <1>2, <2>1 DEF Sound
<1>7. Latest(r) = Target(r) /\ Target(r) \in Row /\ began[r] \in Nat
  BY <1>1, <1>2, <1>6 DEF Latest, Target, TypeOK
<1>8. /\ r \in holds' => CanWrite(r) /\ view'[r].updated = began[r]
      /\ r \notin holds' => view'[r] = Target(r)
      /\ view'[r].status = Target(r).status
      /\ view'[r].workflow = IF StoresReview(r, comments) THEN request[r].review
                                                          ELSE Target(r).workflow
  <2>1. CASE /\ request[r].edits \/ StoresReview(r, comments)
             /\ Write(r, [Latest(r) EXCEPT !.workflow =
                            IF StoresReview(r, comments) THEN request[r].review ELSE @])
    BY <1>1, <1>7, <2>1 DEF Write, Stamped, TypeOK, Row
  <2>2. CASE ~StoresReview(r, comments) /\ Refresh(r)
    BY <1>1, <1>6, <1>7, <2>2 DEF Refresh, TypeOK
  <2> QED BY <2>1, <2>2 DEF PatchFields
<1>9. Current(r) => view'[r].workflow = IF request[r].review = Keep THEN Target(r).workflow
                                                                    ELSE request[r].review
  BY <1>1, <1>2, <1>8 DEF StoresReview, Sound
<1>10. Target(r)' = Target(r) /\ (Current(r)' <=> Current(r)) /\ Active(r)'
  BY <1>4 DEF Target, Current, Active
<1>11. Sound(r)'
  BY <1>1, <1>2, <1>4, <1>8, <1>9, <1>10 DEF Sound, Undisturbed
<1> QED BY <1>2, <1>3, <1>4, <1>5, <1>8, <1>10, <1>11, InsideShape

\* What the promotion or demotion leaves in the copy of an undisturbed row, and
\* what the PATCH answers.
LEMMA PatchStatusResult ==
    ASSUME TypeOK, NEW r \in Requests, Sound(r), PatchStatus(r),
           request[r].pub \in Publications
    PROVE  /\ r \in holds' => CanWrite(r) /\ view'[r].updated = began[r]
           /\ r \notin holds' => r \notin holds /\ view'[r] = view[r]
           /\ Current(r) /\ InSync(Target(r)) =>
                 /\ InSync(view'[r])
                 /\ answer'[r] = view'[r].updated
                 /\ ~Visible(Target(r)) /\ Visible(view'[r]) => r \in announced'
<1>1. /\ view[r] \in Row /\ Latest(r) \in Row /\ began[r] \in Nat /\ Target(r) \in Row
      /\ PublishedRow(r) \in Row
  BY CopyTypes DEF TypeOK, Target
<1>2. request[r].pc = "sync" /\ Active(r)
  BY DEF PatchStatus, Active
<1>3. Current(r) => /\ seen[r] = Target(r)
                    /\ Latest(r) = view[r]
                    /\ r \notin holds => view[r] = Target(r)
                    /\ view[r].status = Target(r).status
                    /\ view[r].workflow = IF request[r].review = Keep
                                             THEN Target(r).workflow ELSE request[r].review
  BY <1>2 DEF Sound, Latest, Target
<1>4. NoReview \notin {"published", "draft"} /\ Keep \notin {"published", "draft"}
      /\ Keep \notin Workflows
  BY PublicationConstants
<1>5. request[r].review \in Workflows \cup {NoReview, Keep}
  BY DEF TypeOK, Request
<1>6. CASE /\ Promotes(r) /\ Write(r, PublishedRow(r))
           /\ answer' = [answer EXCEPT ![r] = AnswerTag(r, Stamped(r, PublishedRow(r)))]
  <2>1. /\ r \in holds' /\ CanWrite(r) /\ view'[r] = Stamped(r, PublishedRow(r))
        /\ answer'[r] = began[r]
    BY <1>1, <1>6 DEF Write, TypeOK, AnswerTag, Stamped, Row
  <2>2. /\ view'[r].updated = began[r] /\ view'[r].status = "published"
        /\ view'[r].workflow = Latest(r).workflow
    BY <1>1, <2>1 DEF Stamped, PublishedRow, Row
  <2>3. ASSUME Current(r), InSync(Target(r))
        PROVE  InSync(view'[r]) /\ r \in announced'
    <3>1. view'[r].workflow = "published"
      BY <1>3, <1>4, <1>6, <2>2, <2>3 DEF Promotes
    <3>2. seen[r].workflow # "published"
      BY <1>3, <1>4, <1>6, <2>3 DEF Promotes, InSync, Visible
    <3>3. r \in announced'
      BY <1>6, <3>2 DEF Promotes, Announces, PatchStatus
    <3> QED BY <2>2, <3>1, <3>3 DEF InSync, Visible
  <2> QED BY <2>1, <2>2, <2>3
<1>7. CASE /\ Demotes(r) /\ Write(r, [Latest(r) EXCEPT !.status = "draft"])
           /\ answer' = [answer EXCEPT ![r] = AnswerTag(r, view[r])]
  <2>1. /\ r \in holds' /\ CanWrite(r) /\ answer'[r] = view[r].updated
        /\ view'[r] = Stamped(r, [Latest(r) EXCEPT !.status = "draft"])
    BY <1>1, <1>7 DEF Write, TypeOK, AnswerTag
  <2>2. /\ view'[r].updated = began[r] /\ view'[r].status = "draft"
        /\ view'[r].workflow = Latest(r).workflow
    BY <1>1, <2>1 DEF Stamped, Row
  <2>3. ASSUME Current(r), InSync(Target(r))
        PROVE  InSync(view'[r]) /\ view[r].updated = began[r]
    <3>1. /\ request[r].review \in Workflows \ {"published"} /\ Visible(view[r])
          /\ view'[r].workflow = request[r].review
      BY <1>3, <1>4, <1>7, <2>2, <2>3 DEF Demotes
    <3>2. r \in holds
      <4>1. SUFFICES ASSUME r \notin holds PROVE FALSE
        OBVIOUS
      <4>2. Target(r).workflow = request[r].review /\ Visible(Target(r))
        BY <1>3, <1>4, <2>3, <3>1, <4>1 DEF Visible
      <4> QED BY <2>3, <3>1, <4>2, PublicationConstants DEF InSync
    <3> QED BY <1>2, <2>2, <3>1, <3>2 DEF InSync, Visible, Sound
  <2> QED BY <2>1, <2>2, <2>3 DEF Visible
<1>8. CASE /\ ~Promotes(r) /\ ~Demotes(r) /\ UNCHANGED <<view, holds>>
           /\ answer' = [answer EXCEPT ![r] = AnswerTag(r, view[r])]
  <2>1. answer'[r] = view[r].updated /\ view'[r] = view[r]
    BY <1>8 DEF TypeOK, AnswerTag
  <2>2. r \in holds' => CanWrite(r) /\ view[r].updated = began[r]
    BY <1>2, <1>8 DEF CanWrite, Sound
  <2>3. ASSUME Current(r), InSync(Target(r)) PROVE InSync(view[r])
    BY <1>3, <1>5, <1>8, <2>3 DEF Promotes, Demotes, InSync, Visible
  <2>4. Current(r) => (Visible(view[r]) <=> Visible(Target(r)))
    BY <1>3 DEF Visible
  <2> QED BY <1>8, <2>1, <2>2, <2>3, <2>4
<1> QED BY <1>6, <1>7, <1>8 DEF PatchStatus

\* The promotion or demotion keeps the invariant.
LEMMA PatchStatusKeeps ==
    ASSUME PublicationInv, NEW r \in Requests, PatchStatus(r)
    PROVE  PublicationInv'
<1>1. TypeOK /\ Sound(r)
  BY Parts
<1>2. /\ request[r].pc = "sync" /\ request[r].kind = "patch" /\ Active(r)
      /\ request[r].pub \in Publications
  BY <1>1 DEF PatchStatus, Sound, Active
<1>3. TypeOK'
  BY <1>1, <1>2, PatchStatusType
<1>4. /\ request'[r].pc = "answered" /\ request'[r].kind = "patch"
      /\ request'[r].pub = request[r].pub
      /\ UNCHANGED <<row, clock, began, seen>>
  BY <1>1, <1>2 DEF PatchStatus, Goto, TypeOK, Request
<1>5. Elsewhere(r)
  BY <1>1 DEF PatchStatus, Goto, Write, Elsewhere, TypeOK
<1>6. /\ r \in holds' => CanWrite(r) /\ view'[r].updated = began[r]
      /\ r \notin holds' => r \notin holds /\ view'[r] = view[r]
      /\ Current(r) /\ InSync(Target(r)) =>
            /\ InSync(view'[r])
            /\ answer'[r] = view'[r].updated
            /\ ~Visible(Target(r)) /\ Visible(view'[r]) => r \in announced'
  BY <1>1, <1>2, PatchStatusResult
<1>7. Target(r)' = Target(r) /\ (Current(r)' <=> Current(r)) /\ Active(r)'
  BY <1>4 DEF Target, Current, Active
<1>8. Current(r) => seen[r] = Target(r) /\ (r \notin holds => view[r] = Target(r))
  BY <1>1, <1>2 DEF Sound
<1>9. Current(r) => Latest(r)' = view'[r]
  BY <1>4, <1>6, <1>8 DEF Latest, Target
<1>10. Undisturbed(r)' => Current(r) /\ InSync(Target(r))
  BY <1>4 DEF Undisturbed, Current, Target
<1>11. Sound(r)'
  <2>1. /\ Undisturbed(r)' => InSync(Latest(r)')
        /\ Undisturbed(r)' => answer'[r] = Latest(r)'.updated
        /\ Undisturbed(r)' /\ ~Visible(Target(r)') /\ Visible(Latest(r)') => r \in announced'
    BY <1>6, <1>7, <1>9, <1>10
  <2>2. Current(r)' => seen'[r] = Target(r)' /\ (r \notin holds' => view'[r] = Target(r)')
    BY <1>4, <1>6, <1>7, <1>8
  <2> QED BY <1>1, <1>2, <1>4, <1>6, <1>7, <2>1, <2>2 DEF Sound, Target
<1> QED BY <1>2, <1>3, <1>4, <1>5, <1>6, <1>7, <1>11, InsideShape

\* A publish writes the row it has locked.
LEMMA PublishRowKeeps ==
    ASSUME PublicationInv, NEW r \in Requests, NEW refused \in BOOLEAN,
           PublishRow(r, refused)
    PROVE  PublicationInv'
<1>1. TypeOK /\ Sound(r)
  BY Parts
<1>2. /\ request[r].pc = "publish" /\ request[r].kind = "publish" /\ Active(r)
      /\ request[r].pub \in Publications
  BY <1>1 DEF PublishRow, Sound, Active
<1>3. TypeOK'
  BY <1>1, <1>2, PublishRowType
<1>4. /\ request'[r].pc \in {"answered", "aborted"} /\ request'[r].kind = "publish"
      /\ request'[r].pub = request[r].pub /\ request'[r].tag = request[r].tag
      /\ UNCHANGED <<row, clock, began, seen>>
  BY <1>1, <1>2 DEF PublishRow, Goto, TypeOK, Request
<1>5. Elsewhere(r)
  BY <1>1 DEF PublishRow, Goto, Write, Elsewhere, TypeOK
<1>6. r \in holds /\ Current(r) /\ seen[r] = Target(r)
  BY <1>1, <1>2 DEF Sound
<1>7. r \in holds' /\ CanWrite(r) /\ r \in announced' /\ Matches(r)
  BY DEF PublishRow, Write
<1>8. PublishedRow(r) \in Row /\ PublishedRow(r).status = "published"
  BY <1>1, <1>2, CopyTypes DEF PublishedRow, Row
<1>9. view'[r].updated = began[r] /\ InSync(view'[r])
  <2>1. view'[r] = Stamped(r, Mirrored(PublishedRow(r), "published"))
    BY <1>1 DEF PublishRow, Write, TypeOK
  <2>2. /\ view'[r].updated = began[r] /\ view'[r].status = "published"
        /\ view'[r].workflow \in {NoReview, "published"}
    BY <1>8, <2>1 DEF Stamped, Mirrored, Row
  <2> QED BY <2>2 DEF InSync, Visible
<1>10. /\ Target(r)' = Target(r) /\ Current(r)' /\ Active(r)' /\ Matches(r)'
       /\ Latest(r)' = view'[r]
  BY <1>4, <1>6, <1>7 DEF Target, Current, Active, Matches, Latest
<1>11. Sound(r)'
  BY <1>1, <1>2, <1>4, <1>6, <1>7, <1>9, <1>10 DEF Sound, Target
<1> QED BY <1>2, <1>3, <1>4, <1>5, <1>7, <1>10, <1>11, InsideShape

\* An unpublish on an undisturbed row hides it.
LEMMA UnpublishRowKeeps ==
    ASSUME PublicationInv, NEW r \in Requests, UnpublishRow(r)
    PROVE  PublicationInv'
<1>1. TypeOK /\ StampInv /\ Sound(r)
  BY Parts
<1>2. /\ request[r].pc = "unpublish" /\ request[r].kind = "unpublish" /\ Active(r)
      /\ request[r].pub \in Publications
  BY <1>1 DEF UnpublishRow, Sound, Active
<1>3. TypeOK'
  BY <1>1, <1>2, UnpublishType
<1>4. /\ request'[r].pc = "mirror" /\ request'[r].kind = "unpublish"
      /\ request'[r].pub = request[r].pub
      /\ UNCHANGED <<row, clock, began, seen, answer, announced>>
  BY <1>1, <1>2 DEF UnpublishRow, Goto, TypeOK, Request
<1>5. Elsewhere(r)
  BY <1>1 DEF UnpublishRow, Goto, Write, Refresh, Elsewhere, TypeOK
<1>6. view[r] = seen[r] /\ r \notin holds
  <2>1. view[r] = seen[r] /\ seen[r].updated # began[r]
    BY <1>1, <1>2 DEF Sound, StampInv
  <2> QED BY <1>1, <1>2, <2>1 DEF Sound
<1>7. Latest(r) = Target(r) /\ Target(r) \in Row /\ began[r] \in Nat
  BY <1>1, <1>2, <1>6 DEF Latest, Target, TypeOK
<1>8. Current(r) => seen[r] = Target(r)
  BY <1>1, <1>2 DEF Sound
<1>9. /\ r \in holds' => CanWrite(r) /\ view'[r].updated = began[r]
      /\ r \notin holds' => view'[r] = Target(r)
      /\ Current(r) => ~Visible(view'[r])
  <2>1. CASE Write(r, [Latest(r) EXCEPT !.status = "draft"])
    BY <1>1, <1>7, <2>1 DEF Write, Stamped, TypeOK, Row, Visible
  <2>2. CASE ~Visible(view[r]) /\ Refresh(r)
    BY <1>1, <1>6, <1>7, <1>8, <2>2 DEF Refresh, TypeOK
  <2> QED BY <2>1, <2>2 DEF UnpublishRow
<1>10. Target(r)' = Target(r) /\ (Current(r)' <=> Current(r)) /\ Active(r)'
  BY <1>4 DEF Target, Current, Active
<1>11. Visible(view[r])' <=> Visible(view'[r])
  BY DEF Visible
<1>12. Sound(r)'
  BY <1>1, <1>2, <1>4, <1>8, <1>9, <1>10, <1>11 DEF Sound, Undisturbed
<1> QED BY <1>2, <1>3, <1>4, <1>5, <1>9, <1>10, <1>12, InsideShape

\* The mirror of an unpublish puts the workflow beside the status.
LEMMA UnpublishMirrorsKeeps ==
    ASSUME PublicationInv, NEW r \in Requests, UnpublishMirrors(r)
    PROVE  PublicationInv'
<1>1. TypeOK /\ Sound(r)
  BY Parts
<1>2. /\ request[r].pc = "mirror" /\ request[r].kind = "unpublish" /\ Active(r)
      /\ request[r].pub \in Publications
  BY <1>1 DEF UnpublishMirrors, Sound, Active
<1>3. TypeOK'
  BY <1>1, <1>2, UnpublishType
<1>4. /\ request'[r].pc = "answered" /\ request'[r].kind = "unpublish"
      /\ request'[r].pub = request[r].pub
      /\ UNCHANGED <<row, clock, began, seen, answer, announced>>
  BY <1>1, <1>2 DEF UnpublishMirrors, Goto, TypeOK, Request
<1>5. Elsewhere(r)
  BY <1>1 DEF UnpublishMirrors, Goto, Write, Elsewhere, TypeOK
<1>6. Current(r) => /\ seen[r] = Target(r) /\ ~Visible(view[r])
                    /\ r \notin holds => view[r] = Target(r)
                    /\ Latest(r) = view[r]
  BY <1>1, <1>2 DEF Sound, Latest, Target
<1>7. Latest(r) \in Row /\ began[r] \in Nat /\ "published" # "draft"
  BY <1>1, <1>2, CopyTypes DEF TypeOK
<1>8. /\ r \in holds' => CanWrite(r) /\ view'[r].updated = began[r]
      /\ r \notin holds' => r \notin holds /\ view'[r] = view[r]
      /\ Current(r) => ~Visible(view'[r]) /\ InSync(view'[r])
  <2>1. CASE Write(r, [Latest(r) EXCEPT !.workflow = "draft"])
    <3>1. /\ r \in holds' /\ CanWrite(r) /\ view'[r].updated = began[r]
          /\ view'[r].status = Latest(r).status /\ view'[r].workflow = "draft"
      BY <1>1, <1>7, <2>1 DEF Write, Stamped, TypeOK, Row
    <3> QED BY <1>6, <1>7, <3>1 DEF InSync, Visible
  <2>2. CASE view[r].workflow = NoReview /\ UNCHANGED <<view, holds>>
    BY <1>1, <1>2, <1>6, <2>2 DEF CanWrite, Sound, InSync
  <2> QED BY <2>1, <2>2 DEF UnpublishMirrors
<1>9. Target(r)' = Target(r) /\ (Current(r)' <=> Current(r)) /\ Active(r)'
  BY <1>4 DEF Target, Current, Active
<1>10. Current(r) => Latest(r)' = view'[r]
  BY <1>4, <1>6, <1>8 DEF Latest, Target
<1>11. Undisturbed(r)' => Current(r)
  BY <1>4 DEF Undisturbed, Current, Target
<1>12. Sound(r)'
  <2>1. Current(r) => ~Visible(Latest(r)') /\ InSync(Latest(r)')
    BY <1>8, <1>10
  <2>2. Current(r)' => seen'[r] = Target(r)' /\ (r \notin holds' => view'[r] = Target(r)')
    BY <1>4, <1>6, <1>8, <1>9
  <2> QED BY <1>1, <1>2, <1>4, <1>8, <1>9, <1>11, <2>1, <2>2 DEF Sound, Target
<1> QED BY <1>2, <1>3, <1>4, <1>5, <1>8, <1>9, <1>12, InsideShape

-----------------------------------------------------------------------------
(* The theorems.                                                            *)

\* No row and no request: the invariant holds at the start.
LEMMA InitKeeps == Init => PublicationInv
<1> SUFFICES ASSUME Init PROVE PublicationInv
  OBVIOUS
<1>1. TypeOK
  <2>1. NoRow \in Row
    BY RowValues
  <2>2. NoRequest \in Request
    BY PublicationConstants DEF NoRequest, Request, Endpoints
  <2> QED BY <2>1, <2>2 DEF Init, TypeOK
<1>2. \A r \in Requests : request[r].pc = "idle" /\ request[r].kind = "patch" /\ r \notin holds
  BY DEF Init, NoRequest
<1>3. ControlInv /\ LockInv /\ CopyInv /\ PublishInv /\ PatchInv /\ UnpublishInv
  BY <1>2 DEF Init, ControlInv, LockInv, CopyInv, PublishInv, PatchInv, UnpublishInv, Active
<1>4. StampInv
  BY <1>2 DEF Init, StampInv, Active, NoRow
<1>5. SyncKept /\ TagKept /\ AnnouncedKept
  BY <1>2 DEF SyncKept, TagKept, AnnouncedKept, Undisturbed
<1> QED BY <1>1, <1>3, <1>4, <1>5 DEF PublicationInv

\* A stuttering step.
LEMMA StutterKeeps ==
    ASSUME PublicationInv, UNCHANGED vars
    PROVE  PublicationInv'
<1>1. /\ TypeOK /\ StampInv /\ Exclusive /\ \A q \in Requests : Sound(q)
      /\ UNCHANGED <<row, clock, request, began, seen, view, holds, answer, announced, faults>>
  BY Parts DEF vars
<1>2. TypeOK' /\ StampInv' /\ Exclusive'
  BY <1>1 DEF TypeOK, StampInv, Exclusive, Active
<1>3. ASSUME NEW q \in Requests PROVE Sound(q)'
  BY <1>1, Bystander DEF TypeOK
<1> QED BY <1>2, <1>3, Whole

\* Every step of every request keeps the invariant.
LEMMA NextKeeps == PublicationInv /\ [Next]_vars => PublicationInv'
<1> SUFFICES ASSUME PublicationInv, [Next]_vars PROVE PublicationInv'
  OBVIOUS
<1>1. CASE UNCHANGED vars
  BY <1>1, StutterKeeps
<1>2. ASSUME NEW r \in Requests, Patch(r) PROVE PublicationInv'
  BY <1>2, PatchReadsKeeps, PatchFieldsKeeps, PatchStatusKeeps DEF Patch
<1>3. ASSUME NEW r \in Requests, Publish(r) PROVE PublicationInv'
  BY <1>3, PublishReadsKeeps, PublishRowKeeps DEF Publish
<1>4. ASSUME NEW r \in Requests, Unpublish(r) PROVE PublicationInv'
  BY <1>4, UnpublishReadsKeeps, UnpublishRowKeeps, UnpublishMirrorsKeeps DEF Unpublish
<1>5. ASSUME NEW r \in Requests, New(r) PROVE PublicationInv'
  BY <1>5, CreateKeeps, CloneReadsKeeps, CloneCommitsKeeps DEF New
<1>6. ASSUME NEW r \in Requests, Finish(r) PROVE PublicationInv'
  BY <1>6, EndsKeep, CommitKeeps DEF Finish
<1> QED BY <1>1, <1>2, <1>3, <1>4, <1>5, <1>6 DEF Next

\* The inductive invariant holds in every reachable state.
THEOREM PublicationInvariance == Spec => []PublicationInv
<1> QED BY InitKeeps, NextKeeps, PTL DEF Spec

\* Rows, copies and local variables always have their types.
THEOREM TypeCorrect == Spec => []TypeOK
<1>1. PublicationInv => TypeOK
  BY DEF PublicationInv
<1> QED BY <1>1, PublicationInvariance, PTL

\* The row lock makes the If-Match of a publish sound: nobody replaces the row
\* between the check and the commit.
THEOREM PublishesGuarded == Spec => []PublishGuarded
<1>1. PublicationInv => PublishGuarded
  <2> SUFFICES ASSUME PublicationInv, NEW r \in Requests,
                      request[r].kind = "publish", request[r].pc = "answered",
                      request[r].tag # 0
               PROVE  row[request[r].pub].updated = request[r].tag
    BY DEF PublishGuarded
  <2>1. Current(r) /\ Matches(r)
    BY DEF PublicationInv, PublishInv
  <2> QED BY <2>1 DEF Current, Target, Matches
<1> QED BY <1>1, PublicationInvariance, PTL

\* A handler that nobody overtakes leaves status and workflow in step.
THEOREM SyncPreserved == Spec => []SyncKept
<1>1. PublicationInv => SyncKept
  BY DEF PublicationInv
<1> QED BY <1>1, PublicationInvariance, PTL

\* The ETag of an undisturbed PATCH is the committed one, although update_status
\* leaves the object that is hashed as it was.
THEOREM TagPreserved == Spec => []TagKept
<1>1. PublicationInv => TagKept
  BY DEF PublicationInv
<1> QED BY <1>1, PublicationInvariance, PTL

\* An undisturbed handler that makes a row visible logs it.
THEOREM AnnouncementsPreserved == Spec => []AnnouncedKept
<1>1. PublicationInv => AnnouncedKept
  BY DEF PublicationInv
<1> QED BY <1>1, PublicationInvariance, PTL
=============================================================================
