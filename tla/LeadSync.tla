------------------------------ MODULE LeadSync ------------------------------
(***************************************************************************)
(* The newsletter: POST /admin/leads/resync takes the oldest leads that    *)
(* are neither synchronised nor refused for good, adds each address to the *)
(* email service (ESP) with up to three attempts, and marks the rows.      *)
(*                                                                         *)
(* A resync is one transaction, READ COMMITTED: what it has marked is in   *)
(* its own record until its commit, and holds the rows until then.  The    *)
(* background task of a capture would do the same for one lead, but runs   *)
(* before the lead is committed and finds none (LeadCapture, Score), so    *)
(* that every lead is left to the resync; so are sponsorship inquiries,    *)
(* which are saved as leads too.                                           *)
(***************************************************************************)
EXTENDS Naturals, FiniteSets

CONSTANTS
    Leads,        \* rows of the leads table, in the order they are created
    Email,        \* lead |-> its address; one address may ask for several assets
    Inquiries,    \* those of sponsorship inquiries, one for an address
    Personal,     \* addresses at the providers of personal mail
    Resyncs,      \* concurrent requests
    Limit,        \* leads in one resync (100 in the code)
    MaxAttempts   \* _MAX_ATTEMPTS

ASSUME SyncConstants ==
    /\ Leads \subseteq Nat \ {0} /\ Inquiries \subseteq Leads
    /\ \A k, l \in Inquiries : Email[k] = Email[l] => k = l
    /\ Limit \in Nat \ {0} /\ MaxAttempts \in Nat \ {0}

VARIABLES
    saved,      \* committed leads
    synced,     \* of these, those with esp_synced
    failed,     \* of these, those with esp_sync_failed_permanent
    accepted,   \* addresses the ESP has accepted
    refused,    \* addresses the ESP has answered with 4xx
    resync      \* the local variables of resync_leads

syncVars == <<saved, synced, failed, accepted, refused, resync>>

Emails == {Email[l] : l \in Leads}

NoResync == [pc |-> "idle", todo |-> {}, lead |-> 0, attempt |-> 0,
             synced |-> {}, failed |-> {}]

At(r, pc) == resync[r].pc = pc
Goto(r, pc) == resync' = [resync EXCEPT ![r].pc = pc, ![r].attempt = 0]
Address(r) == Email[resync[r].lead]

-----------------------------------------------------------------------------
(* Leads are saved by other requests.                                       *)

\* The commit, which may come in another order than the creation.
Save(l) ==
    /\ l \notin saved
    /\ saved' = saved \cup {l}
    /\ UNCHANGED <<synced, failed, accepted, refused, resync>>

\* capture_lead, for a pair that is new.
CaptureLead(l) == l \notin Inquiries /\ Save(l)

\* sponsorship_inquire: personal addresses are turned away before anything is saved.
Inquire(l) == l \in Inquiries /\ Email[l] \notin Personal /\ Save(l)

-----------------------------------------------------------------------------
(* POST /api/v1/admin/leads/resync.                                         *)

\* get_unsynced: the oldest ones, up to the limit.
Unsynced == saved \ (synced \cup failed)
Oldest(S) == {l \in S : Cardinality({k \in S : k < l}) < Limit}

Begin(r) ==
    /\ At(r, "idle")
    /\ Unsynced # {}
    /\ resync' = [resync EXCEPT ![r] = [NoResync EXCEPT !.pc = "next", !.todo = Oldest(Unsynced)]]
    /\ UNCHANGED <<saved, synced, failed, accepted, refused>>

AnyOrder(S) == S
\* ORDER BY created_at: all requests go through the leads in one order.
InOrder(S) == {l \in S : \A k \in S : l <= k}

Take(r) ==
    /\ At(r, "next")
    /\ \E l \in InOrder(resync[r].todo) :
          resync' = [resync EXCEPT ![r].pc = "call", ![r].todo = @ \ {l}, ![r].lead = l]
    /\ UNCHANGED <<saved, synced, failed, accepted, refused>>

\* add_subscriber: any status below 400, a redirect included, counts as accepted.
Accept(r) ==
    /\ At(r, "call")
    /\ accepted' = accepted \cup {Address(r)}
    /\ Goto(r, "synced")
    /\ UNCHANGED <<saved, synced, failed, refused>>

\* 4xx: ESPPermanentError.
Refuse(r) ==
    /\ At(r, "call")
    /\ refused' = refused \cup {Address(r)}
    /\ Goto(r, "failed")
    /\ UNCHANGED <<saved, synced, failed, accepted>>

OnToNext(r) == [resync[r] EXCEPT !.pc = "next", !.lead = 0, !.attempt = 0]

ExhaustedAsSynced(r) == [resync EXCEPT ![r].pc = "synced"]
\* After the last attempt the lead is left as it is.
Exhausted(r) == [resync EXCEPT ![r] = OnToNext(r)]

\* 5xx or a timeout, after which the ESP may have the address or not.
NoAnswer(r) ==
    /\ At(r, "call")
    /\ accepted' \in {accepted, accepted \cup {Address(r)}}
    /\ resync' = IF resync[r].attempt + 1 < MaxAttempts
                 THEN [resync EXCEPT ![r].attempt = @ + 1]
                 ELSE Exhausted(r)
    /\ UNCHANGED <<saved, synced, failed, refused>>

\* An UPDATE waits for the rows that another resync has marked, and then marks them too.
Marks(r) == resync[r].synced \cup resync[r].failed
Unmarked(r) == \A q \in Resyncs \ {r} : resync[r].lead \notin Marks(q)

MarkSynced(r) ==
    /\ At(r, "synced")
    /\ Unmarked(r)
    /\ resync' = [resync EXCEPT ![r] = [OnToNext(r) EXCEPT !.synced = @ \cup {resync[r].lead}]]
    /\ UNCHANGED <<saved, synced, failed, accepted, refused>>

MarkFailed(r) ==
    /\ At(r, "failed")
    /\ Unmarked(r)
    /\ resync' = [resync EXCEPT ![r] = [OnToNext(r) EXCEPT !.failed = @ \cup {resync[r].lead}]]
    /\ UNCHANGED <<saved, synced, failed, accepted, refused>>

CommitMarks(r) ==
    /\ At(r, "next") /\ resync[r].todo = {}
    /\ synced' = synced \cup resync[r].synced
    /\ failed' = failed \cup resync[r].failed
    /\ resync' = [resync EXCEPT ![r] = NoResync]
    /\ UNCHANGED <<saved, accepted, refused>>

\* A transport error that _request does not translate, a refused statement or an exit:
\* everything the request has marked is rolled back.
Abort(r) ==
    /\ ~At(r, "idle")
    /\ resync' = [resync EXCEPT ![r] = NoResync]
    /\ UNCHANGED <<saved, synced, failed, accepted, refused>>

-----------------------------------------------------------------------------
SyncInit ==
    /\ saved = {} /\ synced = {} /\ failed = {}
    /\ accepted = {} /\ refused = {}
    /\ resync = [r \in Resyncs |-> NoResync]

Answer(r) == Accept(r) \/ Refuse(r) \/ NoAnswer(r)
Mark(r) == MarkSynced(r) \/ MarkFailed(r)

SyncNext ==
    \/ \E l \in Leads : CaptureLead(l) \/ Inquire(l)
    \/ \E r \in Resyncs : Begin(r) \/ Take(r) \/ Answer(r) \/ Mark(r) \/ CommitMarks(r) \/ Abort(r)

SyncSpec == SyncInit /\ [][SyncNext]_syncVars

\* A request goes on, the ESP answers or the call times out (15 s), and PostgreSQL
\* grants a row lock in the order of its queue.
FairSyncSpec ==
    /\ SyncSpec
    /\ \A r \in Resyncs : WF_syncVars(Take(r) \/ Answer(r) \/ CommitMarks(r)) /\ SF_syncVars(Mark(r))

-----------------------------------------------------------------------------
(* Properties.                                                              *)

SyncTypeOK ==
    /\ saved \subseteq Leads /\ synced \subseteq saved /\ failed \subseteq saved
    /\ accepted \subseteq Emails /\ refused \subseteq Emails
    /\ resync \in [Resyncs -> [pc : {"idle", "next", "call", "synced", "failed"},
                               todo : SUBSET Leads, lead : Leads \cup {0}, attempt : Nat,
                               synced : SUBSET Leads, failed : SUBSET Leads]]

\* esp_client.py:76: a lead that is marked, or about to be, got that answer for its
\* address, whatever other requests, aborted ones and lost answers came in between.
MarksGenuine ==
    /\ \A l \in synced : Email[l] \in accepted
    /\ \A l \in failed : Email[l] \in refused
    /\ \A r \in Resyncs :
         /\ \A l \in resync[r].synced : Email[l] \in accepted
         /\ \A l \in resync[r].failed : Email[l] \in refused
         /\ At(r, "synced") => Address(r) \in accepted
         /\ At(r, "failed") => Address(r) \in refused

\* ResyncResult: no lead is counted both as synchronised and as refused, or taken twice.
CountedOnce ==
    \A r \in Resyncs :
        /\ resync[r].synced \cap resync[r].failed = {}
        /\ Marks(r) \cap (resync[r].todo \cup {resync[r].lead}) = {}
        /\ resync[r].lead \notin resync[r].todo

\* Rows are locked by one request at a time.
LocksExclude == \A q, r \in Resyncs : q # r => Marks(q) \cap Marks(r) = {}

\* Requests work on leads that are in the table.
LeadsExist ==
    \A r \in Resyncs :
        /\ Marks(r) \cup resync[r].todo \subseteq saved
        /\ resync[r].pc \in {"call", "synced", "failed"} => resync[r].lead \in saved

SyncInv == SyncTypeOK /\ MarksGenuine /\ CountedOnce /\ LocksExclude /\ LeadsExist

\* Resyncs that wait for each other's rows end: they lock them in one order
\* (lead_repository.py:338).
ResyncsEnd == \A r \in Resyncs : ~At(r, "idle") ~> At(r, "idle")
=============================================================================
