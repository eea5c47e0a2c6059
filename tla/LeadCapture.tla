---------------------------- MODULE LeadCapture ----------------------------
(***************************************************************************)
(* Trading an email address for a download link: POST /leads/capture saves *)
(* the lead, issues a download token and mails the link; GET /download     *)
(* turns a link into a presigned URL a limited number of times.            *)
(*                                                                         *)
(* A request works in one transaction, at READ COMMITTED, from its first   *)
(* statement to the commit in get_db.  FastAPI (0.118 and later; the lock  *)
(* file has 0.135.3) runs the part of a dependency after its yield when    *)
(* the response and its background tasks are over, so the link is mailed   *)
(* and the redirect sent while the transaction is still open.  What a      *)
(* request has written and not committed is in its own record; `leads` and *)
(* `tokens` are what everyone else sees.                                   *)
(***************************************************************************)
EXTENDS Naturals

CONSTANTS
    Requests,     \* concurrent capture requests
    Downloads,    \* concurrent download requests
    IPs,
    Pairs,        \* an email address and the asset it asks for
    Nobody,
    MaxTokens,    \* bound: ids the sequence hands out to new leads
    MaxUses,      \* settings.max_token_uses (5 in the code)
    MaxExits,     \* bound: process exits
    MaxFaults     \* bound: statements the database refuses

Tokens == 1..MaxTokens

ASSUME LeadConstants ==
    /\ Nobody \notin IPs \cup Pairs
    /\ MaxTokens \in Nat
    /\ MaxUses \in Nat \ {0}
    /\ MaxExits \in Nat
    /\ MaxFaults \in Nat

VARIABLES
    leads,      \* committed rows; "tagged" ones carry UTM fields
    tokens,     \* committed rows; "open" ids belong to an open transaction
    nextToken,  \* the id sequence
    request,    \* the local variables of capture_lead
    download,   \* the local variables of download_file
    recent,     \* addresses that used up _resend_rate_limiter's window
    exits, faults,
    mailed,     \* tokens whose link has been mailed
    granted,    \* redirects sent, per token
    lost        \* redirects sent by transactions that never committed

vars == <<leads, tokens, nextToken, request, download, recent, exits, faults,
          mailed, granted, lost>>

NoRequest == [pc |-> "idle", ip |-> Nobody, pair |-> Nobody, tagged |-> FALSE,
              old |-> 0, token |-> 0]
NoDownload == [pc |-> "idle", token |-> 0]

-----------------------------------------------------------------------------
(* Transactions.                                                            *)

New == {"email", "score", "commit"}
Resending == {"backfill", "read", "revoke", "renew"}

InsertsElsewhere(c, p) == FALSE

\* The request has inserted the lead and not committed.
Inserts(c, p) == request[c].pair = p /\ request[c].pc \in New

\* _backfill_utm: a lead without attribution takes that of a resend; the update
\* holds its row until the request ends.
Backfills(c) == request[c].tagged /\ ~leads[request[c].pair].tagged
LocksLead(c, p) == /\ request[c].pair = p /\ Backfills(c)
                   /\ request[c].pc \in {"read", "revoke", "renew"}

\* A lock on a token's row: its revocation, or the count of a use.
Revokes(c, t) == request[c].old = t /\ request[c].pc = "renew"
Uses(d, t) == download[d].token = t /\ download[d].pc \in {"lookup", "commit"}
UnlockedByCaptures(t) == \A c \in Requests : ~Revokes(c, t)
Unlocked(t) == /\ \A c \in Requests : ~Revokes(c, t)
               /\ \A d \in Downloads : ~Uses(d, t)

-----------------------------------------------------------------------------
(* POST /api/v1/public/leads/capture.                                       *)

\* The rate limit, the CAPTCHA and the check that the asset is published are
\* behind the request: a refusal there touches nothing that is modelled.
Arrive(c, ip, p, tagged) ==
    /\ request[c].pc = "idle"
    /\ request' = [request EXCEPT ![c] = [NoRequest EXCEPT
                     !.pc = "insert", !.ip = ip, !.pair = p, !.tagged = tagged]]
    /\ UNCHANGED <<leads, tokens, nextToken, download, recent, exits, faults,
                   mailed, granted, lost>>

OpenToken(p) == [status |-> "open", pair |-> p, uses |-> 0, expired |-> FALSE]

\* get_or_create: the insert waits for an uncommitted one of the same pair.  A
\* new lead gets a token in the same transaction.
InsertNew(c) ==
    /\ request[c].pc = "insert"
    /\ \A d \in Requests : ~Inserts(d, request[c].pair)
    /\ ~leads[request[c].pair].saved
    /\ nextToken \in Tokens
    /\ tokens' = [tokens EXCEPT ![nextToken] = OpenToken(request[c].pair)]
    /\ nextToken' = nextToken + 1
    /\ request' = [request EXCEPT ![c] = [@ EXCEPT !.pc = "email", !.token = nextToken]]
    /\ UNCHANGED <<leads, download, recent, exits, faults, mailed, granted, lost>>

\* On a conflict the session is rolled back, which expires the publication the
\* request has loaded, and the lead is read.
InsertConflicts(c) ==
    /\ request[c].pc = "insert"
    /\ \A d \in Requests : ~Inserts(d, request[c].pair)
    /\ leads[request[c].pair].saved
    /\ request' = [request EXCEPT ![c] = [@ EXCEPT !.pc = "backfill"]]
    /\ UNCHANGED <<leads, tokens, nextToken, download, recent, exits, faults,
                   mailed, granted, lost>>

\* The resend limiter lets one request per address and window through; a
\* refused one is rolled back.
LimitedStaysOpen(c) == [request EXCEPT ![c] = [@ EXCEPT !.pc = "open"]]
Limited(c) == [request EXCEPT ![c] = NoRequest]

Resend(c) ==
    /\ request[c].pc = "backfill"
    /\ Backfills(c) => \A d \in Requests : ~LocksLead(d, request[c].pair)
    /\ IF request[c].ip \in recent
       THEN request' = Limited(c) /\ UNCHANGED recent
       ELSE /\ request' = [request EXCEPT ![c] = [@ EXCEPT !.pc = "read"]]
            /\ recent' = recent \cup {request[c].ip}
    /\ UNCHANGED <<leads, tokens, nextToken, download, exits, faults, mailed,
                   granted, lost>>

\* The committed tokens of a pair, used up and expired ones included.  No
\* revocation is ever committed (RenewalRaises), so the column is left out.
Live(p) == {t \in Tokens : tokens[t].status = "saved" /\ tokens[t].pair = p}

\* get_by_lead_and_asset: the latest of them, or none.
ReadToken(c) ==
    LET live == Live(request[c].pair)
    IN  /\ request[c].pc = "read"
        /\ \E t \in Tokens \cup {0} :
              /\ IF live = {} THEN t = 0 ELSE t \in live /\ \A s \in live : s <= t
              /\ request' = [request EXCEPT ![c] = [@ EXCEPT !.pc = "revoke", !.old = t]]
        /\ UNCHANGED <<leads, tokens, nextToken, download, recent, exits, faults,
                       mailed, granted, lost>>

Revoke(c) ==
    /\ request[c].pc = "revoke"
    /\ request[c].old # 0 => Unlocked(request[c].old)
    /\ request' = [request EXCEPT ![c] = [@ EXCEPT !.pc = "renew"]]
    /\ UNCHANGED <<leads, tokens, nextToken, download, recent, exits, faults,
                   mailed, granted, lost>>

\* The new token is inserted, and then building the mail reads an attribute of
\* the expired publication: SQLAlchemy would have to query for it outside an
\* await and raises MissingGreenlet.  get_db rolls everything back.
RenewalRaises(c) ==
    /\ request[c].pc = "renew"
    /\ request' = [request EXCEPT ![c] = NoRequest]
    /\ UNCHANGED <<leads, tokens, nextToken, download, recent, exits, faults,
                   mailed, granted, lost>>

\* Background tasks of a new lead, in the order they were added: the mail, then
\* _score_notify_sync with a session of its own, which gives up when the lead is
\* not there.
SendEmail(c) ==
    /\ request[c].pc = "email"
    /\ mailed' = mailed \cup {request[c].token}
    /\ request' = [request EXCEPT ![c] = [@ EXCEPT !.pc = "score"]]
    /\ UNCHANGED <<leads, tokens, nextToken, download, recent, exits, faults,
                   granted, lost>>

Score(c) ==
    /\ request[c].pc = "score"
    /\ leads' = [leads EXCEPT ![request[c].pair] =
                   [@ EXCEPT !.scored = @ \/ leads[request[c].pair].saved]]
    /\ request' = [request EXCEPT ![c] = [@ EXCEPT !.pc = "commit"]]
    /\ UNCHANGED <<tokens, nextToken, download, recent, exits, faults, mailed,
                   granted, lost>>

SavedTokenLost(c) == tokens
SavedToken(c) ==
    [tokens EXCEPT ![request[c].token] = [@ EXCEPT !.status = "saved"]]

Commit(c) ==
    /\ request[c].pc = "commit"
    /\ leads' = [leads EXCEPT ![request[c].pair] =
                   [saved |-> TRUE, tagged |-> request[c].tagged, scored |-> FALSE]]
    /\ tokens' = SavedToken(c)
    /\ request' = [request EXCEPT ![c] = NoRequest]
    /\ UNCHANGED <<nextToken, download, recent, exits, faults, mailed, granted, lost>>

\* A statement, a background task or the commit raises: get_db rolls back.
RequestFails(c) ==
    /\ request[c].pc # "idle"
    /\ faults < MaxFaults
    /\ faults' = faults + 1
    /\ tokens' = [t \in Tokens |-> IF t = request[c].token
                                   THEN [tokens[t] EXCEPT !.status = "none"]
                                   ELSE tokens[t]]
    /\ request' = [request EXCEPT ![c] = NoRequest]
    /\ UNCHANGED <<leads, nextToken, download, recent, exits, mailed, granted, lost>>

-----------------------------------------------------------------------------
(* GET /api/v1/public/download.                                             *)

ActivatableOneMore(t) == /\ tokens[t].status = "saved" /\ ~tokens[t].expired
                         /\ tokens[t].uses <= MaxUses
Activatable(t) == /\ tokens[t].status = "saved" /\ ~tokens[t].expired
                  /\ tokens[t].uses < MaxUses

\* activate_atomic: one UPDATE that waits for the row and then tests it.  When
\* no row qualifies the answer is 403 and nothing has changed.
Activate(d, t) ==
    /\ download[d].pc = "idle"
    /\ t \in mailed
    /\ Unlocked(t)
    /\ Activatable(t)
    /\ download' = [download EXCEPT ![d] = [pc |-> "lookup", token |-> t]]
    /\ UNCHANGED <<leads, tokens, nextToken, request, recent, exits, faults,
                   mailed, granted, lost>>

\* No lead, no publication, no file or no presigned URL: rolled back.
LookupFails(d) ==
    /\ download[d].pc = "lookup"
    /\ download' = [download EXCEPT ![d] = NoDownload]
    /\ UNCHANGED <<leads, tokens, nextToken, request, recent, exits, faults,
                   mailed, granted, lost>>

Redirect(d) ==
    /\ download[d].pc = "lookup"
    /\ granted' = [granted EXCEPT ![download[d].token] = @ + 1]
    /\ download' = [download EXCEPT ![d] = [@ EXCEPT !.pc = "commit"]]
    /\ UNCHANGED <<leads, tokens, nextToken, request, recent, exits, faults,
                   mailed, lost>>

Counted(t) == [tokens[t] EXCEPT !.uses = @ + 1]
CountUse(d) ==
    /\ download[d].pc = "commit"
    /\ tokens' = [tokens EXCEPT ![download[d].token] = Counted(download[d].token)]
    /\ download' = [download EXCEPT ![d] = NoDownload]
    /\ UNCHANGED <<leads, nextToken, request, recent, exits, faults, mailed,
                   granted, lost>>

CountFails(d) ==
    /\ download[d].pc = "commit"
    /\ faults < MaxFaults
    /\ faults' = faults + 1
    /\ lost' = [lost EXCEPT ![download[d].token] = @ + 1]
    /\ download' = [download EXCEPT ![d] = NoDownload]
    /\ UNCHANGED <<leads, tokens, nextToken, request, recent, exits, mailed, granted>>

-----------------------------------------------------------------------------
(* Time and the process.                                                    *)

WindowPasses(ip) ==
    /\ ip \in recent
    /\ recent' = recent \ {ip}
    /\ UNCHANGED <<leads, tokens, nextToken, request, download, exits, faults,
                   mailed, granted, lost>>

Expire(t) ==
    /\ tokens[t].status = "saved" /\ ~tokens[t].expired
    /\ tokens' = [tokens EXCEPT ![t] = [@ EXCEPT !.expired = TRUE]]
    /\ UNCHANGED <<leads, nextToken, request, download, recent, exits, faults,
                   mailed, granted, lost>>

\* Redirects that have been sent and not counted.
Uncounted(t) == \E d \in Downloads : download[d] = [pc |-> "commit", token |-> t]

\* Open transactions are rolled back; the limiters live in memory.
Restart ==
    /\ exits < MaxExits
    /\ exits' = exits + 1
    /\ tokens' = [t \in Tokens |-> IF tokens[t].status = "open"
                                   THEN [tokens[t] EXCEPT !.status = "none"]
                                   ELSE tokens[t]]
    /\ lost' = [t \in Tokens |-> IF Uncounted(t) THEN lost[t] + 1 ELSE lost[t]]
    /\ request' = [c \in Requests |-> NoRequest]
    /\ download' = [d \in Downloads |-> NoDownload]
    /\ recent' = {}
    /\ UNCHANGED <<leads, nextToken, faults, mailed, granted>>

-----------------------------------------------------------------------------
Init ==
    /\ leads = [p \in Pairs |-> [saved |-> FALSE, tagged |-> FALSE, scored |-> FALSE]]
    /\ tokens = [t \in Tokens |-> [OpenToken(Nobody) EXCEPT !.status = "none"]]
    /\ nextToken = 1
    /\ request = [c \in Requests |-> NoRequest]
    /\ download = [d \in Downloads |-> NoDownload]
    /\ recent = {}
    /\ exits = 0
    /\ faults = 0
    /\ mailed = {}
    /\ granted = [t \in Tokens |-> 0]
    /\ lost = [t \in Tokens |-> 0]

Capture(c) ==
    \/ \E ip \in IPs, p \in Pairs, tagged \in BOOLEAN : Arrive(c, ip, p, tagged)
    \/ InsertNew(c) \/ InsertConflicts(c) \/ Resend(c) \/ ReadToken(c) \/ Revoke(c)
    \/ RenewalRaises(c) \/ SendEmail(c) \/ Score(c) \/ Commit(c) \/ RequestFails(c)
DownloadStep(d) ==
    \/ \E t \in Tokens : Activate(d, t)
    \/ LookupFails(d) \/ Redirect(d) \/ CountUse(d) \/ CountFails(d)
Next ==
    \/ \E c \in Requests : Capture(c)
    \/ \E d \in Downloads : DownloadStep(d)
    \/ \E ip \in IPs : WindowPasses(ip)
    \/ \E t \in Tokens : Expire(t)
    \/ Restart

Spec == Init /\ [][Next]_vars

-----------------------------------------------------------------------------
(* Correctness.                                                             *)

RequestPcs == {"idle", "insert"} \cup New \cup Resending
LeadRow == [saved : BOOLEAN, tagged : BOOLEAN, scored : BOOLEAN]
TokenRow == [status : {"none", "open", "saved"}, pair : Pairs \cup {Nobody},
             uses : Nat, expired : BOOLEAN]
RequestLocals == [pc : RequestPcs, ip : IPs \cup {Nobody}, pair : Pairs \cup {Nobody},
                  tagged : BOOLEAN, old : Tokens \cup {0}, token : Tokens \cup {0}]
DownloadLocals == [pc : {"idle", "lookup", "commit"}, token : Tokens \cup {0}]

\* Every variable has its type: the shape of the rows and of the requests'
\* local variables.
TypeOK ==
    /\ leads \in [Pairs -> LeadRow]
    /\ tokens \in [Tokens -> TokenRow]
    /\ nextToken \in 1..MaxTokens + 1
    /\ request \in [Requests -> RequestLocals]
    /\ download \in [Downloads -> DownloadLocals]
    /\ recent \subseteq IPs
    /\ exits \in Nat
    /\ faults \in Nat
    /\ mailed \subseteq Tokens
    /\ granted \in [Tokens -> Nat]
    /\ lost \in [Tokens -> Nat]

\* A link is never exchanged more often than max_uses, whatever downloads
\* overlap, except once for every redirect whose transaction failed to commit.
GrantsBounded == \A t \in Tokens : granted[t] <= MaxUses + lost[t]

\* A mailed link has its token in the table, or its request is still on the way
\* to the commit: only an exit or a fault can leave a link without a token.
LinkBacked ==
    \A t \in mailed : \/ tokens[t].status = "saved"
                      \/ \E c \in Requests : request[c].token = t
                      \/ exits + faults > 0

\* lead_repository.py:136, create or return the existing one, race-safe: however
\* captures of one address and asset overlap, one of them issues a link.
OneLinkPerLead == \A p \in Pairs : \A s, t \in Live(p) : s = t

-----------------------------------------------------------------------------
(* The inductive invariant behind them.                                     *)

\* A request that issued a token owns its uncommitted row and its new lead.
OwnerInv ==
    /\ \A c \in Requests :
         /\ request[c].pc \in New <=> request[c].token # 0
         /\ request[c].pc # "idle" => request[c].pair \in Pairs /\ request[c].ip \in IPs
         /\ request[c].token # 0 => /\ tokens[request[c].token].status = "open"
                                    /\ tokens[request[c].token].pair = request[c].pair
                                    /\ ~leads[request[c].pair].saved
    /\ \A c, d \in Requests : /\ request[c].token # 0 /\ request[d].token # 0
                              /\ request[c].pair = request[d].pair
                              => c = d

\* Ids the sequence has not handed out are unused.
FreshInv ==
    \A t \in Tokens : t >= nextToken =>
        /\ tokens[t].status = "none" /\ t \notin mailed
        /\ granted[t] = 0 /\ lost[t] = 0

\* A lead without a row has no token, and one with a row has one at most.
RowInv == /\ OneLinkPerLead
          /\ \A p \in Pairs : ~leads[p].saved => Live(p) = {}

\* The row lock: one use at a time, and what an admitted download found holds.
LockInv ==
    /\ \A d, e \in Downloads : \A t \in Tokens : Uses(d, t) /\ Uses(e, t) => d = e
    /\ \A d \in Downloads : download[d].pc # "idle" =>
         /\ download[d].token \in Tokens
         /\ tokens[download[d].token].status = "saved"
         /\ tokens[download[d].token].uses < MaxUses

\* Redirects are counted uses, lost uses, and the one about to be counted.
LedgerInv ==
    \A t \in Tokens :
        /\ tokens[t].status # "saved" => tokens[t].uses = 0
        /\ tokens[t].uses <= MaxUses
        /\ granted[t] = tokens[t].uses + lost[t] + (IF Uncounted(t) THEN 1 ELSE 0)

LeadInv ==
    TypeOK /\ OwnerInv /\ FreshInv /\ RowInv /\ LockInv /\ LedgerInv /\ LinkBacked

-----------------------------------------------------------------------------
(* Fairness: a request is scheduled until it ends, and PostgreSQL grants a  *)
(* row lock in the order of the queue, so a waiting statement gets its turn *)
(* however often others take the lock before it.                            *)
FairSpec ==
    /\ Spec
    /\ \A c \in Requests :
         /\ SF_vars(InsertNew(c) \/ InsertConflicts(c) \/ Resend(c) \/ Revoke(c))
         /\ WF_vars(ReadToken(c) \/ RenewalRaises(c) \/ SendEmail(c) \/ Score(c) \/ Commit(c))
    /\ \A d \in Downloads : WF_vars(LookupFails(d) \/ Redirect(d) \/ CountUse(d))

\* Every request ends: captures and downloads that wait for each other's rows
\* do not block each other for good.
RequestsFinish ==
    \A c \in Requests : request[c].pc # "idle"
                          ~> request[c].pc = "idle" \/ nextToken > MaxTokens
=============================================================================
