------------------------------ MODULE LeadProofs ------------------------------
(***************************************************************************)
(* Theorems about LeadCapture for every number of requests, downloads,     *)
(* addresses, leads, tokens, uses, exits and faults, and about LeadSync.   *)
(***************************************************************************)
EXTENDS LeadCapture, LeadSync, TLAPS

USE LeadConstants

-----------------------------------------------------------------------------
(* Lemmas on the values the actions write.                                  *)

\* The local variables a request starts from and returns to.
LEMMA NoRequestType == NoRequest \in RequestLocals
BY DEF NoRequest, RequestLocals, RequestPcs

LEMMA NoDownloadType == NoDownload \in DownloadLocals
BY DEF NoDownload, DownloadLocals

\* What the count of a use changes and what it keeps.
LEMMA CountedRow ==
    ASSUME NEW t, tokens[t] \in TokenRow
    PROVE  /\ Counted(t) \in TokenRow /\ Counted(t).uses = tokens[t].uses + 1
           /\ Counted(t).status = tokens[t].status /\ Counted(t).pair = tokens[t].pair
<1> DEFINE n == tokens[t].uses + 1
<1>1. n \in Nat
  BY DEF TokenRow
<1> HIDE DEF n
<1>2. /\ [tokens[t] EXCEPT !.uses = n] \in TokenRow
      /\ [tokens[t] EXCEPT !.uses = n].uses = n
      /\ [tokens[t] EXCEPT !.uses = n].status = tokens[t].status
      /\ [tokens[t] EXCEPT !.uses = n].pair = tokens[t].pair
  BY <1>1 DEF TokenRow
<1>3. QED
  BY <1>2 DEF n, Counted

\* The rows the other writes of a token leave behind.
LEMMA ChangedRow ==
    ASSUME NEW r \in TokenRow, NEW s \in {"none", "open", "saved"}
    PROVE  [r EXCEPT !.status = s] \in TokenRow /\ [r EXCEPT !.expired = TRUE] \in TokenRow
BY DEF TokenRow

LEMMA OpenTokenType == ASSUME NEW p \in Pairs \cup {Nobody} PROVE OpenToken(p) \in TokenRow
BY DEF OpenToken, TokenRow

\* The sequence stays one past the ids it has handed out.
LEMMA NextTokenBound == ASSUME NEW t \in Tokens PROVE t + 1 \in 1..MaxTokens + 1
BY DEF Tokens

-----------------------------------------------------------------------------
(* The inductive step.                                                      *)

\* A request without a token that moves on without one touches no invariant:
\* this covers the arrival and the whole resend.
LEMMA MovingKeepsInv ==
    ASSUME LeadInv, NEW c \in Requests, NEW r \in RequestLocals,
           request[c].token = 0, r.token = 0, r.pc \notin New,
           r.pc # "idle" => r.pair \in Pairs /\ r.ip \in IPs,
           request' = [request EXCEPT ![c] = r], recent' \subseteq IPs,
           UNCHANGED <<leads, tokens, nextToken, download, exits, faults,
                       mailed, granted, lost>>
    PROVE  LeadInv'
<1>1. TypeOK'
  BY DEF LeadInv, TypeOK
<1>2. \A d \in Requests : d # c => request'[d] = request[d]
  BY DEF LeadInv, TypeOK
<1>3. request'[c] = r
  BY DEF LeadInv, TypeOK
<1>4. OwnerInv'
  BY <1>2, <1>3 DEF LeadInv, OwnerInv
<1>5. FreshInv' /\ RowInv'
  BY DEF LeadInv, FreshInv, RowInv, OneLinkPerLead, Live
<1>6. LockInv' /\ LedgerInv'
  BY DEF LeadInv, LockInv, LedgerInv, Uses, Uncounted
<1>7. LinkBacked'
  <2>1. \A t \in Tokens, d \in Requests : request[d].token = t => request'[d].token = t
    BY <1>2, <1>3, 0 \notin Tokens DEF Tokens
  <2>2. \A t \in mailed : t \in Tokens
    BY DEF LeadInv, TypeOK
  <2>3. QED
    BY <2>1, <2>2 DEF LeadInv, LinkBacked
<1>8. QED
  BY <1>1, <1>4, <1>5, <1>6, <1>7 DEF LeadInv

LEMMA ArriveKeepsInv ==
    ASSUME LeadInv, NEW c \in Requests, NEW ip \in IPs, NEW p \in Pairs,
           NEW tagged \in BOOLEAN, Arrive(c, ip, p, tagged)
    PROVE  LeadInv'
<1> DEFINE r == [NoRequest EXCEPT !.pc = "insert", !.ip = ip, !.pair = p, !.tagged = tagged]
<1>1. r \in RequestLocals /\ r.token = 0 /\ r.pc \notin New /\ r.pair \in Pairs /\ r.ip \in IPs
  BY DEF NoRequest, RequestLocals, RequestPcs, New
<1>2. request[c].token = 0 /\ recent' \subseteq IPs
  BY DEF LeadInv, TypeOK, OwnerInv, Arrive, New
<1>3. QED
  BY <1>1, <1>2, MovingKeepsInv DEF Arrive

\* The steps of a resend, and of a capture that becomes one.
LEMMA ResendKeepsInv ==
    ASSUME LeadInv, NEW c \in Requests,
           InsertConflicts(c) \/ Resend(c) \/ ReadToken(c) \/ Revoke(c) \/ RenewalRaises(c)
    PROVE  LeadInv'
<1>1. request[c] \in RequestLocals /\ recent \subseteq IPs
  BY DEF LeadInv, TypeOK
<1>2. request[c].pc \in Resending \cup {"insert"}
  BY DEF InsertConflicts, Resend, ReadToken, Revoke, RenewalRaises, Resending
<1>3. request[c].token = 0 /\ request[c].pair \in Pairs /\ request[c].ip \in IPs
  BY <1>2 DEF LeadInv, OwnerInv, New, Resending
<1>4. NoRequest.token = 0 /\ NoRequest.pc = "idle" /\ "idle" \notin New
  BY DEF NoRequest, New
<1>5. ASSUME NEW pc \in Resending
      PROVE  /\ [request[c] EXCEPT !.pc = pc] \in RequestLocals
             /\ [request[c] EXCEPT !.pc = pc].token = 0
             /\ [request[c] EXCEPT !.pc = pc].pc \notin New
             /\ [request[c] EXCEPT !.pc = pc].pair \in Pairs
             /\ [request[c] EXCEPT !.pc = pc].ip \in IPs
  BY <1>1, <1>3 DEF RequestLocals, RequestPcs, Resending, New
<1>6. CASE InsertConflicts(c)
  BY <1>1, <1>3, <1>5, <1>6, MovingKeepsInv DEF InsertConflicts, Resending
<1>7. CASE Resend(c)
  <2>1. CASE request[c].ip \in recent
    BY <1>1, <1>3, <1>4, <1>7, <2>1, NoRequestType, MovingKeepsInv DEF Resend, Limited
  <2>2. CASE request[c].ip \notin recent
    BY <1>1, <1>3, <1>5, <1>7, <2>2, MovingKeepsInv DEF Resend, Resending
  <2>3. QED
    BY <2>1, <2>2
<1>8. CASE ReadToken(c)
  <2>1. PICK t \in Tokens \cup {0} :
          request' = [request EXCEPT ![c] = [@ EXCEPT !.pc = "revoke", !.old = t]]
    BY <1>8 DEF ReadToken
  <2>2. [request[c] EXCEPT !.pc = "revoke", !.old = t] \in RequestLocals
    BY <1>1 DEF RequestLocals, RequestPcs, Resending
  <2>3. QED
    BY <1>1, <1>3, <1>8, <2>1, <2>2, MovingKeepsInv DEF ReadToken, New, RequestLocals
<1>9. CASE Revoke(c)
  BY <1>1, <1>3, <1>5, <1>9, MovingKeepsInv DEF Revoke, Resending
<1>10. CASE RenewalRaises(c)
  BY <1>1, <1>3, <1>4, <1>10, NoRequestType, MovingKeepsInv DEF RenewalRaises
<1>11. QED
  BY <1>6, <1>7, <1>8, <1>9, <1>10

\* A new lead takes the next id of the sequence.
LEMMA InsertKeepsInv ==
    ASSUME LeadInv, NEW c \in Requests, InsertNew(c)
    PROVE  LeadInv'
<1> DEFINE r == [request[c] EXCEPT !.pc = "email", !.token = nextToken]
           p == request[c].pair
<1>1. /\ request[c] \in RequestLocals /\ request[c].token = 0 /\ p \in Pairs
      /\ request[c].ip \in IPs /\ nextToken \in Tokens /\ nextToken # 0
  <2>1. request[c].pc \notin New /\ request[c].pc # "idle"
    BY DEF InsertNew, New
  <2>2. request[c] \in RequestLocals /\ nextToken \in Tokens
    BY DEF LeadInv, TypeOK, InsertNew
  <2>3. QED
    BY <2>1, <2>2 DEF LeadInv, OwnerInv, Tokens
<1>2. /\ r \in RequestLocals /\ r.pc \in New /\ r.token = nextToken /\ r.pair = p
      /\ r.ip \in IPs
  BY <1>1 DEF RequestLocals, RequestPcs, New
<1>3. /\ request'[c] = r
      /\ \A d \in Requests : d # c => request'[d] = request[d]
  BY DEF InsertNew, LeadInv, TypeOK
<1>4. /\ tokens'[nextToken] = OpenToken(p)
      /\ \A t \in Tokens : t # nextToken => tokens'[t] = tokens[t]
      /\ OpenToken(p) \in TokenRow /\ OpenToken(p).status = "open"
      /\ OpenToken(p).pair = p /\ OpenToken(p).uses = 0
  BY <1>1, OpenTokenType DEF InsertNew, LeadInv, TypeOK, OpenToken
<1>5. TypeOK'
  <2>1. request' \in [Requests -> RequestLocals]
    BY <1>2 DEF LeadInv, TypeOK, InsertNew
  <2>2. tokens' \in [Tokens -> TokenRow]
    BY <1>4 DEF LeadInv, TypeOK, InsertNew
  <2>3. nextToken' \in 1..MaxTokens + 1
    BY <1>1, NextTokenBound DEF InsertNew
  <2>4. QED
    BY <2>1, <2>2, <2>3 DEF LeadInv, TypeOK, InsertNew
<1> HIDE DEF r
<1>6. tokens[nextToken].status = "none" /\ nextToken \notin mailed /\ granted[nextToken] = 0
      /\ lost[nextToken] = 0
  BY <1>1 DEF LeadInv, TypeOK, FreshInv, Tokens
<1>7. \A d \in Requests : request[d].token # nextToken
  BY <1>1, <1>6 DEF LeadInv, OwnerInv
<1>8. OwnerInv'
  <2>1. \A d \in Requests : request[d].token # 0 => request[d].pair # p
    BY DEF InsertNew, Inserts, LeadInv, OwnerInv
  <2>2. ~leads'[p].saved /\ leads' = leads
    BY DEF InsertNew
  <2>3. \A d \in Requests : request[d].token # 0 => request[d].token \in Tokens
    BY DEF LeadInv, TypeOK, RequestLocals
  <2>4. QED
    BY <1>1, <1>2, <1>3, <1>4, <1>7, <2>1, <2>2, <2>3 DEF LeadInv, OwnerInv
<1>9. FreshInv'
  <2>1. \A t \in Tokens : t >= nextToken + 1 => t >= nextToken /\ t # nextToken
    BY <1>1 DEF Tokens
  <2>2. QED
    BY <1>4, <2>1 DEF LeadInv, FreshInv, InsertNew
<1>10. \A q \in Pairs : Live(q)' = Live(q)
  BY <1>4, <1>6 DEF Live
<1>11. RowInv'
  BY <1>10 DEF LeadInv, RowInv, OneLinkPerLead, InsertNew
<1>12. \A d \in Downloads : download[d].pc # "idle" => download[d].token # nextToken
  BY <1>6 DEF LeadInv, LockInv
<1>13. LockInv'
  BY <1>4, <1>12 DEF LeadInv, LockInv, InsertNew, Uses
<1>14. LedgerInv'
  <2>1. ~Uncounted(nextToken)
    BY <1>12 DEF Uncounted
  <2>2. \A t \in Tokens : Uncounted(t)' <=> Uncounted(t)
    BY DEF Uncounted, InsertNew
  <2>3. 0 <= MaxUses
    OBVIOUS
  <2>4. QED
    BY <1>4, <1>6, <2>1, <2>2, <2>3 DEF LeadInv, LedgerInv, InsertNew
<1>15. LinkBacked'
  BY <1>1, <1>2, <1>3, <1>4, <1>6 DEF LeadInv, TypeOK, LinkBacked, InsertNew, Tokens
<1>16. QED
  BY <1>5, <1>8, <1>9, <1>11, <1>13, <1>14, <1>15 DEF LeadInv

\* The background tasks of a new lead.
LEMMA BackgroundKeepsInv ==
    ASSUME LeadInv, NEW c \in Requests, SendEmail(c) \/ Score(c)
    PROVE  LeadInv'
<1>1. request[c] \in RequestLocals /\ request[c].token \in Tokens
  BY DEF LeadInv, TypeOK, OwnerInv, RequestLocals, SendEmail, Score, New
<1>2. PICK pc \in New : request' = [request EXCEPT ![c] = [@ EXCEPT !.pc = pc]]
  BY DEF SendEmail, Score, New
<1>3. /\ request'[c] = [request[c] EXCEPT !.pc = pc]
      /\ \A d \in Requests : d # c => request'[d] = request[d]
  BY <1>2 DEF LeadInv, TypeOK
<1>4. /\ request'[c] \in RequestLocals /\ request'[c].pc \in New
      /\ request'[c].token = request[c].token /\ request'[c].pair = request[c].pair
      /\ request'[c].ip = request[c].ip
  BY <1>1, <1>3 DEF RequestLocals, RequestPcs, New
<1>5. request[c].pc \in New /\ request[c].pair \in Pairs
  BY DEF SendEmail, Score, New, LeadInv, OwnerInv
<1>6. leads' \in [Pairs -> LeadRow] /\ \A p \in Pairs : leads'[p].saved = leads[p].saved
  <2>1. leads \in [Pairs -> LeadRow]
    BY DEF LeadInv, TypeOK
  <2>2. CASE SendEmail(c)
    BY <2>1, <2>2 DEF SendEmail
  <2>3. CASE Score(c)
    <3>1. PICK b \in BOOLEAN :
            leads' = [leads EXCEPT ![request[c].pair] = [@ EXCEPT !.scored = b]]
      BY <1>5, <2>1, <2>3 DEF Score, LeadRow
    <3>2. QED
      BY <2>1, <3>1 DEF LeadRow
  <2>4. QED
    BY <2>2, <2>3
<1>7. mailed' \subseteq mailed \cup {request[c].token}
  BY DEF SendEmail, Score
<1>8. UNCHANGED <<tokens, nextToken, download, recent, exits, faults, granted, lost>>
  BY DEF SendEmail, Score
<1>9. TypeOK'
  <2>1. request' \in [Requests -> RequestLocals]
    BY <1>2, <1>3, <1>4 DEF LeadInv, TypeOK
  <2>2. QED
    BY <1>1, <1>6, <1>7, <1>8, <2>1 DEF LeadInv, TypeOK
<1>10. OwnerInv'
  <2>1. \A d \in Requests : /\ request'[d].pc \in New <=> request[d].pc \in New
                            /\ request'[d].token = request[d].token
                            /\ request'[d].pair = request[d].pair
                            /\ request'[d].ip = request[d].ip
                            /\ request'[d].pc # "idle" => request[d].pc # "idle"
    BY <1>3, <1>4, <1>5 DEF New
  <2>2. \A d \in Requests : request[d].token # 0 => request[d].pair \in Pairs
    BY DEF LeadInv, OwnerInv, New
  <2>3. tokens' = tokens
    BY <1>8
  <2>4. QED
    BY <1>6, <2>1, <2>2, <2>3 DEF LeadInv, OwnerInv
<1>11. tokens[request[c].token].status = "open"
  BY <1>5 DEF LeadInv, OwnerInv
<1>12. FreshInv'
  BY <1>1, <1>7, <1>8, <1>11 DEF LeadInv, FreshInv
<1>13. RowInv'
  BY <1>6, <1>8 DEF LeadInv, RowInv, OneLinkPerLead, Live
<1>14. LockInv' /\ LedgerInv'
  BY <1>8 DEF LeadInv, LockInv, LedgerInv, Uses, Uncounted
<1>15. LinkBacked'
  BY <1>3, <1>4, <1>7, <1>8 DEF LeadInv, LinkBacked
<1>16. QED
  BY <1>9, <1>10, <1>12, <1>13, <1>14, <1>15 DEF LeadInv

\* The commit of a new lead: the pair had no row, so the token is its first.
LEMMA CommitKeepsInv ==
    ASSUME LeadInv, NEW c \in Requests, Commit(c)
    PROVE  LeadInv'
<1>1. PICK k \in Tokens, p \in Pairs :
        /\ k = request[c].token /\ p = request[c].pair /\ k # 0
        /\ tokens[k].status = "open" /\ tokens[k].pair = p
        /\ ~leads[p].saved /\ request[c].tagged \in BOOLEAN
  <2>1. request[c].pc \in New /\ request[c].pc # "idle" /\ request[c] \in RequestLocals
    BY DEF Commit, New, LeadInv, TypeOK
  <2>2. QED
    BY <2>1 DEF LeadInv, OwnerInv, RequestLocals
<1>2. /\ request'[c] = NoRequest
      /\ \A d \in Requests : d # c => request'[d] = request[d]
  BY DEF Commit, LeadInv, TypeOK
<1>3. /\ tokens'[k].status = "saved" /\ tokens'[k].pair = p /\ tokens'[k].uses = tokens[k].uses
      /\ \A t \in Tokens : t # k => tokens'[t] = tokens[t]
      /\ tokens' \in [Tokens -> TokenRow]
  <2>1. tokens \in [Tokens -> TokenRow] /\ tokens[k] \in TokenRow
    BY <1>1 DEF LeadInv, TypeOK
  <2>2. tokens' = [tokens EXCEPT ![k] = [tokens[k] EXCEPT !.status = "saved"]]
    BY <1>1 DEF Commit, SavedToken
  <2>3. [tokens[k] EXCEPT !.status = "saved"] \in TokenRow
    BY <2>1, ChangedRow
  <2>4. QED
    BY <1>1, <2>1, <2>2, <2>3 DEF TokenRow
<1>4. /\ leads'[p].saved /\ \A q \in Pairs : q # p => leads'[q] = leads[q]
      /\ leads' \in [Pairs -> LeadRow]
  BY <1>1 DEF Commit, LeadInv, TypeOK, LeadRow
<1>5. UNCHANGED <<nextToken, download, recent, exits, faults, mailed, granted, lost>>
  BY DEF Commit
<1>6. TypeOK'
  <2>1. request' \in [Requests -> RequestLocals]
    BY NoRequestType DEF Commit, LeadInv, TypeOK
  <2>2. QED
    BY <1>3, <1>4, <1>5, <2>1 DEF LeadInv, TypeOK
<1>7. NoRequest.token = 0 /\ NoRequest.pc = "idle" /\ "idle" \notin New
  BY DEF NoRequest, New
<1>8. OwnerInv'
  <2>1. \A d \in Requests : d # c /\ request[d].token # 0
          => request[d].token # k /\ request[d].pair # p
             /\ request[d].token \in Tokens /\ request[d].pair \in Pairs
    <3>1. \A d \in Requests : request[d].token # 0 =>
            /\ request[d].token \in Tokens /\ request[d].pc # "idle"
      BY DEF LeadInv, TypeOK, OwnerInv, RequestLocals, New
    <3>2. QED
      BY <1>1, <3>1 DEF LeadInv, OwnerInv
  <2>2. QED
    BY <1>2, <1>3, <1>4, <1>7, <2>1 DEF LeadInv, OwnerInv
<1>9. FreshInv'
  BY <1>1, <1>3, <1>5 DEF LeadInv, FreshInv
<1>10. RowInv'
  <2>1. Live(p) = {}
    BY <1>1 DEF LeadInv, RowInv
  <2>2. Live(p)' = {k}
    BY <1>1, <1>3, <2>1 DEF Live
  <2>3. \A q \in Pairs : q # p => Live(q)' = Live(q)
    BY <1>1, <1>3 DEF Live
  <2>4. QED
    BY <1>4, <2>2, <2>3 DEF LeadInv, RowInv, OneLinkPerLead
<1>11. LockInv'
  BY <1>1, <1>3, <1>5 DEF LeadInv, LockInv, Uses
<1>12. LedgerInv'
  <2>1. \A t \in Tokens : Uncounted(t)' <=> Uncounted(t)
    BY <1>5 DEF Uncounted
  <2>2. \A t \in Tokens : tokens'[t].uses = tokens[t].uses
                          /\ (tokens'[t].status # "saved" => tokens[t].status # "saved")
    BY <1>3
  <2>3. QED
    BY <1>5, <2>1, <2>2 DEF LeadInv, LedgerInv
<1>13. LinkBacked'
  BY <1>1, <1>2, <1>3, <1>5 DEF LeadInv, TypeOK, LinkBacked
<1>14. QED
  BY <1>6, <1>8, <1>9, <1>10, <1>11, <1>12, <1>13 DEF LeadInv

\* Rolling one request back, or all of them at an exit: the ids it held become
\* unused rows that no download can have found.
LEMMA RollbackKeepsInv ==
    ASSUME LeadInv, NEW R \in SUBSET Requests,
           request' = [c \in Requests |-> IF c \in R THEN NoRequest ELSE request[c]],
           tokens' = [t \in Tokens |-> IF \E c \in R : request[c].token = t
                                        THEN [tokens[t] EXCEPT !.status = "none"]
                                        ELSE tokens[t]],
           UNCHANGED <<leads, nextToken, download, mailed, granted, lost>>,
           recent' \subseteq IPs, exits' \in Nat, faults' \in Nat, exits' + faults' > 0
    PROVE  LeadInv'
<1>1. /\ tokens \in [Tokens -> TokenRow]
      /\ \A c \in Requests : request[c].token # 0 => tokens[request[c].token].status = "open"
  BY DEF LeadInv, TypeOK, OwnerInv
<1>2. /\ tokens' \in [Tokens -> TokenRow]
      /\ \A t \in Tokens :
           /\ tokens'[t].pair = tokens[t].pair /\ tokens'[t].uses = tokens[t].uses
           /\ tokens'[t].status = "saved" <=> tokens[t].status = "saved"
           /\ tokens[t].status = "none" => tokens'[t].status = "none"
           /\ (\A c \in R : request[c].token # t) => tokens'[t] = tokens[t]
  <2>1. \A t \in Tokens : tokens[t] \in TokenRow
    BY <1>1
  <2>2. \A t \in Tokens : [tokens[t] EXCEPT !.status = "none"] \in TokenRow
    BY <2>1, ChangedRow
  <2>3. \A t \in Tokens : (\E c \in R : request[c].token = t) => tokens[t].status = "open"
    BY <1>1 DEF Tokens
  <2>4. QED
    BY <2>1, <2>2, <2>3 DEF TokenRow
<1>3. NoRequest.token = 0 /\ NoRequest.pc = "idle" /\ "idle" \notin New
  BY DEF NoRequest, New
<1>4. TypeOK'
  BY <1>2, NoRequestType DEF LeadInv, TypeOK
<1>5. OwnerInv'
  <2>1. \A c \in Requests : request[c].token # 0 =>
          request[c].token \in Tokens /\ request[c].pc # "idle"
    BY DEF LeadInv, TypeOK, OwnerInv, RequestLocals, New
  <2>2. \A c, d \in Requests : request[c].token = request[d].token /\ request[c].token # 0
          => c = d
    BY DEF LeadInv, OwnerInv
  <2>3. \A c \in Requests : request'[c].token # 0 =>
          c \notin R /\ request'[c] = request[c]
          /\ tokens'[request[c].token] = tokens[request[c].token]
    BY <1>2, <1>3, <2>1, <2>2
  <2>4. ASSUME NEW c \in Requests
        PROVE  /\ request'[c].pc \in New <=> request'[c].token # 0
               /\ request'[c].pc # "idle" => request'[c].pair \in Pairs /\ request'[c].ip \in IPs
    <3>1. CASE request'[c] = NoRequest
      BY <1>3, <3>1
    <3>2. CASE request'[c] = request[c]
      BY <3>2 DEF LeadInv, OwnerInv
    <3>3. QED
      BY <3>1, <3>2
  <2>5. \A c \in Requests : request'[c].token # 0 =>
          /\ tokens'[request'[c].token].status = "open"
          /\ tokens'[request'[c].token].pair = request'[c].pair
          /\ ~leads'[request'[c].pair].saved
    <3>1. ASSUME NEW c \in Requests, request'[c].token # 0
          PROVE  /\ tokens'[request'[c].token].status = "open"
                 /\ tokens'[request'[c].token].pair = request'[c].pair
                 /\ ~leads'[request'[c].pair].saved
      <4>1. /\ request'[c] = request[c] /\ leads' = leads
            /\ tokens'[request[c].token] = tokens[request[c].token]
        BY <2>3, <3>1
      <4>2. QED
        BY <3>1, <4>1 DEF LeadInv, OwnerInv
    <3>2. QED
      BY <3>1
  <2>6. \A c, d \in Requests : /\ request'[c].token # 0 /\ request'[d].token # 0
                               /\ request'[c].pair = request'[d].pair
                               => c = d
    BY <2>3 DEF LeadInv, OwnerInv
  <2>7. QED
    BY <2>4, <2>5, <2>6 DEF OwnerInv
<1>6. FreshInv' /\ RowInv'
  <2>1. \A p \in Pairs : Live(p)' = Live(p)
    BY <1>2 DEF Live
  <2>2. QED
    BY <1>2, <2>1 DEF LeadInv, FreshInv, RowInv, OneLinkPerLead
<1>7. LockInv'
  BY <1>2 DEF LeadInv, LockInv, Uses
<1>8. LedgerInv'
  BY <1>2 DEF LeadInv, LedgerInv, Uncounted
<1>9. LinkBacked'
  BY DEF LinkBacked
<1>10. QED
  BY <1>4, <1>5, <1>6, <1>7, <1>8, <1>9 DEF LeadInv

LEMMA FailKeepsInv ==
    ASSUME LeadInv, NEW c \in Requests, RequestFails(c)
    PROVE  LeadInv'
<1>1. tokens' = [t \in Tokens |-> IF \E d \in {c} : request[d].token = t
                                   THEN [tokens[t] EXCEPT !.status = "none"]
                                   ELSE tokens[t]]
  BY DEF RequestFails
<1>2. request' = [d \in Requests |-> IF d \in {c} THEN NoRequest ELSE request[d]]
  BY DEF RequestFails, LeadInv, TypeOK
<1>3. recent' \subseteq IPs /\ exits' \in Nat /\ faults' \in Nat /\ exits' + faults' > 0
  BY DEF RequestFails, LeadInv, TypeOK
<1>4. {c} \in SUBSET Requests
  OBVIOUS
<1>5. QED
  BY <1>1, <1>2, <1>3, <1>4, RollbackKeepsInv DEF RequestFails

\* One step of a download leaves the requests and the leads alone.  The lemma
\* covers the steps that neither count nor send anything.
LEMMA LookupKeepsInv ==
    ASSUME LeadInv, NEW d \in Downloads,
           LookupFails(d) \/ \E t \in Tokens : Activate(d, t)
    PROVE  LeadInv'
<1>1. UNCHANGED <<leads, tokens, nextToken, request, recent, exits, faults,
                  mailed, granted, lost>>
  BY DEF LookupFails, Activate
<1>2. PICK x \in DownloadLocals : /\ download' = [download EXCEPT ![d] = x]
                                  /\ x.pc # "commit" /\ download[d].pc # "commit"
                                  /\ x.pc # "idle" =>
                                       /\ x.token \in Tokens /\ Unlocked(x.token)
                                       /\ tokens[x.token].status = "saved"
                                       /\ tokens[x.token].uses < MaxUses
  <2>1. CASE LookupFails(d)
    BY <2>1, NoDownloadType DEF LookupFails, NoDownload
  <2>2. CASE \E t \in Tokens : Activate(d, t)
    <3>1. PICK t \in Tokens : Activate(d, t)
      BY <2>2
    <3>2. [pc |-> "lookup", token |-> t] \in DownloadLocals
      BY DEF DownloadLocals
    <3>3. QED
      BY <3>1, <3>2 DEF Activate, Activatable
  <2>3. QED
    BY <2>1, <2>2
<1>3. /\ download'[d] = x
      /\ \A e \in Downloads : e # d => download'[e] = download[e]
      /\ download' \in [Downloads -> DownloadLocals]
  BY <1>2 DEF LeadInv, TypeOK
<1>4. TypeOK' /\ OwnerInv' /\ FreshInv' /\ RowInv' /\ LinkBacked'
  BY <1>1, <1>3 DEF LeadInv, TypeOK, OwnerInv, FreshInv, RowInv, OneLinkPerLead, Live, LinkBacked
<1>5. LockInv'
  <2>1. \A e \in Downloads, t \in Tokens : e # d => (Uses(e, t)' <=> Uses(e, t))
    BY <1>3 DEF Uses
  <2>2. \A e \in Downloads, t \in Tokens : Uses(d, t)' => ~Uses(e, t)
    BY <1>2, <1>3 DEF Uses, Unlocked
  <2>3. QED
    BY <1>1, <1>2, <1>3, <2>1, <2>2 DEF LeadInv, LockInv
<1>6. LedgerInv'
  <2>1. \A t \in Tokens : Uncounted(t)' <=> Uncounted(t)
    BY <1>2, <1>3 DEF Uncounted
  <2>2. QED
    BY <1>1, <2>1 DEF LeadInv, LedgerInv
<1>7. QED
  BY <1>4, <1>5, <1>6 DEF LeadInv

\* Sending the redirect, and counting or losing it: the ledger's two sides move
\* together, and the row lock keeps a second use out in between.
LEMMA UseKeepsInv ==
    ASSUME LeadInv, NEW d \in Downloads, Redirect(d) \/ CountUse(d) \/ CountFails(d)
    PROVE  LeadInv'
<1>1. PICK k \in Tokens : /\ k = download[d].token /\ tokens[k].status = "saved"
                          /\ tokens[k].uses < MaxUses /\ k < nextToken
  <2>1. download[d].pc # "idle"
    BY DEF Redirect, CountUse, CountFails
  <2>2. /\ download[d].token \in Tokens /\ tokens[download[d].token].status = "saved"
        /\ tokens[download[d].token].uses < MaxUses
    BY <2>1 DEF LeadInv, LockInv
  <2>3. ~(download[d].token >= nextToken)
    BY <2>2 DEF LeadInv, FreshInv
  <2>4. QED
    BY <2>2, <2>3 DEF LeadInv, TypeOK, Tokens
<1>2. UNCHANGED <<leads, nextToken, request, recent, exits, mailed>>
  BY DEF Redirect, CountUse, CountFails
<1>3. /\ download' \in [Downloads -> DownloadLocals]
      /\ \A e \in Downloads : e # d => download'[e] = download[e]
  BY NoDownloadType DEF LeadInv, TypeOK, Redirect, CountUse, CountFails, DownloadLocals
<1>4. /\ tokens \in [Tokens -> TokenRow] /\ granted \in [Tokens -> Nat]
      /\ lost \in [Tokens -> Nat] /\ exits \in Nat /\ faults \in Nat
  BY DEF LeadInv, TypeOK
<1>5. PICK row \in TokenRow : /\ tokens' = [tokens EXCEPT ![k] = row]
                              /\ row.status = "saved" /\ row.pair = tokens[k].pair
                              /\ row.uses = IF CountUse(d) THEN tokens[k].uses + 1
                                                           ELSE tokens[k].uses
  <2>1. tokens[k] \in TokenRow
    BY <1>4
  <2>2. CASE CountUse(d)
    <3>1. tokens' = [tokens EXCEPT ![k] = Counted(k)]
      BY <1>1, <2>2 DEF CountUse
    <3>2. QED
      BY <1>1, <2>1, <2>2, <3>1, CountedRow
  <2>3. CASE ~CountUse(d)
    <3>1. tokens' = tokens
      BY <2>3 DEF Redirect, CountFails
    <3>2. tokens' = [tokens EXCEPT ![k] = tokens[k]]
      BY <1>4, <3>1
    <3>3. QED
      BY <1>1, <2>1, <2>3, <3>2
  <2>4. QED
    BY <2>2, <2>3
<1>6. /\ tokens' \in [Tokens -> TokenRow]
      /\ tokens'[k] = row
      /\ \A t \in Tokens : t # k => tokens'[t] = tokens[t]
  BY <1>4, <1>5
<1>7. \A t \in Tokens : tokens'[t].status = tokens[t].status /\ tokens'[t].pair = tokens[t].pair
  BY <1>1, <1>5, <1>6
<1>8. TypeOK'
  <2>1. granted' \in [Tokens -> Nat] /\ lost' \in [Tokens -> Nat] /\ faults' \in Nat
    BY <1>4 DEF Redirect, CountUse, CountFails
  <2>2. QED
    BY <1>2, <1>3, <1>6, <2>1 DEF LeadInv, TypeOK
<1>9. OwnerInv'
  <2>1. \A c \in Requests : request[c].token \in Tokens \cup {0}
    BY DEF LeadInv, TypeOK, RequestLocals
  <2>2. request' = request /\ leads' = leads
    BY <1>2
  <2>3. QED
    BY <1>7, <2>1, <2>2 DEF LeadInv, OwnerInv
<1>10. RowInv'
  <2>1. \A p \in Pairs : Live(p)' = Live(p)
    BY <1>7 DEF Live
  <2>2. QED
    BY <1>2, <2>1 DEF LeadInv, RowInv, OneLinkPerLead
<1>11. LinkBacked'
  <2>1. exits + faults > 0 => exits' + faults' > 0
    BY <1>2, <1>4 DEF Redirect, CountUse, CountFails
  <2>2. mailed' = mailed /\ request' = request /\ mailed \subseteq Tokens
    BY <1>2 DEF LeadInv, TypeOK
  <2>3. QED
    BY <1>7, <2>1, <2>2 DEF LeadInv, LinkBacked
<1>12. \A t \in Tokens : t # k => /\ granted'[t] = granted[t] /\ lost'[t] = lost[t]
                                  /\ Uncounted(t)' <=> Uncounted(t)
  BY <1>1, <1>3 DEF Redirect, CountUse, CountFails, Uncounted, NoDownload, LeadInv, TypeOK
<1>13. FreshInv'
  <2>1. \A t \in Tokens : t >= nextToken => t # k
    BY <1>1 DEF Tokens, LeadInv, TypeOK
  <2>2. ASSUME NEW t \in Tokens, t >= nextToken'
        PROVE  /\ tokens'[t].status = "none" /\ t \notin mailed'
               /\ granted'[t] = 0 /\ lost'[t] = 0
    <3>1. mailed' = mailed /\ nextToken' = nextToken
      BY <1>2
    <3>2. t # k /\ t >= nextToken
      BY <2>1, <2>2, <3>1
    <3>3. QED
      BY <1>6, <1>12, <3>1, <3>2 DEF LeadInv, FreshInv
  <2>3. QED
    BY <2>2 DEF FreshInv
<1>14. \A e \in Downloads : e # d => ~Uses(e, k)
  BY <1>1 DEF LeadInv, LockInv, Uses, Redirect, CountUse, CountFails
<1>15. LockInv'
  <2>1. \A e \in Downloads, t \in Tokens : Uses(e, t)' => Uses(e, t)
    <3>1. ASSUME NEW t \in Tokens, Uses(d, t)'
          PROVE  Uses(d, t)
      <4>1. CASE Redirect(d)
        BY <1>1, <3>1, <4>1 DEF Uses, Redirect, LeadInv, TypeOK, DownloadLocals
      <4>2. CASE CountUse(d) \/ CountFails(d)
        BY <3>1, <4>2 DEF Uses, CountUse, CountFails, NoDownload, LeadInv, TypeOK
      <4>3. QED
        BY <4>1, <4>2
    <3>2. QED
      BY <1>3, <3>1 DEF Uses
  <2>2. CASE Redirect(d)
    <3>1. tokens' = tokens /\ download'[d].token = k
      BY <1>1, <2>2 DEF Redirect, LeadInv, TypeOK, DownloadLocals
    <3>2. QED
      BY <1>1, <1>3, <2>1, <3>1 DEF LeadInv, LockInv
  <2>3. CASE CountUse(d) \/ CountFails(d)
    <3>1. download'[d].pc = "idle"
      BY <2>3 DEF CountUse, CountFails, NoDownload, LeadInv, TypeOK
    <3>2. \A e \in Downloads : e # d /\ download[e].pc # "idle" => download[e].token # k
      BY <1>14 DEF Uses, LeadInv, TypeOK, DownloadLocals
    <3>3. \A e \in Downloads : download'[e].pc # "idle" =>
            /\ download'[e] = download[e] /\ download[e].token # k
      BY <1>3, <3>1, <3>2
    <3>4. QED
      BY <1>6, <2>1, <3>3 DEF LeadInv, LockInv
  <2>4. QED
    BY <2>2, <2>3
<1>16. LedgerInv'
  <2>1. /\ tokens'[k].status = "saved" /\ tokens'[k].uses <= MaxUses
        /\ granted'[k] = tokens'[k].uses + lost'[k] + (IF Uncounted(k)' THEN 1 ELSE 0)
    <3>1. /\ tokens[k] \in TokenRow /\ granted[k] \in Nat /\ lost[k] \in Nat
          /\ granted[k] = tokens[k].uses + lost[k] + (IF Uncounted(k) THEN 1 ELSE 0)
      BY DEF LeadInv, TypeOK, LedgerInv
    <3>2. \A e \in Downloads : e # d => download'[e] # [pc |-> "commit", token |-> k]
      BY <1>3, <1>14 DEF Uses
    <3>3. CASE Redirect(d)
      <4>1. ~Uncounted(k)
        BY <1>3, <3>2, <3>3 DEF Uncounted, Redirect
      <4>2. download'[d] = [pc |-> "commit", token |-> k]
        BY <1>1, <3>3 DEF Redirect, LeadInv, TypeOK, DownloadLocals
      <4>3. Uncounted(k)'
        BY <4>2 DEF Uncounted
      <4>4. tokens' = tokens /\ lost' = lost /\ granted'[k] = granted[k] + 1
        BY <1>1, <3>3 DEF Redirect, LeadInv, TypeOK
      <4>5. QED
        BY <1>1, <3>1, <4>1, <4>3, <4>4 DEF TokenRow
    <3>4. CASE CountUse(d) \/ CountFails(d)
      <4>1. download[d] = [pc |-> "commit", token |-> k]
        BY <1>1, <3>4 DEF CountUse, CountFails, LeadInv, TypeOK, DownloadLocals
      <4>2. Uncounted(k)
        BY <4>1 DEF Uncounted
      <4>3. download'[d] = NoDownload
        BY <3>4 DEF CountUse, CountFails, LeadInv, TypeOK
      <4>4. ~Uncounted(k)'
        BY <3>2, <4>3 DEF Uncounted, NoDownload
      <4>5. granted' = granted
        BY <3>4 DEF CountUse, CountFails
      <4>6. \/ tokens'[k].uses = tokens[k].uses + 1 /\ lost' = lost
            \/ tokens'[k].uses = tokens[k].uses /\ lost'[k] = lost[k] + 1
        <5>1. CASE CountUse(d)
          BY <1>5, <1>6, <5>1 DEF CountUse
        <5>2. CASE CountFails(d)
          BY <1>1, <1>4, <5>2 DEF CountFails
        <5>3. QED
          BY <3>4, <5>1, <5>2
      <4>7. tokens'[k].status = "saved"
        BY <1>5, <1>6
      <4>8. tokens[k].uses \in Nat /\ MaxUses \in Nat
        BY <3>1 DEF TokenRow
      <4>9. QED
        BY <1>1, <3>1, <4>2, <4>4, <4>5, <4>6, <4>7, <4>8
    <3>5. QED
      BY <3>3, <3>4
  <2>2. ASSUME NEW t \in Tokens, t # k
        PROVE  /\ tokens'[t].status # "saved" => tokens'[t].uses = 0
               /\ tokens'[t].uses <= MaxUses
               /\ granted'[t] = tokens'[t].uses + lost'[t] + (IF Uncounted(t)' THEN 1 ELSE 0)
    <3>1. /\ tokens'[t] = tokens[t] /\ granted'[t] = granted[t] /\ lost'[t] = lost[t]
          /\ Uncounted(t)' <=> Uncounted(t)
      BY <2>2, <1>6, <1>12
    <3>2. QED
      BY <3>1 DEF LeadInv, LedgerInv
  <2>3. QED
    BY <2>1, <2>2 DEF LedgerInv
<1>17. QED
  BY <1>8, <1>9, <1>10, <1>11, <1>13, <1>15, <1>16 DEF LeadInv

\* Expiry, the limiter's window and the exit.
LEMMA TimeKeepsInv ==
    ASSUME LeadInv,
           \/ \E ip \in IPs : WindowPasses(ip)
           \/ \E t \in Tokens : Expire(t)
    PROVE  LeadInv'
<1>1. CASE \E ip \in IPs : WindowPasses(ip)
  BY <1>1 DEF WindowPasses, LeadInv, TypeOK, OwnerInv, FreshInv, RowInv, OneLinkPerLead,
       Live, LockInv, Uses, LedgerInv, Uncounted, LinkBacked
<1>2. CASE \E t \in Tokens : Expire(t)
  <2>1. PICK k \in Tokens : Expire(k)
    BY <1>2
  <2>2. UNCHANGED <<leads, nextToken, request, download, recent, exits, faults,
                    mailed, granted, lost>>
    BY <2>1 DEF Expire
  <2>3. /\ tokens' \in [Tokens -> TokenRow]
        /\ \A t \in Tokens : /\ tokens'[t].status = tokens[t].status
                              /\ tokens'[t].pair = tokens[t].pair
                              /\ tokens'[t].uses = tokens[t].uses
    <3>1. tokens \in [Tokens -> TokenRow] /\ tokens[k] \in TokenRow
      BY DEF LeadInv, TypeOK
    <3>2. PICK row \in TokenRow : /\ tokens' = [tokens EXCEPT ![k] = row]
                                  /\ row.status = tokens[k].status
                                  /\ row.pair = tokens[k].pair /\ row.uses = tokens[k].uses
      <4>1. /\ [tokens[k] EXCEPT !.expired = TRUE] \in TokenRow
            /\ [tokens[k] EXCEPT !.expired = TRUE].status = tokens[k].status
            /\ [tokens[k] EXCEPT !.expired = TRUE].pair = tokens[k].pair
            /\ [tokens[k] EXCEPT !.expired = TRUE].uses = tokens[k].uses
        BY <3>1 DEF TokenRow
      <4>2. tokens' = [tokens EXCEPT ![k] = [tokens[k] EXCEPT !.expired = TRUE]]
        BY <2>1 DEF Expire
      <4>3. QED
        BY <4>1, <4>2
    <3>3. QED
      BY <3>1, <3>2
  <2>4. TypeOK'
    BY <2>2, <2>3 DEF LeadInv, TypeOK
  <2>5. OwnerInv'
    <3>1. \A c \in Requests : request[c].token \in Tokens \cup {0}
      BY DEF LeadInv, TypeOK, RequestLocals
    <3>2. request' = request /\ leads' = leads
      BY <2>2
    <3>3. QED
      BY <2>3, <3>1, <3>2 DEF LeadInv, OwnerInv
  <2>6. FreshInv' /\ RowInv'
    <3>1. \A p \in Pairs : Live(p)' = Live(p)
      BY <2>3 DEF Live
    <3>2. QED
      BY <2>2, <2>3, <3>1 DEF LeadInv, FreshInv, RowInv, OneLinkPerLead
  <2>7. LockInv'
    BY <2>2, <2>3 DEF LeadInv, LockInv, Uses
  <2>8. LedgerInv'
    BY <2>2, <2>3 DEF LeadInv, LedgerInv, Uncounted
  <2>9. LinkBacked'
    BY <2>2, <2>3 DEF LeadInv, TypeOK, LinkBacked
  <2>10. QED
    BY <2>4, <2>5, <2>6, <2>7, <2>8, <2>9 DEF LeadInv
<1>3. QED
  BY <1>1, <1>2

\* An exit rolls every request and download back; a redirect that was sent and
\* not counted is lost.
LEMMA RestartKeepsInv ==
    ASSUME LeadInv, Restart
    PROVE  LeadInv'
<1>1. /\ tokens \in [Tokens -> TokenRow] /\ lost \in [Tokens -> Nat]
      /\ exits \in Nat /\ faults \in Nat
  BY DEF LeadInv, TypeOK
<1>2. /\ tokens' \in [Tokens -> TokenRow]
      /\ \A t \in Tokens :
           /\ tokens'[t].pair = tokens[t].pair /\ tokens'[t].uses = tokens[t].uses
           /\ tokens'[t].status = "saved" <=> tokens[t].status = "saved"
           /\ tokens[t].status = "none" => tokens'[t].status = "none"
  <2>1. \A t \in Tokens : tokens[t] \in TokenRow
    BY <1>1
  <2>2. \A t \in Tokens : [tokens[t] EXCEPT !.status = "none"] \in TokenRow
    BY <2>1, ChangedRow
  <2>3. QED
    BY <2>1, <2>2 DEF Restart, TokenRow
<1>3. /\ NoRequest.token = 0 /\ NoRequest.pc = "idle" /\ "idle" \notin New
      /\ NoDownload.pc = "idle" /\ NoDownload # [pc |-> "commit", token |-> NoDownload.token]
  BY DEF NoRequest, New, NoDownload
<1>4. /\ \A c \in Requests : request'[c] = NoRequest
      /\ \A d \in Downloads : download'[d] = NoDownload
  BY DEF Restart
<1>5. /\ UNCHANGED <<leads, nextToken, faults, mailed, granted>>
      /\ exits' \in Nat /\ exits' > 0
      /\ \A t \in Tokens : lost'[t] = IF Uncounted(t) THEN lost[t] + 1 ELSE lost[t]
      /\ lost' \in [Tokens -> Nat]
  BY <1>1 DEF Restart
<1>6. TypeOK'
  BY <1>2, <1>5, NoRequestType, NoDownloadType DEF LeadInv, TypeOK, Restart
<1>7. OwnerInv'
  BY <1>3, <1>4 DEF OwnerInv
<1>8. RowInv'
  <2>1. \A p \in Pairs : Live(p)' = Live(p)
    BY <1>2 DEF Live
  <2>2. QED
    BY <1>5, <2>1 DEF LeadInv, RowInv, OneLinkPerLead
<1>9. FreshInv'
  <2>1. \A t \in Tokens : Uncounted(t) => tokens[t].status = "saved"
    BY DEF LeadInv, LockInv, Uncounted
  <2>2. QED
    BY <1>2, <1>5, <2>1 DEF LeadInv, FreshInv
<1>10. LockInv'
  BY <1>3, <1>4 DEF LockInv, Uses
<1>11. LedgerInv'
  <2>1. \A t \in Tokens : ~Uncounted(t)'
    BY <1>4 DEF Uncounted, NoDownload
  <2>2. ASSUME NEW t \in Tokens
        PROVE  granted'[t] = tokens'[t].uses + lost'[t]
    <3>1. /\ granted[t] = tokens[t].uses + lost[t] + (IF Uncounted(t) THEN 1 ELSE 0)
          /\ tokens[t].uses \in Nat /\ lost[t] \in Nat
      BY <1>1 DEF LeadInv, LedgerInv, TokenRow
    <3>2. granted'[t] = granted[t] /\ tokens'[t].uses = tokens[t].uses
      BY <1>2, <1>5
    <3>3. QED
      BY <1>5, <3>1, <3>2
  <2>3. \A t \in Tokens : tokens'[t].uses \in Nat /\ lost'[t] \in Nat
    BY <1>2, <1>5 DEF TokenRow
  <2>4. QED
    BY <1>2, <2>1, <2>2, <2>3 DEF LeadInv, LedgerInv
<1>12. LinkBacked'
  BY <1>1, <1>5 DEF LinkBacked
<1>13. QED
  BY <1>6, <1>7, <1>8, <1>9, <1>10, <1>11, <1>12 DEF LeadInv

-----------------------------------------------------------------------------
(* Theorems.                                                                *)

LEMMA InitInv == Init => LeadInv
<1>1. SUFFICES ASSUME Init PROVE LeadInv
  OBVIOUS
<1>2. OpenToken(Nobody) \in TokenRow /\ OpenToken(Nobody).uses = 0
  BY OpenTokenType DEF OpenToken
<1>3. /\ [OpenToken(Nobody) EXCEPT !.status = "none"] \in TokenRow
      /\ [OpenToken(Nobody) EXCEPT !.status = "none"].status = "none"
      /\ [OpenToken(Nobody) EXCEPT !.status = "none"].uses = 0
  BY <1>2, ChangedRow DEF TokenRow
<1>4. NoRequest.token = 0 /\ NoRequest.pc = "idle" /\ "idle" \notin New
      /\ NoDownload.pc = "idle" /\ NoDownload.token = 0
  BY DEF NoRequest, New, NoDownload
<1>5. TypeOK
  BY <1>1, <1>3, NoRequestType, NoDownloadType DEF Init, TypeOK, LeadRow
<1>6. OwnerInv /\ FreshInv /\ LinkBacked
  BY <1>1, <1>3, <1>4 DEF Init, OwnerInv, FreshInv, LinkBacked
<1>7. RowInv
  BY <1>1, <1>3 DEF Init, RowInv, OneLinkPerLead, Live
<1>8. LockInv
  BY <1>1, <1>4 DEF Init, LockInv, Uses
<1>9. LedgerInv
  <2>1. \A t \in Tokens : ~Uncounted(t)
    BY <1>1 DEF Init, Uncounted, NoDownload
  <2>2. \A t \in Tokens : tokens[t].uses = 0 /\ granted[t] = 0 /\ lost[t] = 0
    BY <1>1, <1>3 DEF Init
  <2>3. QED
    BY <2>1, <2>2 DEF LedgerInv
<1>10. QED
  BY <1>5, <1>6, <1>7, <1>8, <1>9 DEF LeadInv

\* Every step keeps the inductive invariant.
LEMMA StepInv == LeadInv /\ [Next]_vars => LeadInv'
<1>1. SUFFICES ASSUME LeadInv, [Next]_vars PROVE LeadInv'
  OBVIOUS
<1>2. CASE \E c \in Requests : Capture(c)
  BY <1>1, <1>2, ArriveKeepsInv, ResendKeepsInv, InsertKeepsInv, BackgroundKeepsInv,
     CommitKeepsInv, FailKeepsInv DEF Capture
<1>3. CASE \E d \in Downloads : DownloadStep(d)
  BY <1>1, <1>3, LookupKeepsInv, UseKeepsInv DEF DownloadStep
<1>4. CASE (\E ip \in IPs : WindowPasses(ip)) \/ (\E t \in Tokens : Expire(t))
  BY <1>1, <1>4, TimeKeepsInv
<1>5. CASE Restart
  BY <1>1, <1>5, RestartKeepsInv
<1>6. CASE UNCHANGED vars
  BY <1>1, <1>6 DEF vars, LeadInv, TypeOK, OwnerInv, FreshInv, RowInv, OneLinkPerLead,
       Live, LockInv, Uses, LedgerInv, Uncounted, LinkBacked
<1>7. QED
  BY <1>1, <1>2, <1>3, <1>4, <1>5, <1>6 DEF Next

\* The inductive invariant holds in every reachable state: requests own what
\* they have inserted, row locks exclude each other, redirects are accounted for.
THEOREM Invariance == Spec => []LeadInv
BY InitInv, StepInv, PTL DEF Spec

\* Every variable of the component keeps its type.
THEOREM TypeCorrect == Spec => []TypeOK
<1>1. LeadInv => TypeOK
  BY DEF LeadInv
<1>2. QED
  BY <1>1, Invariance, PTL

\* activate_atomic: however many downloads of a link overlap, it is exchanged
\* max_uses times at most, plus once per redirect whose commit failed.
THEOREM GrantLimit == Spec => []GrantsBounded
<1>1. LeadInv => GrantsBounded
  <2>1. SUFFICES ASSUME LeadInv, NEW t \in Tokens PROVE granted[t] <= MaxUses + lost[t]
    BY DEF GrantsBounded
  <2>2. /\ granted[t] = tokens[t].uses + lost[t] + (IF Uncounted(t) THEN 1 ELSE 0)
        /\ tokens[t].uses <= MaxUses /\ tokens[t].uses \in Nat /\ lost[t] \in Nat
    BY <2>1 DEF LeadInv, LedgerInv, TypeOK, TokenRow
  <2>3. Uncounted(t) => tokens[t].uses < MaxUses
    BY <2>1 DEF LeadInv, LockInv, Uncounted
  <2>4. QED
    BY <2>2, <2>3
<1>2. QED
  BY <1>1, Invariance, PTL

\* Mail before commit: only a fault or an exit leaves a mailed link without a row.
THEOREM MailedLinks == Spec => []LinkBacked
<1>1. LeadInv => LinkBacked
  BY DEF LeadInv
<1>2. QED
  BY <1>1, Invariance, PTL

\* get_or_create: overlapping captures of one pair never issue two tokens.
THEOREM OneLink == Spec => []OneLinkPerLead
<1>1. LeadInv => OneLinkPerLead
  BY DEF LeadInv, RowInv
<1>2. QED
  BY <1>1, Invariance, PTL


-----------------------------------------------------------------------------
(* The newsletter: what LeadSync keeps for any leads, addresses and number  *)
(* of resyncs.                                                             *)

\* The record of one resync.
Resync == [pc : {"idle", "next", "call", "synced", "failed"},
           todo : SUBSET Leads, lead : Leads \cup {0}, attempt : Nat,
           synced : SUBSET Leads, failed : SUBSET Leads]

\* Before anything is saved nothing is marked.
LEMMA InitSync == SyncInit => SyncInv
  BY SyncConstants DEF SyncInit, SyncInv, SyncTypeOK, MarksGenuine, CountedOnce, LocksExclude, LeadsExist,
     NoResync, Marks, At, Address, Emails

\* What SyncInv says of the record of one resync, in a form that can be checked record by
\* record: `acc` and `ref` are the addresses the ESP has accepted and refused.
Good(v, sv, acc, ref) ==
    /\ v \in Resync
    /\ \A l \in v.synced : Email[l] \in acc
    /\ \A l \in v.failed : Email[l] \in ref
    /\ v.pc = "synced" => Email[v.lead] \in acc
    /\ v.pc = "failed" => Email[v.lead] \in ref
    /\ v.synced \cap v.failed = {}
    /\ (v.synced \cup v.failed) \cap (v.todo \cup {v.lead}) = {}
    /\ v.lead \notin v.todo
    /\ v.synced \cup v.failed \cup v.todo \subseteq sv
    /\ v.pc \in {"call", "synced", "failed"} => v.lead \in sv

Marked(v) == v.synced \cup v.failed

\* SyncInv, request by request.
LEMMA SyncByResync ==
  SyncInv <=>
    /\ saved \subseteq Leads /\ synced \subseteq saved /\ failed \subseteq saved
    /\ accepted \subseteq Emails /\ refused \subseteq Emails
    /\ \A l \in synced : Email[l] \in accepted
    /\ \A l \in failed : Email[l] \in refused
    /\ resync = [r \in Resyncs |-> resync[r]]
    /\ \A r \in Resyncs : Good(resync[r], saved, accepted, refused)
    /\ \A q, r \in Resyncs : q # r => Marked(resync[q]) \cap Marked(resync[r]) = {}
  BY DEF SyncInv, SyncTypeOK, MarksGenuine, CountedOnce, LocksExclude, LeadsExist, Good, Marked, Marks,
     At, Address, Resync

LEMMA SyncByResyncPrime ==
  SyncInv' <=>
    /\ saved' \subseteq Leads /\ synced' \subseteq saved' /\ failed' \subseteq saved'
    /\ accepted' \subseteq Emails /\ refused' \subseteq Emails
    /\ \A l \in synced' : Email[l] \in accepted'
    /\ \A l \in failed' : Email[l] \in refused'
    /\ resync' = [r \in Resyncs |-> resync'[r]]
    /\ \A r \in Resyncs : Good(resync'[r], saved', accepted', refused')
    /\ \A q, r \in Resyncs : q # r => Marked(resync'[q]) \cap Marked(resync'[r]) = {}
  BY DEF SyncInv, SyncTypeOK, MarksGenuine, CountedOnce, LocksExclude, LeadsExist, Good, Marked, Marks,
     At, Address, Resync

\* A step of one resync keeps SyncInv when its new record is good and marks no row that
\* another one has marked.
LEMMA OneResync ==
  ASSUME SyncInv, NEW r \in Resyncs, NEW v,
         resync' = [resync EXCEPT ![r] = v],
         saved' = saved,
         accepted \subseteq accepted', accepted' \subseteq Emails,
         refused \subseteq refused', refused' \subseteq Emails,
         synced' \subseteq saved, failed' \subseteq saved,
         \A l \in synced' : Email[l] \in accepted',
         \A l \in failed' : Email[l] \in refused',
         Good(v, saved, accepted', refused'),
         \A q \in Resyncs \ {r} : Marked(v) \cap Marked(resync[q]) = {}
  PROVE  SyncInv'
<1>1. /\ saved \subseteq Leads
      /\ resync = [q \in Resyncs |-> resync[q]]
      /\ \A q \in Resyncs : Good(resync[q], saved, accepted, refused)
      /\ \A p, q \in Resyncs : p # q => Marked(resync[p]) \cap Marked(resync[q]) = {}
  BY SyncByResync
<1>2. /\ resync' = [q \in Resyncs |-> resync'[q]]
      /\ \A q \in Resyncs : resync'[q] = IF q = r THEN v ELSE resync[q]
  BY <1>1
<1>3. \A q \in Resyncs \ {r} : Good(resync[q], saved, accepted', refused')
  BY <1>1 DEF Good
<1>4. \A q \in Resyncs : Good(resync'[q], saved', accepted', refused')
  BY <1>2, <1>3
<1>5. \A p, q \in Resyncs : p # q => Marked(resync'[p]) \cap Marked(resync'[q]) = {}
  BY <1>1, <1>2
<1> QED
  BY <1>1, <1>2, <1>4, <1>5, SyncByResyncPrime

\* The lead a resync works on is a row of the table.
LEMMA Working ==
  ASSUME SyncInv, NEW r \in Resyncs, resync[r].pc \in {"call", "synced", "failed"}
  PROVE  /\ resync[r] \in Resync /\ Good(resync[r], saved, accepted, refused)
         /\ resync[r].lead \in saved /\ resync[r].lead \in Leads /\ Address(r) \in Emails
<1>1. saved \subseteq Leads /\ Good(resync[r], saved, accepted, refused)
  BY SyncByResync
<1> QED
  BY <1>1 DEF Good, Address, Emails

\* The same, when the table stays as it is.
LEMMA SameTable ==
  ASSUME SyncInv, NEW r \in Resyncs, NEW v,
         resync' = [resync EXCEPT ![r] = v],
         UNCHANGED <<saved, synced, failed>>,
         accepted \subseteq accepted', accepted' \subseteq Emails,
         refused \subseteq refused', refused' \subseteq Emails,
         Good(v, saved, accepted', refused'),
         \A q \in Resyncs \ {r} : Marked(v) \cap Marked(resync[q]) = {}
  PROVE  SyncInv'
<1>1. /\ synced' \subseteq saved /\ failed' \subseteq saved
      /\ \A l \in synced' : Email[l] \in accepted'
      /\ \A l \in failed' : Email[l] \in refused'
  BY SyncByResync
<1> QED
  BY <1>1, OneResync

\* Two resyncs do not hold one row.
LEMMA Apart ==
  ASSUME SyncInv, NEW r \in Resyncs, NEW v, Marked(v) \subseteq Marked(resync[r])
  PROVE  \A q \in Resyncs \ {r} : Marked(v) \cap Marked(resync[q]) = {}
<1>1. \A q \in Resyncs \ {r} : Marked(resync[r]) \cap Marked(resync[q]) = {}
  BY SyncByResync
<1> QED
  BY <1>1

\* The addresses are those of leads.
LEMMA Known ==
  ASSUME SyncInv
  PROVE  saved \subseteq Leads /\ accepted \subseteq Emails /\ refused \subseteq Emails
  BY SyncByResync

-----------------------------------------------------------------------------
(* One lemma for each action.                                               *)

LEMMA SaveKeeps == ASSUME SyncInv, NEW l \in Leads, Save(l) PROVE SyncInv'
<1>1. \A r \in Resyncs : Good(resync[r], saved', accepted, refused)
  BY SyncByResync DEF Save, Good
<1> QED
  BY <1>1, SyncByResync, SyncByResyncPrime DEF Save

LEMMA BeginKeeps == ASSUME SyncInv, NEW r \in Resyncs, Begin(r) PROVE SyncInv'
<1> DEFINE v == [NoResync EXCEPT !.pc = "next", !.todo = Oldest(Unsynced)]
<1>1. Oldest(Unsynced) \subseteq saved /\ saved \subseteq Leads /\ 0 \notin Leads
  BY SyncByResync, SyncConstants DEF Oldest, Unsynced
<1>2. Good(v, saved, accepted, refused) /\ Marked(v) = {}
  BY <1>1 DEF Good, Resync, NoResync, Marked
<1>3. resync' = [resync EXCEPT ![r] = v]
  BY DEF Begin
<1> HIDE DEF v
<1>4. \A q \in Resyncs \ {r} : Marked(v) \cap Marked(resync[q]) = {}
  BY <1>2
<1> QED
  BY <1>2, <1>3, <1>4, Known, SameTable DEF Begin

LEMMA TakeKeeps == ASSUME SyncInv, NEW r \in Resyncs, Take(r) PROVE SyncInv'
<1>1. PICK l \in InOrder(resync[r].todo) :
        resync' = [resync EXCEPT ![r].pc = "call", ![r].todo = @ \ {l}, ![r].lead = l]
  BY DEF Take
<1> DEFINE v == [resync[r] EXCEPT !.pc = "call", !.todo = @ \ {l}, !.lead = l]
<1>2. l \in resync[r].todo /\ Good(resync[r], saved, accepted, refused)
  BY SyncByResync DEF InOrder
<1>3. /\ v.pc = "call" /\ v.todo = resync[r].todo \ {l} /\ v.lead = l
      /\ v.synced = resync[r].synced /\ v.failed = resync[r].failed
      /\ v \in Resync
  BY <1>2 DEF Good, Resync
<1>4. Good(v, saved, accepted, refused) /\ Marked(v) = Marked(resync[r])
  BY <1>2, <1>3 DEF Good, Marked
<1>5. resync' = [resync EXCEPT ![r] = v]
  BY <1>1
<1> HIDE DEF v
<1>6. \A q \in Resyncs \ {r} : Marked(v) \cap Marked(resync[q]) = {}
  BY <1>4, Apart
<1> QED
  BY <1>4, <1>5, <1>6, Known, SameTable DEF Take

LEMMA GoodGrows ==
  ASSUME NEW v, NEW sv, NEW acc, NEW ref, NEW acc2, NEW ref2, Good(v, sv, acc, ref),
         acc \subseteq acc2, ref \subseteq ref2
  PROVE  Good(v, sv, acc2, ref2)
  BY DEF Good

LEMMA AcceptKeeps == ASSUME SyncInv, NEW r \in Resyncs, Accept(r) PROVE SyncInv'
<1>1. /\ resync[r] \in Resync /\ Good(resync[r], saved, accepted, refused)
      /\ Address(r) \in Emails /\ resync[r].pc = "call"
  BY Working DEF Accept, At
<1> DEFINE w == [resync[r] EXCEPT !.pc = "synced", !.attempt = 0]
<1>2. Good(resync[r], saved, accepted', refused)
  BY <1>1, GoodGrows DEF Accept
<1>3. Email[resync[r].lead] \in accepted'
  BY DEF Accept, Address
<1>4. /\ w.pc = "synced" /\ w.todo = resync[r].todo /\ w.lead = resync[r].lead
      /\ w.synced = resync[r].synced /\ w.failed = resync[r].failed /\ w \in Resync
  BY <1>1 DEF Resync
<1>5. Good(w, saved, accepted', refused) /\ Marked(w) = Marked(resync[r])
  BY <1>1, <1>2, <1>3, <1>4 DEF Good, Marked
<1>6. resync' = [resync EXCEPT ![r] = w]
  BY DEF Accept, Goto
<1> HIDE DEF w
<1>7. \A q \in Resyncs \ {r} : Marked(w) \cap Marked(resync[q]) = {}
  BY <1>5, Apart
<1> QED
  BY <1>1, <1>5, <1>6, <1>7, Known, SameTable DEF Accept

LEMMA RefuseKeeps == ASSUME SyncInv, NEW r \in Resyncs, Refuse(r) PROVE SyncInv'
<1>1. /\ resync[r] \in Resync /\ Good(resync[r], saved, accepted, refused)
      /\ Address(r) \in Emails /\ resync[r].pc = "call"
  BY Working DEF Refuse, At
<1> DEFINE w == [resync[r] EXCEPT !.pc = "failed", !.attempt = 0]
<1>2. Good(resync[r], saved, accepted, refused')
  BY <1>1, GoodGrows DEF Refuse
<1>3. Email[resync[r].lead] \in refused'
  BY DEF Refuse, Address
<1>4. /\ w.pc = "failed" /\ w.todo = resync[r].todo /\ w.lead = resync[r].lead
      /\ w.synced = resync[r].synced /\ w.failed = resync[r].failed /\ w \in Resync
  BY <1>1 DEF Resync
<1>5. Good(w, saved, accepted, refused') /\ Marked(w) = Marked(resync[r])
  BY <1>1, <1>2, <1>3, <1>4 DEF Good, Marked
<1>6. resync' = [resync EXCEPT ![r] = w]
  BY DEF Refuse, Goto
<1> HIDE DEF w
<1>7. \A q \in Resyncs \ {r} : Marked(w) \cap Marked(resync[q]) = {}
  BY <1>5, Apart
<1> QED
  BY <1>1, <1>5, <1>6, <1>7, Known, SameTable DEF Refuse

\* A lead that is left, or marked, is not worked on any more.
LEMMA OnToNextGood ==
  ASSUME NEW r \in Resyncs, NEW acc, NEW ref, Good(resync[r], saved, acc, ref), 0 \notin Leads,
         saved \subseteq Leads
  PROVE  Good(OnToNext(r), saved, acc, ref) /\ Marked(OnToNext(r)) = Marked(resync[r])
<1> DEFINE v == resync[r]
           w == [v EXCEPT !.pc = "next", !.lead = 0, !.attempt = 0]
<1>1. /\ w.pc = "next" /\ w.todo = v.todo /\ w.lead = 0 /\ w.synced = v.synced
      /\ w.failed = v.failed /\ w \in Resync
  BY DEF Resync, Good
<1>2. Good(w, saved, acc, ref) /\ Marked(w) = Marked(v)
  BY <1>1 DEF Good, Marked
<1> QED
  BY <1>2 DEF OnToNext

LEMMA NoAnswerKeeps == ASSUME SyncInv, NEW r \in Resyncs, NoAnswer(r) PROVE SyncInv'
<1>1. /\ resync[r] \in Resync /\ Good(resync[r], saved, accepted, refused)
      /\ Address(r) \in Emails
  BY Working DEF NoAnswer, At
<1>2. Good(resync[r], saved, accepted', refused)
  BY <1>1, GoodGrows DEF NoAnswer
<1>3. CASE resync[r].attempt + 1 < MaxAttempts
  <2> DEFINE w == [resync[r] EXCEPT !.attempt = @ + 1]
  <2>1. /\ w.pc = resync[r].pc /\ w.todo = resync[r].todo /\ w.lead = resync[r].lead
        /\ w.synced = resync[r].synced /\ w.failed = resync[r].failed /\ w \in Resync
    BY <1>1 DEF Resync
  <2>2. Good(w, saved, accepted', refused) /\ Marked(w) = Marked(resync[r])
    BY <1>2, <2>1 DEF Good, Marked
  <2>3. resync' = [resync EXCEPT ![r] = w]
    BY <1>3 DEF NoAnswer
  <2> HIDE DEF w
  <2>4. \A q \in Resyncs \ {r} : Marked(w) \cap Marked(resync[q]) = {}
    BY <2>2, Apart
  <2> QED
    BY <1>1, <2>2, <2>3, <2>4, Known, SameTable DEF NoAnswer
<1>4. CASE ~(resync[r].attempt + 1 < MaxAttempts)
  <2>1. resync' = [resync EXCEPT ![r] = OnToNext(r)]
    BY <1>4 DEF NoAnswer, Exhausted
  <2>2. Good(OnToNext(r), saved, accepted', refused) /\ Marked(OnToNext(r)) = Marked(resync[r])
    BY <1>2, OnToNextGood, Known, SyncConstants
  <2>3. \A q \in Resyncs \ {r} : Marked(OnToNext(r)) \cap Marked(resync[q]) = {}
    BY <2>2, Apart
  <2> QED
    BY <1>1, <2>1, <2>2, <2>3, Known, SameTable DEF NoAnswer
<1> QED
  BY <1>3, <1>4

LEMMA MarkSyncedKeeps == ASSUME SyncInv, NEW r \in Resyncs, MarkSynced(r) PROVE SyncInv'
<1>1. /\ resync[r] \in Resync /\ Good(resync[r], saved, accepted, refused)
      /\ resync[r].lead \in saved /\ resync[r].lead \in Leads /\ resync[r].pc = "synced"
  BY Working DEF MarkSynced, At
<1> DEFINE v == resync[r]
           w == [OnToNext(r) EXCEPT !.synced = @ \cup {resync[r].lead}]
<1>2. /\ w.pc = "next" /\ w.todo = v.todo /\ w.lead = 0 /\ w.synced = v.synced \cup {v.lead}
      /\ w.failed = v.failed /\ w \in Resync
  BY <1>1 DEF Resync, OnToNext
<1>3. Good(w, saved, accepted, refused)
  BY <1>1, <1>2, SyncByResync, SyncConstants DEF Good
<1>4. \A q \in Resyncs \ {r} : Marked(w) \cap Marked(resync[q]) = {}
  BY <1>2, SyncByResync DEF Marked, MarkSynced, Unmarked, Marks
<1>5. resync' = [resync EXCEPT ![r] = w]
  BY DEF MarkSynced
<1> HIDE DEF w
<1> QED
  BY <1>3, <1>4, <1>5, Known, SameTable DEF MarkSynced

LEMMA MarkFailedKeeps == ASSUME SyncInv, NEW r \in Resyncs, MarkFailed(r) PROVE SyncInv'
<1>1. /\ resync[r] \in Resync /\ Good(resync[r], saved, accepted, refused)
      /\ resync[r].lead \in saved /\ resync[r].lead \in Leads /\ resync[r].pc = "failed"
  BY Working DEF MarkFailed, At
<1> DEFINE v == resync[r]
           w == [OnToNext(r) EXCEPT !.failed = @ \cup {resync[r].lead}]
<1>2. /\ w.pc = "next" /\ w.todo = v.todo /\ w.lead = 0 /\ w.failed = v.failed \cup {v.lead}
      /\ w.synced = v.synced /\ w \in Resync
  BY <1>1 DEF Resync, OnToNext
<1>3. Good(w, saved, accepted, refused)
  BY <1>1, <1>2, SyncByResync, SyncConstants DEF Good
<1>4. \A q \in Resyncs \ {r} : Marked(w) \cap Marked(resync[q]) = {}
  BY <1>2, SyncByResync DEF Marked, MarkFailed, Unmarked, Marks
<1>5. resync' = [resync EXCEPT ![r] = w]
  BY DEF MarkFailed
<1> HIDE DEF w
<1> QED
  BY <1>3, <1>4, <1>5, Known, SameTable DEF MarkFailed

\* What a resync leaves behind, whether it commits or not.
LEMMA NoResyncGood == Good(NoResync, saved, accepted, refused) /\ Marked(NoResync) = {}
  BY SyncConstants DEF Good, Resync, NoResync, Marked

LEMMA CommitKeeps == ASSUME SyncInv, NEW r \in Resyncs, CommitMarks(r) PROVE SyncInv'
<1>1. Good(resync[r], saved, accepted, refused)
  BY SyncByResync
<1>2. /\ synced' \subseteq saved /\ failed' \subseteq saved
      /\ \A l \in synced' : Email[l] \in accepted'
      /\ \A l \in failed' : Email[l] \in refused'
  BY <1>1, SyncByResync DEF CommitMarks, Good
<1>3. \A q \in Resyncs \ {r} : Marked(NoResync) \cap Marked(resync[q]) = {}
  BY NoResyncGood
<1> QED
  BY <1>2, <1>3, Known, NoResyncGood, OneResync DEF CommitMarks

LEMMA AbortKeeps == ASSUME SyncInv, NEW r \in Resyncs, Abort(r) PROVE SyncInv'
<1>1. \A q \in Resyncs \ {r} : Marked(NoResync) \cap Marked(resync[q]) = {}
  BY NoResyncGood
<1> QED
  BY <1>1, Known, NoResyncGood, SameTable DEF Abort

-----------------------------------------------------------------------------
\* LeadSync: marks are what the ESP has answered for the address, a resync counts a lead
\* once, and no two of them hold one row, for any number of leads and of resyncs.
THEOREM MarksKept == SyncSpec => []SyncInv
<1>1. SyncInv /\ [SyncNext]_syncVars => SyncInv'
  <2> SUFFICES ASSUME SyncInv, [SyncNext]_syncVars PROVE SyncInv'
    OBVIOUS
  <2>1. ASSUME NEW l \in Leads, CaptureLead(l) \/ Inquire(l) PROVE SyncInv'
    BY <2>1, SaveKeeps DEF CaptureLead, Inquire
  <2>2. ASSUME NEW r \in Resyncs, Begin(r) PROVE SyncInv'
    BY <2>2, BeginKeeps
  <2>3. ASSUME NEW r \in Resyncs, Take(r) PROVE SyncInv'
    BY <2>3, TakeKeeps
  <2>4. ASSUME NEW r \in Resyncs, Answer(r) PROVE SyncInv'
    BY <2>4, AcceptKeeps, RefuseKeeps, NoAnswerKeeps DEF Answer
  <2>5. ASSUME NEW r \in Resyncs, Mark(r) PROVE SyncInv'
    BY <2>5, MarkSyncedKeeps, MarkFailedKeeps DEF Mark
  <2>6. ASSUME NEW r \in Resyncs, CommitMarks(r) \/ Abort(r) PROVE SyncInv'
    BY <2>6, CommitKeeps, AbortKeeps
  <2>7. CASE UNCHANGED syncVars
    BY <2>7 DEF syncVars, SyncInv, SyncTypeOK, MarksGenuine, CountedOnce, LocksExclude, LeadsExist, Marks, At, Address
  <2> QED
    BY <2>1, <2>2, <2>3, <2>4, <2>5, <2>6, <2>7 DEF SyncNext
<1> QED
  BY InitSync, <1>1, PTL DEF SyncSpec
=============================================================================
