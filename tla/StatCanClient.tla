---------------------------- MODULE StatCanClient ----------------------------
(***************************************************************************)
(* StatCanClient with its token bucket and its maintenance guard.  Every   *)
(* caller, an API request or a job, builds a client and a bucket of its    *)
(* own.  Here it asks for one cube, and the client goes when it has the    *)
(* result; a job that goes through several cubes with one client is not    *)
(* modelled.                                                               *)
(*                                                                         *)
(* One unit of time is what a token takes to accrue: the bucket refills    *)
(* when it is asked, by the time elapsed, which is the same as one token   *)
(* per unit up to the capacity.                                            *)
(***************************************************************************)
EXTENDS Integers

CONSTANTS
    Callers,
    Capacity,    \* of a bucket: the calls that may go out at once
    MaxRetries

ASSUME ClientConstants ==
    Capacity \in Nat \ {0} /\ MaxRetries \in Nat

VARIABLES
    client       \* of every caller: the bucket, and the local variables of request()

Fresh == [pc |-> "idle", attempt |-> 0, tokens |-> Capacity]

SetClient(c, pc) == client' = [client EXCEPT ![c].pc = pc]

-----------------------------------------------------------------------------
\* The guard is asked once, before anything is waited for: it lets the request pass, or
\* raises in StatCan's nightly maintenance window.
Request(c) ==
    /\ client[c].pc = "idle"
    /\ \E pc \in {"acquire", "failed"} : SetClient(c, pc)

\* _refill under the lock.
Accrue(c) ==
    /\ client[c].pc \in {"acquire", "wait"}
    /\ client[c].tokens < Capacity
    /\ client' = [client EXCEPT ![c].tokens = @ + 1]

\* The token is taken at once, even one that is still to accrue: tokens may be negative.
Acquire(c) ==
    /\ client[c].pc = "acquire"
    /\ client' = [client EXCEPT
          ![c].tokens = @ - 1, ![c].pc = IF client[c].tokens < 1 THEN "wait" ELSE "http"]

\* The single sleep, until the reserved token is due.
Wake(c) ==
    /\ client[c].pc = "wait"
    /\ client[c].tokens >= 0
    /\ SetClient(c, "http")

RetryableForever(c) ==
    /\ client[c].pc = "http"
    /\ client' = [client EXCEPT ![c].pc = "backoff"]

\* 429, 409 or 503: back off and try again, or give up.
Retryable(c) ==
    /\ client[c].pc = "http"
    /\ IF client[c].attempt < MaxRetries
       THEN client' = [client EXCEPT ![c].pc = "backoff", ![c].attempt = @ + 1]
       ELSE client' = [client EXCEPT ![c].pc = "failed", ![c].attempt = 0]

BackedOff(c) ==
    /\ client[c].pc = "backoff"
    /\ SetClient(c, "acquire")

\* A usable answer, or none: an answer without the object asked for, the network, a
\* time-out, another status, a body that is not what it should be.
Respond(c, result) ==
    /\ client[c].pc = "http"
    /\ result \in {"answered", "failed"}
    /\ client' = [client EXCEPT ![c].pc = result, ![c].attempt = 0]

\* The caller takes the result and asks nothing more: client and bucket go.
Take(c) == client' = [client EXCEPT ![c] = Fresh]

-----------------------------------------------------------------------------
ClientInit == client = [c \in Callers |-> Fresh]

ClientStep(c) ==
    \/ Accrue(c) \/ Acquire(c) \/ Wake(c) \/ Retryable(c) \/ BackedOff(c)
    \/ \E result \in {"answered", "failed"} : Respond(c, result)

\* One caller per bucket: it never owes more than the one token it waits for.
ClientTypeOK ==
    client \in [Callers ->
          [pc : {"idle", "acquire", "wait", "http", "backoff", "answered", "failed"},
           attempt : 0 .. MaxRetries, tokens : -1 .. Capacity]]
=============================================================================
