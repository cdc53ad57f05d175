----------------------------- MODULE TokenCache -----------------------------
(***************************************************************************)
(* The access token of the FactPulse client for one account, shared by the *)
(* threads of a process (apps/factpulse/client.py).  A lock that is not    *)
(* re-entrant guards the cache.  A request that is answered 401 gets a new *)
(* token and is sent once more; an invoice is generated by a request that  *)
(* starts a task and others that ask for its result, each with its token.  *)
(***************************************************************************)
EXTENDS Naturals

CONSTANTS
  Threads,       \* threads that call the client
  Nobody,        \* no thread holds the lock
  MaxPolls,      \* how often the result of a task is asked for (30)
  MaxRevocations \* bound: how often FactPulse revokes the tokens

ASSUME TokenAssumption ==
  Nobody \notin Threads /\ MaxPolls \in Nat /\ MaxRevocations \in Nat

VARIABLES
  epoch,  \* FactPulse: tokens of earlier epochs are refused
  cache,  \* the epoch of the cached token and whether its lifetime is running
  lock,   \* the thread that holds the lock
  at,     \* where each thread is
  bearer, \* the epoch of the token each thread sends
  retried, \* whether the request is sent for the second time
  left    \* how often each thread may still ask for the result of its task

tokenVars == <<epoch, cache, lock, at, bearer, retried, left>>

NoToken == [epoch |-> 0, running |-> FALSE]

TokenInit ==
  /\ epoch = 1
  /\ cache = NoToken
  /\ lock = Nobody
  /\ at = [t \in Threads |-> "idle"]
  /\ bearer = [t \in Threads |-> 0]
  /\ retried = [t \in Threads |-> FALSE]
  /\ left = [t \in Threads |-> 0]

MoveTo(t, l) == at' = [at EXCEPT ![t] = l] /\ UNCHANGED left

\* The caller has its answer, or an exception.
Return(t) ==
  /\ at' = [at EXCEPT ![t] = "idle"]
  /\ left' = [left EXCEPT ![t] = 0]

\* A request, after which n more may follow.
Request(t, n) ==
  /\ retried' = [retried EXCEPT ![t] = FALSE]
  /\ at' = [at EXCEPT ![t] = "ensure"]
  /\ left' = [left EXCEPT ![t] = n]
  /\ UNCHANGED <<epoch, cache, lock, bearer>>

Call(t) == at[t] = "idle" /\ Request(t, 0)

GenerateInvoice(t) == at[t] = "idle" /\ Request(t, MaxPolls)

\* with self._lock, in _ensure_token.
AcquireToEnsure(t) ==
  /\ at[t] = "ensure" /\ lock = Nobody
  /\ IF cache.running
     THEN MoveTo(t, "headers") /\ UNCHANGED lock
     ELSE lock' = t /\ MoveTo(t, IF cache = NoToken THEN "obtain" ELSE "refresh")
  /\ UNCHANGED <<epoch, cache, bearer, retried>>

\* _refresh_access_token: a refresh token of an earlier epoch is refused, and
\* the call may fail: the thread then authenticates, under the same lock.
Refresh(t) ==
  /\ at[t] = "refresh"
  /\ \/ /\ cache.epoch = epoch
        /\ cache' = [cache EXCEPT !.running = TRUE]
        /\ lock' = Nobody
        /\ MoveTo(t, "headers")
     \/ MoveTo(t, "obtain") /\ UNCHANGED <<cache, lock>>
  /\ UNCHANGED <<epoch, bearer, retried>>

\* Where a thread goes with a new pair: once it has renewed it after a 401, the
\* headers are built anew.
AfterPair(t) == IF at[t] = "renewing" THEN "ensure" ELSE "headers"

\* Mutation: the lock is still held when the headers are built after a 401.
ObtainKeepingLock(t) ==
  /\ at[t] \in {"obtain", "renewing"}
  /\ \/ /\ cache' = [epoch |-> epoch, running |-> TRUE]
        /\ MoveTo(t, AfterPair(t))
        /\ lock' = IF at[t] = "renewing" THEN lock ELSE Nobody
     \/ Return(t) /\ lock' = Nobody /\ UNCHANGED cache
  /\ UNCHANGED <<epoch, bearer, retried>>

\* _obtain_tokens: a new pair is cached, or the request fails.
Obtain(t) ==
  /\ at[t] \in {"obtain", "renewing"}
  /\ \/ /\ cache' = [epoch |-> epoch, running |-> TRUE]
        /\ MoveTo(t, AfterPair(t))
     \/ Return(t) /\ UNCHANGED cache
  /\ lock' = Nobody
  /\ UNCHANGED <<epoch, bearer, retried>>

\* _headers reads the cache without the lock.
BuildHeaders(t) ==
  /\ at[t] = "headers"
  /\ bearer' = [bearer EXCEPT ![t] = cache.epoch]
  /\ MoveTo(t, "send")
  /\ UNCHANGED <<epoch, cache, lock, retried>>

\* The answer is anything but a 401, or the connection fails.
Answered(t) ==
  /\ at[t] = "send"
  /\ Return(t)
  /\ UNCHANGED <<epoch, cache, lock, bearer, retried>>

\* The task was accepted (202), or is not finished: it is asked for again, unless
\* that was the last time.
TaskPending(t) ==
  /\ at[t] = "send" /\ left[t] > 0
  /\ Request(t, left[t] - 1)

\* 401 to the first request.
Unauthorised(t) ==
  /\ at[t] = "send" /\ bearer[t] # epoch /\ ~retried[t]
  /\ retried' = [retried EXCEPT ![t] = TRUE]
  /\ MoveTo(t, "renew")
  /\ UNCHANGED <<epoch, cache, lock, bearer>>

\* 401 to the second one: the caller gets it.
UnauthorisedAgain(t) ==
  /\ at[t] = "send" /\ bearer[t] # epoch /\ retried[t]
  /\ MoveTo(t, "refused")
  /\ UNCHANGED <<epoch, cache, lock, bearer, retried>>

GiveUp(t) ==
  /\ at[t] = "refused"
  /\ Return(t)
  /\ UNCHANGED <<epoch, cache, lock, bearer, retried>>

\* with self._lock, in _request.
AcquireToRenew(t) ==
  /\ at[t] = "renew" /\ lock = Nobody
  /\ lock' = t
  /\ MoveTo(t, "renewing")
  /\ UNCHANGED <<epoch, cache, bearer, retried>>

\* The lifetime of the cached token, less the margin, is over.
ExpireToken ==
  /\ cache.running
  /\ cache' = [cache EXCEPT !.running = FALSE]
  /\ UNCHANGED <<epoch, lock, at, bearer, retried, left>>

Revoke ==
  /\ epoch <= MaxRevocations
  /\ epoch' = epoch + 1
  /\ UNCHANGED <<cache, lock, at, bearer, retried, left>>

RequestStep(t) ==
  \/ AcquireToEnsure(t) \/ Refresh(t) \/ Obtain(t) \/ BuildHeaders(t)
  \/ Answered(t) \/ TaskPending(t) \/ Unauthorised(t) \/ UnauthorisedAgain(t) \/ GiveUp(t) \/ AcquireToRenew(t)

TokenNext ==
  \/ \E t \in Threads : Call(t) \/ GenerateInvoice(t) \/ RequestStep(t)
  \/ ExpireToken \/ Revoke

\* Threads go on, calls to FactPulse end (they have a timeout of 30 seconds), and
\* whoever waits for the lock gets it when it is released often enough.
TokenFairness ==
  \A t \in Threads :
    /\ WF_tokenVars(RequestStep(t))
    /\ SF_tokenVars(AcquireToEnsure(t)) /\ SF_tokenVars(AcquireToRenew(t))

TokenSpec == TokenInit /\ [][TokenNext]_tokenVars /\ TokenFairness

TokenTypeOK ==
  /\ epoch \in 1..(MaxRevocations + 1)
  /\ cache \in [epoch : 0..(MaxRevocations + 1), running : BOOLEAN]
  /\ lock \in Threads \union {Nobody}
  /\ at \in [Threads -> {"idle", "ensure", "refresh", "obtain", "headers", "send",
                         "renew", "renewing", "refused"}]
  /\ bearer \in [Threads -> 0..(MaxRevocations + 1)]
  /\ retried \in [Threads -> BOOLEAN]
  /\ left \in [Threads -> 0..MaxPolls]

\* Every call ends: nobody waits for ever for the lock, which _request and
\* _ensure_token both take, and a task that never finishes is given up.
RequestsEnd == \A t \in Threads : (at[t] # "idle") ~> (at[t] = "idle")
=============================================================================
