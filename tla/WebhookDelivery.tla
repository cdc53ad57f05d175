-------------------------- MODULE WebhookDelivery ---------------------------
(***************************************************************************)
(* Outgoing webhooks: the messages for one endpoint of an organisation     *)
(* (apps/webhooks/services.py).  Each message is posted by a Celery task,  *)
(* three times at most; the third failure disables the endpoint.  A task   *)
(* is acknowledged when it starts: it is lost with its worker.             *)
(***************************************************************************)
EXTENDS Naturals

CONSTANTS
  Messages,    \* the events that happen, among those the endpoint asks for
  Posters,     \* Celery workers
  NoPost,      \* what an idle worker holds
  MaxAttempts, \* WEBHOOK_MAX_ATTEMPTS
  MaxDeaths    \* bound: how many workers die

Posts == [message : Messages, attempt : 1..MaxAttempts]

ASSUME WebhookAssumption ==
  /\ NoPost \notin Posts
  /\ MaxAttempts \in Nat \ {0}
  /\ MaxDeaths \in Nat

VARIABLES
  endpoint,   \* WebhookEndpoint: active, disabled or deleted
  emitted,    \* messages the application has emitted
  due,        \* tasks in the broker, those that wait for their delay included
  posting,    \* the task each worker carries out
  outcome,    \* what it got from the endpoint
  deliveries, \* WebhookDelivery: the attempts recorded, with their success
  lost,       \* history: messages whose task died with its worker
  deaths      \* how many workers have died

webhookVars == <<endpoint, emitted, due, posting, outcome, deliveries, lost, deaths>>

WebhookInit ==
  /\ endpoint = "active"
  /\ emitted = {} /\ due = {} /\ deliveries = {} /\ lost = {}
  /\ posting = [w \in Posters |-> NoPost]
  /\ outcome = [w \in Posters |-> "none"]
  /\ deaths = 0

\* emit_webhook: an endpoint that is not active gets nothing.
Emit(m) ==
  /\ m \notin emitted
  /\ emitted' = emitted \union {m}
  /\ due' = IF endpoint = "active" THEN due \union {[message |-> m, attempt |-> 1]} ELSE due
  /\ UNCHANGED <<endpoint, posting, outcome, deliveries, lost, deaths>>

\* deliver_webhook reads the endpoint: the task ends if it was deleted.  It does
\* not ask whether the endpoint is still active.
TakePost(w, p) ==
  /\ posting[w] = NoPost /\ p \in due
  /\ due' = due \ {p}
  /\ posting' = IF endpoint = "deleted" THEN posting ELSE [posting EXCEPT ![w] = p]
  /\ UNCHANGED <<endpoint, emitted, outcome, deliveries, lost, deaths>>

\* requests.post: a 2xx answer, or anything else.
Post(w) ==
  /\ posting[w] # NoPost /\ outcome[w] = "none"
  /\ \E o \in {"success", "failure"} : outcome' = [outcome EXCEPT ![w] = o]
  /\ UNCHANGED <<endpoint, emitted, due, posting, deliveries, lost, deaths>>

\* Mutation: a failure is always retried.
LastNever(p) == FALSE

\* Mutation: the attempts are counted from zero.
LastFromZero(p) == p.attempt + 1 >= MaxAttempts

Last(p) == p.attempt >= MaxAttempts

\* The attempt is recorded.  A failure is retried later, and the last one
\* disables the endpoint, whatever it has answered meanwhile.
RecordDelivery(w) ==
  LET p == posting[w]
      success == outcome[w] = "success" IN
  /\ outcome[w] # "none"
  /\ deliveries' = IF endpoint = "deleted" THEN deliveries
                   ELSE deliveries \union {[post |-> p, success |-> success]}
  /\ due' = IF endpoint = "deleted" \/ success \/ Last(p) THEN due
            ELSE due \union {[p EXCEPT !.attempt = @ + 1]}
  /\ endpoint' = IF endpoint # "deleted" /\ ~success /\ Last(p) THEN "disabled" ELSE endpoint
  /\ posting' = [posting EXCEPT ![w] = NoPost]
  /\ outcome' = [outcome EXCEPT ![w] = "none"]
  /\ UNCHANGED <<emitted, lost, deaths>>

\* The owner activates the endpoint again, disables it or deletes it, with the
\* record of its deliveries.
SetEndpoint ==
  /\ endpoint # "deleted"
  /\ \E e \in {"active", "disabled", "deleted"} : endpoint' = e
  /\ deliveries' = IF endpoint' = "deleted" THEN {} ELSE deliveries
  /\ UNCHANGED <<emitted, due, posting, outcome, lost, deaths>>

PosterDies(w) ==
  /\ posting[w] # NoPost /\ deaths < MaxDeaths
  /\ lost' = lost \union {posting[w].message}
  /\ posting' = [posting EXCEPT ![w] = NoPost]
  /\ outcome' = [outcome EXCEPT ![w] = "none"]
  /\ deaths' = deaths + 1
  /\ UNCHANGED <<endpoint, emitted, due, deliveries>>

Deliver(w) == Post(w) \/ RecordDelivery(w)

WebhookNext ==
  \/ \E m \in Messages : Emit(m)
  \/ \E w \in Posters : Deliver(w) \/ PosterDies(w) \/ \E p \in Posts : TakePost(w, p)
  \/ SetEndpoint

\* The tasks are carried out once their delay is over.
WebhookFairness ==
  /\ \A p \in Posts : WF_webhookVars(\E w \in Posters : TakePost(w, p))
  /\ \A w \in Posters : WF_webhookVars(Deliver(w))

WebhookSpec == WebhookInit /\ [][WebhookNext]_webhookVars /\ WebhookFairness

WebhookTypeOK ==
  /\ endpoint \in {"active", "disabled", "deleted"}
  /\ emitted \subseteq Messages
  /\ due \subseteq Posts
  /\ posting \in [Posters -> Posts \union {NoPost}]
  /\ outcome \in [Posters -> {"none", "success", "failure"}]
  /\ deliveries \subseteq [post : Posts, success : BOOLEAN]
  /\ lost \subseteq emitted
  /\ deaths \in 0..MaxDeaths

Recorded(m, a, success) ==
  [post |-> [message |-> m, attempt |-> a], success |-> success] \in deliveries

\* A message that was sent off is delivered, or has failed at each of its
\* attempts, unless its worker died or the endpoint was deleted, even while the
\* endpoint is disabled and activated again.
Delivered ==
  \A m \in Messages :
    ([message |-> m, attempt |-> 1] \in due)
    ~> \/ \E a \in 1..MaxAttempts : Recorded(m, a, TRUE)
       \/ \A a \in 1..MaxAttempts : Recorded(m, a, FALSE)
       \/ m \in lost \/ endpoint = "deleted"
=============================================================================
