------------------------------ MODULE Timeline ------------------------------
(***************************************************************************)
(* The history of an invoice as its page shows it (apps/ui/timeline.py),   *)
(* made of the audit logs that the tasks write: the status 212 that we     *)
(* send comes back among the events of the PA and is folded into ours.     *)
(* The PA's events are logged by polls, and ours once the PA has answered. *)
(* Polls do not overlap here: when they do, both may log one event, which  *)
(* the page then shows twice.  The texts of the entries are left out.      *)
(***************************************************************************)
EXTENDS Integers, Sequences, FiniteSets

CONSTANTS
  ReceivedCodes, \* what the PA and the buyer say of the invoice
  Window,        \* how many audit logs the page reads (20)
  MaxSent,       \* bound: how often 212 is sent
  MaxReceived,   \* bound: how many events are received
  MaxSeconds     \* bound: of the clock

Labels == {"200", "202", "203", "207", "210", "212", "213"}

ASSUME TimelineAssumption ==
  /\ ReceivedCodes \subseteq Labels
  /\ Window \in Nat /\ MaxSent \in Nat /\ MaxReceived \in Nat /\ MaxSeconds \in Nat

VARIABLES
  published, \* the PA's events, oldest first
  habit,     \* of the PA: does it name documents and say which way events go
  unlogged,  \* documents of ours whose answer has not been logged
  taken,     \* how many documents of ours the PA took
  audit,     \* the audit logs, oldest first
  second,    \* the clock, in seconds
  reading,   \* how many events the poll that is running has read, 0 without one
  passed     \* the events it found logged or has gone through

timelineVars == <<published, habit, unlogged, taken, audit, second, reading, passed>>

TimelineInit ==
  /\ published = <<>>
  /\ habit \in [names : BOOLEAN, directs : BOOLEAN]
  /\ unlogged = {} /\ taken = 0
  /\ audit = <<[action |-> "flow_submitted", code |-> "none", direction |-> "", role |-> "",
                document |-> 0, second |-> 0, event |-> 0]>>
  /\ second = 0
  /\ reading = 0 /\ passed = {}

----------------------------------------------------------------------------
(* The PA.  It publishes what others say of the invoice and what we sent:  *)
(* an event has the document of ours that it reflects, or 0.               *)

Publish(code, document) ==
  published' = Append(published, [code |-> code, document |-> document])

Received == {i \in DOMAIN published : published[i].document = 0}

Receive ==
  /\ Cardinality(Received) < MaxReceived
  /\ \E code \in ReceivedCodes : Publish(code, 0)
  /\ UNCHANGED <<habit, unlogged, taken, audit, second, reading, passed>>

\* The PA takes the status and publishes it, before or after we log its answer.
TakePaid ==
  /\ taken < MaxSent
  /\ taken' = taken + 1
  /\ unlogged' = unlogged \union {taken'}
  /\ Publish("212", taken')
  /\ UNCHANGED <<habit, audit, second, reading, passed>>

Tick ==
  /\ second < MaxSeconds
  /\ second' = second + 1
  /\ UNCHANGED <<published, habit, unlogged, taken, audit, reading, passed>>

----------------------------------------------------------------------------
(* The audit logs.                                                         *)

\* The identifier of a document, if the PA gives one.
Name(d) == IF habit.names THEN d ELSE 0

Logged(action, e, i) ==
  audit' = Append(audit,
    [action |-> action, code |-> e.code, direction |-> e.direction, role |-> e.role,
     document |-> e.document, second |-> second, event |-> i])

\* submit_cdar_paid
LogPaid(d) ==
  /\ d \in unlogged
  /\ unlogged' = unlogged \ {d}
  /\ Logged("cdar_paid_submitted",
            [code |-> "none", direction |-> "", role |-> "", document |-> Name(d)], -d)
  /\ UNCHANGED <<published, habit, taken, second, reading, passed>>

\* What the PA says of an event: which way it went, or else who issued it.
Told(e) ==
  [code |-> e.code, document |-> Name(e.document), role |-> IF e.document > 0 THEN "SE" ELSE "BY",
   direction |-> IF ~habit.directs THEN "" ELSE IF e.document > 0 THEN "out" ELSE "in"]

LoggedEvents == {audit[k].event : k \in {k \in DOMAIN audit : audit[k].action = "cdar_event"}}

\* _process_cdar_lifecycle: the events, and which of them are logged.
StartPoll ==
  /\ reading = 0 /\ published # <<>>
  /\ reading' = Len(published)
  /\ passed' = LoggedEvents
  /\ UNCHANGED <<published, habit, unlogged, taken, audit, second>>

\* _process_single_cdar_event, on the first event it has not gone through.
LogNextEvent ==
  LET new == 1..reading \ passed IN
  \E i \in new :
    /\ \A j \in new : i <= j
    /\ Logged("cdar_event", Told(published[i]), i)
    /\ passed' = passed \union {i}
    /\ UNCHANGED <<published, habit, unlogged, taken, second, reading>>

StopPoll ==
  /\ reading # 0 /\ 1..reading \subseteq passed
  /\ reading' = 0 /\ passed' = {}
  /\ UNCHANGED <<published, habit, unlogged, taken, audit, second>>

TimelineNext ==
  \/ Receive \/ TakePaid \/ Tick
  \/ \E d \in unlogged : LogPaid(d)
  \/ StartPoll \/ LogNextEvent \/ StopPoll

----------------------------------------------------------------------------
(* The page.                                                               *)

Number ==
  [c \in Labels \union {"none"} |->
     CASE c = "200" -> 200 [] c = "202" -> 202 [] c = "203" -> 203 [] c = "207" -> 207
       [] c = "210" -> 210 [] c = "212" -> 212 [] c = "213" -> 213 [] c = "none" -> 0]

\* _chronological_key: in one second, the events by code, then the rest.
Newer(k, l) ==
  LET class(n) == IF audit[n].action = "cdar_event" THEN 0 ELSE 1
      key(n) == <<audit[n].second, class(n), Number[audit[n].code], n>>
  IN \E x \in 1..4 : key(k)[x] > key(l)[x] /\ \A y \in 1..(x - 1) : key(k)[y] = key(l)[y]

\* The page reads the last of the logs.
Page == {k \in DOMAIN audit : k > Len(audit) - Window}

\* The first of some logs, in the order of the page.
First(logs) == CHOOSE k \in logs : \A l \in logs \ {k} : Newer(k, l)

\* _is_outgoing
Outgoing(e) == IF e.direction # "" THEN e.direction = "out" ELSE e.role = "SE"

Submitted == {k \in Page : audit[k].action = "cdar_paid_submitted"}

\* Mutation: our 212 is recognised whatever its document.
ReflectsAny(k) ==
  IF audit[k].action = "cdar_event" /\ audit[k].code = "212" /\ Outgoing(audit[k])
  THEN Submitted
  ELSE {}

\* _echo_of: the 212 we sent that a polled event may reflect.
Reflects(k) ==
  IF audit[k].action = "cdar_event" /\ audit[k].code = "212" /\ Outgoing(audit[k])
  THEN {s \in Submitted : audit[k].document \in {0, audit[s].document}}
  ELSE {}

\* Each event is the echo of the first that it may reflect, the newest for each.
Echoes ==
  LET events == {k \in Page : Reflects(k) # {}} IN
  {k \in events : \A l \in events : Newer(l, k) => First(Reflects(l)) # First(Reflects(k))}

\* build_timeline
Entries == Page \ Echoes

\* What a log tells of: a document of ours, sent or published, or else an event.
Subject(k) ==
  LET i == audit[k].event IN
  IF i > 0 /\ published[i].document > 0 THEN -published[i].document ELSE i

----------------------------------------------------------------------------
(* The summary.                                                            *)

MainPath == {"200", "202", "203", "212"}
Stops == {"210", "213"}

\* The codes of the events, and that of the 212 we sent.
ReachedSteps ==
  {IF audit[k].action = "cdar_paid_submitted" THEN "212" ELSE audit[k].code :
     k \in DOMAIN audit} \ {"none"}

\* lifecycle_steps
Steps ==
  LET expected == IF ReachedSteps \intersect Stops # {} THEN {} ELSE MainPath IN
  [c \in ReachedSteps \union expected |->
     CASE c \in ReachedSteps /\ c \in Stops          -> "error"
       [] c \in ReachedSteps /\ c = "207"            -> "warn"
       [] c \in ReachedSteps \ (Stops \union {"207"}) -> "done"
       [] c \notin ReachedSteps                      -> "pending"]

----------------------------------------------------------------------------
(* Properties.                                                             *)

TimelineTypeOK ==
  /\ unlogged \subseteq 1..MaxSent /\ taken \in 0..MaxSent
  /\ second \in 0..MaxSeconds
  /\ \A k \in DOMAIN audit : audit[k].event \in -MaxSent..Len(published)
  /\ reading \in 0..Len(published) /\ passed \subseteq DOMAIN published

\* "Both are the same flow, so the echo is folded into the émis entry instead of
\* shown twice" (build_timeline): nothing is told twice and nothing that was
\* received is folded away, even if the answer is logged after the echo or an old
\* log has left the page, unless the PA took two and names none.
\* And what the page tells of a status is a step of the summary.
ToldOnce ==
  /\ habit.names \/ taken <= 1 =>
       /\ \A k, l \in Entries : Subject(k) = Subject(l) => k = l
       /\ {Subject(k) : k \in Entries} = {Subject(k) : k \in Page}
  /\ \A k \in Entries : audit[k].action = "cdar_event" => Steps[audit[k].code] # "pending"
=============================================================================
