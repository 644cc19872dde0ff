---------------------------- MODULE CronDelivery ----------------------------
(* The way of a scheduled run's final messages to the user: the outbound   *)
(* bus, the channel manager's dispatcher with one task per send, ordered   *)
(* per destination, and the observer that sends a message again on another *)
(* route of its recipient when a route has refused it.                     *)
(* Sources: nanobot/channels/manager.py and                                *)
(* familia/nanobot_extension/cron.py.                                      *)
(*                                                                         *)
(* A copy is one message on one route. A step is what runs between two     *)
(* suspensions of asyncio. Every route is on a channel of its own.         *)
EXTENDS Naturals, Sequences, FiniteSets, Functions

CONSTANTS
    Msgs,           \* final messages of scheduled runs, numbered as they come
    Runs, RunOf,    \* the runs, numbered as they come, and the run of each message
    Origin,         \* the route of the job
    Alternatives,   \* the recipient's other routes, in order
    Nothing,        \* no copy, no route
    Slots,          \* sends under way at a time (256)
    MaxTries,       \* send_max_retries
    Keep,           \* contexts the observer retains (256)
    MaxStops        \* bound: channels stopped

Routes == {Origin} \cup Range(Alternatives)
Copies == Msgs \X Routes

ASSUME DeliveryAssumption ==
    /\ Msgs \subseteq Nat /\ Runs \subseteq Nat /\ RunOf \in [Msgs -> Runs]
    /\ Alternatives \in Seq(Range(Alternatives)) /\ Origin \notin Range(Alternatives)
    /\ Nothing \notin Routes \cup Copies
    /\ Slots \in Nat \ {0} /\ MaxTries \in Nat \ {0} /\ Keep \in Nat \ {0}
    /\ MaxStops \in Nat

(* _alternatives lists no route twice.                                     *)
ASSUME RoutesDiffer ==
    \A i, j \in DOMAIN Alternatives : Alternatives[i] = Alternatives[j] => i = j

VARIABLES
    bus,        \* the queue of copies the dispatcher reads
    hand,       \* the copy the dispatcher is busy with, and the channel object it took
    stage,      \* where each copy is
    result,     \* what its send came to
    tries,      \* its attempts that may or may not have arrived
    tasks,      \* _outbound_tasks: copies whose task has not ended
    tail,       \* _outbound_tails, per route: the last of them
    previous,   \* per copy: the task before its own, while that has not ended
    channel,    \* per route: its channel is "up", "stopping" or "off"
    object,     \* per route: how often its channel object has been replaced
    started,    \* runs that were submitted
    order,      \* runs the observer has a context of, oldest first
    context,    \* per run: that context
    asked,      \* the route _publish_next asks the policy about, under the lock
    stops,      \* channels stopped so far
    count,      \* history, per route: how many copies were published
    number,     \* history, per copy: the how-manieth of its route it was
    reached,    \* history: copies that have arrived, or may have
    refused,    \* history: runs whose fallback the policy refused or put off
    cut         \* history: runs whose report a stopping channel cut off

queue == <<bus, count, number>>
manager == <<hand, tasks, tail, previous, channel, object>>
observer == <<started, order, context, asked>>
history == <<reached, refused, cut>>
vars == <<queue, manager, stage, result, tries, observer, stops, history>>

Waiting == {"made", "behind", "sending", "backoff"}
Stages == {"none", "bus", "hand", "reports", "asks", "parked", "over"} \cup Waiting
Results == {"none", "delivered", "unavailable", "unknown"}
NewContext == [candidates |-> {}, index |-> 0, pending |-> Nothing, finished |-> FALSE]
Idle == [copy |-> Nothing, object |-> 0]

Msg(c) == c[1]
Route(c) == c[2]
Run(c) == RunOf[Msg(c)]

(* Someone holds the observer's lock.                                      *)
Locked == asked # Nothing
SlotFree == Cardinality(tasks) < Slots

Init ==
    /\ bus = <<>> /\ count = [r \in Routes |-> 0] /\ number = [c \in Copies |-> 0]
    /\ hand = Idle /\ tasks = {} /\ tail = [r \in Routes |-> Nothing]
    /\ previous = [c \in Copies |-> Nothing]
    /\ stage = [c \in Copies |-> "none"] /\ result = [c \in Copies |-> "none"]
    /\ tries = [c \in Copies |-> 0]
    /\ channel = [r \in Routes |-> "up"] /\ object = [r \in Routes |-> 0]
    /\ started = {} /\ order = <<>> /\ context = [u \in Runs |-> NewContext]
    /\ asked = Nothing /\ stops = 0 /\ reached = {} /\ refused = {} /\ cut = {}

-----------------------------------------------------------------------------
(* Runs and their messages.                                                *)

(* The context of a run is registered as it is submitted, and the oldest   *)
(* ones make room.                                                         *)
Submit(u) ==
    /\ u \notin started /\ \A v \in Runs : v < u => v \in started
    /\ started' = started \cup {u}
    /\ order' = IF Len(order) < Keep THEN Append(order, u) ELSE Append(Tail(order), u)
    /\ UNCHANGED <<queue, manager, stage, result, tries, context, asked, stops, history>>

(* MessageBus.publish_outbound.                                            *)
Publishes(c) ==
    /\ bus' = Append(bus, c)
    /\ count' = [count EXCEPT ![Route(c)] = @ + 1]
    /\ number' = [number EXCEPT ![c] = count[Route(c)] + 1]

(* The answer of the run, or a message its agent sends to the same chat.   *)
Answer(m) ==
    LET c == <<m, Origin>> IN
    /\ Run(c) \in started /\ stage[c] = "none"
    /\ \A n \in Msgs : n < m => stage[<<n, Origin>>] # "none"
    /\ Publishes(c) /\ stage' = [stage EXCEPT ![c] = "bus"]
    /\ UNCHANGED <<manager, result, tries, observer, stops, history>>

(* An approver presses on a copy that the policy had put off: see          *)
(* ApprovalFlow.                                                           *)
Approved(c) ==
    /\ stage[c] = "parked"
    /\ Publishes(c) /\ stage' = [stage EXCEPT ![c] = "bus"]
    /\ UNCHANGED <<manager, result, tries, observer, stops, history>>

-----------------------------------------------------------------------------
(* The dispatcher, and a task per send.                                    *)

Comes(c, r) == /\ stage' = [stage EXCEPT ![c] = "reports"]
               /\ result' = [result EXCEPT ![c] = r]

(* A slot is free. The channel may be stopping, or another object by now.  *)
Queues(c, o) ==
    IF channel[Route(c)] = "up" /\ object[Route(c)] = o
    THEN /\ stage' = [stage EXCEPT ![c] = "made"]
         /\ tasks' = tasks \cup {c}
         /\ previous' = [previous EXCEPT ![c] = tail[Route(c)]]
         /\ tail' = [tail EXCEPT ![Route(c)] = c]
         /\ hand' = Idle /\ UNCHANGED result
    ELSE /\ Comes(c, "unknown") /\ hand' = [copy |-> c, object |-> o]
         /\ UNCHANGED <<tasks, tail, previous>>

Takes ==
    /\ hand = Idle /\ bus # <<>> /\ bus' = Tail(bus)
    /\ LET c == Head(bus)  o == object[Route(c)] IN
       \/ /\ channel[Route(c)] = "off"
          /\ Comes(c, "unavailable") /\ hand' = [copy |-> c, object |-> o]
          /\ UNCHANGED <<tasks, tail, previous>>
       \/ /\ channel[Route(c)] # "off" /\ SlotFree
          /\ Queues(c, o)
       \/ /\ channel[Route(c)] # "off" /\ ~SlotFree
          /\ stage' = [stage EXCEPT ![c] = "hand"] /\ hand' = [copy |-> c, object |-> o]
          /\ UNCHANGED <<tasks, tail, previous, result>>
    /\ UNCHANGED <<count, number, channel, object, tries, observer, stops, history>>

GetsSlot ==
    /\ hand # Idle /\ stage[hand.copy] = "hand" /\ SlotFree
    /\ Queues(hand.copy, hand.object)
    /\ UNCHANGED <<queue, channel, object, tries, observer, stops, history>>

TaskBegins(c) ==
    /\ stage[c] = "made" /\ stage' = [stage EXCEPT ![c] = "behind"]
    /\ UNCHANGED <<queue, manager, result, tries, observer, stops, history>>

(* Fault: a send does not wait for the one before it.                      *)
NextInLineAny(c) == stage[c] = "behind"
(* The task before it on its route has ended.                              *)
NextInLine(c) == stage[c] = "behind" /\ previous[c] = Nothing

Attempts(c) ==
    /\ NextInLine(c) \/ stage[c] = "backoff"
    /\ stage' = [stage EXCEPT ![c] = "sending"]
    /\ UNCHANGED <<queue, manager, result, tries, observer, stops, history>>

(* Fault: a refusal counts although an earlier attempt may have arrived.   *)
RefusalAlways(c) == "unavailable"
(* What a channel's refusal says of the message.                           *)
Refusal(c) == IF tries[c] = 0 THEN "unavailable" ELSE "unknown"

(* An attempt ends: it arrives, the channel refuses it before accepting    *)
(* it, or it breaks, and may have arrived; after some failures there is no *)
(* other attempt.                                                          *)
Delivered(c) ==
    /\ stage[c] = "sending" /\ Comes(c, "delivered") /\ reached' = reached \cup {c}
    /\ UNCHANGED <<queue, manager, tries, observer, stops, refused, cut>>
Rejected(c) ==
    /\ stage[c] = "sending" /\ Comes(c, Refusal(c))
    /\ UNCHANGED <<queue, manager, tries, observer, stops, history>>
Breaks(c) ==
    /\ stage[c] = "sending" /\ tries' = [tries EXCEPT ![c] = @ + 1]
    /\ reached' = reached \cup {c}
    /\ \/ Comes(c, "unknown")
       \/ /\ tries[c] + 1 < MaxTries
          /\ stage' = [stage EXCEPT ![c] = "backoff"] /\ UNCHANGED result
    /\ UNCHANGED <<queue, manager, observer, stops, refused, cut>>

-----------------------------------------------------------------------------
(* The observer.                                                           *)

(* Fault: a task that has ended is kept, and its slot with it.             *)
LeavesHeld(c) ==
    /\ tail' = [tail EXCEPT ![Route(c)] = IF @ = c THEN Nothing ELSE @]
    /\ hand' = IF hand.copy = c THEN Idle ELSE hand
    /\ UNCHANGED <<tasks, previous, channel, object>>
(* The task of c ends, or the dispatcher goes on to its next copy.         *)
Leaves(c) ==
    /\ tasks' = tasks \ {c}
    /\ tail' = [tail EXCEPT ![Route(c)] = IF @ = c THEN Nothing ELSE @]
    /\ previous' = [d \in Copies |-> IF previous[d] = c THEN Nothing ELSE previous[d]]
    /\ hand' = IF hand.copy = c THEN Idle ELSE hand
    /\ UNCHANGED <<channel, object>>

ToTheEnd(u) ==
    LET p == CHOOSE i \in DOMAIN order : order[i] = u IN
    [i \in DOMAIN order |-> IF i < p THEN order[i]
                            ELSE IF i < Len(order) THEN order[i + 1] ELSE u]

Known(u) == u \in Range(order) /\ ~context[u].finished
Expected(u) == IF context[u].pending = Nothing THEN Origin ELSE context[u].pending
(* _alternatives: only channels that are there now, in the order of all.   *)
Candidates(u) ==
    IF context[u].pending = Nothing
    THEN {r \in Range(Alternatives) : channel[r] # "off"}
    ELSE context[u].candidates
Spots(S) == {i \in DOMAIN Alternatives : Alternatives[i] \in S}
Rank(i, S) == Cardinality({j \in Spots(S) : j <= i})
Exhausted(u) == context[u].index >= Cardinality(Spots(Candidates(u)))

(* The observer has no use for the report.                                 *)
Ignores(c) ==
    /\ stage[c] = "reports" /\ ~Locked
    /\ ~Known(Run(c)) \/ Route(c) # Expected(Run(c))
    /\ stage' = [stage EXCEPT ![c] = "over"] /\ Leaves(c)
    /\ order' = IF Known(Run(c)) THEN ToTheEnd(Run(c)) ELSE order
    /\ UNCHANGED <<queue, result, tries, started, context, asked, stops, history>>

(* It arrived, or may have, or there is no other route.                    *)
Finishes(c) ==
    LET u == Run(c) IN
    /\ stage[c] = "reports" /\ ~Locked /\ Known(u) /\ Route(c) = Expected(u)
    /\ result[c] # "unavailable" \/ Exhausted(u)
    /\ stage' = [stage EXCEPT ![c] = "over"] /\ Leaves(c)
    /\ order' = ToTheEnd(u)
    /\ context' = [context EXCEPT ![u].finished = TRUE, ![u].candidates =
                       IF result[c] = "unavailable" THEN Candidates(u) ELSE @]
    /\ UNCHANGED <<queue, result, tries, started, asked, stops, history>>

(* _publish_next asks the policy about the next route.                     *)
FallsBack(c) ==
    LET u == Run(c) IN
    /\ stage[c] = "reports" /\ ~Locked /\ Known(u) /\ Route(c) = Expected(u)
    /\ result[c] = "unavailable" /\ ~Exhausted(u)
    /\ stage' = [stage EXCEPT ![c] = "asks"]
    /\ order' = ToTheEnd(u)
    /\ context' = [context EXCEPT ![u].candidates = Candidates(u), ![u].index = @ + 1]
    /\ \E i \in Spots(Candidates(u)) :
           Rank(i, Candidates(u)) = context[u].index + 1 /\ asked' = Alternatives[i]
    /\ UNCHANGED <<queue, manager, result, tries, started, stops, history>>

(* Fault: the route the copy went to is not recorded.                      *)
RecordsNot(u) == UNCHANGED context
Records(u) == context' = [context EXCEPT ![u].pending = asked]

Allowed(c) ==
    LET d == <<Msg(c), asked>> IN
    /\ stage[c] = "asks" /\ asked' = Nothing
    /\ stage' = [stage EXCEPT ![c] = "over", ![d] = "bus"] /\ Leaves(c)
    /\ Publishes(d) /\ Records(Run(c))
    /\ UNCHANGED <<result, tries, started, order, stops, history>>

(* Denied, failed, or put off until somebody approves.                     *)
Refused(c) ==
    LET u == Run(c)  d == <<Msg(c), asked>> IN
    /\ stage[c] = "asks" /\ asked' = Nothing
    /\ \E s \in {"none", "parked"} : stage' = [stage EXCEPT ![c] = "over", ![d] = s]
    /\ Leaves(c)
    /\ context' = [context EXCEPT ![u].finished = TRUE] /\ refused' = refused \cup {u}
    /\ UNCHANGED <<queue, result, tries, started, order, stops, reached, cut>>

-----------------------------------------------------------------------------
(* Channels come and go while the gateway runs.                            *)

(* A task that is cancelled still reports, if need be from its callback;   *)
(* one that is reporting does not.                                         *)
CancelledTo(c) == IF stage[c] \in Waiting THEN "reports" ELSE "over"

(* _cancel_outbound. A report that finds the lock free takes it at once,   *)
(* so a stop meets one that waits only while the lock is held.             *)
StopChannel(r) ==
    LET hit == {c \in tasks : Route(c) = r}
        ends == {c \in hit : stage[c] \in {"made", "reports", "asks"}} IN
    /\ channel[r] = "up" /\ stops < MaxStops /\ stops' = stops + 1
    /\ Locked \/ \A c \in hit : stage[c] # "reports"
    /\ channel' = [channel EXCEPT ![r] = "stopping"]
    /\ stage' = [c \in Copies |-> IF c \in hit THEN CancelledTo(c) ELSE stage[c]]
    /\ result' = [c \in Copies |-> IF c \in hit /\ stage[c] \in Waiting THEN "unknown"
                                   ELSE result[c]]
    /\ tasks' = tasks \ ends
    /\ tail' = [tail EXCEPT ![r] = IF @ \in ends THEN Nothing ELSE @]
    /\ previous' = [c \in Copies |-> IF c \in hit THEN Nothing ELSE previous[c]]
    /\ asked' = IF \E c \in hit : stage[c] = "asks" THEN Nothing ELSE asked
    /\ reached' = reached \cup {c \in hit : stage[c] = "sending"}
    /\ cut' = cut \cup {Run(c) : c \in {d \in hit : stage[d] \notin Waiting}}
    /\ UNCHANGED <<queue, hand, object, tries, started, order, context, refused>>

(* Its tasks have ended: it is gone, or another object takes its place.    *)
ChannelStopped(r) ==
    /\ channel[r] = "stopping" /\ \A c \in tasks : Route(c) # r
    /\ \/ channel' = [channel EXCEPT ![r] = "off"] /\ UNCHANGED object
       \/ /\ channel' = [channel EXCEPT ![r] = "up"]
          /\ object' = [object EXCEPT ![r] = @ + 1]
    /\ UNCHANGED <<queue, hand, tasks, tail, previous, stage, result, tries, observer, stops>>
    /\ UNCHANGED history

StartChannel(r) ==
    /\ channel[r] = "off" /\ channel' = [channel EXCEPT ![r] = "up"]
    /\ object' = [object EXCEPT ![r] = @ + 1]
    /\ UNCHANGED <<queue, hand, tasks, tail, previous, stage, result, tries, observer, stops>>
    /\ UNCHANGED history

-----------------------------------------------------------------------------
Sends(c) == TaskBegins(c) \/ Attempts(c) \/ Delivered(c) \/ Rejected(c) \/ Breaks(c)
Observes(c) == Ignores(c) \/ Finishes(c) \/ FallsBack(c) \/ Allowed(c) \/ Refused(c)

Next ==
    \/ \E u \in Runs : Submit(u)
    \/ \E m \in Msgs : Answer(m)
    \/ Takes \/ GetsSlot
    \/ \E c \in Copies : Approved(c) \/ Sends(c) \/ Observes(c)
    \/ \E r \in Routes : StopChannel(r) \/ ChannelStopped(r) \/ StartChannel(r)

Spec == Init /\ [][Next]_vars

(* asyncio runs what is ready, and every attempt and every question to the *)
(* policy ends; a message has one copy under way at a time. Nothing makes  *)
(* an agent answer, an approver press or a channel come back.              *)
FairSpec ==
    /\ Spec
    /\ WF_vars(Takes \/ GetsSlot)
    /\ \A m \in Msgs : WF_vars(\E r \in Routes : Sends(<<m, r>>) \/ Observes(<<m, r>>))
    /\ \A r \in Routes : WF_vars(ChannelStopped(r))

-----------------------------------------------------------------------------
UnderWay(c) == stage[c] \notin {"none", "parked", "over"}

TypeOK ==
    /\ bus \in Seq(Copies) /\ hand \in [copy : Copies \cup {Nothing}, object : Nat]
    /\ stage \in [Copies -> Stages] /\ result \in [Copies -> Results]
    /\ tries \in [Copies -> Nat] /\ tasks \subseteq Copies
    /\ tail \in [Routes -> Copies \cup {Nothing}] /\ previous \in [Copies -> Copies \cup {Nothing}]
    /\ channel \in [Routes -> {"up", "stopping", "off"}] /\ object \in [Routes -> Nat]
    /\ started \subseteq Runs /\ order \in Seq(Runs) /\ stops \in Nat
    /\ context \in [Runs -> [candidates : SUBSET Routes, index : Nat,
                             pending : Routes \cup {Nothing}, finished : BOOLEAN]]
    /\ asked \in Routes \cup {Nothing}
    /\ count \in [Routes -> Nat] /\ number \in [Copies -> Nat]
    /\ reached \subseteq Copies /\ refused \subseteq Runs /\ cut \subseteq Runs

(* A message arrives on one route at most, whatever breaks, is cancelled,  *)
(* refused or approved later: only a refusal before any attempt that may   *)
(* have arrived sends it on another route.                                 *)
OneRoute == \A c, d \in reached : Msg(c) = Msg(d) => c = d

(* On every route the messages go out one at a time and in the order they  *)
(* were published, over retries, full slots and channels that restart.     *)
InOrder ==
    \A c, d \in Copies :
        Route(c) = Route(d) /\ number[c] < number[d] /\ stage[d] \in {"sending", "backoff"} =>
            stage[c] \notin {"bus", "hand"} \cup Waiting

(* A run's messages are never just forgotten: once none is under way, one  *)
(* of them has arrived, or broke off and may have, or every route that was *)
(* there has refused, or the policy has. A report can only get lost in a   *)
(* stopping channel, and a context to newer runs.                          *)
NoneForgotten ==
    \A u \in started :
        LET mine == {c \in Copies : Run(c) = u}
            tried(r) == \E c \in mine : Route(c) = r /\ result[c] = "unavailable" IN
        (\E c \in mine : stage[c] # "none") /\ ~(\E c \in mine : UnderWay(c)) =>
            \/ u \notin Range(order) \/ u \in cut \cup refused
            \/ \E c \in mine : result[c] \in {"delivered", "unknown"}
            \/ /\ tried(Origin) /\ \A r \in context[u].candidates : tried(r)
               /\ context[u].finished

(* Where each message stands, the routes its copies have been on, and how  *)
(* Fallback says it.                                                       *)
Given == [m \in Msgs |-> {r \in Routes : stage[<<m, r>>] # "none"}]
Standing(m) ==
    LET some(S) == \E r \in Routes : stage[<<m, r>>] \in S
        came(v) == \E r \in Routes : result[<<m, r>>] = v IN
    IF some({"bus", "hand"} \cup Waiting) THEN "out"
    ELSE IF some({"parked"}) THEN "held"
    ELSE IF came("delivered") THEN "delivered"
    ELSE IF came("unknown") THEN "unknown"
    ELSE IF came("unavailable") THEN "refused" ELSE "unsent"

Promise == INSTANCE Fallback WITH stands <- [m \in Msgs |-> Standing(m)], given <- Given

(* The whole of bus, dispatcher, observer, policy and channels does what   *)
(* Fallback promises: a message goes from route to route in their order,   *)
(* one at a time and only after a refusal that is certain, and one message *)
(* of a run at most is sent on.                                            *)
FallsBackInOrder == Promise!Spec

(* Every message comes to its end: none of its copies waits for ever       *)
(* behind another, for a slot, or for the observer.                        *)
EveryMessageEnds ==
    \A m \in Msgs : (\E r \in Routes : UnderWay(<<m, r>>)) ~>
                    ~(\E r \in Routes : UnderWay(<<m, r>>))
=============================================================================
