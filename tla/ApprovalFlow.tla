---------------------------- MODULE ApprovalFlow ----------------------------
(***************************************************************************)
(* Outbound messages that need a second person's consent                   *)
(* (familia/policy/gate.py, approval.py, pending.py), the questions that   *)
(* wait for an answer (familia/pending_asks.py, tools/ask.py) and the      *)
(* button presses that resolve both (familia/bus/callback_dispatcher.py).  *)
(*                                                                         *)
(* Everything runs on one asyncio loop: a step is the code between two     *)
(* awaits.  A tool call and the single callback handler interleave at      *)
(* every await of a publisher; a press waits in the callback queue until   *)
(* the handler is free, so a press is taken at any time the handler idles. *)
(* The stores live in the process and are lost by a restart; the buttons   *)
(* already shown in the chats stay.                                        *)
(***************************************************************************)
EXTENDS Naturals, FiniteSets

CONSTANTS Sends,      \* outbound messages an agent turn tries to send, once each
          Asks,       \* those of tools/ask.py: questions with a PendingAsk
          People,     \* registered principals who can press a button
          Approvers,  \* principals named by the `ask` rule
          Elsewhere,  \* principals on a channel where a rule denies this action
          Target,     \* the person each message is addressed to
          TTL,        \* lifetime of a parked message, in clock units
          Wait,       \* wait_s of a question, in clock units
          NoTimer     \* a watchdog that is not running

ASSUME FlowAssumption ==
    /\ Asks \subseteq Sends /\ Approvers \subseteq People /\ Elsewhere \subseteq People
    /\ IsFiniteSet(People)
    /\ Target \in [Sends -> People]
    /\ TTL \in Nat \ {0} /\ Wait \in Nat \ {0}
    /\ NoTimer \notin Nat

VARIABLES
    ruling,      \* what the policy engine answers now for each message
    entitled,    \* who matches the approver patterns of the rule now
    tool,        \* where the tool call that sends the message stands
    told,        \* what that tool call returned to the agent
    left,        \* approvers still to be prompted
    prompted,    \* approvers whose prompt went out (reached)
    parked,      \* PendingStore: the token exists
    life,        \* clock units until the token expires
    ask,         \* pending_asks: the record exists
    watchdog,    \* clock units until the watchdog wakes, or NoTimer
    handling,    \* how far the callback handler is with the message's token
    deliveries,  \* how often the message reached its target
    age,         \* clock units since then, counted up to Wait
    answers, timeouts, verdict  \* what the requester has been told

vars == <<ruling, entitled, tool, told, left, prompted, parked, life, ask,
          watchdog, handling, deliveries, age, answers, timeouts, verdict>>
policy == <<ruling, entitled>>
outcome == <<answers, timeouts, verdict>>

TypeOK ==
    /\ ruling \in [Sends -> {"allow", "deny", "ask"}]
    /\ entitled \subseteq People
    /\ tool \in [Sends -> {"idle", "prompting", "sending", "sent", "done"}]
    /\ told \in [Sends -> {"none", "sent", "failed", "denied", "asked"}]
    /\ left \in [Sends -> SUBSET Approvers]
    /\ prompted \in [Sends -> SUBSET Approvers]
    /\ parked \in [Sends -> BOOLEAN]
    /\ life \in [Sends -> 0..TTL]
    /\ ask \in [Sends -> BOOLEAN]
    /\ watchdog \in [Sends -> (0..(TTL + Wait)) \cup {NoTimer}]
    /\ handling \in [Sends -> {"no", "deliver", "delivered",
                             "approved", "rejected", "dropping"}]
    /\ deliveries \in [Sends -> Nat]
    /\ age \in [Sends -> 0..Wait]
    /\ answers \in [Sends -> Nat]
    /\ timeouts \in [Sends -> Nat]
    /\ verdict \in [Sends -> {"none", "approved", "rejected"}]

Init ==
    /\ ruling \in [Sends -> {"allow", "deny", "ask"}]
    /\ entitled = Approvers
    /\ tool = [s \in Sends |-> "idle"]
    /\ told = [s \in Sends |-> "none"]
    /\ left = [s \in Sends |-> {}]
    /\ prompted = [s \in Sends |-> {}]
    /\ parked = [s \in Sends |-> FALSE]
    /\ life = [s \in Sends |-> 0]
    /\ ask = [s \in Sends |-> FALSE]
    /\ watchdog = [s \in Sends |-> NoTimer]
    /\ handling = [s \in Sends |-> "no"]
    /\ deliveries = [s \in Sends |-> 0]
    /\ age = [s \in Sends |-> 0]
    /\ answers = [s \in Sends |-> 0]
    /\ timeouts = [s \in Sends |-> 0]
    /\ verdict = [s \in Sends |-> "none"]

-----------------------------------------------------------------------------
(* The parts of pending_asks and PendingStore the steps share.  Operators   *)
(* beside them named for a fault are the same step with that fault.         *)

\* start_watchdog: no record, no timer; a running timer is replaced.
StartWatchdogShort(s, units) ==
    watchdog' = IF ask[s] THEN [watchdog EXCEPT ![s] = Wait] ELSE watchdog
StartWatchdog(s, units) ==
    watchdog' = IF ask[s] THEN [watchdog EXCEPT ![s] = units] ELSE watchdog

KeepAsk(s) == ask' = ask
DropAsk(s) == ask' = [ask EXCEPT ![s] = FALSE]

HandlerIdle == \A s \in Sends : handling[s] = "no"
HandlerAt(s, stage) == handling' = [handling EXCEPT ![s] = stage]
ToolAt(s, stage) == tool' = [tool EXCEPT ![s] = stage]
Tell(s, result) == told' = [told EXCEPT ![s] = result] /\ ToolAt(s, "done")

\* Delivery: the adapter has the message.
Reaches(s) ==
    /\ deliveries' = [deliveries EXCEPT ![s] = @ + 1]
    /\ age' = [age EXCEPT ![s] = 0]

\* park: expired tokens are collected, the new one gets its lifetime.
Park(s) ==
    /\ parked' = [t \in Sends |-> IF t = s THEN TRUE ELSE parked[t] /\ life[t] > 0]
    /\ life' = [life EXCEPT ![s] = TTL]

Usable(s) == parked[s] /\ life[s] > 0

\* take_if_authorized removes the token it hands out.
TakeToken(s) ==
    /\ parked' = [parked EXCEPT ![s] = FALSE]
    /\ life' = [life EXCEPT ![s] = 0]

\* allows_approver: the rule must still ask and still name this person.
MayDecideAsPrompted(a, s) == ruling[s] = "ask" /\ a \in Approvers
MayDecide(a, s) == ruling[s] = "ask" /\ a \in entitled

\* gate_outbound_send(already_approved=True) evaluates from the presser's own
\* chat and channel: a message to the presser is a self-reply, and a rule for
\* that channel can still deny.
DeniedFrom(a, s) == a \in Elsewhere /\ Target[s] /= a

-----------------------------------------------------------------------------
(* The tool call: tools/ask.py, tools/buttons.py and the outbound guard     *)
(* share gate_outbound_send; a question is registered before it.            *)

\* A DENY drops the question and ends the call.
GateDenies(s) ==
    /\ tool[s] = "idle" /\ ruling[s] = "deny"
    /\ Tell(s, "denied")
    /\ UNCHANGED <<policy, left, prompted, parked, life, ask, watchdog, handling,
                   deliveries, age, outcome>>

GateAllows(s) ==
    /\ tool[s] = "idle" /\ ruling[s] = "allow"
    /\ ToolAt(s, "sending")
    /\ ask' = [ask EXCEPT ![s] = s \in Asks]
    /\ UNCHANGED <<policy, told, left, prompted, parked, life, watchdog, handling,
                   deliveries, age, outcome>>

\* request_approval parks the message before it prompts anybody.
GateAsks(s) ==
    /\ tool[s] = "idle" /\ ruling[s] = "ask"
    /\ ToolAt(s, "prompting")
    /\ ask' = [ask EXCEPT ![s] = s \in Asks]
    /\ left' = [left EXCEPT ![s] = Approvers]
    /\ Park(s)
    /\ UNCHANGED <<policy, told, prompted, watchdog, handling, deliveries, age,
                   outcome>>

\* One approver is prompted, or is skipped: no identity, or the publish raised.
Prompt(s, a) ==
    /\ tool[s] = "prompting" /\ a \in left[s]
    /\ left' = [left EXCEPT ![s] = @ \ {a}]
    /\ \/ prompted' = [prompted EXCEPT ![s] = @ \cup {a}]
       \/ prompted' = prompted
    /\ UNCHANGED <<policy, tool, told, parked, life, ask, watchdog, handling,
                   deliveries, age, outcome>>

UnreachableInPart(s) == prompted[s] /= Approvers
Unreachable(s) == prompted[s] = {}

\* Nobody was reached: the parked message is cancelled and the call denied.
Undeliverable(s) ==
    /\ tool[s] = "prompting" /\ left[s] = {} /\ Unreachable(s)
    /\ TakeToken(s)
    /\ DropAsk(s)
    /\ Tell(s, "denied")
    /\ UNCHANGED <<policy, left, prompted, watchdog, handling, deliveries, age,
                   outcome>>

\* The question's timer covers the approval and the answer.
Asked(s) ==
    /\ tool[s] = "prompting" /\ left[s] = {} /\ ~ Unreachable(s)
    /\ StartWatchdog(s, TTL + Wait)
    /\ Tell(s, "asked")
    /\ UNCHANGED <<policy, left, prompted, parked, life, ask, handling, deliveries,
                   age, outcome>>

SendNow(s) ==
    /\ tool[s] = "sending"
    /\ Reaches(s)
    /\ ToolAt(s, "sent")
    /\ UNCHANGED <<policy, told, left, prompted, parked, life, ask, watchdog,
                   handling, outcome>>

SendFails(s) ==
    /\ tool[s] = "sending"
    /\ DropAsk(s)
    /\ Tell(s, "failed")
    /\ UNCHANGED <<policy, left, prompted, parked, life, watchdog, handling,
                   deliveries, age, outcome>>

Sent(s) ==
    /\ tool[s] = "sent"
    /\ StartWatchdog(s, Wait)
    /\ Tell(s, "sent")
    /\ UNCHANGED <<policy, left, prompted, parked, life, ask, handling, deliveries,
                   age, outcome>>

ToolStep(s) ==
    \/ GateDenies(s) \/ GateAllows(s) \/ GateAsks(s)
    \/ \E a \in Approvers : Prompt(s, a)
    \/ Undeliverable(s) \/ Asked(s)
    \/ SendNow(s) \/ SendFails(s) \/ Sent(s)

-----------------------------------------------------------------------------
(* The callback handler.  A press of an unknown, expired or unauthorized    *)
(* token only gets a reply; the expired one is dropped on the way.          *)

PressExpired(s) ==
    /\ HandlerIdle
    /\ prompted[s] /= {} /\ parked[s] /\ ~ Usable(s)
    /\ TakeToken(s)
    /\ UNCHANGED <<policy, tool, told, left, prompted, ask, watchdog, handling,
                   deliveries, age, outcome>>

\* take_if_authorized hands out the token once, then the gate evaluates again.
PressApprove(s, a) ==
    /\ HandlerIdle
    /\ prompted[s] /= {} /\ Usable(s) /\ MayDecide(a, s)
    /\ TakeToken(s)
    /\ HandlerAt(s, IF DeniedFrom(a, s) THEN "dropping" ELSE "deliver")
    /\ UNCHANGED <<policy, tool, told, left, prompted, ask, watchdog,
                   deliveries, age, outcome>>

PressReject(s, a) ==
    /\ HandlerIdle
    /\ prompted[s] /= {} /\ Usable(s) /\ MayDecide(a, s)
    /\ TakeToken(s)
    /\ HandlerAt(s, "rejected")
    /\ UNCHANGED <<policy, tool, told, left, prompted, ask, watchdog,
                   deliveries, age, outcome>>

Deliver(s) ==
    /\ handling[s] = "deliver"
    /\ Reaches(s)
    /\ HandlerAt(s, "delivered")
    /\ UNCHANGED <<policy, tool, told, left, prompted, parked, life, ask, watchdog,
                   outcome>>

DeliverFails(s) ==
    /\ handling[s] = "deliver"
    /\ HandlerAt(s, "dropping")
    /\ UNCHANGED <<policy, tool, told, left, prompted, parked, life, ask, watchdog,
                   deliveries, age, outcome>>

\* After the replies of a failure or a rejection the question is dropped.
Dropped(s) ==
    /\ handling[s] = "dropping"
    /\ DropAsk(s)
    /\ HandlerAt(s, "no")
    /\ UNCHANGED <<policy, tool, told, left, prompted, parked, life, watchdog,
                   deliveries, age, outcome>>

\* The question has just arrived: its timer starts over with wait_s alone.
Delivered(s) ==
    /\ handling[s] = "delivered"
    /\ StartWatchdog(s, Wait)
    /\ HandlerAt(s, "approved")
    /\ UNCHANGED <<policy, tool, told, left, prompted, parked, life, ask,
                   deliveries, age, outcome>>

Approved(s) ==
    /\ handling[s] = "approved"
    /\ verdict' = [verdict EXCEPT ![s] = "approved"]
    /\ HandlerAt(s, "no")
    /\ UNCHANGED <<policy, tool, told, left, prompted, parked, life, ask, watchdog,
                   deliveries, age, answers, timeouts>>

Rejected(s) ==
    /\ handling[s] = "rejected"
    /\ verdict' = [verdict EXCEPT ![s] = "rejected"]
    /\ HandlerAt(s, "dropping")
    /\ UNCHANGED <<policy, tool, told, left, prompted, parked, life, ask, watchdog,
                   deliveries, age, answers, timeouts>>

\* The target presses a button of the question: take_for_callback consumes the
\* record and its timer, the requester gets the answer.  Any other presser,
\* and any press after the record is gone, changes nothing here.
Answer(s) ==
    /\ HandlerIdle
    /\ deliveries[s] > 0 /\ ask[s]
    /\ DropAsk(s)
    /\ watchdog' = [watchdog EXCEPT ![s] = NoTimer]
    /\ answers' = [answers EXCEPT ![s] = @ + 1]
    /\ UNCHANGED <<policy, tool, told, left, prompted, parked, life, handling,
                   deliveries, age, timeouts, verdict>>

HandlerStep(s) ==
    \/ Deliver(s) \/ DeliverFails(s) \/ Delivered(s)
    \/ Approved(s) \/ Rejected(s) \/ Dropped(s)

Press(s) ==
    \/ PressExpired(s)
    \/ \E a \in People : PressApprove(s, a) \/ PressReject(s, a)
    \/ Answer(s)

-----------------------------------------------------------------------------
WatchdogFiresUnasked(s) ==
    /\ watchdog[s] = 0
    /\ watchdog' = [watchdog EXCEPT ![s] = NoTimer]
    /\ DropAsk(s)
    /\ timeouts' = [timeouts EXCEPT ![s] = @ + 1]
    /\ UNCHANGED <<policy, tool, told, left, prompted, parked, life, handling,
                   deliveries, age, answers, verdict>>

\* _watchdog_coro: whoever pops the record first speaks for it.
WatchdogFires(s) ==
    /\ watchdog[s] = 0
    /\ watchdog' = [watchdog EXCEPT ![s] = NoTimer]
    /\ DropAsk(s)
    /\ timeouts' = [timeouts EXCEPT ![s] = IF ask[s] THEN @ + 1 ELSE @]
    /\ UNCHANGED <<policy, tool, told, left, prompted, parked, life, handling,
                   deliveries, age, answers, verdict>>

\* A clock unit passes.  The unit is at least the 30 seconds that bound wait_s
\* from below, and a publish that takes so long is outside the model: none of
\* the awaits below spans a unit.  A timer that is due runs first.
Tick ==
    /\ HandlerIdle
    /\ \A s \in Sends : tool[s] \notin {"sending", "sent"} /\ watchdog[s] /= 0
    /\ life' = [s \in Sends |-> IF life[s] > 0 THEN life[s] - 1 ELSE 0]
    /\ watchdog' = [s \in Sends |->
                       IF watchdog[s] = NoTimer THEN NoTimer ELSE watchdog[s] - 1]
    /\ age' = [s \in Sends |->
                  IF deliveries[s] > 0 /\ age[s] < Wait THEN age[s] + 1 ELSE age[s]]
    /\ UNCHANGED <<policy, tool, told, left, prompted, parked, ask, handling,
                   deliveries, outcome>>

\* Graph edits, role grants and registry reloads change what the engine answers.
PolicyChanges(s) ==
    /\ \/ /\ \E d \in {"allow", "deny", "ask"} : ruling' = [ruling EXCEPT ![s] = d]
          /\ UNCHANGED entitled
       \/ /\ entitled' \in SUBSET People
          /\ UNCHANGED ruling
    /\ UNCHANGED <<tool, told, left, prompted, parked, life, ask, watchdog, handling,
                   deliveries, age, outcome>>

\* The gateway restarts: both stores, the timers and the running calls are gone.
Restart ==
    /\ tool' = [s \in Sends |-> IF tool[s] = "idle" THEN "idle" ELSE "done"]
    /\ left' = [s \in Sends |-> {}]
    /\ parked' = [s \in Sends |-> FALSE]
    /\ ask' = [s \in Sends |-> FALSE]
    /\ watchdog' = [s \in Sends |-> NoTimer]
    /\ handling' = [s \in Sends |-> "no"]
    /\ life' = [s \in Sends |-> 0]
    /\ UNCHANGED <<policy, told, prompted, deliveries, age, outcome>>

Next ==
    \/ \E s \in Sends :
          ToolStep(s) \/ HandlerStep(s) \/ Press(s) \/ WatchdogFires(s) \/ PolicyChanges(s)
    \/ Tick \/ Restart

Spec == Init /\ [][Next]_vars

\* Time passes, due timers run, and started coroutines are resumed; nobody has
\* to press anything.
FairSpec ==
    /\ Spec
    /\ WF_vars(Tick)
    /\ \A s \in Sends :
          WF_vars(ToolStep(s)) /\ WF_vars(HandlerStep(s)) /\ WF_vars(WatchdogFires(s))

-----------------------------------------------------------------------------
\* However often the buttons are pressed, by however many approvers, and
\* whatever the policy becomes, a message reaches its target at most once.
DeliveredAtMostOnce == \A s \in Sends : deliveries[s] <= 1

\* A message the agent was told is denied or failed, or whose requester was told
\* it is rejected, never reaches its target: no token survives that answer.
RefusedStaysRefused ==
    \A s \in Sends :
        told[s] \in {"denied", "failed"} \/ verdict[s] = "rejected" => deliveries[s] = 0

\* The requester of a question hears one outcome: the answer, the timeout or the
\* rejection.
OneOutcome ==
    \A s \in Sends :
        answers[s] + timeouts[s] + (IF verdict[s] = "rejected" THEN 1 ELSE 0) <= 1

\* Once the tool has returned, a question has a timer: no path of the tool and the
\* callback handler leaves a PendingAsk behind that nothing will remove.
QuestionsAreTimed ==
    \A s \in Sends : ask[s] /\ tool[s] = "done" => watchdog[s] /= NoTimer

\* "Did not answer" is said of a question only after the target had wait_s to
\* answer it, or if it never arrived; and then it does not arrive later.
TimeoutIsHonest ==
    [][\A s \in Sends :
          /\ timeouts'[s] > timeouts[s] /\ deliveries[s] > 0 => age[s] >= Wait
          /\ timeouts[s] > 0 => deliveries'[s] = deliveries[s]]_vars

\* Every question is eventually answered, timed out or dropped.
QuestionEnds == \A s \in Sends : ask[s] ~> ~ ask[s]

-----------------------------------------------------------------------------
(* What the flow promises, without tokens, timers and callback stages.      *)
Fate(s) ==
    IF deliveries[s] > 0 THEN "delivered"
    ELSE IF tool[s] = "idle" THEN "new"
    ELSE IF tool[s] = "sending" \/ handling[s] = "deliver" THEN "cleared"
    ELSE IF handling[s] = "rejected" \/ verdict[s] = "rejected" THEN "rejected"
    ELSE IF Usable(s) THEN "waiting"
    ELSE "dead"

Heard(s) ==
    [o \in {"approval", "answer", "timeout", "rejection"} |->
        CASE o = "approval" -> IF verdict[s] = "approved" THEN 1 ELSE 0
          [] o = "answer" -> answers[s]
          [] o = "timeout" -> timeouts[s]
          [] o = "rejection" -> IF verdict[s] = "rejected" THEN 1 ELSE 0]

Promise == INSTANCE Consent WITH
    fate <- [s \in Sends |-> Fate(s)], heard <- [s \in Sends |-> Heard(s)]

\* A message reaches its target only if the policy allowed it when the tool
\* called the gate, or a person whom the rule named at the moment of the press
\* approved it while the rule still asked; once, and never after a rejection,
\* a lapse, a failed publish or a restart; and its requester hears one ending,
\* which is true of the message.
DeliversByConsent == Promise!Spec

-----------------------------------------------------------------------------
(* What the proofs need to know of one message in every reachable state.    *)

\* Before the tool has decided, nothing of the message exists yet.
Untouched(s) ==
    /\ tool[s] = "idle" => ~ ask[s] /\ answers[s] = 0
    /\ tool[s] \in {"idle", "sending", "sent"} => watchdog[s] = NoTimer /\ timeouts[s] = 0
    /\ tool[s] \in {"idle", "sending"} => deliveries[s] = 0
    /\ tool[s] \in {"idle", "sending", "sent"} => prompted[s] = {} /\ ~ parked[s]
    /\ told[s] /= "none" => tool[s] = "done"

\* Only a prompt lets anybody press, and only a press gets the handler going.
NothingWithoutPrompt(s) ==
    /\ prompted[s] = {} => handling[s] = "no" /\ verdict[s] = "none"
    /\ tool[s] = "prompting" /\ prompted[s] = {} => deliveries[s] = 0
    /\ told[s] \in {"denied", "failed"} =>
          prompted[s] = {} /\ ~ parked[s] /\ deliveries[s] = 0

\* A message that can still be released has not been, and has no verdict.
Releasable(s) == parked[s] \/ handling[s] \in {"deliver", "rejected"}
OneRelease(s) ==
    /\ Releasable(s) => deliveries[s] = 0 /\ verdict[s] = "none"
    /\ handling[s] /= "no" => ~ parked[s]
    /\ verdict[s] = "rejected" => deliveries[s] = 0
    /\ handling[s] \in {"delivered", "approved"} => deliveries[s] = 1 /\ verdict[s] = "none"
    /\ deliveries[s] <= 1

\* The timer outlasts the token, and no due timer meets a busy handler.
TimerOutlastsToken(s) ==
    watchdog[s] /= NoTimer =>
        /\ Usable(s) => watchdog[s] >= life[s] + Wait
        /\ handling[s] /= "no" => watchdog[s] > 0
        /\ handling[s] \in {"deliver", "delivered"} => watchdog[s] >= Wait

\* A question that has arrived keeps its whole answer window.
Timed(s) == ask[s] /\ tool[s] = "done" => watchdog[s] /= NoTimer
AnswerWindow(s) ==
    ask[s] /\ deliveries[s] > 0 /\ watchdog[s] /= NoTimer => watchdog[s] + age[s] >= Wait

\* The record exists as long as the requester has heard nothing.
OneVoice(s) ==
    /\ ask[s] \/ Usable(s) \/ handling[s] \notin {"no", "dropping"} =>
          answers[s] = 0 /\ timeouts[s] = 0
    /\ verdict[s] = "rejected" =>
          /\ answers[s] = 0 /\ timeouts[s] = 0
          /\ ask[s] => handling[s] = "dropping"
    /\ answers[s] + timeouts[s] <= 1

SendInv(s) ==
    /\ Untouched(s) /\ NothingWithoutPrompt(s) /\ OneRelease(s)
    /\ TimerOutlastsToken(s) /\ AnswerWindow(s) /\ Timed(s) /\ OneVoice(s)

FlowInv == \A s \in Sends : SendInv(s)
=============================================================================
