------------------------- MODULE ApprovalFlowProofs -------------------------
(***************************************************************************)
(* Proofs about ApprovalFlow, for every set of messages and people, every  *)
(* lifetime of a token and every wait_s.                                   *)
(***************************************************************************)
EXTENDS ApprovalFlow, TLAPS

USE FlowAssumption

\* The tool's steps keep every variable's kind.
LEMMA ToolTypes ==
    ASSUME TypeOK, NEW s \in Sends, ToolStep(s)
    PROVE  TypeOK'
<1>1. CASE GateDenies(s)
  BY <1>1 DEF TypeOK, policy, outcome, GateDenies, Tell, ToolAt
<1>2. CASE GateAllows(s)
  BY <1>2 DEF TypeOK, policy, outcome, GateAllows, ToolAt
<1>3. CASE GateAsks(s)
  <2>1. parked' \in [Sends -> BOOLEAN]
    <3>1. \A t \in Sends : (IF t = s THEN TRUE ELSE parked[t] /\ life[t] > 0) \in BOOLEAN
      OBVIOUS
    <3>. QED  BY <1>3, <3>1, Zenon DEF GateAsks, Park
  <2>2. life' \in [Sends -> 0..TTL]
    BY <1>3 DEF TypeOK, GateAsks, Park
  <2>3. ask' \in [Sends -> BOOLEAN]
    <3>1. (s \in Asks) \in BOOLEAN
      OBVIOUS
    <3>2. ask' = [ask EXCEPT ![s] = s \in Asks]
      BY <1>3 DEF GateAsks
    <3>. QED  BY <3>1, <3>2 DEF TypeOK
  <2>4. /\ tool' \in [Sends -> {"idle", "prompting", "sending", "sent", "done"}]
        /\ left' \in [Sends -> SUBSET Approvers]
    BY <1>3 DEF TypeOK, GateAsks, ToolAt
  <2>. QED  BY <1>3, <2>1, <2>2, <2>3, <2>4 DEF TypeOK, policy, outcome, GateAsks
<1>4. CASE Undeliverable(s)
  BY <1>4 DEF TypeOK, policy, outcome, Undeliverable, Unreachable, TakeToken, DropAsk, Tell, ToolAt
<1>5. CASE Asked(s)
  BY <1>5 DEF TypeOK, policy, outcome, Asked, StartWatchdog, Tell, ToolAt
<1>6. CASE SendNow(s)
  BY <1>6 DEF TypeOK, policy, outcome, SendNow, Reaches, ToolAt
<1>7. CASE SendFails(s)
  BY <1>7 DEF TypeOK, policy, outcome, SendFails, DropAsk, Tell, ToolAt
<1>8. CASE Sent(s)
  BY <1>8 DEF TypeOK, policy, outcome, Sent, StartWatchdog, Tell, ToolAt
<1>9. ASSUME NEW a \in Approvers, Prompt(s, a)
       PROVE  TypeOK'
  BY <1>9 DEF TypeOK, policy, outcome, Prompt
<1>. QED  BY <1>1, <1>2, <1>3, <1>4, <1>5, <1>6, <1>7, <1>8, <1>9 DEF ToolStep

\* So do the callback handler's.
LEMMA HandlerTypes ==
    ASSUME TypeOK, NEW s \in Sends, HandlerStep(s)
    PROVE  TypeOK'
<1>1. CASE Deliver(s)
  BY <1>1 DEF TypeOK, policy, outcome, Deliver, Reaches, HandlerAt
<1>2. CASE DeliverFails(s)
  BY <1>2 DEF TypeOK, policy, outcome, DeliverFails, HandlerAt
<1>3. CASE Delivered(s)
  BY <1>3 DEF TypeOK, policy, outcome, Delivered, StartWatchdog, HandlerAt
<1>4. CASE Approved(s)
  BY <1>4 DEF TypeOK, policy, outcome, Approved, HandlerAt
<1>5. CASE Rejected(s)
  BY <1>5 DEF TypeOK, policy, outcome, Rejected, HandlerAt
<1>6. CASE Dropped(s)
  BY <1>6 DEF TypeOK, policy, outcome, Dropped, DropAsk, HandlerAt
<1>. QED  BY <1>1, <1>2, <1>3, <1>4, <1>5, <1>6 DEF HandlerStep

\* And the presses.
LEMMA PressTypes ==
    ASSUME TypeOK, NEW s \in Sends, Press(s)
    PROVE  TypeOK'
<1>1. CASE PressExpired(s)
  BY <1>1 DEF TypeOK, policy, outcome, PressExpired, TakeToken
<1>2. ASSUME NEW a \in People, PressApprove(s, a)
      PROVE  TypeOK'
  BY <1>2 DEF TypeOK, policy, outcome, PressApprove, TakeToken, HandlerAt
<1>3. ASSUME NEW a \in People, PressReject(s, a)
      PROVE  TypeOK'
  BY <1>3 DEF TypeOK, policy, outcome, PressReject, TakeToken, HandlerAt
<1>4. CASE Answer(s)
  BY <1>4 DEF TypeOK, policy, outcome, Answer, DropAsk
<1>. QED  BY <1>1, <1>2, <1>3, <1>4 DEF Press

\* Time passes: no counter leaves its range, as no running timer stands at 0.
LEMMA TickTypes ==
    ASSUME TypeOK, Tick
    PROVE  TypeOK'
<1>1. life' \in [Sends -> 0..TTL]
  BY DEF TypeOK, Tick
<1>2. watchdog' \in [Sends -> (0..(TTL + Wait)) \cup {NoTimer}]
  <2>1. ASSUME NEW s \in Sends
        PROVE  (IF watchdog[s] = NoTimer THEN NoTimer ELSE watchdog[s] - 1)
                 \in (0..(TTL + Wait)) \cup {NoTimer}
    BY SMTT(60) DEF TypeOK, Tick
  <2>. QED  BY <2>1 DEF Tick
<1>3. age' \in [Sends -> 0..Wait]
  BY DEF TypeOK, Tick
<1>. QED  BY <1>1, <1>2, <1>3 DEF TypeOK, Tick, policy, outcome

LEMMA NextTypes ==
    ASSUME TypeOK, [Next]_vars
    PROVE  TypeOK'
<1>1. ASSUME NEW s \in Sends, WatchdogFires(s)
      PROVE  TypeOK'
  BY <1>1 DEF TypeOK, policy, outcome, WatchdogFires, DropAsk
<1>2. ASSUME NEW s \in Sends, PolicyChanges(s)
      PROVE  TypeOK'
  BY <1>2 DEF TypeOK, outcome, PolicyChanges
<1>3. CASE Restart
  BY <1>3 DEF TypeOK, policy, outcome, Restart
<1>4. CASE UNCHANGED vars
  BY <1>4 DEF TypeOK, vars
<1>. QED  BY <1>1, <1>2, <1>3, <1>4, ToolTypes, HandlerTypes, PressTypes, TickTypes DEF Next

LEMMA InitTypes == Init => TypeOK
BY DEF Init, TypeOK

\* Type correctness: the approval store, the question store, the timers and the
\* handler stay within their kinds, no timer ever runs below zero.
THEOREM FlowTypes == Spec => []TypeOK
BY InitTypes, NextTypes, PTL DEF Spec

-----------------------------------------------------------------------------
\* No step of a tool call breaks the invariant of any message.
LEMMA ToolKeeps ==
    ASSUME TypeOK, NEW s \in Sends, NEW t \in Sends, SendInv(t), ToolStep(s)
    PROVE  SendInv(t)'
<1>1. CASE GateDenies(s)
  BY <1>1 DEF TypeOK, policy, outcome, GateDenies, Tell, ToolAt,
         SendInv, Untouched, NothingWithoutPrompt, Releasable, OneRelease,
         TimerOutlastsToken, AnswerWindow, Timed, OneVoice, Usable
<1>2. CASE GateAllows(s)
  BY <1>2 DEF TypeOK, policy, outcome, GateAllows, ToolAt,
         SendInv, Untouched, NothingWithoutPrompt, Releasable, OneRelease,
         TimerOutlastsToken, AnswerWindow, Timed, OneVoice, Usable
<1>3. CASE GateAsks(s)
  BY <1>3 DEF TypeOK, policy, outcome, GateAsks, ToolAt, Park,
         SendInv, Untouched, NothingWithoutPrompt, Releasable, OneRelease,
         TimerOutlastsToken, AnswerWindow, Timed, OneVoice, Usable
<1>4. CASE Undeliverable(s)
  BY <1>4 DEF TypeOK, policy, outcome, Undeliverable, Unreachable, TakeToken, DropAsk, Tell, ToolAt,
         SendInv, Untouched, NothingWithoutPrompt, Releasable, OneRelease,
         TimerOutlastsToken, AnswerWindow, Timed, OneVoice, Usable
<1>5. CASE Asked(s)
  <2>1. /\ tool[s] = "prompting" /\ prompted[s] /= {}
        /\ tool' = [tool EXCEPT ![s] = "done"] /\ told' = [told EXCEPT ![s] = "asked"]
        /\ watchdog' = IF ask[s] THEN [watchdog EXCEPT ![s] = TTL + Wait] ELSE watchdog
        /\ UNCHANGED <<prompted, parked, life, ask, handling, deliveries, age,
                       answers, timeouts, verdict>>
    BY <1>5 DEF Asked, Unreachable, StartWatchdog, Tell, ToolAt, policy, outcome
  <2>2. CASE t = s
    <3>1. /\ tool'[s] = "done" /\ told'[s] = "asked"
          /\ ask[s] => watchdog'[s] = TTL + Wait
          /\ ~ ask[s] => watchdog'[s] = watchdog[s]
          /\ TTL + Wait \in Nat /\ TTL + Wait >= life[s] + Wait /\ TTL + Wait > 0
          /\ TTL + Wait >= Wait /\ TTL + Wait + age[s] >= Wait /\ TTL + Wait /= NoTimer
      BY <2>1, FlowAssumption DEF TypeOK
    <3> QED BY <2>1, <2>2, <3>1 DEF TypeOK, SendInv, Untouched, NothingWithoutPrompt, Releasable,
           OneRelease, TimerOutlastsToken, AnswerWindow, Timed, OneVoice, Usable
  <2>3. CASE t /= s
    BY <2>1, <2>3 DEF TypeOK, SendInv, Untouched, NothingWithoutPrompt, Releasable, OneRelease,
         TimerOutlastsToken, AnswerWindow, Timed, OneVoice, Usable
  <2>. QED  BY <2>2, <2>3
<1>6. CASE SendNow(s)
  <2>1. /\ tool' = [tool EXCEPT ![s] = "sent"]
        /\ deliveries' = [deliveries EXCEPT ![s] = @ + 1]
        /\ age' = [age EXCEPT ![s] = 0]
        /\ UNCHANGED <<told, prompted, parked, life, ask, watchdog, handling,
                       answers, timeouts, verdict>>
    BY <1>6 DEF SendNow, Reaches, ToolAt, policy, outcome
  <2>2. CASE t = s
    BY <1>6, <2>1, <2>2 DEF TypeOK, SendNow, SendInv, Untouched, NothingWithoutPrompt, Releasable, OneRelease,
         TimerOutlastsToken, AnswerWindow, Timed, OneVoice, Usable
  <2>3. CASE t # s
    BY <2>1, <2>3 DEF TypeOK, SendInv, Untouched, NothingWithoutPrompt, Releasable, OneRelease,
         TimerOutlastsToken, AnswerWindow, Timed, OneVoice, Usable
  <2>. QED  BY <2>2, <2>3
<1>7. CASE SendFails(s)
  BY <1>7 DEF TypeOK, policy, outcome, SendFails, DropAsk, Tell, ToolAt,
         SendInv, Untouched, NothingWithoutPrompt, Releasable, OneRelease,
         TimerOutlastsToken, AnswerWindow, Timed, OneVoice, Usable
<1>8. CASE Sent(s)
  BY <1>8 DEF TypeOK, policy, outcome, Sent, StartWatchdog, Tell, ToolAt,
         SendInv, Untouched, NothingWithoutPrompt, Releasable, OneRelease,
         TimerOutlastsToken, AnswerWindow, Timed, OneVoice, Usable
<1>9. ASSUME NEW a \in Approvers, Prompt(s, a)
      PROVE  SendInv(t)'
  BY <1>9 DEF TypeOK, policy, outcome, Prompt,
         SendInv, Untouched, NothingWithoutPrompt, Releasable, OneRelease,
         TimerOutlastsToken, AnswerWindow, Timed, OneVoice, Usable
<1>. QED  BY <1>1, <1>2, <1>3, <1>4, <1>5, <1>6, <1>7, <1>8, <1>9 DEF ToolStep

\* No step of the callback handler does.
LEMMA HandlerKeeps ==
    ASSUME TypeOK, NEW s \in Sends, NEW t \in Sends, SendInv(t), HandlerStep(s)
    PROVE  SendInv(t)'
<1>1. CASE Deliver(s)
  <2>1. /\ handling' = [handling EXCEPT ![s] = "delivered"]
        /\ deliveries' = [deliveries EXCEPT ![s] = @ + 1]
        /\ age' = [age EXCEPT ![s] = 0]
        /\ UNCHANGED <<tool, told, prompted, parked, life, ask, watchdog,
                       answers, timeouts, verdict>>
    BY <1>1 DEF Deliver, Reaches, HandlerAt, policy, outcome
  <2>2. CASE t = s
    BY <1>1, <2>1, <2>2 DEF TypeOK, Deliver, SendInv, Untouched, NothingWithoutPrompt, Releasable, OneRelease,
         TimerOutlastsToken, AnswerWindow, Timed, OneVoice, Usable
  <2>3. CASE t # s
    BY <2>1, <2>3 DEF TypeOK, SendInv, Untouched, NothingWithoutPrompt, Releasable, OneRelease,
         TimerOutlastsToken, AnswerWindow, Timed, OneVoice, Usable
  <2>. QED  BY <2>2, <2>3
<1>2. CASE DeliverFails(s)
  BY <1>2 DEF TypeOK, policy, outcome, DeliverFails, HandlerAt,
         SendInv, Untouched, NothingWithoutPrompt, Releasable, OneRelease,
         TimerOutlastsToken, AnswerWindow, Timed, OneVoice, Usable
<1>3. CASE Delivered(s)
  <2>1. /\ handling' = [handling EXCEPT ![s] = "approved"]
        /\ watchdog' = IF ask[s] THEN [watchdog EXCEPT ![s] = Wait] ELSE watchdog
        /\ UNCHANGED <<tool, told, prompted, parked, life, ask, deliveries,
                       age, answers, timeouts, verdict>>
    BY <1>3 DEF Delivered, StartWatchdog, HandlerAt, policy, outcome
  <2>2. CASE t = s
    BY <1>3, <2>1, <2>2 DEF TypeOK, Delivered, SendInv, Untouched, NothingWithoutPrompt, Releasable, OneRelease,
         TimerOutlastsToken, AnswerWindow, Timed, OneVoice, Usable
  <2>3. CASE t # s
    BY <2>1, <2>3 DEF TypeOK, SendInv, Untouched, NothingWithoutPrompt, Releasable, OneRelease,
         TimerOutlastsToken, AnswerWindow, Timed, OneVoice, Usable
  <2>. QED  BY <2>2, <2>3
<1>4. CASE Approved(s)
  BY <1>4 DEF TypeOK, policy, outcome, Approved, HandlerAt,
         SendInv, Untouched, NothingWithoutPrompt, Releasable, OneRelease,
         TimerOutlastsToken, AnswerWindow, Timed, OneVoice, Usable
<1>5. CASE Rejected(s)
  BY <1>5 DEF TypeOK, policy, outcome, Rejected, HandlerAt,
         SendInv, Untouched, NothingWithoutPrompt, Releasable, OneRelease,
         TimerOutlastsToken, AnswerWindow, Timed, OneVoice, Usable
<1>6. CASE Dropped(s)
  BY <1>6 DEF TypeOK, policy, outcome, Dropped, DropAsk, HandlerAt,
         SendInv, Untouched, NothingWithoutPrompt, Releasable, OneRelease,
         TimerOutlastsToken, AnswerWindow, Timed, OneVoice, Usable
<1>. QED  BY <1>1, <1>2, <1>3, <1>4, <1>5, <1>6 DEF HandlerStep

\* No press does.
LEMMA PressKeeps ==
    ASSUME TypeOK, NEW s \in Sends, NEW t \in Sends, SendInv(t), Press(s)
    PROVE  SendInv(t)'
<1>1. CASE PressExpired(s)
  BY <1>1 DEF TypeOK, policy, outcome, PressExpired, TakeToken, HandlerIdle,
         SendInv, Untouched, NothingWithoutPrompt, Releasable, OneRelease,
         TimerOutlastsToken, AnswerWindow, Timed, OneVoice, Usable
<1>2. ASSUME NEW a \in People, PressApprove(s, a)
      PROVE  SendInv(t)'
  <2>1. /\ parked' = [parked EXCEPT ![s] = FALSE]
        /\ life' = [life EXCEPT ![s] = 0]
        /\ \/ handling' = [handling EXCEPT ![s] = "dropping"]
           \/ handling' = [handling EXCEPT ![s] = "deliver"]
        /\ UNCHANGED <<tool, told, prompted, ask, watchdog, deliveries,
                       age, answers, timeouts, verdict>>
    BY <1>2 DEF PressApprove, TakeToken, HandlerAt, policy, outcome
  <2>2. CASE t = s
    BY <1>2, <2>1, <2>2 DEF TypeOK, PressApprove, HandlerIdle, SendInv, Untouched, NothingWithoutPrompt, Releasable, OneRelease,
         TimerOutlastsToken, AnswerWindow, Timed, OneVoice, Usable
  <2>3. CASE t # s
    BY <2>1, <2>3 DEF TypeOK, SendInv, Untouched, NothingWithoutPrompt, Releasable, OneRelease,
         TimerOutlastsToken, AnswerWindow, Timed, OneVoice, Usable
  <2>. QED  BY <2>2, <2>3
<1>3. ASSUME NEW a \in People, PressReject(s, a)
      PROVE  SendInv(t)'
  <2>1. /\ parked' = [parked EXCEPT ![s] = FALSE]
        /\ life' = [life EXCEPT ![s] = 0]
        /\ handling' = [handling EXCEPT ![s] = "rejected"]
        /\ UNCHANGED <<tool, told, prompted, ask, watchdog, deliveries,
                       age, answers, timeouts, verdict>>
    BY <1>3 DEF PressReject, TakeToken, HandlerAt, policy, outcome
  <2>2. CASE t = s
    BY <1>3, <2>1, <2>2 DEF TypeOK, PressReject, HandlerIdle, SendInv, Untouched, NothingWithoutPrompt, Releasable, OneRelease,
         TimerOutlastsToken, AnswerWindow, Timed, OneVoice, Usable
  <2>3. CASE t # s
    BY <2>1, <2>3 DEF TypeOK, SendInv, Untouched, NothingWithoutPrompt, Releasable, OneRelease,
         TimerOutlastsToken, AnswerWindow, Timed, OneVoice, Usable
  <2>. QED  BY <2>2, <2>3
<1>4. CASE Answer(s)
  BY <1>4 DEF TypeOK, policy, outcome, Answer, DropAsk, HandlerIdle,
         SendInv, Untouched, NothingWithoutPrompt, Releasable, OneRelease,
         TimerOutlastsToken, AnswerWindow, Timed, OneVoice, Usable
<1>. QED  BY <1>1, <1>2, <1>3, <1>4 DEF Press

\* A timer that fires never meets a usable token or a busy handler.
LEMMA WatchdogKeeps ==
    ASSUME TypeOK, NEW s \in Sends, NEW t \in Sends, SendInv(t), WatchdogFires(s)
    PROVE  SendInv(t)'
<1>1. CASE t = s
  BY <1>1 DEF TypeOK, policy, WatchdogFires, DropAsk,
         SendInv, Untouched, NothingWithoutPrompt, Releasable, OneRelease,
         TimerOutlastsToken, AnswerWindow, Timed, OneVoice, Usable
<1>2. CASE t # s
  BY <1>2 DEF TypeOK, policy, WatchdogFires, DropAsk,
         SendInv, Untouched, NothingWithoutPrompt, Releasable, OneRelease,
         TimerOutlastsToken, AnswerWindow, Timed, OneVoice, Usable
<1>. QED  BY <1>1, <1>2

\* Time shortens the token and its timer alike.
LEMMA TickKeeps ==
    ASSUME TypeOK, NEW t \in Sends, SendInv(t), Tick
    PROVE  SendInv(t)'
<1>1. /\ UNCHANGED <<tool, told, prompted, parked, ask, handling, deliveries,
                     answers, timeouts, verdict>>
      /\ handling[t] = "no" /\ watchdog[t] /= 0
      /\ life'[t] = IF life[t] > 0 THEN life[t] - 1 ELSE 0
      /\ watchdog'[t] = IF watchdog[t] = NoTimer THEN NoTimer ELSE watchdog[t] - 1
      /\ age'[t] = IF deliveries[t] > 0 /\ age[t] < Wait THEN age[t] + 1 ELSE age[t]
  BY DEF Tick, HandlerIdle, outcome
<1>2. /\ life[t] \in Nat /\ answers[t] \in Nat /\ timeouts[t] \in Nat
      /\ watchdog[t] \in Nat \cup {NoTimer} /\ age[t] \in 0..Wait /\ deliveries[t] \in Nat
  BY DEF TypeOK
<1>3. Usable(t)' => Usable(t)
  BY <1>1, <1>2 DEF Usable
<1>4. TimerOutlastsToken(t)'
  BY <1>1, <1>2, <1>3 DEF SendInv, TimerOutlastsToken, Usable
<1>5. /\ Untouched(t)' /\ NothingWithoutPrompt(t)'
      /\ OneRelease(t)' /\ OneVoice(t)' /\ Timed(t)'
  BY <1>1, <1>2, <1>3 DEF SendInv, Untouched, NothingWithoutPrompt, Releasable, OneRelease, OneVoice, Timed
<1>6. AnswerWindow(t)'
  BY <1>1, <1>2 DEF SendInv, AnswerWindow
<1>. QED  BY <1>4, <1>5, <1>6 DEF SendInv

\* A restart forgets every token, record and timer.
LEMMA RestartKeeps ==
    ASSUME TypeOK, NEW t \in Sends, SendInv(t), Restart
    PROVE  SendInv(t)'
BY DEF TypeOK, policy, outcome, Restart,
         SendInv, Untouched, NothingWithoutPrompt, Releasable, OneRelease,
         TimerOutlastsToken, AnswerWindow, Timed, OneVoice, Usable

LEMMA NextKeeps ==
    ASSUME TypeOK, FlowInv, [Next]_vars
    PROVE  FlowInv'
<1> SUFFICES ASSUME NEW t \in Sends
             PROVE  SendInv(t)'
  BY DEF FlowInv
<1>1. SendInv(t)
  BY DEF FlowInv
<1>2. ASSUME NEW s \in Sends, PolicyChanges(s)
      PROVE  SendInv(t)'
  BY <1>1, <1>2 DEF PolicyChanges, outcome,
         SendInv, Untouched, NothingWithoutPrompt, Releasable, OneRelease,
         TimerOutlastsToken, AnswerWindow, Timed, OneVoice, Usable
<1>3. CASE UNCHANGED vars
  BY <1>1, <1>3 DEF vars,
         SendInv, Untouched, NothingWithoutPrompt, Releasable, OneRelease,
         TimerOutlastsToken, AnswerWindow, Timed, OneVoice, Usable
<1>. QED  BY <1>1, <1>2, <1>3, ToolKeeps, HandlerKeeps, PressKeeps, WatchdogKeeps,
             TickKeeps, RestartKeeps DEF Next

LEMMA InitInv == Init => FlowInv
BY DEF Init, FlowInv,
         SendInv, Untouched, NothingWithoutPrompt, Releasable, OneRelease,
         TimerOutlastsToken, AnswerWindow, Timed, OneVoice, Usable

THEOREM FlowInductive == Spec => [](TypeOK /\ FlowInv)
<1>1. TypeOK /\ FlowInv /\ [Next]_vars => (TypeOK /\ FlowInv)'
  BY NextTypes, NextKeeps
<1>. QED  BY InitTypes, InitInv, <1>1, PTL DEF Spec

\* No interleaving of presses, prompts, timers and restarts delivers a message
\* twice: the token is gone before the publish begins, and the tool that sends
\* directly never parks.
THEOREM AtMostOneDelivery == Spec => []DeliveredAtMostOnce
<1>1. FlowInv => DeliveredAtMostOnce
  BY DEF FlowInv, SendInv, OneRelease, DeliveredAtMostOnce
<1>. QED  BY FlowInductive, <1>1, PTL

\* After "denied", "failed" or "rejected" the message is never delivered.
THEOREM RefusalsHold == Spec => []RefusedStaysRefused
<1>1. FlowInv => RefusedStaysRefused
  BY DEF FlowInv, SendInv, NothingWithoutPrompt, OneRelease, RefusedStaysRefused
<1>. QED  BY FlowInductive, <1>1, PTL

\* The requester hears the answer, the timeout or the rejection, never two of them.
THEOREM SingleOutcome == Spec => []OneOutcome
<1>1. TypeOK /\ FlowInv => OneOutcome
  BY DEF TypeOK, FlowInv, SendInv, OneVoice, OneOutcome
<1>. QED  BY FlowInductive, <1>1, PTL

\* No path of the tool or the handler leaves a question without a timer.
THEOREM NoQuestionLeaks == Spec => []QuestionsAreTimed
<1>1. FlowInv => QuestionsAreTimed
  BY DEF FlowInv, SendInv, Timed, QuestionsAreTimed
<1>. QED  BY FlowInductive, <1>1, PTL

\* A timeout is told only after the whole answer window, or of a question that
\* never arrived, and no delivery follows it.
LEMMA HonestStep ==
    ASSUME TypeOK, FlowInv, [Next]_vars, NEW t \in Sends
    PROVE  /\ timeouts'[t] > timeouts[t] /\ deliveries[t] > 0 => age[t] >= Wait
           /\ timeouts[t] > 0 => deliveries'[t] = deliveries[t]
<1>1. /\ SendInv(t)
      /\ timeouts[t] \in Nat /\ deliveries[t] \in Nat /\ age[t] \in Nat
  BY DEF TypeOK, FlowInv
<1>2. ASSUME NEW s \in Sends, WatchdogFires(s)
      PROVE  /\ deliveries' = deliveries
             /\ timeouts'[t] > timeouts[t] => ask[t] /\ watchdog[t] = 0
  BY <1>1, <1>2 DEF WatchdogFires, TypeOK
<1>3. ASSUME NEW s \in Sends, SendNow(s) \/ Deliver(s)
      PROVE  /\ timeouts' = timeouts
             /\ deliveries'[t] /= deliveries[t] =>
                   tool[t] = "sending" \/ handling[t] = "deliver"
  BY <1>3 DEF SendNow, Deliver, Reaches, outcome, TypeOK
<1>4. ASSUME NEW s \in Sends,
             \/ GateDenies(s) \/ GateAllows(s) \/ GateAsks(s) \/ Undeliverable(s)
             \/ Asked(s) \/ SendFails(s) \/ Sent(s) \/ PolicyChanges(s)
             \/ \E a \in Approvers : Prompt(s, a)
      PROVE  deliveries' = deliveries /\ timeouts' = timeouts
  BY <1>4 DEF GateDenies, GateAllows, GateAsks, Undeliverable, Asked, SendFails, Sent,
              PolicyChanges, Prompt, outcome
<1>5. ASSUME NEW s \in Sends,
             \/ Press(s) \/ DeliverFails(s) \/ Delivered(s) \/ Approved(s)
             \/ Rejected(s) \/ Dropped(s)
      PROVE  deliveries' = deliveries /\ timeouts' = timeouts
  BY <1>5 DEF Press, PressExpired, PressApprove, PressReject, Answer, DeliverFails,
              Delivered, Approved, Rejected, Dropped, outcome
<1>6. ASSUME Tick \/ Restart \/ UNCHANGED vars
      PROVE  deliveries' = deliveries /\ timeouts' = timeouts
  BY <1>6 DEF Tick, Restart, vars, outcome
<1>7. ask[t] /\ deliveries[t] > 0 /\ watchdog[t] = 0 => age[t] >= Wait
  BY <1>1 DEF SendInv, AnswerWindow
<1>8. timeouts[t] > 0 => tool[t] /= "sending" /\ handling[t] /= "deliver"
  BY <1>1 DEF SendInv, Untouched, OneVoice
<1>. QED  BY <1>1, <1>2, <1>3, <1>4, <1>5, <1>6, <1>7, <1>8 DEF Next, ToolStep, HandlerStep

THEOREM HonestTimeouts == Spec => TimeoutIsHonest
<1>1. TypeOK /\ FlowInv /\ [Next]_vars =>
        [\A s \in Sends :
            /\ timeouts'[s] > timeouts[s] /\ deliveries[s] > 0 => age[s] >= Wait
            /\ timeouts[s] > 0 => deliveries'[s] = deliveries[s]]_vars
  BY HonestStep
<1>. QED  BY FlowInductive, <1>1, PTL DEF Spec, TimeoutIsHonest
-----------------------------------------------------------------------------
(***************************************************************************)
(* ApprovalFlow implements Consent.                                        *)
(***************************************************************************)
Fated == [s \in Sends |-> Fate(s)]
HeardAll == [s \in Sends |-> Heard(s)]
Told == <<verdict, answers, timeouts>>

\* Where a message stands depends on these variables alone.
LEMMA FateKept ==
    ASSUME NEW t, deliveries'[t] = deliveries[t], tool'[t] = tool[t],
           handling'[t] = handling[t], verdict'[t] = verdict[t],
           Usable(t)' <=> Usable(t)
    PROVE  Fate(t)' = Fate(t)
BY Zenon DEF Fate

LEMMA HeardKept == ASSUME UNCHANGED Told PROVE HeardAll' = HeardAll
BY DEF HeardAll, Heard, Told

\* A step that moves one message, and says nothing, moves it alone in Consent too.
LEMMA FateMoves ==
    ASSUME NEW s \in Sends, NEW from, NEW to, Fate(s) = from, Fate(s)' = to,
           \A t \in Sends \ {s} : Fate(t)' = Fate(t),
           UNCHANGED policy, UNCHANGED Told
    PROVE  Promise!Moves(s, from, to)
<1>1. Fated' = [Fated EXCEPT ![s] = to]
  BY DEF Fated
<1>2. HeardAll' = HeardAll
  BY HeardKept
<1> QED BY <1>1, <1>2 DEF Promise!Moves, Fated, HeardAll, policy

\* A step that moves no message and tells nothing is none of Consent's.
LEMMA Stutters ==
    ASSUME \A t \in Sends : Fate(t)' = Fate(t), UNCHANGED policy, UNCHANGED Told,
           UNCHANGED deliveries
    PROVE  UNCHANGED Promise!promised
<1>1. Fated' = Fated
  BY DEF Fated
<1>2. HeardAll' = HeardAll
  BY HeardKept
<1> QED BY <1>1, <1>2 DEF Promise!promised, Fated, HeardAll, policy

\* Messages that die together are one of Consent's lapses.
LEMMA Lapses ==
    ASSUME \A t \in Sends :
               \/ Fate(t)' = Fate(t)
               \/ /\ Fate(t) \in {"waiting", "cleared", "rejected"} /\ Fate(t)' = "dead"
                  /\ verdict[t] /= "rejected",
           UNCHANGED policy, UNCHANGED Told, UNCHANGED deliveries
    PROVE  Promise!Next
<1> DEFINE S == {t \in Sends : Fate(t)' /= Fate(t)}
<1>1. Fated' = [t \in Sends |-> IF t \in S THEN "dead" ELSE Fated[t]]
  BY DEF Fated
<1>2. HeardAll' = HeardAll
  BY HeardKept
<1>3. \A t \in S : Fated[t] \in {"waiting", "cleared", "rejected"} /\ HeardAll[t]["rejection"] = 0
  BY DEF Fated, HeardAll, Heard
<1>4. Promise!Lapse(S)
  BY <1>1, <1>2, <1>3 DEF Promise!Lapse, Fated, HeardAll, policy
<1>5. S \in SUBSET Sends
  OBVIOUS
<1> QED BY <1>4, <1>5 DEF Promise!Next

\* One message that dies alone.
LEMMA Dies ==
    ASSUME NEW s \in Sends, Fate(s) \in {"waiting", "cleared"}, Fate(s)' = "dead",
           \A t \in Sends \ {s} : Fate(t)' = Fate(t), verdict[s] /= "rejected",
           UNCHANGED policy, UNCHANGED Told, UNCHANGED deliveries
    PROVE  Promise!Next
BY Lapses

\* How each message stands, read off the invariant.
LEMMA Standings ==
    ASSUME TypeOK, FlowInv, NEW s \in Sends
    PROVE  /\ tool[s] = "idle" => Fate(s) = "new"
           /\ tool[s] = "sending" => Fate(s) = "cleared" /\ ~ Usable(s) /\ handling[s] = "no"
           /\ handling[s] = "deliver" => Fate(s) = "cleared" /\ ~ Usable(s)
           /\ handling[s] = "rejected" => Fate(s) = "rejected" /\ ~ Usable(s)
           /\ Usable(s) => Fate(s) = "waiting" /\ handling[s] = "no"
           /\ Fate(s) = "waiting" => Usable(s)
           /\ handling[s] \in {"delivered", "approved"} => Fate(s) = "delivered"
           /\ Fate(s) = "delivered" <=> deliveries[s] > 0
           /\ Fate(s) \in {"new", "waiting", "cleared"} => verdict[s] = "none"
<1>1. SendInv(s)
  BY DEF FlowInv
<1> QED BY <1>1 DEF TypeOK, SendInv, Untouched, NothingWithoutPrompt, Releasable, OneRelease,
                  Usable, Fate

\* What the tool call does to its message is a decision, a delivery, a lapse or
\* nothing to Consent.
LEMMA ToolPromise ==
    ASSUME TypeOK, FlowInv, NEW s \in Sends, ToolStep(s)
    PROVE  [Promise!Next]_(Promise!promised)
<1> USE DEF TypeOK, policy, outcome, Told
<1>1. UNCHANGED policy /\ UNCHANGED Told
  BY DEF ToolStep, GateDenies, GateAllows, GateAsks, Prompt, Undeliverable, Asked,
         SendNow, SendFails, Sent
<1>2. ASSUME NEW t \in Sends \ {s}  PROVE Fate(t)' = Fate(t)
  <2>1. CASE GateAsks(s)
    <3>1. /\ parked'[t] <=> parked[t] /\ life[t] > 0
          /\ life'[t] = life[t]
      BY <2>1 DEF GateAsks, Park
    <3>2. Usable(t)' <=> Usable(t)
      BY <3>1 DEF Usable
    <3> QED BY <2>1, <3>2, FateKept DEF GateAsks, ToolAt
  <2>2. CASE Undeliverable(s)
    <3>1. Usable(t)' <=> Usable(t)
      BY <2>2 DEF Undeliverable, TakeToken, Usable
    <3> QED BY <2>2, <3>1, FateKept DEF Undeliverable, Tell, ToolAt
  <2>3. CASE GateDenies(s) \/ GateAllows(s) \/ (\E a \in Approvers : Prompt(s, a)) \/ Asked(s)
    <3>1. Usable(t)' <=> Usable(t)
      BY <2>3 DEF GateDenies, GateAllows, Prompt, Asked, Usable
    <3> QED BY <2>3, <3>1, FateKept DEF GateDenies, GateAllows, Prompt, Asked, Tell, ToolAt
  <2>4. CASE SendNow(s) \/ SendFails(s) \/ Sent(s)
    <3>1. Usable(t)' <=> Usable(t)
      BY <2>4 DEF SendNow, SendFails, Sent, Usable
    <3> QED BY <2>4, <3>1, FateKept DEF SendNow, SendFails, Sent, Reaches, Tell, ToolAt
  <2> QED BY <2>1, <2>2, <2>3, <2>4 DEF ToolStep
<1>3. ASSUME NEW from, NEW to, Fate(s) = from, Fate(s)' = to
      PROVE  Promise!Moves(s, from, to)
  BY <1>1, <1>2, <1>3, FateMoves
<1>4. ASSUME Fate(s)' = Fate(s), UNCHANGED deliveries  PROVE UNCHANGED Promise!promised
  BY <1>1, <1>2, <1>4, Stutters
<1>5. SendInv(s)
  BY DEF FlowInv
<1>6. CASE GateDenies(s)
  <2>1. Fate(s) = "new" /\ Fate(s)' = "dead" /\ ruling[s] = "deny" /\ UNCHANGED deliveries
    BY <1>5, <1>6, Standings DEF GateDenies, Tell, ToolAt, Fate, SendInv, Untouched,
       NothingWithoutPrompt, Usable
  <2> QED BY <1>3, <2>1 DEF Promise!Next, Promise!Decide
<1>7. CASE GateAllows(s)
  <2>1. Fate(s) = "new" /\ Fate(s)' = "cleared" /\ ruling[s] = "allow" /\ UNCHANGED deliveries
    BY <1>5, <1>7, Standings DEF GateAllows, ToolAt, Fate, SendInv, Untouched
  <2> QED BY <1>3, <2>1 DEF Promise!Next, Promise!Decide
<1>8. CASE GateAsks(s)
  <2>1. Fate(s) = "new" /\ Fate(s)' = "waiting" /\ ruling[s] = "ask" /\ UNCHANGED deliveries
    BY <1>5, <1>8, Standings DEF GateAsks, ToolAt, Park, Fate, SendInv, Untouched,
       NothingWithoutPrompt, Usable
  <2> QED BY <1>3, <2>1 DEF Promise!Next, Promise!Decide
<1>9. CASE (\E a \in Approvers : Prompt(s, a)) \/ Asked(s) \/ Sent(s)
  <2>1. Fate(s)' = Fate(s) /\ UNCHANGED deliveries
    BY <1>5, <1>9 DEF Prompt, Asked, Sent, Tell, ToolAt, Fate, Usable, SendInv, Untouched,
       NothingWithoutPrompt
  <2> QED BY <1>4, <2>1
<1>10. CASE Undeliverable(s)
  <2>1. /\ Fate(s) \in {"waiting", "dead"} /\ Fate(s)' = "dead" /\ UNCHANGED deliveries
        /\ verdict[s] = "none"
    BY <1>5, <1>10 DEF Undeliverable, Unreachable, TakeToken, Tell, ToolAt, Fate, Usable,
       SendInv, NothingWithoutPrompt
  <2> QED BY <1>1, <1>2, <1>4, <2>1, Dies
<1>11. CASE SendNow(s)
  <2>1. /\ Fate(s) = "cleared" /\ Fate(s)' = "delivered"
        /\ deliveries' = [deliveries EXCEPT ![s] = @ + 1]
    BY <1>5, <1>11, Standings DEF SendNow, Reaches, ToolAt, Fate
  <2> QED BY <1>3, <2>1 DEF Promise!Next, Promise!Reach
<1>12. CASE SendFails(s)
  <2>1. /\ Fate(s) = "cleared" /\ Fate(s)' = "dead" /\ UNCHANGED deliveries
        /\ verdict[s] = "none"
    BY <1>5, <1>12, Standings DEF SendFails, Tell, ToolAt, Fate, Usable
  <2> QED BY <1>1, <1>2, <2>1, Dies
<1> QED BY <1>6, <1>7, <1>8, <1>9, <1>10, <1>11, <1>12 DEF ToolStep

\* A press grants, turns down, loses the message, or does nothing.
LEMMA PressPromise ==
    ASSUME TypeOK, FlowInv, NEW s \in Sends,
           PressExpired(s) \/ \E a \in People : PressApprove(s, a) \/ PressReject(s, a)
    PROVE  [Promise!Next]_(Promise!promised)
<1> USE DEF TypeOK, policy, outcome, Told
<1>1. UNCHANGED policy /\ UNCHANGED Told /\ UNCHANGED <<deliveries, tool>>
  BY DEF PressExpired, PressApprove, PressReject
<1>2. ASSUME NEW t \in Sends \ {s}  PROVE Fate(t)' = Fate(t)
  <2>1. /\ handling'[t] = handling[t] /\ (Usable(t)' <=> Usable(t))
    BY DEF PressExpired, PressApprove, PressReject, TakeToken, HandlerAt, Usable
  <2> QED BY <1>1, <2>1, FateKept
<1>3. ASSUME NEW from, NEW to, Fate(s) = from, Fate(s)' = to
      PROVE  Promise!Moves(s, from, to)
  BY <1>1, <1>2, <1>3, FateMoves
<1>4. SendInv(s)
  BY DEF FlowInv
<1>5. CASE PressExpired(s)
  <2>1. Fate(s)' = Fate(s)
    BY <1>1, <1>5 DEF PressExpired, TakeToken, Fate, Usable
  <2> QED BY <1>1, <1>2, <2>1, Stutters
<1>6. ASSUME NEW a \in People, PressApprove(s, a)
      PROVE  Promise!Next
  <2>1. /\ Fate(s) = "waiting" /\ verdict[s] = "none" /\ ruling[s] = "ask" /\ a \in entitled
        /\ tool[s] \notin {"idle", "sending"} /\ deliveries[s] = 0
    BY <1>4, <1>6, Standings DEF PressApprove, MayDecide, SendInv, OneRelease, Releasable,
       Usable
  <2>2. CASE DeniedFrom(a, s)
    <3>1. Fate(s)' = "dead"
      BY <1>1, <1>6, <2>1, <2>2 DEF PressApprove, TakeToken, HandlerAt, Fate, Usable
    <3> QED BY <1>1, <1>2, <2>1, <3>1, Dies
  <2>3. CASE ~ DeniedFrom(a, s)
    <3>1. Fate(s)' = "cleared"
      BY <1>1, <1>6, <2>1, <2>3 DEF PressApprove, TakeToken, HandlerAt, Fate
    <3>2. a \notin Elsewhere \/ Target[s] = a
      BY <2>3 DEF DeniedFrom
    <3> QED BY <1>1, <1>3, <2>1, <3>1, <3>2 DEF Promise!Next, Promise!Grant
  <2> QED BY <2>2, <2>3
<1>7. ASSUME NEW a \in People, PressReject(s, a)
      PROVE  Promise!Next
  <2>1. /\ Fate(s) = "waiting" /\ ruling[s] = "ask" /\ a \in entitled
        /\ tool[s] \notin {"idle", "sending"} /\ deliveries[s] = 0
    BY <1>4, <1>7, Standings DEF PressReject, MayDecide, SendInv, OneRelease, Releasable,
       Usable
  <2>2. Fate(s)' = "rejected"
    BY <1>1, <1>7, <2>1 DEF PressReject, TakeToken, HandlerAt, Fate
  <2> QED BY <1>1, <1>3, <2>1, <2>2 DEF Promise!Next, Promise!Reject
<1> QED BY <1>5, <1>6, <1>7

\* What a requester hears next is the first ending it hears, and true.
LEMMA Hears ==
    ASSUME NEW s \in Sends, NEW o \in {"approval", "answer", "timeout", "rejection"},
           Promise!Supports(Fate(s), o),
           answers[s] = 0, timeouts[s] = 0, verdict[s] /= "rejected",
           o = "approval" => verdict[s] = "none",
           Heard(s)' = [Heard(s) EXCEPT ![o] = 1],
           \A t \in Sends \ {s} : Heard(t)' = Heard(t),
           \A t \in Sends : Fate(t)' = Fate(t),
           UNCHANGED policy, UNCHANGED deliveries
    PROVE  Promise!Next
<1>1. Fated' = Fated
  BY DEF Fated
<1>2. HeardAll' = [HeardAll EXCEPT ![s][o] = 1]
  BY DEF HeardAll
<1>3. \A e \in {"answer", "timeout", "rejection"} \cup {o} : HeardAll[s][e] = 0
  BY DEF HeardAll, Heard
<1>4. Promise!Hear(s, o)
  BY <1>1, <1>2, <1>3 DEF Promise!Hear, Promise!Endings, Promise!Outcomes, Fated, HeardAll, policy
<1> QED BY <1>4 DEF Promise!Next, Promise!Outcomes

\* The handler delivers, says what is true, or loses the message.
LEMMA HandlerPromise ==
    ASSUME TypeOK, FlowInv, NEW s \in Sends, HandlerStep(s)
    PROVE  [Promise!Next]_(Promise!promised)
<1> USE DEF TypeOK, policy, outcome
<1>1. UNCHANGED policy /\ UNCHANGED <<parked, life, tool, answers, timeouts>>
  BY DEF HandlerStep, Deliver, DeliverFails, Delivered, Approved, Rejected, Dropped
<1>2. \A t \in Sends : Usable(t)' <=> Usable(t)
  BY <1>1 DEF Usable
<1>3. ASSUME NEW t \in Sends \ {s}  PROVE Fate(t)' = Fate(t) /\ Heard(t)' = Heard(t)
  <2>1. /\ deliveries'[t] = deliveries[t] /\ handling'[t] = handling[t]
        /\ verdict'[t] = verdict[t]
    BY DEF HandlerStep, Deliver, DeliverFails, Delivered, Approved, Rejected, Dropped,
           HandlerAt, Reaches
  <2> QED BY <1>1, <1>2, <2>1, FateKept DEF Heard
<1>4. SendInv(s)
  BY DEF FlowInv
<1>5. CASE Deliver(s)
  <2>1. /\ Fate(s) = "cleared" /\ Fate(s)' = "delivered" /\ UNCHANGED Told
        /\ deliveries' = [deliveries EXCEPT ![s] = @ + 1]
    BY <1>5, Standings DEF Deliver, Reaches, Fate, Told
  <2>2. Promise!Moves(s, "cleared", "delivered")
    BY <1>1, <1>3, <2>1, FateMoves
  <2> QED BY <2>1, <2>2 DEF Promise!Next, Promise!Reach
<1>6. CASE DeliverFails(s)
  <2>1. /\ Fate(s) = "cleared" /\ UNCHANGED Told /\ UNCHANGED deliveries /\ verdict[s] = "none"
        /\ ~ Usable(s) /\ tool[s] \notin {"idle", "sending"} /\ deliveries[s] = 0
    BY <1>4, <1>6, Standings DEF DeliverFails, Told, SendInv, OneRelease, Releasable
  <2>2. Fate(s)' = "dead"
    BY <1>1, <1>2, <1>6, <2>1 DEF DeliverFails, HandlerAt, Fate, Told
  <2> QED BY <1>1, <1>3, <2>1, <2>2, Dies
<1>7. CASE Delivered(s) \/ Dropped(s)
  <2>1. Fate(s)' = Fate(s) /\ UNCHANGED Told /\ UNCHANGED deliveries
    BY <1>1, <1>2, <1>7 DEF Delivered, Dropped, HandlerAt, Fate, Told
  <2> QED BY <1>1, <1>3, <2>1, Stutters
<1>8. CASE Approved(s)
  <2>1. /\ Fate(s) = "delivered" /\ UNCHANGED deliveries
        /\ verdict' = [verdict EXCEPT ![s] = "approved"]
    BY <1>8, Standings DEF Approved
  <2>2. Fate(s)' = Fate(s)
    BY <2>1, Standings DEF Fate
  <2>3. verdict[s] = "none" /\ answers[s] = 0 /\ timeouts[s] = 0
    BY <1>4, <1>8 DEF Approved, SendInv, OneRelease, OneVoice
  <2>4. Heard(s)' = [Heard(s) EXCEPT !["approval"] = 1]
    BY <1>1, <2>1, <2>3 DEF Heard
  <2> QED BY <1>1, <1>3, <2>1, <2>2, <2>3, <2>4, Hears DEF Promise!Supports
<1>9. CASE Rejected(s)
  <2>1. /\ Fate(s) = "rejected" /\ UNCHANGED deliveries
        /\ verdict' = [verdict EXCEPT ![s] = "rejected"]
        /\ verdict[s] = "none" /\ answers[s] = 0 /\ timeouts[s] = 0
        /\ tool[s] \notin {"idle", "sending"} /\ deliveries[s] = 0
    BY <1>4, <1>9, Standings DEF Rejected, SendInv, OneRelease, Releasable, OneVoice
  <2>2. Fate(s)' = Fate(s)
    BY <1>1, <1>9, <2>1 DEF Rejected, HandlerAt, Fate
  <2>3. Heard(s)' = [Heard(s) EXCEPT !["rejection"] = 1]
    BY <1>1, <2>1 DEF Heard
  <2> QED BY <1>1, <1>3, <2>1, <2>2, <2>3, Hears DEF Promise!Supports
<1> QED BY <1>5, <1>6, <1>7, <1>8, <1>9 DEF HandlerStep
\* The target's answer is true of a message that arrived; a timeout, of one that
\* arrived or never will.
LEMMA EndingPromise ==
    ASSUME TypeOK, FlowInv, NEW s \in Sends, Answer(s) \/ WatchdogFires(s)
    PROVE  [Promise!Next]_(Promise!promised)
<1> USE DEF TypeOK, policy, outcome
<1>1. UNCHANGED <<policy, tool, handling, parked, life, deliveries, verdict>>
  BY DEF Answer, WatchdogFires
<1>2. ASSUME NEW t \in Sends  PROVE Fate(t)' = Fate(t)
  BY <1>1, FateKept DEF Usable
<1>3. \A t \in Sends \ {s} : Heard(t)' = Heard(t)
  BY <1>1 DEF Answer, WatchdogFires, Heard
<1>4. SendInv(s)
  BY DEF FlowInv
<1>5. ASSUME Answer(s)  PROVE Promise!Next
  <2>1. /\ Fate(s) = "delivered" /\ deliveries[s] > 0 /\ ask[s]
        /\ answers' = [answers EXCEPT ![s] = @ + 1] /\ timeouts' = timeouts
    BY <1>5, Standings DEF Answer
  <2>2. answers[s] = 0 /\ timeouts[s] = 0 /\ verdict[s] /= "rejected"
    BY <1>4, <2>1 DEF SendInv, OneVoice, OneRelease
  <2>3. answers'[s] = 1 /\ timeouts'[s] = timeouts[s] /\ verdict'[s] = verdict[s]
    BY <1>1, <2>1, <2>2
  <2>4. Heard(s)' = [Heard(s) EXCEPT !["answer"] = 1]
    BY <2>3 DEF Heard
  <2> QED BY <1>1, <1>2, <1>3, <2>1, <2>2, <2>4, Hears DEF Promise!Supports
<1>6. ASSUME WatchdogFires(s)  PROVE [Promise!Next]_(Promise!promised)
  <2>1. watchdog[s] = 0 /\ answers' = answers /\
        timeouts' = [timeouts EXCEPT ![s] = IF ask[s] THEN @ + 1 ELSE @]
    BY <1>6 DEF WatchdogFires
  <2>2. CASE ~ ask[s]
    <3>1. UNCHANGED Told
      BY <1>1, <2>1, <2>2 DEF Told
    <3> QED BY <1>1, <1>2, <3>1, Stutters
  <2>3. CASE ask[s]
    <3>1. answers[s] = 0 /\ timeouts[s] = 0
      BY <1>4, <2>3 DEF SendInv, OneVoice
    <3>2. ~ Usable(s) /\ handling[s] = "no" /\ tool[s] \notin {"idle", "sending"}
      BY <1>4, <2>1 DEF SendInv, TimerOutlastsToken, Untouched
    <3>3. verdict[s] /= "rejected"
      BY <1>4, <2>3, <3>2 DEF SendInv, OneVoice
    <3>4. Fate(s) \in {"delivered", "dead"}
      BY <3>2, <3>3 DEF Fate
    <3>5. timeouts'[s] = 1 /\ answers'[s] = answers[s] /\ verdict'[s] = verdict[s]
      BY <1>1, <2>1, <2>3, <3>1
    <3>6. Heard(s)' = [Heard(s) EXCEPT !["timeout"] = 1]
      BY <3>5 DEF Heard
    <3> QED BY <1>1, <1>2, <1>3, <3>1, <3>3, <3>4, <3>6, Hears DEF Promise!Supports
  <2> QED BY <2>2, <2>3
<1> QED BY <1>5, <1>6

\* A token that runs out is a lapse, of any number of messages at once.
LEMMA TickPromise ==
    ASSUME TypeOK, FlowInv, Tick
    PROVE  Promise!Next
<1>1. UNCHANGED policy /\ UNCHANGED Told /\ UNCHANGED <<deliveries, tool, handling, parked>>
  BY DEF Tick, Told, outcome
<1>2. ASSUME NEW t \in Sends
      PROVE  \/ Fate(t)' = Fate(t)
             \/ Fate(t) = "waiting" /\ Fate(t)' = "dead" /\ verdict[t] /= "rejected"
  <2>1. Usable(t)' => Usable(t)
    BY <1>1 DEF Tick, Usable, TypeOK
  <2>2. CASE Usable(t)' <=> Usable(t)
    BY <1>1, <2>2, FateKept DEF Told
  <2>3. CASE Usable(t) /\ ~ Usable(t)'
    <3>1. Fate(t) = "waiting" /\ verdict[t] = "none"
      BY <2>3, Standings
    <3>2. Fate(t)' = "dead"
      BY <1>1, <2>3, <3>1 DEF Fate, Told
    <3> QED BY <3>1, <3>2
  <2> QED BY <2>1, <2>2, <2>3
<1> QED BY <1>1, <1>2, Lapses

\* A restart loses every message that was neither delivered nor rejected.
LEMMA RestartPromise ==
    ASSUME TypeOK, FlowInv, Restart
    PROVE  Promise!Next
<1>1. UNCHANGED policy /\ UNCHANGED Told /\ UNCHANGED deliveries
  BY DEF Restart, Told, outcome
<1>2. ASSUME NEW t \in Sends
      PROVE  \/ Fate(t)' = Fate(t)
             \/ /\ Fate(t) \in {"waiting", "cleared", "rejected"} /\ Fate(t)' = "dead"
                /\ verdict[t] /= "rejected"
  <2>1. /\ tool'[t] = IF tool[t] = "idle" THEN "idle" ELSE "done"
        /\ handling'[t] = "no" /\ ~ Usable(t)'
    BY DEF Restart, Usable
  <2>2. deliveries'[t] = deliveries[t] /\ verdict'[t] = verdict[t]
    BY <1>1 DEF Told
  <2>3. Fate(t) \in {"new", "waiting", "cleared"} => verdict[t] = "none"
    BY Standings
  <2> QED BY <2>1, <2>2, <2>3 DEF Fate
<1> QED BY <1>1, <1>2, Lapses

\* A change of the policy moves no message.
LEMMA PolicyPromise ==
    ASSUME TypeOK, FlowInv, NEW s \in Sends, PolicyChanges(s)
    PROVE  Promise!Next
<1>1. UNCHANGED Told /\ UNCHANGED <<deliveries, tool, handling, parked, life>>
  BY DEF PolicyChanges, Told, outcome
<1>2. \A t \in Sends : Fate(t)' = Fate(t)
  BY <1>1, FateKept DEF Usable, Told
<1>3. Fated' = Fated /\ HeardAll' = HeardAll
  BY <1>1, <1>2, HeardKept DEF Fated
<1>4. ruling' \in [Sends -> {"allow", "deny", "ask"}] /\ entitled' \subseteq People
  BY DEF PolicyChanges, TypeOK
<1>5. Promise!PolicyChanges
  BY <1>1, <1>3, <1>4 DEF Promise!PolicyChanges, Fated, HeardAll
<1> QED BY <1>5 DEF Promise!Next

\* Each step of the flow is a step of Consent, or none.
LEMMA NextPromise ==
    ASSUME TypeOK, FlowInv, [Next]_vars
    PROVE  [Promise!Next]_(Promise!promised)
<1>1. CASE UNCHANGED vars
  <2>1. \A t \in Sends : Fate(t)' = Fate(t)
    BY <1>1 DEF vars, Fate, Usable
  <2> QED BY <1>1, <2>1, Stutters DEF vars, policy, outcome, Told
<1>2. CASE Tick
  BY <1>2, TickPromise
<1>3. CASE Restart
  BY <1>3, RestartPromise
<1>4. ASSUME NEW s \in Sends,
             ToolStep(s) \/ HandlerStep(s) \/ Press(s) \/ WatchdogFires(s) \/ PolicyChanges(s)
      PROVE  [Promise!Next]_(Promise!promised)
  BY <1>4, ToolPromise, HandlerPromise, PressPromise, EndingPromise, PolicyPromise DEF Press
<1> QED BY <1>1, <1>2, <1>3, <1>4 DEF Next

LEMMA InitPromise == Init => Promise!Init
<1> SUFFICES ASSUME Init  PROVE Promise!Init
  OBVIOUS
<1>1. ASSUME NEW s \in Sends
      PROVE  Fate(s) = "new" /\ Heard(s) = [o \in Promise!Outcomes |-> 0]
  BY DEF Init, Fate, Heard, Promise!Outcomes
<1> QED BY <1>1, FlowAssumption DEF Init, Promise!Init

\* The approval flow implements Consent: with tokens, prompts, two stores and
\* timers, any number of approvers and presses, lapses, failures, restarts and
\* changes of the policy, a message is delivered by consent or not at all, and
\* its requester hears one ending, which is true.
THEOREM ConsentHolds == Spec => DeliversByConsent
<1>1. TypeOK /\ FlowInv /\ [Next]_vars => [Promise!Next]_(Promise!promised)
  BY NextPromise
<1>2. Spec => Promise!Init /\ [][Promise!Next]_(Promise!promised)
  BY <1>1, InitPromise, FlowInductive, PTL DEF Spec
<1> QED BY <1>2 DEF DeliversByConsent, Promise!Spec
=============================================================================
