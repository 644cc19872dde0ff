---------------------------- MODULE LocalTriggers ----------------------------
(* Local triggers: messages that scripts hand to `nanobot trigger`, queued  *)
(* in files, and the gateway's runner that turns each of them into a turn   *)
(* of the chat its trigger is bound to.                                     *)
(* Sources: nanobot/triggers/local_store.py and local_runner.py.            *)
(*                                                                          *)
(* A file lock makes an operation of the store atomic to other processes,   *)
(* so it is one action; a kill or an error of the disk may cut it after any *)
(* of its writes. The runner's steps are what it runs between two awaits.   *)
(* A delivery is its file name, and the numbers are the order of the names. *)
EXTENDS Naturals, FiniteSets

CONSTANTS
    Triggers, Deliveries,
    TriggerOf,      \* the trigger each delivery is for
    Connected,      \* triggers whose channel the gateway runs
    MaxAttempts,    \* _MAX_DELIVERY_ATTEMPTS (10)
    BatchSize,      \* deliveries claimed at a time (20)
    Gone,           \* no such file
    MaxFaults       \* bound: kills, shutdowns and errors of the disk

ASSUME TriggersAssumption ==
    /\ Deliveries \subseteq Nat /\ IsFiniteSet(Deliveries)
    /\ TriggerOf \in [Deliveries -> Triggers]
    /\ MaxAttempts \in Nat \ {0} /\ BatchSize \in Nat \ {0}
    /\ Gone \notin Nat /\ MaxFaults \in Nat

VARIABLES
    trigger,    \* triggers.json: each trigger is "none", "on", "off" or "deleted"
    inbox,      \* per delivery, the attempts its file in inbox/ counts, or Gone
    processing, \* the same of processing/
    failed,     \* the same of failed/
    gateway,    \* what the runner is at
    held,       \* the claimed deliveries in its memory, with their attempts
    answer,     \* what the one who sent the delivery was told
    outcome,    \* history: how its handling ended
    begun,      \* history: the turns that were begun for it
    faults      \* kills, shutdowns and errors so far

files == <<inbox, processing, failed>>
history == <<outcome, begun>>
vars == <<trigger, files, gateway, held, answer, history, faults>>

Directory == [Deliveries -> 0..MaxAttempts \cup {Gone}]
Phases == {"down", "starting", "recovering", "idle", "turn", "stalled"}

Files(dir) == {d \in Deliveries : dir[d] # Gone}
Without(dir, S) == [d \in Deliveries |-> IF d \in S THEN Gone ELSE dir[d]]
Of(t) == {d \in Deliveries : TriggerOf[d] = t}

TypeOK ==
    /\ trigger \in [Triggers -> {"none", "on", "off", "deleted"}]
    /\ inbox \in Directory /\ processing \in Directory
    /\ failed \in Directory /\ held \in Directory
    /\ gateway \in Phases
    /\ answer \in [Deliveries -> {"none", "queued", "error"}]
    /\ outcome \in [Deliveries -> {"none", "ok", "error", "dropped"}]
    /\ begun \in [Deliveries -> Nat] /\ faults \in 0..MaxFaults

Init ==
    /\ trigger = [t \in Triggers |-> "none"]
    /\ inbox = [d \in Deliveries |-> Gone] /\ processing = inbox
    /\ failed = inbox /\ held = inbox
    /\ gateway = "down"
    /\ answer = [d \in Deliveries |-> "none"]
    /\ outcome = [d \in Deliveries |-> "none"]
    /\ begun = [d \in Deliveries |-> 0] /\ faults = 0

Fault == faults < MaxFaults /\ faults' = faults + 1

(* The runner awaits, so that other code of the gateway runs.              *)
Awaits ==
    \/ gateway \in {"starting", "turn", "stalled"}
    \/ (gateway = "idle" /\ Files(held) = {})

-----------------------------------------------------------------------------
(* The user's commands, which the gateway runs.                            *)

Create(t) ==
    /\ Awaits /\ trigger[t] = "none"
    /\ trigger' = [trigger EXCEPT ![t] = "on"]
    /\ UNCHANGED <<files, gateway, held, answer, history, faults>>

Enable(t, on) ==
    /\ Awaits /\ trigger[t] \in {"on", "off"} \ {on}
    /\ trigger' = [trigger EXCEPT ![t] = on]
    /\ UNCHANGED <<files, gateway, held, answer, history, faults>>

(* The files of the trigger go after the trigger itself; one that cannot   *)
(* be removed stays behind.                                                *)
Delete(t) ==
    /\ Awaits /\ trigger[t] \in {"on", "off"}
    /\ trigger' = [trigger EXCEPT ![t] = "deleted"]
    /\ inbox' = Without(inbox, Of(t))
    /\ processing' = Without(processing, Of(t))
    /\ failed' = Without(failed, Of(t))
    /\ UNCHANGED <<gateway, held, answer, history, faults>>

DeleteCut(t) ==
    /\ Awaits /\ trigger[t] \in {"on", "off"} /\ Fault
    /\ trigger' = [trigger EXCEPT ![t] = "deleted"]
    /\ \E left \in [1..3 -> SUBSET Of(t)] :
        /\ inbox' = Without(inbox, left[1])
        /\ processing' = Without(processing, left[2])
        /\ failed' = Without(failed, left[3])
    /\ UNCHANGED <<gateway, held, answer, history>>

-----------------------------------------------------------------------------
(* `nanobot trigger`, a process of its own.                                *)

MayEnqueue(d) ==
    /\ gateway # "recovering" /\ answer[d] = "none"
    /\ trigger[TriggerOf[d]] = "on"

Enqueue(d) ==
    /\ MayEnqueue(d)
    /\ inbox' = [inbox EXCEPT ![d] = 0]
    /\ answer' = [answer EXCEPT ![d] = "queued"]
    /\ UNCHANGED <<trigger, processing, failed, gateway, held, history, faults>>

(* The run record or triggers.json cannot be written: the file goes again, *)
(* unless the process is killed before.                                    *)
EnqueueCut(d) ==
    /\ MayEnqueue(d) /\ Fault
    /\ inbox' \in {inbox, [inbox EXCEPT ![d] = 0]}
    /\ answer' = [answer EXCEPT ![d] = "error"]
    /\ UNCHANGED <<trigger, processing, failed, gateway, held, history>>

-----------------------------------------------------------------------------
(* _retry_delivery_unlocked: one more attempt is counted, and the file is  *)
(* written where it goes before the one in processing/ is removed.         *)

(* Fault: an interrupted delivery goes back as it was.                     *)
CountedNot(a) == a

Counted(a) == a + 1

(* Fault: the limit is reached one attempt late.                           *)
RewrittenLate(d, a) ==
    \/ /\ a + 1 > MaxAttempts
       /\ failed' = [failed EXCEPT ![d] = a + 1]
       /\ UNCHANGED inbox
    \/ /\ a + 1 <= MaxAttempts
       /\ inbox' = [inbox EXCEPT ![d] = Counted(a)]
       /\ UNCHANGED failed

Rewritten(d, a) ==
    \/ /\ a + 1 >= MaxAttempts
       /\ failed' = [failed EXCEPT ![d] = a + 1]
       /\ UNCHANGED inbox
    \/ /\ a + 1 < MaxAttempts
       /\ inbox' = [inbox EXCEPT ![d] = Counted(a)]
       /\ UNCHANGED failed

Retried(d, a) ==
    /\ Rewritten(d, a)
    /\ processing' = [processing EXCEPT ![d] = Gone]

(* Fault: the file in processing/ goes first.                              *)
RetryCutLate(d, a) ==
    /\ processing' = [processing EXCEPT ![d] = Gone]
    /\ UNCHANGED <<inbox, failed>>

RetryCut(d, a) == Rewritten(d, a) /\ UNCHANGED processing

-----------------------------------------------------------------------------
(* The gateway's runner.                                                   *)

NothingHeld == [d \in Deliveries |-> Gone]
First(d, S) == d \in S /\ \A e \in S : d <= e

Start ==
    /\ gateway = "down" /\ gateway' = "starting"
    /\ UNCHANGED <<trigger, files, held, answer, history, faults>>

(* recover_processing_deliveries: file by file, under one lock.            *)
BeginRecovery ==
    /\ gateway = "starting" /\ gateway' = "recovering"
    /\ UNCHANGED <<trigger, files, held, answer, history, faults>>

Recover(d) ==
    /\ gateway = "recovering" /\ First(d, Files(processing))
    /\ Retried(d, processing[d])
    /\ UNCHANGED <<trigger, gateway, held, answer, history, faults>>

RecoverCut(d) ==
    /\ gateway = "recovering" /\ First(d, Files(processing)) /\ Fault
    /\ RetryCut(d, processing[d]) /\ gateway' = "down"
    /\ UNCHANGED <<trigger, held, answer, history>>

Recovered ==
    /\ gateway = "recovering" /\ Files(processing) = {}
    /\ gateway' = "idle"
    /\ UNCHANGED <<trigger, files, held, answer, history, faults>>

(* claim_deliveries: the first files of the inbox, as they are sorted.     *)
Prefix(b) ==
    /\ b \subseteq Files(inbox) /\ Cardinality(b) <= BatchSize
    /\ \A d \in b, e \in Files(inbox) \ b : d < e

Moved(b) ==
    /\ processing' = [d \in Deliveries |-> IF d \in b THEN inbox[d] ELSE processing[d]]
    /\ inbox' = Without(inbox, b)
    /\ UNCHANGED failed

Claim(b) ==
    /\ gateway = "idle" /\ Files(held) = {} /\ b # {}
    /\ Prefix(b) /\ (Cardinality(b) = BatchSize \/ b = Files(inbox))
    /\ Moved(b)
    /\ held' = [d \in Deliveries |-> IF d \in b THEN inbox[d] ELSE Gone]
    /\ UNCHANGED <<trigger, gateway, answer, history, faults>>

ClaimCut(b) ==
    /\ gateway = "idle" /\ Files(held) = {} /\ Prefix(b) /\ Fault
    /\ Moved(b) /\ gateway' = "down"
    /\ UNCHANGED <<trigger, held, answer, history>>

Deliverable(d) == trigger[TriggerOf[d]] = "on" /\ TriggerOf[d] \in Connected

(* Fault: the file stays in processing/.                                   *)
CompletedNot(d, how) ==
    /\ held' = [held EXCEPT ![d] = Gone]
    /\ UNCHANGED <<files, outcome>>

(* complete_delivery.                                                      *)
Completed(d, how) ==
    /\ processing' = [processing EXCEPT ![d] = Gone]
    /\ held' = [held EXCEPT ![d] = Gone]
    /\ outcome' = [outcome EXCEPT ![d] = how]
    /\ UNCHANGED <<inbox, failed>>

(* _TerminalDeliveryError.                                                 *)
Drop(d) ==
    /\ gateway = "idle" /\ First(d, Files(held)) /\ ~Deliverable(d)
    /\ Completed(d, "dropped")
    /\ UNCHANGED <<trigger, gateway, answer, begun, faults>>

Begin(d) ==
    /\ gateway = "idle" /\ First(d, Files(held)) /\ Deliverable(d)
    /\ gateway' = "turn" /\ begun' = [begun EXCEPT ![d] = @ + 1]
    /\ UNCHANGED <<trigger, files, held, answer, outcome, faults>>

(* The turn has ended, well or with an AutomationTurnError: neither is     *)
(* tried again.                                                            *)
End(d, how) ==
    /\ gateway = "turn" /\ First(d, Files(held))
    /\ Completed(d, how) /\ gateway' = "idle"
    /\ UNCHANGED <<trigger, answer, begun, faults>>

(* /stop or /new cancels the turn before it has the session lock: nobody   *)
(* tells the runner, which awaits the turn until the gateway goes down.    *)
Stall ==
    /\ gateway = "turn" /\ gateway' = "stalled"
    /\ UNCHANGED <<trigger, files, held, answer, history, faults>>

(* The store fails the runner, before the turn or after it.                *)
Fail(d) ==
    /\ gateway \in {"idle", "turn"} /\ First(d, Files(held)) /\ Fault
    /\ Retried(d, held[d]) /\ held' = [held EXCEPT ![d] = Gone]
    /\ gateway' = "idle"
    /\ UNCHANGED <<trigger, answer, history>>

(* The gateway is told to stop, and the wait for the turn is cancelled.    *)
Shutdown(d) ==
    /\ gateway \in {"turn", "stalled"} /\ First(d, Files(held)) /\ Fault
    /\ Retried(d, held[d]) /\ held' = NothingHeld
    /\ gateway' = "down"
    /\ UNCHANGED <<trigger, answer, history>>

(* Either of them is cut.                                                  *)
FailCut(d) ==
    /\ gateway \in {"idle", "turn", "stalled"} /\ First(d, Files(held)) /\ Fault
    /\ RetryCut(d, held[d]) /\ held' = NothingHeld
    /\ gateway' = "down"
    /\ UNCHANGED <<trigger, answer, history>>

(* A kill, or an error that ends the runner's task and so the gateway.     *)
Crash ==
    /\ gateway # "down" /\ Fault
    /\ gateway' = "down" /\ held' = NothingHeld
    /\ UNCHANGED <<trigger, files, answer, history>>

-----------------------------------------------------------------------------
Commands(t) == Create(t) \/ Enable(t, "on") \/ Enable(t, "off") \/ Delete(t) \/ DeleteCut(t)

Runner(d) ==
    \/ Recover(d) \/ RecoverCut(d) \/ Drop(d) \/ Begin(d)
    \/ End(d, "ok") \/ End(d, "error") \/ Fail(d) \/ Shutdown(d) \/ FailCut(d)

Next ==
    \/ \E t \in Triggers : Commands(t)
    \/ \E d \in Deliveries : Enqueue(d) \/ EnqueueCut(d) \/ Runner(d)
    \/ \E b \in SUBSET Deliveries : Claim(b) \/ ClaimCut(b)
    \/ Start \/ BeginRecovery \/ Recovered \/ Stall \/ Crash

Spec == Init /\ [][Next]_vars

(* A gateway that is down is started again, its runner goes on, and a turn *)
(* that nobody cancels comes to its end. Nobody restarts a stalled runner. *)
Fairness ==
    /\ WF_vars(Start) /\ WF_vars(BeginRecovery) /\ WF_vars(Recovered)
    /\ WF_vars(\E d \in Deliveries : Recover(d))
    /\ WF_vars(\E b \in SUBSET Deliveries : Claim(b))
    /\ WF_vars(\E d \in Deliveries : Drop(d) \/ Begin(d))
    /\ WF_vars(\E d \in Deliveries : End(d, "ok") \/ End(d, "error"))

FairSpec == Spec /\ Fairness

-----------------------------------------------------------------------------
(* A delivery whose sender was told "Queued" is in one of the directories  *)
(* until it has been handled, whatever is killed at whatever moment        *)
(* (unless its trigger has been deleted).                                  *)
NothingForgotten ==
    \A d \in Deliveries :
        (/\ answer[d] = "queued" /\ outcome[d] = "none"
         /\ trigger[TriggerOf[d]] # "deleted")
        => d \in Files(inbox) \cup Files(processing) \cup Files(failed)

(* The limit on attempts counts turns: however the gateway goes down in    *)
(* the middle, a delivery never gets more turns than it has attempts, and  *)
(* none gets a second turn without a fault.                                *)
TurnsBounded ==
    \A d \in Deliveries : begun[d] <= MaxAttempts /\ begun[d] <= 1 + faults

(* A delivery that was handled or dropped is never taken up again: no file *)
(* of it is left in inbox/ or processing/.                                 *)
SettledStaysSettled ==
    \A d \in Deliveries :
        outcome[d] # "none" => d \notin Files(inbox) \cup Files(processing)

(* A delivery whose sender was told "Queued" is handled, dropped or given  *)
(* up as failed in the end, unless its trigger is deleted before or the    *)
(* runner waits from some time on for a turn that was cancelled.           *)
EveryDeliveryEnds ==
    \A d \in Deliveries :
        answer[d] = "queued" ~>
            \/ outcome[d] # "none" \/ failed[d] # Gone
            \/ trigger[TriggerOf[d]] = "deleted"
            \/ [](gateway = "stalled")

-----------------------------------------------------------------------------
(* What the sender of a delivery may rely on, without files and copies.    *)

Off == {"down", "starting", "recovering"}
Running(d) == gateway \in {"turn", "stalled"} /\ First(d, Files(held))

(* The attempt that a fault cost a claimed delivery is counted when the    *)
(* gateway recovers; it is lost from the fault on.                         *)
Attempts(d) ==
    IF held[d] # Gone THEN held[d]
    ELSE IF inbox[d] # Gone THEN inbox[d]
    ELSE IF processing[d] # Gone THEN processing[d] + 1
    ELSE 0

Fate(d) ==
    IF answer[d] = "none" THEN "unsent"
    ELSE IF outcome[d] # "none" THEN outcome[d]
    ELSE IF Running(d) THEN "turn"
    ELSE IF trigger[TriggerOf[d]] = "deleted" THEN "withdrawn"
    ELSE IF failed[d] # Gone \/ Attempts(d) >= MaxAttempts THEN "failed"
    ELSE IF d \in Files(inbox) \cup Files(processing) \cup Files(held) THEN "queued"
    ELSE "refused"

Lost(d) == IF Fate(d) \in {"queued", "turn"} THEN Attempts(d) ELSE 0

Promise == INSTANCE TriggerQueue WITH
    told <- answer, turns <- begun,
    fate <- [d \in Deliveries |-> Fate(d)],
    lost <- [d \in Deliveries |-> Lost(d)]

(* Whatever copies of it a kill leaves in the directories, a delivery is   *)
(* in one place for its sender: queued until it has a turn, is dropped     *)
(* for a trigger that is off, or has lost its last attempt; a fault costs  *)
(* one batch at most, and each delivery of it exactly one attempt; and     *)
(* what is settled, given up or withdrawn gets no further turn.            *)
QueueKeepsFaith == Promise!Spec
=============================================================================
