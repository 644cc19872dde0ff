----------------------------- MODULE TriggerQueue -----------------------------
(* What the queue of local triggers promises the one who sends a delivery:  *)
(* it stays queued until it gets a turn, is dropped because its trigger or  *)
(* channel is off, or has lost all its attempts; it has one turn at a time, *)
(* and only a fault makes it lose one, at the moment of the fault. There    *)
(* are no directories, copies, claims or recoveries here (LocalTriggers has *)
(* them).                                                                   *)
EXTENDS Naturals, FiniteSets

CONSTANTS Triggers, Deliveries, TriggerOf, Connected, MaxAttempts, BatchSize

VARIABLES
    trigger,    \* each trigger is "none", "on", "off" or "deleted"
    told,       \* what the sender of each delivery was told
    fate,       \* where each delivery stands
    lost,       \* the attempts a delivery in the queue has lost
    turns,      \* the turns it got
    faults      \* kills, shutdowns and errors so far

promised == <<trigger, told, fate, lost, turns, faults>>

Init ==
    /\ trigger = [t \in Triggers |-> "none"]
    /\ told = [d \in Deliveries |-> "none"]
    /\ fate = [d \in Deliveries |-> "unsent"]
    /\ lost = [d \in Deliveries |-> 0]
    /\ turns = [d \in Deliveries |-> 0]
    /\ faults = 0

Deliverable(d) == trigger[TriggerOf[d]] = "on" /\ TriggerOf[d] \in Connected
InQueue == {d \in Deliveries : fate[d] \in {"queued", "turn"}}

Becomes(d, f) == fate' = [fate EXCEPT ![d] = f]
Settles(d, f) == Becomes(d, f) /\ lost' = [lost EXCEPT ![d] = 0]

Switch(t) ==
    /\ \/ trigger[t] = "none" /\ trigger' = [trigger EXCEPT ![t] = "on"]
       \/ trigger[t] = "on" /\ trigger' = [trigger EXCEPT ![t] = "off"]
       \/ trigger[t] = "off" /\ trigger' = [trigger EXCEPT ![t] = "on"]
    /\ UNCHANGED <<told, fate, lost, turns, faults>>

\* With the trigger goes what waits for it; a turn under way goes on.
Withdrawn(t) ==
    {d \in Deliveries : TriggerOf[d] = t /\ fate[d] \in {"queued", "failed", "refused"}}

Delete(t) ==
    /\ trigger[t] \in {"on", "off"}
    /\ trigger' = [trigger EXCEPT ![t] = "deleted"]
    /\ fate' = [d \in Deliveries |-> IF d \in Withdrawn(t) THEN "withdrawn" ELSE fate[d]]
    /\ lost' = [d \in Deliveries |-> IF d \in Withdrawn(t) THEN 0 ELSE lost[d]]
    /\ faults' \in {faults, faults + 1}
    /\ UNCHANGED <<told, turns>>

Sendable(d) == fate[d] = "unsent" /\ trigger[TriggerOf[d]] = "on"

Send(d) ==
    /\ Sendable(d)
    /\ Becomes(d, "queued")
    /\ told' = [told EXCEPT ![d] = "queued"]
    /\ UNCHANGED <<trigger, lost, turns, faults>>

\* A sender who was told of an error may find it queued after all.
SendFails(d) ==
    /\ Sendable(d)
    /\ Becomes(d, "queued") \/ Becomes(d, "refused")
    /\ told' = [told EXCEPT ![d] = "error"]
    /\ faults' = faults + 1
    /\ UNCHANGED <<trigger, lost, turns>>

Begin(d) ==
    /\ fate[d] = "queued" /\ Deliverable(d)
    /\ \A e \in Deliveries : fate[e] # "turn"
    /\ Becomes(d, "turn")
    /\ turns' = [turns EXCEPT ![d] = @ + 1]
    /\ UNCHANGED <<trigger, told, lost, faults>>

End(d) ==
    /\ fate[d] = "turn"
    /\ Settles(d, "ok") \/ Settles(d, "error")
    /\ UNCHANGED <<trigger, told, turns, faults>>

Drop(d) ==
    /\ fate[d] \in {"queued", "withdrawn"} /\ ~Deliverable(d)
    /\ Settles(d, "dropped")
    /\ UNCHANGED <<trigger, told, turns, faults>>

\* A fault costs every delivery of some batch one attempt.
Afterwards(d) ==
    IF trigger[TriggerOf[d]] = "deleted" THEN "withdrawn"
    ELSE IF lost[d] + 1 >= MaxAttempts THEN "failed"
    ELSE "queued"

Fault(S) ==
    /\ S \subseteq InQueue /\ Cardinality(S) <= BatchSize
    /\ fate' = [d \in Deliveries |-> IF d \in S THEN Afterwards(d) ELSE fate[d]]
    /\ lost' = [d \in Deliveries |->
                   IF d \notin S THEN lost[d]
                   ELSE IF Afterwards(d) = "queued" THEN lost[d] + 1 ELSE 0]
    /\ faults' = faults + 1
    /\ UNCHANGED <<trigger, told, turns>>

Next ==
    \/ \E t \in Triggers : Switch(t) \/ Delete(t)
    \/ \E d \in Deliveries : Send(d) \/ SendFails(d) \/ Begin(d) \/ End(d) \/ Drop(d)
    \/ \E S \in SUBSET Deliveries : Fault(S)

Spec == Init /\ [][Next]_promised
=============================================================================
