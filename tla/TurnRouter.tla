----------------------------- MODULE TurnRouter -----------------------------
(***************************************************************************)
(* How the agent loop turns the messages of one session into turns         *)
(* (nanobot/agent/loop.py, agent/automation_turns.py).  One consumer takes *)
(* messages off the inbound bus.  It creates a task per turn, but a        *)
(* message for a session with a running turn is queued for injection into  *)
(* that turn, an automation turn is deferred to its end, and /stop and     *)
(* /new are executed by the consumer itself, which waits for them.  The    *)
(* tasks of the session take turns by its lock, as do jobs that are not    *)
(* turns of the bus: compaction, direct calls.                             *)
(*                                                                         *)
(* Sessions share nothing but the bus and the consumer, so one session is  *)
(* modelled.  A step of the model is what runs between two suspensions.    *)
(***************************************************************************)
EXTENDS Naturals, Sequences, SequencesExt

CONSTANTS
    Users,   \* ordinary messages of a user
    Autos,   \* automation turns: cron runs and local triggers
    Stops,   \* /stop commands
    News,    \* /new commands
    Others,  \* holders of the session lock that are no turns of the bus
    Cap      \* size of the injection queue

Msgs == Users \cup Autos \cup Stops \cup News
Nobody == "nobody"

ASSUME RouterAssumption ==
    /\ Cap \in Nat \ {0}
    /\ Users \cap (Autos \cup Stops \cup News) = {} /\ Autos \cap (Stops \cup News) = {}
    /\ Stops \cap News = {} /\ Others \cap Msgs = {} /\ Nobody \notin Msgs \cup Others

VARIABLES
    bus,      \* bus.inbound
    at,       \* where each message is
    command,  \* the command the consumer executes itself
    line,     \* the session lock: its holder, then those that wait for it
    queue,    \* _pending_queues: the turn whose injection queue is registered
    pending,  \* what is in that queue
    deferred, \* automation turns put off until the session is idle
    waiter,   \* per automation turn the future that submit awaits
    cut       \* history: a task was cancelled before it asked for the lock

vars == <<bus, at, command, line, queue, pending, deferred, waiter, cut>>

Places == {"unsent", "bus", "spawned", "waiting", "running", "cancelling", "resetting",
           "pending", "deferred", "leaving", "stopping", "inline", "locking",
           "done", "absorbed", "stopped"}

\* Turns that hold the lock, all tasks, those that _active_tasks lists and no cancellation has
\* reached, and those that a cancellation has reached.
Holding == {"running", "cancelling", "resetting", "stopping"}
Task == Holding \cup {"spawned", "waiting", "leaving"}
Active == {"spawned", "waiting", "running"}
Cancelled == {"leaving", "stopping"}

\* The holder of the session lock; whether follow-ups are queued for a turn.
Turn == IF line # <<>> THEN Head(line) ELSE Nobody
Open == queue # Nobody

-----------------------------------------------------------------------------
Init ==
    /\ bus = <<>> /\ at = [m \in Msgs |-> "unsent"]
    /\ command = Nobody /\ line = <<>> /\ queue = Nobody
    /\ pending = <<>> /\ deferred = <<>>
    /\ waiter = [a \in Autos |-> "none"] /\ cut = FALSE

\* Messages of a kind are alike until they are sent, so they are sent in one order.
Fresh(kind) == CHOOSE m \in kind : at[m] = "unsent"
Publish(m, kind) ==
    /\ at[m] = "unsent" /\ m = Fresh(kind)
    /\ bus' = Append(bus, m) /\ at' = [at EXCEPT ![m] = "bus"]
    /\ UNCHANGED <<command, line, queue, pending, deferred, cut>>

Send(m, kind) == m \in kind /\ Publish(m, kind) /\ UNCHANGED waiter

\* AutomationTurnCoordinator.submit: the caller waits for the future.
Submit(a) == Publish(a, Autos) /\ waiter' = [waiter EXCEPT ![a] = "open"]

-----------------------------------------------------------------------------
(* The consumer.                                                            *)

Takes(m) ==
    /\ command = Nobody /\ bus # <<>> /\ m = Head(bus)
    /\ bus' = Tail(bus)

\* A task is created; it has not asked for the lock yet.
Spawns(m) ==
    /\ at' = [at EXCEPT ![m] = "spawned"]
    /\ UNCHANGED <<command, line, queue, pending, deferred, waiter, cut>>

StartsTask(m) ==
    /\ Takes(m) /\ m \notin Stops
    /\ ~Open \/ (m \in Users /\ Len(pending) >= Cap)
    /\ Spawns(m)

\* A follow-up goes to the turn that runs; if its queue is full it gets a task after all.
Injects(m) ==
    /\ Takes(m) /\ m \in Users /\ Open /\ Len(pending) < Cap
    /\ pending' = Append(pending, m) /\ at' = [at EXCEPT ![m] = "pending"]
    /\ UNCHANGED <<command, line, queue, deferred, waiter, cut>>

Defers(m) ==
    /\ Takes(m) /\ m \in Autos /\ Open
    /\ deferred' = Append(deferred, m) /\ at' = [at EXCEPT ![m] = "deferred"]
    /\ UNCHANGED <<command, line, queue, pending, waiter, cut>>

\* _cancel_active_tasks: a task that has not asked for the lock ends there, without the cleanup
\* that follows, one that waits for the lock leaves the line, one that runs a turn stops it.
Reached(place) ==
    CASE place = "spawned" -> "stopped"
      [] place = "waiting" -> "leaving"
      [] place = "running" -> "stopping"
      [] OTHER -> place
Cancels(except) ==
    /\ at' = [m \in Msgs |-> IF m = except THEN "inline" ELSE Reached(at[m])]
    /\ cut' = (cut \/ \E m \in Msgs : at[m] = "spawned")

\* /stop is always executed by the consumer, /new when a turn runs.
TakesCommand(m) ==
    /\ Takes(m) /\ (m \in Stops \/ (m \in News /\ Open))
    /\ command' = m
    /\ Cancels(m)
    /\ UNCHANGED <<line, queue, pending, deferred, waiter>>

\* Fault: the tasks that were cancelled are not awaited.
AllEndedUnawaited == TRUE

\* The consumer awaits the tasks it cancelled.
AllEnded == \A m \in Msgs : at[m] \notin Cancelled

\* cmd_stop also discards an injection queue, if there still is one.
StopReplies ==
    /\ command \in Stops /\ AllEnded
    /\ queue' = Nobody /\ pending' = <<>> /\ command' = Nobody
    /\ at' = [m \in Msgs |-> IF m = command THEN "done"
                             ELSE IF m \in Range(pending) THEN "stopped" ELSE at[m]]
    /\ UNCHANGED <<bus, line, deferred, waiter, cut>>

\* The consumer waits for the session lock, then resets the session.
NewWaits ==
    /\ command \in News /\ at[command] = "inline" /\ AllEnded
    /\ line' = Append(line, command) /\ at' = [at EXCEPT ![command] = "locking"]
    /\ UNCHANGED <<bus, command, queue, pending, deferred, waiter, cut>>

NewResets ==
    /\ command \in News /\ at[command] = "locking" /\ Turn = command
    /\ line' = Tail(line) /\ command' = Nobody
    /\ at' = [at EXCEPT ![command] = "done"]
    /\ UNCHANGED <<bus, queue, pending, deferred, waiter, cut>>

-----------------------------------------------------------------------------
(* The tasks: _dispatch.                                                    *)

Begins(m) ==
    /\ at[m] = "spawned"
    /\ at' = [at EXCEPT ![m] = "waiting"] /\ line' = Append(line, m)
    /\ UNCHANGED <<bus, command, queue, pending, deferred, waiter, cut>>

\* Fault: the turn does not wait for the lock.
StartsUnlocked(m) ==
    /\ at[m] = "waiting"
    /\ at' = [at EXCEPT ![m] = "running"] /\ queue' = m
    /\ UNCHANGED <<bus, command, line, pending, deferred, waiter, cut>>

TurnStarts(m) ==
    /\ at[m] = "waiting" /\ Turn = m
    /\ at' = [at EXCEPT ![m] = "running"] /\ queue' = m
    /\ UNCHANGED <<bus, command, line, pending, deferred, waiter, cut>>

\* The runner takes follow-ups out of the queue between two of its rounds.
Absorbs(m) ==
    /\ at[m] = "running" /\ m \notin News /\ Turn = m /\ pending # <<>>
    /\ at' = [at EXCEPT ![Head(pending)] = "absorbed"] /\ pending' = Tail(pending)
    /\ UNCHANGED <<bus, command, line, queue, deferred, waiter, cut>>

\* A /new that came while no turn ran is a turn itself.  It cancels all other tasks, with them
\* drops itself from _active_tasks, and resets the session when they have ended.
NewCancels(m) ==
    /\ at[m] = "running" /\ m \in News /\ Turn = m
    /\ at' = [o \in Msgs |-> IF o = m THEN "cancelling" ELSE Reached(at[o])]
    /\ cut' = (cut \/ \E o \in Msgs : at[o] = "spawned")
    /\ UNCHANGED <<bus, command, line, queue, pending, deferred, waiter>>

NewGoesOn(m) ==
    /\ at[m] = "cancelling" /\ Turn = m /\ AllEnded
    /\ at' = [at EXCEPT ![m] = "resetting"]
    /\ UNCHANGED <<bus, command, line, queue, pending, deferred, waiter, cut>>

\* publish_next_deferred_turn.
FirstOf(q) == IF q = <<>> THEN <<>> ELSE <<Head(q)>>
RestOf(q) == IF q = <<>> THEN <<>> ELSE Tail(q)

\* Fault: what is left in the injection queue goes down with the turn.
LeftoversDropped == <<>>

\* What is left in the injection queue is published again.
Leftovers == pending

\* Where messages are when some are put back on the bus.
Republished == [m \in Msgs |-> IF m \in Range(bus') THEN "bus" ELSE at[m]]

\* Fault: a turn that ends in an error leaves its future open.
SettlesIfWell(m, how) ==
    waiter' = IF m \in Autos /\ how = "answered" THEN [waiter EXCEPT ![m] = how] ELSE waiter

\* coordinator.complete settles the future, with the response or the error.
Settles(m, how) == waiter' = IF m \in Autos THEN [waiter EXCEPT ![m] = how] ELSE waiter

\* Fault: only turns that end by themselves publish a deferred turn.
ReleasesIfDone(place) ==
    LET next == IF place = "done" THEN FirstOf(deferred) ELSE <<>> IN
    /\ deferred' = IF place = "done" THEN RestOf(deferred) ELSE deferred
    /\ bus' = bus \o Leftovers \o next /\ pending' = <<>>

\* The end of a turn: its queue goes back to the bus, then one deferred turn.
Releases(place) ==
    /\ deferred' = RestOf(deferred)
    /\ bus' = bus \o Leftovers \o FirstOf(deferred) /\ pending' = <<>>

EndsTurn(m, place) ==
    /\ Releases(place)
    /\ line' = Tail(line) /\ queue' = Nobody
    /\ at' = [Republished EXCEPT ![m] = place]
    /\ UNCHANGED <<command, cut>>

TurnEnds(m) ==
    /\ at[m] \in {"running", "resetting"} /\ Turn = m
    /\ EndsTurn(m, "done")
    /\ \E how \in {"answered", "failed"} : Settles(m, how)

StoppedTurnEnds(m) ==
    /\ at[m] = "stopping" /\ Turn = m
    /\ EndsTurn(m, "stopped")
    /\ Settles(m, "failed")

\* A task that is cancelled while it waits never had a queue of its own; it publishes a deferred
\* turn, but does not settle its own future.
WaiterEnds(m) ==
    /\ at[m] = "leaving"
    /\ \E i \in DOMAIN line : line[i] = m /\ line' = RemoveAt(line, i)
    /\ bus' = bus \o FirstOf(deferred) /\ deferred' = RestOf(deferred)
    /\ at' = [Republished EXCEPT ![m] = "stopped"]
    /\ UNCHANGED <<command, queue, pending, waiter, cut>>

OtherWaits(o) ==
    /\ o \notin Range(line)
    /\ line' = Append(line, o)
    /\ UNCHANGED <<bus, at, command, queue, pending, deferred, waiter, cut>>

OtherLeaves(o) ==
    /\ Turn = o
    /\ line' = Tail(line)
    /\ UNCHANGED <<bus, at, command, queue, pending, deferred, waiter, cut>>

-----------------------------------------------------------------------------
Arrives ==
    \/ \E m \in Msgs, kind \in {Users, Stops, News} : Send(m, kind)
    \/ \E a \in Autos : Submit(a)
Consumes ==
    \/ \E m \in Msgs : StartsTask(m) \/ Injects(m) \/ Defers(m) \/ TakesCommand(m)
    \/ StopReplies \/ NewWaits \/ NewResets
Works(m) ==
    \/ Begins(m) \/ TurnStarts(m) \/ NewCancels(m) \/ NewGoesOn(m)
    \/ TurnEnds(m) \/ StoppedTurnEnds(m) \/ WaiterEnds(m)

Next ==
    \/ Arrives \/ Consumes
    \/ \E m \in Msgs : Works(m) \/ Absorbs(m)
    \/ \E o \in Others : OtherWaits(o) \/ OtherLeaves(o)

Spec == Init /\ [][Next]_vars

\* asyncio runs what is ready, and every await of a turn, a compaction or a command ends.
FairSpec ==
    /\ Spec
    /\ WF_vars(Consumes)
    /\ \A m \in Msgs : WF_vars(Works(m))
    /\ \A o \in Others : WF_vars(OtherLeaves(o))

-----------------------------------------------------------------------------
\* Where a message stands for whoever sent it; Service is what the loop promises them.
Standing(place) ==
    CASE place \in {"bus", "spawned", "waiting", "pending", "deferred"} -> "queued"
      [] place \in {"inline", "locking"} -> "ordering"
      [] place = "running" -> "turn"
      [] place = "cancelling" -> "clearing"
      [] place = "leaving" -> "halted"
      [] place = "absorbed" -> "taken"
      [] OTHER -> place

Service == INSTANCE TurnService WITH stands <- [m \in Msgs |-> Standing(at[m])], told <- waiter

\* Every message is in one place, and the queues agree with where it is.
TypeOK ==
    /\ at \in [Msgs -> Places] /\ command \in Stops \cup News \cup {Nobody}
    /\ queue \in Msgs \cup {Nobody}
    /\ bus \in Seq(Msgs) /\ pending \in Seq(Users) /\ deferred \in Seq(Autos)
    /\ line \in Seq(Msgs \cup Others)
    /\ waiter \in [Autos -> {"none", "open", "answered", "failed"}] /\ cut \in BOOLEAN

\* Whenever automation turns are deferred somebody is there that will publish the next of them when
\* it ends; only a /stop or /new that reached a task before it asked for the lock can leave them alone.
DeferredAreReleased ==
    deferred # <<>> =>
        cut \/ \E m \in Msgs \ Stops : at[m] \in Task \cup {"bus"}

\* "Manage automation turns without mixing them into live injections".
AutomationsRunAlone == \A a \in Autos : at[a] \notin {"pending", "absorbed"}

\* "Cancel all active tasks" and "Reset only after the active turn has released its session lock":
\* when /stop or /new replies, no task that it cancelled is still busy, and /new has the lock.
CommandsComeAfter ==
    [][command # Nobody /\ command' = Nobody =>
          /\ \A m \in Msgs : at'[m] \notin Cancelled
          /\ command \in News => Turn = command]_vars

\* Consumer, tasks, lock and queues do what TurnService promises: turns come one at a time, none but
\* ordinary messages are taken into another's turn, a command is carried out when all it halted has
\* ended, and no message is served twice, however often it goes back to the bus.
ServesInTurn == Service!Spec

\* "processed as fresh inbound messages rather than silently lost": every message of a user gets a
\* turn, is taken into one, or is stopped by the user, also when queues are full and turns fail.
EveryMessageServed ==
    \A u \in Users : at[u] = "bus" ~> at[u] \in {"done", "absorbed", "stopped"}

\* An automation turn reports an outcome to whoever submitted it, unless it was cancelled before its
\* turn or a task was cancelled before it asked for the lock.
AutomationsReport ==
    \A a \in Autos : waiter[a] = "open" ~>
        waiter[a] \in {"answered", "failed"} \/ at[a] = "stopped" \/ cut

\* "Submit an automation turn and wait for its session response": whoever waits gets an answer.
AutomationsSettle == \A a \in Autos : waiter[a] = "open" ~> waiter[a] # "open"
=============================================================================
