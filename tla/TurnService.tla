----------------------------- MODULE TurnService -----------------------------
(* What the agent loop promises to the messages of one session: one turn    *)
(* at a time, which an ordinary message may be taken into but an automation *)
(* turn never; a command halts what it finds and is carried out when all of *)
(* that has ended, a /new while no turn runs; an automation turn that had   *)
(* its turn reports. There are no bus, tasks, locks, injection queues and   *)
(* deferred turns here (TurnRouter has them).                               *)

CONSTANTS Users, Autos, Stops, News

VARIABLES
    stands,   \* where each message stands
    told      \* what has been reported for each automation turn

served == <<stands, told>>

Msgs == Users \cup Autos \cup Stops \cup News

\* A turn is in progress, is a /new that halts others or resets, or is being stopped.
Turns == {"turn", "clearing", "resetting", "stopping"}
Standings == Turns \cup {"unsent", "queued", "ordering", "halted", "taken", "done", "stopped"}

Init ==
    /\ stands = [m \in Msgs |-> "unsent"]
    /\ told = [a \in Autos |-> "none"]

NoTurn == \A m \in Msgs : stands[m] \notin Turns
NoneHalted == \A m \in Msgs : stands[m] \notin {"halted", "stopping"}

Moves(m, from, to) == stands[m] = from /\ stands' = [stands EXCEPT ![m] = to]
Tells(m, what) == told' = IF m \in Autos THEN [told EXCEPT ![m] = what] ELSE told

Send(m) == Moves(m, "unsent", "queued") /\ Tells(m, "open")

Start(m) ==
    /\ m \notin Stops /\ NoTurn
    /\ Moves(m, "queued", "turn") /\ UNCHANGED told

Take(u) ==
    /\ u \in Users /\ \E m \in Msgs \ News : stands[m] = "turn"
    /\ Moves(u, "queued", "taken") /\ UNCHANGED told

End(m) ==
    /\ Moves(m, "turn", "done") \/ Moves(m, "resetting", "done")
    /\ \E how \in {"answered", "failed"} : Tells(m, how)

(* A turn that was stopped reports; what was halted before its turn does    *)
(* not.                                                                     *)
Fall(m) ==
    \/ Moves(m, "stopping", "stopped") /\ Tells(m, "failed")
    \/ Moves(m, "halted", "stopped") /\ UNCHANGED told

(* The turn that runs is stopped, some that are queued are halted.          *)
Halted(place) ==
    CASE place = "turn" -> {"stopping"}
      [] place = "queued" -> {"queued", "halted", "stopped"}
      [] OTHER -> {place}
Halts(c, place) ==
    /\ stands' \in [Msgs -> Standings] /\ stands'[c] = place
    /\ \A m \in Msgs \ {c} : stands'[m] \in Halted(stands[m])
    /\ UNCHANGED told

(* One command at a time is carried out beside the turns.                   *)
Order(c) ==
    /\ c \in Stops \cup News /\ stands[c] = "queued"
    /\ \A m \in Msgs : stands[m] # "ordering"
    /\ Halts(c, "ordering")

(* A /new that is a turn halts the others, then resets the session.         *)
Clear(c) == c \in News /\ stands[c] = "turn" /\ Halts(c, "clearing")
Reset(c) == NoneHalted /\ Moves(c, "clearing", "resetting") /\ UNCHANGED told

(* The command is carried out; /stop drops ordinary messages that are left. *)
Reply(c) ==
    /\ stands[c] = "ordering" /\ NoneHalted /\ (c \in News => NoTurn)
    /\ stands' \in [Msgs -> Standings] /\ stands'[c] = "done"
    /\ \A m \in Msgs \ {c} :
          \/ stands'[m] = stands[m]
          \/ c \in Stops /\ m \in Users /\ stands[m] = "queued" /\ stands'[m] = "stopped"
    /\ UNCHANGED told

Next ==
    \E m \in Msgs :
        \/ Send(m) \/ Start(m) \/ Take(m) \/ End(m) \/ Fall(m)
        \/ Order(m) \/ Clear(m) \/ Reset(m) \/ Reply(m)

Spec == Init /\ [][Next]_served
=============================================================================
