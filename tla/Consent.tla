------------------------------- MODULE Consent -------------------------------
(***************************************************************************)
(* What the approval flow promises about an outbound message: it reaches   *)
(* its target at most once, and only if the policy allowed it outright or  *)
(* somebody whom the rule still named pressed "approve" while it still     *)
(* asked; a message that was turned down, lapsed or was lost is never      *)
(* delivered later; and its requester hears one outcome, which is true.    *)
(* There are no tokens, timers, prompts or callback stages here            *)
(* (ApprovalFlow has them).                                                *)
(***************************************************************************)
EXTENDS Naturals

CONSTANTS Sends, People, Elsewhere, Target

VARIABLES
    ruling,      \* what the policy answers now for each message
    entitled,    \* whom the rule names now
    fate,        \* where each message stands
    deliveries,  \* how often it reached its target
    heard        \* what its requester has been told, and how often

promised == <<ruling, entitled, fate, deliveries, heard>>

Outcomes == {"approval", "answer", "timeout", "rejection"}
Endings == Outcomes \ {"approval"}
Fates == {"new", "waiting", "cleared", "delivered", "rejected", "dead"}

Init ==
    /\ ruling \in [Sends -> {"allow", "deny", "ask"}]
    /\ entitled \subseteq People
    /\ fate = [s \in Sends |-> "new"]
    /\ deliveries = [s \in Sends |-> 0]
    /\ heard = [s \in Sends |-> [o \in Outcomes |-> 0]]

Moves(s, from, to) ==
    /\ fate[s] = from
    /\ fate' = [fate EXCEPT ![s] = to]
    /\ UNCHANGED <<ruling, entitled, heard>>

\* The gate decides once, by the ruling of that moment.
Decide(s) ==
    /\ \/ ruling[s] = "allow" /\ Moves(s, "new", "cleared")
       \/ ruling[s] = "deny" /\ Moves(s, "new", "dead")
       \/ ruling[s] = "ask" /\ Moves(s, "new", "waiting")
    /\ UNCHANGED deliveries

\* One person's consent is enough: of a person the rule names at that moment,
\* from a place where no other rule denies the message.
Grant(s) ==
    /\ ruling[s] = "ask"
    /\ \E a \in entitled : a \notin Elsewhere \/ Target[s] = a
    /\ Moves(s, "waiting", "cleared")
    /\ UNCHANGED deliveries

Reject(s) ==
    /\ ruling[s] = "ask" /\ entitled /= {}
    /\ Moves(s, "waiting", "rejected")
    /\ UNCHANGED deliveries

Reach(s) ==
    /\ Moves(s, "cleared", "delivered")
    /\ deliveries' = [deliveries EXCEPT ![s] = @ + 1]

\* Nobody could be asked, the time is up, a publish failed, the gateway
\* restarted: the messages S will not be delivered.
Lapse(S) ==
    /\ \A s \in S : fate[s] \in {"waiting", "cleared", "rejected"} /\ heard[s]["rejection"] = 0
    /\ fate' = [s \in Sends |-> IF s \in S THEN "dead" ELSE fate[s]]
    /\ UNCHANGED <<ruling, entitled, deliveries, heard>>

\* What is said is true when it is said, and nothing is said after an ending.
Supports(f, o) ==
    CASE o = "approval" -> f = "delivered"
      [] o = "answer" -> f = "delivered"
      [] o = "timeout" -> f \in {"delivered", "dead"}
      [] o = "rejection" -> f = "rejected"

Hear(s, o) ==
    /\ Supports(fate[s], o)
    /\ heard[s][o] = 0 /\ \A e \in Endings : heard[s][e] = 0
    /\ heard' = [heard EXCEPT ![s][o] = 1]
    /\ UNCHANGED <<ruling, entitled, fate, deliveries>>

PolicyChanges ==
    /\ ruling' \in [Sends -> {"allow", "deny", "ask"}]
    /\ entitled' \subseteq People
    /\ UNCHANGED <<fate, deliveries, heard>>

Next ==
    \/ \E s \in Sends :
          \/ Decide(s) \/ Grant(s) \/ Reject(s) \/ Reach(s)
          \/ \E o \in Outcomes : Hear(s, o)
    \/ \E S \in SUBSET Sends : Lapse(S)
    \/ PolicyChanges

Spec == Init /\ [][Next]_promised
=============================================================================
