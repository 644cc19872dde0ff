------------------------------- MODULE Fallback -------------------------------
(* What the delivery of a scheduled run's final messages promises: a       *)
(* message tries one route after the other, the route of its job first and *)
(* then its recipient's other ones in their order; it leaves a route only  *)
(* once that route has surely refused it, and of the messages of a run one *)
(* at most is sent on. There are no queues, tasks, slots, channels,        *)
(* contexts, locks or evictions here (CronDelivery has them).              *)
EXTENDS Naturals, Sequences

CONSTANTS Msgs, RunOf, Origin, Alternatives

VARIABLES
    stands,     \* where each message stands
    given,      \* the routes it has been given to
    reached     \* messages, each with a route it has arrived on, or may have

promised == <<stands, given, reached>>

Standings == {"unsent", "out", "held", "refused", "delivered", "unknown"}

Init ==
    /\ stands = [m \in Msgs |-> "unsent"]
    /\ given = [m \in Msgs |-> {}]
    /\ reached = {}

Routes == {Origin} \cup {Alternatives[i] : i \in DOMAIN Alternatives}

(* The routes that come after one: an alternative after the job's own, or  *)
(* after an earlier alternative.                                           *)
After(r) ==
    {Alternatives[j] : j \in {k \in DOMAIN Alternatives :
        r = Origin \/ \E i \in DOMAIN Alternatives : i < k /\ Alternatives[i] = r}}

(* The message is on the last of the routes that it has been given to.     *)
IsOn(m, r) == r \in given[m] /\ \A s \in given[m] : s = r \/ r \in After(s)

Becomes(m, s) == stands' = [stands EXCEPT ![m] = s]
Gives(m, r) == given' = [given EXCEPT ![m] = @ \cup {r}]

Send(m) ==
    /\ stands[m] = "unsent"
    /\ Becomes(m, "out") /\ Gives(m, Origin)
    /\ UNCHANGED reached

Deliver(m) ==
    /\ stands[m] = "out" /\ Becomes(m, "delivered")
    /\ \E r \in Routes : IsOn(m, r) /\ reached' = reached \cup {<<m, r>>}
    /\ UNCHANGED given

(* An attempt breaks, and may be repeated.                                 *)
Break(m) ==
    /\ stands[m] = "out" /\ (Becomes(m, "out") \/ Becomes(m, "unknown"))
    /\ \E r \in Routes : IsOn(m, r) /\ reached' = reached \cup {<<m, r>>}
    /\ UNCHANGED given

(* A route has refused a message only if the message cannot have arrived.  *)
Refuse(m) ==
    /\ stands[m] = "out" /\ \A r \in given[m] : <<m, r>> \notin reached
    /\ Becomes(m, "refused")
    /\ UNCHANGED <<given, reached>>

(* Sends are cut off or given up, some of which may have arrived.          *)
Interrupt(S) ==
    /\ stands' = [m \in Msgs |-> IF m \in S THEN "unknown" ELSE stands[m]]
    /\ \E T \in SUBSET {c \in S \X Routes : IsOn(c[1], c[2])} : reached' = reached \cup T
    /\ UNCHANGED given

(* No other message of its run has been sent on.                           *)
IsTheOne(m) == \A n \in Msgs : RunOf[n] = RunOf[m] /\ n # m => given[n] \subseteq {Origin}

(* The message goes on to a later route, where it may have to wait for an  *)
(* approver.                                                               *)
SendOn(m) ==
    /\ stands[m] = "refused" /\ IsTheOne(m)
    /\ Becomes(m, "out") \/ Becomes(m, "held")
    /\ \E r \in Routes : (\A s \in given[m] : r \in After(s)) /\ Gives(m, r)
    /\ UNCHANGED reached

Release(m) ==
    /\ stands[m] = "held" /\ Becomes(m, "out")
    /\ UNCHANGED <<given, reached>>

Next ==
    \/ \E m \in Msgs : Send(m) \/ Deliver(m) \/ Break(m) \/ Refuse(m) \/ SendOn(m) \/ Release(m)
    \/ \E S \in SUBSET {m \in Msgs : stands[m] = "out"} : Interrupt(S)

Spec == Init /\ [][Next]_promised
=============================================================================
