--------------------------- MODULE MCApprovalFlow ---------------------------
(* Values for the runs of ApprovalFlow: an owner and a child who may both     *)
(* approve, one of them on a channel where a rule denies the message.         *)
EXTENDS ApprovalFlow

CONSTANTS owner, child, question, message

MCSends == {question, message}
MCPeople == {owner, child}
MCTarget == [s \in {question, message} |-> child]
MCTargetOne == [s \in {question} |-> child]
=============================================================================
