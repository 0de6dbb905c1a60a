---------------------------- MODULE Announcement ----------------------------
(***************************************************************************)
(* What announcing a finished job to its webhook promises, whatever the    *)
(* network does (docs/http-api.md, WebhookDeliveryResult): the receiver    *)
(* acts on a job at most once, and only when the server began to announce  *)
(* it; the server settles every announcement once and for good, and calls  *)
(* it delivered only when the receiver has acted.  A receiver may still    *)
(* act on what the server has written off.                                 *)
(***************************************************************************)
EXTENDS Naturals

CONSTANT Jobs       \* finished jobs with a webhook_url

VARIABLES
    fate,       \* what the server says of the announcement of a job
    acted       \* how often the receiver acted on it

vars == <<fate, acted>>

Settled == {"delivered", "dead_letter", "logged"}

Init ==
    /\ fate = [j \in Jobs |-> "due"]
    /\ acted = [j \in Jobs |-> 0]

Begin(j) ==
    /\ fate[j] = "due"
    /\ fate' = [fate EXCEPT ![j] = "begun"]
    /\ UNCHANGED acted

\* The receiver acts, perhaps after the server gave up or stopped.
Act(j) ==
    /\ fate[j] # "due" /\ acted[j] = 0
    /\ acted' = [acted EXCEPT ![j] = 1]
    /\ UNCHANGED fate

Settle(j) ==
    /\ fate[j] = "begun"
    /\ \E f \in Settled :
         /\ f = "delivered" => acted[j] = 1
         /\ fate' = [fate EXCEPT ![j] = f]
    /\ UNCHANGED acted

Next == \E j \in Jobs : Begin(j) \/ Act(j) \/ Settle(j)

Spec == Init /\ [][Next]_vars

=============================================================================
