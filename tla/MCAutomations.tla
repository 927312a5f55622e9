---------------------------- MODULE MCAutomations ----------------------------
(***************************************************************************)
(* A small instance of Automations for TLC.                                *)
(***************************************************************************)
EXTENDS Automations, TLC

CONSTANTS s1, s2, s3, t1, t2, a1, a2

Body(type, subtype, given, automation) ==
    [type |-> type, subtype |-> subtype, given |-> given, automation |-> automation,
     configured |-> TRUE, missing |-> {}]

ManualTrigger == Body("TRIGGER", "TRIGGER_API_MANUAL", {}, a1)

\* A trigger and two steps that may both follow it; or one that may, one of
\* another automation, and a rule, which has no runner.
MailAndTag ==
    (s1 :> ManualTrigger)
    @@ (s2 :> Body("ACTION", "ACTION_SEND_EMAIL", {"emailId"}, a1))
    @@ (s3 :> Body("ACTION", "ACTION_ADD_TAG", {"tagId"}, a1))

UntagAndRule ==
    (s1 :> ManualTrigger)
    @@ (s2 :> Body("ACTION", "ACTION_REMOVE_TAG", {"tagId"}, a1))
    @@ (s3 :> Body("RULE", "RULE_WAIT_FOR_DURATION", {}, a2))

TwoChains == {MailAndTag, UntagAndRule}

OneAutomation == [t \in Triggers |-> a1]
OneContact    == [t \in Triggers |-> 1]
=============================================================================
