----------------------------- MODULE MCEventBus -----------------------------
(* EventBus with a few subscriptions to one event.                         *)
EXTENDS EventBus, TLC

CONSTANTS e, s1, s2, s3, t1, t2

OneEvent == (s1 :> e) @@ (s2 :> e) @@ (s3 :> e)

\* The default bus, called by one thread, whose callbacks do what they like; a
\* bus with a Mutex and two threads, whose callbacks leave it alone or do not.
MCUses == 
    {[excludes |-> FALSE, callers |-> {t1}, reenters |-> Operations],
     [excludes |-> TRUE, callers |-> {t1, t2}, reenters |-> {}],
     [excludes |-> TRUE, callers |-> {t1, t2}, reenters |-> {"unsubscribe"}]}
=============================================================================
