---------------------------- MODULE MCLifecycle ----------------------------
(* Two programs that share the path of the management socket. *)
EXTENDS WFLifecycle

MCChoices == {{}, {"mgmt", "rc"}, {"blink", "mgmt", "pidfile"}}
=============================================================================
