---------------------------- MODULE MCAgentSettles ----------------------------
(* Instances of AgentSettles for TLC. *)
EXTENDS AgentSettles, TLC

CONSTANT claude

Says(state, by) == [state |-> state, agent |-> by, rule |-> None]

\* An agent at work, at rest, at a dialog that covers its fingerprint; and a
\* bare shell.  The second manifests take the agent at rest for working.
MCClaimed == [r \in Rules |-> [s \in Screens |->
    CASE s = "busy" -> Says("working", claude)
      [] s = "rest" -> Says(IF r = 1 THEN "idle" ELSE "working", claude)
      [] OTHER      -> Says("unknown", None)]]

MCKept == [a \in Agents |-> [r \in Rules |-> [s \in Screens |->
    Says(IF s = "dialog" THEN "blocked" ELSE "idle", a)]]]
===============================================================================
