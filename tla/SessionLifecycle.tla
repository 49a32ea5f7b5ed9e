-------------------------- MODULE SessionLifecycle --------------------------
(***************************************************************************)
(* What the backend promises the UI about a session: the abstract form of  *)
(* SshSession, on which the tab's reconnect policy is built.               *)
(*                                                                         *)
(* A session is registered, tries to reach a shell, may get one, and ends  *)
(* once; how it may end depends on whether its shell was reached. The      *)
(* outcome is announced to the UI before the session leaves the registry.  *)
(***************************************************************************)
CONSTANT Sessions

VARIABLES
  stage,    \* how far each session is
  outcome   \* of a session that ended, until it is announced

vars == <<stage, outcome>>

Stages == {"absent", "setup", "ready", "ended", "announced", "gone"}
Outcome(reason, cause) == [reason |-> reason, cause |-> cause]
NoOutcome == Outcome("none", "none")

\* Nothing reached a shell: the path failed, or our own decision ended it.
SetupOutcomes == {Outcome("failed", c) : c \in {"none", "timeout", "network"}}

\* The shell was reached. A close by the operator is only told from a failure
\* once there is a shell to close.
ShellOutcomes ==
  {Outcome("local", "none"), Outcome("remote", "shell_exit"),
   Outcome("remote", "server_disconnect"),
   Outcome("transport", "timeout"), Outcome("transport", "network")}

To(s, p) == stage' = [stage EXCEPT ![s] = p]

Register(s) ==
  /\ stage[s] = "absent"
  /\ To(s, "setup")
  /\ UNCHANGED outcome

ReachShell(s) ==
  /\ stage[s] = "setup"
  /\ To(s, "ready")
  /\ UNCHANGED outcome

End(s) ==
  /\ \/ /\ stage[s] = "setup"
        /\ \E o \in SetupOutcomes : outcome' = [outcome EXCEPT ![s] = o]
     \/ /\ stage[s] = "ready"
        /\ \E o \in ShellOutcomes : outcome' = [outcome EXCEPT ![s] = o]
  /\ To(s, "ended")

Announce(s) ==
  /\ stage[s] = "ended"
  /\ To(s, "announced")
  /\ outcome' = [outcome EXCEPT ![s] = NoOutcome]

Unregister(s) ==
  /\ stage[s] = "announced"
  /\ To(s, "gone")
  /\ UNCHANGED outcome

Init ==
  /\ stage = [s \in Sessions |-> "absent"]
  /\ outcome = [s \in Sessions |-> NoOutcome]

Next ==
  \E s \in Sessions :
    \/ Register(s)
    \/ ReachShell(s)
    \/ End(s)
    \/ Announce(s)
    \/ Unregister(s)

Spec == Init /\ [][Next]_vars
=============================================================================
