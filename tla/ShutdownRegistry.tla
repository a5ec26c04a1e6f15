-------------------------- MODULE ShutdownRegistry --------------------------
(***************************************************************************)
(* What liveHijackCount stands for (spec 9, "Process-global counters"):    *)
(* a registry of the hijacked connections still being answered, used only  *)
(* so that shutdown can observe quiescence.  A connection registers when   *)
(* its handler starts answering and leaves when it is done.  After the     *)
(* stop signal the process drains: it exits once the registry is empty,   *)
(* or once the shutdown deadline has passed.                               *)
(***************************************************************************)
CONSTANT Conns

VARIABLES
    live,           \* connections registered and not yet unregistered
    phase,          \* "serving" | "draining" | "exited"
    expired         \* the shutdown deadline has passed

vars == <<live, phase, expired>>

Init ==
    /\ live = {}
    /\ phase = "serving"
    /\ expired = FALSE

Register(c) ==
    /\ phase # "exited"
    /\ c \notin live
    /\ live' = live \cup {c}
    /\ UNCHANGED <<phase, expired>>

Unregister(c) ==
    /\ phase # "exited"
    /\ c \in live
    /\ live' = live \ {c}
    /\ UNCHANGED <<phase, expired>>

Drain ==
    /\ phase = "serving"
    /\ phase' = "draining"
    /\ UNCHANGED <<live, expired>>

Expire ==
    /\ phase = "draining"
    /\ ~expired
    /\ expired' = TRUE
    /\ UNCHANGED <<live, phase>>

Exit ==
    /\ phase = "draining"
    /\ live = {} \/ expired
    /\ phase' = "exited"
    /\ UNCHANGED <<live, expired>>

Next ==
    \/ \E c \in Conns : Register(c) \/ Unregister(c)
    \/ Drain \/ Expire \/ Exit

\* A registered connection is eventually answered, and a draining process
\* whose registry is empty eventually exits; neither the signal nor the
\* deadline is promised.
Spec ==
    /\ Init /\ [][Next]_vars
    /\ \A c \in Conns : WF_vars(Unregister(c))
    /\ WF_vars(Exit)
=============================================================================
