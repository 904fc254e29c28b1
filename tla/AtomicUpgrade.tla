--------------------------- MODULE AtomicUpgrade ---------------------------
(***************************************************************************)
(* What the host upgrade of the OverC agent promises (README 3-8 and       *)
(* 56-84 of overc-system-agent): upgrades and rollbacks are atomic.  Each  *)
(* command either changes nothing or moves, in one step, the release that  *)
(* the next normal boot runs; that boot runs the release complete and with *)
(* its own kernel; there is one change between two boots; a rollback goes  *)
(* back to the release that ran before.                                    *)
(***************************************************************************)
EXTENDS Naturals

CONSTANTS
  Releases,  \* what can be installed; 1 is the factory release
  KernelOf   \* the kernel of each release

VARIABLES
  running,   \* the system that is up: its release, kernel and completeness
  target,    \* the release the next normal boot will run
  pending,   \* target was moved since the last boot
  fallback   \* the release a rollback returns to, or 0

vars == <<running, target, pending, fallback>>

\* No normal system is up.
NoSystem == [rel |-> 0]

Complete(r) == [rel |-> r, kern |-> KernelOf[r], mixed |-> FALSE]

Init ==
  /\ running = Complete(1)
  /\ target = 1
  /\ pending = FALSE
  /\ fallback = 0

\* Both commands move the target once, away from the running release, which
\* becomes the one to come back to.
Move(r) ==
  /\ ~pending
  /\ target' = r
  /\ pending' = TRUE
  /\ fallback' = running.rel
  /\ UNCHANGED running

Deploy == /\ running # NoSystem
          /\ \E r \in Releases : r >= running.rel /\ Move(r)

Return == running # NoSystem /\ fallback # 0 /\ Move(fallback)

GoDown ==
  /\ running # NoSystem
  /\ running' = NoSystem
  /\ pending' = FALSE
  /\ UNCHANGED <<target, fallback>>

Boot ==
  /\ running = NoSystem
  /\ running' = Complete(target)
  /\ UNCHANGED <<target, pending, fallback>>

Next == Deploy \/ Return \/ GoDown \/ Boot

Spec == Init /\ [][Next]_vars
===========================================================================
