-------------------------- MODULE AttesterLifecycle --------------------------
(* The pure decisions about one attester: the server's state machine           *)
(* (server/state/transitions.ts) and the stateless derivation the agent uses   *)
(* instead (agent/lifecycle.ts).                                               *)
(*                                                                             *)
(* An on-chain view is abstracted to what the decisions tell apart: its status *)
(* (ZOMBIE and EXITING are never distinguished) and, for NONE, whether the     *)
(* effective balance is zero.  NoView is the `null` of a reverted or failed    *)
(* call to getAttesterView.                                                    *)
EXTENDS Naturals

States == {"NEW", "IN_STAKING_PROVIDER_QUEUE", "ROLLUP_ENTRY_QUEUE", "ACTIVE",
           "NO_LONGER_ACTIVE"}

NoState == "undefined"      \* no entry in attesterStates

Views == {"NoView", "NoneZero", "NoneStaked", "Validating", "Leaving"}

\* Where a view alone places an attester that has not been seen on the rollup.
Placing == {"NoneStaked", "NoneZero", "Validating"}

\* The mistake is to place every NONE in the entry queue, whatever its balance.
ViewStateOfStatus(view) == IF view = "Validating" THEN "ACTIVE" ELSE "ROLLUP_ENTRY_QUEUE"

ViewState(view) ==
    CASE view = "NoneStaked" -> "ROLLUP_ENTRY_QUEUE"
      [] view = "NoneZero"   -> "NO_LONGER_ACTIVE"
      [] view = "Validating" -> "ACTIVE"

\* The states a VALIDATING view turns into ACTIVE whatever the queue says; without
\* NO_LONGER_ACTIVE a server that was misled once would never recover.
BecomeActiveNoRecovery == {"ROLLUP_ENTRY_QUEUE"}
BecomeActive == {"ROLLUP_ENTRY_QUEUE", "NO_LONGER_ACTIVE"}

\* The views that end ACTIVE.  A mistake would be to take a failed read for an exit,
\* or to wait for ZOMBIE or EXITING, which a slow scraper may never see.
EndActiveOnNull == {"NoneZero", "NoneStaked", "Leaving", "NoView"}
EndActiveOnExitOnly == {"Leaving"}
EndActive == {"NoneZero", "NoneStaked", "Leaving"}

\* handleStateTransitions: the queue decides for NEW and IN_STAKING_PROVIDER_QUEUE,
\* the view alone for the later states; every other combination waits.
HandleStateTransitions(current, view, inQueue) ==
    CASE current = "NEW" /\ inQueue -> "IN_STAKING_PROVIDER_QUEUE"
      [] /\ current \in {"NEW", "IN_STAKING_PROVIDER_QUEUE"}
         /\ ~inQueue /\ view \in Placing -> ViewState(view)
      [] current \in BecomeActive /\ view = "Validating" -> "ACTIVE"
      [] current = "ROLLUP_ENTRY_QUEUE" /\ view \in {"NoneZero", "Leaving"} -> "NO_LONGER_ACTIVE"
      [] current = "ACTIVE" /\ view \in EndActive -> "NO_LONGER_ACTIVE"
      [] OTHER -> current

\* processAttesterState for an attester that has no state yet.
InitialState(view, inQueue) ==
    IF view \in Placing THEN ViewState(view)
    ELSE IF inQueue THEN "IN_STAKING_PROVIDER_QUEUE"
    ELSE "NEW"

ProcessAttesterState(current, view, inQueue) ==
    IF current = NoState
    THEN InitialState(view, inQueue)
    ELSE HandleStateTransitions(current, view, inQueue)

\* deriveLifecycleState of the agent, which keeps no state of its own.
DeriveLifecycleState(view, inQueue) ==
    CASE view = "Leaving" -> "NO_LONGER_ACTIVE"
      [] view \in {"Validating", "NoneStaked"} -> ViewState(view)
      [] view = "NoneZero" -> IF inQueue THEN "IN_STAKING_PROVIDER_QUEUE"
                              ELSE "NO_LONGER_ACTIVE"
      [] view = "NoView" -> IF inQueue THEN "IN_STAKING_PROVIDER_QUEUE" ELSE "NEW"
==============================================================================
