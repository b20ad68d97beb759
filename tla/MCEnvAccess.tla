----------------------------- MODULE MCEnvAccess -----------------------------
(* EnvOvertaking, and with it EnvAccess, for TLC: the display manager, two  *)
(* attacker missiles, a defender missile (which scans at low priority and    *)
(* moves at middle priority) and the defender launcher.                      *)
EXTENDS EnvOvertaking, TLC

CONSTANTS display, atk1, atk2, def1, launcher

MCTask == {display, atk1, atk2, def1, launcher}

\* HIGH_ENV_PRIO = 0, MIDDLE_ENV_PRIO = 1, LOW_ENV_PRIO = 2.
MCUses == display :> {0} @@ atk1 :> {1} @@ atk2 :> {1}
          @@ def1 :> {1, 2} @@ launcher :> {2}
=============================================================================
