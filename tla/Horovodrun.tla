---------------------------- MODULE Horovodrun ----------------------------
(***************************************************************************)
(* What the parts of the launcher have in common: the size of the job      *)
(* (settings.num_proc in run/common/util/settings.py), which horovodrun    *)
(* takes from -np and horovod.spark.run from num_proc.                     *)
(***************************************************************************)
EXTENDS Naturals

CONSTANT NumProc    \* the number of ranks

ASSUME NumProcAssumption == NumProc \in Nat \ {0}

=============================================================================
