---------------------------- MODULE MCSleepLock ----------------------------
(***************************************************************************)
(* SleepLock for TLC: proczero (pid 0), two more processes and the boot      *)
(* context of the CPU that runs fs_init.  Two processes are needed for a   *)
(* sleeper to meet a holder, three for two sleepers woken by one release;   *)
(* the boot context exercises the busy-wait.                               *)
(***************************************************************************)
EXTENDS SleepLock

CONSTANT boot

MCProcs == {0, 1, 2}
MCBoot == {boot}
=============================================================================
