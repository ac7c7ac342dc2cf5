---------------------------- MODULE MCSpinLock ----------------------------
(* SpinLock, Mutex and MutexDummy among a few threads.                     *)
EXTENDS SpinLock
=============================================================================
