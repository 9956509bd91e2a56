--------------------------- MODULE MCWin32RWLock ---------------------------
(* Small instances of Win32RWLock for TLC.                                 *)
EXTENDS Win32RWLock

CONSTANTS t1, t2, t3

ThreeThreads == {t1, t2, t3}

=============================================================================
