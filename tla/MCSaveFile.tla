----------------------------- MODULE MCSaveFile -----------------------------
(* SaveFile on small instances: two names, and the faults of each run. *)
EXTENDS SaveFile

CONSTANTS f, g

AnyBackup    == {"none", "bak", "undel"}
LateFaults   == {"rename", "copy", "unlink", "mkdir", "crash", "removed"}
\* Everything that goes wrong once the temporary file is written, and
\* everything but a failing unlink.
LateOrTidy   == {LateFaults, AllFaults \ {"unlink"}}
=============================================================================
