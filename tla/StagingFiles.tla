---------------------------- MODULE StagingFiles ----------------------------
(***************************************************************************)
(* What the resumable collectors of app/providers have in common: each has *)
(* a staging directory with a request file, partitions, evidence and, last,*)
(* a manifest.  Every file is written to a temporary name and renamed, so  *)
(* that it is there as a whole or not at all; a process that is killed     *)
(* leaves what it has renamed, and perhaps a temporary file.               *)
(***************************************************************************)
CONSTANTS
    Missing,        \* no such file
    Instants,       \* values of collected_at
    MaxKills        \* bound on the kills
=============================================================================
