------------------------ MODULE SnapshotPublication ------------------------
(***************************************************************************)
(* The directory of a market snapshot (app/storage/import_market.py,       *)
(* snapshot_io.py, duckdb_store.py): importers replace it and readers open *)
(* it, with nothing but the file system between them.                      *)
(*                                                                         *)
(* An importer writes the new snapshot into a directory of its own, moves  *)
(* the old one aside and moves the new one in: two renames, between which  *)
(* there is no snapshot.  Its error handler moves the old one back when    *)
(* nothing stands in its place, and otherwise removes it.                  *)
(*                                                                         *)
(* A reader opens a snapshot by reading its manifest and then every table, *)
(* and keeps it only if the tables hash to what the manifest says; later   *)
(* queries read whatever stands at the path when they run.                 *)
(*                                                                         *)
(* A directory is moved as a whole and never changed in place, so its      *)
(* content is one value, the snapshot it holds.  Directories of their own  *)
(* (random names) that a crash leaves behind are of no consequence, except *)
(* for a snapshot that had been moved aside: orphans keeps those.          *)
(* The removal of a directory is taken to succeed.                         *)
(***************************************************************************)
EXTENDS Naturals, Sequences

CONSTANTS
    Importers,      \* processes that import to the directory
    Readers,        \* processes that open it
    Versions,       \* snapshots, by content
    None,           \* no directory at the path
    Tables,         \* number of table files a snapshot has
    MaxImports,     \* bound on the imports begun
    MaxFaults       \* bound on the crashes and failed file operations

ASSUME SnapshotConstants ==
    /\ None \notin Versions
    /\ Tables \in Nat \ {0}
    /\ MaxImports \in Nat /\ MaxFaults \in Nat

VARIABLES
    dest,           \* the snapshot at the path
    importer,       \* per importer: the step it has done, what it brings, what it moved aside
    orphans,        \* snapshots left aside by an importer that is gone
    reader,         \* per reader: the manifest and the tables it has read
    imports,        \* imports begun so far
    faults          \* crashes and failed operations so far

publicationVars == <<dest, importer, orphans, reader, imports, faults>>

-----------------------------------------------------------------------------
(* Importers: write_snapshot_atomically *)

Resting == [pc |-> "idle", new |-> None, backup |-> None]

Goto(i, pc) == importer' = [importer EXCEPT ![i].pc = pc]

\* The tables are normalized and validated, and written with their manifest to
\* tmp, before the directory is touched.
BeginImport(i, v) ==
    /\ importer[i].pc = "idle"
    /\ imports < MaxImports
    /\ imports' = imports + 1
    /\ importer' = [importer EXCEPT ![i] = [Resting EXCEPT !.pc = "staged", !.new = v]]
    /\ UNCHANGED <<dest, orphans, reader, faults>>

\* if dest.exists()
LookAtDest(i) ==
    /\ importer[i].pc = "staged"
    /\ Goto(i, IF dest = None THEN "entering" ELSE "replacing")
    /\ UNCHANGED <<dest, orphans, reader, imports, faults>>

\* dest.rename(backup), which fails when another importer has moved dest.
MoveAside(i) ==
    /\ importer[i].pc = "replacing"
    /\ IF dest = None
       THEN Goto(i, "failing") /\ UNCHANGED dest
       ELSE /\ importer' = [importer EXCEPT ![i].pc = "entering", ![i].backup = dest]
            /\ dest' = None
    /\ UNCHANGED <<orphans, reader, imports, faults>>

\* tmp.rename(dest): a directory is never moved onto one that has files.
MoveIn(i) ==
    /\ importer[i].pc = "entering"
    /\ IF dest # None
       THEN Goto(i, "failing") /\ UNCHANGED dest
       ELSE Goto(i, "dropping") /\ dest' = importer[i].new
    /\ UNCHANGED <<orphans, reader, imports, faults>>

\* shutil.rmtree(backup)
DropBackup(i) ==
    /\ importer[i].pc = "dropping"
    /\ importer' = [importer EXCEPT ![i] = Resting]
    /\ UNCHANGED <<dest, orphans, reader, imports, faults>>

\* Two handlers that would be wrong: one that always clears the backup, and one
\* that leaves it where it is.
RescueDroppingBackup(i) ==
    /\ importer[i].pc = "failing"
    /\ importer' = [importer EXCEPT ![i] = Resting]
    /\ UNCHANGED <<dest, orphans, reader, imports, faults>>
RescueLeavingBackup(i) ==
    /\ importer[i].pc = "failing"
    /\ orphans' = orphans \cup ({importer[i].backup} \ {None})
    /\ importer' = [importer EXCEPT ![i] = Resting]
    /\ UNCHANGED <<dest, reader, imports, faults>>

\* The handler has removed tmp and looks at backup and dest: it will move the
\* backup back, or removes it.
Rescue(i) ==
    /\ importer[i].pc = "failing"
    /\ IF importer[i].backup # None /\ dest = None
       THEN Goto(i, "restoring")
       ELSE importer' = [importer EXCEPT ![i] = Resting]
    /\ UNCHANGED <<dest, orphans, reader, imports, faults>>

\* backup.rename(dest) in the handler: when dest has come back meanwhile it
\* fails, and the backup stays where it is.
Restore(i) ==
    /\ importer[i].pc = "restoring"
    /\ IF dest = None
       THEN dest' = importer[i].backup /\ UNCHANGED orphans
       ELSE orphans' = orphans \cup {importer[i].backup} /\ UNCHANGED dest
    /\ importer' = [importer EXCEPT ![i] = Resting]
    /\ UNCHANGED <<reader, imports, faults>>

\* The disk refuses a write or a rename.
OperationFails(i) ==
    /\ importer[i].pc \in {"staged", "replacing", "entering"}
    /\ faults < MaxFaults
    /\ faults' = faults + 1
    /\ Goto(i, "failing")
    /\ UNCHANGED <<dest, orphans, reader, imports>>

\* The process stops.  A backup that is being removed may be gone in part.
ImporterCrashes(i) ==
    /\ importer[i].pc \notin {"idle", "crashed"}
    /\ faults < MaxFaults
    /\ faults' = faults + 1
    /\ orphans' = IF importer[i].pc = "dropping" THEN orphans
                  ELSE orphans \cup ({importer[i].backup} \ {None})
    /\ importer' = [importer EXCEPT ![i] = [Resting EXCEPT !.pc = "crashed"]]
    /\ UNCHANGED <<dest, reader, imports>>

\* The operator runs the import again.
RunAgain(i) ==
    /\ importer[i].pc = "crashed"
    /\ importer' = [importer EXCEPT ![i] = Resting]
    /\ UNCHANGED <<dest, orphans, reader, imports, faults>>

ImportStep(i) ==
    \/ LookAtDest(i) \/ MoveAside(i) \/ MoveIn(i)
    \/ DropBackup(i) \/ Rescue(i) \/ Restore(i)

-----------------------------------------------------------------------------
(* Readers: load_verified_snapshot *)

Shut == [pc |-> "shut", manifest |-> None, tables |-> << >>]

\* manifest.json is missing when nothing is at the path: the load ends.
ReadManifest(r) ==
    /\ reader[r].pc = "shut"
    /\ reader' = [reader EXCEPT ![r] =
                    IF dest = None THEN Shut ELSE [Shut EXCEPT !.pc = "reading", !.manifest = dest]]

\* read_tables: one table after the other, each by its path.
ReadTable(r) ==
    /\ reader[r].pc = "reading"
    /\ Len(reader[r].tables) < Tables
    /\ reader' = [reader EXCEPT ![r] =
                    IF dest = None THEN Shut ELSE [reader[r] EXCEPT !.tables = Append(@, dest)]]

\* Every table must hash to what the manifest records.
ContentMatches(m, tables) == \A t \in 1..Len(tables) : tables[t] = m

VerifyContent(r) ==
    /\ reader[r].pc = "reading"
    /\ Len(reader[r].tables) = Tables
    /\ reader' = [reader EXCEPT ![r] =
                    IF ContentMatches(reader[r].manifest, reader[r].tables)
                    THEN [Shut EXCEPT !.pc = "open", !.manifest = reader[r].manifest] ELSE Shut]

OpenStep(r) == ReadManifest(r) \/ ReadTable(r) \/ VerifyContent(r)

-----------------------------------------------------------------------------

PublicationInit ==
    /\ dest \in Versions \cup {None}
    /\ importer = [i \in Importers |-> Resting]
    /\ orphans = {}
    /\ reader = [r \in Readers |-> Shut]
    /\ imports = 0
    /\ faults = 0

ImportNext ==
    \E i \in Importers :
        \/ \E v \in Versions : BeginImport(i, v)
        \/ ImportStep(i)
        \/ OperationFails(i)
        \/ ImporterCrashes(i)
        \/ RunAgain(i)

PublicationTypeOK ==
    /\ dest \in Versions \cup {None}
    /\ importer \in [Importers -> [pc : {"idle", "staged", "replacing", "entering",
                                         "dropping", "failing", "restoring", "crashed"},
                                   new : Versions \cup {None},
                                   backup : Versions \cup {None}]]
    /\ orphans \subseteq Versions
    /\ imports \in 0..MaxImports
    /\ faults \in 0..MaxFaults
=============================================================================
