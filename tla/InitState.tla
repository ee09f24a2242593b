------------------------------- MODULE InitState -------------------------------
(***************************************************************************)
(* Download and import of the post-merge state snapshot                    *)
(* (src/initialize, started by --gnosis.import-post-merge-state of         *)
(* src/main.rs), with the crashes and failures it must survive: the disk   *)
(* outlives the process, which may stop between any two steps.             *)
(*                                                                         *)
(* The database (reth) is external.  What is relied on: opening it creates *)
(* db/ with the genesis state; a transaction commits as a whole; the state *)
(* dump goes in by batches, and a dump whose root is not the one of the    *)
(* header is refused after the last batch; static files ahead of the       *)
(* database are unwound when it is opened.                                 *)
(***************************************************************************)
EXTENDS Naturals, FiniteSets

CONSTANTS
  Forgets,      \* may the operator drop the option after a half-done import
  MaxFaults     \* bound: crashes, failed steps and corrupt downloads

ASSUME InitStateAssumption == Forgets \in BOOLEAN /\ MaxFaults \in Nat

VARIABLES
  disk,     \* what is in the data directory
  pc,       \* the next step of the process
  faults    \* how much has gone wrong so far

vars == <<disk, pc, faults>>

EmptyDisk ==
  [compressed |-> "absent", state |-> "absent", header |-> "absent",
   parts |-> {}, db |-> "none", headers |-> FALSE, flag |-> FALSE]

\* no process; the process told the operator to delete the directory; the node
\* is up; or the step of the import that is next
Steps == {"leftovers", "check_state", "check_compressed", "download_compressed",
          "store_compressed", "verify_compressed", "decompress", "store_state",
          "check_size", "remove_compressed", "check_header", "download_header",
          "store_header", "verify_header", "open_db", "setup_header", "clear_tables",
          "dump", "end_of_dump", "check_root", "write_flag", "remove_state_dir"}

Init ==
  /\ disk = EmptyDisk
  /\ pc = "idle"
  /\ faults = 0

Step(from, to, after) ==
  /\ pc = from
  /\ pc' = to
  /\ disk' = after
  /\ UNCHANGED faults

\* a step that goes wrong because of a fault
Fault(from, to, after) ==
  /\ pc = from
  /\ faults < MaxFaults
  /\ faults' = faults + 1
  /\ pc' = to
  /\ disk' = after
-----------------------------------------------------------------------------
(***************************************************************************)
(* main, up to the import.                                                 *)
(***************************************************************************)
\* slip: a database is taken for an imported one
EntryByDb == IF disk.db # "none" THEN "running" ELSE "leftovers"

\* download_and_import_init_state: a database with the flag is fine, one
\* without it is not touched
Entry ==
  IF disk.db = "none" THEN "leftovers"
  ELSE IF disk.flag THEN "running" ELSE "told"

LaunchWithImport == Step("idle", Entry, disk)

\* without the option nothing is checked; a new database starts from genesis
LaunchWithoutImport ==
  /\ Forgets \/ disk.db \in {"none", "genesis", "imported"}
  /\ Step("idle", "running",
          [disk EXCEPT !.db = IF @ = "none" THEN "genesis" ELSE @,
                       !.headers = @ /\ disk.db \in {"cleared", "partial", "imported"}])
-----------------------------------------------------------------------------
(***************************************************************************)
(* ensure_state.                                                           *)
(***************************************************************************)
\* slip: only the download's leftover is removed
RemoveDownloadLeftover ==
  Step("leftovers", "check_state", [disk EXCEPT !.parts = @ \ {"compressed"}])

\* here and below an error of remove_file is dropped (.ok()): the file stays
RemoveLeftovers ==
  \/ Step("leftovers", "check_state", [disk EXCEPT !.parts = {}])
  \/ \E kept \in SUBSET disk.parts :
       Fault("leftovers", "check_state", [disk EXCEPT !.parts = kept])

\* file_has_size: size only
CheckState ==
  Step("check_state",
       IF disk.state = "good" THEN "check_header" ELSE "check_compressed", disk)

\* slip: a file that is there is taken for a good one
CheckCompressedExists ==
  Step("check_compressed",
       IF disk.compressed # "absent" THEN "decompress" ELSE "download_compressed", disk)

CheckCompressed ==
  IF disk.compressed = "good"
  THEN Step("check_compressed", "decompress", disk)
  ELSE \/ Step("check_compressed", "download_compressed", [disk EXCEPT !.compressed = "absent"])
       \/ Fault("check_compressed", "download_compressed", disk)

\* download_file writes to a .part file and renames it
DownloadCompressed ==
  Step("download_compressed", "store_compressed",
       [disk EXCEPT !.parts = @ \cup {"compressed"}])

StoreCompressed ==
  LET stored(content) == [disk EXCEPT !.compressed = content, !.parts = @ \ {"compressed"}] IN
  \/ Step("store_compressed", "verify_compressed", stored("good"))
  \/ Fault("store_compressed", "verify_compressed", stored("bad"))

VerifyCompressed ==
  IF disk.compressed = "good"
  THEN Step("verify_compressed", "decompress", disk)
  ELSE \/ Step("verify_compressed", "idle", [disk EXCEPT !.compressed = "absent"])
       \/ Fault("verify_compressed", "idle", disk)

\* slip: the compressed file goes as soon as it is read
DecompressAndRemove ==
  Step("decompress", IF disk.compressed = "good" THEN "store_state" ELSE "idle",
       [disk EXCEPT !.parts = @ \cup {"state"}, !.compressed = "absent"])

\* the decoder reports a file that is not what was verified
Decompress ==
  Step("decompress", IF disk.compressed = "good" THEN "store_state" ELSE "idle",
       [disk EXCEPT !.parts = @ \cup {"state"}])

\* the writer is dropped unflushed, so its last error goes unseen: short
StoreState ==
  LET stored(content) == [disk EXCEPT !.state = content, !.parts = @ \ {"state"}] IN
  \/ Step("store_state", "check_size", stored("good"))
  \/ Fault("store_state", "check_size", stored("bad"))

CheckSize ==
  Step("check_size", IF disk.state = "good" THEN "remove_compressed" ELSE "idle", disk)

RemoveCompressed ==
  \/ Step("remove_compressed", "check_header", [disk EXCEPT !.compressed = "absent"])
  \/ Fault("remove_compressed", "check_header", disk)

CheckHeader ==
  IF disk.header = "good"
  THEN Step("check_header", "open_db", disk)
  ELSE \/ Step("check_header", "download_header", [disk EXCEPT !.header = "absent"])
       \/ Fault("check_header", "download_header", disk)

\* the header is written in place, so a crash leaves a piece of it
DownloadHeader ==
  Step("download_header", "store_header", [disk EXCEPT !.header = "bad"])

StoreHeader ==
  \/ Step("store_header", "verify_header", [disk EXCEPT !.header = "good"])
  \/ Fault("store_header", "verify_header", disk)

VerifyHeader ==
  IF disk.header = "good"
  THEN Step("verify_header", "open_db", disk)
  ELSE \/ Step("verify_header", "idle", [disk EXCEPT !.header = "absent"])
       \/ Fault("verify_header", "idle", disk)
-----------------------------------------------------------------------------
(***************************************************************************)
(* import_state.  The database is new, so last_block_number is 0.          *)
(***************************************************************************)
OpenDb == Step("open_db", "setup_header", [disk EXCEPT !.db = "genesis"])

\* setup_without_evm and the commit of the static files
SetupHeader == Step("setup_header", "clear_tables", [disk EXCEPT !.headers = TRUE])

\* slip: the flag is written when the import begins
ClearTablesAndFlag ==
  Step("clear_tables", "dump", [disk EXCEPT !.db = "cleared", !.flag = TRUE])

\* the tables of the genesis state are cleared and the transaction commits
ClearTables == Step("clear_tables", "dump", [disk EXCEPT !.db = "cleared"])

\* init_from_state_dump: the batches, then the check of the root
Dump == Step("dump", "end_of_dump", [disk EXCEPT !.db = "partial"])

EndOfDump == Step("end_of_dump", "check_root", [disk EXCEPT !.db = "imported"])

(***************************************************************************)
(* The rest of download_and_import_init_state.                             *)
(***************************************************************************)
\* a header that is not found is reported and otherwise ignored
CheckRoot == Step("check_root", "write_flag", disk)

WriteFlag == Step("write_flag", "remove_state_dir", [disk EXCEPT !.flag = TRUE])

StateDir == {"state", "compressed", "header", "parts"}

Without(kinds) ==
  [disk EXCEPT !.state      = IF "state" \in kinds THEN "absent" ELSE @,
               !.compressed = IF "compressed" \in kinds THEN "absent" ELSE @,
               !.header     = IF "header" \in kinds THEN "absent" ELSE @,
               !.parts      = IF "parts" \in kinds THEN {} ELSE @]

\* remove_dir_all fails with files left, and exits, or all of them go
RemoveStateDir ==
  \/ Step("remove_state_dir", "running", Without(StateDir))
  \/ \E kinds \in SUBSET StateDir : Fault("remove_state_dir", "idle", Without(kinds))
-----------------------------------------------------------------------------
\* an error or a crash; what was written stays
Crash == \E step \in Steps : Fault(step, "idle", disk)

Stop == Step("running", "idle", disk)

\* the operator does as told
Delete == Step("told", "idle", EmptyDisk)

\* ensure_state
StateFile ==
  \/ RemoveLeftovers \/ CheckState
  \/ CheckCompressed \/ DownloadCompressed \/ StoreCompressed \/ VerifyCompressed
  \/ Decompress \/ StoreState \/ CheckSize \/ RemoveCompressed

HeaderFile == CheckHeader \/ DownloadHeader \/ StoreHeader \/ VerifyHeader

\* import_state
Database == OpenDb \/ SetupHeader \/ ClearTables \/ Dump \/ EndOfDump

\* download_and_import_init_state, once the directory is found new
Import == StateFile \/ HeaderFile \/ Database \/ CheckRoot \/ WriteFlag \/ RemoveStateDir

Launch == LaunchWithImport \/ LaunchWithoutImport

Next == Launch \/ Import \/ Crash \/ Stop \/ Delete

\* the process goes on until it ends; the operator restarts what has ended
\* and deletes what he is told to delete
Spec ==
  /\ Init /\ [][Next]_vars
  /\ WF_vars(Import) /\ WF_vars(LaunchWithImport) /\ WF_vars(Delete)
-----------------------------------------------------------------------------
Contents == {"absent", "bad", "good"}

\* The .part files there may be while a step is next: after the leftovers of an
\* earlier process are gone, only the one being written
CurrentParts ==
  IF pc = "store_compressed" THEN {"compressed"}
  ELSE IF pc = "store_state" THEN {"state"} ELSE {}

\* The type invariant: what each variable may hold, and that no leftover of an
\* earlier process is there after ensure_state has begun, unless two things went
\* wrong: one that left it, and one that kept it from being removed.
TypeOK ==
  /\ disk \in [compressed : Contents, state : Contents, header : Contents,
               parts : SUBSET {"compressed", "state"},
               db : {"none", "genesis", "cleared", "partial", "imported"},
               headers : BOOLEAN, flag : BOOLEAN]
  /\ pc \in Steps \cup {"idle", "told", "running"}
  /\ faults \in 0..MaxFaults
  /\ pc \in Steps \ {"leftovers"} /\ faults < 2 => disk.parts = CurrentParts

\* imported.flag never lies: whatever crashed or failed, a directory with the
\* flag has the whole state and its header (src/main.rs:39 "once successful,
\* imported.flag is written").
FlagMeansImported == disk.flag => disk.db = "imported" /\ disk.headers

\* The node never runs on half a state: the database it is started on holds the
\* genesis state with no foreign header or the whole snapshot with its header,
\* as long as the operator does not drop the option on a half-done import.
NodeRunsOnWholeState ==
  pc = "running" =>
    \/ disk.db = "genesis" /\ ~disk.headers
    \/ disk.db = "imported" /\ disk.headers

\* A verified download is not lost to a crash or an error: until the state has
\* been unpacked from it, only the operator deletes it.
VerifiedDownloadIsKept ==
  [][disk.compressed = "good" /\ disk'.compressed # "good" =>
       disk.state = "good" \/ pc = "told"]_vars

\* After finitely many faults the node comes up, again and again: no leftover of
\* a crash, no corrupt file and no half-done import makes every later launch
\* fail, if the operator does what the node tells him.
EventuallyRuns == []<>(pc = "running")
=============================================================================
