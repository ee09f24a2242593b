---------------------------- MODULE InitState_proofs ----------------------------
(***************************************************************************)
(* The imported flag, the database and the download, for any number of     *)
(* faults.  (That the node comes up again is a liveness property and stays *)
(* with TLC.)                                                              *)
(***************************************************************************)
EXTENDS InitState, TLAPS

(***************************************************************************)
(* The inductive invariant: where the process is in the import says what   *)
(* the database holds, and nothing but a process in the import, or one     *)
(* that stopped there, leaves the database half done.                      *)
(***************************************************************************)
\* the steps before the database is opened
Downloading ==
  {"leftovers", "check_state", "check_compressed", "download_compressed",
   "store_compressed", "verify_compressed", "decompress", "store_state",
   "check_size", "remove_compressed", "check_header", "download_header",
   "store_header", "verify_header", "open_db"}

\* the steps after the dump
Imported == {"check_root", "write_flag", "remove_state_dir"}

Progress(db, headers, flag) ==
  /\ pc \in Downloading => db = "none"
  /\ pc = "setup_header" => db = "genesis" /\ ~headers
  /\ pc = "clear_tables" => db = "genesis" /\ headers
  /\ pc = "dump" => db = "cleared"
  /\ pc = "end_of_dump" => db = "partial"
  /\ pc \in Imported => db = "imported"
  /\ db = "none" => ~headers /\ ~flag
  /\ db \in {"cleared", "partial", "imported"} => headers
  /\ flag => db = "imported"

\* without a fault no .part file outlives the step that stores it, and what is
\* unpacked was verified
NoLeftovers ==
  /\ faults = 0 => disk.parts = CurrentParts
  /\ pc = "decompress" => disk.compressed = "good"

Inv == TypeOK /\ Progress(disk.db, disk.headers, disk.flag) /\ NoLeftovers

\* Before anything happened.
LEMMA InitInv == Init => Inv
  BY InitStateAssumption
     DEF Init, Inv, TypeOK, Contents, CurrentParts, Progress, NoLeftovers, EmptyDisk,
         Downloading, Imported, Steps

(***************************************************************************)
(* The steps.                                                              *)
(***************************************************************************)
LEMMA LaunchInv ==
  ASSUME Inv, Launch \/ Stop \/ Delete
  PROVE  Inv'
<1> USE InitStateAssumption
    DEF Step, Inv, TypeOK, Contents, CurrentParts, Progress, NoLeftovers, Downloading,
        Imported, Steps
<1>1. CASE LaunchWithImport
  BY <1>1 DEF LaunchWithImport, Entry
<1>2. CASE Stop
  BY <1>2 DEF Stop
<1>3. CASE Delete
  BY <1>3 DEF Delete, EmptyDisk
<1>4. CASE LaunchWithoutImport
  BY <1>4 DEF LaunchWithoutImport
<1> QED BY <1>1, <1>2, <1>3, <1>4 DEF Launch

\* ensure_state, the state file: no step of it opens the database.
LEMMA StateFileInv ==
  ASSUME Inv, RemoveLeftovers \/ CheckState \/ CheckCompressed \/ DownloadCompressed \/ StoreCompressed \/ VerifyCompressed \/ Decompress \/ StoreState \/ CheckSize \/ RemoveCompressed
  PROVE  Inv'
<1> USE InitStateAssumption
    DEF Step, Fault, Inv, TypeOK, Contents, CurrentParts, Progress, NoLeftovers, Downloading,
        Imported, Steps
<1>1. CASE RemoveLeftovers
  <2>1. CASE Step("leftovers", "check_state", [disk EXCEPT !.parts = {}])
    BY <2>1
  <2>2. ASSUME NEW kept \in SUBSET disk.parts,
               Fault("leftovers", "check_state", [disk EXCEPT !.parts = kept])
        PROVE  Inv'
    <3>1. /\ pc = "leftovers" /\ pc' = "check_state"
          /\ faults < MaxFaults /\ faults' = faults + 1 /\ faults \in Nat
      BY <2>2
    <3>2. disk' \in [compressed : Contents, state : Contents, header : Contents,
                     parts : {kept}, db : {disk.db},
                     headers : {disk.headers}, flag : {disk.flag}]
      BY <2>2
    <3>3. faults' < 2 => kept = {}
      <4>1. faults = 0 => disk.parts = {} BY <3>1
      <4> QED BY <3>1, <4>1
    <3>4. kept \in SUBSET {"compressed", "state"} BY <2>2
    <3>5. faults' \in 0..MaxFaults /\ faults' # 0 BY <3>1
    <3> QED BY <3>1, <3>2, <3>3, <3>4, <3>5
  <2> QED BY <1>1, <2>1, <2>2, Zenon DEF RemoveLeftovers
<1>2. CASE CheckState
  BY <1>2 DEF CheckState
<1>3. CASE CheckCompressed
  BY <1>3 DEF CheckCompressed
<1>4. CASE DownloadCompressed
  BY <1>4 DEF DownloadCompressed
<1>5. CASE StoreCompressed
  <2>1. PICK content \in {"good", "bad"} :
           disk' = [disk EXCEPT !.compressed = content, !.parts = @ \ {"compressed"}]
    BY <1>5 DEF StoreCompressed
  <2>2. /\ pc = "store_compressed" /\ pc' = "verify_compressed"
        /\ faults \in Nat /\ faults' \in 0..MaxFaults /\ faults' \in {faults, faults + 1}
    BY <1>5 DEF StoreCompressed
  <2>3. disk' \in [compressed : Contents, state : Contents, header : Contents,
                   parts : {disk.parts \ {"compressed"}}, db : {disk.db},
                   headers : {disk.headers}, flag : {disk.flag}]
    BY <2>1, <2>2
  <2>4. faults' < 2 => disk.parts \ {"compressed"} = {}
    <3>1. faults < 2 => disk.parts = {"compressed"} BY <2>2
    <3> QED BY <2>2, <3>1
  <2>5. disk.parts \ {"compressed"} \in SUBSET {"compressed", "state"} OBVIOUS
  <2>6. faults' = 0 => faults' < 2 OBVIOUS
  <2> QED BY <2>2, <2>3, <2>4, <2>5, <2>6
<1>6. CASE VerifyCompressed
  BY <1>6 DEF VerifyCompressed
<1>7. CASE Decompress
  BY <1>7 DEF Decompress
<1>8. CASE StoreState
  <2>1. PICK content \in {"good", "bad"} :
           disk' = [disk EXCEPT !.state = content, !.parts = @ \ {"state"}]
    BY <1>8 DEF StoreState
  <2>2. /\ pc = "store_state" /\ pc' = "check_size"
        /\ faults \in Nat /\ faults' \in 0..MaxFaults /\ faults' \in {faults, faults + 1}
    BY <1>8 DEF StoreState
  <2>3. disk' \in [compressed : Contents, state : Contents, header : Contents,
                   parts : {disk.parts \ {"state"}}, db : {disk.db},
                   headers : {disk.headers}, flag : {disk.flag}]
    BY <2>1, <2>2
  <2>4. faults' < 2 => disk.parts \ {"state"} = {}
    <3>1. faults < 2 => disk.parts = {"state"} BY <2>2
    <3> QED BY <2>2, <3>1
  <2>5. disk.parts \ {"state"} \in SUBSET {"compressed", "state"} OBVIOUS
  <2>6. faults' = 0 => faults' < 2 OBVIOUS
  <2> QED BY <2>2, <2>3, <2>4, <2>5, <2>6
<1>9. CASE CheckSize
  BY <1>9 DEF CheckSize
<1>10. CASE RemoveCompressed
  BY <1>10 DEF RemoveCompressed
<1> QED BY <1>1, <1>2, <1>3, <1>4, <1>5, <1>6, <1>7, <1>8, <1>9, <1>10

\* ensure_state, the header file.
LEMMA HeaderFileInv ==
  ASSUME Inv, CheckHeader \/ DownloadHeader \/ StoreHeader \/ VerifyHeader
  PROVE  Inv'
<1> USE InitStateAssumption
    DEF Step, Fault, Inv, TypeOK, Contents, CurrentParts, Progress, NoLeftovers, Downloading,
        Imported, Steps
<1>1. CASE CheckHeader
  <2>1. CASE Step("check_header", "open_db", disk)
    BY <2>1
  <2>2. CASE Step("check_header", "download_header", [disk EXCEPT !.header = "absent"])
    BY <2>2
  <2>3. CASE Fault("check_header", "download_header", disk)
    <3>1. /\ pc = "check_header" /\ pc' = "download_header" /\ disk' = disk
          /\ faults \in Nat /\ faults' \in 0..MaxFaults /\ faults' = faults + 1
      BY <2>3
    <3>2. faults' # 0 /\ (faults' < 2 => disk.parts = {})
      BY <3>1
    <3> QED BY <3>1, <3>2
  <2> QED BY <1>1, <2>1, <2>2, <2>3, Zenon DEF CheckHeader
<1>2. CASE DownloadHeader
  BY <1>2 DEF DownloadHeader
<1>3. CASE StoreHeader
  BY <1>3 DEF StoreHeader
<1>4. CASE VerifyHeader
  <2>1. CASE Step("verify_header", "open_db", disk)
    BY <2>1
  <2>2. CASE Step("verify_header", "idle", [disk EXCEPT !.header = "absent"])
    BY <2>2
  <2>3. CASE Fault("verify_header", "idle", disk)
    <3>1. /\ pc = "verify_header" /\ pc' = "idle" /\ disk' = disk
          /\ faults \in Nat /\ faults' \in 0..MaxFaults /\ faults' = faults + 1
      BY <2>3
    <3>2. faults' # 0 /\ (faults' < 2 => disk.parts = {})
      BY <3>1
    <3> QED BY <3>1, <3>2
  <2> QED BY <1>4, <2>1, <2>2, <2>3, Zenon DEF VerifyHeader
<1> QED BY <1>1, <1>2, <1>3, <1>4

\* import_state: each step finds the database where the one before left it.
LEMMA ImportStateInv ==
  ASSUME Inv, OpenDb \/ SetupHeader \/ ClearTables \/ Dump \/ EndOfDump
  PROVE  Inv'
<1> USE InitStateAssumption
    DEF Step, Fault, Inv, TypeOK, Contents, CurrentParts, Progress, NoLeftovers, Downloading,
        Imported, Steps
<1>1. CASE OpenDb
  BY <1>1 DEF OpenDb
<1>2. CASE SetupHeader
  BY <1>2 DEF SetupHeader
<1>3. CASE ClearTables
  BY <1>3 DEF ClearTables
<1>4. CASE Dump
  BY <1>4 DEF Dump
<1>5. CASE EndOfDump
  BY <1>5 DEF EndOfDump
<1> QED BY <1>1, <1>2, <1>3, <1>4, <1>5

\* The end of the import: the flag comes after the dump.
LEMMA WriteFlagInv ==
  ASSUME Inv, CheckRoot \/ WriteFlag \/ RemoveStateDir
  PROVE  Inv'
<1> USE InitStateAssumption
    DEF Step, Fault, Inv, TypeOK, Contents, CurrentParts, Progress, NoLeftovers, Downloading,
        Imported, Steps
<1>1. CASE CheckRoot
  BY <1>1 DEF CheckRoot
<1>2. CASE WriteFlag
  BY <1>2 DEF WriteFlag
<1>3. CASE RemoveStateDir
  <2>1. CASE Step("remove_state_dir", "running", Without(StateDir))
    <3>1. pc = "remove_state_dir" /\ pc' = "running" /\ faults' = faults
      BY <2>1
    <3>2. disk' \in [compressed : {"absent"}, state : {"absent"}, header : {"absent"},
                     parts : {{}}, db : {disk.db},
                     headers : {disk.headers}, flag : {disk.flag}]
      <4>1. Without(StateDir) = [disk EXCEPT !.state = "absent", !.compressed = "absent",
                                             !.header = "absent", !.parts = {}]
        BY DEF Without, StateDir
      <4> QED BY <2>1, <4>1
    <3> QED BY <3>1, <3>2
  <2>2. ASSUME NEW kinds, Fault("remove_state_dir", "idle", Without(kinds))
        PROVE  Inv'
    <3>1. /\ pc = "remove_state_dir" /\ pc' = "idle"
          /\ faults' \in 0..MaxFaults /\ faults' # 0
      BY <2>2
    <3>2. disk' \in [compressed : Contents, state : Contents, header : Contents,
                     parts : {disk.parts, {}}, db : {disk.db},
                     headers : {disk.headers}, flag : {disk.flag}]
      <4>1. disk' = Without(kinds) BY <2>2
      <4>2. /\ (IF "state" \in kinds THEN "absent" ELSE disk.state) \in Contents
            /\ (IF "compressed" \in kinds THEN "absent" ELSE disk.compressed) \in Contents
            /\ (IF "header" \in kinds THEN "absent" ELSE disk.header) \in Contents
            /\ (IF "parts" \in kinds THEN {} ELSE disk.parts) \in {disk.parts, {}}
        OBVIOUS
      <4> QED BY <4>1, <4>2 DEF Without
    <3>3. disk.parts \in SUBSET {"compressed", "state"} OBVIOUS
    <3> QED BY <3>1, <3>2, <3>3
  <2> QED BY <1>3, <2>1, <2>2, Zenon DEF RemoveStateDir
<1> QED BY <1>1, <1>2, <1>3

\* A crash leaves the disk as it is.
LEMMA CrashInv ==
  ASSUME Inv, Crash
  PROVE  Inv'
<1> USE InitStateAssumption
    DEF Step, Fault, Inv, TypeOK, Contents, CurrentParts, Progress, NoLeftovers, Downloading,
        Imported, Steps
<1>1. CASE Crash
  BY <1>1 DEF Crash
<1> QED BY <1>1

LEMMA NextInv == Inv /\ [Next]_vars => Inv'
<1> SUFFICES ASSUME Inv, [Next]_vars PROVE Inv'
  OBVIOUS
<1>1. CASE UNCHANGED vars
  BY <1>1 DEF vars, Inv, TypeOK, CurrentParts, Progress, NoLeftovers
<1>2. CASE Next
  BY <1>2, LaunchInv, StateFileInv, HeaderFileInv, ImportStateInv, WriteFlagInv, CrashInv
     DEF Next, Import, StateFile, HeaderFile, Database
<1> QED BY <1>1, <1>2

\* Who starts the node: the entry of a directory with the flag, the end of the
\* import, or a launch without the option.
LEMMA NodeStartsWhole ==
  ASSUME Inv, Next, pc' = "running", Forgets = FALSE
  PROVE  NodeRunsOnWholeState'
<1> USE DEF Step, Fault, Inv, TypeOK, Progress, Downloading, Imported, Steps,
            NodeRunsOnWholeState
<1>1. CASE LaunchWithImport
  BY <1>1 DEF LaunchWithImport, Entry
<1>2. CASE LaunchWithoutImport
  <2>1. disk.db \in {"none", "genesis", "imported"}
    BY <1>2 DEF LaunchWithoutImport
  <2>2. CASE disk.db = "none"
    BY <1>2, <2>2 DEF LaunchWithoutImport
  <2>3. CASE disk.db = "genesis"
    BY <1>2, <2>3 DEF LaunchWithoutImport
  <2>4. CASE disk.db = "imported"
    BY <1>2, <2>4 DEF LaunchWithoutImport
  <2> QED BY <2>1, <2>2, <2>3, <2>4
<1>3. CASE RemoveStateDir
  <2>1. Step("remove_state_dir", "running", Without(StateDir))
    BY <1>3 DEF RemoveStateDir
  <2> QED BY <2>1 DEF Without
<1>4. ASSUME StateFile \/ HeaderFile \/ Database \/ CheckRoot \/ WriteFlag \/ Crash \/ Stop \/ Delete
      PROVE  FALSE
  BY <1>4
     DEF StateFile, HeaderFile, Database, CheckRoot, WriteFlag, Crash, Stop, Delete,
         RemoveLeftovers, CheckState, CheckCompressed, DownloadCompressed, StoreCompressed,
         VerifyCompressed, Decompress, StoreState, CheckSize, RemoveCompressed, CheckHeader,
         DownloadHeader, StoreHeader, VerifyHeader, OpenDb, SetupHeader, ClearTables, Dump,
         EndOfDump
<1> QED BY <1>1, <1>2, <1>3, <1>4, Zenon DEF Next, Import, Launch

LEMMA AlwaysInv == Spec => []Inv
<1> QED BY InitInv, NextInv, PTL DEF Spec

(***************************************************************************)
(* Theorems.                                                               *)
(***************************************************************************)
\* The types, and that no leftover is there when a file is stored, for any
\* number of faults.
THEOREM TypeCorrect == Spec => []TypeOK
<1>1. Inv => TypeOK BY DEF Inv
<1> QED BY AlwaysInv, <1>1, PTL

\* imported.flag never lies, for any number of crashes, errors and restarts,
\* with the option or without it.
THEOREM FlagNeverLies == Spec => []FlagMeansImported
<1>1. Inv => FlagMeansImported BY DEF Inv, Progress, FlagMeansImported
<1> QED BY AlwaysInv, <1>1, PTL

\* The node never runs on half a state, for any number of faults, as long as the
\* operator does not drop the option after a half-done import.
THEOREM NodeNeverRunsOnHalfAState ==
  ASSUME Forgets = FALSE
  PROVE  Spec => []NodeRunsOnWholeState
<1>1. Init => NodeRunsOnWholeState
  BY DEF Init, NodeRunsOnWholeState
<1>2. Inv /\ NodeRunsOnWholeState /\ [Next]_vars => NodeRunsOnWholeState'
  <2>1. CASE UNCHANGED vars
    BY <2>1 DEF vars, NodeRunsOnWholeState
  <2>2. CASE Next /\ pc' # "running"
    BY <2>2 DEF NodeRunsOnWholeState
  <2>3. CASE Inv /\ Next /\ pc' = "running"
    BY <2>3, NodeStartsWhole
  <2> QED BY <2>1, <2>2, <2>3
<1> QED BY <1>1, <1>2, AlwaysInv, PTL DEF Spec
(***************************************************************************)
(* The verified download.                                                  *)
(***************************************************************************)
\* the steps after the state has been unpacked and its size checked
Unpacked ==
  {"remove_compressed", "check_header", "download_header", "store_header",
   "verify_header", "open_db", "setup_header", "clear_tables", "dump",
   "end_of_dump", "check_root", "write_flag", "remove_state_dir"}

\* A download starts only where there is no good file, and what comes after the
\* unpacking finds the state there.
Kept ==
  /\ pc \in {"download_compressed", "store_compressed"} => disk.compressed # "good"
  /\ pc \in Unpacked => disk.state = "good"

LEMMA NextKept == Inv /\ Kept /\ [Next]_vars => Kept'
<1> SUFFICES ASSUME Inv, Kept, [Next]_vars PROVE Kept'
  OBVIOUS
<1> USE DEF Step, Fault, Inv, TypeOK, Contents, Kept, Unpacked, Steps
<1>1. CASE UNCHANGED vars
  BY <1>1 DEF vars
<1>2. CASE Launch
  BY <1>2 DEF Launch, LaunchWithImport, LaunchWithoutImport, Entry
<1>3. CASE StateFile
  <2>1. CASE RemoveLeftovers \/ CheckState \/ CheckCompressed \/ DownloadCompressed
    BY <2>1 DEF RemoveLeftovers, CheckState, CheckCompressed, DownloadCompressed
  <2>2. CASE StoreCompressed \/ StoreState
    BY <2>2 DEF StoreCompressed, StoreState
  <2>3. CASE VerifyCompressed \/ Decompress \/ CheckSize \/ RemoveCompressed
    BY <2>3 DEF VerifyCompressed, Decompress, CheckSize, RemoveCompressed
  <2> QED BY <1>3, <2>1, <2>2, <2>3 DEF StateFile
<1>4. CASE HeaderFile
  BY <1>4 DEF HeaderFile, CheckHeader, DownloadHeader, StoreHeader, VerifyHeader
<1>5. CASE Database
  BY <1>5 DEF Database, OpenDb, SetupHeader, ClearTables, Dump, EndOfDump
<1>6. CASE CheckRoot \/ WriteFlag \/ RemoveStateDir
  BY <1>6 DEF CheckRoot, WriteFlag, RemoveStateDir
<1>7. CASE Crash \/ Stop \/ Delete
  BY <1>7 DEF Crash, Stop, Delete
<1> QED BY <1>1, <1>2, <1>3, <1>4, <1>5, <1>6, <1>7, Zenon DEF Next, Import

\* What one step does to a good file: the steps that remove or replace it come
\* after the unpacking, or start where there is none.
LEMMA StepKeepsDownload ==
  ASSUME Inv, Kept, Next, disk.compressed = "good", disk'.compressed # "good"
  PROVE  disk.state = "good" \/ pc = "told"
<1> USE DEF Step, Fault, Inv, TypeOK, Contents, Kept, Unpacked, Steps
<1>1. CASE Launch
  BY <1>1 DEF Launch, LaunchWithImport, LaunchWithoutImport
<1>2. CASE StateFile
  <2>1. CASE RemoveLeftovers \/ CheckState \/ CheckCompressed \/ DownloadCompressed
    BY <2>1 DEF RemoveLeftovers, CheckState, CheckCompressed, DownloadCompressed
  <2>2. CASE StoreCompressed \/ StoreState
    BY <2>2 DEF StoreCompressed, StoreState
  <2>3. CASE VerifyCompressed \/ Decompress \/ CheckSize \/ RemoveCompressed
    BY <2>3 DEF VerifyCompressed, Decompress, CheckSize, RemoveCompressed
  <2> QED BY <1>2, <2>1, <2>2, <2>3 DEF StateFile
<1>3. CASE HeaderFile
  BY <1>3 DEF HeaderFile, CheckHeader, DownloadHeader, StoreHeader, VerifyHeader
<1>4. CASE Database
  BY <1>4 DEF Database, OpenDb, SetupHeader, ClearTables, Dump, EndOfDump
<1>5. CASE CheckRoot \/ WriteFlag \/ RemoveStateDir
  <2>1. pc \in Unpacked
    BY <1>5 DEF CheckRoot, WriteFlag, RemoveStateDir
  <2> QED BY <2>1
<1>6. CASE Crash \/ Stop \/ Delete
  BY <1>6 DEF Crash, Stop, Delete
<1> QED BY <1>1, <1>2, <1>3, <1>4, <1>5, <1>6, Zenon DEF Next, Import

\* A download that was verified is not lost to any number of crashes and errors
\* (verify_file_hash and file_has_size of download_init_state.rs): until the state
\* is unpacked from it, only the operator deletes it.
THEOREM DownloadIsKept == Spec => VerifiedDownloadIsKept
<1>1. Init => Kept
  BY DEF Init, Kept, EmptyDisk, Unpacked
<1>2. Inv /\ Kept /\ [Next]_vars =>
        [disk.compressed = "good" /\ disk'.compressed # "good" =>
           disk.state = "good" \/ pc = "told"]_vars
  <2> SUFFICES ASSUME Inv, Kept, Next, disk.compressed = "good", disk'.compressed # "good"
               PROVE  disk.state = "good" \/ pc = "told"
    OBVIOUS
  <2> QED BY StepKeepsDownload
<1> QED BY <1>1, <1>2, NextKept, AlwaysInv, PTL DEF Spec, VerifiedDownloadIsKept
=============================================================================
