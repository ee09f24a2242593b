------------------------------- MODULE EraImport -------------------------------
(***************************************************************************)
(* reth import-era (src/cli/import_era.rs, src/cli/era.rs): the pre-merge  *)
(* blocks come in ERA1 files, which a background task downloads in order   *)
(* and sends down a channel while the import takes them off it one by one. *)
(* Headers and receipts go to static files, bodies and stage checkpoints   *)
(* to the database; the index from hashes to numbers is built at the end   *)
(* from what this process collected.                                       *)
(*                                                                         *)
(* The database and the downloader (reth) are external.  What is relied    *)
(* on: a commit writes the static files first and the database second;     *)
(* static files ahead of the database are unwound when it is opened; a     *)
(* header is appended only right after its parent.                         *)
(***************************************************************************)
EXTENDS Naturals, Sequences

CONSTANTS
  EraSize,      \* blocks in a file
  EraStep,      \* ERA_STEP
  LastBlock,    \* the last block there is a file for
  MaxHeights,   \* what max_height may be
  MaxQueue,     \* bound: files waiting in the channel
  MaxFaults     \* bound: crashes and errors

ASSUME EraImportAssumption ==
  /\ EraSize \in Nat \ {0}
  /\ EraStep \in Nat
  /\ LastBlock \in Nat
  /\ MaxHeights \subseteq Nat
  /\ MaxQueue \in Nat
  /\ MaxFaults \in Nat

VARIABLES
  max,      \* max_height
  db,       \* committed: the last block with a body, the blocks in the hash index
  static,   \* committed: the last block of Headers and of Receipts
  folder,   \* downloaded files
  job,      \* the process
  faults    \* how much has gone wrong so far

vars == <<max, db, static, folder, job, faults>>

\* file f holds the blocks First(f) .. Last(f)
First(f) == f * EraSize
Last(f) == LET full == First(f) + EraSize - 1 IN IF full > LastBlock THEN LastBlock ELSE full
LastFile == LastBlock \div EraSize

NoJob ==
  [pc |-> "idle", height |-> 0, next |-> 0, ended |-> FALSE, channel |-> <<>>,
   file |-> 0, collected |-> {}]

Running == job.pc \notin {"idle", "done"}

Init ==
  /\ max \in MaxHeights
  /\ db = [height |-> 0, indexed |-> {0}]
  /\ static = [headers |-> 0, receipts |-> 0]
  /\ folder = {}
  /\ job = NoJob
  /\ faults = 0

\* execute_inner: the database is opened, the download starts at the file of
\* the block after the highest header
Start ==
  /\ ~Running
  /\ static' = [headers |-> db.height, receipts |-> db.height]
  /\ job' = [NoJob EXCEPT !.pc = "receive", !.height = db.height,
                          !.next = (db.height + 1) \div EraSize]
  /\ UNCHANGED <<max, db, folder, faults>>
-----------------------------------------------------------------------------
(***************************************************************************)
(* The background task.                                                    *)
(***************************************************************************)
Sent(message, next, ended) ==
  [job EXCEPT !.channel = Append(@, message), !.next = next, !.ended = ended]

MaySend == Running /\ ~job.ended /\ Len(job.channel) < MaxQueue

Download ==
  /\ MaySend /\ job.next <= LastFile
  /\ folder' = folder \cup {job.next}
  /\ job' = Sent([type |-> "file", file |-> job.next], job.next + 1, FALSE)
  /\ UNCHANGED <<max, db, static, faults>>

\* tx.send(None)
DownloadEnds ==
  /\ MaySend /\ job.next > LastFile
  /\ job' = Sent([type |-> "end", file |-> 0], job.next, TRUE)
  /\ UNCHANGED <<max, db, static, folder, faults>>

DownloadFails ==
  /\ MaySend /\ faults < MaxFaults
  /\ faults' = faults + 1
  /\ job' = Sent([type |-> "error", file |-> 0], job.next, TRUE)
  /\ UNCHANGED <<max, db, static, folder>>
-----------------------------------------------------------------------------
(***************************************************************************)
(* import.                                                                 *)
(***************************************************************************)
Received(type) == job.pc = "receive" /\ job.channel # <<>> /\ Head(job.channel).type = type

ReceiveFile ==
  /\ Received("file")
  /\ job' = [job EXCEPT !.pc = "process", !.channel = Tail(@), !.file = Head(job.channel).file]
  /\ UNCHANGED <<max, db, static, folder, faults>>

\* slip: the loop goes on after None
ReceiveEndGoesOn ==
  /\ Received("end")
  /\ job' = [job EXCEPT !.channel = Tail(@)]
  /\ UNCHANGED <<max, db, static, folder, faults>>

ReceiveEnd ==
  /\ Received("end")
  /\ job' = [job EXCEPT !.pc = "index", !.channel = Tail(@)]
  /\ UNCHANGED <<max, db, static, folder, faults>>

\* meta?: the process ends, what it collected is gone
ReceiveError ==
  /\ Received("error")
  /\ job' = NoJob
  /\ UNCHANGED <<max, db, static, folder, faults>>

\* slip: the range leaves max_height out
TargetUnbounded(height) == height + EraStep

\* slip: an exclusive range
TargetExclusive(height) ==
  IF height + EraStep > max THEN max ELSE height + EraStep - 1

\* the end of the range, and whether this file is the last one to import
Target(height) == IF height + EraStep > max THEN max ELSE height + EraStep
Stops(height) == height + EraStep > max

\* process_iter: blocks up to last_header_number are skipped, the first one
\* past the target ends the loop
Taken(f) == {b \in First(f)..Last(f) : job.height < b /\ b <= Target(job.height)}

\* the iterator runs out, and the file is removed, unless the loop ended early
FolderAfter(f) == IF Last(f) <= Target(job.height) THEN folder \ {f} ELSE folder

\* slip: each file begins a collection of its own
CollectedFromFile(blocks) == blocks

Collected(blocks) == job.collected \cup blocks

\* append_header refuses a block that leaves a gap
Process ==
  LET blocks == Taken(job.file) IN
  /\ job.pc = "process"
  /\ blocks = {} \/ job.height + 1 \in blocks
  /\ job' = [job EXCEPT !.pc = "commit_static",
                        !.height = IF blocks = {} THEN @
                                   ELSE CHOOSE b \in blocks : \A c \in blocks : c <= b,
                        !.collected = Collected(blocks)]
  /\ folder' = FolderAfter(job.file)
  /\ UNCHANGED <<max, db, static, faults>>

\* provider.commit()
CommitStatic ==
  /\ job.pc = "commit_static"
  /\ static' = [headers |-> job.height, receipts |-> job.height]
  /\ job' = [job EXCEPT !.pc = "commit_db"]
  /\ UNCHANGED <<max, db, folder, faults>>

CommitDb ==
  /\ job.pc = "commit_db"
  /\ db' = [db EXCEPT !.height = job.height]
  /\ job' = [job EXCEPT !.pc = IF Stops(db.height) THEN "index" ELSE "receive"]
  /\ UNCHANGED <<max, static, folder, faults>>

\* build_index and its commit
BuildIndex ==
  /\ job.pc = "index"
  /\ db' = [db EXCEPT !.indexed = @ \cup job.collected]
  /\ job' = [NoJob EXCEPT !.pc = "done"]
  /\ UNCHANGED <<max, static, folder, faults>>

\* a crash, or an error at any step (a file that does not decode, a full disk)
Crash ==
  /\ Running
  /\ faults < MaxFaults
  /\ faults' = faults + 1
  /\ job' = NoJob
  /\ UNCHANGED <<max, db, static, folder>>

Downloader == Download \/ DownloadEnds

Importer ==
  \/ ReceiveFile \/ ReceiveEnd \/ ReceiveError
  \/ Process \/ CommitStatic \/ CommitDb \/ BuildIndex

Next == Start \/ Downloader \/ DownloadFails \/ Importer \/ Crash

\* both tasks of a process go on; the operator starts the import again until it
\* is done
Spec ==
  /\ Init /\ [][Next]_vars
  /\ WF_vars(Downloader) /\ WF_vars(Importer) /\ WF_vars(job.pc = "idle" /\ Start)
-----------------------------------------------------------------------------
Goal == IF max < LastBlock THEN max ELSE LastBlock

\* The type invariant: what each variable may hold; no height goes past
\* max_height, and the committed static files are never behind the database.
TypeOK ==
  /\ max \in MaxHeights
  /\ db \in [height : 0..Goal, indexed : SUBSET (0..Goal)]
  /\ static \in [headers : db.height..Goal, receipts : {static.headers}]
  /\ folder \subseteq 0..LastFile
  /\ job \in [pc : {"idle", "receive", "process", "commit_static", "commit_db", "index", "done"},
              height : 0..Goal, next : 0..(LastFile + 1), ended : BOOLEAN,
              channel : Seq([type : {"file", "end", "error"}, file : 0..LastFile]),
              file : 0..LastFile, collected : SUBSET (1..Goal)]
  /\ faults \in 0..MaxFaults

\* Wherever an earlier process stopped, the files that the next one receives
\* follow on from each other and from what is imported: process_iter never skips
\* over the last blocks of a file, so append_header never meets a gap.
FilesFollowOn ==
  job.pc = "process" =>
    /\ First(job.file) <= job.height + 1
    /\ \A i \in DOMAIN job.channel :
         job.channel[i].type = "file" => job.channel[i].file = job.file + i

\* An import that was never interrupted has every imported block in the hash
\* index (hash_collector outlives the files); what an interrupted one had
\* collected is lost with it, and build_index of the next does not know.
IndexedUnlessInterrupted ==
  job.pc = "done" /\ faults = 0 => db.indexed = 0..db.height

\* After finitely many interruptions the import is done, with every block up to
\* max_height or to the end of the files imported for good.
EventuallyImported == <>(job.pc = "done") /\ <>[](db.height = Goal)
=============================================================================
