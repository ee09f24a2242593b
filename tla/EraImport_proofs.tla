--------------------------- MODULE EraImport_proofs ---------------------------
(***************************************************************************)
(* The import of ERA files, for any number and size of files, any bound on *)
(* the heights and any number of crashes and errors.  (That the import is  *)
(* done in the end is a liveness property and stays with TLC.)             *)
(***************************************************************************)
EXTENDS EraImport, Integers, TLAPS

(***************************************************************************)
(* The inductive invariant.                                                *)
(***************************************************************************)
\* what the process has imported against what it has committed
Heights ==
  /\ job.pc \in {"receive", "process", "index"} => job.height = db.height
  /\ job.pc = "commit_static" => db.height <= job.height
  /\ job.pc = "commit_db" => job.height = static.headers

\* the files in the channel are f, f + 1 and so on, and the next download goes on
ChannelFrom(j, f) ==
  /\ \A i \in 1..Len(j.channel) :
       IF j.channel[i].type = "file"
       THEN j.channel[i].file = f + i - 1
       ELSE i = Len(j.channel) /\ j.ended
  /\ ~j.ended => j.next = f + Len(j.channel)

\* file f, if there is such a file, leaves no gap after height
FollowsOn(f, height) == f <= LastFile => First(f) <= height + 1

Order ==
  /\ job.pc = "receive" => \E f \in Nat : ChannelFrom(job, f) /\ FollowsOn(f, job.height)
  /\ job.pc \in {"process", "commit_static", "commit_db"} => ChannelFrom(job, job.file + 1)
  /\ job.pc = "process" => FollowsOn(job.file, job.height)
  /\ job.pc \in {"commit_static", "commit_db"} =>
       Stops(db.height) \/ FollowsOn(job.file + 1, job.height)

\* what is indexed, and what will be, if nothing went wrong
Index ==
  /\ ~Running => job.collected = {}
  /\ faults = 0 =>
       /\ \A i \in 1..Len(job.channel) : job.channel[i].type # "error"
       /\ db.indexed \cup job.collected = 0..IF Running THEN job.height ELSE db.height

(***************************************************************************)
(* Numbers of files.                                                       *)
(***************************************************************************)
LEMMA Division ==
  ASSUME NEW a \in Nat, NEW b \in Nat \ {0}
  PROVE  /\ a \div b \in Nat
         /\ (a \div b) * b <= a
         /\ a < (a \div b) * b + b
OBVIOUS

LEMMA Times ==
  ASSUME NEW a \in Nat, NEW b \in Nat, a <= b, NEW c \in Nat
  PROVE  a * c <= b * c /\ a * c \in Nat
<1>1. b - a \in Nat /\ b = a + (b - a) OBVIOUS
<1>2. b * c = a * c + (b - a) * c BY <1>1
<1>3. (b - a) * c \in Nat /\ a * c \in Nat BY <1>1
<1> QED BY <1>2, <1>3

\* The files cut the blocks up to the last into pieces of EraSize, the last of
\* which may be shorter.
LEMMA Files ==
  /\ LastFile \in Nat
  /\ \A f \in Nat :
       /\ First(f) \in Nat
       /\ First(f + 1) = First(f) + EraSize
       /\ Last(f) = IF First(f) + EraSize - 1 > LastBlock THEN LastBlock
                    ELSE First(f) + EraSize - 1
       /\ f < LastFile => Last(f) = First(f) + EraSize - 1
<1>1. EraSize \in Nat \ {0} /\ LastBlock \in Nat
  BY EraImportAssumption
<1>2. LastFile \in Nat /\ LastFile * EraSize <= LastBlock
  BY <1>1, Division DEF LastFile
<1>3. ASSUME NEW f \in Nat
      PROVE  First(f) \in Nat /\ First(f + 1) = First(f) + EraSize
  BY <1>1 DEF First
<1>4. ASSUME NEW f \in Nat, f < LastFile
      PROVE  First(f) + EraSize - 1 <= LastBlock
  <2>1. f + 1 \in Nat /\ f + 1 <= LastFile BY <1>2, <1>4
  <2>2. (f + 1) * EraSize <= LastFile * EraSize BY <1>1, <1>2, <2>1, Times
  <2>3. First(f + 1) <= LastBlock
    <3>1. (f + 1) * EraSize \in Nat /\ LastFile * EraSize \in Nat BY <1>1, <1>2, <2>1, Times
    <3> QED BY <1>1, <1>2, <2>2, <3>1 DEF First
  <2> QED BY <1>1, <1>3, <2>3
<1> QED BY <1>1, <1>2, <1>3, <1>4 DEF Last

\* The download begins with the file of the block after the last imported one.
LEMMA StartFile ==
  ASSUME NEW h \in 0..Goal, MaxHeights \subseteq Nat, max \in MaxHeights
  PROVE  /\ h \in Nat
         /\ (h + 1) \div EraSize \in 0..(LastFile + 1)
         /\ First((h + 1) \div EraSize) <= h + 1
<1>1. EraSize \in Nat \ {0} /\ LastBlock \in Nat /\ max \in Nat
  BY EraImportAssumption
<1>2. h \in Nat /\ h <= LastBlock BY <1>1 DEF Goal
<1>3. PICK f : f = (h + 1) \div EraSize OBVIOUS
<1>4. f \in Nat /\ f * EraSize <= h + 1 BY <1>1, <1>2, <1>3, Division
<1>5. LastFile \in Nat /\ LastBlock < LastFile * EraSize + EraSize
  BY <1>1, Division DEF LastFile
<1>6. f <= LastFile + 1
  <2> SUFFICES ASSUME LastFile + 2 <= f PROVE FALSE
    BY <1>4, <1>5
  <2>1. (LastFile + 2) * EraSize <= f * EraSize BY <1>1, <1>4, <1>5, Times
  <2>2. (LastFile + 2) * EraSize = LastFile * EraSize + EraSize + EraSize BY <1>1, <1>5
  <2>3. LastFile * EraSize \in Nat /\ f * EraSize \in Nat BY <1>1, <1>4, <1>5, Times
  <2> QED BY <1>1, <1>2, <1>4, <1>5, <2>1, <2>2, <2>3
<1> QED BY <1>2, <1>3, <1>4, <1>5, <1>6 DEF First

\* What process_iter takes of a file is the blocks from the next one on, to the
\* end of the file or of the range, and nothing if that is behind.
LEMMA TakenBlocks ==
  ASSUME TypeOK, NEW f \in 0..LastFile, NEW h, h = job.height,
         NEW top, top = IF Last(f) <= Target(h) THEN Last(f) ELSE Target(h)
  PROVE  /\ h \in 0..Goal /\ max \in Nat /\ Goal \in Nat /\ top \in Int
         /\ Target(h) >= h \/ h > max
         /\ top <= Goal
         /\ \A b \in Taken(f) : b \in Nat /\ h < b /\ b <= top
         /\ Taken(f) # {} => top \in Taken(f)
         /\ h + 1 \in Taken(f) => Taken(f) = (h + 1)..top
<1>1. EraSize \in Nat \ {0} /\ LastBlock \in Nat /\ EraStep \in Nat /\ max \in Nat
  BY EraImportAssumption DEF TypeOK
<1>2. h \in 0..Goal /\ Goal \in Nat /\ Goal <= max /\ Goal <= LastBlock
      /\ (Goal = max \/ Goal = LastBlock)
  BY <1>1 DEF Goal, TypeOK
<1>3. f \in Nat /\ First(f) \in Nat /\ Last(f) \in Int /\ Last(f) <= LastBlock
  BY <1>1, Files
<1>4. Target(h) \in Nat /\ Target(h) <= max /\ h <= Target(h)
  BY <1>1, <1>2 DEF Target
<1>5. \A b : b \in Taken(f) <=> b \in Int /\ First(f) <= b /\ b <= Last(f)
                                 /\ h < b /\ b <= Target(h)
  BY <1>3 DEF Taken
<1>6. top \in Int /\ top <= Goal /\ top <= Last(f) /\ top <= Target(h)
      /\ (top = Last(f) \/ top = Target(h))
  BY <1>1, <1>2, <1>3, <1>4
<1>7. \A b \in Taken(f) : b \in Nat /\ h < b /\ b <= top
  BY <1>2, <1>3, <1>4, <1>5
<1>8. ASSUME Taken(f) # {} PROVE top \in Taken(f)
  <2>1. PICK b \in Taken(f) : TRUE BY <1>8
  <2> QED BY <1>2, <1>3, <1>5, <1>6, <1>7, <2>1
<1>9. ASSUME h + 1 \in Taken(f) PROVE Taken(f) = (h + 1)..top
  <2>1. \A b : b \in Taken(f) => b \in (h + 1)..top BY <1>2, <1>6, <1>7
  <2>2. \A b : b \in (h + 1)..top => b \in Taken(f) BY <1>2, <1>3, <1>4, <1>5, <1>6, <1>9
  <2> QED BY <2>1, <2>2
<1> QED BY <1>1, <1>2, <1>4, <1>6, <1>7, <1>8, <1>9

(***************************************************************************)
(* Types, heights and the index.                                           *)
(***************************************************************************)
Inv == TypeOK /\ Heights /\ Index

Message == [type : {"file", "end", "error"}, file : 0..LastFile]

JobType ==
  [pc : {"idle", "receive", "process", "commit_static", "commit_db", "index", "done"},
   height : 0..Goal, next : 0..(LastFile + 1), ended : BOOLEAN,
   channel : Seq(Message), file : 0..LastFile, collected : SUBSET (1..Goal)]

LEMMA Constants ==
  ASSUME max \in MaxHeights
  PROVE  /\ EraSize \in Nat \ {0} /\ EraStep \in Nat /\ LastBlock \in Nat
         /\ max \in Nat /\ Goal \in Nat /\ LastFile \in Nat
         /\ 0 \in 0..Goal /\ 0 \in 0..LastFile /\ 0 \in 0..(LastFile + 1)
BY EraImportAssumption, Files DEF Goal

LEMMA NoJobType ==
  ASSUME max \in MaxHeights
  PROVE  NoJob \in JobType
<1>1. NoJob.channel \in Seq(Message)
  BY DEF NoJob
<1> QED BY <1>1, Constants DEF NoJob, JobType

LEMMA InitInv == Init => Inv
<1> SUFFICES ASSUME Init PROVE Inv
  OBVIOUS
<1>1. max \in MaxHeights BY DEF Init
<1>2. 0 \in 0..Goal /\ Goal \in Nat /\ faults \in 0..MaxFaults
  BY <1>1, Constants, EraImportAssumption DEF Init
<1>3. job \in JobType BY <1>1, NoJobType DEF Init
<1>4. {0} = 0..0 OBVIOUS
<1>5. TypeOK BY <1>1, <1>2, <1>3, <1>4 DEF Init, TypeOK, JobType, Message
<1>6. ~Running /\ Heights BY DEF Init, NoJob, Running, Heights
<1>7. Index BY <1>4, <1>6 DEF Init, NoJob, Index
<1> QED BY <1>5, <1>6, <1>7 DEF Inv

LEMMA StartInv == ASSUME Inv, Start PROVE Inv'
<1>0. max \in MaxHeights /\ MaxHeights \subseteq Nat BY EraImportAssumption DEF Inv, TypeOK
<1>1. db.height \in 0..Goal BY DEF Inv, TypeOK
<1>2. (db.height + 1) \div EraSize \in 0..(LastFile + 1) BY <1>0, <1>1, StartFile
<1>3. job' \in JobType BY <1>0, <1>1, <1>2, NoJobType DEF Start, JobType
<1>4. job'.pc = "receive" /\ job'.height = db.height /\ job'.collected = {}
      /\ job'.channel = <<>> /\ Running'
  BY DEF Start, NoJob, Running
<1>5. TypeOK' BY <1>0, <1>1, <1>3 DEF Start, Inv, TypeOK, JobType, Message, Goal
<1>6. Heights' BY <1>4 DEF Start, Heights
<1>7. Index' BY <1>4 DEF Start, Inv, Index
<1> QED BY <1>5, <1>6, <1>7 DEF Inv

LEMMA JobIsTyped ==
  ASSUME Inv
  PROVE  /\ job \in JobType /\ job.channel \in Seq(Message)
         /\ job.next \in 0..(LastFile + 1)
BY DEF Inv, TypeOK, JobType, Message

\* A message is put into the channel.
LEMMA SentInv ==
  ASSUME Inv, Running, NEW message \in Message, NEW next \in 0..(LastFile + 1),
         NEW ended \in BOOLEAN, job' = Sent(message, next, ended),
         UNCHANGED <<max, db, static>>, folder' \subseteq 0..LastFile,
         faults' \in 0..MaxFaults,
         faults' = 0 => faults = 0 /\ message.type # "error"
  PROVE  Inv'
<1>1. job \in JobType /\ job.channel \in Seq(Message) BY JobIsTyped
<1>2. PICK channel : channel = Append(job.channel, message) OBVIOUS
<1>3. channel \in Seq(Message) BY <1>1, <1>2
<1>4. job' = [job EXCEPT !.channel = channel, !.next = next, !.ended = ended]
  BY <1>2 DEF Sent
<1>5. /\ job' \in JobType
      /\ job'.pc = job.pc /\ job'.height = job.height /\ job'.collected = job.collected
      /\ job'.channel = channel
  BY <1>1, <1>3, <1>4 DEF JobType
<1>6. TypeOK' BY <1>5 DEF Inv, TypeOK, JobType, Message, Goal
<1>7. Heights' BY <1>5 DEF Inv, Heights
<1>8. Index'
  <2>1. Running' BY <1>5 DEF Running
  <2>2. ASSUME faults' = 0, NEW i \in 1..Len(channel)
        PROVE  channel[i].type # "error"
    <3>1. \A k \in 1..Len(job.channel) : job.channel[k].type # "error"
      BY <2>2 DEF Inv, Index
    <3>2. \/ i \in 1..Len(job.channel) /\ channel[i] = job.channel[i]
          \/ channel[i] = message
      BY <1>1, <1>2
    <3> QED BY <2>2, <3>1, <3>2
  <2> QED BY <1>5, <2>1, <2>2 DEF Inv, Index
<1> QED BY <1>6, <1>7, <1>8 DEF Inv

LEMMA DownloaderInv ==
  ASSUME Inv, Download \/ DownloadEnds \/ DownloadFails
  PROVE  Inv'
<1>1. /\ job.next \in 0..(LastFile + 1) /\ LastFile \in Nat /\ 0 \in 0..LastFile
      /\ folder \subseteq 0..LastFile /\ faults \in 0..MaxFaults /\ MaxFaults \in Nat
  BY JobIsTyped, Constants, EraImportAssumption DEF Inv, TypeOK
<1>2. Running BY DEF Download, DownloadEnds, DownloadFails, MaySend
<1>3. CASE Download
  <2>1. job.next \in 0..LastFile /\ job.next + 1 \in 0..(LastFile + 1)
    BY <1>1, <1>3 DEF Download
  <2>2. [type |-> "file", file |-> job.next] \in Message BY <2>1 DEF Message
  <2>3. folder' \subseteq 0..LastFile BY <1>1, <1>3, <2>1 DEF Download
  <2>4. UNCHANGED <<max, db, static, faults>>
        /\ job' = Sent([type |-> "file", file |-> job.next], job.next + 1, FALSE)
    BY <1>3 DEF Download
  <2> QED BY <1>1, <1>2, <2>1, <2>2, <2>3, <2>4, SentInv
<1>4. CASE DownloadEnds
  <2>1. [type |-> "end", file |-> 0] \in Message BY <1>1 DEF Message
  <2>2. UNCHANGED <<max, db, static, folder, faults>>
        /\ job' = Sent([type |-> "end", file |-> 0], job.next, TRUE)
    BY <1>4 DEF DownloadEnds
  <2> QED BY <1>1, <1>2, <2>1, <2>2, SentInv
<1>5. CASE DownloadFails
  <2>1. [type |-> "error", file |-> 0] \in Message BY <1>1 DEF Message
  <2>2. UNCHANGED <<max, db, static, folder>> /\ faults < MaxFaults /\ faults' = faults + 1
        /\ job' = Sent([type |-> "error", file |-> 0], job.next, TRUE)
    BY <1>5 DEF DownloadFails
  <2>3. faults' \in 0..MaxFaults /\ faults' # 0 BY <1>1, <2>2
  <2> QED BY <1>1, <1>2, <2>1, <2>2, <2>3, SentInv
<1> QED BY <1>3, <1>4, <1>5

\* A message is taken off the channel.
LEMMA ReceiveInv ==
  ASSUME Inv, ReceiveFile \/ ReceiveEnd
  PROVE  Inv'
<1>0. job \in JobType /\ job.channel \in Seq(Message) BY JobIsTyped
<1>1. UNCHANGED <<max, db, static, folder, faults>> /\ Running
      /\ job.pc = "receive" /\ job.channel # <<>>
  BY DEF ReceiveFile, ReceiveEnd, Received, Running
<1>2. /\ job'.pc \in {"process", "index"} /\ job'.height = job.height
      /\ job'.channel = Tail(job.channel) /\ job'.collected = job.collected
      /\ job' \in JobType
  <2>1. PICK message, rest : message = Head(job.channel) /\ rest = Tail(job.channel)
    OBVIOUS
  <2>2. message \in Message /\ rest \in Seq(Message) BY <1>0, <1>1, <2>1
  <2>3. message.file \in 0..LastFile BY <2>2 DEF Message
  <2>4. \/ job' = [job EXCEPT !.pc = "process", !.channel = rest, !.file = message.file]
        \/ job' = [job EXCEPT !.pc = "index", !.channel = rest]
    BY <2>1 DEF ReceiveFile, ReceiveEnd
  <2> QED BY <1>0, <2>1, <2>2, <2>3, <2>4 DEF JobType
<1>3. TypeOK' BY <1>1, <1>2 DEF Inv, TypeOK, JobType, Message, Goal
<1>4. Heights' BY <1>1, <1>2 DEF Inv, Heights
<1>5. Index'
  <2>1. Running' BY <1>2 DEF Running
  <2>2. \A i \in 1..Len(job'.channel) :
          i + 1 \in 1..Len(job.channel) /\ job'.channel[i] = job.channel[i + 1]
    BY <1>0, <1>1, <1>2
  <2> QED BY <1>1, <1>2, <2>1, <2>2 DEF Inv, Index
<1> QED BY <1>3, <1>4, <1>5 DEF Inv

\* The process ends.
LEMMA EndInv ==
  ASSUME Inv, ReceiveError \/ Crash
  PROVE  Inv'
<1>0. max \in MaxHeights BY DEF Inv, TypeOK
<1>1. job' = NoJob /\ UNCHANGED <<max, db, static, folder>>
  BY DEF ReceiveError, Crash
<1>2. faults' \in 0..MaxFaults /\ faults' # 0
  <2>1. CASE Crash
    <3>1. MaxFaults \in Nat /\ faults \in 0..MaxFaults BY EraImportAssumption DEF Inv, TypeOK
    <3>2. faults < MaxFaults /\ faults' = faults + 1 BY <2>1 DEF Crash
    <3> QED BY <3>1, <3>2
  <2>2. CASE ReceiveError
    <3>1. job.channel \in Seq([type : {"file", "end", "error"}, file : 0..LastFile])
          /\ job.channel # <<>> /\ Head(job.channel).type = "error"
      BY <2>2 DEF ReceiveError, Received, Inv, TypeOK
    <3>2. 1 \in 1..Len(job.channel) /\ job.channel[1].type = "error" BY <3>1
    <3> QED BY <2>2, <3>2 DEF ReceiveError, Inv, TypeOK, Index
  <2> QED BY <2>1, <2>2
<1>3. NoJob \in JobType BY <1>0, NoJobType
<1>4. TypeOK' BY <1>1, <1>2, <1>3 DEF Inv, TypeOK, JobType, Message, Goal
<1>5. Heights' BY <1>1 DEF Heights, NoJob
<1>6. Index' BY <1>1, <1>2 DEF Index, NoJob
<1> QED BY <1>4, <1>5, <1>6 DEF Inv

\* What a file adds.
LEMMA ProcessEffect ==
  ASSUME Inv, Process, NEW h, h = job.height, NEW f, f = job.file,
         NEW top, top = IF Last(f) <= Target(h) THEN Last(f) ELSE Target(h)
  PROVE  /\ job.pc = "process" /\ job'.pc = "commit_static"
         /\ job' \in JobType /\ h \in Nat
         /\ job'.channel = job.channel /\ job'.file = f
         /\ job'.next = job.next /\ job'.ended = job.ended
         /\ \/ Taken(f) = {} /\ job'.height = h /\ job'.collected = job.collected
            \/ /\ Taken(f) # {} /\ job'.height = top /\ h < top /\ Taken(f) = (h + 1)..top
               /\ job'.collected = job.collected \cup Taken(f)
         /\ UNCHANGED <<max, db, static, faults>>
<1>0. /\ job \in JobType /\ f \in 0..LastFile /\ job.pc = "process" /\ TypeOK
      /\ UNCHANGED <<max, db, static, faults>>
      /\ Taken(f) = {} \/ h + 1 \in Taken(f)
  BY JobIsTyped DEF Inv, JobType, Process
<1>1. /\ h \in 0..Goal /\ Goal \in Nat /\ top \in Int /\ top <= Goal
      /\ \A b \in Taken(f) : b \in Nat /\ h < b /\ b <= top
      /\ Taken(f) # {} => top \in Taken(f)
      /\ h + 1 \in Taken(f) => Taken(f) = (h + 1)..top
  BY <1>0, TakenBlocks
<1>2. PICK blocks, last :
        blocks = Taken(f) /\ last = CHOOSE b \in blocks : \A c \in blocks : c <= b
  OBVIOUS
<1>3. blocks # {} => last = top
  <2> SUFFICES ASSUME blocks # {} PROVE last = top
    OBVIOUS
  <2>1. top \in blocks /\ \A c \in blocks : c <= top BY <1>1, <1>2
  <2>2. last \in blocks /\ \A c \in blocks : c <= last BY <1>2, <2>1
  <2> QED BY <1>1, <1>2, <2>1, <2>2
<1>4. job' = [job EXCEPT !.pc = "commit_static",
                         !.height = IF blocks = {} THEN h ELSE last,
                         !.collected = job.collected \cup blocks]
  BY <1>2 DEF Process, Collected
<1>5. CASE blocks = {}
  <2>1. job' = [job EXCEPT !.pc = "commit_static"]
    <3>1. job' = [job EXCEPT !.pc = "commit_static", !.height = job.height,
                             !.collected = job.collected]
      BY <1>4, <1>5
    <3> QED BY <1>0, <3>1 DEF JobType
  <2> QED BY <1>0, <1>1, <1>2, <1>5, <2>1 DEF JobType
<1>6. CASE blocks # {}
  <2>1. top \in 0..Goal /\ h < top
    <3>1. top \in Taken(f) BY <1>1, <1>2, <1>6
    <3>2. top \in Nat /\ h < top BY <1>1, <3>1
    <3> QED BY <1>1, <3>2
  <2>2. blocks \subseteq 1..Goal
    <3> SUFFICES ASSUME NEW b \in blocks PROVE b \in 1..Goal
      OBVIOUS
    <3>1. b \in Nat /\ h < b /\ b <= top BY <1>1, <1>2
    <3>2. h \in Nat /\ top \in Int /\ top <= Goal /\ Goal \in Nat BY <1>1
    <3> QED BY <3>1, <3>2
  <2>3. job.collected \cup blocks \in SUBSET (1..Goal) BY <1>0, <2>2 DEF JobType
  <2>4. PICK all : all = job.collected \cup blocks OBVIOUS
  <2>5. job' = [job EXCEPT !.pc = "commit_static", !.height = top, !.collected = all]
    BY <1>3, <1>4, <1>6, <2>4
  <2>6. /\ job' \in JobType /\ job'.pc = "commit_static" /\ job'.height = top
        /\ job'.collected = all
        /\ job'.channel = job.channel /\ job'.file = job.file
        /\ job'.next = job.next /\ job'.ended = job.ended
    BY <1>0, <2>1, <2>3, <2>4, <2>5 DEF JobType
  <2>7. blocks = (h + 1)..top BY <1>0, <1>1, <1>2, <1>6
  <2> QED BY <1>0, <1>1, <1>2, <1>6, <2>1, <2>4, <2>6, <2>7
<1> QED BY <1>5, <1>6

LEMMA ProcessInv == ASSUME Inv, Process PROVE Inv'
<1>0. PICK h, f, top : h = job.height /\ f = job.file
                      /\ top = IF Last(f) <= Target(h) THEN Last(f) ELSE Target(h)
  OBVIOUS
<1>1. /\ job.pc = "process" /\ job'.pc = "commit_static"
      /\ job' \in JobType /\ h \in Nat
      /\ job'.channel = job.channel
      /\ \/ Taken(f) = {} /\ job'.height = h /\ job'.collected = job.collected
         \/ /\ Taken(f) # {} /\ job'.height = top /\ h < top /\ Taken(f) = (h + 1)..top
            /\ job'.collected = job.collected \cup Taken(f)
      /\ UNCHANGED <<max, db, static, faults>>
  BY <1>0, ProcessEffect
<1>2. folder' \subseteq 0..LastFile BY DEF Process, FolderAfter, Inv, TypeOK
<1>3. TypeOK' BY <1>1, <1>2 DEF Inv, TypeOK, JobType, Message, Goal
<1>4. h = db.height /\ h <= job'.height
  <2>1. h = db.height BY <1>0, <1>1 DEF Inv, Heights
  <2>2. job'.height \in Nat BY <1>1, Constants DEF JobType, Inv, TypeOK
  <2> QED BY <1>1, <2>1, <2>2
<1>5. Heights' BY <1>1, <1>4 DEF Heights
<1>6. Index'
  <2>1. Running /\ Running' BY <1>1 DEF Running
  <2>2. ASSUME faults = 0 PROVE db.indexed \cup job'.collected = 0..job'.height
    <3>1. db.indexed \cup job.collected = 0..h BY <1>0, <2>1, <2>2 DEF Inv, Index
    <3>2. CASE Taken(f) # {}
      <4>1. job'.height = top /\ Taken(f) = (h + 1)..top
            /\ job'.collected = job.collected \cup ((h + 1)..top) /\ h < top
        BY <1>1, <3>2
      <4>2. top \in Nat BY <1>1, <4>1, Constants DEF JobType, Inv, TypeOK
      <4>3. (0..h) \cup ((h + 1)..top) = 0..top BY <1>1, <4>1, <4>2
      <4> QED BY <3>1, <4>1, <4>3
    <3> QED BY <1>1, <3>1, <3>2
  <2> QED BY <1>1, <2>1, <2>2 DEF Inv, Index
<1> QED BY <1>3, <1>5, <1>6 DEF Inv

LEMMA CommitInv ==
  ASSUME Inv, CommitStatic \/ CommitDb \/ BuildIndex
  PROVE  Inv'
<1>0. /\ job \in JobType /\ max \in MaxHeights
      /\ db \in [height : 0..Goal, indexed : SUBSET (0..Goal)]
      /\ static \in [headers : db.height..Goal, receipts : {static.headers}]
      /\ Goal \in Nat
  BY JobIsTyped, Constants DEF Inv, TypeOK
<1>1. CASE CommitStatic
  <2>1. /\ job.pc = "commit_static" /\ job'.pc = "commit_db" /\ job' \in JobType
        /\ static'.headers = job.height /\ job'.height = job.height
        /\ job'.channel = job.channel /\ job'.collected = job.collected
        /\ static' = [headers |-> job.height, receipts |-> job.height]
        /\ UNCHANGED <<max, db, folder, faults>> /\ Running /\ Running'
    BY <1>0, <1>1 DEF CommitStatic, JobType, Running
  <2>2. job.height \in db.height..Goal BY <1>0, <2>1 DEF Inv, Heights, JobType
  <2>3. TypeOK' BY <2>1, <2>2 DEF Inv, TypeOK, JobType, Message, Goal
  <2>4. Heights' BY <2>1 DEF Heights
  <2>5. Index' BY <2>1 DEF Inv, Index
  <2> QED BY <2>3, <2>4, <2>5 DEF Inv
<1>2. CASE CommitDb
  <2>1. /\ job.pc = "commit_db" /\ job'.pc \in {"index", "receive"} /\ job' \in JobType
        /\ db'.height = job.height /\ job'.height = job.height /\ db'.indexed = db.indexed
        /\ job'.channel = job.channel /\ job'.collected = job.collected
        /\ db' \in [height : 0..Goal, indexed : SUBSET (0..Goal)]
        /\ UNCHANGED <<max, static, folder, faults>> /\ Running /\ Running'
    BY <1>0, <1>2 DEF CommitDb, JobType, Running
  <2>2. static' \in [headers : db'.height..Goal, receipts : {static'.headers}]
    <3>1. static.headers = job.height BY <2>1 DEF Inv, Heights
    <3>2. static.headers \in 0..Goal BY <1>0, <3>1 DEF JobType
    <3> QED BY <1>0, <2>1, <3>1, <3>2
  <2>3. TypeOK' BY <2>1, <2>2 DEF Inv, TypeOK, JobType, Message, Goal
  <2>4. Heights' BY <2>1 DEF Heights
  <2>5. Index' BY <2>1 DEF Inv, Index
  <2> QED BY <2>3, <2>4, <2>5 DEF Inv
<1>3. CASE BuildIndex
  <2>1. /\ job.pc = "index" /\ job' = [NoJob EXCEPT !.pc = "done"]
        /\ db'.height = db.height /\ db'.indexed = db.indexed \cup job.collected
        /\ db' \in [height : 0..Goal, indexed : SUBSET (0..Goal)]
        /\ UNCHANGED <<max, static, folder, faults>> /\ Running
    <3>1. db.indexed \cup job.collected \in SUBSET (0..Goal) BY <1>0 DEF JobType
    <3> QED BY <1>0, <1>3, <3>1 DEF BuildIndex, Running
  <2>2. /\ job' \in JobType /\ job'.pc = "done" /\ job'.collected = {}
        /\ job'.channel = <<>> /\ ~Running'
    BY <1>0, <2>1, NoJobType DEF JobType, NoJob, Running
  <2>3. TypeOK' BY <1>0, <2>1, <2>2 DEF Inv, TypeOK, JobType, Message, Goal
  <2>4. Heights' BY <2>2 DEF Heights
  <2>5. job.height = db.height BY <2>1 DEF Inv, Heights
  <2>6. Index' BY <2>1, <2>2, <2>5 DEF Inv, Index
  <2> QED BY <2>3, <2>4, <2>6 DEF Inv
<1> QED BY <1>1, <1>2, <1>3

LEMMA NextInv == Inv /\ [Next]_vars => Inv'
<1> SUFFICES ASSUME Inv, [Next]_vars PROVE Inv'
  OBVIOUS
<1>1. CASE UNCHANGED vars
  BY <1>1 DEF vars, Inv, TypeOK, Goal, Heights, Index, Running
<1>2. CASE Next
  BY <1>2, StartInv, DownloaderInv, ReceiveInv, EndInv, ProcessInv, CommitInv
     DEF Next, Downloader, Importer
<1> QED BY <1>1, <1>2

LEMMA AlwaysInv == Spec => []Inv
<1> QED BY InitInv, NextInv, PTL DEF Spec

\* No process, wherever it stops, commits a height past the bound or a database
\* ahead of its static files.
THEOREM TypeCorrect == Spec => []TypeOK
<1>1. Inv => TypeOK BY DEF Inv
<1> QED BY AlwaysInv, <1>1, PTL

\* An import that nothing interrupted has indexed every block it imported.
THEOREM IndexIsWhole == Spec => []IndexedUnlessInterrupted
<1>1. Inv => IndexedUnlessInterrupted
  BY DEF Inv, Index, Running, IndexedUnlessInterrupted
<1> QED BY AlwaysInv, <1>1, PTL

(***************************************************************************)
(* The order of the files.  A range of the loop is at least a file long    *)
(* (ERA_STEP is the size of an ERA1 file): with a smaller one process_iter *)
(* would leave blocks of a file behind.                                    *)
(***************************************************************************)
LEMMA InitOrder == Init => Order
BY DEF Init, NoJob, Order

LEMMA StartOrder == ASSUME Inv, Start PROVE Order'
<1>0. max \in MaxHeights /\ MaxHeights \subseteq Nat BY EraImportAssumption DEF Inv, TypeOK
<1>1. db.height \in 0..Goal BY DEF Inv, TypeOK
<1>2. PICK f : f = (db.height + 1) \div EraSize OBVIOUS
<1>3. f \in Nat /\ First(f) <= db.height + 1
  <2>1. f \in 0..(LastFile + 1) /\ First(f) <= db.height + 1
    BY <1>0, <1>1, <1>2, StartFile
  <2> QED BY <2>1, Files
<1>4. job'.pc = "receive" /\ job'.height = db.height /\ job'.channel = <<>>
      /\ job'.next = f /\ ~job'.ended
  BY <1>2 DEF Start, NoJob
<1>5. ChannelFrom(job', f) BY <1>3, <1>4 DEF ChannelFrom
<1>6. FollowsOn(f, job'.height) BY <1>3, <1>4 DEF FollowsOn
<1> QED BY <1>3, <1>4, <1>5, <1>6 DEF Order

\* A message that continues the channel.
LEMMA SentOrder ==
  ASSUME Inv, Order, NEW message \in Message, NEW next, NEW ended \in BOOLEAN,
         job' = Sent(message, next, ended), ~job.ended, UNCHANGED <<max, db>>,
         \/ message.type = "file" /\ message.file = job.next /\ next = job.next + 1 /\ ~ended
         \/ message.type # "file" /\ ended
  PROVE  Order'
<1>1. job \in JobType /\ job.channel \in Seq(Message) /\ job.next \in Nat
      /\ job.file \in Nat
  <2>1. job \in JobType /\ job.channel \in Seq(Message) /\ job.next \in 0..(LastFile + 1)
    BY JobIsTyped
  <2>2. max \in MaxHeights BY DEF Inv, TypeOK
  <2>3. LastFile \in Nat BY <2>2, Constants
  <2>4. job.file \in 0..LastFile BY <2>1 DEF JobType
  <2> QED BY <2>1, <2>3, <2>4
<1>2. PICK channel : channel = Append(job.channel, message) OBVIOUS
<1>3. job' = [job EXCEPT !.channel = channel, !.next = next, !.ended = ended]
  BY <1>2 DEF Sent
<1>4. /\ job'.pc = job.pc /\ job'.height = job.height /\ job'.file = job.file
      /\ job'.channel = channel /\ job'.next = next /\ job'.ended = ended
  BY <1>1, <1>3 DEF JobType
<1>5. /\ Len(channel) = Len(job.channel) + 1 /\ Len(job.channel) \in Nat
      /\ channel[Len(channel)] = message
      /\ \A i \in 1..Len(job.channel) : channel[i] = job.channel[i]
  BY <1>1, <1>2
<1>6. ASSUME NEW f \in Nat, ChannelFrom(job, f) PROVE ChannelFrom(job', f)
  <2>1. job.next = f + Len(job.channel) BY <1>6 DEF ChannelFrom
  <2>2. ASSUME NEW i \in 1..Len(channel)
        PROVE  IF channel[i].type = "file" THEN channel[i].file = f + i - 1
               ELSE i = Len(channel) /\ ended
    <3>1. CASE i = Len(channel) BY <1>1, <1>5, <1>6, <2>1, <3>1
    <3>2. CASE i # Len(channel)
      <4>1. i \in 1..Len(job.channel) /\ channel[i] = job.channel[i] BY <1>5, <3>2
      <4> QED BY <1>6, <4>1 DEF ChannelFrom
    <3> QED BY <3>1, <3>2
  <2>3. ~ended => next = f + Len(channel) BY <1>1, <1>5, <1>6, <2>1
  <2> QED BY <1>4, <2>2, <2>3 DEF ChannelFrom
<1>7. job.file + 1 \in Nat BY <1>1
<1>8. Stops(db.height)' <=> Stops(db.height) BY DEF Stops
<1> QED BY <1>4, <1>6, <1>7, <1>8 DEF Order, FollowsOn

LEMMA DownloaderOrder ==
  ASSUME Inv, Order, Download \/ DownloadEnds \/ DownloadFails
  PROVE  Order'
<1>1. LastFile \in Nat /\ 0 \in 0..LastFile /\ job.next \in 0..(LastFile + 1)
  BY JobIsTyped, Constants DEF Inv, TypeOK
<1>2. ~job.ended /\ UNCHANGED <<max, db>>
  BY DEF Download, DownloadEnds, DownloadFails, MaySend
<1>3. CASE Download
  <2>1. PICK message : message = [type |-> "file", file |-> job.next] OBVIOUS
  <2>2. job.next \in 0..LastFile BY <1>1, <1>3 DEF Download
  <2>3. message \in Message /\ message.type = "file" /\ message.file = job.next
    BY <2>1, <2>2 DEF Message
  <2>4. job' = Sent(message, job.next + 1, FALSE) BY <1>3, <2>1 DEF Download
  <2> QED BY <1>2, <2>3, <2>4, SentOrder
<1>4. CASE DownloadEnds \/ DownloadFails
  <2>1. PICK type \in {"end", "error"} : job' = Sent([type |-> type, file |-> 0], job.next, TRUE)
    BY <1>4 DEF DownloadEnds, DownloadFails
  <2>2. PICK message : message = [type |-> type, file |-> 0] OBVIOUS
  <2>3. message \in Message /\ message.type # "file" BY <1>1, <2>2 DEF Message
  <2> QED BY <1>2, <2>1, <2>2, <2>3, SentOrder
<1> QED BY <1>3, <1>4

LEMMA ReceiveFileOrder ==
  ASSUME Inv, Order, ReceiveFile
  PROVE  Order'
<1>1. /\ job \in JobType /\ job.channel \in Seq(Message)
      /\ job.pc = "receive" /\ job.channel # <<>> /\ Head(job.channel).type = "file"
      /\ UNCHANGED <<max, db>>
  BY JobIsTyped DEF ReceiveFile, Received
<1>2. PICK message, rest : message = Head(job.channel) /\ rest = Tail(job.channel)
  OBVIOUS
<1>3. /\ message = job.channel[1] /\ message \in Message /\ message.type = "file"
      /\ 1 \in 1..Len(job.channel) /\ Len(job.channel) \in Nat
      /\ Len(rest) = Len(job.channel) - 1
      /\ \A i \in 1..Len(rest) : i + 1 \in 1..Len(job.channel) /\ rest[i] = job.channel[i + 1]
  BY <1>1, <1>2
<1>4. job' = [job EXCEPT !.pc = "process", !.channel = rest, !.file = message.file]
  BY <1>2 DEF ReceiveFile
<1>5. /\ job'.pc = "process" /\ job'.height = job.height /\ job'.file = message.file
      /\ job'.channel = rest /\ job'.next = job.next /\ job'.ended = job.ended
  BY <1>1, <1>4 DEF JobType
<1>6. PICK f \in Nat : ChannelFrom(job, f) /\ FollowsOn(f, job.height)
  BY <1>1 DEF Order
<1>7. message.file = f BY <1>3, <1>6 DEF ChannelFrom
<1>8. ChannelFrom(job', f + 1)
  <2>1. ASSUME NEW i \in 1..Len(rest)
        PROVE  IF rest[i].type = "file" THEN rest[i].file = f + 1 + i - 1
               ELSE i = Len(rest) /\ job.ended
    <3>1. i + 1 \in 1..Len(job.channel) /\ rest[i] = job.channel[i + 1] BY <1>3
    <3>2. IF job.channel[i + 1].type = "file" THEN job.channel[i + 1].file = f + (i + 1) - 1
          ELSE i + 1 = Len(job.channel) /\ job.ended
      BY <1>6, <3>1 DEF ChannelFrom
    <3>3. f + (i + 1) - 1 = f + 1 + i - 1 /\ (i + 1 = Len(job.channel) => i = Len(rest))
      BY <1>3
    <3> QED BY <3>1, <3>2, <3>3
  <2>2. ~job.ended => job.next = f + 1 + Len(rest)
    <3>1. ~job.ended => job.next = f + Len(job.channel) BY <1>6 DEF ChannelFrom
    <3>2. Len(rest) = Len(job.channel) - 1 /\ Len(job.channel) \in Nat
      BY <1>3
    <3>3. PICK m, n : m = Len(rest) /\ n = Len(job.channel) OBVIOUS
    <3>4. m = n - 1 /\ n \in Nat BY <3>2, <3>3
    <3>5. f + n = f + 1 + m BY <3>4
    <3> QED BY <3>1, <3>3, <3>5, Zenon
  <2> QED BY <1>5, <2>1, <2>2 DEF ChannelFrom
<1>9. FollowsOn(job'.file, job'.height) BY <1>5, <1>6, <1>7
<1>10. ChannelFrom(job', job'.file + 1) BY <1>5, <1>7, <1>8
<1> QED BY <1>5, <1>9, <1>10 DEF Order, FollowsOn

\* After a file of which everything was taken comes the next one.
LEMMA ProcessOrder ==
  ASSUME EraSize <= EraStep, Inv, Order, Process
  PROVE  Order'
<1>0. PICK h, f, top : h = job.height /\ f = job.file
                      /\ top = IF Last(f) <= Target(h) THEN Last(f) ELSE Target(h)
  OBVIOUS
<1>1. /\ job.pc = "process" /\ job'.pc = "commit_static" /\ h \in Nat
      /\ job'.channel = job.channel /\ job'.file = f
      /\ job'.next = job.next /\ job'.ended = job.ended
      /\ \/ Taken(f) = {} /\ job'.height = h
         \/ Taken(f) # {} /\ job'.height = top /\ h < top
      /\ UNCHANGED <<max, db>>
  BY <1>0, ProcessEffect
<1>2. /\ EraSize \in Nat \ {0} /\ EraStep \in Nat /\ max \in Nat /\ LastFile \in Nat
      /\ f \in 0..LastFile
  BY <1>0, Constants DEF Inv, TypeOK
<1>3. ChannelFrom(job', f + 1)
  <2>1. ChannelFrom(job, f + 1) BY <1>0, <1>1 DEF Order
  <2> QED BY <1>1, <2>1 DEF ChannelFrom
<1>4. FollowsOn(f, h) /\ db.height = h BY <1>0, <1>1 DEF Order, Inv, Heights
<1>5. ASSUME ~Stops(h), f + 1 <= LastFile PROVE First(f + 1) <= job'.height + 1
  <2>1. Target(h) = h + EraStep BY <1>5 DEF Target, Stops
  <2>2. First(f) \in Nat /\ First(f) <= h + 1 BY <1>2, <1>4, Files DEF FollowsOn
  <2>3. f \in Nat /\ f < LastFile BY <1>2, <1>5
  <2>4. Last(f) = First(f) + EraSize - 1 /\ First(f + 1) = First(f) + EraSize
    BY <2>3, Files
  <2>5. top = Last(f) BY <1>0, <1>1, <1>2, <2>1, <2>2, <2>4
  <2>6. CASE Taken(f) # {}
    BY <1>1, <1>2, <2>2, <2>4, <2>5, <2>6
  <2>7. CASE Taken(f) = {}
    <3>1. h + 1 \notin Taken(f) BY <2>7
    <3>2. ~(First(f) <= h + 1 /\ h + 1 <= Last(f) /\ h + 1 <= Target(h))
      BY <1>0, <1>1, <1>2, <2>2, <2>4, <3>1 DEF Taken
    <3>3. h + 1 <= Target(h) BY <1>1, <1>2, <2>1
    <3>4. Last(f) < h + 1 BY <1>1, <1>2, <2>2, <2>4, <3>2, <3>3
    <3> QED BY <1>1, <1>2, <2>2, <2>4, <2>7, <3>4
  <2> QED BY <2>6, <2>7
<1>6. Stops(db.height)' \/ FollowsOn(f + 1, job'.height)
  BY <1>1, <1>4, <1>5 DEF Stops, FollowsOn
<1> QED BY <1>1, <1>3, <1>6 DEF Order, FollowsOn

LEMMA CommitOrder ==
  ASSUME Inv, Order, CommitStatic \/ CommitDb
  PROVE  Order'
<1>1. CASE CommitStatic
  <2>1. /\ job.pc = "commit_static" /\ job'.pc = "commit_db" /\ UNCHANGED <<max, db>>
        /\ job'.channel = job.channel /\ job'.height = job.height /\ job'.file = job.file
        /\ job'.next = job.next /\ job'.ended = job.ended
    BY <1>1, JobIsTyped DEF CommitStatic, JobType
  <2>2. ChannelFrom(job', job'.file + 1) BY <2>1 DEF Order, ChannelFrom
  <2>3. Stops(db.height)' \/ FollowsOn(job'.file + 1, job'.height)
    BY <2>1 DEF Order, Stops
  <2> QED BY <2>1, <2>2, <2>3 DEF Order, FollowsOn
<1>2. CASE CommitDb
  <2>1. /\ job.pc = "commit_db" /\ UNCHANGED max
        /\ job'.pc = IF Stops(db.height) THEN "index" ELSE "receive"
        /\ job'.channel = job.channel /\ job'.height = job.height /\ job'.file = job.file
        /\ job'.next = job.next /\ job'.ended = job.ended
    BY <1>2, JobIsTyped DEF CommitDb, JobType
  <2>2. ChannelFrom(job', job.file + 1) BY <2>1 DEF Order, ChannelFrom
  <2>3. Stops(db.height) \/ FollowsOn(job.file + 1, job'.height)
    BY <2>1 DEF Order
  <2>4. job.file + 1 \in Nat BY JobIsTyped, Constants DEF JobType, Inv, TypeOK
  <2> QED BY <2>1, <2>2, <2>3, <2>4 DEF Order, FollowsOn
<1> QED BY <1>1, <1>2

LEMMA NextOrder ==
  ASSUME EraSize <= EraStep, Inv, Order, [Next]_vars
  PROVE  Order'
<1>1. CASE UNCHANGED vars
  BY <1>1 DEF vars, Order, ChannelFrom, FollowsOn, Stops
<1>2. CASE ReceiveEnd \/ ReceiveError \/ BuildIndex \/ Crash
  <2>1. ReceiveEnd => job'.pc = "index" BY JobIsTyped DEF ReceiveEnd, JobType
  <2>2. ReceiveError \/ Crash => job'.pc = "idle" BY DEF ReceiveError, Crash, NoJob
  <2>3. BuildIndex => job'.pc = "done" BY DEF BuildIndex, NoJob
  <2> QED BY <1>2, <2>1, <2>2, <2>3 DEF Order
<1>3. CASE Next
  BY <1>2, <1>3, StartOrder, DownloaderOrder, ReceiveFileOrder, ProcessOrder, CommitOrder
     DEF Next, Downloader, Importer
<1> QED BY <1>1, <1>3

\* No file is received with a gap to what is imported, nor out of order, wherever
\* earlier processes stopped.
THEOREM FilesComeInOrder ==
  ASSUME EraSize <= EraStep
  PROVE  Spec => []FilesFollowOn
<1>1. Init => Inv /\ Order BY InitInv, InitOrder
<1>2. Inv /\ Order /\ [Next]_vars => (Inv /\ Order)' BY NextInv, NextOrder
<1>3. Inv /\ Order => FilesFollowOn
  <2> SUFFICES ASSUME Inv, Order, job.pc = "process" PROVE FilesFollowOn
    BY DEF FilesFollowOn
  <2>1. ChannelFrom(job, job.file + 1) /\ FollowsOn(job.file, job.height) BY DEF Order
  <2>2. job.file \in 0..LastFile /\ LastFile \in Nat /\ job.channel \in Seq(Message)
    BY JobIsTyped, Constants DEF JobType, Inv, TypeOK
  <2>3. First(job.file) <= job.height + 1 BY <2>1, <2>2 DEF FollowsOn
  <2>4. ASSUME NEW i \in DOMAIN job.channel, job.channel[i].type = "file"
        PROVE  job.channel[i].file = job.file + i
    <3>1. i \in 1..Len(job.channel) BY <2>2
    <3>2. job.channel[i].file = job.file + 1 + i - 1 BY <2>1, <2>4, <3>1 DEF ChannelFrom
    <3> QED BY <2>2, <3>1, <3>2
  <2> QED BY <2>3, <2>4 DEF FilesFollowOn
<1> QED BY <1>1, <1>2, <1>3, PTL DEF Spec
===============================================================================
